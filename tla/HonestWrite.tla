----------------------------- MODULE HonestWrite ----------------------------
(***************************************************************************)
(* What the answer to a confirmed write promises, without saying how the   *)
(* write is made: "done" is said of a write that has taken effect in full, *)
(* "refused" of one that has not and never will.  Any other answer leaves  *)
(* the outcome open, and the write may land before it, with it or after.   *)
(***************************************************************************)
CONSTANT Callers

VARIABLES
  told,   \* what each caller was answered, "nothing" before
  landed  \* whether its request took effect in full

Answers == {"done", "refused", "failed", "acknowledged", "maybe", "named"}

honestVars == <<told, landed>>

HonestInit ==
  /\ told = [c \in Callers |-> "nothing"]
  /\ landed = [c \in Callers |-> FALSE]

Land(c) ==
  /\ ~landed[c]
  /\ told[c] # "refused"
  /\ landed' = [landed EXCEPT ![c] = TRUE]
  /\ UNCHANGED told

\* The answer may come with the effect.
Answer(c, w) ==
  /\ told[c] = "nothing"
  /\ told' = [told EXCEPT ![c] = w]
  /\ landed' = landed \/ landed' = [landed EXCEPT ![c] = TRUE]
  /\ w = "done" => landed'[c]
  /\ w = "refused" => ~landed'[c]

HonestNext == \E c \in Callers : Land(c) \/ \E w \in Answers : Answer(c, w)

HonestSpec == HonestInit /\ [][HonestNext]_honestVars
=============================================================================
