--------------------------- MODULE ConfirmedWrites --------------------------
(***************************************************************************)
(* What the write tools share after write-gate.ts has accepted or refused  *)
(* a confirmation: where each call is, what it answered, and what became   *)
(* of its write.  DurableWrite, AdjustmentInvoice and TechnicianAssignment *)
(* extend this module; ReportedWrites composes them.                       *)
(***************************************************************************)
EXTENDS Integers

CONSTANT Callers

VARIABLES
  tool,    \* the tool each caller confirms
  at,      \* where its handler is
  told,    \* what it was answered (HonestWrite!Answers), or "nothing"
  landed   \* whether its request took effect in full

callVars == <<at, told, landed>>

InHandler(c, t, step) == tool[c] = t /\ at[c] = step

Goes(c, step) == at' = [at EXCEPT ![c] = step]

\* The handler returns or throws.
Ends(c, answer) ==
  /\ Goes(c, "ended")
  /\ told' = [told EXCEPT ![c] = answer]

Proceeds(c, step) == Goes(c, step) /\ UNCHANGED told

\* The request takes effect in full.
Lands(c) == landed' = [landed EXCEPT ![c] = TRUE]
=============================================================================
