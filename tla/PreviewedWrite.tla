--------------------------- MODULE PreviewedWrite --------------------------
(***************************************************************************)
(* What the confirmation tokens of src/src/write-gate.ts promise, without  *)
(* saying how: a write is offered by a preview, claimed at most once, and  *)
(* sent at most once, for exactly the request that was previewed.          *)
(***************************************************************************)
CONSTANT Tokens  \* what a preview may hand out

VARIABLES
  offered,  \* tokens recorded by a preview; t.req is the request it showed
  claimed,  \* tokens a confirmation has consumed
  sent      \* the writes that left for ServiceTitan: [tok, req]

absVars == <<offered, claimed, sent>>

AbsInit == offered = {} /\ claimed = {} /\ sent = {}

Offer(t) ==
  /\ offered' = offered \cup {t}
  /\ UNCHANGED <<claimed, sent>>

Claim(t) ==
  /\ t \in offered \ claimed
  /\ claimed' = claimed \cup {t}
  /\ UNCHANGED <<offered, sent>>

Send(t) ==
  /\ t \in claimed
  /\ \A w \in sent : w.tok # t
  /\ sent' = sent \cup {[tok |-> t, req |-> t.req]}
  /\ UNCHANGED <<offered, claimed>>

AbsNext == \E t \in Tokens : Offer(t) \/ Claim(t) \/ Send(t)

AbsSpec == AbsInit /\ [][AbsNext]_absVars
=============================================================================
