--------------------------- MODULE ReportedWrites ---------------------------
(***************************************************************************)
(* Confirmed writes of three kinds, made by concurrent callers, and what   *)
(* each caller may conclude from its answer.  HonestWrite is the promise.  *)
(***************************************************************************)
EXTENDS DurableWrite, AdjustmentInvoice, TechnicianAssignment

Tools == {"durable", "adjust", "assign"}

vars == <<tool, callVars, durableVars, adjustVars, crewVars>>

Init ==
  /\ tool \in [Callers -> Tools]
  /\ at = [c \in Callers |-> "called"]
  /\ told = [c \in Callers |-> "nothing"]
  /\ landed = [c \in Callers |-> FALSE]
  /\ DurableInit
  /\ AdjustInit
  /\ AssignInit

DurableStep(c) == DurableNext(c) /\ UNCHANGED <<adjustVars, crewVars>>
AdjustStep(c) == AdjustNext(c) /\ UNCHANGED <<durableVars, crewVars>>
AssignStep(c) == AssignNext(c) /\ UNCHANGED <<durableVars, adjustVars>>
ParentStep == ParentMoves /\ UNCHANGED <<durableVars, crewVars>>

Next ==
  \/ /\ UNCHANGED tool
     /\ ParentStep \/ \E c \in Callers : DurableStep(c) \/ AdjustStep(c) \/ AssignStep(c)
  \/ (\A c \in Callers : at[c] = "ended") /\ UNCHANGED vars

\* The handler's own steps: every fetch returns or throws.
HandlerStep(c) ==
  /\ UNCHANGED tool
  /\ \/ DurableHandler(c) /\ UNCHANGED <<adjustVars, crewVars>>
     \/ AdjustHandler(c) /\ UNCHANGED <<durableVars, crewVars>>
     \/ AssignHandler(c) /\ UNCHANGED <<durableVars, adjustVars>>

Spec == Init /\ [][Next]_vars /\ \A c \in Callers : WF_vars(HandlerStep(c))

-----------------------------------------------------------------------------
(* Properties *)

\* "done" is only said of a write that took effect in full, although a replica
\* lags, lines are dropped and workflows fail; "refused" only of one that never
\* will, although workflows outlive the call that started them.
Honest == INSTANCE HonestWrite
ImplementsHonestWrite == Honest!HonestSpec

\* Once ServiceTitan acknowledged an adjustment invoice, no answer leaves it
\* out: it is verified, or named, or the caller is told that one may exist.
\* An invoice whose creation was not acknowledged is not covered.
StrayIsNamed ==
  \A c \in Callers : created[c] # "unsent" /\ told[c] # "nothing" =>
    told[c] \in (IF created[c] = "named" THEN {"done", "named"} ELSE {"maybe"})

\* Every confirmed write is answered, whatever becomes of the proxy's
\* workflow, of the replica and of the other callers.
EveryWriteIsAnswered == \A c \in Callers : <>(told[c] # "nothing")

\* A success of assign_technicians leaves exactly the technicians asked for,
\* when no other call came between its two calls, a late one included, and
\* neither was answered 200 without taking effect: the handler reads neither
\* body.
AssignsWhatItSays ==
  [][\A c \in Callers \ (overlap \cup unheeded') :
       tool[c] = "assign" /\ told[c] = "nothing" /\ told'[c] = "acknowledged"
         => crew' = Team[c]]_vars

=============================================================================
