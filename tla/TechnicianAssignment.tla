------------------------ MODULE TechnicianAssignment ------------------------
(***************************************************************************)
(* src/src/tools/jobs/assign_technicians.ts: the new crew of an            *)
(* appointment is set by two ServiceTitan calls, one that removes all its  *)
(* technicians and one that adds the new ones.  Callers assign the same    *)
(* appointment.                                                            *)
(***************************************************************************)
EXTENDS ConfirmedWrites

CONSTANT Team  \* the technicians each caller asks for

VARIABLES
  crew,      \* the technicians on the appointment
  overlap,   \* history: the callers whose two calls overlapped another's
  unheeded,  \* history: the callers one of whose calls was answered 200 in vain
  late       \* each caller's unanswered call that may still land, or "none"

crewVars == <<crew, overlap, unheeded, late>>

AssignInit ==
  /\ crew = {"before"}
  /\ overlap = {}
  /\ unheeded = {}
  /\ late = [c \in Callers |-> "none"]

Assigning(c, step) == InHandler(c, "assign", step)

Underway == {c \in Callers : Assigning(c, "unassigned")}

Meets(c) ==
  overlap' = IF Underway \ {c} = {} THEN overlap ELSE overlap \cup Underway \cup {c}

\* Both calls of a caller have had their effect.
InFull(c) == IF c \in unheeded THEN UNCHANGED landed ELSE Lands(c)

\* verifyToken, or the limiter on the first call, says no.
AssignRefused(c) ==
  /\ Assigning(c, "called")
  /\ Ends(c, "refused")
  /\ UNCHANGED <<landed, crewVars>>

\* Mutant: the first call is left out.
UnassignSkipped(c) ==
  /\ Assigning(c, "called")
  /\ Proceeds(c, "unassigned")
  /\ Meets(c)
  /\ UNCHANGED <<crew, unheeded, late, landed>>

Unassign(c) ==
  /\ Assigning(c, "called")
  /\ Proceeds(c, "unassigned")
  /\ crew' = {}
  /\ Meets(c)
  /\ UNCHANGED <<unheeded, late, landed>>

\* Only the status is looked at: a 200 that did nothing goes on as well.
UnassignWithoutEffect(c) ==
  /\ Assigning(c, "called")
  /\ Proceeds(c, "unassigned")
  /\ unheeded' = unheeded \cup {c}
  /\ Meets(c)
  /\ UNCHANGED <<crew, late, landed>>

\* An error status or a lost answer: the call may land yet.
UnassignFails(c) ==
  /\ Assigning(c, "called")
  /\ Ends(c, "failed")
  /\ late' = [late EXCEPT ![c] = "unassign"]
  /\ UNCHANGED <<crew, overlap, unheeded, landed>>

Assign(c) ==
  /\ Assigning(c, "unassigned")
  /\ Ends(c, "acknowledged")
  /\ crew' = crew \cup Team[c]
  /\ InFull(c)
  /\ UNCHANGED <<overlap, unheeded, late>>

\* A 200 that did nothing: its body, whatever it says, is the result.
AssignWithoutEffect(c) ==
  /\ Assigning(c, "unassigned")
  /\ Ends(c, "acknowledged")
  /\ unheeded' = unheeded \cup {c}
  /\ UNCHANGED <<crew, overlap, late, landed>>

\* The limiter refuses the second call: the answer is the one it gives when
\* it refuses the first, and the crew stays removed.
AssignRefusedHalfway(c) ==
  /\ Assigning(c, "unassigned")
  /\ Ends(c, "refused")
  /\ UNCHANGED <<landed, crewVars>>

AssignFails(c) ==
  /\ Assigning(c, "unassigned")
  /\ Ends(c, "failed")
  /\ late' = [late EXCEPT ![c] = "assign"]
  /\ UNCHANGED <<crew, overlap, unheeded, landed>>

\* A call whose answer was lost lands, at any time, between another
\* caller's two calls too; or it never does.
LateUnassign(c) ==
  /\ late[c] = "unassign"
  /\ late' = [late EXCEPT ![c] = "none"]
  /\ crew' = {}
  /\ overlap' = overlap \cup Underway
  /\ UNCHANGED <<unheeded, callVars>>

LateAssign(c) ==
  /\ late[c] = "assign"
  /\ late' = [late EXCEPT ![c] = "none"]
  /\ crew' = crew \cup Team[c]
  /\ overlap' = overlap \cup Underway
  /\ InFull(c)
  /\ UNCHANGED <<unheeded, at, told>>

AssignHandler(c) ==
  \/ AssignRefused(c) \/ Unassign(c) \/ UnassignWithoutEffect(c) \/ UnassignFails(c)
  \/ Assign(c) \/ AssignWithoutEffect(c) \/ AssignRefusedHalfway(c) \/ AssignFails(c)

AssignNext(c) == AssignHandler(c) \/ LateUnassign(c) \/ LateAssign(c)
=============================================================================
