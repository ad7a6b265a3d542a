---------------------------- MODULE DurableWrite ----------------------------
(***************************************************************************)
(* durableWrite of src/src/tools/st_patch_service.ts, which creates and    *)
(* patches pricebook services and materials: the write is handed to a      *)
(* workflow of the proxy, and the handler polls it a bounded number of     *)
(* times.  The workflow is the proxy's: it may finish, fail or hang.       *)
(***************************************************************************)
EXTENDS ConfirmedWrites

CONSTANT PollMaxAttempts  \* POLL_MAX_ATTEMPTS

VARIABLES
  instance,  \* the workflow: "none", "running", "complete" or "errored"
  polls      \* how often the handler asked for its status

durableVars == <<instance, polls>>

DurableInit ==
  /\ instance = [c \in Callers |-> "none"]
  /\ polls = [c \in Callers |-> 0]

Durable(c, step) == InHandler(c, "durable", step)

Starts(c) == instance' = [instance EXCEPT ![c] = "running"]

\* verifyToken, or the limiter, says no: nothing was submitted.
DurableRefused(c) ==
  /\ Durable(c, "called")
  /\ Ends(c, "refused")
  /\ UNCHANGED <<landed, durableVars>>

Submit(c) ==
  /\ Durable(c, "called")
  /\ Proceeds(c, "polling")
  /\ Starts(c)
  /\ UNCHANGED <<landed, polls>>

\* An error status, an answer that is lost or is not JSON: the proxy may
\* have started the workflow.
SubmitFails(c) ==
  /\ Durable(c, "called")
  /\ Ends(c, "failed")
  /\ Starts(c) \/ UNCHANGED instance
  /\ UNCHANGED <<landed, polls>>

Asks(c) == Durable(c, "polling") /\ polls[c] < PollMaxAttempts

\* Mutant: a poll that gets a 5xx starts the count again.
PollAgainRecounted(c) ==
  /\ Asks(c)
  /\ Proceeds(c, "polling")
  /\ polls' = [polls EXCEPT ![c] = @ + 1] \/ polls' = [polls EXCEPT ![c] = 0]
  /\ UNCHANGED <<landed, instance>>

\* Still running, or a 5xx.
PollAgain(c) ==
  /\ Asks(c)
  /\ Proceeds(c, "polling")
  /\ polls' = [polls EXCEPT ![c] = @ + 1]
  /\ UNCHANGED <<landed, instance>>

PollAnswered(c) ==
  /\ Asks(c)
  /\ \/ instance[c] = "complete" /\ Ends(c, "done")
     \/ instance[c] = "errored" /\ Ends(c, "failed")
  /\ UNCHANGED <<landed, durableVars>>

\* A 4xx, a lost answer, or one that is not JSON.
PollThrows(c) ==
  /\ Asks(c)
  /\ Ends(c, "failed")
  /\ UNCHANGED <<landed, durableVars>>

\* "the write may still have landed"
PollTimeout(c) ==
  /\ Durable(c, "polling") /\ polls[c] = PollMaxAttempts
  /\ Ends(c, "maybe")
  /\ UNCHANGED <<landed, durableVars>>

InstanceWrites(c) ==
  /\ instance[c] = "running" /\ ~landed[c]
  /\ Lands(c)
  /\ UNCHANGED <<at, told, durableVars>>

InstanceEnds(c) ==
  /\ instance[c] = "running"
  /\ \/ landed[c] /\ instance' = [instance EXCEPT ![c] = "complete"]
     \/ instance' = [instance EXCEPT ![c] = "errored"]
  /\ UNCHANGED <<callVars, polls>>

DurableHandler(c) ==
  \/ DurableRefused(c) \/ Submit(c) \/ SubmitFails(c)
  \/ PollAgain(c) \/ PollAnswered(c) \/ PollThrows(c) \/ PollTimeout(c)

DurableNext(c) == DurableHandler(c) \/ InstanceWrites(c) \/ InstanceEnds(c)
=============================================================================
