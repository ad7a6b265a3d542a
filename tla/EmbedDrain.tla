------------------------------ MODULE EmbedDrain -----------------------------
(***************************************************************************)
(* The embedding refresh: the daily cron of src/src/index.ts starts a      *)
(* workflow (workflows/pricebook-embed.ts) that gives every pricebook row  *)
(* without a vector one, unless the last workflow is still at work.        *)
(*                                                                         *)
(* The rows belong to another application: it changes a row's text at any  *)
(* moment and clears the vector with it.  A PATCH is retried, and an       *)
(* attempt that timed out may reach Postgres after everything else.        *)
(***************************************************************************)
EXTENDS Integers, FiniteSets

CONSTANTS
  Rows,       \* active pricebook items
  Drains,     \* workflow instances
  Batch,      \* EMBED_BATCH
  Ceiling,    \* RUN_CEILING
  Attempts,   \* a step's first attempt and its retries
  Edited,     \* the rows whose text changes, and
  MaxText,    \* how often: bounds for model checking
  MaxLate     \* bound on the PATCHes that are still under way

NoVector == [row |-> "none", text |-> -1]
Nobody == "nobody"

ASSUME EmbedAssumption == Edited \subseteq Rows /\ Nobody \notin Drains

VARIABLES
  text,      \* each row's text, by number
  vector,    \* the row and text its embedding was computed from, or NoVector
  late,      \* PATCHes that may still reach Postgres
  status,    \* of each instance
  attempt,   \* of its only step
  at,        \* where drainOnce is: "select" or "write"
  todo,      \* the vectors of the batch still to be written: [row, vector]
  short,     \* whether the batch was smaller than what was asked for
  embedded,  \* vectors written by this attempt
  before,    \* embeddedBeforeBatch
  noted,     \* KV embed_workflow:last_instance
  kicked,    \* the instance the cron created and has not noted yet
  raced,     \* history: rows whose text changed under a drain or a late PATCH
  forgotten  \* history: the cron could not know that an instance was at work

tableVars == <<text, vector, late, raced>>
cronVars == <<noted, kicked, forgotten>>
batchVars == <<at, todo, short, embedded, before>>
drainVars == <<tableVars, cronVars, batchVars, status, attempt>>

Working == {"running", "waiting"}

DrainInit ==
  /\ text = [r \in Rows |-> 0]
  /\ vector = [r \in Rows |-> NoVector]
  /\ late = {}
  /\ status = [d \in Drains |-> "none"]
  /\ attempt = [d \in Drains |-> 1]
  /\ at = [d \in Drains |-> "select"]
  /\ todo = [d \in Drains |-> {}]
  /\ short = [d \in Drains |-> FALSE]
  /\ embedded = [d \in Drains |-> 0]
  /\ before = [d \in Drains |-> 0]
  /\ noted = Nobody /\ kicked = Nobody
  /\ raced = {} /\ forgotten = FALSE

-----------------------------------------------------------------------------
(* The cron. *)

\* Mutant: only an instance that runs holds the next one off.
BusyIfRunning == noted # Nobody /\ status[noted] = "running"

\* Any state that is not terminal holds the next one off.
Busy == noted # Nobody /\ status[noted] \in Working

\* The instances not created yet are alike: any one is the next.
Creates(d) ==
  /\ kicked = Nobody
  /\ \E e \in Drains : status[e] = "none"
  /\ d = CHOOSE e \in Drains : status[e] = "none"

Kick(d) ==
  /\ Creates(d)
  /\ ~Busy
  /\ kicked' = d
  /\ status' = [status EXCEPT ![d] = "running"]
  /\ UNCHANGED <<tableVars, batchVars, attempt, noted, forgotten>>

\* The status cannot be read, or its note has expired: that holds nobody off.
KickBlindly(d) ==
  /\ Creates(d)
  /\ Busy
  /\ kicked' = d
  /\ status' = [status EXCEPT ![d] = "running"]
  /\ forgotten' = TRUE
  /\ UNCHANGED <<tableVars, batchVars, attempt, noted>>

NoteInstance ==
  /\ kicked # Nobody
  /\ noted' = kicked /\ kicked' = Nobody
  /\ UNCHANGED <<tableVars, batchVars, status, attempt, forgotten>>

\* The put fails, or the cron stops before it.
NoteLost ==
  /\ kicked # Nobody
  /\ kicked' = Nobody
  /\ forgotten' = TRUE
  /\ UNCHANGED <<tableVars, batchVars, status, attempt, noted>>

-----------------------------------------------------------------------------
(* The workflow. *)

Drain(d, step) == status[d] = "running" /\ at[d] = step

\* What an attempt of drainOnce holds is gone when it ends.
Forgets(d, result) ==
  /\ status' = [status EXCEPT ![d] = result]
  /\ at' = [at EXCEPT ![d] = "select"]
  /\ todo' = [todo EXCEPT ![d] = {}]
  /\ short' = [short EXCEPT ![d] = FALSE]
  /\ embedded' = [embedded EXCEPT ![d] = 0]
  /\ before' = [before EXCEPT ![d] = 0]

Finish(d) == Forgets(d, "complete") /\ UNCHANGED attempt

Again(d) ==
  /\ at' = [at EXCEPT ![d] = "select"]
  /\ todo' = [todo EXCEPT ![d] = {}]
  /\ short' = [short EXCEPT ![d] = FALSE]
  /\ UNCHANGED <<embedded, before, status, attempt>>

Null == {r \in Rows : vector[r] = NoVector}

Fewer(a, b) == IF a < b THEN a ELSE b
Limit(d) == Fewer(Batch, Ceiling - embedded[d])

\* The select has no order: any n of the rows without a vector, and their
\* vectors are written in any order.
Selections(n) == {some \in SUBSET Null : Cardinality(some) = n}

VectorOf(r) == [row |-> r, text |-> text[r]]

\* The model may leave out any row's vector.
Computed(batch) ==
  {v \in [batch -> {NoVector} \cup {VectorOf(r) : r \in batch}] :
     \A r \in batch : v[r] \in {NoVector, VectorOf(r)}}

\* Mutant: what was left out is dropped before rows and vectors are paired.
PairedInOrder(batch, v) ==
  LET got == {r \in batch : v[r] # NoVector}
      first == CHOOSE some \in SUBSET batch : Cardinality(some) = Cardinality(got)
      next == CHOOSE f \in [first -> got] : {f[r] : r \in first} = got
  IN {[row |-> r, vector |-> v[next[r]]] : r \in first}

\* A row whose vector was left out is skipped.
Paired(batch, v) ==
  {[row |-> r, vector |-> v[r]] : r \in {x \in batch : v[x] # NoVector}}

\* The select, and the model's answer for what was read.
SelectAndEmbed(d) ==
  /\ Drain(d, "select")
  /\ IF Null = {}
       THEN Finish(d)
       ELSE /\ \E batch \in Selections(Fewer(Limit(d), Cardinality(Null))) :
                 /\ \E v \in Computed(batch) : todo' = [todo EXCEPT ![d] = Paired(batch, v)]
                 /\ short' = [short EXCEPT ![d] = Cardinality(batch) < Limit(d)]
            /\ at' = [at EXCEPT ![d] = "write"]
            /\ before' = [before EXCEPT ![d] = embedded[d]]
            /\ UNCHANGED <<embedded, status, attempt>>
  /\ UNCHANGED <<tableVars, cronVars>>

Writing(d) == Drain(d, "write") /\ todo[d] # {}

MayArriveLate(p) ==
  \/ UNCHANGED late
  \/ Cardinality(late) < MaxLate /\ late' = late \cup {p}

sbWriteEmbedding(d) ==
  /\ Writing(d)
  /\ \E p \in todo[d] :
       /\ vector' = [vector EXCEPT ![p.row] = p.vector]
       /\ MayArriveLate(p)
       /\ todo' = [todo EXCEPT ![d] = @ \ {p}]
  /\ embedded' = [embedded EXCEPT ![d] = @ + 1]
  /\ UNCHANGED <<text, raced, cronVars, status, attempt, at, short, before>>

\* Mutant: the batch is tried again although nothing was written.
BatchEndsHopefully(d) ==
  /\ Drain(d, "write") /\ todo[d] = {}
  /\ IF short[d] \/ embedded[d] = Ceiling
       THEN Finish(d)
       ELSE Again(d)
  /\ UNCHANGED <<tableVars, cronVars>>

\* The backlog is exhausted, nothing could be written, or the ceiling is met.
BatchEnds(d) ==
  /\ Drain(d, "write") /\ todo[d] = {}
  /\ IF short[d] \/ embedded[d] = before[d] \/ embedded[d] = Ceiling
       THEN Finish(d)
       ELSE Again(d)
  /\ UNCHANGED <<tableVars, cronVars>>

StepFails(d) ==
  /\ Forgets(d, IF attempt[d] < Attempts THEN "waiting" ELSE "errored")
  /\ UNCHANGED <<cronVars, attempt>>

\* The select, the model, or every attempt of a PATCH fails.
Throws(d) ==
  /\ status[d] = "running"
  /\ StepFails(d)
  /\ IF Writing(d)
       THEN (\E p \in todo[d] : MayArriveLate(p)) /\ UNCHANGED <<text, vector, raced>>
       ELSE UNCHANGED tableVars

\* The step is run again from its beginning.
Resume(d) ==
  /\ status[d] = "waiting"
  /\ status' = [status EXCEPT ![d] = "running"]
  /\ attempt' = [attempt EXCEPT ![d] = @ + 1]
  /\ UNCHANGED <<tableVars, cronVars, batchVars>>

-----------------------------------------------------------------------------
(* The rest of the world. *)

PatchArrives ==
  /\ \E p \in late : /\ vector' = [vector EXCEPT ![p.row] = p.vector]
                     /\ late' = late \ {p}
  /\ UNCHANGED <<text, raced, cronVars, batchVars, status, attempt>>

InHand(r) ==
  \/ \E p \in late : p.row = r
  \/ \E d \in Drains : \E p \in todo[d] : p.row = r

ChangeText(r) ==
  /\ text[r] < MaxText
  /\ text' = [text EXCEPT ![r] = @ + 1]
  /\ vector' = [vector EXCEPT ![r] = NoVector]
  /\ raced' = IF InHand(r) THEN raced \cup {r} ELSE raced
  /\ UNCHANGED <<late, cronVars, batchVars, status, attempt>>

Work(d) ==
  \/ SelectAndEmbed(d) \/ sbWriteEmbedding(d) \/ BatchEnds(d)
  \/ Throws(d) \/ Resume(d)

Rest == UNCHANGED drainVars

DrainNext ==
  \/ \E d \in Drains : Kick(d) \/ KickBlindly(d) \/ Work(d)
  \/ NoteInstance \/ NoteLost
  \/ PatchArrives \/ \E r \in Edited : ChangeText(r)
  \/ Rest

\* The platform runs the instances it has accepted.
DrainSpec ==
  DrainInit /\ [][DrainNext]_drainVars /\ \A d \in Drains : WF_drainVars(Work(d))

-----------------------------------------------------------------------------
(* Properties *)

\* A vector is of its own row and of the text that row has now, whatever
\* fails, is retried, overlaps or arrives late; only a row whose text changed
\* while a drain or a late PATCH had it in hand may keep an old one.
VectorsAreOfTheirText ==
  \A r \in Rows \ raced : vector[r] \in {NoVector, [row |-> r, text |-> text[r]]}

\* A drain ends although rows keep failing to get a vector and others keep
\* losing theirs.
EveryDrainEnds ==
  \A d \in Drains : status[d] = "running" ~> status[d] \in {"complete", "errored"}

\* Two drains are only at work together after the cron lost track of one.
OneDrainUnlessForgotten ==
  ~forgotten => \A d, e \in Drains : {status[d], status[e]} \subseteq Working => d = e
=============================================================================
