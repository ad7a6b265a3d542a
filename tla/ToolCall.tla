------------------------------- MODULE ToolCall -------------------------------
(***************************************************************************)
(* One call of one tool, from the credentials at the door to the envelope  *)
(* that leaves: index.ts admits the caller and registers what its role may *)
(* use, tool-registry.ts runs the handler, and the steps of the handler    *)
(* (ToolSteps) meet mirrors, watermarks, ServiceTitan and the cache as     *)
(* they happen to be.                                                      *)
(*                                                                         *)
(* What the program does not know is kept beside what it does: "world" is  *)
(* how old each table and build really was when it was first looked at,    *)
(* and "call" notes what the answer rests on.                              *)
(***************************************************************************)
EXTENDS Disclosure, ToolCatalogue

CONSTANTS Times,         \* how old a table's newest row, or a build, may be
          MAX_RETRIES    \* of queryD1, after its first attempt

ASSUME ToolCallAssumption ==
    /\ \A t \in Times : t = NoTime \/ t \in Int
    /\ MAX_RETRIES \in Nat

VARIABLES locked,   \* MCP_LOCKDOWN
          role,     \* of the session: a set of at most one role; {} is a 401
          tool,     \* the tool called, NoTool before
          steps,    \* what its handler has still to do
          world,    \* source -> time, of the sources met so far
          call,     \* what the handler has in hand
          reply     \* what came of the call: a set of at most one reply

vars == <<locked, role, tool, steps, world, call, reply>>

NoTool == "none"

\* stamp: the verdict given; behind: the sources of the rows it is given for;
\* unprobed: no table's maximum to go by; kept: from the cache; holes: part of
\* the data could not be read; unread: a lookup failed or a list was cut;
\* tries: failed attempts of the current query.
NewCall ==
    [stamp |-> "none", behind |-> {}, unprobed |-> FALSE, kept |-> FALSE,
     holes |-> FALSE, partial |-> FALSE, warned |-> FALSE, unread |-> FALSE,
     absent |-> FALSE, wrote |-> FALSE, caught |-> FALSE, tries |-> 0]

Init ==
    /\ locked \in BOOLEAN
    /\ \E door \in Doors : role = roleOf(door, locked)
    /\ tool = NoTool
    /\ steps = <<>>
    /\ world = <<>>
    /\ call = NewCall
    /\ reply = {}

\* buildServer registers what the role may use; anything else is unknown.
Invoke ==
    /\ tool = NoTool
    /\ \E r \in role : \E t \in toolsForRole(r) : \E path \in TOOLS[t] :
          tool' = t /\ steps' = path
    /\ UNCHANGED <<locked, role, world, call, reply>>

-----------------------------------------------------------------------------
(* The envelope: registerTool around the handler, offloadIfLarge after it. *)

\* A success is audited "ok" or "partial", the latter with a row in error_log;
\* whatever was thrown is audited "error".  The rows and the heartbeat go to
\* waitUntil: each is written or lost, and no one is told.
Recorded(status) == [audit |-> status, error_log |-> status # "ok", heartbeat |-> status # "error"]

\* The reply to an error: no data.
Failure == [isError |-> TRUE, text |-> "none", structured |-> "none", stored |-> FALSE,
            record |-> Recorded("error")]

\* A large result is stored and pointed to; if it cannot be stored it is sent
\* whole.  A tool with an output schema keeps its structured content.
PointerAnyway(large, put, schema) ==
    IF large THEN [text |-> "pointer", structured |-> IF schema THEN "whole" ELSE "pointer",
                   stored |-> put]
    ELSE [text |-> "whole", structured |-> "whole", stored |-> FALSE]

offloadIfLarge(large, put, schema) ==
    IF large /\ put THEN [text |-> "pointer",
                          structured |-> IF schema THEN "whole" ELSE "pointer",
                          stored |-> TRUE]
    ELSE [text |-> "whole", structured |-> "whole", stored |-> FALSE]

Success(large, put) ==
    LET shaped == offloadIfLarge(large, put, tool \in outputSchema)
    IN [isError |-> FALSE, text |-> shaped.text, structured |-> shaped.structured,
        stored |-> shaped.stored,
        record |-> Recorded(IF call.partial THEN "partial" ELSE "ok")]

\* The handler returned.
Respond ==
    /\ tool # NoTool /\ steps = <<>> /\ reply = {}
    /\ \E large, put \in BOOLEAN : reply' = {Success(large, put)}
    /\ UNCHANGED <<locked, role, tool, steps, world, call>>

\* Something threw; a handler that catches makes an answer of it.
Throw(c) ==
    /\ steps' = <<>>
    /\ call' = [c EXCEPT !.tries = 0]
    /\ reply' = IF c.caught THEN {} ELSE {Failure}

GoOn(c) ==
    /\ steps' = Tail(steps)
    /\ call' = [c EXCEPT !.tries = 0]
    /\ UNCHANGED reply

At(ops) == steps # <<>> /\ Head(steps).op \in ops
Elsewhere == UNCHANGED <<locked, role, tool>>

-----------------------------------------------------------------------------
(* Steps that read no rows. *)

\* A condition at which the handler throws; a name that must resolve; a token
\* to be issued for a preview.
MayThrow ==
    /\ At({"check", "preview", "resolve"})
    /\ \/ GoOn(call)
       \/ Head(steps).op = "resolve" /\ GoOn([call EXCEPT !.warned = TRUE])
       \/ Throw(call)
    /\ Elsewhere /\ UNCHANGED world

\* A request to ServiceTitan: its rows replace what a mirror did not have.
LiveRead ==
    /\ At({"live"})
    /\ GoOn([call EXCEPT !.stamp = "none", !.behind = {}, !.unread = FALSE]) \/ Throw(call)
    /\ Elsewhere /\ UNCHANGED world

SayNotFound ==
    /\ At({"not_found"})
    /\ Throw([call EXCEPT !.absent = TRUE])
    /\ Elsewhere /\ UNCHANGED world

\* Some of several reads fail, or one the answer can do without.
Soft ==
    /\ At({"soft"})
    /\ \E failed \in BOOLEAN : GoOn([call EXCEPT !.holes = @ \/ failed])
    /\ Elsewhere /\ UNCHANGED world

ReadAllPages ==
    /\ At({"read_pages"})
    /\ \/ \E capped \in BOOLEAN :
            GoOn([call EXCEPT !.holes = @ \/ capped, !.unread = @ \/ capped])
       \/ Throw(call)
    /\ Elsewhere /\ UNCHANGED world

\* What the handler says of what it has, and the cache around it.
Note(op) ==
    CASE op = "say_partial" -> [call EXCEPT !.partial = call.holes]
      [] op = "say_warning" -> [call EXCEPT !.warned = TRUE]
      [] op = "absent" -> [call EXCEPT !.absent = TRUE]
      [] op = "caught" -> [call EXCEPT !.caught = TRUE]
      [] op = "from_cache" -> [call EXCEPT !.kept = TRUE]
      [] op = "store" -> call

Say ==
    /\ At({"say_partial", "say_warning", "absent", "caught", "from_cache", "store"})
    /\ GoOn(Note(Head(steps).op))
    /\ Elsewhere /\ UNCHANGED world

\* The claim of the token may be refused; a request that fails may have
\* reached ServiceTitan (modules WriteGate and ReportedWrites), or D1.
ConfirmedWrite ==
    /\ At({"write", "insert"})
    /\ \/ GoOn([call EXCEPT !.wrote = TRUE])
       \/ \E reached \in BOOLEAN : Throw([call EXCEPT !.wrote = reached])
    /\ Elsewhere /\ UNCHANGED world

-----------------------------------------------------------------------------
(* Rows of the mirrors. *)

\* A first look at each source finds it as old as it happens to be.
Seen(sources) ==
    {joined(w, world) : w \in [sources \ DOMAIN world -> Times]}

\* fetchTableMax: every table's maximum, or nothing at all.
fetchTableMax(w, tables, probed) == IF probed THEN [t \in tables |-> w[t]] ELSE <<>>

\* The rows came: of the counted tables some are on the page, none of them
\* younger than its table's newest.
ReadRows(step) ==
    \E w \in Seen(step.counted \cup step.probed),
       probed \in BOOLEAN, shown \in SUBSET step.counted :
        /\ probed => shown = {}
        /\ world' = w
        /\ GoOn([call EXCEPT
              !.stamp = stampMirrorFreshness({w[t] : t \in shown},
                                             fetchTableMax(w, step.probed, probed)),
              !.behind = @ \cup step.counted,
              !.unprobed = ~probed])

\* readD1 and readMirror: one attempt.
MirrorRead ==
    /\ At({"mirror"})
    /\ \/ ReadRows(Head(steps))
       \/ Throw(call) /\ UNCHANGED world
    /\ Elsewhere

\* queryD1 and sbFetch: a failure that may pass is tried again.
Retry ==
    /\ At({"query", "lookup", "warehouse"})
    /\ call.tries < MAX_RETRIES
    /\ call' = [call EXCEPT !.tries = @ + 1]
    /\ Elsewhere /\ UNCHANGED <<steps, reply, world>>

RetriedRead ==
    /\ At({"query"})
    /\ \/ ReadRows(Head(steps))
       \/ Throw(call) /\ UNCHANGED world
    /\ Elsewhere

\* lookupExactCode swallows the error and finds no row: the path for a row
\* found is closed, the one for none goes on, dated by the table's maximum.
SwallowingLookup ==
    /\ At({"lookup"})
    /\ \/ ReadRows(Head(steps))
       \/ /\ Tail(steps) # <<>>
          /\ \E w \in Seen(Head(steps).probed), probed \in BOOLEAN :
                /\ world' = w
                /\ GoOn([call EXCEPT
                      !.stamp = stampMirrorFreshness({}, fetchTableMax(w, Head(steps).probed, probed)),
                      !.behind = @ \cup Head(steps).counted,
                      !.unprobed = ~probed, !.unread = TRUE])
    /\ Elsewhere

\* Rows nobody dates; where the handler has ServiceTitan to turn to, a failure
\* only sends it there.
Undated ==
    /\ At({"unstamped", "unstamped_or_else"})
    /\ \/ GoOn(call)
       \/ Head(steps).op = "unstamped" /\ Throw(call)
    /\ Elsewhere /\ UNCHANGED world

-----------------------------------------------------------------------------
(* Rows of the warehouse. *)

\* A chunk is no fresher than its embedding, nor than what was embedded.
Upstream(asked) == asked \cup IF "vec" \in asked THEN {"gold"} ELSE {}

\* probeCached: the watermark of up to fifteen minutes ago, which may be that
\* of the build before; a probe that failed has no time.  (One dated ahead is
\* taken to have been so for longer than that.)
probeCached(w, s) ==
    {NoTime, w[s]} \cup {t \in Times : t # NoTime /\ w[s] # NoTime /\ t >= w[s] /\ w[s] >= 0}

goldAsOf(w, asked) ==
    {buildGoldStamp({seen[s] : s \in asked}) :
        seen \in {f \in [asked -> Times] : \A s \in asked : f[s] \in probeCached(w, s)}}

WarehouseRead ==
    LET step == Head(steps)
    IN /\ At({"warehouse"})
       /\ \/ \E w \in Seen(step.reads \cup Upstream(step.asked)) :
                /\ world' = w
                /\ \E stamp \in IF step.asked = {} THEN {call.stamp}
                                ELSE goldAsOf(w, Upstream(step.asked)) :
                      GoOn([call EXCEPT !.stamp = stamp, !.behind = @ \cup step.reads])
          \/ Throw(call) /\ UNCHANGED world
       /\ Elsewhere

-----------------------------------------------------------------------------
Next ==
    \/ Invoke \/ Respond
    \/ MayThrow \/ LiveRead \/ SayNotFound \/ Soft \/ ReadAllPages \/ Say \/ ConfirmedWrite
    \/ MirrorRead \/ Retry \/ RetriedRead \/ SwallowingLookup \/ Undated \/ WarehouseRead

Spec == Init /\ [][Next]_vars

-----------------------------------------------------------------------------
(* Properties *)

Answered == \E r \in reply : ~r.isError

\* Builds follow the nightly threshold, tables that of the mirrors; a table
\* dated ahead, by however much, is one whose age ageHours clamps to nought.
Builds == {"gold", "vec", "pricebook", "pricebook_templates"}
Current(s) ==
    /\ world[s] # NoTime
    /\ IF s \in Builds
       THEN world[s] \in (-FUTURE_SKEW_TOLERANCE_HOURS)..GOLD_STALE_THRESHOLD_HOURS
       ELSE world[s] <= STALE_THRESHOLD_HOURS

\* An answer that calls itself fresh is: every table and build behind its rows
\* has moved within its threshold.  When the probe of the tables failed, one of
\* them at least has.  (Rows served from the cache are as old as the cache
\* lets them be, and are left out; so are tables read only in a join, which
\* no stamp mentions.)  One exception, because the code makes it: a mirror's
\* date is taken at its word even when it lies ahead of the clock and proves
\* nothing (mirror-freshness.ts:160); a build's is not.
FreshIsEarned ==
    Answered /\ call.stamp = "fresh" /\ ~call.kept =>
        IF call.unprobed THEN \E s \in call.behind : Current(s)
        ELSE \A s \in call.behind : Current(s)

\* What says "there is no such thing" has read all it would be in: neither a
\* swallowed failure nor a list cut short is taken for absence.  Two tools do
\* not keep to it: search_pricebook_services, which takes a failed lookup for
\* a miss, and get_form_submission after a capped scan.
NotKeptTo == {"search_pricebook_services", "get_form_submission"}
AbsenceIsEarned ==
    call.absent /\ reply # {} /\ tool \notin NotKeptTo => ~call.unread

\* An answer with a hole in it says so, in the answer and, where it is marked
\* partial, in the audit and in error_log.  The two readers that do not look at
\* the cap of their scan stay silent.
DoNotLookAtTheCap == {"list_estimate_templates", "get_form_submission"}
HolesAreNamed ==
    Answered /\ call.holes /\ tool \notin DoNotLookAtTheCap =>
        \/ call.warned
        \/ call.partial /\ \A r \in reply : r.record.audit = "partial" /\ r.record.error_log

\* Nothing is written while the lockdown is on, nor ever for a read-only
\* session: neither by a tool meant to write, in ServiceTitan or in D1, nor
\* through st_call.
ReadersNeverWrite ==
    call.wrote => ~locked /\ role \subseteq {"default", "admin"}

\* What was computed reaches the caller: in the text, in the structured
\* content, or under the address it is sent.
AnswerIsWhole ==
    \A r \in reply : ~r.isError => r.text = "whole" \/ r.structured = "whole" \/ r.stored

=============================================================================
