------------------------------ MODULE ToolSteps ------------------------------
(***************************************************************************)
(* The steps the tool handlers under src/tools are made of.  A handler is  *)
(* a set of paths, one for each way its arguments and the data it meets    *)
(* may lead it; a path is a sequence of steps.  What can go wrong at a     *)
(* step, and what the handler makes of it, belongs to the step (module     *)
(* ToolCall); a step that throws ends the call.                            *)
(***************************************************************************)
EXTENDS Integers, Sequences

(* Conditions on the arguments, or on what was read, at which the handler  *)
(* throws; the second is the error that says there is no such thing.       *)
Check == [op |-> "check"]
NotFound == [op |-> "not_found"]
(* From here on whatever is thrown becomes an answer with its own status.  *)
Caught == [op |-> "caught"]
(* Names resolved for a read: an unknown name throws, an ambiguous one     *)
(* warns.                                                                  *)
Resolve == [op |-> "resolve"]

(* Rows of a mirror, read through readD1 or readMirror.  "counted" are the *)
(* tables whose rows are the answer, "probed" those whose MAX(synced_at)   *)
(* is asked for beside them and stamped.  What merely decorates the rows   *)
(* (joined tables) is never probed and not told apart here.                *)
Stamped(counted, probed) == [op |-> "mirror", counted |-> counted, probed |-> probed]
Table(t) == Stamped({t}, {t})
(* The same through queryD1, which tries again when a failure may pass.    *)
Query(counted, probed) == [op |-> "query", counted |-> counted, probed |-> probed]
(* A lookup by queryD1 whose failure is caught and taken for "no row".     *)
Lookup(t) == [op |-> "lookup", counted |-> {t}, probed |-> {t}]
(* Rows that no stamp covers; and those whose failure sends the handler on *)
(* to ServiceTitan.                                                        *)
Unstamped == [op |-> "unstamped"]
UnstampedOrElse == [op |-> "unstamped_or_else"]

(* Rows of the warehouse: which builds they come from, and which builds    *)
(* goldAsOf is asked about beside them.                                    *)
Warehouse(reads, asked) == [op |-> "warehouse", reads |-> reads, asked |-> asked]

(* One ServiceTitan request (or Siro's, or an embedding): a failure throws.*)
Live == [op |-> "live"]
(* Several of them together, or one, gathered by gatherFetches: a failure  *)
(* leaves a hole.                                                          *)
Gather == [op |-> "soft"]
(* A query's embedding or a coverage figure the answer can do without.     *)
Optional == [op |-> "soft"]
(* readSTPaged: any failing page throws, a cap ends the read.              *)
ReadPages == [op |-> "read_pages"]
(* The answer carries what was missed (_partial and _failures); and the    *)
(* note that something was, or that the list was cut (_warnings,           *)
(* _embedded, truncated).                                                  *)
SayPartial == [op |-> "say_partial"]
SayWarning == [op |-> "say_warning"]

(* cacheGet: answered from a row of the cache, or stored after the steps.  *)
FromCache == [op |-> "from_cache"]
Store == [op |-> "store"]

(* A write behind the gate: the preview; or the claim of its token and the *)
(* request, followed by the purge of the named cache namespaces.           *)
Preview == [op |-> "preview"]
Write(purged) == [op |-> "write", purged |-> purged]
(* A row of the Worker's own in D1, written without a preview.             *)
Insert == [op |-> "insert"]

(* The answer says: there is no such thing. *)
Absent == [op |-> "absent"]
=============================================================================
