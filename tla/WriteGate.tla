----------------------------- MODULE WriteGate -----------------------------
(***************************************************************************)
(* The two-phase write of src/src/write-gate.ts and write-tool-factory.ts: *)
(* a dry run signs a token and records it in D1; a later call that         *)
(* presents the token consumes it and sends the write to ServiceTitan.     *)
(*                                                                         *)
(* Every await is a step boundary: previews and confirmations of several   *)
(* isolates interleave between hashing, D1 and ServiceTitan, and any call  *)
(* may stop between two of its steps (an exception, a lost answer, an      *)
(* evicted isolate: Fail).                                                 *)
(*                                                                         *)
(* Hashing and the HMAC are ideal: a token is the record of what it signs. *)
(* The D1 table is two sets, the tokens it holds and those with a          *)
(* consumed_at; a row's expires_at is determined by its token.             *)
(***************************************************************************)
EXTENDS Integers

CONSTANTS
  Previews,   \* calls with dryRun = true
  Confirms,   \* calls with dryRun = false and a token
  NoRequest,
  Requests,   \* what a call asks for: records with a tool, args and an actor
  Ttl,        \* per tool: its tokenTtlMs, or the default
  MaxTokenTtl,\* MAX_TOKEN_TTL_MS
  MaxTime     \* bound on the clock, for model checking

ASSUME WriteGateAssumption ==
  /\ Previews \cap Confirms = {}
  /\ NoRequest \notin Requests
  /\ MaxTokenTtl \in Nat
  /\ MaxTime \in Nat
  /\ \A r \in Requests : Ttl[r.tool] \in Nat

VARIABLES
  now,    \* Date.now()
  table,  \* the tokens in confirmation_tokens
  used,   \* those whose consumed_at is set
  pc,     \* where each call is
  tok,    \* the token a call signed, or presents
  req,    \* what a call asks for
  sent    \* the writes that left the Worker: [call, tok, req]

gateVars == <<now, table, used, pc, tok, req, sent>>

Calls == Previews \cup Confirms
Tokens == [req : Requests, at : 0..MaxTime]
NoToken == [req |-> NoRequest, at |-> -1]

\* Mutant: no ceiling on the TTL a tool asks for.
TtlUncapped(t) == Ttl[t.req.tool]

TtlOf(t) == IF Ttl[t.req.tool] <= MaxTokenTtl THEN Ttl[t.req.tool] ELSE MaxTokenTtl

GateInit ==
  /\ now = 0
  /\ table = {}
  /\ used = {}
  /\ pc = [c \in Calls |-> "idle"]
  /\ tok = [c \in Calls |-> NoToken]
  /\ req = [c \in Calls |-> NoRequest]
  /\ sent = {}

Go(c, from, to) == pc[c] = from /\ pc' = [pc EXCEPT ![c] = to]

\* dryRun reads the clock and signs.
Sign(c) ==
  /\ Go(c, "idle", "signed")
  /\ \E r \in Requests : /\ req' = [req EXCEPT ![c] = r]
                         /\ tok' = [tok EXCEPT ![c] = [req |-> r, at |-> now]]
  /\ UNCHANGED <<now, table, used, sent>>

\* Mutant: INSERT OR REPLACE.
RecordReplacing(c) ==
  /\ Go(c, "signed", "offered")
  /\ table' = table \cup {tok[c]}
  /\ used' = used \ {tok[c]}
  /\ UNCHANGED <<now, tok, req, sent>>

\* INSERT OR IGNORE, and the token is returned.  Two equal dry runs in the
\* same millisecond sign the same token: the second leaves the row alone.
Record(c) ==
  /\ Go(c, "signed", "offered")
  /\ table' = table \cup {tok[c]}
  /\ UNCHANGED <<now, used, tok, req, sent>>

Present(c) ==
  /\ Go(c, "idle", "presented")
  /\ \E p \in Previews, r \in Requests :
       /\ pc[p] = "offered"
       /\ tok' = [tok EXCEPT ![c] = tok[p]]
       /\ req' = [req EXCEPT ![c] = r]
  /\ UNCHANGED <<now, table, used, sent>>

\* Mutant: the arguments are not compared with those that were previewed.
MatchesToolAndActor(c) ==
  /\ req[c].tool = tok[c].req.tool
  /\ req[c].actor = tok[c].req.actor
  /\ now - tok[c].at <= MaxTokenTtl

\* The tool, the actor, the arguments' hash and the hard ceiling.
Matches(c) ==
  /\ req[c] = tok[c].req
  /\ now - tok[c].at <= MaxTokenTtl

Match(c) ==
  /\ \/ Go(c, "presented", "matched") /\ Matches(c)
     \/ Go(c, "presented", "refused") /\ ~Matches(c)
  /\ UNCHANGED <<now, table, used, tok, req, sent>>

\* SELECT consumed_at, expires_at.
Fresh(t) == t \in table \ used /\ now <= t.at + TtlOf(t)

Lookup(c) ==
  /\ \/ Go(c, "matched", "found") /\ Fresh(tok[c])
     \/ Go(c, "matched", "refused") /\ ~Fresh(tok[c])
  /\ UNCHANGED <<now, table, used, tok, req, sent>>

\* UPDATE ... WHERE consumed_at IS NULL changes one row, or none.
Consume(c) ==
  /\ \/ Go(c, "found", "claimed") /\ tok[c] \notin used
     \/ Go(c, "found", "refused") /\ tok[c] \in used
  /\ used' = used \cup {tok[c]}
  /\ UNCHANGED <<now, table, tok, req, sent>>

\* The POST to /api/st/write leaves; its answer, if one comes, ends the call.
PostWrite(c) ==
  /\ Go(c, "claimed", "posted")
  /\ sent' = sent \cup {[call |-> c, tok |-> tok[c], req |-> req[c]]}
  /\ UNCHANGED <<now, table, used, tok, req>>

Answered(c) == Go(c, "posted", "ok") /\ UNCHANGED <<now, table, used, tok, req, sent>>

InProgress == {"signed", "presented", "matched", "found", "claimed", "posted"}

\* Mutant: a claim that fails before the write gives its token back.
FailReleasing(c) ==
  /\ \E s \in InProgress : Go(c, s, "failed")
  /\ used' = IF pc[c] \in {"claimed", "posted"} THEN used \ {tok[c]} ELSE used
  /\ UNCHANGED <<now, table, tok, req, sent>>

\* An exception, an error status or an eviction: what was done stays done.
Fail(c) ==
  /\ \E s \in InProgress : Go(c, s, "failed")
  /\ UNCHANGED <<now, table, used, tok, req, sent>>

Tick == now < MaxTime /\ now' = now + 1 /\ UNCHANGED <<table, used, pc, tok, req, sent>>

GateNext ==
  \/ \E c \in Previews : Sign(c) \/ Record(c)
  \/ \E c \in Confirms : \/ Present(c) \/ Match(c) \/ Lookup(c)
                         \/ Consume(c) \/ PostWrite(c) \/ Answered(c)
  \/ \E c \in Calls : Fail(c)
  \/ Tick

GateSpec == GateInit /\ [][GateNext]_gateVars
-----------------------------------------------------------------------------
(* Properties.                                                             *)

PCs == {"idle", "offered", "refused", "ok", "failed"} \cup InProgress

\* Types; a row is consumed only if it exists.
GateTypeOK ==
  /\ now \in 0..MaxTime
  /\ table \subseteq Tokens
  /\ used \subseteq table
  /\ pc \in [Calls -> PCs]
  /\ tok \in [Calls -> Tokens \cup {NoToken}]
  /\ req \in [Calls -> Requests \cup {NoRequest}]
  /\ sent \subseteq [call : Confirms, tok : Tokens, req : Requests]

Won(c) == pc[c] \in {"claimed", "posted", "ok"}

\* A token buys one write: however many confirmations present it at once, and
\* wherever they stop, it is sent to ServiceTitan at most once.
AtMostOneWrite == \A w, v \in sent : w.tok = v.tok => w = v

\* Nobody is past the UPDATE with a token somebody else is past it with.
OneWinner == \A c, d \in Confirms : Won(c) /\ Won(d) /\ tok[c] = tok[d] => c = d

\* What is written is what was previewed: same tool, same arguments, same
\* actor, and the token was in the table, consumed before the write left.
WritesWhatWasPreviewed == \A w \in sent : w.req = w.tok.req /\ w.tok \in used

\* A token found valid was found within its tool's TTL and the hard ceiling,
\* and no step ever gives a consumed token back.
ClaimsAreFinal ==
  [][ /\ used \subseteq used'
      /\ \A c \in Confirms :
           pc[c] = "matched" /\ pc'[c] = "found"
             => /\ now <= tok[c].at + Ttl[tok[c].req.tool]
                /\ now <= tok[c].at + MaxTokenTtl ]_gateVars

\* The gate implements PreviewedWrite.
Promise == INSTANCE PreviewedWrite
  WITH Tokens <- Tokens, offered <- table, claimed <- used,
       sent <- {[tok |-> w.tok, req |-> w.req] : w \in sent}

ImplementsPreviewedWrite == Promise!AbsSpec

-----------------------------------------------------------------------------
(* The inductive invariant: what each call knows about the token it holds. *)

SignedTokens == \A c \in Previews : pc[c] = "signed" => tok[c] \in Tokens
OfferedTokens == \A c \in Previews : pc[c] = "offered" => tok[c] \in table
HeldTokens == \A c \in Confirms : pc[c] \notin {"idle", "failed"} => tok[c] \in table
MatchedRequests ==
  \A c \in Confirms :
    pc[c] \in {"matched", "found", "claimed", "posted", "ok"} => req[c] = tok[c].req
WinnersUsed == \A c \in Confirms : Won(c) => tok[c] \in used
SentRecords ==
  \A w \in sent :
    /\ w.req = w.tok.req
    /\ w.tok \in used
    /\ w.tok = tok[w.call]
    /\ pc[w.call] \in {"posted", "ok", "failed"}
UnsentClaims == \A w \in sent, c \in Confirms : pc[c] = "claimed" => tok[c] # w.tok

GateInv ==
  /\ SignedTokens
  /\ OfferedTokens
  /\ HeldTokens
  /\ MatchedRequests
  /\ WinnersUsed
  /\ OneWinner
  /\ SentRecords
  /\ UnsentClaims
  /\ AtMostOneWrite
=============================================================================
