---------------------------- MODULE WriteProofs -----------------------------
(***************************************************************************)
(* What a confirmed write promises: WriteGate spends a token once, for     *)
(* what was previewed, and ReportedWrites says of the write what came of   *)
(* it.  Each has its inductive invariant and implements its promise.       *)
(***************************************************************************)
EXTENDS WriteGate, ReportedWrites, TLAPS

-----------------------------------------------------------------------------
(* WriteGate: its inductive invariant, and that it implements              *)
(* PreviewedWrite.                                                         *)

Inv == GateTypeOK /\ GateInv

LEMMA InvGateInit == GateInit => Inv
<1> SUFFICES ASSUME GateInit PROVE Inv
  OBVIOUS
<1> USE DEF GateInit
<1>1. GateTypeOK
  BY WriteGateAssumption DEF GateTypeOK, PCs, Calls, Tokens, InProgress
<1>2. GateInv
  BY WriteGateAssumption DEF GateInv, Won, OneWinner, AtMostOneWrite, Calls, SignedTokens, OfferedTokens, HeldTokens,
     MatchedRequests, WinnersUsed, SentRecords, UnsentClaims
<1> QED
  BY <1>1, <1>2 DEF Inv

(* The steps preserve the invariant. *)
LEMMA InvSign == ASSUME Inv, NEW c \in Previews, Sign(c) PROVE Inv'
<1> USE DEF Inv, GateTypeOK, GateInv, Sign, Go, Calls
<1>0. c \in Calls
  OBVIOUS
<1>1. GateTypeOK'
  BY <1>0, WriteGateAssumption DEF PCs, InProgress, Tokens
<1>2. SignedTokens'
  BY <1>0, WriteGateAssumption DEF SignedTokens, Tokens
<1>3. OfferedTokens'
  BY <1>0, WriteGateAssumption DEF OfferedTokens
<1>4. HeldTokens'
  BY <1>0, WriteGateAssumption DEF HeldTokens
<1>5. MatchedRequests'
  BY <1>0, WriteGateAssumption DEF MatchedRequests
<1>6. WinnersUsed'
  BY <1>0, WriteGateAssumption DEF WinnersUsed, Won
<1>7. OneWinner'
  BY <1>0, WriteGateAssumption DEF OneWinner, Won, WinnersUsed
<1>8. SentRecords'
  BY <1>0, WriteGateAssumption DEF SentRecords, Won, WinnersUsed, MatchedRequests
<1>9. UnsentClaims'
  BY <1>0, WriteGateAssumption DEF UnsentClaims, OneWinner, Won, SentRecords, WinnersUsed
<1>10. AtMostOneWrite'
  BY <1>0, WriteGateAssumption DEF AtMostOneWrite, UnsentClaims
<1> QED
  BY <1>1, <1>2, <1>3, <1>4, <1>5, <1>6, <1>7, <1>8, <1>9, <1>10

LEMMA InvRecord == ASSUME Inv, NEW c \in Previews, Record(c) PROVE Inv'
<1> USE DEF Inv, GateTypeOK, GateInv, Record, Go, Calls
<1>0. c \in Calls
  OBVIOUS
<1>1. GateTypeOK'
  BY <1>0, WriteGateAssumption DEF PCs, InProgress, Tokens, SignedTokens
<1>2. SignedTokens'
  BY <1>0, WriteGateAssumption DEF SignedTokens, Tokens
<1>3. OfferedTokens'
  BY <1>0, WriteGateAssumption DEF OfferedTokens
<1>4. HeldTokens'
  BY <1>0, WriteGateAssumption DEF HeldTokens
<1>5. MatchedRequests'
  BY <1>0, WriteGateAssumption DEF MatchedRequests
<1>6. WinnersUsed'
  BY <1>0, WriteGateAssumption DEF WinnersUsed, Won
<1>7. OneWinner'
  BY <1>0, WriteGateAssumption DEF OneWinner, Won, WinnersUsed
<1>8. SentRecords'
  BY <1>0, WriteGateAssumption DEF SentRecords, Won, WinnersUsed, MatchedRequests
<1>9. UnsentClaims'
  BY <1>0, WriteGateAssumption DEF UnsentClaims, OneWinner, Won, SentRecords, WinnersUsed
<1>10. AtMostOneWrite'
  BY <1>0, WriteGateAssumption DEF AtMostOneWrite, UnsentClaims
<1> QED
  BY <1>1, <1>2, <1>3, <1>4, <1>5, <1>6, <1>7, <1>8, <1>9, <1>10

LEMMA InvPresent == ASSUME Inv, NEW c \in Confirms, Present(c) PROVE Inv'
<1> USE DEF Inv, GateTypeOK, GateInv, Present, Go, Calls
<1>0. c \in Calls
  OBVIOUS
<1>1. GateTypeOK'
  BY <1>0, WriteGateAssumption DEF PCs, InProgress, Tokens
<1>2. SignedTokens'
  BY <1>0, WriteGateAssumption DEF SignedTokens, Tokens
<1>3. OfferedTokens'
  BY <1>0, WriteGateAssumption DEF OfferedTokens
<1>4. HeldTokens'
  BY <1>0, WriteGateAssumption DEF HeldTokens, OfferedTokens
<1>5. MatchedRequests'
  BY <1>0, WriteGateAssumption DEF MatchedRequests
<1>6. WinnersUsed'
  BY <1>0, WriteGateAssumption DEF WinnersUsed, Won
<1>7. OneWinner'
  BY <1>0, WriteGateAssumption DEF OneWinner, Won, WinnersUsed
<1>8. SentRecords'
  BY <1>0, WriteGateAssumption DEF SentRecords, Won, WinnersUsed, MatchedRequests
<1>9. UnsentClaims'
  BY <1>0, WriteGateAssumption DEF UnsentClaims, OneWinner, Won, SentRecords, WinnersUsed
<1>10. AtMostOneWrite'
  BY <1>0, WriteGateAssumption DEF AtMostOneWrite, UnsentClaims
<1> QED
  BY <1>1, <1>2, <1>3, <1>4, <1>5, <1>6, <1>7, <1>8, <1>9, <1>10

LEMMA InvMatch == ASSUME Inv, NEW c \in Confirms, Match(c) PROVE Inv'
<1> USE DEF Inv, GateTypeOK, GateInv, Match, Go, Calls
<1>0. c \in Calls
  OBVIOUS
<1>1. GateTypeOK'
  BY <1>0, WriteGateAssumption DEF PCs, InProgress, Tokens
<1>2. SignedTokens'
  BY <1>0, WriteGateAssumption DEF SignedTokens, Tokens
<1>3. OfferedTokens'
  BY <1>0, WriteGateAssumption DEF OfferedTokens
<1>4. HeldTokens'
  BY <1>0, WriteGateAssumption DEF HeldTokens
<1>5. MatchedRequests'
  BY <1>0, WriteGateAssumption DEF MatchedRequests, Matches
<1>6. WinnersUsed'
  BY <1>0, WriteGateAssumption DEF WinnersUsed, Won
<1>7. OneWinner'
  BY <1>0, WriteGateAssumption DEF OneWinner, Won, WinnersUsed
<1>8. SentRecords'
  BY <1>0, WriteGateAssumption DEF SentRecords, Won, WinnersUsed, MatchedRequests
<1>9. UnsentClaims'
  BY <1>0, WriteGateAssumption DEF UnsentClaims, OneWinner, Won, SentRecords, WinnersUsed
<1>10. AtMostOneWrite'
  BY <1>0, WriteGateAssumption DEF AtMostOneWrite, UnsentClaims
<1> QED
  BY <1>1, <1>2, <1>3, <1>4, <1>5, <1>6, <1>7, <1>8, <1>9, <1>10

LEMMA InvLookup == ASSUME Inv, NEW c \in Confirms, Lookup(c) PROVE Inv'
<1> USE DEF Inv, GateTypeOK, GateInv, Lookup, Go, Calls
<1>0. c \in Calls
  OBVIOUS
<1>1. GateTypeOK'
  BY <1>0, WriteGateAssumption DEF PCs, InProgress, Tokens
<1>2. SignedTokens'
  BY <1>0, WriteGateAssumption DEF SignedTokens, Tokens
<1>3. OfferedTokens'
  BY <1>0, WriteGateAssumption DEF OfferedTokens
<1>4. HeldTokens'
  BY <1>0, WriteGateAssumption DEF HeldTokens
<1>5. MatchedRequests'
  BY <1>0, WriteGateAssumption DEF MatchedRequests
<1>6. WinnersUsed'
  BY <1>0, WriteGateAssumption DEF WinnersUsed, Won
<1>7. OneWinner'
  BY <1>0, WriteGateAssumption DEF OneWinner, Won, WinnersUsed
<1>8. SentRecords'
  BY <1>0, WriteGateAssumption DEF SentRecords, Won, WinnersUsed, MatchedRequests
<1>9. UnsentClaims'
  BY <1>0, WriteGateAssumption DEF UnsentClaims, OneWinner, Won, SentRecords, WinnersUsed
<1>10. AtMostOneWrite'
  BY <1>0, WriteGateAssumption DEF AtMostOneWrite, UnsentClaims
<1> QED
  BY <1>1, <1>2, <1>3, <1>4, <1>5, <1>6, <1>7, <1>8, <1>9, <1>10

LEMMA InvConsume == ASSUME Inv, NEW c \in Confirms, Consume(c) PROVE Inv'
<1> USE DEF Inv, GateTypeOK, GateInv, Consume, Go, Calls
<1>0. c \in Calls
  OBVIOUS
<1>1. GateTypeOK'
  BY <1>0, WriteGateAssumption DEF PCs, InProgress, Tokens, HeldTokens
<1>2. SignedTokens'
  BY <1>0, WriteGateAssumption DEF SignedTokens, Tokens
<1>3. OfferedTokens'
  BY <1>0, WriteGateAssumption DEF OfferedTokens
<1>4. HeldTokens'
  BY <1>0, WriteGateAssumption DEF HeldTokens
<1>5. MatchedRequests'
  BY <1>0, WriteGateAssumption DEF MatchedRequests
<1>6. WinnersUsed'
  BY <1>0, WriteGateAssumption DEF WinnersUsed, Won
<1>7. OneWinner'
  BY <1>0, WriteGateAssumption DEF OneWinner, Won, WinnersUsed
<1>8. SentRecords'
  BY <1>0, WriteGateAssumption DEF SentRecords, Won, WinnersUsed, MatchedRequests
<1>9. UnsentClaims'
  BY <1>0, WriteGateAssumption DEF UnsentClaims, OneWinner, Won, SentRecords, WinnersUsed
<1>10. AtMostOneWrite'
  BY <1>0, WriteGateAssumption DEF AtMostOneWrite, UnsentClaims
<1> QED
  BY <1>1, <1>2, <1>3, <1>4, <1>5, <1>6, <1>7, <1>8, <1>9, <1>10

LEMMA InvPostWrite == ASSUME Inv, NEW c \in Confirms, PostWrite(c) PROVE Inv'
<1> USE DEF Inv, GateTypeOK, GateInv, PostWrite, Go, Calls
<1>0. c \in Calls
  OBVIOUS
<1>1. GateTypeOK'
  BY <1>0, WriteGateAssumption DEF PCs, InProgress, Tokens, HeldTokens, MatchedRequests
<1>2. SignedTokens'
  BY <1>0, WriteGateAssumption DEF SignedTokens, Tokens
<1>3. OfferedTokens'
  BY <1>0, WriteGateAssumption DEF OfferedTokens
<1>4. HeldTokens'
  BY <1>0, WriteGateAssumption DEF HeldTokens
<1>5. MatchedRequests'
  BY <1>0, WriteGateAssumption DEF MatchedRequests
<1>6. WinnersUsed'
  BY <1>0, WriteGateAssumption DEF WinnersUsed, Won
<1>7. OneWinner'
  BY <1>0, WriteGateAssumption DEF OneWinner, Won, WinnersUsed
<1>8. SentRecords'
  BY <1>0, WriteGateAssumption DEF SentRecords, Won, WinnersUsed, MatchedRequests
<1>9. UnsentClaims'
  BY <1>0, WriteGateAssumption DEF UnsentClaims, OneWinner, Won, SentRecords, WinnersUsed
<1>10. AtMostOneWrite'
  BY <1>0, WriteGateAssumption DEF AtMostOneWrite, UnsentClaims
<1> QED
  BY <1>1, <1>2, <1>3, <1>4, <1>5, <1>6, <1>7, <1>8, <1>9, <1>10

LEMMA InvAnswered == ASSUME Inv, NEW c \in Confirms, Answered(c) PROVE Inv'
<1> USE DEF Inv, GateTypeOK, GateInv, Answered, Go, Calls
<1>0. c \in Calls
  OBVIOUS
<1>1. GateTypeOK'
  BY <1>0, WriteGateAssumption DEF PCs, InProgress, Tokens
<1>2. SignedTokens'
  BY <1>0, WriteGateAssumption DEF SignedTokens, Tokens
<1>3. OfferedTokens'
  BY <1>0, WriteGateAssumption DEF OfferedTokens
<1>4. HeldTokens'
  BY <1>0, WriteGateAssumption DEF HeldTokens
<1>5. MatchedRequests'
  BY <1>0, WriteGateAssumption DEF MatchedRequests
<1>6. WinnersUsed'
  BY <1>0, WriteGateAssumption DEF WinnersUsed, Won
<1>7. OneWinner'
  BY <1>0, WriteGateAssumption DEF OneWinner, Won, WinnersUsed
<1>8. SentRecords'
  BY <1>0, WriteGateAssumption DEF SentRecords, Won, WinnersUsed, MatchedRequests
<1>9. UnsentClaims'
  BY <1>0, WriteGateAssumption DEF UnsentClaims, OneWinner, Won, SentRecords, WinnersUsed
<1>10. AtMostOneWrite'
  BY <1>0, WriteGateAssumption DEF AtMostOneWrite, UnsentClaims
<1> QED
  BY <1>1, <1>2, <1>3, <1>4, <1>5, <1>6, <1>7, <1>8, <1>9, <1>10

LEMMA InvFail == ASSUME Inv, NEW c \in Calls, Fail(c) PROVE Inv'
<1> USE DEF Inv, GateTypeOK, GateInv, Fail, Go, Calls
<1>0. c \in Calls
  OBVIOUS
<1>1. GateTypeOK'
  BY <1>0, WriteGateAssumption DEF PCs, InProgress, Tokens
<1>2. SignedTokens'
  BY <1>0, WriteGateAssumption DEF SignedTokens, Tokens
<1>3. OfferedTokens'
  BY <1>0, WriteGateAssumption DEF OfferedTokens
<1>4. HeldTokens'
  BY <1>0, WriteGateAssumption DEF HeldTokens
<1>5. MatchedRequests'
  BY <1>0, WriteGateAssumption DEF MatchedRequests
<1>6. WinnersUsed'
  BY <1>0, WriteGateAssumption DEF WinnersUsed, Won
<1>7. OneWinner'
  BY <1>0, WriteGateAssumption DEF OneWinner, Won, WinnersUsed
<1>8. SentRecords'
  BY <1>0, WriteGateAssumption DEF SentRecords, Won, WinnersUsed, MatchedRequests
<1>9. UnsentClaims'
  BY <1>0, WriteGateAssumption DEF UnsentClaims, OneWinner, Won, SentRecords, WinnersUsed
<1>10. AtMostOneWrite'
  BY <1>0, WriteGateAssumption DEF AtMostOneWrite, UnsentClaims
<1> QED
  BY <1>1, <1>2, <1>3, <1>4, <1>5, <1>6, <1>7, <1>8, <1>9, <1>10

LEMMA InvTick == ASSUME Inv, Tick PROVE Inv'
<1>1. GateTypeOK'
  BY WriteGateAssumption DEF Inv, GateTypeOK, Tick
<1>2. GateInv'
  BY DEF Inv, GateInv, Tick, SignedTokens, OfferedTokens, HeldTokens, MatchedRequests,
         WinnersUsed, OneWinner, Won, SentRecords, UnsentClaims, AtMostOneWrite
<1> QED
  BY <1>1, <1>2 DEF Inv

LEMMA InvStep == Inv /\ [GateNext]_gateVars => Inv'
<1> SUFFICES ASSUME Inv, [GateNext]_gateVars PROVE Inv'
  OBVIOUS
<1>1. CASE \E c \in Previews : Sign(c) \/ Record(c)
  BY <1>1, InvSign, InvRecord
<1>2. CASE \E c \in Confirms : \/ Present(c) \/ Match(c) \/ Lookup(c)
                               \/ Consume(c) \/ PostWrite(c) \/ Answered(c)
  BY <1>2, InvPresent, InvMatch, InvLookup, InvConsume, InvPostWrite, InvAnswered
<1>3. CASE \E c \in Calls : Fail(c)
  BY <1>3, InvFail
<1>4. CASE Tick
  BY <1>4, InvTick
<1>5. CASE UNCHANGED gateVars
  BY <1>5 DEF gateVars, Inv, GateTypeOK, GateInv, SignedTokens, OfferedTokens, HeldTokens,
     MatchedRequests, WinnersUsed, OneWinner, Won, SentRecords, UnsentClaims, AtMostOneWrite
<1> QED
  BY <1>1, <1>2, <1>3, <1>4, <1>5 DEF GateNext

LEMMA Inductive == GateSpec => []Inv
  BY InvGateInit, InvStep, PTL DEF GateSpec

\* The inductive invariant holds of every behaviour of write-gate.ts.
THEOREM GateCorrect == GateSpec => []GateInv
<1>1. Inv => GateInv
  BY DEF Inv
<1> QED
  BY <1>1, Inductive, PTL

\* Types, for every number of calls, requests and TTLs.
THEOREM TypeCorrect == GateSpec => []GateTypeOK
<1>1. Inv => GateTypeOK
  BY DEF Inv
<1> QED
  BY <1>1, Inductive, PTL

\* verifyToken's conditional UPDATE: a token is sent at most once, for any
\* number of previews and confirmations.
THEOREM SingleUse == GateSpec => []AtMostOneWrite
<1>1. Inv => AtMostOneWrite
  BY DEF Inv, GateInv
<1> QED
  BY <1>1, Inductive, PTL

\* The write that leaves is the one that was previewed.
THEOREM PreviewedOnly == GateSpec => []WritesWhatWasPreviewed
<1>1. Inv => WritesWhatWasPreviewed
  BY DEF Inv, GateInv, SentRecords, WritesWhatWasPreviewed
<1> QED
  BY <1>1, Inductive, PTL

(* Refinement: each step of the gate is a step of PreviewedWrite or leaves *)
(* what PreviewedWrite sees unchanged.                                     *)

LEMMA PromiseInit == GateInit => Promise!AbsInit
  BY DEF GateInit, Promise!AbsInit

LEMMA PromiseRecord ==
  ASSUME Inv, NEW c \in Previews, Record(c) PROVE Promise!AbsNext
<1>1. tok[c] \in Tokens
  BY DEF Inv, GateInv, SignedTokens, Record, Go
<1>2. Promise!Offer(tok[c])
  BY DEF Record, Promise!Offer
<1> QED
  BY <1>1, <1>2 DEF Promise!AbsNext

LEMMA PromiseConsume ==
  ASSUME Inv, NEW c \in Confirms, Consume(c)
  PROVE Promise!AbsNext \/ UNCHANGED Promise!absVars
<1>1. tok[c] \in table /\ tok[c] \in Tokens
  BY DEF Inv, GateInv, HeldTokens, GateTypeOK, Consume, Go
<1>2. CASE tok[c] \in used
  BY <1>2 DEF Consume, Promise!absVars
<1>3. CASE tok[c] \notin used
  <2>1. Promise!Claim(tok[c])
    BY <1>1, <1>3 DEF Consume, Promise!Claim
  <2> QED
    BY <1>1, <2>1 DEF Promise!AbsNext
<1> QED
  BY <1>2, <1>3

LEMMA PromisePost ==
  ASSUME Inv, NEW c \in Confirms, PostWrite(c) PROVE Promise!AbsNext
<1>1. /\ pc[c] = "claimed"
      /\ sent' = sent \cup {[call |-> c, tok |-> tok[c], req |-> req[c]]}
      /\ UNCHANGED <<table, used>>
  BY DEF PostWrite, Go
<1>2. tok[c] \in Tokens /\ tok[c] \in used /\ req[c] = tok[c].req
  BY <1>1 DEF Inv, GateTypeOK, GateInv, HeldTokens, MatchedRequests, WinnersUsed, Won
<1>3. \A w \in sent : w.tok # tok[c]
  BY <1>1 DEF Inv, GateInv, UnsentClaims
<1>4. \A w \in {[tok |-> v.tok, req |-> v.req] : v \in sent} : w.tok # tok[c]
  BY <1>3
<1>5. {[tok |-> w.tok, req |-> w.req] : w \in sent'}
        = {[tok |-> w.tok, req |-> w.req] : w \in sent}
            \cup {[tok |-> tok[c], req |-> tok[c].req]}
  <2> DEFINE new == [call |-> c, tok |-> tok[c], req |-> req[c]]
             img(S) == {[tok |-> w.tok, req |-> w.req] : w \in S}
  <2>1. sent' = sent \cup {new}
    BY <1>1
  <2>2. new.tok = tok[c] /\ new.req = tok[c].req
    BY <1>2
  <2>3. img(sent \cup {new}) = img(sent) \cup {[tok |-> new.tok, req |-> new.req]}
    <3> HIDE DEF new
    <3> QED
      OBVIOUS
  <2> QED
    BY <2>1, <2>2, <2>3
<1>6. tok[c] \in Tokens /\ tok[c] \in used /\ UNCHANGED <<table, used>>
  BY <1>1, <1>2
<1> QED
  BY <1>4, <1>5, <1>6, Zenon DEF Promise!AbsNext, Promise!Send

LEMMA PromiseStep ==
  Inv /\ [GateNext]_gateVars => Promise!AbsNext \/ UNCHANGED Promise!absVars
<1> SUFFICES ASSUME Inv, [GateNext]_gateVars PROVE Promise!AbsNext \/ UNCHANGED Promise!absVars
  OBVIOUS
<1>1. CASE \E c \in Previews : Record(c)
  BY <1>1, PromiseRecord
<1>2. CASE \E c \in Confirms : Consume(c)
  BY <1>2, PromiseConsume
<1>3. CASE \E c \in Confirms : PostWrite(c)
  BY <1>3, PromisePost
<1>4. CASE UNCHANGED <<table, used, sent>>
  BY <1>4 DEF Promise!absVars
<1>5. CASE Tick \/ UNCHANGED gateVars
  BY <1>4, <1>5 DEF Tick, gateVars
<1>6. CASE \E c \in Previews : Sign(c)
  BY <1>4, <1>6 DEF Sign
<1>7. CASE \E c \in Confirms : Present(c) \/ Match(c) \/ Lookup(c) \/ Answered(c)
  BY <1>4, <1>7 DEF Present, Match, Lookup, Answered
<1>8. CASE \E c \in Calls : Fail(c)
  BY <1>4, <1>8 DEF Fail
<1> QED
  BY <1>1, <1>2, <1>3, <1>5, <1>6, <1>7, <1>8 DEF GateNext

\* The token table and its conditional UPDATE implement PreviewedWrite: every
\* write was offered, claimed once and sent once.
THEOREM GateImplementsPromise == GateSpec => ImplementsPreviewedWrite
<1>1. Inv /\ [GateNext]_gateVars => [Promise!AbsNext]_(Promise!absVars)
  BY PromiseStep
<1> QED
  BY PromiseInit, Inductive, <1>1, PTL DEF GateSpec, ImplementsPreviewedWrite, Promise!AbsSpec

(* Consumption is final, and in time.                                      *)

LEMMA UsedGrows == [GateNext]_gateVars => used \subseteq used'
<1> SUFFICES ASSUME [GateNext]_gateVars PROVE used \subseteq used'
  OBVIOUS
<1> QED
  BY DEF GateNext, gateVars, Sign, Record, Present, Match, Lookup, Consume, PostWrite, Answered, Fail, Tick

LEMMA FoundByLookup ==
  ASSUME Inv, [GateNext]_gateVars, NEW c \in Confirms, pc[c] = "matched", pc'[c] = "found"
  PROVE Fresh(tok[c])
<1>1. pc \in [Calls -> PCs] /\ c \in Calls
  BY DEF Inv, GateTypeOK, Calls
<1>2. CASE \E d \in Previews : Sign(d) \/ Record(d)
  BY <1>1, <1>2, WriteGateAssumption DEF Sign, Record, Go
<1>3. CASE \E d \in Confirms : Present(d) \/ Match(d) \/ Consume(d) \/ PostWrite(d) \/ Answered(d)
  BY <1>1, <1>3 DEF Present, Match, Consume, PostWrite, Answered, Go
<1>4. CASE \E d \in Confirms : Lookup(d)
  BY <1>1, <1>4 DEF Lookup, Go
<1>5. CASE \E d \in Calls : Fail(d)
  BY <1>1, <1>5 DEF Fail, Go, InProgress
<1>6. CASE Tick \/ UNCHANGED gateVars
  BY <1>6 DEF Tick, gateVars
<1> QED
  BY <1>2, <1>3, <1>4, <1>5, <1>6 DEF GateNext

LEMMA FreshInTime ==
  ASSUME Inv, NEW c \in Confirms, tok[c] \in Tokens, Fresh(tok[c])
  PROVE /\ now <= tok[c].at + Ttl[tok[c].req.tool]
        /\ now <= tok[c].at + MaxTokenTtl
<1>1. now \in Nat /\ tok[c].at \in Nat /\ tok[c].req \in Requests
  BY WriteGateAssumption DEF Inv, GateTypeOK, Tokens
<1>2. Ttl[tok[c].req.tool] \in Nat /\ MaxTokenTtl \in Nat
  BY <1>1, WriteGateAssumption
<1>3. now <= tok[c].at + TtlOf(tok[c])
  BY DEF Fresh
<1> QED
  BY <1>1, <1>2, <1>3 DEF TtlOf

\* No step of the gate unsets consumed_at, and a token passes the lookup only
\* within its tool's TTL and the hard ceiling.
THEOREM FinalClaims == GateSpec => ClaimsAreFinal
<1>1. Inv /\ [GateNext]_gateVars =>
        /\ used \subseteq used'
        /\ \A c \in Confirms :
             pc[c] = "matched" /\ pc'[c] = "found"
               => /\ now <= tok[c].at + Ttl[tok[c].req.tool]
                  /\ now <= tok[c].at + MaxTokenTtl
  <2> SUFFICES ASSUME Inv, [GateNext]_gateVars, NEW c \in Confirms,
                      pc[c] = "matched", pc'[c] = "found"
               PROVE  /\ now <= tok[c].at + Ttl[tok[c].req.tool]
                      /\ now <= tok[c].at + MaxTokenTtl
    BY UsedGrows
  <2>1. Fresh(tok[c])
    BY FoundByLookup
  <2>2. tok[c] \in Tokens
    BY DEF Inv, GateTypeOK, GateInv, HeldTokens
  <2> QED
    BY <2>1, <2>2, FreshInTime
<1> QED
  BY <1>1, Inductive, PTL DEF GateSpec, ClaimsAreFinal

-----------------------------------------------------------------------------
(* ReportedWrites: its inductive invariant, and that it implements         *)
(* HonestWrite.                                                            *)

Steps == {"called", "polling", "checked", "verified", "posted", "unassigned", "ended"}
Rows == [items : Int, kept : BOOLEAN]
Invoices == [lines : Int, kept : BOOLEAN]

TypeOK ==
  /\ tool \in [Callers -> Tools]
  /\ at \in [Callers -> Steps]
  /\ told \in [Callers -> {"nothing", "done", "refused", "failed", "acknowledged", "maybe", "named"}]
  /\ landed \in [Callers -> BOOLEAN]
  /\ instance \in [Callers -> {"none", "running", "complete", "errored"}]
  /\ invoice \in [Callers -> Invoices]
  /\ shown \in [Callers -> {"none", "bare", "full"}]
  /\ created \in [Callers -> {"unsent", "unnamed", "named"}]
  /\ observed \in [Callers -> Rows]
  /\ unheeded \subseteq Callers
  /\ late \in [Callers -> {"none", "unassign", "assign"}]

AnsweredAtTheEnd == \A c \in Callers : told[c] = "nothing" <=> at[c] # "ended"

\* Without a workflow nothing lands, and a refused call started none.
WorkflowsWrite ==
  \A c \in Callers :
    /\ instance[c] # "none" => tool[c] = "durable" /\ at[c] # "called" /\ told[c] # "refused"
    /\ tool[c] = "durable" /\ landed[c] => instance[c] # "none"
    /\ instance[c] = "complete" => landed[c]

\* Until the POST there is no invoice; a whole one, or a whole row, has landed.
InvoicesAreWhole ==
  \A c \in Callers :
    /\ created[c] # "unsent" => tool[c] = "adjust" /\ at[c] \in {"posted", "ended"}
    /\ tool[c] = "adjust" /\ at[c] \in {"called", "checked", "verified"} =>
         ~landed[c] /\ observed[c] = NoRow
    /\ tool[c] = "adjust" /\ at[c] = "posted" =>
         /\ created[c] # "unsent"
         /\ invoice[c].lines = Lines[c] /\ invoice[c].kept => landed[c]
         /\ observed[c].items = Lines[c] /\ observed[c].kept => landed[c]

\* Between its two calls a lone handler whose first call took effect has an
\* empty appointment; a call that may land yet has only told of a failure.
CrewIsEmptied ==
  \A c \in Callers :
    /\ tool[c] = "assign" /\ at[c] # "ended" => ~landed[c]
    /\ Assigning(c, "unassigned") /\ c \notin overlap =>
         /\ c \notin unheeded => crew = {}
         /\ \A d \in Callers \ {c} : ~Assigning(d, "unassigned")
    /\ late[c] # "none" => tool[c] = "assign" /\ told[c] = "failed" /\ ~landed[c]

WritesInv ==
  TypeOK /\ AnsweredAtTheEnd /\ WorkflowsWrite /\ InvoicesAreWhole /\ CrewIsEmptied /\ StrayIsNamed

-----------------------------------------------------------------------------
(* The steps of a durable write. *)

LEMMA InvDurableRefused ==
  ASSUME WritesInv, NEW d \in Callers, DurableRefused(d), UNCHANGED <<tool, adjustVars, crewVars>>
  PROVE  WritesInv'
<1> USE DEF WritesInv, TypeOK, DurableRefused, Durable, InHandler, Ends, Goes,
     durableVars, adjustVars, crewVars
<1>1. TypeOK'
  BY DEF Steps, Rows, Invoices
<1>2. AnsweredAtTheEnd'
  BY DEF AnsweredAtTheEnd
<1>3. WorkflowsWrite'
  BY DEF WorkflowsWrite, AnsweredAtTheEnd
<1>4. InvoicesAreWhole'
  BY DEF InvoicesAreWhole
<1>5. CrewIsEmptied'
  BY DEF CrewIsEmptied, Assigning, InHandler
<1>6. StrayIsNamed'
  BY DEF StrayIsNamed, AnsweredAtTheEnd, InvoicesAreWhole
<1> QED
  BY <1>1, <1>2, <1>3, <1>4, <1>5, <1>6

LEMMA InvSubmit ==
  ASSUME WritesInv, NEW d \in Callers, Submit(d), UNCHANGED <<tool, adjustVars, crewVars>>
  PROVE  WritesInv'
<1> USE DEF WritesInv, TypeOK, Submit, Durable, InHandler, Proceeds, Goes, Starts,
     adjustVars, crewVars
<1>1. TypeOK'
  BY DEF Steps, Rows, Invoices
<1>2. AnsweredAtTheEnd'
  BY DEF AnsweredAtTheEnd
<1>3. WorkflowsWrite'
  BY DEF WorkflowsWrite, AnsweredAtTheEnd
<1>4. InvoicesAreWhole'
  BY DEF InvoicesAreWhole
<1>5. CrewIsEmptied'
  BY DEF CrewIsEmptied, Assigning, InHandler
<1>6. StrayIsNamed'
  BY DEF StrayIsNamed, AnsweredAtTheEnd, InvoicesAreWhole
<1> QED
  BY <1>1, <1>2, <1>3, <1>4, <1>5, <1>6

LEMMA InvSubmitFails ==
  ASSUME WritesInv, NEW d \in Callers, SubmitFails(d), UNCHANGED <<tool, adjustVars, crewVars>>
  PROVE  WritesInv'
<1> USE DEF WritesInv, TypeOK, SubmitFails, Durable, InHandler, Ends, Goes, Starts,
     adjustVars, crewVars
<1>1. TypeOK'
  BY DEF Steps, Rows, Invoices
<1>2. AnsweredAtTheEnd'
  BY DEF AnsweredAtTheEnd
<1>3. WorkflowsWrite'
  BY DEF WorkflowsWrite, AnsweredAtTheEnd
<1>4. InvoicesAreWhole'
  BY DEF InvoicesAreWhole
<1>5. CrewIsEmptied'
  BY DEF CrewIsEmptied, Assigning, InHandler
<1>6. StrayIsNamed'
  BY DEF StrayIsNamed, AnsweredAtTheEnd, InvoicesAreWhole
<1> QED
  BY <1>1, <1>2, <1>3, <1>4, <1>5, <1>6

LEMMA InvPollAgain ==
  ASSUME WritesInv, NEW d \in Callers, PollAgain(d), UNCHANGED <<tool, adjustVars, crewVars>>
  PROVE  WritesInv'
<1> USE DEF WritesInv, TypeOK, PollAgain, Asks, Durable, InHandler, Proceeds, Goes,
     adjustVars, crewVars
<1>1. TypeOK'
  BY DEF Steps, Rows, Invoices
<1>2. AnsweredAtTheEnd'
  BY DEF AnsweredAtTheEnd
<1>3. WorkflowsWrite'
  BY DEF WorkflowsWrite, AnsweredAtTheEnd
<1>4. InvoicesAreWhole'
  BY DEF InvoicesAreWhole
<1>5. CrewIsEmptied'
  BY DEF CrewIsEmptied, Assigning, InHandler
<1>6. StrayIsNamed'
  BY DEF StrayIsNamed, AnsweredAtTheEnd, InvoicesAreWhole
<1> QED
  BY <1>1, <1>2, <1>3, <1>4, <1>5, <1>6

LEMMA InvPollAnswered ==
  ASSUME WritesInv, NEW d \in Callers, PollAnswered(d), UNCHANGED <<tool, adjustVars, crewVars>>
  PROVE  WritesInv'
<1> USE DEF WritesInv, TypeOK, PollAnswered, Asks, Durable, InHandler, Ends, Goes,
     durableVars, adjustVars, crewVars
<1>1. TypeOK'
  BY DEF Steps, Rows, Invoices
<1>2. AnsweredAtTheEnd'
  BY DEF AnsweredAtTheEnd
<1>3. WorkflowsWrite'
  BY DEF WorkflowsWrite, AnsweredAtTheEnd
<1>4. InvoicesAreWhole'
  BY DEF InvoicesAreWhole
<1>5. CrewIsEmptied'
  BY DEF CrewIsEmptied, Assigning, InHandler
<1>6. StrayIsNamed'
  BY DEF StrayIsNamed, AnsweredAtTheEnd, InvoicesAreWhole
<1> QED
  BY <1>1, <1>2, <1>3, <1>4, <1>5, <1>6

LEMMA InvPollThrows ==
  ASSUME WritesInv, NEW d \in Callers, PollThrows(d), UNCHANGED <<tool, adjustVars, crewVars>>
  PROVE  WritesInv'
<1> USE DEF WritesInv, TypeOK, PollThrows, Asks, Durable, InHandler, Ends, Goes,
     durableVars, adjustVars, crewVars
<1>1. TypeOK'
  BY DEF Steps, Rows, Invoices
<1>2. AnsweredAtTheEnd'
  BY DEF AnsweredAtTheEnd
<1>3. WorkflowsWrite'
  BY DEF WorkflowsWrite, AnsweredAtTheEnd
<1>4. InvoicesAreWhole'
  BY DEF InvoicesAreWhole
<1>5. CrewIsEmptied'
  BY DEF CrewIsEmptied, Assigning, InHandler
<1>6. StrayIsNamed'
  BY DEF StrayIsNamed, AnsweredAtTheEnd, InvoicesAreWhole
<1> QED
  BY <1>1, <1>2, <1>3, <1>4, <1>5, <1>6

LEMMA InvPollTimeout ==
  ASSUME WritesInv, NEW d \in Callers, PollTimeout(d), UNCHANGED <<tool, adjustVars, crewVars>>
  PROVE  WritesInv'
<1> USE DEF WritesInv, TypeOK, PollTimeout, Durable, InHandler, Ends, Goes, durableVars,
     adjustVars, crewVars
<1>1. TypeOK'
  BY DEF Steps, Rows, Invoices
<1>2. AnsweredAtTheEnd'
  BY DEF AnsweredAtTheEnd
<1>3. WorkflowsWrite'
  BY DEF WorkflowsWrite, AnsweredAtTheEnd
<1>4. InvoicesAreWhole'
  BY DEF InvoicesAreWhole
<1>5. CrewIsEmptied'
  BY DEF CrewIsEmptied, Assigning, InHandler
<1>6. StrayIsNamed'
  BY DEF StrayIsNamed, AnsweredAtTheEnd, InvoicesAreWhole
<1> QED
  BY <1>1, <1>2, <1>3, <1>4, <1>5, <1>6

LEMMA InvInstanceWrites ==
  ASSUME WritesInv, NEW d \in Callers, InstanceWrites(d), UNCHANGED <<tool, adjustVars, crewVars>>
  PROVE  WritesInv'
<1> USE DEF WritesInv, TypeOK, InstanceWrites, Lands, durableVars, adjustVars, crewVars
<1>0. tool[d] = "durable"
  BY DEF WorkflowsWrite
<1>1. TypeOK'
  BY DEF Steps, Rows, Invoices
<1>2. AnsweredAtTheEnd'
  BY DEF AnsweredAtTheEnd
<1>3. WorkflowsWrite'
  BY DEF WorkflowsWrite, AnsweredAtTheEnd
<1>4. InvoicesAreWhole'
  BY <1>0 DEF InvoicesAreWhole
<1>5. CrewIsEmptied'
  BY <1>0 DEF CrewIsEmptied, Assigning, InHandler
<1>6. StrayIsNamed'
  BY DEF StrayIsNamed, AnsweredAtTheEnd, InvoicesAreWhole
<1> QED
  BY <1>1, <1>2, <1>3, <1>4, <1>5, <1>6

LEMMA InvInstanceEnds ==
  ASSUME WritesInv, NEW d \in Callers, InstanceEnds(d), UNCHANGED <<tool, adjustVars, crewVars>>
  PROVE  WritesInv'
<1> USE DEF WritesInv, TypeOK, InstanceEnds, callVars, adjustVars, crewVars
<1>1. TypeOK'
  BY DEF Steps, Rows, Invoices
<1>2. AnsweredAtTheEnd'
  BY DEF AnsweredAtTheEnd
<1>3. WorkflowsWrite'
  BY DEF WorkflowsWrite, AnsweredAtTheEnd
<1>4. InvoicesAreWhole'
  BY DEF InvoicesAreWhole
<1>5. CrewIsEmptied'
  BY DEF CrewIsEmptied, Assigning, InHandler
<1>6. StrayIsNamed'
  BY DEF StrayIsNamed, AnsweredAtTheEnd, InvoicesAreWhole
<1> QED
  BY <1>1, <1>2, <1>3, <1>4, <1>5, <1>6

-----------------------------------------------------------------------------
(* The steps of an adjustment invoice. *)

LEMMA InvSkusChecked ==
  ASSUME WritesInv, NEW d \in Callers, SkusChecked(d), UNCHANGED <<tool, durableVars, crewVars>>
  PROVE  WritesInv'
<1> USE DEF WritesInv, TypeOK, SkusChecked, Adjusting, InHandler, Proceeds, Goes,
     adjustVars, durableVars, crewVars
<1>1. TypeOK'
  BY DEF Steps, Rows, Invoices
<1>2. AnsweredAtTheEnd'
  BY DEF AnsweredAtTheEnd
<1>3. WorkflowsWrite'
  BY DEF WorkflowsWrite, AnsweredAtTheEnd
<1>4. InvoicesAreWhole'
  BY DEF InvoicesAreWhole
<1>5. CrewIsEmptied'
  BY DEF CrewIsEmptied, Assigning, InHandler
<1>6. StrayIsNamed'
  BY DEF StrayIsNamed, AnsweredAtTheEnd, InvoicesAreWhole
<1> QED
  BY <1>1, <1>2, <1>3, <1>4, <1>5, <1>6

LEMMA InvSkuMissing ==
  ASSUME WritesInv, NEW d \in Callers, SkuMissing(d), UNCHANGED <<tool, durableVars, crewVars>>
  PROVE  WritesInv'
<1> USE DEF WritesInv, TypeOK, SkuMissing, Adjusting, InHandler, Ends, Goes, adjustVars,
     durableVars, crewVars
<1>1. TypeOK'
  BY DEF Steps, Rows, Invoices
<1>2. AnsweredAtTheEnd'
  BY DEF AnsweredAtTheEnd
<1>3. WorkflowsWrite'
  BY DEF WorkflowsWrite, AnsweredAtTheEnd
<1>4. InvoicesAreWhole'
  BY DEF InvoicesAreWhole
<1>5. CrewIsEmptied'
  BY DEF CrewIsEmptied, Assigning, InHandler
<1>6. StrayIsNamed'
  BY DEF StrayIsNamed, AnsweredAtTheEnd, InvoicesAreWhole
<1> QED
  BY <1>1, <1>2, <1>3, <1>4, <1>5, <1>6

LEMMA InvParentRead ==
  ASSUME WritesInv, NEW d \in Callers, ParentRead(d), UNCHANGED <<tool, durableVars, crewVars>>
  PROVE  WritesInv'
<1> USE DEF WritesInv, TypeOK, ParentRead, Adjusting, InHandler, Open, Proceeds, Goes,
     Ends, adjustVars, durableVars, crewVars
<1>1. TypeOK'
  BY DEF Steps, Rows, Invoices
<1>2. AnsweredAtTheEnd'
  BY DEF AnsweredAtTheEnd
<1>3. WorkflowsWrite'
  BY DEF WorkflowsWrite, AnsweredAtTheEnd
<1>4. InvoicesAreWhole'
  BY DEF InvoicesAreWhole
<1>5. CrewIsEmptied'
  BY DEF CrewIsEmptied, Assigning, InHandler
<1>6. StrayIsNamed'
  BY DEF StrayIsNamed, AnsweredAtTheEnd, InvoicesAreWhole
<1> QED
  BY <1>1, <1>2, <1>3, <1>4, <1>5, <1>6

LEMMA InvParentUnread ==
  ASSUME WritesInv, NEW d \in Callers, ParentUnread(d), UNCHANGED <<tool, durableVars, crewVars>>
  PROVE  WritesInv'
<1> USE DEF WritesInv, TypeOK, ParentUnread, Adjusting, InHandler, Ends, Goes,
     adjustVars, durableVars, crewVars
<1>1. TypeOK'
  BY DEF Steps, Rows, Invoices
<1>2. AnsweredAtTheEnd'
  BY DEF AnsweredAtTheEnd
<1>3. WorkflowsWrite'
  BY DEF WorkflowsWrite, AnsweredAtTheEnd
<1>4. InvoicesAreWhole'
  BY DEF InvoicesAreWhole
<1>5. CrewIsEmptied'
  BY DEF CrewIsEmptied, Assigning, InHandler
<1>6. StrayIsNamed'
  BY DEF StrayIsNamed, AnsweredAtTheEnd, InvoicesAreWhole
<1> QED
  BY <1>1, <1>2, <1>3, <1>4, <1>5, <1>6

LEMMA InvPostRefused ==
  ASSUME WritesInv, NEW d \in Callers, PostRefused(d), UNCHANGED <<tool, durableVars, crewVars>>
  PROVE  WritesInv'
<1> USE DEF WritesInv, TypeOK, PostRefused, Adjusting, InHandler, Ends, Goes,
     adjustVars, durableVars, crewVars
<1>1. TypeOK'
  BY DEF Steps, Rows, Invoices
<1>2. AnsweredAtTheEnd'
  BY DEF AnsweredAtTheEnd
<1>3. WorkflowsWrite'
  BY DEF WorkflowsWrite, AnsweredAtTheEnd
<1>4. InvoicesAreWhole'
  BY DEF InvoicesAreWhole
<1>5. CrewIsEmptied'
  BY DEF CrewIsEmptied, Assigning, InHandler
<1>6. StrayIsNamed'
  BY DEF StrayIsNamed, AnsweredAtTheEnd, InvoicesAreWhole
<1> QED
  BY <1>1, <1>2, <1>3, <1>4, <1>5, <1>6

(* No caller asked for as few lines as NoRow shows. *)
LEMMA NoRowIsShort ==
  ASSUME NEW d \in Callers PROVE NoRow.items # Lines[d]
<1>1. Lines[d] \in Nat \ {0}
  BY LinesAssumption
<1>2. NoRow.items = -2
  BY DEF NoRow
<1> QED
  BY <1>1, <1>2

(* What Creates changes: the invoice and the effect of its own caller. *)
LEMMA Created ==
  ASSUME WritesInv, NEW d \in Callers, Creates(d)
  PROVE  /\ invoice' \in [Callers -> Invoices] /\ landed' \in [Callers -> BOOLEAN]
         /\ \A c \in Callers \ {d} : landed'[c] = landed[c] /\ invoice'[c] = invoice[c]
         /\ invoice'[d].lines = Lines[d] /\ invoice'[d].kept => landed'[d]
<1>1. PICK n \in 0..Lines[d], k \in BOOLEAN :
        /\ invoice' = [invoice EXCEPT ![d] = [lines |-> n, kept |-> k]]
        /\ landed' = [landed EXCEPT ![d] = n = Lines[d] /\ k]
  BY DEF Creates
<1>2. [lines |-> n, kept |-> k] \in Invoices
  BY LinesAssumption DEF Invoices
<1>3. invoice \in [Callers -> Invoices] /\ landed \in [Callers -> BOOLEAN]
  BY DEF WritesInv, TypeOK
<1>4. invoice' \in [Callers -> Invoices] /\ landed' \in [Callers -> BOOLEAN]
  BY <1>1, <1>2, <1>3, Zenon
<1>5. \A c \in Callers \ {d} : landed'[c] = landed[c] /\ invoice'[c] = invoice[c]
  BY <1>1, <1>3, Zenon
<1>6. invoice'[d] = [lines |-> n, kept |-> k] /\ landed'[d] = (n = Lines[d] /\ k)
  BY <1>1, <1>3, Zenon
<1> QED
  BY <1>4, <1>5, <1>6

LEMMA InvPost ==
  ASSUME WritesInv, NEW d \in Callers, Post(d), UNCHANGED <<tool, durableVars, crewVars>>
  PROVE  WritesInv'
<1> USE DEF WritesInv, TypeOK, Post, Adjusting, InHandler, Proceeds, Goes, durableVars, crewVars
<1>1. /\ invoice' \in [Callers -> Invoices] /\ landed' \in [Callers -> BOOLEAN]
      /\ \A c \in Callers \ {d} : landed'[c] = landed[c] /\ invoice'[c] = invoice[c]
      /\ invoice'[d].lines = Lines[d] /\ invoice'[d].kept => landed'[d]
  BY Created
<1>0. PICK id \in {"unnamed", "named"} : created' = [created EXCEPT ![d] = id]
  OBVIOUS
<1>2. TypeOK'
  BY <1>0, <1>1 DEF Steps
<1>3. AnsweredAtTheEnd'
  BY DEF AnsweredAtTheEnd
<1>4. WorkflowsWrite'
  BY <1>1 DEF WorkflowsWrite
<1>5. InvoicesAreWhole'
  <2>0. NoRow.items # Lines[d]
    BY NoRowIsShort
  <2>1. observed'[d] = NoRow
    BY DEF InvoicesAreWhole
  <2>2. created'[d] # "unsent" /\ at'[d] = "posted" /\ tool[d] = "adjust"
    BY <1>0
  <2>3. \A c \in Callers \ {d} : at'[c] = at[c] /\ created'[c] = created[c]
    BY <1>0
  <2> QED
    BY <1>1, <2>0, <2>1, <2>2, <2>3 DEF InvoicesAreWhole
<1>6. CrewIsEmptied'
  BY <1>1 DEF CrewIsEmptied, Assigning
<1>7. StrayIsNamed'
  BY DEF StrayIsNamed, AnsweredAtTheEnd, InvoicesAreWhole
<1> QED
  BY <1>2, <1>3, <1>4, <1>5, <1>6, <1>7

LEMMA InvPostFails ==
  ASSUME WritesInv, NEW d \in Callers, PostFails(d), UNCHANGED <<tool, durableVars, crewVars>>
  PROVE  WritesInv'
<1> USE DEF WritesInv, TypeOK, PostFails, Adjusting, InHandler, Ends, Goes, durableVars, crewVars
<1>1. /\ invoice' \in [Callers -> Invoices] /\ landed' \in [Callers -> BOOLEAN]
      /\ \A c \in Callers \ {d} : landed'[c] = landed[c] /\ invoice'[c] = invoice[c]
  BY Created
<1>2. TypeOK'
  BY <1>1 DEF Steps, Invoices
<1>3. AnsweredAtTheEnd'
  BY DEF AnsweredAtTheEnd
<1>4. WorkflowsWrite'
  BY <1>1 DEF WorkflowsWrite
<1>5. InvoicesAreWhole'
  BY <1>1 DEF InvoicesAreWhole
<1>6. CrewIsEmptied'
  BY <1>1 DEF CrewIsEmptied, Assigning
<1>7. StrayIsNamed'
  BY DEF StrayIsNamed, AnsweredAtTheEnd, InvoicesAreWhole
<1> QED
  BY <1>2, <1>3, <1>4, <1>5, <1>6, <1>7

LEMMA InvUnnamed ==
  ASSUME WritesInv, NEW d \in Callers, Unnamed(d), UNCHANGED <<tool, durableVars, crewVars>>
  PROVE  WritesInv'
<1> USE DEF WritesInv, TypeOK, Unnamed, Adjusting, InHandler, Ends, Goes, adjustVars,
     durableVars, crewVars
<1>1. TypeOK'
  BY DEF Steps, Rows, Invoices
<1>2. AnsweredAtTheEnd'
  BY DEF AnsweredAtTheEnd
<1>3. WorkflowsWrite'
  BY DEF WorkflowsWrite, AnsweredAtTheEnd
<1>4. InvoicesAreWhole'
  BY DEF InvoicesAreWhole
<1>5. CrewIsEmptied'
  BY DEF CrewIsEmptied, Assigning, InHandler
<1>6. StrayIsNamed'
  BY DEF StrayIsNamed, AnsweredAtTheEnd, InvoicesAreWhole
<1> QED
  BY <1>1, <1>2, <1>3, <1>4, <1>5, <1>6

LEMMA InvCatchUp ==
  ASSUME WritesInv, NEW d \in Callers, CatchUp(d), UNCHANGED <<tool, durableVars, crewVars>>
  PROVE  WritesInv'
<1> USE DEF WritesInv, TypeOK, CatchUp, Verifying, Adjusting, InHandler, callVars,
     durableVars, crewVars
<1>1. TypeOK'
  BY DEF Steps, Rows, Invoices
<1>2. AnsweredAtTheEnd'
  BY DEF AnsweredAtTheEnd
<1>3. WorkflowsWrite'
  BY DEF WorkflowsWrite, AnsweredAtTheEnd
<1>4. InvoicesAreWhole'
  BY DEF InvoicesAreWhole
<1>5. CrewIsEmptied'
  BY DEF CrewIsEmptied, Assigning, InHandler
<1>6. StrayIsNamed'
  BY DEF StrayIsNamed, AnsweredAtTheEnd, InvoicesAreWhole
<1> QED
  BY <1>1, <1>2, <1>3, <1>4, <1>5, <1>6

(* What a verify-read shows in full, ServiceTitan holds in full. *)
LEMMA ShownRows ==
  ASSUME WritesInv, NEW d \in Callers, NEW row \in RowsShown(d)
  PROVE  /\ row \in Rows
         /\ row.items = Lines[d] /\ row.kept => invoice[d].lines = Lines[d] /\ invoice[d].kept
<1>1. CASE shown[d] = "none"
  BY <1>1 DEF RowsShown
<1>2. CASE shown[d] = "bare"
  <2>1. PICK n \in {NoItems, 0} : row = [items |-> n, kept |-> TRUE]
    BY <1>2 DEF RowsShown
  <2>2. n \in Int /\ n # Lines[d]
    BY LinesAssumption DEF NoItems
  <2> QED
    BY <2>1, <2>2 DEF Rows
<1>3. CASE shown[d] = "full"
  <2>1. row = [items |-> invoice[d].lines, kept |-> invoice[d].kept]
    BY <1>3 DEF RowsShown
  <2>2. invoice[d].lines \in Int /\ invoice[d].kept \in BOOLEAN
    BY DEF WritesInv, TypeOK, Invoices
  <2> QED
    BY <2>1, <2>2 DEF Rows
<1> QED
  BY <1>1, <1>2, <1>3 DEF WritesInv, TypeOK

(* A verify-read, and one that comes back empty, leave a row that is whole  *)
(* only if the invoice is.                                                  *)
LEMMA InvJudges ==
  ASSUME WritesInv, NEW d \in Callers, NEW row \in Rows, Verifying(d),
         row.items = Lines[d] /\ row.kept => landed[d],
         JudgesOrRetries(d, row), UNCHANGED <<tool, durableVars, crewVars>>
  PROVE  WritesInv'
<1>1. \/ /\ at' = [at EXCEPT ![d] = "ended"]
         /\ told' = [told EXCEPT ![d] = Verdict(d, row)]
      \/ at' = [at EXCEPT ![d] = "posted"] /\ told' = told
  <2>1. CASE row.items >= Lines[d] \/ IsLast(d)
    BY <2>1 DEF JudgesOrRetries, Ends, Goes
  <2>2. CASE ~(row.items >= Lines[d] \/ IsLast(d))
    BY <2>2 DEF JudgesOrRetries, Proceeds, Goes
  <2> QED
    BY <2>1, <2>2
<1>2. /\ observed' = [observed EXCEPT ![d] = row]
      /\ UNCHANGED <<landed, invoice, shown, created>>
  BY DEF JudgesOrRetries
<1>3. Verdict(d, row) \in {"done", "named"}
  BY DEF Verdict
<1> USE DEF WritesInv, TypeOK, Verifying, Adjusting, InHandler, durableVars, crewVars
<1>4. TypeOK'
  BY <1>1, <1>2, <1>3 DEF Steps
<1>5. AnsweredAtTheEnd'
  BY <1>1, <1>3 DEF AnsweredAtTheEnd
<1>6. WorkflowsWrite'
  BY <1>1, <1>2, <1>3 DEF WorkflowsWrite
<1>7. InvoicesAreWhole'
  BY <1>1, <1>2 DEF InvoicesAreWhole
<1>8. CrewIsEmptied'
  <2>1. tool[d] = "adjust" /\ at[d] = "posted"
        /\ \A c \in Callers \ {d} : at'[c] = at[c] /\ told'[c] = told[c]
    BY <1>1
  <2> QED
    BY <1>2, <2>1 DEF CrewIsEmptied, Assigning
<1>9. StrayIsNamed'
  BY <1>1, <1>2, <1>3 DEF StrayIsNamed, AnsweredAtTheEnd
<1> QED
  BY <1>4, <1>5, <1>6, <1>7, <1>8, <1>9

LEMMA InvVerifyRead ==
  ASSUME WritesInv, NEW d \in Callers, VerifyRead(d), UNCHANGED <<tool, durableVars, crewVars>>
  PROVE  WritesInv'
<1>1. PICK row \in RowsShown(d) : JudgesOrRetries(d, row)
  BY DEF VerifyRead
<1>2. row \in Rows /\ (row.items = Lines[d] /\ row.kept => landed[d])
  BY ShownRows DEF WritesInv, InvoicesAreWhole, VerifyRead, Verifying, Adjusting, InHandler
<1> QED
  BY <1>1, <1>2, InvJudges DEF VerifyRead

LEMMA InvVerifyMiss ==
  ASSUME WritesInv, NEW d \in Callers, VerifyMiss(d), UNCHANGED <<tool, durableVars, crewVars>>
  PROVE  WritesInv'
<1>1. observed[d] \in Rows
  BY DEF WritesInv, TypeOK
<1>2. observed[d].items = Lines[d] /\ observed[d].kept => landed[d]
  BY DEF WritesInv, InvoicesAreWhole, VerifyMiss, Verifying, Adjusting, InHandler
<1> QED
  BY <1>1, <1>2, InvJudges DEF VerifyMiss

LEMMA InvParentMoves ==
  ASSUME WritesInv, ParentMoves, UNCHANGED <<tool, durableVars, crewVars>>
  PROVE  WritesInv'
  BY DEF WritesInv, TypeOK, AnsweredAtTheEnd, WorkflowsWrite, InvoicesAreWhole, CrewIsEmptied,
     StrayIsNamed, Assigning, InHandler, ParentMoves, callVars, invoiceVars, durableVars, crewVars

-----------------------------------------------------------------------------
(* The steps of an assignment. *)

LEMMA InvAssignRefused ==
  ASSUME WritesInv, NEW d \in Callers, AssignRefused(d), UNCHANGED <<tool, durableVars, adjustVars>>
  PROVE  WritesInv'
<1> USE DEF WritesInv, TypeOK, AssignRefused, Assigning, InHandler, Ends, Goes,
     crewVars,
     durableVars, adjustVars
<1>1. TypeOK'
  BY DEF Steps, Rows, Invoices
<1>2. AnsweredAtTheEnd'
  BY DEF AnsweredAtTheEnd
<1>3. WorkflowsWrite'
  BY DEF WorkflowsWrite, AnsweredAtTheEnd
<1>4. InvoicesAreWhole'
  BY DEF InvoicesAreWhole, CrewIsEmptied
<1>5. CrewIsEmptied'
  BY DEF CrewIsEmptied, AnsweredAtTheEnd
<1>6. StrayIsNamed'
  BY DEF StrayIsNamed, AnsweredAtTheEnd, InvoicesAreWhole
<1> QED
  BY <1>1, <1>2, <1>3, <1>4, <1>5, <1>6

LEMMA InvUnassign ==
  ASSUME WritesInv, NEW d \in Callers, Unassign(d), UNCHANGED <<tool, durableVars, adjustVars>>
  PROVE  WritesInv'
<1> USE DEF WritesInv, TypeOK, Unassign, Assigning, InHandler, Proceeds, Goes, Meets,
     Underway,
     durableVars, adjustVars
<1>1. TypeOK'
  BY DEF Steps, Rows, Invoices
<1>2. AnsweredAtTheEnd'
  BY DEF AnsweredAtTheEnd
<1>3. WorkflowsWrite'
  BY DEF WorkflowsWrite, AnsweredAtTheEnd
<1>4. InvoicesAreWhole'
  BY DEF InvoicesAreWhole, CrewIsEmptied
<1>5. CrewIsEmptied'
  BY DEF CrewIsEmptied, AnsweredAtTheEnd
<1>6. StrayIsNamed'
  BY DEF StrayIsNamed, AnsweredAtTheEnd, InvoicesAreWhole
<1> QED
  BY <1>1, <1>2, <1>3, <1>4, <1>5, <1>6

LEMMA InvUnassignWithoutEffect ==
  ASSUME WritesInv, NEW d \in Callers, UnassignWithoutEffect(d), UNCHANGED <<tool, durableVars, adjustVars>>
  PROVE  WritesInv'
<1> USE DEF WritesInv, TypeOK, UnassignWithoutEffect, Assigning, InHandler, Proceeds, Goes,
     Meets, Underway,
     durableVars, adjustVars
<1>1. TypeOK'
  BY DEF Steps, Rows, Invoices
<1>2. AnsweredAtTheEnd'
  BY DEF AnsweredAtTheEnd
<1>3. WorkflowsWrite'
  BY DEF WorkflowsWrite, AnsweredAtTheEnd
<1>4. InvoicesAreWhole'
  BY DEF InvoicesAreWhole, CrewIsEmptied
<1>5. CrewIsEmptied'
  BY DEF CrewIsEmptied, AnsweredAtTheEnd
<1>6. StrayIsNamed'
  BY DEF StrayIsNamed, AnsweredAtTheEnd, InvoicesAreWhole
<1> QED
  BY <1>1, <1>2, <1>3, <1>4, <1>5, <1>6

LEMMA InvUnassignFails ==
  ASSUME WritesInv, NEW d \in Callers, UnassignFails(d), UNCHANGED <<tool, durableVars, adjustVars>>
  PROVE  WritesInv'
<1> USE DEF WritesInv, TypeOK, UnassignFails, Assigning, InHandler, Ends, Goes,
     durableVars, adjustVars
<1>1. TypeOK'
  BY DEF Steps, Rows, Invoices
<1>2. AnsweredAtTheEnd'
  BY DEF AnsweredAtTheEnd
<1>3. WorkflowsWrite'
  BY DEF WorkflowsWrite, AnsweredAtTheEnd
<1>4. InvoicesAreWhole'
  BY DEF InvoicesAreWhole, CrewIsEmptied
<1>5. CrewIsEmptied'
  BY DEF CrewIsEmptied, AnsweredAtTheEnd
<1>6. StrayIsNamed'
  BY DEF StrayIsNamed, AnsweredAtTheEnd, InvoicesAreWhole
<1> QED
  BY <1>1, <1>2, <1>3, <1>4, <1>5, <1>6

LEMMA InvAssign ==
  ASSUME WritesInv, NEW d \in Callers, Assign(d), UNCHANGED <<tool, durableVars, adjustVars>>
  PROVE  WritesInv'
<1> USE DEF WritesInv, TypeOK, Assign, Assigning, InHandler, Ends, Goes, InFull, Lands,
     durableVars, adjustVars
<1>1. TypeOK'
  BY DEF Steps, Rows, Invoices
<1>2. AnsweredAtTheEnd'
  BY DEF AnsweredAtTheEnd
<1>3. WorkflowsWrite'
  BY DEF WorkflowsWrite, AnsweredAtTheEnd
<1>4. InvoicesAreWhole'
  BY DEF InvoicesAreWhole, CrewIsEmptied
<1>5. CrewIsEmptied'
  BY DEF CrewIsEmptied, AnsweredAtTheEnd
<1>6. StrayIsNamed'
  BY DEF StrayIsNamed, AnsweredAtTheEnd, InvoicesAreWhole
<1> QED
  BY <1>1, <1>2, <1>3, <1>4, <1>5, <1>6

LEMMA InvAssignWithoutEffect ==
  ASSUME WritesInv, NEW d \in Callers, AssignWithoutEffect(d), UNCHANGED <<tool, durableVars, adjustVars>>
  PROVE  WritesInv'
<1> USE DEF WritesInv, TypeOK, AssignWithoutEffect, Assigning, InHandler, Ends, Goes,
     durableVars, adjustVars
<1>1. TypeOK'
  BY DEF Steps, Rows, Invoices
<1>2. AnsweredAtTheEnd'
  BY DEF AnsweredAtTheEnd
<1>3. WorkflowsWrite'
  BY DEF WorkflowsWrite, AnsweredAtTheEnd
<1>4. InvoicesAreWhole'
  BY DEF InvoicesAreWhole, CrewIsEmptied
<1>5. CrewIsEmptied'
  BY DEF CrewIsEmptied, AnsweredAtTheEnd
<1>6. StrayIsNamed'
  BY DEF StrayIsNamed, AnsweredAtTheEnd, InvoicesAreWhole
<1> QED
  BY <1>1, <1>2, <1>3, <1>4, <1>5, <1>6

LEMMA InvAssignRefusedHalfway ==
  ASSUME WritesInv, NEW d \in Callers, AssignRefusedHalfway(d), UNCHANGED <<tool, durableVars, adjustVars>>
  PROVE  WritesInv'
<1> USE DEF WritesInv, TypeOK, AssignRefusedHalfway, Assigning, InHandler, Ends, Goes,
     crewVars,
     durableVars, adjustVars
<1>1. TypeOK'
  BY DEF Steps, Rows, Invoices
<1>2. AnsweredAtTheEnd'
  BY DEF AnsweredAtTheEnd
<1>3. WorkflowsWrite'
  BY DEF WorkflowsWrite, AnsweredAtTheEnd
<1>4. InvoicesAreWhole'
  BY DEF InvoicesAreWhole, CrewIsEmptied
<1>5. CrewIsEmptied'
  BY DEF CrewIsEmptied, AnsweredAtTheEnd
<1>6. StrayIsNamed'
  BY DEF StrayIsNamed, AnsweredAtTheEnd, InvoicesAreWhole
<1> QED
  BY <1>1, <1>2, <1>3, <1>4, <1>5, <1>6

LEMMA InvAssignFails ==
  ASSUME WritesInv, NEW d \in Callers, AssignFails(d), UNCHANGED <<tool, durableVars, adjustVars>>
  PROVE  WritesInv'
<1> USE DEF WritesInv, TypeOK, AssignFails, Assigning, InHandler, Ends, Goes,
     durableVars, adjustVars
<1>1. TypeOK'
  BY DEF Steps, Rows, Invoices
<1>2. AnsweredAtTheEnd'
  BY DEF AnsweredAtTheEnd
<1>3. WorkflowsWrite'
  BY DEF WorkflowsWrite, AnsweredAtTheEnd
<1>4. InvoicesAreWhole'
  BY DEF InvoicesAreWhole, CrewIsEmptied
<1>5. CrewIsEmptied'
  BY DEF CrewIsEmptied, AnsweredAtTheEnd
<1>6. StrayIsNamed'
  BY DEF StrayIsNamed, AnsweredAtTheEnd, InvoicesAreWhole
<1> QED
  BY <1>1, <1>2, <1>3, <1>4, <1>5, <1>6

LEMMA InvLateUnassign ==
  ASSUME WritesInv, NEW d \in Callers, LateUnassign(d), UNCHANGED <<tool, durableVars, adjustVars>>
  PROVE  WritesInv'
<1> USE DEF WritesInv, TypeOK, LateUnassign, Assigning, InHandler, Underway,
     callVars,
     durableVars, adjustVars
<1>1. TypeOK'
  BY DEF Steps, Rows, Invoices
<1>2. AnsweredAtTheEnd'
  BY DEF AnsweredAtTheEnd
<1>3. WorkflowsWrite'
  BY DEF WorkflowsWrite, AnsweredAtTheEnd
<1>4. InvoicesAreWhole'
  BY DEF InvoicesAreWhole, CrewIsEmptied
<1>5. CrewIsEmptied'
  BY DEF CrewIsEmptied, AnsweredAtTheEnd
<1>6. StrayIsNamed'
  BY DEF StrayIsNamed, AnsweredAtTheEnd, InvoicesAreWhole
<1> QED
  BY <1>1, <1>2, <1>3, <1>4, <1>5, <1>6

LEMMA InvLateAssign ==
  ASSUME WritesInv, NEW d \in Callers, LateAssign(d), UNCHANGED <<tool, durableVars, adjustVars>>
  PROVE  WritesInv'
<1> USE DEF WritesInv, TypeOK, LateAssign, Assigning, InHandler, Underway, InFull,
     Lands,
     durableVars, adjustVars
<1>0. tool[d] = "assign" /\ at[d] = "ended" /\ told[d] = "failed"
      /\ \A c \in Callers \ {d} : landed'[c] = landed[c] /\ late'[c] = late[c]
  BY DEF CrewIsEmptied, AnsweredAtTheEnd
<1>1. TypeOK'
  BY DEF Steps, Rows, Invoices
<1>2. AnsweredAtTheEnd'
  BY DEF AnsweredAtTheEnd
<1>3. WorkflowsWrite'
  BY <1>0 DEF WorkflowsWrite, AnsweredAtTheEnd
<1>4. InvoicesAreWhole'
  BY <1>0 DEF InvoicesAreWhole, CrewIsEmptied
<1>5. CrewIsEmptied'
  BY <1>0 DEF CrewIsEmptied, AnsweredAtTheEnd
<1>6. StrayIsNamed'
  BY DEF StrayIsNamed, AnsweredAtTheEnd, InvoicesAreWhole
<1> QED
  BY <1>1, <1>2, <1>3, <1>4, <1>5, <1>6

-----------------------------------------------------------------------------
LEMMA InvInit ==
  ASSUME Init PROVE WritesInv
<1> USE DEF Init, DurableInit, AdjustInit, AssignInit
<1>1. TypeOK
  BY DEF TypeOK, Steps, Rows, Invoices, NoInvoice, NoRow
<1>2. AnsweredAtTheEnd /\ WorkflowsWrite /\ InvoicesAreWhole
  BY DEF AnsweredAtTheEnd, WorkflowsWrite, InvoicesAreWhole
<1>3. CrewIsEmptied /\ StrayIsNamed
  BY DEF CrewIsEmptied, StrayIsNamed, Assigning, InHandler
<1> QED
  BY <1>1, <1>2, <1>3 DEF WritesInv

LEMMA InvNext ==
  ASSUME WritesInv, [Next]_vars PROVE WritesInv'
<1>1. CASE UNCHANGED vars
  BY <1>1 DEF WritesInv, TypeOK, AnsweredAtTheEnd, WorkflowsWrite, InvoicesAreWhole,
     CrewIsEmptied, StrayIsNamed, Assigning, InHandler, vars, callVars, durableVars,
     adjustVars, crewVars
<1>2. CASE ParentStep /\ UNCHANGED tool
  BY <1>2, InvParentMoves DEF ParentStep
<1>3. ASSUME NEW d \in Callers, DurableStep(d), UNCHANGED tool PROVE WritesInv'
  BY <1>3, InvDurableRefused, InvSubmit, InvSubmitFails, InvPollAgain, InvPollAnswered,
     InvPollThrows, InvPollTimeout, InvInstanceWrites, InvInstanceEnds
     DEF DurableStep, DurableNext, DurableHandler
<1>4. ASSUME NEW d \in Callers, AdjustStep(d), UNCHANGED tool PROVE WritesInv'
  BY <1>4, InvSkusChecked, InvSkuMissing, InvParentRead, InvParentUnread, InvPostRefused,
     InvPost, InvPostFails, InvUnnamed, InvCatchUp, InvVerifyRead, InvVerifyMiss
     DEF AdjustStep, AdjustNext, AdjustHandler
<1>5. ASSUME NEW d \in Callers, AssignStep(d), UNCHANGED tool PROVE WritesInv'
  BY <1>5, InvAssignRefused, InvUnassign, InvUnassignWithoutEffect, InvUnassignFails, InvAssign,
     InvAssignWithoutEffect, InvAssignRefusedHalfway, InvAssignFails, InvLateUnassign, InvLateAssign
     DEF AssignStep, AssignNext, AssignHandler
<1> QED
  BY <1>1, <1>2, <1>3, <1>4, <1>5 DEF Next

(* What every reachable state satisfies: a call is answered exactly when    *)
(* its handler is over, nothing lands without a workflow or a request, a    *)
(* whole invoice or row has landed, and an assignment that met no other,    *)
(* and whose first call took effect, finds the appointment empty.           *)
THEOREM WritesCorrect == Spec => []WritesInv
<1>1. Init => WritesInv
  BY InvInit
<1>2. WritesInv /\ [Next]_vars => WritesInv'
  BY InvNext
<1> QED
  BY <1>1, <1>2, PTL DEF Spec

(* For any number of callers, lines and reads: an invoice that ServiceTitan *)
(* acknowledged is verified, named, or said to be possible, in the answer   *)
(* of st_create_adjustment_invoice.                                         *)
THEOREM StraysAreNamed == Spec => []StrayIsNamed
<1>1. WritesInv => StrayIsNamed
  BY DEF WritesInv
<1> QED
  BY <1>1, WritesCorrect, PTL

-----------------------------------------------------------------------------
(* An answer that leaves the effect alone, or brings it.                    *)
LEMMA AnswerStep ==
  ASSUME NEW d \in Callers, NEW w \in Honest!Answers,
         told[d] = "nothing", told' = [told EXCEPT ![d] = w],
         landed' = landed \/ landed' = [landed EXCEPT ![d] = TRUE],
         w = "done" => landed'[d], w = "refused" => ~landed'[d]
  PROVE  Honest!HonestNext
  BY DEF Honest!HonestNext, Honest!Answer

LEMMA LandStep ==
  ASSUME NEW d \in Callers, ~landed[d], told[d] # "refused",
         landed' = [landed EXCEPT ![d] = TRUE], told' = told
  PROVE  Honest!HonestNext
  BY DEF Honest!HonestNext, Honest!Land

LEMMA Unanswered ==
  ASSUME WritesInv, NEW d \in Callers, at[d] # "ended" PROVE told[d] = "nothing"
  BY DEF WritesInv, AnsweredAtTheEnd

LEMMA DurableIsHonest ==
  ASSUME WritesInv, NEW d \in Callers, DurableNext(d)
  PROVE  [Honest!HonestNext]_<<told, landed>>
<1> USE DEF Durable, InHandler, Asks, Ends, Proceeds, Honest!Answers, callVars
<1>1. CASE InstanceWrites(d)
  BY <1>1, LandStep DEF InstanceWrites, Lands, WritesInv, WorkflowsWrite
<1>2. CASE InstanceEnds(d)
  BY <1>2 DEF InstanceEnds
<1>3. CASE Submit(d) \/ PollAgain(d)
  BY <1>3 DEF Submit, PollAgain
<1>4. CASE DurableRefused(d)
  BY <1>4, AnswerStep, Unanswered DEF DurableRefused, WritesInv, WorkflowsWrite
<1>5. CASE SubmitFails(d) \/ PollThrows(d) \/ PollTimeout(d)
  BY <1>5, AnswerStep, Unanswered DEF SubmitFails, PollThrows, PollTimeout
<1>6. CASE PollAnswered(d)
  BY <1>6, AnswerStep, Unanswered DEF PollAnswered, WritesInv, WorkflowsWrite
<1> QED
  BY <1>1, <1>2, <1>3, <1>4, <1>5, <1>6 DEF DurableNext, DurableHandler

(* Creating what was asked for lands; creating less leaves the effect out.  *)
LEMMA CreatesLands ==
  ASSUME WritesInv, NEW d \in Callers, ~landed[d], Creates(d)
  PROVE  landed' = landed \/ landed' = [landed EXCEPT ![d] = TRUE]
<1>1. PICK n \in 0..Lines[d], k \in BOOLEAN : landed' = [landed EXCEPT ![d] = n = Lines[d] /\ k]
  BY DEF Creates
<1>2. landed \in [Callers -> BOOLEAN]
  BY DEF WritesInv, TypeOK
<1>3. CASE n = Lines[d] /\ k
  BY <1>1, <1>3, Zenon
<1>4. CASE ~(n = Lines[d] /\ k)
  <2>1. landed' = [landed EXCEPT ![d] = FALSE]
    BY <1>1, <1>4, Zenon
  <2>2. landed[d] = FALSE
    BY <1>2, Zenon
  <2> QED
    BY <1>2, <2>1, <2>2
<1> QED
  BY <1>3, <1>4

LEMMA JudgesHonestly ==
  ASSUME WritesInv, NEW d \in Callers, NEW row \in Rows, Verifying(d),
         row.items = Lines[d] /\ row.kept => landed[d], JudgesOrRetries(d, row)
  PROVE  [Honest!HonestNext]_<<told, landed>>
<1>1. CASE row.items >= Lines[d] \/ IsLast(d)
  <2>1. told' = [told EXCEPT ![d] = Verdict(d, row)] /\ landed' = landed
    BY <1>1 DEF JudgesOrRetries, Ends
  <2>2. Verdict(d, row) \in {"named", "done"}
    BY DEF Verdict
  <2>3. Verdict(d, row) = "done" => landed[d]
    BY DEF Verdict, Rows
  <2>4. told[d] = "nothing"
    BY Unanswered DEF Verifying, Adjusting, InHandler
  <2> QED
    BY <2>1, <2>2, <2>3, <2>4, AnswerStep DEF Honest!Answers
<1>2. CASE ~(row.items >= Lines[d] \/ IsLast(d))
  BY <1>2 DEF JudgesOrRetries, Proceeds
<1> QED
  BY <1>1, <1>2

LEMMA AdjustIsHonest ==
  ASSUME WritesInv, NEW d \in Callers, AdjustNext(d)
  PROVE  [Honest!HonestNext]_<<told, landed>>
<1> USE DEF Adjusting, InHandler, Ends, Proceeds, Honest!Answers, callVars
<1>0. at[d] \in {"called", "checked", "verified"} /\ tool[d] = "adjust" => ~landed[d]
  BY DEF WritesInv, InvoicesAreWhole
<1>1. CASE SkusChecked(d) \/ CatchUp(d)
  BY <1>1 DEF SkusChecked, CatchUp
<1>2. CASE SkuMissing(d) \/ PostRefused(d)
  BY <1>0, <1>2, AnswerStep, Unanswered DEF SkuMissing, PostRefused
<1>3. CASE ParentRead(d)
  <2>1. CASE parent \in Open /\ parent = previewed
    BY <1>3, <2>1 DEF ParentRead
  <2>2. CASE ~(parent \in Open /\ parent = previewed)
    BY <1>0, <1>3, <2>2, AnswerStep, Unanswered DEF ParentRead
  <2> QED
    BY <2>1, <2>2
<1>4. CASE ParentUnread(d)
  BY <1>0, <1>4, AnswerStep, Unanswered DEF ParentUnread
<1>5. CASE Post(d)
  <2>1. ~landed[d] /\ told[d] = "nothing" /\ told' = told /\ Creates(d)
    BY <1>0, <1>5, Unanswered DEF Post
  <2> QED
    BY <2>1, CreatesLands, LandStep
<1>6. CASE PostFails(d)
  <2>1. ~landed[d] /\ told[d] = "nothing" /\ told' = [told EXCEPT ![d] = "failed"]
    BY <1>0, <1>6, Unanswered DEF PostFails
  <2>2. landed' = landed \/ landed' = [landed EXCEPT ![d] = TRUE]
    BY <1>6, <2>1, CreatesLands DEF PostFails
  <2> QED
    BY <2>1, <2>2, AnswerStep
<1>7. CASE Unnamed(d)
  BY <1>7, AnswerStep, Unanswered DEF Unnamed
<1>8. CASE VerifyRead(d)
  <2>1. PICK row \in RowsShown(d) : JudgesOrRetries(d, row)
    BY <1>8 DEF VerifyRead
  <2>2. row \in Rows /\ (row.items = Lines[d] /\ row.kept => landed[d])
    BY <1>8, ShownRows DEF WritesInv, InvoicesAreWhole, VerifyRead, Verifying
  <2> QED
    BY <1>8, <2>1, <2>2, JudgesHonestly DEF VerifyRead
<1>9. CASE VerifyMiss(d)
  <2>1. observed[d] \in Rows
    BY DEF WritesInv, TypeOK
  <2>2. observed[d].items = Lines[d] /\ observed[d].kept => landed[d]
    BY <1>9 DEF WritesInv, InvoicesAreWhole, VerifyMiss, Verifying
  <2> QED
    BY <1>9, <2>1, <2>2, JudgesHonestly DEF VerifyMiss
<1> QED
  BY <1>1, <1>2, <1>3, <1>4, <1>5, <1>6, <1>7, <1>8, <1>9 DEF AdjustNext, AdjustHandler

LEMMA AssignIsHonest ==
  ASSUME WritesInv, NEW d \in Callers, AssignNext(d)
  PROVE  [Honest!HonestNext]_<<told, landed>>
<1> USE DEF Assigning, InHandler, Ends, Proceeds, Lands, InFull, Honest!Answers, crewVars, callVars
<1>0. tool[d] = "assign" /\ at[d] # "ended" => ~landed[d]
  BY DEF WritesInv, CrewIsEmptied
<1>1. CASE Unassign(d) \/ UnassignWithoutEffect(d) \/ LateUnassign(d)
  BY <1>1 DEF Unassign, UnassignWithoutEffect, LateUnassign
<1>2. CASE AssignRefused(d) \/ AssignRefusedHalfway(d)
  BY <1>0, <1>2, AnswerStep, Unanswered DEF AssignRefused, AssignRefusedHalfway
<1>3. CASE UnassignFails(d) \/ AssignWithoutEffect(d) \/ AssignFails(d)
  BY <1>3, AnswerStep, Unanswered DEF UnassignFails, AssignWithoutEffect, AssignFails
<1>4. CASE Assign(d)
  BY <1>4, AnswerStep, Unanswered DEF Assign
<1>5. CASE LateAssign(d)
  BY <1>5, LandStep DEF LateAssign, WritesInv, CrewIsEmptied
<1> QED
  BY <1>1, <1>2, <1>3, <1>4, <1>5 DEF AssignNext, AssignHandler

(* The three write tools keep the promise of HonestWrite: "done" is said    *)
(* only of a write in full effect, "refused" only of one that never will    *)
(* be, for any number of callers, polls, lines and reads.                   *)
THEOREM WritesAreHonest == Spec => ImplementsHonestWrite
<1>1. Init => Honest!HonestInit
  BY DEF Init, Honest!HonestInit
<1>2. WritesInv /\ [Next]_vars => [Honest!HonestNext]_<<told, landed>>
  <2> SUFFICES ASSUME WritesInv, [Next]_vars PROVE [Honest!HonestNext]_<<told, landed>>
    OBVIOUS
  <2>1. CASE UNCHANGED vars
    BY <2>1 DEF vars, callVars
  <2>2. CASE ParentStep
    BY <2>2 DEF ParentStep, ParentMoves, callVars
  <2>3. CASE \E c \in Callers : DurableStep(c) \/ AdjustStep(c) \/ AssignStep(c)
    BY <2>3, DurableIsHonest, AdjustIsHonest, AssignIsHonest
       DEF DurableStep, AdjustStep, AssignStep
  <2> QED
    BY <2>1, <2>2, <2>3 DEF Next
<1> QED
  BY <1>1, <1>2, WritesCorrect, PTL
     DEF Spec, ImplementsHonestWrite, Honest!HonestSpec, Honest!honestVars

-----------------------------------------------------------------------------
(* A success of assign_technicians that no other call overlapped, a late    *)
(* one included, and whose calls took effect leaves exactly the technicians *)
(* it was asked for, whatever the other callers do.                         *)
THEOREM AssignsAsSaid == Spec => AssignsWhatItSays
<1> DEFINE Says == \A c \in Callers \ (overlap \cup unheeded') :
      tool[c] = "assign" /\ told[c] = "nothing" /\ told'[c] = "acknowledged" => crew' = Team[c]
<1>1. ASSUME WritesInv, NEW d \in Callers, AssignStep(d), UNCHANGED tool,
             NEW c \in Callers \ (overlap \cup unheeded'),
             tool[c] = "assign", told[c] = "nothing", told'[c] = "acknowledged"
      PROVE  crew' = Team[c]
  <2>1. told \in [Callers -> {"nothing", "done", "refused", "failed", "acknowledged", "maybe", "named"}]
    BY <1>1 DEF WritesInv, TypeOK
  <2>2. Assign(d) /\ c = d
    <3>1. told' # told
      BY <1>1
    <3>2. CASE Unassign(d) \/ UnassignWithoutEffect(d) \/ LateUnassign(d) \/ LateAssign(d)
      BY <3>1, <3>2 DEF Unassign, UnassignWithoutEffect, LateUnassign, LateAssign, Proceeds, callVars
    <3>3. ASSUME NEW w, w # "acknowledged", told' = [told EXCEPT ![d] = w]
          PROVE  FALSE
      BY <1>1, <2>1, <3>3
    <3>4. CASE AssignRefused(d) \/ AssignRefusedHalfway(d)
      BY <3>3, <3>4 DEF AssignRefused, AssignRefusedHalfway, Ends
    <3>5. CASE UnassignFails(d) \/ AssignFails(d)
      BY <3>3, <3>5 DEF UnassignFails, AssignFails, Ends
    <3>6. CASE Assign(d) \/ AssignWithoutEffect(d)
      <4>1. told' = [told EXCEPT ![d] = "acknowledged"]
        BY <3>6 DEF Assign, AssignWithoutEffect, Ends
      <4>2. c = d
        BY <1>1, <2>1, <4>1
      <4>3. ~AssignWithoutEffect(d)
        BY <1>1, <4>2 DEF AssignWithoutEffect
      <4> QED
        BY <3>6, <4>2, <4>3
    <3> QED
      BY <1>1, <3>2, <3>4, <3>5, <3>6 DEF AssignStep, AssignNext, AssignHandler
  <2>3. crew = {}
    BY <1>1, <2>2 DEF Assign, WritesInv, CrewIsEmptied
  <2> QED
    BY <2>2, <2>3 DEF Assign
<1>2. ASSUME WritesInv, NEW d \in Callers, DurableStep(d) \/ AdjustStep(d), NEW c \in Callers,
             tool[c] = "assign" PROVE told'[c] = told[c]
  <2>1. told \in [Callers -> {"nothing", "done", "refused", "failed", "acknowledged", "maybe", "named"}]
    BY <1>2 DEF WritesInv, TypeOK
  <2>2. tool[d] # "assign"
    BY <1>2 DEF WritesInv, WorkflowsWrite, DurableStep, DurableNext, DurableHandler, DurableRefused, Submit,
       SubmitFails, PollAgain, PollAnswered, PollThrows, PollTimeout, InstanceWrites, InstanceEnds, Asks,
       Durable, AdjustStep, AdjustNext, AdjustHandler, SkusChecked, SkuMissing, ParentRead,
       ParentUnread, PostRefused, Post, PostFails, Unnamed, CatchUp, VerifyRead, VerifyMiss,
       Verifying, Adjusting, InHandler
  <2>3. told' = told \/ \E w : told' = [told EXCEPT ![d] = w]
    BY <1>2 DEF DurableStep, DurableNext, DurableHandler, DurableRefused, Submit,
       SubmitFails, PollAgain, PollAnswered, PollThrows, PollTimeout, InstanceWrites, InstanceEnds,
       AdjustStep, AdjustNext, AdjustHandler, SkusChecked, SkuMissing, ParentRead,
       ParentUnread, PostRefused, Post, PostFails, Unnamed, CatchUp, VerifyRead, VerifyMiss,
       JudgesOrRetries, Ends, Proceeds, callVars
  <2> QED
    BY <1>2, <2>1, <2>2, <2>3
<1>3. WritesInv /\ [Next]_vars => [Says]_vars
  <2> SUFFICES ASSUME WritesInv, Next PROVE Says
    OBVIOUS
  <2> SUFFICES ASSUME NEW c \in Callers \ (overlap \cup unheeded'), tool[c] = "assign",
                      told[c] = "nothing", told'[c] = "acknowledged"
               PROVE  crew' = Team[c]
    OBVIOUS
  <2>1. ~UNCHANGED told
    OBVIOUS
  <2>2. ~ParentStep /\ ~UNCHANGED vars
    BY <2>1 DEF ParentStep, ParentMoves, vars, callVars
  <2>3. UNCHANGED tool /\ \E d \in Callers : DurableStep(d) \/ AdjustStep(d) \/ AssignStep(d)
    BY <2>2 DEF Next
  <2> QED
    BY <1>1, <1>2, <2>3
<1> QED
  BY <1>3, WritesCorrect, PTL DEF Spec, AssignsWhatItSays
=============================================================================
