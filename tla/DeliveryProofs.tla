---------------------------- MODULE DeliveryProofs ----------------------------
(***************************************************************************)
(* The delivery lane end to end: the hub's record of a client, its socket  *)
(* in both directions and the endpoint of its viewer.  A lane in service   *)
(* goes round six stages, and every step of either end leaves it in one of *)
(* them; what the lane promises is read off the stage it is in.            *)
(***************************************************************************)
EXTENDS TerminalDelivery, RevisionProofs

-----------------------------------------------------------------------------
(* What may happen to an endpoint *)

\* It listens for one thing at a time, and only while it is live.
Paired(e) == (e.phase = "idle" <=> e.env = None) /\ (e.st # "live" => e.env = None)

\* It stops showing the pane.
Hangs(x) ==
  /\ x.st \in {"unavailable", "gone"} /\ x.applied = Null
  /\ x.env = None /\ x.phase = "idle"

\* It refuses transaction t and waits for a seed.
Declines(x, e, t) ==
  /\ x.st = e.st /\ x.inc = e.inc /\ x.applied = e.applied /\ x.reseed = TRUE
  /\ x.env = None /\ x.phase = "idle" /\ x.rejected = t

\* It starts to assemble the transaction of envelope m ...
Begins(x, e, m) ==
  /\ x.st = e.st /\ x.inc = e.inc /\ x.applied = e.applied /\ x.reseed = e.reseed
  /\ x.env = m /\ x.got = 0 /\ x.phase = "assembling" /\ x.rejected = 0

\* ... takes a chunk of it ...
Gathers(x, e) ==
  /\ x.st = e.st /\ x.inc = e.inc /\ x.applied = e.applied /\ x.reseed = e.reseed
  /\ x.env = e.env /\ x.rejected = e.rejected /\ x.got = e.got + 1
  /\ x.phase = IF e.got + 1 = e.env.chunks THEN "decoding" ELSE e.phase

\* ... has decoded it ...
Ready(x, e) ==
  /\ x.st = e.st /\ x.inc = e.inc /\ x.applied = e.applied /\ x.reseed = e.reseed
  /\ x.env = e.env /\ x.rejected = e.rejected /\ x.got = e.got /\ x.phase = "pending"

\* ... and shows it.
Shows(x, e) ==
  /\ x.st = e.st /\ x.inc = e.env.inc /\ x.applied = e.env.rev /\ x.reseed = FALSE
  /\ x.env = None /\ x.phase = "idle" /\ x.rejected = e.rejected

NackOf(t) == [type |-> "nack", txn |-> t]
AckOf(m) == [type |-> "ack", txn |-> m.txn, rev |-> m.rev, inc |-> m.inc]

LEMMA StepFields == \A x, f : Step(x, f).ep = x /\ Step(x, f).fb = f
BY SMT DEF Step

LEMMA NewEndpointType ==
  /\ NewEndpoint \in Endpoints /\ NoEndpoint \in Endpoints
  /\ NewEndpoint.env = None /\ NewEndpoint.phase = "idle"
  /\ NoEndpoint.env = None /\ NoEndpoint.phase = "idle" /\ NoEndpoint.st = "none"
  /\ NewEndpoint.applied = Null /\ NoEndpoint.applied = Null
<1>1. Null \in Revs
  BY Zenon DEF Revs
<1>2. 0 \in Nat
  BY SMT
<1>3. NewEndpoint \in Endpoints
  BY <1>1, <1>2, Zenon DEF NewEndpoint, Endpoints
<1>4. NoEndpoint \in Endpoints
  BY <1>3, Zenon DEF NoEndpoint, Endpoints
<1>5. /\ NewEndpoint.env = None /\ NewEndpoint.phase = "idle"
      /\ NewEndpoint.applied = Null
  BY Zenon DEF NewEndpoint
<1>6. /\ NoEndpoint.env = None /\ NoEndpoint.phase = "idle" /\ NoEndpoint.st = "none"
      /\ NoEndpoint.applied = Null
  BY Zenon DEF NoEndpoint, NewEndpoint
<1>. QED BY <1>3, <1>4, <1>5, <1>6

LEMMA ClosedHangs ==
  ASSUME NEW v \in {"unavailable", "gone"}
  PROVE  [NoEndpoint EXCEPT !.st = v] \in Endpoints /\ Hangs([NoEndpoint EXCEPT !.st = v])
<1> DEFINE x == [NoEndpoint EXCEPT !.st = v]
<1>1. /\ x \in Endpoints /\ x.st = v /\ x.applied = NoEndpoint.applied
      /\ x.env = NoEndpoint.env /\ x.phase = NoEndpoint.phase
  BY NewEndpointType, Zenon DEF Endpoints
<1> HIDE DEF x
<1>2. Hangs(x)
  BY <1>1, NewEndpointType, Zenon DEF Hangs
<1>. QED BY <1>1, <1>2, Zenon DEF x

LEMMA RejectDeclines ==
  ASSUME NEW e \in Endpoints, NEW t \in Nat
  PROVE  /\ Reject(e, t).ep \in Endpoints /\ Declines(Reject(e, t).ep, e, t)
         /\ Reject(e, t).fb = <<NackOf(t)>>
<1> DEFINE x == [e EXCEPT !.env = None, !.got = 0, !.phase = "idle",
                          !.rejected = t, !.reseed = TRUE]
<1>1. 0 \in Nat
  BY SMT
<1>2. /\ x \in Endpoints /\ x.st = e.st /\ x.inc = e.inc /\ x.applied = e.applied
      /\ x.reseed = TRUE /\ x.env = None /\ x.phase = "idle" /\ x.rejected = t
  BY <1>1, Zenon DEF Endpoints
<1>3. Reject(e, t).ep = x /\ Reject(e, t).fb = <<NackOf(t)>>
  BY StepFields, Zenon DEF Reject, NackOf
<1> HIDE DEF x
<1>4. Declines(x, e, t)
  BY <1>2, Zenon DEF Declines
<1>. QED BY <1>2, <1>3, <1>4, Zenon

LEMMA AcceptFaultHangs ==
  ASSUME NEW e, NEW m
  PROVE  /\ AcceptFault(e, m).ep \in Endpoints /\ Hangs(AcceptFault(e, m).ep)
         /\ AcceptFault(e, m).fb = <<>>
<1> DEFINE x == [NoEndpoint EXCEPT !.st = "unavailable"]
           y == [NoEndpoint EXCEPT !.st = "gone"]
<1>1. AcceptFault(e, m) = Step(x, <<>>) \/ AcceptFault(e, m) = Step(y, <<>>)
  BY SMT DEF AcceptFault, Fails
<1>2. x \in Endpoints /\ Hangs(x) /\ y \in Endpoints /\ Hangs(y)
  BY ClosedHangs, Zenon
<1> HIDE DEF x, y
<1>3. /\ Step(x, <<>>).ep = x /\ Step(x, <<>>).fb = <<>>
      /\ Step(y, <<>>).ep = y /\ Step(y, <<>>).fb = <<>>
  BY StepFields
<1>. QED BY <1>1, <1>2, <1>3, Zenon

LEMMA FailsHangs ==
  ASSUME NEW e
  PROVE  Fails(e).ep \in Endpoints /\ Hangs(Fails(e).ep) /\ Fails(e).fb = <<>>
BY ClosedHangs, StepFields, Zenon DEF Fails

\* An endpoint with nothing under way takes an envelope or refuses it.
LEMMA AcceptEnvelopeOutcome ==
  ASSUME NEW e \in Endpoints, NEW m \in Envelopes
  PROVE  LET s == AcceptEnvelope(e, m) IN
         /\ s.ep \in Endpoints
         /\ \/ Hangs(s.ep) /\ e.phase = "decoding" /\ s.fb = <<>>
            \/ Declines(s.ep, e, m.txn) /\ s.fb = <<NackOf(m.txn)>>
            \/ Begins(s.ep, e, m) /\ e.env = None /\ s.fb = <<>>
<1> DEFINE x == [e EXCEPT !.env = m, !.got = 0, !.phase = "assembling", !.rejected = 0]
           s == AcceptEnvelope(e, m)
<1> HIDE DEF x
<1>1. \/ s = Fails(e) /\ e.phase = "decoding"
      \/ s = Reject(e, m.txn)
      \/ s = Step(x, <<>>) /\ e.env = None
  <2>1. e.phase = "decoding" => AcceptEnvelope(e, m) = Fails(e)
    BY Zenon DEF AcceptEnvelope
  <2>2. e.phase # "decoding" /\ e.env # None => AcceptEnvelope(e, m) = Reject(e, m.txn)
    BY Zenon DEF AcceptEnvelope
  <2>3. e.phase # "decoding" /\ e.env = None
        => AcceptEnvelope(e, m) \in {Reject(e, m.txn), Step(x, <<>>)}
    BY Zenon DEF AcceptEnvelope, x
  <2>. QED BY <2>1, <2>2, <2>3, Zenon
<1> USE DEF x
<1>2. 0 \in Nat /\ m.txn \in Nat
  BY SMT DEF Envelopes
<1>3. /\ x \in Endpoints /\ x.st = e.st /\ x.inc = e.inc /\ x.applied = e.applied
      /\ x.reseed = e.reseed /\ x.env = m /\ x.got = 0 /\ x.phase = "assembling"
      /\ x.rejected = 0
  BY <1>2, Zenon DEF Endpoints
<1> HIDE DEF x, s
<1>4. CASE s = Fails(e) /\ e.phase = "decoding"
  BY <1>4, FailsHangs, Zenon DEF s
<1>5. CASE s = Reject(e, m.txn)
  BY <1>2, <1>5, RejectDeclines, Zenon DEF s
<1>6. CASE s = Step(x, <<>>) /\ e.env = None
  <2>1. Begins(x, e, m)
    BY <1>3, Zenon DEF Begins
  <2>2. s.ep = x /\ s.fb = <<>>
    BY <1>6, StepFields, Zenon
  <2>. QED BY <1>3, <1>6, <2>1, <2>2, Zenon DEF s
<1>. QED BY <1>1, <1>4, <1>5, <1>6

LEMMA AcceptChunkOutcome ==
  ASSUME NEW e \in Endpoints, NEW m \in Chunks
  PROVE  LET s == AcceptChunk(e, m) IN
         /\ s.ep \in Endpoints
         /\ \/ m.txn = e.rejected /\ s.ep = e /\ s.fb = <<>>
            \/ /\ m.txn # e.rejected /\ e.env = None
               /\ Declines(s.ep, e, m.txn) /\ s.fb = <<NackOf(m.txn)>>
            \/ /\ e.env # None
               /\ e.phase # "assembling" \/ m.txn # e.env.txn \/ m.index # e.got
               /\ Declines(s.ep, e, e.env.txn) /\ s.fb = <<NackOf(e.env.txn)>>
            \/ /\ e.env # None /\ e.phase = "assembling" /\ m.txn = e.env.txn
               /\ m.index = e.got /\ Gathers(s.ep, e) /\ s.fb = <<>>
<1> DEFINE k == e.got + 1
           p == IF k = e.env.chunks THEN "decoding" ELSE e.phase
           x == [e EXCEPT !.got = k, !.phase = p]
           s == AcceptChunk(e, m)
<1>1. m.txn \in Nat
  BY SMT DEF Chunks
<1>2. k \in Nat
  <2>1. e.got \in Nat
    BY Zenon DEF Endpoints
  <2>. QED BY <2>1, SMT
<1>3. p \in {"idle", "assembling", "decoding", "pending"}
  BY Zenon DEF Endpoints
<1> HIDE DEF k, p
<1>4. /\ x \in Endpoints /\ x.st = e.st /\ x.inc = e.inc /\ x.applied = e.applied
      /\ x.reseed = e.reseed /\ x.env = e.env /\ x.got = k /\ x.phase = p
      /\ x.rejected = e.rejected
  BY <1>2, <1>3, Zenon DEF Endpoints
<1>5. CASE m.txn = e.rejected
  BY <1>5, StepFields, Zenon DEF AcceptChunk
<1>6. CASE m.txn # e.rejected /\ e.env = None
  <2>1. s = Reject(e, m.txn)
    BY <1>6, Zenon DEF AcceptChunk
  <2>. QED BY <1>1, <1>6, <2>1, RejectDeclines, Zenon
<1>7. CASE /\ m.txn # e.rejected /\ e.env # None
           /\ e.phase # "assembling" \/ m.txn # e.env.txn \/ m.index # e.got
  <2>1. s = Reject(e, e.env.txn)
    BY <1>7, Zenon DEF AcceptChunk
  <2>2. e.env.txn \in Nat
    <3>1. e.env \in Envelopes
      BY <1>7, Zenon DEF Endpoints
    <3>. QED BY <3>1, Zenon DEF Envelopes
  <2>. QED BY <1>7, <2>1, <2>2, RejectDeclines, Zenon
<1>8. CASE /\ m.txn # e.rejected /\ e.env # None /\ e.phase = "assembling"
           /\ m.txn = e.env.txn /\ m.index = e.got
  <2>1. s = Step(x, <<>>)
    BY <1>8, Zenon DEF AcceptChunk, k, p
  <2> HIDE DEF x
  <2>2. Gathers(x, e)
    BY <1>4, <1>8, Zenon DEF Gathers, k, p
  <2> HIDE DEF s
  <2>3. s.ep = x /\ s.fb = <<>>
    BY <2>1, StepFields, Zenon
  <2>. QED BY <1>4, <1>8, <2>2, <2>3, Zenon DEF s
<1>. QED BY <1>5, <1>6, <1>7, <1>8

LEMMA DecodedWaits ==
  ASSUME NEW e \in Endpoints
  PROVE  /\ Decoded(e).ep \in Endpoints /\ Ready(Decoded(e).ep, e)
         /\ Decoded(e).fb = <<>>
<1> DEFINE x == [e EXCEPT !.phase = "pending"]
<1>1. /\ x \in Endpoints /\ x.st = e.st /\ x.inc = e.inc /\ x.applied = e.applied
      /\ x.reseed = e.reseed /\ x.env = e.env /\ x.rejected = e.rejected
      /\ x.got = e.got /\ x.phase = "pending"
  BY Zenon DEF Endpoints
<1>2. Decoded(e).ep = x /\ Decoded(e).fb = <<>>
  BY StepFields, Zenon DEF Decoded
<1> HIDE DEF x
<1>3. Ready(x, e)
  BY <1>1, Zenon DEF Ready
<1>. QED BY <1>1, <1>2, <1>3, Zenon

LEMMA FlushedShows ==
  ASSUME NEW e \in Endpoints, e.env # None
  PROVE  /\ Flushed(e).ep \in Endpoints /\ Shows(Flushed(e).ep, e)
         /\ Flushed(e).fb = <<AckOf(e.env)>>
<1> DEFINE v == e.env.rev
           i == e.env.inc
           b == e.env.frame = "tombstone"
           x == [e EXCEPT !.applied = v, !.inc = i, !.reseed = FALSE, !.env = None,
                          !.got = 0, !.phase = "idle", !.ended = b]
<1>1. e.env \in Envelopes
  BY Zenon DEF Endpoints
<1>2. v \in Revs /\ i \in Revs /\ b \in BOOLEAN /\ 0 \in Nat
  <2>1. v \in Nat /\ i \in Nat
    BY <1>1, Zenon DEF Envelopes
  <2>2. 0 \in Nat
    BY SMT
  <2>. QED BY <2>1, <2>2, Zenon DEF Revs
<1> DEFINE a == <<AckOf(e.env)>>
<1>3. Flushed(e).ep = x /\ Flushed(e).fb = a
  <2>1. Flushed(e) = Step(x, a)
    BY Zenon DEF Flushed, AckOf
  <2> HIDE DEF x, a
  <2>2. Step(x, a).ep = x /\ Step(x, a).fb = a
    BY StepFields
  <2>. QED BY <2>1, <2>2
<1> HIDE DEF v, i, b
<1>4. /\ x \in Endpoints /\ x.st = e.st /\ x.inc = i /\ x.applied = v
      /\ x.reseed = FALSE /\ x.env = None /\ x.rejected = e.rejected /\ x.phase = "idle"
  BY <1>2, Zenon DEF Endpoints
<1> HIDE DEF x
<1>5. Shows(x, e)
  BY <1>4, Zenon DEF Shows, v, i
<1>. QED BY <1>3, <1>4, <1>5, Zenon

-----------------------------------------------------------------------------
(* Types *)

LEMMA QueueParts ==
  ASSUME NEW T, NEW w \in Seq(T), w # <<>>
  PROVE  /\ Head(w) \in T /\ Tail(w) \in Seq(T) /\ Head(w) = w[1]
         /\ Len(w) \in Nat /\ Len(w) > 0 /\ Len(Tail(w)) = Len(w) - 1
         /\ \A i \in 1..Len(Tail(w)) : Tail(w)[i] = w[i + 1]
BY SMT

Viewers ==
  /\ ep \in [Clients -> Endpoints]
  /\ up \in [Clients -> Seq(Acks \cup Nacks)]
  /\ rejects \in 0..MaxRejects
  /\ \A c \in Clients : Paired(ep[c])

\* One viewer's step: its endpoint changes and answers at most once.
Answers(c, x, f) ==
  /\ ep' = [ep EXCEPT ![c] = x] /\ x \in Endpoints /\ Paired(x)
  /\ up' = [up EXCEPT ![c] = up[c] \o f]
  /\ f = <<>> \/ \E a \in Acks \cup Nacks : f = <<a>>

LEMMA FeedbackTypes ==
  /\ \A t \in Nat : NackOf(t) \in Nacks
  /\ \A m \in Envelopes : AckOf(m) \in Acks
  /\ \A a \in Acks : a.type = "ack"
  /\ \A n \in Nacks : n.type = "nack"
<1>1. \A t \in Nat : NackOf(t) \in Nacks
  BY Zenon DEF NackOf, Nacks
<1>2. \A m \in Envelopes : AckOf(m) \in Acks
  BY Zenon DEF AckOf, Acks, Envelopes
<1>3. \A a \in Acks : a.type = "ack"
  BY Zenon DEF Acks
<1>4. \A n \in Nacks : n.type = "nack"
  BY Zenon DEF Nacks
<1>. QED BY <1>1, <1>2, <1>3, <1>4

\* It is still paired, and its socket is not yet gone.
Goes(x, e) == Paired(x) /\ x.st \in {e.st, "unavailable", "gone"}

LEMMA OutcomesGo ==
  ASSUME NEW e \in Endpoints, Paired(e), NEW x
  PROVE  /\ Hangs(x) => Goes(x, e)
         /\ \A t : Declines(x, e, t) => Goes(x, e)
         /\ \A m \in Envelopes : Begins(x, e, m) /\ e.st = "live" => Goes(x, e)
         /\ Gathers(x, e) /\ e.env # None => Goes(x, e)
         /\ Ready(x, e) /\ e.env # None => Goes(x, e)
         /\ Shows(x, e) => Goes(x, e)
<1>1. Hangs(x) => Goes(x, e)
  BY Zenon DEF Hangs, Paired, Goes
<1>2. \A t : Declines(x, e, t) => Goes(x, e)
  BY Zenon DEF Declines, Paired, Goes
<1>3. \A m \in Envelopes : Begins(x, e, m) /\ e.st = "live" => Goes(x, e)
  <2>1. \A m \in Envelopes : m # None
    BY NoneAssumption, Zenon DEF Messages
  <2>. QED BY <2>1, Zenon DEF Begins, Paired, Goes
<1>4. Gathers(x, e) /\ e.env # None => Goes(x, e)
  BY Zenon DEF Gathers, Paired, Goes
<1>5. Ready(x, e) /\ e.env # None => Goes(x, e)
  BY Zenon DEF Ready, Paired, Goes
<1>6. Shows(x, e) => Goes(x, e)
  BY Zenon DEF Shows, Paired, Goes
<1>. QED BY <1>1, <1>2, <1>3, <1>4, <1>5, <1>6

LEMMA AcceptAnswers ==
  ASSUME NEW e \in Endpoints, Paired(e), e.st \in {"live", "unavailable"},
         NEW m \in Messages
  PROVE  LET s == Accept(e, m) IN
         /\ s.ep \in Endpoints /\ Goes(s.ep, e)
         /\ s.fb = <<>> \/ \E a \in Acks \cup Nacks : s.fb = <<a>>
<1> DEFINE s == Accept(e, m)
<1>1. CASE m.type = "fault"
  <2>1. s = AcceptFault(e, m)
    BY <1>1, Zenon DEF Accept
  <2>. QED BY <2>1, AcceptFaultHangs, OutcomesGo, Zenon
<1>2. CASE m.type # "fault" /\ e.st = "unavailable"
  <2>1. s = Step(e, <<>>)
    BY <1>2, Zenon DEF Accept
  <2>2. Goes(e, e)
    BY Zenon DEF Goes
  <2>3. Step(e, <<>>).ep = e /\ Step(e, <<>>).fb = <<>>
    BY StepFields
  <2>. QED BY <2>1, <2>2, <2>3, Zenon
<1>3. CASE m.type # "fault" /\ e.st = "live" /\ m \in Envelopes
  <2>1. m.type = "envelope" /\ m.txn \in Nat
    BY <1>3, Zenon DEF Envelopes
  <2>2. s = AcceptEnvelope(e, m)
    BY <1>3, <2>1, Zenon DEF Accept
  <2>3. NackOf(m.txn) \in Acks \cup Nacks
    BY <2>1, FeedbackTypes, Zenon
  <2>. QED BY <1>3, <2>2, <2>3, AcceptEnvelopeOutcome, OutcomesGo, Zenon
<1>4. CASE m.type # "fault" /\ e.st = "live" /\ m \in Chunks
  <2>1. m.type = "chunk" /\ m.txn \in Nat
    BY <1>4, Zenon DEF Chunks
  <2>2. s = AcceptChunk(e, m)
    BY <1>4, <2>1, Zenon DEF Accept
  <2>3. NackOf(m.txn) \in Acks \cup Nacks
    BY <2>1, FeedbackTypes, Zenon
  <2>4. e.env # None => NackOf(e.env.txn) \in Acks \cup Nacks
    <3>1. e.env # None => e.env.txn \in Nat
      BY Zenon DEF Endpoints, Envelopes
    <3>. QED BY <3>1, FeedbackTypes, Zenon
  <2> DEFINE q == AcceptChunk(e, m)
  <2>5. /\ q.ep \in Endpoints
        /\ \/ q.ep = e /\ q.fb = <<>>
           \/ Declines(q.ep, e, m.txn) /\ q.fb = <<NackOf(m.txn)>>
           \/ /\ e.env # None
              /\ Declines(q.ep, e, e.env.txn) /\ q.fb = <<NackOf(e.env.txn)>>
           \/ e.env # None /\ Gathers(q.ep, e) /\ q.fb = <<>>
    <3>1. m \in Chunks
      BY <1>4
    <3>. QED BY <3>1, AcceptChunkOutcome, Zenon
  <2> HIDE DEF q
  <2>6. Goes(q.ep, e)
    <3>1. Goes(e, e)
      BY Zenon DEF Goes
    <3>. QED BY <2>5, <3>1, OutcomesGo, Zenon
  <2>7. q.fb = <<>> \/ \E a \in Acks \cup Nacks : q.fb = <<a>>
    BY <2>3, <2>4, <2>5, Zenon
  <2>8. s = q
    BY <2>2 DEF q
  <2>. QED BY <2>5, <2>6, <2>7, <2>8, Zenon
<1>5. m \in FaultMsgs => m.type = "fault"
  BY Zenon DEF FaultMsgs
<1>. QED BY <1>1, <1>2, <1>3, <1>4, <1>5, Zenon DEF Messages

-----------------------------------------------------------------------------
(* The runtime's invariant, with endpoints at the other end *)

LEMMA WireOnly ==
  ASSUME RInv, wire' \in [Clients -> Seq(Messages)], UNCHANGED <<pane, hc, hubClosed, src>>
  PROVE  RInv'
<1>1. BInv'
  BY Zenon DEF RInv, BInv, RtSound, HubSound, HubTypeOK
<1>2. CapacityHeld' /\ Retained'
  BY Zenon DEF RInv, CapacityHeld, Retained, RetentionBound
<1>. QED BY <1>1, <1>2, Zenon DEF RInv

LEMMA MovesKeepsIdle ==
  ASSUME NEW ms, NEW c \in Clients, Moves(c, ms), hc[c].st = "idle"
  PROVE  hc'[c].st = "idle"
BY Zenon DEF Moves, Turns, Undisturbed, Same, Stays, Broken, Encodes, Starts, Sends,
   Detaches, TurnedAway, Waiting, Joining

LEMMA FeedbackEffect ==
  ASSUME BInv, NEW c \in Clients, NEW f \in Acks \cup Nacks,
         IF f.type = "ack" THEN Ack(c, f) ELSE Nack(c, f)
  PROVE  /\ (f \in Acks /\ Ack(c, f)) \/ (f \in Nacks /\ Nack(c, f))
         /\ Effect /\ NoNewClient
<1>1. (f \in Acks /\ Ack(c, f)) \/ (f \in Nacks /\ Nack(c, f))
  <2>1. "ack" # "nack"
    OBVIOUS
  <2>. QED BY <2>1, FeedbackTypes, Zenon
<1>2. \/ AllMove(FaultMsgs)
      \/ f \in Acks /\ Accepts(c, f)
      \/ f \in Nacks /\ Refuses(c, f)
  BY <1>1, AckMoves, NackMoves
<1>3. Effect
  BY <1>2, Zenon DEF Effect
<1>4. ASSUME NEW d \in Clients, hc[d].st = "idle"
      PROVE  hc'[d].st = "idle"
  BY <1>2, <1>4, MovesKeepsIdle, Zenon DEF AllMove, Accepts, Refuses
<1>. QED BY <1>1, <1>3, <1>4, Zenon DEF NoNewClient

LEMMA FeedbackRInv ==
  ASSUME RInv, NEW c \in Clients, NEW f \in Acks \cup Nacks,
         IF f.type = "ack" THEN Ack(c, f) ELSE Nack(c, f), UNCHANGED src
  PROVE  RInv'
<1>1. /\ BInv /\ CapacityHeld /\ InOrder(pane, hc, src) /\ AllSane(hc) /\ Retained
      /\ HubSound
  BY Zenon DEF RInv, BInv, RtSound
<1>2. /\ (f \in Acks /\ Ack(c, f)) \/ (f \in Nacks /\ Nack(c, f))
      /\ Effect /\ NoNewClient
  BY <1>1, FeedbackEffect
<1>3. HubSound' /\ Solvent(pane', hc', src)
  BY <1>1, <1>2, AckType, NackType, AckSolvent, NackSolvent
<1>4. BInv'
  BY <1>1, <1>3, Zenon DEF BInv, RtSound
<1>5. PaneTurns
  BY <1>1, <1>2, AckPane
<1>6. AllPass /\ AllSane(hc')
  BY <1>1, <1>2, EffectPasses, EffectSane
<1>7. InOrder(pane', hc', src')
  BY <1>1, <1>5, <1>6, HubInOrder, Zenon
<1>8. CapacityHeld' /\ Retained'
  BY <1>1, <1>2, <1>5, FreeingKeepsCapacity, TurnsRetained
<1>. QED BY <1>4, <1>6, <1>7, <1>8, Zenon DEF RInv

\* The steps a viewer takes no part in.
Alone ==
  \/ HubStep \/ EncodingStep \/ SourceStep
  \/ \E c \in Clients : DeliveryStep(c) \/ VisibilityStep(c)

\* Every step, by what it does to the runtime.
NextCases ==
  \/ Alone /\ NoViewerStep
  \/ \E c \in Clients :
       \/ Connect(c) \/ Feedback(c) \/ Disconnect(c) \/ SinkFails(c) \/ OpeningFails(c)
       \/ Receive(c) \/ Decode(c) \/ FailDecode(c) \/ Flush(c) \/ Leave(c)

LEMMA NextSplits == Next => NextCases
BY Zenon DEF Next, DaemonStep, SourceEvent, ViewerStep, ViewerEvent, ChangeVisibility,
   Alone, NextCases, SourceStep

LEMMA PeerStepRInv ==
  ASSUME RInv, NEW c \in Clients, OpenDelivery(c) \/ PeerStep(c)
  PROVE  RInv'
<1>1. RtNext
  BY Zenon DEF RtNext
<1>. QED BY <1>1, RInvStep

LEMMA NextKeepsRInv ==
  ASSUME RInv, Viewers, [Next]_vars
  PROVE  RInv'
<1>1. wire \in [Clients -> Seq(Messages)] /\ up \in [Clients -> Seq(Acks \cup Nacks)]
  BY Zenon DEF RInv, BInv, RtSound, HubSound, HubTypeOK, Viewers
<1>2. CASE UNCHANGED vars
  BY <1>2, RInvStep, Zenon DEF vars
<1>3. CASE Alone
  <2>1. RtNext
    BY <1>3, Zenon DEF Alone, RtNext
  <2>. QED BY <2>1, RInvStep
<1>4. ASSUME NEW c \in Clients, Connect(c)
      PROVE  RInv'
  BY <1>4, PeerStepRInv, Zenon DEF Connect
<1>5. ASSUME NEW c \in Clients, Feedback(c)
      PROVE  RInv'
  <2>1. up[c] # <<>> /\ up[c] \in Seq(Acks \cup Nacks)
    BY <1>1, <1>5, Zenon DEF Feedback
  <2>2. Head(up[c]) \in Acks \cup Nacks
    BY <2>1, QueueParts
  <2>3. CASE UNCHANGED hubVars
    BY <1>1, <1>5, <2>3, WireOnly, Zenon DEF Feedback, hubVars
  <2>4. CASE IF Head(up[c]).type = "ack" THEN Ack(c, Head(up[c])) ELSE Nack(c, Head(up[c]))
    BY <1>5, <2>2, <2>4, FeedbackRInv, Zenon DEF Feedback
  <2>. QED BY <1>5, <2>3, <2>4, Zenon DEF Feedback
<1>6. ASSUME NEW c \in Clients, Disconnect(c)
      PROVE  RInv'
  <2>1. CASE CloseConnection(c)
    BY <1>6, <2>1, PeerStepRInv, Zenon DEF Disconnect, PeerStep
  <2>2. CASE DiscardWire(c) /\ UNCHANGED <<pane, hc, hubClosed>>
    <3>1. wire' \in [Clients -> Seq(Messages)]
      BY <2>2, DiscardWireType, Zenon DEF RInv, BInv, RtSound
    <3>. QED BY <1>6, <2>2, <3>1, WireOnly, Zenon DEF Disconnect
  <2>. QED BY <1>6, <2>1, <2>2, Zenon DEF Disconnect
<1>7. ASSUME NEW c \in Clients, SinkFails(c) \/ OpeningFails(c)
      PROVE  RInv'
  BY <1>7, PeerStepRInv, Zenon DEF SinkFails, OpeningFails, PeerStep
<1>8. ASSUME NEW c \in Clients, Receive(c)
      PROVE  RInv'
  <2>1. wire[c] # <<>> /\ wire[c] \in Seq(Messages)
    BY <1>1, <1>8, Zenon DEF Receive
  <2>2. Tail(wire[c]) \in Seq(Messages)
    BY <2>1, QueueParts
  <2>3. wire' \in [Clients -> Seq(Messages)]
    BY <1>1, <1>8, <2>2, Zenon DEF Receive
  <2>. QED BY <1>8, <2>3, WireOnly, Zenon DEF Receive
<1>9. ASSUME NEW c \in Clients, Decode(c) \/ FailDecode(c) \/ Flush(c) \/ Leave(c)
      PROVE  RInv'
  <2>1. UNCHANGED rtVars
    BY <1>9, Zenon DEF Decode, FailDecode, Flush, Leave
  <2>. QED BY <2>1, RInvStep
<1>. QED BY <1>2, <1>3, <1>4, <1>5, <1>6, <1>7, <1>8, <1>9, NextSplits, Zenon DEF NextCases

\* A viewer's step.
LEMMA AnswersViewers ==
  ASSUME Viewers, NEW c \in Clients, NEW x, NEW f, Answers(c, x, f), rejects' \in 0..MaxRejects
  PROVE  Viewers'
<1>1. up[c] \o f \in Seq(Acks \cup Nacks)
  <2>1. up[c] \in Seq(Acks \cup Nacks)
    BY Zenon DEF Viewers
  <2>2. f \in Seq(Acks \cup Nacks)
    <3>1. CASE f = <<>>
      BY <3>1, SMT
    <3>2. ASSUME NEW a \in Acks \cup Nacks, f = <<a>>
          PROVE  f \in Seq(Acks \cup Nacks)
      BY <3>2, SMT
    <3>. QED BY <3>1, <3>2, Zenon DEF Answers
  <2> DEFINE T == Acks \cup Nacks
  <2> HIDE DEF T
  <2>3. \A p, q \in Seq(T) : p \o q \in Seq(T)
    BY SMT
  <2>. QED BY <2>1, <2>2, <2>3, Zenon DEF T
<1>2. /\ ep' \in [Clients -> Endpoints]
      /\ up' \in [Clients -> Seq(Acks \cup Nacks)]
  BY <1>1, Zenon DEF Viewers, Answers
<1>3. \A d \in Clients : Paired(ep'[d])
  BY Zenon DEF Viewers, Answers
<1>. QED BY <1>2, <1>3, Zenon DEF Viewers

LEMMA UnplugViewers ==
  ASSUME Viewers, NEW c \in Clients, Unplug(c)
  PROVE  Viewers'
<1>1. Paired(NoEndpoint) /\ NoEndpoint \in Endpoints
  BY NewEndpointType, Zenon DEF Paired
<1>2. <<>> \in Seq(Acks \cup Nacks)
  BY SMT
<1>3. /\ ep' \in [Clients -> Endpoints] /\ up' \in [Clients -> Seq(Acks \cup Nacks)]
  BY <1>1, <1>2, Zenon DEF Unplug, Viewers
<1>4. \A d \in Clients : Paired(ep'[d])
  BY <1>1, Zenon DEF Unplug, Viewers
<1>. QED BY <1>3, <1>4, Zenon DEF Unplug, Viewers

LEMMA TakeStepAnswers ==
  ASSUME NEW c \in Clients, NEW s, TakeStep(c, s), s.ep \in Endpoints, Paired(s.ep),
         s.fb = <<>> \/ \E a \in Acks \cup Nacks : s.fb = <<a>>
  PROVE  Answers(c, s.ep, s.fb)
BY Zenon DEF TakeStep, Answers

-----------------------------------------------------------------------------
(* A lane in service: where its one transaction is *)

Faulted(w) == \E i \in 1..Len(w) : w[i].type = "fault"

\* Chunks of a transaction that was refused already.
Scrap(w, t) == \A i \in 1..Len(w) : w[i].type = "chunk" /\ w[i].txn = t

\* The hub knows what the endpoint shows.
Level(r, e) == e.applied = r.base /\ (r.lastAck # None => e.inc = r.lastAck.inc)

\* The endpoint waits for a delivery, and the hub knows of what kind.
Awaits(r, e, u) == u = <<>> /\ e.env = None /\ Level(r, e) /\ e.reseed = r.reseed

AtRest(r, w, e, u) ==
  r.flight = None /\ r.out = <<>> /\ Awaits(r, e, u) /\ Scrap(w, e.rejected)

\* The envelope is still in the hub ...
Queued(r, w, e, u) ==
  /\ r.flight # None /\ r.out = <<r.flight.env>> /\ r.flight.next = 0
  /\ Awaits(r, e, u) /\ Scrap(w, e.rejected)

\* ... on the wire, with the chunks that were sent behind it ...
Travelling(r, w, e, u) ==
  /\ r.flight # None /\ r.out = <<>> /\ Awaits(r, e, u)
  /\ \E p \in 1..Len(w) :
       /\ w[p] = r.flight.env /\ Len(w) = p + r.flight.next
       /\ \A i \in 1..(p - 1) : w[i].type = "chunk" /\ w[i].txn = e.rejected
       /\ \A i \in (p + 1)..Len(w) : /\ w[i].type = "chunk" /\ w[i].txn = r.flight.env.txn
                                     /\ w[i].index = i - p - 1

\* ... or at the endpoint, which has some of the chunks and will get the others.
Assembling(r, w, e, u) ==
  /\ r.flight # None /\ r.out = <<>> /\ u = <<>>
  /\ e.env = r.flight.env /\ e.rejected = 0 /\ Level(r, e) /\ e.reseed = r.reseed
  /\ Len(w) = r.flight.next - e.got
  /\ \A i \in 1..Len(w) : /\ w[i].type = "chunk" /\ w[i].txn = r.flight.env.txn
                          /\ w[i].index = e.got + i - 1
  /\ e.phase = "assembling" <=> e.got < r.flight.env.chunks

\* Its answer is on the way.
Refused(r, w, e, u) ==
  /\ r.flight # None /\ r.out = <<>> /\ e.env = None /\ Level(r, e)
  /\ u = <<NackOf(r.flight.env.txn)>> /\ e.reseed = TRUE
  /\ e.rejected = r.flight.env.txn /\ Scrap(w, e.rejected)

Accepted(r, w, e, u) ==
  /\ r.flight # None /\ r.out = <<>> /\ e.env = None /\ w = <<>>
  /\ u = <<AckOf(r.flight.env)>> /\ e.reseed = FALSE
  /\ e.applied = r.flight.env.rev /\ e.inc = r.flight.env.inc
  /\ r.flight.next = r.flight.env.chunks

Aligned(r, w, e, u) ==
  \/ AtRest(r, w, e, u) \/ Queued(r, w, e, u) \/ Travelling(r, w, e, u)
  \/ Assembling(r, w, e, u) \/ Refused(r, w, e, u) \/ Accepted(r, w, e, u)

\* The hub means to go on with the client ...
Serving(r) == ~r.retire /\ r.oob = None

\* ... or the next it says is a fault.
LastWord(r) == r.oob = None /\ r.out # <<>> /\ r.out[1].type = "fault"

\* An open client of a live endpoint.
InPlace(r, w, e, u) ==
  Faulted(w) \/ (IF Serving(r) THEN Aligned(r, w, e, u) ELSE LastWord(r))

Lane(r, w, e, u, closed) ==
  /\ e.st = "none" => r.st = "idle" /\ u = <<>>
  /\ e.st = "live" =>
       /\ Waiting(r) => e = NewEndpoint /\ w = <<>> /\ u = <<>>
       /\ r.st = "idle" => closed \/ Faulted(w)
       /\ r.st = "open" => InPlace(r, w, e, u)

LEMMA Appending ==
  ASSUME NEW T, NEW w \in Seq(T), NEW m
  PROVE  /\ Len(Append(w, m)) = Len(w) + 1 /\ Append(w, m)[Len(w) + 1] = m
         /\ \A i \in 1..Len(w) : Append(w, m)[i] = w[i]
         /\ Append(w, m) # <<>>
BY SMT

LEMMA FaultedAppend ==
  ASSUME NEW w \in Seq(Messages), NEW m
  PROVE  Faulted(Append(w, m)) <=> Faulted(w) \/ m.type = "fault"
<1> DEFINE x == Append(w, m)
<1>1. /\ Len(x) = Len(w) + 1 /\ x[Len(w) + 1] = m
      /\ \A i \in 1..Len(w) : x[i] = w[i]
  BY Appending
<1>2. Len(w) \in Nat
  BY SMT
<1> HIDE DEF x
<1>3. 1..Len(x) = (1..Len(w)) \cup {Len(w) + 1}
  BY <1>1, <1>2, SMT
<1>4. Faulted(x) <=> Faulted(w) \/ m.type = "fault"
  BY <1>1, <1>3, Zenon DEF Faulted
<1>. QED BY <1>4 DEF x

LEMMA ScrapAppend ==
  ASSUME NEW w \in Seq(Messages), NEW t, NEW m, Scrap(w, t),
         m.type = "chunk", m.txn = t
  PROVE  Scrap(Append(w, m), t)
<1> DEFINE x == Append(w, m)
<1>1. /\ Len(x) = Len(w) + 1 /\ x[Len(w) + 1] = m
      /\ \A i \in 1..Len(w) : x[i] = w[i]
  BY Appending
<1>2. Len(w) \in Nat
  BY SMT
<1> HIDE DEF x
<1>3. 1..Len(x) = (1..Len(w)) \cup {Len(w) + 1}
  BY <1>1, <1>2, SMT
<1>4. Scrap(x, t)
  BY <1>1, <1>3, Zenon DEF Scrap
<1>. QED BY <1>4 DEF x

LEMMA SamePlace ==
  ASSUME NEW r, NEW s, Same(s, r), NEW w, NEW e, NEW u, InPlace(r, w, e, u)
  PROVE  InPlace(s, w, e, u)
<1>1. /\ s.base = r.base /\ s.reseed = r.reseed /\ s.lastAck = r.lastAck
      /\ s.retire = r.retire /\ s.oob = r.oob /\ s.out = r.out /\ s.flight = r.flight
  BY Zenon DEF Same, Stays
<1>2. Awaits(r, e, u) <=> Awaits(s, e, u)
  BY <1>1, SMT DEF Awaits, Level
<1>3. Level(r, e) <=> Level(s, e)
  BY <1>1, SMT DEF Level
<1>4. AtRest(r, w, e, u) => AtRest(s, w, e, u)
  BY <1>1, <1>2, Zenon DEF AtRest
<1>5. Queued(r, w, e, u) => Queued(s, w, e, u)
  BY <1>1, <1>2, SMT DEF Queued
<1>6. Travelling(r, w, e, u) => Travelling(s, w, e, u)
  BY <1>1, <1>2, SMT DEF Travelling
<1>7. Assembling(r, w, e, u) => Assembling(s, w, e, u)
  BY <1>1, <1>3, SMT DEF Assembling
<1>8. Refused(r, w, e, u) => Refused(s, w, e, u)
  BY <1>1, <1>3, SMT DEF Refused
<1>9. Accepted(r, w, e, u) => Accepted(s, w, e, u)
  BY <1>1, SMT DEF Accepted
<1>10. Aligned(r, w, e, u) => Aligned(s, w, e, u)
  BY <1>4, <1>5, <1>6, <1>7, <1>8, <1>9, Zenon DEF Aligned
<1>11. (Serving(r) <=> Serving(s)) /\ (LastWord(r) => LastWord(s))
  BY <1>1, SMT DEF Serving, LastWord
<1>. QED BY <1>10, <1>11, Zenon DEF InPlace

\* A fault that overtakes its sender is on the wire before it ends the lane.
LEMMA BrokenPlace ==
  ASSUME NEW ms, NEW r, NEW s, Broken(s, r, ms), NEW w \in Seq(Messages), NEW e, NEW u,
         InPlace(r, w, e, u), NEW x,
         x = IF s.oob \notin {None, r.oob} THEN Append(w, s.oob) ELSE w
  PROVE  InPlace(s, x, e, u)
<1>1. Faulted(w) => Faulted(x)
  BY FaultedAppend, Zenon
<1>2. ~Faulted(w) => r.oob = None
  BY Zenon DEF InPlace, Serving, LastWord
<1>3. PICK m \in FaultMsgs : \/ s.out = <<m>> /\ s.retire /\ s.oob = r.oob
                             \/ s.out = <<>> /\ s.retire = r.retire /\ s.oob = m
  BY Zenon DEF Broken
<1>4. m # None /\ m.type = "fault"
  BY NoneAssumption, Zenon DEF Messages, FaultMsgs
<1>5. CASE ~Faulted(w) /\ s.out = <<m>> /\ s.retire /\ s.oob = r.oob
  <2>1. s.out # <<>> /\ s.out[1] = m
    BY <1>5, SMT
  <2>. QED BY <1>2, <1>4, <1>5, <2>1, Zenon DEF InPlace, Serving, LastWord
<1>6. CASE ~Faulted(w) /\ s.oob = m
  <2>1. x = Append(w, m)
    BY <1>2, <1>4, <1>6, Zenon
  <2>. QED BY <1>4, <2>1, FaultedAppend, Zenon DEF InPlace
<1>. QED BY <1>1, <1>3, <1>5, <1>6, Zenon DEF InPlace

LEMMA StartsPlace ==
  ASSUME NEW r \in ClientStates, NEW s, Starts(s, r), NEW w, NEW e, NEW u,
         InPlace(r, w, e, u)
  PROVE  InPlace(s, w, e, u)
<1>1. /\ s.base = r.base /\ s.reseed = r.reseed /\ s.lastAck = r.lastAck
      /\ s.retire = r.retire /\ s.oob = r.oob /\ r.flight = None
  BY Zenon DEF Starts, Stays
<1>2. PICK m \in Envelopes : /\ s.flight = [env |-> m, next |-> 0]
                             /\ s.out = Append(r.out, m)
  BY Zenon DEF Starts
<1>3. CASE Serving(r) /\ Aligned(r, w, e, u)
  <2>1. AtRest(r, w, e, u)
    BY <1>1, <1>3, Zenon DEF Aligned, Queued, Travelling, Assembling, Refused, Accepted
  <2>2. s.out = <<m>> /\ s.flight.env = m /\ s.flight.next = 0
    BY <1>2, <2>1, SMT DEF AtRest
  <2>3. s.flight # None
    <3>1. s.flight \in Flights
      BY <1>2, SMT DEF Flights
    <3>. QED BY <3>1, NoneAssumption, Zenon
  <2>4. Awaits(s, e, u)
    BY <1>1, <2>1, SMT DEF AtRest, Awaits, Level
  <2>5. Queued(s, w, e, u)
    BY <2>1, <2>2, <2>3, <2>4, Zenon DEF Queued, AtRest
  <2>. QED BY <1>1, <1>3, <2>5, Zenon DEF InPlace, Serving, Aligned
<1>4. CASE ~Serving(r) /\ LastWord(r)
  <2>1. r.out \in Seq(Messages)
    BY Zenon DEF ClientStates
  <2>2. s.out # <<>> /\ s.out[1] = r.out[1]
    BY <1>2, <1>4, <2>1, SMT DEF LastWord
  <2>. QED BY <1>1, <1>4, <2>2, Zenon DEF InPlace, Serving, LastWord
<1>. QED BY <1>3, <1>4, Zenon DEF InPlace

\* What the sender takes from the head of the lane it puts on the wire.
LEMMA SendsPlace ==
  ASSUME NEW r \in ClientStates, NEW s, NEW m, Sends(s, r, m),
         NEW w \in Seq(Messages), NEW e, e \in Endpoints, NEW u, InPlace(r, w, e, u)
  PROVE  InPlace(s, Append(w, m), e, u)
<1> DEFINE x == Append(w, m)
<1>1. /\ Len(x) = Len(w) + 1 /\ x[Len(w) + 1] = m
      /\ \A i \in 1..Len(w) : x[i] = w[i]
      /\ Len(w) \in Nat
  BY Appending, SMT
<1>2. /\ Faulted(w) \/ m.type = "fault" => Faulted(x)
      /\ \A t : Scrap(w, t) /\ m.type = "chunk" /\ m.txn = t => Scrap(x, t)
  BY FaultedAppend, ScrapAppend, Zenon
<1> HIDE DEF x
<1>3. /\ s.base = r.base /\ s.reseed = r.reseed /\ s.lastAck = r.lastAck
      /\ s.retire = r.retire /\ s.oob = r.oob /\ r.out \in Seq(Messages)
  BY Zenon DEF Sends, Stays, ClientStates
<1>4. r.flight # None => /\ r.flight.env \in Envelopes /\ r.flight.next \in Nat
  BY Zenon DEF ClientStates, Flights
<1>5. CASE Faulted(w)
  BY <1>2, <1>5, Zenon DEF InPlace, x
<1>6. CASE ~Faulted(w) /\ ~Serving(r)
  <2>1. r.out # <<>> /\ r.out[1].type = "fault"
    BY <1>6, Zenon DEF InPlace, LastWord
  <2>2. m = r.out[1]
    BY <1>3, <2>1, QueueParts, Zenon DEF Sends
  <2>. QED BY <1>2, <2>1, <2>2, Zenon DEF InPlace, x
<1>7. CASE ~Faulted(w) /\ Serving(r)
  <2>1. Aligned(r, w, e, u)
    BY <1>7, Zenon DEF InPlace
  <2>2. CASE r.out # <<>>
    <3>1. Queued(r, w, e, u)
      BY <2>1, <2>2, Zenon DEF Aligned, AtRest, Travelling, Assembling, Refused, Accepted
    <3>2. m = r.flight.env /\ s.out = <<>> /\ s.flight = r.flight
      <4>1. r.out = <<r.flight.env>>
        BY <3>1, Zenon DEF Queued
      <4>2. Head(r.out) = r.flight.env /\ Tail(r.out) = <<>>
        BY <4>1, SMT
      <4>. QED BY <2>2, <4>2, Zenon DEF Sends
    <3>3. Awaits(s, e, u)
      BY <1>3, <3>1, SMT DEF Queued, Awaits, Level
    <3>4. /\ r.flight.next = 0 /\ r.flight # None
          /\ \A i \in 1..Len(w) : w[i].type = "chunk" /\ w[i].txn = e.rejected
      BY <3>1, Zenon DEF Queued, Scrap
    <3> DEFINE p == Len(w) + 1
    <3>5. p \in 1..Len(x) /\ p - 1 = Len(w) /\ (p + 1)..Len(x) = {} /\ Len(x) = p + 0
      BY <1>1, SMT
    <3>6. x[p] = s.flight.env
      BY <1>1, <3>2
    <3> HIDE DEF p
    <3>7. Travelling(s, x, e, u)
      <4>1. p \in 1..Len(x) /\ Len(x) = p + s.flight.next /\ s.flight # None
        BY <3>2, <3>4, <3>5
      <4>2. \A i \in 1..(p - 1) : x[i].type = "chunk" /\ x[i].txn = e.rejected
        BY <1>1, <3>4, <3>5
      <4>3. \A i \in (p + 1)..Len(x) : FALSE
        BY <3>5
      <4>. QED BY <3>2, <3>3, <3>6, <4>1, <4>2, <4>3, Zenon DEF Travelling
    <3>. QED BY <1>3, <1>7, <3>7, Zenon DEF InPlace, Serving, Aligned, x
  <2>3. CASE r.out = <<>>
    <3>1. /\ r.flight # None /\ r.flight.next < r.flight.env.chunks
          /\ m = [type |-> "chunk", txn |-> r.flight.env.txn, index |-> r.flight.next]
          /\ s.out = <<>>
          /\ s.flight = [env |-> r.flight.env, next |-> r.flight.next + 1]
      BY <2>3, Zenon DEF Sends
    <3>2. /\ m.type = "chunk" /\ m.txn = r.flight.env.txn /\ m.index = r.flight.next
          /\ s.flight.env = r.flight.env /\ s.flight.next = r.flight.next + 1
      BY <3>1, SMT
    <3>3. s.flight # None
      <4>1. r.flight.next + 1 \in Nat
        BY <1>4, <3>1, SMT
      <4>2. s.flight \in Flights
        BY <1>4, <3>1, <4>1, SMT DEF Flights
      <4>. QED BY <4>2, NoneAssumption, Zenon
    <3>4. r.flight.next \in Nat
      BY <1>4, <3>1
    <3>5. CASE Travelling(r, w, e, u)
      <4>1. PICK p \in 1..Len(w) :
              /\ w[p] = r.flight.env /\ Len(w) = p + r.flight.next
              /\ \A i \in 1..(p - 1) : w[i].type = "chunk" /\ w[i].txn = e.rejected
              /\ \A i \in (p + 1)..Len(w) :
                   /\ w[i].type = "chunk" /\ w[i].txn = r.flight.env.txn
                   /\ w[i].index = i - p - 1
        BY <3>5, Zenon DEF Travelling
      <4>2. /\ p \in 1..Len(x) /\ Len(x) = p + (r.flight.next + 1)
            /\ (p + 1)..Len(x) = ((p + 1)..Len(w)) \cup {Len(w) + 1}
            /\ (Len(w) + 1) - p - 1 = r.flight.next
            /\ 1..(p - 1) \subseteq 1..Len(w) /\ (p + 1)..Len(w) \subseteq 1..Len(w)
        <5>1. /\ Len(w) \in Nat /\ r.flight.next \in Nat /\ p \in 1..Len(w)
              /\ Len(w) = p + r.flight.next /\ Len(x) = Len(w) + 1
          BY <1>1, <3>4, <4>1
        <5>2. p \in 1..Len(x) /\ Len(x) = p + (r.flight.next + 1)
          BY <5>1, SMTT(40)
        <5>3. (p + 1)..Len(x) = ((p + 1)..Len(w)) \cup {Len(w) + 1}
          BY <5>1, SMTT(40)
        <5>4. (Len(w) + 1) - p - 1 = r.flight.next
          BY <5>1, SMTT(40)
        <5>5. 1..(p - 1) \subseteq 1..Len(w) /\ (p + 1)..Len(w) \subseteq 1..Len(w)
          BY <5>1, SMTT(40)
        <5>. QED BY <5>2, <5>3, <5>4, <5>5
      <4>3. \A i \in (p + 1)..Len(x) :
              /\ x[i].type = "chunk" /\ x[i].txn = r.flight.env.txn
              /\ x[i].index = i - p - 1
        BY <1>1, <3>2, <4>1, <4>2, Zenon
      <4>4. \A i \in 1..(p - 1) : x[i].type = "chunk" /\ x[i].txn = e.rejected
        BY <1>1, <4>1, <4>2, Zenon
      <4>5. x[p] = r.flight.env
        BY <1>1, <4>1
      <4>6. Awaits(s, e, u)
        BY <1>3, <3>5, SMT DEF Travelling, Awaits, Level
      <4>7. Travelling(s, x, e, u)
        BY <3>1, <3>2, <3>3, <4>2, <4>3, <4>4, <4>5, <4>6, Zenon DEF Travelling
      <4>. QED BY <1>3, <1>7, <4>7, Zenon DEF InPlace, Serving, Aligned, x
    <3>6. CASE Assembling(r, w, e, u)
      <4>1. /\ e.env = r.flight.env /\ e.rejected = 0 /\ Level(r, e)
            /\ e.reseed = r.reseed /\ u = <<>> /\ Len(w) = r.flight.next - e.got
            /\ \A i \in 1..Len(w) :
                 /\ w[i].type = "chunk" /\ w[i].txn = r.flight.env.txn
                 /\ w[i].index = e.got + i - 1
            /\ e.phase = "assembling" <=> e.got < r.flight.env.chunks
        BY <3>6, Zenon DEF Assembling
      <4>2. e.got \in Nat
        BY Zenon DEF Endpoints
      <4>3. /\ Len(x) = (r.flight.next + 1) - e.got
            /\ 1..Len(x) = (1..Len(w)) \cup {Len(w) + 1}
            /\ e.got + (Len(w) + 1) - 1 = r.flight.next
        BY <1>1, <3>4, <4>1, <4>2, SMT
      <4>4. \A i \in 1..Len(x) :
              /\ x[i].type = "chunk" /\ x[i].txn = r.flight.env.txn
              /\ x[i].index = e.got + i - 1
        BY <1>1, <3>2, <4>1, <4>3, ZenonT(40)
      <4>5. Level(s, e)
        BY <1>3, <4>1, SMT DEF Level
      <4>6. Assembling(s, x, e, u)
        BY <1>3, <3>1, <3>2, <3>3, <4>1, <4>3, <4>4, <4>5, SMT DEF Assembling
      <4>. QED BY <1>3, <1>7, <4>6, Zenon DEF InPlace, Serving, Aligned, x
    <3>7. CASE Refused(r, w, e, u)
      <4>1. Level(s, e)
        BY <1>3, <3>7, SMT DEF Refused, Level
      <4>2. Scrap(x, e.rejected)
        BY <1>2, <3>2, <3>7, Zenon DEF Refused
      <4>3. Refused(s, x, e, u)
        BY <3>1, <3>2, <3>3, <3>7, <4>1, <4>2, Zenon DEF Refused
      <4>. QED BY <1>3, <1>7, <4>3, Zenon DEF InPlace, Serving, Aligned, x
    <3>8. ~AtRest(r, w, e, u) /\ ~Queued(r, w, e, u) /\ ~Accepted(r, w, e, u)
      <4>1. ~AtRest(r, w, e, u)
        BY <3>1, Zenon DEF AtRest
      <4>2. <<>> # <<r.flight.env>>
        BY SMT
      <4>3. ~Queued(r, w, e, u)
        BY <2>3, <4>2, Zenon DEF Queued
      <4>4. r.flight.next # r.flight.env.chunks
        <5>1. r.flight.env.chunks \in Nat
          BY <1>4, <3>1, Zenon DEF Envelopes
        <5>. QED BY <3>1, <3>4, <5>1, SMT
      <4>. QED BY <4>1, <4>3, <4>4, Zenon DEF Accepted
    <3>. QED BY <2>1, <3>5, <3>6, <3>7, <3>8, Zenon DEF Aligned
  <2>. QED BY <2>2, <2>3
<1>. QED BY <1>5, <1>6, <1>7

\* A lane in service, and every other lane, through the steps its viewer takes
\* no part in.
LEMMA TurnsLane ==
  ASSUME NEW ms, NEW r \in ClientStates, NEW s, Turns(s, r, ms), NEW w \in Seq(Messages), NEW e,
         NEW u, NEW k, Lane(r, w, e, u, k), NEW x,
         x = IF s.oob \notin {None, r.oob} THEN Append(w, s.oob) ELSE w
  PROVE  Lane(s, x, e, u, k)
<1>1. s.st = r.st
  BY Zenon DEF Turns, Undisturbed, Broken, Encodes, Starts, Same, Stays
<1>2. s.oob = r.oob => x = w
  BY Zenon
<1>3. CASE r.st # "open"
  <2>1. s.oob = r.oob
    BY <1>3, Zenon DEF Turns, Undisturbed, Broken, Encodes, Starts, Same
  <2>. QED BY <1>1, <1>2, <1>3, <2>1, Zenon DEF Lane, Waiting
<1>4. CASE r.st = "open"
  <2>1. ASSUME InPlace(r, w, e, u)
        PROVE  InPlace(s, x, e, u)
    <3>1. CASE Same(s, r)
      <4>1. s.oob = r.oob
        BY <3>1, Zenon DEF Same
      <4>. QED BY <1>2, <2>1, <3>1, <4>1, SamePlace, Zenon
    <3>2. CASE Broken(s, r, ms)
      BY <2>1, <3>2, BrokenPlace
    <3>3. CASE Starts(s, r)
      <4>1. s.oob = r.oob
        BY <3>3, Zenon DEF Starts
      <4>. QED BY <1>2, <2>1, <3>3, <4>1, StartsPlace, Zenon
    <3>. QED BY <3>1, <3>2, <3>3, Zenon DEF Turns, Undisturbed, Encodes
  <2>2. ~Waiting(s)
    BY <1>1, <1>4, Zenon DEF Waiting
  <2>. QED BY <1>1, <1>4, <2>1, <2>2, Zenon DEF Lane
<1>. QED BY <1>3, <1>4

\* A connection joins a lane that nothing was ever sent on.
LEMMA FreshPlace ==
  ASSUME NEW s, Fresh(s)
  PROVE  InPlace(s, <<>>, NewEndpoint, <<>>)
<1>1. /\ NewEndpoint.applied = Null /\ NewEndpoint.env = None
      /\ NewEndpoint.reseed = FALSE
  BY Zenon DEF NewEndpoint
<1>2. Awaits(s, NewEndpoint, <<>>)
  BY <1>1, Zenon DEF Fresh, Awaits, Level
<1>3. Scrap(<<>>, NewEndpoint.rejected)
  <2>1. Len(<<>>) = 0 /\ 1..0 = {}
    BY SMT
  <2>. QED BY <2>1, Zenon DEF Scrap
<1>4. AtRest(s, <<>>, NewEndpoint, <<>>)
  BY <1>2, <1>3, Zenon DEF AtRest, Fresh
<1>. QED BY <1>4, Zenon DEF InPlace, Serving, Aligned, Fresh

LEMMA MovesLane ==
  ASSUME NEW ms, RInv, NEW c \in Clients, Moves(c, ms), NEW e \in Endpoints, NEW u,
         Lane(hc[c], wire[c], e, u, hubClosed), hubClosed => hubClosed'
  PROVE  Lane(hc'[c], wire'[c], e, u, hubClosed')
<1> DEFINE r == hc[c]
           s == hc'[c]
           w == wire[c]
           x == wire'[c]
<1>1. r \in ClientStates /\ w \in Seq(Messages)
  BY BInvTypes, Zenon DEF RInv, BInv, RtSound, HubSound, HubTypeOK
<1>2. Lane(r, w, e, u, hubClosed')
  BY Zenon DEF Lane
<1>3. Lane(s, x, e, u, hubClosed') <=>
        /\ e.st = "none" => s.st = "idle" /\ u = <<>>
        /\ e.st = "live" =>
             /\ Waiting(s) => e = NewEndpoint /\ x = <<>> /\ u = <<>>
             /\ s.st = "idle" => hubClosed' \/ Faulted(x)
             /\ s.st = "open" => InPlace(s, x, e, u)
  BY Zenon DEF Lane
<1>4. IdleClient.st = "idle"
  BY Zenon DEF IdleClient
<1>5. e.st = "none" => s.st = "idle" /\ u = <<>>
  BY <1>2, MovesKeepsIdle, Zenon DEF Lane
<1>6. CASE Turns(s, r, ms) /\ OutOfBand(c)
  BY <1>1, <1>2, <1>6, TurnsLane, Zenon DEF OutOfBand
<1>7. ASSUME NEW m, Sends(s, r, m), x = Append(w, m)
      PROVE  Lane(s, x, e, u, hubClosed')
  <2>1. s.st = "open" /\ r.st = "open" /\ ~Waiting(s)
    BY <1>7, Zenon DEF Sends, Stays, Waiting
  <2>2. e.st = "live" => InPlace(r, w, e, u)
    BY <1>2, <2>1, Zenon DEF Lane
  <2>3. e.st = "live" => InPlace(s, x, e, u)
    BY <1>1, <1>7, <2>2, SendsPlace, Zenon
  <2>. QED BY <1>5, <2>1, <2>3, Zenon DEF Lane
<1>8. CASE Detaches(c)
  <2>1. r.st = "open" /\ s = IdleClient /\ x = w
    BY <1>8, Zenon DEF Detaches
  <2>2. e.st = "live" => hubClosed' \/ Faulted(w)
    <3>1. e.st = "live" => InPlace(r, w, e, u)
      BY <1>2, <2>1, Zenon DEF Lane
    <3>2. hubClosed \/ r.oob # None \/ (r.retire /\ r.out = <<>>)
      BY <1>8, Zenon DEF Detaches
    <3>. QED BY <3>1, <3>2, Zenon DEF InPlace, Serving, LastWord
  <2>3. ~Waiting(s) /\ s.st # "open" /\ s.st = "idle"
    BY <1>4, <2>1, Zenon DEF Waiting
  <2>. QED BY <1>5, <2>1, <2>2, <2>3, Zenon DEF Lane
<1>9. CASE TurnedAway(c)
  <2>1. s = IdleClient /\ x = Append(w, FaultMsg("source-closed", "capture"))
    BY <1>9, Zenon DEF TurnedAway
  <2>2. FaultMsg("source-closed", "capture").type = "fault"
    BY SMT DEF FaultMsg
  <2>3. Faulted(x)
    BY <1>1, <2>1, <2>2, FaultedAppend, Zenon
  <2>4. ~Waiting(s) /\ s.st # "open" /\ s.st = "idle"
    BY <1>4, <2>1, Zenon DEF Waiting
  <2>. QED BY <1>5, <2>3, <2>4, Zenon DEF Lane
<1>10. CASE Waiting(r) /\ Waiting(s) /\ Waits(s, r) /\ x = w
  <2>1. s.st # "idle" /\ s.st # "open"
    BY <1>10, Zenon DEF Waiting
  <2>. QED BY <1>2, <1>5, <1>10, <2>1, Zenon DEF Lane
<1>11. CASE Joining(r) /\ Fresh(s) /\ x = w
  <2>1. Waiting(r) /\ s.st = "open" /\ ~Waiting(s)
    BY <1>11, Zenon DEF Joining, Fresh, Waiting
  <2>2. e.st = "live" => e = NewEndpoint /\ w = <<>> /\ u = <<>>
    BY <1>2, <2>1, Zenon DEF Lane
  <2>3. e.st = "live" => InPlace(s, x, e, u)
    BY <1>11, <2>2, FreshPlace, Zenon
  <2>. QED BY <1>5, <2>1, <2>3, Zenon DEF Lane
<1>. QED BY <1>6, <1>7, <1>8, <1>9, <1>10, <1>11, Zenon DEF Moves

\* An answer that settles the flight puts the lane at rest ...
LEMMA AcceptedRests ==
  ASSUME NEW r, NEW s, NEW w, NEW e, NEW u, Accepted(r, w, e, u),
         Acked(s, r, AckOf(r.flight.env)), Serving(r)
  PROVE  InPlace(s, w, e, <<>>)
<1> DEFINE a == AckOf(r.flight.env)
<1>1. a.rev = r.flight.env.rev /\ a.inc = r.flight.env.inc
  BY SMT DEF AckOf
<1>2. /\ s.base = a.rev /\ s.lastAck = a /\ s.reseed = FALSE /\ s.flight = None
      /\ s.retire = r.retire /\ s.oob = r.oob /\ s.out = r.out
  BY Zenon DEF Acked, Settled
<1> HIDE DEF a
<1>3. /\ r.out = <<>> /\ e.env = None /\ w = <<>> /\ e.reseed = FALSE
      /\ e.applied = r.flight.env.rev /\ e.inc = r.flight.env.inc
  BY Zenon DEF Accepted
<1>4. Level(s, e)
  BY <1>1, <1>2, <1>3, SMT DEF Level
<1>5. Scrap(w, e.rejected)
  <2>1. Len(<<>>) = 0 /\ 1..0 = {}
    BY SMT
  <2>. QED BY <1>3, <2>1, Zenon DEF Scrap
<1>6. AtRest(s, w, e, <<>>)
  BY <1>2, <1>3, <1>4, <1>5, Zenon DEF AtRest, Awaits
<1>. QED BY <1>2, <1>6, Zenon DEF InPlace, Serving, Aligned

\* ... whether it was taken or refused.
LEMMA RefusedRests ==
  ASSUME NEW r, NEW s, NEW w, NEW e, NEW u, Refused(r, w, e, u), Nacked(s, r), Serving(r)
  PROVE  InPlace(s, w, e, <<>>)
<1>1. /\ s.base = r.base /\ s.lastAck = r.lastAck /\ s.reseed = TRUE /\ s.flight = None
      /\ s.retire = r.retire /\ s.oob = r.oob /\ s.out = r.out
  BY Zenon DEF Nacked, Settled
<1>2. r.out = <<>> /\ e.env = None /\ Level(r, e) /\ e.reseed = TRUE /\ Scrap(w, e.rejected)
  BY Zenon DEF Refused
<1>3. Level(s, e)
  BY <1>1, <1>2, SMT DEF Level
<1>4. AtRest(s, w, e, <<>>)
  BY <1>1, <1>2, <1>3, Zenon DEF AtRest, Awaits
<1>. QED BY <1>1, <1>4, Zenon DEF InPlace, Serving, Aligned

\* On a lane that was faulted an answer changes nothing any more.
LEMMA FaultedPlace ==
  ASSUME NEW r, NEW s, NEW w, NEW e, NEW u, NEW v, InPlace(r, w, e, u),
         Faulted(w) \/ ~Serving(r),
         s.retire = r.retire, s.oob = r.oob, s.out = r.out
  PROVE  InPlace(s, w, e, v)
BY Zenon DEF InPlace, Serving, LastWord

\* An answer under way on a lane in service is the answer to the flight.
LEMMA AnswerAligned ==
  ASSUME NEW r, NEW w, NEW e, NEW u, Aligned(r, w, e, u), u # <<>>
  PROVE  /\ r.flight # None
         /\ \/ Accepted(r, w, e, u) /\ u = <<AckOf(r.flight.env)>>
                 /\ r.flight.next = r.flight.env.chunks
            \/ Refused(r, w, e, u) /\ u = <<NackOf(r.flight.env.txn)>>
BY Zenon DEF Aligned, AtRest, Queued, Travelling, Assembling, Awaits, Accepted, Refused

\* The hub takes such an answer as what it is, and says nothing in return.
LEMMA HonestAnswer ==
  ASSUME RInv, NEW c \in Clients, NEW w, NEW e, NEW u \in Seq(Acks \cup Nacks),
         u # <<>>, Aligned(hc[c], w, e, u),
         IF Head(u).type = "ack" THEN Ack(c, Head(u)) ELSE Nack(c, Head(u))
  PROVE  /\ Tail(u) = <<>> /\ hc'[c].st = hc[c].st /\ hc'[c].out = hc[c].out
         /\ wire'[c] = wire[c]
         /\ \/ Accepted(hc[c], w, e, u) /\ Acked(hc'[c], hc[c], AckOf(hc[c].flight.env))
            \/ Refused(hc[c], w, e, u) /\ Nacked(hc'[c], hc[c])
<1> DEFINE r == hc[c]
           s == hc'[c]
           f == Head(u)
<1>1. BInv
  BY Zenon DEF RInv
<1>2. r.flight # None /\ r.flight.env \in Envelopes
  <2>1. r.flight # None
    BY AnswerAligned
  <2>2. r \in ClientStates
    BY <1>1, BInvTypes, Zenon
  <2>. QED BY <2>1, <2>2, Zenon DEF ClientStates, Flights
<1>3. CASE /\ Accepted(r, w, e, u) /\ u = <<AckOf(r.flight.env)>>
           /\ r.flight.next = r.flight.env.chunks
  <2>1. f = AckOf(r.flight.env) /\ Tail(u) = <<>>
    BY <1>3, SMT
  <2>2. f \in Acks /\ Ack(c, f)
    BY <1>2, <2>1, FeedbackTypes, Zenon
  <2>3. Identifies(f, r.flight.env)
    BY <2>1, SMT DEF Identifies, AckOf
  <2>4. Accepts(c, f)
    BY <1>1, <1>2, <1>3, <2>2, <2>3, AckMoves, Zenon DEF AckCompletes
  <2>5. Acked(s, r, f) /\ wire'[c] = wire[c] /\ s.st = r.st /\ s.out = r.out
    BY <2>4, Zenon DEF Accepts, Acked, Settled
  <2>. QED BY <1>3, <2>1, <2>5, Zenon
<1>4. CASE Refused(r, w, e, u) /\ u = <<NackOf(r.flight.env.txn)>>
  <2>1. f = NackOf(r.flight.env.txn) /\ Tail(u) = <<>>
    BY <1>4, SMT
  <2>2. f \in Nacks /\ Nack(c, f)
    <3>1. f \in Nacks
      BY <1>2, <2>1, FeedbackTypes, Zenon DEF Envelopes
    <3>2. f.type = "nack" /\ "nack" # "ack"
      BY <3>1, FeedbackTypes
    <3>. QED BY <3>1, <3>2, Zenon
  <2>3. f.txn = r.flight.env.txn
    BY <2>1, SMT DEF NackOf
  <2>4. Refuses(c, f)
    BY <1>1, <1>2, <2>2, <2>3, NackMoves, Zenon DEF NackMatches
  <2>5. Nacked(s, r) /\ wire'[c] = wire[c] /\ s.st = r.st /\ s.out = r.out
    BY <2>4, Zenon DEF Refuses, Nacked, Settled
  <2>. QED BY <1>4, <2>1, <2>5, Zenon
<1>. QED BY <1>3, <1>4, AnswerAligned

LEMMA FeedbackLane ==
  ASSUME RInv, NEW c \in Clients, NEW e \in Endpoints,
         NEW u \in Seq(Acks \cup Nacks), u # <<>>,
         Lane(hc[c], wire[c], e, u, hubClosed), hubClosed => hubClosed',
         IF ~IsOpen(c) THEN UNCHANGED hubVars
         ELSE IF Head(u).type = "ack" THEN Ack(c, Head(u)) ELSE Nack(c, Head(u))
  PROVE  /\ Lane(hc'[c], wire'[c], e, Tail(u), hubClosed')
         /\ \A d \in Clients \ {c} : Moves(d, Excuses)
<1> DEFINE r == hc[c]
           s == hc'[c]
           w == wire[c]
           x == wire'[c]
           f == Head(u)
           v == Tail(u)
<1>1. e.st # "none" /\ (e.st = "live" => ~Waiting(r))
  BY Zenon DEF Lane
<1>2. f \in Acks \cup Nacks /\ f = u[1] /\ Len(v) = Len(u) - 1
  BY QueueParts
<1>3. CASE ~IsOpen(c)
  <2>1. UNCHANGED hubVars
    BY <1>3
  <2>2. AllMove(Excuses)
    BY <2>1, QuietMoves, Zenon DEF hubVars, RInv
  <2>3. s = r /\ x = w /\ r.st # "open"
    BY <1>3, <2>1, Zenon DEF hubVars, IsOpen
  <2>4. Lane(s, x, e, v, hubClosed')
    BY <1>1, <2>3, Zenon DEF Lane
  <2>. QED BY <2>2, <2>4, Zenon DEF AllMove
<1>4. CASE IsOpen(c)
  <2>1. /\ BInv
        /\ IF f.type = "ack" THEN Ack(c, f) ELSE Nack(c, f)
    BY <1>4, Zenon DEF RInv
  <2>2. (f \in Acks /\ Ack(c, f)) \/ (f \in Nacks /\ Nack(c, f))
    BY <1>2, <2>1, FeedbackEffect
  <2>3. \/ AllMove(FaultMsgs)
        \/ \E a \in Acks : Accepts(c, a)
        \/ \E n \in Nacks : Refuses(c, n)
    BY <2>1, <2>2, AckMoves, NackMoves
  <2>4. \A d \in Clients \ {c} : Moves(d, Excuses)
    BY <2>1, <2>2, AckMoves, NackMoves
  <2>5. r.st = "open"
    BY <1>4, Zenon DEF IsOpen
  <2>6. CASE e.st # "live" \/ Faulted(w) \/ ~Serving(r)
    <3>1. CASE AllMove(FaultMsgs)
      <4>1. e.st = "live" => InPlace(r, w, e, v)
        BY <2>5, <2>6, FaultedPlace, Zenon DEF Lane
      <4>2. Lane(r, w, e, v, hubClosed)
        BY <1>1, <2>5, <4>1, Zenon DEF Lane
      <4>. QED BY <2>4, <3>1, <4>2, MovesLane, Zenon DEF AllMove
    <3>2. CASE /\ s.st = r.st /\ s.retire = r.retire /\ s.oob = r.oob
               /\ s.out = r.out /\ x = w
      <4>1. e.st = "live" => InPlace(s, x, e, v)
        BY <2>5, <2>6, <3>2, FaultedPlace, Zenon DEF Lane
      <4>2. Lane(s, x, e, v, hubClosed')
        BY <1>1, <2>5, <3>2, <4>1, Zenon DEF Lane, Waiting
      <4>. QED BY <2>4, <4>2
    <3>. QED BY <2>3, <3>1, <3>2, Zenon DEF Accepts, Refuses, Acked, Nacked, Settled
  <2>7. CASE e.st = "live" /\ ~Faulted(w) /\ Serving(r)
    <3>1. Aligned(r, w, e, u)
      BY <2>5, <2>7, Zenon DEF Lane, InPlace
    <3>2. /\ v = <<>> /\ s.st = "open" /\ x = w
          /\ \/ Accepted(r, w, e, u) /\ Acked(s, r, AckOf(r.flight.env))
             \/ Refused(r, w, e, u) /\ Nacked(s, r)
      BY <2>1, <2>5, <3>1, HonestAnswer, Zenon
    <3>3. InPlace(s, x, e, v)
      BY <2>7, <3>2, AcceptedRests, RefusedRests, Zenon
    <3>. QED BY <1>1, <2>4, <3>2, <3>3, Zenon DEF Lane, Waiting
  <2>. QED BY <2>6, <2>7
<1>. QED BY <1>3, <1>4

-----------------------------------------------------------------------------
(* The viewer's steps on its lane *)

LEMMA TailPlace ==
  ASSUME NEW w \in Seq(Messages), w # <<>>
  PROVE  /\ Faulted(w) => Head(w).type = "fault" \/ Faulted(Tail(w))
         /\ Faulted(Tail(w)) => Faulted(w)
         /\ \A t : Scrap(w, t) => /\ Head(w).type = "chunk" /\ Head(w).txn = t
                                  /\ Scrap(Tail(w), t)
<1> DEFINE v == Tail(w)
<1>1. /\ Head(w) = w[1] /\ Len(v) = Len(w) - 1 /\ Len(w) \in Nat /\ Len(w) > 0
      /\ \A i \in 1..Len(v) : v[i] = w[i + 1]
  BY QueueParts
<1> HIDE DEF v
<1>2. /\ \A i \in 1..Len(v) : i + 1 \in 1..Len(w)
      /\ \A i \in 1..Len(w) : i = 1 \/ (i - 1 \in 1..Len(v) /\ (i - 1) + 1 = i)
      /\ 1 \in 1..Len(w)
  BY <1>1, SMT
<1>3. Faulted(w) => Head(w).type = "fault" \/ Faulted(v)
  <2>1. ASSUME NEW i \in 1..Len(w), w[i].type = "fault", i # 1
        PROVE  Faulted(v)
    <3>1. i - 1 \in 1..Len(v) /\ v[i - 1] = w[i]
      BY <1>1, <1>2, <2>1
    <3>. QED BY <2>1, <3>1, Zenon DEF Faulted
  <2>. QED BY <1>1, <2>1, Zenon DEF Faulted
<1>4. Faulted(v) => Faulted(w)
  BY <1>1, <1>2, Zenon DEF Faulted
<1>5. ASSUME NEW t, Scrap(w, t)
      PROVE  Head(w).type = "chunk" /\ Head(w).txn = t /\ Scrap(v, t)
  BY <1>1, <1>2, <1>5, Zenon DEF Scrap
<1>. QED BY <1>3, <1>4, <1>5, Zenon DEF v

LEMMA Answered ==
  ASSUME NEW T
  PROVE  /\ \A u \in Seq(T) : u \o <<>> = u
         /\ \A a : <<>> \o <<a>> = <<a>>
BY SMT

\* The envelope arrives: its transaction is refused, or its chunks gathered.
LEMMA EnvelopeArrives ==
  ASSUME NEW r \in ClientStates, Sane(r), NEW e \in Endpoints, Paired(e),
         NEW w \in Seq(Messages), w # <<>>, NEW u,
         r.flight # None, r.out = <<>>, Awaits(r, e, u),
         w[1] = r.flight.env, Len(w) = 1 + r.flight.next,
         \A i \in 2..Len(w) : /\ w[i].type = "chunk" /\ w[i].txn = r.flight.env.txn
                              /\ w[i].index = i - 2,
         NEW q, q = AcceptEnvelope(e, Head(w))
  PROVE  Aligned(r, Tail(w), q.ep, u \o q.fb)
<1> DEFINE v == Tail(w)
           m == r.flight.env
           x == q.ep
<1>1. /\ Head(w) = w[1] /\ Len(v) = Len(w) - 1 /\ Len(w) \in Nat /\ Len(w) > 0
      /\ \A i \in 1..Len(v) : v[i] = w[i + 1]
  BY QueueParts
<1> HIDE DEF v
<1>2. /\ m \in Envelopes /\ m.txn > 0 /\ m.chunks > 0 /\ r.flight.next \in Nat
      /\ m.chunks \in Nat
  <2>1. r.flight \in Flights /\ r.flight.env.txn > 0 /\ r.flight.env.chunks > 0
    BY Zenon DEF ClientStates, Sane
  <2>. QED BY <2>1, Zenon DEF Flights, Envelopes
<1>3. e.env = None /\ e.phase = "idle" /\ u = <<>> /\ Level(r, e) /\ e.reseed = r.reseed
  BY Zenon DEF Awaits, Paired
<1>4. \/ Declines(x, e, m.txn) /\ q.fb = <<NackOf(m.txn)>>
      \/ Begins(x, e, m) /\ q.fb = <<>>
  <2> DEFINE p == AcceptEnvelope(e, m)
  <2>1. \/ Hangs(p.ep) /\ e.phase = "decoding"
        \/ Declines(p.ep, e, m.txn) /\ p.fb = <<NackOf(m.txn)>>
        \/ Begins(p.ep, e, m) /\ p.fb = <<>>
    <3>1. m \in Envelopes
      BY <1>2
    <3>. QED BY <3>1, AcceptEnvelopeOutcome, Zenon
  <2>2. q = p
    BY <1>1
  <2> HIDE DEF p
  <2>. QED BY <1>3, <2>1, <2>2, Zenon
<1>5. \A i \in 1..Len(v) : i + 1 \in 2..Len(w) /\ (i + 1) - 2 = 0 + i - 1
  BY <1>1, SMT
<1>6. \A i \in 1..Len(v) : /\ v[i].type = "chunk" /\ v[i].txn = m.txn
                           /\ v[i].index = 0 + i - 1
  BY <1>1, <1>5, Zenon
<1> HIDE DEF x
<1>7. CASE Declines(x, e, m.txn) /\ q.fb = <<NackOf(m.txn)>>
  <2>1. x.applied = e.applied /\ x.inc = e.inc /\ x.env = None /\ x.reseed = TRUE
          /\ x.rejected = m.txn
    BY <1>7, Zenon DEF Declines
  <2>2. Level(r, x)
    BY <1>3, <2>1, SMT DEF Level
  <2>3. Scrap(v, m.txn)
    BY <1>6, Zenon DEF Scrap
  <2>4. u \o q.fb = <<NackOf(m.txn)>>
    BY <1>3, <1>7, Answered, Zenon
  <2>5. Refused(r, v, x, u \o q.fb)
    BY <2>1, <2>2, <2>3, <2>4, Zenon DEF Refused
  <2>. QED BY <2>5, Zenon DEF Aligned, x, v
<1>8. CASE Begins(x, e, m) /\ q.fb = <<>>
  <2>1. /\ x.applied = e.applied /\ x.inc = e.inc /\ x.env = m /\ x.reseed = e.reseed
        /\ x.rejected = 0 /\ x.got = 0 /\ x.phase = "assembling"
    BY <1>8, Zenon DEF Begins
  <2>2. Level(r, x)
    BY <1>3, <2>1, SMT DEF Level
  <2>3. u \o q.fb = <<>>
    BY <1>3, <1>8, SMT
  <2>4. Len(v) = r.flight.next - x.got /\ x.got < m.chunks
    BY <1>1, <1>2, <2>1, SMT
  <2>5. Assembling(r, v, x, u \o q.fb)
    BY <1>3, <1>6, <2>1, <2>2, <2>3, <2>4, Zenon DEF Assembling
  <2>. QED BY <2>5, Zenon DEF Aligned, x, v
<1>. QED BY <1>4, <1>7, <1>8

\* A chunk arrives that the endpoint waits for.
LEMMA ChunkArrives ==
  ASSUME NEW r \in ClientStates, Sane(r), NEW e \in Endpoints, Paired(e),
         NEW w \in Seq(Messages), w # <<>>, NEW u, Assembling(r, w, e, u),
         NEW q, q = AcceptChunk(e, Head(w)), Head(w) \in Chunks
  PROVE  Aligned(r, Tail(w), q.ep, u \o q.fb)
<1> DEFINE v == Tail(w)
           m == r.flight.env
           x == q.ep
           h == Head(w)
<1>1. /\ h = w[1] /\ Len(v) = Len(w) - 1 /\ Len(w) \in Nat /\ Len(w) > 0
      /\ \A i \in 1..Len(v) : v[i] = w[i + 1]
  BY QueueParts
<1> HIDE DEF v
<1>2. /\ r.flight # None /\ r.out = <<>> /\ u = <<>> /\ e.env = m /\ e.rejected = 0
      /\ Level(r, e) /\ e.reseed = r.reseed /\ Len(w) = r.flight.next - e.got
      /\ \A i \in 1..Len(w) : /\ w[i].type = "chunk" /\ w[i].txn = m.txn
                              /\ w[i].index = e.got + i - 1
      /\ e.phase = "assembling" <=> e.got < m.chunks
  BY Zenon DEF Assembling
<1>3. /\ m \in Envelopes /\ m.txn \in Nat /\ m.txn > 0 /\ m.chunks \in Nat
      /\ r.flight.next \in Nat /\ r.flight.next <= m.chunks /\ e.got \in Nat
  <2>1. /\ r.flight \in Flights /\ r.flight.env.txn > 0
        /\ r.flight.next <= r.flight.env.chunks /\ e.got \in Nat
    BY <1>2, Zenon DEF ClientStates, Sane, Endpoints
  <2>. QED BY <2>1, Zenon DEF Flights, Envelopes
<1>4. e.env # None /\ h.txn = m.txn /\ h.index = e.got /\ h.txn # e.rejected
  <2>1. m # None
    BY <1>3, NoneAssumption, Zenon DEF Messages
  <2>2. 1 \in 1..Len(w) /\ e.got + 1 - 1 = e.got
    BY <1>1, <1>3, SMT
  <2>3. h.txn = m.txn /\ h.index = e.got + 1 - 1
    BY <1>1, <1>2, <2>2, Zenon
  <2>4. h.txn # 0
    BY <1>3, <2>3, SMT
  <2>. QED BY <1>2, <2>1, <2>2, <2>3, <2>4
<1>5. e.got < m.chunks /\ e.got + 1 <= m.chunks
  BY <1>1, <1>2, <1>3, SMT
<1>6. Gathers(x, e) /\ q.fb = <<>>
  <2>1. e.phase = "assembling"
    BY <1>2, <1>5
  <2> DEFINE p == AcceptChunk(e, h)
  <2>2. \/ h.txn = e.rejected
        \/ e.env = None
        \/ e.phase # "assembling" \/ h.txn # e.env.txn \/ h.index # e.got
        \/ Gathers(p.ep, e) /\ p.fb = <<>>
    BY AcceptChunkOutcome, Zenon
  <2> HIDE DEF p
  <2>3. q = p
    BY DEF p
  <2>. QED BY <1>2, <1>4, <2>1, <2>2, <2>3, Zenon
<1> HIDE DEF x
<1>7. /\ x.applied = e.applied /\ x.inc = e.inc /\ x.env = m /\ x.reseed = e.reseed
      /\ x.rejected = 0 /\ x.got = e.got + 1
      /\ x.phase = IF e.got + 1 = m.chunks THEN "decoding" ELSE "assembling"
  BY <1>2, <1>5, <1>6, Zenon DEF Gathers
<1>8. x.phase = "assembling" <=> x.got < m.chunks
  BY <1>3, <1>5, <1>7, SMT
<1>9. Len(v) = r.flight.next - x.got
  BY <1>1, <1>2, <1>3, <1>7, SMT
<1>10. \A i \in 1..Len(v) : i + 1 \in 1..Len(w) /\ e.got + (i + 1) - 1 = x.got + i - 1
  BY <1>1, <1>3, <1>7, SMT
<1>11. \A i \in 1..Len(v) : /\ v[i].type = "chunk" /\ v[i].txn = m.txn
                            /\ v[i].index = x.got + i - 1
  <2> TAKE i \in 1..Len(v)
  <2>1. v[i] = w[i + 1] /\ i + 1 \in 1..Len(w) /\ e.got + (i + 1) - 1 = x.got + i - 1
    BY <1>1, <1>10
  <2> DEFINE j == i + 1
  <2>2. w[j].type = "chunk" /\ w[j].txn = m.txn /\ w[j].index = e.got + j - 1
    <3>1. j \in 1..Len(w)
      BY <2>1
    <3> HIDE DEF j
    <3>. QED BY <1>2, <3>1, Zenon
  <2>. QED BY <2>1, <2>2
<1>12. Level(r, x)
  BY <1>2, <1>7, SMT DEF Level
<1>13. u \o q.fb = <<>>
  BY <1>2, <1>6, SMT
<1>14. Assembling(r, v, x, u \o q.fb)
  BY <1>2, <1>7, <1>8, <1>9, <1>11, <1>12, <1>13, Zenon DEF Assembling
<1>. QED BY <1>14, Zenon DEF Aligned, x, v

\* What is on the wire in front of the envelope was refused before.
LEMMA ScrapArrives ==
  ASSUME NEW r \in ClientStates, NEW e, NEW w \in Seq(Messages), w # <<>>, NEW u,
         Aligned(r, w, e, u), Head(w).type = "chunk", ~Assembling(r, w, e, u)
  PROVE  Head(w).txn = e.rejected /\ Aligned(r, Tail(w), e, u)
<1> DEFINE v == Tail(w)
<1>1. /\ Head(w) = w[1] /\ Len(v) = Len(w) - 1 /\ Len(w) \in Nat /\ Len(w) > 0
      /\ \A i \in 1..Len(v) : v[i] = w[i + 1]
  BY QueueParts
<1>2. \A t : Scrap(w, t) => Head(w).type = "chunk" /\ Head(w).txn = t /\ Scrap(v, t)
  BY TailPlace
<1> HIDE DEF v
<1>3. CASE AtRest(r, w, e, u) \/ Queued(r, w, e, u) \/ Refused(r, w, e, u)
  <2>1. Head(w).txn = e.rejected /\ Scrap(v, e.rejected)
    BY <1>2, <1>3, Zenon DEF AtRest, Queued, Refused
  <2>2. AtRest(r, v, e, u) \/ Queued(r, v, e, u) \/ Refused(r, v, e, u)
    BY <1>3, <2>1, Zenon DEF AtRest, Queued, Refused
  <2>. QED BY <2>1, <2>2, Zenon DEF Aligned, v
<1>4. CASE Travelling(r, w, e, u)
  <2>1. PICK p \in 1..Len(w) :
          /\ w[p] = r.flight.env /\ Len(w) = p + r.flight.next
          /\ \A i \in 1..(p - 1) : w[i].type = "chunk" /\ w[i].txn = e.rejected
          /\ \A i \in (p + 1)..Len(w) :
               /\ w[i].type = "chunk" /\ w[i].txn = r.flight.env.txn
               /\ w[i].index = i - p - 1
    BY <1>4, Zenon DEF Travelling
  <2>2. p # 1
    <3>1. r.flight # None /\ r.flight \in Flights
      BY <1>4, Zenon DEF Travelling, ClientStates
    <3>2. r.flight.env.type = "envelope"
      BY <3>1, Zenon DEF Flights, Envelopes
    <3>. QED BY <1>1, <2>1, <3>2
  <2> DEFINE k == p - 1
  <2>3. 1 \in 1..(p - 1) /\ k \in 1..Len(v) /\ k + 1 = p /\ Len(v) = Len(w) - 1
    BY <1>1, <2>2, SMT
  <2>4. v[k] = r.flight.env
    BY <1>1, <2>1, <2>3
  <2>5. Head(w).txn = e.rejected
    BY <1>1, <2>1, <2>3
  <2>6. ASSUME NEW i \in 1..(k - 1)
        PROVE  v[i].type = "chunk" /\ v[i].txn = e.rejected
    <3>1. i \in 1..Len(v) /\ i + 1 \in 1..(p - 1)
      BY <1>1, <2>3, SMT
    <3> DEFINE j == i + 1
    <3>2. w[j].type = "chunk" /\ w[j].txn = e.rejected
      <4>1. j \in 1..(p - 1)
        BY <3>1
      <4> HIDE DEF j
      <4>. QED BY <2>1, <4>1, Zenon
    <3>. QED BY <1>1, <3>1, <3>2
  <2>7. ASSUME NEW i \in (k + 1)..Len(v)
        PROVE  /\ v[i].type = "chunk" /\ v[i].txn = r.flight.env.txn
               /\ v[i].index = i - k - 1
    <3>1. i \in 1..Len(v) /\ i + 1 \in (p + 1)..Len(w) /\ (i + 1) - p - 1 = i - k - 1
      BY <1>1, <2>3, SMT
    <3> DEFINE j == i + 1
    <3>2. w[j].type = "chunk" /\ w[j].txn = r.flight.env.txn /\ w[j].index = j - p - 1
      <4>1. j \in (p + 1)..Len(w)
        BY <3>1
      <4> HIDE DEF j
      <4>. QED BY <2>1, <4>1, Zenon
    <3>3. v[i] = w[j]
      BY <1>1, <3>1
    <3>. QED BY <3>1, <3>2, <3>3
  <2>8. Len(v) = k + r.flight.next
    <3>1. r.flight \in Flights
      BY <1>4, Zenon DEF Travelling, ClientStates
    <3>2. r.flight.next \in Nat
      BY <3>1, Zenon DEF Flights
    <3>. QED BY <1>1, <2>1, <2>3, <3>2, SMT
  <2> HIDE DEF k
  <2>9. Travelling(r, v, e, u)
    BY <1>4, <2>3, <2>4, <2>6, <2>7, <2>8, Zenon DEF Travelling
  <2>. QED BY <2>5, <2>9, Zenon DEF Aligned, v
<1>5. ~Accepted(r, w, e, u)
  BY Zenon DEF Accepted
<1>. QED BY <1>3, <1>4, <1>5, Zenon DEF Aligned

LEMMA ReceiveAligned ==
  ASSUME NEW r \in ClientStates, Sane(r), NEW e \in Endpoints, Paired(e), e.st = "live",
         NEW w \in Seq(Messages), w # <<>>, NEW u \in Seq(Acks \cup Nacks),
         Aligned(r, w, e, u), NEW q, q = Accept(e, Head(w)), Head(w).type # "fault"
  PROVE  Aligned(r, Tail(w), q.ep, u \o q.fb)
<1> DEFINE m == Head(w)
<1>1. /\ m \in Messages /\ m = w[1] /\ Len(w) \in Nat /\ Len(w) > 0
  BY QueueParts
<1>2. m \in Chunks => m.type = "chunk" /\ q = AcceptChunk(e, m)
  BY Zenon DEF Chunks, Accept
<1>3. m \in Envelopes => m.type = "envelope" /\ q = AcceptEnvelope(e, m)
  BY Zenon DEF Envelopes, Accept
<1>4. m \in Chunks \/ m \in Envelopes
  BY <1>1, Zenon DEF Messages, FaultMsgs
<1>5. m.type = "chunk" => m \in Chunks
  BY <1>3, <1>4
<1> HIDE DEF m
<1>6. CASE Assembling(r, w, e, u)
  <2>1. m.type = "chunk"
    <3>1. 1 \in 1..Len(w)
      BY <1>1, SMT
    <3>. QED BY <1>1, <1>6, <3>1, Zenon DEF Assembling
  <2>. QED BY <1>2, <1>5, <1>6, <2>1, ChunkArrives DEF m
<1>7. CASE ~Assembling(r, w, e, u) /\ m.type = "chunk"
  <2>1. m.txn = e.rejected /\ Aligned(r, Tail(w), e, u)
    BY <1>7, ScrapArrives DEF m
  <2>2. q = Step(e, <<>>)
    BY <1>2, <1>5, <1>7, <2>1, Zenon DEF AcceptChunk
  <2>3. q.ep = e /\ q.fb = <<>>
    <3>1. Step(e, <<>>).ep = e /\ Step(e, <<>>).fb = <<>>
      BY StepFields
    <3>. QED BY <2>2, <3>1
  <2>4. u \o q.fb = u
    BY <2>3, Answered
  <2>. QED BY <2>1, <2>3, <2>4
<1>8. CASE ~Assembling(r, w, e, u) /\ m.type # "chunk"
  <2>1. Travelling(r, w, e, u)
    <3>1. \A t : ~Scrap(w, t)
      BY <1>8, TailPlace DEF m
    <3>. QED BY <1>8, <3>1, Zenon DEF Aligned, AtRest, Queued, Refused, Accepted
  <2>2. PICK p \in 1..Len(w) :
          /\ w[p] = r.flight.env /\ Len(w) = p + r.flight.next
          /\ \A i \in 1..(p - 1) : w[i].type = "chunk" /\ w[i].txn = e.rejected
          /\ \A i \in (p + 1)..Len(w) :
               /\ w[i].type = "chunk" /\ w[i].txn = r.flight.env.txn
               /\ w[i].index = i - p - 1
    BY <2>1, Zenon DEF Travelling
  <2>3. p = 1
    <3>1. p # 1 => 1 \in 1..(p - 1)
      BY <1>1, SMT
    <3>. QED BY <1>1, <1>8, <2>2, <3>1, Zenon
  <2>4. w[1] = r.flight.env /\ Len(w) = 1 + r.flight.next
    BY <2>2, <2>3
  <2>5. ASSUME NEW i \in 2..Len(w)
        PROVE  /\ w[i].type = "chunk" /\ w[i].txn = r.flight.env.txn
               /\ w[i].index = i - 2
    <3>1. i \in (p + 1)..Len(w) /\ i - p - 1 = i - 2
      BY <1>1, <2>3, SMT
    <3>. QED BY <2>2, <3>1
  <2>6. r.flight # None /\ r.out = <<>> /\ Awaits(r, e, u)
    BY <2>1, Zenon DEF Travelling
  <2>7. q = AcceptEnvelope(e, Head(w))
    BY <1>3, <1>4, <1>2, <1>8 DEF m
  <2>. QED BY <2>4, <2>5, <2>6, <2>7, EnvelopeArrives
<1>. QED BY <1>6, <1>7, <1>8

\* An endpoint that has something under way is the end of its lane that the
\* transaction has reached; it decodes when all of it is there.
LEMMA ReachedEndpoint ==
  ASSUME NEW r \in ClientStates, Sane(r), NEW e \in Endpoints,
         NEW w \in Seq(Messages), NEW u, Aligned(r, w, e, u), e.env # None
  PROVE  /\ Assembling(r, w, e, u)
         /\ e.phase # "assembling" => w = <<>> /\ r.flight.next = r.flight.env.chunks
<1>1. Assembling(r, w, e, u)
  BY Zenon DEF Aligned, AtRest, Queued, Travelling, Awaits, Refused, Accepted
<1>2. r.flight \in Flights /\ r.flight.next <= r.flight.env.chunks /\ e.got \in Nat
  BY <1>1, Zenon DEF Assembling, ClientStates, Sane, Endpoints
<1>3. r.flight.next \in Nat /\ r.flight.env.chunks \in Nat
  BY <1>2, Zenon DEF Flights, Envelopes
<1>4. ASSUME e.phase # "assembling"
      PROVE  w = <<>> /\ r.flight.next = r.flight.env.chunks
  <2>1. ~(e.got < r.flight.env.chunks) /\ Len(w) = r.flight.next - e.got /\ Len(w) \in Nat
    <3>1. Len(w) \in Nat
      BY SMT
    <3>. QED BY <1>1, <1>4, <3>1, Zenon DEF Assembling
  <2>2. Len(w) = 0 /\ r.flight.next = r.flight.env.chunks
    BY <1>2, <1>3, <2>1, SMT
  <2>. QED BY <2>2, SMT
<1>. QED BY <1>1, <1>4

LEMMA DecodeAligned ==
  ASSUME NEW r \in ClientStates, Sane(r), NEW e \in Endpoints,
         NEW w \in Seq(Messages), NEW u, Aligned(r, w, e, u), e.env # None,
         e.phase # "assembling", NEW x, Ready(x, e)
  PROVE  Aligned(r, w, x, u)
<1>1. Assembling(r, w, e, u)
  BY ReachedEndpoint
<1>2. /\ x.inc = e.inc /\ x.applied = e.applied /\ x.reseed = e.reseed
      /\ x.env = e.env /\ x.rejected = e.rejected /\ x.got = e.got
      /\ x.phase # "assembling"
  BY Zenon DEF Ready
<1>3. Level(r, x)
  BY <1>1, <1>2, SMT DEF Assembling, Level
<1>4. Assembling(r, w, x, u)
  BY <1>1, <1>2, <1>3, SMT DEF Assembling
<1>. QED BY <1>4, Zenon DEF Aligned

LEMMA FailDecodeAligned ==
  ASSUME NEW r \in ClientStates, Sane(r), NEW e \in Endpoints,
         NEW w \in Seq(Messages), NEW u, Aligned(r, w, e, u), e.env # None,
         NEW x, Declines(x, e, e.env.txn)
  PROVE  Aligned(r, w, x, u \o <<NackOf(e.env.txn)>>)
<1>1. Assembling(r, w, e, u)
  BY ReachedEndpoint
<1>2. /\ r.flight # None /\ r.out = <<>> /\ u = <<>> /\ e.env = r.flight.env
      /\ Level(r, e)
      /\ \A i \in 1..Len(w) : w[i].type = "chunk" /\ w[i].txn = r.flight.env.txn
  BY <1>1, Zenon DEF Assembling
<1>3. /\ x.inc = e.inc /\ x.applied = e.applied /\ x.reseed = TRUE
      /\ x.env = None /\ x.rejected = r.flight.env.txn
  BY <1>2, Zenon DEF Declines
<1>4. Level(r, x) /\ Scrap(w, x.rejected)
  BY <1>2, <1>3, SMT DEF Level, Scrap
<1>5. u \o <<NackOf(e.env.txn)>> = <<NackOf(r.flight.env.txn)>>
  BY <1>2, Answered, Zenon
<1>6. Refused(r, w, x, u \o <<NackOf(e.env.txn)>>)
  BY <1>2, <1>3, <1>4, <1>5, Zenon DEF Refused
<1>. QED BY <1>6, Zenon DEF Aligned

LEMMA FlushAligned ==
  ASSUME NEW r \in ClientStates, Sane(r), NEW e \in Endpoints,
         NEW w \in Seq(Messages), NEW u, Aligned(r, w, e, u), e.env # None,
         e.phase # "assembling", NEW x, Shows(x, e)
  PROVE  Aligned(r, w, x, u \o <<AckOf(e.env)>>)
<1>1. /\ Assembling(r, w, e, u)
      /\ w = <<>> /\ r.flight.next = r.flight.env.chunks
  BY ReachedEndpoint
<1>2. r.flight # None /\ r.out = <<>> /\ u = <<>> /\ e.env = r.flight.env
  BY <1>1, Zenon DEF Assembling
<1>3. /\ x.inc = r.flight.env.inc /\ x.applied = r.flight.env.rev /\ x.reseed = FALSE
      /\ x.env = None
  BY <1>2, Zenon DEF Shows
<1>4. u \o <<AckOf(e.env)>> = <<AckOf(r.flight.env)>>
  BY <1>2, Answered, Zenon
<1>5. Accepted(r, w, x, u \o <<AckOf(e.env)>>)
  BY <1>1, <1>2, <1>3, <1>4, Zenon DEF Accepted
<1>. QED BY <1>5, Zenon DEF Aligned

\* The stage of a lane in service is all that a viewer's step has to keep.
LEMMA KeptLane ==
  ASSUME NEW r, NEW w, NEW e, NEW u, NEW k, Lane(r, w, e, u, k),
         NEW v, NEW x, NEW t, x.st # "none",
         x.st = "live" =>
           /\ e.st = "live" /\ ~Waiting(r) /\ (Faulted(w) => Faulted(v))
           /\ Aligned(r, w, e, u) => Aligned(r, v, x, t)
  PROVE  Lane(r, v, x, t, k)
<1>1. ASSUME x.st = "live", r.st = "open"
      PROVE  InPlace(r, v, x, t)
  BY <1>1, Zenon DEF Lane, InPlace
<1>. QED BY <1>1, Zenon DEF Lane

\* One viewer's step, as its lane sees it.
ViewerLane(c) ==
  /\ hc'[c] = hc[c] /\ hubClosed' = hubClosed
  /\ Lane(hc[c], wire'[c], ep'[c], up'[c], hubClosed)

LEMMA NotWaiting ==
  ASSUME NEW r, NEW w, NEW e, NEW u, NEW k, Lane(r, w, e, u, k), e.st = "live",
         w # <<>> \/ e.phase # "idle"
  PROVE  ~Waiting(r)
BY NewEndpointType, Zenon DEF Lane

LEMMA ReceiveLane ==
  ASSUME RInv, Viewers, NEW c \in Clients, Receive(c),
         Lane(hc[c], wire[c], ep[c], up[c], hubClosed)
  PROVE  ViewerLane(c)
<1> DEFINE r == hc[c]
           e == ep[c]
           w == wire[c]
           u == up[c]
           q == Accept(e, Head(w))
<1>1. /\ r \in ClientStates /\ Sane(r) /\ w \in Seq(Messages) /\ w # <<>>
      /\ wire \in [Clients -> Seq(Messages)]
  BY BInvTypes, Zenon DEF RInv, BInv, RtSound, HubSound, HubTypeOK, AllSane, Receive
<1>2. /\ e \in Endpoints /\ Paired(e) /\ u \in Seq(Acks \cup Nacks)
      /\ e.st \in {"live", "unavailable"}
  BY Zenon DEF Viewers, Receive
<1>3. /\ ep'[c] = q.ep /\ up'[c] = u \o q.fb /\ wire'[c] = Tail(w)
      /\ hc' = hc /\ hubClosed' = hubClosed
  BY <1>1, Zenon DEF Receive, TakeStep, Viewers
<1>4. Head(w) \in Messages
  BY <1>1, QueueParts
<1>5. CASE Head(w).type = "fault"
  <2>1. q = AcceptFault(e, Head(w))
    BY <1>5, Zenon DEF Accept
  <2>2. Hangs(q.ep)
    BY <2>1, AcceptFaultHangs, Zenon
  <2>3. q.ep.st # "none" /\ q.ep.st # "live"
    BY <2>2, Zenon DEF Hangs
  <2> HIDE DEF q
  <2>4. Lane(r, Tail(w), q.ep, u \o q.fb, hubClosed)
    BY <2>3, KeptLane
  <2>. QED BY <1>3, <2>4, Zenon DEF ViewerLane
<1>6. CASE Head(w).type # "fault" /\ e.st = "unavailable"
  <2>1. q = Step(e, <<>>)
    BY <1>6, Zenon DEF Accept
  <2>2. q.ep = e
    <3>1. Step(e, <<>>).ep = e
      BY StepFields
    <3>. QED BY <2>1, <3>1
  <2> HIDE DEF q
  <2>3. Lane(r, Tail(w), q.ep, u \o q.fb, hubClosed)
    BY <1>6, <2>2, KeptLane
  <2>. QED BY <1>3, <2>3, Zenon DEF ViewerLane
<1>7. CASE Head(w).type # "fault" /\ e.st = "live"
  <2>1. ~Waiting(r)
    BY <1>1, <1>7, NotWaiting
  <2>2. Faulted(w) => Faulted(Tail(w))
    BY <1>1, <1>7, TailPlace
  <2>3. Aligned(r, w, e, u) => Aligned(r, Tail(w), q.ep, u \o q.fb)
    BY <1>1, <1>2, <1>7, ReceiveAligned
  <2>4. q.ep.st # "none"
    <3>1. Goes(q.ep, e)
      BY <1>2, <1>4, AcceptAnswers
    <3>. QED BY <1>2, <3>1, Zenon DEF Goes
  <2> HIDE DEF q
  <2>5. Lane(r, Tail(w), q.ep, u \o q.fb, hubClosed)
    BY <1>7, <2>1, <2>2, <2>3, <2>4, KeptLane
  <2>. QED BY <1>3, <2>5, Zenon DEF ViewerLane
<1>. QED BY <1>2, <1>5, <1>6, <1>7

\* The steps that neither take from the wire nor put anything on it.
LEMMA EndpointLane ==
  ASSUME RInv, Viewers, NEW c \in Clients,
         Decode(c) \/ FailDecode(c) \/ Flush(c) \/ Leave(c),
         Lane(hc[c], wire[c], ep[c], up[c], hubClosed)
  PROVE  ViewerLane(c)
<1> DEFINE r == hc[c]
           e == ep[c]
           w == wire[c]
           u == up[c]
<1>1. r \in ClientStates /\ Sane(r) /\ w \in Seq(Messages)
  BY BInvTypes, Zenon DEF RInv, BInv, RtSound, HubSound, HubTypeOK, AllSane
<1>2. e \in Endpoints /\ Paired(e) /\ u \in Seq(Acks \cup Nacks)
  BY Zenon DEF Viewers
<1>3. hc'[c] = hc[c] /\ hubClosed' = hubClosed /\ wire'[c] = wire[c]
  BY Zenon DEF Decode, FailDecode, Flush, Leave, rtVars, hubVars
<1>4. ASSUME NEW x, NEW t, ep'[c] = x, up'[c] = t, Lane(r, w, x, t, hubClosed)
      PROVE  ViewerLane(c)
  BY <1>3, <1>4, Zenon DEF ViewerLane
<1>5. e.phase # "idle" => e.env # None /\ e.st = "live" /\ ~Waiting(r)
  <2>1. e.phase # "idle" => e.env # None /\ e.st = "live"
    BY <1>2, Zenon DEF Paired
  <2>. QED BY <2>1, NotWaiting
<1>6. CASE Decode(c)
  <2> DEFINE x == Decoded(e).ep
  <2>1. e.phase = "decoding" /\ Ready(x, e) /\ Decoded(e).fb = <<>>
    BY <1>2, <1>6, DecodedWaits, Zenon DEF Decode
  <2>2. ep'[c] = x /\ up'[c] = u \o <<>>
    BY <1>6, <2>1, Zenon DEF Decode, TakeStep, Viewers
  <2>3. u \o <<>> = u
    BY <1>2, Answered
  <2> HIDE DEF x
  <2>4. Aligned(r, w, e, u) => Aligned(r, w, x, u)
    BY <1>1, <1>2, <1>5, <2>1, DecodeAligned
  <2>5. x.st = e.st /\ e.st = "live" /\ ~Waiting(r)
    BY <1>5, <2>1, Zenon DEF Ready
  <2>6. Lane(r, w, x, u, hubClosed)
    BY <2>4, <2>5, KeptLane
  <2>. QED BY <1>4, <2>2, <2>3, <2>6
<1>7. CASE FailDecode(c)
  <2> DEFINE x == DecodeFailed(e).ep
             t == u \o <<NackOf(e.env.txn)>>
  <2>1. e.phase = "decoding" /\ e.env # None
    BY <1>5, <1>7, Zenon DEF FailDecode
  <2>2. e.env \in Envelopes /\ e.env.txn \in Nat
    BY <1>2, <2>1, Zenon DEF Endpoints, Envelopes
  <2>3. Declines(x, e, e.env.txn) /\ DecodeFailed(e).fb = <<NackOf(e.env.txn)>>
    BY <1>2, <2>2, RejectDeclines, Zenon DEF DecodeFailed
  <2>4. ep'[c] = x /\ up'[c] = t
    BY <1>7, <2>3, Zenon DEF FailDecode, TakeStep, Viewers
  <2> HIDE DEF x
  <2>5. Aligned(r, w, e, u) => Aligned(r, w, x, t)
    BY <1>1, <1>2, <2>1, <2>3, FailDecodeAligned
  <2>6. x.st = e.st /\ e.st = "live" /\ ~Waiting(r)
    BY <1>5, <2>1, <2>3, Zenon DEF Declines
  <2> HIDE DEF t
  <2>7. Lane(r, w, x, t, hubClosed)
    BY <2>5, <2>6, KeptLane
  <2>. QED BY <1>4, <2>4, <2>7
<1>8. CASE Flush(c)
  <2> DEFINE x == Flushed(e).ep
             t == u \o <<AckOf(e.env)>>
  <2>1. e.phase = "pending" /\ e.env # None
    BY <1>5, <1>8, Zenon DEF Flush
  <2>2. Shows(x, e) /\ Flushed(e).fb = <<AckOf(e.env)>>
    BY <1>2, <2>1, FlushedShows, Zenon
  <2>3. ep'[c] = x /\ up'[c] = t
    BY <1>8, <2>2, Zenon DEF Flush, TakeStep, Viewers
  <2> HIDE DEF x
  <2>4. Aligned(r, w, e, u) => Aligned(r, w, x, t)
    BY <1>1, <1>2, <2>1, <2>2, FlushAligned
  <2>5. x.st = e.st /\ e.st = "live" /\ ~Waiting(r)
    BY <1>5, <2>1, <2>2, Zenon DEF Shows
  <2> HIDE DEF t
  <2>6. Lane(r, w, x, t, hubClosed)
    BY <2>4, <2>5, KeptLane
  <2>. QED BY <1>4, <2>3, <2>6
<1>9. CASE Leave(c)
  <2> DEFINE x == Fails(e).ep
  <2>1. Hangs(x)
    BY FailsHangs, Zenon
  <2>2. ep'[c] = x /\ up'[c] = u
    BY <1>9, Zenon DEF Leave, Viewers
  <2> HIDE DEF x
  <2>3. x.st # "none" /\ x.st # "live"
    BY <2>1, Zenon DEF Hangs
  <2>4. Lane(r, w, x, u, hubClosed)
    BY <2>3, KeptLane
  <2>. QED BY <1>4, <2>2, <2>4
<1>. QED BY <1>6, <1>7, <1>8, <1>9

-----------------------------------------------------------------------------
(* Every step, on every lane *)

LEMMA AloneStaysClosed == Alone /\ hubClosed => hubClosed'
<1> SUFFICES ASSUME Alone, hubClosed
             PROVE  hubClosed'
  OBVIOUS
<1>1. CASE HubStep
  BY <1>1, Zenon DEF HubStep, DrainStep, FinishReduction, ReductionFails, SourceReady,
     CloseHubClients, ReapPane, PublishCanonical, SourceInvalid, AbortPane
<1>2. CASE EncodingStep
  BY <1>2, Zenon DEF EncodingStep, CompleteEncoding
<1>3. CASE SourceStep
  BY <1>3, Zenon DEF SourceStep, SourceSeeds, SubscribeSource, SourceStartFailure,
     SourceStartFails, SourceEmits, ObserveCanonical, AbortPane, SourceCloses,
     SourceCaptureFails, FailPaneCapture, SourceDisposed, EndSource, ControlExits,
     RuntimeDisposes, StartCancelled, HubCloses, CloseHub, hubVars
<1>4. ASSUME NEW c \in Clients, DeliveryStep(c)
      PROVE  hubClosed'
  BY <1>4, Zenon DEF DeliveryStep, MicrotaskStep, CreditStep, TimerStep, OpenResume,
     DeliverMicrotask, SenderMicrotask, SinkAccepted, SenderTurn, OutOfBandSent,
     BackgroundTimer
<1>5. ASSUME NEW c \in Clients, VisibilityStep(c)
      PROVE  hubClosed'
  BY <1>5, Zenon DEF VisibilityStep, SetVisibility
<1>. QED BY <1>1, <1>2, <1>3, <1>4, <1>5, Zenon DEF Alone

LEMMA NextStaysClosed == [Next]_vars /\ hubClosed => hubClosed'
<1> SUFFICES ASSUME [Next]_vars, hubClosed
             PROVE  hubClosed'
  OBVIOUS
<1>1. CASE UNCHANGED vars
  BY <1>1, Zenon DEF vars, rtVars, hubVars
<1>2. CASE Alone
  BY <1>2, AloneStaysClosed
<1>3. ASSUME NEW c \in Clients, Connect(c)
      PROVE  hubClosed'
  BY <1>3, Zenon DEF Connect, OpenDelivery, Open
<1>4. ASSUME NEW c \in Clients, Feedback(c)
      PROVE  hubClosed'
  BY <1>4, Zenon DEF Feedback, Ack, Nack, FaultClient, hubVars
<1>5. ASSUME NEW c \in Clients, Disconnect(c)
      PROVE  hubClosed'
  BY <1>5, Zenon DEF Disconnect, CloseConnection
<1>6. ASSUME NEW c \in Clients, SinkFails(c) \/ OpeningFails(c)
      PROVE  hubClosed'
  BY <1>6, Zenon DEF SinkFails, OpeningFails, SinkFailed, OpenRejects
<1>7. ASSUME NEW c \in Clients, Receive(c)
      PROVE  hubClosed'
  BY <1>7, Zenon DEF Receive
<1>8. ASSUME NEW c \in Clients, Decode(c) \/ FailDecode(c) \/ Flush(c) \/ Leave(c)
      PROVE  hubClosed'
  BY <1>8, Zenon DEF Decode, FailDecode, Flush, Leave, rtVars, hubVars
<1>. QED BY <1>1, <1>2, <1>3, <1>4, <1>5, <1>6, <1>7, <1>8, NextSplits, Zenon DEF NextCases

LEMMA NextViewers ==
  ASSUME RInv, Viewers, [Next]_vars
  PROVE  Viewers'
<1>1. CASE UNCHANGED vars \/ NoViewerStep
  BY <1>1, Zenon DEF vars, NoViewerStep, Viewers
<1>2. ASSUME NEW c \in Clients, NEW s, TakeStep(c, s), s.ep \in Endpoints, Paired(s.ep),
             s.fb = <<>> \/ \E a \in Acks \cup Nacks : s.fb = <<a>>,
             rejects' \in 0..MaxRejects
      PROVE  Viewers'
  BY <1>2, TakeStepAnswers, AnswersViewers
<1>3. \A c \in Clients : ep[c] \in Endpoints /\ Paired(ep[c])
  BY Zenon DEF Viewers
<1>4. ASSUME NEW c \in Clients, Connect(c)
      PROVE  Viewers'
  <2>1. Paired(NewEndpoint) /\ NewEndpoint \in Endpoints
    BY NewEndpointType, Zenon DEF Paired
  <2>. QED BY <1>4, <2>1, Zenon DEF Connect, Viewers
<1>5. ASSUME NEW c \in Clients, Feedback(c)
      PROVE  Viewers'
  <2>1. up[c] \in Seq(Acks \cup Nacks) /\ up[c] # <<>>
    BY <1>5, Zenon DEF Feedback, Viewers
  <2>2. Tail(up[c]) \in Seq(Acks \cup Nacks)
    BY <2>1, QueueParts
  <2>. QED BY <1>5, <2>2, Zenon DEF Feedback, Viewers
<1>6. ASSUME NEW c \in Clients, Disconnect(c) \/ SinkFails(c) \/ OpeningFails(c)
      PROVE  Viewers'
  <2>1. Unplug(c)
    BY <1>6, Zenon DEF Disconnect, SinkFails, OpeningFails
  <2>. QED BY <2>1, UnplugViewers
<1>7. ASSUME NEW c \in Clients, Receive(c)
      PROVE  Viewers'
  <2> DEFINE s == Accept(ep[c], Head(wire[c]))
  <2>1. wire[c] # <<>> /\ wire[c] \in Seq(Messages)
    BY <1>7, Zenon DEF Receive, RInv, BInv, RtSound, HubSound, HubTypeOK
  <2>2. Head(wire[c]) \in Messages
    BY <2>1, QueueParts
  <2>3. ep[c].st \in {"live", "unavailable"}
    BY <1>7, Zenon DEF Receive
  <2>4. /\ s.ep \in Endpoints /\ Goes(s.ep, ep[c])
        /\ s.fb = <<>> \/ \E a \in Acks \cup Nacks : s.fb = <<a>>
    BY <1>3, <2>2, <2>3, AcceptAnswers
  <2>5. TakeStep(c, s) /\ rejects' \in 0..MaxRejects
    BY <1>7, Zenon DEF Receive, Viewers
  <2> HIDE DEF s
  <2>. QED BY <1>2, <2>4, <2>5, Zenon DEF Goes
<1>8. ASSUME NEW c \in Clients, Decode(c)
      PROVE  Viewers'
  <2> DEFINE s == Decoded(ep[c])
  <2>1. ep[c].env # None
    BY <1>3, <1>8, Zenon DEF Decode, Paired
  <2>2. s.ep \in Endpoints /\ Goes(s.ep, ep[c]) /\ s.fb = <<>>
    BY <1>3, <2>1, DecodedWaits, OutcomesGo, Zenon
  <2>3. TakeStep(c, s) /\ rejects' \in 0..MaxRejects
    BY <1>8, Zenon DEF Decode, Viewers
  <2> HIDE DEF s
  <2>. QED BY <1>2, <2>2, <2>3, Zenon DEF Goes
<1>9. ASSUME NEW c \in Clients, FailDecode(c)
      PROVE  Viewers'
  <2> DEFINE s == DecodeFailed(ep[c])
             t == ep[c].env.txn
  <2>1. ep[c].env # None
    BY <1>3, <1>9, Zenon DEF FailDecode, Paired
  <2>2. t \in Nat
    BY <1>3, <2>1, Zenon DEF Endpoints, Envelopes
  <2>3. s.ep \in Endpoints /\ Goes(s.ep, ep[c]) /\ s.fb = <<NackOf(t)>>
    BY <1>3, <2>2, RejectDeclines, OutcomesGo, Zenon DEF DecodeFailed
  <2>4. NackOf(t) \in Acks \cup Nacks
    BY <2>2, FeedbackTypes, Zenon
  <2>5. TakeStep(c, s) /\ rejects < MaxRejects /\ rejects' = rejects + 1
    BY <1>9, Zenon DEF FailDecode
  <2>6. rejects' \in 0..MaxRejects
    <3>1. rejects \in 0..MaxRejects /\ MaxRejects \in Nat
      BY ViewerAssumption, Zenon DEF Viewers
    <3>. QED BY <2>5, <3>1, SMT
  <2> HIDE DEF s
  <2>. QED BY <1>2, <2>3, <2>4, <2>5, <2>6, Zenon DEF Goes
<1>10. ASSUME NEW c \in Clients, Flush(c)
      PROVE  Viewers'
  <2> DEFINE s == Flushed(ep[c])
  <2>1. ep[c].env # None
    BY <1>3, <1>10, Zenon DEF Flush, Paired
  <2>2. s.ep \in Endpoints /\ Goes(s.ep, ep[c]) /\ s.fb = <<AckOf(ep[c].env)>>
    BY <1>3, <2>1, FlushedShows, OutcomesGo, Zenon
  <2>3. AckOf(ep[c].env) \in Acks \cup Nacks
    <3>1. ep[c].env \in Envelopes
      BY <1>3, <2>1, Zenon DEF Endpoints
    <3>. QED BY <3>1, FeedbackTypes, Zenon
  <2>4. TakeStep(c, s) /\ rejects' \in 0..MaxRejects
    BY <1>10, Zenon DEF Flush, Viewers
  <2> HIDE DEF s
  <2>. QED BY <1>2, <2>2, <2>3, <2>4, Zenon DEF Goes
<1>11. ASSUME NEW c \in Clients, Leave(c)
      PROVE  Viewers'
  <2> DEFINE x == Fails(ep[c]).ep
  <2>1. x \in Endpoints /\ Paired(x)
    BY <1>3, FailsHangs, OutcomesGo, Zenon DEF Goes
  <2>2. ep' = [ep EXCEPT ![c] = x] /\ up' = up /\ rejects' = rejects
    BY <1>11, Zenon DEF Leave
  <2> HIDE DEF x
  <2>. QED BY <2>1, <2>2, Zenon DEF Viewers
<1>. QED BY <1>1, <1>4, <1>5, <1>6, <1>7, <1>8, <1>9, <1>10, <1>11, NextSplits, Zenon
         DEF NextCases

Lanes == \A c \in Clients : Lane(hc[c], wire[c], ep[c], up[c], hubClosed)

\* A viewer connects, or its connection is given up.
LEMMA PluggedLane ==
  ASSUME Viewers, NEW c \in Clients, Lane(hc[c], wire[c], ep[c], up[c], hubClosed),
         \/ Connect(c) /\ Opens(c)
         \/ Unplug(c) /\ hc'[c].st = "idle"
  PROVE  Lane(hc'[c], wire'[c], ep'[c], up'[c], hubClosed')
<1>1. CASE Connect(c) /\ Opens(c)
  <2>1. ep'[c] = NewEndpoint /\ up'[c] = <<>> /\ wire'[c] = <<>> /\ Waiting(hc'[c])
    BY <1>1, Zenon DEF Connect, Viewers, Lane, Opens
  <2>2. NewEndpoint.st = "live"
    BY Zenon DEF NewEndpoint
  <2>3. hc'[c].st # "idle" /\ hc'[c].st # "open"
    BY <2>1, Zenon DEF Waiting
  <2>. QED BY <2>1, <2>2, <2>3, Zenon DEF Lane
<1>2. CASE Unplug(c) /\ hc'[c].st = "idle"
  <2>1. ep'[c] = NoEndpoint /\ up'[c] = <<>>
    BY <1>2, Zenon DEF Unplug, Viewers
  <2>. QED BY <1>2, <2>1, NewEndpointType, Zenon DEF Lane
<1>. QED BY <1>1, <1>2

LEMMA DisconnectEnds ==
  ASSUME RInv, NEW c \in Clients, Disconnect(c) \/ SinkFails(c) \/ OpeningFails(c)
  PROVE  /\ Unplug(c) /\ hc'[c].st = "idle"
         /\ \A d \in Clients \ {c} : Moves(d, Excuses)
<1>0. BInv /\ IdleClient.st = "idle"
  BY Zenon DEF RInv, IdleClient
<1>1. CASE CloseConnection(c) /\ Disconnect(c)
  BY <1>0, <1>1, ClosedMoves, Zenon DEF CloseConnection, Ends, Disconnect
<1>2. CASE hc[c].st = "idle" /\ DiscardWire(c) /\ UNCHANGED <<pane, hc, hubClosed>> /\ Unplug(c)
  <2>1. \A d \in Clients \ {c} : hc'[d] = hc[d] /\ wire'[d] = wire[d]
    BY <1>0, <1>2, Zenon DEF DiscardWire, BInv, RtSound, HubSound, HubTypeOK
  <2>. QED BY <1>2, <2>1, IdleMoves, Zenon
<1>3. CASE SinkFails(c)
  BY <1>0, <1>3, ClosedMoves, Zenon DEF SinkFails, SinkFailed, Ends
<1>4. CASE OpeningFails(c)
  BY <1>0, <1>4, OpenRejectsMoves, Zenon DEF OpeningFails, Ends
<1>. QED BY <1>1, <1>2, <1>3, <1>4, Zenon DEF Disconnect

LEMMA NextLanes ==
  ASSUME RInv, Viewers, Lanes, [Next]_vars
  PROVE  Lanes'
<1>1. hubClosed => hubClosed'
  BY NextStaysClosed
<1>2. BInv /\ AllSane(hc) /\ \A c \in Clients : ep[c] \in Endpoints
  BY Zenon DEF RInv, Viewers
<1>3. ASSUME NEW d \in Clients, Moves(d, Excuses), ep'[d] = ep[d], up'[d] = up[d]
      PROVE  Lane(hc'[d], wire'[d], ep'[d], up'[d], hubClosed')
  BY <1>1, <1>2, <1>3, MovesLane, Zenon DEF Lanes
<1>4. ASSUME NEW c \in Clients,
             Lane(hc'[c], wire'[c], ep'[c], up'[c], hubClosed'),
             \A d \in Clients \ {c} : Moves(d, Excuses) /\ ep'[d] = ep[d] /\ up'[d] = up[d]
      PROVE  Lanes'
  BY <1>3, <1>4, Zenon DEF Lanes
<1>5. CASE UNCHANGED vars
  BY <1>5, Zenon DEF vars, rtVars, hubVars, Lanes
<1>6. CASE Alone /\ NoViewerStep
  <2>1. AllMove(Excuses)
    BY <1>2, <1>6, StepMoves, Zenon DEF Alone
  <2>. QED BY <1>3, <1>6, <2>1, Zenon DEF AllMove, NoViewerStep, Lanes
<1>7. ASSUME NEW c \in Clients, Connect(c)
      PROVE  Lanes'
  <2>1. Opens(c)
    BY <1>2, <1>7, OpenMoves, Zenon DEF Connect, OpenDelivery
  <2>2. Lane(hc'[c], wire'[c], ep'[c], up'[c], hubClosed')
    BY <1>7, <2>1, PluggedLane, Zenon DEF Lanes
  <2>3. \A d \in Clients \ {c} : ep'[d] = ep[d] /\ up'[d] = up[d]
    BY <1>7, Zenon DEF Connect, Viewers
  <2>. QED BY <1>4, <2>1, <2>2, <2>3, Zenon DEF Opens
<1>8. ASSUME NEW c \in Clients, Feedback(c)
      PROVE  Lanes'
  <2>1. /\ up[c] \in Seq(Acks \cup Nacks) /\ up[c] # <<>>
        /\ Lane(hc[c], wire[c], ep[c], up[c], hubClosed)
        /\ IF ~IsOpen(c) THEN UNCHANGED hubVars
           ELSE IF Head(up[c]).type = "ack" THEN Ack(c, Head(up[c])) ELSE Nack(c, Head(up[c]))
    BY <1>8, Zenon DEF Feedback, Viewers, Lanes
  <2>2. /\ Lane(hc'[c], wire'[c], ep[c], Tail(up[c]), hubClosed')
        /\ \A d \in Clients \ {c} : Moves(d, Excuses)
    BY <1>1, <1>2, <2>1, FeedbackLane
  <2>3. /\ ep' = ep /\ up'[c] = Tail(up[c])
        /\ \A d \in Clients \ {c} : up'[d] = up[d]
    BY <1>8, Zenon DEF Feedback, Viewers
  <2>. QED BY <1>4, <2>2, <2>3, Zenon
<1>9. ASSUME NEW c \in Clients, Disconnect(c) \/ SinkFails(c) \/ OpeningFails(c)
      PROVE  Lanes'
  <2>1. /\ Unplug(c) /\ hc'[c].st = "idle"
        /\ \A d \in Clients \ {c} : Moves(d, Excuses)
    BY <1>9, DisconnectEnds
  <2>2. Lane(hc'[c], wire'[c], ep'[c], up'[c], hubClosed')
    BY <2>1, PluggedLane, Zenon DEF Lanes
  <2>3. \A d \in Clients \ {c} : ep'[d] = ep[d] /\ up'[d] = up[d]
    BY <2>1, Zenon DEF Unplug, Viewers
  <2>. QED BY <1>4, <2>1, <2>2, <2>3, Zenon
<1>10. ASSUME NEW c \in Clients,
              Receive(c) \/ Decode(c) \/ FailDecode(c) \/ Flush(c) \/ Leave(c)
      PROVE  Lanes'
  <2>1. ViewerLane(c)
    BY <1>10, ReceiveLane, EndpointLane, Zenon DEF Lanes
  <2>2. /\ hc' = hc
        /\ \A d \in Clients \ {c} : wire'[d] = wire[d]
    BY <1>2, <1>10, Zenon DEF Receive, Decode, FailDecode, Flush, Leave, rtVars, hubVars,
       BInv, RtSound, HubSound, HubTypeOK
  <2>3. \A d \in Clients \ {c} : ep'[d] = ep[d] /\ up'[d] = up[d]
    BY <1>10, Zenon DEF Receive, Decode, FailDecode, Flush, Leave, TakeStep, Viewers
  <2>4. \A d \in Clients \ {c} : Moves(d, Excuses)
    BY <2>2, IdleMoves, Zenon
  <2>. QED BY <1>4, <2>1, <2>3, <2>4, Zenon DEF ViewerLane
<1>. QED BY <1>5, <1>6, <1>7, <1>8, <1>9, <1>10, NextSplits, Zenon DEF NextCases

-----------------------------------------------------------------------------
(* The invariant of the delivery lanes, and what it says of a lane in service *)

DInv == RInv /\ Viewers /\ Lanes

LEMMA InitDInv ==
  ASSUME Init
  PROVE  DInv
<1>1. RInv
  BY RInvInit, Zenon DEF Init
<1>2. Paired(NoEndpoint) /\ NoEndpoint \in Endpoints
  BY NewEndpointType, Zenon DEF Paired
<1>3. <<>> \in Seq(Acks \cup Nacks)
  BY SMT
<1>4. rejects \in 0..MaxRejects
  <2>1. rejects = 0 /\ MaxRejects \in Nat
    BY ViewerAssumption, Zenon DEF Init
  <2>. QED BY <2>1, SMT
<1>5. /\ ep \in [Clients -> Endpoints] /\ up \in [Clients -> Seq(Acks \cup Nacks)]
      /\ \A c \in Clients : ep[c] = NoEndpoint /\ up[c] = <<>>
  BY <1>2, <1>3, Zenon DEF Init
<1>6. Viewers
  BY <1>2, <1>4, <1>5, Zenon DEF Viewers
<1>7. \A c \in Clients : hc[c].st = "idle"
  BY Zenon DEF Init, RtInit, HubInit, IdleClient
<1>8. Lanes
  BY <1>5, <1>7, NewEndpointType, Zenon DEF Lanes, Lane
<1>. QED BY <1>1, <1>6, <1>8, Zenon DEF DInv

LEMMA DInvStep ==
  ASSUME DInv, [Next]_vars
  PROVE  DInv'
BY NextKeepsRInv, NextViewers, NextLanes, Zenon DEF DInv

LEMMA AlwaysDInv == Spec => []DInv
<1>1. Init => DInv
  BY InitDInv
<1>2. DInv /\ [Next]_vars => DInv'
  BY DInvStep
<1>. QED BY <1>1, <1>2, PTL DEF Spec

LEMMA ServiceAligned ==
  ASSUME DInv, NEW c \in Clients, InService(c)
  PROVE  /\ Aligned(hc[c], wire[c], ep[c], up[c]) /\ Sane(hc[c])
         /\ wire[c] \in Seq(Messages) /\ ep[c] \in Endpoints /\ Paired(ep[c])
<1>1. hc[c].st = "open" /\ ep[c].st = "live" /\ Serving(hc[c]) /\ ~Faulted(wire[c])
  BY Zenon DEF InService, IsOpen, FaultQueued, FaultOnWire, Serving, Faulted
<1>2. InPlace(hc[c], wire[c], ep[c], up[c])
  BY <1>1, Zenon DEF DInv, Lanes, Lane
<1>. QED BY <1>1, <1>2, Zenon DEF InPlace, DInv, RInv, AllSane, BInv, RtSound, HubSound,
         HubTypeOK, Viewers

\* Where the one envelope of a lane in service may be.
LEMMA AlignedEnvelopes ==
  ASSUME NEW r, NEW w \in Seq(Messages), NEW e, NEW u, Aligned(r, w, e, u),
         NEW k \in 1..Len(w), w[k].type = "envelope"
  PROVE  Travelling(r, w, e, u) /\ w[k] = r.flight.env
<1>1. ~Scrap(w, e.rejected)
  BY Zenon DEF Scrap
<1>2. ~Assembling(r, w, e, u)
  BY Zenon DEF Assembling
<1>3. ~Accepted(r, w, e, u)
  <2>1. w # <<>>
    BY SMT
  <2>. QED BY <2>1, Zenon DEF Accepted
<1>4. Travelling(r, w, e, u)
  BY <1>1, <1>2, <1>3, Zenon DEF Aligned, AtRest, Queued, Refused
<1>5. w[k] = r.flight.env
  <2>1. PICK p \in 1..Len(w) :
          /\ w[p] = r.flight.env
          /\ \A i \in 1..(p - 1) : w[i].type = "chunk"
          /\ \A i \in (p + 1)..Len(w) : w[i].type = "chunk"
    BY <1>4, Zenon DEF Travelling
  <2>2. k \notin 1..(p - 1) /\ k \notin (p + 1)..Len(w)
    BY <2>1, Zenon
  <2>3. Len(w) \in Nat
    BY SMT
  <2>4. k = p
    BY <2>2, <2>3, SMT
  <2>. QED BY <2>1, <2>4, Zenon
<1>. QED BY <1>4, <1>5

\* The envelopes on the wire, the answers and the assembly count one at most.
LEMMA AlignedCounts ==
  ASSUME NEW r, NEW w \in Seq(Messages), NEW e, NEW u, Aligned(r, w, e, u)
  PROVE  LET n == Cardinality({i \in 1..Len(w) : w[i].type = "envelope"})
         IN n + Len(u) + (IF e.env = None THEN 0 ELSE 1) <= 1
<1> DEFINE E == {i \in 1..Len(w) : w[i].type = "envelope"}
<1>1. \A a : Len(<<a>>) = 1
  BY SMT
<1>2. Len(<<>>) = 0
  BY SMT
<1> DEFINE n == Cardinality(E)
           l == Len(u)
           h == IF e.env = None THEN 0 ELSE 1
<1>0. l \in {0, 1} /\ n = 0 /\ (h = 0 \/ l = 0) => n + l + h <= 1
  <2>1. h \in {0, 1}
    BY Zenon
  <2> HIDE DEF n, l, h
  <2>. QED BY <2>1, SMT
<1>3. CASE E = {}
  <2>1. n = 0
    BY <1>3, FS_EmptySet, Zenon
  <2>2. CASE u = <<>>
    <3>1. l = 0
      BY <1>2, <2>2, Zenon
    <3>. QED BY <1>0, <2>1, <3>1, Zenon
  <2>3. CASE u # <<>>
    <3>1. e.env = None /\ \E a : u = <<a>>
      BY <2>3, Zenon DEF Aligned, AtRest, Queued, Travelling, Assembling, Refused,
         Accepted, Awaits
    <3>2. l = 1
      BY <1>1, <3>1, Zenon
    <3>3. h = 0
      BY <3>1, Zenon
    <3>. QED BY <1>0, <2>1, <3>2, <3>3, Zenon
  <2>. QED BY <2>2, <2>3
<1>4. ASSUME NEW k \in E
      PROVE  Cardinality(E) = 1 /\ u = <<>> /\ e.env = None
  <2>1. Travelling(r, w, e, u)
    BY <1>4, AlignedEnvelopes
  <2>2. PICK p \in 1..Len(w) : /\ \A i \in 1..(p - 1) : w[i].type = "chunk"
                               /\ \A i \in (p + 1)..Len(w) : w[i].type = "chunk"
    BY <2>1, Zenon DEF Travelling
  <2>3. ASSUME NEW i \in E
        PROVE  i = p
    <3>1. i \in 1..Len(w) /\ i \notin 1..(p - 1) /\ i \notin (p + 1)..Len(w)
      BY <2>2, <2>3, Zenon
    <3>2. Len(w) \in Nat
      BY SMT
    <3> HIDE DEF E
    <3>. QED BY <3>1, <3>2, SMT
  <2>4. E = {p}
    BY <1>4, <2>3, Zenon
  <2>5. Cardinality(E) = 1
    BY <2>4, FS_Singleton, Zenon
  <2>. QED BY <2>1, <2>5, Zenon DEF Travelling, Awaits
<1>5. ASSUME n = 1, u = <<>>, e.env = None
      PROVE  n + l + h <= 1
  <2>1. l = 0 /\ h = 0
    BY <1>2, <1>5, Zenon
  <2> HIDE DEF n, l, h
  <2>. QED BY <1>5, <2>1, SMT
<1>6. n + l + h <= 1
  <2>1. CASE E # {}
    BY <1>4, <1>5, <2>1, Zenon
  <2>. QED BY <1>3, <2>1, Zenon
<1>. QED BY <1>6

LEMMA ServiceFlight ==
  ASSUME DInv, NEW c \in Clients, InService(c)
  PROVE  /\ Cardinality({i \in 1..Len(wire[c]) : wire[c][i].type = "envelope"})
              + Len(up[c]) + (IF ep[c].env = None THEN 0 ELSE 1) <= 1
         /\ \A i \in 1..Len(up[c]) : hc[c].flight # None
                                        /\ up[c][i].txn = hc[c].flight.env.txn
<1> DEFINE r == hc[c]
           w == wire[c]
           e == ep[c]
           u == up[c]
<1>1. Aligned(r, w, e, u) /\ w \in Seq(Messages)
  BY ServiceAligned
<1> HIDE DEF r, w, e, u
<1>2. Cardinality({i \in 1..Len(w) : w[i].type = "envelope"})
        + Len(u) + (IF e.env = None THEN 0 ELSE 1) <= 1
  BY <1>1, AlignedCounts
<1>3. \A i \in 1..Len(u) : r.flight # None /\ u[i].txn = r.flight.env.txn
  <2>1. CASE u = <<>>
    <3>1. Len(<<>>) = 0 /\ 1..0 = {}
      BY SMT
    <3>. QED BY <2>1, <3>1, Zenon
  <2>2. ASSUME NEW a, u = <<a>>, a.txn = r.flight.env.txn
        PROVE  \A i \in 1..Len(u) : u[i].txn = r.flight.env.txn
    <3>1. \A i \in 1..Len(<<a>>) : <<a>>[i] = a
      BY SMT
    <3>. QED BY <2>2, <3>1, Zenon
  <2>3. CASE u # <<>>
    <3>1. /\ r.flight # None
          /\ u \in {<<AckOf(r.flight.env)>>, <<NackOf(r.flight.env.txn)>>}
      BY <1>1, <2>3, AnswerAligned, Zenon
    <3>2. AckOf(r.flight.env).txn = r.flight.env.txn
            /\ NackOf(r.flight.env.txn).txn = r.flight.env.txn
      BY SMT DEF AckOf, NackOf
    <3>. QED BY <2>2, <3>1, <3>2, Zenon
  <2>. QED BY <2>1, <2>3
<1>. QED BY <1>2, <1>3 DEF r, w, e, u

LEMMA ServiceBaseline ==
  ASSUME DInv, NEW c \in Clients, InService(c), hc[c].flight = None
  PROVE  hc[c].base = ep[c].applied /\ hc[c].reseed = ep[c].reseed
<1>1. Aligned(hc[c], wire[c], ep[c], up[c])
  BY ServiceAligned
<1>2. AtRest(hc[c], wire[c], ep[c], up[c])
  BY <1>1, Zenon DEF Aligned, Queued, Travelling, Assembling, Refused, Accepted
<1>. QED BY <1>2, Zenon DEF AtRest, Awaits, Level

LEMMA ServicePatch ==
  ASSUME DInv, NEW c \in Clients, InService(c),
         NEW i \in 1..Len(wire[c]), wire[c][i].type = "envelope", wire[c][i].frame = "patch"
  PROVE  ~ep[c].reseed /\ wire[c][i].base = ep[c].applied /\ wire[c][i].inc = ep[c].inc
<1> DEFINE r == hc[c]
           w == wire[c]
           e == ep[c]
           u == up[c]
<1>1. Aligned(r, w, e, u) /\ w \in Seq(Messages) /\ Sane(r)
  BY ServiceAligned
<1>2. i \in 1..Len(w) /\ w[i].type = "envelope" /\ w[i].frame = "patch"
  OBVIOUS
<1> HIDE DEF r, w, e, u
<1>3. Travelling(r, w, e, u) /\ w[i] = r.flight.env
  BY <1>1, <1>2, AlignedEnvelopes
<1>4. r.flight # None /\ Level(r, e) /\ e.reseed = r.reseed
  BY <1>3, Zenon DEF Travelling, Awaits
<1>5. /\ ~r.reseed /\ r.flight.env.base = r.base
      /\ r.lastAck # None /\ r.flight.env.inc = r.lastAck.inc
  BY <1>1, <1>2, <1>3, <1>4, Zenon DEF Sane
<1>6. e.applied = r.base /\ e.inc = r.lastAck.inc
  BY <1>4, <1>5, Zenon DEF Level
<1>7. ~e.reseed /\ w[i].base = e.applied /\ w[i].inc = e.inc
  BY <1>3, <1>4, <1>5, <1>6, SMT
<1>. QED BY <1>7 DEF r, w, e, u

LEMMA EndedFaulted ==
  ASSUME DInv, NEW c \in Clients, hc[c].st = "idle", ep[c].st = "live", ~hubClosed
  PROVE  FaultOnWire(c)
BY Zenon DEF DInv, Lanes, Lane, Faulted, FaultOnWire

-----------------------------------------------------------------------------
(* What the lanes promise *)

\* The hub, the sockets and the endpoints never hold anything but what they
\* are declared to hold.
THEOREM DeliveryTypeTheorem == Spec => []TypeOK
<1>1. DInv => TypeOK
  BY Zenon DEF DInv, RInv, BInv, RtSound, HubSound, Viewers, TypeOK, RtTypeOK
<1>. QED BY <1>1, AlwaysDInv, PTL

\* However steps of the hub, of its microtasks and timers, of the sockets and of
\* the endpoints interleave, a lane in service has one transaction under way
\* at most, and an answer under way is the answer to it: #deliver never runs
\* ahead of the flight it owns.
THEOREM OneFlightTheorem == Spec => []OneFlightPerLane
<1>1. DInv => OneFlightPerLane
  BY ServiceFlight, Zenon DEF OneFlightPerLane
<1>. QED BY <1>1, AlwaysDInv, PTL

\* The baseline that #ack and #nack leave with the hub is what the endpoint
\* applied, and both ends agree on whether it has to be reseeded.
THEOREM BaselinesTheorem == Spec => []BaselinesAgree
<1>1. DInv => BaselinesAgree
  BY ServiceBaseline, Zenon DEF BaselinesAgree
<1>. QED BY <1>1, AlwaysDInv, PTL

\* #representation only makes patches that #acceptEnvelope can use, also when
\* completeEncoding asks it again for a revision that is no longer the latest:
\* on a lane in service none is refused for a gap, a stale incarnation or a
\* pending reseed.
THEOREM PatchesTheorem == Spec => []PatchesFit
<1>1. DInv => PatchesFit
  BY ServicePatch, Zenon DEF PatchesFit
<1>. QED BY <1>1, AlwaysDInv, PTL

\* A client the hub detached while it serves others has a fault to read: no
\* endpoint waits for ever on a lane that was dropped in silence.
THEOREM DetachTheorem == Spec => []DetachIsReported
<1>1. DInv => DetachIsReported
  BY EndedFaulted, Zenon DEF DetachIsReported
<1>. QED BY <1>1, AlwaysDInv, PTL

-----------------------------------------------------------------------------
(* Nobody who answers as the protocol has it is accused of not doing so *)

\* Nothing in q accuses its reader.
Blameless(q) ==
  \A i \in 1..Len(q) : q[i].type = "fault" => q[i].cause \notin Accusations

LEMMA BlamelessLane ==
  ASSUME NEW c
  PROVE  Accused(c, Accusations) <=> ~(Blameless(wire[c]) /\ Blameless(hc[c].out))
BY Zenon DEF Accused, Blameless

LEMMA BlamelessAppend ==
  ASSUME NEW w \in Seq(Messages), NEW m, Blameless(w),
         m.type = "fault" => m.cause \notin Accusations
  PROVE  Blameless(Append(w, m))
<1> DEFINE x == Append(w, m)
<1>1. /\ Len(x) = Len(w) + 1 /\ x[Len(w) + 1] = m
      /\ \A i \in 1..Len(w) : x[i] = w[i]
  BY Appending
<1>2. Len(w) \in Nat
  BY SMT
<1> HIDE DEF x
<1>3. 1..Len(x) = (1..Len(w)) \cup {Len(w) + 1}
  BY <1>1, <1>2, SMT
<1>4. Blameless(x)
  BY <1>1, <1>3, Zenon DEF Blameless
<1>. QED BY <1>4 DEF x

LEMMA BlamelessTail ==
  ASSUME NEW w \in Seq(Messages), w # <<>>, Blameless(w)
  PROVE  Blameless(Tail(w)) /\ (Head(w).type = "fault" => Head(w).cause \notin Accusations)
<1> DEFINE x == Tail(w)
<1>1. /\ Head(w) = w[1] /\ Len(w) \in Nat /\ Len(w) > 0 /\ Len(x) = Len(w) - 1
      /\ \A i \in 1..Len(x) : x[i] = w[i + 1]
  BY QueueParts
<1> HIDE DEF x
<1>2. 1 \in 1..Len(w) /\ \A i \in 1..Len(x) : i + 1 \in 1..Len(w)
  BY <1>1, SMT
<1>3. Blameless(x) /\ (Head(w).type = "fault" => Head(w).cause \notin Accusations)
  BY <1>1, <1>2, Zenon DEF Blameless
<1>. QED BY <1>3 DEF x

LEMMA BlamelessShort ==
  /\ Blameless(<<>>)
  /\ \A m : (m.type = "fault" => m.cause \notin Accusations) => Blameless(<<m>>)
<1>1. Blameless(<<>>)
  <2>1. Len(<<>>) = 0 /\ 1..0 = {}
    BY SMT
  <2>. QED BY <2>1, Zenon DEF Blameless
<1>2. ASSUME NEW m, m.type = "fault" => m.cause \notin Accusations
      PROVE  Blameless(<<m>>)
  <2>1. \A i \in 1..Len(<<m>>) : <<m>>[i] = m
    BY SMT
  <2> DEFINE q == <<m>>
  <2>2. \A i \in 1..Len(q) : q[i] = m
    BY <2>1
  <2> HIDE DEF q
  <2>3. Blameless(q)
    BY <1>2, <2>2, Zenon DEF Blameless
  <2>. QED BY <2>3 DEF q
<1>. QED BY <1>1, <1>2

\* What a lane in service holds.
LEMMA ServiceParts ==
  ASSUME DInv, NEW c \in Clients, InService(c)
  PROVE  /\ hc[c].st = "open" /\ hc[c].oob = None /\ ep[c].st = "live"
         /\ hc[c].out \in Seq(Messages) /\ wire[c] \in Seq(Messages)
         /\ Blameless(hc[c].out) /\ Blameless(wire[c])
<1>1. hc[c] \in ClientStates /\ wire[c] \in Seq(Messages)
  BY BInvTypes, Zenon DEF DInv, RInv, BInv, RtSound, HubSound, HubTypeOK
<1>2. hc[c].out \in Seq(Messages)
  BY <1>1, Zenon DEF ClientStates
<1>. QED BY <1>1, <1>2, Zenon DEF InService, IsOpen, FaultQueued, FaultOnWire, Blameless

LEMMA IdleNothing == IdleClient.out = <<>>
<1>. QED BY SMT DEF IdleClient

\* A step that records no accusation leaves none on such a lane.
LEMMA MovesBlameless ==
  ASSUME DInv, NEW c \in Clients, InService(c), Moves(c, Excuses)
  PROVE  Blameless(wire'[c]) /\ Blameless(hc'[c].out)
<1> DEFINE r == hc[c]
           s == hc'[c]
           w == wire[c]
           x == wire'[c]
<1>1. /\ r.st = "open" /\ r.oob = None
      /\ r.out \in Seq(Messages) /\ w \in Seq(Messages)
      /\ Blameless(r.out) /\ Blameless(w)
  BY ServiceParts
<1>2. CASE Turns(s, r, Excuses) /\ OutOfBand(c)
  <2>1. s.oob = r.oob => x = w
    BY <1>2, Zenon DEF OutOfBand
  <2>2. CASE s.out = r.out /\ s.oob = r.oob
    BY <1>1, <2>1, <2>2, Zenon
  <2>3. CASE Broken(s, r, Excuses)
    <3>1. PICK m \in Excuses : \/ s.out = <<m>> /\ s.oob = r.oob
                               \/ s.out = <<>> /\ s.oob = m
      BY <2>3, Zenon DEF Broken
    <3>2. m.cause \notin Accusations
      BY Zenon DEF Excuses
    <3>3. Blameless(s.out)
      BY <3>1, <3>2, BlamelessShort, Zenon
    <3>4. x = w \/ x = Append(w, m)
      BY <1>2, <2>1, <3>1, Zenon DEF OutOfBand
    <3>. QED BY <1>1, <3>2, <3>3, <3>4, BlamelessAppend, Zenon
  <2>4. CASE Starts(s, r)
    <3>1. PICK e \in Envelopes : s.out = Append(r.out, e) /\ s.oob = r.oob
      BY <2>4, Zenon DEF Starts
    <3>2. e.type # "fault"
      BY Zenon DEF Envelopes
    <3>. QED BY <1>1, <2>1, <3>1, <3>2, BlamelessAppend, Zenon
  <2>. QED BY <1>2, <2>2, <2>3, <2>4, Zenon DEF Turns, Undisturbed, Encodes, Same
<1>3. ASSUME NEW m, Sends(s, r, m), x = Append(w, m)
      PROVE  Blameless(x) /\ Blameless(s.out)
  <2>1. CASE r.out # <<>> /\ m = Head(r.out) /\ s.out = Tail(r.out)
    BY <1>1, <1>3, <2>1, BlamelessTail, BlamelessAppend, Zenon
  <2>2. CASE m.type = "chunk" /\ s.out = <<>>
    BY <1>1, <1>3, <2>2, BlamelessShort, BlamelessAppend, Zenon
  <2>3. r.flight # None /\ m = [type |-> "chunk", txn |-> r.flight.env.txn,
                               index |-> r.flight.next] /\ s.out = <<>>
        => m.type = "chunk" /\ s.out = <<>>
    <3>1. \A t, i : [type |-> "chunk", txn |-> t, index |-> i].type = "chunk"
      BY SMT
    <3>. QED BY <3>1, Zenon
  <2>. QED BY <1>3, <2>1, <2>2, <2>3, Zenon DEF Sends
<1>4. CASE Detaches(c)
  <2>1. s = IdleClient /\ x = w
    BY <1>4, Zenon DEF Detaches
  <2>2. s.out = <<>>
    BY <2>1, IdleNothing, Zenon
  <2>. QED BY <1>1, <2>1, <2>2, BlamelessShort, Zenon
<1>. QED BY <1>1, <1>2, <1>3, <1>4, Zenon DEF Moves, TurnedAway, Waiting, Joining

\* The end of a connection leaves nothing to read.
LEMMA EndsBlameless ==
  ASSUME DInv, NEW c \in Clients, InService(c),
         Disconnect(c) \/ SinkFails(c) \/ OpeningFails(c)
  PROVE  Blameless(wire'[c]) /\ Blameless(hc'[c].out)
<1>1. BInv /\ hc[c].st = "open" /\ ep[c].st = "live"
  BY ServiceParts, Zenon DEF DInv, RInv
<1>2. SinkFails(c)
  BY <1>1, Zenon DEF Disconnect, OpeningFails, OpenRejects
<1>3. Ends(c)
  BY <1>1, <1>2, ClosedMoves, Zenon DEF SinkFails, SinkFailed
<1>4. hc'[c].out = <<>> /\ wire'[c] = <<>>
  BY <1>3, IdleNothing, Zenon DEF Ends
<1>. QED BY <1>4, BlamelessShort, Zenon

LEMMA NextBlameless ==
  ASSUME DInv, Next, NEW c \in Clients, InService(c)
  PROVE  Blameless(wire'[c]) /\ Blameless(hc'[c].out)
<1>1. /\ RInv /\ BInv /\ AllSane(hc) /\ Viewers
      /\ hc[c].st = "open" /\ hc[c].out \in Seq(Messages) /\ wire[c] \in Seq(Messages)
      /\ Blameless(hc[c].out) /\ Blameless(wire[c])
  BY ServiceParts, Zenon DEF DInv, RInv
<1>2. CASE Moves(c, Excuses)
  BY <1>2, MovesBlameless
<1>3. CASE Alone /\ NoViewerStep
  BY <1>1, <1>2, <1>3, StepMoves, Zenon DEF Alone, AllMove
<1>4. ASSUME NEW d \in Clients, Connect(d)
      PROVE  Blameless(wire'[c]) /\ Blameless(hc'[c].out)
  <2>1. Opens(d)
    BY <1>1, <1>4, OpenMoves, Zenon DEF Connect, OpenDelivery
  <2>. QED BY <1>1, <1>2, <2>1, Zenon DEF Opens
<1>5. ASSUME NEW d \in Clients, Feedback(d)
      PROVE  Blameless(wire'[c]) /\ Blameless(hc'[c].out)
  <2>1. /\ up[d] \in Seq(Acks \cup Nacks) /\ up[d] # <<>>
        /\ IF ~IsOpen(d) THEN UNCHANGED hubVars
           ELSE IF Head(up[d]).type = "ack" THEN Ack(d, Head(up[d])) ELSE Nack(d, Head(up[d]))
    BY <1>1, <1>5, Zenon DEF Feedback, Viewers
  <2>2. CASE d = c
    <3>1. Aligned(hc[c], wire[c], ep[c], up[c])
      BY ServiceAligned
    <3>2. IF Head(up[c]).type = "ack" THEN Ack(c, Head(up[c])) ELSE Nack(c, Head(up[c]))
      BY <1>1, <2>1, <2>2, Zenon DEF IsOpen
    <3>3. hc'[c].out = hc[c].out /\ wire'[c] = wire[c]
      BY <1>1, <2>1, <2>2, <3>1, <3>2, HonestAnswer
    <3>. QED BY <1>1, <3>3, Zenon
  <2>3. CASE d # c
    <3>1. ep[d] \in Endpoints /\ Lane(hc[d], wire[d], ep[d], up[d], hubClosed)
      BY <1>1, Zenon DEF Viewers, DInv, Lanes
    <3>2. hubClosed => hubClosed'
      BY NextStaysClosed
    <3>3. \A b \in Clients \ {d} : Moves(b, Excuses)
      BY <1>1, <2>1, <3>1, <3>2, FeedbackLane
    <3>. QED BY <1>2, <2>3, <3>3, Zenon
  <2>. QED BY <2>2, <2>3
<1>6. ASSUME NEW d \in Clients, Disconnect(d) \/ SinkFails(d) \/ OpeningFails(d)
      PROVE  Blameless(wire'[c]) /\ Blameless(hc'[c].out)
  BY <1>1, <1>2, <1>6, DisconnectEnds, EndsBlameless, Zenon
<1>7. ASSUME NEW d \in Clients,
             Receive(d) \/ Decode(d) \/ FailDecode(d) \/ Flush(d) \/ Leave(d)
      PROVE  Blameless(wire'[c]) /\ Blameless(hc'[c].out)
  <2>1. hc' = hc
    BY <1>7, Zenon DEF Receive, Decode, FailDecode, Flush, Leave, rtVars, hubVars
  <2>2. wire'[c] = wire[c] \/ (wire[c] # <<>> /\ wire'[c] = Tail(wire[c]))
    BY <1>1, <1>7, Zenon DEF Receive, Decode, FailDecode, Flush, Leave, rtVars, hubVars,
       BInv, RtSound, HubSound, HubTypeOK
  <2>. QED BY <1>1, <2>1, <2>2, BlamelessTail, Zenon
<1>. QED BY <1>3, <1>4, <1>5, <1>6, <1>7, NextSplits, Zenon DEF NextCases

\* However steps interleave, #ack and #nack never blame an endpoint for an
\* answer that it gave while its lane was in service and that reached the hub
\* before any fault was recorded for it; nor does another client's wrong answer
\* put the blame on its lane.
THEOREM AccusationTheorem == Spec => HonestNotAccused
<1>1. ASSUME DInv, [Next]_vars, NEW c \in Clients, InService(c)
      PROVE  ~Accused(c, Accusations)'
  <2>1. Blameless(wire'[c]) /\ Blameless(hc'[c].out)
    <3>1. CASE Next
      BY <1>1, <3>1, NextBlameless
    <3>2. CASE UNCHANGED vars
      BY <1>1, <3>2, ServiceParts, Zenon DEF vars, rtVars, hubVars
    <3>. QED BY <1>1, <3>1, <3>2
  <2>. QED BY <2>1, Zenon DEF Accused, Blameless
<1>2. DInv /\ [Next]_vars =>
        [\A c \in Clients : InService(c) => ~Accused(c, Accusations)']_vars
  BY <1>1, Zenon
<1>. QED BY <1>2, AlwaysDInv, PTL DEF Spec, HonestNotAccused

-----------------------------------------------------------------------------
(* What is on its way is never older than what is shown *)

\* Position i holds an envelope that its endpoint reads before any fault.
Reachable(w, i) == w[i].type = "envelope" /\ \A j \in 1..i : w[j].type # "fault"

\* A live endpoint with what it assembles and what it will read: states the
\* source has published by revision v, none older than the one it shows, and one
\* at a time.  This outlives a fault of the lane, which Aligned does not.
Ahead(w, e, v) ==
  /\ e.env # None => e.applied <= e.env.rev /\ e.env.rev <= v
  /\ \A i \in 1..Len(w) : Reachable(w, i) =>
       /\ e.env = None /\ e.applied <= w[i].rev /\ w[i].rev <= v
       /\ \A j \in 1..(i - 1) : w[j].type # "envelope"

LEMMA TailReachable ==
  ASSUME NEW w \in Seq(Messages), w # <<>>, Head(w).type # "fault",
         NEW i \in 1..Len(Tail(w)), Reachable(Tail(w), i)
  PROVE  /\ i + 1 \in 1..Len(w) /\ Tail(w)[i] = w[i + 1] /\ Reachable(w, i + 1)
         /\ i \in 1..((i + 1) - 1) /\ 1 \in 1..((i + 1) - 1)
<1> DEFINE v == Tail(w)
           k == i + 1
<1>1. /\ Head(w) = w[1] /\ Len(v) = Len(w) - 1 /\ Len(w) \in Nat /\ Len(w) > 0
      /\ \A j \in 1..Len(v) : v[j] = w[j + 1]
  BY QueueParts
<1>2. i \in 1..Len(v) /\ Reachable(v, i) /\ v[i] = w[k]
  BY <1>1
<1> HIDE DEF v
<1>3. k \in 1..Len(w) /\ i \in 1..(k - 1) /\ 1 \in 1..(k - 1)
  BY <1>1, <1>2, SMT
<1>4. \A j \in 1..k : j = 1 \/ (j - 1 \in 1..i /\ j - 1 \in 1..Len(v) /\ (j - 1) + 1 = j)
  BY <1>1, <1>2, SMT
<1>5. ASSUME NEW j \in 1..k, j # 1
      PROVE  w[j].type # "fault"
  <2>1. j - 1 \in 1..i /\ v[j - 1] = w[j]
    BY <1>1, <1>4, <1>5
  <2>. QED BY <1>2, <2>1, Zenon DEF Reachable
<1>6. \A j \in 1..k : w[j].type # "fault"
  BY <1>1, <1>5, Zenon
<1>7. Reachable(w, k)
  BY <1>2, <1>6, Zenon DEF Reachable
<1>. QED BY <1>2, <1>3, <1>7 DEF v

\* Reading what is no envelope, and losing what is assembled at most.
LEMMA AheadTail ==
  ASSUME NEW w \in Seq(Messages), w # <<>>, Head(w).type # "fault", NEW e, NEW x,
         NEW v, Ahead(w, e, v), x.applied = e.applied, x.env \in {e.env, None}
  PROVE  Ahead(Tail(w), x, v)
<1> DEFINE y == Tail(w)
<1>1. ASSUME NEW i \in 1..Len(y), Reachable(y, i)
      PROVE  /\ x.env = None /\ x.applied <= y[i].rev /\ y[i].rev <= v
             /\ \A j \in 1..(i - 1) : y[j].type # "envelope"
  <2> DEFINE k == i + 1
  <2>1. k \in 1..Len(w) /\ y[i] = w[k] /\ Reachable(w, k)
    BY <1>1, TailReachable
  <2> HIDE DEF k
  <2>2. /\ e.env = None /\ e.applied <= w[k].rev /\ w[k].rev <= v
        /\ \A j \in 1..(k - 1) : w[j].type # "envelope"
    BY <2>1, Zenon DEF Ahead
  <2>3. ASSUME NEW j \in 1..(i - 1)
        PROVE  y[j].type # "envelope"
    <3> DEFINE l == j + 1
    <3>1. Len(y) = Len(w) - 1 /\ Len(w) \in Nat /\ \A m \in 1..Len(y) : y[m] = w[m + 1]
      BY QueueParts
    <3> HIDE DEF y
    <3>2. j \in 1..Len(y) /\ l \in 1..(k - 1)
      BY <1>1, <3>1, SMT DEF k
    <3>3. y[j] = w[l]
      BY <3>1, <3>2
    <3> HIDE DEF l
    <3>. QED BY <2>2, <3>2, <3>3, Zenon
  <2>. QED BY <2>1, <2>2, <2>3, Zenon
<1> HIDE DEF y
<1>2. x.env # None => x.applied <= x.env.rev /\ x.env.rev <= v
  BY Zenon DEF Ahead
<1>3. Ahead(y, x, v)
  BY <1>1, <1>2, Zenon DEF Ahead
<1>. QED BY <1>3 DEF y

\* Reading an envelope.
LEMMA AheadTaken ==
  ASSUME NEW w \in Seq(Messages), w # <<>>, Head(w).type = "envelope", NEW e, NEW x,
         NEW v, Ahead(w, e, v), x.applied = e.applied, x.env = Head(w)
  PROVE  Ahead(Tail(w), x, v)
<1> DEFINE y == Tail(w)
<1>1. Head(w) = w[1] /\ 1 \in 1..Len(w) /\ 1..1 = {1}
  <2>1. Head(w) = w[1] /\ Len(w) \in Nat /\ Len(w) > 0
    BY QueueParts
  <2>. QED BY <2>1, SMT
<1>2. Reachable(w, 1)
  BY <1>1, Zenon DEF Reachable
<1>3. x.applied <= x.env.rev /\ x.env.rev <= v
  BY <1>1, <1>2, Zenon DEF Ahead
<1>4. ASSUME NEW i \in 1..Len(y), Reachable(y, i)
      PROVE  FALSE
  <2> DEFINE k == i + 1
  <2>1. k \in 1..Len(w) /\ Reachable(w, k) /\ 1 \in 1..(k - 1)
    BY <1>4, TailReachable, Zenon
  <2> HIDE DEF k
  <2>. QED BY <1>1, <2>1, Zenon DEF Ahead
<1> HIDE DEF y
<1>5. Ahead(y, x, v)
  BY <1>3, <1>4, Zenon DEF Ahead
<1>. QED BY <1>5 DEF y

\* Going on with what is assembled, giving it up or showing it.
LEMMA AheadKept ==
  ASSUME NEW w, NEW e, NEW x, NEW v, Ahead(w, e, v),
         \/ x.applied = e.applied /\ x.env \in {e.env, None}
         \/ e.env # None /\ x.env = None
  PROVE  Ahead(w, x, v)
BY Zenon DEF Ahead

LEMMA AheadAppend ==
  ASSUME NEW w \in Seq(Messages), NEW e, NEW v, Ahead(w, e, v), NEW m,
         \/ m.type # "envelope" \/ Faulted(w)
         \/ /\ e.env = None /\ e.applied <= m.rev /\ m.rev <= v
            /\ \A i \in 1..Len(w) : w[i].type # "envelope"
  PROVE  Ahead(Append(w, m), e, v)
<1> DEFINE x == Append(w, m)
           n == Len(w) + 1
<1>1. /\ Len(x) = n /\ x[n] = m /\ \A i \in 1..Len(w) : x[i] = w[i]
  BY Appending
<1>2. /\ \A i \in 1..n : i \in 1..Len(w) \/ i = n
      /\ \A i \in 1..Len(w) : i \in 1..n /\ \A j \in 1..i : j \in 1..Len(w)
      /\ \A i \in 1..Len(w) : \A j \in 1..(i - 1) : j \in 1..Len(w)
      /\ \A j \in 1..(n - 1) : j \in 1..Len(w)
  BY SMT
<1> HIDE DEF x, n
<1>3. ASSUME NEW i \in 1..Len(w), Reachable(x, i)
      PROVE  /\ e.env = None /\ e.applied <= x[i].rev /\ x[i].rev <= v
             /\ \A j \in 1..(i - 1) : x[j].type # "envelope"
  <2>1. x[i] = w[i] /\ \A j \in 1..i : x[j] = w[j]
    BY <1>1, <1>2, Zenon
  <2>2. Reachable(w, i)
    BY <1>3, <2>1, Zenon DEF Reachable
  <2>3. /\ e.env = None /\ e.applied <= w[i].rev /\ w[i].rev <= v
        /\ \A j \in 1..(i - 1) : w[j].type # "envelope"
    BY <2>2, Zenon DEF Ahead
  <2>. QED BY <1>1, <1>2, <2>1, <2>3, Zenon
<1>4. ASSUME Reachable(x, n)
      PROVE  /\ e.env = None /\ e.applied <= x[n].rev /\ x[n].rev <= v
             /\ \A j \in 1..(n - 1) : x[j].type # "envelope"
  <2>1. m.type = "envelope" /\ ~Faulted(w)
    BY <1>1, <1>2, <1>4, Zenon DEF Reachable, Faulted
  <2>. QED BY <1>1, <1>2, <2>1, Zenon
<1>5. Ahead(x, e, v)
  BY <1>1, <1>2, <1>3, <1>4, Zenon DEF Ahead
<1>. QED BY <1>5 DEF x

LEMMA AheadLater ==
  ASSUME NEW w \in Seq(Messages), NEW e \in Endpoints, NEW v \in Revs, NEW t \in Revs,
         v <= t, Ahead(w, e, v)
  PROVE  Ahead(w, e, t)
<1>1. \A r \in Nat : r <= v => r <= t
  BY SMT DEF Revs, Null
<1>2. e.env # None => e.env.rev \in Nat
  BY Zenon DEF Endpoints, Envelopes
<1>3. \A i \in 1..Len(w) : Reachable(w, i) => w[i].rev \in Nat
  <2>1. ASSUME NEW i \in 1..Len(w), Reachable(w, i)
        PROVE  w[i].rev \in Nat
    <3>1. w[i] \in Messages
      BY SMT
    <3>2. w[i] \in Envelopes
      BY <2>1, <3>1, Zenon DEF Reachable, Messages, Chunks, FaultMsgs
    <3>. QED BY <3>2, Zenon DEF Envelopes
  <2>. QED BY <2>1
<1>. QED BY <1>1, <1>2, <1>3, Zenon DEF Ahead

LEMMA SendsAhead ==
  ASSUME NEW r \in ClientStates, Sane(r), NEW s, NEW m, Sends(s, r, m),
         NEW w \in Seq(Messages), NEW e, NEW u, InPlace(r, w, e, u),
         NEW v, \A n, i : Holds(r, n, i) => n <= v, Ahead(w, e, v)
  PROVE  Ahead(Append(w, m), e, v)
<1>1. CASE r.out = <<>>
  <2>1. \A t, k : [type |-> "chunk", txn |-> t, index |-> k].type = "chunk"
    BY SMT
  <2>2. m.type = "chunk"
    BY <1>1, <2>1, ZenonT(40) DEF Sends
  <2>. QED BY <2>2, AheadAppend
<1>2. CASE r.out # <<>>
  <2>1. r.out \in Seq(Messages)
    BY Zenon DEF ClientStates
  <2>2. m = r.out[1]
    <3>1. Head(r.out) = r.out[1]
      BY <1>2, <2>1, QueueParts
    <3>. QED BY <1>2, <3>1, Zenon DEF Sends
  <2>3. CASE Faulted(w) \/ LastWord(r)
    <3>1. m.type # "envelope" \/ Faulted(w)
      BY <2>2, <2>3, Zenon DEF LastWord
    <3>. QED BY <3>1, AheadAppend
  <2>4. CASE Aligned(r, w, e, u)
    <3>1. Queued(r, w, e, u)
      BY <1>2, <2>4, Zenon DEF Aligned, AtRest, Travelling, Assembling, Refused, Accepted
    <3>2. m = r.flight.env
      <4>1. \A a : <<a>>[1] = a
        BY SMT
      <4>. QED BY <2>2, <3>1, <4>1, Zenon DEF Queued
    <3>3. m.rev <= v
      BY <3>1, <3>2, Zenon DEF Queued, Holds
    <3>4. e.env = None /\ e.applied <= m.rev
      BY <3>1, <3>2, Zenon DEF Queued, Awaits, Level, Sane
    <3>5. \A i \in 1..Len(w) : w[i].type # "envelope"
      BY <3>1, Zenon DEF Queued, Scrap
    <3>. QED BY <3>3, <3>4, <3>5, AheadAppend
  <2>. QED BY <2>3, <2>4, Zenon DEF InPlace
<1>. QED BY <1>1, <1>2

LEMMA MovesAhead ==
  ASSUME NEW ms, RInv, NEW c \in Clients, Moves(c, ms), NEW e \in Endpoints, NEW u, NEW k,
         Lane(hc[c], wire[c], e, u, k), e.st = "live", Ahead(wire[c], e, src.rev)
  PROVE  Ahead(wire'[c], e, src.rev)
<1> DEFINE r == hc[c]
           s == hc'[c]
           w == wire[c]
           x == wire'[c]
<1>1. r \in ClientStates /\ Sane(r) /\ w \in Seq(Messages)
  BY BInvTypes, Zenon DEF RInv, BInv, RtSound, HubSound, HubTypeOK, AllSane
<1>2. \A n, i : Holds(r, n, i) => n <= src.rev
  BY Zenon DEF RInv, InOrder, Clocked, Known
<1>3. ASSUME NEW m, m.type = "fault", x = Append(w, m)
      PROVE  Ahead(x, e, src.rev)
  BY <1>1, <1>3, AheadAppend, Zenon
<1>4. CASE Turns(s, r, ms) /\ OutOfBand(c)
  <2>1. s.oob = r.oob \/ s.oob \in FaultMsgs
    BY <1>4, Zenon DEF Turns, Undisturbed, Broken, Encodes, Starts, Same
  <2>2. \/ x = w
        \/ s.oob \in FaultMsgs /\ x = Append(w, s.oob)
    BY <1>4, <2>1, Zenon DEF OutOfBand
  <2>. QED BY <1>3, <2>2, Zenon DEF FaultMsgs
<1>5. ASSUME NEW m, Sends(s, r, m), x = Append(w, m)
      PROVE  Ahead(x, e, src.rev)
  <2>1. InPlace(r, w, e, u)
    BY <1>5, Zenon DEF Lane, Sends
  <2>2. Ahead(Append(w, m), e, src.rev)
    BY <1>1, <1>2, <1>5, <2>1, SendsAhead
  <2>. QED BY <1>5, <2>2, Zenon
<1>6. CASE TurnedAway(c)
  <2>1. FaultMsg("source-closed", "capture").type = "fault"
    BY SMT DEF FaultMsg
  <2>. QED BY <1>3, <1>6, <2>1, Zenon DEF TurnedAway
<1>7. CASE x = w
  BY <1>7, Zenon
<1>. QED BY <1>4, <1>5, <1>6, <1>7, Zenon DEF Moves, Detaches

\* What becomes of an endpoint that hears a message.
LEMMA AcceptOutcome ==
  ASSUME NEW e \in Endpoints, e.st = "live", NEW m \in Messages
  PROVE  LET x == Accept(e, m).ep IN
         \/ Hangs(x)
         \/ /\ m.type # "fault" /\ x.applied = e.applied
            /\ x.env \in {e.env, None} \/ (m.type = "envelope" /\ x.env = m)
<1> DEFINE x == Accept(e, m).ep
<1>1. CASE m.type = "fault"
  BY <1>1, AcceptFaultHangs, Zenon DEF Accept
<1>2. CASE m \in Envelopes
  <2>1. m.type = "envelope"
    BY <1>2, Zenon DEF Envelopes
  <2>2. x = AcceptEnvelope(e, m).ep
    BY <2>1, Zenon DEF Accept
  <2> DEFINE q == AcceptEnvelope(e, m)
  <2>3. Hangs(q.ep) \/ Declines(q.ep, e, m.txn) \/ Begins(q.ep, e, m)
    BY <1>2, AcceptEnvelopeOutcome, Zenon
  <2> HIDE DEF q
  <2>4. \/ Hangs(q.ep)
        \/ q.ep.applied = e.applied /\ q.ep.env \in {None, m}
    BY <2>3, Zenon DEF Declines, Begins
  <2>. QED BY <2>1, <2>2, <2>4, Zenon DEF q
<1>3. CASE m \in Chunks
  <2>1. m.type = "chunk"
    BY <1>3, Zenon DEF Chunks
  <2>2. x = AcceptChunk(e, m).ep
    BY <2>1, Zenon DEF Accept
  <2> DEFINE q == AcceptChunk(e, m)
  <2>3. \/ q.ep = e \/ Declines(q.ep, e, m.txn) \/ Declines(q.ep, e, e.env.txn)
        \/ Gathers(q.ep, e)
    BY <1>3, AcceptChunkOutcome, Zenon
  <2> HIDE DEF q
  <2>4. q.ep.applied = e.applied /\ q.ep.env \in {e.env, None}
    BY <2>3, Zenon DEF Declines, Gathers
  <2>. QED BY <2>1, <2>2, <2>4, Zenon DEF q
<1>. QED BY <1>1, <1>2, <1>3, Zenon DEF Messages, FaultMsgs

\* What a viewer's step does to what it shows.
Progress(x, e, v) ==
  \/ x.applied = e.applied \/ x.applied = Null
  \/ /\ e.env # None /\ x.applied = e.env.rev
     /\ e.applied <= e.env.rev /\ e.env.rev <= v

LEMMA ReceiveAhead ==
  ASSUME RInv, Viewers, NEW c \in Clients, Receive(c),
         ep[c].st = "live" => Ahead(wire[c], ep[c], src.rev)
  PROVE  /\ ep'[c].st = "live" => Ahead(wire'[c], ep'[c], src.rev)
         /\ Progress(ep'[c], ep[c], src.rev)
<1> DEFINE e == ep[c]
           w == wire[c]
           x == Accept(e, Head(w)).ep
<1>1. /\ w \in Seq(Messages) /\ w # <<>> /\ wire \in [Clients -> Seq(Messages)]
      /\ e \in Endpoints /\ Paired(e) /\ e.st \in {"live", "unavailable"}
  BY Zenon DEF RInv, BInv, RtSound, HubSound, HubTypeOK, Viewers, Receive
<1>2. ep'[c] = x /\ wire'[c] = Tail(w)
  BY <1>1, Zenon DEF Receive, TakeStep, Viewers
<1>3. Head(w) \in Messages
  BY <1>1, QueueParts
<1>4. CASE e.st = "live"
  <2>1. \/ Hangs(x)
        \/ /\ Head(w).type # "fault" /\ x.applied = e.applied
           /\ \/ x.env \in {e.env, None}
              \/ Head(w).type = "envelope" /\ x.env = Head(w)
    BY <1>1, <1>3, <1>4, AcceptOutcome
  <2> HIDE DEF x
  <2>2. CASE Hangs(x)
    <3>1. x.st # "live" /\ x.applied = Null
      BY <2>2, Zenon DEF Hangs
    <3>. QED BY <1>2, <3>1, Zenon DEF Progress
  <2>3. CASE /\ Head(w).type # "fault" /\ x.applied = e.applied
             /\ x.env \in {e.env, None}
    <3>1. Ahead(Tail(w), x, src.rev)
      BY <1>1, <1>4, <2>3, AheadTail
    <3>. QED BY <1>2, <2>3, <3>1, Zenon DEF Progress
  <2>4. CASE Head(w).type = "envelope" /\ x.applied = e.applied /\ x.env = Head(w)
    <3>1. Ahead(Tail(w), x, src.rev)
      BY <1>1, <1>4, <2>4, AheadTaken
    <3>. QED BY <1>2, <2>4, <3>1, Zenon DEF Progress
  <2>. QED BY <2>1, <2>2, <2>3, <2>4
<1>5. CASE e.st = "unavailable"
  <2>1. CASE Head(w).type = "fault"
    <3>1. Hangs(x)
      BY <2>1, AcceptFaultHangs, Zenon DEF Accept
    <3> HIDE DEF x
    <3>2. x.st # "live" /\ x.applied = Null
      BY <3>1, Zenon DEF Hangs
    <3>. QED BY <1>2, <3>2, Zenon DEF Progress
  <2>2. CASE Head(w).type # "fault"
    <3>1. x = Step(e, <<>>).ep
      BY <1>5, <2>2, Zenon DEF Accept
    <3>2. x = e
      BY <3>1, StepFields
    <3> HIDE DEF x
    <3>. QED BY <1>2, <1>5, <3>2, Zenon DEF Progress
  <2>. QED BY <2>1, <2>2
<1>. QED BY <1>1, <1>4, <1>5

LEMMA EndpointAhead ==
  ASSUME Viewers, NEW c \in Clients, Decode(c) \/ FailDecode(c) \/ Flush(c) \/ Leave(c),
         ep[c].st = "live" => Ahead(wire[c], ep[c], src.rev)
  PROVE  /\ ep'[c].st = "live" => Ahead(wire'[c], ep'[c], src.rev)
         /\ Progress(ep'[c], ep[c], src.rev)
<1> DEFINE e == ep[c]
           w == wire[c]
<1>1. e \in Endpoints /\ Paired(e) /\ wire' = wire
  BY Zenon DEF Viewers, Decode, FailDecode, Flush, Leave, rtVars, hubVars
<1>2. e.phase # "idle" => e.env # None /\ e.st = "live"
  BY <1>1, Zenon DEF Paired
<1>3. CASE Decode(c)
  <2> DEFINE x == Decoded(e).ep
  <2>1. ep'[c] = x /\ e.env # None /\ e.st = "live"
    BY <1>2, <1>3, Zenon DEF Decode, TakeStep, Viewers
  <2>2. Ready(x, e)
    BY <1>1, DecodedWaits
  <2> HIDE DEF x
  <2>3. x.applied = e.applied /\ x.env = e.env
    BY <2>2, Zenon DEF Ready
  <2>4. Ahead(w, x, src.rev)
    BY <2>1, <2>3, AheadKept
  <2>. QED BY <1>1, <2>1, <2>3, <2>4, Zenon DEF Progress
<1>4. CASE FailDecode(c)
  <2> DEFINE x == DecodeFailed(e).ep
  <2>1. ep'[c] = x /\ e.env # None /\ e.st = "live"
    BY <1>2, <1>4, Zenon DEF FailDecode, TakeStep, Viewers
  <2>2. e.env.txn \in Nat
    BY <1>1, <2>1, Zenon DEF Endpoints, Envelopes
  <2>3. Declines(x, e, e.env.txn)
    BY <1>1, <2>2, RejectDeclines, Zenon DEF DecodeFailed
  <2> HIDE DEF x
  <2>4. x.applied = e.applied /\ x.env = None
    BY <2>3, Zenon DEF Declines
  <2>5. Ahead(w, x, src.rev)
    BY <2>1, <2>4, AheadKept
  <2>. QED BY <1>1, <2>1, <2>4, <2>5, Zenon DEF Progress
<1>5. CASE Flush(c)
  <2> DEFINE x == Flushed(e).ep
  <2>1. ep'[c] = x /\ e.env # None /\ e.st = "live"
    BY <1>2, <1>5, Zenon DEF Flush, TakeStep, Viewers
  <2>2. Shows(x, e)
    BY <1>1, <2>1, FlushedShows
  <2> HIDE DEF x
  <2>3. x.applied = e.env.rev /\ x.env = None
    BY <2>2, Zenon DEF Shows
  <2>4. Ahead(w, x, src.rev)
    BY <2>1, <2>3, AheadKept
  <2>5. e.applied <= e.env.rev /\ e.env.rev <= src.rev
    BY <2>1, Zenon DEF Ahead
  <2>. QED BY <1>1, <2>1, <2>3, <2>4, <2>5, Zenon DEF Progress
<1>6. CASE Leave(c)
  <2> DEFINE x == Fails(e).ep
  <2>1. ep'[c] = x /\ Hangs(x)
    BY <1>6, FailsHangs, Zenon DEF Leave, Viewers
  <2> HIDE DEF x
  <2>2. x.st # "live" /\ x.applied = Null
    BY <2>1, Zenon DEF Hangs
  <2>. QED BY <2>1, <2>2, Zenon DEF Progress
<1>. QED BY <1>3, <1>4, <1>5, <1>6

\* The clock of the source never goes back, and never skips.
Ticks == src'.rev = src.rev \/ src'.rev = src.rev + 1

LEMMA SourceTicks ==
  ASSUME src \in Sources, SourceStep
  PROVE  Ticks
<1> DEFINE n == src.rev + 1
<1>1. \A s, v : [src EXCEPT !.st = s, !.rev = v].rev = v
  BY Zenon DEF Sources
<1>2. \A s, i, v : [st |-> s, inc |-> i, rev |-> v].rev = v
  BY SMT
<1>3. \A s, v : [src EXCEPT !.st = s].rev = src.rev /\ [src EXCEPT !.rev = v].rev = v
  BY Zenon DEF Sources
<1> HIDE DEF n
<1>4. CASE SourceSeeds
  <2>1. src' = src \/ src' = [src EXCEPT !.st = "live", !.rev = n]
    BY <1>4, Zenon DEF SourceSeeds, n
  <2>. QED BY <1>1, <2>1, ZenonT(40) DEF Ticks, n
<1>5. CASE SourceEmits
  <2>1. src' = [src EXCEPT !.rev = n]
    BY <1>5, Zenon DEF SourceEmits, n
  <2>. QED BY <1>3, <2>1, Zenon DEF Ticks, n
<1>6. CASE EndSource
  BY <1>2, <1>6, Zenon DEF EndSource, Ticks
<1>7. CASE SourceCaptureFails
  BY <1>3, <1>7, Zenon DEF SourceCaptureFails, Ticks
<1>8. CASE ControlExits
  <2> DEFINE v == IF src.st = "live" THEN src.rev + 1 ELSE src.rev
             i == src.inc + 1
  <2>1. src' = [st |-> "absent", inc |-> i, rev |-> v]
    BY <1>8, Zenon DEF ControlExits
  <2>2. v \in {src.rev, src.rev + 1}
    BY Zenon
  <2> HIDE DEF v, i
  <2>. QED BY <1>2, <2>1, <2>2, Zenon DEF Ticks
<1>9. CASE RuntimeDisposes
  <2> DEFINE i == src.inc + 1
             x == [src EXCEPT !.st = "shut"]
             y == [st |-> "shut", inc |-> i, rev |-> n]
  <2>1. src' = x \/ src' = y
    BY <1>9, Zenon DEF RuntimeDisposes, n
  <2>2. x.rev = src.rev /\ y.rev = n
    BY <1>2, <1>3, Zenon
  <2> HIDE DEF x, y
  <2>. QED BY <2>1, <2>2, Zenon DEF Ticks, n
<1>10. CASE SourceStartFailure \/ StartCancelled \/ HubCloses
  BY <1>10, Zenon DEF SourceStartFailure, StartCancelled, HubCloses, Ticks
<1>. QED BY <1>4, <1>5, <1>6, <1>7, <1>8, <1>9, <1>10, Zenon
         DEF SourceStep, SourceCloses, SourceDisposed

LEMMA AloneTicks ==
  ASSUME src \in Sources, Alone
  PROVE  Ticks
<1>1. CASE HubStep \/ EncodingStep
  BY <1>1, Zenon DEF HubStep, EncodingStep, Ticks
<1>2. ASSUME NEW c \in Clients, DeliveryStep(c) \/ VisibilityStep(c)
      PROVE  Ticks
  BY <1>2, Zenon DEF DeliveryStep, MicrotaskStep, CreditStep, TimerStep, VisibilityStep,
     Ticks
<1>. QED BY <1>1, <1>2, SourceTicks, Zenon DEF Alone

\* A step of the daemon leaves the endpoints alone; of the viewers, one takes a
\* step, a connection starts or one ends.
OneShows ==
  \E c \in Clients :
    /\ \A d \in Clients \ {c} : ep'[d] = ep[d]
    /\ Progress(ep'[c], ep[c], src.rev)

Forwards == \A c \in Clients : ep[c].st = "live" => Ahead(wire[c], ep[c], src.rev)

LEMMA NextShows ==
  ASSUME RInv, Viewers, Lanes, Forwards, [Next]_vars
  PROVE  /\ \A c \in Clients : ep'[c].st = "live" => Ahead(wire'[c], ep'[c], src.rev)
         /\ (ep' = ep /\ Ticks) \/ (src' = src /\ OneShows)
<1> DEFINE G == \A c \in Clients : ep'[c].st = "live" => Ahead(wire'[c], ep'[c], src.rev)
           H == (ep' = ep /\ Ticks) \/ (src' = src /\ OneShows)
<1>1. BInv /\ AllSane(hc) /\ src \in Sources /\ \A c \in Clients : ep[c] \in Endpoints
  BY Zenon DEF RInv, BInv, RtSound, Viewers
<1>2. ASSUME NEW ms, NEW d \in Clients, Moves(d, ms), ep'[d] = ep[d]
      PROVE  ep'[d].st = "live" => Ahead(wire'[d], ep'[d], src.rev)
  BY <1>1, <1>2, MovesAhead, Zenon DEF Lanes, Forwards
<1>3. ASSUME NEW c \in Clients,
             ep'[c].st = "live" => Ahead(wire'[c], ep'[c], src.rev),
             \A d \in Clients \ {c} : Moves(d, Excuses) /\ ep'[d] = ep[d]
      PROVE  G
  BY <1>2, <1>3, Zenon
<1>4. CASE UNCHANGED vars
  BY <1>4, Zenon DEF vars, rtVars, hubVars, Forwards, Ticks
<1>5. CASE Alone /\ NoViewerStep
  <2>1. AllMove(Excuses)
    BY <1>1, <1>5, StepMoves, Zenon DEF Alone
  <2>2. ep' = ep /\ Ticks
    BY <1>1, <1>5, AloneTicks, Zenon DEF NoViewerStep
  <2>. QED BY <1>2, <2>1, <2>2, Zenon DEF AllMove
<1>6. ASSUME NEW c \in Clients, Connect(c)
      PROVE  G /\ H
  <2>1. Opens(c)
    BY <1>1, <1>6, OpenMoves, Zenon DEF Connect, OpenDelivery
  <2>2. /\ ep'[c] = NewEndpoint /\ src' = src
        /\ \A d \in Clients \ {c} : ep'[d] = ep[d]
    BY <1>6, Zenon DEF Connect, OpenDelivery, Viewers
  <2>3. wire'[c] = <<>>
    BY <2>1, Zenon DEF Opens
  <2>4. Ahead(<<>>, NewEndpoint, src.rev)
    <3>1. Len(<<>>) = 0 /\ 1..0 = {}
      BY SMT
    <3>. QED BY <3>1, NewEndpointType, Zenon DEF Ahead
  <2>5. G
    BY <1>3, <2>1, <2>2, <2>3, <2>4, Zenon DEF Opens
  <2>6. OneShows
    BY <2>2, NewEndpointType, Zenon DEF OneShows, Progress
  <2>. QED BY <2>2, <2>5, <2>6, Zenon
<1>7. ASSUME NEW c \in Clients, Feedback(c)
      PROVE  G /\ H
  <2>1. ep' = ep /\ src' = src
    BY <1>7, Zenon DEF Feedback
  <2>2. CASE UNCHANGED hubVars
    BY <2>1, <2>2, Zenon DEF hubVars, Forwards, Ticks
  <2>3. CASE IF Head(up[c]).type = "ack" THEN Ack(c, Head(up[c])) ELSE Nack(c, Head(up[c]))
    <3>1. Head(up[c]) \in Acks \cup Nacks
      <4>1. up[c] \in Seq(Acks \cup Nacks) /\ up[c] # <<>>
        BY <1>7, Zenon DEF Feedback, Viewers
      <4>. QED BY <4>1, QueueParts
    <3>2. AllMove(FaultMsgs) \/ Accepts(c, Head(up[c])) \/ Refuses(c, Head(up[c]))
      BY <1>1, <2>3, <3>1, FeedbackEffect, AckMoves, NackMoves
    <3>3. CASE AllMove(FaultMsgs)
      BY <1>2, <2>1, <3>3, Zenon DEF AllMove, Ticks
    <3>4. CASE wire'[c] = wire[c] /\ \A d \in Clients \ {c} : Moves(d, Excuses)
      <4>1. ep'[c].st = "live" => Ahead(wire'[c], ep'[c], src.rev)
        BY <2>1, <3>4, Zenon DEF Forwards
      <4>2. G
        BY <1>3, <2>1, <3>4, <4>1, Zenon
      <4>. QED BY <2>1, <4>2, Zenon DEF Ticks
    <3>. QED BY <3>2, <3>3, <3>4, Zenon DEF Accepts, Refuses
  <2>. QED BY <1>7, <2>2, <2>3, Zenon DEF Feedback
<1>8. ASSUME NEW c \in Clients, Disconnect(c) \/ SinkFails(c) \/ OpeningFails(c)
      PROVE  G /\ H
  <2>1. Unplug(c) /\ \A d \in Clients \ {c} : Moves(d, Excuses)
    BY <1>8, DisconnectEnds
  <2>2. /\ ep'[c] = NoEndpoint /\ src' = src
        /\ \A d \in Clients \ {c} : ep'[d] = ep[d]
    BY <1>8, <2>1, Zenon DEF Unplug, Viewers, Disconnect, SinkFails, OpeningFails
  <2>3. NoEndpoint.st # "live"
    BY NewEndpointType
  <2>4. G
    BY <1>3, <2>1, <2>2, <2>3, Zenon
  <2>5. OneShows
    BY <2>2, NewEndpointType, Zenon DEF OneShows, Progress
  <2>. QED BY <2>2, <2>4, <2>5, Zenon
<1>9. ASSUME NEW c \in Clients,
             Receive(c) \/ Decode(c) \/ FailDecode(c) \/ Flush(c) \/ Leave(c)
      PROVE  G /\ H
  <2>1. /\ ep'[c].st = "live" => Ahead(wire'[c], ep'[c], src.rev)
        /\ Progress(ep'[c], ep[c], src.rev)
    BY <1>9, ReceiveAhead, EndpointAhead, Zenon DEF Forwards
  <2>2. /\ hc' = hc /\ src' = src
        /\ \A d \in Clients \ {c} : wire'[d] = wire[d]
    BY <1>1, <1>9, Zenon DEF Receive, Decode, FailDecode, Flush, Leave, rtVars, hubVars,
       BInv, RtSound, HubSound, HubTypeOK
  <2>3. \A d \in Clients \ {c} : ep'[d] = ep[d]
    BY <1>9, Zenon DEF Receive, Decode, FailDecode, Flush, Leave, TakeStep, Viewers
  <2>4. \A d \in Clients \ {c} : Moves(d, Excuses)
    BY <2>2, IdleMoves, Zenon
  <2>5. G
    BY <1>3, <2>1, <2>3, <2>4, Zenon
  <2>6. OneShows
    BY <2>1, <2>3, Zenon DEF OneShows
  <2>. QED BY <2>2, <2>5, <2>6, Zenon
<1>. QED BY <1>4, <1>5, <1>6, <1>7, <1>8, <1>9, NextSplits, Zenon DEF NextCases

LEMMA NextForwards ==
  ASSUME DInv, Forwards, [Next]_vars
  PROVE  Forwards'
<1>1. /\ RInv /\ Viewers /\ Lanes /\ RInv' /\ Viewers'
  BY DInvStep, Zenon DEF DInv
<1>2. /\ \A c \in Clients : ep'[c].st = "live" => Ahead(wire'[c], ep'[c], src.rev)
      /\ (ep' = ep /\ Ticks) \/ src' = src
  BY <1>1, NextShows, Zenon
<1>3. /\ src.rev \in Revs /\ src'.rev \in Revs
      /\ \A c \in Clients : wire'[c] \in Seq(Messages) /\ ep'[c] \in Endpoints
  BY <1>1, Zenon DEF RInv, BInv, RtSound, HubSound, HubTypeOK, Viewers, Sources
<1>4. src.rev <= src'.rev
  <2>1. src'.rev = src.rev \/ src'.rev = src.rev + 1
    BY <1>2, Zenon DEF Ticks
  <2>2. \A n \in Revs : n <= n /\ n <= n + 1
    BY SMT DEF Revs, Null
  <2>. QED BY <1>3, <2>1, <2>2, Zenon
<1>. QED BY <1>2, <1>3, <1>4, AheadLater, Zenon DEF Forwards

LEMMA AlwaysForwards == Spec => []Forwards
<1>1. Init => Forwards
  <2>1. Init => \A c \in Clients : ep[c] = NoEndpoint
    BY Zenon DEF Init
  <2>. QED BY <2>1, NewEndpointType, Zenon DEF Forwards
<1>2. DInv /\ Forwards /\ [Next]_vars => Forwards'
  BY NextForwards
<1>. QED BY <1>1, <1>2, AlwaysDInv, PTL DEF Spec

-----------------------------------------------------------------------------
(* The lanes implement the mirror *)

LEMMA MirrorInit == Init => Mirror!Init
<1>1. Null = -1
  BY Zenon DEF Null
<1>2. Init => src.rev = -1 /\ \A c \in Clients : ep[c].applied = -1
  <2>1. \A c \in Clients : Init => ep[c].applied = Null
    BY NewEndpointType, Zenon DEF Init
  <2>2. \A s, i, v : [st |-> s, inc |-> i, rev |-> v].rev = v
    BY SMT
  <2>3. Init => src = [st |-> "absent", inc |-> 0, rev |-> Null]
    BY Zenon DEF Init, RtInit
  <2>4. Init => src.rev = Null
    BY <2>2, <2>3
  <2>. QED BY <1>1, <2>1, <2>4, Zenon
<1>. QED BY <1>2, Zenon DEF Mirror!Init

LEMMA MirrorStep ==
  ASSUME DInv, Forwards, [Next]_vars
  PROVE  [Mirror!Next]_<<src.rev, [c \in Clients |-> ep[c].applied]>>
<1> DEFINE shown == [c \in Clients |-> ep[c].applied]
<1>1. RInv /\ Viewers /\ Lanes
  BY Zenon DEF DInv
<1>2. (ep' = ep /\ Ticks) \/ (src' = src /\ OneShows)
  BY <1>1, NextShows, Zenon
<1>3. CASE ep' = ep /\ Ticks
  <2>1. shown' = shown
    BY <1>3, Zenon
  <2> HIDE DEF shown
  <2>. QED BY <1>3, <2>1, Zenon DEF Ticks, Mirror!Next, Mirror!Publish, shown
<1>4. CASE src' = src /\ OneShows
  <2>1. PICK c \in Clients : /\ \A d \in Clients \ {c} : ep'[d] = ep[d]
                             /\ Progress(ep'[c], ep[c], src.rev)
    BY <1>4, Zenon DEF OneShows
  <2>2. ASSUME NEW v, ep'[c].applied = v
        PROVE  shown' = [shown EXCEPT ![c] = v]
    BY <2>1, <2>2, Zenon
  <2>3. CASE ep'[c].applied = ep[c].applied
    <3>1. shown' = shown
      BY <2>1, <2>3, Zenon
    <3>. QED BY <1>4, <3>1, Zenon
  <2>4. CASE ep'[c].applied = Null
    <3>1. shown' = [shown EXCEPT ![c] = -1]
      BY <2>2, <2>4, Zenon DEF Null
    <3>. QED BY <1>4, <3>1, Zenon DEF Mirror!Next, Mirror!Drop
  <2>5. CASE /\ ep[c].env # None /\ ep'[c].applied = ep[c].env.rev
             /\ ep[c].applied <= ep[c].env.rev /\ ep[c].env.rev <= src.rev
             /\ ep'[c].applied # ep[c].applied
    <3> DEFINE v == ep[c].env.rev
               a == ep[c].applied
    <3>1. v \in Nat /\ a \in Revs /\ src.rev \in Revs
      BY <1>1, <2>5, Zenon DEF Viewers, Endpoints, Envelopes, RInv, BInv, RtSound, Sources
    <3>2. shown' = [shown EXCEPT ![c] = v] /\ shown[c] = a
      BY <2>2, <2>5, Zenon
    <3>3. a <= v /\ v <= src.rev /\ v # a
      BY <2>5
    <3> HIDE DEF v, a
    <3>4. v \in (a + 1)..src.rev
      BY <3>1, <3>3, SMT DEF Revs, Null
    <3>. QED BY <1>4, <3>2, <3>4, Zenon DEF Mirror!Next, Mirror!Show
  <2>. QED BY <2>1, <2>3, <2>4, <2>5, Zenon DEF Progress
<1>. QED BY <1>2, <1>3, <1>4

\* Whatever the hub coalesces, drops, reseeds or retries, a viewer of a lane
\* shows states the source really published, moves only forward through them,
\* and shows nothing once its lane has ended.
THEOREM MirrorTheorem == Spec => MirrorSpec
<1>1. Init => Mirror!Init
  BY MirrorInit
<1>2. /\ DInv /\ Forwards /\ [Next]_vars
      => [Mirror!Next]_<<src.rev, [c \in Clients |-> ep[c].applied]>>
  BY MirrorStep
<1>. QED BY <1>1, <1>2, AlwaysDInv, AlwaysForwards, PTL DEF Spec, MirrorSpec, Mirror!Spec

=============================================================================
