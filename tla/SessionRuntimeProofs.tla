------------------------- MODULE SessionRuntimeProofs -------------------------
(***************************************************************************)
(* Proofs about SessionRuntime: what holds for any number of clients, any  *)
(* limits and any peers.                                                   *)
(***************************************************************************)
EXTENDS SessionRuntime, FiniteSetTheorems, SequenceTheorems, TLAPS

-----------------------------------------------------------------------------
(* Types of the hub's private methods *)

LEMMA IdleClientType == IdleClient \in ClientStates
<1>1. <<>> \in Seq(Messages) /\ Null \in Revs /\ 0 \in Nat
  BY SMT DEF Null, Revs
<1>. QED BY <1>1, Zenon DEF IdleClient, ClientStates

\* A pane that is reducing holds the update it reduces.
SoundPanes == {p \in Panes : p.drain = "reducing" => p.held # None}

LEMMA NoPaneType == NoPane \in SoundPanes
<1>1. <<>> \in Seq(Updates) /\ Null \in Revs /\ 0 \in Nat /\ {} \in SUBSET Nat
  BY SMT DEF Null, Revs
<1>. QED BY <1>1, Zenon DEF NoPane, Panes, SoundPanes

LEMMA ScheduleType ==
  ASSUME NEW r \in ClientStates
  PROVE  Schedule(r) \in ClientStates
<1>1. [r EXCEPT !.timer = TRUE] \in ClientStates
  BY Zenon DEF ClientStates
<1>2. [r EXCEPT !.sched = TRUE] \in ClientStates
  BY Zenon DEF ClientStates
<1>. QED BY <1>1, <1>2, Zenon DEF Schedule

LEMMA EnqueueType ==
  ASSUME NEW r \in ClientStates, NEW m \in Messages
  PROVE  Enqueue(r, m) \in ClientStates
<1> DEFINE s == IF r.snd = "idle" THEN "queued" ELSE r.snd
<1>1. r.out \in Seq(Messages) /\ s \in {"idle", "queued", "waiting"}
  BY Zenon DEF ClientStates
<1>2. Append(r.out, m) \in Seq(Messages)
  BY <1>1, SMT
<1>3. ASSUME NEW o \in Seq(Messages), NEW t \in {"idle", "queued", "waiting"}
      PROVE  [r EXCEPT !.out = o, !.snd = t] \in ClientStates
  BY Zenon DEF ClientStates
<1>4. [r EXCEPT !.out = Append(r.out, m), !.snd = s] \in ClientStates
  BY <1>1, <1>2, <1>3, Zenon
<1>. QED BY <1>4, Zenon DEF Enqueue

LEMMA FaultMsgType ==
  ASSUME NEW reason \in Reasons, NEW cause \in Causes
  PROVE  FaultMsg(reason, cause) \in FaultMsgs /\ FaultMsg(reason, cause) \in Messages
BY Zenon DEF FaultMsg, FaultMsgs, Messages

LEMMA FaultClearedType ==
  ASSUME NEW r \in ClientStates, NEW reason
  PROVE  [r EXCEPT !.enc = None, !.out = <<>>, !.flight = None,
                   !.displaced = IF reason # "source-closed" THEN @
                                 ELSE IF r.flight = None THEN None
                                 ELSE r.flight.env] \in ClientStates
<1> DEFINE kept == IF reason # "source-closed" THEN r.displaced
                   ELSE IF r.flight = None THEN None ELSE r.flight.env
<1>1. kept \in Envelopes \cup {None}
  <2>1. r.displaced \in Envelopes \cup {None} /\ r.flight \in Flights \cup {None}
    BY Zenon DEF ClientStates
  <2>2. r.flight # None => r.flight.env \in Envelopes
    BY <2>1, Zenon DEF Flights
  <2>. QED BY <2>1, <2>2, Zenon
<1>2. <<>> \in Seq(Messages)
  BY SMT
<1>3. ASSUME NEW o \in Seq(Messages), NEW k \in Envelopes \cup {None}
      PROVE  [r EXCEPT !.enc = None, !.out = o, !.flight = None, !.displaced = k]
               \in ClientStates
  BY Zenon DEF ClientStates
<1>. QED BY <1>1, <1>2, <1>3, Zenon

LEMMA FaultType ==
  ASSUME NEW r \in ClientStates, NEW reason \in Reasons, NEW cause \in Causes
  PROVE  Fault(r, reason, cause) \in ClientStates
<1> DEFINE kept == IF reason # "source-closed" THEN r.displaced
                   ELSE IF r.flight = None THEN None ELSE r.flight.env
           cleared == [r EXCEPT !.enc = None, !.out = <<>>, !.flight = None,
                                !.displaced = kept]
           m == FaultMsg(reason, cause)
<1>1. m \in FaultMsgs /\ m \in Messages
  BY FaultMsgType
<1>2. cleared \in ClientStates
  BY FaultClearedType
<1> HIDE DEF cleared, m
<1>3. [cleared EXCEPT !.oob = m] \in ClientStates
  BY <1>1, <1>2, Zenon DEF ClientStates
<1>4. [Enqueue(cleared, m) EXCEPT !.retire = TRUE] \in ClientStates
  <2>1. Enqueue(cleared, m) \in ClientStates
    BY <1>1, <1>2, EnqueueType
  <2>2. ASSUME NEW s \in ClientStates
        PROVE  [s EXCEPT !.retire = TRUE] \in ClientStates
    BY Zenon DEF ClientStates
  <2>. QED BY <2>1, <2>2, Zenon
<1>. QED BY <1>3, <1>4, Zenon DEF Fault, cleared, m

LEMMA ResetClientType ==
  ASSUME NEW r \in ClientStates
  PROVE  ResetClient(r) \in ClientStates
<1> DEFINE cleared == [r EXCEPT !.enc = None, !.out = <<>>, !.flight = None]
           m == FaultMsg("source-closed", "restarted")
<1>1. m \in Messages
  BY FaultMsgType, Zenon DEF Reasons, Causes
<1>2. cleared \in ClientStates
  <2>1. <<>> \in Seq(Messages)
    BY SMT
  <2>2. ASSUME NEW o \in Seq(Messages)
        PROVE  [r EXCEPT !.enc = None, !.out = o, !.flight = None] \in ClientStates
    BY Zenon DEF ClientStates
  <2>. QED BY <2>1, <2>2, Zenon
<1> HIDE DEF cleared, m
<1>3. Enqueue(cleared, m) \in ClientStates
  BY <1>1, <1>2, EnqueueType
<1>4. ASSUME NEW s \in ClientStates
      PROVE  [s EXCEPT !.retire = TRUE] \in ClientStates
  BY Zenon DEF ClientStates
<1>. QED BY <1>3, <1>4, Zenon DEF ResetClient, cleared, m

LEMMA AbandonedType ==
  ASSUME NEW r \in ClientStates, NEW p \in Panes
  PROVE  Abandoned(r, p) \in ClientStates
<1>1. p.cur \in Revs
  BY Zenon DEF Panes
<1>2. [r EXCEPT !.st = "retired"] \in ClientStates
  BY Zenon DEF ClientStates
<1>3. ASSUME NEW v \in Revs
      PROVE  [r EXCEPT !.st = "orphaned", !.latest = v] \in ClientStates
  BY Zenon DEF ClientStates
<1>. QED BY <1>1, <1>2, <1>3, Zenon DEF Abandoned

LEMMA PruneType ==
  ASSUME NEW p \in SoundPanes, NEW clients
  PROVE  Prune(p, clients) \in SoundPanes
<1> DEFINE kept == {v \in p.revs : \/ v = p.cur
                       \/ \E c \in Clients : clients[c].st = "open"
                                               /\ v \in Needs(clients[c], p)}
<1>1. kept \in SUBSET Nat
  <2>1. p.revs \in SUBSET Nat
    BY Zenon DEF SoundPanes, Panes
  <2>. QED BY <2>1
<1> HIDE DEF kept
<1>2. [p EXCEPT !.revs = kept] \in SoundPanes
  <2>1. [p EXCEPT !.revs = kept] \in Panes
    BY <1>1, Zenon DEF SoundPanes, Panes
  <2>2. /\ [p EXCEPT !.revs = kept].drain = p.drain
        /\ [p EXCEPT !.revs = kept].held = p.held
    BY Zenon DEF SoundPanes, Panes
  <2>. QED BY <2>1, <2>2, Zenon DEF SoundPanes
<1>. QED BY <1>2, Zenon DEF Prune, kept

LEMMA PruneCancelledType ==
  ASSUME NEW p \in SoundPanes
  PROVE  PruneCancelled(p) \in SoundPanes
BY PruneType, Zenon DEF PruneCancelled

LEMMA EnvelopeType ==
  ASSUME NEW r \in ClientStates, NEW v \in Nat, NEW frame \in Frames,
         NEW n \in ChunkCounts, pane \in Panes
  PROVE  Envelope(r, v, frame, n) \in Envelopes
<1> DEFINE b == CASE frame = "seed" -> Null
                  [] frame = "patch" -> r.base
                  [] OTHER -> IF r.base = Null THEN 0 ELSE r.base
<1>1. r.txn \in Nat /\ r.base \in Revs
  BY Zenon DEF ClientStates
<1>2. r.txn + 1 \in Nat /\ n \in Nat /\ 0 \in Nat /\ Null \in Revs /\ 0 \in Revs
  BY <1>1, BoundsAssumption, SMT DEF Revs
<1>3. pane.inc \in Nat
  BY Zenon DEF Panes
<1>4. b \in Revs
  BY <1>1, <1>2, SMT
<1> HIDE DEF b
<1>5. [type |-> "envelope", txn |-> r.txn + 1, rev |-> v, inc |-> pane.inc,
       frame |-> frame, chunks |-> n, base |-> b] \in Envelopes
  BY <1>2, <1>3, <1>4, Zenon DEF Envelopes
<1>. QED BY <1>5, Zenon DEF Envelope, b

\* The client's record before its envelope is queued.
LEMMA StartedType ==
  ASSUME NEW r \in ClientStates, NEW v \in Nat, NEW frame \in Frames,
         NEW n \in ChunkCounts, pane \in Panes
  PROVE  [r EXCEPT !.flight = [env |-> Envelope(r, v, frame, n), next |-> 0],
                   !.txn = @ + 1] \in ClientStates
<1>1. [env |-> Envelope(r, v, frame, n), next |-> 0] \in Flights
  <2>1. 0 \in Nat
    BY SMT
  <2>. QED BY <2>1, EnvelopeType, Zenon DEF Flights
<1>2. r.txn + 1 \in Nat
  <2>1. r.txn \in Nat
    BY Zenon DEF ClientStates
  <2>. QED BY <2>1, SMT
<1>3. ASSUME NEW f \in Flights, NEW t \in Nat
      PROVE  [r EXCEPT !.flight = f, !.txn = t] \in ClientStates
  BY Zenon DEF ClientStates
<1>. QED BY <1>1, <1>2, <1>3, Zenon

LEMMA StartFlightType ==
  ASSUME NEW r \in ClientStates, NEW v \in Nat, NEW frame \in Frames,
         NEW n \in ChunkCounts, pane \in Panes
  PROVE  StartFlight(r, v, frame, n) \in ClientStates
<1>1. Envelope(r, v, frame, n) \in Messages
  BY EnvelopeType, Zenon DEF Messages
<1>2. [r EXCEPT !.flight = [env |-> Envelope(r, v, frame, n), next |-> 0],
                !.txn = @ + 1] \in ClientStates
  BY StartedType
<1>. QED BY <1>1, <1>2, EnqueueType, Zenon DEF StartFlight

LEMMA StartEncodingType ==
  ASSUME NEW r \in ClientStates, pane \in Panes, pane.cur \in Nat
  PROVE  StartEncoding(r) \in ClientStates
<1> DEFINE x == [rev |-> pane.cur, inc |-> pane.inc, base |-> r.base,
                 reseed |-> r.reseed]
<1>1. x \in Encodings
  <2>1. pane.inc \in Nat
    BY Zenon DEF Panes
  <2>2. r.base \in Revs /\ r.reseed \in BOOLEAN
    BY Zenon DEF ClientStates
  <2>. QED BY <2>1, <2>2, Zenon DEF Encodings
<1> HIDE DEF x
<1>2. [r EXCEPT !.enc = x] \in ClientStates
  BY <1>1, Zenon DEF ClientStates
<1>3. Fault(r, "state-too-large", "encodings") \in ClientStates
  BY FaultType, Zenon DEF Reasons, Causes
<1>. QED BY <1>2, <1>3, Zenon DEF StartEncoding, x

\* What Deliver makes of a client when it does not leave it alone.
DeliveredTo(r) ==
  {StartFlight(r, pane.cur, f, n) : f \in Frames, n \in ChunkCounts}
    \cup {StartEncoding(r), Fault(r, "protocol-violation", "seed-of-tombstone")}
    \cup Unrepresentable(r)

LEMMA DeliverCases ==
  ASSUME NEW r, NEW next \in Deliver(r), next # r
  PROVE  next \in DeliveredTo(r)
<1>1. FramesFor(r) \subseteq Frames
  BY Zenon DEF FramesFor, PatchOrSeed, Frames
<1>. QED BY <1>1, SMT DEF Deliver, DeliveredTo

LEMMA DeliverType ==
  ASSUME NEW r \in ClientStates, pane \in Panes, NEW next \in Deliver(r)
  PROVE  next \in ClientStates
<1>1. CASE next = r
  BY <1>1
<1>2. CASE next # r
  <2>1. pane.cur \in Nat
    <3>1. pane.cur \in Revs
      BY Zenon DEF Panes
    <3>2. pane.cur # Null
      BY <1>2, SMT DEF Deliver
    <3>. QED BY <3>1, <3>2, Zenon DEF Revs
  <2>2. next \in DeliveredTo(r)
    BY <1>2, DeliverCases
  <2>3. Fault(r, "protocol-violation", "seed-of-tombstone") \in ClientStates
    BY FaultType, Zenon DEF Reasons, Causes
  <2>4. Unrepresentable(r) \subseteq ClientStates
    BY FaultType, Zenon DEF Unrepresentable, Reasons, Causes
  <2>5. StartEncoding(r) \in ClientStates
    BY <2>1, StartEncodingType
  <2>6. \A f \in Frames, n \in ChunkCounts :
          StartFlight(r, pane.cur, f, n) \in ClientStates
    BY <2>1, StartFlightType
  <2>. QED BY <2>2, <2>3, <2>4, <2>5, <2>6, SMT DEF DeliveredTo
<1>. QED BY <1>1, <1>2

LEMMA NextMessageType ==
  ASSUME NEW r \in ClientStates, HasNext(r)
  PROVE  NextMessage(r) \in Messages
<1>1. r.out \in Seq(Messages) /\ r.flight \in Flights \cup {None}
  BY Zenon DEF ClientStates
<1>2. CASE r.out # <<>>
  <2>1. Head(r.out) \in Messages
    BY <1>1, <1>2, SMT
  <2>. QED BY <1>2, <2>1, Zenon DEF NextMessage
<1>3. CASE r.out = <<>>
  <2>1. r.flight \in Flights
    BY <1>1, <1>3, Zenon DEF HasNext
  <2>2. r.flight.env \in Envelopes /\ r.flight.next \in Nat
    BY <2>1, Zenon DEF Flights
  <2>3. r.flight.env.txn \in Nat
    BY <2>2, Zenon DEF Envelopes
  <2>4. [type |-> "chunk", txn |-> r.flight.env.txn, index |-> r.flight.next]
          \in Chunks
    BY <2>2, <2>3, Zenon DEF Chunks
  <2>. QED BY <1>3, <2>4, Zenon DEF NextMessage, Messages
<1>. QED BY <1>2, <1>3

LEMMA SentType ==
  ASSUME NEW r \in ClientStates, HasNext(r)
  PROVE  Sent(r) \in ClientStates
<1>1. r.out \in Seq(Messages) /\ r.flight \in Flights \cup {None}
  BY Zenon DEF ClientStates
<1>2. CASE r.out # <<>>
  <2> DEFINE s == IF TakenAtOnce(Head(r.out)) THEN "queued" ELSE "waiting"
  <2>1. Tail(r.out) \in Seq(Messages)
    BY <1>1, <1>2, SMT
  <2>2. s \in {"idle", "queued", "waiting"}
    BY Zenon
  <2>3. ASSUME NEW o \in Seq(Messages), NEW t \in {"idle", "queued", "waiting"}
        PROVE  [r EXCEPT !.out = o, !.snd = t] \in ClientStates
    BY Zenon DEF ClientStates
  <2>4. [r EXCEPT !.out = Tail(r.out), !.snd = s] \in ClientStates
    BY <2>1, <2>2, <2>3, Zenon
  <2>. QED BY <1>2, <2>4, Zenon DEF Sent
<1>3. CASE r.out = <<>>
  <2>1. r.flight \in Flights
    BY <1>1, <1>3, Zenon DEF HasNext
  <2>2. r.flight.next + 1 \in Nat
    <3>1. r.flight.next \in Nat
      BY <2>1, Zenon DEF Flights
    <3>. QED BY <3>1, SMT
  <2>3. ASSUME NEW k \in Nat
        PROVE  [r.flight EXCEPT !.next = k] \in Flights
    BY <2>1, Zenon DEF Flights
  <2>4. ASSUME NEW f \in Flights
        PROVE  [r EXCEPT !.flight = f, !.snd = "waiting"] \in ClientStates
    BY Zenon DEF ClientStates
  <2>5. [r EXCEPT !.flight = [r.flight EXCEPT !.next = r.flight.next + 1],
                  !.snd = "waiting"] \in ClientStates
    BY <2>2, <2>3, <2>4, Zenon
  <2>. QED BY <1>3, <2>5, Zenon DEF Sent
<1>. QED BY <1>2, <1>3

LEMMA AcknowledgedType ==
  ASSUME NEW r \in ClientStates, NEW a \in Acks
  PROVE  Acknowledged(r, a) \in ClientStates
<1> DEFINE v == IF r.latest = a.rev THEN Null ELSE r.latest
<1>1. a.rev \in Revs /\ v \in Revs
  <2>1. a.rev \in Nat /\ r.latest \in Revs
    BY Zenon DEF Acks, ClientStates
  <2>. QED BY <2>1, Zenon DEF Revs
<1>2. ASSUME NEW b \in Revs, NEW l \in Revs
      PROVE  [r EXCEPT !.base = b, !.reseed = FALSE, !.flight = None,
                       !.lastAck = a, !.latest = l] \in ClientStates
  BY Zenon DEF ClientStates
<1>3. [r EXCEPT !.base = a.rev, !.reseed = FALSE, !.flight = None,
                !.lastAck = a, !.latest = v] \in ClientStates
  BY <1>1, <1>2, Zenon
<1>. QED BY <1>3, Zenon DEF Acknowledged

LEMMA PublishedType ==
  ASSUME NEW r \in ClientStates, NEW u \in Updates
  PROVE  Published(r, u) \in ClientStates
<1>1. u.rev \in Revs
  BY Zenon DEF Updates, Revs
<1>2. Fault(r, "source-closed", "tombstone") \in ClientStates
  BY FaultType, Zenon DEF Reasons, Causes
<1>3. Schedule([r EXCEPT !.latest = u.rev, !.enc = None]) \in ClientStates
  <2>1. [r EXCEPT !.latest = u.rev, !.enc = None] \in ClientStates
    BY <1>1, Zenon DEF ClientStates
  <2>. QED BY <2>1, ScheduleType
<1>4. Schedule([r EXCEPT !.latest = u.rev]) \in ClientStates
  <2>1. [r EXCEPT !.latest = u.rev] \in ClientStates
    BY <1>1, Zenon DEF ClientStates
  <2>. QED BY <2>1, ScheduleType
<1>. QED BY <1>2, <1>3, <1>4, Zenon DEF Published

\* What Encoded makes of a client that waits no longer.
EncodedTo(s, v) ==
  {s} \cup {StartFlight(s, v, f, n) : f \in Frames, n \in ChunkCounts}
    \cup Unrepresentable(s)

LEMMA EncodedCases ==
  ASSUME NEW r, NEW ok, NEW next \in Encoded(r, ok)
  PROVE  next \in EncodedTo([r EXCEPT !.enc = None], r.enc.rev)
<1>1. PatchOrSeed(r) \subseteq Frames
  BY Zenon DEF PatchOrSeed, Frames
<1>. QED BY <1>1, SMT DEF Encoded, EncodedTo

\* completeEncoding replaces the records of the job's clients.
LEMMA CompletedJob ==
  ASSUME NEW v, NEW ok, CompleteEncoding(v, ok)
  PROVE  /\ hc' = [c \in Clients |-> hc'[c]]
         /\ \A c \in Clients :
              hc'[c] = hc[c] \/ (hc[c].enc # None /\ hc'[c] \in Encoded(hc[c], ok))
<1> DEFINE job == {c \in Clients : hc[c].enc # None /\ hc[c].enc.rev = v}
<1>1. PICK next : /\ \A c \in job : next[c] \in Encoded(hc[c], ok)
                  /\ hc' = [c \in Clients |-> IF c \in job THEN next[c] ELSE hc[c]]
  BY Zenon DEF CompleteEncoding
<1>. QED BY <1>1, Zenon

LEMMA EncodedType ==
  ASSUME NEW r \in ClientStates, r.enc # None, NEW ok, NEW next \in Encoded(r, ok),
         pane \in Panes
  PROVE  next \in ClientStates
<1> DEFINE idle == [r EXCEPT !.enc = None]
<1>1. idle \in ClientStates
  BY Zenon DEF ClientStates
<1>2. r.enc.rev \in Nat
  <2>1. r.enc \in Encodings
    BY Zenon DEF ClientStates
  <2>. QED BY <2>1, Zenon DEF Encodings
<1> HIDE DEF idle
<1>3. \A f \in Frames, n \in ChunkCounts :
        StartFlight(idle, r.enc.rev, f, n) \in ClientStates
  BY <1>1, <1>2, StartFlightType
<1>4. Unrepresentable(idle) \subseteq ClientStates
  BY <1>1, FaultType, Zenon DEF Unrepresentable, Reasons, Causes
<1>5. next \in EncodedTo(idle, r.enc.rev)
  BY EncodedCases DEF idle
<1>. QED BY <1>1, <1>3, <1>4, <1>5, SMT DEF EncodedTo

-----------------------------------------------------------------------------
(* Types of the hub's steps *)

\* A step that only replaces one client's record.
LEMMA OneClientType ==
  ASSUME NEW f \in [Clients -> ClientStates], NEW c \in Clients,
         NEW r \in ClientStates
  PROVE  [f EXCEPT ![c] = r] \in [Clients -> ClientStates]
OBVIOUS

LEMMA SendOutOfBandType ==
  ASSUME wire \in [Clients -> Seq(Messages)], hc' \in [Clients -> ClientStates],
         SendOutOfBand
  PROVE  wire' \in [Clients -> Seq(Messages)]
<1>1. ASSUME NEW c \in Clients, hc'[c].oob \notin {None, hc[c].oob}
      PROVE  Append(wire[c], hc'[c].oob) \in Seq(Messages)
  <2>1. hc'[c].oob \in FaultMsgs \cup {None}
    BY Zenon DEF ClientStates
  <2>2. hc'[c].oob \in Messages
    BY <1>1, <2>1, Zenon DEF Messages
  <2>. QED BY <2>2, SMT
<1>2. \A c \in Clients :
        (IF hc'[c].oob \notin {None, hc[c].oob}
           THEN Append(wire[c], hc'[c].oob) ELSE wire[c]) \in Seq(Messages)
  BY <1>1, Zenon
<1>. QED BY <1>2, Zenon DEF SendOutOfBand

\* The hub's types, strengthened by what its drain needs to keep them.
HubSound == HubTypeOK /\ pane \in SoundPanes

LEMMA FaultClientType ==
  ASSUME HubSound, NEW c \in Clients, NEW reason \in Reasons, NEW cause \in Causes,
         FaultClient(c, reason, cause)
  PROVE  HubSound'
<1>1. Fault(hc[c], reason, cause) \in ClientStates
  BY FaultType, Zenon DEF HubSound, HubTypeOK
<1>2. hc' \in [Clients -> ClientStates]
  BY <1>1, Zenon DEF FaultClient, HubSound, HubTypeOK
<1>3. pane' \in SoundPanes
  BY PruneCancelledType, Zenon DEF FaultClient, HubSound
<1>4. wire' \in [Clients -> Seq(Messages)]
  BY <1>2, SendOutOfBandType, Zenon DEF FaultClient, HubSound, HubTypeOK
<1>5. hubClosed' \in BOOLEAN
  BY Zenon DEF FaultClient, HubSound, HubTypeOK
<1>. QED BY <1>2, <1>3, <1>4, <1>5, Zenon DEF HubSound, HubTypeOK, SoundPanes

LEMMA AckType ==
  ASSUME HubSound, NEW c \in Clients, NEW a \in Acks, Ack(c, a)
  PROVE  HubSound'
<1>1. CASE UNCHANGED hubVars
  BY <1>1, Zenon DEF HubSound, HubTypeOK, hubVars
<1>2. CASE /\ LET done == [hc EXCEPT ![c] = Acknowledged(@, a)]
              IN /\ pane' = Prune(pane, done)
                 /\ hc' = [done EXCEPT ![c] = Schedule(@)]
           /\ UNCHANGED <<wire, hubClosed>>
  <2> DEFINE done == [hc EXCEPT ![c] = Acknowledged(@, a)]
  <2>1. done \in [Clients -> ClientStates]
    <3>1. Acknowledged(hc[c], a) \in ClientStates
      BY AcknowledgedType, Zenon DEF HubSound, HubTypeOK
    <3>. QED BY <3>1, Zenon DEF HubSound, HubTypeOK
  <2> HIDE DEF done
  <2>2. hc' \in [Clients -> ClientStates]
    <3>1. Schedule(done[c]) \in ClientStates
      BY <2>1, ScheduleType, Zenon
    <3>2. hc' = [done EXCEPT ![c] = Schedule(@)]
      BY <1>2, Zenon DEF done
    <3>. QED BY <2>1, <3>1, <3>2, Zenon
  <2>3. pane' \in SoundPanes
    BY <1>2, PruneType, Zenon DEF HubSound, done
  <2>. QED BY <1>2, <2>2, <2>3, Zenon DEF HubSound, HubTypeOK, SoundPanes
<1>3. CASE FaultClient(c, "protocol-violation",
                       IF hc[c].flight = None THEN "ack-none" ELSE "ack-mismatch")
  BY <1>3, FaultClientType, Zenon DEF Reasons, Causes
<1>. QED BY <1>1, <1>2, <1>3, Zenon DEF Ack

LEMMA NackType ==
  ASSUME HubSound, NEW c \in Clients, NEW n \in Nacks, Nack(c, n)
  PROVE  HubSound'
<1>1. CASE UNCHANGED hubVars
  BY <1>1, Zenon DEF HubSound, HubTypeOK, hubVars
<1>2. CASE /\ LET dropped == [hc EXCEPT ![c].reseed = TRUE, ![c].flight = None]
              IN /\ pane' = Prune(pane, dropped)
                 /\ hc' = [dropped EXCEPT ![c] = Schedule(@)]
           /\ UNCHANGED <<wire, hubClosed>>
  <2> DEFINE dropped == [hc EXCEPT ![c].reseed = TRUE, ![c].flight = None]
  <2>1. dropped \in [Clients -> ClientStates]
    <3>1. \A r \in ClientStates : [r EXCEPT !.reseed = TRUE] \in ClientStates
      BY ZenonT(40) DEF ClientStates
    <3>2. \A r \in ClientStates : [r EXCEPT !.flight = None] \in ClientStates
      BY ZenonT(40) DEF ClientStates
    <3>3. [hc EXCEPT ![c].reseed = TRUE] \in [Clients -> ClientStates]
      BY <3>1, Zenon DEF HubSound, HubTypeOK
    <3>. QED BY <3>2, <3>3, Zenon
  <2> HIDE DEF dropped
  <2>2. hc' \in [Clients -> ClientStates]
    <3>1. Schedule(dropped[c]) \in ClientStates
      BY <2>1, ScheduleType, Zenon
    <3>2. hc' = [dropped EXCEPT ![c] = Schedule(@)]
      BY <1>2, Zenon DEF dropped
    <3>. QED BY <2>1, <3>1, <3>2, Zenon
  <2>3. pane' \in SoundPanes
    BY <1>2, PruneType, Zenon DEF HubSound, dropped
  <2>. QED BY <1>2, <2>2, <2>3, Zenon DEF HubSound, HubTypeOK, SoundPanes
<1>3. CASE FaultClient(c, "protocol-violation", "nack-mismatch")
  BY <1>3, FaultClientType, Zenon DEF Reasons, Causes
<1>. QED BY <1>1, <1>2, <1>3, Zenon DEF Nack

LEMMA SetVisibilityType ==
  ASSUME HubSound, NEW c \in Clients, NEW v \in {"visible", "background", "hidden"},
         SetVisibility(c, v)
  PROVE  HubSound'
<1> DEFINE seen == [hc EXCEPT ![c].vis = v,
                              ![c].enc = IF v = "hidden" THEN None ELSE @]
<1>1. seen \in [Clients -> ClientStates]
  <2>1. \A r \in ClientStates : [r EXCEPT !.vis = v] \in ClientStates
    BY ZenonT(40) DEF ClientStates
  <2>2. \A r \in ClientStates :
          [r EXCEPT !.enc = IF v = "hidden" THEN None ELSE r.enc] \in ClientStates
    <3>1. ASSUME NEW r \in ClientStates, NEW x \in Encodings \cup {None}
          PROVE  [r EXCEPT !.enc = x] \in ClientStates
      BY Zenon DEF ClientStates
    <3>2. \A r \in ClientStates :
            (IF v = "hidden" THEN None ELSE r.enc) \in Encodings \cup {None}
      BY Zenon DEF ClientStates
    <3>. QED BY <3>1, <3>2, Zenon
  <2>3. [hc EXCEPT ![c].vis = v] \in [Clients -> ClientStates]
    BY <2>1, Zenon DEF HubSound, HubTypeOK
  <2>. QED BY <2>2, <2>3, Zenon
<1> HIDE DEF seen
<1>2. hc' \in [Clients -> ClientStates]
  <2>1. Schedule(seen[c]) \in ClientStates
    BY <1>1, ScheduleType, Zenon
  <2>2. hc' = [seen EXCEPT ![c] = Schedule(@)]
    BY Zenon DEF SetVisibility, seen
  <2>. QED BY <1>1, <2>1, <2>2, Zenon
<1>3. pane' \in SoundPanes
  BY PruneCancelledType, Zenon DEF SetVisibility, HubSound
<1>. QED BY <1>2, <1>3, Zenon DEF SetVisibility, HubSound, HubTypeOK, SoundPanes

LEMMA OpenType ==
  ASSUME HubSound, NEW c \in Clients, Open(c)
  PROVE  HubSound'
<1>1. \A s \in {"opening", "resuming"} : [hc[c] EXCEPT !.st = s] \in ClientStates
  <2>1. hc[c] \in ClientStates
    BY Zenon DEF HubSound, HubTypeOK
  <2>. QED BY <2>1, Zenon DEF ClientStates
<1>2. hc' \in [Clients -> ClientStates]
  BY <1>1, Zenon DEF Open, HubSound, HubTypeOK
<1>3. pane' \in SoundPanes
  <2>1. [NoPane EXCEPT !.st = "starting"] \in SoundPanes
    BY NoPaneType, Zenon DEF NoPane, SoundPanes, Panes
  <2>. QED BY <2>1, Zenon DEF Open, HubSound
<1>. QED BY <1>2, <1>3, Zenon DEF Open, HubSound, HubTypeOK, SoundPanes

LEMMA OpenResumeType ==
  ASSUME HubSound, NEW c \in Clients, OpenResume(c)
  PROVE  HubSound'
<1> DEFINE v == IF hc[c].st = "resuming" THEN pane.cur ELSE hc[c].latest
<1>1. v \in Revs
  BY Zenon DEF HubSound, HubTypeOK, Panes, ClientStates
<1>2. \A l \in Revs : [IdleClient EXCEPT !.st = "open", !.latest = l] \in ClientStates
  BY IdleClientType, Zenon DEF ClientStates
<1>3. Schedule([IdleClient EXCEPT !.st = "open", !.latest = v]) \in ClientStates
  BY <1>1, <1>2, ScheduleType, Zenon
<1>4. hc' = [hc EXCEPT ![c] = Schedule([IdleClient EXCEPT !.st = "open", !.latest = v])]
  BY Zenon DEF OpenResume
<1> HIDE DEF v
<1>5. hc' \in [Clients -> ClientStates]
  BY <1>3, <1>4, Zenon DEF HubSound, HubTypeOK
<1>. QED BY <1>5, Zenon DEF OpenResume, HubSound, HubTypeOK, SoundPanes

LEMMA DiscardWireType ==
  ASSUME HubSound, NEW c \in Clients, DiscardWire(c)
  PROVE  wire' \in [Clients -> Seq(Messages)]
<1>1. <<>> \in Seq(Messages)
  BY SMT
<1>. QED BY <1>1, Zenon DEF DiscardWire, HubSound, HubTypeOK

LEMMA OpenRejectsType ==
  ASSUME HubSound, NEW c \in Clients, OpenRejects(c)
  PROVE  HubSound'
<1>1. hc' \in [Clients -> ClientStates]
  BY IdleClientType, Zenon DEF OpenRejects, HubSound, HubTypeOK
<1>2. wire' \in [Clients -> Seq(Messages)]
  BY DiscardWireType, Zenon DEF OpenRejects
<1>. QED BY <1>1, <1>2, Zenon DEF OpenRejects, HubSound, HubTypeOK, SoundPanes

LEMMA RemovePaneType ==
  ASSUME HubSound, NEW clients \in [Clients -> ClientStates], RemovePane(clients)
  PROVE  pane' \in SoundPanes /\ hc' \in [Clients -> ClientStates]
<1>1. pane \in Panes
  BY Zenon DEF HubSound, HubTypeOK
<1>2. \A c \in Clients : Abandoned(clients[c], pane) \in ClientStates
  BY <1>1, AbandonedType, Zenon
<1>. QED BY <1>2, NoPaneType, Zenon DEF RemovePane

LEMMA CloseClientType ==
  ASSUME HubSound, NEW c \in Clients, CloseClient(c)
  PROVE  pane' \in SoundPanes /\ hc' \in [Clients -> ClientStates]
<1> DEFINE rest == [hc EXCEPT ![c] = IdleClient]
<1>1. rest \in [Clients -> ClientStates]
  BY IdleClientType, Zenon DEF HubSound, HubTypeOK
<1>2. (hc' = rest /\ pane' = Prune(pane, rest)) \/ RemovePane(rest)
  BY Zenon DEF CloseClient
<1> HIDE DEF rest
<1>. QED BY <1>1, <1>2, PruneType, RemovePaneType, Zenon DEF HubSound

LEMMA CloseConnectionType ==
  ASSUME HubSound, NEW c \in Clients, CloseConnection(c)
  PROVE  HubSound'
<1>1. pane' \in SoundPanes /\ hc' \in [Clients -> ClientStates]
  BY CloseClientType, Zenon DEF CloseConnection
<1>2. wire' \in [Clients -> Seq(Messages)]
  BY DiscardWireType, Zenon DEF CloseConnection
<1>. QED BY <1>1, <1>2, Zenon DEF CloseConnection, HubSound, HubTypeOK, SoundPanes

LEMMA SubscribeSourceType ==
  ASSUME HubSound, NEW u \in Updates, SubscribeSource(u)
  PROVE  HubSound'
<1>1. <<u>> \in Seq(Updates)
  BY SMT
<1>2. \A q \in Seq(Updates) :
        [pane EXCEPT !.st = "seeded", !.queue = q, !.drain = "ready"] \in SoundPanes
  BY Zenon DEF HubSound, SoundPanes, Panes
<1>3. pane' \in SoundPanes
  BY <1>1, <1>2, Zenon DEF SubscribeSource
<1>. QED BY <1>3, Zenon DEF SubscribeSource, HubSound, HubTypeOK, SoundPanes

LEMMA SourceReadyType ==
  ASSUME HubSound, SourceReady
  PROVE  HubSound'
<1>1. CASE pane.aborted
  <2>1. \A c \in Clients : Abandoned(hc[c], pane) \in ClientStates
    BY AbandonedType, Zenon DEF HubSound, HubTypeOK
  <2>2. hc' \in [Clients -> ClientStates]
    BY <1>1, <2>1, Zenon DEF SourceReady
  <2>. QED BY <1>1, <2>2, NoPaneType, Zenon DEF SourceReady, HubSound, HubTypeOK, SoundPanes
<1>2. CASE ~pane.aborted
  <2>1. ASSUME NEW r \in ClientStates
      PROVE  [r EXCEPT !.st = "resuming"] \in ClientStates
    BY Zenon DEF ClientStates
  <2>2. hc' \in [Clients -> ClientStates]
    BY <1>2, <2>1, Zenon DEF SourceReady, HubSound, HubTypeOK
  <2>3. pane' \in SoundPanes
    <3>1. [pane EXCEPT !.st = "live"] \in SoundPanes
      BY Zenon DEF HubSound, SoundPanes, Panes
    <3>. QED BY <1>2, <3>1, Zenon DEF SourceReady
  <2>. QED BY <2>2, <2>3, Zenon DEF SourceReady, HubSound, HubTypeOK, SoundPanes
<1>. QED BY <1>1, <1>2

LEMMA SourceStartFailsType ==
  ASSUME HubSound, NEW capture \in BOOLEAN, SourceStartFails(capture)
  PROVE  HubSound'
<1>1. ASSUME NEW r \in ClientStates
      PROVE  [r EXCEPT !.st = "retired"] \in ClientStates
  BY Zenon DEF ClientStates
<1>2. hc' \in [Clients -> ClientStates]
  BY <1>1, IdleClientType, Zenon DEF SourceStartFails, HubSound, HubTypeOK
<1>3. FaultMsg("source-closed", "capture") \in Messages
  BY FaultMsgType, Zenon DEF Reasons, Causes
<1>4. \A w \in Seq(Messages) :
        Append(w, FaultMsg("source-closed", "capture")) \in Seq(Messages)
  BY <1>3, SMT
<1>5. wire' \in [Clients -> Seq(Messages)]
  BY <1>4, Zenon DEF SourceStartFails, HubSound, HubTypeOK
<1>. QED BY <1>2, <1>5, NoPaneType, Zenon
         DEF SourceStartFails, HubSound, HubTypeOK, SoundPanes

LEMMA AbortPaneType ==
  ASSUME HubSound, NEW p \in SoundPanes, NEW reason \in Reasons, NEW cause \in Causes,
         AbortPane(p, reason, cause)
  PROVE  HubSound'
<1>1. hc' \in [Clients -> ClientStates]
  <2>1. \A c \in Clients : Fault(hc[c], reason, cause) \in ClientStates
    BY FaultType, Zenon DEF HubSound, HubTypeOK
  <2>. QED BY <2>1, Zenon DEF AbortPane, HubSound, HubTypeOK
<1>2. pane' \in SoundPanes
  <2>1. <<>> \in Seq(Updates)
    BY SMT
  <2>2. ASSUME NEW q \in Seq(Updates)
        PROVE  [p EXCEPT !.aborted = TRUE, !.queue = q] \in SoundPanes
    BY Zenon DEF SoundPanes, Panes
  <2>. QED BY <2>1, <2>2, PruneCancelledType, Zenon DEF AbortPane
<1>3. wire' \in [Clients -> Seq(Messages)]
  BY <1>1, SendOutOfBandType, Zenon DEF AbortPane, HubSound, HubTypeOK
<1>. QED BY <1>1, <1>2, <1>3, Zenon DEF AbortPane, HubSound, HubTypeOK, SoundPanes

LEMMA ObserveCanonicalType ==
  ASSUME HubSound, NEW u \in Updates, ObserveCanonical(u)
  PROVE  HubSound'
<1>1. CASE UNCHANGED hubVars
  BY <1>1, Zenon DEF HubSound, HubTypeOK, hubVars
<1>2. CASE AbortPane(pane, "state-too-large", "pending-budget")
  BY <1>2, AbortPaneType, Zenon DEF HubSound, Reasons, Causes
<1>3. CASE /\ pane' = [pane EXCEPT !.queue = Append(@, u),
                                   !.drain = IF @ = "idle" THEN "ready" ELSE @]
           /\ UNCHANGED <<hc, wire, hubClosed>>
  <2> DEFINE d == IF pane.drain = "idle" THEN "ready" ELSE pane.drain
  <2>1. Append(pane.queue, u) \in Seq(Updates)
    <3>1. pane.queue \in Seq(Updates)
      BY Zenon DEF HubSound, SoundPanes, Panes
    <3>. QED BY <3>1, SMT
  <2>2. /\ d \in {"idle", "ready", "running", "reducing"}
        /\ d = "reducing" => pane.held # None
    BY Zenon DEF HubSound, SoundPanes, Panes
  <2>3. ASSUME NEW q \in Seq(Updates), NEW e \in {"idle", "ready", "running", "reducing"},
               e = "reducing" => pane.held # None
        PROVE  [pane EXCEPT !.queue = q, !.drain = e] \in SoundPanes
    BY <2>3, Zenon DEF HubSound, SoundPanes, Panes
  <2>4. [pane EXCEPT !.queue = Append(pane.queue, u), !.drain = d] \in SoundPanes
    BY <2>1, <2>2, <2>3, Zenon
  <2>5. pane' \in SoundPanes
    BY <1>3, <2>4, Zenon
  <2>. QED BY <1>3, <2>5, Zenon DEF HubSound, HubTypeOK, SoundPanes
<1>. QED BY <1>1, <1>2, <1>3, Zenon DEF ObserveCanonical

LEMMA PublishCanonicalType ==
  ASSUME HubSound, NEW u \in Updates, NEW p \in Panes, PublishCanonical(u, p)
  PROVE  HubSound'
<1> DEFINE q == IF u.tomb THEN <<>> ELSE p.queue
           latest == [p EXCEPT !.cur = u.rev, !.inc = u.inc, !.tomb = u.tomb,
                               !.revs = p.revs \cup {u.rev}, !.held = None,
                               !.drain = "running", !.aborted = u.tomb, !.queue = q]
<1>1. latest \in SoundPanes
  <2>1. u.rev \in Nat /\ u.rev \in Revs /\ u.inc \in Nat /\ u.tomb \in BOOLEAN
    BY Zenon DEF Updates, Revs
  <2>2. q \in Seq(Updates)
    <3>1. p.queue \in Seq(Updates)
      BY Zenon DEF Panes
    <3>2. <<>> \in Seq(Updates)
      BY SMT
    <3>. QED BY <3>1, <3>2, Zenon
  <2>3. p.revs \cup {u.rev} \in SUBSET Nat
    <3>1. p.revs \in SUBSET Nat
      BY Zenon DEF Panes
    <3>. QED BY <2>1, <3>1
  <2>4. ASSUME NEW v \in Revs, NEW i \in Nat, NEW t \in BOOLEAN, NEW k \in SUBSET Nat,
               NEW s \in Seq(Updates)
        PROVE  [p EXCEPT !.cur = v, !.inc = i, !.tomb = t, !.revs = k, !.held = None,
                         !.drain = "running", !.aborted = t, !.queue = s] \in SoundPanes
    BY Zenon DEF SoundPanes, Panes
  <2> HIDE DEF q
  <2>. QED BY <2>1, <2>2, <2>3, <2>4, Zenon
<1>2. pane' = PruneCancelled(Prune(latest, hc))
  BY Zenon DEF PublishCanonical
<1> HIDE DEF latest
<1>3. pane' \in SoundPanes
  BY <1>1, <1>2, PruneType, PruneCancelledType, Zenon
<1>4. hc' \in [Clients -> ClientStates]
  <2>1. \A c \in Clients : Published(hc[c], u) \in ClientStates
    BY PublishedType, Zenon DEF HubSound, HubTypeOK
  <2>. QED BY <2>1, Zenon DEF PublishCanonical
<1>5. wire' \in [Clients -> Seq(Messages)]
  BY <1>4, SendOutOfBandType, Zenon DEF PublishCanonical, HubSound, HubTypeOK
<1>. QED BY <1>3, <1>4, <1>5, Zenon DEF PublishCanonical, HubSound, HubTypeOK, SoundPanes

LEMMA SourceInvalidType ==
  ASSUME HubSound, NEW p \in Panes, SourceInvalid(p)
  PROVE  HubSound'
<1>1. [p EXCEPT !.drain = "idle", !.held = None] \in SoundPanes
  BY Zenon DEF SoundPanes, Panes
<1>. QED BY <1>1, AbortPaneType, Zenon DEF SourceInvalid, Reasons, Causes

LEMMA DrainStepType ==
  ASSUME HubSound, DrainStep
  PROVE  HubSound'
<1>1. CASE pane.queue = <<>> \/ pane.aborted
  <2>1. [pane EXCEPT !.drain = "idle"] \in SoundPanes
    BY Zenon DEF HubSound, SoundPanes, Panes
  <2>. QED BY <1>1, <2>1, Zenon DEF DrainStep, HubSound, HubTypeOK, SoundPanes
<1>2. CASE pane.queue # <<>> /\ ~pane.aborted
  <2> DEFINE rest == [pane EXCEPT !.queue = Tail(@)]
             u == Head(pane.queue)
  <2>1. u \in Updates /\ Tail(pane.queue) \in Seq(Updates)
    <3>1. pane.queue \in Seq(Updates)
      BY Zenon DEF HubSound, SoundPanes, Panes
    <3>. QED BY <1>2, <3>1, SMT
  <2>2. rest \in Panes
    BY <2>1, Zenon DEF HubSound, SoundPanes, Panes
  <2>3. \/ PublishCanonical(u, rest)
        \/ SourceInvalid(rest)
        \/ /\ pane' = [rest EXCEPT !.drain = "reducing", !.held = u]
           /\ UNCHANGED <<hc, wire, hubClosed>>
    BY <1>2, Zenon DEF DrainStep
  <2> HIDE DEF rest, u
  <2>4. u # None
    BY <2>1, NoneAssumption, Zenon
  <2>5. [rest EXCEPT !.drain = "reducing", !.held = u] \in SoundPanes
    BY <2>1, <2>2, <2>4, Zenon DEF SoundPanes, Panes
  <2>. QED BY <2>1, <2>2, <2>3, <2>5, PublishCanonicalType, SourceInvalidType, Zenon
           DEF HubSound, HubTypeOK, SoundPanes
<1>. QED BY <1>1, <1>2

LEMMA FinishReductionType ==
  ASSUME HubSound, FinishReduction
  PROVE  HubSound'
<1>1. CASE pane.aborted
  <2>1. [pane EXCEPT !.drain = "idle", !.held = None] \in SoundPanes
    BY Zenon DEF HubSound, SoundPanes, Panes
  <2>. QED BY <1>1, <2>1, Zenon DEF FinishReduction, HubSound, HubTypeOK, SoundPanes
<1>2. CASE ~pane.aborted
  <2>1. pane.held \in Updates
    BY Zenon DEF FinishReduction, HubSound, SoundPanes, Panes
  <2>. QED BY <1>2, <2>1, PublishCanonicalType, Zenon DEF FinishReduction, HubSound, HubTypeOK
<1>. QED BY <1>1, <1>2

LEMMA FailPaneCaptureType ==
  ASSUME HubSound, FailPaneCapture
  PROVE  HubSound'
<1>1. hc' \in [Clients -> ClientStates]
  <2>1. ASSUME NEW r \in ClientStates
        PROVE  Fault([r EXCEPT !.gone = TRUE], "source-closed", "capture") \in ClientStates
    <3>1. [r EXCEPT !.gone = TRUE] \in ClientStates
      BY Zenon DEF ClientStates
    <3>. QED BY <3>1, FaultType, Zenon DEF Reasons, Causes
  <2>. QED BY <2>1, Zenon DEF FailPaneCapture, HubSound, HubTypeOK
<1>2. pane' \in SoundPanes
  BY PruneCancelledType, Zenon DEF FailPaneCapture, HubSound
<1>3. wire' \in [Clients -> Seq(Messages)]
  BY <1>1, SendOutOfBandType, Zenon DEF FailPaneCapture, HubSound, HubTypeOK
<1>. QED BY <1>1, <1>2, <1>3, Zenon DEF FailPaneCapture, HubSound, HubTypeOK, SoundPanes

LEMMA ResetForSessionRestartType ==
  ASSUME HubSound, ResetForSessionRestart
  PROVE  pane' \in SoundPanes /\ hc' \in [Clients -> ClientStates]
<1>1. [c \in Clients |-> ResetClient(hc[c])] \in [Clients -> ClientStates]
  BY ResetClientType, Zenon DEF HubSound, HubTypeOK
<1>. QED BY <1>1, RemovePaneType, Zenon DEF ResetForSessionRestart

LEMMA CloseHubClientsType ==
  ASSUME HubSound, CloseHubClients
  PROVE  HubSound'
<1>1. hc' \in [Clients -> ClientStates]
  BY IdleClientType, Zenon DEF CloseHubClients, HubSound, HubTypeOK
<1>. QED BY <1>1, Zenon DEF CloseHubClients, HubSound, HubTypeOK, SoundPanes

\* The common part of the delivery microtask and the background timer.
LEMMA DeliveryRunType ==
  ASSUME HubSound, NEW c \in Clients, NEW r \in ClientStates,
         \E next \in Deliver(r) \cup {r} : hc' = [hc EXCEPT ![c] = next],
         SendOutOfBand, UNCHANGED <<pane, hubClosed>>
  PROVE  HubSound'
<1>1. PICK next \in Deliver(r) \cup {r} : hc' = [hc EXCEPT ![c] = next]
  OBVIOUS
<1>2. next \in ClientStates
  BY DeliverType, Zenon DEF HubSound, HubTypeOK
<1>3. hc' \in [Clients -> ClientStates]
  BY <1>1, <1>2, Zenon DEF HubSound, HubTypeOK
<1>4. wire' \in [Clients -> Seq(Messages)]
  BY <1>3, SendOutOfBandType, Zenon DEF HubSound, HubTypeOK
<1>. QED BY <1>3, <1>4, Zenon DEF HubSound, HubTypeOK, SoundPanes

LEMMA DeliverMicrotaskType ==
  ASSUME HubSound, NEW c \in Clients, DeliverMicrotask(c)
  PROVE  HubSound'
<1> DEFINE r == [hc[c] EXCEPT !.sched = FALSE]
<1>1. r \in ClientStates
  <2>1. hc[c] \in ClientStates
    BY Zenon DEF HubSound, HubTypeOK
  <2>. QED BY <2>1, Zenon DEF ClientStates
<1>2. /\ \E next \in Deliver(r) \cup {r} : hc' = [hc EXCEPT ![c] = next]
      /\ SendOutOfBand
      /\ UNCHANGED <<pane, hubClosed>>
  BY Zenon DEF DeliverMicrotask
<1> HIDE DEF r
<1>. QED BY <1>1, <1>2, DeliveryRunType, Zenon

LEMMA BackgroundTimerType ==
  ASSUME HubSound, NEW c \in Clients, BackgroundTimer(c)
  PROVE  HubSound'
<1> DEFINE r == [hc[c] EXCEPT !.timer = FALSE]
<1>1. r \in ClientStates
  <2>1. hc[c] \in ClientStates
    BY Zenon DEF HubSound, HubTypeOK
  <2>. QED BY <2>1, Zenon DEF ClientStates
<1>2. /\ \E next \in Deliver(r) \cup {r} : hc' = [hc EXCEPT ![c] = next]
      /\ SendOutOfBand
      /\ UNCHANGED <<pane, hubClosed>>
  BY Zenon DEF BackgroundTimer
<1> HIDE DEF r
<1>. QED BY <1>1, <1>2, DeliveryRunType, Zenon

LEMMA CompleteEncodingType ==
  ASSUME HubSound, NEW v, NEW ok, CompleteEncoding(v, ok)
  PROVE  HubSound'
<1>1. hc' \in [Clients -> ClientStates]
  <2>1. \A c \in Clients : hc'[c] \in ClientStates
    BY CompletedJob, EncodedType, Zenon DEF HubSound, HubTypeOK
  <2>. QED BY <2>1, CompletedJob, Zenon
<1>2. pane' \in SoundPanes
  <2>1. pane' = pane \/ pane' = Prune(pane, hc')
    BY Zenon DEF CompleteEncoding
  <2>. QED BY <2>1, PruneType, Zenon DEF HubSound
<1>3. wire' \in [Clients -> Seq(Messages)]
  BY <1>1, SendOutOfBandType, Zenon DEF CompleteEncoding, HubSound, HubTypeOK
<1>. QED BY <1>1, <1>2, <1>3, Zenon DEF CompleteEncoding, HubSound, HubTypeOK, SoundPanes

LEMMA SenderTurnType ==
  ASSUME HubSound, NEW c \in Clients, SenderTurn(c)
  PROVE  HubSound'
<1>1. hc[c] \in ClientStates
  BY Zenon DEF HubSound, HubTypeOK
<1>2. CASE HasNext(hc[c])
  <2>1. wire' \in [Clients -> Seq(Messages)]
    <3>1. NextMessage(hc[c]) \in Messages
      BY <1>1, <1>2, NextMessageType
    <3>2. wire[c] \in Seq(Messages)
      BY Zenon DEF HubSound, HubTypeOK
    <3>3. Append(wire[c], NextMessage(hc[c])) \in Seq(Messages)
      BY <3>1, <3>2, SMT
    <3>. QED BY <1>2, <3>3, Zenon DEF SenderTurn, HubSound, HubTypeOK
  <2>2. hc' \in [Clients -> ClientStates]
    BY <1>1, <1>2, SentType, Zenon DEF SenderTurn, HubSound, HubTypeOK
  <2>. QED BY <1>2, <2>1, <2>2, Zenon DEF SenderTurn, HubSound, HubTypeOK, SoundPanes
<1>3. CASE ~HasNext(hc[c]) /\ hc[c].retire
  BY <1>3, CloseClientType, Zenon DEF SenderTurn, HubSound, HubTypeOK, SoundPanes
<1>4. CASE ~HasNext(hc[c]) /\ ~hc[c].retire
  <2>1. [hc[c] EXCEPT !.snd = "idle"] \in ClientStates
    BY <1>1, Zenon DEF ClientStates
  <2>2. hc' \in [Clients -> ClientStates]
    BY <1>4, <2>1, Zenon DEF SenderTurn, HubSound, HubTypeOK
  <2>. QED BY <1>4, <2>2, Zenon DEF SenderTurn, HubSound, HubTypeOK, SoundPanes
<1>. QED BY <1>2, <1>3, <1>4

LEMMA SinkFailedType ==
  ASSUME HubSound, NEW c \in Clients, SinkFailed(c)
  PROVE  HubSound'
BY CloseConnectionType, Zenon DEF SinkFailed, CloseConnection

LEMMA OutOfBandSentType ==
  ASSUME HubSound, NEW c \in Clients, OutOfBandSent(c)
  PROVE  HubSound'
BY CloseClientType, Zenon DEF OutOfBandSent, HubSound, HubTypeOK, SoundPanes

LEMMA ReapPaneType ==
  ASSUME HubSound, ReapPane
  PROVE  HubSound'
BY RemovePaneType, Zenon DEF ReapPane, HubSound, HubTypeOK, SoundPanes

-----------------------------------------------------------------------------
(* Type correctness of the runtime *)

\* An owner that lives has a current revision to seed the hub with.
RtSound == HubSound /\ src \in Sources /\ (src.st = "live" => src.rev \in Nat)

LEMMA InitSound == RtInit => RtSound
<1> SUFFICES ASSUME RtInit PROVE RtSound
  OBVIOUS
<1>1. [c \in Clients |-> IdleClient] \in [Clients -> ClientStates]
  BY IdleClientType
<1>2. [c \in Clients |-> <<>>] \in [Clients -> Seq(Messages)]
  BY SMT
<1>3. src \in Sources /\ src.st # "live"
  <2>1. 0 \in Nat /\ Null \in Revs
    BY SMT DEF Revs
  <2>. QED BY <2>1, Zenon DEF RtInit, Sources
<1>. QED BY <1>1, <1>2, <1>3, NoPaneType, Zenon
         DEF RtInit, HubInit, RtSound, HubSound, HubTypeOK, SoundPanes

LEMMA EmissionType ==
  ASSUME src \in Sources, NEW tomb \in BOOLEAN
  PROVE  /\ src.rev + 1 \in Nat /\ src.rev + 1 \in Revs /\ src.inc + 1 \in Nat
         /\ Emission(tomb) \in Updates
<1>1. src.rev \in Revs /\ src.inc \in Nat
  BY Zenon DEF Sources
<1>2. src.rev + 1 \in Nat /\ src.rev + 1 \in Revs /\ src.inc + 1 \in Nat
  BY <1>1, SMT DEF Revs, Null
<1>. QED BY <1>1, <1>2, Zenon DEF Emission, Updates

\* Steps of the owner, each with what it does to the hub.
LEMMA SourceSound ==
  ASSUME RtSound, SourceStep
  PROVE  RtSound'
<1>1. src \in Sources /\ HubSound
  BY Zenon DEF RtSound
<1>2. /\ src.rev + 1 \in Nat /\ src.rev + 1 \in Revs /\ src.inc + 1 \in Nat
      /\ \A tomb \in BOOLEAN : Emission(tomb) \in Updates
  BY <1>1, EmissionType
<1>3. ASSUME NEW s \in {"absent", "shut"},
             src' = [st |-> s, inc |-> src.inc + 1, rev |-> src.rev + 1]
      PROVE  src' \in Sources /\ src'.st # "live"
  BY <1>2, <1>3, Zenon DEF Sources
<1>4. ASSUME NEW s \in {"disposing", "shut"}, src' = [src EXCEPT !.st = s]
      PROVE  src' \in Sources /\ src'.st # "live"
  BY <1>1, <1>4, Zenon DEF Sources
<1>5. ASSUME EndSource
      PROVE  RtSound'
  BY <1>1, <1>2, <1>3, <1>5, ObserveCanonicalType, Zenon DEF EndSource, RtSound
<1>6. CASE SourceSeeds
  <2>1. CASE src.st = "live"
    <3>1. [rev |-> src.rev, inc |-> src.inc, tomb |-> FALSE] \in Updates
      BY <2>1, Zenon DEF RtSound, Sources, Updates
    <3>. QED BY <1>1, <1>6, <2>1, <3>1, SubscribeSourceType, Zenon
             DEF SourceSeeds, RtSound, Sources
  <2>2. CASE src.st # "live"
    <3>1. [src EXCEPT !.st = "live", !.rev = src.rev + 1] \in Sources
      BY <1>1, <1>2, Zenon DEF Sources
    <3>2. [src EXCEPT !.st = "live", !.rev = src.rev + 1].rev = src.rev + 1
      BY <1>1, Zenon DEF Sources
    <3>. QED BY <1>1, <1>2, <1>6, <2>2, <3>1, <3>2, SubscribeSourceType, Zenon
             DEF SourceSeeds, RtSound
  <2>. QED BY <2>1, <2>2
<1>7. CASE SourceStartFailure
  BY <1>7, SourceStartFailsType, Zenon DEF SourceStartFailure, RtSound, Sources
<1>8. CASE SourceEmits
  <2>1. [src EXCEPT !.rev = src.rev + 1] \in Sources
    BY <1>1, <1>2, Zenon DEF Sources
  <2>2. [src EXCEPT !.rev = src.rev + 1].rev = src.rev + 1
    BY <1>1, Zenon DEF Sources
  <2>. QED BY <1>1, <1>2, <1>8, <2>1, <2>2, ObserveCanonicalType, Zenon
           DEF SourceEmits, RtSound
<1>9. CASE SourceCloses
  BY <1>5, <1>9, Zenon DEF SourceCloses
<1>10. CASE SourceCaptureFails
  BY <1>1, <1>4, <1>10, FailPaneCaptureType, Zenon DEF SourceCaptureFails, RtSound
<1>11. CASE SourceDisposed
  BY <1>5, <1>11, Zenon DEF SourceDisposed
<1>12. CASE ControlExits
  <2>1. pane' \in SoundPanes /\ hc' \in [Clients -> ClientStates]
    BY <1>1, <1>12, ResetForSessionRestartType, Zenon DEF ControlExits
  <2>2. (IF src.st = "live" THEN src.rev + 1 ELSE src.rev) \in Revs
    BY <1>1, <1>2, Zenon DEF Sources
  <2>3. ASSUME NEW v \in Revs, src' = [st |-> "absent", inc |-> src.inc + 1, rev |-> v]
        PROVE  src' \in Sources /\ src'.st # "live"
    BY <1>2, <2>3, Zenon DEF Sources
  <2>4. src' = [st |-> "absent", inc |-> src.inc + 1,
                rev |-> IF src.st = "live" THEN src.rev + 1 ELSE src.rev]
    BY <1>12, Zenon DEF ControlExits
  <2>. QED BY <1>1, <1>12, <2>1, <2>2, <2>3, <2>4, Zenon
           DEF ControlExits, RtSound, HubSound, HubTypeOK, SoundPanes
<1>13. CASE RuntimeDisposes
  <2>1. CASE src.st = "absent"
    BY <1>1, <1>4, <1>13, <2>1, Zenon
       DEF RuntimeDisposes, RtSound, HubSound, HubTypeOK, hubVars
  <2>2. CASE src.st # "absent"
    BY <1>1, <1>2, <1>3, <1>13, <2>2, ObserveCanonicalType, Zenon
       DEF RuntimeDisposes, RtSound
  <2>. QED BY <2>1, <2>2
<1>14. CASE StartCancelled
  BY <1>14, SourceStartFailsType, Zenon DEF StartCancelled, RtSound, Sources
<1>15. CASE HubCloses
  <2>1. pane' \in SoundPanes /\ hc' \in [Clients -> ClientStates]
    BY <1>1, <1>15, ResetForSessionRestartType, Zenon DEF HubCloses, CloseHub
  <2>. QED BY <1>15, <2>1, Zenon
           DEF HubCloses, CloseHub, RtSound, HubSound, HubTypeOK, SoundPanes, Sources
<1>. QED BY <1>6, <1>7, <1>8, <1>9, <1>10, <1>11, <1>12, <1>13, <1>14, <1>15, Zenon
         DEF SourceStep

\* Steps of the hub, of its timers and of its peers, which leave the owner alone.
LEMMA HubStepSound ==
  ASSUME HubSound, HubStep \/ EncodingStep
  PROVE  HubSound' /\ UNCHANGED src
<1>1. CASE HubStep
  <2>1. /\ \/ DrainStep \/ FinishReduction \/ ReductionFails
           \/ SourceReady \/ CloseHubClients \/ ReapPane
        /\ UNCHANGED src
    BY <1>1, Zenon DEF HubStep
  <2>2. CASE ReductionFails
    <3>1. SourceInvalid(pane) /\ pane \in Panes
      BY <2>2, Zenon DEF ReductionFails, HubSound, HubTypeOK
    <3>. QED BY <2>1, <3>1, SourceInvalidType, Zenon
  <2>. QED BY <2>1, <2>2, DrainStepType, FinishReductionType, SourceReadyType,
              CloseHubClientsType, ReapPaneType, Zenon
<1>2. CASE EncodingStep
  BY <1>2, CompleteEncodingType, Zenon DEF EncodingStep
<1>. QED BY <1>1, <1>2

LEMMA PeerStepSound ==
  ASSUME HubSound, NEW c \in Clients, PeerStep(c)
  PROVE  HubSound' /\ UNCHANGED src
<1>1. CASE PeerReads(c)
  <2>1. wire' \in [Clients -> Seq(Messages)]
    BY <1>1, DiscardWireType, Zenon DEF PeerReads
  <2>. QED BY <1>1, <2>1, Zenon DEF PeerReads, PeerStep, HubSound, HubTypeOK, SoundPanes
<1>2. CASE PeerAnswers(c)
  BY <1>2, AckType, NackType, PeerAssumption, Zenon DEF PeerAnswers, PeerStep
<1>. QED BY <1>1, <1>2, OpenRejectsType, SinkFailedType, CloseConnectionType, Zenon
         DEF PeerStep

LEMMA ClientStepSound ==
  ASSUME HubSound, NEW c \in Clients,
         OpenDelivery(c) \/ DeliveryStep(c) \/ VisibilityStep(c) \/ PeerStep(c)
  PROVE  HubSound' /\ UNCHANGED src
<1>1. CASE OpenDelivery(c)
  BY <1>1, OpenType, Zenon DEF OpenDelivery
<1>2. CASE DeliveryStep(c)
  BY <1>2, OpenResumeType, DeliverMicrotaskType, SenderTurnType, OutOfBandSentType,
     BackgroundTimerType, Zenon
     DEF DeliveryStep, MicrotaskStep, CreditStep, TimerStep, SenderMicrotask, SinkAccepted
<1>3. CASE VisibilityStep(c)
  <2>1. PICK v \in {"visible", "background", "hidden"} : SetVisibility(c, v)
    BY <1>3, Zenon DEF VisibilityStep
  <2>. QED BY <1>3, <2>1, SetVisibilityType, Zenon DEF VisibilityStep
<1>. QED BY <1>1, <1>2, <1>3, PeerStepSound, Zenon

LEMMA NextSound == RtSound /\ [RtNext]_rtVars => RtSound'
<1> SUFFICES ASSUME RtSound, [RtNext]_rtVars PROVE RtSound'
  OBVIOUS
<1>1. CASE UNCHANGED rtVars
  BY <1>1, Zenon DEF rtVars, hubVars, RtSound, HubSound, HubTypeOK, SoundPanes, Sources
<1>2. CASE SourceStep
  BY <1>2, SourceSound
<1>3. CASE HubStep \/ EncodingStep
  BY <1>3, HubStepSound, Zenon DEF RtSound, Sources
<1>4. ASSUME NEW c \in Clients,
             OpenDelivery(c) \/ DeliveryStep(c) \/ VisibilityStep(c) \/ PeerStep(c)
      PROVE  RtSound'
  BY <1>4, ClientStepSound, Zenon DEF RtSound, Sources
<1>. QED BY <1>1, <1>2, <1>3, <1>4, Zenon DEF RtNext

LEMMA AlwaysSound == RtSpec => []RtSound
BY InitSound, NextSound, PTL DEF RtSpec

\* Every variable of the runtime keeps its type, whatever the peers send.
THEOREM RtTypeCorrect == RtSpec => []RtTypeOK
<1>1. RtSound => RtTypeOK
  BY Zenon DEF RtSound, HubSound, RtTypeOK
<1>. QED BY <1>1, AlwaysSound, PTL

-----------------------------------------------------------------------------
(* Capacity: only an opening occupies a slot, and it counts before it does *)

LEMMA EnqueueKeepsSt ==
  ASSUME NEW r \in ClientStates, NEW m
  PROVE  Enqueue(r, m).st = r.st
<1>1. ASSUME NEW o, NEW s
      PROVE  [r EXCEPT !.out = o, !.snd = s].st = r.st
  BY Zenon DEF ClientStates
<1>. QED BY <1>1, Zenon DEF Enqueue

LEMMA ScheduleKeepsSt ==
  ASSUME NEW r \in ClientStates
  PROVE  Schedule(r).st = r.st
<1>1. [r EXCEPT !.timer = TRUE].st = r.st /\ [r EXCEPT !.sched = TRUE].st = r.st
  BY Zenon DEF ClientStates
<1>. QED BY <1>1, Zenon DEF Schedule

LEMMA FaultKeepsSt ==
  ASSUME NEW r \in ClientStates, NEW reason \in Reasons, NEW cause \in Causes
  PROVE  Fault(r, reason, cause).st = r.st
<1> DEFINE kept == IF reason # "source-closed" THEN r.displaced
                   ELSE IF r.flight = None THEN None ELSE r.flight.env
           cleared == [r EXCEPT !.enc = None, !.out = <<>>, !.flight = None,
                                !.displaced = kept]
           m == FaultMsg(reason, cause)
<1>1. cleared.st = r.st /\ [cleared EXCEPT !.oob = m].st = r.st
  BY Zenon DEF ClientStates
<1>2. cleared \in ClientStates
  BY FaultClearedType
<1> HIDE DEF cleared, m
<1>3. Enqueue(cleared, m) \in ClientStates /\ Enqueue(cleared, m).st = r.st
  BY <1>1, <1>2, FaultMsgType, EnqueueType, EnqueueKeepsSt, Zenon DEF m
<1>4. [Enqueue(cleared, m) EXCEPT !.retire = TRUE].st = r.st
  BY <1>3, Zenon DEF ClientStates
<1>. QED BY <1>1, <1>4, Zenon DEF Fault, cleared, m

LEMMA ResetClientKeepsSt ==
  ASSUME NEW r \in ClientStates
  PROVE  ResetClient(r).st = r.st
<1> DEFINE cleared == [r EXCEPT !.enc = None, !.out = <<>>, !.flight = None]
           m == FaultMsg("source-closed", "restarted")
<1>1. cleared \in ClientStates /\ cleared.st = r.st
  <2>1. <<>> \in Seq(Messages)
    BY SMT
  <2>2. ASSUME NEW o \in Seq(Messages)
        PROVE  /\ [r EXCEPT !.enc = None, !.out = o, !.flight = None] \in ClientStates
               /\ [r EXCEPT !.enc = None, !.out = o, !.flight = None].st = r.st
    BY Zenon DEF ClientStates
  <2>. QED BY <2>1, <2>2, Zenon
<1>2. m \in Messages
  BY FaultMsgType, Zenon DEF Reasons, Causes
<1> HIDE DEF cleared, m
<1>3. Enqueue(cleared, m) \in ClientStates /\ Enqueue(cleared, m).st = r.st
  BY <1>1, <1>2, EnqueueType, EnqueueKeepsSt, Zenon
<1>4. [Enqueue(cleared, m) EXCEPT !.retire = TRUE].st = r.st
  BY <1>3, Zenon DEF ClientStates
<1>. QED BY <1>4, Zenon DEF ResetClient, cleared, m

LEMMA SentKeepsSt ==
  ASSUME NEW r \in ClientStates
  PROVE  Sent(r).st = r.st
<1>1. ASSUME NEW o, NEW s
      PROVE  [r EXCEPT !.out = o, !.snd = s].st = r.st
  BY Zenon DEF ClientStates
<1>2. ASSUME NEW f
      PROVE  [r EXCEPT !.flight = f, !.snd = "waiting"].st = r.st
  BY Zenon DEF ClientStates
<1>3. [r EXCEPT !.flight.next = @ + 1, !.snd = "waiting"]
        = [r EXCEPT !.flight = [r.flight EXCEPT !.next = @ + 1], !.snd = "waiting"]
  BY Zenon DEF ClientStates
<1>. QED BY <1>1, <1>2, <1>3, Zenon DEF Sent

LEMMA StartFlightKeepsSt ==
  ASSUME NEW r \in ClientStates, NEW v \in Nat, NEW frame \in Frames,
         NEW n \in ChunkCounts, pane \in Panes
  PROVE  StartFlight(r, v, frame, n).st = r.st
<1> DEFINE e == Envelope(r, v, frame, n)
           s == [r EXCEPT !.flight = [env |-> e, next |-> 0], !.txn = @ + 1]
<1>1. s \in ClientStates
  BY StartedType
<1>2. s.st = r.st
  BY Zenon DEF ClientStates
<1> HIDE DEF s
<1>. QED BY <1>1, <1>2, EnqueueKeepsSt, Zenon DEF StartFlight, s

LEMMA UnrepresentableKeepsSt ==
  ASSUME NEW r \in ClientStates, NEW t \in Unrepresentable(r)
  PROVE  t.st = r.st
<1>1. PICK reason \in Reasons : t = Fault(r, reason, "representation")
  BY Zenon DEF Unrepresentable, Reasons
<1>2. Fault(r, reason, "representation").st = r.st
  BY FaultKeepsSt, Zenon DEF Causes
<1>. QED BY <1>1, <1>2

LEMMA DeliverKeepsSt ==
  ASSUME NEW r \in ClientStates, pane \in Panes, NEW next \in Deliver(r)
  PROVE  next.st = r.st
<1>1. CASE next = r
  BY <1>1
<1>2. CASE next # r
  <2>1. pane.cur \in Nat
    <3>1. pane.cur \in Revs
      BY Zenon DEF Panes
    <3>2. pane.cur # Null
      BY <1>2, SMT DEF Deliver
    <3>. QED BY <3>1, <3>2, Zenon DEF Revs
  <2>2. next \in DeliveredTo(r)
    BY <1>2, DeliverCases
  <2>3. Fault(r, "protocol-violation", "seed-of-tombstone").st = r.st
    BY FaultKeepsSt, Zenon DEF Reasons, Causes
  <2>4. \A t \in Unrepresentable(r) : t.st = r.st
    BY UnrepresentableKeepsSt
  <2>5. StartEncoding(r).st = r.st
    <3>1. Fault(r, "state-too-large", "encodings").st = r.st
      BY FaultKeepsSt, Zenon DEF Reasons, Causes
    <3>2. ASSUME NEW x
          PROVE  [r EXCEPT !.enc = x].st = r.st
      BY Zenon DEF ClientStates
    <3>. QED BY <3>1, <3>2, Zenon DEF StartEncoding
  <2>6. \A f \in Frames, n \in ChunkCounts : StartFlight(r, pane.cur, f, n).st = r.st
    BY <2>1, StartFlightKeepsSt
  <2>. QED BY <2>2, <2>3, <2>4, <2>5, <2>6, SMT DEF DeliveredTo
<1>. QED BY <1>1, <1>2

LEMMA PublishedKeepsSt ==
  ASSUME NEW r \in ClientStates, NEW u \in Updates
  PROVE  Published(r, u).st = r.st
<1>1. u.rev \in Revs
  BY Zenon DEF Updates, Revs
<1>2. Fault(r, "source-closed", "tombstone").st = r.st
  BY FaultKeepsSt, Zenon DEF Reasons, Causes
<1>3. Schedule([r EXCEPT !.latest = u.rev, !.enc = None]).st = r.st
  <2>1. /\ [r EXCEPT !.latest = u.rev, !.enc = None] \in ClientStates
        /\ [r EXCEPT !.latest = u.rev, !.enc = None].st = r.st
    BY <1>1, Zenon DEF ClientStates
  <2>. QED BY <2>1, ScheduleKeepsSt, Zenon
<1>4. Schedule([r EXCEPT !.latest = u.rev]).st = r.st
  <2>1. /\ [r EXCEPT !.latest = u.rev] \in ClientStates
        /\ [r EXCEPT !.latest = u.rev].st = r.st
    BY <1>1, Zenon DEF ClientStates
  <2>. QED BY <2>1, ScheduleKeepsSt, Zenon
<1>. QED BY <1>2, <1>3, <1>4, Zenon DEF Published

LEMMA EncodedKeepsSt ==
  ASSUME NEW r \in ClientStates, r.enc # None, NEW ok, NEW next \in Encoded(r, ok),
         pane \in Panes
  PROVE  next.st = r.st
<1> DEFINE idle == [r EXCEPT !.enc = None]
<1>1. idle \in ClientStates /\ idle.st = r.st
  BY Zenon DEF ClientStates
<1>2. r.enc.rev \in Nat
  <2>1. r.enc \in Encodings
    BY Zenon DEF ClientStates
  <2>. QED BY <2>1, Zenon DEF Encodings
<1> HIDE DEF idle
<1>3. \A f \in Frames, n \in ChunkCounts : StartFlight(idle, r.enc.rev, f, n).st = r.st
  BY <1>1, <1>2, StartFlightKeepsSt, Zenon
<1>4. \A t \in Unrepresentable(idle) : t.st = r.st
  BY <1>1, UnrepresentableKeepsSt, Zenon
<1>5. next \in EncodedTo(idle, r.enc.rev)
  BY EncodedCases DEF idle
<1>. QED BY <1>1, <1>3, <1>4, <1>5, SMT DEF EncodedTo

\* A step that takes no free slot.
NoNewClient == \A d \in Clients : hc[d].st = "idle" => hc'[d].st = "idle"

LEMMA RemovePaneFreesOnly ==
  ASSUME HubSound, NEW clients, \A d \in Clients : hc[d].st = "idle" => clients[d].st = "idle",
         RemovePane(clients)
  PROVE  NoNewClient
BY Zenon DEF NoNewClient, RemovePane, Abandoned

LEMMA CloseClientFreesOnly ==
  ASSUME HubSound, NEW c \in Clients, CloseClient(c)
  PROVE  NoNewClient
<1> DEFINE rest == [hc EXCEPT ![c] = IdleClient]
<1>1. \A d \in Clients : hc[d].st = "idle" => rest[d].st = "idle"
  BY Zenon DEF HubSound, HubTypeOK, IdleClient
<1>2. hc' = rest \/ RemovePane(rest)
  BY Zenon DEF CloseClient
<1> HIDE DEF rest
<1>. QED BY <1>1, <1>2, RemovePaneFreesOnly, Zenon DEF NoNewClient

\* A step that replaces the record of one client in service, or of one that
\* keeps its state.
LEMMA OneClientFreesOnly ==
  ASSUME HubSound, NEW c \in Clients, NEW r, hc' = [hc EXCEPT ![c] = r],
         r.st = hc[c].st \/ hc[c].st # "idle"
  PROVE  NoNewClient
BY Zenon DEF NoNewClient, HubSound, HubTypeOK

LEMMA AbortPaneFreesOnly ==
  ASSUME HubSound, NEW p, NEW reason \in Reasons, NEW cause \in Causes,
         AbortPane(p, reason, cause)
  PROVE  NoNewClient
BY FaultKeepsSt, Zenon DEF AbortPane, NoNewClient, HubSound, HubTypeOK

LEMMA FaultClientFreesOnly ==
  ASSUME HubSound, NEW c \in Clients, NEW reason \in Reasons, NEW cause \in Causes,
         FaultClient(c, reason, cause)
  PROVE  NoNewClient
BY FaultKeepsSt, OneClientFreesOnly, Zenon DEF FaultClient, HubSound, HubTypeOK

LEMMA ObserveCanonicalFreesOnly ==
  ASSUME HubSound, NEW u, ObserveCanonical(u)
  PROVE  NoNewClient
<1>1. hc' = hc \/ AbortPane(pane, "state-too-large", "pending-budget")
  BY Zenon DEF ObserveCanonical, hubVars
<1>. QED BY <1>1, AbortPaneFreesOnly, Zenon DEF NoNewClient, Reasons, Causes

LEMMA PublishCanonicalFreesOnly ==
  ASSUME HubSound, NEW u \in Updates, NEW p, PublishCanonical(u, p)
  PROVE  NoNewClient
BY PublishedKeepsSt, Zenon DEF PublishCanonical, NoNewClient, HubSound, HubTypeOK

LEMMA SourceInvalidFreesOnly ==
  ASSUME HubSound, NEW p, SourceInvalid(p)
  PROVE  NoNewClient
BY AbortPaneFreesOnly, Zenon DEF SourceInvalid, Reasons, Causes

LEMMA ResetFreesOnly ==
  ASSUME HubSound, ResetForSessionRestart
  PROVE  NoNewClient
<1>1. \A d \in Clients : hc[d].st = "idle" =>
                           [c \in Clients |-> ResetClient(hc[c])][d].st = "idle"
  BY ResetClientKeepsSt, Zenon DEF HubSound, HubTypeOK
<1>. QED BY <1>1, RemovePaneFreesOnly, Zenon DEF ResetForSessionRestart

LEMMA SourceFreesOnly ==
  ASSUME RtSound, SourceStep
  PROVE  NoNewClient
<1>1. HubSound
  BY Zenon DEF RtSound
<1>2. CASE SourceSeeds
  BY <1>2, Zenon DEF SourceSeeds, SubscribeSource, NoNewClient
<1>3. ASSUME NEW capture, SourceStartFails(capture)
      PROVE  NoNewClient
  BY <1>3, Zenon DEF SourceStartFails, NoNewClient, IdleClient
<1>4. CASE SourceStartFailure \/ StartCancelled
  BY <1>3, <1>4, Zenon DEF SourceStartFailure, StartCancelled
<1>5. CASE SourceEmits \/ SourceCloses \/ SourceDisposed
  BY <1>1, <1>5, ObserveCanonicalFreesOnly, Zenon
     DEF SourceEmits, SourceCloses, SourceDisposed, EndSource
<1>6. CASE SourceCaptureFails
  <2>1. ASSUME NEW r \in ClientStates
        PROVE  Fault([r EXCEPT !.gone = TRUE], "source-closed", "capture").st = r.st
    <3>1. [r EXCEPT !.gone = TRUE] \in ClientStates /\ [r EXCEPT !.gone = TRUE].st = r.st
      BY Zenon DEF ClientStates
    <3>. QED BY <3>1, FaultKeepsSt, Zenon DEF Reasons, Causes
  <2>. QED BY <1>1, <1>6, <2>1, Zenon
           DEF SourceCaptureFails, FailPaneCapture, NoNewClient, HubSound, HubTypeOK
<1>7. CASE ControlExits \/ HubCloses
  BY <1>1, <1>7, ResetFreesOnly, Zenon DEF ControlExits, HubCloses, CloseHub
<1>8. CASE RuntimeDisposes
  BY <1>1, <1>8, ObserveCanonicalFreesOnly, Zenon DEF RuntimeDisposes, hubVars, NoNewClient
<1>. QED BY <1>2, <1>4, <1>5, <1>6, <1>7, <1>8, Zenon DEF SourceStep

LEMMA HubStepFreesOnly ==
  ASSUME HubSound, HubStep \/ EncodingStep
  PROVE  NoNewClient
<1>1. CASE DrainStep
  <2>1. CASE pane.queue = <<>> \/ pane.aborted
    BY <1>1, <2>1, Zenon DEF DrainStep, NoNewClient
  <2>2. CASE pane.queue # <<>> /\ ~pane.aborted
    <3>1. Head(pane.queue) \in Updates
      <4>1. pane.queue \in Seq(Updates)
        BY Zenon DEF HubSound, SoundPanes, Panes
      <4>. QED BY <2>2, <4>1, SMT
    <3>. QED BY <1>1, <2>2, <3>1, PublishCanonicalFreesOnly, SourceInvalidFreesOnly, Zenon
             DEF DrainStep, NoNewClient
  <2>. QED BY <2>1, <2>2
<1>2. CASE FinishReduction
  <2>1. pane.held \in Updates
    BY <1>2, Zenon DEF FinishReduction, HubSound, SoundPanes, Panes
  <2>. QED BY <1>2, <2>1, PublishCanonicalFreesOnly, Zenon DEF FinishReduction, NoNewClient
<1>3. CASE ReductionFails
  BY <1>3, SourceInvalidFreesOnly, Zenon DEF ReductionFails
<1>4. CASE SourceReady
  <2>1. \A c \in Clients : hc[c].st = "idle" => hc'[c] \in {hc[c], Abandoned(hc[c], pane)}
    BY <1>4, Zenon DEF SourceReady, HubSound, HubTypeOK
  <2>. QED BY <2>1, Zenon DEF NoNewClient, Abandoned
<1>5. CASE CloseHubClients
  BY <1>5, Zenon DEF CloseHubClients, NoNewClient, IsOpen
<1>6. CASE ReapPane
  BY <1>6, RemovePaneFreesOnly, Zenon DEF ReapPane
<1>7. CASE EncodingStep
  <2>1. PICK v \in PendingJobs, ok \in BOOLEAN : CompleteEncoding(v, ok)
    BY <1>7, Zenon DEF EncodingStep
  <2>2. \A c \in Clients : hc'[c].st = hc[c].st
    BY <2>1, CompletedJob, EncodedKeepsSt, Zenon DEF HubSound, HubTypeOK
  <2>. QED BY <2>2, Zenon DEF NoNewClient
<1>. QED BY <1>1, <1>2, <1>3, <1>4, <1>5, <1>6, <1>7, Zenon DEF HubStep

LEMMA ClientStepFreesOnly ==
  ASSUME HubSound, NEW c \in Clients, DeliveryStep(c) \/ VisibilityStep(c) \/ PeerStep(c)
  PROVE  NoNewClient
<1>1. CASE OpenResume(c) \/ OpenRejects(c)
  <2>1. hc[c].st # "idle" /\ \E r : hc' = [hc EXCEPT ![c] = r]
    BY <1>1, Zenon DEF OpenResume, OpenRejects
  <2>. QED BY <2>1, OneClientFreesOnly, Zenon
<1>2. CASE DeliverMicrotask(c) \/ BackgroundTimer(c)
  <2>1. hc[c].st # "idle" /\ \E r : hc' = [hc EXCEPT ![c] = r]
    BY <1>2, Zenon DEF DeliverMicrotask, BackgroundTimer, IsOpen
  <2>. QED BY <2>1, OneClientFreesOnly, Zenon
<1>3. CASE IsOpen(c) /\ SenderTurn(c)
  <2>1. hc[c].st # "idle"
    BY <1>3, Zenon DEF IsOpen
  <2>2. CloseClient(c) \/ \E r : hc' = [hc EXCEPT ![c] = r]
    BY <1>3, Zenon DEF SenderTurn, HubSound, HubTypeOK
  <2>. QED BY <2>1, <2>2, CloseClientFreesOnly, OneClientFreesOnly, Zenon
<1>4. CASE OutOfBandSent(c) \/ SinkFailed(c) \/ CloseConnection(c)
  BY <1>4, CloseClientFreesOnly, Zenon DEF OutOfBandSent, SinkFailed, CloseConnection
<1>5. CASE VisibilityStep(c)
  <2>1. PICK v : SetVisibility(c, v)
    BY <1>5, Zenon DEF VisibilityStep
  <2> DEFINE seen == [hc EXCEPT ![c].vis = v,
                                ![c].enc = IF v = "hidden" THEN None ELSE @]
  <2>2. IsOpen(c) /\ hc' = [seen EXCEPT ![c] = Schedule(@)]
    BY <2>1, Zenon DEF SetVisibility
  <2>. QED BY <2>2, Zenon DEF NoNewClient, IsOpen, HubSound, HubTypeOK
<1>6. CASE PeerReads(c)
  BY <1>6, Zenon DEF PeerReads, NoNewClient
<1>7. CASE PeerAnswers(c)
  <2>1. ASSUME NEW r, NEW s, IsOpen(c), hc' = [[hc EXCEPT ![c] = r] EXCEPT ![c] = s]
        PROVE  NoNewClient
    BY <2>1, Zenon DEF NoNewClient, IsOpen, HubSound, HubTypeOK
  <2>2. ASSUME NEW a \in PeerAcks, Ack(c, a)
        PROVE  NoNewClient
    <3>1. IsOpen(c) /\ (\/ hc' = hc
                        \/ \E r, s : hc' = [[hc EXCEPT ![c] = r] EXCEPT ![c] = s]
                        \/ \E cause \in Causes : FaultClient(c, "protocol-violation", cause))
      BY <2>2, Zenon DEF Ack, hubVars, Causes
    <3>. QED BY <2>1, <3>1, FaultClientFreesOnly, Zenon DEF NoNewClient, Reasons
  <2>3. ASSUME NEW n \in PeerNacks, Nack(c, n)
        PROVE  NoNewClient
    <3> DEFINE dropped == [hc EXCEPT ![c].reseed = TRUE, ![c].flight = None]
    <3>1. CASE hc' = [dropped EXCEPT ![c] = Schedule(@)]
      BY <2>3, <3>1, Zenon DEF Nack, NoNewClient, IsOpen, HubSound, HubTypeOK
    <3>2. CASE FaultClient(c, "protocol-violation", "nack-mismatch")
      BY <3>2, FaultClientFreesOnly, Zenon DEF Reasons, Causes
    <3>3. CASE hc' = hc
      BY <3>3, Zenon DEF NoNewClient
    <3>. QED BY <2>3, <3>1, <3>2, <3>3, Zenon DEF Nack, hubVars
  <2>. QED BY <1>7, <2>2, <2>3, Zenon DEF PeerAnswers
<1>. QED BY <1>1, <1>2, <1>3, <1>4, <1>5, <1>6, <1>7, Zenon
         DEF DeliveryStep, MicrotaskStep, CreditStep, TimerStep, SenderMicrotask,
             SinkAccepted, PeerStep

\* A step that takes no free slot cannot exceed the limit.
LEMMA FreeingKeepsCapacity ==
  ASSUME CapacityHeld, NoNewClient
  PROVE  CapacityHeld'
<1> DEFINE Occupied == {c \in Clients : hc[c].st # "idle"}
<1>1. Occupied' \subseteq Occupied
  BY Zenon DEF NoNewClient
<1>2. IsFiniteSet(Occupied)
  BY BoundsAssumption, FS_Subset, Zenon
<1>3. IsFiniteSet(Occupied') /\ Cardinality(Occupied') <= Cardinality(Occupied)
  BY <1>1, <1>2, FS_Subset
<1>4. Cardinality(Occupied) \in Nat /\ Cardinality(Occupied') \in Nat
  BY <1>2, <1>3, FS_CardinalityType
<1>5. Cardinality(Occupied) <= MaxClients
  BY Zenon DEF CapacityHeld
<1> HIDE DEF Occupied
<1>6. Cardinality(Occupied') <= MaxClients
  BY <1>3, <1>4, <1>5, BoundsAssumption, SMT
<1>. QED BY <1>6, Zenon DEF CapacityHeld, Occupied

\* An opening takes one slot, after it has counted those taken.
LEMMA OpenKeepsCapacity ==
  ASSUME HubSound, NEW c \in Clients, Open(c)
  PROVE  CapacityHeld'
<1> DEFINE Occupied == {d \in Clients : hc[d].st # "idle"}
<1>1. Occupied' = Occupied \cup {c}
  BY Zenon DEF Open, HubSound, HubTypeOK, ClientStates
<1>2. c \notin Occupied
  BY Zenon DEF Open
<1>3. IsFiniteSet(Occupied)
  BY BoundsAssumption, FS_Subset, Zenon
<1>4. Cardinality(Occupied) \in Nat
  BY <1>3, FS_CardinalityType
<1>5. Cardinality(Occupied) < MaxClients
  BY Zenon DEF Open
<1> HIDE DEF Occupied
<1>6. Cardinality(Occupied') = Cardinality(Occupied) + 1
  BY <1>1, <1>2, <1>3, FS_AddElement
<1>7. Cardinality(Occupied') <= MaxClients
  BY <1>4, <1>5, <1>6, BoundsAssumption, SMT
<1>. QED BY <1>7, Zenon DEF CapacityHeld, Occupied

LEMMA InitCapacity == RtInit => CapacityHeld
<1> SUFFICES ASSUME RtInit PROVE CapacityHeld
  OBVIOUS
<1>1. {c \in Clients : hc[c].st # "idle"} = {}
  BY Zenon DEF RtInit, HubInit, IdleClient
<1>2. Cardinality({}) = 0
  BY FS_EmptySet
<1>3. 0 <= MaxClients
  BY BoundsAssumption, SMT
<1>. QED BY <1>1, <1>2, <1>3, Zenon DEF CapacityHeld

LEMMA NextCapacity == RtSound /\ CapacityHeld /\ [RtNext]_rtVars => CapacityHeld'
<1> SUFFICES ASSUME RtSound, CapacityHeld, [RtNext]_rtVars PROVE CapacityHeld'
  OBVIOUS
<1>1. HubSound
  BY Zenon DEF RtSound
<1>2. CASE UNCHANGED rtVars
  <2>1. NoNewClient
    BY <1>2, Zenon DEF rtVars, hubVars, NoNewClient
  <2>. QED BY <2>1, FreeingKeepsCapacity
<1>3. CASE SourceStep
  BY <1>3, SourceFreesOnly, FreeingKeepsCapacity
<1>4. CASE HubStep \/ EncodingStep
  BY <1>1, <1>4, HubStepFreesOnly, FreeingKeepsCapacity
<1>5. ASSUME NEW c \in Clients, OpenDelivery(c)
      PROVE  CapacityHeld'
  BY <1>1, <1>5, OpenKeepsCapacity, Zenon DEF OpenDelivery
<1>6. ASSUME NEW c \in Clients, DeliveryStep(c) \/ VisibilityStep(c) \/ PeerStep(c)
      PROVE  CapacityHeld'
  BY <1>1, <1>6, ClientStepFreesOnly, FreeingKeepsCapacity
<1>. QED BY <1>2, <1>3, <1>4, <1>5, <1>6, Zenon DEF RtNext

\* MAX_CLIENTS is never exceeded, however openings, failures, restarts and
\* closures interleave with the waits of the openings under way.
THEOREM CapacityTheorem == RtSpec => []CapacityHeld
BY InitCapacity, NextCapacity, AlwaysSound, PTL DEF RtSpec

-----------------------------------------------------------------------------
(* Baselines: pruning never takes one that a patch may need, for any number of  *)
(* clients that share a pane, any peers and any life of the pane's source.      *)
(*                                                                              *)
(* The argument is about debts.  A client in service owes the revisions the hub *)
(* must still have for it: its acknowledged baseline, the revision of its       *)
(* flight and that of its encoding, each with its incarnation.  Hardly any step *)
(* creates a debt, and the one that does owes the current revision.  A debt of  *)
(* the pane's incarnation is a retained revision; what is left is that no debt  *)
(* is ever of a later incarnation, which follows from incarnations growing from *)
(* client to pane to queue to source.                                           *)

-----------------------------------------------------------------------------
(* Debts, and what the hub's private methods do to them *)

Owes(r, i, v) ==
  /\ r.st = "open" /\ ~r.retire
  /\ \/ r.lastAck # None /\ ~r.reseed /\ i = r.lastAck.inc /\ v = r.base
     \/ r.flight # None /\ i = r.flight.env.inc /\ v = r.flight.env.rev
     \/ r.enc # None /\ i = r.enc.inc /\ v = r.enc.rev

\* An opening whose pane has started.
Joining(r) == r.st \in {"resuming", "orphaned"}

\* The client's retirement is final, and it is no new client.
Continues(s, r) ==
  /\ s.st = "open" => r.st = "open" /\ (r.retire => s.retire)
  /\ Joining(s) => Joining(r)

\* s, the client after a step, owes no more than before.
Calm(s, r) == Continues(s, r) /\ \A i, v : Owes(s, i, v) => Owes(r, i, v)

\* ... or than before and the current revision.
Presents(s, r) ==
  /\ Continues(s, r)
  /\ \A i, v : Owes(s, i, v) =>
       Owes(r, i, v) \/ (pane.cur # Null /\ i = pane.inc /\ v = pane.cur)

\* ... or than before and revision v of the pane's incarnation.
Carries(s, r, v) ==
  /\ Continues(s, r)
  /\ \A i, w : Owes(s, i, w) =>
       Owes(r, i, w) \/ (~r.retire /\ r.st = "open" /\ i = pane.inc /\ w = v)

LEMMA CalmReflexive == \A r : Calm(r, r)
BY Zenon DEF Calm, Continues

LEMMA CalmTransitive ==
  ASSUME NEW r, NEW s, NEW t, Calm(s, r), Calm(t, s)
  PROVE  Calm(t, r)
BY Zenon DEF Calm, Continues

LEMMA CalmPresents ==
  ASSUME NEW r, NEW s, Calm(s, r)
  PROVE  Presents(s, r)
BY Zenon DEF Calm, Presents

LEMMA PresentsCalm ==
  ASSUME NEW r, NEW s, NEW t, Calm(s, r), Presents(t, s)
  PROVE  Presents(t, r)
BY Zenon DEF Calm, Presents, Continues

LEMMA CarriesPresents ==
  ASSUME NEW r, NEW s, pane.cur # Null, Carries(s, r, pane.cur)
  PROVE  Presents(s, r)
<1>1. ASSUME NEW i, NEW v, Owes(s, i, v)
      PROVE  Owes(r, i, v) \/ (i = pane.inc /\ v = pane.cur)
  BY <1>1, SMT DEF Carries
<1>2. Continues(s, r)
  BY Zenon DEF Carries
<1>3. \A i, v : Owes(s, i, v) => Owes(r, i, v) \/ (pane.cur # Null /\ i = pane.inc /\ v = pane.cur)
  BY <1>1, Zenon
<1>. QED BY <1>2, <1>3, Zenon DEF Presents

LEMMA OwesType ==
  ASSUME NEW r \in ClientStates, NEW i, NEW v, Owes(r, i, v)
  PROVE  i \in Nat /\ v \in Revs
<1>1. /\ r.lastAck \in Acks \cup {None} /\ r.flight \in Flights \cup {None}
      /\ r.enc \in Encodings \cup {None} /\ r.base \in Revs
  BY Zenon DEF ClientStates
<1>2. r.lastAck # None => r.lastAck.inc \in Nat
  BY <1>1, Zenon DEF Acks
<1>3. r.flight # None => r.flight.env.inc \in Nat /\ r.flight.env.rev \in Revs
  <2>1. r.flight # None => r.flight.env \in Envelopes
    BY <1>1, Zenon DEF Flights
  <2>. QED BY <2>1, Zenon DEF Envelopes, Revs
<1>4. r.enc # None => r.enc.inc \in Nat /\ r.enc.rev \in Revs
  BY <1>1, Zenon DEF Encodings, Revs
<1>. QED BY <1>1, <1>2, <1>3, <1>4, Zenon DEF Owes

\* The fields that debts are made of, unchanged.
LEMMA SameDebts ==
  ASSUME NEW r, NEW s, s.st = r.st, s.retire = r.retire, s.lastAck = r.lastAck,
         s.reseed = r.reseed, s.base = r.base, s.flight = r.flight, s.enc = r.enc
  PROVE  Calm(s, r)
BY Zenon DEF Calm, Continues, Joining, Owes

LEMMA ScheduleCalm ==
  ASSUME NEW r \in ClientStates
  PROVE  Calm(Schedule(r), r)
<1>1. Calm([r EXCEPT !.timer = TRUE], r)
  <2> DEFINE s == [r EXCEPT !.timer = TRUE]
  <2>1. /\ s.st = r.st /\ s.retire = r.retire /\ s.lastAck = r.lastAck
        /\ s.reseed = r.reseed /\ s.base = r.base /\ s.flight = r.flight /\ s.enc = r.enc
    BY Zenon DEF ClientStates
  <2> HIDE DEF s
  <2>2. Calm(s, r)
    BY <2>1, SameDebts
  <2>. QED BY <2>2 DEF s
<1>2. Calm([r EXCEPT !.sched = TRUE], r)
  <2> DEFINE s == [r EXCEPT !.sched = TRUE]
  <2>1. /\ s.st = r.st /\ s.retire = r.retire /\ s.lastAck = r.lastAck
        /\ s.reseed = r.reseed /\ s.base = r.base /\ s.flight = r.flight /\ s.enc = r.enc
    BY Zenon DEF ClientStates
  <2> HIDE DEF s
  <2>2. Calm(s, r)
    BY <2>1, SameDebts
  <2>. QED BY <2>2 DEF s
<1>. QED BY <1>1, <1>2, CalmReflexive, Zenon DEF Schedule

LEMMA EnqueueCalm ==
  ASSUME NEW r \in ClientStates, NEW m
  PROVE  Calm(Enqueue(r, m), r)
<1>1. ASSUME NEW o, NEW t
      PROVE  Calm([r EXCEPT !.out = o, !.snd = t], r)
  <2> DEFINE s == [r EXCEPT !.out = o, !.snd = t]
  <2>1. /\ s.st = r.st /\ s.retire = r.retire /\ s.lastAck = r.lastAck
        /\ s.reseed = r.reseed /\ s.base = r.base /\ s.flight = r.flight /\ s.enc = r.enc
    BY Zenon DEF ClientStates
  <2> HIDE DEF s
  <2>2. Calm(s, r)
    BY <2>1, SameDebts
  <2>. QED BY <2>2 DEF s
<1>. QED BY <1>1, CalmReflexive, Zenon DEF Enqueue

\* Whoever is told to retire owes nothing.
LEMMA RetiredCalm ==
  ASSUME NEW r \in ClientStates, NEW s \in ClientStates, s.st = r.st
  PROVE  /\ Calm([s EXCEPT !.retire = TRUE], r)
         /\ [s EXCEPT !.retire = TRUE].retire
<1>1. [s EXCEPT !.retire = TRUE].retire /\ [s EXCEPT !.retire = TRUE].st = r.st
  BY Zenon DEF ClientStates
<1>. QED BY <1>1, Zenon DEF Calm, Continues, Joining, Owes

\* A fault that does not overtake the sender retires its client.
LEMMA FaultCalm ==
  ASSUME NEW r \in ClientStates, NEW reason \in Reasons, NEW cause \in Causes
  PROVE  /\ Calm(Fault(r, reason, cause), r)
         /\ reason # "source-closed" => Fault(r, reason, cause).retire
<1> DEFINE kept == IF reason # "source-closed" THEN r.displaced
                   ELSE IF r.flight = None THEN None ELSE r.flight.env
           cleared == [r EXCEPT !.enc = None, !.out = <<>>, !.flight = None,
                                !.displaced = kept]
           m == FaultMsg(reason, cause)
           s == [cleared EXCEPT !.oob = m]
<1>1. cleared.st = r.st
  BY Zenon DEF ClientStates
<1>2. cleared \in ClientStates
  BY FaultClearedType
<1>3. /\ s.st = r.st /\ s.retire = r.retire /\ s.lastAck = r.lastAck
      /\ s.reseed = r.reseed /\ s.base = r.base /\ s.flight = None /\ s.enc = None
  BY Zenon DEF ClientStates
<1>4. Calm(s, r)
  <2> HIDE DEF s
  <2>. QED BY <1>3, Zenon DEF Calm, Continues, Joining, Owes
<1> HIDE DEF cleared, m
<1>5. Enqueue(cleared, m) \in ClientStates /\ Enqueue(cleared, m).st = r.st
  BY <1>1, <1>2, FaultMsgType, EnqueueType, EnqueueKeepsSt, Zenon DEF m
<1>6. /\ Calm([Enqueue(cleared, m) EXCEPT !.retire = TRUE], r)
      /\ [Enqueue(cleared, m) EXCEPT !.retire = TRUE].retire
  BY <1>5, RetiredCalm
<1>. QED BY <1>4, <1>6, Zenon DEF Fault, cleared, m

LEMMA ResetClientCalm ==
  ASSUME NEW r \in ClientStates
  PROVE  Calm(ResetClient(r), r) /\ (r.st = "open" => ResetClient(r).retire)
<1> DEFINE cleared == [r EXCEPT !.enc = None, !.out = <<>>, !.flight = None]
           m == FaultMsg("source-closed", "restarted")
<1>1. cleared \in ClientStates /\ cleared.st = r.st
  <2>1. <<>> \in Seq(Messages)
    BY SMT
  <2>2. ASSUME NEW o \in Seq(Messages)
        PROVE  /\ [r EXCEPT !.enc = None, !.out = o, !.flight = None] \in ClientStates
               /\ [r EXCEPT !.enc = None, !.out = o, !.flight = None].st = r.st
    BY Zenon DEF ClientStates
  <2>. QED BY <2>1, <2>2, Zenon
<1>2. m \in Messages
  BY FaultMsgType, Zenon DEF Reasons, Causes
<1> HIDE DEF cleared, m
<1>3. Enqueue(cleared, m) \in ClientStates /\ Enqueue(cleared, m).st = r.st
  BY <1>1, <1>2, EnqueueType, EnqueueKeepsSt, Zenon
<1>4. /\ Calm([Enqueue(cleared, m) EXCEPT !.retire = TRUE], r)
      /\ [Enqueue(cleared, m) EXCEPT !.retire = TRUE].retire
  BY <1>3, RetiredCalm
<1>. QED BY <1>4, CalmReflexive, Zenon DEF ResetClient, cleared, m

LEMMA SentCalm ==
  ASSUME NEW r \in ClientStates, HasNext(r)
  PROVE  Calm(Sent(r), r)
<1>1. ASSUME NEW o, NEW t
      PROVE  Calm([r EXCEPT !.out = o, !.snd = t], r)
  <2> DEFINE s == [r EXCEPT !.out = o, !.snd = t]
  <2>1. /\ s.st = r.st /\ s.retire = r.retire /\ s.lastAck = r.lastAck
        /\ s.reseed = r.reseed /\ s.base = r.base /\ s.flight = r.flight /\ s.enc = r.enc
    BY Zenon DEF ClientStates
  <2> HIDE DEF s
  <2>2. Calm(s, r)
    BY <2>1, SameDebts
  <2>. QED BY <2>2 DEF s
<1>2. CASE r.out # <<>>
  BY <1>1, <1>2, Zenon DEF Sent
<1>3. CASE r.out = <<>>
  <2>1. r.flight \in Flights /\ r.flight # None
    <3>1. r.flight \in Flights \cup {None} /\ r.flight # None
      BY <1>3, Zenon DEF HasNext, ClientStates
    <3>. QED BY <3>1
  <2> DEFINE f == [r.flight EXCEPT !.next = r.flight.next + 1]
             s == [r EXCEPT !.flight = f, !.snd = "waiting"]
  <2>2. f.env = r.flight.env
    BY <2>1, Zenon DEF Flights
  <2>3. /\ s.st = r.st /\ s.retire = r.retire /\ s.lastAck = r.lastAck
        /\ s.reseed = r.reseed /\ s.base = r.base /\ s.flight = f /\ s.enc = r.enc
    BY Zenon DEF ClientStates
  <2>4. Sent(r) = s
    BY <1>3, Zenon DEF Sent
  <2> HIDE DEF s, f
  <2>. QED BY <2>1, <2>2, <2>3, <2>4, Zenon DEF Calm, Continues, Joining, Owes
<1>. QED BY <1>2, <1>3

\* A flight replaces the last one, and owes the pane's revision it carries.
LEMMA StartFlightCarries ==
  ASSUME NEW r \in ClientStates, NEW v \in Nat, NEW frame \in Frames,
         NEW n \in ChunkCounts, pane \in Panes
  PROVE  Carries(StartFlight(r, v, frame, n), r, v)
<1> DEFINE e == Envelope(r, v, frame, n)
           f == [env |-> e, next |-> 0]
           s == [r EXCEPT !.flight = f, !.txn = @ + 1]
<1>1. s \in ClientStates
  BY StartedType
<1>2. /\ s.st = r.st /\ s.retire = r.retire /\ s.lastAck = r.lastAck
      /\ s.reseed = r.reseed /\ s.base = r.base /\ s.flight = f /\ s.enc = r.enc
  BY Zenon DEF ClientStates
<1>3. f.env = e
  OBVIOUS
<1>4. e.inc = pane.inc /\ e.rev = v
  BY Zenon DEF Envelope
<1> HIDE DEF e, f, s
<1>5. Carries(s, r, v)
  BY <1>2, <1>3, <1>4, Zenon DEF Carries, Continues, Joining, Owes
<1>6. Calm(Enqueue(s, e), s)
  BY <1>1, EnqueueCalm
<1>7. StartFlight(r, v, frame, n) = Enqueue(s, e)
  BY Zenon DEF StartFlight, s, f, e
<1>. QED BY <1>5, <1>6, <1>7, Zenon DEF Carries, Calm, Continues

LEMMA StartEncodingPresents ==
  ASSUME NEW r \in ClientStates, pane.cur # Null
  PROVE  Presents(StartEncoding(r), r)
<1> DEFINE x == [rev |-> pane.cur, inc |-> pane.inc, base |-> r.base,
                 reseed |-> r.reseed]
           s == [r EXCEPT !.enc = x]
<1>1. /\ s.st = r.st /\ s.retire = r.retire /\ s.lastAck = r.lastAck
      /\ s.reseed = r.reseed /\ s.base = r.base /\ s.flight = r.flight /\ s.enc = x
  BY Zenon DEF ClientStates
<1>2. x.inc = pane.inc /\ x.rev = pane.cur
  OBVIOUS
<1> HIDE DEF s, x
<1>3. Presents(s, r)
  BY <1>1, <1>2, Zenon DEF Presents, Continues, Joining, Owes
<1>4. Presents(Fault(r, "state-too-large", "encodings"), r)
  BY FaultCalm, CalmPresents, Zenon DEF Reasons, Causes
<1>. QED BY <1>3, <1>4, Zenon DEF StartEncoding, s, x

LEMMA DeliverPresents ==
  ASSUME NEW r \in ClientStates, pane \in Panes, NEW next \in Deliver(r)
  PROVE  Presents(next, r)
<1>1. CASE next = r
  BY <1>1, CalmReflexive, CalmPresents
<1>2. CASE next # r
  <2>1. pane.cur \in Nat /\ pane.cur # Null
    <3>1. pane.cur \in Revs
      BY Zenon DEF Panes
    <3>2. pane.cur # Null
      BY <1>2, SMT DEF Deliver
    <3>. QED BY <3>1, <3>2, Zenon DEF Revs
  <2>2. next \in DeliveredTo(r)
    BY <1>2, DeliverCases
  <2>3. Presents(Fault(r, "protocol-violation", "seed-of-tombstone"), r)
    BY FaultCalm, CalmPresents, Zenon DEF Reasons, Causes
  <2>4. \A t \in Unrepresentable(r) : Presents(t, r)
    BY FaultCalm, CalmPresents, Zenon DEF Unrepresentable, Reasons, Causes
  <2>5. Presents(StartEncoding(r), r)
    BY <2>1, StartEncodingPresents
  <2>6. \A f \in Frames, n \in ChunkCounts : Presents(StartFlight(r, pane.cur, f, n), r)
    <3>1. ASSUME NEW f \in Frames, NEW n \in ChunkCounts
          PROVE  Presents(StartFlight(r, pane.cur, f, n), r)
      <4>1. Carries(StartFlight(r, pane.cur, f, n), r, pane.cur)
        BY <2>1, StartFlightCarries
      <4>. QED BY <2>1, <4>1, CarriesPresents
    <3>. QED BY <3>1
  <2>. QED BY <2>2, <2>3, <2>4, <2>5, <2>6, SMT DEF DeliveredTo
<1>. QED BY <1>1, <1>2

\* An acknowledged flight becomes the baseline: the debt stays the same.
LEMMA AcknowledgedCalm ==
  ASSUME NEW r \in ClientStates, NEW a \in Acks, AckCompletes(r, a)
  PROVE  Calm(Acknowledged(r, a), r)
<1> DEFINE l == IF r.latest = a.rev THEN Null ELSE r.latest
           s == [r EXCEPT !.base = a.rev, !.reseed = FALSE, !.flight = None,
                          !.lastAck = a, !.latest = l]
<1>1. /\ s.st = r.st /\ s.retire = r.retire /\ s.lastAck = a
      /\ s.reseed = FALSE /\ s.base = a.rev /\ s.flight = None /\ s.enc = r.enc
  BY Zenon DEF ClientStates
<1>2. r.flight # None /\ a.inc = r.flight.env.inc /\ a.rev = r.flight.env.rev
  BY Zenon DEF AckCompletes, Identifies
<1>3. Acknowledged(r, a) = s
  BY Zenon DEF Acknowledged
<1> HIDE DEF s
<1>. QED BY <1>1, <1>2, <1>3, Zenon DEF Calm, Continues, Joining, Owes

LEMMA PublishedCalm ==
  ASSUME NEW r \in ClientStates, NEW u \in Updates
  PROVE  Calm(Published(r, u), r)
<1>1. u.rev \in Revs
  BY Zenon DEF Updates, Revs
<1>2. Calm(Fault(r, "source-closed", "tombstone"), r)
  BY FaultCalm, Zenon DEF Reasons, Causes
<1>3. Calm(Schedule([r EXCEPT !.latest = u.rev, !.enc = None]), r)
  <2> DEFINE s == [r EXCEPT !.latest = u.rev, !.enc = None]
  <2>1. /\ s \in ClientStates /\ s.st = r.st /\ s.retire = r.retire
        /\ s.lastAck = r.lastAck /\ s.reseed = r.reseed /\ s.base = r.base
        /\ s.flight = r.flight /\ s.enc = None
    BY <1>1, Zenon DEF ClientStates
  <2> HIDE DEF s
  <2>2. Calm(s, r)
    BY <2>1, Zenon DEF Calm, Continues, Joining, Owes
  <2>3. Calm(Schedule(s), r)
    BY <2>1, <2>2, ScheduleCalm, CalmTransitive
  <2>. QED BY <2>3 DEF s
<1>4. Calm(Schedule([r EXCEPT !.latest = u.rev]), r)
  <2> DEFINE s == [r EXCEPT !.latest = u.rev]
  <2>1. /\ s \in ClientStates /\ s.st = r.st /\ s.retire = r.retire
        /\ s.lastAck = r.lastAck /\ s.reseed = r.reseed /\ s.base = r.base
        /\ s.flight = r.flight /\ s.enc = r.enc
    BY <1>1, Zenon DEF ClientStates
  <2> HIDE DEF s
  <2>2. Calm(s, r)
    BY <2>1, SameDebts
  <2>3. Calm(Schedule(s), r)
    BY <2>1, <2>2, ScheduleCalm, CalmTransitive
  <2>. QED BY <2>3 DEF s
<1>. QED BY <1>2, <1>3, <1>4, CalmReflexive, Zenon DEF Published

\* The encoding's debt becomes the flight's.
LEMMA EncodedCalm ==
  ASSUME NEW r \in ClientStates, r.enc # None, NEW ok, NEW next \in Encoded(r, ok),
         pane \in Panes
  PROVE  Calm(next, r)
<1> DEFINE s == [r EXCEPT !.enc = None]
<1>1. /\ s \in ClientStates /\ s.st = r.st /\ s.retire = r.retire
      /\ s.lastAck = r.lastAck /\ s.reseed = r.reseed /\ s.base = r.base
      /\ s.flight = r.flight /\ s.enc = None
  BY Zenon DEF ClientStates
<1> HIDE DEF s
<1>2. Calm(s, r)
  BY <1>1, Zenon DEF Calm, Continues, Joining, Owes
<1>3. r.enc.rev \in Nat
  <2>1. r.enc \in Encodings
    BY Zenon DEF ClientStates
  <2>. QED BY <2>1, Zenon DEF Encodings
<1>4. CASE Superseded(r)
  <2>1. next = s
    BY <1>4, SMT DEF Encoded, s
  <2>. QED BY <1>2, <2>1
<1>5. ASSUME ~Superseded(r), NEW f \in Frames, NEW n \in ChunkCounts,
             next = StartFlight(s, r.enc.rev, f, n)
      PROVE  Calm(next, r)
  <2>1. pane.inc = r.enc.inc
    BY <1>5, Zenon DEF Superseded
  <2>2. Carries(next, s, r.enc.rev)
    BY <1>1, <1>3, <1>5, StartFlightCarries
  <2>3. ASSUME NEW i, NEW w, Owes(next, i, w)
        PROVE  Owes(r, i, w)
    <3>1. CASE Owes(s, i, w)
      BY <1>2, <3>1, Zenon DEF Calm
    <3>2. CASE ~s.retire /\ s.st = "open" /\ i = pane.inc /\ w = r.enc.rev
      BY <1>1, <2>1, <3>2, Zenon DEF Owes
    <3>. QED BY <2>2, <2>3, <3>1, <3>2, Zenon DEF Carries
  <2>. QED BY <1>2, <2>2, <2>3, Zenon DEF Calm, Carries, Continues
<1>6. CASE next \in Unrepresentable(s)
  <2>1. Calm(next, s)
    BY <1>1, <1>6, FaultCalm, Zenon DEF Unrepresentable, Reasons, Causes
  <2>. QED BY <1>2, <2>1, CalmTransitive, Zenon
<1>7. \/ next = s \/ next \in Unrepresentable(s)
      \/ \E f \in Frames, n \in ChunkCounts : next = StartFlight(s, r.enc.rev, f, n)
  BY EncodedCases, SMT DEF EncodedTo, s
<1>. QED BY <1>2, <1>4, <1>5, <1>6, <1>7, Zenon

\* A client that is not open, or has just opened, owes nothing.
LEMMA IdleOwesNothing ==
  \A r, i, v : r.st # "open" => ~Owes(r, i, v)
BY Zenon DEF Owes

LEMMA AbandonedCalm ==
  ASSUME NEW r \in ClientStates, NEW p
  PROVE  Calm(Abandoned(r, p), r)
<1> DEFINE s == [r EXCEPT !.st = "retired"]
           t == [r EXCEPT !.st = "orphaned", !.latest = p.cur]
<1>1. s.st = "retired" /\ t.st = "orphaned"
  BY Zenon DEF ClientStates
<1> HIDE DEF s, t
<1>2. Calm(s, r)
  BY <1>1, IdleOwesNothing, Zenon DEF Calm, Continues, Joining
<1>3. r.st = "resuming" => Calm(t, r)
  BY <1>1, IdleOwesNothing, Zenon DEF Calm, Continues, Joining
<1>. QED BY <1>2, <1>3, CalmReflexive, Zenon DEF Abandoned, s, t

-----------------------------------------------------------------------------
(* The pane *)

\* The updates a pane has still to publish.
Elements(q) == {q[i] : i \in 1..Len(q)}
Items(p) == Elements(p.queue) \cup ({p.held} \ {None})

LEMMA QueueElements ==
  /\ Elements(<<>>) = {}
  /\ \A q \in Seq(Updates), u \in Updates :
       Elements(Append(q, u)) \subseteq Elements(q) \cup {u}
  /\ \A q \in Seq(Updates) : q # <<>> =>
       /\ Head(q) \in Elements(q) /\ Head(q) \in Updates
       /\ Tail(q) \in Seq(Updates) /\ Elements(Tail(q)) \subseteq Elements(q)
<1>1. Elements(<<>>) = {}
  BY SMT DEF Elements
<1>2. ASSUME NEW q \in Seq(Updates), NEW u \in Updates
      PROVE  Elements(Append(q, u)) \subseteq Elements(q) \cup {u}
  BY SMT DEF Elements
<1>3. ASSUME NEW q \in Seq(Updates), q # <<>>
      PROVE  /\ Head(q) \in Elements(q) /\ Head(q) \in Updates
             /\ Tail(q) \in Seq(Updates) /\ Elements(Tail(q)) \subseteq Elements(q)
  BY <1>3, SMT DEF Elements
<1>. QED BY <1>1, <1>2, <1>3, Zenon

\* The shape of a pane's life.  A pane that has not been given its first seed
\* is empty; what waits in a pane continues what was published, and a pane
\* whose source lives follows that source's incarnation.
Empty(p) ==
  p.st \in {"none", "starting"} =>
    p.cur = Null /\ Items(p) = {} /\ p.drain = "idle" /\ ~p.tomb /\ ~p.aborted

OneIncarnation(p, s) ==
  \A u \in Items(p) :
    /\ p.cur # Null => u.inc = p.inc
    /\ \A w \in Items(p) : w.inc = u.inc
    /\ u.tomb => u.inc < s.inc

Follows(p, s) ==
  (p.st \in {"seeded", "live"} /\ ~p.aborted /\ s.st \in {"live", "disposing"}) =>
    /\ \A u \in Items(p) : u.inc = s.inc
    /\ p.cur # Null => p.inc = s.inc

Ended(p, s) == p.tomb => p.cur # Null /\ p.inc < s.inc

CurrentKept(p) == p.cur # Null => p.cur \in p.revs

Ordered(p, s) ==
  Empty(p) /\ OneIncarnation(p, s) /\ Follows(p, s) /\ Ended(p, s) /\ CurrentKept(p)

\* While a pane starts nobody joins it, and one that is given up before its
\* opening returns has retired everyone.
Openings(p, clients) ==
  /\ p.st \in {"starting", "seeded"} => \A c \in Clients : ~Joining(clients[c])
  /\ (p.st = "seeded" /\ p.aborted /\ ~p.tomb) =>
       \A c \in Clients : clients[c].st = "open" => clients[c].retire

\* No debt is of a later incarnation than the pane, and those of its own
\* incarnation are retained.  Before its first revision, all debts are older
\* than whatever is to come.
Debts(p, clients, s) ==
  \A c \in Clients : \A i, v : Owes(clients[c], i, v) =>
    IF p.cur = Null THEN i < s.inc /\ \A u \in Items(p) : i < u.inc
    ELSE i <= p.inc /\ (i = p.inc => v \in p.revs)

Solvent(p, clients, s) == Ordered(p, s) /\ Openings(p, clients) /\ Debts(p, clients, s)

BInv == RtSound /\ Solvent(pane, hc, src)

\* What BInv says of the types it is made of.
LEMMA BInvTypes ==
  ASSUME BInv
  PROVE  /\ pane \in Panes /\ pane \in SoundPanes
         /\ hc \in [Clients -> ClientStates]
         /\ \A c \in Clients : hc[c] \in ClientStates
         /\ src \in Sources /\ src.inc \in Nat
<1>1. hc \in [Clients -> ClientStates] /\ src \in Sources
  BY Zenon DEF BInv, RtSound, HubSound, HubTypeOK
<1>2. pane \in Panes /\ pane \in SoundPanes
  BY Zenon DEF BInv, RtSound, HubSound, HubTypeOK
<1>. QED BY <1>1, <1>2, Zenon DEF Sources

\* q is p with some revisions dropped, none of which a client owes.
SamePane(q, p) ==
  /\ q.st = p.st /\ q.inc = p.inc /\ q.cur = p.cur /\ q.tomb = p.tomb
  /\ q.queue = p.queue /\ q.drain = p.drain /\ q.held = p.held
  /\ q.aborted = p.aborted

Keeps(q, p, clients) ==
  /\ SamePane(q, p)
  /\ \A v \in p.revs :
       (v = p.cur \/ \E c \in Clients : Owes(clients[c], p.inc, v)) => v \in q.revs

LEMMA PruneKeeps ==
  ASSUME NEW p \in Panes, NEW clients
  PROVE  Keeps(Prune(p, clients), p, clients)
<1>1. ASSUME NEW c \in Clients, NEW v, Owes(clients[c], p.inc, v)
      PROVE  clients[c].st = "open" /\ v \in Needs(clients[c], p)
  BY <1>1, SMT DEF Owes, Needs
<1> DEFINE kept == {v \in p.revs : \/ v = p.cur
                       \/ \E c \in Clients : clients[c].st = "open"
                                               /\ v \in Needs(clients[c], p)}
           q == [p EXCEPT !.revs = kept]
<1>2. SamePane(q, p) /\ q.revs = kept
  BY Zenon DEF Panes, SamePane
<1>3. \A v \in p.revs :
        (v = p.cur \/ \E c \in Clients : Owes(clients[c], p.inc, v)) => v \in kept
  BY <1>1, Zenon
<1>4. Prune(p, clients) = q \/ Prune(p, clients) = p
  BY Zenon DEF Prune
<1> HIDE DEF q, kept
<1>5. Keeps(q, p, clients)
  BY <1>2, <1>3, Zenon DEF Keeps
<1>6. Keeps(p, p, clients)
  BY Zenon DEF Keeps, SamePane
<1>. QED BY <1>4, <1>5, <1>6, Zenon

LEMMA PruneCancelledKeeps ==
  ASSUME NEW p \in Panes
  PROVE  Keeps(PruneCancelled(p), p, hc')
<1>1. Keeps(p, p, hc')
  BY Zenon DEF Keeps, SamePane
<1>. QED BY <1>1, PruneKeeps, Zenon DEF PruneCancelled

\* What the pane and its debts depend on.
LEMMA KeptOrder ==
  ASSUME NEW p, NEW q, NEW clients, NEW s, Keeps(q, p, clients), Ordered(p, s)
  PROVE  Ordered(q, s)
<1>1. Items(q) = Items(p)
  BY Zenon DEF Items, Keeps, SamePane
<1>2. Empty(q) /\ OneIncarnation(q, s) /\ Follows(q, s) /\ Ended(q, s)
  BY <1>1, Zenon DEF Keeps, SamePane, Ordered, Empty, OneIncarnation, Follows, Ended
<1>3. CurrentKept(q)
  BY Zenon DEF Keeps, SamePane, Ordered, CurrentKept
<1>. QED BY <1>2, <1>3, Zenon DEF Ordered

LEMMA KeptDebts ==
  ASSUME NEW p, NEW q, NEW clients, NEW s, Keeps(q, p, clients), Debts(p, clients, s)
  PROVE  Debts(q, clients, s)
<1>1. Items(q) = Items(p)
  BY Zenon DEF Items, Keeps, SamePane
<1>. QED BY <1>1, Zenon DEF Keeps, SamePane, Debts

LEMMA CalmDebts ==
  ASSUME NEW p, NEW f, NEW g, NEW s, Debts(p, f, s),
         \A c \in Clients : Calm(g[c], f[c])
  PROVE  Debts(p, g, s)
BY Zenon DEF Debts, Calm

LEMMA PresentsDebts ==
  ASSUME NEW g, BInv, \A c \in Clients : Presents(g[c], hc[c])
  PROVE  Debts(pane, g, src)
<1> SUFFICES ASSUME NEW c \in Clients, NEW i, NEW v, Owes(g[c], i, v)
             PROVE  IF pane.cur = Null THEN i < src.inc /\ \A u \in Items(pane) : i < u.inc
                    ELSE i <= pane.inc /\ (i = pane.inc => v \in pane.revs)
  BY Zenon DEF Debts
<1>1. CASE Owes(hc[c], i, v)
  BY <1>1, Zenon DEF BInv, Solvent, Debts
<1>2. CASE pane.cur # Null /\ i = pane.inc /\ v = pane.cur
  <2>1. pane.inc \in Nat
    BY BInvTypes, Zenon DEF Panes
  <2>2. i <= pane.inc
    BY <1>2, <2>1, SMT
  <2>3. v \in pane.revs
    BY <1>2, Zenon DEF BInv, Solvent, Ordered, CurrentKept
  <2>. QED BY <1>2, <2>2, <2>3, Zenon
<1>. QED BY <1>1, <1>2, Zenon DEF Presents

LEMMA OpeningsKept ==
  ASSUME NEW p, NEW q, NEW f, NEW g, Openings(p, f),
         q.st = p.st, q.aborted = p.aborted, q.tomb = p.tomb,
         \A c \in Clients : Continues(g[c], f[c])
  PROVE  Openings(q, g)
BY Zenon DEF Openings, Continues

LEMMA ItemsType ==
  ASSUME NEW p \in Panes
  PROVE  \A u \in Items(p) : u \in Updates /\ u.inc \in Nat
<1>1. p.queue \in Seq(Updates) /\ p.held \in Updates \cup {None}
  BY Zenon DEF Panes
<1>2. \A i \in 1..Len(p.queue) : p.queue[i] \in Updates
  BY <1>1, SMT
<1>3. \A u \in Items(p) : u \in Updates
  BY <1>1, <1>2, Zenon DEF Items, Elements
<1>. QED BY <1>3, Zenon DEF Updates

\* A source that only moves on.
Lives(s) == s.st \in {"live", "disposing"}
Later(t, s) == s.inc <= t.inc /\ (Lives(t) => Lives(s) /\ t.inc = s.inc)

LEMMA LaterSolvent ==
  ASSUME NEW p \in Panes, NEW f \in [Clients -> ClientStates],
         NEW s \in Sources, NEW t \in Sources, Later(t, s), Solvent(p, f, s)
  PROVE  Solvent(p, f, t)
<1>1. s.inc \in Nat /\ t.inc \in Nat /\ s.inc <= t.inc
  BY Zenon DEF Sources, Later
<1>2. \A i \in Nat : i < s.inc => i < t.inc
  BY <1>1, SMT
<1>3. OneIncarnation(p, t)
  BY <1>2, ItemsType, Zenon DEF Solvent, Ordered, OneIncarnation
<1>4. Follows(p, t)
  BY Zenon DEF Solvent, Ordered, Follows, Later, Lives
<1>5. Ended(p, t)
  <2>1. p.inc \in Nat
    BY Zenon DEF Panes
  <2>. QED BY <1>2, <2>1, Zenon DEF Solvent, Ordered, Ended
<1>6. Debts(p, f, t)
  <2> SUFFICES ASSUME NEW c \in Clients, NEW i, NEW v, Owes(f[c], i, v)
               PROVE  IF p.cur = Null THEN i < t.inc /\ \A u \in Items(p) : i < u.inc
                      ELSE i <= p.inc /\ (i = p.inc => v \in p.revs)
    BY Zenon DEF Debts
  <2>1. i \in Nat
    BY OwesType, Zenon
  <2>2. IF p.cur = Null THEN i < s.inc /\ \A u \in Items(p) : i < u.inc
        ELSE i <= p.inc /\ (i = p.inc => v \in p.revs)
    BY Zenon DEF Solvent, Debts
  <2>. QED BY <1>2, <2>1, <2>2, Zenon
<1>. QED BY <1>3, <1>4, <1>5, <1>6, Zenon DEF Solvent, Ordered

-----------------------------------------------------------------------------
(* Steps that leave the pane's content alone *)

LEMMA QuietStep ==
  ASSUME BInv, Keeps(pane', pane, hc'),
         \A c \in Clients : Presents(hc'[c], hc[c])
  PROVE  Solvent(pane', hc', src)
<1>1. Ordered(pane', src)
  BY KeptOrder, Zenon DEF BInv, Solvent
<1>2. Openings(pane', hc')
  <2>1. pane'.st = pane.st /\ pane'.aborted = pane.aborted /\ pane'.tomb = pane.tomb
    BY Zenon DEF Keeps, SamePane
  <2>2. \A c \in Clients : Continues(hc'[c], hc[c])
    BY Zenon DEF Presents
  <2>. QED BY <2>1, <2>2, OpeningsKept, Zenon DEF BInv, Solvent
<1>3. Debts(pane, hc', src)
  BY PresentsDebts
<1>4. Debts(pane', hc', src)
  BY <1>3, KeptDebts
<1>. QED BY <1>1, <1>2, <1>4, Zenon DEF Solvent

\* One client steps, and the pane is pruned, possibly with an intermediate
\* state of the client that owes as much.
LEMMA ClientStep ==
  ASSUME BInv, NEW c \in Clients, NEW r, hc' = [hc EXCEPT ![c] = r],
         Presents(r, hc[c]), Keeps(pane', pane, hc')
  PROVE  Solvent(pane', hc', src)
<1>1. \A d \in Clients : Presents(hc'[d], hc[d])
  <2>1. \A d \in Clients : Presents(hc[d], hc[d])
    BY CalmReflexive, CalmPresents
  <2>2. \A d \in Clients : hc'[d] = IF d = c THEN r ELSE hc[d]
    BY BInvTypes, Zenon
  <2>. QED BY <2>1, <2>2, Zenon
<1>. QED BY <1>1, QuietStep

LEMMA FaultClientSolvent ==
  ASSUME BInv, NEW c \in Clients, NEW reason \in Reasons, NEW cause \in Causes,
         FaultClient(c, reason, cause)
  PROVE  Solvent(pane', hc', src)
<1>1. Presents(Fault(hc[c], reason, cause), hc[c])
  BY BInvTypes, FaultCalm, CalmPresents, Zenon
<1>2. hc' = [hc EXCEPT ![c] = Fault(hc[c], reason, cause)]
  BY Zenon DEF FaultClient
<1>3. Keeps(pane', pane, hc')
  BY BInvTypes, PruneCancelledKeeps, Zenon DEF FaultClient
<1>. QED BY <1>1, <1>2, <1>3, ClientStep

\* Pruning for a client that owes at least as much as the one it becomes.
LEMMA PrunedForMore ==
  ASSUME NEW p \in Panes, NEW f, NEW g, \A d \in Clients : Calm(g[d], f[d])
  PROVE  Keeps(Prune(p, f), p, g)
<1>1. Keeps(Prune(p, f), p, f)
  BY PruneKeeps
<1>2. \A d \in Clients : \A i, v : Owes(g[d], i, v) => Owes(f[d], i, v)
  BY Zenon DEF Calm
<1>. QED BY <1>1, <1>2, Zenon DEF Keeps

\* An answered flight: the client settles it, the pane is pruned, and the
\* client is scheduled.
LEMMA SettledSolvent ==
  ASSUME BInv, NEW c \in Clients, NEW r \in ClientStates, Calm(r, hc[c]),
         pane' = Prune(pane, [hc EXCEPT ![c] = r]),
         hc' = [[hc EXCEPT ![c] = r] EXCEPT ![c] = Schedule(r)]
  PROVE  Solvent(pane', hc', src)
<1> DEFINE settled == [hc EXCEPT ![c] = r]
<1>1. \A d \in Clients : settled[d] = (IF d = c THEN r ELSE hc[d])
                         /\ hc'[d] = (IF d = c THEN Schedule(r) ELSE hc[d])
  BY BInvTypes, Zenon
<1>2. \A d \in Clients : Calm(hc'[d], settled[d])
  BY <1>1, ScheduleCalm, CalmReflexive, Zenon
<1>3. hc' = [hc EXCEPT ![c] = Schedule(r)]
  BY BInvTypes, Zenon
<1>4. Presents(Schedule(r), hc[c])
  BY ScheduleCalm, CalmTransitive, CalmPresents, Zenon
<1>5. Keeps(pane', pane, hc')
  <2> HIDE DEF settled
  <2>1. pane' = Prune(pane, settled)
    BY Zenon DEF settled
  <2>2. Keeps(Prune(pane, settled), pane, hc')
    BY <1>2, BInvTypes, PrunedForMore
  <2>. QED BY <2>1, <2>2, Zenon
<1>. QED BY <1>3, <1>4, <1>5, ClientStep

LEMMA UnchangedSolvent ==
  ASSUME BInv, UNCHANGED hubVars
  PROVE  Solvent(pane', hc', src)
BY Zenon DEF BInv, hubVars

LEMMA AckSolvent ==
  ASSUME BInv, NEW c \in Clients, NEW a \in Acks, Ack(c, a)
  PROVE  Solvent(pane', hc', src)
<1>1. CASE UNCHANGED hubVars
  BY <1>1, UnchangedSolvent
<1>2. CASE /\ AckCompletes(hc[c], a)
           /\ LET done == [hc EXCEPT ![c] = Acknowledged(@, a)]
              IN /\ pane' = Prune(pane, done)
                 /\ hc' = [done EXCEPT ![c] = Schedule(@)]
  <2> DEFINE r == Acknowledged(hc[c], a)
             done == [hc EXCEPT ![c] = r]
  <2>1. hc[c] \in ClientStates
    BY BInvTypes
  <2>2. r \in ClientStates /\ Calm(r, hc[c])
    BY <1>2, <2>1, AcknowledgedType, AcknowledgedCalm
  <2>3. pane' = Prune(pane, done) /\ hc' = [done EXCEPT ![c] = Schedule(done[c])]
    BY <1>2, Zenon
  <2> HIDE DEF r
  <2>4. done[c] = r
    BY BInvTypes, Zenon
  <2>. QED BY <2>2, <2>3, <2>4, SettledSolvent, Zenon
<1>3. CASE FaultClient(c, "protocol-violation",
                       IF hc[c].flight = None THEN "ack-none" ELSE "ack-mismatch")
  BY <1>3, FaultClientSolvent, Zenon DEF Reasons, Causes
<1>. QED BY <1>1, <1>2, <1>3, Zenon DEF Ack

LEMMA NackSolvent ==
  ASSUME BInv, NEW c \in Clients, NEW n \in Nacks, Nack(c, n)
  PROVE  Solvent(pane', hc', src)
<1>1. CASE UNCHANGED hubVars
  BY <1>1, UnchangedSolvent
<1>2. CASE LET dropped == [hc EXCEPT ![c].reseed = TRUE, ![c].flight = None]
           IN /\ pane' = Prune(pane, dropped)
              /\ hc' = [dropped EXCEPT ![c] = Schedule(@)]
  <2> DEFINE r == [[hc[c] EXCEPT !.reseed = TRUE] EXCEPT !.flight = None]
             dropped == [hc EXCEPT ![c] = r]
  <2>1. hc[c] \in ClientStates
    BY BInvTypes
  <2>2. /\ r \in ClientStates /\ r.st = hc[c].st /\ r.retire = hc[c].retire
        /\ r.reseed = TRUE /\ r.flight = None /\ r.enc = hc[c].enc
    BY <2>1, Zenon DEF ClientStates
  <2>3. Calm(r, hc[c])
    <3> HIDE DEF r
    <3>. QED BY <2>2, Zenon DEF Calm, Continues, Joining, Owes
  <2>4. [hc EXCEPT ![c].reseed = TRUE, ![c].flight = None] = dropped
    BY BInvTypes, Zenon
  <2>5. pane' = Prune(pane, dropped) /\ hc' = [dropped EXCEPT ![c] = Schedule(dropped[c])]
    BY <1>2, <2>4, Zenon
  <2> HIDE DEF r
  <2>6. dropped[c] = r
    BY BInvTypes, Zenon
  <2>. QED BY <2>2, <2>3, <2>5, <2>6, SettledSolvent, Zenon
<1>3. CASE FaultClient(c, "protocol-violation", "nack-mismatch")
  BY <1>3, FaultClientSolvent, Zenon DEF Reasons, Causes
<1>. QED BY <1>1, <1>2, <1>3, Zenon DEF Nack

LEMMA SetVisibilitySolvent ==
  ASSUME BInv, NEW c \in Clients, NEW v \in {"visible", "background", "hidden"},
         SetVisibility(c, v)
  PROVE  Solvent(pane', hc', src)
<1> DEFINE e == IF v = "hidden" THEN None ELSE hc[c].enc
           r == [[hc[c] EXCEPT !.vis = v] EXCEPT !.enc = e]
<1>1. hc[c] \in ClientStates
  BY BInvTypes
<1>2. e \in Encodings \cup {None}
  BY <1>1, Zenon DEF ClientStates
<1>3. e = None \/ e = hc[c].enc
  OBVIOUS
<1> HIDE DEF e
<1>4. /\ r \in ClientStates /\ r.st = hc[c].st /\ r.retire = hc[c].retire
      /\ r.lastAck = hc[c].lastAck /\ r.reseed = hc[c].reseed /\ r.base = hc[c].base
      /\ r.flight = hc[c].flight /\ r.enc = e
  BY <1>1, <1>2, ZenonT(40) DEF ClientStates
<1>5. [hc EXCEPT ![c].vis = v, ![c].enc = IF v = "hidden" THEN None ELSE @]
        = [hc EXCEPT ![c] = r]
  BY BInvTypes, <1>1, Zenon DEF e, ClientStates
<1> HIDE DEF r
<1>6. hc' = [hc EXCEPT ![c] = Schedule(r)]
  <2>1. [hc EXCEPT ![c] = r][c] = r
    BY BInvTypes, Zenon
  <2>2. hc' = [[hc EXCEPT ![c] = r] EXCEPT ![c] = Schedule(r)]
    BY <1>5, <2>1, Zenon DEF SetVisibility
  <2>. QED BY <2>2, BInvTypes, Zenon
<1>7. Calm(r, hc[c])
  BY <1>3, <1>4, Zenon DEF Calm, Continues, Joining, Owes
<1>8. Presents(Schedule(r), hc[c])
  BY <1>4, <1>7, ScheduleCalm, CalmTransitive, CalmPresents, Zenon
<1>9. Keeps(pane', pane, hc')
  BY BInvTypes, PruneCancelledKeeps, Zenon DEF SetVisibility
<1>. QED BY <1>6, <1>8, <1>9, ClientStep

LEMMA SamePaneKeeps ==
  ASSUME UNCHANGED pane, NEW f
  PROVE  Keeps(pane', pane, f)
BY Zenon DEF Keeps, SamePane

\* The delivery microtask and the background timer.
LEMMA DeliveryRunSolvent ==
  ASSUME BInv, NEW c \in Clients, NEW r \in ClientStates, Calm(r, hc[c]),
         \E next \in Deliver(r) \cup {r} : hc' = [hc EXCEPT ![c] = next],
         UNCHANGED pane
  PROVE  Solvent(pane', hc', src)
<1>1. PICK next \in Deliver(r) \cup {r} : hc' = [hc EXCEPT ![c] = next]
  OBVIOUS
<1>2. pane \in Panes
  BY BInvTypes
<1>3. Presents(next, r)
  <2>1. CASE next \in Deliver(r)
    BY <1>2, <2>1, DeliverPresents
  <2>2. CASE next = r
    BY <2>2, CalmReflexive, CalmPresents
  <2>. QED BY <2>1, <2>2
<1>4. Presents(next, hc[c])
  BY <1>3, PresentsCalm
<1>5. Keeps(pane', pane, hc')
  BY SamePaneKeeps
<1>. QED BY <1>1, <1>4, <1>5, ClientStep

LEMMA DeliverMicrotaskSolvent ==
  ASSUME BInv, NEW c \in Clients, DeliverMicrotask(c)
  PROVE  Solvent(pane', hc', src)
<1> DEFINE r == [hc[c] EXCEPT !.sched = FALSE]
<1>1. hc[c] \in ClientStates
  BY BInvTypes
<1>2. /\ r \in ClientStates /\ r.st = hc[c].st /\ r.retire = hc[c].retire
      /\ r.lastAck = hc[c].lastAck /\ r.reseed = hc[c].reseed /\ r.base = hc[c].base
      /\ r.flight = hc[c].flight /\ r.enc = hc[c].enc
  BY <1>1, ZenonT(40) DEF ClientStates
<1>3. /\ \E next \in Deliver(r) \cup {r} : hc' = [hc EXCEPT ![c] = next]
      /\ UNCHANGED pane
  BY Zenon DEF DeliverMicrotask
<1> HIDE DEF r
<1>4. Calm(r, hc[c])
  BY <1>2, SameDebts
<1>. QED BY <1>2, <1>3, <1>4, DeliveryRunSolvent

LEMMA BackgroundTimerSolvent ==
  ASSUME BInv, NEW c \in Clients, BackgroundTimer(c)
  PROVE  Solvent(pane', hc', src)
<1> DEFINE r == [hc[c] EXCEPT !.timer = FALSE]
<1>1. hc[c] \in ClientStates
  BY BInvTypes
<1>2. /\ r \in ClientStates /\ r.st = hc[c].st /\ r.retire = hc[c].retire
      /\ r.lastAck = hc[c].lastAck /\ r.reseed = hc[c].reseed /\ r.base = hc[c].base
      /\ r.flight = hc[c].flight /\ r.enc = hc[c].enc
  BY <1>1, ZenonT(40) DEF ClientStates
<1>3. /\ \E next \in Deliver(r) \cup {r} : hc' = [hc EXCEPT ![c] = next]
      /\ UNCHANGED pane
  BY Zenon DEF BackgroundTimer
<1> HIDE DEF r
<1>4. Calm(r, hc[c])
  BY <1>2, SameDebts
<1>. QED BY <1>2, <1>3, <1>4, DeliveryRunSolvent

LEMMA CompleteEncodingSolvent ==
  ASSUME BInv, NEW v, NEW ok, CompleteEncoding(v, ok)
  PROVE  Solvent(pane', hc', src)
<1>1. \A c \in Clients : Calm(hc'[c], hc[c])
  BY CompletedJob, BInvTypes, EncodedCalm, CalmReflexive, Zenon
<1>2. pane' = pane \/ pane' = Prune(pane, hc')
  BY Zenon DEF CompleteEncoding
<1>3. \A c \in Clients : Presents(hc'[c], hc[c])
  BY <1>1, CalmPresents, Zenon
<1>4. Keeps(pane', pane, hc')
  BY <1>2, BInvTypes, PruneKeeps, SamePaneKeeps, Zenon
<1>. QED BY <1>3, <1>4, QuietStep

LEMMA FailPaneCaptureSolvent ==
  ASSUME BInv, FailPaneCapture
  PROVE  Solvent(pane', hc', src)
<1>1. ASSUME NEW r \in ClientStates
      PROVE  Calm(Fault([r EXCEPT !.gone = TRUE], "source-closed", "capture"), r)
  <2> DEFINE s == [r EXCEPT !.gone = TRUE]
  <2>1. /\ s \in ClientStates /\ s.st = r.st /\ s.retire = r.retire
        /\ s.lastAck = r.lastAck /\ s.reseed = r.reseed /\ s.base = r.base
        /\ s.flight = r.flight /\ s.enc = r.enc
    BY Zenon DEF ClientStates
  <2> HIDE DEF s
  <2>2. Calm(s, r)
    BY <2>1, SameDebts
  <2>3. Calm(Fault(s, "source-closed", "capture"), s)
    BY <2>1, FaultCalm, Zenon DEF Reasons, Causes
  <2>4. Calm(Fault(s, "source-closed", "capture"), r)
    BY <2>2, <2>3, CalmTransitive, Zenon
  <2>. QED BY <2>4 DEF s
<1>2. \A c \in Clients : Presents(hc'[c], hc[c])
  BY <1>1, BInvTypes, CalmReflexive, CalmPresents, Zenon DEF FailPaneCapture
<1>3. Keeps(pane', pane, hc')
  BY BInvTypes, PruneCancelledKeeps, Zenon DEF FailPaneCapture
<1>. QED BY <1>2, <1>3, QuietStep

-----------------------------------------------------------------------------
(* Steps that end a client or the pane *)

LEMMA IdlePresents ==
  \A r : Calm(IdleClient, r)
<1>1. IdleClient.st = "idle"
  BY Zenon DEF IdleClient
<1>. QED BY <1>1, IdleOwesNothing, Zenon DEF Calm, Continues, Joining

\* A pane may go when every debt is older than what its source comes to.
LEMMA NoPaneSolvent ==
  ASSUME NEW f, \A c \in Clients : \A i, v : Owes(f[c], i, v) => i < src.inc
  PROVE  Solvent(NoPane, f, src)
<1>1. /\ NoPane.st = "none" /\ NoPane.cur = Null /\ NoPane.queue = <<>>
      /\ NoPane.held = None /\ NoPane.drain = "idle" /\ NoPane.tomb = FALSE
      /\ NoPane.aborted = FALSE
  BY Zenon DEF NoPane
<1>2. Items(NoPane) = {}
  BY <1>1, QueueElements, Zenon DEF Items
<1>3. Ordered(NoPane, src)
  BY <1>1, <1>2, Zenon DEF Ordered, Empty, OneIncarnation, Follows, Ended, CurrentKept
<1>4. Openings(NoPane, f)
  BY <1>1, Zenon DEF Openings
<1>5. Debts(NoPane, f, src)
  BY <1>1, <1>2, Zenon DEF Debts
<1>. QED BY <1>3, <1>4, <1>5, Zenon DEF Solvent

LEMMA CloseClientSolvent ==
  ASSUME BInv, NEW c \in Clients, CloseClient(c)
  PROVE  Solvent(pane', hc', src)
<1> DEFINE rest == [hc EXCEPT ![c] = IdleClient]
<1>1. \A d \in Clients : rest[d] = IF d = c THEN IdleClient ELSE hc[d]
  BY BInvTypes, Zenon
<1>2. IdleClient.st = "idle"
  BY Zenon DEF IdleClient
<1>3. CASE \E d \in Clients \ {c} : IsOpen(d)
  <2>1. hc' = rest /\ pane' = Prune(pane, rest)
    BY <1>3, Zenon DEF CloseClient
  <2>2. Keeps(pane', pane, hc')
    <3> HIDE DEF rest
    <3>. QED BY <2>1, BInvTypes, PruneKeeps, Zenon
  <2>3. Presents(IdleClient, hc[c])
    BY IdlePresents, CalmPresents, Zenon
  <2>. QED BY <2>1, <2>2, <2>3, ClientStep
<1>4. CASE ~\E d \in Clients \ {c} : IsOpen(d)
  <2>1. pane' = NoPane /\ hc' = [d \in Clients |-> Abandoned(rest[d], pane)]
    BY <1>4, Zenon DEF CloseClient, RemovePane
  <2>2. \A d \in Clients : rest[d] \in ClientStates /\ rest[d].st # "open"
    BY <1>1, <1>2, <1>4, IdleClientType, BInvTypes, Zenon DEF IsOpen
  <2> HIDE DEF rest
  <2>3. \A d \in Clients : \A i, v : ~Owes(hc'[d], i, v)
    BY <2>1, <2>2, AbandonedCalm, IdleOwesNothing, Zenon DEF Calm
  <2>. QED BY <2>1, <2>3, NoPaneSolvent, Zenon
<1>. QED BY <1>3, <1>4

LEMMA SenderTurnSolvent ==
  ASSUME BInv, NEW c \in Clients, SenderTurn(c)
  PROVE  Solvent(pane', hc', src)
<1>1. hc[c] \in ClientStates
  BY BInvTypes
<1>2. CASE HasNext(hc[c])
  <2>1. hc' = [hc EXCEPT ![c] = Sent(hc[c])] /\ UNCHANGED pane
    BY <1>2, Zenon DEF SenderTurn
  <2>2. Presents(Sent(hc[c]), hc[c])
    BY <1>1, <1>2, SentCalm, CalmPresents
  <2>. QED BY <2>1, <2>2, SamePaneKeeps, ClientStep, Zenon
<1>3. CASE ~HasNext(hc[c]) /\ hc[c].retire
  BY <1>3, CloseClientSolvent, Zenon DEF SenderTurn
<1>4. CASE ~HasNext(hc[c]) /\ ~hc[c].retire
  <2> DEFINE r == [hc[c] EXCEPT !.snd = "idle"]
  <2>1. /\ r.st = hc[c].st /\ r.retire = hc[c].retire
        /\ r.lastAck = hc[c].lastAck /\ r.reseed = hc[c].reseed /\ r.base = hc[c].base
        /\ r.flight = hc[c].flight /\ r.enc = hc[c].enc
    BY <1>1, Zenon DEF ClientStates
  <2>2. hc' = [hc EXCEPT ![c] = r] /\ UNCHANGED pane
    BY <1>4, Zenon DEF SenderTurn
  <2> HIDE DEF r
  <2>3. Presents(r, hc[c])
    BY <2>1, SameDebts, CalmPresents
  <2>. QED BY <2>2, <2>3, SamePaneKeeps, ClientStep, Zenon
<1>. QED BY <1>2, <1>3, <1>4

LEMMA OpenRejectsSolvent ==
  ASSUME BInv, NEW c \in Clients, OpenRejects(c)
  PROVE  Solvent(pane', hc', src)
<1>1. hc' = [hc EXCEPT ![c] = IdleClient] /\ UNCHANGED pane
  BY Zenon DEF OpenRejects
<1>2. Presents(IdleClient, hc[c])
  BY IdlePresents, CalmPresents, Zenon
<1>. QED BY <1>1, <1>2, SamePaneKeeps, ClientStep, Zenon

LEMMA CloseHubClientsSolvent ==
  ASSUME BInv, CloseHubClients
  PROVE  Solvent(pane', hc', src)
<1>1. \A c \in Clients : Presents(hc'[c], hc[c])
  BY IdlePresents, CalmReflexive, CalmPresents, Zenon DEF CloseHubClients
<1>2. Keeps(pane', pane, hc')
  BY SamePaneKeeps, Zenon DEF CloseHubClients
<1>. QED BY <1>1, <1>2, QuietStep

-----------------------------------------------------------------------------
(* The drain *)

\* q is p with fewer updates to come, and possibly given up.
Shrinks(q, p) ==
  /\ q.st = p.st /\ q.inc = p.inc /\ q.cur = p.cur /\ q.tomb = p.tomb
  /\ q.revs = p.revs /\ (p.aborted => q.aborted)
  /\ q.aborted = p.aborted \/ p.st \notin {"none", "starting"}
  /\ Items(q) \subseteq Items(p)
  /\ q.drain = "idle" \/ p.drain # "idle"

LEMMA ShrunkOrder ==
  ASSUME NEW p, NEW q, NEW s, Shrinks(q, p), Ordered(p, s)
  PROVE  Ordered(q, s)
<1>1. Empty(q)
  BY Zenon DEF Shrinks, Ordered, Empty
<1>2. OneIncarnation(q, s)
  BY Zenon DEF Shrinks, Ordered, OneIncarnation
<1>3. Follows(q, s)
  BY Zenon DEF Shrinks, Ordered, Follows
<1>4. Ended(q, s) /\ CurrentKept(q)
  BY Zenon DEF Shrinks, Ordered, Ended, CurrentKept
<1>. QED BY <1>1, <1>2, <1>3, <1>4, Zenon DEF Ordered

LEMMA ShrunkDebts ==
  ASSUME NEW p, NEW q, NEW f, NEW s, Shrinks(q, p), Debts(p, f, s)
  PROVE  Debts(q, f, s)
BY Zenon DEF Shrinks, Debts

LEMMA ShrunkSolvent ==
  ASSUME NEW p, NEW q, NEW f, NEW s, Shrinks(q, p), q.aborted = p.aborted,
         Solvent(p, f, s)
  PROVE  Solvent(q, f, s)
<1>1. Openings(q, f)
  BY Zenon DEF Shrinks, Solvent, Openings
<1>. QED BY <1>1, ShrunkOrder, ShrunkDebts, Zenon DEF Solvent

\* Aborting a pane retires its clients.
LEMMA AbortPaneSolvent ==
  ASSUME BInv, NEW p \in Panes, Solvent(p, hc, src),
         p.st \notin {"none", "starting"},
         NEW reason \in Reasons, reason # "source-closed", NEW cause \in Causes,
         AbortPane(p, reason, cause)
  PROVE  Solvent(pane', hc', src)
<1> DEFINE q == [p EXCEPT !.aborted = TRUE, !.queue = <<>>]
<1>1. /\ q.st = p.st /\ q.inc = p.inc /\ q.cur = p.cur /\ q.tomb = p.tomb
      /\ q.revs = p.revs /\ q.aborted = TRUE /\ q.queue = <<>> /\ q.held = p.held
      /\ q.drain = p.drain
  BY Zenon DEF Panes
<1>2. q \in Panes
  <2>1. <<>> \in Seq(Updates)
    BY SMT
  <2>2. ASSUME NEW l \in Seq(Updates)
        PROVE  [p EXCEPT !.aborted = TRUE, !.queue = l] \in Panes
    BY Zenon DEF Panes
  <2>. QED BY <2>1, <2>2
<1>3. pane' = PruneCancelled(q)
  BY Zenon DEF AbortPane
<1> HIDE DEF q
<1>4. Shrinks(q, p)
  <2>1. Items(q) \subseteq Items(p)
    BY <1>1, QueueElements, Zenon DEF Items
  <2>. QED BY <1>1, <2>1, Zenon DEF Shrinks
<1>5. \A c \in Clients : Calm(hc'[c], hc[c]) /\ (hc'[c].st = "open" => hc'[c].retire)
  <2>1. \A c \in Clients : /\ Calm(Fault(hc[c], reason, cause), hc[c])
                           /\ Fault(hc[c], reason, cause).retire
    BY BInvTypes, FaultCalm, Zenon
  <2>. QED BY <2>1, CalmReflexive, Zenon DEF AbortPane, IsOpen
<1>6. Keeps(pane', q, hc')
  BY <1>2, <1>3, PruneCancelledKeeps
<1>7. Ordered(pane', src)
  BY <1>4, <1>6, ShrunkOrder, KeptOrder, Zenon DEF Solvent
<1>8. Debts(pane', hc', src)
  <2>1. Debts(q, hc, src)
    BY <1>4, ShrunkDebts, Zenon DEF Solvent
  <2>2. Debts(q, hc', src)
    BY <1>5, <2>1, CalmDebts
  <2>. QED BY <1>6, <2>2, KeptDebts
<1>9. Openings(pane', hc')
  <2>1. pane'.st = p.st
    BY <1>1, <1>6, Zenon DEF Keeps, SamePane
  <2>. QED BY <1>5, <2>1, Zenon DEF Openings, Solvent, Calm, Continues
<1>. QED BY <1>7, <1>8, <1>9, Zenon DEF Solvent

\* Publishing what the pane was given next.
LEMMA PublishCanonicalSolvent ==
  ASSUME BInv, NEW u \in Items(pane), ~pane.aborted, pane.drain # "idle",
         NEW p \in Panes, p.st = pane.st, p.revs = pane.revs,
         Elements(p.queue) \subseteq Items(pane), PublishCanonical(u, p)
  PROVE  Solvent(pane', hc', src)
<1> DEFINE l == IF u.tomb THEN <<>> ELSE p.queue
           latest == [p EXCEPT !.cur = u.rev, !.inc = u.inc, !.tomb = u.tomb,
                               !.revs = p.revs \cup {u.rev}, !.held = None,
                               !.drain = "running", !.aborted = u.tomb, !.queue = l]
<1>1. /\ u \in Updates /\ u.rev \in Nat /\ u.rev \in Revs /\ u.inc \in Nat
      /\ u.tomb \in BOOLEAN
  <2>1. u \in Updates
    BY BInvTypes, ItemsType, Zenon
  <2>. QED BY <2>1, Zenon DEF Updates, Revs
<1>2. l \in Seq(Updates) /\ Elements(l) \subseteq Items(pane)
  <2>1. p.queue \in Seq(Updates) /\ <<>> \in Seq(Updates)
    <3>1. p.queue \in Seq(Updates)
      BY Zenon DEF Panes
    <3>2. <<>> \in Seq(Updates)
      BY SMT
    <3>. QED BY <3>1, <3>2
  <2>. QED BY <2>1, QueueElements, Zenon
<1>3. p.revs \cup {u.rev} \in SUBSET Nat
  <2>1. p.revs \in SUBSET Nat
    BY Zenon DEF Panes
  <2>. QED BY <1>1, <2>1
<1>4. pane' = PruneCancelled(Prune(latest, hc))
  BY Zenon DEF PublishCanonical
<1> HIDE DEF l
<1>5. /\ latest \in SoundPanes /\ latest.st = pane.st /\ latest.cur = u.rev
      /\ latest.inc = u.inc /\ latest.tomb = u.tomb /\ latest.held = None
      /\ latest.revs = pane.revs \cup {u.rev} /\ latest.drain = "running"
      /\ latest.aborted = u.tomb /\ latest.queue = l
  <2>1. ASSUME NEW v \in Revs, NEW i \in Nat, NEW t \in BOOLEAN, NEW k \in SUBSET Nat,
               NEW s \in Seq(Updates)
        PROVE  [p EXCEPT !.cur = v, !.inc = i, !.tomb = t, !.revs = k, !.held = None,
                         !.drain = "running", !.aborted = t, !.queue = s] \in SoundPanes
    BY Zenon DEF SoundPanes, Panes
  <2>2. latest \in SoundPanes
    BY <1>1, <1>2, <1>3, <2>1, Zenon
  <2>3. /\ latest.st = p.st /\ latest.cur = u.rev
        /\ latest.inc = u.inc /\ latest.tomb = u.tomb /\ latest.held = None
        /\ latest.revs = p.revs \cup {u.rev} /\ latest.drain = "running"
        /\ latest.aborted = u.tomb /\ latest.queue = l
    BY Zenon DEF Panes
  <2>. QED BY <2>2, <2>3
<1> HIDE DEF latest
<1>6. latest.cur # Null /\ Items(latest) \subseteq Items(pane)
  <2>1. u.rev # Null
    BY <1>1, SMT DEF Null
  <2>. QED BY <1>2, <1>5, <2>1, Zenon DEF Items
<1>7. pane.st \notin {"none", "starting"}
  BY Zenon DEF BInv, Solvent, Ordered, Empty
<1>8. OneIncarnation(pane, src)
  BY Zenon DEF BInv, Solvent, Ordered
<1>9. Ordered(latest, src)
  <2>1. Empty(latest)
    BY <1>5, <1>7, Zenon DEF Empty
  <2>2. OneIncarnation(latest, src)
    BY <1>5, <1>6, <1>8, Zenon DEF OneIncarnation
  <2>3. Follows(latest, src)
    <3>1. Follows(pane, src)
      BY Zenon DEF BInv, Solvent, Ordered
    <3>. QED BY <1>5, <1>6, <3>1, Zenon DEF Follows
  <2>4. Ended(latest, src)
    BY <1>5, <1>6, <1>8, Zenon DEF Ended, OneIncarnation
  <2>5. CurrentKept(latest)
    BY <1>5, Zenon DEF CurrentKept
  <2>. QED BY <2>1, <2>2, <2>3, <2>4, <2>5, Zenon DEF Ordered
<1>10. \A c \in Clients : Calm(hc'[c], hc[c])
  BY <1>1, BInvTypes, PublishedCalm, Zenon DEF PublishCanonical
<1>11. Openings(latest, hc')
  BY <1>5, <1>10, Zenon DEF BInv, Solvent, Openings, Calm, Continues
<1>12. Debts(latest, hc, src)
  <2> SUFFICES ASSUME NEW c \in Clients, NEW i, NEW v, Owes(hc[c], i, v)
               PROVE  i <= u.inc /\ (i = u.inc => v \in latest.revs)
    BY <1>5, <1>6, Zenon DEF Debts
  <2>1. i \in Nat
    BY BInvTypes, OwesType, Zenon
  <2>2. IF pane.cur = Null THEN i < src.inc /\ \A w \in Items(pane) : i < w.inc
        ELSE i <= pane.inc /\ (i = pane.inc => v \in pane.revs)
    BY Zenon DEF BInv, Solvent, Debts
  <2>3. CASE pane.cur = Null
    <3>1. i < u.inc
      BY <2>2, <2>3, Zenon
    <3>2. i <= u.inc /\ i # u.inc
      BY <1>1, <2>1, <3>1, SMT
    <3>. QED BY <3>2
  <2>4. CASE pane.cur # Null
    BY <1>5, <1>8, <2>2, <2>4, Zenon DEF OneIncarnation
  <2>. QED BY <2>3, <2>4
<1>13. Keeps(Prune(latest, hc), latest, hc')
  BY <1>5, <1>10, PrunedForMore, Zenon DEF SoundPanes
<1>14. Keeps(pane', Prune(latest, hc), hc')
  <2>1. Prune(latest, hc) \in Panes
    BY <1>5, PruneType, Zenon DEF SoundPanes
  <2>. QED BY <1>4, <2>1, PruneCancelledKeeps, Zenon
<1>15. Ordered(pane', src)
  <2>1. Ordered(Prune(latest, hc), src)
    BY <1>9, <1>13, KeptOrder
  <2>. QED BY <1>14, <2>1, KeptOrder
<1>16. Debts(pane', hc', src)
  <2>1. Debts(latest, hc', src)
    BY <1>10, <1>12, CalmDebts
  <2>2. Debts(Prune(latest, hc), hc', src)
    BY <1>13, <2>1, KeptDebts
  <2>. QED BY <1>14, <2>2, KeptDebts
<1>17. Openings(pane', hc')
  BY <1>11, <1>13, <1>14, Zenon DEF Keeps, SamePane, Openings
<1>. QED BY <1>15, <1>16, <1>17, Zenon DEF Solvent

LEMMA DrainingStarted ==
  ASSUME BInv, pane.drain # "idle"
  PROVE  pane.st \notin {"none", "starting"}
BY Zenon DEF BInv, Solvent, Ordered, Empty

LEMMA SourceInvalidSolvent ==
  ASSUME BInv, NEW p \in Panes, Shrinks(p, pane), p.aborted = pane.aborted,
         p.drain # "idle", SourceInvalid(p)
  PROVE  Solvent(pane', hc', src)
<1> DEFINE q == [p EXCEPT !.drain = "idle", !.held = None]
<1>1. /\ q \in Panes /\ q.st = p.st /\ q.inc = p.inc /\ q.cur = p.cur /\ q.tomb = p.tomb
      /\ q.revs = p.revs /\ q.aborted = p.aborted /\ q.queue = p.queue /\ q.held = None
      /\ q.drain = "idle"
  BY Zenon DEF Panes
<1>2. AbortPane(q, "protocol-violation", "source-invalid")
  BY Zenon DEF SourceInvalid
<1> HIDE DEF q
<1>3. Items(q) \subseteq Items(p)
  BY <1>1, Zenon DEF Items
<1>4. Shrinks(q, pane) /\ q.aborted = pane.aborted
  BY <1>1, <1>3, Zenon DEF Shrinks
<1>5. Solvent(q, hc, src)
  BY <1>4, ShrunkSolvent, Zenon DEF BInv
<1>6. q.st \notin {"none", "starting"}
  BY <1>1, DrainingStarted, Zenon DEF Shrinks
<1>. QED BY <1>1, <1>2, <1>5, <1>6, AbortPaneSolvent, Zenon DEF Reasons, Causes

LEMMA DrainStepSolvent ==
  ASSUME BInv, DrainStep
  PROVE  Solvent(pane', hc', src)
<1>1. pane \in Panes /\ pane.queue \in Seq(Updates) /\ pane.drain # "idle"
  <2>1. pane \in Panes
    BY BInvTypes
  <2>. QED BY <2>1, Zenon DEF Panes, DrainStep
<1>2. CASE pane.queue = <<>> \/ pane.aborted
  <2> DEFINE q == [pane EXCEPT !.drain = "idle"]
  <2>1. /\ q.st = pane.st /\ q.inc = pane.inc /\ q.cur = pane.cur /\ q.tomb = pane.tomb
        /\ q.revs = pane.revs /\ q.aborted = pane.aborted /\ q.queue = pane.queue
        /\ q.held = pane.held /\ q.drain = "idle"
    BY <1>1, Zenon DEF Panes
  <2>2. pane' = q /\ UNCHANGED hc
    BY <1>2, Zenon DEF DrainStep
  <2> HIDE DEF q
  <2>3. Items(q) = Items(pane)
    BY <2>1, Zenon DEF Items
  <2>4. Shrinks(q, pane)
    BY <2>1, <2>3, Zenon DEF Shrinks
  <2>. QED BY <2>1, <2>2, <2>4, ShrunkSolvent, Zenon DEF BInv
<1>3. CASE pane.queue # <<>> /\ ~pane.aborted
  <2> DEFINE rest == [pane EXCEPT !.queue = Tail(@)]
             u == Head(pane.queue)
             q == [rest EXCEPT !.drain = "reducing", !.held = u]
  <2>1. /\ u \in Elements(pane.queue) /\ u \in Updates
        /\ Tail(pane.queue) \in Seq(Updates)
        /\ Elements(Tail(pane.queue)) \subseteq Elements(pane.queue)
    BY <1>1, <1>3, QueueElements, Zenon
  <2>2. /\ rest \in Panes /\ rest.st = pane.st /\ rest.inc = pane.inc
        /\ rest.cur = pane.cur /\ rest.tomb = pane.tomb /\ rest.revs = pane.revs
        /\ rest.aborted = pane.aborted /\ rest.queue = Tail(pane.queue)
        /\ rest.held = pane.held /\ rest.drain = pane.drain
    BY <1>1, <2>1, Zenon DEF Panes
  <2>3. \/ PublishCanonical(u, rest)
        \/ SourceInvalid(rest)
        \/ pane' = q /\ UNCHANGED hc
    BY <1>3, Zenon DEF DrainStep
  <2> HIDE DEF rest, u
  <2>4. /\ q.st = pane.st /\ q.inc = pane.inc /\ q.cur = pane.cur /\ q.tomb = pane.tomb
        /\ q.revs = pane.revs /\ q.aborted = pane.aborted /\ q.queue = Tail(pane.queue)
        /\ q.held = u
    BY <2>2, Zenon DEF Panes
  <2> HIDE DEF q
  <2>5. Items(rest) \subseteq Items(pane) /\ Items(q) \subseteq Items(pane)
    BY <2>1, <2>2, <2>4, Zenon DEF Items
  <2>6. CASE PublishCanonical(u, rest)
    <3>1. u \in Items(pane) /\ Elements(rest.queue) \subseteq Items(pane)
      BY <2>1, <2>2, Zenon DEF Items
    <3>. QED BY <1>1, <1>3, <2>2, <2>6, <3>1, PublishCanonicalSolvent
  <2>7. CASE SourceInvalid(rest)
    <3>1. Shrinks(rest, pane)
      BY <1>1, <2>2, <2>5, Zenon DEF Shrinks
    <3>. QED BY <1>1, <2>2, <2>7, <3>1, SourceInvalidSolvent
  <2>8. CASE pane' = q /\ UNCHANGED hc
    <3>1. Shrinks(q, pane)
      BY <1>1, <2>4, <2>5, Zenon DEF Shrinks
    <3>. QED BY <2>4, <2>8, <3>1, ShrunkSolvent, Zenon DEF BInv
  <2>. QED BY <2>3, <2>6, <2>7, <2>8
<1>. QED BY <1>2, <1>3

LEMMA FinishReductionSolvent ==
  ASSUME BInv, FinishReduction
  PROVE  Solvent(pane', hc', src)
<1>1. /\ pane \in Panes /\ pane.held \in Updates /\ pane.held # None
      /\ pane.drain # "idle"
  <2>1. pane \in SoundPanes
    BY BInvTypes
  <2>. QED BY <2>1, Zenon DEF SoundPanes, Panes, FinishReduction
<1>2. CASE pane.aborted
  <2> DEFINE q == [pane EXCEPT !.drain = "idle", !.held = None]
  <2>1. /\ q.st = pane.st /\ q.inc = pane.inc /\ q.cur = pane.cur /\ q.tomb = pane.tomb
        /\ q.revs = pane.revs /\ q.aborted = pane.aborted /\ q.queue = pane.queue
        /\ q.held = None /\ q.drain = "idle"
    BY <1>1, Zenon DEF Panes
  <2>2. pane' = q /\ UNCHANGED hc
    BY <1>2, Zenon DEF FinishReduction
  <2> HIDE DEF q
  <2>3. Items(q) \subseteq Items(pane)
    BY <2>1, Zenon DEF Items
  <2>4. Shrinks(q, pane)
    BY <2>1, <2>3, Zenon DEF Shrinks
  <2>. QED BY <2>1, <2>2, <2>4, ShrunkSolvent, Zenon DEF BInv
<1>3. CASE ~pane.aborted
  <2>1. PublishCanonical(pane.held, pane)
    BY <1>3, Zenon DEF FinishReduction
  <2>2. pane.held \in Items(pane) /\ Elements(pane.queue) \subseteq Items(pane)
    BY <1>1, Zenon DEF Items
  <2>. QED BY <1>1, <1>3, <2>1, <2>2, PublishCanonicalSolvent
<1>. QED BY <1>2, <1>3

LEMMA ReductionFailsSolvent ==
  ASSUME BInv, ReductionFails
  PROVE  Solvent(pane', hc', src)
<1>1. pane \in Panes /\ pane.drain # "idle" /\ SourceInvalid(pane)
  BY BInvTypes, Zenon DEF ReductionFails
<1>2. Shrinks(pane, pane)
  BY <1>1, Zenon DEF Shrinks
<1>. QED BY <1>1, <1>2, SourceInvalidSolvent

-----------------------------------------------------------------------------
(* Removing, starting and joining the pane *)

\* A pane that published its tombstone is of a past incarnation.
LEMMA TombstonedSolvent ==
  ASSUME BInv, pane.tomb, pane' = NoPane,
         hc' = [c \in Clients |-> Abandoned(hc[c], pane)]
  PROVE  Solvent(pane', hc', src)
<1>1. pane.cur # Null /\ pane.inc < src.inc
  BY Zenon DEF BInv, Solvent, Ordered, Ended
<1>2. ASSUME NEW c \in Clients, NEW i, NEW v, Owes(hc'[c], i, v)
      PROVE  i < src.inc
  <2>1. Owes(hc[c], i, v)
    BY <1>2, BInvTypes, AbandonedCalm, Zenon DEF Calm
  <2>2. i <= pane.inc
    BY <1>1, <2>1, Zenon DEF BInv, Solvent, Debts
  <2>3. i \in Nat /\ pane.inc \in Nat /\ src.inc \in Nat
    <3>1. i \in Nat
      BY <2>1, BInvTypes, OwesType, Zenon
    <3>2. pane.inc \in Nat
      BY BInvTypes, Zenon DEF Panes
    <3>. QED BY <3>1, <3>2, BInvTypes
  <2>. QED BY <1>1, <2>2, <2>3, SMT
<1>. QED BY <1>2, NoPaneSolvent, Zenon

LEMMA ReapPaneSolvent ==
  ASSUME BInv, ReapPane
  PROVE  Solvent(pane', hc', src)
BY TombstonedSolvent, Zenon DEF ReapPane, RemovePane

\* A reset retires everyone.
LEMMA ResetSolvent ==
  ASSUME BInv, ResetForSessionRestart
  PROVE  Solvent(pane', hc', src)
<1>1. /\ pane' = NoPane
      /\ hc' = [c \in Clients |-> Abandoned(ResetClient(hc[c]), pane)]
  BY Zenon DEF ResetForSessionRestart, RemovePane
<1>2. \A c \in Clients :
        /\ ResetClient(hc[c]) \in ClientStates
        /\ ResetClient(hc[c]).st = "open" => ResetClient(hc[c]).retire
  BY BInvTypes, ResetClientType, ResetClientCalm, Zenon DEF Calm, Continues
<1>3. ASSUME NEW c \in Clients, NEW i, NEW v, Owes(hc'[c], i, v)
      PROVE  FALSE
  <2>1. Owes(ResetClient(hc[c]), i, v)
    BY <1>1, <1>2, <1>3, AbandonedCalm, Zenon DEF Calm
  <2>. QED BY <1>2, <2>1, Zenon DEF Owes
<1>. QED BY <1>1, <1>3, NoPaneSolvent, Zenon

LEMMA SourceReadySolvent ==
  ASSUME BInv, SourceReady
  PROVE  Solvent(pane', hc', src)
<1>1. pane.st = "seeded" /\ pane \in Panes
  BY BInvTypes, Zenon DEF SourceReady
<1>2. CASE pane.aborted
  <2>1. pane' = NoPane /\ hc' = [c \in Clients |-> Abandoned(hc[c], pane)]
    BY <1>2, Zenon DEF SourceReady
  <2>2. CASE pane.tomb
    BY <2>1, <2>2, TombstonedSolvent
  <2>3. CASE ~pane.tomb
    <3>1. \A c \in Clients : hc[c].st = "open" => hc[c].retire
      BY <1>1, <1>2, <2>3, Zenon DEF BInv, Solvent, Openings
    <3>2. ASSUME NEW c \in Clients, NEW i, NEW v, Owes(hc'[c], i, v)
          PROVE  FALSE
      <4>1. Owes(hc[c], i, v)
        BY <2>1, <3>2, BInvTypes, AbandonedCalm, Zenon DEF Calm
      <4>. QED BY <3>1, <4>1, Zenon DEF Owes
    <3>. QED BY <2>1, <3>2, NoPaneSolvent, Zenon
  <2>. QED BY <2>2, <2>3
<1>3. CASE ~pane.aborted
  <2> DEFINE q == [pane EXCEPT !.st = "live"]
  <2>1. /\ q.st = "live" /\ q.inc = pane.inc /\ q.cur = pane.cur /\ q.tomb = pane.tomb
        /\ q.revs = pane.revs /\ q.aborted = pane.aborted /\ q.queue = pane.queue
        /\ q.held = pane.held /\ q.drain = pane.drain
    BY <1>1, Zenon DEF Panes
  <2>2. /\ pane' = q
        /\ hc' = [c \in Clients |-> IF hc[c].st = "opening"
                                      THEN [hc[c] EXCEPT !.st = "resuming"] ELSE hc[c]]
    BY <1>3, Zenon DEF SourceReady
  <2> HIDE DEF q
  <2>3. Items(q) = Items(pane)
    BY <2>1, Zenon DEF Items
  <2>4. Ordered(q, src)
    BY <1>1, <2>1, <2>3, Zenon DEF BInv, Solvent, Ordered, Empty, OneIncarnation,
       Follows, Ended, CurrentKept
  <2>5. Openings(q, hc')
    BY <2>1, Zenon DEF Openings
  <2>6. \A c \in Clients : \A i, v : Owes(hc'[c], i, v) => Owes(hc[c], i, v)
    <3>1. ASSUME NEW r \in ClientStates
          PROVE  [r EXCEPT !.st = "resuming"].st = "resuming"
      BY Zenon DEF ClientStates
    <3>. QED BY <2>2, <3>1, BInvTypes, IdleOwesNothing, Zenon
  <2>7. Debts(q, hc', src)
    BY <2>1, <2>3, <2>6, Zenon DEF BInv, Solvent, Debts
  <2>. QED BY <2>2, <2>4, <2>5, <2>7, Zenon DEF Solvent
<1>. QED BY <1>2, <1>3

LEMMA SourceStartFailsSolvent ==
  ASSUME BInv, NEW capture \in BOOLEAN, SourceStartFails(capture)
  PROVE  Solvent(pane', hc', src)
<1>1. pane.cur = Null
  BY Zenon DEF SourceStartFails, BInv, Solvent, Ordered, Empty
<1>2. \A r \in ClientStates : [r EXCEPT !.st = "retired"].st = "retired"
  BY Zenon DEF ClientStates
<1>3. IdleClient.st = "idle"
  BY Zenon DEF IdleClient
<1>4. \A c \in Clients : \A i, v : Owes(hc'[c], i, v) => Owes(hc[c], i, v)
  BY <1>2, <1>3, BInvTypes, IdleOwesNothing, Zenon DEF SourceStartFails
<1>5. \A c \in Clients : \A i, v : Owes(hc'[c], i, v) => i < src.inc
  BY <1>1, <1>4, Zenon DEF BInv, Solvent, Debts
<1>6. pane' = NoPane
  BY Zenon DEF SourceStartFails
<1>. QED BY <1>5, <1>6, NoPaneSolvent, Zenon

\* Nobody joins while someone is about to: an opening is not a microtask.
LEMMA OpenSolvent ==
  ASSUME BInv, Quiet, NEW c \in Clients, Open(c)
  PROVE  Solvent(pane', hc', src)
<1> DEFINE s == IF pane.st \in {"none", "starting", "seeded"} THEN "opening"
                ELSE "resuming"
           r == [hc[c] EXCEPT !.st = s]
<1>1. hc[c] \in ClientStates
  BY BInvTypes
<1>2. r.st = s /\ s # "open"
  BY <1>1, Zenon DEF ClientStates
<1>3. \A d \in Clients : hc'[d] = IF d = c THEN r ELSE hc[d]
  BY BInvTypes, Zenon DEF Open
<1>4. pane.st \in {"none", "starting"} => s = "opening"
  OBVIOUS
<1> HIDE DEF r, s
<1>5. \A d \in Clients : \A i, v : Owes(hc'[d], i, v) => Owes(hc[d], i, v)
  BY <1>2, <1>3, IdleOwesNothing, Zenon
<1>6. pane.st # "seeded" /\ \A d \in Clients : ~Joining(hc[d])
  BY Zenon DEF Quiet, Joining
<1>7. CASE pane.st = "none"
  <2> DEFINE q == [NoPane EXCEPT !.st = "starting"]
  <2>1. /\ q.st = "starting" /\ q.cur = Null /\ q.queue = <<>> /\ q.held = None
        /\ q.drain = "idle" /\ q.tomb = FALSE /\ q.aborted = FALSE
    BY NoPaneType, Zenon DEF NoPane, SoundPanes, Panes
  <2>2. pane' = q
    BY <1>7, Zenon DEF Open
  <2> HIDE DEF q
  <2>3. Items(q) = {}
    BY <2>1, QueueElements, Zenon DEF Items
  <2>4. Ordered(q, src)
    BY <2>1, <2>3, Zenon DEF Ordered, Empty, OneIncarnation, Follows, Ended, CurrentKept
  <2>5. Openings(q, hc')
    BY <1>2, <1>3, <1>4, <1>6, <1>7, <2>1, Zenon DEF Openings, Joining
  <2>6. Debts(q, hc', src)
    <3>1. pane.cur = Null
      BY <1>7, Zenon DEF BInv, Solvent, Ordered, Empty
    <3>. QED BY <1>5, <2>1, <2>3, <3>1, Zenon DEF BInv, Solvent, Debts
  <2>. QED BY <2>2, <2>4, <2>5, <2>6, Zenon DEF Solvent
<1>8. CASE pane.st # "none"
  <2>1. pane' = pane
    BY <1>8, Zenon DEF Open
  <2>2. Openings(pane, hc')
    BY <1>2, <1>3, <1>4, <1>6, Zenon DEF Openings, Joining
  <2>3. Debts(pane, hc', src)
    BY <1>5, Zenon DEF BInv, Solvent, Debts
  <2>. QED BY <2>1, <2>2, <2>3, Zenon DEF BInv, Solvent
<1>. QED BY <1>7, <1>8

\* A new client owes nothing.
LEMMA OpenResumeSolvent ==
  ASSUME BInv, NEW c \in Clients, OpenResume(c)
  PROVE  Solvent(pane', hc', src)
<1> DEFINE l == IF hc[c].st = "resuming" THEN pane.cur ELSE hc[c].latest
           r == [IdleClient EXCEPT !.st = "open", !.latest = l]
<1>1. l \in Revs
  BY BInvTypes, Zenon DEF Panes, ClientStates
<1> HIDE DEF l
<1>2. r \in ClientStates /\ r.lastAck = None /\ r.flight = None /\ r.enc = None
  BY <1>1, IdleClientType, Zenon DEF IdleClient, ClientStates
<1>3. \A d \in Clients : hc'[d] = IF d = c THEN Schedule(r) ELSE hc[d]
  BY BInvTypes, Zenon DEF OpenResume, l
<1> HIDE DEF r
<1>4. \A i, v : ~Owes(Schedule(r), i, v)
  BY <1>2, ScheduleCalm, Zenon DEF Calm, Owes
<1>5. Debts(pane, hc', src)
  BY <1>3, <1>4, Zenon DEF BInv, Solvent, Debts
<1>6. pane.st \notin {"starting", "seeded"}
  BY Zenon DEF OpenResume, BInv, Solvent, Openings, Joining
<1>7. Openings(pane, hc')
  BY <1>6, Zenon DEF Openings
<1>8. UNCHANGED pane
  BY Zenon DEF OpenResume
<1>. QED BY <1>5, <1>7, <1>8, Zenon DEF BInv, Solvent

-----------------------------------------------------------------------------
(* The source *)

\* A pane's first seed is the present state of a source that lives.
LEMMA SubscribeSourceSolvent ==
  ASSUME BInv, NEW u \in Updates, u.inc = src.inc, ~u.tomb, SubscribeSource(u),
         src'.inc = src.inc
  PROVE  Solvent(pane', hc', src')
<1> DEFINE l == <<u>>
           q == [pane EXCEPT !.st = "seeded", !.queue = l, !.drain = "ready"]
<1>1. pane \in Panes /\ pane.st = "starting"
  BY BInvTypes, Zenon DEF SubscribeSource
<1>2. l \in Seq(Updates) /\ Elements(l) = {u}
  BY SMT DEF Elements
<1>3. pane' = q /\ UNCHANGED hc
  BY Zenon DEF SubscribeSource
<1> HIDE DEF l
<1>4. /\ q.st = "seeded" /\ q.cur = pane.cur /\ q.tomb = pane.tomb
      /\ q.aborted = pane.aborted /\ q.queue = l /\ q.held = pane.held
  BY <1>1, Zenon DEF Panes
<1> HIDE DEF q
<1>5. /\ pane.cur = Null /\ Items(pane) = {} /\ ~pane.tomb /\ ~pane.aborted
  BY <1>1, Zenon DEF BInv, Solvent, Ordered, Empty
<1>6. Items(q) = {u}
  BY <1>2, <1>4, <1>5, Zenon DEF Items
<1>7. Ordered(q, src')
  BY <1>4, <1>5, <1>6, Zenon DEF Ordered, Empty, OneIncarnation, Follows, Ended, CurrentKept
<1>8. Openings(q, hc)
  BY <1>1, <1>4, <1>5, Zenon DEF BInv, Solvent, Openings
<1>9. Debts(q, hc, src')
  BY <1>4, <1>5, <1>6, Zenon DEF BInv, Solvent, Debts
<1>. QED BY <1>3, <1>7, <1>8, <1>9, Zenon DEF Solvent

\* What a living source emits follows what it emitted before.
LEMMA ObserveCanonicalSolvent ==
  ASSUME BInv, RtSound', Lives(src), NEW u \in Updates, u.inc = src.inc,
         Later(src', src), u.tomb => src.inc < src'.inc, ObserveCanonical(u)
  PROVE  Solvent(pane', hc', src')
<1>1. /\ pane' \in Panes /\ hc' \in [Clients -> ClientStates]
      /\ src \in Sources /\ src' \in Sources
  BY BInvTypes, Zenon DEF RtSound, HubSound, HubTypeOK
<1>2. CASE UNCHANGED hubVars
  BY <1>1, <1>2, UnchangedSolvent, LaterSolvent
<1>3. CASE /\ pane.st \in {"seeded", "live"}
           /\ AbortPane(pane, "state-too-large", "pending-budget")
  <2>1. Solvent(pane', hc', src)
    BY <1>3, BInvTypes, AbortPaneSolvent, Zenon DEF BInv, Reasons, Causes
  <2>. QED BY <1>1, <2>1, LaterSolvent
<1>4. CASE /\ pane.st \in {"seeded", "live"} /\ ~pane.aborted
           /\ pane' = [pane EXCEPT !.queue = Append(@, u),
                                   !.drain = IF @ = "idle" THEN "ready" ELSE @]
           /\ UNCHANGED hc
  <2> DEFINE l == Append(pane.queue, u)
             d == IF pane.drain = "idle" THEN "ready" ELSE pane.drain
             q == [pane EXCEPT !.queue = l, !.drain = d]
  <2>1. pane \in Panes
    BY BInvTypes
  <2>2. Elements(l) \subseteq Elements(pane.queue) \cup {u}
    <3>1. pane.queue \in Seq(Updates)
      BY <2>1, Zenon DEF Panes
    <3>. QED BY <3>1, QueueElements, Zenon
  <2>3. pane' = q
    BY <1>4, Zenon
  <2> HIDE DEF l, d
  <2>4. /\ q.st = pane.st /\ q.inc = pane.inc /\ q.cur = pane.cur /\ q.tomb = pane.tomb
        /\ q.revs = pane.revs /\ q.aborted = pane.aborted /\ q.queue = l
        /\ q.held = pane.held
    BY <2>1, Zenon DEF Panes
  <2> HIDE DEF q
  <2>5. Items(q) \subseteq Items(pane) \cup {u}
    BY <2>2, <2>4, Zenon DEF Items
  <2>6. /\ \A w \in Items(pane) : w.inc = src.inc
        /\ pane.cur # Null => pane.inc = src.inc
    BY <1>4, Zenon DEF Lives, BInv, Solvent, Ordered, Follows
  <2>7. Solvent(pane, hc, src')
    BY <1>1, <2>1, BInvTypes, LaterSolvent, Zenon DEF BInv
  <2>8. Ordered(q, src')
    <3>1. Empty(q)
      BY <1>4, <2>4, Zenon DEF Empty
    <3>2. OneIncarnation(q, src')
      BY <2>4, <2>5, <2>6, <2>7, Zenon DEF OneIncarnation, Solvent, Ordered
    <3>3. Follows(q, src')
      BY <2>4, <2>5, <2>6, Zenon DEF Follows, Later, Lives
    <3>4. Ended(q, src') /\ CurrentKept(q)
      BY <2>4, <2>7, Zenon DEF Solvent, Ordered, Ended, CurrentKept
    <3>. QED BY <3>1, <3>2, <3>3, <3>4, Zenon DEF Ordered
  <2>9. Openings(q, hc)
    BY <2>4, <2>7, Zenon DEF Solvent, Openings
  <2>10. Debts(q, hc, src')
    <3> SUFFICES ASSUME NEW c \in Clients, NEW i, NEW v, Owes(hc[c], i, v)
                 PROVE  IF q.cur = Null
                        THEN i < src'.inc /\ \A w \in Items(q) : i < w.inc
                        ELSE i <= q.inc /\ (i = q.inc => v \in q.revs)
      BY Zenon DEF Debts
    <3>1. IF pane.cur = Null THEN i < src'.inc
          ELSE i <= pane.inc /\ (i = pane.inc => v \in pane.revs)
      BY <2>7, Zenon DEF Solvent, Debts
    <3>2. pane.cur = Null => i < src.inc
      BY Zenon DEF BInv, Solvent, Debts
    <3>. QED BY <2>4, <2>5, <2>6, <3>1, <3>2, Zenon
  <2>. QED BY <1>4, <2>3, <2>8, <2>9, <2>10, Zenon DEF Solvent
<1>. QED BY <1>2, <1>3, <1>4, Zenon DEF ObserveCanonical, hubVars

LEMMA SourceStepSolvent ==
  ASSUME BInv, RtSound', SourceStep
  PROVE  Solvent(pane', hc', src')
<1>1. /\ pane' \in Panes /\ hc' \in [Clients -> ClientStates]
      /\ src \in Sources /\ src' \in Sources /\ src.inc \in Nat
  BY BInvTypes, Zenon DEF RtSound, HubSound, HubTypeOK
<1>2. src.inc <= src.inc /\ src.inc <= src.inc + 1 /\ src.inc < src.inc + 1
  BY <1>1, SMT
<1>3. ASSUME NEW tomb \in BOOLEAN
      PROVE  Emission(tomb) \in Updates /\ Emission(tomb).inc = src.inc
             /\ Emission(tomb).tomb = tomb
  BY <1>1, EmissionType, Zenon DEF Emission
<1>4. ASSUME Solvent(pane', hc', src), Later(src', src)
      PROVE  Solvent(pane', hc', src')
  BY <1>1, <1>4, LaterSolvent
<1>5. ASSUME src' = src
      PROVE  Later(src', src)
  BY <1>2, <1>5, Zenon DEF Later
<1>6. ASSUME NEW s \in {"absent", "shut"}, NEW v,
             src' = [st |-> s, inc |-> src.inc + 1, rev |-> v]
      PROVE  Later(src', src) /\ src.inc < src'.inc
  BY <1>2, <1>6, Zenon DEF Later, Lives
<1>7. ASSUME Lives(src), EndSource
      PROVE  Solvent(pane', hc', src')
  BY <1>3, <1>6, <1>7, ObserveCanonicalSolvent, Zenon DEF EndSource
<1>8. CASE SourceSeeds
  <2>1. CASE src.st = "live"
    <3> DEFINE u == [rev |-> src.rev, inc |-> src.inc, tomb |-> FALSE]
    <3>1. u \in Updates
      BY <2>1, <1>1, Zenon DEF BInv, RtSound, Updates
    <3>2. u.inc = src.inc /\ ~u.tomb
      OBVIOUS
    <3>3. SubscribeSource(u) /\ src' = src
      BY <1>8, <2>1, Zenon DEF SourceSeeds
    <3> HIDE DEF u
    <3>. QED BY <3>1, <3>2, <3>3, SubscribeSourceSolvent, Zenon
  <2>2. CASE src.st # "live"
    <3>1. /\ SubscribeSource(Emission(FALSE))
          /\ src' = [src EXCEPT !.st = "live", !.rev = src.rev + 1]
      BY <1>8, <2>2, Zenon DEF SourceSeeds
    <3>2. src'.inc = src.inc
      BY <1>1, <3>1, Zenon DEF Sources
    <3>. QED BY <1>3, <3>1, <3>2, SubscribeSourceSolvent, Zenon
  <2>. QED BY <2>1, <2>2
<1>9. CASE SourceStartFailure
  BY <1>4, <1>5, <1>9, SourceStartFailsSolvent, Zenon DEF SourceStartFailure
<1>10. CASE SourceEmits
  <2>1. src' = [src EXCEPT !.rev = src.rev + 1] /\ src.st = "live"
    BY <1>10, Zenon DEF SourceEmits
  <2>2. src'.inc = src.inc /\ src'.st = src.st
    BY <1>1, <2>1, Zenon DEF Sources
  <2>3. Later(src', src) /\ Lives(src)
    BY <1>2, <2>1, <2>2, Zenon DEF Later, Lives
  <2>. QED BY <1>3, <1>10, <2>3, ObserveCanonicalSolvent, Zenon DEF SourceEmits
<1>11. CASE SourceCloses
  BY <1>7, <1>11, Zenon DEF SourceCloses, Lives
<1>12. CASE SourceCaptureFails
  <2>1. src' = [src EXCEPT !.st = "disposing"] /\ src.st = "live"
    BY <1>12, Zenon DEF SourceCaptureFails
  <2>2. src'.inc = src.inc
    BY <1>1, <2>1, Zenon DEF Sources
  <2>3. Later(src', src)
    BY <1>2, <2>1, <2>2, Zenon DEF Later, Lives
  <2>. QED BY <1>4, <1>12, <2>3, FailPaneCaptureSolvent, Zenon DEF SourceCaptureFails
<1>13. CASE SourceDisposed
  BY <1>7, <1>13, Zenon DEF SourceDisposed, Lives
<1>14. CASE ControlExits
  <2>1. Solvent(pane', hc', src)
    BY <1>14, ResetSolvent, Zenon DEF ControlExits
  <2>2. src' = [st |-> "absent", inc |-> src.inc + 1,
                rev |-> IF src.st = "live" THEN src.rev + 1 ELSE src.rev]
    BY <1>14, Zenon DEF ControlExits
  <2>3. Later(src', src)
    BY <1>6, <2>2, Zenon
  <2>. QED BY <1>4, <2>1, <2>3
<1>15. CASE RuntimeDisposes
  <2>1. CASE src.st = "absent"
    <3>1. UNCHANGED hubVars /\ src' = [src EXCEPT !.st = "shut"]
      BY <1>15, <2>1, Zenon DEF RuntimeDisposes
    <3>2. src'.inc = src.inc /\ src'.st = "shut"
      BY <1>1, <3>1, Zenon DEF Sources
    <3>3. Later(src', src)
      BY <1>2, <3>2, Zenon DEF Later, Lives
    <3>. QED BY <1>4, <3>1, <3>3, UnchangedSolvent, Zenon
  <2>2. CASE src.st # "absent"
    <3>1. Lives(src)
      BY <1>1, <1>15, <2>2, Zenon DEF RuntimeDisposes, Sources, Lives
    <3>2. /\ ObserveCanonical(Emission(TRUE))
          /\ src' = [st |-> "shut", inc |-> src.inc + 1, rev |-> src.rev + 1]
      BY <1>15, <2>2, Zenon DEF RuntimeDisposes
    <3>. QED BY <1>3, <1>6, <3>1, <3>2, ObserveCanonicalSolvent, Zenon
  <2>. QED BY <2>1, <2>2
<1>16. CASE StartCancelled
  BY <1>4, <1>5, <1>16, SourceStartFailsSolvent, Zenon DEF StartCancelled
<1>17. CASE HubCloses
  BY <1>4, <1>5, <1>17, ResetSolvent, Zenon DEF HubCloses, CloseHub
<1>. QED BY <1>8, <1>9, <1>10, <1>11, <1>12, <1>13, <1>14, <1>15, <1>16, <1>17, Zenon
         DEF SourceStep

-----------------------------------------------------------------------------
(* Every step *)

LEMMA InitSolvent == RtInit => BInv
<1> SUFFICES ASSUME RtInit PROVE BInv
  OBVIOUS
<1>1. IdleClient.st = "idle"
  BY Zenon DEF IdleClient
<1>2. pane = NoPane /\ hc = [c \in Clients |-> IdleClient]
  BY Zenon DEF RtInit, HubInit
<1>3. \A c \in Clients : \A i, v : Owes(hc[c], i, v) => i < src.inc
  BY <1>1, <1>2, IdleOwesNothing, Zenon
<1>4. Solvent(pane, hc, src)
  BY <1>2, <1>3, NoPaneSolvent, Zenon
<1>. QED BY <1>4, InitSound, Zenon DEF BInv

LEMMA PeerStepSolvent ==
  ASSUME BInv, NEW c \in Clients, PeerStep(c)
  PROVE  Solvent(pane', hc', src)
<1>1. CASE OpenRejects(c)
  BY <1>1, OpenRejectsSolvent
<1>2. CASE PeerReads(c)
  BY <1>2, Zenon DEF PeerReads, BInv
<1>3. CASE PeerAnswers(c)
  BY <1>3, AckSolvent, NackSolvent, PeerAssumption, Zenon DEF PeerAnswers
<1>4. CASE SinkFailed(c)
  BY <1>4, CloseClientSolvent, Zenon DEF SinkFailed
<1>5. CASE CloseConnection(c)
  BY <1>5, CloseClientSolvent, Zenon DEF CloseConnection
<1>. QED BY <1>1, <1>2, <1>3, <1>4, <1>5, Zenon DEF PeerStep

LEMMA ClientStepSolvent ==
  ASSUME BInv, NEW c \in Clients,
         OpenDelivery(c) \/ DeliveryStep(c) \/ VisibilityStep(c) \/ PeerStep(c)
  PROVE  Solvent(pane', hc', src)
<1>1. CASE OpenDelivery(c)
  BY <1>1, OpenSolvent, Zenon DEF OpenDelivery
<1>2. CASE DeliveryStep(c)
  BY <1>2, OpenResumeSolvent, DeliverMicrotaskSolvent, SenderTurnSolvent,
     CloseClientSolvent, BackgroundTimerSolvent, Zenon
     DEF DeliveryStep, MicrotaskStep, CreditStep, TimerStep, SenderMicrotask,
         SinkAccepted, OutOfBandSent
<1>3. CASE VisibilityStep(c)
  <2>1. PICK v \in {"visible", "background", "hidden"} : SetVisibility(c, v)
    BY <1>3, Zenon DEF VisibilityStep
  <2>. QED BY <2>1, SetVisibilitySolvent
<1>. QED BY <1>1, <1>2, <1>3, PeerStepSolvent, Zenon

LEMMA HubStepSolvent ==
  ASSUME BInv, HubStep \/ EncodingStep
  PROVE  Solvent(pane', hc', src)
<1>1. CASE HubStep
  BY <1>1, DrainStepSolvent, FinishReductionSolvent, ReductionFailsSolvent,
     SourceReadySolvent, CloseHubClientsSolvent, ReapPaneSolvent, Zenon DEF HubStep
<1>2. CASE EncodingStep
  BY <1>2, CompleteEncodingSolvent, Zenon DEF EncodingStep
<1>. QED BY <1>1, <1>2

LEMMA NextSolvent == BInv /\ [RtNext]_rtVars => BInv'
<1> SUFFICES ASSUME BInv, [RtNext]_rtVars PROVE BInv'
  OBVIOUS
<1>1. RtSound'
  BY NextSound, Zenon DEF BInv
<1>2. Solvent(pane', hc', src')
  <2>1. CASE UNCHANGED rtVars
    BY <2>1, Zenon DEF rtVars, hubVars, BInv
  <2>2. CASE SourceStep
    BY <1>1, <2>2, SourceStepSolvent
  <2>3. CASE HubStep \/ EncodingStep
    BY <1>1, <2>3, HubStepSolvent, HubStepSound, Zenon DEF BInv, RtSound
  <2>4. ASSUME NEW c \in Clients,
               OpenDelivery(c) \/ DeliveryStep(c) \/ VisibilityStep(c) \/ PeerStep(c)
        PROVE  Solvent(pane', hc', src')
    BY <2>4, ClientStepSolvent, ClientStepSound, Zenon DEF BInv, RtSound
  <2>. QED BY <2>1, <2>2, <2>3, <2>4, Zenon DEF RtNext
<1>. QED BY <1>1, <1>2, Zenon DEF BInv

\* pruneCanonicalRevisions never takes the baseline of a client in service that
\* may be sent a patch: what it last acknowledged of this incarnation is there.
THEOREM BaselineTheorem == RtSpec => []BaselineRetained
<1>1. BInv => BaselineRetained
  <2> SUFFICES ASSUME BInv, NEW c \in Clients,
                      IsOpen(c), ~hc[c].retire, ~hc[c].reseed,
                      hc[c].lastAck # None, pane.cur # Null,
                      hc[c].lastAck.inc = pane.inc
               PROVE  hc[c].base \in pane.revs
    BY Zenon DEF BaselineRetained
  <2>1. Owes(hc[c], pane.inc, hc[c].base)
    BY Zenon DEF Owes, IsOpen
  <2>. QED BY <2>1, Zenon DEF BInv, Solvent, Debts
<1>. QED BY <1>1, InitSolvent, NextSolvent, PTL DEF RtSpec

=============================================================================
