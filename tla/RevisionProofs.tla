---------------------------- MODULE RevisionProofs ----------------------------
(***************************************************************************)
(* What every step of the hub does to one lane, and what follows for the   *)
(* revisions that travel on lanes: they only move forward, and the hub     *)
(* keeps no more of them than it claims.                                   *)
(*                                                                         *)
(* A lane is a client's record and its socket's outgoing messages.  A step *)
(* of the hub is reduced to the few things it may do to a lane; invariants *)
(* of lanes are then preserved effect by effect, not action by action.     *)
(***************************************************************************)
EXTENDS SessionRuntimeProofs

-----------------------------------------------------------------------------
(* What may happen to a client's record *)

\* The same viewer with the same settled state.
Stays(s, r) ==
  s.st = r.st /\ s.base = r.base /\ s.reseed = r.reseed /\ s.lastAck = r.lastAck

\* The same promises to the viewer, too.
Same(s, r) ==
  /\ Stays(s, r) /\ s.retire = r.retire /\ s.oob = r.oob
  /\ s.out = r.out /\ s.flight = r.flight

\* Nothing but scheduling.
Alike(s, r) == Same(s, r) /\ s.enc = r.enc

\* At most an encoding was cancelled.
Undisturbed(s, r) == Same(s, r) /\ (s.enc = r.enc \/ s.enc = None)

\* The faults that do not accuse the viewer of a wrong answer.
Excuses == {m \in FaultMsgs : m.cause \notin Accusations}

\* A fault among ms replaces whatever was under way: behind the sender, which
\* then retires the client, or ahead of it.
Broken(s, r, ms) ==
  /\ r.st = "open" /\ Stays(s, r)
  /\ s.flight = None /\ s.enc = None
  /\ \E m \in FaultMsgs :
       /\ m \in ms
       /\ \/ s.out = <<m>> /\ s.retire /\ s.oob = r.oob
          \/ s.out = <<>> /\ s.retire = r.retire /\ s.oob = m

\* The current revision is to be encoded.
Encodes(s, r) ==
  /\ r.st = "open" /\ Same(s, r) /\ r.flight = None /\ r.enc = None
  /\ pane.cur # Null
  /\ s.enc = [rev |-> pane.cur, inc |-> pane.inc, base |-> r.base, reseed |-> r.reseed]

\* What an envelope carries: the current revision, or the one that was encoded
\* for this client; a patch only on top of a retained baseline.
Fits(e, r) ==
  /\ e \in Envelopes /\ e.txn > 0 /\ e.chunks > 0 /\ e.inc = pane.inc
  /\ \/ pane.cur # Null /\ e.rev = pane.cur
     \/ r.enc # None /\ e.rev = r.enc.rev /\ e.inc = r.enc.inc /\ r.base = r.enc.base
  /\ e.frame = "patch" => ~r.reseed /\ e.base = r.base /\ r.base \in pane.revs

\* A flight starts with its envelope.
Starts(s, r) ==
  /\ r.st = "open" /\ Stays(s, r) /\ s.retire = r.retire /\ s.oob = r.oob
  /\ r.flight = None /\ s.enc = None
  /\ \E e \in Envelopes : /\ Fits(e, r)
                          /\ s.flight = [env |-> e, next |-> 0]
                          /\ s.out = Append(r.out, e)

\* What a step that neither sends nor settles may do to an open client, if the
\* faults it records are among ms.
Turns(s, r, ms) ==
  Undisturbed(s, r) \/ Broken(s, r, ms) \/ Encodes(s, r) \/ Starts(s, r)

LEMMA AlikeTransitive ==
  /\ \A r : Alike(r, r) /\ Undisturbed(r, r)
  /\ \A r, s, t : Alike(s, r) /\ Alike(t, s) => Alike(t, r)
  /\ \A r, s, t : Undisturbed(s, r) /\ Alike(t, s) => Undisturbed(t, r)
<1>1. \A r : Alike(r, r) /\ Undisturbed(r, r)
  BY Zenon DEF Alike, Same, Stays, Undisturbed
<1>2. ASSUME NEW r, NEW s, NEW t, Same(s, r), Same(t, s)
      PROVE  Same(t, r)
  BY <1>2, Zenon DEF Same, Stays
<1>3. \A r, s, t : Alike(s, r) /\ Alike(t, s) => Alike(t, r)
  BY <1>2, Zenon DEF Alike
<1>4. \A r, s, t : Undisturbed(s, r) /\ Alike(t, s) => Undisturbed(t, r)
  BY <1>2, Zenon DEF Alike, Undisturbed
<1>. QED BY <1>1, <1>3, <1>4, Zenon

\* A client that is only scheduled differently before the step.
LEMMA AlikeTurns ==
  ASSUME NEW ms, NEW r, NEW s, NEW t, Alike(s, r), Turns(t, s, ms)
  PROVE  Turns(t, r, ms)
<1>1. CASE Undisturbed(t, s)
  BY <1>1, Zenon DEF Turns, Alike, Same, Stays, Undisturbed
<1>2. CASE Broken(t, s, ms)
  BY <1>2, Zenon DEF Turns, Alike, Same, Stays, Broken
<1>3. CASE Encodes(t, s)
  BY <1>3, Zenon DEF Turns, Alike, Same, Stays, Encodes
<1>4. CASE Starts(t, s)
  <2>1. \A e : Fits(e, s) => Fits(e, r)
    BY Zenon DEF Fits, Alike, Same, Stays
  <2>. QED BY <1>4, <2>1, Zenon DEF Turns, Alike, Same, Stays, Starts
<1>. QED BY <1>1, <1>2, <1>3, <1>4, Zenon DEF Turns

LEMMA ScheduleAlike ==
  ASSUME NEW r \in ClientStates
  PROVE  Alike(Schedule(r), r)
<1>1. Alike([r EXCEPT !.timer = TRUE], r)
  <2> DEFINE s == [r EXCEPT !.timer = TRUE]
  <2>1. /\ s.st = r.st /\ s.base = r.base /\ s.reseed = r.reseed
        /\ s.lastAck = r.lastAck /\ s.retire = r.retire /\ s.oob = r.oob
        /\ s.out = r.out /\ s.flight = r.flight /\ s.enc = r.enc
    BY Zenon DEF ClientStates
  <2> HIDE DEF s
  <2>2. Alike(s, r)
    BY <2>1, Zenon DEF Alike, Same, Stays
  <2>. QED BY <2>2 DEF s
<1>2. Alike([r EXCEPT !.sched = TRUE], r)
  <2> DEFINE s == [r EXCEPT !.sched = TRUE]
  <2>1. /\ s.st = r.st /\ s.base = r.base /\ s.reseed = r.reseed
        /\ s.lastAck = r.lastAck /\ s.retire = r.retire /\ s.oob = r.oob
        /\ s.out = r.out /\ s.flight = r.flight /\ s.enc = r.enc
    BY Zenon DEF ClientStates
  <2> HIDE DEF s
  <2>2. Alike(s, r)
    BY <2>1, Zenon DEF Alike, Same, Stays
  <2>. QED BY <2>2 DEF s
<1>. QED BY <1>1, <1>2, AlikeTransitive, Zenon DEF Schedule

\* #enqueue of an open client.
LEMMA EnqueueOpen ==
  ASSUME NEW r \in ClientStates, NEW m, r.st = "open"
  PROVE  /\ Stays(Enqueue(r, m), r) /\ Enqueue(r, m).out = Append(r.out, m)
         /\ Enqueue(r, m).retire = r.retire /\ Enqueue(r, m).oob = r.oob
         /\ Enqueue(r, m).flight = r.flight /\ Enqueue(r, m).enc = r.enc
<1> DEFINE o == Append(r.out, m)
           d == IF r.snd = "idle" THEN "queued" ELSE r.snd
           s == [r EXCEPT !.out = o, !.snd = d]
<1>1. Enqueue(r, m) = s
  BY Zenon DEF Enqueue
<1> HIDE DEF o, d
<1>2. /\ s.st = r.st /\ s.base = r.base /\ s.reseed = r.reseed
      /\ s.lastAck = r.lastAck /\ s.retire = r.retire /\ s.oob = r.oob
      /\ s.out = o /\ s.flight = r.flight /\ s.enc = r.enc
  BY Zenon DEF ClientStates
<1> HIDE DEF s
<1>. QED BY <1>1, <1>2, Zenon DEF Stays, o

\* A client whose work was dropped is told of a fault and retires.
LEMMA RetiresBroken ==
  ASSUME NEW ms, NEW r, NEW s \in ClientStates, NEW m \in FaultMsgs, m \in ms,
         r.st = "open",
         Stays(s, r), s.flight = None, s.enc = None, s.out = <<>>, s.oob = r.oob
  PROVE  /\ Broken([Enqueue(s, m) EXCEPT !.retire = TRUE], r, ms)
         /\ [Enqueue(s, m) EXCEPT !.retire = TRUE].oob = r.oob
<1> DEFINE q == Enqueue(s, m)
           t == [q EXCEPT !.retire = TRUE]
<1>1. q \in ClientStates
  BY EnqueueType, Zenon DEF Messages
<1>2. /\ Stays(q, s) /\ q.out = Append(s.out, m) /\ q.oob = s.oob
      /\ q.flight = s.flight /\ q.enc = s.enc
  BY EnqueueOpen, ZenonT(40) DEF Stays
<1>3. Append(s.out, m) = <<m>>
  BY SMT
<1> HIDE DEF q
<1>4. /\ t.st = q.st /\ t.base = q.base /\ t.reseed = q.reseed
      /\ t.lastAck = q.lastAck /\ t.retire = TRUE /\ t.oob = q.oob
      /\ t.out = q.out /\ t.flight = q.flight /\ t.enc = q.enc
  BY <1>1, Zenon DEF ClientStates
<1> HIDE DEF t
<1>5. Stays(t, r)
  BY <1>2, <1>4, Zenon DEF Stays
<1>6. t.flight = None /\ t.enc = None /\ t.out = <<m>> /\ t.retire /\ t.oob = r.oob
  BY <1>2, <1>3, <1>4, Zenon
<1>7. Broken(t, r, ms)
  BY <1>5, <1>6, Zenon DEF Broken
<1>. QED BY <1>6, <1>7 DEF t, q

LEMMA FaultBroken ==
  ASSUME NEW ms, NEW r \in ClientStates, NEW reason \in Reasons, NEW cause \in Causes,
         r.st = "open", FaultMsg(reason, cause) \in ms
  PROVE  Broken(Fault(r, reason, cause), r, ms)
<1> DEFINE kept == IF reason # "source-closed" THEN r.displaced
                   ELSE IF r.flight = None THEN None ELSE r.flight.env
           cleared == [r EXCEPT !.enc = None, !.out = <<>>, !.flight = None,
                                !.displaced = kept]
           m == FaultMsg(reason, cause)
           ahead == [cleared EXCEPT !.oob = m]
<1>1. m \in FaultMsgs /\ m \in ms
  BY FaultMsgType
<1>2. cleared \in ClientStates
  BY FaultClearedType
<1>3. /\ cleared.st = r.st /\ cleared.base = r.base /\ cleared.reseed = r.reseed
      /\ cleared.lastAck = r.lastAck /\ cleared.retire = r.retire
      /\ cleared.oob = r.oob /\ cleared.out = <<>> /\ cleared.flight = None
      /\ cleared.enc = None
  BY Zenon DEF ClientStates
<1> HIDE DEF cleared, m
<1>4. /\ ahead.st = cleared.st /\ ahead.base = cleared.base
      /\ ahead.reseed = cleared.reseed /\ ahead.lastAck = cleared.lastAck
      /\ ahead.retire = cleared.retire /\ ahead.oob = m /\ ahead.out = cleared.out
      /\ ahead.flight = cleared.flight /\ ahead.enc = cleared.enc
  BY <1>2, Zenon DEF ClientStates
<1> HIDE DEF ahead
<1>5. Stays(cleared, r) /\ Stays(ahead, r)
  BY <1>3, <1>4, Zenon DEF Stays
<1>6. Broken(ahead, r, ms)
  BY <1>1, <1>3, <1>4, <1>5, Zenon DEF Broken
<1>7. Broken([Enqueue(cleared, m) EXCEPT !.retire = TRUE], r, ms)
  BY <1>1, <1>2, <1>3, <1>5, RetiresBroken
<1>. QED BY <1>6, <1>7, Zenon DEF Fault, cleared, m, ahead

LEMMA ExcusedBroken ==
  ASSUME NEW r \in ClientStates, NEW reason \in Reasons,
         NEW cause \in Causes \ Accusations, r.st = "open"
  PROVE  Broken(Fault(r, reason, cause), r, Excuses)
<1>1. FaultMsg(reason, cause) \in FaultMsgs /\ FaultMsg(reason, cause).cause = cause
  BY FaultMsgType, Zenon DEF FaultMsg
<1>2. FaultMsg(reason, cause) \in Excuses
  BY <1>1, Zenon DEF Excuses
<1>. QED BY <1>2, FaultBroken

LEMMA ResetClientBroken ==
  ASSUME NEW r \in ClientStates
  PROVE  /\ r.st = "open" => Broken(ResetClient(r), r, Excuses)
         /\ ResetClient(r).oob = r.oob
         /\ r.st # "open" => ResetClient(r) = r
<1> DEFINE cleared == [r EXCEPT !.enc = None, !.out = <<>>, !.flight = None]
           m == FaultMsg("source-closed", "restarted")
<1>1. cleared \in ClientStates
  <2>1. <<>> \in Seq(Messages)
    BY SMT
  <2>2. ASSUME NEW o \in Seq(Messages)
        PROVE  [r EXCEPT !.enc = None, !.out = o, !.flight = None] \in ClientStates
    BY Zenon DEF ClientStates
  <2>. QED BY <2>1, <2>2, Zenon
<1>2. /\ cleared.st = r.st /\ cleared.base = r.base /\ cleared.reseed = r.reseed
      /\ cleared.lastAck = r.lastAck /\ cleared.oob = r.oob /\ cleared.out = <<>>
      /\ cleared.flight = None /\ cleared.enc = None
  BY Zenon DEF ClientStates
<1>3. m \in FaultMsgs /\ m \in Excuses
  <2>1. m \in FaultMsgs /\ m.cause = "restarted"
    <3>1. m \in FaultMsgs
      BY FaultMsgType, Zenon DEF Reasons, Causes
    <3>2. m.cause = "restarted"
      BY Zenon DEF FaultMsg
    <3>. QED BY <3>1, <3>2
  <2>. QED BY <2>1, Zenon DEF Excuses, Accusations
<1> HIDE DEF cleared, m
<1>4. Stays(cleared, r)
  BY <1>2, Zenon DEF Stays
<1>5. ASSUME r.st = "open"
      PROVE  /\ Broken([Enqueue(cleared, m) EXCEPT !.retire = TRUE], r, Excuses)
             /\ [Enqueue(cleared, m) EXCEPT !.retire = TRUE].oob = r.oob
  <2>1. /\ r.st = "open" /\ Stays(cleared, r) /\ cleared.flight = None
        /\ cleared.enc = None /\ cleared.out = <<>> /\ cleared.oob = r.oob
    BY <1>2, <1>4, <1>5, Zenon
  <2>. QED BY <1>1, <1>3, <2>1, RetiresBroken
<1>. QED BY <1>5, Zenon DEF ResetClient, cleared, m

LEMMA EnvelopeFields ==
  ASSUME NEW r \in ClientStates, NEW v \in Nat, NEW frame \in Frames,
         NEW n \in ChunkCounts, pane \in Panes
  PROVE  LET e == Envelope(r, v, frame, n) IN
         /\ e \in Envelopes /\ e.txn > 0 /\ e.chunks > 0
         /\ e.inc = pane.inc /\ e.rev = v /\ e.frame = frame
         /\ frame = "patch" => e.base = r.base
<1> DEFINE e == Envelope(r, v, frame, n)
<1>1. e \in Envelopes
  BY EnvelopeType
<1>2. e.txn = r.txn + 1 /\ e.chunks = n /\ e.inc = pane.inc /\ e.rev = v /\ e.frame = frame
  BY Zenon DEF Envelope
<1>3. frame = "patch" => e.base = r.base
  BY SMT DEF Envelope
<1>4. r.txn \in Nat /\ n \in Nat \ {0}
  BY BoundsAssumption, Zenon DEF ClientStates
<1> HIDE DEF e
<1>5. e.txn > 0 /\ e.chunks > 0
  BY <1>2, <1>4, SMT
<1>. QED BY <1>1, <1>2, <1>3, <1>5, Zenon DEF e

\* q is the client as its flight starts; r as the step found it.
LEMMA StartFlightStarts ==
  ASSUME NEW r, NEW q \in ClientStates, NEW v \in Nat, NEW frame \in Frames,
         NEW n \in ChunkCounts, pane \in Panes,
         r.st = "open", r.flight = None, q.enc = None, Stays(q, r),
         q.retire = r.retire, q.oob = r.oob, q.out = r.out,
         Fits(Envelope(q, v, frame, n), r)
  PROVE  Starts(StartFlight(q, v, frame, n), r)
<1> DEFINE e == Envelope(q, v, frame, n)
           f == [env |-> e, next |-> 0]
           s == [q EXCEPT !.flight = f, !.txn = q.txn + 1]
           t == Enqueue(s, e)
<1>1. s \in ClientStates
  BY StartedType
<1>2. e \in Envelopes
  BY EnvelopeType
<1>3. StartFlight(q, v, frame, n) = t
  BY Zenon DEF StartFlight
<1>4. /\ s.st = q.st /\ s.base = q.base /\ s.reseed = q.reseed
      /\ s.lastAck = q.lastAck /\ s.retire = q.retire /\ s.oob = q.oob
      /\ s.out = q.out /\ s.flight = f /\ s.enc = q.enc
  BY Zenon DEF ClientStates
<1> HIDE DEF e, s
<1>5. s.st = "open"
  BY <1>4, Zenon DEF Stays
<1>6. /\ Stays(t, s) /\ t.out = Append(s.out, e) /\ t.retire = s.retire
      /\ t.oob = s.oob /\ t.flight = s.flight /\ t.enc = s.enc
  BY <1>1, <1>5, EnqueueOpen
<1> HIDE DEF t
<1>7. Stays(t, r)
  BY <1>4, <1>6, Zenon DEF Stays
<1>8. /\ t.retire = r.retire /\ t.oob = r.oob /\ t.enc = None
      /\ t.flight = [env |-> e, next |-> 0] /\ t.out = Append(r.out, e)
  BY <1>4, <1>6, Zenon
<1>9. Fits(e, r)
  BY Zenon DEF e
<1>. QED BY <1>2, <1>3, <1>7, <1>8, <1>9, Zenon DEF Starts

LEMMA StartEncodingTurns ==
  ASSUME NEW r \in ClientStates, r.st = "open", r.flight = None, r.enc = None,
         pane.cur # Null
  PROVE  Turns(StartEncoding(r), r, Excuses)
<1> DEFINE x == [rev |-> pane.cur, inc |-> pane.inc, base |-> r.base,
                 reseed |-> r.reseed]
           s == [r EXCEPT !.enc = x]
<1>1. /\ s.st = r.st /\ s.base = r.base /\ s.reseed = r.reseed
      /\ s.lastAck = r.lastAck /\ s.retire = r.retire /\ s.oob = r.oob
      /\ s.out = r.out /\ s.flight = r.flight /\ s.enc = x
  BY Zenon DEF ClientStates
<1> HIDE DEF s
<1>2. Encodes(s, r)
  BY <1>1, Zenon DEF Encodes, Same, Stays
<1>3. Broken(Fault(r, "state-too-large", "encodings"), r, Excuses)
  BY ExcusedBroken, Zenon DEF Reasons, Causes, Accusations
<1>. QED BY <1>2, <1>3, Zenon DEF StartEncoding, Turns, s

LEMMA UnrepresentableBroken ==
  ASSUME NEW r \in ClientStates, r.st = "open", NEW t \in Unrepresentable(r)
  PROVE  Broken(t, r, Excuses)
<1>1. PICK reason \in Reasons : t = Fault(r, reason, "representation")
  BY Zenon DEF Unrepresentable, Reasons
<1>2. Broken(Fault(r, reason, "representation"), r, Excuses)
  BY ExcusedBroken, Zenon DEF Causes, Accusations
<1>. QED BY <1>1, <1>2

\* #deliver, of a client with nothing under way.
LEMMA DeliverTurns ==
  ASSUME NEW r \in ClientStates, pane \in Panes, r.st = "open",
         NEW next \in Deliver(r)
  PROVE  Turns(next, r, Excuses)
<1>1. CASE next = r
  BY <1>1, AlikeTransitive, Zenon DEF Turns
<1>2. CASE next # r
  <2>1. /\ pane.cur # Null /\ r.flight = None /\ r.enc = None
        /\ \/ next = Fault(r, "protocol-violation", "seed-of-tombstone")
           \/ \E f \in FramesFor(r), n \in ChunkCounts :
                next = StartFlight(r, pane.cur, f, n)
           \/ next = StartEncoding(r)
           \/ next \in Unrepresentable(r)
    BY <1>2, SMT DEF Deliver
  <2>2. pane.cur \in Nat
    BY <2>1, Zenon DEF Panes, Revs
  <2>3. CASE next = Fault(r, "protocol-violation", "seed-of-tombstone")
    BY <2>3, ExcusedBroken, Zenon DEF Reasons, Causes, Accusations, Turns
  <2>4. CASE next \in Unrepresentable(r)
    BY <2>4, UnrepresentableBroken, Zenon DEF Turns
  <2>5. CASE next = StartEncoding(r)
    BY <2>1, <2>5, StartEncodingTurns
  <2>6. ASSUME NEW f \in FramesFor(r), NEW n \in ChunkCounts
        PROVE  Turns(StartFlight(r, pane.cur, f, n), r, Excuses)
    <3>1. f \in Frames /\ (f = "patch" => ~r.reseed /\ r.base \in pane.revs)
      BY Zenon DEF FramesFor, PatchOrSeed, Frames
    <3> DEFINE e == Envelope(r, pane.cur, f, n)
    <3>2. /\ e \in Envelopes /\ e.txn > 0 /\ e.chunks > 0
          /\ e.inc = pane.inc /\ e.rev = pane.cur /\ e.frame = f
          /\ f = "patch" => e.base = r.base
      BY <2>2, <3>1, EnvelopeFields
    <3> HIDE DEF e
    <3>3. Fits(e, r)
      BY <2>1, <3>1, <3>2, Zenon DEF Fits
    <3>4. Starts(StartFlight(r, pane.cur, f, n), r)
      <4>1. Fits(Envelope(r, pane.cur, f, n), r)
        BY <3>3 DEF e
      <4>2. Stays(r, r)
        BY Zenon DEF Stays
      <4>. QED BY <2>1, <2>2, <3>1, <4>1, <4>2, StartFlightStarts
    <3>. QED BY <3>4, Zenon DEF Turns
  <2>. QED BY <2>1, <2>3, <2>4, <2>5, <2>6, Zenon
<1>. QED BY <1>1, <1>2

LEMMA PublishedTurns ==
  ASSUME NEW r \in ClientStates, NEW u \in Updates
  PROVE  /\ Undisturbed(Published(r, u), r) \/ Broken(Published(r, u), r, Excuses)
         /\ r.st # "open" => Published(r, u) = r
<1>1. u.rev \in Revs
  BY Zenon DEF Updates, Revs
<1>2. r.st = "open" => Broken(Fault(r, "source-closed", "tombstone"), r, Excuses)
  BY ExcusedBroken, Zenon DEF Reasons, Causes, Accusations
<1>3. ASSUME NEW x \in {r.enc, None}, NEW s, s = [r EXCEPT !.latest = u.rev, !.enc = x]
      PROVE  Undisturbed(Schedule(s), r)
  <2>1. x \in Encodings \cup {None}
    BY Zenon DEF ClientStates
  <2>2. /\ s \in ClientStates /\ s.st = r.st /\ s.base = r.base /\ s.reseed = r.reseed
        /\ s.lastAck = r.lastAck /\ s.retire = r.retire /\ s.oob = r.oob
        /\ s.out = r.out /\ s.flight = r.flight /\ s.enc = x
    BY <1>1, <1>3, <2>1, Zenon DEF ClientStates
  <2>3. Undisturbed(s, r)
    BY <2>2, Zenon DEF Undisturbed, Same, Stays
  <2>4. Alike(Schedule(s), s)
    BY <2>2, ScheduleAlike
  <2>. QED BY <2>3, <2>4, AlikeTransitive
<1>4. [r EXCEPT !.latest = u.rev] = [r EXCEPT !.latest = u.rev, !.enc = r.enc]
  BY Zenon DEF ClientStates
<1>5. /\ Undisturbed(Schedule([r EXCEPT !.latest = u.rev, !.enc = None]), r)
      /\ Undisturbed(Schedule([r EXCEPT !.latest = u.rev]), r)
  BY <1>3, <1>4, Zenon
<1>. QED BY <1>2, <1>5, AlikeTransitive, Zenon DEF Published

\* completeEncoding, of a client of the job.
LEMMA EncodedTurns ==
  ASSUME NEW r \in ClientStates, r.enc # None, r.st = "open", NEW ok,
         NEW next \in Encoded(r, ok), pane \in Panes
  PROVE  Turns(next, r, Excuses)
<1> DEFINE s == [r EXCEPT !.enc = None]
<1>1. /\ s \in ClientStates /\ s.st = r.st /\ s.base = r.base /\ s.reseed = r.reseed
      /\ s.lastAck = r.lastAck /\ s.retire = r.retire /\ s.oob = r.oob
      /\ s.out = r.out /\ s.flight = r.flight /\ s.enc = None
  BY Zenon DEF ClientStates
<1>2. \/ Superseded(r) /\ next = s
      \/ ~Superseded(r) /\ next \in Unrepresentable(s)
      \/ /\ ~Superseded(r)
         /\ \E f \in PatchOrSeed(r), n \in ChunkCounts :
              next = StartFlight(s, r.enc.rev, f, n)
  BY SMT DEF Encoded
<1> HIDE DEF s
<1>3. Undisturbed(s, r) /\ Stays(s, r)
  BY <1>1, Zenon DEF Undisturbed, Same, Stays
<1>4. CASE next = s
  BY <1>3, <1>4, Zenon DEF Turns
<1>5. CASE next \in Unrepresentable(s)
  <2>1. Broken(next, s, Excuses)
    BY <1>1, <1>5, UnrepresentableBroken
  <2>2. Broken(next, r, Excuses)
    BY <1>1, <2>1, Zenon DEF Broken, Stays
  <2>. QED BY <2>2, Zenon DEF Turns
<1>6. ASSUME ~Superseded(r), NEW f \in PatchOrSeed(r), NEW n \in ChunkCounts,
             next = StartFlight(s, r.enc.rev, f, n)
      PROVE  Turns(next, r, Excuses)
  <2>1. /\ r.base = r.enc.base /\ r.flight = None /\ pane.inc = r.enc.inc
    BY <1>6, Zenon DEF Superseded
  <2>2. r.enc.rev \in Nat
    <3>1. r.enc \in Encodings
      BY Zenon DEF ClientStates
    <3>. QED BY <3>1, Zenon DEF Encodings
  <2>3. f \in {"seed", "patch"} /\ (f = "patch" => ~r.reseed /\ r.base \in pane.revs)
    BY Zenon DEF PatchOrSeed
  <2> DEFINE e == Envelope(s, r.enc.rev, f, n)
  <2>4. /\ e \in Envelopes /\ e.txn > 0 /\ e.chunks > 0
        /\ e.inc = pane.inc /\ e.rev = r.enc.rev /\ e.frame = f
        /\ f = "patch" => e.base = r.base
    <3>1. f \in Frames
      BY <2>3, Zenon DEF Frames
    <3>. QED BY <1>1, <2>2, <3>1, EnvelopeFields
  <2> HIDE DEF e
  <2>5. Fits(e, r)
    BY <2>1, <2>3, <2>4, Zenon DEF Fits
  <2>6. Fits(Envelope(s, r.enc.rev, f, n), r)
    BY <2>5 DEF e
  <2>7. Starts(next, r)
    BY <1>1, <1>3, <1>6, <2>1, <2>2, <2>3, <2>6, StartFlightStarts, Zenon DEF Frames
  <2>. QED BY <2>7, Zenon DEF Turns
<1>. QED BY <1>2, <1>4, <1>5, <1>6, Zenon

\* The sender hands message m over: what is queued, or the flight's next chunk.
Sends(s, r, m) ==
  /\ r.st = "open" /\ Stays(s, r)
  /\ s.retire = r.retire /\ s.oob = r.oob /\ s.enc = r.enc
  /\ \/ /\ r.out # <<>> /\ m = Head(r.out) /\ s.out = Tail(r.out)
        /\ s.flight = r.flight
     \/ /\ r.out = <<>> /\ r.flight # None /\ r.flight.next < r.flight.env.chunks
        /\ m = [type |-> "chunk", txn |-> r.flight.env.txn, index |-> r.flight.next]
        /\ s.out = <<>>
        /\ s.flight = [env |-> r.flight.env, next |-> r.flight.next + 1]

LEMMA SentSends ==
  ASSUME NEW r \in ClientStates, r.st = "open", HasNext(r)
  PROVE  Sends(Sent(r), r, NextMessage(r))
<1>1. CASE r.out # <<>>
  <2> DEFINE d == IF TakenAtOnce(Head(r.out)) THEN "queued" ELSE "waiting"
             o == Tail(r.out)
             s == [r EXCEPT !.out = o, !.snd = d]
  <2>1. Sent(r) = s /\ NextMessage(r) = Head(r.out)
    BY <1>1, Zenon DEF Sent, NextMessage
  <2> HIDE DEF d, o
  <2>2. /\ s.st = r.st /\ s.base = r.base /\ s.reseed = r.reseed
        /\ s.lastAck = r.lastAck /\ s.retire = r.retire /\ s.oob = r.oob
        /\ s.out = o /\ s.flight = r.flight /\ s.enc = r.enc
    BY Zenon DEF ClientStates
  <2> HIDE DEF s
  <2>3. Stays(s, r)
    BY <2>2, Zenon DEF Stays
  <2>4. Sends(s, r, Head(r.out))
    BY <1>1, <2>2, <2>3, Zenon DEF Sends, o
  <2>. QED BY <2>1, <2>4, Zenon
<1>2. CASE r.out = <<>>
  <2>1. /\ r.flight # None /\ r.flight \in Flights
        /\ r.flight.next < r.flight.env.chunks
    <3>1. r.flight # None /\ r.flight.next < r.flight.env.chunks
      BY <1>2, Zenon DEF HasNext
    <3>2. r.flight \in Flights \cup {None}
      BY Zenon DEF ClientStates
    <3>. QED BY <3>1, <3>2
  <2> DEFINE k == r.flight.next + 1
             f == [r.flight EXCEPT !.next = k]
             s == [r EXCEPT !.flight = f, !.snd = "waiting"]
  <2>2. /\ Sent(r) = s
        /\ NextMessage(r) = [type |-> "chunk", txn |-> r.flight.env.txn,
                             index |-> r.flight.next]
    BY <1>2, Zenon DEF Sent, NextMessage
  <2> HIDE DEF k
  <2>3. f = [env |-> r.flight.env, next |-> k]
    <3>1. ASSUME NEW g \in Flights, NEW x
          PROVE  [g EXCEPT !.next = x] = [env |-> g.env, next |-> x]
      BY SMT DEF Flights
    <3>. QED BY <2>1, <3>1, Zenon
  <2> HIDE DEF f
  <2>4. /\ s.st = r.st /\ s.base = r.base /\ s.reseed = r.reseed
        /\ s.lastAck = r.lastAck /\ s.retire = r.retire /\ s.oob = r.oob
        /\ s.out = r.out /\ s.flight = f /\ s.enc = r.enc
    BY Zenon DEF ClientStates
  <2> HIDE DEF s
  <2>. QED BY <1>2, <2>1, <2>2, <2>3, <2>4, Zenon DEF Sends, Stays, k
<1>. QED BY <1>1, <1>2

\* The flight is answered; what was promised otherwise stands.
Settled(s, r) ==
  /\ r.flight # None /\ s.flight = None
  /\ s.st = r.st /\ s.retire = r.retire /\ s.oob = r.oob /\ s.out = r.out
  /\ s.enc = r.enc

Acked(s, r, a) ==
  /\ Settled(s, r) /\ r.flight.next = r.flight.env.chunks
  /\ Identifies(a, r.flight.env)
  /\ s.base = a.rev /\ s.lastAck = a /\ s.reseed = FALSE

Nacked(s, r) ==
  Settled(s, r) /\ s.base = r.base /\ s.lastAck = r.lastAck /\ s.reseed = TRUE

LEMMA AcknowledgedAcked ==
  ASSUME NEW r \in ClientStates, NEW a \in Acks, AckCompletes(r, a)
  PROVE  Acked(Schedule(Acknowledged(r, a)), r, a)
<1> DEFINE l == IF r.latest = a.rev THEN Null ELSE r.latest
           s == [r EXCEPT !.base = a.rev, !.reseed = FALSE, !.flight = None,
                          !.lastAck = a, !.latest = l]
<1>1. Acknowledged(r, a) = s
  BY Zenon DEF Acknowledged
<1>2. s \in ClientStates
  BY <1>1, AcknowledgedType
<1> HIDE DEF l
<1>3. /\ s.st = r.st /\ s.base = a.rev /\ s.reseed = FALSE
      /\ s.lastAck = a /\ s.retire = r.retire /\ s.oob = r.oob
      /\ s.out = r.out /\ s.flight = None /\ s.enc = r.enc
  BY Zenon DEF ClientStates
<1> HIDE DEF s
<1>4. Alike(Schedule(s), s)
  BY <1>2, ScheduleAlike
<1> DEFINE t == Schedule(s)
<1> HIDE DEF t
<1>5. Acked(t, r, a)
  BY <1>3, <1>4, Zenon DEF Acked, Settled, AckCompletes, Alike, Same, Stays, t
<1>. QED BY <1>1, <1>5 DEF t

LEMMA DroppedNacked ==
  ASSUME NEW r \in ClientStates, NEW n, NackMatches(r, n),
         NEW s, s = [[r EXCEPT !.reseed = TRUE] EXCEPT !.flight = None]
  PROVE  s \in ClientStates /\ Nacked(Schedule(s), r)
<1>1. /\ s \in ClientStates /\ s.st = r.st /\ s.base = r.base /\ s.reseed = TRUE
      /\ s.lastAck = r.lastAck /\ s.retire = r.retire /\ s.oob = r.oob
      /\ s.out = r.out /\ s.flight = None /\ s.enc = r.enc
  BY Zenon DEF ClientStates
<1>2. Alike(Schedule(s), s)
  BY <1>1, ScheduleAlike
<1> DEFINE t == Schedule(s)
<1> HIDE DEF t
<1>3. Nacked(t, r)
  BY <1>1, <1>2, Zenon DEF Nacked, Settled, NackMatches, Alike, Same, Stays, t
<1>. QED BY <1>1, <1>3 DEF t

\* A client of the hub that is not open: nothing was ever promised to it.
Waiting(r) == r.st \in {"opening", "resuming", "orphaned", "retired"}

Waits(s, r) ==
  /\ s.base = r.base /\ s.reseed = r.reseed /\ s.lastAck = r.lastAck
  /\ s.retire = r.retire /\ s.oob = r.oob /\ s.out = r.out
  /\ s.flight = r.flight /\ s.enc = r.enc

LEMMA AbandonedWaits ==
  ASSUME NEW r \in ClientStates, NEW p
  PROVE  \/ Abandoned(r, p) = r
         \/ Waiting(r) /\ Waiting(Abandoned(r, p)) /\ Waits(Abandoned(r, p), r)
<1> DEFINE s == [r EXCEPT !.st = "retired"]
           t == [r EXCEPT !.st = "orphaned", !.latest = p.cur]
<1>1. s.st = "retired" /\ Waits(s, r)
  BY Zenon DEF ClientStates, Waits
<1>2. t.st = "orphaned" /\ Waits(t, r)
  BY Zenon DEF ClientStates, Waits
<1> HIDE DEF s, t
<1>. QED BY <1>1, <1>2, Zenon DEF Abandoned, Waiting, s, t

\* A client that has just opened.
Fresh(s) ==
  /\ s.st = "open" /\ s.base = Null /\ s.reseed = FALSE /\ s.lastAck = None
  /\ s.retire = FALSE /\ s.oob = None /\ s.out = <<>> /\ s.flight = None
  /\ s.enc = None

LEMMA OpenedFresh ==
  ASSUME NEW v \in Revs
  PROVE  Fresh(Schedule([IdleClient EXCEPT !.st = "open", !.latest = v]))
<1> DEFINE s == [IdleClient EXCEPT !.st = "open", !.latest = v]
<1>1. s \in ClientStates
  BY IdleClientType, Zenon DEF ClientStates
<1>2. Fresh(s)
  BY Zenon DEF Fresh, IdleClient
<1> HIDE DEF s
<1>3. Alike(Schedule(s), s)
  BY <1>1, ScheduleAlike
<1> DEFINE t == Schedule(s)
<1> HIDE DEF t
<1>4. Fresh(t)
  BY <1>2, <1>3, Zenon DEF Fresh, Alike, Same, Stays, t
<1>. QED BY <1>4 DEF t, s

-----------------------------------------------------------------------------
(* What every step does to every lane *)

\* The faults that overtake their senders are on the wire at once.
OutOfBand(c) ==
  wire'[c] = IF hc'[c].oob \notin {None, hc[c].oob}
               THEN Append(wire[c], hc'[c].oob) ELSE wire[c]

\* The hub lets a client go: it has been told, or the hub has closed.
Detaches(c) ==
  /\ hc[c].st = "open" /\ hc'[c] = IdleClient /\ wire'[c] = wire[c]
  /\ hubClosed \/ hc[c].oob # None \/ (hc[c].retire /\ hc[c].out = <<>>)

\* An opening is refused on the sink.
TurnedAway(c) ==
  /\ hc[c].st = "opening" /\ hc'[c] = IdleClient
  /\ wire'[c] = Append(wire[c], FaultMsg("source-closed", "capture"))

\* What a step that records no fault but those among ms does to a lane whose
\* connection neither starts nor ends in it.
Moves(c, ms) ==
  \/ Turns(hc'[c], hc[c], ms) /\ OutOfBand(c)
  \/ \E m : Sends(hc'[c], hc[c], m) /\ wire'[c] = Append(wire[c], m)
  \/ Detaches(c) \/ TurnedAway(c)
  \/ /\ Waiting(hc[c]) /\ Waiting(hc'[c]) /\ Waits(hc'[c], hc[c])
     /\ wire'[c] = wire[c]
  \/ Joining(hc[c]) /\ Fresh(hc'[c]) /\ wire'[c] = wire[c]

AllMove(ms) == \A c \in Clients : Moves(c, ms)

LEMMA UndisturbedMoves ==
  ASSUME NEW ms, NEW c, Undisturbed(hc'[c], hc[c]), wire'[c] = wire[c]
  PROVE  Moves(c, ms)
<1>1. hc'[c].oob = hc[c].oob
  BY Zenon DEF Undisturbed, Same
<1>2. OutOfBand(c)
  BY <1>1, Zenon DEF OutOfBand
<1>. QED BY <1>2, Zenon DEF Moves, Turns

LEMMA IdleMoves ==
  ASSUME NEW ms, NEW c, hc'[c] = hc[c], wire'[c] = wire[c]
  PROVE  Moves(c, ms)
BY AlikeTransitive, UndisturbedMoves, Zenon

\* A step of one client, which may send a fault out of band.
LEMMA OneTurns ==
  ASSUME NEW ms, BInv, NEW c \in Clients, NEW r, hc' = [hc EXCEPT ![c] = r],
         Turns(r, hc[c], ms), SendOutOfBand
  PROVE  AllMove(ms)
<1>1. \A d \in Clients : hc'[d] = IF d = c THEN r ELSE hc[d]
  BY BInvTypes, Zenon
<1>2. \A d \in Clients : OutOfBand(d)
  BY Zenon DEF SendOutOfBand, OutOfBand
<1>3. \A d \in Clients : Turns(hc'[d], hc[d], ms)
  BY <1>1, AlikeTransitive, Zenon DEF Turns
<1>. QED BY <1>2, <1>3, Zenon DEF AllMove, Moves

LEMMA FaultClientMoves ==
  ASSUME NEW ms, BInv, NEW c \in Clients, IsOpen(c), NEW reason \in Reasons,
         NEW cause \in Causes, FaultMsg(reason, cause) \in ms,
         FaultClient(c, reason, cause)
  PROVE  AllMove(ms) /\ \A d \in Clients \ {c} : Moves(d, Excuses)
<1>1. Broken(Fault(hc[c], reason, cause), hc[c], ms)
  BY BInvTypes, FaultBroken, Zenon DEF IsOpen
<1>2. hc' = [hc EXCEPT ![c] = Fault(hc[c], reason, cause)] /\ SendOutOfBand
  BY Zenon DEF FaultClient
<1>3. Turns(Fault(hc[c], reason, cause), hc[c], ms)
  BY <1>1, Zenon DEF Turns
<1>4. AllMove(ms)
  BY <1>2, <1>3, OneTurns
<1>5. ASSUME NEW d \in Clients \ {c}
      PROVE  Moves(d, Excuses)
  <2>1. hc'[d] = hc[d] /\ wire'[d] = wire[d]
    BY <1>2, BInvTypes, Zenon DEF SendOutOfBand
  <2>. QED BY <2>1, IdleMoves, Zenon
<1>. QED BY <1>4, <1>5, Zenon

LEMMA SetVisibilityMoves ==
  ASSUME BInv, NEW c \in Clients, NEW v \in {"visible", "background", "hidden"},
         SetVisibility(c, v)
  PROVE  AllMove(Excuses)
<1> DEFINE e == IF v = "hidden" THEN None ELSE hc[c].enc
           r == [[hc[c] EXCEPT !.vis = v] EXCEPT !.enc = e]
<1>1. hc[c] \in ClientStates
  BY BInvTypes
<1>2. e \in Encodings \cup {None}
  BY <1>1, Zenon DEF ClientStates
<1>3. e = None \/ e = hc[c].enc
  OBVIOUS
<1> HIDE DEF e
<1>4. /\ r \in ClientStates /\ r.st = hc[c].st /\ r.base = hc[c].base
      /\ r.reseed = hc[c].reseed /\ r.lastAck = hc[c].lastAck
      /\ r.retire = hc[c].retire /\ r.oob = hc[c].oob /\ r.out = hc[c].out
      /\ r.flight = hc[c].flight /\ r.enc = e
  BY <1>1, <1>2, ZenonT(40) DEF ClientStates
<1>5. [hc EXCEPT ![c].vis = v, ![c].enc = IF v = "hidden" THEN None ELSE @]
        = [hc EXCEPT ![c] = r]
  BY BInvTypes, <1>1, Zenon DEF e, ClientStates
<1> HIDE DEF r
<1>6. \A d \in Clients : hc'[d] = IF d = c THEN Schedule(r) ELSE hc[d]
  <2>1. [hc EXCEPT ![c] = r][c] = r
    BY BInvTypes, Zenon
  <2>2. hc' = [[hc EXCEPT ![c] = r] EXCEPT ![c] = Schedule(r)]
    BY <1>5, <2>1, Zenon DEF SetVisibility
  <2>. QED BY <2>2, BInvTypes, Zenon
<1>7. Undisturbed(r, hc[c])
  BY <1>3, <1>4, Zenon DEF Undisturbed, Same, Stays
<1>8. Undisturbed(Schedule(r), hc[c])
  BY <1>4, <1>7, ScheduleAlike, AlikeTransitive
<1>9. UNCHANGED wire
  BY Zenon DEF SetVisibility
<1>. QED BY <1>6, <1>8, <1>9, IdleMoves, UndisturbedMoves, Zenon DEF AllMove

\* The delivery microtask and the background timer.
LEMMA DeliveryRunMoves ==
  ASSUME BInv, NEW c \in Clients, hc[c].st = "open", NEW r \in ClientStates,
         Alike(r, hc[c]), SendOutOfBand,
         \E next \in Deliver(r) \cup {r} : hc' = [hc EXCEPT ![c] = next]
  PROVE  AllMove(Excuses)
<1>1. PICK next \in Deliver(r) \cup {r} : hc' = [hc EXCEPT ![c] = next]
  OBVIOUS
<1>2. pane \in Panes /\ r.st = "open"
  BY BInvTypes, Zenon DEF Alike, Same, Stays
<1>3. Turns(next, r, Excuses)
  <2>1. CASE next \in Deliver(r)
    BY <1>2, <2>1, DeliverTurns
  <2>2. CASE next = r
    BY <2>2, AlikeTransitive, Zenon DEF Turns
  <2>. QED BY <2>1, <2>2
<1>4. Turns(next, hc[c], Excuses)
  BY <1>3, AlikeTurns
<1>. QED BY <1>1, <1>4, OneTurns

LEMMA DeliverMicrotaskMoves ==
  ASSUME BInv, NEW c \in Clients, DeliverMicrotask(c)
  PROVE  AllMove(Excuses)
<1> DEFINE r == [hc[c] EXCEPT !.sched = FALSE]
<1>1. /\ r \in ClientStates /\ r.st = hc[c].st /\ r.base = hc[c].base
      /\ r.reseed = hc[c].reseed /\ r.lastAck = hc[c].lastAck
      /\ r.retire = hc[c].retire /\ r.oob = hc[c].oob /\ r.out = hc[c].out
      /\ r.flight = hc[c].flight /\ r.enc = hc[c].enc
  <2>1. hc[c] \in ClientStates
    BY BInvTypes
  <2>. QED BY <2>1, ZenonT(40) DEF ClientStates
<1>2. /\ \E next \in Deliver(r) \cup {r} : hc' = [hc EXCEPT ![c] = next]
      /\ hc[c].st = "open" /\ SendOutOfBand
  BY Zenon DEF DeliverMicrotask, IsOpen
<1> HIDE DEF r
<1>3. Alike(r, hc[c])
  BY <1>1, Zenon DEF Alike, Same, Stays
<1>. QED BY <1>1, <1>2, <1>3, DeliveryRunMoves

LEMMA BackgroundTimerMoves ==
  ASSUME BInv, NEW c \in Clients, BackgroundTimer(c)
  PROVE  AllMove(Excuses)
<1> DEFINE r == [hc[c] EXCEPT !.timer = FALSE]
<1>1. /\ r \in ClientStates /\ r.st = hc[c].st /\ r.base = hc[c].base
      /\ r.reseed = hc[c].reseed /\ r.lastAck = hc[c].lastAck
      /\ r.retire = hc[c].retire /\ r.oob = hc[c].oob /\ r.out = hc[c].out
      /\ r.flight = hc[c].flight /\ r.enc = hc[c].enc
  <2>1. hc[c] \in ClientStates
    BY BInvTypes
  <2>. QED BY <2>1, ZenonT(40) DEF ClientStates
<1>2. /\ \E next \in Deliver(r) \cup {r} : hc' = [hc EXCEPT ![c] = next]
      /\ hc[c].st = "open" /\ SendOutOfBand
  BY Zenon DEF BackgroundTimer, IsOpen
<1> HIDE DEF r
<1>3. Alike(r, hc[c])
  BY <1>1, Zenon DEF Alike, Same, Stays
<1>. QED BY <1>1, <1>2, <1>3, DeliveryRunMoves

\* A client's promises fit together: it has one thing under way at a time,
\* which goes forward from the state it settled on, and a patch is for exactly
\* that state.  Nothing was promised to a client that is not open.
Sane(r) ==
  /\ r.base = IF r.lastAck = None THEN Null ELSE r.lastAck.rev
  /\ r.flight = None \/ r.enc = None
  /\ r.enc # None => r.enc.base <= r.enc.rev
  /\ r.flight # None =>
       /\ r.base <= r.flight.env.rev /\ r.flight.env.txn > 0
       /\ r.flight.env.chunks > 0 /\ r.flight.next <= r.flight.env.chunks
       /\ r.flight.env.frame = "patch" =>
            /\ ~r.reseed /\ r.flight.env.base = r.base
            /\ r.lastAck # None /\ r.flight.env.inc = r.lastAck.inc
  /\ r.st # "open" => r.lastAck = None /\ r.flight = None /\ r.enc = None

AllSane(clients) == \A c \in Clients : Sane(clients[c])

LEMMA CompleteEncodingMoves ==
  ASSUME BInv, AllSane(hc), NEW v, NEW ok, CompleteEncoding(v, ok)
  PROVE  AllMove(Excuses)
<1>1. ASSUME NEW c \in Clients, hc[c].enc # None, hc'[c] \in Encoded(hc[c], ok)
      PROVE  Turns(hc'[c], hc[c], Excuses)
  <2>1. hc[c] \in ClientStates /\ pane \in Panes
    BY BInvTypes
  <2>2. hc[c].st = "open"
    BY <1>1, Zenon DEF AllSane, Sane
  <2>. QED BY <1>1, <2>1, <2>2, EncodedTurns
<1>2. \A c \in Clients : Turns(hc'[c], hc[c], Excuses)
  BY <1>1, CompletedJob, AlikeTransitive, Zenon DEF Turns
<1>3. \A c \in Clients : OutOfBand(c)
  BY Zenon DEF CompleteEncoding, SendOutOfBand, OutOfBand
<1>. QED BY <1>2, <1>3, Zenon DEF AllMove, Moves

\* Every open client is faulted.
LEMMA FaultedMoves ==
  ASSUME NEW S, hc' = [c \in Clients |-> IF c \in S THEN hc'[c] ELSE hc[c]],
         \A c \in S : Broken(hc'[c], hc[c], Excuses), SendOutOfBand
  PROVE  AllMove(Excuses)
<1>1. \A c \in Clients : Turns(hc'[c], hc[c], Excuses)
  BY AlikeTransitive, Zenon DEF Turns
<1>2. \A c \in Clients : OutOfBand(c)
  BY Zenon DEF SendOutOfBand, OutOfBand
<1>. QED BY <1>1, <1>2, Zenon DEF AllMove, Moves

LEMMA FailPaneCaptureMoves ==
  ASSUME BInv, FailPaneCapture
  PROVE  AllMove(Excuses)
<1>1. ASSUME NEW r \in ClientStates, r.st = "open"
      PROVE  Broken(Fault([r EXCEPT !.gone = TRUE], "source-closed", "capture"), r, Excuses)
  <2> DEFINE s == [r EXCEPT !.gone = TRUE]
  <2>1. /\ s \in ClientStates /\ s.st = r.st /\ s.base = r.base
        /\ s.reseed = r.reseed /\ s.lastAck = r.lastAck /\ s.retire = r.retire
        /\ s.oob = r.oob
    BY Zenon DEF ClientStates
  <2> HIDE DEF s
  <2>2. Broken(Fault(s, "source-closed", "capture"), s, Excuses)
    BY <1>1, <2>1, ExcusedBroken, Zenon DEF Reasons, Causes, Accusations
  <2>3. Broken(Fault(s, "source-closed", "capture"), r, Excuses)
    <3> DEFINE t == Fault(s, "source-closed", "capture")
    <3> HIDE DEF t
    <3>1. Broken(t, r, Excuses)
      BY <1>1, <2>1, <2>2, Zenon DEF Broken, Stays, t
    <3>. QED BY <3>1 DEF t
  <2>. QED BY <2>3 DEF s
<1> DEFINE S == {c \in Clients : hc[c].st = "open" /\ ~hc[c].gone}
<1>2. /\ hc' = [c \in Clients |-> IF c \in S
                  THEN Fault([hc[c] EXCEPT !.gone = TRUE], "source-closed", "capture")
                  ELSE hc[c]]
      /\ SendOutOfBand
  BY Zenon DEF FailPaneCapture, IsOpen
<1>3. \A c \in S : Broken(hc'[c], hc[c], Excuses)
  BY <1>1, <1>2, BInvTypes, Zenon
<1>4. hc' = [c \in Clients |-> IF c \in S THEN hc'[c] ELSE hc[c]]
  BY <1>2, Zenon
<1> HIDE DEF S
<1>. QED BY <1>2, <1>3, <1>4, FaultedMoves

LEMMA AbortPaneMoves ==
  ASSUME BInv, NEW p, NEW reason \in Reasons, NEW cause \in Causes \ Accusations,
         AbortPane(p, reason, cause)
  PROVE  AllMove(Excuses)
<1> DEFINE S == {c \in Clients : IsOpen(c)}
<1>1. /\ hc' = [c \in Clients |-> IF c \in S THEN Fault(hc[c], reason, cause)
                                  ELSE hc[c]]
      /\ SendOutOfBand
  BY Zenon DEF AbortPane
<1>2. \A c \in S : Broken(hc'[c], hc[c], Excuses)
  BY <1>1, BInvTypes, ExcusedBroken, Zenon DEF IsOpen
<1>3. hc' = [c \in Clients |-> IF c \in S THEN hc'[c] ELSE hc[c]]
  BY <1>1, Zenon
<1> HIDE DEF S
<1>. QED BY <1>1, <1>2, <1>3, FaultedMoves

LEMMA PublishCanonicalMoves ==
  ASSUME BInv, NEW u \in Updates, NEW p, PublishCanonical(u, p)
  PROVE  AllMove(Excuses)
<1>1. hc' = [c \in Clients |-> Published(hc[c], u)] /\ SendOutOfBand
  BY Zenon DEF PublishCanonical
<1>2. \A c \in Clients : Turns(hc'[c], hc[c], Excuses)
  BY <1>1, BInvTypes, PublishedTurns, Zenon DEF Turns
<1>3. \A c \in Clients : OutOfBand(c)
  BY <1>1, Zenon DEF SendOutOfBand, OutOfBand
<1>. QED BY <1>2, <1>3, Zenon DEF AllMove, Moves

\* The pane goes, after its clients stepped quietly.
LEMMA RemovedMoves ==
  ASSUME NEW clients, NEW p, UNCHANGED wire,
         hc' = [c \in Clients |-> Abandoned(clients[c], p)],
         NEW c \in Clients, clients[c] = hc[c], hc[c] \in ClientStates
  PROVE  Moves(c, Excuses)
<1>1. hc'[c] = Abandoned(hc[c], p)
  BY Zenon
<1>2. CASE Abandoned(hc[c], p) = hc[c]
  BY <1>1, <1>2, IdleMoves, Zenon
<1>3. CASE Waiting(hc[c]) /\ Waiting(hc'[c]) /\ Waits(hc'[c], hc[c])
  BY <1>3, Zenon DEF Moves
<1>. QED BY <1>1, <1>2, <1>3, AbandonedWaits, Zenon

\* The other clients when one is closed, and that client.
LEMMA CloseClientMoves ==
  ASSUME BInv, NEW c \in Clients, CloseClient(c)
  PROVE  /\ hc'[c] = IdleClient
         /\ UNCHANGED wire => \A d \in Clients \ {c} : Moves(d, Excuses)
         /\ \A d \in Clients \ {c} :
              hc'[d] = hc[d] \/ (/\ Waiting(hc[d]) /\ Waiting(hc'[d])
                                 /\ Waits(hc'[d], hc[d]))
<1> DEFINE rest == [hc EXCEPT ![c] = IdleClient]
<1>1. \A d \in Clients : rest[d] = IF d = c THEN IdleClient ELSE hc[d]
  BY BInvTypes, Zenon
<1>2. IdleClient.st = "idle"
  BY Zenon DEF IdleClient
<1>3. \/ hc' = rest
      \/ hc' = [d \in Clients |-> Abandoned(rest[d], pane)]
  BY Zenon DEF CloseClient, RemovePane
<1> HIDE DEF rest
<1>4. hc'[c] = IdleClient
  BY <1>1, <1>2, <1>3, Zenon DEF Abandoned
<1>5. \A d \in Clients \ {c} :
        hc'[d] = hc[d] \/ (/\ Waiting(hc[d]) /\ Waiting(hc'[d])
                           /\ Waits(hc'[d], hc[d]))
  BY <1>1, <1>3, BInvTypes, AbandonedWaits, ZenonT(40)
<1>6. ASSUME UNCHANGED wire, NEW d \in Clients \ {c}
      PROVE  Moves(d, Excuses)
  BY <1>5, <1>6, IdleMoves, Zenon DEF Moves
<1>. QED BY <1>4, <1>5, <1>6, Zenon

LEMMA SenderTurnMoves ==
  ASSUME BInv, NEW c \in Clients, IsOpen(c), SenderTurn(c)
  PROVE  AllMove(Excuses)
<1>1. hc[c] \in ClientStates /\ hc[c].st = "open"
  BY BInvTypes, Zenon DEF IsOpen
<1>2. CASE HasNext(hc[c])
  <2>1. /\ hc' = [hc EXCEPT ![c] = Sent(hc[c])]
        /\ wire' = [wire EXCEPT ![c] = Append(wire[c], NextMessage(hc[c]))]
    BY <1>2, Zenon DEF SenderTurn
  <2>2. wire \in [Clients -> Seq(Messages)]
    BY Zenon DEF BInv, RtSound, HubSound, HubTypeOK
  <2>3. \A d \in Clients \ {c} : hc'[d] = hc[d] /\ wire'[d] = wire[d]
    BY <2>1, <2>2, BInvTypes, Zenon
  <2>4. hc'[c] = Sent(hc[c]) /\ wire'[c] = Append(wire[c], NextMessage(hc[c]))
    BY <2>1, <2>2, BInvTypes, Zenon
  <2>5. Sends(hc'[c], hc[c], NextMessage(hc[c]))
    BY <1>1, <1>2, <2>4, SentSends, Zenon
  <2>. QED BY <2>3, <2>4, <2>5, IdleMoves, Zenon DEF AllMove, Moves
<1>3. CASE ~HasNext(hc[c]) /\ hc[c].retire
  <2>1. CloseClient(c) /\ UNCHANGED wire
    BY <1>3, Zenon DEF SenderTurn
  <2>2. Detaches(c)
    BY <1>1, <1>3, <2>1, CloseClientMoves, Zenon DEF Detaches, HasNext
  <2>. QED BY <2>1, <2>2, CloseClientMoves, Zenon DEF AllMove, Moves
<1>4. CASE ~HasNext(hc[c]) /\ ~hc[c].retire
  <2> DEFINE r == [hc[c] EXCEPT !.snd = "idle"]
  <2>1. hc' = [hc EXCEPT ![c] = r] /\ UNCHANGED wire
    BY <1>4, Zenon DEF SenderTurn
  <2>2. /\ r.st = hc[c].st /\ r.base = hc[c].base /\ r.reseed = hc[c].reseed
        /\ r.lastAck = hc[c].lastAck /\ r.retire = hc[c].retire
        /\ r.oob = hc[c].oob /\ r.out = hc[c].out /\ r.flight = hc[c].flight
        /\ r.enc = hc[c].enc
    BY <1>1, Zenon DEF ClientStates
  <2> HIDE DEF r
  <2>3. Undisturbed(r, hc[c])
    BY <2>2, Zenon DEF Undisturbed, Same, Stays
  <2>4. \A d \in Clients : hc'[d] = IF d = c THEN r ELSE hc[d]
    BY <2>1, BInvTypes, Zenon
  <2>. QED BY <2>1, <2>3, <2>4, IdleMoves, UndisturbedMoves, Zenon DEF AllMove
<1>. QED BY <1>2, <1>3, <1>4

LEMMA OutOfBandSentMoves ==
  ASSUME BInv, NEW c \in Clients, OutOfBandSent(c)
  PROVE  AllMove(Excuses)
<1>1. CloseClient(c) /\ UNCHANGED wire /\ hc[c].st = "open" /\ hc[c].oob # None
  BY Zenon DEF OutOfBandSent, IsOpen
<1>2. Detaches(c)
  BY <1>1, CloseClientMoves, Zenon DEF Detaches
<1>. QED BY <1>1, <1>2, CloseClientMoves, Zenon DEF AllMove, Moves

LEMMA OpenResumeMoves ==
  ASSUME BInv, NEW c \in Clients, OpenResume(c)
  PROVE  AllMove(Excuses)
<1> DEFINE v == IF hc[c].st = "resuming" THEN pane.cur ELSE hc[c].latest
           r == Schedule([IdleClient EXCEPT !.st = "open", !.latest = v])
<1>1. v \in Revs
  <2>1. pane.cur \in Revs /\ hc[c].latest \in Revs
    BY BInvTypes, Zenon DEF Panes, ClientStates
  <2>. QED BY <2>1, Zenon
<1>2. /\ hc' = [hc EXCEPT ![c] = r] /\ UNCHANGED wire /\ Joining(hc[c])
  BY Zenon DEF OpenResume, Joining
<1> HIDE DEF v
<1>3. Fresh(r)
  BY <1>1, OpenedFresh
<1> HIDE DEF r
<1>4. \A d \in Clients : hc'[d] = IF d = c THEN r ELSE hc[d]
  BY <1>2, BInvTypes, Zenon
<1>. QED BY <1>2, <1>3, <1>4, IdleMoves, Zenon DEF AllMove, Moves

LEMMA CloseHubClientsMoves ==
  ASSUME CloseHubClients
  PROVE  AllMove(Excuses)
<1>1. /\ hubClosed /\ UNCHANGED wire
      /\ hc' = [c \in Clients |-> IF IsOpen(c) THEN IdleClient ELSE hc[c]]
  BY Zenon DEF CloseHubClients
<1>2. ASSUME NEW c \in Clients
      PROVE  Moves(c, Excuses)
  <2>1. CASE IsOpen(c)
    BY <1>1, <2>1, Zenon DEF IsOpen, Moves, Detaches
  <2>2. CASE ~IsOpen(c)
    BY <1>1, <2>2, IdleMoves, Zenon
  <2>. QED BY <2>1, <2>2
<1>. QED BY <1>2, Zenon DEF AllMove

LEMMA SourceInvalidMoves ==
  ASSUME BInv, NEW p, SourceInvalid(p)
  PROVE  AllMove(Excuses)
BY AbortPaneMoves, Zenon DEF SourceInvalid, Reasons, Causes, Accusations

LEMMA QuietMoves ==
  ASSUME NEW ms, UNCHANGED <<hc, wire>>
  PROVE  AllMove(ms)
BY IdleMoves, Zenon DEF AllMove

LEMMA DrainStepMoves ==
  ASSUME BInv, DrainStep
  PROVE  AllMove(Excuses)
<1> DEFINE rest == [pane EXCEPT !.queue = Tail(pane.queue)]
<1>1. CASE UNCHANGED <<hc, wire>>
  BY <1>1, QuietMoves
<1>2. CASE pane.queue # <<>> /\ PublishCanonical(Head(pane.queue), rest)
  <2>1. pane.queue \in Seq(Updates)
    BY BInvTypes, Zenon DEF Panes
  <2>2. Head(pane.queue) \in Updates
    BY <1>2, <2>1, QueueElements, Zenon
  <2>. QED BY <1>2, <2>2, PublishCanonicalMoves
<1>3. CASE SourceInvalid(rest)
  BY <1>3, SourceInvalidMoves
<1>. QED BY <1>1, <1>2, <1>3, Zenon DEF DrainStep

LEMMA FinishReductionMoves ==
  ASSUME BInv, FinishReduction
  PROVE  AllMove(Excuses)
<1>1. CASE UNCHANGED <<hc, wire>>
  BY <1>1, QuietMoves
<1>2. CASE pane.drain = "reducing" /\ PublishCanonical(pane.held, pane)
  <2>1. pane.held \in Updates
    <3>1. pane.held \in Updates \cup {None} /\ pane.held # None
      BY <1>2, BInvTypes, Zenon DEF SoundPanes, Panes
    <3>. QED BY <3>1
  <2>. QED BY <1>2, <2>1, PublishCanonicalMoves
<1>. QED BY <1>1, <1>2, Zenon DEF FinishReduction

LEMMA ReapPaneMoves ==
  ASSUME BInv, ReapPane
  PROVE  AllMove(Excuses)
<1>1. hc' = [c \in Clients |-> Abandoned(hc[c], pane)] /\ UNCHANGED wire
  BY Zenon DEF ReapPane, RemovePane
<1>2. \A c \in Clients : hc[c] \in ClientStates
  BY BInvTypes
<1>3. \A c \in Clients : Moves(c, Excuses)
  BY <1>1, <1>2, RemovedMoves
<1>. QED BY <1>3, Zenon DEF AllMove

LEMMA ResetMoves ==
  ASSUME BInv, ResetForSessionRestart, UNCHANGED wire
  PROVE  AllMove(Excuses)
<1>1. hc' = [c \in Clients |-> Abandoned(ResetClient(hc[c]), pane)]
  BY Zenon DEF ResetForSessionRestart, RemovePane
<1>2. ASSUME NEW c \in Clients
      PROVE  Moves(c, Excuses)
  <2>1. hc[c] \in ClientStates
    BY BInvTypes
  <2>2. CASE hc[c].st = "open"
    <3>1. Broken(ResetClient(hc[c]), hc[c], Excuses) /\ ResetClient(hc[c]).oob = hc[c].oob
      BY <2>1, <2>2, ResetClientBroken
    <3>2. ResetClient(hc[c]).st = "open"
      BY <2>2, <3>1, Zenon DEF Broken, Stays
    <3>3. Abandoned(ResetClient(hc[c]), pane) = ResetClient(hc[c])
      BY <3>2, Zenon DEF Abandoned
    <3>4. Turns(hc'[c], hc[c], Excuses) /\ hc'[c].oob = hc[c].oob
      BY <1>1, <3>1, <3>3, Zenon DEF Turns
    <3>. QED BY <3>4, Zenon DEF Moves, OutOfBand
  <2>3. CASE hc[c].st # "open"
    <3> DEFINE clients == [d \in Clients |-> ResetClient(hc[d])]
    <3>1. hc' = [d \in Clients |-> Abandoned(clients[d], pane)]
      BY <1>1, Zenon
    <3>2. clients[c] = hc[c]
      BY <2>1, <2>3, ResetClientBroken, Zenon
    <3> HIDE DEF clients
    <3>. QED BY <2>1, <3>1, <3>2, RemovedMoves
  <2>. QED BY <2>2, <2>3
<1>. QED BY <1>2, Zenon DEF AllMove

LEMMA SourceReadyMoves ==
  ASSUME BInv, SourceReady
  PROVE  AllMove(Excuses)
<1>1. \A c \in Clients : hc[c] \in ClientStates
  BY BInvTypes
<1>2. CASE pane.aborted
  <2>1. hc' = [c \in Clients |-> Abandoned(hc[c], pane)] /\ UNCHANGED wire
    BY <1>2, Zenon DEF SourceReady
  <2>2. \A c \in Clients : Moves(c, Excuses)
    BY <1>1, <2>1, RemovedMoves
  <2>. QED BY <2>2, Zenon DEF AllMove
<1>3. CASE ~pane.aborted
  <2>1. /\ hc' = [c \in Clients |-> IF hc[c].st = "opening"
                    THEN [hc[c] EXCEPT !.st = "resuming"] ELSE hc[c]]
        /\ UNCHANGED wire
    BY <1>3, Zenon DEF SourceReady
  <2>2. ASSUME NEW r \in ClientStates, r.st = "opening",
               NEW s, s = [r EXCEPT !.st = "resuming"]
        PROVE  Waiting(r) /\ Waiting(s) /\ Waits(s, r)
    BY <2>2, Zenon DEF ClientStates, Waiting, Waits
  <2>3. ASSUME NEW c \in Clients
        PROVE  Moves(c, Excuses)
    <3>1. CASE hc[c].st = "opening"
      <4>1. hc'[c] = [hc[c] EXCEPT !.st = "resuming"]
        BY <2>1, <3>1, Zenon
      <4>2. Waiting(hc[c]) /\ Waiting(hc'[c]) /\ Waits(hc'[c], hc[c])
        BY <1>1, <2>2, <3>1, <4>1
      <4>. QED BY <2>1, <4>2, Zenon DEF Moves
    <3>2. CASE hc[c].st # "opening"
      BY <2>1, <3>2, IdleMoves, Zenon
    <3>. QED BY <3>1, <3>2
  <2>. QED BY <2>3, Zenon DEF AllMove
<1>. QED BY <1>2, <1>3

LEMMA SourceStartFailsMoves ==
  ASSUME BInv, NEW capture \in BOOLEAN, SourceStartFails(capture)
  PROVE  AllMove(Excuses)
<1>1. /\ hc' = [c \in Clients |->
                  IF hc[c].st # "opening" THEN hc[c]
                  ELSE IF capture THEN IdleClient ELSE [hc[c] EXCEPT !.st = "retired"]]
      /\ wire' = [c \in Clients |->
                    IF hc[c].st = "opening" /\ capture
                      THEN Append(wire[c], FaultMsg("source-closed", "capture"))
                      ELSE wire[c]]
  BY Zenon DEF SourceStartFails
<1>2. ASSUME NEW r \in ClientStates, r.st = "opening",
             NEW s, s = [r EXCEPT !.st = "retired"]
      PROVE  Waiting(r) /\ Waiting(s) /\ Waits(s, r)
  BY <1>2, Zenon DEF ClientStates, Waiting, Waits
<1>3. ASSUME NEW c \in Clients
      PROVE  Moves(c, Excuses)
  <2>1. CASE hc[c].st = "opening" /\ capture
    BY <1>1, <2>1, Zenon DEF Moves, TurnedAway
  <2>2. CASE hc[c].st = "opening" /\ ~capture
    <3>1. hc'[c] = [hc[c] EXCEPT !.st = "retired"] /\ wire'[c] = wire[c]
      BY <1>1, <2>2, Zenon
    <3>2. Waiting(hc[c]) /\ Waiting(hc'[c]) /\ Waits(hc'[c], hc[c])
      BY <1>2, <2>2, <3>1, BInvTypes
    <3>. QED BY <3>1, <3>2, Zenon DEF Moves
  <2>3. CASE hc[c].st # "opening"
    BY <1>1, <2>3, IdleMoves, Zenon
  <2>. QED BY <2>1, <2>2, <2>3
<1>. QED BY <1>3, Zenon DEF AllMove

LEMMA ObserveCanonicalMoves ==
  ASSUME BInv, NEW u, ObserveCanonical(u)
  PROVE  AllMove(Excuses)
<1>1. CASE UNCHANGED <<hc, wire>>
  BY <1>1, QuietMoves
<1>2. CASE AbortPane(pane, "state-too-large", "pending-budget")
  BY <1>2, AbortPaneMoves, Zenon DEF Reasons, Causes, Accusations
<1>. QED BY <1>1, <1>2, Zenon DEF ObserveCanonical, hubVars

\* The steps in which no connection starts or ends at its socket.
LEMMA SourceStepMoves ==
  ASSUME BInv, SourceStep
  PROVE  AllMove(Excuses)
<1>1. CASE SourceSeeds
  BY <1>1, QuietMoves, Zenon DEF SourceSeeds, SubscribeSource
<1>2. CASE SourceStartFailure \/ StartCancelled
  BY <1>2, SourceStartFailsMoves, Zenon DEF SourceStartFailure, StartCancelled
<1>3. CASE SourceEmits \/ SourceCloses \/ SourceDisposed
  BY <1>3, ObserveCanonicalMoves, Zenon DEF SourceEmits, SourceCloses, SourceDisposed,
     EndSource
<1>4. CASE SourceCaptureFails
  BY <1>4, FailPaneCaptureMoves, Zenon DEF SourceCaptureFails
<1>5. CASE ControlExits \/ HubCloses
  BY <1>5, ResetMoves, Zenon DEF ControlExits, HubCloses, CloseHub
<1>6. CASE RuntimeDisposes
  BY <1>6, ObserveCanonicalMoves, QuietMoves, Zenon DEF RuntimeDisposes, hubVars
<1>. QED BY <1>1, <1>2, <1>3, <1>4, <1>5, <1>6, Zenon DEF SourceStep

LEMMA StepMoves ==
  ASSUME BInv, AllSane(hc),
         \/ SourceStep \/ HubStep \/ EncodingStep
         \/ \E c \in Clients : DeliveryStep(c) \/ VisibilityStep(c)
  PROVE  AllMove(Excuses)
<1>1. CASE SourceStep
  BY <1>1, SourceStepMoves
<1>2. CASE HubStep
  BY <1>2, DrainStepMoves, FinishReductionMoves, SourceInvalidMoves,
     SourceReadyMoves, CloseHubClientsMoves, ReapPaneMoves, Zenon
     DEF HubStep, ReductionFails
<1>3. CASE EncodingStep
  BY <1>3, CompleteEncodingMoves, Zenon DEF EncodingStep
<1>4. ASSUME NEW c \in Clients, DeliveryStep(c)
      PROVE  AllMove(Excuses)
  BY <1>4, OpenResumeMoves, DeliverMicrotaskMoves, SenderTurnMoves,
     OutOfBandSentMoves, BackgroundTimerMoves, Zenon
     DEF DeliveryStep, MicrotaskStep, CreditStep, TimerStep, SenderMicrotask,
         SinkAccepted
<1>5. ASSUME NEW c \in Clients, VisibilityStep(c)
      PROVE  AllMove(Excuses)
  <2>1. PICK v \in {"visible", "background", "hidden"} : SetVisibility(c, v)
    BY <1>5, Zenon DEF VisibilityStep
  <2>. QED BY <2>1, SetVisibilityMoves
<1>. QED BY <1>1, <1>2, <1>3, <1>4, <1>5

-----------------------------------------------------------------------------
(* The steps in which a peer or its connection takes part *)

\* A connection starts.
Opens(c) ==
  /\ hc[c].st = "idle" /\ Waiting(hc'[c]) /\ Waits(hc'[c], hc[c])
  /\ wire[c] = <<>> /\ wire'[c] = wire[c]
  /\ \A d \in Clients \ {c} : Moves(d, Excuses)

\* ... is given up ...
Ends(c) ==
  /\ hc'[c] = IdleClient /\ wire'[c] = <<>>
  /\ \A d \in Clients \ {c} : Moves(d, Excuses)

\* ... and its delivery is answered.
Accepts(c, a) ==
  /\ Acked(hc'[c], hc[c], a) /\ hc[c].st = "open" /\ wire'[c] = wire[c]
  /\ \A d \in Clients \ {c} : Moves(d, Excuses)

Refuses(c, n) ==
  /\ Nacked(hc'[c], hc[c]) /\ hc[c].st = "open" /\ wire'[c] = wire[c]
  /\ n.txn = hc[c].flight.env.txn
  /\ \A d \in Clients \ {c} : Moves(d, Excuses)

\* A step of one client that changes neither wire nor any other client.
LEMMA AloneMoves ==
  ASSUME BInv, NEW c \in Clients, NEW r, hc' = [hc EXCEPT ![c] = r], UNCHANGED wire
  PROVE  /\ hc'[c] = r /\ wire'[c] = wire[c]
         /\ \A d \in Clients \ {c} : Moves(d, Excuses)
<1>1. \A d \in Clients : hc'[d] = IF d = c THEN r ELSE hc[d]
  BY BInvTypes, Zenon
<1>. QED BY <1>1, IdleMoves, Zenon

LEMMA OpenMoves ==
  ASSUME BInv, NEW c \in Clients, Open(c), wire[c] = <<>>
  PROVE  Opens(c)
<1> DEFINE v == IF pane.st \in {"none", "starting", "seeded"} THEN "opening" ELSE "resuming"
           r == [hc[c] EXCEPT !.st = v]
<1>1. hc' = [hc EXCEPT ![c] = r] /\ UNCHANGED wire /\ hc[c].st = "idle"
  BY Zenon DEF Open
<1>2. v \in {"opening", "resuming"}
  BY Zenon
<1>3. hc[c] \in ClientStates
  BY BInvTypes
<1> HIDE DEF v
<1>4. Waits(r, hc[c]) /\ r.st = v
  BY <1>3, Zenon DEF ClientStates, Waits
<1>5. Waiting(r)
  BY <1>2, <1>4, Zenon DEF Waiting
<1> HIDE DEF r
<1>. QED BY <1>1, <1>4, <1>5, AloneMoves, Zenon DEF Opens

LEMMA OpenRejectsMoves ==
  ASSUME BInv, NEW c \in Clients, OpenRejects(c)
  PROVE  Ends(c)
<1>1. \A d \in Clients : hc'[d] = IF d = c THEN IdleClient ELSE hc[d]
  BY BInvTypes, Zenon DEF OpenRejects
<1>2. \A d \in Clients : wire'[d] = IF d = c THEN <<>> ELSE wire[d]
  BY Zenon DEF OpenRejects, DiscardWire, BInv, RtSound, HubSound, HubTypeOK
<1>. QED BY <1>1, <1>2, IdleMoves, Zenon DEF Ends

LEMMA ClosedMoves ==
  ASSUME BInv, NEW c \in Clients, CloseClient(c), DiscardWire(c)
  PROVE  Ends(c)
<1>1. \A d \in Clients : wire'[d] = IF d = c THEN <<>> ELSE wire[d]
  BY Zenon DEF DiscardWire, BInv, RtSound, HubSound, HubTypeOK
<1>2. /\ hc'[c] = IdleClient
      /\ \A d \in Clients \ {c} :
           hc'[d] = hc[d] \/ (/\ Waiting(hc[d]) /\ Waiting(hc'[d])
                              /\ Waits(hc'[d], hc[d]))
  BY CloseClientMoves
<1>3. \A d \in Clients \ {c} : Moves(d, Excuses)
  BY <1>1, <1>2, IdleMoves, Zenon DEF Moves
<1>. QED BY <1>1, <1>2, <1>3, Zenon DEF Ends

LEMMA AckMoves ==
  ASSUME BInv, NEW c \in Clients, NEW a \in Acks, Ack(c, a)
  PROVE  /\ AllMove(FaultMsgs) \/ Accepts(c, a)
         /\ \A d \in Clients \ {c} : Moves(d, Excuses)
         /\ AckCompletes(hc[c], a) => Accepts(c, a)
<1>1. CASE ~AckCompletes(hc[c], a)
  <2>1. CASE UNCHANGED hubVars
    BY <1>1, <2>1, QuietMoves, Zenon DEF hubVars, AllMove
  <2>2. CASE FaultClient(c, "protocol-violation",
                         IF hc[c].flight = None THEN "ack-none" ELSE "ack-mismatch")
    <3> DEFINE cause == IF hc[c].flight = None THEN "ack-none" ELSE "ack-mismatch"
    <3>1. IsOpen(c)
      BY Zenon DEF Ack
    <3>2. "protocol-violation" \in Reasons /\ cause \in Causes
      BY Zenon DEF Reasons, Causes
    <3> HIDE DEF cause
    <3>3. FaultMsg("protocol-violation", cause) \in FaultMsgs
      BY <3>2, FaultMsgType
    <3>4. FaultClient(c, "protocol-violation", cause)
      BY <2>2, Zenon DEF cause
    <3>. QED BY <1>1, <3>1, <3>2, <3>3, <3>4, FaultClientMoves
  <2>. QED BY <1>1, <2>1, <2>2, Zenon DEF Ack
<1>2. CASE AckCompletes(hc[c], a)
  <2> DEFINE r == Acknowledged(hc[c], a)
             done == [hc EXCEPT ![c] = r]
  <2>1. hc' = [done EXCEPT ![c] = Schedule(done[c])] /\ UNCHANGED wire /\ IsOpen(c)
    BY <1>2, Zenon DEF Ack, AckIsBenign, AckCompletes
  <2> HIDE DEF r
  <2>2. hc' = [hc EXCEPT ![c] = Schedule(r)]
    BY <2>1, BInvTypes, Zenon
  <2>3. Acked(Schedule(r), hc[c], a)
    BY <1>2, BInvTypes, AcknowledgedAcked, Zenon DEF r
  <2>. QED BY <2>1, <2>2, <2>3, AloneMoves, Zenon DEF Accepts, IsOpen
<1>. QED BY <1>1, <1>2

LEMMA NackMoves ==
  ASSUME BInv, NEW c \in Clients, NEW n \in Nacks, Nack(c, n)
  PROVE  /\ AllMove(FaultMsgs) \/ Refuses(c, n)
         /\ \A d \in Clients \ {c} : Moves(d, Excuses)
         /\ NackMatches(hc[c], n) => Refuses(c, n)
<1>1. CASE ~NackMatches(hc[c], n)
  <2>1. CASE UNCHANGED hubVars
    BY <1>1, <2>1, QuietMoves, Zenon DEF hubVars, AllMove
  <2>2. CASE FaultClient(c, "protocol-violation", "nack-mismatch")
    <3>1. IsOpen(c)
      BY Zenon DEF Nack
    <3>2. "protocol-violation" \in Reasons /\ "nack-mismatch" \in Causes
      BY Zenon DEF Reasons, Causes
    <3>3. FaultMsg("protocol-violation", "nack-mismatch") \in FaultMsgs
      BY <3>2, FaultMsgType
    <3>. QED BY <1>1, <2>2, <3>1, <3>2, <3>3, FaultClientMoves
  <2>. QED BY <1>1, <2>1, <2>2, Zenon DEF Nack
<1>2. CASE NackMatches(hc[c], n)
  <2> DEFINE r == [[hc[c] EXCEPT !.reseed = TRUE] EXCEPT !.flight = None]
             dropped == [hc EXCEPT ![c] = r]
  <2>1. [hc EXCEPT ![c].reseed = TRUE, ![c].flight = None] = dropped
    BY BInvTypes, Zenon
  <2>2. hc' = [dropped EXCEPT ![c] = Schedule(dropped[c])] /\ UNCHANGED wire /\ IsOpen(c)
    BY <1>2, <2>1, Zenon DEF Nack, NackIsBenign, NackMatches
  <2>3. Nacked(Schedule(r), hc[c])
    BY <1>2, BInvTypes, DroppedNacked, Zenon
  <2> HIDE DEF r
  <2>4. hc' = [hc EXCEPT ![c] = Schedule(r)]
    BY <2>2, BInvTypes, Zenon
  <2>5. n.txn = hc[c].flight.env.txn
    BY <1>2, Zenon DEF NackMatches
  <2>. QED BY <2>2, <2>3, <2>4, <2>5, AloneMoves, Zenon DEF Refuses, IsOpen
<1>. QED BY <1>1, <1>2

\* Every step of the runtime, as its lanes see it.
Effect ==
  \/ (\E ms : AllMove(ms)) \/ UNCHANGED hc
  \/ \E c \in Clients : \/ Opens(c) \/ Ends(c)
                        \/ \E a \in Acks : Accepts(c, a)
                        \/ \E n \in Nacks : Refuses(c, n)

LEMMA PeerStepEffect ==
  ASSUME BInv, NEW c \in Clients, PeerStep(c)
  PROVE  Effect
<1>1. CASE OpenRejects(c)
  BY <1>1, OpenRejectsMoves, Zenon DEF Effect
<1>2. CASE PeerReads(c)
  BY <1>2, Zenon DEF PeerReads, Effect
<1>3. CASE PeerAnswers(c)
  <2>1. ASSUME NEW a \in PeerAcks, Ack(c, a)
        PROVE  Effect
    BY <2>1, PeerAssumption, AckMoves, Zenon DEF Effect
  <2>2. ASSUME NEW n \in PeerNacks, Nack(c, n)
        PROVE  Effect
    BY <2>2, PeerAssumption, NackMoves, Zenon DEF Effect
  <2>. QED BY <1>3, <2>1, <2>2, Zenon DEF PeerAnswers
<1>4. CASE SinkFailed(c) \/ CloseConnection(c)
  BY <1>4, ClosedMoves, Zenon DEF SinkFailed, CloseConnection, Effect
<1>. QED BY <1>1, <1>2, <1>3, <1>4, Zenon DEF PeerStep

LEMMA NextEffect ==
  ASSUME BInv, AllSane(hc), RtNext
  PROVE  Effect
<1>1. CASE \/ SourceStep \/ HubStep \/ EncodingStep
           \/ \E c \in Clients : DeliveryStep(c) \/ VisibilityStep(c)
  BY <1>1, StepMoves, Zenon DEF Effect
<1>2. ASSUME NEW c \in Clients, OpenDelivery(c)
      PROVE  Effect
  BY <1>2, OpenMoves, Zenon DEF OpenDelivery, Effect
<1>. QED BY <1>1, <1>2, PeerStepEffect, Zenon DEF RtNext

-----------------------------------------------------------------------------
(* The revisions a client holds *)

\* The client acknowledged revision v of incarnation i, or it is under way.
Holds(r, v, i) ==
  \/ r.lastAck # None /\ v = r.lastAck.rev /\ i = r.lastAck.inc
  \/ r.flight # None /\ v = r.flight.env.rev /\ i = r.flight.env.inc
  \/ r.enc # None /\ v = r.enc.rev /\ i = r.enc.inc

LEMMA HoldsType ==
  ASSUME NEW r \in ClientStates, NEW v, NEW i, Holds(r, v, i)
  PROVE  v \in Nat /\ i \in Nat
<1>1. CASE r.lastAck # None /\ v = r.lastAck.rev /\ i = r.lastAck.inc
  <2>1. r.lastAck \in Acks
    BY <1>1, Zenon DEF ClientStates
  <2>. QED BY <1>1, <2>1, Zenon DEF Acks
<1>2. CASE r.flight # None /\ v = r.flight.env.rev /\ i = r.flight.env.inc
  <2>1. r.flight \in Flights
    BY <1>2, Zenon DEF ClientStates
  <2>. QED BY <1>2, <2>1, Zenon DEF Flights, Envelopes
<1>3. CASE r.enc # None /\ v = r.enc.rev /\ i = r.enc.inc
  <2>1. r.enc \in Encodings
    BY <1>3, Zenon DEF ClientStates
  <2>. QED BY <1>3, <2>1, Zenon DEF Encodings
<1>. QED BY <1>1, <1>2, <1>3, Zenon DEF Holds

\* Whatever happens to a client, all it comes to hold is the current revision.
Passes(s, r) ==
  \A v, i : Holds(s, v, i) =>
    Holds(r, v, i) \/ (pane.cur # Null /\ v = pane.cur /\ i = pane.inc)

AllPass == \A c \in Clients : Passes(hc'[c], hc[c])

LEMMA NothingHeld ==
  /\ \A v, i : ~Holds(IdleClient, v, i)
  /\ \A s, v, i : Fresh(s) => ~Holds(s, v, i)
<1>1. IdleClient.lastAck = None /\ IdleClient.flight = None /\ IdleClient.enc = None
  BY Zenon DEF IdleClient
<1>. QED BY <1>1, Zenon DEF Holds, Fresh

LEMMA TurnsPasses ==
  ASSUME NEW ms, NEW r, NEW s, Turns(s, r, ms)
  PROVE  Passes(s, r)
<1>1. CASE Undisturbed(s, r)
  BY <1>1, Zenon DEF Undisturbed, Same, Stays, Passes, Holds
<1>2. CASE Broken(s, r, ms)
  BY <1>2, Zenon DEF Broken, Stays, Passes, Holds
<1>3. CASE Encodes(s, r)
  <2>1. s.enc.rev = pane.cur /\ s.enc.inc = pane.inc /\ pane.cur # Null
    BY <1>3, SMT DEF Encodes
  <2>2. s.lastAck = r.lastAck /\ s.flight = r.flight
    BY <1>3, Zenon DEF Encodes, Same, Stays
  <2>. QED BY <2>1, <2>2, Zenon DEF Passes, Holds
<1>4. CASE Starts(s, r)
  <2>1. PICK e \in Envelopes : Fits(e, r) /\ s.flight = [env |-> e, next |-> 0]
    BY <1>4, Zenon DEF Starts
  <2>2. s.flight.env = e /\ s.lastAck = r.lastAck /\ s.enc = None
    <3>1. s.flight.env = e
      BY <2>1, SMT
    <3>. QED BY <1>4, <3>1, Zenon DEF Starts, Stays
  <2>3. \/ pane.cur # Null /\ e.rev = pane.cur /\ e.inc = pane.inc
        \/ r.enc # None /\ e.rev = r.enc.rev /\ e.inc = r.enc.inc
    BY <2>1, Zenon DEF Fits
  <2>. QED BY <2>2, <2>3, Zenon DEF Passes, Holds
<1>. QED BY <1>1, <1>2, <1>3, <1>4, Zenon DEF Turns

LEMMA MovesPasses ==
  ASSUME NEW ms, NEW c, Moves(c, ms)
  PROVE  Passes(hc'[c], hc[c])
<1>1. CASE Turns(hc'[c], hc[c], ms)
  BY <1>1, TurnsPasses
<1>2. ASSUME NEW m, Sends(hc'[c], hc[c], m)
      PROVE  Passes(hc'[c], hc[c])
  <2>1. ASSUME NEW f, NEW k, hc'[c].flight = [env |-> f, next |-> k]
        PROVE  hc'[c].flight.env = f
    BY <2>1, SMT
  <2>2. hc'[c].flight = hc[c].flight
          \/ (hc[c].flight # None /\ hc'[c].flight.env = hc[c].flight.env)
    <3>1. hc'[c].flight = hc[c].flight
            \/ (/\ hc[c].flight # None
                /\ \E k : hc'[c].flight = [env |-> hc[c].flight.env, next |-> k])
      BY <1>2, Zenon DEF Sends
    <3>. QED BY <2>1, <3>1, Zenon
  <2>. QED BY <1>2, <2>2, Zenon DEF Sends, Stays, Passes, Holds
<1>3. CASE hc'[c] = IdleClient
  BY <1>3, NothingHeld, Zenon DEF Passes
<1>4. CASE Waits(hc'[c], hc[c])
  BY <1>4, Zenon DEF Waits, Passes, Holds
<1>5. CASE Fresh(hc'[c])
  BY <1>5, NothingHeld, Zenon DEF Passes
<1>. QED BY <1>1, <1>2, <1>3, <1>4, <1>5, Zenon DEF Moves, Detaches, TurnedAway

LEMMA EffectPasses ==
  ASSUME Effect
  PROVE  AllPass
<1>1. CASE \E ms : AllMove(ms)
  BY <1>1, MovesPasses, Zenon DEF AllMove, AllPass
<1>2. CASE UNCHANGED hc
  BY <1>2, Zenon DEF AllPass, Passes
<1>3. ASSUME NEW c \in Clients, \A d \in Clients \ {c} : Moves(d, Excuses),
             Passes(hc'[c], hc[c])
      PROVE  AllPass
  BY <1>3, MovesPasses, Zenon DEF AllPass
<1>4. ASSUME NEW c \in Clients, Opens(c) \/ Ends(c)
      PROVE  AllPass
  <2>1. Passes(hc'[c], hc[c])
    BY <1>4, NothingHeld, Zenon DEF Opens, Ends, Waits, Passes, Holds
  <2>. QED BY <1>3, <1>4, <2>1, Zenon DEF Opens, Ends
<1>5. ASSUME NEW c \in Clients, NEW a \in Acks, Accepts(c, a)
      PROVE  AllPass
  <2>1. Passes(hc'[c], hc[c])
    BY <1>5, Zenon DEF Accepts, Acked, Settled, Identifies, Passes, Holds
  <2>. QED BY <1>3, <1>5, <2>1, Zenon DEF Accepts
<1>6. ASSUME NEW c \in Clients, NEW n \in Nacks, Refuses(c, n)
      PROVE  AllPass
  <2>1. Passes(hc'[c], hc[c])
    BY <1>6, Zenon DEF Refuses, Nacked, Settled, Passes, Holds
  <2>. QED BY <1>3, <1>6, <2>1, Zenon DEF Refuses
<1>. QED BY <1>1, <1>2, <1>4, <1>5, <1>6, Zenon DEF Effect

-----------------------------------------------------------------------------
(* Their order *)

\* Revision v of incarnation i is held by a client, retained by the pane or on
\* its way to being published.
Known(p, f, v, i) ==
  \/ \E c \in Clients : Holds(f[c], v, i)
  \/ v \in p.revs /\ i = p.inc
  \/ \E u \in Items(p) : v = u.rev /\ i = u.inc

\* A revision is of one incarnation, and the source has counted it.
Clocked(p, f, s) ==
  \A v, i : Known(p, f, v, i) =>
    /\ v <= s.rev
    /\ \A j : Known(p, f, v, j) => j = i
    /\ Lives(s) /\ v = s.rev => i = s.inc

\* What waits to be published is later than what was.
Rising(p) ==
  /\ \A m, n \in 1..Len(p.queue) : m < n => p.queue[m].rev < p.queue[n].rev
  /\ p.held # None => \A u \in Elements(p.queue) : p.held.rev < u.rev
  /\ p.cur # Null => \A u \in Items(p) : p.cur < u.rev
  /\ p.cur = Null => p.revs = {}

\* No client is ahead of the pane.
Behind(p, f) ==
  \A c \in Clients : \A v, i : Holds(f[c], v, i) =>
    /\ p.cur # Null => v <= p.cur
    /\ \A u \in Items(p) : v <= u.rev

InOrder(p, f, s) == Clocked(p, f, s) /\ Rising(p) /\ Behind(p, f)

\* Clients that come to hold the current revision at most.
LEMMA PassesInOrder ==
  ASSUME BInv, InOrder(pane, hc, src), AllPass
  PROVE  InOrder(pane, hc', src)
<1>1. ASSUME NEW c \in Clients, NEW v, NEW i, Holds(hc'[c], v, i)
      PROVE  Holds(hc[c], v, i) \/ (pane.cur # Null /\ v = pane.cur /\ i = pane.inc)
  BY <1>1, Zenon DEF AllPass, Passes
<1>2. pane.cur # Null => pane.cur \in pane.revs
  BY Zenon DEF BInv, Solvent, Ordered, CurrentKept
<1>3. \A v, i : Known(pane, hc', v, i) => Known(pane, hc, v, i)
  BY <1>1, <1>2, Zenon DEF Known
<1>4. Clocked(pane, hc', src)
  BY <1>3, Zenon DEF InOrder, Clocked
<1>5. Behind(pane, hc')
  <2> SUFFICES ASSUME NEW c \in Clients, NEW v, NEW i, Holds(hc'[c], v, i)
               PROVE  /\ pane.cur # Null => v <= pane.cur
                      /\ \A u \in Items(pane) : v <= u.rev
    BY Zenon DEF Behind
  <2>1. CASE Holds(hc[c], v, i)
    BY <2>1, Zenon DEF InOrder, Behind
  <2>2. CASE pane.cur # Null /\ v = pane.cur
    <3>1. \A u \in Items(pane) : u.rev \in Nat /\ v < u.rev
      BY <2>2, BInvTypes, ItemsType, Zenon DEF InOrder, Rising, Updates
    <3>2. v \in Nat
      BY <2>2, BInvTypes, Zenon DEF Panes, Revs
    <3>3. v <= v /\ \A n \in Nat : v < n => v <= n
      BY <3>2, SMT
    <3>. QED BY <2>2, <3>1, <3>3, Zenon
  <2>. QED BY <1>1, <2>1, <2>2
<1>. QED BY <1>4, <1>5, Zenon DEF InOrder

-----------------------------------------------------------------------------
(* What a step does to the revisions a pane has *)

\* Some revisions are dropped, and possibly what waits.
Recedes(q, p) ==
  /\ q.queue \in {p.queue, <<>>} /\ q.held \in {p.held, None}
  /\ q.cur = p.cur /\ q.inc = p.inc /\ q.revs \subseteq p.revs

\* The pane is gone, or a new one.
Emptied(q) == q.queue = <<>> /\ q.held = None /\ q.cur = Null /\ q.revs = {}

\* The first update that waits is taken out to be reduced ...
Takes(q, p) ==
  /\ p.queue # <<>> /\ q.queue = Tail(p.queue) /\ q.held = Head(p.queue)
  /\ q.cur = p.cur /\ q.inc = p.inc /\ q.revs = p.revs

\* ... or it is published, or what was reduced is.
Publishes(q, p) ==
  \E u \in Updates :
    /\ \/ p.queue # <<>> /\ u = Head(p.queue) /\ q.queue \in {Tail(p.queue), <<>>}
       \/ p.held # None /\ u = p.held /\ q.queue \in {p.queue, <<>>}
    /\ q.held = None /\ q.cur = u.rev /\ q.inc = u.inc
    /\ q.revs \subseteq p.revs \cup {u.rev}

\* The source adds an update, or gives a new pane its first.
Receives(q, p, u) ==
  /\ q.queue = Append(p.queue, u) /\ q.held = p.held
  /\ q.cur = p.cur /\ q.inc = p.inc /\ q.revs = p.revs

Seeded(q, u) == q.queue = <<u>> /\ q.held = None /\ q.cur = Null /\ q.revs = {}

Ascends(l) == \A m, n \in 1..Len(l) : m < n => l[m].rev < l[n].rev

LEMMA AscendingQueues ==
  /\ Ascends(<<>>)
  /\ \A u : Ascends(<<u>>)
  /\ \A l \in Seq(Updates) : l # <<>> /\ Ascends(l) =>
       Ascends(Tail(l)) /\ \A u \in Elements(Tail(l)) : Head(l).rev < u.rev
  /\ \A l \in Seq(Updates), w \in Updates :
       Ascends(l) /\ (\A u \in Elements(l) : u.rev < w.rev) => Ascends(Append(l, w))
<1>1. Ascends(<<>>) /\ \A u : Ascends(<<u>>)
  BY SMT DEF Ascends
<1>2. ASSUME NEW l \in Seq(Updates), l # <<>>, Ascends(l)
      PROVE  Ascends(Tail(l)) /\ \A u \in Elements(Tail(l)) : Head(l).rev < u.rev
  <2>1. Len(Tail(l)) = Len(l) - 1 /\ Len(l) \in Nat /\ Len(l) > 0 /\ Head(l) = l[1]
    BY <1>2, SMT
  <2>2. \A m \in 1..Len(Tail(l)) : Tail(l)[m] = l[m + 1] /\ m + 1 \in 1..Len(l)
    BY <1>2, SMT
  <2>3. \A m, n \in 1..Len(Tail(l)) : m < n => m + 1 < n + 1
    BY <2>1, SMT
  <2>4. Ascends(Tail(l))
    BY <1>2, <2>2, <2>3, Zenon DEF Ascends
  <2>5. 1 \in 1..Len(l) /\ \A m \in 1..Len(Tail(l)) : 1 < m + 1
    BY <2>1, SMT
  <2>6. \A m \in 1..Len(Tail(l)) : Head(l).rev < Tail(l)[m].rev
    BY <1>2, <2>1, <2>2, <2>5, Zenon DEF Ascends
  <2>. QED BY <2>4, <2>6, Zenon DEF Elements
<1>3. ASSUME NEW l \in Seq(Updates), NEW w \in Updates, Ascends(l),
             \A u \in Elements(l) : u.rev < w.rev
      PROVE  Ascends(Append(l, w))
  <2>1. ASSUME NEW m \in 1..Len(Append(l, w)), NEW n \in 1..Len(Append(l, w)), m < n
        PROVE  Append(l, w)[m].rev < Append(l, w)[n].rev
    <3>1. m \in 1..Len(l) /\ Append(l, w)[m] = l[m] /\ l[m] \in Elements(l)
      BY <2>1, SMT DEF Elements
    <3>2. CASE n \in 1..Len(l)
      <4>1. Append(l, w)[n] = l[n]
        BY <3>2, SMT
      <4>. QED BY <1>3, <2>1, <3>1, <3>2, <4>1, Zenon DEF Ascends
    <3>3. CASE n \notin 1..Len(l)
      <4>1. Append(l, w)[n] = w
        BY <3>3, SMT
      <4>. QED BY <1>3, <3>1, <4>1, Zenon
    <3>. QED BY <3>2, <3>3
  <2>. QED BY <2>1, Zenon DEF Ascends
<1>. QED BY <1>1, <1>2, <1>3, Zenon

\* A pane that lost some of what it had, and none of whose order.
LEMMA FewerInOrder ==
  ASSUME NEW p, NEW q, NEW f, NEW s, InOrder(p, f, s), Items(q) \subseteq Items(p),
         Rising(q), q.revs \subseteq p.revs,
         (q.cur = p.cur /\ q.inc = p.inc) \/ q.cur = Null
  PROVE  InOrder(q, f, s)
<1>1. \A v, i : Known(q, f, v, i) => Known(p, f, v, i)
  BY Zenon DEF Known, Rising
<1>2. Clocked(q, f, s)
  BY <1>1, Zenon DEF InOrder, Clocked
<1>3. Behind(q, f)
  BY Zenon DEF InOrder, Behind
<1>. QED BY <1>2, <1>3, Zenon DEF InOrder

LEMMA RecedesInOrder ==
  ASSUME NEW p, NEW q, NEW f, NEW s, InOrder(p, f, s), Recedes(q, p)
  PROVE  InOrder(q, f, s)
<1>1. Elements(q.queue) \subseteq Elements(p.queue) /\ Items(q) \subseteq Items(p)
  BY QueueElements, Zenon DEF Recedes, Items
<1>2. Ascends(q.queue)
  BY AscendingQueues, Zenon DEF Recedes, InOrder, Rising, Ascends
<1>3. Rising(q)
  <2>1. q.held # None => q.held = p.held
    BY Zenon DEF Recedes
  <2>2. q.held # None => \A u \in Elements(q.queue) : q.held.rev < u.rev
    BY <1>1, <2>1, Zenon DEF InOrder, Rising
  <2>3. q.cur = p.cur /\ q.revs \subseteq p.revs
    BY Zenon DEF Recedes
  <2>4. /\ q.cur # Null => \A u \in Items(q) : q.cur < u.rev
        /\ q.cur = Null => q.revs = {}
    BY <1>1, <2>3, Zenon DEF InOrder, Rising
  <2>. QED BY <1>2, <2>2, <2>4, Zenon DEF Rising, Ascends
<1>. QED BY <1>1, <1>3, FewerInOrder, Zenon DEF Recedes

LEMMA EmptiedInOrder ==
  ASSUME NEW p, NEW q, NEW f, NEW s, InOrder(p, f, s), Emptied(q)
  PROVE  InOrder(q, f, s)
<1>1. Elements(q.queue) = {} /\ Items(q) = {} /\ Ascends(q.queue)
  BY QueueElements, AscendingQueues, Zenon DEF Emptied, Items
<1>2. Rising(q)
  BY <1>1, Zenon DEF Emptied, Rising, Ascends
<1>. QED BY <1>1, <1>2, FewerInOrder, Zenon DEF Emptied

LEMMA TakesInOrder ==
  ASSUME NEW p \in Panes, NEW q, NEW f, NEW s, InOrder(p, f, s), Takes(q, p)
  PROVE  InOrder(q, f, s)
<1>1. p.queue \in Seq(Updates) /\ p.queue # <<>> /\ Ascends(p.queue)
  BY Zenon DEF Panes, Takes, InOrder, Rising, Ascends
<1>2. /\ Head(p.queue) \in Elements(p.queue)
      /\ Elements(q.queue) \subseteq Elements(p.queue)
  BY <1>1, QueueElements, Zenon DEF Takes
<1>3. Items(q) \subseteq Items(p)
  BY <1>2, Zenon DEF Takes, Items
<1>4. Ascends(q.queue) /\ \A u \in Elements(q.queue) : q.held.rev < u.rev
  BY <1>1, AscendingQueues, Zenon DEF Takes
<1>5. Rising(q)
  BY <1>3, <1>4, Zenon DEF Takes, Ascends, InOrder, Rising
<1>. QED BY <1>3, <1>5, FewerInOrder, Zenon DEF Takes

LEMMA PublishesInOrder ==
  ASSUME NEW p \in Panes, NEW q, NEW f, NEW s, InOrder(p, f, s),
         OneIncarnation(p, s), Publishes(q, p)
  PROVE  InOrder(q, f, s)
<1>1. p.queue \in Seq(Updates) /\ Ascends(p.queue)
  BY Zenon DEF Panes, InOrder, Rising, Ascends
<1>2. PICK u \in Updates :
        /\ \/ p.queue # <<>> /\ u = Head(p.queue) /\ q.queue \in {Tail(p.queue), <<>>}
           \/ p.held # None /\ u = p.held /\ q.queue \in {p.queue, <<>>}
        /\ q.held = None /\ q.cur = u.rev /\ q.inc = u.inc
        /\ q.revs \subseteq p.revs \cup {u.rev}
  BY Zenon DEF Publishes
<1>3. /\ Elements(q.queue) \subseteq Elements(p.queue) /\ Ascends(q.queue)
      /\ \A w \in Elements(q.queue) : u.rev < w.rev
      /\ u \in Items(p)
  <2>1. CASE p.queue # <<>> /\ u = Head(p.queue) /\ q.queue \in {Tail(p.queue), <<>>}
    <3>1. /\ Elements(Tail(p.queue)) \subseteq Elements(p.queue)
          /\ Ascends(Tail(p.queue)) /\ u \in Elements(p.queue)
          /\ \A w \in Elements(Tail(p.queue)) : u.rev < w.rev
      BY <1>1, <2>1, QueueElements, AscendingQueues, Zenon
    <3>. QED BY <2>1, <3>1, QueueElements, AscendingQueues, Zenon DEF Items
  <2>2. CASE p.held # None /\ u = p.held /\ q.queue \in {p.queue, <<>>}
    <3>1. \A w \in Elements(p.queue) : u.rev < w.rev
      BY <2>2, Zenon DEF InOrder, Rising
    <3>. QED BY <1>1, <2>2, <3>1, QueueElements, AscendingQueues, Zenon DEF Items
  <2>. QED BY <1>2, <2>1, <2>2
<1>4. Items(q) = Elements(q.queue) /\ Items(q) \subseteq Items(p)
  BY <1>2, <1>3, Zenon DEF Items
<1>5. u.rev # Null
  <2>1. u.rev \in Nat
    BY Zenon DEF Updates
  <2>. QED BY <2>1, SMT DEF Null
<1>6. Rising(q)
  BY <1>2, <1>3, <1>4, <1>5, Zenon DEF Rising, Ascends
<1>7. \A v, i : Known(q, f, v, i) => Known(p, f, v, i)
  <2>1. p.cur # Null => u.inc = p.inc
    BY <1>3, Zenon DEF OneIncarnation
  <2>2. p.cur = Null => p.revs = {}
    BY Zenon DEF InOrder, Rising
  <2>3. \A v : v \in q.revs => v = u.rev \/ (v \in p.revs /\ q.inc = p.inc)
    BY <1>2, <2>1, <2>2, Zenon
  <2>. QED BY <1>2, <1>3, <1>4, <2>3, Zenon DEF Known
<1>8. Clocked(q, f, s)
  BY <1>7, Zenon DEF InOrder, Clocked
<1>9. Behind(q, f)
  BY <1>2, <1>3, <1>4, Zenon DEF InOrder, Behind
<1>. QED BY <1>6, <1>8, <1>9, Zenon DEF InOrder

LEMMA KnownType ==
  ASSUME NEW p \in Panes, NEW f \in [Clients -> ClientStates], NEW v, NEW i,
         Known(p, f, v, i)
  PROVE  v \in Nat /\ i \in Nat
<1>1. p.revs \subseteq Nat /\ p.inc \in Nat
  BY Zenon DEF Panes
<1>2. \A u \in Items(p) : u.rev \in Nat /\ u.inc \in Nat
  BY ItemsType, Zenon DEF Updates
<1>. QED BY <1>1, <1>2, HoldsType, Zenon DEF Known

\* The source counts on.
LEMMA CountedInOrder ==
  ASSUME NEW p \in Panes, NEW f \in [Clients -> ClientStates],
         NEW s \in Sources, NEW t \in Sources, InOrder(p, f, s), t.rev = s.rev + 1
  PROVE  /\ InOrder(p, f, t)
         /\ \A v, i : Known(p, f, v, i) => v < t.rev
<1>1. s.rev \in Int
  BY SMT DEF Sources, Revs, Null
<1>2. \A v \in Nat : v <= s.rev => v <= t.rev /\ v < t.rev /\ v # t.rev
  BY <1>1, SMT
<1>3. \A v, i : Known(p, f, v, i) => v <= t.rev /\ v < t.rev /\ v # t.rev
  BY <1>2, KnownType, Zenon DEF InOrder, Clocked
<1>4. Clocked(p, f, t)
  BY <1>3, Zenon DEF InOrder, Clocked
<1>. QED BY <1>3, <1>4, Zenon DEF InOrder

LEMMA EndedInOrder ==
  ASSUME NEW p, NEW f, NEW s, NEW t, InOrder(p, f, s), t.rev = s.rev, Later(t, s)
  PROVE  InOrder(p, f, t)
BY Zenon DEF InOrder, Clocked, Later

LEMMA ReceivesInOrder ==
  ASSUME NEW p \in Panes, NEW q, NEW f \in [Clients -> ClientStates],
         NEW t \in Sources, NEW u \in Updates, InOrder(p, f, t), Receives(q, p, u),
         CurrentKept(p), u.rev = t.rev, Lives(t) => u.inc = t.inc,
         \A v, i : Known(p, f, v, i) => v < u.rev
  PROVE  InOrder(q, f, t)
<1>1. p.queue \in Seq(Updates) /\ Ascends(p.queue)
  BY Zenon DEF Panes, InOrder, Rising, Ascends
<1>2. \A w \in Items(p) : w.rev < u.rev
  BY Zenon DEF Known
<1>3. /\ Elements(q.queue) \subseteq Elements(p.queue) \cup {u}
      /\ Items(q) \subseteq Items(p) \cup {u}
  <2>1. Elements(q.queue) \subseteq Elements(p.queue) \cup {u}
    BY <1>1, QueueElements, Zenon DEF Receives
  <2>. QED BY <2>1, Zenon DEF Receives, Items
<1>4. Ascends(q.queue)
  <2>1. \A w \in Elements(p.queue) : w.rev < u.rev
    BY <1>2, Zenon DEF Items
  <2>. QED BY <1>1, <2>1, AscendingQueues, Zenon DEF Receives
<1>5. Rising(q)
  <2>1. p.cur # Null => p.cur < u.rev
    BY Zenon DEF CurrentKept, Known
  <2>2. p.held # None => p.held.rev < u.rev
    BY <1>2, Zenon DEF Items
  <2>. QED BY <1>3, <1>4, <2>1, <2>2, Zenon DEF Receives, Ascends, InOrder, Rising
<1>6. \A v, i : Known(q, f, v, i) => Known(p, f, v, i) \/ (v = u.rev /\ i = u.inc)
  BY <1>3, Zenon DEF Receives, Known
<1>7. u.rev \in Nat
  BY Zenon DEF Updates
<1>8. u.rev <= u.rev /\ ~(u.rev < u.rev) /\ \A v \in Nat : v < u.rev => v <= u.rev
  BY <1>7, SMT
<1>9. \A i : ~Known(p, f, u.rev, i)
  BY <1>8, Zenon
<1>10. Clocked(q, f, t)
  <2> SUFFICES ASSUME NEW v, NEW i, Known(q, f, v, i)
               PROVE  /\ v <= t.rev
                      /\ \A j : Known(q, f, v, j) => j = i
                      /\ Lives(t) /\ v = t.rev => i = t.inc
    BY Zenon DEF Clocked
  <2>1. CASE Known(p, f, v, i)
    BY <1>6, <1>9, <2>1, Zenon DEF InOrder, Clocked
  <2>2. CASE v = u.rev /\ i = u.inc
    BY <1>6, <1>8, <1>9, <2>2, Zenon
  <2>. QED BY <1>6, <2>1, <2>2
<1>11. Behind(q, f)
  <2>1. ASSUME NEW c \in Clients, NEW v, NEW i, Holds(f[c], v, i)
        PROVE  v <= u.rev
    BY <2>1, <1>8, HoldsType, Zenon DEF Known
  <2>. QED BY <1>3, <2>1, Zenon DEF Receives, InOrder, Behind
<1>. QED BY <1>5, <1>10, <1>11, Zenon DEF InOrder

\* A new pane's first update is the source's present state.
LEMMA SeededInOrder ==
  ASSUME NEW p \in Panes, NEW q, NEW f \in [Clients -> ClientStates],
         NEW t \in Sources, NEW u \in Updates, InOrder(p, f, t), Seeded(q, u),
         Lives(t), u.rev = t.rev, u.inc = t.inc
  PROVE  InOrder(q, f, t)
<1>1. Elements(q.queue) = {u} /\ Ascends(q.queue)
  <2>1. Elements(<<u>>) = {u}
    BY SMT DEF Elements
  <2>. QED BY <2>1, AscendingQueues, Zenon DEF Seeded
<1>2. Items(q) = {u}
  BY <1>1, Zenon DEF Seeded, Items
<1>3. Rising(q)
  BY <1>1, Zenon DEF Seeded, Rising, Ascends
<1>4. \A v, i : Known(q, f, v, i) => Known(p, f, v, i) \/ (v = u.rev /\ i = u.inc)
  BY <1>2, Zenon DEF Seeded, Known
<1>5. u.rev <= t.rev
  <2>1. u.rev \in Nat
    BY Zenon DEF Updates
  <2>. QED BY <2>1, SMT
<1>6. Clocked(q, f, t)
  BY <1>4, <1>5, ZenonT(40) DEF InOrder, Clocked
<1>7. Behind(q, f)
  BY <1>2, Zenon DEF Seeded, Behind, InOrder, Clocked, Known
<1>. QED BY <1>3, <1>6, <1>7, Zenon DEF InOrder

-----------------------------------------------------------------------------
(* Every step's pane *)

\* What is retained is what the current revision and the open clients need.
Lean(q, f) ==
  \A v \in q.revs : v = q.cur \/ \E c \in Clients : f[c].st = "open" /\ v \in Needs(f[c], q)

\* The steps of the hub.
PaneTurns ==
  \/ Recedes(pane', pane) \/ Emptied(pane') \/ Takes(pane', pane)
  \/ Publishes(pane', pane) /\ Lean(pane', hc)

Trims(q, p) == SamePane(q, p) /\ q.revs \subseteq p.revs

LEMMA PruneTrims ==
  ASSUME NEW p \in Panes, NEW f
  PROVE  Trims(Prune(p, f), p) /\ (p.cur # Null => Lean(Prune(p, f), f))
<1> DEFINE kept == {v \in p.revs : \/ v = p.cur
                       \/ \E c \in Clients : f[c].st = "open" /\ v \in Needs(f[c], p)}
           q == [p EXCEPT !.revs = kept]
<1>1. SamePane(q, p) /\ q.revs = kept
  BY Zenon DEF Panes, SamePane
<1>2. Trims(p, p)
  BY Zenon DEF Trims, SamePane
<1>3. Prune(p, f) = IF p.cur = Null THEN p ELSE q
  BY Zenon DEF Prune
<1> HIDE DEF q
<1>4. Trims(q, p)
  BY <1>1, Zenon DEF Trims
<1>5. \A r : Needs(r, q) = Needs(r, p)
  BY <1>1, Zenon DEF Needs, SamePane
<1>6. Lean(q, f)
  BY <1>1, <1>5, Zenon DEF Lean, SamePane
<1>. QED BY <1>2, <1>3, <1>4, <1>6, Zenon

LEMMA PruneCancelledTrims ==
  ASSUME NEW p \in Panes
  PROVE  Trims(PruneCancelled(p), p)
<1>1. Trims(p, p)
  BY Zenon DEF Trims, SamePane
<1>. QED BY <1>1, PruneTrims, Zenon DEF PruneCancelled

LEMMA TrimsRecedes ==
  ASSUME NEW p, NEW q, Trims(q, p)
  PROVE  Recedes(q, p)
BY Zenon DEF Trims, SamePane, Recedes

LEMMA NoPaneEmptied == Emptied(NoPane)
BY Zenon DEF Emptied, NoPane

\* The steps that at most cancel an encoding, settle a delivery or end a client.
LEMMA PrunedPane ==
  ASSUME BInv, \/ pane' = pane \/ pane' = PruneCancelled(pane) \/ pane' = NoPane
               \/ \E f : pane' = Prune(pane, f)
  PROVE  PaneTurns
<1>1. pane \in Panes
  BY BInvTypes
<1>2. Trims(pane, pane)
  BY Zenon DEF Trims, SamePane
<1>3. Trims(pane', pane) \/ pane' = NoPane
  BY <1>1, <1>2, PruneTrims, PruneCancelledTrims, Zenon
<1>. QED BY <1>3, TrimsRecedes, NoPaneEmptied, Zenon DEF PaneTurns

LEMMA AbortPanePane ==
  ASSUME BInv, NEW p \in Panes, Recedes(p, pane) \/ p.queue = Tail(pane.queue),
         p.held \in {pane.held, None}, p.cur = pane.cur, p.inc = pane.inc,
         p.revs = pane.revs, NEW reason, NEW cause, AbortPane(p, reason, cause)
  PROVE  PaneTurns
<1> DEFINE q == [p EXCEPT !.aborted = TRUE, !.queue = <<>>]
<1>1. pane' = PruneCancelled(q)
  BY Zenon DEF AbortPane
<1>2. /\ q \in Panes /\ q.queue = <<>> /\ q.held = p.held
      /\ q.cur = p.cur /\ q.inc = p.inc /\ q.revs = p.revs
  <2>1. <<>> \in Seq(Updates)
    BY SMT
  <2>2. ASSUME NEW l \in Seq(Updates)
        PROVE  [p EXCEPT !.aborted = TRUE, !.queue = l] \in Panes
    BY Zenon DEF Panes
  <2>3. q \in Panes
    BY <2>1, <2>2
  <2>. QED BY <2>3, Zenon DEF Panes
<1> HIDE DEF q
<1>3. Trims(pane', q)
  BY <1>1, <1>2, PruneCancelledTrims
<1>4. Recedes(pane', pane)
  BY <1>2, <1>3, Zenon DEF Trims, SamePane, Recedes
<1>. QED BY <1>4, Zenon DEF PaneTurns

LEMMA SourceInvalidPane ==
  ASSUME BInv, NEW p \in Panes, p.queue \in {pane.queue, Tail(pane.queue)},
         p.held = pane.held, p.cur = pane.cur, p.inc = pane.inc,
         p.revs = pane.revs, SourceInvalid(p)
  PROVE  PaneTurns
<1> DEFINE q == [p EXCEPT !.drain = "idle", !.held = None]
<1>1. /\ q \in Panes /\ q.queue = p.queue /\ q.held = None /\ q.cur = p.cur
      /\ q.inc = p.inc /\ q.revs = p.revs
  BY Zenon DEF Panes
<1>2. AbortPane(q, "protocol-violation", "source-invalid")
  BY Zenon DEF SourceInvalid
<1> HIDE DEF q
<1>3. Recedes(q, pane) \/ q.queue = Tail(pane.queue)
  BY <1>1, Zenon DEF Recedes
<1>. QED BY <1>1, <1>2, <1>3, AbortPanePane, Zenon

LEMMA PublishCanonicalPane ==
  ASSUME BInv, NEW u \in Updates, NEW p \in Panes, PublishCanonical(u, p),
         p.revs = pane.revs,
         \/ pane.queue # <<>> /\ u = Head(pane.queue) /\ p.queue = Tail(pane.queue)
         \/ pane.held # None /\ u = pane.held /\ p.queue = pane.queue
  PROVE  PaneTurns
<1> DEFINE l == IF u.tomb THEN <<>> ELSE p.queue
           k == p.revs \cup {u.rev}
           latest == [p EXCEPT !.cur = u.rev, !.inc = u.inc, !.tomb = u.tomb,
                               !.revs = k, !.held = None, !.drain = "running",
                               !.aborted = u.tomb, !.queue = l]
<1>1. pane' = PruneCancelled(Prune(latest, hc))
  BY Zenon DEF PublishCanonical
<1>2. u.rev \in Nat /\ u.inc \in Nat /\ u.tomb \in BOOLEAN
  BY Zenon DEF Updates
<1>3. l \in Seq(Updates) /\ l \in {p.queue, <<>>}
  <2>1. p.queue \in Seq(Updates)
    BY Zenon DEF Panes
  <2>2. <<>> \in Seq(Updates)
    BY SMT
  <2>. QED BY <2>1, <2>2
<1>4. k \in SUBSET Nat
  <2>1. p.revs \in SUBSET Nat
    BY Zenon DEF Panes
  <2>. QED BY <1>2, <2>1
<1> HIDE DEF l, k
<1>5. /\ latest \in Panes /\ latest.drain # "reducing" /\ latest.cur = u.rev /\ latest.inc = u.inc
      /\ latest.held = None /\ latest.revs = k /\ latest.queue = l
  <2>1. u.rev \in Revs
    BY <1>2, Zenon DEF Revs
  <2>. QED BY <1>2, <1>3, <1>4, <2>1, Zenon DEF Panes
<1> HIDE DEF latest
<1>6. latest.cur # Null
  BY <1>2, <1>5, SMT DEF Null
<1> DEFINE q == Prune(latest, hc)
<1>7. Trims(q, latest) /\ Lean(q, hc)
  BY <1>5, <1>6, PruneTrims
<1>8. q \in Panes
  BY <1>5, PruneType, Zenon DEF SoundPanes
<1> HIDE DEF q
<1>9. Trims(pane', q)
  BY <1>1, <1>8, PruneCancelledTrims, Zenon DEF q
<1>10. Lean(pane', hc)
  <2>1. \A r : Needs(r, pane') = Needs(r, q)
    BY <1>9, Zenon DEF Needs, Trims, SamePane
  <2>2. \A v \in pane'.revs : v \in q.revs
    BY <1>9, Zenon DEF Trims
  <2>3. pane'.cur = q.cur
    BY <1>9, Zenon DEF Trims, SamePane
  <2>. QED BY <1>7, <2>1, <2>2, <2>3, Zenon DEF Lean
<1>11. /\ pane'.queue \in {p.queue, <<>>} /\ pane'.held = None /\ pane'.cur = u.rev
       /\ pane'.inc = u.inc /\ pane'.revs \subseteq pane.revs \cup {u.rev}
  BY <1>3, <1>5, <1>7, <1>9, Zenon DEF Trims, SamePane, k
<1>12. Publishes(pane', pane)
  BY <1>11, Zenon DEF Publishes
<1>. QED BY <1>10, <1>12, Zenon DEF PaneTurns

LEMMA DrainStepPane ==
  ASSUME BInv, DrainStep
  PROVE  PaneTurns
<1>1. pane \in Panes /\ pane.queue \in Seq(Updates)
  <2>1. pane \in Panes
    BY BInvTypes
  <2>. QED BY <2>1, Zenon DEF Panes
<1>2. CASE pane.queue = <<>> \/ pane.aborted
  <2> DEFINE q == [pane EXCEPT !.drain = "idle"]
  <2>1. Recedes(q, pane)
    BY <1>1, Zenon DEF Panes, Recedes
  <2>2. pane' = q
    BY <1>2, Zenon DEF DrainStep
  <2>. QED BY <2>1, <2>2, Zenon DEF PaneTurns
<1>3. CASE pane.queue # <<>> /\ ~pane.aborted
  <2> DEFINE u == Head(pane.queue)
             t == Tail(pane.queue)
             rest == [pane EXCEPT !.queue = t]
             q == [rest EXCEPT !.drain = "reducing", !.held = u]
  <2>1. u \in Updates /\ t \in Seq(Updates)
    BY <1>1, <1>3, QueueElements, Zenon
  <2>2. \/ PublishCanonical(u, rest)
        \/ SourceInvalid(rest)
        \/ pane' = q
    BY <1>3, Zenon DEF DrainStep
  <2> HIDE DEF u, t
  <2>3. /\ rest \in Panes /\ rest.queue = t /\ rest.held = pane.held
        /\ rest.cur = pane.cur /\ rest.inc = pane.inc /\ rest.revs = pane.revs
    BY <1>1, <2>1, Zenon DEF Panes
  <2> HIDE DEF rest
  <2>4. CASE PublishCanonical(u, rest)
    <3>1. pane.queue # <<>> /\ u = Head(pane.queue) /\ rest.queue = Tail(pane.queue)
      BY <1>3, <2>3, Zenon DEF u, t
    <3>. QED BY <2>1, <2>3, <2>4, <3>1, PublishCanonicalPane
  <2>5. CASE SourceInvalid(rest)
    <3>1. rest.queue \in {pane.queue, Tail(pane.queue)}
      BY <2>3, Zenon DEF t
    <3>. QED BY <2>3, <2>5, <3>1, SourceInvalidPane
  <2>6. CASE pane' = q
    <3>1. /\ q.queue = t /\ q.held = u /\ q.cur = pane.cur /\ q.inc = pane.inc
          /\ q.revs = pane.revs
      BY <2>3, Zenon DEF Panes
    <3>2. Takes(pane', pane)
      BY <1>3, <2>6, <3>1, Zenon DEF Takes, u, t
    <3>. QED BY <3>2, Zenon DEF PaneTurns
  <2>. QED BY <2>2, <2>4, <2>5, <2>6
<1>. QED BY <1>2, <1>3

LEMMA FinishReductionPane ==
  ASSUME BInv, FinishReduction
  PROVE  PaneTurns
<1>1. pane \in Panes /\ pane.held # None /\ pane.held \in Updates
  <2>1. pane \in SoundPanes
    BY BInvTypes
  <2>2. pane.held # None /\ pane.held \in Updates \cup {None} /\ pane \in Panes
    BY <2>1, Zenon DEF SoundPanes, Panes, FinishReduction
  <2>. QED BY <2>2
<1>2. CASE pane.aborted
  <2> DEFINE q == [pane EXCEPT !.drain = "idle", !.held = None]
  <2>1. Recedes(q, pane)
    BY <1>1, Zenon DEF Panes, Recedes
  <2>2. pane' = q
    BY <1>2, Zenon DEF FinishReduction
  <2>. QED BY <2>1, <2>2, Zenon DEF PaneTurns
<1>3. CASE ~pane.aborted
  <2>1. PublishCanonical(pane.held, pane)
    BY <1>3, Zenon DEF FinishReduction
  <2>. QED BY <1>1, <2>1, PublishCanonicalPane
<1>. QED BY <1>2, <1>3

LEMMA SourceReadyPane ==
  ASSUME BInv, SourceReady
  PROVE  PaneTurns
<1>1. CASE pane.aborted
  BY <1>1, PrunedPane, Zenon DEF SourceReady
<1>2. CASE ~pane.aborted
  <2> DEFINE q == [pane EXCEPT !.st = "live"]
  <2>1. Recedes(q, pane)
    BY BInvTypes, Zenon DEF Panes, Recedes
  <2>2. pane' = q
    BY <1>2, Zenon DEF SourceReady
  <2>. QED BY <2>1, <2>2, Zenon DEF PaneTurns
<1>. QED BY <1>1, <1>2

LEMMA OpenPane ==
  ASSUME BInv, NEW c \in Clients, Open(c)
  PROVE  PaneTurns
<1> DEFINE q == [NoPane EXCEPT !.st = "starting"]
<1>1. Emptied(q)
  BY Zenon DEF Emptied, NoPane
<1>2. pane' = q \/ pane' = pane
  BY Zenon DEF Open
<1>. QED BY <1>1, <1>2, PrunedPane, Zenon DEF PaneTurns

LEMMA CloseClientPane ==
  ASSUME BInv, NEW c \in Clients, CloseClient(c)
  PROVE  PaneTurns
BY PrunedPane, Zenon DEF CloseClient, RemovePane

LEMMA SenderTurnPane ==
  ASSUME BInv, NEW c \in Clients, SenderTurn(c)
  PROVE  PaneTurns
BY CloseClientPane, PrunedPane, Zenon DEF SenderTurn

LEMMA AckPane ==
  ASSUME BInv, NEW c, NEW a, Ack(c, a) \/ Nack(c, a)
  PROVE  PaneTurns
BY PrunedPane, Zenon DEF Ack, Nack, FaultClient, hubVars

LEMMA HubPane ==
  ASSUME BInv,
         \/ HubStep \/ EncodingStep
         \/ \E c \in Clients : OpenDelivery(c) \/ DeliveryStep(c) \/ VisibilityStep(c)
                                 \/ PeerStep(c)
  PROVE  PaneTurns
<1>1. CASE HubStep
  <2>1. CASE DrainStep \/ FinishReduction \/ SourceReady
    BY <2>1, DrainStepPane, FinishReductionPane, SourceReadyPane
  <2>2. CASE ReductionFails
    <3>1. SourceInvalid(pane) /\ pane \in Panes
      BY <2>2, BInvTypes, Zenon DEF ReductionFails
    <3>. QED BY <3>1, SourceInvalidPane
  <2>3. CASE CloseHubClients \/ ReapPane
    BY <2>3, PrunedPane, Zenon DEF CloseHubClients, ReapPane, RemovePane
  <2>. QED BY <1>1, <2>1, <2>2, <2>3, Zenon DEF HubStep
<1>2. CASE EncodingStep
  BY <1>2, PrunedPane, Zenon DEF EncodingStep, CompleteEncoding
<1>3. ASSUME NEW c \in Clients, OpenDelivery(c)
      PROVE  PaneTurns
  BY <1>3, OpenPane, Zenon DEF OpenDelivery
<1>4. ASSUME NEW c \in Clients, DeliveryStep(c)
      PROVE  PaneTurns
  BY <1>4, SenderTurnPane, CloseClientPane, PrunedPane, Zenon
     DEF DeliveryStep, MicrotaskStep, CreditStep, TimerStep, SenderMicrotask,
         SinkAccepted, OutOfBandSent, OpenResume, DeliverMicrotask, BackgroundTimer
<1>5. ASSUME NEW c \in Clients, VisibilityStep(c)
      PROVE  PaneTurns
  BY <1>5, PrunedPane, Zenon DEF VisibilityStep, SetVisibility
<1>6. ASSUME NEW c \in Clients, PeerStep(c)
      PROVE  PaneTurns
  BY <1>6, AckPane, CloseClientPane, PrunedPane, Zenon
     DEF PeerStep, PeerAnswers, PeerReads, OpenRejects, SinkFailed, CloseConnection
<1>. QED BY <1>1, <1>2, <1>3, <1>4, <1>5, <1>6

-----------------------------------------------------------------------------
(* The order of revisions is kept *)

LEMMA HubInOrder ==
  ASSUME BInv, InOrder(pane, hc, src), AllPass, PaneTurns
  PROVE  InOrder(pane', hc', src)
<1>1. InOrder(pane, hc', src)
  BY PassesInOrder
<1>2. pane \in Panes /\ OneIncarnation(pane, src)
  BY BInvTypes, Zenon DEF BInv, Solvent, Ordered
<1>. QED BY <1>1, <1>2, RecedesInOrder, EmptiedInOrder, TakesInOrder,
            PublishesInOrder, Zenon DEF PaneTurns

LEMMA SubscribeSourceInOrder ==
  ASSUME BInv, NEW t \in Sources, InOrder(pane, hc, t), NEW u \in Updates,
         SubscribeSource(u), Lives(t), u.rev = t.rev, u.inc = t.inc
  PROVE  InOrder(pane', hc', t)
<1> DEFINE l == <<u>>
           q == [pane EXCEPT !.st = "seeded", !.queue = l, !.drain = "ready"]
<1>1. pane \in Panes /\ pane.st = "starting" /\ hc \in [Clients -> ClientStates]
  BY BInvTypes, Zenon DEF SubscribeSource
<1>2. pane' = q /\ UNCHANGED hc
  BY Zenon DEF SubscribeSource
<1> HIDE DEF l
<1>3. /\ q.queue = l /\ q.held = pane.held /\ q.cur = pane.cur /\ q.revs = pane.revs
  BY <1>1, Zenon DEF Panes
<1> HIDE DEF q
<1>4. pane.cur = Null /\ Items(pane) = {}
  BY <1>1, Zenon DEF BInv, Solvent, Ordered, Empty
<1>5. pane.held = None /\ pane.revs = {}
  BY <1>4, Zenon DEF Items, InOrder, Rising
<1>6. Seeded(q, u)
  BY <1>3, <1>4, <1>5, Zenon DEF Seeded, l
<1>7. InOrder(q, hc, t)
  BY <1>1, <1>6, SeededInOrder
<1>. QED BY <1>2, <1>7, Zenon

LEMMA ObserveCanonicalInOrder ==
  ASSUME BInv, NEW t \in Sources, hc' \in [Clients -> ClientStates],
         InOrder(pane, hc', src), NEW u \in Updates, ObserveCanonical(u),
         u.rev = t.rev, t.rev = src.rev + 1, u.inc = src.inc, Later(t, src)
  PROVE  InOrder(pane', hc', t)
<1>1. pane \in Panes /\ src \in Sources
  BY BInvTypes
<1>2. InOrder(pane, hc', t) /\ \A v, i : Known(pane, hc', v, i) => v < t.rev
  BY <1>1, CountedInOrder
<1>3. CASE UNCHANGED hubVars
  BY <1>2, <1>3, Zenon DEF hubVars
<1>4. CASE AbortPane(pane, "state-too-large", "pending-budget")
  <2>1. Recedes(pane, pane)
    BY Zenon DEF Recedes
  <2>2. PaneTurns
    BY <1>1, <1>4, <2>1, AbortPanePane
  <2>3. OneIncarnation(pane, t)
    <3>1. src.inc \in Nat /\ t.inc \in Nat /\ src.inc <= t.inc
      BY <1>1, Zenon DEF Sources, Later
    <3>2. \A i \in Nat : i < src.inc => i < t.inc
      BY <3>1, SMT
    <3>. QED BY <1>1, <3>2, ItemsType, Zenon DEF BInv, Solvent, Ordered, OneIncarnation
  <2>. QED BY <1>1, <1>2, <2>2, <2>3, RecedesInOrder, EmptiedInOrder, TakesInOrder,
              PublishesInOrder, Zenon DEF PaneTurns
<1>5. CASE /\ pane' = [pane EXCEPT !.queue = Append(@, u),
                                   !.drain = IF @ = "idle" THEN "ready" ELSE @]
  <2> DEFINE l == Append(pane.queue, u)
             d == IF pane.drain = "idle" THEN "ready" ELSE pane.drain
             q == [pane EXCEPT !.queue = l, !.drain = d]
  <2>1. pane' = q
    BY <1>5, Zenon
  <2> HIDE DEF l, d
  <2>2. Receives(q, pane, u)
    <3>1. /\ q.queue = l /\ q.held = pane.held /\ q.cur = pane.cur
          /\ q.inc = pane.inc /\ q.revs = pane.revs
      BY <1>1, Zenon DEF Panes
    <3>. QED BY <3>1, Zenon DEF Receives, l
  <2> HIDE DEF q
  <2>3. CurrentKept(pane)
    BY Zenon DEF BInv, Solvent, Ordered
  <2>4. Lives(t) => u.inc = t.inc
    BY Zenon DEF Later
  <2>5. InOrder(q, hc', t)
    BY <1>1, <1>2, <2>2, <2>3, <2>4, ReceivesInOrder
  <2>. QED BY <2>1, <2>5, Zenon
<1>. QED BY <1>3, <1>4, <1>5, Zenon DEF ObserveCanonical

LEMMA SourceStepInOrder ==
  ASSUME BInv, RtSound', InOrder(pane, hc, src), AllPass, SourceStep
  PROVE  InOrder(pane', hc', src')
<1>1. /\ pane \in Panes /\ src \in Sources /\ src' \in Sources /\ src.inc \in Nat
      /\ hc \in [Clients -> ClientStates] /\ hc' \in [Clients -> ClientStates]
  BY BInvTypes, Zenon DEF RtSound, HubSound, HubTypeOK
<1>2. src.inc <= src.inc /\ src.inc <= src.inc + 1
  BY <1>1, SMT
<1>3. InOrder(pane, hc', src)
  BY PassesInOrder
<1>4. ASSUME NEW tomb \in BOOLEAN, ObserveCanonical(Emission(tomb)),
             src'.rev = src.rev + 1, Later(src', src)
      PROVE  InOrder(pane', hc', src')
  <2>1. /\ Emission(tomb) \in Updates /\ Emission(tomb).rev = src.rev + 1
        /\ Emission(tomb).inc = src.inc
    BY <1>1, EmissionType, Zenon DEF Emission
  <2>. QED BY <1>1, <1>3, <1>4, <2>1, ObserveCanonicalInOrder, Zenon
<1>5. ASSUME NEW s \in {"absent", "shut"}, NEW v,
             src' = [st |-> s, inc |-> src.inc + 1, rev |-> v]
      PROVE  Later(src', src) /\ src'.rev = v
  BY <1>2, <1>5, Zenon DEF Later, Lives
<1>6. ASSUME EndSource
      PROVE  InOrder(pane', hc', src')
  BY <1>4, <1>5, <1>6, Zenon DEF EndSource
<1>7. ASSUME PaneTurns, Later(src', src), src'.rev = src.rev
      PROVE  InOrder(pane', hc', src')
  BY <1>7, HubInOrder, EndedInOrder
<1>8. src' = src => Later(src', src) /\ src'.rev = src.rev
  BY <1>2, Zenon DEF Later
<1>9. CASE SourceSeeds
  <2>1. CASE src.st = "live"
    <3> DEFINE u == [rev |-> src.rev, inc |-> src.inc, tomb |-> FALSE]
    <3>1. u \in Updates
      BY <2>1, <1>1, Zenon DEF BInv, RtSound, Updates
    <3>2. u.inc = src.inc /\ u.rev = src.rev
      OBVIOUS
    <3>3. SubscribeSource(u) /\ src' = src
      BY <1>9, <2>1, Zenon DEF SourceSeeds
    <3> HIDE DEF u
    <3>4. Lives(src)
      BY <2>1, Zenon DEF Lives
    <3>5. InOrder(pane', hc', src)
      BY <1>1, <3>1, <3>2, <3>3, <3>4, SubscribeSourceInOrder
    <3>. QED BY <3>3, <3>5, Zenon
  <2>2. CASE src.st # "live"
    <3> DEFINE k == src.rev + 1
    <3>1. /\ SubscribeSource(Emission(FALSE))
          /\ src' = [src EXCEPT !.st = "live", !.rev = k]
      BY <1>9, <2>2, Zenon DEF SourceSeeds
    <3> HIDE DEF k
    <3>2. src'.inc = src.inc /\ src'.rev = k /\ src'.st = "live"
      BY <1>1, <3>1, Zenon DEF Sources
    <3>3. InOrder(pane, hc, src')
      BY <1>1, <3>2, CountedInOrder, Zenon DEF k
    <3>4. /\ Emission(FALSE) \in Updates /\ Emission(FALSE).rev = k
          /\ Emission(FALSE).inc = src.inc
      BY <1>1, EmissionType, Zenon DEF Emission, k
    <3>5. Lives(src')
      BY <3>2, Zenon DEF Lives
    <3>. QED BY <1>1, <3>1, <3>2, <3>3, <3>4, <3>5, SubscribeSourceInOrder
  <2>. QED BY <2>1, <2>2
<1>10. CASE SourceStartFailure \/ StartCancelled
  BY <1>7, <1>8, <1>10, PrunedPane, Zenon DEF SourceStartFailure, StartCancelled,
     SourceStartFails
<1>11. CASE SourceEmits
  <2> DEFINE k == src.rev + 1
  <2>1. src' = [src EXCEPT !.rev = k] /\ src.st = "live"
    BY <1>11, Zenon DEF SourceEmits
  <2> HIDE DEF k
  <2>2. src'.inc = src.inc /\ src'.st = src.st /\ src'.rev = k
    BY <1>1, <2>1, Zenon DEF Sources
  <2>3. Later(src', src)
    BY <1>2, <2>1, <2>2, Zenon DEF Later, Lives
  <2>. QED BY <1>4, <1>11, <2>2, <2>3, Zenon DEF SourceEmits, k
<1>12. CASE SourceCloses \/ SourceDisposed
  BY <1>6, <1>12, Zenon DEF SourceCloses, SourceDisposed
<1>13. CASE SourceCaptureFails
  <2>1. src' = [src EXCEPT !.st = "disposing"] /\ src.st = "live"
    BY <1>13, Zenon DEF SourceCaptureFails
  <2>2. src'.inc = src.inc /\ src'.rev = src.rev
    BY <1>1, <2>1, Zenon DEF Sources
  <2>3. Later(src', src)
    BY <1>2, <2>1, <2>2, Zenon DEF Later, Lives
  <2>. QED BY <1>7, <1>13, <2>2, <2>3, PrunedPane, Zenon
           DEF SourceCaptureFails, FailPaneCapture
<1>14. CASE ControlExits
  <2>1. pane' = NoPane
    BY <1>14, Zenon DEF ControlExits, ResetForSessionRestart, RemovePane
  <2>2. src' = [st |-> "absent", inc |-> src.inc + 1,
                rev |-> IF src.st = "live" THEN src.rev + 1 ELSE src.rev]
    BY <1>14, Zenon DEF ControlExits
  <2>3. Later(src', src) /\ src'.rev \in {src.rev, src.rev + 1}
    BY <1>5, <2>2, Zenon
  <2>4. InOrder(pane', hc', src)
    BY <1>3, <2>1, NoPaneEmptied, EmptiedInOrder
  <2>5. pane' \in Panes
    BY <2>1, NoPaneType, Zenon DEF SoundPanes
  <2>. QED BY <1>1, <2>3, <2>4, <2>5, EndedInOrder, CountedInOrder, Zenon
<1>15. CASE RuntimeDisposes
  <2>1. CASE src.st = "absent"
    <3>1. UNCHANGED hubVars /\ src' = [src EXCEPT !.st = "shut"]
      BY <1>15, <2>1, Zenon DEF RuntimeDisposes
    <3>2. src'.inc = src.inc /\ src'.st = "shut" /\ src'.rev = src.rev
      BY <1>1, <3>1, Zenon DEF Sources
    <3>3. Later(src', src)
      BY <1>2, <3>2, Zenon DEF Later, Lives
    <3>. QED BY <1>7, <3>1, <3>2, <3>3, PrunedPane, Zenon DEF hubVars
  <2>2. CASE src.st # "absent"
    BY <1>4, <1>5, <1>15, <2>2, Zenon DEF RuntimeDisposes
  <2>. QED BY <2>1, <2>2
<1>16. CASE HubCloses
  BY <1>7, <1>8, <1>16, PrunedPane, Zenon DEF HubCloses, CloseHub,
     ResetForSessionRestart, RemovePane
<1>. QED BY <1>9, <1>10, <1>11, <1>12, <1>13, <1>14, <1>15, <1>16, Zenon DEF SourceStep

-----------------------------------------------------------------------------
(* What is promised to a client fits together *)

\* What a client settled on is behind the pane, and of the pane's incarnation
\* if the pane still has it.
LEMMA SettledBehind ==
  ASSUME BInv, AllSane(hc), InOrder(pane, hc, src), NEW c \in Clients
  PROVE  /\ pane.cur # Null => hc[c].base <= pane.cur
         /\ hc[c].base \in pane.revs => /\ hc[c].lastAck # None
                                        /\ hc[c].lastAck.inc = pane.inc
<1> DEFINE r == hc[c]
<1>1. r \in ClientStates /\ pane \in Panes
  BY BInvTypes
<1>2. r.base = IF r.lastAck = None THEN Null ELSE r.lastAck.rev
  BY Zenon DEF AllSane, Sane
<1>3. r.lastAck # None => Holds(r, r.lastAck.rev, r.lastAck.inc)
  BY Zenon DEF Holds
<1>4. ASSUME pane.cur # Null
      PROVE  r.base <= pane.cur
  <2>1. CASE r.lastAck = None
    <3>1. pane.cur \in Nat
      BY <1>1, <1>4, Zenon DEF Panes, Revs
    <3>. QED BY <1>2, <2>1, <3>1, SMT DEF Null
  <2>2. CASE r.lastAck # None
    BY <1>2, <1>3, <1>4, <2>2, Zenon DEF InOrder, Behind
  <2>. QED BY <2>1, <2>2
<1>5. ASSUME r.base \in pane.revs
      PROVE  r.lastAck # None /\ r.lastAck.inc = pane.inc
  <2>1. Null \notin pane.revs
    <3>1. pane.revs \subseteq Nat
      BY <1>1, Zenon DEF Panes
    <3>2. Null \notin Nat
      BY SMT DEF Null
    <3>. QED BY <3>1, <3>2
  <2>2. r.lastAck # None /\ r.lastAck.rev \in pane.revs
    BY <1>2, <1>5, <2>1, Zenon
  <2>3. /\ Known(pane, hc, r.lastAck.rev, r.lastAck.inc)
        /\ Known(pane, hc, r.lastAck.rev, pane.inc)
    BY <1>3, <2>2, Zenon DEF Known
  <2>. QED BY <2>2, <2>3, Zenon DEF InOrder, Clocked
<1>. QED BY <1>4, <1>5

LEMMA TurnsSane ==
  ASSUME NEW ms, BInv, AllSane(hc), InOrder(pane, hc, src), NEW c \in Clients,
         NEW s, Turns(s, hc[c], ms)
  PROVE  Sane(s)
<1> DEFINE r == hc[c]
<1>1. Sane(r) /\ r \in ClientStates /\ Turns(s, r, ms)
  BY BInvTypes, Zenon DEF AllSane
<1>2. /\ pane.cur # Null => r.base <= pane.cur
      /\ r.base \in pane.revs => r.lastAck # None /\ r.lastAck.inc = pane.inc
  BY SettledBehind
<1> HIDE DEF r
<1>3. CASE Undisturbed(s, r)
  BY <1>1, <1>3, Zenon DEF Undisturbed, Same, Stays, Sane
<1>4. CASE Broken(s, r, ms)
  BY <1>1, <1>4, Zenon DEF Broken, Stays, Sane
<1>5. CASE Encodes(s, r)
  <2>1. /\ s.st = "open" /\ s.base = r.base /\ s.lastAck = r.lastAck /\ s.flight = None
        /\ pane.cur # Null
    BY <1>5, Zenon DEF Encodes, Same, Stays
  <2>2. s.enc.base = r.base /\ s.enc.rev = pane.cur
    BY <1>5, SMT DEF Encodes
  <2>. QED BY <1>1, <1>2, <2>1, <2>2, Zenon DEF Sane
<1>6. CASE Starts(s, r)
  <2>1. PICK e \in Envelopes : Fits(e, r) /\ s.flight = [env |-> e, next |-> 0]
    BY <1>6, Zenon DEF Starts
  <2>2. s.flight.env = e /\ s.flight.next = 0
    BY <2>1, SMT
  <2>3. r.base <= e.rev
    BY <1>1, <1>2, <2>1, Zenon DEF Fits, Sane
  <2>4. e.txn > 0 /\ e.chunks > 0 /\ 0 <= e.chunks
    <3>1. e.txn > 0 /\ e.chunks > 0
      BY <2>1, Zenon DEF Fits
    <3>2. e.chunks \in Nat
      BY Zenon DEF Envelopes
    <3>. QED BY <3>1, <3>2, SMT
  <2>5. e.frame = "patch" => /\ ~r.reseed /\ e.base = r.base
                             /\ r.lastAck # None /\ e.inc = r.lastAck.inc
    BY <1>2, <2>1, Zenon DEF Fits
  <2>6. /\ s.st = "open" /\ s.base = r.base /\ s.lastAck = r.lastAck
        /\ s.reseed = r.reseed /\ s.enc = None
    BY <1>6, Zenon DEF Starts, Stays
  <2>. QED BY <1>1, <2>2, <2>3, <2>4, <2>5, <2>6, Zenon DEF Sane
<1>. QED BY <1>1, <1>3, <1>4, <1>5, <1>6, Zenon DEF Turns

LEMMA SendsSane ==
  ASSUME NEW r \in ClientStates, Sane(r), NEW s, NEW m, Sends(s, r, m)
  PROVE  Sane(s)
<1>0. /\ s.st = r.st /\ s.base = r.base /\ s.lastAck = r.lastAck
      /\ s.reseed = r.reseed /\ s.enc = r.enc /\ r.st = "open"
  BY Zenon DEF Sends, Stays
<1>1. CASE s.flight = r.flight
  BY <1>0, <1>1, SMT DEF Sane
<1>2. CASE /\ r.flight # None /\ r.flight.next < r.flight.env.chunks
           /\ s.flight = [env |-> r.flight.env, next |-> r.flight.next + 1]
  <2>1. s.flight.env = r.flight.env /\ s.flight.next = r.flight.next + 1
    BY <1>2, SMT
  <2>2. r.flight.next \in Nat /\ r.flight.env.chunks \in Nat
    <3>1. r.flight \in Flights
      BY <1>2, Zenon DEF ClientStates
    <3>. QED BY <3>1, Zenon DEF Flights, Envelopes
  <2>3. s.flight.next <= s.flight.env.chunks
    BY <1>2, <2>1, <2>2, SMT
  <2>. QED BY <1>0, <1>2, <2>1, <2>3, Zenon DEF Sane
<1>. QED BY <1>1, <1>2, Zenon DEF Sends

LEMMA UnpromisedSane ==
  /\ Sane(IdleClient)
  /\ \A s : Fresh(s) => Sane(s)
  /\ \A r, s : /\ Sane(r) /\ r.st # "open" /\ Waits(s, r)
               => Sane(s)
<1>1. Sane(IdleClient)
  BY Zenon DEF Sane, IdleClient
<1>2. \A s : Fresh(s) => Sane(s)
  BY Zenon DEF Sane, Fresh
<1>3. \A r, s : Sane(r) /\ r.st # "open" /\ Waits(s, r) => Sane(s)
  BY ZenonT(40) DEF Sane, Waits
<1>. QED BY <1>1, <1>2, <1>3

LEMMA MovesSane ==
  ASSUME NEW ms, BInv, AllSane(hc), InOrder(pane, hc, src), NEW c \in Clients, Moves(c, ms)
  PROVE  Sane(hc'[c])
<1>1. Sane(hc[c]) /\ hc[c] \in ClientStates
  BY BInvTypes, Zenon DEF AllSane
<1>2. CASE Turns(hc'[c], hc[c], ms)
  BY <1>2, TurnsSane
<1>3. ASSUME NEW m, Sends(hc'[c], hc[c], m)
      PROVE  Sane(hc'[c])
  BY <1>1, <1>3, SendsSane
<1>4. CASE Waiting(hc[c]) /\ Waits(hc'[c], hc[c])
  BY <1>1, <1>4, UnpromisedSane, Zenon DEF Waiting
<1>5. CASE hc'[c] = IdleClient \/ Fresh(hc'[c])
  BY <1>5, UnpromisedSane, Zenon
<1>. QED BY <1>2, <1>3, <1>4, <1>5, Zenon DEF Moves, Detaches, TurnedAway

LEMMA EffectSane ==
  ASSUME BInv, AllSane(hc), InOrder(pane, hc, src), Effect
  PROVE  AllSane(hc')
<1>1. CASE \E ms : AllMove(ms)
  BY <1>1, MovesSane, Zenon DEF AllMove, AllSane
<1>2. CASE UNCHANGED hc
  BY <1>2, Zenon DEF AllSane
<1>3. ASSUME NEW c \in Clients, \A d \in Clients \ {c} : Moves(d, Excuses), Sane(hc'[c])
      PROVE  AllSane(hc')
  BY <1>3, MovesSane, Zenon DEF AllSane
<1>4. \A c \in Clients : Sane(hc[c])
  BY Zenon DEF AllSane
<1>5. ASSUME NEW c \in Clients, Opens(c) \/ Ends(c)
      PROVE  AllSane(hc')
  <2>1. Sane(hc'[c])
    BY <1>4, <1>5, UnpromisedSane, Zenon DEF Opens, Ends
  <2>. QED BY <1>3, <1>5, <2>1, Zenon DEF Opens, Ends
<1>6. ASSUME NEW c \in Clients, NEW a \in Acks, Accepts(c, a)
      PROVE  AllSane(hc')
  <2>1. a # None
    BY NoneAssumption, Zenon
  <2>2. Sane(hc'[c])
    BY <1>4, <1>6, <2>1, Zenon DEF Accepts, Acked, Settled, Sane
  <2>. QED BY <1>3, <1>6, <2>2, Zenon DEF Accepts
<1>7. ASSUME NEW c \in Clients, NEW n \in Nacks, Refuses(c, n)
      PROVE  AllSane(hc')
  <2>1. Sane(hc'[c])
    BY <1>4, <1>7, ZenonT(40) DEF Refuses, Nacked, Settled, Sane
  <2>. QED BY <1>3, <1>7, <2>1, Zenon DEF Refuses
<1>. QED BY <1>1, <1>2, <1>5, <1>6, <1>7, Zenon DEF Effect

-----------------------------------------------------------------------------
(* No more is retained than the hub claims *)

LEMMA ImageSmall ==
  ASSUME NEW S, IsFiniteSet(S), NEW T, NEW f \in [S -> T]
  PROVE  /\ IsFiniteSet({f[x] : x \in S})
         /\ Cardinality({f[x] : x \in S}) <= Cardinality(S)
<1>1. f \in Surjection(S, {f[x] : x \in S})
  <2>1. f \in [S -> {f[x] : x \in S}]
    BY SMT
  <2>. QED BY <2>1, SMT DEF Surjection
<1>. QED BY <1>1, FS_Surjection

\* The revision an open client has under way, or its baseline.
UnderWay(r) ==
  IF r.enc # None THEN r.enc.rev ELSE IF r.flight # None THEN r.flight.env.rev ELSE r.base

\* A pane that keeps the current revision and what the open clients need.
LEMMA LeanSmall ==
  ASSUME NEW q, NEW f \in [Clients -> ClientStates], AllSane(f), Lean(q, f),
         Cardinality({c \in Clients : f[c].st # "idle"}) <= MaxClients
  PROVE  IsFiniteSet(q.revs) /\ Cardinality(q.revs) <= 2 * MaxClients + 1
<1> DEFINE O == {c \in Clients : f[c].st = "open"}
           bases == [c \in O |-> f[c].base]
           others == [c \in O |-> UnderWay(f[c])]
           X == {bases[c] : c \in O}
           Y == {others[c] : c \in O}
<1>1. IsFiniteSet(O) /\ Cardinality(O) <= MaxClients /\ Cardinality(O) \in Nat
  <2> DEFINE P == {c \in Clients : f[c].st # "idle"}
  <2>1. P \in SUBSET Clients /\ O \in SUBSET P
    BY Zenon
  <2>2. IsFiniteSet(P)
    BY <2>1, BoundsAssumption, FS_Subset, Zenon
  <2>3. IsFiniteSet(O) /\ Cardinality(O) <= Cardinality(P)
    BY <2>1, <2>2, FS_Subset, Zenon
  <2>4. Cardinality(O) \in Nat /\ Cardinality(P) \in Nat
    BY <2>2, <2>3, FS_CardinalityType
  <2> HIDE DEF O
  <2>5. Cardinality(P) <= MaxClients
    OBVIOUS
  <2> HIDE DEF P
  <2>. QED BY <2>3, <2>4, <2>5, BoundsAssumption, SMT
<1>2. ASSUME NEW c \in O, NEW v \in Needs(f[c], q)
      PROVE  v \in {f[c].base, UnderWay(f[c])}
  <2>1. f[c].flight = None \/ f[c].enc = None
    BY Zenon DEF AllSane, Sane
  <2>. QED BY <1>2, <2>1, Zenon DEF Needs, UnderWay
<1>3. q.revs \subseteq (X \cup Y) \cup {q.cur}
  <2>1. ASSUME NEW v \in q.revs, v # q.cur
        PROVE  v \in X \cup Y
    <3>1. PICK c \in O : v \in Needs(f[c], q)
      BY <2>1, Zenon DEF Lean
    <3>2. v = f[c].base \/ v = UnderWay(f[c])
      BY <1>2, <3>1
    <3> HIDE DEF O
    <3>3. f[c].base \in X /\ UnderWay(f[c]) \in Y
      BY SMT
    <3>. QED BY <3>2, <3>3, Zenon
  <2> HIDE DEF X, Y
  <2>. QED BY <2>1, Zenon
<1> HIDE DEF O
<1>4. /\ IsFiniteSet(X) /\ Cardinality(X) <= Cardinality(O)
      /\ IsFiniteSet(Y) /\ Cardinality(Y) <= Cardinality(O)
  <2>1. bases \in [O -> {bases[c] : c \in O}] /\ others \in [O -> {others[c] : c \in O}]
    BY SMT
  <2> HIDE DEF bases, others
  <2>2. /\ IsFiniteSet({bases[x] : x \in O})
        /\ Cardinality({bases[x] : x \in O}) <= Cardinality(O)
    BY <1>1, <2>1, ImageSmall, Zenon
  <2>3. /\ IsFiniteSet({others[x] : x \in O})
        /\ Cardinality({others[x] : x \in O}) <= Cardinality(O)
    BY <1>1, <2>1, ImageSmall, Zenon
  <2>. QED BY <2>2, <2>3
<1> HIDE DEF X, Y
<1>5. /\ IsFiniteSet(X \cup Y)
      /\ Cardinality(X \cup Y) = Cardinality(X) + Cardinality(Y) - Cardinality(X \cap Y)
  BY <1>4, FS_Union
<1>6. /\ Cardinality(X) \in Nat /\ Cardinality(Y) \in Nat
      /\ Cardinality(X \cap Y) \in Nat /\ Cardinality(X \cup Y) \in Nat
  <2>1. IsFiniteSet(X \cap Y)
    <3>1. X \cap Y \in SUBSET X
      BY Zenon
    <3>. QED BY <1>4, <3>1, FS_Subset, Zenon
  <2>. QED BY <1>4, <1>5, <2>1, FS_CardinalityType
<1> DEFINE Z == (X \cup Y) \cup {q.cur}
<1>7. /\ IsFiniteSet(Z)
      /\ Cardinality(Z) \in {Cardinality(X \cup Y), Cardinality(X \cup Y) + 1}
  BY <1>5, FS_AddElement, Zenon
<1>8. IsFiniteSet(q.revs) /\ Cardinality(q.revs) <= Cardinality(Z)
  <2>1. q.revs \in SUBSET Z
    BY <1>3, Zenon
  <2>. QED BY <1>7, <2>1, FS_Subset, Zenon
<1>9. Cardinality(Z) \in Nat /\ Cardinality(q.revs) \in Nat
  BY <1>7, <1>8, FS_CardinalityType
<1> HIDE DEF Z
<1>. QED BY <1>1, <1>4, <1>5, <1>6, <1>7, <1>8, <1>9, BoundsAssumption, SMT

Retained == IsFiniteSet(pane.revs) /\ RetentionBound

LEMMA FewerRetained ==
  ASSUME Retained, pane'.revs \subseteq pane.revs
  PROVE  Retained'
<1>1. pane'.revs \in SUBSET pane.revs /\ IsFiniteSet(pane.revs)
  BY Zenon DEF Retained
<1>2. IsFiniteSet(pane'.revs) /\ Cardinality(pane'.revs) <= Cardinality(pane.revs)
  BY <1>1, FS_Subset, Zenon
<1>3. Cardinality(pane'.revs) \in Nat /\ Cardinality(pane.revs) \in Nat
  BY <1>1, <1>2, FS_CardinalityType
<1>4. Cardinality(pane.revs) <= 2 * MaxClients + 1
  BY Zenon DEF Retained, RetentionBound
<1>5. Cardinality(pane'.revs) <= 2 * MaxClients + 1
  BY <1>2, <1>3, <1>4, BoundsAssumption, SMT
<1>. QED BY <1>2, <1>5, Zenon DEF Retained, RetentionBound

LEMMA TurnsRetained ==
  ASSUME BInv, AllSane(hc), CapacityHeld, Retained, PaneTurns
  PROVE  Retained'
<1>1. CASE pane'.revs \subseteq pane.revs
  BY <1>1, FewerRetained
<1>2. CASE Lean(pane', hc)
  <2>1. hc \in [Clients -> ClientStates]
    BY BInvTypes
  <2>. QED BY <1>2, <2>1, LeanSmall, Zenon DEF CapacityHeld, Retained, RetentionBound
<1>. QED BY <1>1, <1>2, Zenon DEF PaneTurns, Recedes, Emptied, Takes

\* The source publishes nothing itself.
LEMMA SourceStepFewer ==
  ASSUME BInv, SourceStep
  PROVE  PaneTurns \/ pane'.revs \subseteq pane.revs
<1>1. pane \in Panes
  BY BInvTypes
<1>2. ASSUME NEW u, SubscribeSource(u)
      PROVE  pane'.revs \subseteq pane.revs
  BY <1>1, <1>2, Zenon DEF SubscribeSource, Panes
<1>3. ASSUME NEW u, ObserveCanonical(u)
      PROVE  PaneTurns \/ pane'.revs \subseteq pane.revs
  <2>1. CASE UNCHANGED hubVars
    BY <2>1, Zenon DEF hubVars
  <2>2. CASE AbortPane(pane, "state-too-large", "pending-budget")
    <3>1. Recedes(pane, pane)
      BY Zenon DEF Recedes
    <3>. QED BY <1>1, <2>2, <3>1, AbortPanePane
  <2>3. CASE /\ pane' = [pane EXCEPT !.queue = Append(@, u),
                                     !.drain = IF @ = "idle" THEN "ready" ELSE @]
    BY <1>1, <2>3, Zenon DEF Panes
  <2>. QED BY <1>3, <2>1, <2>2, <2>3, Zenon DEF ObserveCanonical
<1>4. CASE SourceSeeds
  BY <1>2, <1>4, Zenon DEF SourceSeeds
<1>5. CASE SourceEmits \/ SourceCloses \/ SourceDisposed
  BY <1>3, <1>5, Zenon DEF SourceEmits, SourceCloses, SourceDisposed, EndSource
<1>6. CASE RuntimeDisposes
  BY <1>3, <1>6, Zenon DEF RuntimeDisposes, hubVars
<1>7. CASE \/ SourceStartFailure \/ StartCancelled \/ SourceCaptureFails
           \/ ControlExits \/ HubCloses
  BY <1>7, PrunedPane, Zenon
     DEF SourceStartFailure, StartCancelled, SourceStartFails, SourceCaptureFails,
         FailPaneCapture, ControlExits, HubCloses, CloseHub,
         ResetForSessionRestart, RemovePane
<1>. QED BY <1>4, <1>5, <1>6, <1>7, Zenon DEF SourceStep

-----------------------------------------------------------------------------
(* The runtime's invariant *)

RInv == BInv /\ CapacityHeld /\ InOrder(pane, hc, src) /\ AllSane(hc) /\ Retained

LEMMA InitRInv ==
  ASSUME RtInit
  PROVE  InOrder(pane, hc, src) /\ AllSane(hc) /\ Retained
<1>1. /\ pane.queue = <<>> /\ pane.held = None /\ pane.cur = Null /\ pane.revs = {}
      /\ \A c \in Clients : hc[c] = IdleClient
  BY Zenon DEF RtInit, HubInit, NoPane
<1>2. AllSane(hc)
  BY <1>1, UnpromisedSane, Zenon DEF AllSane
<1>3. Items(pane) = {}
  <2>1. Len(<<>>) = 0 /\ 1..0 = {}
    BY SMT
  <2>. QED BY <1>1, <2>1, Zenon DEF Items, Elements
<1>4. \A v, i : ~Known(pane, hc, v, i)
  BY <1>1, <1>3, NothingHeld, Zenon DEF Known
<1>5. Rising(pane)
  <2>1. Len(<<>>) = 0 /\ 1..0 = {}
    BY SMT
  <2>. QED BY <1>1, <2>1, Zenon DEF Rising
<1>6. InOrder(pane, hc, src)
  BY <1>4, <1>5, Zenon DEF InOrder, Clocked, Behind, Known
<1>7. Retained
  <2>1. IsFiniteSet(pane.revs) /\ Cardinality(pane.revs) = 0
    BY <1>1, FS_EmptySet
  <2>2. 0 <= 2 * MaxClients + 1
    BY BoundsAssumption, SMT
  <2>. QED BY <2>1, <2>2, Zenon DEF Retained, RetentionBound
<1>. QED BY <1>2, <1>6, <1>7

LEMMA NextRInv ==
  ASSUME RInv, RtNext, BInv'
  PROVE  InOrder(pane', hc', src') /\ AllSane(hc') /\ Retained'
<1>1. /\ BInv /\ CapacityHeld /\ InOrder(pane, hc, src) /\ AllSane(hc) /\ Retained
      /\ RtSound'
  BY Zenon DEF RInv, BInv
<1>2. Effect
  BY <1>1, NextEffect
<1>3. AllPass /\ AllSane(hc')
  BY <1>1, <1>2, EffectPasses, EffectSane
<1>4. CASE SourceStep
  BY <1>1, <1>3, <1>4, SourceStepInOrder, SourceStepFewer, TurnsRetained, FewerRetained
<1>5. CASE \/ HubStep \/ EncodingStep
           \/ \E c \in Clients : OpenDelivery(c) \/ DeliveryStep(c) \/ VisibilityStep(c)
                                   \/ PeerStep(c)
  <2>1. src' = src
    BY <1>5, Zenon DEF HubStep, EncodingStep, OpenDelivery, DeliveryStep,
       MicrotaskStep, CreditStep, TimerStep, VisibilityStep, PeerStep
  <2>2. PaneTurns
    BY <1>1, <1>5, HubPane
  <2>3. InOrder(pane', hc', src)
    BY <1>1, <1>3, <2>2, HubInOrder
  <2>. QED BY <1>1, <1>3, <2>1, <2>2, <2>3, TurnsRetained, Zenon
<1>. QED BY <1>4, <1>5, Zenon DEF RtNext

LEMMA RInvInit == RtInit => RInv
BY InitSolvent, InitCapacity, InitRInv, Zenon DEF RInv

LEMMA RInvStep == RInv /\ [RtNext]_rtVars => RInv'
<1> SUFFICES ASSUME RInv, [RtNext]_rtVars
             PROVE  RInv'
  OBVIOUS
<1>1. BInv' /\ CapacityHeld'
  BY NextSolvent, NextCapacity, Zenon DEF RInv, BInv
<1>2. CASE RtNext
  BY <1>1, <1>2, NextRInv, Zenon DEF RInv
<1>3. CASE UNCHANGED rtVars
  BY <1>1, <1>3, Zenon DEF rtVars, hubVars, RInv, Retained, RetentionBound
<1>. QED BY <1>2, <1>3

LEMMA AlwaysRInv == RtSpec => []RInv
BY RInvInit, RInvStep, PTL DEF RtSpec

\* The hub retains no more canonical revisions than pruneCanonicalRevisions
\* claims: the current one, and for each of at most MAX_CLIENTS clients a
\* baseline and one revision under way, whatever was encoded, sent, refused or
\* abandoned meanwhile.
THEOREM RetentionTheorem == RtSpec => []RetentionBound
<1>1. RInv => RetentionBound
  BY Zenon DEF RInv, Retained
<1>. QED BY <1>1, AlwaysRInv, PTL

=============================================================================
