-------------------------- MODULE ShellSessionProofs --------------------------
(* Type correctness of ShellSession; that a store only ever shows what was   *)
(* read for its target and never goes back; that it has a stream or is about *)
(* to retry it; and that live means current or about to be: for any targets, *)
(* bounds and transports.  Each operation of the store keeps a well-kept     *)
(* store; what it does to one is a fact of its own, of which the actions     *)
(* only use what the invariant asks.                                         *)
EXTENDS ShellSession, TLAPS

\* What is retained and what is being read are of the target, and a store
\* without a target has neither a subscription nor a timer that reads.
Keyed(s) ==
  /\ s.read # None => s.read.key = s.key
  /\ s.snap # None => s.snap.key = s.key
  /\ (s.link # "none" \/ s.reqTimer \/ s.evTimer) => s.key # None

Kept(s) == s \in Stores /\ Keyed(s)

IInv == TypeOK /\ Keyed(store)

-----------------------------------------------------------------------------
(* The operations of the store *)

LEMMA Zero == 0 \in 0..MaxAttempts /\ 0 \in Versions
  BY StoreAssumption DEF Versions

LEMMA RetireRequestKept ==
  ASSUME NEW s, Kept(s) PROVE Kept(RetireRequest(s))
  BY ZenonT(40) DEF Kept, Keyed, Stores, RetireRequest

LEMMA RetireSubscriptionKept ==
  ASSUME NEW s, Kept(s) PROVE Kept(RetireSubscription(s))
  BY ZenonT(40) DEF Kept, Keyed, Stores, RetireSubscription, Transports, Links

\* None of the two changes the target.
LEMMA RetiringKeepsKey ==
  ASSUME NEW s \in Stores
  PROVE  /\ RetireRequest(s).key = s.key /\ RetireRequest(s).read = None
         /\ RetireSubscription(s).key = s.key /\ RetireSubscription(s).link = "none"
         /\ RetireSubscription(s).read = s.read
  BY DEF Stores, RetireRequest, RetireSubscription

LEMMA FetchResourceKept ==
  ASSUME NEW s, Kept(s), s.key # None
  PROVE  Kept(FetchResource(s)) /\ FetchResource(s).key = s.key
  <1>1. Kept(RetireRequest(s)) /\ RetireRequest(s).key = s.key
    BY RetireRequestKept, RetiringKeepsKey DEF Kept
  <1>2. [key |-> s.key, st |-> "held", ver |-> 0] \in Reads
    BY StoreAssumption DEF Kept, Stores, Reads, Versions
  <1> HIDE DEF Reads
  <1>3. ASSUME NEW t, Kept(t), t.key = s.key, NEW r \in Reads, r.key = s.key
        PROVE  LET u == [t EXCEPT !.read = r] IN Kept(u) /\ u.key = s.key
    BY <1>3 DEF Kept, Keyed, Stores
  <1> QED BY <1>1, <1>2, <1>3 DEF FetchResource

LEMMA ScheduleRequestRetryKept ==
  ASSUME NEW s, Kept(s), s.key # None PROVE Kept(ScheduleRequestRetry(s))
  <1>1. ~(s.reqTries >= MaxAttempts) => s.reqTries + 1 \in 0..MaxAttempts
    BY StoreAssumption DEF Kept, Stores
  <1>2. ASSUME NEW n \in 0..MaxAttempts
        PROVE  Kept([s EXCEPT !.reqTimer = TRUE, !.reqTries = n])
    BY DEF Kept, Keyed, Stores
  <1>3. ScheduleRequestRetry(s) \in {s, [s EXCEPT !.reqTimer = TRUE, !.reqTries = s.reqTries + 1]}
    BY DEF ScheduleRequestRetry
  <1> QED BY <1>1, <1>2, <1>3 DEF ScheduleRequestRetry

LEMMA ScheduleEventRetryKept ==
  ASSUME NEW s, Kept(s), s.key # None PROVE Kept(ScheduleEventRetry(s))
  <1>1. ~(s.evTries >= MaxAttempts) => s.evTries + 1 \in 0..MaxAttempts
    BY StoreAssumption DEF Kept, Stores
  <1>2. ASSUME NEW n \in 0..MaxAttempts
        PROVE  Kept([s EXCEPT !.evTimer = TRUE, !.evTries = n])
    BY DEF Kept, Keyed, Stores
  <1>3. Kept([s EXCEPT !.phase = "exhausted", !.evLive = FALSE])
    BY DEF Kept, Keyed, Stores, Phases
  <1> QED BY <1>1, <1>2, <1>3 DEF ScheduleEventRetry, RetryEvents

LEMMA PoisonedKept ==
  ASSUME NEW s, Kept(s) PROVE Kept(Poisoned(s))
  <1>1. Kept([s EXCEPT !.reqTimer = FALSE, !.evTimer = FALSE, !.phase = "fatal"])
    BY ZenonT(40) DEF Kept, Keyed, Stores, Phases
  <1> QED BY <1>1, RetireSubscriptionKept DEF Poisoned

LEMMA EventFailureKept ==
  ASSUME NEW s, Kept(s), s.key # None, NEW p \in Phases PROVE Kept(EventFailure(s, p))
  <1> DEFINE r == [RetireRequest(s) EXCEPT !.evLive = FALSE, !.resync = TRUE, !.phase = p]
  <1>1. Kept(RetireRequest(s)) /\ RetireRequest(s).key = s.key
    BY RetireRequestKept, RetiringKeepsKey DEF Kept
  <1>2. ASSUME NEW t, Kept(t), t.key = s.key
        PROVE  LET u == [t EXCEPT !.evLive = FALSE, !.resync = TRUE, !.phase = p]
               IN Kept(u) /\ u.key = s.key
    BY ZenonT(40), <1>2 DEF Kept, Keyed, Stores
  <1>3. Kept(r) /\ r.key = s.key
    BY <1>1, <1>2
  <1> HIDE DEF r
  <1>4. CASE p = "fatal"
    <2>1. Kept([r EXCEPT !.resync = s.resync])
      BY <1>3 DEF Kept, Keyed, Stores
    <2> QED BY <1>4, <2>1, PoisonedKept DEF EventFailure, r
  <1>5. CASE p # "fatal" /\ s.transport # "none"
    BY <1>3, <1>5 DEF EventFailure, r
  <1>6. CASE p # "fatal" /\ s.transport = "none"
    <2>1. Kept(RetireSubscription(r)) /\ RetireSubscription(r).key # None
      BY <1>3, RetireSubscriptionKept, RetiringKeepsKey DEF Kept
    <2>2. EventFailure(s, p) = ScheduleEventRetry(RetireSubscription(r))
      BY <1>6 DEF EventFailure, r
    <2> QED BY <2>1, <2>2, ScheduleEventRetryKept
  <1> QED BY <1>4, <1>5, <1>6

LEMMA ReadSucceedsKept ==
  ASSUME NEW s, Kept(s), s.key # None, NEW r \in Reads, r.key = s.key
  PROVE  Kept(ReadSucceeds(s, r))
  <1>1. [key |-> r.key, ver |-> r.ver] \in Snapshots
    BY DEF Reads, Snapshots
  <1>2. ASSUME NEW x \in Snapshots, x.key = s.key, NEW p \in Phases
        PROVE  Kept([s EXCEPT !.read = None, !.reqTimer = FALSE, !.reqTries = 0,
                              !.snap = x, !.phase = p])
    BY <1>2, Zero DEF Kept, Keyed, Stores
  <1> QED BY <1>1, <1>2 DEF ReadSucceeds, Phases

LEMMA ReadFailsKept ==
  ASSUME NEW s, Kept(s), s.key # None, NEW fatal \in BOOLEAN
  PROVE  Kept(ReadFails(s, fatal))
  <1> DEFINE r == [s EXCEPT !.read = None]
  <1>1. Kept(r) /\ Kept([r EXCEPT !.phase = "exhausted"]) /\ Kept([r EXCEPT !.phase = "failed"])
    BY DEF Kept, Keyed, Stores, Phases
  <1>2. [r EXCEPT !.phase = "failed"].key # None
    BY DEF Kept, Stores
  <1> QED BY <1>1, <1>2, PoisonedKept, ScheduleRequestRetryKept DEF ReadFails

LEMMA ConnectEventsKept ==
  ASSUME NEW s, Kept(s), s.key # None, NEW opens \in BOOLEAN
  PROVE  Kept(ConnectEvents(s, opens))
  <1>1. Kept([s EXCEPT !.link = "opening"])
    BY DEF Kept, Keyed, Stores, Links
  <1> QED BY <1>1, EventFailureKept DEF ConnectEvents, Phases

LEMMA VerifiedKept ==
  ASSUME NEW s, Kept(s), s.key # None
  PROVE  Kept(Verified(s)) /\ Verified(s).key # None
  <1>1. ASSUME NEW b \in BOOLEAN, NEW p \in Phases
        PROVE  LET u == [s EXCEPT !.link = "verified", !.evLive = TRUE, !.evTimer = FALSE,
                                  !.stable = b, !.phase = p]
               IN Kept(u) /\ u.key # None
    BY ZenonT(40), <1>1 DEF Kept, Keyed, Stores, Links
  <1>2. s.phase \in Phases /\ "live" \in Phases
    BY DEF Kept, Stores, Phases
  <1>3. \E b \in BOOLEAN : b = (s.evTries > 0)
    <2>1. (s.evTries > 0) \in BOOLEAN
      OBVIOUS
    <2> QED BY <2>1, Zenon
  <1>4. PICK b \in BOOLEAN : b = (s.evTries > 0)
    BY <1>3
  <1>5. \E p \in Phases :
          Verified(s) = [s EXCEPT !.link = "verified", !.evLive = TRUE, !.evTimer = FALSE,
                                  !.stable = b, !.phase = p]
    BY <1>2, <1>4 DEF Verified
  <1> QED BY <1>1, <1>5

LEMMA LiveKept ==
  ASSUME NEW s, Kept(s), s.key # None PROVE Kept(Live(s)) /\ Live(s).key # None
  <1>1. ASSUME NEW t, Kept(t), t.key # None
        PROVE  LET u == [t EXCEPT !.resync = FALSE] IN Kept(u) /\ u.key # None
    BY <1>1 DEF Kept, Keyed, Stores
  <1> QED BY <1>1, VerifiedKept, FetchResourceKept DEF Live

LEMMA TransportChangedKept ==
  ASSUME NEW s, Kept(s), s.key # None, NEW p \in Transports
  PROVE  Kept(TransportChanged(s, p))
  <1> DEFINE t == [s EXCEPT !.transport = p]
  <1>1. Kept(t) /\ t.key # None
    BY DEF Kept, Keyed, Stores
  <1> HIDE DEF t
  <1>2. LET u == [t EXCEPT !.resync = FALSE] IN Kept(u) /\ u.key # None
    BY <1>1 DEF Kept, Keyed, Stores
  <1>3. Kept([t EXCEPT !.resync = TRUE])
    BY <1>1 DEF Kept, Keyed, Stores
  <1>4. Kept(FetchResource([t EXCEPT !.resync = FALSE]))
    BY <1>2, FetchResourceKept
  <1>5. Kept(EventFailure(t, "failed")) /\ Kept(EventFailure(t, "exhausted"))
    BY <1>1, EventFailureKept DEF Phases
  <1> QED BY <1>1, <1>3, <1>4, <1>5 DEF TransportChanged, t

LEMMA StabilityPassesKept ==
  ASSUME NEW s, Kept(s) PROVE Kept(StabilityPasses(s))
  BY ZenonT(40), Zero DEF Kept, Keyed, Stores, StabilityPasses

LEMMA RefreshCurrentKept ==
  ASSUME NEW s, Kept(s), s.key # None, NEW opens \in BOOLEAN
  PROVE  Kept(RefreshCurrent(s, opens))
  <1> DEFINE u == [s EXCEPT !.reqTimer = FALSE, !.reqTries = 0]
             f == FetchResource(u)
             g == [f EXCEPT !.evTimer = FALSE, !.evTries = 0]
  <1>1. Kept(u) /\ u.key # None
    BY Zero DEF Kept, Keyed, Stores
  <1>2. Kept(f) /\ f.key # None
    <2> HIDE DEF u
    <2> QED BY <1>1, FetchResourceKept
  <1>3. Kept(g) /\ g.key # None
    <2> HIDE DEF f
    <2> QED BY ZenonT(40), <1>2, Zero DEF Kept, Keyed, Stores
  <1>4. Kept(RetireSubscription(g)) /\ RetireSubscription(g).key # None
    <2> HIDE DEF g
    <2> QED BY <1>3, RetireSubscriptionKept, RetiringKeepsKey DEF Kept
  <1>5. Kept(ConnectEvents(RetireSubscription(g), opens))
    BY <1>4, ConnectEventsKept
  <1> QED BY <1>2, <1>5 DEF RefreshCurrent

LEMMA RetiredKept ==
  ASSUME NEW s, Kept(s)
  PROVE  Kept(Retired(s)) /\ Retired(s).read = None /\ Retired(s).snap = None
  <1>1. Kept(RetireSubscription(RetireRequest(s)))
        /\ RetireSubscription(RetireRequest(s)).link = "none"
        /\ RetireSubscription(RetireRequest(s)).read = None
    <2>1. Kept(RetireRequest(s)) /\ RetireRequest(s).read = None
      BY RetireRequestKept, RetiringKeepsKey DEF Kept
    <2> QED BY <2>1, RetireSubscriptionKept, RetiringKeepsKey DEF Kept
  <1>2. ASSUME NEW t, Kept(t), t.link = "none", t.read = None
        PROVE  LET u == [t EXCEPT !.key = None, !.snap = None, !.resync = FALSE,
                           !.reqTimer = FALSE, !.reqTries = 0, !.evTimer = FALSE, !.evTries = 0]
               IN Kept(u) /\ u.read = None /\ u.snap = None
    <2> DEFINE u == [t EXCEPT !.key = None, !.snap = None, !.resync = FALSE,
                       !.reqTimer = FALSE, !.reqTries = 0, !.evTimer = FALSE, !.evTries = 0]
    <2> DEFINE v == [t EXCEPT !.key = None, !.snap = None, !.resync = FALSE]
    <2>1. u \in Stores
      <3>1. v \in Stores
        <4> DEFINE w == [t EXCEPT !.key = None]
                   x == [w EXCEPT !.snap = None]
        <4> HIDE DEF Reads, Snapshots
        <4>1. t \in Stores
          BY <1>2 DEF Kept
        <4>2. w \in Stores
          BY <4>1 DEF Stores
        <4>3. v = [x EXCEPT !.resync = FALSE]
          BY <4>1 DEF Stores
        <4> HIDE DEF w
        <4>4. x \in Stores
          BY <4>2 DEF Stores
        <4> HIDE DEF x, v
        <4> QED BY <4>3, <4>4 DEF Stores
      <3>2. u = [v EXCEPT !.reqTimer = FALSE, !.reqTries = 0, !.evTimer = FALSE, !.evTries = 0]
        BY <1>2 DEF Kept, Stores
      <3> QED BY <3>1, <3>2, Zero DEF Stores
    <2>2. Keyed(u) /\ u.read = None /\ u.snap = None
      BY <1>2 DEF Kept, Keyed, Stores
    <2> QED BY <2>1, <2>2 DEF Kept
  <1> QED BY <1>1, <1>2 DEF Retired

LEMMA StartTargetKept ==
  ASSUME NEW s, Kept(s), NEW k \in Keys \cup {None}, NEW opens \in BOOLEAN
  PROVE  Kept(StartTarget(s, k, opens))
  <1>1. Kept(Retired(s)) /\ Retired(s).read = None /\ Retired(s).snap = None
    BY RetiredKept
  <1>2. ASSUME NEW t, Kept(t), t.read = None, t.snap = None
        PROVE  /\ Kept([t EXCEPT !.phase = "fatal"])
               /\ k # None => LET u == [t EXCEPT !.key = k, !.phase = "loading"]
                              IN Kept(u) /\ u.key = k
    BY ZenonT(40), <1>2 DEF Kept, Keyed, Stores, Phases
  <1>3. CASE k = None
    BY <1>1, <1>2, <1>3 DEF StartTarget
  <1>4. CASE k # None
    <2> DEFINE u == [Retired(s) EXCEPT !.key = k, !.phase = "loading"]
    <2>1. Kept(u) /\ u.key = k
      BY <1>1, <1>2, <1>4
    <2> HIDE DEF u
    <2>2. Kept(FetchResource(u)) /\ FetchResource(u).key = k
      BY <1>4, <2>1, FetchResourceKept
    <2>3. Kept(ConnectEvents(FetchResource(u), opens))
      BY <1>4, <2>2, ConnectEventsKept
    <2> QED BY <1>4, <2>3 DEF StartTarget, u
  <1> QED BY <1>3, <1>4

LEMMA DisposedKept ==
  ASSUME NEW s, Kept(s) PROVE Kept(Disposed(s))
  <1>1. ASSUME NEW t, Kept(t)
        PROVE  Kept([t EXCEPT !.disposed = TRUE, !.phase = "loading"])
    BY ZenonT(40), <1>1 DEF Kept, Keyed, Stores, Phases
  <1> QED BY <1>1, RetiredKept DEF Disposed

LEMMA NewStoreKept == Kept(NewStore)
  BY StoreAssumption DEF Kept, Keyed, Stores, NewStore, Phases, Transports, Links

-----------------------------------------------------------------------------
(* The transport *)

LEMMA WiredKept ==
  ASSUME NEW u \in Supervisors, NEW s, Kept(s) PROVE Kept(Wired(u, s))
  <1>1. ASSUME s.read # None
        PROVE  LET r == [s EXCEPT !.read.st = "unread"]
               IN Kept(r) /\ r.link = s.link /\ r.transport = s.transport
    <2>1. s.read \in Reads
      BY <1>1 DEF Kept, Stores
    <2>2. [s.read EXCEPT !.st = "unread"] \in Reads /\ [s.read EXCEPT !.st = "unread"].key = s.read.key
      BY <2>1 DEF Reads
    <2>3. ASSUME NEW x \in Reads, x.key = s.read.key
          PROVE  LET r == [s EXCEPT !.read = x]
                 IN Kept(r) /\ r.link = s.link /\ r.transport = s.transport
      BY <1>1, <2>3 DEF Kept, Keyed, Stores
    <2>4. [s EXCEPT !.read.st = "unread"] = [s EXCEPT !.read = [s.read EXCEPT !.st = "unread"]]
      OBVIOUS
    <2> QED BY <2>2, <2>3, <2>4
  <1>2. ASSUME NEW r, Kept(r), Fresh(r) PROVE Kept(TransportChanged(r, "connecting"))
    <2>1. r.key # None
      BY <1>2 DEF Kept, Keyed, Fresh
    <2> QED BY <1>2, <2>1, TransportChangedKept DEF Transports
  <1> QED BY <1>1, <1>2 DEF Wired

LEMMA WiresType ==
  ASSUME NEW u \in Supervisors, NEW s PROVE Wires(u, s) \in Supervisors
  BY DEF Supervisors, Wires

LEMMA ThroughKept ==
  ASSUME NEW u \in Supervisors, NEW s, Kept(s)
  PROVE  Through(u, s).sup \in Supervisors /\ Kept(Through(u, s).store)
  <1> DEFINE v == Wires(u, s)
             w == Wired(u, s)
  <1>1. v \in Supervisors /\ [v EXCEPT !.handlers = "told"] \in Supervisors
    <2>1. v \in Supervisors
      BY WiresType
    <2> HIDE DEF v
    <2> QED BY <2>1 DEF Supervisors
  <1>2. Kept(w)
    BY WiredKept
  <1>3. ASSUME Listening(v, w)
        PROVE  Kept(Wired(v, TransportChanged(Live(w), "connected")))
    <2> HIDE DEF v, w
    <2>1. w.key # None
      BY <1>2, <1>3 DEF Listening, Kept, Keyed
    <2>2. Kept(Live(w)) /\ Live(w).key # None
      BY <1>2, <2>1, LiveKept
    <2>3. Kept(TransportChanged(Live(w), "connected"))
      BY <2>2, TransportChangedKept DEF Transports
    <2> QED BY <1>1, <2>3, WiredKept
  <1> QED BY <1>1, <1>2, <1>3 DEF Through

LEMMA StepKept ==
  ASSUME NEW u \in Supervisors, NEW s, Kept(s), Step(u, s)
  PROVE  Kept(store') /\ sup' \in Supervisors /\ UNCHANGED <<mode, ver>>
  BY ThroughKept DEF Step

LEMMA StoreStepKept ==
  ASSUME IInv, NEW s, Kept(s), StoreStep(s)
  PROVE  Kept(store') /\ sup' \in Supervisors /\ UNCHANGED <<mode, ver>>
  BY StepKept DEF StoreStep, IInv, TypeOK

-----------------------------------------------------------------------------

LEMMA FaultType ==
  ASSUME faults \in 0..MaxFaults, Fault PROVE faults' \in 0..MaxFaults
  BY SessionAssumption DEF Fault

LEMMA MoveType ==
  ASSUME moves \in 0..MaxMoves, Move PROVE moves' \in 0..MaxMoves
  BY SessionAssumption DEF Move

LEMMA InitIInv == Init => IInv
  <1> SUFFICES ASSUME Init PROVE IInv
    OBVIOUS
  <1>1. PICK k \in Keys, opens \in BOOLEAN, u \in Inherited :
          /\ opens \/ (mode = "direct" /\ MaxFaults > 0)
          /\ sup = Through(u, StartTarget(NewStore, k, opens)).sup
          /\ store = Through(u, StartTarget(NewStore, k, opens)).store
          /\ faults = IF opens THEN 0 ELSE 1
    BY DEF Init
  <1>2. u \in Supervisors
    <2>1. NoSupervisor \in Supervisors
      BY DEF NoSupervisor, Supervisors
    <2>2. /\ [NoSupervisor EXCEPT !.st = "opening"] \in Supervisors
          /\ [NoSupervisor EXCEPT !.again = TRUE] \in Supervisors
      BY <2>1 DEF Supervisors
    <2> QED BY <2>1, <2>2 DEF Inherited
  <1>3. Kept(StartTarget(NewStore, k, opens))
    BY NewStoreKept, StartTargetKept
  <1>4. sup \in Supervisors /\ Kept(store)
    BY <1>1, <1>2, <1>3, ThroughKept
  <1>5. faults \in 0..MaxFaults /\ moves \in 0..MaxMoves
    BY <1>1, SessionAssumption DEF Init
  <1>6. ver \in [Keys -> Versions] /\ cursor \in [Keys -> Versions]
    <2>1. ver = [j \in Keys |-> 0] /\ cursor = ver
      BY Zenon DEF Init
    <2> QED BY <2>1, Zero
  <1> QED BY <1>4, <1>5, <1>6 DEF Init, IInv, TypeOK, Kept

\* What an action leaves to show once the store and its supervisor are done.
Rest ==
  /\ UNCHANGED mode
  /\ ver' \in [Keys -> Versions] /\ cursor' \in [Keys -> Versions]
  /\ faults' \in 0..MaxFaults /\ moves' \in 0..MaxMoves

LEMMA RestSuffices ==
  ASSUME IInv, Kept(store'), sup' \in Supervisors, Rest PROVE IInv'
  BY DEF IInv, TypeOK, Kept, Rest

LEMMA ReadStepIInv ==
  ASSUME IInv, ReadStep PROVE IInv'
  <1>k. Kept(store) /\ sup \in Supervisors
    BY DEF IInv, TypeOK, Kept
  <1>r. UNCHANGED <<mode, ver, cursor, faults, moves>> => Rest
    BY DEF IInv, TypeOK, Rest
  <1>a. ASSUME NEW r \in Reads PROVE Answer(r) \in Reads /\ Answer(r).key = r.key
    BY <1>a DEF IInv, TypeOK, Answer, Reads
  <1>1. CASE DaemonReads
    <2>1. store.read \in Reads /\ store.read # None
      BY <1>k, <1>1 DEF DaemonReads, Reading, Kept, Stores
    <2>2. ASSUME NEW r \in Reads, r.key = store.read.key PROVE Kept([store EXCEPT !.read = r])
      BY <1>k, <2>1, <2>2 DEF Kept, Keyed, Stores
    <2>3. Kept(store')
      BY <1>1, <1>a, <2>1, <2>2 DEF DaemonReads
    <2> QED BY <1>1, <1>k, <1>r, <2>3, RestSuffices DEF DaemonReads
  <1>2. CASE DaemonReadsLate
    <2>1. store.late \in Reads
      BY <1>k, <1>2 DEF DaemonReadsLate, Reading, Kept, Stores
    <2>2. ASSUME NEW r \in Reads PROVE Kept([store EXCEPT !.late = r])
      BY <1>k, <2>2 DEF Kept, Keyed, Stores
    <2>3. Kept(store')
      BY <1>2, <1>a, <2>1, <2>2 DEF DaemonReadsLate
    <2> QED BY <1>2, <1>k, <1>r, <2>3, RestSuffices DEF DaemonReadsLate
  <1>3. CASE ReadReturns
    <2>1. PICK r \in {store.read, store.late} \ {None} : Settle(r)
      BY <1>3 DEF ReadReturns
    <2>2. r \in Reads /\ Kept([store EXCEPT !.late = None])
      BY <1>k DEF Kept, Keyed, Stores
    <2>3. CASE Accepts(store, r)
      <3>1. store.key # None /\ r.key = store.key
        BY <1>k, <2>2, <2>3, StoreAssumption DEF Accepts, Kept, Keyed, Reads
      <3>2. Kept(ReadSucceeds(store, r)) /\ StoreStep(ReadSucceeds(store, r))
        BY <1>k, <2>1, <2>2, <2>3, <3>1, ReadSucceedsKept DEF Settle
      <3>3. Kept(store') /\ sup' \in Supervisors /\ UNCHANGED <<mode, ver>>
        BY <3>2, StoreStepKept
      <3> QED BY <1>3, <1>r, <3>3, RestSuffices DEF ReadReturns
    <2>4. CASE ~Accepts(store, r)
      BY <1>3, <1>k, <1>r, <2>1, <2>2, <2>4, RestSuffices DEF ReadReturns, Settle
    <2> QED BY <2>3, <2>4
  <1>4. CASE ReadRefused
    <2>1. store.key # None
      BY <1>k, <1>4, StoreAssumption DEF ReadRefused, Kept, Keyed, Stores, Reads
    <2>2. Kept(ReadFails(store, FALSE)) /\ StoreStep(ReadFails(store, FALSE))
      BY <1>k, <1>4, <2>1, ReadFailsKept DEF ReadRefused
    <2> QED BY <1>4, <1>r, <2>2, StoreStepKept, RestSuffices DEF ReadRefused
  <1> QED BY <1>1, <1>2, <1>3, <1>4 DEF ReadStep

LEMMA TimerStepIInv ==
  ASSUME IInv, ReadRejected \/ TimerStep PROVE IInv'
  <1>k. Kept(store) /\ sup \in Supervisors
    BY DEF IInv, TypeOK, Kept
  <1>r. UNCHANGED <<mode, ver, cursor, moves>> /\ (Fault \/ UNCHANGED faults) => Rest
    BY FaultType DEF IInv, TypeOK, Rest
  <1>1. CASE ReadRejected
    <2>1. store.key # None
      BY <1>k, <1>1, StoreAssumption DEF ReadRejected, Kept, Keyed, Stores, Reads
    <2>2. PICK fatal \in BOOLEAN : StoreStep(ReadFails(store, fatal))
      BY <1>1 DEF ReadRejected
    <2>3. Kept(store') /\ sup' \in Supervisors /\ UNCHANGED <<mode, ver>>
      BY <1>k, <2>1, <2>2, ReadFailsKept, StoreStepKept
    <2> QED BY <1>1, <1>r, <2>3, RestSuffices DEF ReadRejected
  <1>2. CASE RequestTimer
    <2> DEFINE t == [store EXCEPT !.reqTimer = FALSE]
    <2>1. Kept(t) /\ t.key # None
      BY <1>k, <1>2 DEF RequestTimer, Kept, Keyed, Stores
    <2>2. Kept(FetchResource(t)) /\ StoreStep(FetchResource(t))
      BY <1>2, <2>1, FetchResourceKept DEF RequestTimer
    <2> QED BY <1>2, <1>r, <2>2, StoreStepKept, RestSuffices DEF RequestTimer
  <1>3. CASE EventTimer
    <2> DEFINE t == [store EXCEPT !.evTimer = FALSE]
    <2>1. Kept(t) /\ t.key # None
      BY <1>k, <1>3 DEF EventTimer, Kept, Keyed, Stores
    <2>2. PICK opens \in BOOLEAN : /\ IF opens THEN NoFault ELSE Fault
                                   /\ StoreStep(ConnectEvents(t, opens))
      BY <1>3 DEF EventTimer
    <2>3. Kept(ConnectEvents(t, opens))
      BY <2>1, ConnectEventsKept
    <2>4. Kept(store') /\ sup' \in Supervisors /\ UNCHANGED <<mode, ver>>
      BY <2>2, <2>3, StoreStepKept
    <2> QED BY <1>3, <1>r, <2>2, <2>4, RestSuffices DEF EventTimer, NoFault
  <1>4. CASE StabilityTimer
    BY <1>4, <1>k, <1>r, StabilityPassesKept, StoreStepKept, RestSuffices DEF StabilityTimer
  <1> QED BY <1>1, <1>2, <1>3, <1>4 DEF TimerStep

LEMMA UserStepIInv ==
  ASSUME IInv, UserStep PROVE IInv'
  <1>k. Kept(store) /\ sup \in Supervisors
    BY DEF IInv, TypeOK, Kept
  <1>r. UNCHANGED <<mode, ver, cursor>> /\ (Fault \/ UNCHANGED faults) /\ Move => Rest
    BY FaultType, MoveType DEF IInv, TypeOK, Rest
  <1>1. CASE Refresh
    <2>1. PICK opens \in BOOLEAN : /\ IF opens THEN NoFault ELSE mode = "direct" /\ Fault
                                   /\ StoreStep(RefreshCurrent(store, opens))
      BY <1>1 DEF Refresh
    <2>2. Kept(RefreshCurrent(store, opens))
      BY <1>k, <1>1, RefreshCurrentKept DEF Refresh
    <2>3. Kept(store') /\ sup' \in Supervisors /\ UNCHANGED <<mode, ver>>
      BY <2>1, <2>2, StoreStepKept
    <2> QED BY <1>1, <1>r, <2>1, <2>3, RestSuffices DEF Refresh, NoFault
  <1>2. CASE SetTarget
    <2>1. PICK k \in (Keys \cup {None}) \ {store.key}, opens \in BOOLEAN :
            /\ IF opens THEN NoFault ELSE mode = "direct" /\ k # None /\ Fault
            /\ StoreStep(StartTarget(store, k, opens))
      BY <1>2 DEF SetTarget
    <2>2. Kept(StartTarget(store, k, opens))
      BY <1>k, StartTargetKept
    <2>3. Kept(store') /\ sup' \in Supervisors /\ UNCHANGED <<mode, ver>>
      BY <2>1, <2>2, StoreStepKept
    <2> QED BY <1>2, <1>r, <2>1, <2>3, RestSuffices DEF SetTarget, NoFault
  <1>3. CASE Dispose
    <2>1. Kept(store')
      BY <1>k, <1>3, DisposedKept DEF Dispose
    <2>2. sup' \in Supervisors
      BY <1>k, <1>3 DEF Dispose, Supervisors
    <2> QED BY <1>3, <1>r, <2>1, <2>2, RestSuffices DEF Dispose
  <1> QED BY <1>1, <1>2, <1>3 DEF UserStep

LEMMA DirectStepIInv ==
  ASSUME IInv, DirectStep PROVE IInv'
  <1>k. Kept(store) /\ sup \in Supervisors
    BY DEF IInv, TypeOK, Kept
  <1>l. store.link # "none" => store.key # None
    BY <1>k DEF Kept, Keyed
  <1>r. /\ UNCHANGED <<mode, ver, moves>> /\ (Fault \/ UNCHANGED faults)
        /\ cursor' \in [Keys -> Versions]
        => Rest
    BY FaultType DEF IInv, TypeOK, Rest
  <1>c. cursor \in [Keys -> Versions] /\ ver \in [Keys -> Versions]
    BY DEF IInv, TypeOK
  <1>1. CASE DirectOpens
    <2>1. Kept(Live(store))
      BY <1>k, <1>l, <1>1, LiveKept DEF DirectOpens
    <2> QED BY <1>1, <1>c, <1>r, <2>1, StoreStepKept, RestSuffices DEF DirectOpens
  <1>2. CASE Notice
    <2>1. Kept(FetchResource(store)) /\ StoreStep(FetchResource(store))
      BY <1>k, <1>l, <1>2, FetchResourceKept DEF Notice
    <2>2. Kept(store') /\ sup' \in Supervisors /\ UNCHANGED <<mode, ver>>
      BY <2>1, StoreStepKept
    <2>3. PICK v \in (cursor[store.key] + 1)..ver[store.key] :
            cursor' = [cursor EXCEPT ![store.key] = v]
      BY <1>2 DEF Notice
    <2>4. store.key \in Keys
      BY <1>k, <1>l, <1>2 DEF Notice, Kept, Stores
    <2>5. v \in Versions
      BY <1>c, <2>4, StoreAssumption DEF Versions
    <2> QED BY <1>2, <1>c, <1>r, <2>2, <2>3, <2>5, RestSuffices DEF Notice
  <1>3. CASE DirectFails
    <2>1. PICK p \in {"failed", "fatal"} : StoreStep(EventFailure(store, p))
      BY <1>3 DEF DirectFails
    <2>2. Kept(EventFailure(store, p))
      BY <1>k, <1>l, <1>3, EventFailureKept DEF DirectFails, Subscribed, Phases
    <2>3. Kept(store') /\ sup' \in Supervisors /\ UNCHANGED <<mode, ver>>
      BY <2>1, <2>2, StoreStepKept
    <2> QED BY <1>3, <1>c, <1>r, <2>3, RestSuffices DEF DirectFails
  <1> QED BY <1>1, <1>2, <1>3 DEF DirectStep

LEMMA MissedType ==
  ASSUME IInv PROVE Missed \in [Keys -> Versions]
  BY DEF IInv, TypeOK, Missed

LEMMA HostStepIInv ==
  ASSUME IInv, HostStep PROVE IInv'
  <1>k. Kept(store) /\ sup \in Supervisors
    BY DEF IInv, TypeOK, Kept
  <1>l. store.link # "none" => store.key # None
    BY <1>k DEF Kept, Keyed
  <1>r. /\ UNCHANGED <<mode, ver, moves>> /\ (Fault \/ UNCHANGED faults)
        /\ cursor' \in {cursor, Missed}
        => Rest
    BY FaultType, MissedType DEF IInv, TypeOK, Rest
  <1>1. CASE HostLoses
    <2>1. PICK p \in {"degraded", "reconnecting", "stopped"} :
            store' = LET s == TransportChanged(store, p)
                     IN [s EXCEPT !.link = IF p # "degraded" /\ Subscribed(s) THEN "lost" ELSE @]
      BY <1>1 DEF HostLoses
    <2>2. Kept(TransportChanged(store, p))
      BY <1>k, <1>l, <1>1, TransportChangedKept DEF HostLoses, Transports
    <2>3. ASSUME NEW s, Kept(s)
          PROVE  Kept([s EXCEPT !.link = IF p # "degraded" /\ Subscribed(s) THEN "lost" ELSE @])
      BY <2>3 DEF Kept, Keyed, Stores, Subscribed, Links
    <2>4. Kept(store')
      BY <2>1, <2>2, <2>3
    <2> QED BY <1>1, <1>k, <1>r, <2>4, RestSuffices DEF HostLoses
  <1>2. CASE HostConnects
    <2>1. Kept(TransportChanged(store, "connected"))
      BY <1>k, <1>l, <1>2, TransportChangedKept DEF HostConnects, Subscribed, Transports
    <2>2. Kept(store') /\ sup' \in Supervisors /\ UNCHANGED <<mode, ver>>
      BY <1>2, <2>1, StoreStepKept DEF HostConnects, Pushes
    <2> QED BY <1>2, <1>r, <2>2, RestSuffices DEF HostConnects
  <1>3. CASE HostVerifies
    <2>1. Kept(Live(store))
      BY <1>k, <1>l, <1>3, LiveKept DEF HostVerifies
    <2>2. Kept(store') /\ sup' \in Supervisors /\ UNCHANGED <<mode, ver>>
      BY <1>3, <2>1, StoreStepKept DEF HostVerifies
    <2> QED BY <1>3, <1>r, <2>2, RestSuffices DEF HostVerifies
  <1> QED BY <1>1, <1>2, <1>3 DEF HostStep

LEMMA RefusedKept ==
  ASSUME NEW s, Kept(s) PROVE Kept(Refused(s))
  <1>1. CASE s.read # None /\ s.read.st = "held"
    <2>1. s.read \in Reads
      BY <1>1 DEF Kept, Stores
    <2>2. [s.read EXCEPT !.st = "refused"] \in Reads /\ [s.read EXCEPT !.st = "refused"].key = s.read.key
      BY <2>1 DEF Reads
    <2>3. ASSUME NEW x \in Reads, x.key = s.read.key PROVE Kept([s EXCEPT !.read = x])
      BY <1>1, <2>3 DEF Kept, Keyed, Stores
    <2>4. Refused(s) = [s EXCEPT !.read = [s.read EXCEPT !.st = "refused"]]
      BY <1>1 DEF Refused
    <2> QED BY <2>2, <2>3, <2>4
  <1>2. CASE ~(s.read # None /\ s.read.st = "held")
    BY <1>2 DEF Refused
  <1> QED BY <1>1, <1>2

LEMMA HandlersFailKept ==
  ASSUME NEW s, Kept(s) PROVE Kept(HandlersFail(s))
  <1>1. CASE Listening(sup, s)
    <2>1. s.key # None
      BY <1>1 DEF Listening, Kept, Keyed
    <2>2. Kept(EventFailure(s, "failed"))
      BY <2>1, EventFailureKept DEF Phases
    <2>3. ASSUME NEW f, Kept(f)
          PROVE  Kept([f EXCEPT !.link = IF Subscribed(f) THEN "dead" ELSE @])
      BY <2>3 DEF Kept, Keyed, Stores, Subscribed, Links
    <2> QED BY <1>1, <2>2, <2>3 DEF HandlersFail
  <1>2. CASE ~Listening(sup, s)
    BY <1>2 DEF HandlersFail
  <1> QED BY <1>1, <1>2

LEMMA SupervisorStepIInv ==
  ASSUME IInv, SupervisorStep PROVE IInv'
  <1>k. Kept(store) /\ sup \in Supervisors
    BY DEF IInv, TypeOK, Kept
  <1>l. store.link # "none" => store.key # None
    BY <1>k DEF Kept, Keyed
  <1>c. cursor \in [Keys -> Versions] /\ ver \in [Keys -> Versions]
    BY DEF IInv, TypeOK
  <1>r. /\ UNCHANGED <<mode, ver, moves>> /\ (Fault \/ UNCHANGED faults)
        /\ cursor' \in [Keys -> Versions]
        => Rest
    BY FaultType DEF IInv, TypeOK, Rest
  <1>1. CASE SupervisorInstalls
    <2>1. [sup EXCEPT !.st = "installed"] \in Supervisors
      BY <1>k DEF Supervisors
    <2> QED BY <1>1, <1>k, <1>c, <1>r, <2>1, StepKept, RestSuffices DEF SupervisorInstalls
  <1>2. CASE SupervisorNotice
    <2> DEFINE s(k) == IF Listening(sup, store) /\ k = store.key THEN FetchResource(store) ELSE store
    <2>1. PICK k \in Keys : /\ cursor[k] < ver[k]
                            /\ cursor' = [cursor EXCEPT ![k] = @ + 1]
                            /\ StoreStep(s(k))
      BY <1>2 DEF SupervisorNotice
    <2>2. Kept(s(k))
      BY <1>k, <1>l, FetchResourceKept DEF Listening
    <2>3. cursor[k] + 1 \in Versions
      BY <1>c, <2>1, StoreAssumption DEF Versions
    <2>4. cursor' \in [Keys -> Versions]
      BY <1>c, <2>1, <2>3
    <2> HIDE DEF s
    <2>5. Kept(store') /\ sup' \in Supervisors /\ UNCHANGED <<mode, ver>>
      BY <2>1, <2>2, StoreStepKept
    <2> QED BY <1>2, <1>r, <2>4, <2>5, RestSuffices DEF SupervisorNotice
  <1>3. CASE SupervisorLost
    <2>1. Kept(store')
      BY <1>3, <1>k, HandlersFailKept, RefusedKept DEF SupervisorLost
    <2>2. sup' \in Supervisors
      BY <1>3, <1>k DEF SupervisorLost, Supervisors
    <2> QED BY <1>3, <1>c, <1>r, <2>1, <2>2, RestSuffices DEF SupervisorLost
  <1>4. CASE SupervisorReplaced
    <2>1. sup' \in Supervisors
      BY <1>4, <1>k DEF SupervisorReplaced, Supervisors
    <2> QED BY <1>4, <1>c, <1>k, <1>r, <2>1, RestSuffices DEF SupervisorReplaced
  <1>5. CASE SupervisorReconnects
    <2> DEFINE u == [sup EXCEPT !.handlers = "waiting", !.again = FALSE]
               s == IF store.link \in {"opening", "verified"}
                    THEN TransportChanged(store, "connecting") ELSE store
    <2>1. u \in Supervisors
      BY <1>k DEF Supervisors
    <2>2. Kept(s)
      BY <1>k, <1>l, TransportChangedKept DEF Transports
    <2>3. Step(u, s)
      BY <1>5 DEF SupervisorReconnects
    <2> HIDE DEF u, s
    <2>4. Kept(store') /\ sup' \in Supervisors /\ UNCHANGED <<mode, ver>>
      BY <2>1, <2>2, <2>3, StepKept
    <2> QED BY <1>5, <1>c, <1>r, <2>4, RestSuffices DEF SupervisorReconnects
  <1>6. CASE ReplacementFails
    <2>1. Kept(store')
      BY <1>6, <1>k, HandlersFailKept, RefusedKept DEF ReplacementFails
    <2>2. \E b \in BOOLEAN : sup' = [sup EXCEPT !.st = "none", !.handlers = "none", !.silent = b]
      <3>1. (sup.silent \/ (sup.handlers # "none" /\ sup.st = "installed")) \in BOOLEAN
        OBVIOUS
      <3> QED BY <1>6, <3>1, Zenon DEF ReplacementFails
    <2>3. sup' \in Supervisors
      BY <1>k, <2>2 DEF Supervisors
    <2> QED BY <1>6, <1>c, <1>r, <2>1, <2>3, RestSuffices DEF ReplacementFails
  <1> QED BY <1>1, <1>2, <1>3, <1>4, <1>5, <1>6 DEF SupervisorStep

LEMMA NextIInv == IInv /\ [Next]_vars => IInv'
  <1> SUFFICES ASSUME IInv, [Next]_vars PROVE IInv'
    OBVIOUS
  <1>1. CASE Changes
    <2>1. PICK k \in Keys : ver[k] < MaxVer /\ ver' = [ver EXCEPT ![k] = @ + 1]
      BY <1>1 DEF Changes
    <2>2. ver \in [Keys -> Versions]
      BY DEF IInv, TypeOK
    <2>3. ver[k] + 1 \in Versions
      BY <2>1, <2>2, StoreAssumption DEF Versions
    <2>4. ver' \in [Keys -> Versions]
      BY <2>1, <2>2, <2>3
    <2> QED BY <1>1, <2>4 DEF Changes, IInv, TypeOK
  <1>2. CASE UNCHANGED vars
    BY <1>2 DEF vars, IInv, TypeOK
  <1> QED
    BY <1>1, <1>2, ReadStepIInv, TimerStepIInv, UserStepIInv, DirectStepIInv, HostStepIInv,
       SupervisorStepIInv
       DEF Next

\* TypeOK: every variable keeps its type, over every transport
\* (generation-bound-store.ts:330-356, workspace-event-supervisor.ts:186-216).
THEOREM SessionTypeCorrect == Spec => []TypeOK
  <1>1. IInv => TypeOK
    BY DEF IInv
  <1> QED BY InitIInv, NextIInv, <1>1, PTL DEF Spec

\* ShowsItsTarget: whatever reads overtake each other and however often the
\* target changes, what is shown was read for the target (:574-594).
THEOREM TargetTheorem == Spec => []ShowsItsTarget
  <1>1. IInv => ShowsItsTarget
    BY DEF IInv, Keyed, ShowsItsTarget
  <1> QED BY InitIInv, NextIInv, <1>1, PTL DEF Spec

-----------------------------------------------------------------------------
(* What the operations do to a store *)

\* Nothing but its reads changes.
Quiet(q, s) ==
  /\ q.key = s.key /\ q.snap = s.snap /\ q.phase = s.phase /\ q.transport = s.transport
  /\ q.link = s.link /\ q.evLive = s.evLive /\ q.resync = s.resync
  /\ q.reqTimer = s.reqTimer /\ q.reqTries = s.reqTries
  /\ q.evTimer = s.evTimer /\ q.evTries = s.evTries

Held(s) == s.read # None /\ s.read.st = "held"

\* The stream fails: a supervised one is kept, another is retried.
Fails(q, s) ==
  /\ q.key = s.key /\ q.snap = s.snap /\ q.read = None
  /\ q.phase # "live" /\ ~q.evLive /\ q.resync
  /\ IF s.transport # "none" THEN q.transport = s.transport /\ q.link = s.link
     ELSE /\ q.transport = "none" /\ q.link = "none"
          /\ q.evTimer \/ q.evTries = MaxAttempts

\* Everything stops.
Stops(q, s) ==
  /\ q.key = s.key /\ q.snap = s.snap /\ q.read = None
  /\ q.phase = "fatal" /\ ~q.evLive /\ q.transport = "none" /\ q.link = "none"
  /\ ~q.reqTimer /\ ~q.evTimer

\* The read fails, and is tried again while it may be.
ReadsAgain(q, s) ==
  /\ q.key = s.key /\ q.snap = s.snap /\ q.read = None
  /\ q.phase \in {"failed", "exhausted"} /\ (q.reqTimer \/ q.reqTries = MaxAttempts)
  /\ q.transport = s.transport /\ q.link = s.link /\ q.evLive = s.evLive
  /\ q.resync = s.resync /\ q.evTimer = s.evTimer /\ q.evTries = s.evTries

\* The stream is verified, and what it missed is read.
Opens(q, s) ==
  /\ q.key = s.key /\ q.snap = s.snap /\ q.transport = s.transport
  /\ q.link = "verified" /\ q.evLive /\ ~q.resync /\ ~q.evTimer
  /\ q.phase = IF s.snap = None THEN s.phase ELSE "live"
  /\ q.reqTimer = s.reqTimer /\ q.reqTries = s.reqTries
  /\ IF s.resync THEN Held(q) ELSE q.read = s.read

LEMMA RetireRequestQuiet ==
  ASSUME NEW s \in Stores
  PROVE  Quiet(RetireRequest(s), s) /\ RetireRequest(s).read = None
  BY DEF Stores, RetireRequest, Quiet

LEMMA HeldRead ==
  ASSUME NEW k \in Keys
  PROVE  LET r == [key |-> k, st |-> "held", ver |-> 0]
         IN r \in Reads /\ r # None /\ r.st = "held" /\ r.key = k
  <1> DEFINE r == [key |-> k, st |-> "held", ver |-> 0]
  <1>1. r \in Reads /\ r.st = "held" /\ r.key = k
    BY StoreAssumption DEF Reads, Versions
  <1> QED BY <1>1, NoneAssumption

LEMMA FetchResourceAsks ==
  ASSUME NEW s, Kept(s), s.key # None
  PROVE  Quiet(FetchResource(s), s) /\ Held(FetchResource(s))
  <1> DEFINE t == RetireRequest(s)
             r == [key |-> s.key, st |-> "held", ver |-> 0]
  <1>1. t \in Stores /\ Quiet(t, s)
    BY RetireRequestKept, RetireRequestQuiet DEF Kept
  <1>2. r # None /\ r.st = "held"
    BY HeldRead DEF Kept, Stores
  <1>3. FetchResource(s) = [t EXCEPT !.read = r]
    BY DEF FetchResource
  <1> HIDE DEF t, r
  <1>4. [t EXCEPT !.read = r].read = r /\ Quiet([t EXCEPT !.read = r], t)
    BY <1>1 DEF Stores, Quiet
  <1> QED BY <1>1, <1>2, <1>3, <1>4 DEF Quiet, Held

LEMMA PoisonedStops ==
  ASSUME NEW s \in Stores, s.read = None PROVE Stops(Poisoned(s), s)
  <1> DEFINE t == [s EXCEPT !.reqTimer = FALSE, !.evTimer = FALSE, !.phase = "fatal"]
  <1>1. /\ t \in Stores /\ t.read = None /\ t.key = s.key /\ t.snap = s.snap
        /\ ~t.reqTimer /\ ~t.evTimer /\ t.phase = "fatal"
    BY ZenonT(40) DEF Stores, Phases
  <1> HIDE DEF t
  <1>2. Stops(RetireSubscription(t), s)
    BY <1>1 DEF Stores, RetireSubscription, Stops
  <1> QED BY <1>2 DEF Poisoned, t

LEMMA ScheduleEventRetryFails ==
  ASSUME NEW s \in Stores, s.transport = "none", s.link = "none", ~s.evLive
  PROVE  LET q == ScheduleEventRetry(s)
         IN /\ q.key = s.key /\ q.snap = s.snap /\ q.read = s.read
            /\ q.phase \in {s.phase, "exhausted"} /\ ~q.evLive /\ q.resync = s.resync
            /\ q.transport = "none" /\ q.link = "none"
            /\ q.evTimer \/ q.evTries = MaxAttempts
  <1>1. ~Subscribed(s) /\ (s.evTries >= MaxAttempts => s.evTries = MaxAttempts)
    BY StoreAssumption DEF Stores, Subscribed
  <1>2. CASE s.evTimer
    BY <1>2 DEF ScheduleEventRetry
  <1>3. CASE ~s.evTimer /\ s.evTries >= MaxAttempts
    BY <1>1, <1>3 DEF ScheduleEventRetry, Stores
  <1>4. CASE ~s.evTimer /\ ~(s.evTries >= MaxAttempts)
    <2>1. ScheduleEventRetry(s) = RetryEvents(s)
      BY <1>1, <1>4 DEF ScheduleEventRetry
    <2> QED BY <2>1 DEF RetryEvents, Stores
  <1> QED BY <1>2, <1>3, <1>4

LEMMA EventFailureFails ==
  ASSUME NEW s, Kept(s), s.key # None, NEW p \in {"failed", "exhausted"}
  PROVE  Fails(EventFailure(s, p), s)
  <1> DEFINE t == RetireRequest(s)
             r == [t EXCEPT !.evLive = FALSE, !.resync = TRUE, !.phase = p]
  <1>1. t \in Stores /\ Quiet(t, s) /\ t.read = None
    BY RetireRequestKept, RetireRequestQuiet DEF Kept
  <1> HIDE DEF t
  <1>2. /\ r \in Stores /\ r.read = None /\ r.phase = p /\ ~r.evLive /\ r.resync
        /\ r.key = t.key /\ r.snap = t.snap /\ r.transport = t.transport /\ r.link = t.link
    BY ZenonT(40), <1>1 DEF Stores, Phases
  <1> HIDE DEF r
  <1>3. CASE s.transport # "none"
    BY <1>1, <1>2, <1>3 DEF EventFailure, Fails, Quiet, t, r
  <1>4. CASE s.transport = "none"
    <2> DEFINE z == RetireSubscription(r)
    <2>1. /\ z \in Stores /\ z.transport = "none" /\ z.link = "none" /\ ~z.evLive
          /\ z.key = r.key /\ z.snap = r.snap /\ z.read = None /\ z.resync /\ z.phase = p
      BY ZenonT(40), <1>2 DEF Stores, RetireSubscription, Transports, Links
    <2>2. EventFailure(s, p) = ScheduleEventRetry(z)
      BY <1>4 DEF EventFailure, t, r
    <2> HIDE DEF z
    <2> DEFINE q == ScheduleEventRetry(z)
    <2>3. /\ q.key = z.key /\ q.snap = z.snap /\ q.read = z.read
          /\ q.phase \in {z.phase, "exhausted"} /\ ~q.evLive /\ q.resync = z.resync
          /\ q.transport = "none" /\ q.link = "none"
          /\ q.evTimer \/ q.evTries = MaxAttempts
      BY <2>1, ScheduleEventRetryFails
    <2> HIDE DEF q
    <2>4. Fails(q, s)
      BY <1>1, <1>2, <1>4, <2>1, <2>3 DEF Fails, Quiet
    <2> QED BY <2>2, <2>4 DEF q
  <1> QED BY <1>3, <1>4

LEMMA EventFailureStops ==
  ASSUME NEW s, Kept(s) PROVE Stops(EventFailure(s, "fatal"), s)
  <1> DEFINE t == RetireRequest(s)
             r == [t EXCEPT !.evLive = FALSE, !.resync = TRUE, !.phase = "fatal"]
             z == [r EXCEPT !.resync = s.resync]
  <1>1. t \in Stores /\ Quiet(t, s) /\ t.read = None
    BY RetireRequestKept, RetireRequestQuiet DEF Kept
  <1> HIDE DEF t
  <1>2. r \in Stores /\ r.read = None /\ r.key = t.key /\ r.snap = t.snap
    BY <1>1 DEF Stores, Phases
  <1>3. EventFailure(s, "fatal") = Poisoned(z)
    BY DEF EventFailure, t
  <1> HIDE DEF r
  <1>4. z \in Stores /\ z.read = None /\ z.key = r.key /\ z.snap = r.snap
    BY <1>2 DEF Stores, Kept
  <1> HIDE DEF z
  <1>5. Stops(Poisoned(z), z)
    BY <1>4, PoisonedStops
  <1> QED BY <1>1, <1>2, <1>3, <1>4, <1>5 DEF Stops, Quiet

LEMMA ReadFailsAgain ==
  ASSUME NEW s \in Stores
  PROVE  /\ Stops(ReadFails(s, TRUE), s)
         /\ ReadsAgain(ReadFails(s, FALSE), s)
  <1> DEFINE r == [s EXCEPT !.read = None]
  <1>1. /\ r \in Stores /\ r.read = None /\ r.key = s.key /\ r.snap = s.snap
        /\ r.reqTries = s.reqTries
        /\ r.transport = s.transport /\ r.link = s.link /\ r.evLive = s.evLive
        /\ r.resync = s.resync /\ r.evTimer = s.evTimer /\ r.evTries = s.evTries
    BY DEF Stores
  <1>2. ReadFails(s, TRUE) = Poisoned(r)
    BY DEF ReadFails
  <1>3. ReadFails(s, FALSE) = IF s.reqTries >= MaxAttempts THEN [r EXCEPT !.phase = "exhausted"]
                              ELSE ScheduleRequestRetry([r EXCEPT !.phase = "failed"])
    BY DEF ReadFails
  <1> HIDE DEF r
  <1>4. Stops(ReadFails(s, TRUE), s)
    BY <1>1, <1>2, PoisonedStops DEF Stops
  <1>5. CASE s.reqTries >= MaxAttempts
    <2>1. s.reqTries = MaxAttempts
      BY <1>5, StoreAssumption DEF Stores
    <2>2. ReadsAgain([r EXCEPT !.phase = "exhausted"], s)
      BY <1>1, <2>1 DEF Stores, ReadsAgain
    <2> QED BY <1>3, <1>4, <1>5, <2>2
  <1>6. CASE ~(s.reqTries >= MaxAttempts)
    <2> DEFINE f == [r EXCEPT !.phase = "failed"]
    <2>1. /\ f \in Stores /\ f.read = None /\ f.key = s.key /\ f.snap = s.snap
          /\ f.phase = "failed" /\ f.reqTries = s.reqTries
          /\ f.transport = s.transport /\ f.link = s.link /\ f.evLive = s.evLive
          /\ f.resync = s.resync /\ f.evTimer = s.evTimer /\ f.evTries = s.evTries
      BY <1>1 DEF Stores, Phases
    <2>2. ReadFails(s, FALSE) = ScheduleRequestRetry(f)
      BY <1>3, <1>6
    <2> HIDE DEF f
    <2>3. ReadsAgain(ScheduleRequestRetry(f), s)
      BY <1>6, <2>1 DEF Stores, ScheduleRequestRetry, ReadsAgain
    <2> QED BY <1>4, <2>2, <2>3
  <1> QED BY <1>5, <1>6

LEMMA LiveOpens ==
  ASSUME NEW s, Kept(s), s.key # None PROVE Opens(Live(s), s)
  <1> DEFINE v == Verified(s)
  <1>1. /\ Kept(v) /\ v.key = s.key /\ v.snap = s.snap /\ v.transport = s.transport
        /\ v.link = "verified" /\ v.evLive /\ ~v.evTimer /\ v.resync = s.resync
        /\ v.phase = IF s.snap = None THEN s.phase ELSE "live"
        /\ v.reqTimer = s.reqTimer /\ v.reqTries = s.reqTries /\ v.read = s.read
    <2>1. Kept(v)
      BY VerifiedKept
    <2> QED BY <2>1 DEF Kept, Stores, Verified
  <1> HIDE DEF v
  <1>2. CASE s.resync
    <2> DEFINE r == [v EXCEPT !.resync = FALSE]
    <2>1. /\ Kept(r) /\ ~r.resync /\ r.key = v.key /\ r.snap = v.snap
          /\ r.transport = v.transport /\ r.link = v.link /\ r.evLive = v.evLive
          /\ r.evTimer = v.evTimer /\ r.phase = v.phase
          /\ r.reqTimer = v.reqTimer /\ r.reqTries = v.reqTries
      BY ZenonT(40), <1>1 DEF Kept, Keyed, Stores
    <2>2. Live(s) = FetchResource(r)
      BY <1>2 DEF Live, v
    <2> HIDE DEF r
    <2> DEFINE f == FetchResource(r)
    <2>3. Quiet(f, r) /\ Held(f)
      BY <1>1, <2>1, FetchResourceAsks
    <2> HIDE DEF f
    <2>4. Opens(f, s)
      BY <1>1, <1>2, <2>1, <2>3 DEF Opens, Quiet
    <2> QED BY <2>2, <2>4 DEF f
  <1>3. CASE ~s.resync
    BY <1>1, <1>3 DEF Live, Opens, v
  <1> QED BY <1>2, <1>3

\* Nothing but the link changes: a subscription is being opened.
Begins(q, s) ==
  /\ q.key = s.key /\ q.snap = s.snap /\ q.read = s.read /\ q.phase = s.phase
  /\ q.transport = s.transport /\ q.evLive = s.evLive /\ q.resync = s.resync
  /\ q.reqTimer = s.reqTimer /\ q.reqTries = s.reqTries
  /\ q.evTimer = s.evTimer /\ q.evTries = s.evTries
  /\ q.link = "opening"

\* The supervisor's word p is noted; what a gap has hidden is read, or will be.
Relays(q, s, p) ==
  /\ q.key = s.key /\ q.snap = s.snap /\ q.phase = s.phase /\ q.transport = p
  /\ q.link = s.link /\ q.evLive = s.evLive
  /\ q.reqTimer = s.reqTimer /\ q.reqTries = s.reqTries
  /\ q.evTimer = s.evTimer /\ q.evTries = s.evTries
  /\ \/ q.read = s.read /\ q.resync = s.resync /\ ~(p = "connected" /\ s.transport = "degraded")
     \/ Held(q) /\ ~q.resync /\ s.evLive
     \/ q.read = s.read /\ q.resync /\ ~s.evLive

\* The supervisor's socket is gone.
Loses(q, s, p) ==
  /\ q.key = s.key /\ q.snap = s.snap /\ q.read = None /\ q.transport = p
  /\ q.phase # "live" /\ ~q.evLive /\ q.resync /\ q.link = s.link

\* The store starts on a target ...
Starts(q) ==
  /\ q.phase # "live" /\ ~q.evLive /\ q.transport = "none"
  /\ \/ Held(q) /\ ~q.resync /\ q.link = "opening"
     \/ q.read = None /\ q.resync /\ q.link = "none" /\ (q.evTimer \/ q.evTries = MaxAttempts)

\* ... or has none.
Rests(q) ==
  /\ q.key = None /\ q.snap = None /\ q.read = None /\ q.phase # "live" /\ ~q.evLive
  /\ q.transport = "none" /\ q.link = "none"

\* What is retained is read again, over the stream as it is or a new one.
Refreshes(q, s) ==
  /\ q.key = s.key /\ q.snap = s.snap
  /\ \/ /\ Held(q) /\ (s.evLive \/ s.transport # "none")
        /\ q.phase = s.phase /\ q.transport = s.transport /\ q.link = s.link
        /\ q.evLive = s.evLive /\ q.resync = s.resync
        /\ q.evTimer = s.evTimer /\ q.evTries = s.evTries
     \/ /\ Held(q) /\ ~s.evLive /\ s.transport = "none"
        /\ q.phase = s.phase /\ ~q.evLive /\ q.transport = "none" /\ q.link = "opening"
     \/ /\ q.phase # "live" /\ ~q.evLive /\ q.transport = "none" /\ q.read = None /\ q.resync
        /\ q.link = "none" /\ (q.evTimer \/ q.evTries = MaxAttempts)

LEMMA ConnectEventsBegins ==
  ASSUME NEW s, Kept(s), s.key # None
  PROVE  /\ (Subscribed(s) \/ s.evLive) =>
              ConnectEvents(s, TRUE) = s /\ ConnectEvents(s, FALSE) = s
         /\ ~(Subscribed(s) \/ s.evLive) =>
              /\ Begins(ConnectEvents(s, TRUE), s)
              /\ Fails(ConnectEvents(s, FALSE), s)
  <1>1. CASE Subscribed(s) \/ s.evLive
    BY <1>1 DEF ConnectEvents
  <1>2. CASE ~(Subscribed(s) \/ s.evLive)
    <2>1. ConnectEvents(s, FALSE) = EventFailure(s, "failed")
      BY <1>2 DEF ConnectEvents
    <2>2. ConnectEvents(s, TRUE) = [s EXCEPT !.link = "opening"]
      BY <1>2 DEF ConnectEvents
    <2>3. Begins([s EXCEPT !.link = "opening"], s)
      BY DEF Kept, Stores, Begins
    <2> QED BY <1>2, <2>1, <2>2, <2>3, EventFailureFails
  <1> QED BY <1>1, <1>2

LEMMA TransportChangedRelays ==
  ASSUME NEW s, Kept(s), s.key # None
  PROVE  /\ \A p \in {"connecting", "connected", "degraded"} : Relays(TransportChanged(s, p), s, p)
         /\ \A p \in {"reconnecting", "stopped"} : Loses(TransportChanged(s, p), s, p)
  <1>1. ASSUME NEW p \in Transports
        PROVE  LET t == [s EXCEPT !.transport = p]
               IN /\ Kept(t) /\ t.key = s.key /\ t.snap = s.snap /\ t.phase = s.phase
                  /\ t.transport = p /\ t.read = s.read
                  /\ t.link = s.link /\ t.evLive = s.evLive /\ t.resync = s.resync
                  /\ t.reqTimer = s.reqTimer /\ t.reqTries = s.reqTries
                  /\ t.evTimer = s.evTimer /\ t.evTries = s.evTries
    BY DEF Kept, Keyed, Stores
  <1>2. ASSUME NEW p \in {"connecting", "connected", "degraded"}
        PROVE  Relays(TransportChanged(s, p), s, p)
    <2> DEFINE t == [s EXCEPT !.transport = p]
    <2>1. p \in Transports
      BY DEF Transports
    <2>2. /\ Kept(t) /\ t.key = s.key /\ t.snap = s.snap /\ t.phase = s.phase
          /\ t.transport = p /\ t.read = s.read
          /\ t.link = s.link /\ t.evLive = s.evLive /\ t.resync = s.resync
          /\ t.reqTimer = s.reqTimer /\ t.reqTries = s.reqTries
          /\ t.evTimer = s.evTimer /\ t.evTries = s.evTries
      BY <1>1, <2>1
    <2> DEFINE gap == p = "connected" /\ s.transport \in {"degraded", "reconnecting", "stopped"}
    <2>3. CASE ~gap
      <3>1. TransportChanged(s, p) = t
        BY <2>3 DEF TransportChanged
      <3> HIDE DEF t
      <3> QED BY <2>2, <2>3, <3>1 DEF Relays
    <2>4. CASE gap /\ s.evLive
      <3> DEFINE r == [t EXCEPT !.resync = FALSE]
                 f == FetchResource(r)
      <3>1. TransportChanged(s, p) = f
        BY <2>4 DEF TransportChanged
      <3> HIDE DEF t
      <3>2. /\ Kept(r) /\ r.key = s.key /\ r.snap = s.snap /\ r.phase = s.phase
            /\ r.transport = p
            /\ r.link = s.link /\ r.evLive = s.evLive /\ ~r.resync
            /\ r.reqTimer = s.reqTimer /\ r.reqTries = s.reqTries
            /\ r.evTimer = s.evTimer /\ r.evTries = s.evTries
        <4>1. Kept(r)
          BY ZenonT(40), <2>2 DEF Kept, Keyed, Stores
        <4>2. /\ r.key = t.key /\ r.snap = t.snap /\ r.phase = t.phase
              /\ r.transport = t.transport
              /\ r.link = t.link /\ r.evLive = t.evLive /\ ~r.resync
              /\ r.reqTimer = t.reqTimer /\ r.reqTries = t.reqTries
              /\ r.evTimer = t.evTimer /\ r.evTries = t.evTries
          BY <2>2 DEF Kept, Stores
        <4> HIDE DEF r
        <4> QED BY <2>2, <4>1, <4>2
      <3> HIDE DEF r
      <3>3. Quiet(f, r) /\ Held(f)
        BY <3>2, FetchResourceAsks
      <3> HIDE DEF f
      <3>4. Relays(f, s, p)
        BY <2>4, <3>2, <3>3 DEF Relays, Quiet
      <3> QED BY <3>1, <3>4
    <2>5. CASE gap /\ ~s.evLive
      <3> DEFINE r == [t EXCEPT !.resync = TRUE]
      <3>1. TransportChanged(s, p) = r
        BY <2>5 DEF TransportChanged
      <3> HIDE DEF t
      <3>2. /\ r.key = s.key /\ r.snap = s.snap /\ r.phase = s.phase
            /\ r.transport = p /\ r.read = s.read
            /\ r.link = s.link /\ r.evLive = s.evLive /\ r.resync
            /\ r.reqTimer = s.reqTimer /\ r.reqTries = s.reqTries
            /\ r.evTimer = s.evTimer /\ r.evTries = s.evTries
        BY <2>2 DEF Kept, Stores
      <3> HIDE DEF r
      <3> QED BY <2>5, <3>1, <3>2 DEF Relays
    <2> QED BY <2>3, <2>4, <2>5
  <1>3. ASSUME NEW p \in {"reconnecting", "stopped"}
        PROVE  Loses(TransportChanged(s, p), s, p)
    <2> DEFINE t == [s EXCEPT !.transport = p]
    <2>1. p \in Transports
      BY DEF Transports
    <2>2. Kept(t) /\ t.key = s.key /\ t.snap = s.snap /\ t.transport = p /\ t.link = s.link
      BY <1>1, <2>1
    <2>3. \/ TransportChanged(s, p) = EventFailure(t, "failed")
          \/ TransportChanged(s, p) = EventFailure(t, "exhausted")
      BY DEF TransportChanged
    <2> HIDE DEF t
    <2>4. Fails(EventFailure(t, "failed"), t) /\ Fails(EventFailure(t, "exhausted"), t)
      BY <2>2, EventFailureFails
    <2> QED BY <2>2, <2>3, <2>4 DEF Fails, Loses
  <1> QED BY <1>2, <1>3

LEMMA RefreshCurrentRefreshes ==
  ASSUME NEW s, Kept(s), s.key # None, NEW opens \in BOOLEAN
  PROVE  Refreshes(RefreshCurrent(s, opens), s)
  <1> DEFINE u == [s EXCEPT !.reqTimer = FALSE, !.reqTries = 0]
             f == FetchResource(u)
             g == [f EXCEPT !.evTimer = FALSE, !.evTries = 0]
             z == RetireSubscription(g)
  <1>1. /\ Kept(u) /\ u.key = s.key /\ u.snap = s.snap /\ u.phase = s.phase
        /\ u.transport = s.transport /\ u.link = s.link /\ u.evLive = s.evLive
        /\ u.resync = s.resync /\ u.evTimer = s.evTimer /\ u.evTries = s.evTries
    BY Zero DEF Kept, Keyed, Stores
  <1>e. RefreshCurrent(s, opens) = IF s.evLive \/ s.transport # "none" THEN f
                                   ELSE ConnectEvents(z, opens)
    BY DEF RefreshCurrent
  <1> HIDE DEF u
  <1>2. Kept(f) /\ Quiet(f, u) /\ Held(f)
    BY <1>1, FetchResourceKept, FetchResourceAsks
  <1> HIDE DEF f
  <1>3. /\ Kept(g) /\ g.key = f.key /\ g.snap = f.snap /\ g.phase = f.phase /\ g.read = f.read
        /\ g.resync = f.resync
    <2>1. Kept(g)
      <3>1. f.key # None
        BY <1>1, <1>2 DEF Quiet
      <3> QED BY <1>2, <3>1, Zero DEF Kept, Keyed, Stores
    <2>2. /\ g.key = f.key /\ g.snap = f.snap /\ g.phase = f.phase /\ g.read = f.read
          /\ g.resync = f.resync
      BY <1>2 DEF Kept, Stores
    <2> QED BY <2>1, <2>2
  <1> HIDE DEF g
  <1>4. /\ z.key = g.key /\ z.snap = g.snap /\ z.phase = g.phase /\ z.read = g.read
        /\ z.transport = "none" /\ z.link = "none" /\ ~z.evLive
    BY <1>3 DEF Kept, Stores, RetireSubscription
  <1>5. Kept(z) /\ z.key # None
    BY <1>1, <1>2, <1>3, <1>4, RetireSubscriptionKept DEF Quiet
  <1> HIDE DEF z
  <1>6. CASE s.evLive \/ s.transport # "none"
    BY <1>1, <1>2, <1>6, <1>e DEF Refreshes, Quiet
  <1>7. CASE ~(s.evLive \/ s.transport # "none")
    <2>1. ~(Subscribed(z) \/ z.evLive)
      BY <1>4 DEF Subscribed
    <2>2. Begins(ConnectEvents(z, TRUE), z) /\ Fails(ConnectEvents(z, FALSE), z)
      BY <1>5, <2>1, ConnectEventsBegins
    <2>3. ASSUME NEW q, Begins(q, z) PROVE Refreshes(q, s)
      BY <1>1, <1>2, <1>3, <1>4, <1>7, <2>3 DEF Begins, Refreshes, Quiet, Held
    <2>4. ASSUME NEW q, Fails(q, z) PROVE Refreshes(q, s)
      BY <1>1, <1>2, <1>3, <1>4, <1>7, <2>4 DEF Fails, Refreshes, Quiet
    <2>5. RefreshCurrent(s, opens) = ConnectEvents(z, opens)
      BY <1>e, <1>7
    <2>6. opens = TRUE \/ opens = FALSE
      OBVIOUS
    <2> QED BY <2>2, <2>3, <2>4, <2>5, <2>6
  <1> QED BY <1>6, <1>7

LEMMA RetiredRests ==
  ASSUME NEW s, Kept(s) PROVE Rests([Retired(s) EXCEPT !.phase = "loading"]) /\ ~Retired(s).resync
  <1> DEFINE r == RetireRequest(s)
             z == RetireSubscription(r)
  <1>1. r \in Stores /\ r.read = None
    BY RetireRequestKept, RetiringKeepsKey DEF Kept
  <1>e. Retired(s) = [z EXCEPT !.key = None, !.snap = None, !.resync = FALSE,
                               !.reqTimer = FALSE, !.reqTries = 0, !.evTimer = FALSE,
                               !.evTries = 0]
    BY DEF Retired
  <1> HIDE DEF r
  <1>2. z \in Stores /\ z.read = None /\ z.transport = "none" /\ z.link = "none" /\ ~z.evLive
    BY ZenonT(40), <1>1 DEF Stores, RetireSubscription, Transports, Links
  <1> HIDE DEF z
  <1> QED BY <1>2, <1>e DEF Stores, Rests

LEMMA StartTargetStarts ==
  ASSUME NEW s, Kept(s), NEW k \in Keys \cup {None}, NEW opens \in BOOLEAN
  PROVE  IF k = None THEN Rests(StartTarget(s, k, opens))
         ELSE LET q == StartTarget(s, k, opens) IN q.key = k /\ q.snap = None /\ Starts(q)
  <1> DEFINE r == Retired(s)
  <1>1. Kept(r) /\ Rests([r EXCEPT !.phase = "loading"]) /\ ~r.resync
    BY RetiredKept, RetiredRests
  <1> HIDE DEF r
  <1>2. CASE k = None
    <2>1. StartTarget(s, k, opens) = [r EXCEPT !.phase = "fatal"]
      BY <1>2 DEF StartTarget, r
    <2> QED BY <1>1, <1>2, <2>1 DEF Kept, Stores, Rests
  <1>3. CASE k # None
    <2> DEFINE u == [r EXCEPT !.key = k, !.phase = "loading"]
               f == FetchResource(u)
    <2>1. /\ Kept(u) /\ u.key = k /\ u.snap = None /\ u.phase = "loading" /\ ~u.evLive
          /\ u.transport = "none" /\ u.link = "none" /\ ~u.resync
      BY ZenonT(40), <1>1, <1>3 DEF Kept, Keyed, Stores, Rests, Phases
    <2>e. StartTarget(s, k, opens) = ConnectEvents(f, opens)
      BY <1>3 DEF StartTarget, r
    <2> HIDE DEF u
    <2>2. Kept(f) /\ Quiet(f, u) /\ Held(f)
      BY <1>3, <2>1, FetchResourceKept, FetchResourceAsks
    <2> HIDE DEF f
    <2>3. ~(Subscribed(f) \/ f.evLive) /\ f.key # None
      BY <1>3, <2>1, <2>2 DEF Quiet, Subscribed
    <2>4. Begins(ConnectEvents(f, TRUE), f) /\ Fails(ConnectEvents(f, FALSE), f)
      BY <2>2, <2>3, ConnectEventsBegins
    <2>5. ASSUME NEW q, Begins(q, f) PROVE q.key = k /\ q.snap = None /\ Starts(q)
      BY <2>1, <2>2, <2>5 DEF Begins, Quiet, Starts, Held
    <2>6. ASSUME NEW q, Fails(q, f) PROVE q.key = k /\ q.snap = None /\ Starts(q)
      BY <2>1, <2>2, <2>6 DEF Fails, Quiet, Starts
    <2>7. opens = TRUE \/ opens = FALSE
      OBVIOUS
    <2> QED BY <1>3, <2>4, <2>5, <2>6, <2>7, <2>e
  <1> QED BY <1>2, <1>3

LEMMA DisposedRests ==
  ASSUME NEW s, Kept(s) PROVE Rests(Disposed(s))
  <1> DEFINE r == Retired(s)
  <1>1. Kept(r) /\ Rests([r EXCEPT !.phase = "loading"])
    BY RetiredKept, RetiredRests
  <1>2. Disposed(s) = [r EXCEPT !.disposed = TRUE, !.phase = "loading"]
    BY DEF Disposed
  <1> HIDE DEF r
  <1> QED BY <1>1, <1>2 DEF Kept, Stores, Rests

\* A read that was held may be sent, and a new subscription has been reported.
Passes(q, s, u) ==
  /\ q.key = s.key /\ q.snap = s.snap /\ q.phase = s.phase /\ q.link = s.link
  /\ q.evLive = s.evLive /\ q.resync = s.resync
  /\ q.reqTimer = s.reqTimer /\ q.reqTries = s.reqTries
  /\ q.evTimer = s.evTimer /\ q.evTries = s.evTries
  /\ IF Fresh(s) THEN q.transport = "connecting" ELSE q.transport = s.transport
  /\ \/ q.read = s.read
     \/ /\ Held(s) /\ q.read # None /\ q.read.st = "unread"
        /\ mode = "supervisor" => u.st = "installed"

LEMMA WiredPasses ==
  ASSUME NEW u \in Supervisors, NEW s, Kept(s) PROVE Passes(Wired(u, s), s, u)
  <1> DEFINE sends == s.read # None /\ s.read.st = "held" /\ (mode = "supervisor" => u.st = "installed")
             x == [s.read EXCEPT !.st = "unread"]
             r == IF sends THEN [s EXCEPT !.read = x] ELSE s
  <1>1. /\ r.key = s.key /\ r.snap = s.snap /\ r.phase = s.phase /\ r.link = s.link
        /\ r.evLive = s.evLive /\ r.resync = s.resync
        /\ r.reqTimer = s.reqTimer /\ r.reqTries = s.reqTries
        /\ r.evTimer = s.evTimer /\ r.evTries = s.evTries /\ r.transport = s.transport
        /\ r.read = IF sends THEN x ELSE s.read
    BY DEF Kept, Stores
  <1>2. sends => x # None /\ x.st = "unread" /\ x \in Reads /\ x.key = s.read.key
    <2>1. sends => s.read \in Reads
      BY DEF Kept, Stores
    <2>2. \A y \in Reads : LET z == [y EXCEPT !.st = "unread"]
                           IN z \in Reads /\ z.st = "unread" /\ z.key = y.key
      BY DEF Reads
    <2> HIDE DEF Reads
    <2> QED BY <2>1, <2>2, NoneAssumption
  <1>3. Wired(u, s) = IF Fresh(r) THEN TransportChanged(r, "connecting") ELSE r
    BY DEF Wired
  <1>4. \A y : TransportChanged(y, "connecting") = [y EXCEPT !.transport = "connecting"]
    BY DEF TransportChanged
  <1>5. r \in Stores
    <2>1. sends => [s EXCEPT !.read = x] \in Stores
      BY <1>2 DEF Kept, Stores
    <2> QED BY <2>1 DEF Kept
  <1> HIDE DEF r, x
  <1> DEFINE q == [r EXCEPT !.transport = "connecting"]
  <1>6. /\ q.key = r.key /\ q.snap = r.snap /\ q.phase = r.phase /\ q.link = r.link
        /\ q.evLive = r.evLive /\ q.resync = r.resync
        /\ q.reqTimer = r.reqTimer /\ q.reqTries = r.reqTries
        /\ q.evTimer = r.evTimer /\ q.evTries = r.evTries /\ q.transport = "connecting"
        /\ q.read = r.read
    BY <1>5 DEF Stores
  <1> HIDE DEF q
  <1>7. Fresh(r) <=> Fresh(s)
    BY <1>1 DEF Fresh
  <1>8. ASSUME NEW y, y.read = r.read
        PROVE  \/ y.read = s.read
               \/ /\ Held(s) /\ y.read # None /\ y.read.st = "unread"
                  /\ mode = "supervisor" => u.st = "installed"
    BY <1>1, <1>2, <1>8 DEF Held
  <1> HIDE DEF sends
  <1>9. Passes(q, s, u) \/ ~Fresh(s)
    BY <1>1, <1>6, <1>8 DEF Passes
  <1>10. Passes(r, s, u) \/ Fresh(s)
    BY <1>1, <1>8 DEF Passes
  <1> QED BY <1>3, <1>4, <1>7, <1>9, <1>10 DEF q

\* What Wires does to a supervisor.
LEMMA WiresDoes ==
  ASSUME NEW u \in Supervisors, NEW s
  PROVE  LET v == Wires(u, s)
         IN /\ v.silent = u.silent /\ v.again = u.again
            /\ v.st = u.st \/ (v.st = "opening" /\ u.st = "none" /\ mode = "supervisor")
            /\ v.handlers = IF Fresh(s) THEN "waiting"
                            ELSE IF ~Subscribed(s) THEN "none" ELSE u.handlers
  <1> DEFINE b == (mode = "supervisor" /\ s.read # None /\ s.read.st = "held") \/ Fresh(s)
             a == IF u.st = "none" /\ b THEN "opening" ELSE u.st
             h == CASE Fresh(s) -> "waiting" [] ~Subscribed(s) -> "none" [] OTHER -> u.handlers
             v == [u EXCEPT !.st = a, !.handlers = h]
  <1>1. Wires(u, s) = v
    BY DEF Wires
  <1>2. h = IF Fresh(s) THEN "waiting" ELSE IF ~Subscribed(s) THEN "none" ELSE u.handlers
    BY DEF Fresh, Subscribed
  <1>3. a = u.st \/ (a = "opening" /\ u.st = "none" /\ mode = "supervisor")
    BY DEF Fresh
  <1> HIDE DEF a, h
  <1>4. v.silent = u.silent /\ v.again = u.again /\ v.st = a /\ v.handlers = h
    BY DEF Supervisors
  <1> QED BY <1>1, <1>2, <1>3, <1>4

\* The supervisor's handlers are told that it failed, and will hear no more.
Mutes(q, s) ==
  /\ q.key = s.key /\ q.snap = s.snap /\ q.read = None
  /\ q.phase # "live" /\ ~q.evLive /\ q.resync
  /\ q.transport \in {s.transport, "none"}
  /\ \/ q.link = "dead" /\ q.transport # "none"
     \/ q.link = "none" /\ q.transport = "none" /\ (q.evTimer \/ q.evTries = MaxAttempts)

LEMMA HandlersFailMutes ==
  ASSUME NEW s, Kept(s)
  PROVE  IF Listening(sup, s) THEN Mutes(HandlersFail(s), s) ELSE HandlersFail(s) = s
  <1>1. CASE Listening(sup, s)
    <2> DEFINE f == EventFailure(s, "failed")
               q == [f EXCEPT !.link = IF Subscribed(f) THEN "dead" ELSE @]
    <2>1. s.key # None /\ s.link \in {"opening", "verified"}
      BY <1>1 DEF Listening, Kept, Keyed
    <2>2. Kept(f) /\ Fails(f, s)
      BY <2>1, EventFailureKept, EventFailureFails DEF Phases
    <2>3. HandlersFail(s) = q
      BY <1>1 DEF HandlersFail
    <2> HIDE DEF f
    <2>4. /\ q.key = f.key /\ q.snap = f.snap /\ q.read = f.read /\ q.phase = f.phase
          /\ q.evLive = f.evLive /\ q.resync = f.resync /\ q.transport = f.transport
          /\ q.evTimer = f.evTimer /\ q.evTries = f.evTries
          /\ q.link = IF f.link # "none" THEN "dead" ELSE f.link
      BY <2>2 DEF Kept, Stores, Subscribed
    <2> HIDE DEF q
    <2>5. Mutes(q, s)
      BY <2>1, <2>2, <2>4 DEF Mutes, Fails
    <2> QED BY <1>1, <2>3, <2>5
  <1>2. CASE ~Listening(sup, s)
    BY <1>2 DEF HandlersFail
  <1> QED BY <1>1, <1>2

\* A read that waited for the supervisor is refused.
LEMMA RefusedQuiet ==
  ASSUME NEW s, Kept(s)
  PROVE  LET q == Refused(s)
         IN /\ Quiet(q, s)
            /\ IF Held(s) THEN q.read # None /\ q.read.st = "refused" ELSE q.read = s.read
  <1>1. CASE Held(s)
    <2> DEFINE x == [s.read EXCEPT !.st = "refused"]
               q == [s EXCEPT !.read = x]
    <2>1. s.read \in Reads
      BY <1>1 DEF Held, Kept, Stores
    <2>2. x \in Reads /\ x.st = "refused"
      BY <2>1 DEF Reads
    <2>3. x # None
      <3> HIDE DEF x
      <3> QED BY <2>2, NoneAssumption
    <2>4. Refused(s) = q
      BY <1>1 DEF Refused, Held
    <2> HIDE DEF x
    <2>5. Quiet(q, s) /\ q.read = x
      BY DEF Kept, Stores, Quiet
    <2> QED BY <1>1, <2>2, <2>3, <2>4, <2>5
  <1>2. CASE ~Held(s)
    BY <1>2 DEF Refused, Held, Quiet
  <1> QED BY <1>1, <1>2

-----------------------------------------------------------------------------
(* What every store keeps true while it follows its stream *)

\* Its fields fit together: live means that the stream is, and that nothing is
\* left to make up for.
Sound(s) ==
  /\ s.evLive => s.link = "verified" /\ ~s.resync
  /\ s.phase = "live" => s.evLive /\ s.snap # None
  /\ s.link = "lost" => s.resync
  /\ s.link = "none" => s.transport = "none"
  /\ s.transport = "degraded" => mode = "host"

\* A fatal failure, and nothing that was started after it.
Dead(s) == s.phase = "fatal" /\ s.read = None /\ ~s.reqTimer
Over(s) == Dead(s) /\ s.link = "none" /\ ~s.evTimer

\* StreamOrRetry, and when a fatal failure may be a reason.
Served(s) ==
  (s.key # None /\ s.transport = "none") =>
    Subscribed(s) \/ s.evTimer \/ s.evTries = MaxAttempts \/ Dead(s)

\* What was read is not from the future, and not older than what is shown.
Aged(s) ==
  /\ s.snap # None => s.snap.ver <= ver[s.key]
  /\ (s.read # None /\ s.read.st = "answered") =>
       s.read.ver <= ver[s.key] /\ (s.snap # None => s.snap.ver <= s.read.ver)

Retries(s) == s.read = None /\ (s.reqTimer \/ s.reqTries = MaxAttempts)

\* Of what the daemon has changed, the transport (whose cursors are c) will hear
\* of the last change, or a read that was sent or will be sent shows it.
Coming(s, c) ==
  \/ c[s.key] < ver[s.key]
  \/ Retries(s)
  \/ s.read = None /\ s.snap # None /\ s.snap.ver = ver[s.key]
  \/ s.read # None /\ (s.read.st # "answered" \/ s.read.ver = ver[s.key])

\* If not, the gap is known.
Current(s, u, c) ==
  s.key # None =>
    Coming(s, c) \/ s.resync \/ s.transport = "degraded" \/ u.silent \/ Over(s)

\* Until its interest is installed, a supervisor knows of no changes: whatever
\* was read before does not count.
Untold(s, u) ==
  (mode = "supervisor" /\ u.st # "installed" /\ s.key # None) =>
    \/ s.resync \/ u.silent \/ Over(s) \/ Retries(s)
    \/ s.read # None /\ s.read.st \in {"held", "refused"}

\* The supervisor knows the handlers of a subscription that is not dead.
Heeded(s, u) ==
  mode = "supervisor" =>
    /\ s.link \in {"opening", "verified"} => u.handlers # "none" \/ u.silent \/ Fresh(s)
    /\ (s.key # None /\ s.link \notin {"opening", "verified"}) => s.resync \/ Over(s)

Fit(s, u, c) ==
  Sound(s) /\ Served(s) /\ Aged(s) /\ Current(s, u, c) /\ Untold(s, u) /\ Heeded(s, u)

\* Whatever changes but the reads and their timer.
Level(q, s) ==
  /\ q.key = s.key /\ q.snap = s.snap /\ q.phase = s.phase /\ q.transport = s.transport
  /\ q.link = s.link /\ q.evLive = s.evLive /\ q.resync = s.resync
  /\ q.evTimer = s.evTimer /\ q.evTries = s.evTries

LEMMA HeldFit ==
  ASSUME NEW q, NEW s, NEW u, NEW c, NEW d, Fit(s, u, c), Level(q, s), Held(q),
         ~Dead(s) \/ s.link # "none"
  PROVE  Fit(q, u, d)
  <1>1. Sound(q)
    BY DEF Fit, Level, Sound
  <1>2. Served(q)
    BY DEF Fit, Level, Served, Subscribed
  <1>3. Aged(q)
    BY DEF Fit, Level, Aged, Held
  <1>4. Current(q, u, d) /\ Untold(q, u)
    BY DEF Current, Coming, Untold, Held
  <1>5. Heeded(q, u)
    BY DEF Fit, Level, Heeded, Fresh, Over
  <1> QED BY <1>1, <1>2, <1>3, <1>4, <1>5 DEF Fit

LEMMA FailsFit ==
  ASSUME NEW q, NEW s, NEW u, NEW d, Sound(s), Aged(s), Heeded(s, u), Fails(q, s)
  PROVE  Fit(q, u, d)
  <1>1. Sound(q)
    BY DEF Fails, Sound
  <1>2. Served(q) /\ Aged(q) /\ Current(q, u, d) /\ Untold(q, u)
    BY DEF Fails, Served, Aged, Current, Untold
  <1>3. Heeded(q, u)
    BY DEF Fails, Heeded, Fresh
  <1> QED BY <1>1, <1>2, <1>3 DEF Fit

LEMMA StopsFit ==
  ASSUME NEW q, NEW s, NEW u, NEW d, Aged(s), Stops(q, s)
  PROVE  Fit(q, u, d)
  <1>1. Dead(q) /\ Over(q)
    BY DEF Stops, Dead, Over
  <1>2. Sound(q) /\ Aged(q)
    BY DEF Stops, Sound, Aged
  <1>3. Served(q) /\ Current(q, u, d) /\ Untold(q, u) /\ Heeded(q, u)
    BY <1>1 DEF Stops, Served, Current, Untold, Heeded
  <1> QED BY <1>2, <1>3 DEF Fit

LEMMA ReadsAgainFit ==
  ASSUME NEW q, NEW s, NEW u, NEW c, Fit(s, u, c), s.read # None, ReadsAgain(q, s)
  PROVE  Fit(q, u, c)
  <1>1. ~Dead(s) /\ ~Over(s) /\ Retries(q)
    BY DEF Dead, Over, ReadsAgain, Retries
  <1>2. Sound(q)
    BY DEF Fit, ReadsAgain, Sound
  <1>3. Served(q) /\ Aged(q)
    BY <1>1 DEF Fit, ReadsAgain, Served, Subscribed, Aged
  <1>4. Current(q, u, c) /\ Untold(q, u)
    BY <1>1 DEF Current, Coming, Untold
  <1>5. Heeded(q, u)
    BY <1>1 DEF Fit, ReadsAgain, Heeded, Fresh
  <1> QED BY <1>2, <1>3, <1>4, <1>5 DEF Fit

\* The read succeeds, and is shown.
Shows(q, s) ==
  /\ q.key = s.key /\ q.read = None /\ q.snap # None /\ q.snap.ver = s.read.ver
  /\ q.phase = IF s.evLive THEN "live" ELSE "stale"
  /\ q.transport = s.transport /\ q.link = s.link /\ q.evLive = s.evLive
  /\ q.resync = s.resync /\ q.evTimer = s.evTimer /\ q.evTries = s.evTries

LEMMA ShowsFit ==
  ASSUME NEW q, NEW s, NEW u, NEW c, Fit(s, u, c),
         s.read # None, s.read.st = "answered", Shows(q, s)
  PROVE  Fit(q, u, c)
  <1>1. ~Dead(s) /\ ~Over(s) /\ ~Retries(s)
    BY DEF Dead, Over, Retries
  <1>2. Sound(q)
    BY DEF Fit, Shows, Sound
  <1>3. Served(q) /\ Aged(q)
    BY <1>1 DEF Fit, Shows, Served, Subscribed, Aged
  <1>4. Coming(s, c) => Coming(q, c)
    BY <1>1 DEF Shows, Coming
  <1>5. Current(q, u, c) /\ Untold(q, u)
    BY <1>1, <1>4 DEF Fit, Shows, Current, Untold
  <1>6. Heeded(q, u)
    BY <1>1 DEF Fit, Shows, Heeded, Fresh
  <1> QED BY <1>2, <1>3, <1>5, <1>6 DEF Fit

LEMMA OpensFit ==
  ASSUME NEW q, NEW s, NEW u, NEW c, NEW d, Fit(s, u, c), Opens(q, s), s.link # "none",
         s.resync \/ d = c, mode = "supervisor" => u.handlers # "none"
  PROVE  Fit(q, u, d)
  <1>1. ~Over(s) /\ (~s.resync => q.read = s.read)
    BY DEF Over, Opens
  <1>2. Sound(q)
    BY DEF Fit, Opens, Sound
  <1>3. Served(q)
    BY DEF Opens, Served, Subscribed
  <1>4. Aged(q)
    BY DEF Fit, Opens, Aged, Held
  <1>5. CASE s.resync
    <2>1. Held(q)
      BY <1>5 DEF Opens
    <2> QED BY <1>2, <1>3, <1>4, <2>1 DEF Opens, Held, Current, Coming, Untold, Heeded, Fit
  <1>6. CASE ~s.resync
    <2>1. Retries(s) => Retries(q)
      BY <1>1, <1>6 DEF Opens, Retries
    <2>2. Coming(s, c) => Coming(q, c)
      BY <1>1, <1>6, <2>1 DEF Opens, Coming
    <2>3. Current(q, u, d)
      BY <1>1, <1>6, <2>2 DEF Fit, Opens, Current
    <2>4. Untold(q, u)
      BY <1>1, <1>6, <2>1 DEF Fit, Opens, Untold
    <2>5. Heeded(q, u)
      BY DEF Opens, Heeded
    <2> QED BY <1>2, <1>3, <1>4, <2>3, <2>4, <2>5 DEF Fit
  <1> QED BY <1>5, <1>6

LEMMA RelaysFit ==
  ASSUME NEW q, NEW s, NEW u, NEW c, NEW d, Fit(s, u, c),
         NEW p \in {"connecting", "connected", "degraded"}, Relays(q, s, p),
         s.link # "none", p = "degraded" => mode = "host", p = "connecting" => mode = "supervisor",
         mode = "supervisor" => u.handlers # "none",
         d = c \/ (p = "connected" /\ s.transport = "degraded")
  PROVE  Fit(q, u, d)
  <1>1. ~Over(s)
    BY DEF Over
  <1>2. Sound(q)
    BY DEF Fit, Relays, Sound
  <1>3. Served(q)
    BY DEF Relays, Served
  <1>4. Aged(q)
    BY DEF Fit, Relays, Aged, Held
  <1>5. Current(q, u, d) /\ Untold(q, u)
    <2>1. CASE q.read = s.read /\ q.resync = s.resync /\ ~(p = "connected" /\ s.transport = "degraded")
      <3>1. d = c /\ (Retries(s) => Retries(q)) /\ (Coming(s, c) => Coming(q, c))
        BY <2>1 DEF Relays, Retries, Coming
      <3>2. s.transport = "degraded" => q.transport = "degraded"
        BY <2>1 DEF Fit, Sound, Relays
      <3>3. Current(q, u, d)
        BY <1>1, <2>1, <3>1, <3>2 DEF Fit, Relays, Current
      <3>4. Untold(q, u)
        BY <1>1, <2>1, <3>1 DEF Fit, Relays, Untold
      <3> QED BY <3>3, <3>4
    <2>2. CASE Held(q)
      BY <2>2 DEF Held, Current, Coming, Untold
    <2>3. CASE q.resync
      BY <2>3 DEF Current, Untold
    <2> QED BY <2>1, <2>2, <2>3 DEF Relays
  <1>6. Heeded(q, u)
    BY <1>1, <1>2 DEF Fit, Sound, Relays, Heeded
  <1> QED BY <1>2, <1>3, <1>4, <1>5, <1>6 DEF Fit

LEMMA StartsFit ==
  ASSUME NEW q, NEW u, NEW d, q.snap = None, Starts(q)
  PROVE  Fit(q, u, d)
  <1>1. Sound(q) /\ Served(q) /\ Aged(q)
    BY DEF Starts, Sound, Served, Subscribed, Aged, Held
  <1>2. Current(q, u, d) /\ Untold(q, u)
    BY DEF Starts, Held, Current, Coming, Untold
  <1>3. Heeded(q, u)
    BY DEF Starts, Heeded, Fresh
  <1> QED BY <1>1, <1>2, <1>3 DEF Fit

LEMMA RestsFit ==
  ASSUME NEW q, NEW u, NEW d, Rests(q)
  PROVE  Fit(q, u, d)
  BY DEF Rests, Fit, Sound, Served, Aged, Current, Untold, Heeded

LEMMA RefreshesFit ==
  ASSUME NEW q, NEW s, NEW u, NEW c, NEW d, Fit(s, u, c), Refreshes(q, s)
  PROVE  Fit(q, u, d)
  <1>1. CASE Held(q) /\ (s.evLive \/ s.transport # "none") /\ Level(q, s)
    <2>1. s.link # "none"
      BY <1>1 DEF Fit, Sound
    <2> QED BY <1>1, <2>1, HeldFit
  <1>2. CASE /\ Held(q) /\ ~s.evLive /\ s.transport = "none"
             /\ q.phase = s.phase /\ ~q.evLive /\ q.transport = "none" /\ q.link = "opening"
             /\ q.key = s.key /\ q.snap = s.snap
    <2>1. Sound(q) /\ Served(q) /\ Aged(q)
      BY <1>2 DEF Fit, Sound, Served, Subscribed, Aged, Held
    <2>2. Current(q, u, d) /\ Untold(q, u) /\ Heeded(q, u)
      BY <1>2 DEF Held, Current, Coming, Untold, Heeded, Fresh
    <2> QED BY <2>1, <2>2 DEF Fit
  <1>3. CASE /\ q.phase # "live" /\ ~q.evLive /\ q.transport = "none" /\ q.read = None /\ q.resync
             /\ q.link = "none" /\ (q.evTimer \/ q.evTries = MaxAttempts)
             /\ q.key = s.key /\ q.snap = s.snap
    BY <1>3 DEF Fit, Sound, Served, Aged, Current, Untold, Heeded
  <1> QED BY <1>1, <1>2, <1>3 DEF Refreshes, Level

LEMMA MutesFit ==
  ASSUME NEW q, NEW s, NEW u, NEW d, Sound(s), Aged(s), Mutes(q, s)
  PROVE  Fit(q, u, d)
  <1>1. Sound(q) /\ Served(q) /\ Aged(q)
    BY DEF Mutes, Sound, Served, Subscribed, Aged
  <1>2. Current(q, u, d) /\ Untold(q, u) /\ Heeded(q, u)
    BY DEF Mutes, Current, Untold, Heeded
  <1> QED BY <1>1, <1>2 DEF Fit

\* Another supervisor serves the store as well if it knows the handlers, and
\* knows of changes only if this one does.
LEMMA ServedByFit ==
  ASSUME NEW s, NEW u, NEW v, NEW c, Fit(s, u, c), v.silent = u.silent,
         v.st # "installed" => u.st # "installed",
         u.handlers # "none" => v.handlers # "none"
  PROVE  Fit(s, v, c)
  BY DEF Fit, Current, Untold, Heeded

LEMMA PassesFit ==
  ASSUME NEW q, NEW s, NEW u, NEW v, NEW c, Fit(s, u, c), Passes(q, s, u),
         v.silent = u.silent, v.st # "installed" => u.st # "installed",
         mode = "supervisor" /\ Fresh(s) => v.handlers # "none",
         u.handlers # "none" /\ Subscribed(s) => v.handlers # "none"
  PROVE  Fit(q, v, c) /\ ~Fresh(q)
  <1>1. /\ Dead(s) <=> Dead(q)
        /\ Over(s) <=> Over(q)
        /\ Retries(s) <=> Retries(q)
    BY DEF Passes, Dead, Over, Retries, Held
  <1>2. ~Fresh(q)
    BY DEF Passes, Fresh
  <1>3. Sound(q)
    BY DEF Fit, Passes, Sound, Fresh
  <1>4. Served(q)
    BY <1>1 DEF Fit, Passes, Served, Subscribed
  <1>5. Aged(q)
    BY DEF Fit, Passes, Aged
  <1>6. Coming(s, c) => Coming(q, c)
    BY <1>1 DEF Passes, Coming
  <1>7. Current(q, v, c)
    <2>1. s.transport = "degraded" => q.transport = "degraded"
      BY DEF Passes, Fresh
    <2> QED BY <1>1, <1>6, <2>1 DEF Fit, Passes, Current
  <1>8. Untold(q, v)
    BY <1>1 DEF Fit, Passes, Untold
  <1>9. Heeded(q, v)
    BY <1>1 DEF Fit, Passes, Heeded, Fresh, Subscribed
  <1> QED BY <1>2, <1>3, <1>4, <1>5, <1>7, <1>8, <1>9 DEF Fit

-----------------------------------------------------------------------------
(* The steps keep it *)

\* Only OpenTUI has a supervisor of its own.
Alone(u) == mode # "supervisor" => u.st = "none" /\ u.handlers = "none" /\ ~u.again

LEMMA ThroughFit ==
  ASSUME NEW u \in Supervisors, NEW s, Kept(s), NEW c, Fit(s, u, c), Alone(u)
  PROVE  LET t == Through(u, s)
         IN /\ Fit(t.store, t.sup, c) /\ ~Fresh(t.store) /\ Alone(t.sup)
            /\ t.store.snap = s.snap
  <1> DEFINE v == Wires(u, s)
             x == [v EXCEPT !.handlers = "told"]
             w == Wired(u, s)
             o == Live(w)
             r == TransportChanged(o, "connected")
             z == Wired(v, r)
             told == v.st = "installed" /\ v.handlers = "waiting"
  <1>e. /\ Through(u, s).sup = IF told THEN x ELSE v
        /\ Through(u, s).store = IF told /\ Listening(v, w) THEN z ELSE w
    BY DEF Through
  <1>1. /\ v.silent = u.silent /\ v.again = u.again
        /\ v.st = u.st \/ (v.st = "opening" /\ u.st = "none" /\ mode = "supervisor")
        /\ v.handlers = IF Fresh(s) THEN "waiting"
                        ELSE IF ~Subscribed(s) THEN "none" ELSE u.handlers
    BY WiresDoes
  <1>2. v \in Supervisors
    BY WiresType
  <1>3. Kept(w) /\ Passes(w, s, u)
    BY WiredKept, WiredPasses
  <1> HIDE DEF v, w
  <1>4. x.st = v.st /\ x.silent = v.silent /\ x.again = v.again /\ x.handlers = "told"
    BY <1>2 DEF Supervisors
  <1>5. Alone(v) /\ (told => mode = "supervisor")
    BY <1>1 DEF Alone, Fresh
  <1>6. Fit(w, v, c) /\ ~Fresh(w) /\ w.snap = s.snap
    <2>1. mode = "supervisor" /\ Fresh(s) => v.handlers # "none"
      BY <1>1
    <2>2. u.handlers # "none" /\ Subscribed(s) => v.handlers # "none"
      BY <1>1
    <2>3. v.st # "installed" => u.st # "installed"
      BY <1>1
    <2>4. Fit(w, v, c) /\ ~Fresh(w)
      BY <1>1, <1>3, <2>1, <2>2, <2>3, PassesFit
    <2> QED BY <1>3, <2>4 DEF Passes
  <1> HIDE DEF x
  <1>7. CASE ~told
    BY <1>e, <1>5, <1>6, <1>7
  <1>8. CASE told
    <2>1. Alone(x)
      BY <1>5, <1>8 DEF Alone
    <2>2. ASSUME NEW q, Fit(q, v, c) PROVE Fit(q, x, c)
      BY <1>4, <2>2, ServedByFit
    <2>3. CASE ~Listening(v, w)
      BY <1>e, <1>6, <1>8, <2>1, <2>2, <2>3
    <2>4. CASE Listening(v, w)
      <3>1. w.link # "none" /\ w.key # None
        BY <1>3, <2>4 DEF Listening, Kept, Keyed
      <3>2. Kept(o) /\ o.key # None /\ Opens(o, w)
        BY <1>3, <3>1, LiveKept, LiveOpens
      <3> HIDE DEF o
      <3>3. Fit(o, v, c)
        BY <1>6, <1>8, <3>1, <3>2, OpensFit
      <3>4. Kept(r) /\ Relays(r, o, "connected")
        BY <3>2, TransportChangedKept, TransportChangedRelays DEF Transports
      <3> HIDE DEF r
      <3>5. Fit(r, v, c)
        <4>1. o.link # "none"
          BY <3>2 DEF Opens
        <4> QED BY <1>8, <3>3, <3>4, <4>1, RelaysFit
      <3>6. Passes(z, r, v)
        BY <1>2, <3>4, WiredPasses
      <3> HIDE DEF z
      <3>7. Fit(z, v, c) /\ ~Fresh(z)
        BY <1>8, <3>5, <3>6, PassesFit
      <3>8. z.snap = s.snap
        BY <1>6, <3>2, <3>4, <3>6 DEF Opens, Relays, Passes
      <3> QED BY <1>e, <1>8, <2>1, <2>2, <2>4, <3>7, <3>8
    <2> QED BY <2>3, <2>4
  <1> QED BY <1>7, <1>8

\* No cursor is ahead of the daemon.
Heard == \A k \in Keys : cursor[k] <= ver[k]

SInv == IInv /\ Fit(store, sup, cursor) /\ ~Fresh(store) /\ Alone(sup) /\ Heard

\* A snapshot is kept, dropped, or replaced by one that is not older.
Forth ==
  store.snap # None =>
    store'.snap \in {store.snap, None} \/ store'.snap.ver >= store.snap.ver

\* What an action leaves to show once the store fits.
LEMMA FitSuffices ==
  ASSUME IInv', UNCHANGED <<mode, ver>>, Fit(store', sup', cursor'), ~Fresh(store'),
         Alone(sup'), Heard'
  PROVE  SInv'
  BY DEF SInv, Fit, Sound, Served, Subscribed, Dead, Over, Aged, Retries, Coming, Current,
         Untold, Heeded, Fresh, Alone

LEMMA StepFit ==
  ASSUME NEW u \in Supervisors, NEW s, Kept(s), Fit(s, u, cursor'), Alone(u), Step(u, s),
         IInv', Heard'
  PROVE  SInv' /\ store'.snap = s.snap
  <1>1. Fit(store', sup', cursor') /\ ~Fresh(store') /\ Alone(sup') /\ store'.snap = s.snap
    BY ThroughFit DEF Step
  <1>2. UNCHANGED <<mode, ver>>
    BY DEF Step
  <1> QED BY <1>1, <1>2, FitSuffices

LEMMA InitSInv == Init => SInv
  <1> SUFFICES ASSUME Init PROVE SInv
    OBVIOUS
  <1>1. PICK k \in Keys, opens \in BOOLEAN, u \in Inherited :
          /\ sup = Through(u, StartTarget(NewStore, k, opens)).sup
          /\ store = Through(u, StartTarget(NewStore, k, opens)).store
    BY DEF Init
  <1>2. u \in Supervisors /\ Alone(u)
    <2>1. NoSupervisor \in Supervisors
      BY DEF NoSupervisor, Supervisors
    <2>2. /\ [NoSupervisor EXCEPT !.st = "opening"] \in Supervisors
          /\ [NoSupervisor EXCEPT !.again = TRUE] \in Supervisors
      BY <2>1 DEF Supervisors
    <2>3. u \in {NoSupervisor, [NoSupervisor EXCEPT !.st = "opening"],
                [NoSupervisor EXCEPT !.again = TRUE]}
      BY DEF Inherited
    <2>4. mode # "supervisor" => u = NoSupervisor
      BY DEF Inherited
    <2>5. Alone(u)
      BY <2>4 DEF Alone, NoSupervisor
    <2> QED BY <2>1, <2>2, <2>3, <2>5
  <1> DEFINE q == StartTarget(NewStore, k, opens)
  <1>3. Kept(q)
    BY NewStoreKept, StartTargetKept
  <1>4. q.snap = None /\ Starts(q)
    BY NewStoreKept, StartTargetStarts, StoreAssumption
  <1>5. sup = Through(u, q).sup /\ store = Through(u, q).store
    BY <1>1
  <1> HIDE DEF q
  <1>6. Fit(q, u, cursor)
    BY <1>4, StartsFit
  <1>7. Fit(store, sup, cursor) /\ ~Fresh(store) /\ Alone(sup)
    BY <1>2, <1>3, <1>5, <1>6, ThroughFit
  <1>8. Heard
    <2>1. ver = [j \in Keys |-> 0] /\ cursor = ver
      BY Zenon DEF Init
    <2> QED BY <2>1 DEF Heard
  <1> QED BY <1>7, <1>8, InitIInv DEF SInv

\* The same store but for what no part of the invariant looks at.
LEMMA SameFit ==
  ASSUME NEW q, NEW s, NEW u, NEW c, Fit(s, u, c), Quiet(q, s), q.read = s.read
  PROVE  Fit(q, u, c) /\ (Fresh(q) <=> Fresh(s))
  <1>1. (Dead(q) <=> Dead(s)) /\ (Over(q) <=> Over(s)) /\ (Retries(q) <=> Retries(s))
    BY DEF Quiet, Dead, Over, Retries
  <1>2. (Coming(q, c) <=> Coming(s, c)) /\ (Fresh(q) <=> Fresh(s))
    BY <1>1 DEF Quiet, Coming, Fresh
  <1>3. Sound(q) /\ Served(q) /\ Aged(q)
    BY <1>1 DEF Quiet, Fit, Sound, Served, Subscribed, Aged
  <1>4. Current(q, u, c) /\ Untold(q, u) /\ Heeded(q, u)
    BY <1>1, <1>2 DEF Quiet, Fit, Current, Untold, Heeded
  <1> QED BY <1>2, <1>3, <1>4 DEF Fit

\* The daemon's answer is the present.
LEMMA AnswersFit ==
  ASSUME NEW q, NEW s, NEW u, NEW c, Fit(s, u, c), Quiet(q, s),
         s.read # None, s.read.st = "unread", ver[s.key] \in Nat,
         q.read # None, q.read.st = "answered", q.read.ver = ver[s.key]
  PROVE  Fit(q, u, c)
  <1>1. ~Dead(s) /\ ~Over(s) /\ ~Retries(s)
    BY DEF Dead, Over, Retries
  <1>2. Sound(q) /\ Served(q)
    BY <1>1 DEF Quiet, Fit, Sound, Served, Subscribed
  <1>3. Aged(q)
    <2>1. s.snap # None => s.snap.ver <= ver[s.key]
      BY DEF Fit, Aged
    <2>2. q.read.ver <= ver[q.key]
      BY DEF Quiet
    <2> QED BY <2>1, <2>2 DEF Quiet, Aged
  <1>4. Current(q, u, c)
    BY DEF Quiet, Current, Coming
  <1>5. Untold(q, u) /\ Heeded(q, u)
    BY <1>1 DEF Quiet, Fit, Untold, Heeded, Fresh
  <1> QED BY <1>2, <1>3, <1>4, <1>5 DEF Fit

LEMMA SInvFacts ==
  ASSUME SInv
  PROVE  /\ Kept(store) /\ store \in Stores /\ sup \in Supervisors /\ Alone(sup)
         /\ Fit(store, sup, cursor) /\ ~Fresh(store) /\ Heard
         /\ \A k \in Keys : ver[k] \in Nat /\ cursor[k] \in Nat
  <1>1. Kept(store) /\ store \in Stores /\ sup \in Supervisors
    BY DEF SInv, IInv, TypeOK, Kept
  <1>2. \A k \in Keys : ver[k] \in Nat /\ cursor[k] \in Nat
    BY StoreAssumption DEF SInv, IInv, TypeOK, Versions
  <1> QED BY <1>1, <1>2 DEF SInv

LEMMA ReadHasTarget ==
  ASSUME NEW s, Kept(s), s.read # None PROVE s.read \in Reads /\ s.key \in Keys /\ s.key # None
  BY StoreAssumption DEF Kept, Keyed, Stores, Reads

LEMMA ReadStepSInv ==
  ASSUME SInv, ReadStep, IInv' PROVE SInv' /\ Forth
  <1>k. /\ Kept(store) /\ store \in Stores /\ sup \in Supervisors /\ Alone(sup)
        /\ Fit(store, sup, cursor) /\ ~Fresh(store) /\ Heard
    BY SInvFacts
  <1>v. \A k \in Keys : ver[k] \in Nat /\ cursor[k] \in Nat
    BY SInvFacts
  <1>1. CASE DaemonReads
    <2>1. store.read \in Reads /\ store.key \in Keys /\ store.read # None
      BY <1>k, <1>1, ReadHasTarget DEF DaemonReads, Reading
    <2> DEFINE a == Answer(store.read)
    <2>2. a \in Reads /\ a.st = "answered" /\ a.ver = ver[store.key]
      <3>1. ver[store.read.key] \in Versions /\ store.read.key = store.key
        BY <2>1, <1>k DEF SInv, IInv, TypeOK, Kept, Keyed
      <3> QED BY <2>1, <3>1 DEF Answer, Reads
    <2>3. a # None
      BY <2>2, NoneAssumption
    <2>4. store' = [store EXCEPT !.read = a]
      BY <1>1 DEF DaemonReads
    <2> HIDE DEF a
    <2>5. Quiet(store', store) /\ store'.read = a
      BY <1>k, <2>4 DEF Stores, Quiet
    <2>6. UNCHANGED <<mode, ver, cursor, sup>>
      BY <1>1 DEF DaemonReads
    <2>7. Fit(store', sup', cursor')
      <3>1. store.read.st = "unread" /\ ver[store.key] \in Nat
        BY <1>1, <1>v, <2>1 DEF DaemonReads, Reading
      <3>2. Fit(store', sup, cursor)
        BY <1>k, <2>1, <2>2, <2>3, <2>5, <3>1, AnswersFit
      <3> QED BY <2>6, <3>2
    <2>8. ~Fresh(store') /\ Alone(sup') /\ Heard'
      BY <1>k, <2>5, <2>6 DEF Quiet, Fresh, Alone, Heard
    <2>9. Forth
      BY <2>5 DEF Quiet, Forth
    <2> QED BY <2>6, <2>7, <2>8, <2>9, FitSuffices
  <1>s. ASSUME UNCHANGED <<mode, ver, cursor, sup>>, store' = [store EXCEPT !.late = store'.late]
        PROVE  SInv' /\ Forth
    <2>1. Quiet(store', store) /\ store'.read = store.read
      BY <1>k, <1>s DEF Stores, Quiet
    <2>2. Fit(store', sup, cursor) /\ ~Fresh(store')
      BY <1>k, <2>1, SameFit
    <2>3. Fit(store', sup', cursor') /\ Alone(sup') /\ Heard'
      BY <1>k, <1>s, <2>2 DEF Alone, Heard
    <2>4. Forth
      BY <2>1 DEF Quiet, Forth
    <2> QED BY <1>s, <2>2, <2>3, <2>4, FitSuffices
  <1>2. CASE DaemonReadsLate
    <2>1. PICK a : store' = [store EXCEPT !.late = a]
      BY <1>2 DEF DaemonReadsLate
    <2>2. store' = [store EXCEPT !.late = store'.late]
      BY <1>k, <2>1 DEF Stores
    <2> QED BY <1>2, <1>s, <2>2 DEF DaemonReadsLate
  <1>3. CASE ReadReturns
    <2>1. PICK r \in {store.read, store.late} \ {None} : r.st = "answered" /\ Settle(r)
      BY <1>3 DEF ReadReturns
    <2>2. CASE Accepts(store, r)
      <3>1. r = store.read /\ store.read # None
        BY <2>1, <2>2 DEF Accepts
      <3>2. r \in Reads /\ r.key = store.key /\ store.key # None
        BY <1>k, <3>1, ReadHasTarget DEF Kept, Keyed
      <3> DEFINE q == ReadSucceeds(store, r)
      <3>3. Shows(q, store) /\ q.snap.ver = r.ver
        <4>1. [key |-> r.key, ver |-> r.ver] \in Snapshots
          BY <3>2 DEF Reads, Snapshots
        <4>2. [key |-> r.key, ver |-> r.ver] # None
          BY <4>1, NoneAssumption
        <4> QED BY <1>k, <3>1, <4>2 DEF Stores, ReadSucceeds, Shows
      <3>4. Kept(q)
        BY <1>k, <3>2, ReadSucceedsKept
      <3>5. Step(sup, q) /\ UNCHANGED cursor
        BY <1>3, <2>1, <2>2 DEF Settle, StoreStep, ReadReturns
      <3> HIDE DEF q
      <3>6. Fit(q, sup, cursor)
        BY <1>k, <2>1, <3>1, <3>3, ShowsFit
      <3>7. Fit(q, sup, cursor') /\ Heard'
        BY <1>k, <3>5, <3>6 DEF Heard, Step
      <3>8. SInv' /\ store'.snap = q.snap
        BY <1>k, <3>4, <3>5, <3>7, StepFit
      <3>9. Forth
        <4>1. store.snap # None => store.snap.ver <= r.ver
          BY <1>k, <2>1, <3>1 DEF Fit, Aged
        <4> QED BY <3>3, <3>8, <4>1 DEF Forth
      <3> QED BY <3>8, <3>9
    <2>3. CASE ~Accepts(store, r)
      <3>1. store' = [store EXCEPT !.late = None]
        BY <2>1, <2>3 DEF Settle
      <3>2. store' = [store EXCEPT !.late = store'.late]
        BY <1>k, <3>1 DEF Stores
      <3> QED BY <1>3, <1>s, <2>1, <2>3, <3>2 DEF Settle, ReadReturns
    <2> QED BY <2>2, <2>3
  <1>4. CASE ReadRefused
    <2> DEFINE q == ReadFails(store, FALSE)
    <2>1. store.read # None /\ store.key # None
      BY <1>k, <1>4, ReadHasTarget DEF ReadRefused
    <2>2. Kept(q) /\ ReadsAgain(q, store)
      BY <1>k, <2>1, ReadFailsKept, ReadFailsAgain
    <2>3. Step(sup, q) /\ UNCHANGED cursor
      BY <1>4 DEF ReadRefused, StoreStep
    <2> HIDE DEF q
    <2>4. Fit(q, sup, cursor)
      BY <1>k, <2>1, <2>2, ReadsAgainFit
    <2>5. Fit(q, sup, cursor') /\ Heard'
      BY <1>k, <2>3, <2>4 DEF Heard, Step
    <2>6. SInv' /\ store'.snap = q.snap
      BY <1>k, <2>2, <2>3, <2>5, StepFit
    <2> QED BY <2>2, <2>6 DEF ReadsAgain, Forth
  <1> QED BY <1>1, <1>2, <1>3, <1>4 DEF ReadStep

LEMMA StoreStepFit ==
  ASSUME SInv, IInv', NEW q, Kept(q), Fit(q, sup, cursor'), StoreStep(q), Heard',
         q.snap \in {store.snap, None}
  PROVE  SInv' /\ Forth
  <1>1. sup \in Supervisors /\ Alone(sup) /\ Step(sup, q)
    BY SInvFacts DEF StoreStep
  <1>2. SInv' /\ store'.snap = q.snap
    BY <1>1, StepFit
  <1> QED BY <1>2 DEF Forth

\* Neither the daemon nor its cursors move.
LEMMA HeardStays ==
  ASSUME SInv, UNCHANGED <<ver, cursor>> PROVE Heard'
  BY DEF SInv, Heard

\* A subscription is being opened, or is there, and its timer is not.
Idles(q, s) ==
  /\ q.key = s.key /\ q.snap = s.snap /\ q.read = s.read /\ q.phase = s.phase
  /\ q.transport = s.transport /\ q.evLive = s.evLive /\ q.resync = s.resync
  /\ q.reqTimer = s.reqTimer /\ q.reqTries = s.reqTries /\ q.evTries = s.evTries
  /\ q.link = s.link \/ (s.link = "none" /\ q.link = "opening")

LEMMA IdlesFit ==
  ASSUME NEW q, NEW s, NEW u, NEW c, Fit(s, u, c), ~Over(s), Idles(q, s)
  PROVE  /\ Sound(q) /\ Aged(q) /\ Heeded(q, u)
         /\ Subscribed(q) => Fit(q, u, c)
  <1>1. (Dead(q) <=> Dead(s)) /\ (Retries(q) <=> Retries(s)) /\ (Coming(q, c) <=> Coming(s, c))
    BY DEF Idles, Dead, Retries, Coming
  <1>2. Sound(q)
    BY DEF Fit, Sound, Idles
  <1>3. Aged(q)
    BY DEF Fit, Aged, Idles
  <1>4. Heeded(q, u)
    <2>1. CASE q.link = s.link
      BY <2>1 DEF Fit, Heeded, Idles, Fresh
    <2>2. CASE s.link = "none" /\ q.link = "opening"
      <3>1. q.transport = "none"
        BY <2>2 DEF Fit, Sound, Idles
      <3> QED BY <2>2, <3>1 DEF Heeded, Fresh
    <2> QED BY <2>1, <2>2 DEF Idles
  <1>5. Current(q, u, c) /\ Untold(q, u)
    BY <1>1 DEF Fit, Current, Untold, Idles
  <1>6. Subscribed(q) => Served(q)
    BY DEF Served
  <1> QED BY <1>2, <1>3, <1>4, <1>5, <1>6 DEF Fit

LEMMA TimerStepSInv ==
  ASSUME SInv, ReadRejected \/ TimerStep, IInv' PROVE SInv' /\ Forth
  <1>k. /\ Kept(store) /\ store \in Stores /\ Fit(store, sup, cursor) /\ ~Fresh(store)
    BY SInvFacts
  <1>s. ASSUME NEW q, Kept(q), Fit(q, sup, cursor), StoreStep(q), UNCHANGED cursor,
               q.snap = store.snap
        PROVE  SInv' /\ Forth
    <2>1. Heard'
      BY <1>s, HeardStays DEF StoreStep, Step
    <2> QED BY <1>s, <2>1, StoreStepFit
  <1>1. CASE ReadRejected
    <2>1. store.read # None /\ store.key # None
      BY <1>k, <1>1, ReadHasTarget DEF ReadRejected
    <2>2. PICK fatal \in BOOLEAN : StoreStep(ReadFails(store, fatal))
      BY <1>1 DEF ReadRejected
    <2> DEFINE q == ReadFails(store, fatal)
    <2>3. Kept(q)
      BY <1>k, <2>1, ReadFailsKept
    <2>4. Stops(q, store) \/ ReadsAgain(q, store)
      <3>1. fatal = TRUE \/ fatal = FALSE
        OBVIOUS
      <3> QED BY <1>k, <3>1, ReadFailsAgain
    <2>5. StoreStep(q) /\ UNCHANGED cursor
      BY <1>1, <2>2 DEF ReadRejected
    <2> HIDE DEF q
    <2>6. Fit(q, sup, cursor)
      BY <1>k, <2>1, <2>4, StopsFit, ReadsAgainFit DEF Fit
    <2> QED BY <1>s, <2>3, <2>4, <2>5, <2>6 DEF Stops, ReadsAgain
  <1>2. CASE RequestTimer
    <2> DEFINE t == [store EXCEPT !.reqTimer = FALSE]
               q == FetchResource(t)
    <2>1. Kept(t) /\ t.key # None /\ Level(t, store)
      BY <1>k, <1>2 DEF RequestTimer, Kept, Keyed, Stores, Level
    <2>2. StoreStep(q) /\ UNCHANGED cursor
      BY <1>2 DEF RequestTimer
    <2> HIDE DEF t
    <2>3. Kept(q) /\ Quiet(q, t) /\ Held(q)
      BY <2>1, FetchResourceKept, FetchResourceAsks
    <2> HIDE DEF q
    <2>4. Level(q, store)
      BY <2>1, <2>3 DEF Quiet, Level
    <2>5. ~Dead(store)
      BY <1>2 DEF RequestTimer, Dead
    <2>6. Fit(q, sup, cursor)
      BY <1>k, <2>3, <2>4, <2>5, HeldFit
    <2> QED BY <1>s, <2>2, <2>3, <2>4, <2>6 DEF Level
  <1>3. CASE EventTimer
    <2> DEFINE t == [store EXCEPT !.evTimer = FALSE]
    <2>1. PICK opens \in BOOLEAN : StoreStep(ConnectEvents(t, opens))
      BY <1>3 DEF EventTimer
    <2> DEFINE q == ConnectEvents(t, opens)
    <2>2. StoreStep(q) /\ UNCHANGED cursor
      BY <1>3, <2>1 DEF EventTimer
    <2>3. Kept(t) /\ t.key # None /\ Idles(t, store) /\ t.link = store.link
      BY <1>k, <1>3 DEF EventTimer, Kept, Keyed, Stores, Idles
    <2>o. opens = TRUE \/ opens = FALSE
      OBVIOUS
    <2> HIDE DEF t
    <2>4. ~Over(store)
      BY <1>3 DEF EventTimer, Over
    <2>5. Sound(t) /\ Aged(t) /\ Heeded(t, sup) /\ (Subscribed(t) => Fit(t, sup, cursor))
      BY <1>k, <2>3, <2>4, IdlesFit
    <2>6. Kept(q)
      BY <2>3, ConnectEventsKept
    <2>7. CASE Subscribed(t) \/ t.evLive
      <3>1. q = t
        BY <2>o, <2>3, <2>7, ConnectEventsBegins
      <3>2. Subscribed(t)
        BY <2>5, <2>7 DEF Sound, Subscribed
      <3> HIDE DEF q
      <3> QED BY <1>s, <2>2, <2>3, <2>5, <2>6, <3>1, <3>2 DEF Idles
    <2>8. CASE ~(Subscribed(t) \/ t.evLive)
      <3>1. Begins(q, t) \/ Fails(q, t)
        BY <2>o, <2>3, <2>8, ConnectEventsBegins
      <3> HIDE DEF q
      <3>2. CASE Begins(q, t)
        <4>1. Idles(q, store) /\ Subscribed(q)
          BY <2>3, <2>8, <3>2 DEF Begins, Idles, Subscribed
        <4>2. Fit(q, sup, cursor)
          BY <1>k, <2>4, <4>1, IdlesFit
        <4> QED BY <1>s, <2>2, <2>6, <4>1, <4>2 DEF Idles
      <3>3. CASE Fails(q, t)
        <4>1. Fit(q, sup, cursor)
          BY <2>5, <3>3, FailsFit
        <4>2. q.snap = store.snap
          BY <2>3, <3>3 DEF Fails, Idles
        <4> QED BY <1>s, <2>2, <2>6, <4>1, <4>2
      <3> QED BY <3>1, <3>2, <3>3
    <2> QED BY <2>7, <2>8
  <1>4. CASE StabilityTimer
    <2> DEFINE q == StabilityPasses(store)
    <2>1. StoreStep(q) /\ UNCHANGED cursor
      BY <1>4 DEF StabilityTimer
    <2>2. Kept(q)
      BY <1>k, StabilityPassesKept
    <2>3. /\ q.key = store.key /\ q.snap = store.snap /\ q.read = store.read
          /\ q.phase = store.phase /\ q.transport = store.transport /\ q.link = store.link
          /\ q.evLive = store.evLive /\ q.resync = store.resync
          /\ q.reqTimer = store.reqTimer /\ q.reqTries = store.reqTries
          /\ q.evTimer = store.evTimer
          /\ q.evTries = store.evTries \/ store.evLive
      BY <1>k DEF StabilityPasses, Stores
    <2> HIDE DEF q
    <2>4. CASE q.evTries = store.evTries
      <3>1. Fit(q, sup, cursor)
        BY <1>k, <2>3, <2>4, SameFit DEF Quiet
      <3> QED BY <1>s, <2>1, <2>2, <2>3, <3>1
    <2>5. CASE store.evLive
      <3>1. q.link = "verified"
        BY <1>k, <2>3, <2>5 DEF Fit, Sound
      <3> DEFINE z == [q EXCEPT !.evTries = store.evTries]
      <3>2. /\ z.key = q.key /\ z.snap = q.snap /\ z.read = q.read /\ z.phase = q.phase
            /\ z.transport = q.transport /\ z.link = q.link /\ z.evLive = q.evLive
            /\ z.resync = q.resync /\ z.reqTimer = q.reqTimer /\ z.reqTries = q.reqTries
            /\ z.evTimer = q.evTimer /\ z.evTries = store.evTries
        BY <2>2 DEF Kept, Stores
      <3> HIDE DEF z
      <3>3. Fit(z, sup, cursor)
        BY <1>k, <2>3, <3>2, SameFit DEF Quiet
      <3>4. Fit(q, sup, cursor)
        BY <3>1, <3>2, <3>3 DEF Fit, Sound, Served, Subscribed, Dead, Over, Aged, Retries,
           Coming, Current, Untold, Heeded, Fresh
      <3> QED BY <1>s, <2>1, <2>2, <2>3, <3>4
    <2> QED BY <2>3, <2>4, <2>5
  <1> QED BY <1>1, <1>2, <1>3, <1>4 DEF TimerStep

LEMMA UserStepSInv ==
  ASSUME SInv, UserStep, IInv' PROVE SInv' /\ Forth
  <1>k. /\ Kept(store) /\ sup \in Supervisors /\ Alone(sup)
        /\ Fit(store, sup, cursor) /\ ~Fresh(store) /\ Heard
    BY SInvFacts
  <1>s. ASSUME NEW q, Kept(q), Fit(q, sup, cursor), StoreStep(q), UNCHANGED cursor,
               q.snap \in {store.snap, None}
        PROVE  SInv' /\ Forth
    <2>1. Heard'
      BY <1>s, HeardStays DEF StoreStep, Step
    <2> QED BY <1>s, <2>1, StoreStepFit
  <1>1. CASE Refresh
    <2>1. PICK opens \in BOOLEAN : StoreStep(RefreshCurrent(store, opens))
      BY <1>1 DEF Refresh
    <2> DEFINE q == RefreshCurrent(store, opens)
    <2>2. Kept(q) /\ Refreshes(q, store)
      BY <1>k, <1>1, RefreshCurrentKept, RefreshCurrentRefreshes DEF Refresh
    <2>3. StoreStep(q) /\ UNCHANGED cursor
      BY <1>1, <2>1 DEF Refresh
    <2> HIDE DEF q
    <2>4. Fit(q, sup, cursor)
      BY <1>k, <2>2, RefreshesFit
    <2> QED BY <1>s, <2>2, <2>3, <2>4 DEF Refreshes
  <1>2. CASE SetTarget
    <2>1. PICK k \in (Keys \cup {None}) \ {store.key}, opens \in BOOLEAN :
            StoreStep(StartTarget(store, k, opens))
      BY <1>2 DEF SetTarget
    <2> DEFINE q == StartTarget(store, k, opens)
    <2>2. Kept(q) /\ (Rests(q) \/ (Starts(q) /\ q.snap = None))
      BY <1>k, StartTargetKept, StartTargetStarts
    <2>3. StoreStep(q) /\ UNCHANGED cursor
      BY <1>2, <2>1 DEF SetTarget
    <2> HIDE DEF q
    <2>4. Fit(q, sup, cursor)
      BY <2>2, RestsFit, StartsFit
    <2> QED BY <1>s, <2>2, <2>3, <2>4 DEF Rests
  <1>3. CASE Dispose
    <2>1. Rests(store')
      BY <1>k, <1>3, DisposedRests DEF Dispose
    <2>2. Fit(store', sup', cursor')
      BY <2>1, RestsFit
    <2>3. ~Fresh(store') /\ Forth
      BY <2>1 DEF Rests, Fresh, Forth
    <2>4. sup'.st = sup.st /\ sup'.again = sup.again /\ sup'.handlers = "none"
      BY <1>k, <1>3 DEF Dispose, Supervisors
    <2>5. Alone(sup') /\ Heard' /\ UNCHANGED <<mode, ver>>
      BY <1>k, <1>3, <2>4, HeardStays DEF Dispose, Alone
    <2> QED BY <2>2, <2>3, <2>5, FitSuffices
  <1> QED BY <1>1, <1>2, <1>3 DEF UserStep

LEMMA LinkHasTarget ==
  ASSUME NEW s, Kept(s), s.link # "none" PROVE s.key \in Keys /\ s.key # None
  BY DEF Kept, Keyed, Stores

LEMMA DirectStepSInv ==
  ASSUME SInv, DirectStep, IInv' PROVE SInv' /\ Forth
  <1>k. /\ Kept(store) /\ Fit(store, sup, cursor) /\ Heard
    BY SInvFacts
  <1>v. \A k \in Keys : ver[k] \in Nat /\ cursor[k] \in Nat
    BY SInvFacts
  <1>s. ASSUME NEW q, Kept(q), Fit(q, sup, cursor), StoreStep(q), UNCHANGED cursor,
               q.snap = store.snap
        PROVE  SInv' /\ Forth
    <2>1. Heard'
      BY <1>s, HeardStays DEF StoreStep, Step
    <2> QED BY <1>s, <2>1, StoreStepFit
  <1>1. CASE DirectOpens
    <2> DEFINE q == Live(store)
    <2>1. store.link # "none" /\ store.key # None /\ mode # "supervisor"
      BY <1>k, <1>1, LinkHasTarget DEF DirectOpens
    <2>2. Kept(q) /\ Opens(q, store)
      BY <1>k, <2>1, LiveKept, LiveOpens
    <2>3. StoreStep(q) /\ UNCHANGED cursor
      BY <1>1 DEF DirectOpens
    <2> HIDE DEF q
    <2>4. Fit(q, sup, cursor)
      BY <1>k, <2>1, <2>2, OpensFit
    <2> QED BY <1>s, <2>2, <2>3, <2>4 DEF Opens
  <1>2. CASE Notice
    <2> DEFINE q == FetchResource(store)
    <2>1. store.link # "none" /\ store.key \in Keys /\ store.key # None
      BY <1>k, <1>2, LinkHasTarget DEF Notice
    <2>2. Kept(q) /\ Quiet(q, store) /\ Held(q)
      BY <1>k, <2>1, FetchResourceKept, FetchResourceAsks
    <2>3. StoreStep(q)
      BY <1>2 DEF Notice
    <2> HIDE DEF q
    <2>4. Fit(q, sup, cursor')
      <3>1. Level(q, store)
        BY <2>2 DEF Quiet, Level
      <3> QED BY <1>k, <2>1, <2>2, <3>1, HeldFit
    <2>5. Heard'
      <3>1. PICK v \in (cursor[store.key] + 1)..ver[store.key] :
              cursor' = [cursor EXCEPT ![store.key] = v]
        BY <1>2 DEF Notice
      <3>2. v <= ver[store.key]
        BY <1>v, <2>1
      <3>3. cursor \in [Keys -> Versions] /\ ver' = ver
        BY <2>3 DEF SInv, IInv, TypeOK, StoreStep, Step
      <3> QED BY <1>k, <3>1, <3>2, <3>3 DEF Heard
    <2> QED BY <2>2, <2>3, <2>4, <2>5, StoreStepFit DEF Quiet
  <1>3. CASE DirectFails
    <2>1. PICK p \in {"failed", "fatal"} : StoreStep(EventFailure(store, p))
      BY <1>3 DEF DirectFails
    <2> DEFINE q == EventFailure(store, p)
    <2>2. store.key # None
      BY <1>k, <1>3, LinkHasTarget DEF DirectFails, Subscribed
    <2>3. Kept(q)
      BY <1>k, <2>2, EventFailureKept DEF Phases
    <2>4. Fails(q, store) \/ Stops(q, store)
      BY <1>k, <2>2, EventFailureFails, EventFailureStops
    <2>5. StoreStep(q) /\ UNCHANGED cursor
      BY <1>3, <2>1 DEF DirectFails
    <2> HIDE DEF q
    <2>6. Fit(q, sup, cursor)
      BY <1>k, <2>4, FailsFit, StopsFit DEF Fit
    <2> QED BY <1>s, <2>3, <2>4, <2>5, <2>6 DEF Fails, Stops
  <1> QED BY <1>1, <1>2, <1>3 DEF DirectStep

\* The host's supervisor keeps the subscription without a socket.
LEMMA LosesFit ==
  ASSUME NEW q, NEW s, NEW u, NEW d, Aged(s), mode = "host",
         q.key = s.key, q.snap = s.snap, q.read = None, q.transport \in {"reconnecting", "stopped"},
         q.phase # "live", ~q.evLive, q.resync, q.link = "lost"
  PROVE  Fit(q, u, d)
  <1>1. Sound(q) /\ Served(q) /\ Aged(q)
    BY DEF Sound, Served, Aged
  <1>2. Current(q, u, d) /\ Untold(q, u) /\ Heeded(q, u)
    BY DEF Current, Untold, Heeded
  <1> QED BY <1>1, <1>2 DEF Fit

LEMMA MissedHeard ==
  ASSUME SInv, store.key \in Keys, ver' = ver, cursor' \in {cursor, Missed} PROVE Heard'
  <1>1. cursor \in [Keys -> Versions] /\ ver \in [Keys -> Versions]
    BY DEF SInv, IInv, TypeOK
  <1>2. \A k \in Keys : ver[k] \in Nat
    BY SInvFacts
  <1> QED BY <1>1, <1>2 DEF SInv, Heard, Missed

LEMMA HostStepSInv ==
  ASSUME SInv, HostStep, IInv' PROVE SInv' /\ Forth
  <1>k. /\ Kept(store) /\ sup \in Supervisors /\ Alone(sup)
        /\ Fit(store, sup, cursor) /\ ~Fresh(store)
    BY SInvFacts
  <1>1. CASE HostLoses
    <2>1. PICK p \in {"degraded", "reconnecting", "stopped"} :
            store' = LET s == TransportChanged(store, p)
                     IN [s EXCEPT !.link = IF p # "degraded" /\ Subscribed(s) THEN "lost" ELSE @]
      BY <1>1 DEF HostLoses
    <2> DEFINE s == TransportChanged(store, p)
    <2>2. store.link \in {"opening", "verified"} /\ store.key # None /\ mode = "host"
      BY <1>k, <1>1, LinkHasTarget DEF HostLoses
    <2>3. Kept(s)
      BY <1>k, <2>2, TransportChangedKept DEF Transports
    <2>4. IF p = "degraded" THEN Relays(s, store, p) ELSE Loses(s, store, p)
      BY <1>k, <2>2, TransportChangedRelays
    <2>5. store' = [s EXCEPT !.link = IF p # "degraded" /\ Subscribed(s) THEN "lost" ELSE @]
      BY <2>1
    <2>6. UNCHANGED <<mode, ver, cursor, sup>>
      BY <1>1 DEF HostLoses
    <2> HIDE DEF s
    <2>7. /\ store'.key = s.key /\ store'.snap = s.snap /\ store'.read = s.read
          /\ store'.phase = s.phase /\ store'.transport = s.transport
          /\ store'.evLive = s.evLive /\ store'.resync = s.resync
          /\ store'.reqTimer = s.reqTimer /\ store'.reqTries = s.reqTries
          /\ store'.evTimer = s.evTimer /\ store'.evTries = s.evTries
          /\ store'.link = IF p # "degraded" /\ s.link # "none" THEN "lost" ELSE s.link
      BY <2>3, <2>5 DEF Kept, Stores, Subscribed
    <2>8. Fit(store', sup, cursor) /\ store'.snap = store.snap
      <3>1. CASE p = "degraded"
        <4>1. Fit(s, sup, cursor)
          BY <1>k, <2>2, <2>4, <3>1, RelaysFit
        <4>2. Quiet(store', s)
          BY <2>7, <3>1 DEF Quiet
        <4> QED BY <2>4, <2>7, <3>1, <4>1, <4>2, SameFit DEF Relays
      <3>2. CASE p # "degraded"
        <4>1. Loses(s, store, p)
          BY <2>4, <3>2
        <4>2. store'.link = "lost"
          BY <2>2, <2>7, <3>2, <4>1 DEF Loses
        <4> QED BY <1>k, <2>2, <2>7, <3>2, <4>1, <4>2, LosesFit DEF Loses, Fit
      <3> QED BY <3>1, <3>2
    <2>9. Fit(store', sup', cursor') /\ ~Fresh(store') /\ Alone(sup') /\ Heard'
      BY <1>k, <2>2, <2>6, <2>8, HeardStays DEF Fresh
    <2> QED BY <2>6, <2>8, <2>9, FitSuffices DEF Forth
  <1>2. CASE HostConnects
    <2> DEFINE q == TransportChanged(store, "connected")
    <2>1. store.link # "none" /\ store.key \in Keys /\ store.key # None /\ mode = "host"
      BY <1>k, <1>2, LinkHasTarget DEF HostConnects, Subscribed
    <2>2. Kept(q) /\ Relays(q, store, "connected")
      BY <1>k, <2>1, TransportChangedKept, TransportChangedRelays DEF Transports
    <2>3. StoreStep(q) /\ cursor' = IF store.transport = "degraded" THEN Missed ELSE cursor
      BY <1>2 DEF HostConnects, Pushes
    <2> HIDE DEF q
    <2>4. Fit(q, sup, cursor')
      BY <1>k, <2>1, <2>2, <2>3, RelaysFit
    <2>5. Heard'
      BY <2>1, <2>3, MissedHeard DEF StoreStep, Step
    <2> QED BY <2>2, <2>3, <2>4, <2>5, StoreStepFit DEF Relays
  <1>3. CASE HostVerifies
    <2> DEFINE q == Live(store)
    <2>1. store.link # "none" /\ store.key \in Keys /\ store.key # None /\ mode = "host"
      BY <1>k, <1>3, LinkHasTarget DEF HostVerifies
    <2>2. Kept(q) /\ Opens(q, store)
      BY <1>k, <2>1, LiveKept, LiveOpens
    <2>3. StoreStep(q) /\ cursor' = IF store.link = "lost" THEN Missed ELSE cursor
      BY <1>3 DEF HostVerifies
    <2> HIDE DEF q
    <2>4. store.resync \/ cursor' = cursor
      BY <1>k, <2>3 DEF Fit, Sound
    <2>5. Fit(q, sup, cursor')
      BY <1>k, <2>1, <2>2, <2>4, OpensFit
    <2>6. Heard'
      BY <2>1, <2>3, MissedHeard DEF StoreStep, Step
    <2> QED BY <2>2, <2>3, <2>5, <2>6, StoreStepFit DEF Opens
  <1> QED BY <1>1, <1>2, <1>3 DEF HostStep

\* A supervisor that has no handlers of the store may become any other: the
\* store knows of its gap already.
LEMMA DeafFit ==
  ASSUME NEW s, NEW u, NEW v, NEW c, NEW d, Fit(s, u, c), ~Fresh(s), ~Listening(u, s),
         u.silent => v.silent, mode = "supervisor"
  PROVE  Fit(s, v, d)
  <1>1. s.key # None => s.resync \/ Over(s) \/ v.silent
    BY DEF Fit, Heeded, Listening
  <1>2. s.link \in {"opening", "verified"} => v.silent
    BY DEF Fit, Heeded, Listening
  <1>3. (s.key # None /\ s.link \notin {"opening", "verified"}) => s.resync \/ Over(s)
    BY DEF Fit, Heeded
  <1> QED BY <1>1, <1>2, <1>3 DEF Fit, Current, Untold, Heeded

\* The handlers may have lost their socket unheard.
LEMMA SilentFit ==
  ASSUME NEW s, NEW u, NEW v, NEW c, Fit(s, u, c), v.silent PROVE Fit(s, v, c)
  BY DEF Fit, Current, Untold, Heeded

LEMMA RefusedFit ==
  ASSUME NEW s, Kept(s), NEW u, NEW c, Fit(s, u, c), ~Fresh(s)
  PROVE  Fit(Refused(s), u, c) /\ ~Fresh(Refused(s)) /\ Refused(s).snap = s.snap
  <1> DEFINE q == Refused(s)
  <1>1. /\ Quiet(q, s)
        /\ IF Held(s) THEN q.read # None /\ q.read.st = "refused" ELSE q.read = s.read
    BY RefusedQuiet
  <1> HIDE DEF q
  <1>2. CASE Held(s)
    <2>1. ~Dead(s) /\ ~Over(s)
      BY <1>2 DEF Held, Dead, Over
    <2>2. Sound(q) /\ Served(q) /\ Aged(q)
      BY <1>1, <1>2, <2>1 DEF Quiet, Fit, Sound, Served, Subscribed, Aged
    <2>3. Current(q, u, c) /\ Untold(q, u)
      BY <1>1, <1>2 DEF Current, Coming, Untold
    <2>4. Heeded(q, u) /\ ~Fresh(q)
      BY <1>1, <2>1 DEF Quiet, Fit, Heeded, Fresh
    <2> QED BY <1>1, <2>2, <2>3, <2>4 DEF Fit, Quiet, q
  <1>3. CASE ~Held(s)
    BY <1>1, <1>3, SameFit DEF Quiet, q
  <1> QED BY <1>2, <1>3

\* Handlers that fail, or are not there to hear it, leave a store that knows its
\* gap, whatever becomes of the supervisor.
LEMMA HandlersFailFit ==
  ASSUME SInv, mode = "supervisor", NEW v, sup.silent => v.silent, NEW d
  PROVE  LET h == HandlersFail(store)
         IN Kept(h) /\ Fit(h, v, d) /\ ~Fresh(h) /\ h.snap = store.snap
  <1> DEFINE h == HandlersFail(store)
  <1>k. Kept(store) /\ Fit(store, sup, cursor) /\ ~Fresh(store)
    BY SInvFacts
  <1>1. Kept(h)
    BY <1>k, HandlersFailKept
  <1>2. IF Listening(sup, store) THEN Mutes(h, store) ELSE h = store
    BY <1>k, HandlersFailMutes
  <1> HIDE DEF h
  <1>3. CASE Listening(sup, store)
    <2>1. Mutes(h, store)
      BY <1>2, <1>3
    <2>2. Fit(h, v, d)
      BY <1>k, <2>1, MutesFit DEF Fit
    <2>3. ~Fresh(h) /\ h.snap = store.snap
      BY <2>1 DEF Mutes, Fresh
    <2> QED BY <1>1, <2>2, <2>3 DEF h
  <1>4. CASE ~Listening(sup, store)
    <2>1. h = store
      BY <1>2, <1>4
    <2>2. Fit(store, v, d)
      BY <1>k, <1>4, DeafFit
    <2> QED BY <1>1, <1>k, <2>1, <2>2 DEF h
  <1> QED BY <1>3, <1>4

LEMMA SupervisorStepSInv ==
  ASSUME SInv, SupervisorStep, IInv' PROVE SInv' /\ Forth
  <1>k. /\ Kept(store) /\ sup \in Supervisors /\ Alone(sup)
        /\ Fit(store, sup, cursor) /\ ~Fresh(store) /\ Heard
    BY SInvFacts
  <1>v. \A k \in Keys : ver[k] \in Nat /\ cursor[k] \in Nat
    BY SInvFacts
  <1>1. CASE SupervisorInstalls
    <2> DEFINE u == [sup EXCEPT !.st = "installed"]
    <2>1. u \in Supervisors /\ u.silent = sup.silent /\ u.handlers = sup.handlers
          /\ u.st = "installed"
      BY <1>k DEF Supervisors
    <2>2. Step(u, store) /\ cursor' = ver
      BY <1>1 DEF SupervisorInstalls
    <2>3. mode = "supervisor" /\ sup.st = "opening"
      BY <1>k, <1>1 DEF Alone, SupervisorInstalls
    <2> HIDE DEF u
    <2>4. Fit(store, u, cursor')
      <3>1. Current(store, u, cursor')
        BY <1>k, <2>1, <2>3 DEF Fit, Untold, Current, Coming
      <3>2. Untold(store, u) /\ Heeded(store, u)
        BY <1>k, <2>1 DEF Fit, Untold, Heeded
      <3> QED BY <1>k, <3>1, <3>2 DEF Fit
    <2>5. Alone(u)
      BY <2>3 DEF Alone
    <2>6. Heard'
      BY <1>v, <2>2 DEF Step, Heard
    <2>7. SInv' /\ store'.snap = store.snap
      BY <1>k, <2>1, <2>2, <2>4, <2>5, <2>6, StepFit
    <2> QED BY <2>7 DEF Forth
  <1>2. CASE SupervisorNotice
    <2>1. PICK k \in Keys :
            /\ cursor[k] < ver[k]
            /\ cursor' = [cursor EXCEPT ![k] = @ + 1]
            /\ StoreStep(IF Listening(sup, store) /\ k = store.key THEN FetchResource(store)
                         ELSE store)
      BY <1>2 DEF SupervisorNotice
    <2>2. cursor \in [Keys -> Versions]
      BY DEF SInv, IInv, TypeOK
    <2>3. Heard'
      <3>1. ver' = ver
        BY <2>1 DEF StoreStep, Step
      <3>2. \A j \in Keys : cursor'[j] = IF j = k THEN cursor[k] + 1 ELSE cursor[j]
        BY <2>1, <2>2
      <3>3. cursor[k] + 1 <= ver[k]
        BY <1>v, <2>1
      <3> QED BY <1>k, <3>1, <3>2, <3>3 DEF Heard
    <2>4. CASE Listening(sup, store) /\ k = store.key
      <3> DEFINE q == FetchResource(store)
      <3>1. store.link # "none" /\ store.key # None
        BY <1>k, <2>4, LinkHasTarget DEF Listening
      <3>2. Kept(q) /\ Quiet(q, store) /\ Held(q)
        BY <1>k, <3>1, FetchResourceKept, FetchResourceAsks
      <3>3. StoreStep(q)
        BY <2>1, <2>4
      <3> HIDE DEF q
      <3>4. Level(q, store)
        BY <3>2 DEF Quiet, Level
      <3>5. Fit(q, sup, cursor')
        BY <1>k, <3>1, <3>2, <3>4, HeldFit
      <3> QED BY <2>3, <3>2, <3>3, <3>5, StoreStepFit DEF Quiet
    <2>5. CASE ~(Listening(sup, store) /\ k = store.key)
      <3>1. StoreStep(store)
        BY <2>1, <2>5
      <3>2. mode = "supervisor"
        BY <1>k, <1>2 DEF Alone, SupervisorNotice
      <3>3. Fit(store, sup, cursor')
        <4>1. CASE ~Listening(sup, store)
          BY <1>k, <3>2, <4>1, DeafFit
        <4>2. CASE k # store.key
          <5>1. store.key # None => cursor'[store.key] = cursor[store.key]
            <6>1. store.key # None => store.key \in Keys
              BY <1>k DEF Kept, Stores
            <6> QED BY <2>1, <2>2, <4>2, <6>1
          <5>2. Current(store, sup, cursor')
            BY <1>k, <5>1 DEF Fit, Current, Coming
          <5> QED BY <1>k, <5>2 DEF Fit
        <4> QED BY <2>5, <4>1, <4>2
      <3> QED BY <1>k, <2>3, <3>1, <3>3, StoreStepFit
    <2> QED BY <2>4, <2>5
  <1>3. CASE SupervisorLost
    <2> DEFINE h == HandlersFail(store)
    <2>1. mode = "supervisor" /\ UNCHANGED <<mode, ver, cursor>>
      BY <1>k, <1>3 DEF Alone, SupervisorLost
    <2>2. store' = Refused(h) \/ store' = h
      BY <1>3 DEF SupervisorLost
    <2>3. sup'.silent = sup.silent
      BY <1>k, <1>3 DEF SupervisorLost, Supervisors
    <2>4. Kept(h) /\ Fit(h, sup', cursor') /\ ~Fresh(h) /\ h.snap = store.snap
      BY <2>1, <2>3, HandlersFailFit
    <2> HIDE DEF h
    <2>5. Fit(store', sup', cursor') /\ ~Fresh(store') /\ store'.snap = store.snap
      BY <2>2, <2>4, RefusedFit
    <2>6. Alone(sup') /\ Heard'
      BY <2>1, HeardStays DEF Alone
    <2> QED BY <2>1, <2>5, <2>6, FitSuffices DEF Forth
  <1>4. CASE SupervisorReplaced
    <2>1. mode = "supervisor" /\ UNCHANGED <<mode, ver, cursor, store>>
      BY <1>k, <1>4 DEF Alone, SupervisorReplaced
    <2>2. sup.st = "none" /\ sup'.st = "opening" /\ sup'.silent = sup.silent
          /\ sup'.handlers = sup.handlers
      BY <1>k, <1>4 DEF SupervisorReplaced, Supervisors
    <2>3. Fit(store, sup', cursor)
      BY <1>k, <2>2, ServedByFit
    <2>4. Fit(store', sup', cursor') /\ ~Fresh(store') /\ Alone(sup') /\ Heard'
      BY <1>k, <2>1, <2>3, HeardStays DEF Alone
    <2> QED BY <2>1, <2>4, FitSuffices DEF Forth
  <1>5. CASE SupervisorReconnects
    <2> DEFINE u == [sup EXCEPT !.handlers = "waiting", !.again = FALSE]
               q == IF store.link \in {"opening", "verified"}
                    THEN TransportChanged(store, "connecting") ELSE store
    <2>1. mode = "supervisor" /\ UNCHANGED cursor
      BY <1>k, <1>5 DEF Alone, SupervisorReconnects
    <2>2. u \in Supervisors /\ u.st = sup.st /\ u.silent = sup.silent /\ u.handlers = "waiting"
      BY <1>k DEF Supervisors
    <2>3. Step(u, q)
      BY <1>5 DEF SupervisorReconnects
    <2> HIDE DEF u
    <2>4. Fit(store, u, cursor)
      BY <1>k, <2>2, ServedByFit
    <2>5. Kept(q) /\ Fit(q, u, cursor) /\ q.snap = store.snap
      <3>1. CASE store.link \in {"opening", "verified"}
        <4> DEFINE r == TransportChanged(store, "connecting")
        <4>1. store.link # "none" /\ store.key # None
          BY <1>k, <3>1, LinkHasTarget
        <4>2. Kept(r) /\ Relays(r, store, "connecting")
          BY <1>k, <4>1, TransportChangedKept, TransportChangedRelays DEF Transports
        <4>3. q = r
          BY <3>1
        <4> HIDE DEF q, r
        <4>4. Fit(r, u, cursor)
          BY <2>1, <2>2, <2>4, <4>1, <4>2, RelaysFit
        <4> QED BY <4>2, <4>3, <4>4 DEF Relays
      <3>2. CASE store.link \notin {"opening", "verified"}
        BY <1>k, <2>4, <3>2
      <3> QED BY <3>1, <3>2
    <2> HIDE DEF q
    <2>6. Fit(q, u, cursor') /\ Alone(u) /\ Heard'
      BY <2>1, <2>3, <2>5, HeardStays DEF Step, Alone
    <2>7. SInv' /\ store'.snap = q.snap
      BY <2>2, <2>3, <2>5, <2>6, StepFit
    <2> QED BY <2>5, <2>7 DEF Forth
  <1>6. CASE ReplacementFails
    <2> DEFINE h == HandlersFail(store)
    <2>1. mode = "supervisor" /\ UNCHANGED <<mode, ver, cursor>>
      BY <1>k, <1>6 DEF Alone, ReplacementFails
    <2>2. store' = IF sup.st = "opening" THEN Refused(h) ELSE store
      BY <1>6 DEF ReplacementFails
    <2>3. /\ sup.silent => sup'.silent
          /\ (sup.handlers # "none" /\ sup.st = "installed") => sup'.silent
      <3> DEFINE b == sup.silent \/ (sup.handlers # "none" /\ sup.st = "installed")
      <3>1. sup' = [sup EXCEPT !.st = "none", !.handlers = "none", !.silent = b]
        BY <1>6 DEF ReplacementFails
      <3> HIDE DEF b
      <3>2. sup'.silent = b
        BY <1>k, <3>1 DEF Supervisors
      <3> QED BY <3>2 DEF b
    <2>4. CASE sup.st = "opening"
      <3>1. Kept(h) /\ Fit(h, sup', cursor') /\ ~Fresh(h) /\ h.snap = store.snap
        BY <2>1, <2>3, HandlersFailFit
      <3>2. store' = Refused(h)
        BY <2>2, <2>4
      <3> HIDE DEF h
      <3>3. Fit(store', sup', cursor') /\ ~Fresh(store') /\ store'.snap = store.snap
        BY <3>1, <3>2, RefusedFit
      <3>4. Alone(sup') /\ Heard'
        BY <2>1, HeardStays DEF Alone
      <3> QED BY <2>1, <3>3, <3>4, FitSuffices DEF Forth
    <2>5. CASE sup.st # "opening"
      <3>1. sup.st = "installed" /\ store' = store
        BY <1>k, <1>6, <2>2, <2>5 DEF ReplacementFails, Supervisors
      <3>2. Fit(store, sup', cursor)
        <4>1. CASE sup'.silent
          BY <1>k, <4>1, SilentFit
        <4>2. CASE ~sup'.silent
          <5>1. ~Listening(sup, store)
            BY <2>3, <3>1, <4>2 DEF Listening
          <5> QED BY <1>k, <2>1, <2>3, <5>1, DeafFit
        <4> QED BY <4>1, <4>2
      <3>3. Fit(store', sup', cursor') /\ ~Fresh(store') /\ Alone(sup') /\ Heard'
        BY <1>k, <2>1, <3>1, <3>2, HeardStays DEF Alone
      <3> QED BY <2>1, <3>1, <3>3, FitSuffices DEF Forth
    <2> QED BY <2>4, <2>5
  <1> QED BY <1>1, <1>2, <1>3, <1>4, <1>5, <1>6 DEF SupervisorStep

LEMMA ChangesSInv ==
  ASSUME SInv, Changes, IInv' PROVE SInv' /\ Forth
  <1>k. Kept(store) /\ Fit(store, sup, cursor) /\ ~Fresh(store) /\ Alone(sup) /\ Heard
    BY SInvFacts
  <1>v. \A k \in Keys : ver[k] \in Nat /\ cursor[k] \in Nat
    BY SInvFacts
  <1>1. UNCHANGED <<mode, store, cursor, sup>>
    BY DEF Changes
  <1>2. PICK k \in Keys : ver' = [ver EXCEPT ![k] = @ + 1]
    BY DEF Changes
  <1>3. \A j \in Keys : ver'[j] = IF j = k THEN ver[j] + 1 ELSE ver[j]
    BY <1>2 DEF SInv, IInv, TypeOK
  <1>4. Sound(store)' /\ Served(store)' /\ Heeded(store, sup)' /\ ~Fresh(store)' /\ Alone(sup)'
    BY <1>k, <1>1 DEF Fit, Sound, Served, Subscribed, Dead, Over, Heeded, Fresh, Alone
  <1>5. Untold(store, sup)'
    BY <1>k, <1>1 DEF Fit, Untold, Over, Dead, Retries
  <1>6. Heard'
    BY <1>k, <1>v, <1>1, <1>3 DEF Heard
  <1>7. Aged(store)'
    <2>1. ASSUME store.snap # None
          PROVE  /\ store.key \in Keys /\ store.snap.ver \in Nat
                 /\ store.snap.ver <= ver[store.key]
      BY <1>k, <2>1, StoreAssumption DEF Kept, Keyed, Stores, Snapshots, Versions, Fit, Aged
    <2>2. ASSUME store.read # None
          PROVE  store.key \in Keys /\ store.read.ver \in Nat
      BY <1>k, <2>2, ReadHasTarget, StoreAssumption DEF Reads, Versions
    <2>3. store.snap # None => store.snap.ver <= ver'[store.key]
      BY <1>3, <1>v, <2>1
    <2>4. (store.read # None /\ store.read.st = "answered") => store.read.ver <= ver'[store.key]
      <3>1. (store.read # None /\ store.read.st = "answered") => store.read.ver <= ver[store.key]
        BY <1>k DEF Fit, Aged
      <3> QED BY <1>3, <1>v, <2>2, <3>1
    <2> QED BY <1>k, <1>1, <2>3, <2>4 DEF Fit, Aged
  <1>8. Current(store, sup, cursor)'
    <2>1. CASE store.key = k
      <3>1. cursor[k] < ver'[k]
        BY <1>k, <1>v, <1>3 DEF Heard
      <3> QED BY <1>1, <2>1, <3>1 DEF Current, Coming
    <2>2. CASE store.key # k
      <3>1. store.key # None => ver'[store.key] = ver[store.key]
        BY <1>k, <1>3, <2>2 DEF Kept, Stores
      <3> QED BY <1>k, <1>1, <3>1 DEF Fit, Current, Coming, Retries, Over, Dead
    <2> QED BY <2>1, <2>2
  <1>9. Fit(store, sup, cursor)'
    BY <1>4, <1>5, <1>7, <1>8 DEF Fit
  <1> QED BY <1>1, <1>4, <1>6, <1>9 DEF SInv, Forth

LEMMA NextSInv == SInv /\ [Next]_vars => SInv' /\ Forth
  <1> SUFFICES ASSUME SInv, [Next]_vars PROVE SInv' /\ Forth
    OBVIOUS
  <1>1. IInv'
    BY NextIInv DEF SInv
  <1>2. CASE UNCHANGED vars
    <2>1. SInv'
      BY <1>1, <1>2 DEF SInv, vars, Fit, Sound, Served, Subscribed, Dead, Over, Aged, Retries,
         Coming, Current, Untold, Heeded, Fresh, Alone, Heard
    <2> QED BY <1>2, <2>1 DEF vars, Forth
  <1> QED
    BY <1>1, <1>2, ChangesSInv, ReadStepSInv, TimerStepSInv, UserStepSInv, DirectStepSInv,
       HostStepSInv, SupervisorStepSInv
       DEF Next

LEMMA ReachableSInv == Spec => []SInv
  BY InitSInv, NextSInv, PTL DEF Spec

\* StreamOrRetry: a store that follows no supervisor has a stream or a timer
\* that opens one, until its ladder is exhausted or its failure was fatal, over
\* every transport (generation-bound-store.ts:488-561).
THEOREM StreamTheorem == Spec => []StreamOrRetry
  <1>1. SInv => StreamOrRetry
    BY DEF SInv, Fit, Served, Dead, StreamOrRetry
  <1> QED BY ReachableSInv, <1>1, PTL

\* LiveIsFresh: a store that shows its data as live shows the daemon's last
\* change, or a read, a retry or a notice of it is on its way, for any number of
\* faults, changes and targets (generation-bound-store.ts:524-561, 649-738).
THEOREM FreshTheorem == Spec => []LiveIsFresh
  <1>1. SInv => LiveIsFresh
    <2> SUFFICES ASSUME SInv, store.phase = "live", store.transport # "degraded", ~sup.silent
                 PROVE  OnItsWay
      BY DEF LiveIsFresh
    <2>1. Kept(store) /\ Fit(store, sup, cursor)
      BY SInvFacts
    <2>2. store.link = "verified" /\ ~store.resync /\ store.snap # None
      BY <2>1 DEF Fit, Sound
    <2>3. store.key # None /\ ~Over(store)
      BY <2>1, <2>2, LinkHasTarget DEF Over
    <2>4. Coming(store, cursor)
      BY <2>1, <2>2, <2>3 DEF Fit, Current
    <2>5. Retries(store) => OnItsWay
      BY DEF Retries, OnItsWay, GaveUp
    <2> QED BY <2>4, <2>5 DEF Coming, OnItsWay
  <1> QED BY ReachableSInv, <1>1, PTL

\* NeverGoesBack: no snapshot is replaced by an older one of the same target,
\* whichever reads overtake or are retried (generation-bound-store.ts:562-592).
THEOREM ForwardTheorem == Spec => NeverGoesBack
  <1>1. SInv /\ [Next]_vars =>
          [(store.snap # None /\ store'.snap # None /\ store'.snap.key = store.snap.key
             /\ store'.key = store.key)
            => store'.snap.ver >= store.snap.ver]_vars
    <2> SUFFICES ASSUME SInv, [Next]_vars, store.snap # None, store'.snap # None
                 PROVE  store'.snap.ver >= store.snap.ver
      OBVIOUS
    <2>1. Forth
      BY NextSInv
    <2>2. store.snap.ver \in Nat
      BY StoreAssumption, SInvFacts DEF Stores, Snapshots, Versions
    <2> QED BY <2>1, <2>2 DEF Forth
  <1> QED BY ReachableSInv, <1>1, PTL DEF Spec, NeverGoesBack

===============================================================================
