------------------------------ MODULE ShellSession ------------------------------
(***************************************************************************)
(* The application-shell session: its store, the adapter of                *)
(* application-shell-session.ts and the transport the events come through. *)
(*                                                                         *)
(*   direct      a socket of its own per subscription, which replays what  *)
(*               its cursor missed (direct-application-shell-transport.ts) *)
(*   supervisor  the workspace event supervisor OpenTUI shares between its *)
(*               resources and replaces when its socket is lost            *)
(*   host        a supervisor outside this repository that follows the     *)
(*               contract the adapter states: it keeps the subscription    *)
(*               and reports its socket's states to it                     *)
(***************************************************************************)
EXTENDS GenerationStore

CONSTANTS
  Modes,       \* the transports to check
  MaxFaults,   \* bound: failures of reads and streams
  MaxMoves     \* bound: refreshes and changes of target

VARIABLES
  mode,     \* the transport of this session
  store,
  ver,      \* ver[k]: how often the daemon has changed the resource of k
  cursor,   \* cursor[k]: the changes of k the transport has heard of, or missed
  sup,      \* the event supervisor: its socket, who listens, its reconnecting
  faults, moves

vars == <<mode, store, ver, cursor, sup, faults, moves>>

ASSUME SessionAssumption ==
  /\ Modes \subseteq {"direct", "supervisor", "host"}
  /\ MaxFaults \in Nat /\ MaxMoves \in Nat

\* "waiting" handlers have been told "connecting", "told" ones that the
\* interest is installed; silent: told handlers have lost their socket unheard.
Supervisors == [st : {"none", "opening", "installed"},
                handlers : {"none", "waiting", "told"}, again : BOOLEAN,
                silent : BOOLEAN]

TypeOK ==
  /\ mode \in Modes
  /\ store \in Stores
  /\ ver \in [Keys -> Versions] /\ cursor \in [Keys -> Versions]
  /\ sup \in Supervisors
  /\ faults \in 0..MaxFaults /\ moves \in 0..MaxMoves

NoSupervisor == [st |-> "none", handlers |-> "none", again |-> FALSE, silent |-> FALSE]

\* The terminal runtime may have a supervisor already, or be replacing it.
Inherited ==
  IF mode # "supervisor" THEN {NoSupervisor}
  ELSE {NoSupervisor, [NoSupervisor EXCEPT !.st = "opening"], [NoSupervisor EXCEPT !.again = TRUE]}

\* The store has just opened a subscription through the supervisor.
Fresh(s) == mode = "supervisor" /\ s.link = "opening" /\ s.transport = "none"

\* fetchApplicationShell sends the read, once the supervisor's interest in the
\* shell is installed; connectApplicationShell reports "connecting" at once.
Wired(u, s) ==
  LET r == IF s.read # None /\ s.read.st = "held" /\ (mode = "supervisor" => u.st = "installed")
           THEN [s EXCEPT !.read.st = "unread"] ELSE s
  IN IF Fresh(r) THEN TransportChanged(r, "connecting") ELSE r

\* Both create the supervisor there is none of; close drops the handlers.
Wires(u, s) ==
  LET held == mode = "supervisor" /\ s.read # None /\ s.read.st = "held"
  IN [u EXCEPT !.st = IF @ = "none" /\ (held \/ Fresh(s)) THEN "opening" ELSE @,
               !.handlers = CASE Fresh(s) -> "waiting"
                              [] ~Subscribed(s) -> "none"
                              [] OTHER -> @]

Listening(u, s) == u.handlers # "none" /\ s.link \in {"opening", "verified"}

\* What the store does to the supervisor, and it to the store.  Handlers whose
\* interest is installed hear onVerifiedOpen and then "connected".
Through(u, s) ==
  LET v == Wires(u, s)
      w == Wired(u, s)
      told == v.st = "installed" /\ v.handlers = "waiting"
  IN [sup |-> IF told THEN [v EXCEPT !.handlers = "told"] ELSE v,
      store |-> IF told /\ Listening(v, w)
                THEN Wired(v, TransportChanged(Live(w), "connected")) ELSE w]

Init ==
  /\ mode \in Modes
  /\ \E k \in Keys, opens \in BOOLEAN, u \in Inherited :
       /\ opens \/ (mode = "direct" /\ MaxFaults > 0)
       /\ sup = Through(u, StartTarget(NewStore, k, opens)).sup
       /\ store = Through(u, StartTarget(NewStore, k, opens)).store
       /\ faults = IF opens THEN 0 ELSE 1
  /\ ver = [k \in Keys |-> 0] /\ cursor = ver
  /\ moves = 0

Fault == faults < MaxFaults /\ faults' = faults + 1
NoFault == UNCHANGED faults

Step(u, s) ==
  sup' = Through(u, s).sup /\ store' = Through(u, s).store /\ UNCHANGED <<mode, ver>>
StoreStep(s) == Step(sup, s)

-----------------------------------------------------------------------------
(* The daemon and the reads *)

Changes ==
  /\ \E k \in Keys : /\ ver[k] < MaxVer
                     /\ ver' = [ver EXCEPT ![k] = @ + 1]
  /\ UNCHANGED <<mode, store, cursor, sup, faults, moves>>

Reading(r) == r # None /\ r.st = "unread"

Answer(r) == [r EXCEPT !.st = "answered", !.ver = ver[r.key]]

DaemonReads ==
  /\ Reading(store.read)
  /\ store' = [store EXCEPT !.read = Answer(@)]
  /\ UNCHANGED <<mode, ver, cursor, sup, faults, moves>>

DaemonReadsLate ==
  /\ Reading(store.late)
  /\ store' = [store EXCEPT !.late = Answer(@)]
  /\ UNCHANGED <<mode, ver, cursor, sup, faults, moves>>

\* The result of a read is ignored once the store waits for another.
Settle(r) ==
  IF Accepts(store, r) THEN StoreStep(ReadSucceeds(store, r))
  ELSE store' = [store EXCEPT !.late = None] /\ UNCHANGED <<mode, ver, sup>>

ReadReturns ==
  /\ \E r \in {store.read, store.late} \ {None} : r.st = "answered" /\ Settle(r)
  /\ UNCHANGED <<cursor, faults, moves>>

\* A barrier that was refused fails the read without the daemon's doing.
ReadRefused ==
  /\ store.read # None /\ store.read.st = "refused"
  /\ StoreStep(ReadFails(store, FALSE))
  /\ UNCHANGED <<cursor, faults, moves>>

ReadRejected ==
  /\ store.read # None /\ Fault
  /\ \E fatal \in BOOLEAN : StoreStep(ReadFails(store, fatal))
  /\ UNCHANGED <<cursor, moves>>

-----------------------------------------------------------------------------
(* Timers *)

RequestTimer ==
  /\ store.reqTimer
  /\ StoreStep(FetchResource([store EXCEPT !.reqTimer = FALSE]))
  /\ UNCHANGED <<cursor, faults, moves>>

EventTimer ==
  /\ store.evTimer
  /\ \E opens \in BOOLEAN :
       /\ IF opens THEN NoFault ELSE Fault
       /\ StoreStep(ConnectEvents([store EXCEPT !.evTimer = FALSE], opens))
  /\ UNCHANGED <<cursor, moves>>

StabilityTimer ==
  /\ store.stable
  /\ StoreStep(StabilityPasses(store))
  /\ UNCHANGED <<cursor, faults, moves>>

-----------------------------------------------------------------------------
(* The user *)

Move == moves < MaxMoves /\ moves' = moves + 1 /\ ~store.disposed

Refresh ==
  /\ Move /\ store.key # None
  /\ \E opens \in BOOLEAN :
       /\ IF opens THEN NoFault ELSE mode = "direct" /\ Fault
       /\ StoreStep(RefreshCurrent(store, opens))
  /\ UNCHANGED cursor

\* OpenTUI's supervisor serves one target; its session is never retargeted.
SetTarget ==
  /\ Move /\ mode # "supervisor"
  /\ \E k \in (Keys \cup {None}) \ {store.key}, opens \in BOOLEAN :
       /\ IF opens THEN NoFault ELSE mode = "direct" /\ k # None /\ Fault
       /\ StoreStep(StartTarget(store, k, opens))
  /\ UNCHANGED cursor

Dispose ==
  /\ Move
  /\ store' = Disposed(store)
  /\ sup' = [sup EXCEPT !.handlers = "none"]
  /\ UNCHANGED <<mode, ver, cursor, faults>>

-----------------------------------------------------------------------------
(* A socket of the session's own *)

DirectOpens ==
  /\ mode = "direct" /\ store.link = "opening"
  /\ StoreStep(Live(store))
  /\ UNCHANGED <<cursor, faults, moves>>

\* A frame, or the daemon's word that frames were lost: either invalidates.
Notice ==
  /\ mode # "supervisor" /\ store.link = "verified" /\ store.transport # "degraded"
  /\ \E v \in (cursor[store.key] + 1)..ver[store.key] : cursor' = [cursor EXCEPT ![store.key] = v]
  /\ StoreStep(FetchResource(store))
  /\ UNCHANGED <<faults, moves>>

\* failCurrent: a lost socket, a bad frame, or another daemon than the target's.
DirectFails ==
  /\ mode = "direct" /\ Subscribed(store) /\ Fault
  /\ \E p \in {"failed", "fatal"} : StoreStep(EventFailure(store, p))
  /\ UNCHANGED <<cursor, moves>>

-----------------------------------------------------------------------------
(* A host's supervisor; what changes while its socket is down is missed *)

Missed == [cursor EXCEPT ![store.key] = ver[store.key]]

Pushes(p) == StoreStep(TransportChanged(store, p))

HostLoses ==
  /\ mode = "host" /\ store.link \in {"opening", "verified"} /\ Fault
  /\ \E p \in {"degraded", "reconnecting", "stopped"} :
       store' = LET s == TransportChanged(store, p)
                IN [s EXCEPT !.link = IF p # "degraded" /\ Subscribed(s) THEN "lost" ELSE @]
  /\ UNCHANGED <<mode, ver, cursor, sup, moves>>

HostConnects ==
  /\ mode = "host" /\ Subscribed(store) /\ store.transport \notin {"connected", "stopped"}
  /\ cursor' = IF store.transport = "degraded" THEN Missed ELSE cursor
  /\ Pushes("connected")
  /\ UNCHANGED <<faults, moves>>

HostVerifies ==
  /\ mode = "host" /\ store.link \in {"opening", "lost"} /\ store.transport # "stopped"
  /\ cursor' = IF store.link = "lost" THEN Missed ELSE cursor
  /\ StoreStep(Live(store))
  /\ UNCHANGED <<faults, moves>>

-----------------------------------------------------------------------------
(* The workspace event supervisor *)

\* The shell's interest is installed; earlier changes are not replayed to it.
SupervisorInstalls ==
  /\ sup.st = "opening"
  /\ Step([sup EXCEPT !.st = "installed"], store)
  /\ cursor' = ver
  /\ UNCHANGED <<faults, moves>>

SupervisorNotice ==
  /\ sup.st = "installed"
  /\ \E k \in Keys :
       /\ cursor[k] < ver[k]
       /\ cursor' = [cursor EXCEPT ![k] = @ + 1]
       /\ StoreStep(IF Listening(sup, store) /\ k = store.key THEN FetchResource(store) ELSE store)
  /\ UNCHANGED <<faults, moves>>

\* failCurrent, of handlers the store keeps because the transport is supervised.
HandlersFail(s) ==
  LET f == EventFailure(s, "failed")
  IN IF Listening(sup, s) THEN [f EXCEPT !.link = IF Subscribed(f) THEN "dead" ELSE @] ELSE s

Refused(s) == IF s.read # None /\ s.read.st = "held" THEN [s EXCEPT !.read.st = "refused"] ELSE s

\* The supervisor's socket fails: it tells its handlers of the error, refuses
\* the reads that wait for it, and is replaced.
SupervisorLost ==
  /\ sup.st # "none" /\ Fault
  /\ store' = IF sup.st = "opening" THEN Refused(HandlersFail(store)) ELSE HandlersFail(store)
  /\ sup' = [sup EXCEPT !.st = "none", !.handlers = "none", !.again = TRUE]
  /\ UNCHANGED <<mode, ver, cursor, moves>>

\* reconnect, unless a read has created the replacement already.
SupervisorReplaced ==
  /\ sup.again /\ sup.st = "none"
  /\ sup' = [sup EXCEPT !.st = "opening"]
  /\ UNCHANGED <<mode, store, ver, cursor, faults, moves>>

\* Its terminal inventory is read: it is given the handlers the transport retained.
SupervisorReconnects ==
  /\ sup.again /\ sup.st # "none"
  /\ Step([sup EXCEPT !.handlers = "waiting", !.again = FALSE],
          IF store.link \in {"opening", "verified"} THEN TransportChanged(store, "connecting")
                                                   ELSE store)
  /\ UNCHANGED <<cursor, faults, moves>>

\* It is not: the replacement is disposed, which only fails the interests that
\* are not acknowledged yet.
ReplacementFails ==
  /\ sup.again /\ sup.st # "none" /\ Fault
  /\ sup' = [sup EXCEPT !.st = "none", !.handlers = "none",
                        !.silent = @ \/ (sup.handlers # "none" /\ sup.st = "installed")]
  /\ store' = IF sup.st = "opening" THEN Refused(HandlersFail(store)) ELSE store
  /\ UNCHANGED <<mode, ver, cursor, moves>>

-----------------------------------------------------------------------------

ReadStep == DaemonReads \/ DaemonReadsLate \/ ReadReturns \/ ReadRefused
TimerStep == RequestTimer \/ EventTimer \/ StabilityTimer
UserStep == Refresh \/ SetTarget \/ Dispose
DirectStep == DirectOpens \/ Notice \/ DirectFails
HostStep == HostLoses \/ HostConnects \/ HostVerifies
SupervisorStep ==
  \/ SupervisorInstalls \/ SupervisorNotice
  \/ SupervisorLost \/ SupervisorReplaced \/ SupervisorReconnects \/ ReplacementFails

Next ==
  \/ Changes \/ ReadStep \/ ReadRejected \/ TimerStep \/ UserStep
  \/ DirectStep \/ HostStep \/ SupervisorStep

Spec == Init /\ [][Next]_vars

\* Reads, timers and sockets make progress; what may fail is bounded.
FairSpec ==
  /\ Spec
  /\ WF_vars(DaemonReads) /\ WF_vars(ReadReturns) /\ WF_vars(ReadRefused)
  /\ WF_vars(RequestTimer) /\ WF_vars(EventTimer) /\ WF_vars(StabilityTimer)
  /\ WF_vars(DirectOpens) /\ WF_vars(Notice)
  /\ WF_vars(HostConnects) /\ WF_vars(HostVerifies)
  /\ WF_vars(SupervisorInstalls) /\ WF_vars(SupervisorNotice)
  /\ WF_vars(SupervisorReplaced) /\ WF_vars(SupervisorReconnects)

-----------------------------------------------------------------------------
(* What the store promises *)

\* Nothing that was read for another target is ever shown: a result that comes
\* after the target moved on is dropped (:587-594).
ShowsItsTarget == store.snap # None => store.snap.key = store.key

\* A snapshot is never replaced by an older one of the same resource, however
\* the reads overtake each other.
NeverGoesBack ==
  [][(store.snap # None /\ store'.snap # None /\ store'.snap.key = store.snap.key
       /\ store'.key = store.key)
       => store'.snap.ver >= store.snap.ver]_vars

\* The reads have given up; a stream that is verified now shows what is
\* retained as live even so.
GaveUp == store.reqTries = MaxAttempts /\ store.read = None /\ ~store.reqTimer

\* A change that the newest read does not show yet is still on its way.
OnItsWay ==
  \/ store.reqTimer \/ GaveUp
  \/ store.read # None /\ store.read.st # "answered"
  \/ cursor[store.key] < ver[store.key]
  \/ (IF store.read = None THEN store.snap ELSE store.read).ver = ver[store.key]

\* Live means current, or about to be: an invalidation that was missed or lost
\* in a gap of the stream has been made up for by the time it is live again.
LiveIsFresh ==
  (store.phase = "live" /\ store.transport # "degraded" /\ ~sup.silent) => OnItsWay

\* A store that follows no supervisor and has a target has a stream or is about
\* to retry it, until the ladder is exhausted or the failure was fatal.
StreamOrRetry ==
  (store.key # None /\ store.transport = "none") =>
     Subscribed(store) \/ store.evTimer \/ store.evTries = MaxAttempts \/ store.phase = "fatal"

\* What a store may end in without being current: it was told to stop, its
\* ladder is exhausted, its supervisor gave up or its handlers are dead.
Ended ==
  \/ store.key = None \/ store.phase = "fatal"
  \/ GaveUp \/ (store.evTries = MaxAttempts /\ ~store.evLive)
  \/ store.transport = "stopped" \/ store.link = "dead" \/ sup.silent

\* Otherwise it is live and current again and again: no change, failure, gap
\* or refresh leaves it behind for good.
CatchesUp ==
  []<>(Ended \/ (store.phase = "live" /\ store.snap.ver = ver[store.key]))

\* The adapter's account of a supervised transport (application-shell-session.ts:
\* 387-389): the logical subscription outlives the socket, so that a verified
\* replacement makes the store live again.
VerifiedIsLive ==
  (sup.st = "installed" /\ sup.handlers = "told" /\ Subscribed(store)) => store.evLive
===============================================================================
