---------------------------- MODULE GenerationStore ----------------------------
(***************************************************************************)
(* The engine of generation-bound-store.ts: one resource of the daemon,    *)
(* pinned to a target, read over HTTP and invalidated by an event stream.  *)
(* Its operations take the store and return it, because a handler makes    *)
(* several of them; ShellSession runs them against its adapter.            *)
(*                                                                         *)
(* generation, requestId and subscriptionId only tell what is current from *)
(* what is not: the current read is "read" and one that was superseded     *)
(* stays behind as "late".  Its one adapter connects synchronously, so     *)
(* that no subscription is ever pending between two steps.                 *)
(***************************************************************************)
EXTENDS Naturals

CONSTANTS
  Keys,          \* target keys that validate
  None,
  MaxVer,        \* bound: changes of the resource
  MaxAttempts    \* retry.maximumAttempts of both ladders

ASSUME StoreAssumption == MaxVer \in Nat /\ MaxAttempts \in Nat /\ None \notin Keys

Versions == 0..MaxVer
\* A read is "held" until the transport sends it, "unread" until the daemon
\* has "answered" with the version it has then, or "refused" by the transport.
Reads == [key : Keys, st : {"held", "unread", "answered", "refused"}, ver : Versions]
Snapshots == [key : Keys, ver : Versions]

\* The null value is none of the data.
ASSUME NoneAssumption == None \notin Reads \cup Snapshots

Phases == {"loading", "live", "stale", "failed", "exhausted", "fatal"}
Transports == {"none", "connecting", "connected", "degraded", "reconnecting", "stopped"}
\* The subscription the adapter holds, as it sees it: "lost" and "dead" are
\* kept by the store, without a socket and without handlers respectively.
Links == {"none", "opening", "verified", "lost", "dead"}

Stores == [key : Keys \cup {None}, disposed : BOOLEAN, snap : Snapshots \cup {None},
           phase : Phases, transport : Transports,
           read : Reads \cup {None}, late : Reads \cup {None},
           reqTimer : BOOLEAN, reqTries : 0..MaxAttempts,
           link : Links, evLive : BOOLEAN, resync : BOOLEAN,
           evTimer : BOOLEAN, evTries : 0..MaxAttempts, stable : BOOLEAN]

\* The adapter could close or reopen this subscription.
Subscribed(s) == s.link # "none"

RetireRequest(s) ==
  IF s.read = None THEN s
  ELSE [s EXCEPT !.read = None, !.late = IF s.read.st = "held" THEN @ ELSE s.read]

RetireSubscription(s) ==
  [s EXCEPT !.evLive = FALSE, !.transport = "none", !.stable = FALSE, !.link = "none"]

\* fetchResource: the read before it no longer counts.
FetchResource(s) == [RetireRequest(s) EXCEPT !.read = [key |-> s.key, st |-> "held", ver |-> 0]]

\* Mutant of Accepts: a result for the target counts, whichever read it is of.
AcceptsAnyOfTarget(s, r) == r.key = s.key
\* Mutant of Accepts: every result counts.
AcceptsAny(s, r) == TRUE

\* The result of a read counts if the store still waits for that read.
Accepts(s, r) == r = s.read

ScheduleRequestRetry(s) ==
  IF s.reqTimer \/ s.reqTries >= MaxAttempts THEN s
  ELSE [s EXCEPT !.reqTimer = TRUE, !.reqTries = @ + 1]

RetryEvents(s) == [s EXCEPT !.evTimer = TRUE, !.evTries = @ + 1]

\* Mutant of ScheduleEventRetry: the ladder has one rung.
ScheduleEventRetryOnce(s) ==
  IF s.evTimer \/ Subscribed(s) \/ s.transport # "none" \/ s.evTries > 0 THEN s
  ELSE RetryEvents(s)
\* Mutant of ScheduleEventRetry: the ladder has no top.
ScheduleEventRetryForever(s) ==
  IF s.evTimer \/ Subscribed(s) \/ s.transport # "none" THEN s ELSE RetryEvents(s)

\* A supervised stream is its supervisor's to recover; otherwise the ladder
\* runs until it is exhausted, and says so.
ScheduleEventRetry(s) ==
  CASE s.evTimer \/ Subscribed(s) \/ s.transport # "none" -> s
    [] s.evTries >= MaxAttempts -> [s EXCEPT !.phase = "exhausted", !.evLive = FALSE]
    [] OTHER -> RetryEvents(s)

Poisoned(s) ==
  RetireSubscription([s EXCEPT !.reqTimer = FALSE, !.evTimer = FALSE, !.phase = "fatal"])

\* handleEventFailure, of a failure published as phase p.  A read in flight
\* ends with the stream.
EventFailure(s, p) ==
  LET r == [RetireRequest(s) EXCEPT !.evLive = FALSE, !.resync = TRUE, !.phase = p]
  IN CASE p = "fatal" -> Poisoned([r EXCEPT !.resync = s.resync])
       [] p # "fatal" /\ s.transport # "none" -> r
       [] OTHER -> ScheduleEventRetry(RetireSubscription(r))

ReadSucceeds(s, r) ==
  [s EXCEPT !.read = None, !.reqTimer = FALSE, !.reqTries = 0, !.snap = [key |-> r.key, ver |-> r.ver],
            !.phase = IF s.evLive THEN "live" ELSE "stale"]

\* Mutant of ReadFails: a read that failed once is not tried again.
ReadFailsForGood(s, fatal) ==
  IF fatal THEN Poisoned([s EXCEPT !.read = None])
  ELSE [s EXCEPT !.read = None, !.phase = "failed"]

ReadFails(s, fatal) ==
  LET r == [s EXCEPT !.read = None]
  IN CASE fatal -> Poisoned(r)
       [] ~fatal /\ s.reqTries >= MaxAttempts -> [r EXCEPT !.phase = "exhausted"]
       [] OTHER -> ScheduleRequestRetry([r EXCEPT !.phase = "failed"])

\* connectEvents; the adapter may fail to open the stream.
ConnectEvents(s, opens) ==
  CASE Subscribed(s) \/ s.evLive -> s
    [] ~Subscribed(s) /\ ~s.evLive /\ opens -> [s EXCEPT !.link = "opening"]
    [] OTHER -> EventFailure(s, "failed")

\* What is retained is live at once.  The ladder is only forgiven after the
\* stability window.
Verified(s) ==
  [s EXCEPT !.link = "verified", !.evLive = TRUE, !.evTimer = FALSE,
            !.stable = s.evTries > 0,
            !.phase = IF s.snap = None THEN @ ELSE "live"]

\* Mutant of Live: a stream that comes back does not read what it missed.
LiveForgets(s) == Verified(s)

\* handlers.live: a gap is read again.
Live(s) ==
  IF s.resync THEN FetchResource([Verified(s) EXCEPT !.resync = FALSE]) ELSE Verified(s)

\* handlers.transportChanged: the supervisor's word on its socket.
TransportChanged(s, p) ==
  LET t == [s EXCEPT !.transport = p]
  IN CASE p = "connected" /\ s.transport \in {"degraded", "reconnecting", "stopped"} ->
            IF s.evLive THEN FetchResource([t EXCEPT !.resync = FALSE])
                        ELSE [t EXCEPT !.resync = TRUE]
       [] p = "reconnecting" -> EventFailure(t, "failed")
       [] p = "stopped" -> EventFailure(t, "exhausted")
       [] OTHER -> t

StabilityPasses(s) == [s EXCEPT !.stable = FALSE, !.evTries = IF s.evLive THEN 0 ELSE @]

\* refreshCurrent: a stream that is neither live nor supervised is reopened.
RefreshCurrent(s, opens) ==
  LET f == FetchResource([s EXCEPT !.reqTimer = FALSE, !.reqTries = 0])
  IN IF s.evLive \/ s.transport # "none" THEN f
     ELSE ConnectEvents(RetireSubscription([f EXCEPT !.evTimer = FALSE, !.evTries = 0]), opens)

\* What startTarget and dispose retire.
Retired(s) ==
  [RetireSubscription(RetireRequest(s)) EXCEPT
     !.key = None, !.snap = None, !.resync = FALSE,
     !.reqTimer = FALSE, !.reqTries = 0, !.evTimer = FALSE, !.evTries = 0]

\* startTarget, of another target than the current one; None does not validate.
StartTarget(s, k, opens) ==
  IF k = None THEN [Retired(s) EXCEPT !.phase = "fatal"]
  ELSE ConnectEvents(FetchResource([Retired(s) EXCEPT !.key = k, !.phase = "loading"]), opens)

\* The state is projected as disposed: the phase no longer shows.
Disposed(s) == [Retired(s) EXCEPT !.disposed = TRUE, !.phase = "loading"]

NewStore == [key |-> None, disposed |-> FALSE, snap |-> None, phase |-> "loading",
             transport |-> "none", read |-> None, late |-> None,
             reqTimer |-> FALSE, reqTries |-> 0, link |-> "none", evLive |-> FALSE,
             resync |-> FALSE, evTimer |-> FALSE, evTries |-> 0, stable |-> FALSE]
===============================================================================
