--------------------------- MODULE DaemonOwnership ---------------------------
(***************************************************************************)
(* canonical-daemon.ts and the part of daemon-embed.ts that starts and     *)
(* stops a daemon: one claim, a directory that contenders rename into      *)
(* place, and one record, the file that tells clients which daemon serves. *)
(* Processes with different intents race each other; an action is one      *)
(* system call of one process, and a process may die between any two.      *)
(*                                                                         *)
(* A record that is read is judged in the same step: whether its writer    *)
(* lives only ever changes for the worse.                                  *)
(***************************************************************************)
EXTENDS Naturals, FiniteSets

CONSTANTS
  Procs,      \* processes, each of which runs one command
  Former,     \* a process of an earlier generation, dead
  None,       \* no file at a path
  Crews       \* what may be started together: functions from Procs to
              \* AllIntents, or to None for a process that is not started

VARIABLES
  claim,      \* the process whose claim is at the claim's path, or None
  record,     \* the record at its path, or None
  pc, intent, \* where each process is, and what it was started for
  seen,       \* seen[p]: the claim p means to retire, its own when it releases
  before,     \* before[p]: the record p has observed
  moved,      \* moved[p]: the claim p has renamed out of its path
  captured,   \* captured[p]: the record p has renamed out of its path
  attempt,    \* attempt[p]: how often p has failed to install its claim
  alive       \* alive[p]: process.kill(p, 0)

vars == <<claim, record, pc, intent, seen, before, moved, captured, attempt, alive>>

ASSUME ProcsAssumption == IsFiniteSet(Procs)

MaxAttempts == 3

AllIntents == {"ordinary", "takeover", "supervised", "reserve", "release"}
ASSUME CrewsAssumption == Crews \subseteq [Procs -> AllIntents \cup {None}]

Writers == Procs \cup {Former}
ASSUME NoneAssumption == Former \notin Procs /\ None \notin Writers
                           /\ \A w \in Writers, k \in {"ordinary", "supervised", "reserved"} :
                                None # [kind |-> k, by |-> w]

\* There is one supervision id: records that are not ordinary are bound to it.
Records == [kind : {"ordinary", "supervised", "reserved"}, by : Writers]

Places == {"new", "asking", "awaiting", "admitting", "claiming", "contending", "retiring", "checking",
           "restoring", "readmitting", "quiescing", "inspecting", "binding", "asserting",
           "comparing", "recomparing", "publishing", "confirming", "serving", "stopping",
           "clearing", "capturing", "matching", "relinking", "ended"}

TypeOK ==
  /\ claim \in Writers \cup {None}
  /\ record \in Records \cup {None}
  /\ pc \in [Procs -> Places]
  /\ intent \in [Procs -> AllIntents \cup {None}]
  /\ seen \in [Procs -> Writers \cup {None}]
  /\ before \in [Procs -> Records \cup {None}]
  /\ moved \in [Procs -> Writers \cup {None}]
  /\ captured \in [Procs -> Records \cup {None}]
  /\ attempt \in [Procs -> 0..MaxAttempts]
  /\ alive \in [Writers -> BOOLEAN]

Init ==
  /\ claim \in {None, Former}
  /\ record \in {None} \cup [kind : {"ordinary", "supervised", "reserved"}, by : {Former}]
  /\ pc = [p \in Procs |-> "new"]
  /\ intent \in Crews
  /\ seen = [p \in Procs |-> None]
  /\ before = [p \in Procs |-> None]
  /\ moved = [p \in Procs |-> None]
  /\ captured = [p \in Procs |-> None]
  /\ attempt = [p \in Procs |-> 0]
  /\ alive = [w \in Writers |-> w \in Procs /\ intent[w] # None]

-----------------------------------------------------------------------------
(* Helpers *)

At(p, place) == alive[p] /\ pc[p] = place
Goto(p, place) == pc' = [pc EXCEPT ![p] = place]
\* A step of p that changes nothing but its place.
Reads(p, place) ==
  Goto(p, place) /\ UNCHANGED <<claim, record, intent, seen, before, moved, captured, attempt, alive>>

\* releaseCanonicalDaemonClaim: p retires its own claim.
Release(p) ==
  /\ seen' = [seen EXCEPT ![p] = p] /\ Goto(p, "retiring")
  /\ UNCHANGED <<claim, record, intent, before, moved, captured, attempt, alive>>

Bound(r) == r # None /\ r.kind # "ordinary"                \* supervisionBinding
Reserved(r) == r # None /\ r.kind = "reserved"
Daemon(r) == r # None /\ r.kind # "reserved"              \* status "valid"
Dead(r) == Daemon(r) /\ ~alive[r.by]

\* admitsClaim.
Admits(p, r) ==
  CASE intent[p] \in {"ordinary", "takeover"} -> ~Bound(r)
    [] intent[p] = "reserve" -> r = None \/ Reserved(r) \/ (~Bound(r) /\ Dead(r))
    [] OTHER -> Bound(r) /\ (Reserved(r) \/ Dead(r))

-----------------------------------------------------------------------------
(* tryAcquireCanonicalDaemonClaim *)

Start(p) ==
  /\ At(p, "new")
  /\ IF intent[p] = "takeover" /\ Daemon(record) /\ alive[record.by]
       THEN /\ before' = [before EXCEPT ![p] = record] /\ Goto(p, "asking")
            /\ UNCHANGED <<claim, record, intent, seen, moved, captured, attempt, alive>>
       ELSE Reads(p, "admitting")

Admit(p) ==
  /\ At(p, "admitting")
  /\ Reads(p, IF Admits(p, record) THEN "claiming" ELSE "ended")

\* rename(candidate, path) replaces nothing: a claim is never empty.
Claim(p) ==
  /\ At(p, "claiming")
  /\ IF claim = None
       THEN /\ claim' = p /\ Goto(p, "readmitting")
            /\ UNCHANGED <<record, intent, seen, before, moved, captured, attempt, alive>>
       ELSE Reads(p, "contending")

Readmit(p) ==
  /\ At(p, "readmitting")
  /\ IF ~Admits(p, record) THEN Release(p)
     ELSE Reads(p, CASE intent[p] = "takeover" /\ before[p] # None -> "quiescing"
                     [] intent[p] \in {"reserve", "release"} -> "comparing"
                     [] OTHER -> "inspecting")

\* A slip: one attempt too many.
TryOnceMore(p) ==
  /\ attempt' = [attempt EXCEPT ![p] = @ + 1]
  /\ Goto(p, IF attempt[p] + 1 <= MaxAttempts THEN "claiming" ELSE "ended")

TryAgain(p) ==
  /\ attempt' = [attempt EXCEPT ![p] = @ + 1]
  /\ Goto(p, IF attempt[p] + 1 < MaxAttempts THEN "claiming" ELSE "ended")

\* The claim in the way: busy while its owner lives.  A takeover polls then.
Contend(p) ==
  /\ At(p, "contending")
  /\ \/ /\ claim = None /\ TryAgain(p)
        /\ UNCHANGED <<claim, record, intent, seen, before, moved, captured, alive>>
     \/ /\ claim # None /\ alive[claim]
        /\ IF intent[p] = "takeover" /\ before[p] # None
             THEN /\ Goto(p, "awaiting") /\ attempt' = [attempt EXCEPT ![p] = 0]
                  /\ UNCHANGED <<claim, record, intent, seen, before, moved, captured, alive>>
             ELSE Reads(p, "ended")
     \/ /\ claim # None /\ ~alive[claim]
        /\ seen' = [seen EXCEPT ![p] = claim] /\ Goto(p, "retiring")
        /\ UNCHANGED <<claim, record, intent, before, moved, captured, attempt, alive>>

\* A slip: the claim is removed where it is, without looking at what it is.
RetireInPlace(p) ==
  /\ At(p, "retiring") /\ claim' = None
  /\ IF seen[p] = p THEN Goto(p, "ended") /\ UNCHANGED attempt ELSE TryAgain(p)
  /\ UNCHANGED <<record, intent, seen, before, moved, captured, alive>>

\* retireCanonicalClaimIfMatches: rename out of the way, look, remove or put back.
Retired(p) == IF seen[p] = p THEN Goto(p, "ended") /\ UNCHANGED attempt ELSE TryAgain(p)

Retire(p) ==
  /\ At(p, "retiring")
  /\ IF claim = None THEN Retired(p) /\ UNCHANGED <<claim, moved>>
     ELSE /\ moved' = [moved EXCEPT ![p] = claim] /\ claim' = None
          /\ Goto(p, "checking") /\ UNCHANGED attempt
  /\ UNCHANGED <<record, intent, seen, before, captured, alive>>

CheckMoved(p) ==
  /\ At(p, "checking")
  /\ IF moved[p] = seen[p]
       THEN Retired(p) /\ moved' = [moved EXCEPT ![p] = None]
       ELSE Goto(p, "restoring") /\ UNCHANGED <<moved, attempt>>
  /\ UNCHANGED <<claim, record, intent, seen, before, captured, alive>>

\* The rename back fails when another claim is there: the moved one stays
\* where it is, and its owner is not told.
Restore(p) ==
  /\ At(p, "restoring")
  /\ claim' = (IF claim = None THEN moved[p] ELSE claim)
  /\ moved' = [moved EXCEPT ![p] = None]
  /\ Retired(p)
  /\ UNCHANGED <<record, intent, seen, before, captured, alive>>

-----------------------------------------------------------------------------
(* Clearing a record: clearCanonicalDaemonInfoIfUnchanged, -IfOwned, and the
   end of a supervisor's reservation *)

\* captureCanonicalDaemonInfo: only under a claim that is still held.
Clear(p) ==
  /\ At(p, "clearing")
  /\ IF claim = p THEN Reads(p, "capturing") ELSE Release(p)

Capture(p) ==
  /\ At(p, "capturing")
  /\ IF record = None THEN Release(p)
     ELSE /\ captured' = [captured EXCEPT ![p] = record] /\ record' = None
          /\ Goto(p, "matching")
          /\ UNCHANGED <<claim, intent, seen, before, moved, attempt, alive>>

\* A slip: whatever was captured is removed.
MatchAnything(p) ==
  /\ At(p, "matching")
  /\ captured' = [captured EXCEPT ![p] = None]
  /\ IF before[p] # [kind |-> "ordinary", by |-> p] /\ intent[p] # "release"
       THEN Goto(p, "binding") /\ UNCHANGED seen
       ELSE seen' = [seen EXCEPT ![p] = p] /\ Goto(p, "retiring")
  /\ UNCHANGED <<claim, record, intent, before, moved, attempt, alive>>

\* What was captured is removed only if it is what was observed.  Starters go
\* on, those that stop or release a reservation release their claim.
Match(p) ==
  /\ At(p, "matching")
  /\ IF captured[p] = before[p]
       THEN /\ captured' = [captured EXCEPT ![p] = None]
            /\ IF before[p].by # p /\ intent[p] # "release"
                 THEN Goto(p, "binding") /\ UNCHANGED seen
                 ELSE seen' = [seen EXCEPT ![p] = p] /\ Goto(p, "retiring")
            /\ UNCHANGED <<claim, record, intent, before, moved, attempt, alive>>
       ELSE Reads(p, "relinking")

\* restoreCapturedFile: link(2) does not replace a record published meanwhile.
Relink(p) ==
  /\ At(p, "relinking")
  /\ record' = (IF record = None THEN captured[p] ELSE record)
  /\ captured' = [captured EXCEPT ![p] = None]
  /\ seen' = [seen EXCEPT ![p] = p] /\ Goto(p, "retiring")
  /\ UNCHANGED <<claim, intent, before, moved, attempt, alive>>

-----------------------------------------------------------------------------
(* A daemon's start: inspection under the claim, binding, publication *)

Inspect(p) ==
  /\ At(p, "inspecting")
  /\ before' = [before EXCEPT ![p] = record]
  /\ CASE record = None \/ Reserved(record) -> Goto(p, "binding") /\ UNCHANGED seen
       [] Dead(record) ->
            Goto(p, IF Bound(record) THEN "binding" ELSE "clearing") /\ UNCHANGED seen
       [] OTHER -> seen' = [seen EXCEPT ![p] = p] /\ Goto(p, "retiring")
  /\ UNCHANGED <<claim, record, intent, moved, captured, attempt, alive>>

\* The server listens, or could not.
Bind(p) ==
  /\ At(p, "binding")
  /\ Reads(p, "asserting") \/ Release(p)

AssertHeld(p) ==
  /\ At(p, "asserting")
  /\ IF claim = p THEN Reads(p, IF intent[p] = "reserve" THEN "recomparing" ELSE "comparing")
     ELSE Release(p)

Compare(p) ==
  /\ At(p, "comparing")
  /\ before' = [before EXCEPT ![p] = record]
  /\ IF ~Admits(p, record) \/ (intent[p] = "reserve" /\ Reserved(record))
       THEN seen' = [seen EXCEPT ![p] = p] /\ Goto(p, "retiring")
       ELSE /\ Goto(p, CASE intent[p] = "release" -> "clearing"
                         [] intent[p] = "reserve" -> "asserting"
                         [] intent[p] = "supervised" -> "recomparing"
                         [] OTHER -> "publishing")
            /\ UNCHANGED seen
  /\ UNCHANGED <<claim, record, intent, moved, captured, attempt, alive>>

Recompare(p) ==
  /\ At(p, "recomparing")
  /\ IF record = before[p] /\ Admits(p, record) THEN Reads(p, "publishing") ELSE Release(p)

Publication(p) ==
  [by |-> p, kind |-> CASE intent[p] = "supervised" -> "supervised"
                        [] intent[p] = "reserve" -> "reserved"
                        [] OTHER -> "ordinary"]

\* Where nothing was, a record is linked and replaces nothing; what was
\* observed is replaced by a rename.
Replaces(p) == intent[p] = "supervised" \/ (intent[p] = "reserve" /\ before[p] # None)

\* A slip: the record is renamed into place.
PublishOver(p) ==
  /\ At(p, "publishing")
  /\ record' = Publication(p) /\ Goto(p, "confirming")
  /\ UNCHANGED <<claim, intent, seen, before, moved, captured, attempt, alive>>

Publish(p) ==
  /\ At(p, "publishing")
  /\ IF record # None /\ ~Replaces(p) THEN Release(p)
     ELSE /\ record' = Publication(p)
          /\ IF intent[p] = "reserve"
               THEN seen' = [seen EXCEPT ![p] = p] /\ Goto(p, "retiring")
               ELSE Goto(p, "confirming") /\ UNCHANGED seen
          /\ UNCHANGED <<claim, intent, before, moved, captured, attempt, alive>>

\* The published record is read back before the daemon is said to have started.
Confirm(p) ==
  /\ At(p, "confirming")
  /\ IF record = Publication(p) THEN Reads(p, "serving") ELSE Release(p)

-----------------------------------------------------------------------------
(* A daemon's end, and takeovers *)

Stop(p) ==
  /\ At(p, "serving")
  /\ before' = [before EXCEPT ![p] = Publication(p)] /\ Goto(p, "stopping")
  /\ UNCHANGED <<claim, record, intent, seen, moved, captured, attempt, alive>>

\* A slip: a supervised daemon clears its record too.
StoppedClear(p) == At(p, "stopping") /\ Reads(p, "clearing")

\* clearCanonicalDaemonInfoIfOwned, whose record a supervisor keeps.
Stopped(p) ==
  /\ At(p, "stopping")
  /\ IF Bound(record) THEN Release(p) ELSE Reads(p, "clearing")

\* requestValidatedDaemonShutdown: the daemon that was there is asked to stop,
\* provided it still serves under its record and no supervisor owns it.
Ask(p) ==
  /\ At(p, "asking")
  /\ \/ /\ record = before[p] /\ ~Bound(record) /\ record.by \in Procs
        /\ At(record.by, "serving")
        /\ before' = [before EXCEPT ![record.by] = record]
        /\ pc' = [pc EXCEPT ![p] = "awaiting", ![record.by] = "stopping"]
        /\ UNCHANGED <<claim, record, intent, seen, moved, captured, attempt, alive>>
     \/ Reads(p, "ended")                                    \* refused or not answered

\* A daemon other than the one that was asked to stop has taken its place.
Superseded(p) == Daemon(record) /\ record # before[p]

\* acquireCanonicalDaemonClaimAfterTakeover: polls for the claim.
Await(p) ==
  /\ At(p, "awaiting")
  /\ Reads(p, IF Superseded(p) THEN "ended" ELSE "admitting") \/ Reads(p, "ended")

\* waitForTakeoverQuiescence, under the claim, until the daemon's process has
\* ended or its record is gone, or the deadline.
Quiesce(p) ==
  /\ At(p, "quiescing")
  /\ \/ ~Superseded(p) /\ (record = None \/ Dead(record)) /\ Reads(p, "inspecting")
     \/ Release(p)

Die(p) ==
  /\ alive[p] /\ alive' = [alive EXCEPT ![p] = FALSE]
  /\ UNCHANGED <<claim, record, pc, intent, seen, before, moved, captured, attempt>>

\* What a process that was started goes on to do by itself.
Run(p) ==
  \/ Start(p) \/ Admit(p) \/ Claim(p) \/ Readmit(p) \/ Contend(p)
  \/ Retire(p) \/ CheckMoved(p) \/ Restore(p)
  \/ Clear(p) \/ Capture(p) \/ Match(p) \/ Relink(p)
  \/ Inspect(p) \/ Bind(p) \/ AssertHeld(p) \/ Compare(p) \/ Recompare(p)
  \/ Publish(p) \/ Confirm(p) \/ Stopped(p) \/ Ask(p) \/ Await(p) \/ Quiesce(p)

Next == \E p \in Procs : Run(p) \/ Stop(p) \/ Die(p)

Spec == Init /\ [][Next]_vars

-----------------------------------------------------------------------------
(* Properties *)

Running(p, places) == alive[p] /\ pc[p] \in places

\* A process between its inspection of the record under the claim and the end
\* of its publication, or of its use of the record.
Owners == {p \in Procs : Running(p, {"binding", "asserting", "comparing", "recomparing",
             "publishing", "confirming", "serving", "stopping", "capturing", "matching"})}

\* "The winner holds it until daemon shutdown; contenders cannot pass
\* inspection, bind, or publication concurrently."
OneOwner == Cardinality(Owners) <= 1

\* So it is when no third process finds the path empty while a claim that was
\* moved aside by mistake is being put back.
OneOwnerOfTwo == Cardinality({p \in Procs : intent[p] # None}) <= 2 => OneOwner

\* At most one daemon has published itself and found its own record in place.
OneServer == Cardinality({p \in Procs : Running(p, {"serving"})}) <= 1

\* A serving daemon can be found: its record is in place, or in the hands of a
\* process that moved it aside and has not put it back.
ServerIsRecorded ==
  \A p \in Procs : Running(p, {"serving"}) =>
    \/ record = Publication(p)
    \/ \E q \in Procs : captured[q] = Publication(p)

\* What a supervisor has reserved stays so until the supervisor's own release
\* moves the record away: no daemon starts, stops or dies a binding away.
BindingsHold ==
  [][Bound(record) /\ ~Bound(record') =>
       \E p \in Procs : intent[p] = "release" /\ captured'[p] = record]_vars

=============================================================================
