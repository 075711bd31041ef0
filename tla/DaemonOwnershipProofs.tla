------------------------ MODULE DaemonOwnershipProofs ------------------------
(* Type correctness of DaemonOwnership for any number of processes and any   *)
(* commands; and, when no more than two of the processes were started, that  *)
(* one of them at most holds the claim, owns the record and serves.          *)
EXTENDS DaemonOwnership, FiniteSetTheorems, TLAPS

\* A process that has not ended has attempts left: that is what keeps the
\* counter of attempts within its bound.
AttemptsLeft == \A p \in Procs : pc[p] # "ended" => attempt[p] < MaxAttempts
IInv == TypeOK /\ AttemptsLeft

LEMMA InitIInv == Init => IInv
  <1> SUFFICES ASSUME Init PROVE IInv
    OBVIOUS
  <1>1. intent \in [Procs -> AllIntents \cup {None}]
    BY CrewsAssumption DEF Init
  <1>2. record \in Records \cup {None}
    BY DEF Init, Records, Writers
  <1> QED
    BY <1>1, <1>2 DEF Init, IInv, TypeOK, AttemptsLeft, Writers, Places, MaxAttempts

\* A record a process publishes.
LEMMA PublicationType == \A p \in Procs : Publication(p) \in Records
  BY DEF Publication, Records, Writers

\* A step that only reads, and the release of a claim.
LEMMA ReadsType ==
  ASSUME NEW p \in Procs, NEW place \in Places, IInv, Reads(p, place),
         place = "ended" \/ attempt[p] < MaxAttempts
  PROVE  IInv'
  BY DEF IInv, TypeOK, AttemptsLeft, Reads, Goto

LEMMA ReleaseType ==
  ASSUME NEW p \in Procs, IInv, Release(p), attempt[p] < MaxAttempts
  PROVE  IInv'
  BY DEF IInv, TypeOK, AttemptsLeft, Release, Goto, Places, Writers

\* A failed attempt, whatever else the step does to well-typed state.
LEMMA TryAgainType ==
  ASSUME NEW p \in Procs, IInv, TryAgain(p), attempt[p] < MaxAttempts
  PROVE  /\ pc' \in [Procs -> Places]
         /\ attempt' \in [Procs -> 0..MaxAttempts]
         /\ AttemptsLeft'
  BY DEF IInv, TypeOK, AttemptsLeft, TryAgain, Goto, Places, MaxAttempts

LEMMA RetiredType ==
  ASSUME NEW p \in Procs, IInv, Retired(p), attempt[p] < MaxAttempts
  PROVE  /\ pc' \in [Procs -> Places]
         /\ attempt' \in [Procs -> 0..MaxAttempts]
         /\ AttemptsLeft'
  <1>1. CASE seen[p] = p
    BY <1>1 DEF Retired, IInv, TypeOK, AttemptsLeft, Goto, Places
  <1>2. CASE seen[p] # p
    BY <1>2, TryAgainType DEF Retired
  <1> QED BY <1>1, <1>2

LEMMA NextIInv == IInv /\ [Next]_vars => IInv'
  <1> SUFFICES ASSUME IInv, [Next]_vars PROVE IInv'
    OBVIOUS
  <1>u. CASE UNCHANGED vars
    BY <1>u DEF vars, IInv, TypeOK, AttemptsLeft
  <1>n. CASE Next
    <2> PICK p \in Procs : Run(p) \/ Stop(p) \/ Die(p)
      BY <1>n DEF Next
    <2>a. \A place \in Places : At(p, place) /\ place # "ended" => attempt[p] < MaxAttempts
      BY DEF At, IInv, AttemptsLeft
    <2> USE DEF Places
    <2>1. CASE Start(p)
      <3>1. attempt[p] < MaxAttempts
        BY <2>1, <2>a DEF Start
      <3>2. CASE intent[p] = "takeover" /\ Daemon(record) /\ alive[record.by]
        BY <2>1, <3>1, <3>2 DEF Start, Goto, IInv, TypeOK, AttemptsLeft
      <3>3. CASE ~(intent[p] = "takeover" /\ Daemon(record) /\ alive[record.by])
        BY <2>1, <3>1, <3>3, ReadsType DEF Start
      <3> QED BY <3>2, <3>3
    <2>2. CASE Admit(p)
      BY <2>2, <2>a, ReadsType DEF Admit
    <2>3. CASE Claim(p)
      <3>1. attempt[p] < MaxAttempts
        BY <2>3, <2>a DEF Claim
      <3>2. CASE claim = None
        BY <2>3, <3>1, <3>2 DEF Claim, Goto, IInv, TypeOK, AttemptsLeft, Writers
      <3>3. CASE claim # None
        BY <2>3, <3>1, <3>3, ReadsType DEF Claim
      <3> QED BY <3>2, <3>3
    <2>4. CASE Readmit(p)
      <3>1. attempt[p] < MaxAttempts
        BY <2>4, <2>a DEF Readmit
      <3>2. CASE ~Admits(p, record)
        BY <2>4, <3>1, <3>2, ReleaseType DEF Readmit
      <3>3. CASE Admits(p, record)
        BY <2>4, <3>1, <3>3, ReadsType DEF Readmit
      <3> QED BY <3>2, <3>3
    <2>5. CASE Contend(p)
      <3>1. attempt[p] < MaxAttempts
        BY <2>5, <2>a DEF Contend
      <3>2. CASE claim = None
        <4>1. TryAgain(p) /\ UNCHANGED <<claim, record, intent, seen, before, moved, captured, alive>>
          BY <2>5, <3>2 DEF Contend
        <4> QED BY <4>1, <3>1, TryAgainType DEF IInv, TypeOK
      <3>3. CASE claim # None /\ alive[claim]
        <4>1. CASE intent[p] = "takeover" /\ before[p] # None
          BY <2>5, <3>1, <3>3, <4>1 DEF Contend, Goto, IInv, TypeOK, AttemptsLeft, MaxAttempts
        <4>2. CASE ~(intent[p] = "takeover" /\ before[p] # None)
          BY <2>5, <3>1, <3>3, <4>2, ReadsType DEF Contend
        <4> QED BY <4>1, <4>2
      <3>4. CASE claim # None /\ ~alive[claim]
        BY <2>5, <3>1, <3>4 DEF Contend, Goto, IInv, TypeOK, AttemptsLeft
      <3> QED BY <3>2, <3>3, <3>4
    <2>6. CASE Retire(p)
      <3>1. attempt[p] < MaxAttempts
        BY <2>6, <2>a DEF Retire
      <3>2. CASE claim = None
        <4>1. Retired(p) /\ UNCHANGED <<claim, moved, record, intent, seen, before, captured, alive>>
          BY <2>6, <3>2 DEF Retire
        <4> QED BY <4>1, <3>1, RetiredType DEF IInv, TypeOK
      <3>3. CASE claim # None
        BY <2>6, <3>1, <3>3 DEF Retire, Goto, IInv, TypeOK, AttemptsLeft
      <3> QED BY <3>2, <3>3
    <2>7. CASE CheckMoved(p)
      <3>1. attempt[p] < MaxAttempts
        BY <2>7, <2>a DEF CheckMoved
      <3>2. CASE moved[p] = seen[p]
        <4>1. /\ Retired(p) /\ moved' = [moved EXCEPT ![p] = None]
              /\ UNCHANGED <<claim, record, intent, seen, before, captured, alive>>
          BY <2>7, <3>2 DEF CheckMoved
        <4> QED BY <4>1, <3>1, RetiredType DEF IInv, TypeOK
      <3>3. CASE moved[p] # seen[p]
        BY <2>7, <3>1, <3>3 DEF CheckMoved, Goto, IInv, TypeOK, AttemptsLeft
      <3> QED BY <3>2, <3>3
    <2>8. CASE Restore(p)
      <3>1. attempt[p] < MaxAttempts
        BY <2>8, <2>a DEF Restore
      <3>2. /\ Retired(p) /\ moved' = [moved EXCEPT ![p] = None]
            /\ claim' = (IF claim = None THEN moved[p] ELSE claim)
            /\ UNCHANGED <<record, intent, seen, before, captured, alive>>
        BY <2>8 DEF Restore
      <3> QED BY <3>1, <3>2, RetiredType DEF IInv, TypeOK
    <2>9. CASE Clear(p)
      BY <2>9, <2>a, ReadsType, ReleaseType DEF Clear
    <2>10. CASE Capture(p)
      <3>1. attempt[p] < MaxAttempts
        BY <2>10, <2>a DEF Capture
      <3>2. CASE record = None
        BY <2>10, <3>1, <3>2, ReleaseType DEF Capture
      <3>3. CASE record # None
        BY <2>10, <3>1, <3>3 DEF Capture, Goto, IInv, TypeOK, AttemptsLeft
      <3> QED BY <3>2, <3>3
    <2>11. CASE Match(p)
      <3>1. attempt[p] < MaxAttempts
        BY <2>11, <2>a DEF Match
      <3>2. CASE captured[p] = before[p]
        <4>1. CASE before[p].by # p /\ intent[p] # "release"
          BY <2>11, <3>1, <3>2, <4>1 DEF Match, Goto, IInv, TypeOK, AttemptsLeft
        <4>2. CASE ~(before[p].by # p /\ intent[p] # "release")
          BY <2>11, <3>1, <3>2, <4>2 DEF Match, Goto, IInv, TypeOK, AttemptsLeft, Writers
        <4> QED BY <4>1, <4>2
      <3>3. CASE captured[p] # before[p]
        BY <2>11, <3>1, <3>3, ReadsType DEF Match
      <3> QED BY <3>2, <3>3
    <2>12. CASE Relink(p)
      BY <2>12, <2>a DEF Relink, Goto, IInv, TypeOK, AttemptsLeft, Writers
    <2>13. CASE Inspect(p)
      <3>1. attempt[p] < MaxAttempts
        BY <2>13, <2>a DEF Inspect
      <3>2. /\ before' = [before EXCEPT ![p] = record]
            /\ UNCHANGED <<claim, record, intent, moved, captured, attempt, alive>>
            /\ \/ Goto(p, "binding") /\ UNCHANGED seen
               \/ Goto(p, "clearing") /\ UNCHANGED seen
               \/ seen' = [seen EXCEPT ![p] = p] /\ Goto(p, "retiring")
        BY <2>13 DEF Inspect
      <3> QED BY <3>1, <3>2 DEF Goto, IInv, TypeOK, AttemptsLeft, Writers
    <2>14. CASE Bind(p)
      BY <2>14, <2>a, ReadsType, ReleaseType DEF Bind
    <2>15. CASE AssertHeld(p)
      BY <2>15, <2>a, ReadsType, ReleaseType DEF AssertHeld
    <2>16. CASE Compare(p)
      <3>1. attempt[p] < MaxAttempts
        BY <2>16, <2>a DEF Compare
      <3>2. /\ before' = [before EXCEPT ![p] = record]
            /\ UNCHANGED <<claim, record, intent, moved, captured, attempt, alive>>
            /\ \/ seen' = [seen EXCEPT ![p] = p] /\ Goto(p, "retiring")
               \/ \E place \in {"clearing", "asserting", "recomparing", "publishing"} :
                    Goto(p, place) /\ UNCHANGED seen
        BY <2>16 DEF Compare
      <3> QED BY <3>1, <3>2 DEF Goto, IInv, TypeOK, AttemptsLeft, Writers
    <2>17. CASE Recompare(p)
      BY <2>17, <2>a, ReadsType, ReleaseType DEF Recompare
    <2>18. CASE Publish(p)
      <3>1. attempt[p] < MaxAttempts
        BY <2>18, <2>a DEF Publish
      <3>2. CASE record # None /\ ~Replaces(p)
        BY <2>18, <3>1, <3>2, ReleaseType DEF Publish
      <3>3. CASE ~(record # None /\ ~Replaces(p))
        <4>1. /\ record' = Publication(p)
              /\ UNCHANGED <<claim, intent, before, moved, captured, attempt, alive>>
              /\ \/ seen' = [seen EXCEPT ![p] = p] /\ Goto(p, "retiring")
                 \/ Goto(p, "confirming") /\ UNCHANGED seen
          BY <2>18, <3>3 DEF Publish
        <4> QED BY <3>1, <4>1, PublicationType DEF Goto, IInv, TypeOK, AttemptsLeft, Writers
      <3> QED BY <3>2, <3>3
    <2>19. CASE Confirm(p)
      BY <2>19, <2>a, ReadsType, ReleaseType DEF Confirm
    <2>20. CASE Stopped(p)
      BY <2>20, <2>a, ReadsType, ReleaseType DEF Stopped
    <2>21. CASE Ask(p)
      <3>1. attempt[p] < MaxAttempts
        BY <2>21, <2>a DEF Ask
      <3>2. CASE Reads(p, "ended")
        BY <3>2, ReadsType
      <3>3. CASE ~Reads(p, "ended")
        <4>1. /\ record.by \in Procs /\ At(record.by, "serving")
              /\ before' = [before EXCEPT ![record.by] = record]
              /\ pc' = [pc EXCEPT ![p] = "awaiting", ![record.by] = "stopping"]
              /\ UNCHANGED <<claim, record, intent, seen, moved, captured, attempt, alive>>
          BY <2>21, <3>3 DEF Ask
        <4>2. attempt[record.by] < MaxAttempts
          BY <4>1 DEF At, IInv, AttemptsLeft
        <4> QED BY <3>1, <4>1, <4>2 DEF IInv, TypeOK, AttemptsLeft
      <3> QED BY <3>2, <3>3
    <2>22. CASE Await(p)
      BY <2>22, <2>a, ReadsType DEF Await
    <2>23. CASE Quiesce(p)
      BY <2>23, <2>a, ReadsType, ReleaseType DEF Quiesce
    <2>24. CASE Stop(p)
      BY <2>24, <2>a, PublicationType DEF Stop, Goto, IInv, TypeOK, AttemptsLeft
    <2>25. CASE Die(p)
      BY <2>25 DEF Die, IInv, TypeOK, AttemptsLeft, Writers
    <2> QED
      BY <2>1, <2>2, <2>3, <2>4, <2>5, <2>6, <2>7, <2>8, <2>9, <2>10, <2>11, <2>12, <2>13,
         <2>14, <2>15, <2>16, <2>17, <2>18, <2>19, <2>20, <2>21, <2>22, <2>23, <2>24, <2>25
      DEF Run
  <1> QED BY <1>u, <1>n

\* Every variable keeps its type; above all no process tries more often to
\* install its claim than tryAcquireCanonicalDaemonClaim's three attempts.
THEOREM OwnershipTypeCorrect == Spec => []TypeOK
  <1>1. IInv => TypeOK
    BY DEF IInv
  <1> QED BY InitIInv, NextIInv, <1>1, PTL DEF Spec

-----------------------------------------------------------------------------
(* One owner of two *)

\* No more than two processes were started.
Two ==
  \A p, q, r \in Procs :
    (intent[p] # None /\ intent[q] # None /\ intent[r] # None) => p = q \/ q = r \/ p = r

Waiting == {"new", "asking", "awaiting", "admitting", "claiming", "contending"}
Holding == {"readmitting", "quiescing", "inspecting", "binding", "asserting", "comparing",
            "recomparing", "publishing", "confirming", "serving", "stopping", "clearing",
            "capturing", "matching", "relinking"}
Retiring == {"retiring", "checking", "restoring"}

\* p has installed its claim, and has not moved it away itself.
Holds(p) == alive[p] /\ (pc[p] \in Holding \/ (pc[p] = "retiring" /\ seen[p] = p))

\* Another process has moved p's claim out of its path.
Away(p) == \E q \in Procs \ {p} : moved[q] = p

Started == \A p \in Procs : alive[p] \/ pc[p] # "new" => intent[p] # None

Carrying == \A p \in Procs : moved[p] # None <=> pc[p] \in {"checking", "restoring"}

\* What a process means to retire is its own claim, or that of a dead process.
Doomed ==
  \A p \in Procs : pc[p] \in Retiring =>
    seen[p] = p \/ (seen[p] \in Writers /\ ~alive[seen[p]])

\* Its own claim is never taken for another, and is never put back.
Certain ==
  \A p \in Procs :
    /\ pc[p] = "checking" /\ seen[p] = p => moved[p] = p
    /\ moved[p] = p => seen[p] = p
    /\ pc[p] = "restoring" => moved[p] # seen[p] /\ seen[p] # p

HoldersHold == \A p \in Procs : Holds(p) => claim = p \/ Away(p)

\* Whoever has a claim anywhere does not try to install another.
Claimants ==
  \A p \in Procs : (claim = p \/ Away(p)) =>
    pc[p] \notin Waiting /\ (pc[p] \in Retiring => seen[p] = p)

\* While a claim is away nobody else can have installed one: one of two
\* processes carries it, and it is the other's.
Vacant == \A p \in Procs : Away(p) => claim = None /\ moved[p] # p

Once == \A p \in Procs : claim = p => moved[p] # p

\* A serving daemon's record is in place.
ServersRecorded ==
  \A p \in Procs : alive[p] /\ pc[p] = "serving" => record = Publication(p)

\* Nobody but a supervisor's release goes to move a binding away.
BindingsSpared ==
  \A p \in Procs :
    (alive[p] /\ pc[p] \in {"clearing", "capturing"} /\ intent[p] # "release") => ~Bound(record)

Apart ==
  Started /\ Carrying /\ Doomed /\ Certain /\ HoldersHold /\ Claimants /\ Vacant /\ Once

OInv == IInv /\ Two /\ Apart /\ ServersRecorded /\ BindingsSpared

\* At most one process holds the claim.
LEMMA Alone ==
  ASSUME OInv, NEW p \in Procs, Holds(p), NEW q \in Procs, Holds(q)
  PROVE  p = q
  <1> SUFFICES ASSUME p # q PROVE FALSE
    OBVIOUS
  <1>a. Started /\ Carrying /\ Two /\ HoldersHold /\ Vacant /\ p # None /\ q # None
    BY NoneAssumption DEF OInv, Apart, Writers
  <1>1. ASSUME NEW x \in Procs, NEW y \in Procs, Holds(x), Holds(y), x # y PROVE ~Away(x)
    <2> SUFFICES ASSUME NEW z \in Procs \ {x}, moved[z] = x PROVE FALSE
      BY DEF Away
    <2>1. x # None
      BY NoneAssumption DEF Writers
    <2>2. pc[z] \in {"checking", "restoring"}
      BY <1>a, <2>1 DEF Carrying
    <2>3. z # y
      BY <1>1, <2>2 DEF Holds, Holding
    <2>4. intent[x] # None /\ intent[y] # None /\ intent[z] # None
      BY <1>a, <1>1, <2>2 DEF Started, Holds
    <2> QED BY <1>1, <1>a, <2>3, <2>4 DEF Two
  <1>2. ~Away(p) /\ ~Away(q)
    BY <1>1
  <1> QED BY <1>a, <1>2 DEF HoldersHold

LEMMA InitOInv == Init /\ Two => OInv
  <1> SUFFICES ASSUME Init, Two PROVE OInv
    OBVIOUS
  <1>1. IInv
    BY InitIInv
  <1>2. /\ \A p \in Procs : pc[p] = "new" /\ moved[p] = None /\ p # None /\ claim # p
        /\ \A p \in Procs : alive[p] => intent[p] # None
    BY NoneAssumption DEF Init, Writers
  <1>3. \A p \in Procs : ~Away(p) /\ ~Holds(p)
    BY <1>2 DEF Away, Holds, Holding
  <1>4. Started /\ Carrying /\ Doomed /\ Certain
    BY <1>2 DEF Started, Carrying, Doomed, Certain, Retiring
  <1>5. HoldersHold /\ Claimants /\ Vacant /\ Once
    BY <1>2, <1>3 DEF HoldersHold, Claimants, Vacant, Once
  <1>6. ServersRecorded /\ BindingsSpared
    BY <1>2 DEF ServersRecorded, BindingsSpared
  <1> QED BY <1>1, <1>4, <1>5, <1>6 DEF OInv, Apart

\* How most steps go on: whoever waits goes on waiting or gives up, and whoever
\* holds the claim keeps it or sets out to retire it.
Walks(q) ==
  \/ pc'[q] = pc[q] /\ seen'[q] = seen[q]
  \/ alive[q] /\ pc[q] \in Waiting /\ pc'[q] \in Waiting \cup {"ended"} /\ seen'[q] = seen[q]
  \/ alive[q] /\ pc[q] \in Holding /\ pc'[q] \in Holding /\ seen'[q] = seen[q]
  \/ alive[q] /\ pc[q] \in Holding /\ pc'[q] = "retiring" /\ seen'[q] = q

Walk == UNCHANGED <<claim, moved, intent, alive>> /\ \A q \in Procs : Walks(q)

LEMMA WalkApart ==
  ASSUME Apart, Walk
  PROVE  Apart'
  <1>1. \A q \in Procs : Away(q)' <=> Away(q)
    BY DEF Walk, Away
  <1>2. Started' /\ Carrying'
    BY DEF Apart, Walk, Walks, Started, Carrying, Waiting, Holding
  <1>3. Doomed' /\ Certain'
    BY DEF Apart, Walk, Walks, Doomed, Certain, Waiting, Holding, Retiring
  <1>4. \A q \in Procs : Holds(q)' => Holds(q)
    BY DEF Walk, Walks, Holds, Waiting, Holding
  <1>5. HoldersHold'
    BY <1>1, <1>4 DEF Apart, HoldersHold, Walk
  <1>6. Claimants'
    <2> SUFFICES ASSUME NEW q \in Procs, claim = q \/ Away(q)
                 PROVE  pc'[q] \notin Waiting /\ (pc'[q] \in Retiring => seen'[q] = q)
      BY <1>1 DEF Claimants, Walk
    <2>1. pc[q] \notin Waiting /\ (pc[q] \in Retiring => seen[q] = q)
      BY DEF Apart, Claimants
    <2> QED BY <2>1 DEF Walk, Walks, Waiting, Holding, Retiring
  <1>7. Vacant' /\ Once'
    BY <1>1 DEF Apart, Vacant, Once, Walk
  <1> QED BY <1>2, <1>3, <1>5, <1>6, <1>7 DEF Apart

LEMMA GotoWalk ==
  ASSUME IInv, NEW p \in Procs, NEW place, Goto(p, place), alive[p],
         UNCHANGED <<claim, moved, intent, alive, seen>>,
         \/ pc[p] \in Waiting /\ place \in Waiting \cup {"ended"}
         \/ pc[p] \in Holding /\ place \in Holding
  PROVE  Walk
  BY DEF Walk, Walks, Goto, IInv, TypeOK

LEMMA RetiringWalk ==
  ASSUME IInv, NEW p \in Procs, Goto(p, "retiring"), alive[p], pc[p] \in Holding,
         seen' = [seen EXCEPT ![p] = p], UNCHANGED <<claim, moved, intent, alive>>
  PROVE  Walk
  BY DEF Walk, Walks, Goto, IInv, TypeOK

LEMMA ReadsWalk ==
  ASSUME IInv, NEW p \in Procs, NEW place, Reads(p, place), alive[p],
         \/ pc[p] \in Waiting /\ place \in Waiting \cup {"ended"}
         \/ pc[p] \in Holding /\ place \in Holding
  PROVE  Walk
  BY GotoWalk DEF Reads

LEMMA ReleaseWalk ==
  ASSUME IInv, NEW p \in Procs, Release(p), alive[p], pc[p] \in Holding
  PROVE  Walk
  BY RetiringWalk DEF Release

\* Steps that leave the record alone.  Only a published record makes a server,
\* and only a release or a record that is no binding leads to its capture.
Entitled(q, place) ==
  /\ place = "serving" => record = Publication(q)
  /\ place \in {"clearing", "capturing"} =>
       pc[q] = "clearing" \/ intent[q] = "release" \/ ~Bound(record)

LEMMA RecordKept ==
  ASSUME IInv, ServersRecorded, BindingsSpared, NEW p \in Procs, NEW place, Goto(p, place),
         Entitled(p, place), alive[p], UNCHANGED <<record, intent, alive>>
  PROVE  ServersRecorded' /\ BindingsSpared'
  <1>1. /\ pc'[p] = place
        /\ \A q \in Procs : q # p => pc'[q] = pc[q]
        /\ \A q \in Procs : Publication(q)' = Publication(q)
    BY DEF Goto, IInv, TypeOK, Publication
  <1>2. ServersRecorded'
    BY <1>1 DEF ServersRecorded, Entitled
  <1>3. BindingsSpared'
    BY <1>1 DEF BindingsSpared, Entitled, Bound
  <1> QED BY <1>2, <1>3

\* The record is only ever changed by the one process that holds the claim.
LEMMA RecordChanged ==
  ASSUME OInv, NEW p \in Procs, Holds(p), NEW place \in {"matching", "retiring", "confirming"},
         Goto(p, place), UNCHANGED <<intent, alive>>
  PROVE  ServersRecorded' /\ BindingsSpared'
  <1>1. pc'[p] = place /\ \A q \in Procs : q # p => pc'[q] = pc[q]
    BY DEF Goto, OInv, IInv, TypeOK
  <1>2. \A q \in Procs : q # p => ~(alive[q] /\ pc[q] \in Holding)
    BY Alone DEF Holds
  <1>3. \A q \in Procs : alive'[q] => pc'[q] \notin {"serving", "clearing", "capturing"}
    BY <1>1, <1>2 DEF Holding
  <1> QED BY <1>3 DEF ServersRecorded, BindingsSpared

\* What a step preserves.
Kept == Apart /\ ServersRecorded /\ BindingsSpared

LEMMA ReadsKept ==
  ASSUME OInv, NEW p \in Procs, NEW place, Reads(p, place), alive[p], Entitled(p, place),
         \/ pc[p] \in Waiting /\ place \in Waiting \cup {"ended"}
         \/ pc[p] \in Holding /\ place \in Holding
  PROVE  Kept'
  <1>1. Apart'
    BY ReadsWalk, WalkApart DEF OInv
  <1>2. ServersRecorded' /\ BindingsSpared'
    BY RecordKept DEF OInv, Reads
  <1> QED BY <1>1, <1>2 DEF Kept

LEMMA RetiringKept ==
  ASSUME OInv, NEW p \in Procs, Goto(p, "retiring"), alive[p], pc[p] \in Holding,
         seen' = [seen EXCEPT ![p] = p], UNCHANGED <<claim, moved, intent, alive>>
  PROVE  Kept'
  <1>1. Apart'
    BY RetiringWalk, WalkApart DEF OInv
  <1>2. ServersRecorded' /\ BindingsSpared'
    BY RecordChanged DEF Holds
  <1> QED BY <1>1, <1>2 DEF Kept

LEMMA ReleaseKept ==
  ASSUME OInv, NEW p \in Procs, Release(p), alive[p], pc[p] \in Holding
  PROVE  Kept'
  BY RetiringKept DEF Release

\* A step within the use of the claim that also changes what p has read.
LEMMA HolderKept ==
  ASSUME OInv, NEW p \in Procs, NEW place \in Holding, Goto(p, place), alive[p],
         pc[p] \in Holding, Entitled(p, place), UNCHANGED <<claim, moved, intent, alive, seen, record>>
  PROVE  Kept'
  <1>1. Apart'
    BY GotoWalk, WalkApart DEF OInv
  <1>2. ServersRecorded' /\ BindingsSpared'
    BY RecordKept DEF OInv
  <1> QED BY <1>1, <1>2 DEF Kept

\* A step of a process that waits for the claim.
LEMMA WaiterKept ==
  ASSUME OInv, NEW p \in Procs, NEW place \in Waiting \cup {"ended"}, Goto(p, place), alive[p],
         pc[p] \in Waiting, UNCHANGED <<claim, moved, intent, alive, seen, record>>
  PROVE  Kept'
  <1>1. Apart'
    BY GotoWalk, WalkApart DEF OInv
  <1>2. ServersRecorded' /\ BindingsSpared'
    BY RecordKept DEF OInv, Entitled, Waiting
  <1> QED BY <1>1, <1>2 DEF Kept

(* The walking actions, in the model's order *)

LEMMA StartKept == ASSUME OInv, NEW p \in Procs, Start(p) PROVE Kept'
  <1>1. alive[p] /\ pc[p] \in Waiting
    BY DEF Start, At, Waiting
  <1>2. CASE intent[p] = "takeover" /\ Daemon(record) /\ alive[record.by]
    BY <1>1, <1>2, WaiterKept DEF Start, Waiting
  <1>3. CASE ~(intent[p] = "takeover" /\ Daemon(record) /\ alive[record.by])
    BY <1>1, <1>3, WaiterKept DEF Start, Waiting, Reads
  <1> QED BY <1>2, <1>3

LEMMA AdmitKept == ASSUME OInv, NEW p \in Procs, Admit(p) PROVE Kept'
  BY WaiterKept DEF Admit, At, Waiting, Reads

LEMMA ReadmitKept == ASSUME OInv, NEW p \in Procs, Readmit(p) PROVE Kept'
  <1>1. alive[p] /\ pc[p] \in Holding
    BY DEF Readmit, At, Holding
  <1>2. CASE ~Admits(p, record)
    BY <1>1, <1>2, ReleaseKept DEF Readmit
  <1>3. CASE Admits(p, record)
    <2>1. PICK place \in {"quiescing", "comparing", "inspecting"} : Reads(p, place)
      BY <1>3 DEF Readmit
    <2> QED BY <1>1, <2>1, HolderKept DEF Reads, Holding, Entitled
  <1> QED BY <1>2, <1>3

LEMMA ClearKept == ASSUME OInv, NEW p \in Procs, Clear(p) PROVE Kept'
  <1>1. alive[p] /\ pc[p] = "clearing" /\ pc[p] \in Holding
    BY DEF Clear, At, Holding
  <1>2. CASE claim = p
    BY <1>1, <1>2, HolderKept DEF Clear, Reads, Holding, Entitled
  <1>3. CASE claim # p
    BY <1>1, <1>3, ReleaseKept DEF Clear
  <1> QED BY <1>2, <1>3

LEMMA CaptureKept == ASSUME OInv, NEW p \in Procs, Capture(p) PROVE Kept'
  <1>1. alive[p] /\ pc[p] \in Holding
    BY DEF Capture, At, Holding
  <1>2. CASE record = None
    BY <1>1, <1>2, ReleaseKept DEF Capture
  <1>3. CASE record # None
    <2>1. Goto(p, "matching") /\ UNCHANGED <<claim, moved, intent, alive, seen>>
      BY <1>3 DEF Capture
    <2>2. Apart'
      BY <1>1, <2>1, GotoWalk, WalkApart DEF OInv, Holding
    <2>3. ServersRecorded' /\ BindingsSpared'
      BY <1>1, <2>1, RecordChanged DEF Holds
    <2> QED BY <2>2, <2>3 DEF Kept
  <1> QED BY <1>2, <1>3

LEMMA MatchKept == ASSUME OInv, NEW p \in Procs, Match(p) PROVE Kept'
  <1>1. alive[p] /\ pc[p] \in Holding
    BY DEF Match, At, Holding
  <1>2. \/ /\ Goto(p, "binding") \/ Goto(p, "relinking")
           /\ UNCHANGED <<claim, moved, intent, alive, seen, record>>
        \/ /\ Goto(p, "retiring") /\ seen' = [seen EXCEPT ![p] = p]
           /\ UNCHANGED <<claim, moved, intent, alive>>
    BY DEF Match, Reads
  <1> QED BY <1>1, <1>2, HolderKept, RetiringKept DEF Holding, Entitled

LEMMA RelinkKept == ASSUME OInv, NEW p \in Procs, Relink(p) PROVE Kept'
  BY RetiringKept DEF Relink, At, Holding

LEMMA InspectKept == ASSUME OInv, NEW p \in Procs, Inspect(p) PROVE Kept'
  <1>1. alive[p] /\ pc[p] \in Holding
    BY DEF Inspect, At, Holding
  <1>2. \/ /\ Goto(p, "binding") \/ (Goto(p, "clearing") /\ ~Bound(record))
           /\ UNCHANGED <<claim, moved, intent, alive, seen, record>>
        \/ /\ Goto(p, "retiring") /\ seen' = [seen EXCEPT ![p] = p]
           /\ UNCHANGED <<claim, moved, intent, alive>>
    BY DEF Inspect
  <1> QED BY <1>1, <1>2, HolderKept, RetiringKept DEF Holding, Entitled

LEMMA BindKept == ASSUME OInv, NEW p \in Procs, Bind(p) PROVE Kept'
  <1>1. alive[p] /\ pc[p] \in Holding
    BY DEF Bind, At, Holding
  <1>2. CASE Reads(p, "asserting")
    BY <1>1, <1>2, HolderKept DEF Reads, Holding, Entitled
  <1> QED BY <1>1, <1>2, ReleaseKept DEF Bind

LEMMA AssertHeldKept == ASSUME OInv, NEW p \in Procs, AssertHeld(p) PROVE Kept'
  <1>1. alive[p] /\ pc[p] \in Holding
    BY DEF AssertHeld, At, Holding
  <1>2. CASE claim = p
    <2>1. PICK place \in {"recomparing", "comparing"} : Reads(p, place)
      BY <1>2 DEF AssertHeld
    <2> QED BY <1>1, <2>1, HolderKept DEF Reads, Holding, Entitled
  <1>3. CASE claim # p
    BY <1>1, <1>3, ReleaseKept DEF AssertHeld
  <1> QED BY <1>2, <1>3

LEMMA CompareKept == ASSUME OInv, NEW p \in Procs, Compare(p) PROVE Kept'
  <1>1. alive[p] /\ pc[p] \in Holding
    BY DEF Compare, At, Holding
  <1>2. CASE ~Admits(p, record) \/ (intent[p] = "reserve" /\ Reserved(record))
    BY <1>1, <1>2, RetiringKept DEF Compare
  <1>3. CASE ~(~Admits(p, record) \/ (intent[p] = "reserve" /\ Reserved(record)))
    <2>1. PICK place \in {"clearing", "asserting", "recomparing", "publishing"} :
            Goto(p, place) /\ (place = "clearing" => intent[p] = "release")
      BY <1>3 DEF Compare
    <2>2. UNCHANGED <<claim, moved, intent, alive, seen, record>>
      BY <1>3 DEF Compare
    <2> QED BY <1>1, <2>1, <2>2, HolderKept DEF Holding, Entitled
  <1> QED BY <1>2, <1>3

LEMMA RecompareKept == ASSUME OInv, NEW p \in Procs, Recompare(p) PROVE Kept'
  <1>1. alive[p] /\ pc[p] \in Holding
    BY DEF Recompare, At, Holding
  <1>2. CASE Reads(p, "publishing")
    BY <1>1, <1>2, HolderKept DEF Reads, Holding, Entitled
  <1> QED BY <1>1, <1>2, ReleaseKept DEF Recompare

LEMMA PublishKept == ASSUME OInv, NEW p \in Procs, Publish(p) PROVE Kept'
  <1>1. alive[p] /\ pc[p] \in Holding
    BY DEF Publish, At, Holding
  <1>2. CASE record # None /\ ~Replaces(p)
    BY <1>1, <1>2, ReleaseKept DEF Publish
  <1>3. CASE ~(record # None /\ ~Replaces(p)) /\ intent[p] = "reserve"
    BY <1>1, <1>3, RetiringKept DEF Publish
  <1>4. CASE ~(record # None /\ ~Replaces(p)) /\ intent[p] # "reserve"
    <2>1. Goto(p, "confirming") /\ UNCHANGED <<claim, moved, intent, alive, seen>>
      BY <1>4 DEF Publish
    <2>2. Apart'
      BY <1>1, <2>1, GotoWalk, WalkApart DEF OInv, Holding
    <2>3. ServersRecorded' /\ BindingsSpared'
      BY <1>1, <2>1, RecordChanged DEF Holds
    <2> QED BY <2>2, <2>3 DEF Kept
  <1> QED BY <1>2, <1>3, <1>4

LEMMA ConfirmKept == ASSUME OInv, NEW p \in Procs, Confirm(p) PROVE Kept'
  <1>1. alive[p] /\ pc[p] \in Holding
    BY DEF Confirm, At, Holding
  <1>2. CASE record = Publication(p)
    BY <1>1, <1>2, HolderKept DEF Confirm, Reads, Holding, Entitled
  <1>3. CASE record # Publication(p)
    BY <1>1, <1>3, ReleaseKept DEF Confirm
  <1> QED BY <1>2, <1>3

LEMMA StopKept == ASSUME OInv, NEW p \in Procs, Stop(p) PROVE Kept'
  BY HolderKept DEF Stop, At, Holding, Entitled

LEMMA StoppedKept == ASSUME OInv, NEW p \in Procs, Stopped(p) PROVE Kept'
  <1>1. alive[p] /\ pc[p] \in Holding
    BY DEF Stopped, At, Holding
  <1>2. CASE Bound(record)
    BY <1>1, <1>2, ReleaseKept DEF Stopped
  <1>3. CASE ~Bound(record)
    BY <1>1, <1>3, HolderKept DEF Stopped, Reads, Holding, Entitled
  <1> QED BY <1>2, <1>3

LEMMA AwaitKept == ASSUME OInv, NEW p \in Procs, Await(p) PROVE Kept'
  BY WaiterKept DEF Await, At, Waiting, Reads

LEMMA QuiesceKept == ASSUME OInv, NEW p \in Procs, Quiesce(p) PROVE Kept'
  <1>1. alive[p] /\ pc[p] \in Holding
    BY DEF Quiesce, At, Holding
  <1>2. CASE Reads(p, "inspecting")
    BY <1>1, <1>2, HolderKept DEF Reads, Holding, Entitled
  <1> QED BY <1>1, <1>2, ReleaseKept DEF Quiesce

\* The one step that moves two processes.
LEMMA AskKept == ASSUME OInv, NEW p \in Procs, Ask(p) PROVE Kept'
  <1>1. alive[p] /\ pc[p] = "asking"
    BY DEF Ask, At
  <1>2. CASE Reads(p, "ended")
    BY <1>1, <1>2, WaiterKept DEF Reads, Waiting
  <1>3. CASE ~Reads(p, "ended")
    <2> DEFINE q == record.by
    <2>1. /\ q \in Procs /\ alive[q] /\ pc[q] = "serving"
          /\ pc' = [pc EXCEPT ![p] = "awaiting", ![q] = "stopping"]
          /\ UNCHANGED <<claim, record, intent, seen, moved, alive>>
      BY <1>3 DEF Ask, At
    <2> HIDE DEF q
    <2>2. /\ pc'[p] = "awaiting" /\ pc'[q] = "stopping"
          /\ \A r \in Procs \ {p, q} : pc'[r] = pc[r]
      BY <1>1, <2>1 DEF OInv, IInv, TypeOK
    <2>3. Walk
      BY <1>1, <2>1, <2>2 DEF Walk, Walks, Waiting, Holding
    <2>4. \A r \in Procs : pc'[r] \in {"serving", "clearing", "capturing"} => pc'[r] = pc[r]
      BY <2>2
    <2>5. \A r \in Procs : Publication(r)' = Publication(r)
      BY <2>1 DEF Publication
    <2>6. ServersRecorded' /\ BindingsSpared'
      BY <2>1, <2>4, <2>5 DEF OInv, ServersRecorded, BindingsSpared, Bound
    <2> QED BY <2>3, <2>6, WalkApart DEF OInv, Kept
  <1> QED BY <1>2, <1>3

(* The steps that move claims *)

\* What these steps change besides leaves the record's part of Kept alone.
LEMMA ClaimsApart ==
  ASSUME OInv, NEW p \in Procs, NEW place \in {"readmitting", "retiring", "checking", "restoring",
         "claiming", "ended"}, Goto(p, place), alive[p], UNCHANGED <<record, intent, alive>>
  PROVE  ServersRecorded' /\ BindingsSpared'
  BY RecordKept DEF OInv, Entitled

\* A claim that is away is between its owner and its bearer, who are both of
\* those that were started.
LEMMA BetweenTwo ==
  ASSUME OInv, NEW z \in Procs, NEW q \in Procs, z # q, moved[z] = q,
         NEW r \in Procs, alive[r] \/ pc[r] # "new"
  PROVE  r = z \/ r = q
  <1>1. q # None /\ Away(q)
    BY NoneAssumption DEF Writers, Away
  <1>2. pc[z] # "new"
    BY <1>1 DEF OInv, Apart, Carrying
  <1>3. pc[q] # "new"
    BY <1>1 DEF OInv, Apart, Claimants, Waiting
  <1>4. intent[z] # None /\ intent[q] # None /\ intent[r] # None
    BY <1>2, <1>3 DEF OInv, Apart, Started
  <1> QED BY <1>4 DEF OInv, Two

LEMMA ClaimKept == ASSUME OInv, NEW p \in Procs, Claim(p) PROVE Kept'
  <1>1. alive[p] /\ pc[p] = "claiming"
    BY DEF Claim, At
  <1>2. CASE claim # None
    BY <1>1, <1>2, WaiterKept DEF Claim, Reads, Waiting
  <1>3. CASE claim = None
    <2>1. /\ claim' = p /\ Goto(p, "readmitting")
          /\ UNCHANGED <<record, intent, seen, moved, alive>>
      BY <1>3 DEF Claim
    <2>2. pc'[p] = "readmitting" /\ \A q \in Procs : q # p => pc'[q] = pc[q]
      BY <2>1 DEF Goto, OInv, IInv, TypeOK
    <2>3. moved[p] = None /\ p # None
      BY <1>1, NoneAssumption DEF OInv, Apart, Carrying, Writers
    <2>4. ~Away(p)
      BY <1>1 DEF OInv, Apart, Claimants, Waiting
    <2>5. \A q \in Procs : ~Away(q)
      <3> SUFFICES ASSUME NEW q \in Procs, NEW z \in Procs \ {q}, moved[z] = q PROVE FALSE
        BY DEF Away
      <3>1. q # p /\ z # p
        BY <2>3, <2>4, NoneAssumption DEF Away, Writers
      <3> QED BY <1>1, <3>1, BetweenTwo
    <2>6. \A q \in Procs : ~Holds(q)
      BY <1>3, <2>5, NoneAssumption DEF OInv, Apart, HoldersHold, Writers
    <2>7. \A q \in Procs : ~Away(q)'
      BY <2>1, <2>5 DEF Away
    <2>8. Started' /\ Carrying'
      BY <1>1, <2>1, <2>2, <2>3 DEF OInv, Apart, Started, Carrying
    <2>9. Doomed' /\ Certain'
      BY <1>1, <2>1, <2>2 DEF OInv, Apart, Doomed, Certain, Retiring
    <2>10. HoldersHold'
      BY <2>1, <2>2, <2>6 DEF HoldersHold, Holds
    <2>11. Claimants' /\ Vacant' /\ Once'
      BY <2>1, <2>2, <2>3, <2>7 DEF Claimants, Vacant, Once, Waiting, Retiring
    <2>12. ServersRecorded' /\ BindingsSpared'
      BY <1>1, <2>1, ClaimsApart
    <2> QED BY <2>8, <2>9, <2>10, <2>11, <2>12 DEF Kept, Apart
  <1> QED BY <1>2, <1>3

LEMMA ContendKept == ASSUME OInv, NEW p \in Procs, Contend(p) PROVE Kept'
  <1>1. alive[p] /\ pc[p] = "contending"
    BY DEF Contend, At
  <1>2. CASE claim = None \/ (claim # None /\ alive[claim])
    <2>1. PICK place \in {"claiming", "awaiting", "ended"} : Goto(p, place)
      BY <1>2 DEF Contend, TryAgain, Reads
    <2>2. UNCHANGED <<claim, moved, intent, alive, seen, record>>
      BY <1>2 DEF Contend, TryAgain, Reads
    <2> QED BY <1>1, <2>1, <2>2, WaiterKept DEF Waiting
  <1>3. CASE claim # None /\ ~alive[claim]
    <2>1. /\ seen' = [seen EXCEPT ![p] = claim] /\ Goto(p, "retiring")
          /\ UNCHANGED <<claim, record, intent, moved, alive>>
      BY <1>3 DEF Contend
    <2>2. /\ pc'[p] = "retiring" /\ seen'[p] = claim
          /\ \A q \in Procs : q # p => pc'[q] = pc[q] /\ seen'[q] = seen[q]
      BY <2>1 DEF Goto, OInv, IInv, TypeOK
    <2>3. claim \in Writers /\ claim # p
      BY <1>1, <1>3 DEF OInv, IInv, TypeOK
    <2>4. moved[p] = None /\ p # None
      BY <1>1, NoneAssumption DEF OInv, Apart, Carrying, Writers
    <2>5. ~Away(p) /\ \A q \in Procs : Away(q)' <=> Away(q)
      BY <1>1, <2>1 DEF OInv, Apart, Claimants, Waiting, Away
    <2>6. Started' /\ Carrying'
      BY <1>1, <2>1, <2>2 DEF OInv, Apart, Started, Carrying
    <2>7. Doomed' /\ Certain'
      BY <1>1, <1>3, <2>1, <2>2, <2>3, <2>4 DEF OInv, Apart, Doomed, Certain, Retiring
    <2>8. HoldersHold'
      BY <2>1, <2>2, <2>3, <2>5 DEF OInv, Apart, HoldersHold, Holds, Holding
    <2>9. Claimants' /\ Vacant' /\ Once'
      BY <2>1, <2>2, <2>3, <2>5 DEF OInv, Apart, Claimants, Vacant, Once
    <2>10. ServersRecorded' /\ BindingsSpared'
      BY <1>1, <2>1, ClaimsApart
    <2> QED BY <2>6, <2>7, <2>8, <2>9, <2>10 DEF Kept, Apart
  <1> QED BY <1>2, <1>3 DEF Contend

\* Retired(p): p has ended, or tries again to install its claim.
LEMMA RetiredGoes ==
  ASSUME NEW p \in Procs, Retired(p)
  PROVE  /\ seen[p] = p => Goto(p, "ended")
         /\ seen[p] # p => Goto(p, "claiming") \/ Goto(p, "ended")
  BY DEF Retired, TryAgain

LEMMA RetireKept == ASSUME OInv, NEW p \in Procs, Retire(p) PROVE Kept'
  <1>1. /\ alive[p] /\ pc[p] = "retiring"
        /\ UNCHANGED <<record, intent, seen, alive>>
    BY DEF Retire, At
  <1>2. moved[p] = None
    BY <1>1 DEF OInv, Apart, Carrying
  <1>3. CASE claim = None
    <2>1. Retired(p) /\ UNCHANGED <<claim, moved>>
      BY <1>3 DEF Retire
    <2>2. PICK place \in {"claiming", "ended"} :
            Goto(p, place) /\ (seen[p] = p => place = "ended")
      BY <2>1, RetiredGoes
    <2>3. pc'[p] = place /\ \A q \in Procs : q # p => pc'[q] = pc[q]
      BY <2>2 DEF Goto, OInv, IInv, TypeOK
    <2>4. \A q \in Procs : Away(q)' <=> Away(q)
      BY <2>1 DEF Away
    <2>5. Started' /\ Carrying' /\ Doomed' /\ Certain'
      BY <1>1, <2>1, <2>2, <2>3
      DEF OInv, Apart, Started, Carrying, Doomed, Certain, Retiring
    <2>6. HoldersHold'
      BY <1>1, <2>1, <2>2, <2>3, <2>4 DEF OInv, Apart, HoldersHold, Holds, Holding
    <2>7. claim = p \/ Away(p) => place = "ended"
      BY <1>1, <2>2 DEF OInv, Apart, Claimants, Retiring
    <2>8. Claimants' /\ Vacant' /\ Once'
      BY <1>1, <2>1, <2>2, <2>3, <2>4, <2>7
      DEF OInv, Apart, Claimants, Vacant, Once, Waiting, Retiring
    <2>9. ServersRecorded' /\ BindingsSpared'
      BY <1>1, <2>2, ClaimsApart
    <2> QED BY <2>5, <2>6, <2>8, <2>9 DEF Kept, Apart
  <1>4. CASE claim # None
    <2>1. moved' = [moved EXCEPT ![p] = claim] /\ claim' = None /\ Goto(p, "checking")
      BY <1>4 DEF Retire
    <2>2. /\ pc'[p] = "checking" /\ moved'[p] = claim
          /\ \A q \in Procs : q # p => pc'[q] = pc[q] /\ moved'[q] = moved[q]
      BY <2>1 DEF Goto, OInv, IInv, TypeOK
    <2>3. \A q \in Procs : ~Away(q)
      BY <1>4 DEF OInv, Apart, Vacant
    <2>4. \A q \in Procs : Away(q)' <=> q # p /\ q = claim
      BY <2>2, <2>3 DEF Away
    <2>5. Started' /\ Carrying' /\ Doomed'
      BY <1>1, <1>4, <2>1, <2>2 DEF OInv, Apart, Started, Carrying, Doomed, Retiring
    <2>6. seen[p] = p <=> claim = p
      BY <1>1, <2>3 DEF OInv, Apart, HoldersHold, Holds, Claimants, Retiring
    <2>7. Certain'
      BY <1>1, <2>1, <2>2, <2>6 DEF OInv, Apart, Certain
    <2>8. HoldersHold'
      <3> SUFFICES ASSUME NEW q \in Procs, Holds(q)' PROVE Away(q)'
        BY DEF HoldersHold
      <3>1. q # p
        BY <2>2 DEF Holds, Holding
      <3>2. Holds(q)
        BY <1>1, <2>2, <3>1 DEF Holds
      <3> QED BY <2>3, <2>4, <3>1, <3>2 DEF OInv, Apart, HoldersHold
    <2>9. Claimants'
      <3> SUFFICES ASSUME NEW q \in Procs, q # p, q = claim
                   PROVE  pc'[q] \notin Waiting /\ (pc'[q] \in Retiring => seen'[q] = q)
        BY <2>1, <2>4, NoneAssumption DEF Claimants, Writers
      <3> QED BY <1>1, <2>2 DEF OInv, Apart, Claimants
    <2>10. Vacant'
      BY <2>1, <2>2, <2>4 DEF OInv, Apart, Vacant, Once
    <2>11. Once'
      BY <2>1, NoneAssumption DEF Once, Writers
    <2>12. ServersRecorded' /\ BindingsSpared'
      BY <1>1, <2>1, ClaimsApart
    <2> QED BY <2>5, <2>7, <2>8, <2>9, <2>10, <2>11, <2>12 DEF Kept, Apart
  <1> QED BY <1>3, <1>4

LEMMA CheckMovedKept == ASSUME OInv, NEW p \in Procs, CheckMoved(p) PROVE Kept'
  <1>1. /\ alive[p] /\ pc[p] = "checking"
        /\ UNCHANGED <<claim, record, intent, seen, alive>>
    BY DEF CheckMoved, At
  <1>2. CASE moved[p] = seen[p]
    <2>1. Retired(p) /\ moved' = [moved EXCEPT ![p] = None]
      BY <1>2 DEF CheckMoved
    <2>2. PICK place \in {"claiming", "ended"} :
            Goto(p, place) /\ (seen[p] = p => place = "ended")
      BY <2>1, RetiredGoes
    <2>3. /\ pc'[p] = place /\ moved'[p] = None
          /\ \A q \in Procs : q # p => pc'[q] = pc[q] /\ moved'[q] = moved[q]
      BY <2>1, <2>2 DEF Goto, OInv, IInv, TypeOK
    <2>4. \A q \in Procs : Away(q)' => Away(q)
      BY <2>3, NoneAssumption DEF Away, Writers
    <2>5. Started' /\ Carrying' /\ Doomed' /\ Certain'
      BY <1>1, <2>2, <2>3, NoneAssumption
      DEF OInv, Apart, Started, Carrying, Doomed, Certain, Retiring, Writers
    <2>6. HoldersHold'
      <3> SUFFICES ASSUME NEW q \in Procs, Holds(q)' PROVE claim = q \/ Away(q)'
        BY <1>1 DEF HoldersHold
      <3>1. q # p
        BY <2>2, <2>3 DEF Holds, Holding
      <3>2. Holds(q)
        BY <1>1, <2>3, <3>1 DEF Holds
      <3>3. moved[p] # q
        BY <1>1, <1>2, <3>1, <3>2 DEF OInv, Apart, Doomed, Retiring, Holds
      <3>4. Away(q) => Away(q)'
        BY <2>3, <3>3 DEF Away
      <3> QED BY <3>2, <3>4 DEF OInv, Apart, HoldersHold
    <2>7. claim = p \/ Away(p) => place = "ended"
      BY <1>1, <2>2 DEF OInv, Apart, Claimants, Retiring
    <2>8. Claimants'
      BY <1>1, <2>2, <2>3, <2>4, <2>7 DEF OInv, Apart, Claimants, Waiting, Retiring
    <2>9. Vacant' /\ Once'
      BY <1>1, <2>3, <2>4, NoneAssumption DEF OInv, Apart, Vacant, Once, Writers
    <2>10. ServersRecorded' /\ BindingsSpared'
      BY <1>1, <2>2, ClaimsApart
    <2> QED BY <2>5, <2>6, <2>8, <2>9, <2>10 DEF Kept, Apart
  <1>3. CASE moved[p] # seen[p]
    <2>1. Goto(p, "restoring") /\ UNCHANGED moved
      BY <1>3 DEF CheckMoved
    <2>2. pc'[p] = "restoring" /\ \A q \in Procs : q # p => pc'[q] = pc[q]
      BY <2>1 DEF Goto, OInv, IInv, TypeOK
    <2>3. \A q \in Procs : Away(q)' <=> Away(q)
      BY <2>1 DEF Away
    <2>4. Started' /\ Carrying' /\ Doomed'
      BY <1>1, <2>1, <2>2 DEF OInv, Apart, Started, Carrying, Doomed, Retiring
    <2>5. Certain'
      BY <1>1, <1>3, <2>1, <2>2 DEF OInv, Apart, Certain
    <2>6. HoldersHold'
      BY <1>1, <2>1, <2>2, <2>3 DEF OInv, Apart, HoldersHold, Holds, Holding
    <2>7. Claimants' /\ Vacant' /\ Once'
      BY <1>1, <2>1, <2>2, <2>3
      DEF OInv, Apart, Claimants, Vacant, Once, Waiting, Retiring
    <2>8. ServersRecorded' /\ BindingsSpared'
      BY <1>1, <2>1, ClaimsApart
    <2> QED BY <2>4, <2>5, <2>6, <2>7, <2>8 DEF Kept, Apart
  <1> QED BY <1>2, <1>3

LEMMA RestoreKept == ASSUME OInv, NEW p \in Procs, Restore(p) PROVE Kept'
  <1>1. /\ alive[p] /\ pc[p] = "restoring"
        /\ UNCHANGED <<record, intent, seen, alive>>
        /\ claim' = (IF claim = None THEN moved[p] ELSE claim)
        /\ moved' = [moved EXCEPT ![p] = None] /\ Retired(p)
    BY DEF Restore, At
  <1>2. PICK place \in {"claiming", "ended"} : Goto(p, place)
    BY <1>1, RetiredGoes
  <1>3. /\ pc'[p] = place /\ moved'[p] = None
        /\ \A q \in Procs : q # p => pc'[q] = pc[q] /\ moved'[q] = moved[q]
    BY <1>1, <1>2 DEF Goto, OInv, IInv, TypeOK
  <1>4. seen[p] # p /\ moved[p] # p /\ moved[p] # None
    BY <1>1 DEF OInv, Apart, Certain, Carrying
  <1>5. claim # p /\ ~Away(p)
    BY <1>1, <1>4 DEF OInv, Apart, Claimants, Retiring
  <1>6. \A q \in Procs : ~Away(q)'
    <2> SUFFICES ASSUME NEW q \in Procs, NEW z \in Procs \ {q}, moved'[z] = q PROVE FALSE
      BY DEF Away
    <2>1. q # None
      BY NoneAssumption DEF Writers
    <2>2. z # p /\ moved[z] = q
      BY <1>3, <2>1
    <2>3. q # p
      BY <1>5, <2>2 DEF Away
    <2> QED BY <1>1, <2>2, <2>3, BetweenTwo
  <1>7. \A q \in Procs : claim' = q => q # p /\ (claim = q \/ (Away(q) /\ claim = None))
    <2> SUFFICES ASSUME NEW q \in Procs, claim' = q
                 PROVE  q # p /\ (claim = q \/ (Away(q) /\ claim = None))
      OBVIOUS
    <2>1. CASE claim = None
      BY <1>1, <1>4, <2>1 DEF Away
    <2>2. CASE claim # None
      BY <1>1, <1>5, <2>2
    <2> QED BY <2>1, <2>2
  <1>8. Started' /\ Carrying' /\ Doomed' /\ Certain'
    BY <1>1, <1>2, <1>3, NoneAssumption
    DEF OInv, Apart, Started, Carrying, Doomed, Certain, Retiring, Writers
  <1>9. HoldersHold'
    <2> SUFFICES ASSUME NEW q \in Procs, Holds(q)' PROVE claim' = q
      BY DEF HoldersHold
    <2>1. q # p
      BY <1>2, <1>3 DEF Holds, Holding
    <2>2. Holds(q)
      BY <1>1, <1>3, <2>1 DEF Holds
    <2>3. CASE claim = q
      BY <1>1, <2>3, NoneAssumption DEF Writers
    <2>4. CASE Away(q)
      <3>1. PICK z \in Procs \ {q} : moved[z] = q
        BY <2>4 DEF Away
      <3>2. z = p
        BY <1>1, <2>1, <3>1, BetweenTwo
      <3> QED BY <1>1, <2>4, <3>1, <3>2 DEF OInv, Apart, Vacant
    <2> QED BY <2>2, <2>3, <2>4 DEF OInv, Apart, HoldersHold
  <1>10. Claimants'
    <2> SUFFICES ASSUME NEW q \in Procs, claim' = q
                 PROVE  pc'[q] \notin Waiting /\ (pc'[q] \in Retiring => seen'[q] = q)
      BY <1>6 DEF Claimants
    <2> QED BY <1>1, <1>3, <1>7 DEF OInv, Apart, Claimants
  <1>11. Vacant'
    BY <1>6 DEF Vacant
  <1>12. Once'
    <2> SUFFICES ASSUME NEW q \in Procs, claim' = q PROVE moved'[q] # q
      BY DEF Once
    <2> QED BY <1>3, <1>7 DEF OInv, Apart, Vacant, Once
  <1>13. ServersRecorded' /\ BindingsSpared'
    BY <1>1, <1>2, ClaimsApart
  <1> QED BY <1>8, <1>9, <1>10, <1>11, <1>12, <1>13 DEF Kept, Apart

LEMMA DieKept == ASSUME OInv, NEW p \in Procs, Die(p) PROVE Kept'
  <1>1. /\ UNCHANGED <<claim, record, pc, intent, seen, moved>>
        /\ \A w \in Writers : alive'[w] => alive[w]
    BY DEF Die, OInv, IInv, TypeOK
  <1>2. \A q \in Procs : (alive'[q] => alive[q]) /\ (Away(q)' <=> Away(q))
    BY <1>1 DEF Writers, Away
  <1>3. Started' /\ Carrying' /\ Doomed' /\ Certain'
    BY <1>1, <1>2 DEF OInv, Apart, Started, Carrying, Doomed, Certain
  <1>4. HoldersHold' /\ Claimants' /\ Vacant' /\ Once'
    BY <1>1, <1>2 DEF OInv, Apart, HoldersHold, Holds, Claimants, Vacant, Once
  <1>5. \A q \in Procs : Publication(q)' = Publication(q)
    BY <1>1 DEF Publication
  <1>6. ServersRecorded' /\ BindingsSpared'
    BY <1>1, <1>2, <1>5 DEF OInv, ServersRecorded, BindingsSpared, Bound
  <1> QED BY <1>3, <1>4, <1>6 DEF Kept, Apart

(* Two commands and the claim *)

LEMMA IntentConstant == [Next]_vars => UNCHANGED intent
  BY DEF vars, Next, Run, Reads, Release, Start, Admit, Claim, Readmit, Contend, Retire,
         CheckMoved, Restore, Clear, Capture, Match, Relink, Inspect, Bind, AssertHeld, Compare,
         Recompare, Publish, Confirm, Stopped, Ask, Await, Quiesce, Stop, Die

LEMMA NextOInv == OInv /\ [Next]_vars => OInv'
  <1> SUFFICES ASSUME OInv, [Next]_vars PROVE OInv'
    OBVIOUS
  <1>1. IInv'
    BY NextIInv DEF OInv
  <1>2. UNCHANGED intent
    BY IntentConstant
  <1>3. Two'
    BY <1>2 DEF OInv, Two
  <1>4. Kept'
    <2>1. CASE UNCHANGED vars
      <3>1. Walk
        BY <2>1 DEF vars, Walk, Walks
      <3>2. \A q \in Procs : Publication(q)' = Publication(q)
        BY <2>1 DEF vars, Publication
      <3>3. ServersRecorded' /\ BindingsSpared'
        BY <2>1, <3>2 DEF vars, OInv, ServersRecorded, BindingsSpared, Bound
      <3> QED BY <3>1, <3>3, WalkApart DEF OInv, Kept
    <2>2. CASE Next
      <3> PICK p \in Procs : Run(p) \/ Stop(p) \/ Die(p)
        BY <2>2 DEF Next
      <3>1. CASE Start(p) \/ Admit(p) \/ Claim(p) \/ Readmit(p) \/ Contend(p) \/ Retire(p)
        BY <3>1, StartKept, AdmitKept, ClaimKept, ReadmitKept, ContendKept, RetireKept
      <3>2. CASE CheckMoved(p) \/ Restore(p) \/ Clear(p) \/ Capture(p) \/ Match(p) \/ Relink(p)
        BY <3>2, CheckMovedKept, RestoreKept, ClearKept, CaptureKept, MatchKept, RelinkKept
      <3>3. CASE Inspect(p) \/ Bind(p) \/ AssertHeld(p) \/ Compare(p) \/ Recompare(p) \/ Publish(p)
        BY <3>3, InspectKept, BindKept, AssertHeldKept, CompareKept, RecompareKept, PublishKept
      <3>4. CASE Confirm(p) \/ Stopped(p) \/ Ask(p) \/ Await(p) \/ Quiesce(p) \/ Stop(p) \/ Die(p)
        BY <3>4, ConfirmKept, StoppedKept, AskKept, AwaitKept, QuiesceKept, StopKept, DieKept
      <3> QED BY <3>1, <3>2, <3>3, <3>4 DEF Run
    <2> QED BY <2>1, <2>2
  <1> QED BY <1>1, <1>3, <1>4 DEF OInv, Kept

\* A set whose members are all equal.
LEMMA AtMostOne ==
  ASSUME NEW S, \A x, y \in S : x = y
  PROVE  Cardinality(S) <= 1
  <1>1. CASE S = {}
    BY <1>1, FS_EmptySet
  <1>2. CASE S # {}
    <2> PICK x \in S : TRUE
      BY <1>2
    <2>1. S = {x}
      OBVIOUS
    <2> QED BY <2>1, FS_Singleton
  <1> QED BY <1>1, <1>2

\* Two says of any three processes what OneOwnerOfTwo's count says of all.
LEMMA CountsTwo == Cardinality({p \in Procs : intent[p] # None}) <= 2 => Two
  <1> DEFINE Crew == {p \in Procs : intent[p] # None}
  <1> SUFFICES ASSUME Cardinality(Crew) <= 2, NEW p \in Crew, NEW q \in Crew, NEW r \in Crew,
                      p # q, q # r, p # r
               PROVE  FALSE
    BY DEF Two
  <1>1. IsFiniteSet(Crew) /\ Cardinality(Crew) \in Nat
    BY ProcsAssumption, FS_Subset, FS_CardinalityType
  <1>2. {p, q, r} \in SUBSET Crew
    OBVIOUS
  <1> HIDE DEF Crew
  <1>3. IsFiniteSet({p}) /\ Cardinality({p}) = 1
    BY FS_Singleton
  <1>4. IsFiniteSet({p, q}) /\ Cardinality({p, q}) = 2
    <2>1. IsFiniteSet({p} \cup {q}) /\ Cardinality({p} \cup {q}) = Cardinality({p}) + 1
      BY <1>3, FS_AddElement
    <2>2. {p} \cup {q} = {p, q}
      OBVIOUS
    <2> QED BY <1>3, <2>1, <2>2
  <1>5. Cardinality({p, q, r}) = 3
    <2>1. Cardinality({p, q} \cup {r}) = Cardinality({p, q}) + 1
      BY <1>4, FS_AddElement
    <2>2. {p, q} \cup {r} = {p, q, r}
      OBVIOUS
    <2> QED BY <1>4, <2>1, <2>2
  <1>6. Cardinality({p, q, r}) <= Cardinality(Crew)
    BY <1>1, <1>2, FS_Subset
  <1> QED BY <1>1, <1>5, <1>6

LEMMA OwnersHold == OInv => OneOwner /\ OneServer /\ ServerIsRecorded
  <1> SUFFICES ASSUME OInv PROVE OneOwner /\ OneServer /\ ServerIsRecorded
    OBVIOUS
  <1>1. OneOwner
    <2>1. \A p \in Owners : p \in Procs /\ Holds(p)
      BY DEF Owners, Running, Holds, Holding
    <2>2. \A p, q \in Owners : p = q
      BY <2>1, Alone
    <2> QED BY <2>2, AtMostOne DEF OneOwner
  <1>2. OneServer
    <2> DEFINE Servers == {p \in Procs : Running(p, {"serving"})}
    <2>1. \A p \in Servers : p \in Procs /\ Holds(p)
      BY DEF Running, Holds, Holding
    <2>2. \A p, q \in Servers : p = q
      BY <2>1, Alone
    <2> HIDE DEF Servers
    <2>3. Cardinality(Servers) <= 1
      BY <2>2, AtMostOne
    <2> QED BY <2>3 DEF OneServer, Servers
  <1>3. ServerIsRecorded
    BY DEF OInv, ServersRecorded, ServerIsRecorded, Running
  <1> QED BY <1>1, <1>2, <1>3

\* "The winner holds it until daemon shutdown; contenders cannot pass
\* inspection, bind, or publication concurrently" (canonical-daemon.ts): so it
\* is for any two commands, whatever a dead daemon left and whoever dies when.
THEOREM OwnerTheorem == Spec => []OneOwnerOfTwo
  <1> DEFINE Inv == Two => OInv
  <1>1. Init => Inv
    BY InitOInv
  <1>2. Inv /\ [Next]_vars => Inv'
    <2> SUFFICES ASSUME Inv, [Next]_vars, Two' PROVE OInv'
      OBVIOUS
    <2>1. Two
      BY IntentConstant DEF Two
    <2> QED BY <2>1, NextOInv
  <1>3. Inv => OneOwnerOfTwo
    BY CountsTwo, OwnersHold DEF OneOwnerOfTwo
  <1> QED BY <1>1, <1>2, <1>3, PTL DEF Spec

\* When no more than two processes were started, at most one of them comes to
\* serve: the other finds the claim busy, or the record taken.
THEOREM ServerTheorem == Spec /\ Two => []OneServer
  <1>1. OInv => OneServer
    BY OwnersHold
  <1> QED BY <1>1, InitOInv, NextOInv, PTL DEF Spec

\* When no more than two processes were started, a daemon that serves can be
\* found in the record, all the time.
THEOREM RecordTheorem == Spec /\ Two => []ServerIsRecorded
  <1>1. OInv => ServerIsRecorded
    BY OwnersHold
  <1> QED BY <1>1, InitOInv, NextOInv, PTL DEF Spec

LEMMA BindingStep ==
  OInv /\ [Next]_vars =>
    [Bound(record) /\ ~Bound(record') =>
       \E p \in Procs : intent[p] = "release" /\ captured'[p] = record]_vars
  <1> SUFFICES ASSUME OInv, Next, Bound(record), ~Bound(record')
               PROVE  \E p \in Procs : intent[p] = "release" /\ captured'[p] = record
    BY DEF vars
  <1>1. record # None /\ record' # record
    BY DEF Bound
  <1>2. PICK p \in Procs : Capture(p) \/ Relink(p) \/ Publish(p)
    BY <1>1 DEF Next, Run, Reads, Release, Start, Admit, Claim, Readmit, Contend, Retire,
                CheckMoved, Restore, Clear, Match, Inspect, Bind, AssertHeld, Compare, Recompare,
                Confirm, Stopped, Ask, Await, Quiesce, Stop, Die
  <1>3. CASE Capture(p)
    <2>1. alive[p] /\ pc[p] = "capturing" /\ captured' = [captured EXCEPT ![p] = record]
      BY <1>1, <1>3 DEF Capture, At, Release
    <2>2. intent[p] = "release"
      BY <2>1 DEF OInv, BindingsSpared
    <2>3. captured'[p] = record
      BY <2>1 DEF OInv, IInv, TypeOK
    <2> QED BY <2>2, <2>3
  <1>4. CASE Relink(p)
    BY <1>1, <1>4 DEF Relink
  <1>5. CASE Publish(p)
    <2>1. Replaces(p) /\ record' = Publication(p)
      BY <1>1, <1>5 DEF Publish, Release
    <2>2. record' # None
      BY <2>1, NoneAssumption DEF Publication, Writers
    <2> QED BY <2>1, <2>2 DEF Replaces, Publication, Bound
  <1> QED BY <1>2, <1>3, <1>4, <1>5

\* When no more than two processes were started, nothing but a supervisor's own
\* release takes its reservation, or its daemon's binding, out of the record.
THEOREM BindingTheorem == Spec /\ Two => BindingsHold
  <1> QED BY InitOInv, NextOInv, BindingStep, PTL DEF Spec, BindingsHold

=============================================================================
