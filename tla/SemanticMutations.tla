--------------------------- MODULE SemanticMutations ---------------------------
(* SessionSemanticMutationExecutor: the one lane of each session of a daemon in *)
(* which operations on its tmux session run, with the ledger of operations that *)
(* answers retries and the table of observations that the tmux hooks report to. *)
(*                                                                              *)
(* A retry that finds its record is given the promise in it, and one that names *)
(* another intent is refused: neither changes anything, and neither is a step.  *)
EXTENDS Naturals, Sequences, FiniteSets

CONSTANTS
  None,        \* no session
  Names,       \* names of tmux sessions
  Workspaces,  \* workspaces of the registry
  Ids,         \* operation ids
  Capacity,    \* SESSION_RUNTIME_OPERATION_LEDGER_CAPACITY
  Scenario,    \* the events that may happen
  MaxRuns,     \* bound: operations are accepted only below this number
  MaxLost      \* bound: workspaces are lost only below this number of operations

ASSUME LaneAssumption ==
  None \notin Names /\ Capacity \in Nat \ {0} /\ MaxRuns \in Nat /\ MaxLost \in Nat

VARIABLES
  bound,    \* the registry: the session of each workspace
  runs,     \* every accepted operation, by the sequence of its acceptance
  kept,     \* #operations: the runs whose records are in a ledger
  tails,    \* #tails: the run at the end of a session's chain, or 0
  pend,     \* #pending: the run that awaits an observation, or 0
  disposed  \* #disposed, and whether dispose has ended

vars == <<bound, runs, kept, tails, pend, disposed>>

\* "send" stands for what is observed (sends and reads), "edit" for what
\* awaits tmux, "rename" for what changes the name of the session.
Kinds == {"send", "edit"} \cup (Scenario \cap {"rename"})
Lanes == Names \cup {None}
Runs ==
  [id : Ids, ws : Workspaces, kind : Kinds, lane : Lanes, after : Nat,
   st : {"queued", "executing", "observing", "settled"}, effect : BOOLEAN,
   obs : {"none", "seen", "refused"}]

Init ==
  /\ bound \in [Workspaces -> Lanes]
  /\ \A v, w \in Workspaces : (bound[v] = bound[w] /\ bound[v] # None) => v = w
  /\ runs = <<>> /\ kept = {}
  /\ tails = [n \in Names |-> 0]
  /\ pend = [n \in Names |-> [i \in Ids |-> 0]]
  /\ disposed = "no"

Settled(r) == runs[r].st = "settled"
Ledger(l) == {r \in kept : runs[r].lane = l}

\* #makeOperationRoom: the oldest settled record makes room for a new one; when
\* every record is active there is none.
MakeRoom(l, k) ==
  IF Cardinality(Ledger(l)) < Capacity THEN k = kept
  ELSE \E r \in Ledger(l) :
         /\ Settled(r) /\ \A q \in Ledger(l) : Settled(q) => r <= q
         /\ k = kept \ {r}

\* submit, of an operation that is not in the ledger: it is accepted behind the
\* last one of its session.  A workspace without a session is refused, and
\* remembered in the ledger that all such workspaces share.
Submit(i, w, k) ==
  LET l == bound[w]
      n == Len(runs) + 1
      run == [id |-> i, ws |-> w, kind |-> k, lane |-> l, after |-> 0, st |-> "queued",
              effect |-> FALSE, obs |-> "none"]
  IN /\ disposed = "no" /\ Len(runs) < MaxRuns
     /\ \A r \in Ledger(l) : runs[r].id # i
     /\ \E room \in SUBSET kept : MakeRoom(l, room) /\ kept' = room \cup {n}
     /\ IF l = None
          THEN /\ runs' = Append(runs, [run EXCEPT !.st = "settled"])
               /\ UNCHANGED tails
          ELSE /\ runs' = Append(runs, [run EXCEPT !.after = tails[l]])
               /\ tails' = [tails EXCEPT ![l] = n]
     /\ UNCHANGED <<bound, pend, disposed>>

\* #deletePending, of an operation that is observed.
Forget(r) ==
  pend' = IF runs[r].kind = "send" THEN [pend EXCEPT ![runs[r].lane][runs[r].id] = 0]
          ELSE pend

\* #publish of its end: nobody awaits its observation any more.  What the
\* caller is answered is left out.
Settle(r) == [runs EXCEPT ![r].st = "settled", ![r].obs = "none"]

\* #run: the caller's authority has gone stale, or execute throws, perhaps after
\* the effect.  What awaits tmux can have none by then, and a rename that throws
\* has not reached the registry.
Throws(r) ==
  /\ \E e \in BOOLEAN :
       /\ e => runs[r].kind # "edit" /\ bound[runs[r].ws] # None
       /\ runs' = [Settle(r) EXCEPT ![r].effect = e]
  /\ Forget(r)
  /\ UNCHANGED bound

\* #run: what is to be observed is registered, and execute is called.
Executes(r) ==
  /\ runs[r].kind # "edit" => bound[runs[r].ws] # None
  /\ runs' = [runs EXCEPT ![r].st = "executing", ![r].effect = (runs[r].kind # "edit")]
  /\ pend' = IF runs[r].kind = "send" THEN [pend EXCEPT ![runs[r].lane][runs[r].id] = r]
             ELSE pend
  /\ IF runs[r].kind = "rename"
       THEN \E n \in Names : /\ \A w \in Workspaces : bound[w] # n
                             /\ bound' = [bound EXCEPT ![runs[r].ws] = n]
       ELSE UNCHANGED bound

\* Mutant of Begin: what follows an operation without effect never starts.
BeginAfterSuccess(r) ==
  /\ runs[r].st = "queued"
  /\ runs[r].after # 0 => (Settled(runs[r].after) /\ runs[runs[r].after].effect)
  /\ \/ disposed # "no" /\ runs' = Settle(r) /\ UNCHANGED <<bound, pend>>
     \/ disposed = "no" /\ (Throws(r) \/ Executes(r))
  /\ UNCHANGED <<kept, tails, disposed>>

\* An operation starts when the one before it has settled, however it did.
Begin(r) ==
  /\ runs[r].st = "queued" /\ (runs[r].after # 0 => Settled(runs[r].after))
  /\ \/ disposed # "no" /\ runs' = Settle(r) /\ UNCHANGED <<bound, pend>>
     \/ disposed = "no" /\ (Throws(r) \/ Executes(r))
  /\ UNCHANGED <<kept, tails, disposed>>

\* tmux carries out an operation that was sent to it; it may do so after the
\* executor was disposed.
Affect(r) ==
  /\ runs[r].st = "executing" /\ runs[r].kind = "edit" /\ ~runs[r].effect
  /\ bound[runs[r].ws] # None
  /\ runs' = [runs EXCEPT ![r].effect = TRUE]
  /\ UNCHANGED <<bound, kept, tails, pend, disposed>>

\* execute has returned: what needs an observation awaits it, the rest is over.
Returned(r) ==
  /\ runs[r].st = "executing"
  /\ runs' = IF runs[r].kind = "send" THEN [runs EXCEPT ![r].st = "observing"]
             ELSE Settle(r)
  /\ UNCHANGED <<bound, kept, tails, pend, disposed>>

\* execute has failed, or its result proves nothing.
Failed(r) ==
  /\ runs[r].st = "executing"
  /\ runs' = Settle(r)
  /\ Forget(r)
  /\ UNCHANGED <<bound, kept, tails, disposed>>

\* observe: a hook of tmux reports the effect of r, at any time after it.  What
\* awaits an observation under the name that the session has by then, with the
\* id and the target of r, is released.
Observe(r) ==
  LET n == bound[runs[r].ws] IN
  /\ runs[r].kind = "send" /\ runs[r].effect /\ n # None
  /\ LET p == pend[n][runs[r].id] IN
     /\ p # 0 /\ runs[p].ws = runs[r].ws /\ runs[p].obs = "none"
     /\ runs' = [runs EXCEPT ![p].obs = "seen"]
  /\ UNCHANGED <<bound, kept, tails, pend, disposed>>

\* The wait for the observation ends with it, by dispose, or by the timer.
Wait(r) ==
  /\ runs[r].st = "observing"
  /\ runs' = Settle(r)
  /\ Forget(r)
  /\ UNCHANGED <<bound, kept, tails, disposed>>

\* Mutant of Sweep: the end of a chain is forgotten though it has grown.
SweepAnyway(r) ==
  /\ Settled(r) /\ runs[r].lane # None /\ tails[runs[r].lane] # 0
  /\ tails' = [tails EXCEPT ![runs[r].lane] = 0]
  /\ UNCHANGED <<bound, runs, kept, pend, disposed>>

\* tail.finally: the end of a chain is forgotten, unless it has grown meanwhile.
Sweep(r) ==
  /\ Settled(r) /\ runs[r].lane # None /\ tails[runs[r].lane] = r
  /\ tails' = [tails EXCEPT ![runs[r].lane] = 0]
  /\ UNCHANGED <<bound, runs, kept, pend, disposed>>

Awaited(r) == \E n \in Names : \E i \in Ids : pend[n][i] = r

\* dispose: what awaits an observation is refused, ...
Dispose ==
  /\ "dispose" \in Scenario /\ disposed = "no"
  /\ disposed' = "draining"
  /\ runs' = [r \in 1..Len(runs) |->
                IF Awaited(r) /\ runs[r].obs = "none" THEN [runs[r] EXCEPT !.obs = "refused"]
                ELSE runs[r]]
  /\ UNCHANGED <<bound, kept, tails, pend>>

\* Mutant of Disposed: the chains are forgotten before they have come to their end.
DisposedAtOnce ==
  /\ disposed = "draining"
  /\ disposed' = "done" /\ kept' = {}
  /\ tails' = [n \in Names |-> 0]
  /\ pend' = [n \in Names |-> [i \in Ids |-> 0]]
  /\ UNCHANGED <<bound, runs>>

\* ... and when every chain has come to its end, all is forgotten.
Disposed ==
  /\ disposed = "draining"
  /\ \A n \in Names : tails[n] # 0 => Settled(tails[n])
  /\ disposed' = "done" /\ kept' = {}
  /\ tails' = [n \in Names |-> 0]
  /\ pend' = [n \in Names |-> [i \in Ids |-> 0]]
  /\ UNCHANGED <<bound, runs>>

\* The registry loses a workspace, and is given it again.
Remove(w) ==
  /\ Len(runs) < MaxLost /\ bound[w] # None
  /\ bound' = [bound EXCEPT ![w] = None]
  /\ UNCHANGED <<runs, kept, tails, pend, disposed>>

Add(w, n) ==
  /\ bound[w] = None /\ \A v \in Workspaces : bound[v] # n
  /\ bound' = [bound EXCEPT ![w] = n]
  /\ UNCHANGED <<runs, kept, tails, pend, disposed>>

Next ==
  \/ \E i \in Ids, w \in Workspaces, k \in Kinds : Submit(i, w, k)
  \/ \E r \in 1..Len(runs) :
       \/ Begin(r) \/ Affect(r) \/ Returned(r) \/ Failed(r)
       \/ Observe(r) \/ Wait(r) \/ Sweep(r)
  \/ Dispose \/ Disposed
  \/ \E w \in Workspaces : Remove(w) \/ \E n \in Names : Add(w, n)

Fairness ==
  /\ \A r \in 1..MaxRuns :
       WF_vars(r <= Len(runs) /\ (Begin(r) \/ Returned(r) \/ Failed(r) \/ Wait(r)))
  /\ WF_vars(Disposed)

Spec == Init /\ [][Next]_vars /\ Fairness
-----------------------------------------------------------------------------
TypeOK ==
  /\ bound \in [Workspaces -> Lanes]
  /\ runs \in Seq(Runs) /\ kept \subseteq 1..Len(runs)
  /\ tails \in [Names -> 0..Len(runs)]
  /\ pend \in [Names -> [Ids -> 0..Len(runs)]]
  /\ disposed \in {"no", "draining", "done"}

\* The ledger stays within its capacity, ...
LedgerBound == \A l \in Lanes : Cardinality(Ledger(l)) <= Capacity

\* ... and what is pending can be found: by a retry, whose operation would run a
\* second time if its record had been evicted, and by a hook that reports its
\* effect under the name of its lane.
PendingIsFound ==
  /\ LedgerBound
  /\ \A r \in 1..Len(runs) :
       /\ ~Settled(r) => r \in kept
       /\ runs[r].st = "observing" => pend[runs[r].lane][runs[r].id] = r

\* Operations under one name run one at a time in the order of acceptance, and
\* none is accepted again while it is under way, whatever becomes of them.
Job(r) ==
  [lane |-> r.lane, id |-> r.id, done |-> r.effect,
   stage |-> IF r.st = "queued" THEN "waiting"
             ELSE IF r.st = "settled" THEN "over" ELSE "working"]
Promise == INSTANCE OnceInOrder WITH jobs <- [r \in 1..Len(runs) |-> Job(runs[r])]
OnceInOrder == Promise!Spec

\* Whatever is accepted is answered, and dispose ends: when no more is accepted,
\* nothing is left to answer.
EverySettles ==
  <>[](disposed # "draining" /\ \A r \in 1..Len(runs) : Settled(r))
=============================================================================
