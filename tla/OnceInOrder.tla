------------------------------ MODULE OnceInOrder ------------------------------
(* What the lane of semantic mutations promises its callers: what is accepted  *)
(* under one name is worked on one operation at a time, in the order of        *)
(* acceptance, an operation takes effect at most once, and none is accepted    *)
(* again while it is under way.                                                *)
EXTENDS Naturals, Sequences

CONSTANTS Lanes, \* what an operation may be queued under
          Ids    \* the names callers give to operations

VARIABLE jobs    \* every accepted operation, in the order of acceptance

First(j) == \A k \in 1..(j - 1) :
              jobs[k].lane = jobs[j].lane => jobs[k].stage = "over"

Init == jobs = <<>>

\* An operation is accepted, or accepted and refused at once.
Accept(l, i) ==
  /\ \A k \in 1..Len(jobs) :
       (jobs[k].lane = l /\ jobs[k].id = i) => jobs[k].stage = "over"
  /\ \E s \in {"waiting", "over"} :
       jobs' = Append(jobs, [lane |-> l, id |-> i, done |-> FALSE, stage |-> s])

\* Its turn has come: it is given up, or begins, perhaps with its effect.
Begin(j) ==
  /\ jobs[j].stage = "waiting" /\ First(j)
  /\ \E s \in {"working", "over"}, d \in BOOLEAN :
       jobs' = [jobs EXCEPT ![j].stage = s, ![j].done = d]

Affect(j) ==
  /\ jobs[j].stage = "working" /\ ~jobs[j].done
  /\ jobs' = [jobs EXCEPT ![j].done = TRUE]

Finish(j) ==
  /\ jobs[j].stage = "working"
  /\ jobs' = [jobs EXCEPT ![j].stage = "over"]

Next ==
  \/ Len(jobs') > Len(jobs) /\ \E l \in Lanes, i \in Ids : Accept(l, i)
  \/ \E j \in 1..Len(jobs) : Begin(j) \/ Affect(j) \/ Finish(j)

Spec == Init /\ [][Next]_jobs
=============================================================================
