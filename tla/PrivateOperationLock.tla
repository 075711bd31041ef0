------------------------ MODULE PrivateOperationLock ------------------------
(***************************************************************************)
(* acquirePrivateOperationLock and the release it returns: a lock made of  *)
(* one directory that holds one file named after its owner's nonce.  Every *)
(* call is made by a process of its own, and stands for its nonce, its     *)
(* staging directory and its process id.  An action is one system call of  *)
(* one process; a process may die between any two of them.                 *)
(***************************************************************************)
EXTENDS Naturals

CONSTANTS
  Calls,      \* calls of acquirePrivateOperationLock
  None,       \* no entry at the lock's path
  Legacy      \* the lock file an older, interrupted downloader left there

VARIABLES
  lock,       \* None, Legacy, or the directory: whose staging it was, and its owner file
  pc,         \* where each call is
  target,     \* the owner a call has read, or itself when it releases
  witness,    \* the directory a call has seen
  alive,      \* whether the process of a call lives
  legacyAlive \* whether the process of the older downloader lives

vars == <<lock, pc, target, witness, alive, legacyAlive>>

ASSUME NoneAssumption == None \notin Calls
ASSUME LegacyAssumption ==
  Legacy # None /\ \A c \in Calls, f \in BOOLEAN : Legacy # [dir |-> c, owned |-> f]
                                                   /\ None # [dir |-> c, owned |-> f]

Directories == [dir : Calls, owned : BOOLEAN]
Acquiring == {"arriving", "trusting", "renaming", "looking", "opening", "listing",
              "reading", "probing", "rereading", "fileReading", "fileProbing",
              "fileRereading", "fileUnlinking", "waiting"}
Retiring == {"checking", "unlinking", "removing"}

TypeOK ==
  /\ lock \in {None, Legacy} \cup Directories
  /\ pc \in [Calls -> Acquiring \cup Retiring \cup {"new", "held", "released", "failed"}]
  /\ target \in [Calls -> Calls \cup {None}]
  /\ witness \in [Calls -> Calls \cup {None}]
  /\ alive \in [Calls -> BOOLEAN]
  /\ legacyAlive \in BOOLEAN

Init ==
  /\ lock \in {None, Legacy}
  /\ pc = [c \in Calls |-> "new"]
  /\ target = [c \in Calls |-> None]
  /\ witness = [c \in Calls |-> None]
  /\ alive = [c \in Calls |-> TRUE]
  /\ legacyAlive \in BOOLEAN

-----------------------------------------------------------------------------
(* Helpers *)

IsDirectory == lock \in Directories
\* The file of owner n is where lock/owner-<n> would be opened.
OwnerFile(n) == IsDirectory /\ lock.dir = n /\ lock.owned

At(c, place) == alive[c] /\ pc[c] = place
Goto(c, place) == pc' = [pc EXCEPT ![c] = place]
\* A step of call c that reads the file system at most.
Reads(c, place) == Goto(c, place) /\ UNCHANGED <<lock, target, witness, alive, legacyAlive>>

\* Where a retirement that is over continues: a release is done, a contender
\* waits for its next attempt.
After(c) == IF target[c] = c THEN "released" ELSE "waiting"

-----------------------------------------------------------------------------
(* Acquisition *)

\* The private staging directory, with the owner's file in it.
Stage(c) == At(c, "new") /\ Reads(c, "arriving")

\* lstat(lock) and trusted(lock): what was a file must not be a directory by
\* the second look.
Arrive(c) ==
  /\ At(c, "arriving")
  /\ Reads(c, IF lock = Legacy THEN "trusting" ELSE "renaming")
Trust(c) ==
  /\ At(c, "trusting")
  /\ Reads(c, IF IsDirectory THEN "failed" ELSE "renaming")

\* rename(staging, lock) replaces nothing or an empty directory.
Rename(c) ==
  /\ At(c, "renaming")
  /\ IF lock = None \/ (IsDirectory /\ ~lock.owned)
       THEN /\ lock' = [dir |-> c, owned |-> TRUE]
            /\ target' = [target EXCEPT ![c] = c]
            /\ witness' = [witness EXCEPT ![c] = c]
            /\ Goto(c, "held")
            /\ UNCHANGED <<alive, legacyAlive>>
       ELSE Reads(c, "looking")

\* lstat(lock) decides between the two formats.
Look(c) ==
  /\ At(c, "looking")
  /\ IF IsDirectory
       THEN /\ witness' = [witness EXCEPT ![c] = lock.dir] /\ Goto(c, "opening")
            /\ UNCHANGED <<lock, target, alive, legacyAlive>>
       ELSE Reads(c, IF lock = None THEN "waiting" ELSE "fileReading")

\* A slip: the entry is kept where its owner is meant.
OpenEntry(c) ==
  /\ At(c, "opening")
  /\ target' = [target EXCEPT ![c] = lock] /\ Goto(c, "listing")
  /\ UNCHANGED <<lock, witness, alive, legacyAlive>>
\* opendir: not always the directory that lstat saw.
Open(c) ==
  /\ At(c, "opening")
  /\ IF IsDirectory
       THEN /\ target' = [target EXCEPT ![c] = lock.dir] /\ Goto(c, "listing")
            /\ UNCHANGED <<lock, witness, alive, legacyAlive>>
       ELSE Reads(c, "waiting")

\* The owner's file is listed, then read; a directory without one is a
\* retirement gap, and a file may be gone before it is read.
SeeOwner(c, from, to) ==
  /\ At(c, from)
  /\ Reads(c, IF OwnerFile(target[c]) THEN to ELSE "waiting")

\* Slips: an owner that answers is retired like one that does not; a dead
\* owner is left alone.
ProbeNothing(c) == At(c, "probing") /\ Reads(c, "rereading")
ProbeNeverDead(c) == At(c, "probing") /\ Reads(c, "waiting")
\* dead(pid): only ESRCH proves it.
Probe(c) ==
  /\ At(c, "probing")
  /\ Reads(c, IF alive[target[c]] THEN "waiting" ELSE "rereading")

-----------------------------------------------------------------------------
(* The older format: the lock is a file *)

\* readOwner(lock): a directory in its place is an error that ends the call.
ReadFile(c, from, to) ==
  /\ At(c, from)
  /\ Reads(c, CASE lock = Legacy -> to
                [] lock = None -> "waiting"
                [] OTHER -> "failed")

ProbeFile(c) ==
  /\ At(c, "fileProbing")
  /\ Reads(c, IF legacyAlive THEN "waiting" ELSE "fileRereading")

\* unlink cannot remove a directory.
UnlinkFile(c) ==
  /\ At(c, "fileUnlinking") /\ Goto(c, "waiting")
  /\ lock' = (IF lock = Legacy THEN None ELSE lock)
  /\ UNCHANGED <<target, witness, alive, legacyAlive>>

-----------------------------------------------------------------------------
(* retire: of a dead owner, or of one's own lock *)

CheckDirectory(c) ==
  /\ At(c, "checking")
  /\ Reads(c, IF IsDirectory /\ lock.dir = witness[c] THEN "unlinking" ELSE After(c))

\* A slip: whatever the directory holds is removed.
UnlinkAnything(c) ==
  /\ At(c, "unlinking") /\ Goto(c, "removing")
  /\ lock' = (IF IsDirectory THEN [lock EXCEPT !.owned = FALSE] ELSE lock)
  /\ UNCHANGED <<target, witness, alive, legacyAlive>>
\* A successor's file has another name, so only this owner's is removed.
UnlinkOwner(c) ==
  /\ At(c, "unlinking")
  /\ IF OwnerFile(target[c])
       THEN /\ lock' = [lock EXCEPT !.owned = FALSE] /\ Goto(c, "removing")
            /\ UNCHANGED <<target, witness, alive, legacyAlive>>
       ELSE Reads(c, After(c))

\* rmdir removes whatever empty directory is there by now.
RemoveDirectory(c) ==
  /\ At(c, "removing") /\ Goto(c, After(c))
  /\ lock' = (IF IsDirectory /\ ~lock.owned THEN None ELSE lock)
  /\ UNCHANGED <<target, witness, alive, legacyAlive>>

-----------------------------------------------------------------------------
(* Waiting, timeouts, release and the end of processes *)

Retry(c) == At(c, "waiting") /\ Reads(c, "arriving")
\* The deadline has passed: the call throws and cleans its staging directory.
TimeOut(c) == At(c, "waiting") /\ Reads(c, "failed")
Release(c) == At(c, "held") /\ Reads(c, "checking")

Die(c) ==
  /\ alive[c] /\ alive' = [alive EXCEPT ![c] = FALSE]
  /\ UNCHANGED <<lock, pc, target, witness, legacyAlive>>

LegacyDies ==
  /\ legacyAlive /\ legacyAlive' = FALSE
  /\ UNCHANGED <<lock, pc, target, witness, alive>>

\* What a call that has started goes on to do by itself.
Attempt(c) ==
  \/ Arrive(c) \/ Trust(c) \/ Rename(c) \/ Look(c) \/ Open(c)
  \/ SeeOwner(c, "listing", "reading") \/ SeeOwner(c, "reading", "probing")
  \/ Probe(c) \/ SeeOwner(c, "rereading", "checking")
  \/ ReadFile(c, "fileReading", "fileProbing") \/ ProbeFile(c)
  \/ ReadFile(c, "fileRereading", "fileUnlinking") \/ UnlinkFile(c)
  \/ CheckDirectory(c) \/ UnlinkOwner(c) \/ RemoveDirectory(c) \/ Retry(c)

Next ==
  \/ \E c \in Calls : Stage(c) \/ Attempt(c) \/ TimeOut(c) \/ Release(c) \/ Die(c)
  \/ LegacyDies

Spec == Init /\ [][Next]_vars

\* A process that lives runs: its system calls return and its waits end.
FairSpec == Spec /\ \A c \in Calls : WF_vars(Attempt(c))

-----------------------------------------------------------------------------
(* Properties *)

Holders == {c \in Calls : At(c, "held")}

\* The lock directory of a holder stays, with its owner file, until that holder
\* releases it or dies, whatever contenders who saw an earlier owner still do.
HolderKeepsLock == \A c \in Holders : OwnerFile(c)

\* What one process does with the entries of the others' is, to the callers, a
\* lock that one call at a time holds.
Promise == INSTANCE OperationLock WITH holders <- Holders
Exclusive == Promise!Spec

\* A lock whose owner has died does not keep the others out: as long as calls
\* are waiting and nobody alive holds it, one of them gets it or they give up.
Waiting(c) == alive[c] /\ pc[c] \in Acquiring \cup Retiring /\ target[c] # c
AbandonedIsTaken ==
  (Holders = {} /\ \E c \in Calls : Waiting(c)) ~>
    (Holders # {} \/ legacyAlive \/ ~\E c \in Calls : Waiting(c))

=============================================================================
