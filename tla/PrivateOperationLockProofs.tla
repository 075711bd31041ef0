---------------------- MODULE PrivateOperationLockProofs ----------------------
(***************************************************************************)
(* PrivateOperationLock, for any number of calls: its types, that a holder *)
(* keeps its directory and its owner file, and that it implements          *)
(* OperationLock.                                                          *)
(***************************************************************************)
EXTENDS PrivateOperationLock, TLAPS

\* A holder's target is itself, so that its release retires its own lock.
HoldersOwn == \A c \in Holders : OwnerFile(c) /\ target[c] = c

\* Whoever goes to retire another call's lock has seen that call's process
\* dead, and processes do not come back.
OnlyTheDeadAreRetired ==
  \A c \in Calls :
    (pc[c] \in {"rereading", "checking", "unlinking"} /\ target[c] # c) =>
      ~alive[target[c]]

IInv == TypeOK /\ HoldersOwn /\ OnlyTheDeadAreRetired

-----------------------------------------------------------------------------
(* The shape of the steps *)

\* A directory is the only entry with fields.
LEMMA DirectoryFields ==
  ASSUME TypeOK, IsDirectory
  PROVE  lock.dir \in Calls /\ lock.owned \in BOOLEAN /\ lock # None /\ lock # Legacy
<1> USE NoneAssumption, LegacyAssumption
<1>1. PICK c \in Calls, f \in BOOLEAN : lock = [dir |-> c, owned |-> f]
  BY DEF IsDirectory, Directories
<1> QED BY <1>1

\* Only one call can find its own owner file in the lock.
LEMMA OneOwner ==
  ASSUME NEW c, NEW d, OwnerFile(c), OwnerFile(d)
  PROVE  c = d
BY DEF OwnerFile

Places == Acquiring \cup Retiring \cup {"new", "held", "released", "failed"}
Retires == {"rereading", "checking", "unlinking"}

\* What a step may do to the set of holders: nothing, or a step of OperationLock.
HoldersMove ==
  \/ Holders' = Holders
  \/ \E c \in Calls : Holders = {} /\ Holders' = {c}
  \/ \E c \in Holders : Holders' = Holders \ {c}

\* A step that only reads the file system, and does not acquire.
LEMMA ReadingStep ==
  ASSUME IInv, NEW c \in Calls, NEW place \in Places, Reads(c, place),
         place # "held",
         (place \in Retires /\ target[c] # c) => ~alive[target[c]]
  PROVE  IInv' /\ HoldersMove
<1>1. TypeOK'
  BY DEF IInv, TypeOK, Reads, Goto, Places, Directories
<1>2. Holders' = Holders \ {c}
  BY DEF IInv, TypeOK, Reads, Goto, Holders, At
<1>3. HoldersOwn'
  BY <1>2 DEF IInv, HoldersOwn, Reads, OwnerFile, IsDirectory, Directories
<1>4. OnlyTheDeadAreRetired'
  BY DEF IInv, TypeOK, OnlyTheDeadAreRetired, Reads, Goto, Retires
<1>5. HoldersMove
  <2>1. CASE c \in Holders
    BY <1>2, <2>1 DEF HoldersMove
  <2>2. CASE c \notin Holders
    BY <1>2, <2>2 DEF HoldersMove
  <2> QED BY <2>1, <2>2
<1> QED BY <1>1, <1>3, <1>4, <1>5 DEF IInv

\* A step of a call that does not hold the lock, and that changes the lock,
\* what the call has seen, or both, leaves the invariant when no holder's
\* directory is touched.
LEMMA OutsiderStep ==
  ASSUME IInv, NEW c \in Calls, NEW place \in Places \ {"held"},
         pc[c] # "held", Goto(c, place), UNCHANGED <<alive, legacyAlive>>,
         TypeOK',
         \A d \in Calls \ {c} : target'[d] = target[d],
         \A d \in Holders : OwnerFile(d)',
         place \notin Retires
  PROVE  IInv' /\ HoldersMove
<1>1. Holders' = Holders /\ c \notin Holders
  BY DEF IInv, TypeOK, Goto, Holders, At
<1>2. HoldersOwn'
  <2>1. \A d \in Holders : d \in Calls \ {c}
    BY <1>1 DEF Holders
  <2> QED BY <1>1, <2>1 DEF IInv, HoldersOwn
<1>3. OnlyTheDeadAreRetired'
  BY DEF IInv, TypeOK, OnlyTheDeadAreRetired, Goto, Retires
<1> QED BY <1>1, <1>2, <1>3 DEF IInv, HoldersMove

-----------------------------------------------------------------------------
(* The steps that write *)

\* A directory is published only where no holder's is.
LEMMA RenameStep ==
  ASSUME IInv, NEW c \in Calls, Rename(c)
  PROVE  IInv' /\ HoldersMove
<1>1. CASE lock = None \/ (IsDirectory /\ ~lock.owned)
  <2>1. Holders = {}
    <3> SUFFICES ASSUME NEW d \in Holders PROVE FALSE
      OBVIOUS
    <3>1. OwnerFile(d) /\ TypeOK
      BY DEF IInv, HoldersOwn
    <3> QED BY <1>1, <3>1, DirectoryFields DEF OwnerFile
  <2>2. /\ lock' = [dir |-> c, owned |-> TRUE]
        /\ target' = [target EXCEPT ![c] = c]
        /\ witness' = [witness EXCEPT ![c] = c]
        /\ pc' = [pc EXCEPT ![c] = "held"]
        /\ UNCHANGED <<alive, legacyAlive>>
        /\ alive[c]
    BY <1>1 DEF Rename, Goto, At
  <2>3. TypeOK'
    BY <2>2 DEF IInv, TypeOK, Directories
  <2>4. Holders' = {c}
    BY <2>1, <2>2 DEF IInv, TypeOK, Holders, At
  <2>5. HoldersOwn'
    BY <2>2, <2>4 DEF IInv, TypeOK, HoldersOwn, OwnerFile, IsDirectory, Directories
  <2>6. OnlyTheDeadAreRetired'
    BY <2>2 DEF IInv, TypeOK, OnlyTheDeadAreRetired
  <2> QED BY <2>1, <2>3, <2>4, <2>5, <2>6 DEF IInv, HoldersMove
<1>2. CASE ~(lock = None \/ (IsDirectory /\ ~lock.owned))
  BY <1>2, ReadingStep DEF Rename, Places, Acquiring, Retires
<1> QED BY <1>1, <1>2

LEMMA LookStep ==
  ASSUME IInv, NEW c \in Calls, Look(c)
  PROVE  IInv' /\ HoldersMove
<1>1. CASE IsDirectory
  <2>1. /\ witness' = [witness EXCEPT ![c] = lock.dir] /\ Goto(c, "opening")
        /\ UNCHANGED <<lock, target, alive, legacyAlive>> /\ pc[c] = "looking"
    BY <1>1 DEF Look, At
  <2>2. TypeOK'
    BY <1>1, <2>1, DirectoryFields DEF IInv, TypeOK, Goto, Acquiring, Directories
  <2>3. \A d \in Holders : OwnerFile(d)'
    BY <2>1 DEF IInv, HoldersOwn, OwnerFile, IsDirectory, Directories
  <2> QED BY <2>1, <2>2, <2>3, OutsiderStep DEF Places, Acquiring, Retires
<1>2. CASE ~IsDirectory
  BY <1>2, ReadingStep DEF Look, Places, Acquiring, Retires
<1> QED BY <1>1, <1>2

LEMMA OpenStep ==
  ASSUME IInv, NEW c \in Calls, Open(c)
  PROVE  IInv' /\ HoldersMove
<1>1. CASE IsDirectory
  <2>1. /\ target' = [target EXCEPT ![c] = lock.dir] /\ Goto(c, "listing")
        /\ UNCHANGED <<lock, witness, alive, legacyAlive>> /\ pc[c] = "opening"
    BY <1>1 DEF Open, At
  <2>2. TypeOK'
    BY <1>1, <2>1, DirectoryFields DEF IInv, TypeOK, Goto, Acquiring, Directories
  <2>3. \A d \in Holders : OwnerFile(d)'
    BY <2>1 DEF IInv, HoldersOwn, OwnerFile, IsDirectory, Directories
  <2>4. \A d \in Calls \ {c} : target'[d] = target[d]
    BY <2>1 DEF IInv, TypeOK
  <2> QED BY <2>1, <2>2, <2>3, <2>4, OutsiderStep DEF Places, Acquiring, Retires
<1>2. CASE ~IsDirectory
  BY <1>2, ReadingStep DEF Open, Places, Acquiring, Retires
<1> QED BY <1>1, <1>2

LEMMA UnlinkFileStep ==
  ASSUME IInv, NEW c \in Calls, UnlinkFile(c)
  PROVE  IInv' /\ HoldersMove
<1>1. /\ Goto(c, "waiting") /\ UNCHANGED <<target, witness, alive, legacyAlive>>
      /\ lock' = (IF lock = Legacy THEN None ELSE lock) /\ pc[c] = "fileUnlinking"
  BY DEF UnlinkFile, At
<1>2. TypeOK'
  BY <1>1 DEF IInv, TypeOK, Goto, Acquiring, Directories
<1>3. \A d \in Holders : OwnerFile(d)'
  <2> SUFFICES ASSUME NEW d \in Holders PROVE OwnerFile(d)'
    OBVIOUS
  <2>1. OwnerFile(d) /\ TypeOK
    BY DEF IInv, HoldersOwn
  <2>2. lock # Legacy
    BY <2>1, DirectoryFields DEF OwnerFile
  <2> QED BY <1>1, <2>1, <2>2 DEF OwnerFile, IsDirectory, Directories
<1> QED BY <1>1, <1>2, <1>3, OutsiderStep DEF Places, Acquiring, Retires

\* The file that goes belonged to a dead call, or to the call itself, which no
\* longer holds.
LEMMA UnlinkOwnerStep ==
  ASSUME IInv, NEW c \in Calls, UnlinkOwner(c)
  PROVE  IInv' /\ HoldersMove
<1>1. CASE OwnerFile(target[c])
  <2>1. /\ Goto(c, "removing") /\ UNCHANGED <<target, witness, alive, legacyAlive>>
        /\ lock' = [lock EXCEPT !.owned = FALSE] /\ At(c, "unlinking")
    BY <1>1 DEF UnlinkOwner
  <2>2. TypeOK'
    BY <1>1, <2>1 DEF IInv, TypeOK, Goto, Retiring, OwnerFile, IsDirectory, Directories
  <2>3. Holders = {}
    <3> SUFFICES ASSUME NEW d \in Holders PROVE FALSE
      OBVIOUS
    <3>1. OwnerFile(d) /\ alive[d] /\ pc[d] = "held"
      BY DEF IInv, HoldersOwn, Holders, At
    <3>2. d = target[c]
      BY <1>1, <3>1, OneOwner
    <3>3. d # c
      BY <2>1, <3>1 DEF At
    <3> QED BY <2>1, <3>1, <3>2, <3>3 DEF IInv, OnlyTheDeadAreRetired, At
  <2> QED BY <2>1, <2>2, <2>3, OutsiderStep DEF Places, Retiring, Retires, At
<1>2. CASE ~OwnerFile(target[c])
  BY <1>2, ReadingStep DEF UnlinkOwner, After, Places, Acquiring, Retires
<1> QED BY <1>1, <1>2

LEMMA RemoveDirectoryStep ==
  ASSUME IInv, NEW c \in Calls, RemoveDirectory(c)
  PROVE  IInv' /\ HoldersMove
<1>1. /\ Goto(c, After(c)) /\ UNCHANGED <<target, witness, alive, legacyAlive>>
      /\ lock' = (IF IsDirectory /\ ~lock.owned THEN None ELSE lock)
      /\ pc[c] = "removing"
  BY DEF RemoveDirectory, At
<1>2. TypeOK'
  BY <1>1 DEF IInv, TypeOK, Goto, After, Acquiring, Directories
<1>3. \A d \in Holders : OwnerFile(d)'
  BY <1>1 DEF IInv, HoldersOwn, OwnerFile, IsDirectory, Directories
<1>4. After(c) \in Places \ {"held"} /\ After(c) \notin Retires
  BY DEF After, Places, Acquiring, Retires
<1> QED BY <1>1, <1>2, <1>3, <1>4, OutsiderStep

LEMMA DieStep ==
  ASSUME IInv, NEW c \in Calls, Die(c)
  PROVE  IInv' /\ HoldersMove
<1>1. TypeOK'
  BY DEF IInv, TypeOK, Die, Directories
<1>2. Holders' = Holders \ {c}
  BY DEF IInv, TypeOK, Die, Holders, At
<1>3. HoldersOwn'
  BY <1>2 DEF IInv, HoldersOwn, Die, OwnerFile, IsDirectory, Directories
<1>4. OnlyTheDeadAreRetired'
  BY DEF IInv, TypeOK, OnlyTheDeadAreRetired, Die
<1>5. HoldersMove
  BY <1>2 DEF HoldersMove
<1> QED BY <1>1, <1>3, <1>4, <1>5 DEF IInv

\* The steps that only read: each goes on to a place that is not "held", and to
\* a retirement only from the sight of a dead owner.
LEMMA AttemptStep ==
  ASSUME IInv, NEW c \in Calls, Attempt(c)
  PROVE  IInv' /\ HoldersMove
<1> USE DEF Places, Acquiring, Retiring, Retires
<1>1. CASE Arrive(c)
  BY <1>1, ReadingStep DEF Arrive
<1>2. CASE Trust(c)
  BY <1>2, ReadingStep DEF Trust
<1>3. CASE SeeOwner(c, "listing", "reading")
  BY <1>3, ReadingStep DEF SeeOwner
<1>4. CASE SeeOwner(c, "reading", "probing")
  BY <1>4, ReadingStep DEF SeeOwner
<1>5. CASE Probe(c)
  BY <1>5, ReadingStep DEF Probe
<1>6. CASE SeeOwner(c, "rereading", "checking")
  <2>1. target[c] # c => ~alive[target[c]]
    BY <1>6 DEF IInv, OnlyTheDeadAreRetired, SeeOwner, At
  <2> QED BY <1>6, <2>1, ReadingStep DEF SeeOwner
<1>7. CASE ReadFile(c, "fileReading", "fileProbing")
  BY <1>7, ReadingStep DEF ReadFile
<1>8. CASE ProbeFile(c)
  BY <1>8, ReadingStep DEF ProbeFile
<1>9. CASE ReadFile(c, "fileRereading", "fileUnlinking")
  BY <1>9, ReadingStep DEF ReadFile
<1>10. CASE CheckDirectory(c)
  <2>1. target[c] # c => ~alive[target[c]]
    BY <1>10 DEF IInv, OnlyTheDeadAreRetired, CheckDirectory, At
  <2> QED BY <1>10, <2>1, ReadingStep DEF CheckDirectory, After
<1>11. CASE Retry(c)
  BY <1>11, ReadingStep DEF Retry
<1> QED
  BY <1>1, <1>2, <1>3, <1>4, <1>5, <1>6, <1>7, <1>8, <1>9, <1>10, <1>11, RenameStep,
     LookStep, OpenStep, UnlinkFileStep, UnlinkOwnerStep, RemoveDirectoryStep
  DEF Attempt

LEMMA NextStep ==
  ASSUME IInv, [Next]_vars
  PROVE  IInv' /\ HoldersMove
<1> USE DEF Places, Acquiring, Retires
<1>1. ASSUME NEW c \in Calls, Stage(c) PROVE IInv' /\ HoldersMove
  BY <1>1, ReadingStep DEF Stage
<1>2. ASSUME NEW c \in Calls, TimeOut(c) PROVE IInv' /\ HoldersMove
  BY <1>2, ReadingStep DEF TimeOut
<1>3. ASSUME NEW c \in Calls, Release(c) PROVE IInv' /\ HoldersMove
  <2>1. target[c] = c
    BY <1>3 DEF IInv, HoldersOwn, Holders, Release
  <2> QED BY <1>3, <2>1, ReadingStep DEF Release, Retiring
<1>4. CASE LegacyDies \/ UNCHANGED vars
  <2>1. UNCHANGED <<lock, pc, target, witness, alive>> /\ legacyAlive' \in BOOLEAN
    BY <1>4 DEF LegacyDies, vars, IInv, TypeOK
  <2>2. Holders' = Holders
    BY <2>1 DEF Holders, At
  <2> QED
    BY <2>1, <2>2 DEF IInv, TypeOK, HoldersOwn, OnlyTheDeadAreRetired, HoldersMove,
                      OwnerFile, IsDirectory, Directories
<1> QED BY <1>1, <1>2, <1>3, <1>4, AttemptStep, DieStep DEF Next

LEMMA InitInv == Init => IInv
BY DEF Init, IInv, TypeOK, HoldersOwn, OnlyTheDeadAreRetired, Holders, At, Acquiring

LEMMA Invariance == Spec => []IInv
BY InitInv, NextStep, PTL DEF Spec

-----------------------------------------------------------------------------
(* The theorems *)

\* The types of PrivateOperationLock hold, whatever processes do and when they die.
THEOREM LockTypeCorrect == Spec => []TypeOK
<1>1. IInv => TypeOK
  BY DEF IInv
<1> QED BY Invariance, <1>1, PTL

\* private-operation-lock.ts never takes a lock from a process that lives: the
\* holder's directory and its owner file stay until it releases them or dies.
THEOREM HolderTheorem == Spec => []HolderKeepsLock
<1>1. IInv => HolderKeepsLock
  BY DEF IInv, HoldersOwn, HolderKeepsLock
<1> QED BY Invariance, <1>1, PTL

\* The system calls of any number of processes implement a lock that one call
\* at a time holds.
THEOREM ExclusiveTheorem == Spec => Exclusive
<1>1. Init => Promise!Init
  BY DEF Init, Promise!Init, Holders, At
<1>2. HoldersMove => [Promise!Next]_Holders
  BY DEF HoldersMove, Holders, Promise!Next, Promise!Acquire, Promise!Leave
<1> QED BY <1>1, <1>2, Invariance, NextStep, PTL DEF Spec, Exclusive, Promise!Spec
=============================================================================
