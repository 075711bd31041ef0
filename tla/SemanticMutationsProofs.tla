----------------------- MODULE SemanticMutationsProofs -----------------------
(***************************************************************************)
(* The lane of semantic mutations keeps its promise (OnceInOrder) and what *)
(* is pending in it can be found, for any sessions, workspaces, operations *)
(* and capacity, with renames, removals and dispose.                       *)
(***************************************************************************)
EXTENDS SemanticMutations, FiniteSetTheorems, SequenceTheorems, TLAPS

Numbers == 1..Len(runs)
Beside(q, r) == runs[q].lane = runs[r].lane
Active(r) == runs[r].st \in {"executing", "observing"}

-----------------------------------------------------------------------------
(* The inductive invariant *)

\* A run is chained to an earlier one of its lane; without a session it is over.
Ranked ==
  \A r \in Numbers :
    /\ runs[r].after < r
    /\ runs[r].after # 0 => runs[runs[r].after].lane = runs[r].lane
    /\ runs[r].lane = None => Settled(r)

\* It is chained behind whatever is pending before it in its lane, ...
Chained ==
  \A r \in Numbers : \A q \in Numbers :
    (q < r /\ Beside(q, r) /\ ~Settled(q)) => runs[r].after # 0 /\ q <= runs[r].after

\* ... so that nothing is by the time it has begun.
Serial ==
  \A r \in Numbers : \A q \in Numbers :
    (q < r /\ Beside(q, r) /\ runs[r].st # "queued") => Settled(q)

\* The end of a chain is behind whatever is pending in the lane.
Tailed ==
  \A n \in Names :
    /\ tails[n] # 0 => runs[tails[n]].lane = n
    /\ \A q \in Numbers :
         (runs[q].lane = n /\ ~Settled(q)) => tails[n] # 0 /\ q <= tails[n]

\* A ledger maps ids to records, and holds what is pending.
Distinct == \A q \in kept : \A r \in kept :
              (Beside(q, r) /\ runs[q].id = runs[r].id) => q = r
Remembered == \A r \in Numbers : ~Settled(r) => r \in kept

\* What is to be observed is registered until it is over.
Hooked ==
  \A r \in Numbers :
    /\ (runs[r].kind = "send" /\ Active(r)) => pend[runs[r].lane][runs[r].id] = r
    /\ runs[r].st = "observing" => runs[r].kind = "send"

Order == Ranked /\ Chained /\ Serial /\ Tailed
Memory == Distinct /\ Remembered /\ LedgerBound
IInv == TypeOK /\ Order /\ Memory /\ Hooked

-----------------------------------------------------------------------------
(* One run changes *)

\* What ends a run, and what else is changed in it.
Over(y) == [y EXCEPT !.st = "settled", !.obs = "none"]

LEMMA RunType ==
  ASSUME TypeOK, NEW r \in Numbers
  PROVE  /\ runs[r] \in Runs /\ r \in Nat /\ r # 0
         /\ runs[r].lane \in Lanes /\ runs[r].id \in Ids /\ runs[r].ws \in Workspaces
         /\ runs[r].after \in Nat
<1>1. runs \in Seq(Runs)
  BY Zenon DEF TypeOK
<1>2. runs[r] \in Runs /\ r \in Nat /\ r # 0
  BY <1>1, SMT DEF Numbers
<1>. QED BY <1>2, Zenon DEF Runs

LEMMA OverType ==
  ASSUME NEW y \in Runs, NEW e \in BOOLEAN
  PROVE  Over(y) \in Runs /\ [Over(y) EXCEPT !.effect = e] \in Runs
<1>1. Over(y) \in Runs
  BY Zenon DEF Over, Runs
<1>. QED BY <1>1, Zenon DEF Runs

LEMMA SettleIs ==
  ASSUME TypeOK, NEW r \in Numbers
  PROVE  Settle(r) = [runs EXCEPT ![r] = Over(runs[r])]
<1>1. DOMAIN runs = Numbers
  BY SMT DEF TypeOK, Numbers
<1>. QED BY <1>1, Zenon DEF Settle, Over

LEMMA SettleEffectIs ==
  ASSUME TypeOK, NEW r \in Numbers, NEW e
  PROVE  [Settle(r) EXCEPT ![r].effect = e]
           = [runs EXCEPT ![r] = [Over(runs[r]) EXCEPT !.effect = e]]
<1>1. DOMAIN runs = Numbers
  BY SMT DEF TypeOK, Numbers
<1>2. Settle(r) = [runs EXCEPT ![r] = Over(runs[r])]
  BY SettleIs
<1>. QED BY <1>1, <1>2, Zenon

LEMMA SetRun ==
  ASSUME TypeOK, NEW r \in Numbers, NEW y \in Runs
  PROVE  /\ [runs EXCEPT ![r] = y] \in Seq(Runs)
         /\ Len([runs EXCEPT ![r] = y]) = Len(runs)
         /\ [runs EXCEPT ![r] = y][r] = y
         /\ \A q \in Numbers : q # r => [runs EXCEPT ![r] = y][q] = runs[q]
BY SMT DEF TypeOK, Numbers

-----------------------------------------------------------------------------
(* Turns *)

\* All that is before r in its lane is over.
Turn(r) == \A q \in Numbers : (q < r /\ Beside(q, r)) => Settled(q)

LEMMA TurnComes ==
  ASSUME TypeOK, Order, NEW r \in Numbers,
         runs[r].after # 0 => Settled(runs[r].after)
  PROVE  Turn(r)
<1>. SUFFICES ASSUME NEW q \in Numbers, q < r, Beside(q, r), ~Settled(q) PROVE FALSE
  BY Zenon DEF Turn
<1>. DEFINE p == runs[r].after
<1>1. p # 0 /\ q <= p
  BY Zenon DEF Order, Chained
<1>2. p < r /\ runs[p].lane = runs[r].lane
  BY <1>1, Zenon DEF Order, Ranked
<1>3. p \in Numbers /\ q \in Nat /\ p \in Nat
  <2>1. p \in Nat
    BY RunType
  <2>. QED BY <2>1, <1>1, <1>2, SMT DEF Numbers
<1>4. Settled(p)
  BY <1>1
<1>5. q < p
  <2>1. q # p
    BY <1>4
  <2>. QED BY <2>1, <1>1, <1>3, SMT
<1>6. Beside(q, p) /\ runs[p].st # "queued"
  BY <1>2, <1>4, Zenon DEF Beside, Settled
<1>. QED BY <1>3, <1>5, <1>6, Zenon DEF Order, Serial

\* Only one run of a lane is active.
LEMMA OnlyActive ==
  ASSUME TypeOK, Order, NEW r \in Numbers, ~Settled(r), Turn(r)
  PROVE  \A q \in Numbers : (q # r /\ Beside(q, r)) => ~Active(q)
<1>. SUFFICES ASSUME NEW q \in Numbers, q # r, Beside(q, r), Active(q) PROVE FALSE
  OBVIOUS
<1>1. ~Settled(q) /\ runs[q].st # "queued"
  BY Zenon DEF Settled, Active
<1>2. CASE q < r
  BY <1>1, <1>2, Zenon DEF Turn
<1>3. CASE r < q
  <2>1. Beside(r, q)
    BY Zenon DEF Beside
  <2>. QED BY <1>1, <1>3, <2>1, Zenon DEF Order, Serial
<1>4. q < r \/ r < q
  BY SMT DEF Numbers
<1>. QED BY <1>2, <1>3, <1>4

LEMMA BegunTurn ==
  ASSUME Order, NEW r \in Numbers, runs[r].st # "queued"
  PROVE  Turn(r)
BY Zenon DEF Order, Serial, Turn

-----------------------------------------------------------------------------
(* Steps that accept nothing *)

Same(q) ==
  /\ runs'[q].id = runs[q].id /\ runs'[q].ws = runs[q].ws
  /\ runs'[q].kind = runs[q].kind
  /\ runs'[q].lane = runs[q].lane /\ runs'[q].after = runs[q].after

\* Runs advance, and begin only in their turn.
Advances(q) ==
  /\ Settled(q) => runs'[q].st = "settled"
  /\ runs'[q].st = "queued" => runs[q].st = "queued"
  /\ (runs[q].st = "queued" /\ runs'[q].st # "queued") => Turn(q)

Moves ==
  /\ runs' \in Seq(Runs) /\ Len(runs') = Len(runs)
  /\ \A q \in Numbers : Same(q) /\ Advances(q)

LEMMA OneMoves ==
  ASSUME TypeOK, NEW r \in Numbers, NEW y \in Runs,
         runs' = [runs EXCEPT ![r] = y],
         /\ y.id = runs[r].id /\ y.ws = runs[r].ws /\ y.kind = runs[r].kind
         /\ y.lane = runs[r].lane /\ y.after = runs[r].after,
         /\ Settled(r) => y.st = "settled"
         /\ y.st = "queued" => runs[r].st = "queued"
         /\ (runs[r].st = "queued" /\ y.st # "queued") => Turn(r)
  PROVE  Moves
<1>1. /\ runs' \in Seq(Runs) /\ Len(runs') = Len(runs)
      /\ runs'[r] = y
      /\ \A q \in Numbers : q # r => runs'[q] = runs[q]
  BY SetRun
<1>2. Same(r) /\ Advances(r)
  BY <1>1, Zenon DEF Same, Advances
<1>3. ASSUME NEW q \in Numbers, q # r PROVE Same(q) /\ Advances(q)
  BY <1>1, <1>3, Zenon DEF Same, Advances, Settled
<1>. QED BY <1>1, <1>2, <1>3, Zenon DEF Moves

LEMMA MovesKeepOrder ==
  ASSUME TypeOK, Order, Moves, tails' = tails
  PROVE  Order'
<1>1. Numbers' = Numbers
  BY Zenon DEF Moves, Numbers
<1>2. ASSUME NEW q \in Numbers
      PROVE  /\ runs'[q].lane = runs[q].lane /\ runs'[q].after = runs[q].after
             /\ ~Settled(q)' => ~Settled(q)
  BY Zenon DEF Moves, Same, Advances, Settled
<1>3. ASSUME NEW q \in Numbers, NEW r \in Numbers
      PROVE  Beside(q, r)' <=> Beside(q, r)
  BY <1>2, Zenon DEF Beside
<1>4. Ranked'
  <2>. SUFFICES ASSUME NEW r \in Numbers
                PROVE  /\ runs'[r].after < r
                       /\ runs'[r].after # 0 => runs'[runs'[r].after].lane = runs'[r].lane
                       /\ runs'[r].lane = None => Settled(r)'
    BY <1>1, Zenon DEF Ranked
  <2>1. runs[r].after < r /\ (runs[r].after # 0 => runs[runs[r].after].lane = runs[r].lane)
        /\ (runs[r].lane = None => Settled(r))
    BY Zenon DEF Order, Ranked
  <2>2. runs[r].after # 0 => runs[r].after \in Numbers
    <3>1. runs[r].after \in Nat
      BY RunType
    <3>. QED BY <3>1, <2>1, SMT DEF Numbers
  <2>. QED BY <1>2, <2>1, <2>2, Zenon
<1>5. Chained'
  <2>. SUFFICES ASSUME NEW r \in Numbers, NEW q \in Numbers,
                       q < r, Beside(q, r)', ~Settled(q)'
                PROVE  runs'[r].after # 0 /\ q <= runs'[r].after
    BY <1>1, Zenon DEF Chained
  <2>. QED BY <1>2, <1>3, Zenon DEF Order, Chained
<1>6. Serial'
  <2>. SUFFICES ASSUME NEW r \in Numbers, NEW q \in Numbers,
                       q < r, Beside(q, r)', runs'[r].st # "queued"
                PROVE  Settled(q)'
    BY <1>1, Zenon DEF Serial
  <2>1. Beside(q, r)
    BY <1>3
  <2>2. CASE runs[r].st # "queued"
    BY <1>2, <2>1, <2>2, Zenon DEF Order, Serial
  <2>3. CASE runs[r].st = "queued"
    <3>1. Turn(r)
      BY <2>3, Zenon DEF Moves, Advances
    <3>. QED BY <1>2, <2>1, <3>1, Zenon DEF Turn
  <2>. QED BY <2>2, <2>3
<1>7. Tailed'
  <2>. SUFFICES ASSUME NEW n \in Names
                PROVE  /\ tails[n] # 0 => runs'[tails[n]].lane = n
                       /\ \A q \in Numbers : (runs'[q].lane = n /\ ~Settled(q)')
                                               => tails[n] # 0 /\ q <= tails[n]
    BY <1>1, Zenon DEF Tailed
  <2>1. tails[n] # 0 => tails[n] \in Numbers
    BY SMT DEF TypeOK, Numbers
  <2>. QED BY <1>2, <2>1, Zenon DEF Order, Tailed
<1>. QED BY <1>4, <1>5, <1>6, <1>7, Zenon DEF Order

LEMMA MovesKeepMemory ==
  ASSUME TypeOK, Memory, Moves, kept' = kept
  PROVE  Memory'
<1>1. Numbers' = Numbers
  BY Zenon DEF Moves, Numbers
<1>2. ASSUME NEW q \in Numbers
      PROVE  /\ runs'[q].lane = runs[q].lane /\ runs'[q].id = runs[q].id
             /\ ~Settled(q)' => ~Settled(q)
  BY Zenon DEF Moves, Same, Advances, Settled
<1>3. kept \subseteq Numbers
  BY Zenon DEF TypeOK, Numbers
<1>4. Distinct'
  <2>. SUFFICES ASSUME NEW q \in kept, NEW r \in kept,
                       runs'[q].lane = runs'[r].lane, runs'[q].id = runs'[r].id
                PROVE  q = r
    BY Zenon DEF Distinct, Beside
  <2>1. q \in Numbers /\ r \in Numbers
    BY <1>3
  <2>2. Beside(q, r) /\ runs[q].id = runs[r].id
    BY <1>2, <2>1, Zenon DEF Beside
  <2>. QED BY <2>2, Zenon DEF Memory, Distinct
<1>5. Remembered'
  BY <1>1, <1>2, Zenon DEF Memory, Remembered
<1>6. LedgerBound'
  <2>1. ASSUME NEW l \in Lanes PROVE Ledger(l)' = Ledger(l)
    BY <1>2, <1>3, Zenon DEF Ledger
  <2>. QED BY <2>1, Zenon DEF Memory, LedgerBound
<1>. QED BY <1>4, <1>5, <1>6, Zenon DEF Memory

-----------------------------------------------------------------------------
(* What a step makes of a run *)

Becomes(r, y) ==
  /\ y \in Runs /\ runs' = [runs EXCEPT ![r] = y]
  /\ y.id = runs[r].id /\ y.ws = runs[r].ws /\ y.kind = runs[r].kind
  /\ y.lane = runs[r].lane /\ y.after = runs[r].after

LEMMA OverFields ==
  ASSUME NEW y \in Runs, NEW e
  PROVE  LET z == [Over(y) EXCEPT !.effect = e] IN
         /\ Over(y).id = y.id /\ Over(y).ws = y.ws /\ Over(y).kind = y.kind
         /\ Over(y).lane = y.lane /\ Over(y).after = y.after
         /\ Over(y).st = "settled" /\ Over(y).effect = y.effect
         /\ z.id = y.id /\ z.ws = y.ws /\ z.kind = y.kind
         /\ z.lane = y.lane /\ z.after = y.after
         /\ z.st = "settled" /\ z.effect = e
BY Zenon DEF Runs, Over

LEMMA SettleBecomes ==
  ASSUME TypeOK, NEW r \in Numbers, runs' = Settle(r)
  PROVE  \E y : Becomes(r, y) /\ y.st = "settled" /\ y.effect = runs[r].effect
<1>1. runs[r] \in Runs
  BY RunType
<1>2. runs' = [runs EXCEPT ![r] = Over(runs[r])]
  BY SettleIs
<1>3. runs[r].effect \in BOOLEAN
  BY <1>1, Zenon DEF Runs
<1>4. Over(runs[r]) \in Runs
  BY <1>1, <1>3, OverType
<1>. DEFINE z == Over(runs[r])
<1>5. /\ z.id = runs[r].id /\ z.ws = runs[r].ws /\ z.kind = runs[r].kind
      /\ z.lane = runs[r].lane /\ z.after = runs[r].after
      /\ z.st = "settled" /\ z.effect = runs[r].effect
  BY <1>1, OverFields
<1>. HIDE DEF z
<1>6. z \in Runs /\ runs' = [runs EXCEPT ![r] = z]
  BY <1>2, <1>4, Zenon DEF z
<1>7. Becomes(r, z) /\ z.st = "settled" /\ z.effect = runs[r].effect
  BY <1>5, <1>6, Zenon DEF Becomes
<1>. QED BY <1>7

LEMMA ThrowsBecomes ==
  ASSUME TypeOK, NEW r \in Numbers, Throws(r)
  PROVE  \E y : Becomes(r, y) /\ y.st = "settled"
<1>1. PICK e \in BOOLEAN : runs' = [Settle(r) EXCEPT ![r].effect = e]
  BY Zenon DEF Throws
<1>2. runs[r] \in Runs
  BY RunType
<1>. DEFINE z == [Over(runs[r]) EXCEPT !.effect = e]
<1>3. runs' = [runs EXCEPT ![r] = z]
  BY <1>1, SettleEffectIs
<1>5. z \in Runs
  BY <1>2, OverType
<1>6. /\ z.id = runs[r].id /\ z.ws = runs[r].ws /\ z.kind = runs[r].kind
      /\ z.lane = runs[r].lane /\ z.after = runs[r].after /\ z.st = "settled"
  BY <1>2, OverFields
<1>. HIDE DEF z
<1>7. Becomes(r, z) /\ z.st = "settled"
  BY <1>3, <1>5, <1>6, Zenon DEF Becomes
<1>. QED BY <1>7

LEMMA StageBecomes ==
  ASSUME TypeOK, NEW r \in Numbers,
         NEW s \in {"executing", "observing"}, NEW e \in BOOLEAN
  PROVE  LET y == [runs[r] EXCEPT !.st = s]
             z == [runs[r] EXCEPT !.st = s, !.effect = e]
             w == [runs[r] EXCEPT !.effect = e]
         IN /\ runs' = [runs EXCEPT ![r].st = s] => Becomes(r, y)
            /\ runs' = [runs EXCEPT ![r].st = s, ![r].effect = e] => Becomes(r, z)
            /\ runs' = [runs EXCEPT ![r].effect = e] => Becomes(r, w)
            /\ y.st = s /\ z.st = s /\ w.st = runs[r].st
            /\ y.effect = runs[r].effect /\ z.effect = e /\ w.effect = e
<1>1. runs[r] \in Runs
  BY RunType
<1>2. DOMAIN runs = Numbers
  BY SMT DEF TypeOK, Numbers
<1>. DEFINE y == [runs[r] EXCEPT !.st = s]
            z == [runs[r] EXCEPT !.st = s, !.effect = e]
            w == [runs[r] EXCEPT !.effect = e]
<1>3. y \in Runs /\ z \in Runs /\ w \in Runs
  BY <1>1, Zenon DEF Runs
<1>4. /\ y.id = runs[r].id /\ y.ws = runs[r].ws /\ y.kind = runs[r].kind
      /\ y.lane = runs[r].lane /\ y.after = runs[r].after
      /\ y.st = s /\ y.effect = runs[r].effect
  BY <1>1, Zenon DEF Runs
<1>5. /\ z.id = runs[r].id /\ z.ws = runs[r].ws /\ z.kind = runs[r].kind
      /\ z.lane = runs[r].lane /\ z.after = runs[r].after
      /\ z.st = s /\ z.effect = e
  BY <1>1, Zenon DEF Runs
<1>6. /\ w.id = runs[r].id /\ w.ws = runs[r].ws /\ w.kind = runs[r].kind
      /\ w.lane = runs[r].lane /\ w.after = runs[r].after
      /\ w.st = runs[r].st /\ w.effect = e
  BY <1>1, Zenon DEF Runs
<1>7. /\ runs' = [runs EXCEPT ![r].st = s] => runs' = [runs EXCEPT ![r] = y]
      /\ runs' = [runs EXCEPT ![r].st = s, ![r].effect = e] => runs' = [runs EXCEPT ![r] = z]
      /\ runs' = [runs EXCEPT ![r].effect = e] => runs' = [runs EXCEPT ![r] = w]
  BY <1>2, Zenon
<1>. HIDE DEF y, z, w
<1>8. /\ runs' = [runs EXCEPT ![r] = y] => Becomes(r, y)
      /\ runs' = [runs EXCEPT ![r] = z] => Becomes(r, z)
      /\ runs' = [runs EXCEPT ![r] = w] => Becomes(r, w)
  BY <1>3, <1>4, <1>5, <1>6, Zenon DEF Becomes
<1>9. /\ runs' = [runs EXCEPT ![r].st = s] => Becomes(r, y)
      /\ runs' = [runs EXCEPT ![r].st = s, ![r].effect = e] => Becomes(r, z)
      /\ runs' = [runs EXCEPT ![r].effect = e] => Becomes(r, w)
      /\ y.st = s /\ z.st = s /\ w.st = runs[r].st
      /\ y.effect = runs[r].effect /\ z.effect = e /\ w.effect = e
  BY <1>4, <1>5, <1>6, <1>7, <1>8, Zenon
<1>. QED BY <1>9, Zenon DEF y, z, w

LEMMA BecomesRuns ==
  ASSUME TypeOK, NEW r \in Numbers, NEW y, Becomes(r, y)
  PROVE  /\ runs'[r] = y /\ Numbers' = Numbers /\ Len(runs') = Len(runs)
         /\ \A q \in Numbers : q # r => runs'[q] = runs[q]
<1>1. y \in Runs /\ runs' = [runs EXCEPT ![r] = y]
  BY Zenon DEF Becomes
<1>2. /\ Len([runs EXCEPT ![r] = y]) = Len(runs)
      /\ [runs EXCEPT ![r] = y][r] = y
      /\ \A q \in Numbers : q # r => [runs EXCEPT ![r] = y][q] = runs[q]
  BY <1>1, SetRun
<1>. QED BY <1>1, <1>2, Zenon DEF Numbers

LEMMA BecomesMoves ==
  ASSUME TypeOK, NEW r \in Numbers, NEW y, Becomes(r, y),
         /\ Settled(r) => y.st = "settled"
         /\ y.st = "queued" => runs[r].st = "queued"
         /\ (runs[r].st = "queued" /\ y.st # "queued") => Turn(r)
  PROVE  Moves
<1>1. /\ y \in Runs /\ runs' = [runs EXCEPT ![r] = y]
      /\ y.id = runs[r].id /\ y.ws = runs[r].ws /\ y.kind = runs[r].kind
      /\ y.lane = runs[r].lane /\ y.after = runs[r].after
  BY Zenon DEF Becomes
<1>. QED BY <1>1, OneMoves

-----------------------------------------------------------------------------
(* Types *)

PendType == [Names -> [Ids -> 0..Len(runs)]]

LEMMA TypeKept ==
  ASSUME TypeOK, Moves, kept' = kept, tails' = tails, pend' \in PendType,
         bound' \in [Workspaces -> Lanes], disposed' \in {"no", "draining", "done"}
  PROVE  TypeOK'
BY Zenon DEF TypeOK, Moves, PendType

LEMMA PendChangeType ==
  ASSUME TypeOK, NEW n \in Names, NEW i \in Ids, NEW p \in 0..Len(runs)
  PROVE  [pend EXCEPT ![n][i] = p] \in PendType
<1>1. pend \in PendType
  BY Zenon DEF TypeOK, PendType
<1>. QED BY <1>1, Zenon DEF PendType

LEMMA ForgetType ==
  ASSUME TypeOK, Order, NEW r \in Numbers, ~Settled(r), Forget(r)
  PROVE  runs[r].lane \in Names /\ pend' \in PendType
<1>1. runs[r].lane \in Names /\ runs[r].id \in Ids
  BY RunType, Zenon DEF Order, Ranked, Lanes
<1>2. pend \in PendType /\ 0 \in 0..Len(runs)
  <2>1. Len(runs) \in Nat
    BY SMT DEF TypeOK
  <2>. QED BY <2>1, SMT DEF TypeOK, PendType
<1>3. [pend EXCEPT ![runs[r].lane][runs[r].id] = 0] \in PendType
  BY <1>1, <1>2, PendChangeType
<1>. QED BY <1>1, <1>2, <1>3, Zenon DEF Forget

-----------------------------------------------------------------------------
(* What is registered *)

LEMMA HookedKept ==
  ASSUME TypeOK, Hooked, NEW r \in Numbers, NEW y, Becomes(r, y), pend' = pend,
         y.st \in {"executing", "observing"} => Active(r),
         y.st = "observing" => y.kind = "send"
  PROVE  Hooked'
<1>2. /\ runs'[r] = y /\ Numbers' = Numbers
      /\ \A q \in Numbers : q # r => runs'[q] = runs[q]
  BY BecomesRuns
<1>. SUFFICES ASSUME NEW q \in Numbers
              PROVE  /\ (runs'[q].kind = "send" /\ Active(q)')
                           => pend'[runs'[q].lane][runs'[q].id] = q
                     /\ runs'[q].st = "observing" => runs'[q].kind = "send"
  BY <1>2, Zenon DEF Hooked
<1>3. CASE q # r
  BY <1>2, <1>3, Zenon DEF Hooked, Active
<1>4. CASE q = r
  <2>1. y.kind = runs[r].kind /\ y.lane = runs[r].lane /\ y.id = runs[r].id
    BY Zenon DEF Becomes
  <2>2. Active(r)' => Active(r)
    BY <1>2, Zenon DEF Active
  <2>. QED BY <1>2, <1>4, <2>1, <2>2, Zenon DEF Hooked
<1>. QED BY <1>3, <1>4

LEMMA HookedForgotten ==
  ASSUME TypeOK, Order, Hooked, NEW r \in Numbers, NEW y, Becomes(r, y),
         ~Settled(r), Turn(r), y.st = "settled", Forget(r)
  PROVE  Hooked'
<1>2. /\ runs'[r] = y /\ Numbers' = Numbers
      /\ \A q \in Numbers : q # r => runs'[q] = runs[q]
  BY BecomesRuns
<1>. SUFFICES ASSUME NEW q \in Numbers
              PROVE  /\ (runs'[q].kind = "send" /\ Active(q)')
                           => pend'[runs'[q].lane][runs'[q].id] = q
                     /\ runs'[q].st = "observing" => runs'[q].kind = "send"
  BY <1>2, Zenon DEF Hooked
<1>3. CASE q # r
  <2>1. runs'[q] = runs[q] /\ (Active(q)' => Active(q))
    BY <1>2, <1>3, Zenon DEF Active
  <2>2. ASSUME runs[q].kind = "send", Active(q)
        PROVE  pend'[runs[q].lane][runs[q].id] = q
    <3>1. runs[q].lane # runs[r].lane
      BY <1>3, <2>2, OnlyActive, Zenon DEF Beside
    <3>2. pend'[runs[q].lane] = pend[runs[q].lane]
      <4>1. ~Settled(q)
        BY <2>2, Zenon DEF Active, Settled
      <4>2. runs[q].lane \in Names
        BY <4>1, RunType, Zenon DEF Order, Ranked, Lanes
      <4>3. DOMAIN pend = Names
        BY Zenon DEF TypeOK
      <4>. QED BY <3>1, <4>2, <4>3, Zenon DEF Forget
    <3>. QED BY <2>2, <3>2, Zenon DEF Hooked
  <2>. QED BY <2>1, <2>2, Zenon DEF Hooked
<1>4. CASE q = r
  BY <1>2, <1>4, Zenon DEF Active
<1>. QED BY <1>3, <1>4

-----------------------------------------------------------------------------
(* The steps of a run *)

LEMMA MovesKeepInvariant ==
  ASSUME IInv, Moves, kept' = kept, tails' = tails, pend' \in PendType,
         bound' \in [Workspaces -> Lanes], disposed' \in {"no", "draining", "done"},
         Hooked'
  PROVE  IInv'
<1>1. TypeOK /\ Order /\ Memory
  BY Zenon DEF IInv
<1>2. TypeOK'
  BY <1>1, TypeKept
<1>3. Order'
  BY <1>1, MovesKeepOrder
<1>4. Memory'
  BY <1>1, MovesKeepMemory
<1>. QED BY <1>2, <1>3, <1>4, Zenon DEF IInv

LEMMA EndKeepsInvariant ==
  ASSUME IInv, NEW r \in Numbers, NEW y, Becomes(r, y), ~Settled(r), Turn(r),
         y.st = "settled", Forget(r) \/ pend' = pend,
         UNCHANGED <<bound, kept, tails, disposed>>
  PROVE  IInv'
<1>1. TypeOK /\ Order /\ Hooked
  BY Zenon DEF IInv
<1>2. Moves
  BY <1>1, BecomesMoves
<1>3. pend' \in PendType
  <2>1. pend \in PendType
    BY <1>1, Zenon DEF TypeOK, PendType
  <2>. QED BY <1>1, <2>1, ForgetType, Zenon
<1>4. Hooked'
  <2>1. CASE Forget(r)
    BY <1>1, <2>1, HookedForgotten
  <2>2. CASE pend' = pend
    BY <1>1, <2>2, HookedKept
  <2>. QED BY <2>1, <2>2
<1>5. bound' \in [Workspaces -> Lanes] /\ disposed' \in {"no", "draining", "done"}
  BY <1>1, Zenon DEF TypeOK
<1>. QED BY <1>2, <1>3, <1>4, <1>5, MovesKeepInvariant

LEMMA ExecutesBecomes ==
  ASSUME TypeOK, NEW r \in Numbers, Executes(r)
  PROVE  \E y : Becomes(r, y) /\ y.st = "executing"
<1>1. (runs[r].kind # "edit") \in BOOLEAN /\ "executing" \in {"executing", "observing"}
  OBVIOUS
<1>2. runs' = [runs EXCEPT ![r].st = "executing", ![r].effect = (runs[r].kind # "edit")]
  BY Zenon DEF Executes
<1>. DEFINE y == [runs[r] EXCEPT !.st = "executing", !.effect = (runs[r].kind # "edit")]
<1>3. Becomes(r, y) /\ y.st = "executing"
  BY <1>1, <1>2, StageBecomes
<1>. QED BY <1>3

LEMMA ExecutesHooked ==
  ASSUME TypeOK, Order, Hooked, NEW r \in Numbers, ~Settled(r), Turn(r), Executes(r)
  PROVE  Hooked' /\ pend' \in PendType
<1>1. PICK y : Becomes(r, y) /\ y.st = "executing"
  BY ExecutesBecomes
<1>2. /\ runs'[r] = y /\ Numbers' = Numbers
      /\ \A q \in Numbers : q # r => runs'[q] = runs[q]
  BY <1>1, BecomesRuns
<1>3. y.kind = runs[r].kind /\ y.lane = runs[r].lane /\ y.id = runs[r].id
  BY <1>1, Zenon DEF Becomes
<1>4. runs[r].lane \in Names /\ runs[r].id \in Ids
  BY RunType, Zenon DEF Order, Ranked, Lanes
<1>5. pend \in PendType
  BY Zenon DEF TypeOK, PendType
<1>6. r \in 0..Len(runs)
  BY SMT DEF TypeOK, Numbers
<1>7. pend' = IF runs[r].kind = "send" THEN [pend EXCEPT ![runs[r].lane][runs[r].id] = r]
              ELSE pend
  BY Zenon DEF Executes
<1>8. pend' \in PendType
  <2>1. [pend EXCEPT ![runs[r].lane][runs[r].id] = r] \in PendType
    BY <1>4, <1>6, PendChangeType
  <2>. QED BY <1>5, <1>7, <2>1, Zenon
<1>9. Hooked'
  <2>. SUFFICES ASSUME NEW q \in Numbers
                PROVE  /\ (runs'[q].kind = "send" /\ Active(q)')
                             => pend'[runs'[q].lane][runs'[q].id] = q
                       /\ runs'[q].st = "observing" => runs'[q].kind = "send"
    BY <1>2, Zenon DEF Hooked
  <2>1. CASE q # r
    <3>1. runs'[q] = runs[q] /\ (Active(q)' => Active(q))
      BY <1>2, <2>1, Zenon DEF Active
    <3>2. ASSUME runs[q].kind = "send", Active(q)
          PROVE  pend'[runs[q].lane][runs[q].id] = q
      <4>1. runs[q].lane # runs[r].lane
        BY <2>1, <3>2, OnlyActive, Zenon DEF Beside
      <4>2. pend'[runs[q].lane] = pend[runs[q].lane]
        <5>1. ~Settled(q)
          BY <3>2, Zenon DEF Active, Settled
        <5>2. runs[q].lane \in Names
          BY <5>1, RunType, Zenon DEF Order, Ranked, Lanes
        <5>. QED BY <1>5, <1>7, <4>1, <5>2, Zenon DEF PendType
      <4>. QED BY <3>2, <4>2, Zenon DEF Hooked
    <3>. QED BY <3>1, <3>2, Zenon DEF Hooked
  <2>2. CASE q = r
    <3>1. runs[r].kind = "send" => pend'[runs[r].lane][runs[r].id] = r
      BY <1>4, <1>5, <1>7, Zenon DEF PendType
    <3>2. y.st # "observing"
      BY <1>1
    <3>. QED BY <1>2, <1>3, <2>2, <3>1, <3>2, Zenon
  <2>. QED BY <2>1, <2>2
<1>. QED BY <1>8, <1>9

LEMMA BeginInvariant ==
  ASSUME IInv, NEW r \in Numbers, Begin(r)
  PROVE  IInv'
<1>1. TypeOK /\ Order /\ Hooked
  BY Zenon DEF IInv
<1>2. ~Settled(r) /\ runs[r].st = "queued" /\ (runs[r].after # 0 => Settled(runs[r].after))
  BY Zenon DEF Begin, Settled
<1>3. Turn(r)
  BY <1>1, <1>2, TurnComes
<1>4. UNCHANGED <<kept, tails, disposed>>
  BY Zenon DEF Begin
<1>5. ASSUME runs' = Settle(r), UNCHANGED <<bound, pend>> PROVE IInv'
  <2>2. PICK y : Becomes(r, y) /\ y.st = "settled"
    BY <1>1, <1>5, SettleBecomes
  <2>. QED BY <1>2, <1>3, <1>4, <1>5, <2>2, EndKeepsInvariant
<1>6. ASSUME Throws(r) PROVE IInv'
  <2>1. PICK y : Becomes(r, y) /\ y.st = "settled"
    BY <1>1, <1>6, ThrowsBecomes
  <2>2. Forget(r) /\ UNCHANGED bound
    BY <1>6, Zenon DEF Throws
  <2>. QED BY <1>2, <1>3, <1>4, <2>1, <2>2, EndKeepsInvariant
<1>7. ASSUME Executes(r) PROVE IInv'
  <2>1. PICK y : Becomes(r, y) /\ y.st = "executing"
    BY <1>1, <1>7, ExecutesBecomes
  <2>2. Moves
    BY <1>1, <1>2, <1>3, <2>1, BecomesMoves
  <2>3. Hooked' /\ pend' \in PendType
    BY <1>1, <1>2, <1>3, <1>7, ExecutesHooked
  <2>4. bound' \in [Workspaces -> Lanes]
    <3>1. bound \in [Workspaces -> Lanes] /\ Names \subseteq Lanes
      BY <1>1, Zenon DEF TypeOK, Lanes
    <3>2. \/ bound' = bound
          \/ \E n \in Names : bound' = [bound EXCEPT ![runs[r].ws] = n]
      BY <1>7, Zenon DEF Executes
    <3>. QED BY <3>1, <3>2, Zenon
  <2>5. disposed' \in {"no", "draining", "done"}
    BY <1>1, <1>4, Zenon DEF TypeOK
  <2>. QED BY <1>4, <2>2, <2>3, <2>4, <2>5, MovesKeepInvariant
<1>. QED BY <1>5, <1>6, <1>7, Zenon DEF Begin

LEMMA AffectInvariant ==
  ASSUME IInv, NEW r \in Numbers, Affect(r)
  PROVE  IInv'
<1>1. TypeOK /\ Order /\ Hooked
  BY Zenon DEF IInv
<1>2. runs' = [runs EXCEPT ![r].effect = TRUE] /\ UNCHANGED <<bound, kept, tails, pend, disposed>>
      /\ runs[r].st = "executing"
  BY Zenon DEF Affect
<1>. DEFINE y == [runs[r] EXCEPT !.effect = TRUE]
<1>3. TRUE \in BOOLEAN /\ "executing" \in {"executing", "observing"}
  OBVIOUS
<1>4. Becomes(r, y) /\ y.st = runs[r].st
  BY <1>1, <1>2, <1>3, StageBecomes
<1>. HIDE DEF y
<1>5. Moves
  BY <1>1, <1>2, <1>4, BecomesMoves, Zenon DEF Settled
<1>6. Hooked'
  <2>1. (y.st \in {"executing", "observing"} => Active(r)) /\ y.st # "observing"
    BY <1>2, <1>4, Zenon DEF Active
  <2>. QED BY <1>1, <1>2, <1>4, <2>1, HookedKept
<1>7. pend' \in PendType /\ bound' \in [Workspaces -> Lanes]
      /\ disposed' \in {"no", "draining", "done"}
  BY <1>1, <1>2, Zenon DEF TypeOK, PendType
<1>. QED BY <1>2, <1>5, <1>6, <1>7, MovesKeepInvariant

LEMMA ReturnedInvariant ==
  ASSUME IInv, NEW r \in Numbers, Returned(r)
  PROVE  IInv'
<1>1. TypeOK /\ Order /\ Hooked
  BY Zenon DEF IInv
<1>2. runs[r].st = "executing" /\ ~Settled(r) /\ Active(r)
      /\ UNCHANGED <<bound, kept, tails, pend, disposed>>
  BY Zenon DEF Returned, Settled, Active
<1>3. Turn(r)
  BY <1>1, <1>2, BegunTurn
<1>4. CASE runs[r].kind = "send"
  <2>. DEFINE y == [runs[r] EXCEPT !.st = "observing"]
  <2>1. TRUE \in BOOLEAN /\ "observing" \in {"executing", "observing"}
    OBVIOUS
  <2>2. runs' = [runs EXCEPT ![r].st = "observing"]
    BY <1>4, Zenon DEF Returned
  <2>3. Becomes(r, y) /\ y.st = "observing"
    BY <1>1, <2>1, <2>2, StageBecomes
  <2>. HIDE DEF y
  <2>4. Moves
    BY <1>1, <1>2, <1>3, <2>3, BecomesMoves
  <2>5. y.kind = "send"
    BY <1>4, <2>3, Zenon DEF Becomes
  <2>6. Hooked'
    BY <1>1, <1>2, <2>3, <2>5, HookedKept
  <2>7. pend' \in PendType /\ bound' \in [Workspaces -> Lanes]
        /\ disposed' \in {"no", "draining", "done"}
    BY <1>1, <1>2, Zenon DEF TypeOK, PendType
  <2>. QED BY <1>2, <2>4, <2>6, <2>7, MovesKeepInvariant
<1>5. CASE runs[r].kind # "send"
  <2>1. runs' = Settle(r)
    BY <1>5, Zenon DEF Returned
  <2>2. PICK y : Becomes(r, y) /\ y.st = "settled"
    BY <1>1, <2>1, SettleBecomes
  <2>. QED BY <1>2, <1>3, <2>2, EndKeepsInvariant
<1>. QED BY <1>4, <1>5

LEMMA FailedInvariant ==
  ASSUME IInv, NEW r \in Numbers, Failed(r)
  PROVE  IInv'
<1>1. TypeOK /\ Order
  BY Zenon DEF IInv
<1>2. runs[r].st # "queued" /\ ~Settled(r) /\ Forget(r)
      /\ UNCHANGED <<bound, kept, tails, disposed>>
  BY Zenon DEF Failed, Settled
<1>3. Turn(r)
  BY <1>1, <1>2, BegunTurn
<1>4. runs' = Settle(r)
  BY Zenon DEF Failed
<1>5. PICK y : Becomes(r, y) /\ y.st = "settled"
  BY <1>1, <1>4, SettleBecomes
<1>. QED BY <1>2, <1>3, <1>5, EndKeepsInvariant

LEMMA WaitInvariant ==
  ASSUME IInv, NEW r \in Numbers, Wait(r)
  PROVE  IInv'
<1>1. TypeOK /\ Order
  BY Zenon DEF IInv
<1>2. runs[r].st # "queued" /\ ~Settled(r) /\ Forget(r)
      /\ UNCHANGED <<bound, kept, tails, disposed>>
  BY Zenon DEF Wait, Settled
<1>3. Turn(r)
  BY <1>1, <1>2, BegunTurn
<1>4. runs' = Settle(r)
  BY Zenon DEF Wait
<1>5. PICK y : Becomes(r, y) /\ y.st = "settled"
  BY <1>1, <1>4, SettleBecomes
<1>. QED BY <1>2, <1>3, <1>5, EndKeepsInvariant

LEMMA ObsBecomes ==
  ASSUME TypeOK, NEW p \in Numbers, NEW o \in {"none", "seen", "refused"}
  PROVE  LET y == [runs[p] EXCEPT !.obs = o] IN
         /\ y \in Runs /\ y.st = runs[p].st /\ y.effect = runs[p].effect
         /\ y.id = runs[p].id /\ y.ws = runs[p].ws /\ y.kind = runs[p].kind
         /\ y.lane = runs[p].lane /\ y.after = runs[p].after
<1>1. runs[p] \in Runs
  BY RunType
<1>. QED BY <1>1, Zenon DEF Runs

LEMMA ObserveBecomes ==
  ASSUME TypeOK, NEW r \in Numbers, Observe(r)
  PROVE  \E p \in Numbers : \E y :
           Becomes(p, y) /\ y.st = runs[p].st /\ y.effect = runs[p].effect
<1>. DEFINE n == bound[runs[r].ws]
            p == pend[n][runs[r].id]
            y == [runs[p] EXCEPT !.obs = "seen"]
<1>1. n # None /\ p # 0 /\ runs' = [runs EXCEPT ![p].obs = "seen"]
  BY Zenon DEF Observe
<1>2. p \in Numbers
  <2>1. n \in Names /\ runs[r].id \in Ids
    BY <1>1, RunType, Zenon DEF TypeOK, Lanes
  <2>2. p \in 0..Len(runs)
    BY <2>1, Zenon DEF TypeOK
  <2>3. \A x \in 0..Len(runs) : x # 0 => x \in Numbers
    BY SMT DEF TypeOK, Numbers
  <2>. QED BY <1>1, <2>2, <2>3, Zenon
<1>3. /\ y \in Runs /\ y.st = runs[p].st /\ y.effect = runs[p].effect
      /\ y.id = runs[p].id /\ y.ws = runs[p].ws /\ y.kind = runs[p].kind
      /\ y.lane = runs[p].lane /\ y.after = runs[p].after
  BY <1>2, ObsBecomes
<1>4. runs' = [runs EXCEPT ![p] = y]
  BY <1>1
<1>. HIDE DEF y, p
<1>5. Becomes(p, y)
  BY <1>3, <1>4, Zenon DEF Becomes
<1>. QED BY <1>2, <1>3, <1>5

LEMMA ObserveInvariant ==
  ASSUME IInv, NEW r \in Numbers, Observe(r)
  PROVE  IInv'
<1>1. TypeOK /\ Order /\ Hooked
  BY Zenon DEF IInv
<1>2. PICK p \in Numbers : \E y : Becomes(p, y) /\ y.st = runs[p].st
  BY <1>1, ObserveBecomes
<1>3. PICK y : Becomes(p, y) /\ y.st = runs[p].st
  BY <1>2
<1>4. UNCHANGED <<bound, kept, tails, pend, disposed>>
  BY Zenon DEF Observe
<1>5. Moves
  BY <1>1, <1>3, BecomesMoves, Zenon DEF Settled
<1>6. Hooked'
  <2>1. y.kind = runs[p].kind
    BY <1>3, Zenon DEF Becomes
  <2>2. (y.st \in {"executing", "observing"} => Active(p)) /\ (y.st = "observing" => y.kind = "send")
    BY <1>1, <1>3, <2>1, Zenon DEF Active, Hooked
  <2>. QED BY <1>1, <1>3, <1>4, <2>2, HookedKept
<1>7. pend' \in PendType /\ bound' \in [Workspaces -> Lanes]
      /\ disposed' \in {"no", "draining", "done"}
  BY <1>1, <1>4, Zenon DEF TypeOK, PendType
<1>. QED BY <1>4, <1>5, <1>6, <1>7, MovesKeepInvariant

-----------------------------------------------------------------------------
(* The steps of the executor and of the registry *)

LEMMA SweepInvariant ==
  ASSUME IInv, NEW r \in Numbers, Sweep(r)
  PROVE  IInv'
<1>. DEFINE l == runs[r].lane
<1>1. TypeOK /\ Order /\ Memory /\ Hooked
  BY Zenon DEF IInv
<1>2. /\ Settled(r) /\ l # None /\ tails[l] = r /\ tails' = [tails EXCEPT ![l] = 0]
      /\ UNCHANGED <<bound, runs, kept, pend, disposed>>
  BY Zenon DEF Sweep
<1>3. l \in Names
  BY <1>1, <1>2, RunType, Zenon DEF Lanes
<1>4. 0 \in 0..Len(runs)
  BY <1>1, SMT DEF TypeOK
<1>5. TypeOK'
  <2>1. tails' \in [Names -> 0..Len(runs)]
    BY <1>1, <1>2, <1>4, Zenon DEF TypeOK
  <2>. QED BY <1>1, <1>2, <2>1, Zenon DEF TypeOK
<1>6. Ranked' /\ Chained' /\ Serial'
  BY <1>1, <1>2, Zenon DEF Order, Ranked, Chained, Serial, Settled, Beside, Numbers
<1>7. ASSUME NEW q \in Numbers, runs[q].lane = l PROVE Settled(q)
  <2>1. ~Settled(q) => q <= r
    BY <1>1, <1>2, <1>3, <1>7, Zenon DEF Order, Tailed
  <2>2. q <= r => q < r \/ q = r
    BY SMT DEF Numbers
  <2>3. q < r => Settled(q)
    BY <1>1, <1>2, <1>7, Zenon DEF Order, Serial, Settled, Beside
  <2>. QED BY <1>2, <2>1, <2>2, <2>3
<1>8. Tailed'
  <2>. SUFFICES ASSUME NEW n \in Names
                PROVE  /\ tails'[n] # 0 => runs[tails'[n]].lane = n
                       /\ \A q \in Numbers : (runs[q].lane = n /\ ~Settled(q))
                                               => tails'[n] # 0 /\ q <= tails'[n]
    BY <1>2, Zenon DEF Tailed, Numbers, Settled
  <2>1. CASE n = l
    BY <1>1, <1>2, <1>7, <2>1, Zenon DEF TypeOK
  <2>2. CASE n # l
    <3>1. tails'[n] = tails[n]
      BY <1>1, <1>2, <2>2, Zenon DEF TypeOK
    <3>. QED BY <1>1, <3>1, Zenon DEF Order, Tailed
  <2>. QED BY <2>1, <2>2
<1>9. Memory' /\ Hooked'
  BY <1>1, <1>2, Zenon DEF Memory, Distinct, Remembered, LedgerBound, Ledger, Hooked,
       Settled, Beside, Active, Numbers
<1>. QED BY <1>5, <1>6, <1>8, <1>9, Zenon DEF IInv, Order

LEMMA DisposeRuns ==
  ASSUME TypeOK, Dispose
  PROVE  /\ runs' \in Seq(Runs) /\ Len(runs') = Len(runs) /\ Numbers' = Numbers
         /\ \A q \in Numbers : /\ Same(q)
                                /\ runs'[q].st = runs[q].st /\ runs'[q].effect = runs[q].effect
<1>. DEFINE F(q) == IF Awaited(q) /\ runs[q].obs = "none" THEN [runs[q] EXCEPT !.obs = "refused"]
                    ELSE runs[q]
<1>1. runs' = [q \in 1..Len(runs) |-> F(q)]
  BY Zenon DEF Dispose
<1>2. ASSUME NEW q \in Numbers
      PROVE  /\ F(q) \in Runs /\ F(q).st = runs[q].st /\ F(q).effect = runs[q].effect
             /\ F(q).id = runs[q].id /\ F(q).ws = runs[q].ws /\ F(q).kind = runs[q].kind
             /\ F(q).lane = runs[q].lane /\ F(q).after = runs[q].after
  <2>1. runs[q] \in Runs /\ "refused" \in {"none", "seen", "refused"}
    BY RunType
  <2>. DEFINE y == [runs[q] EXCEPT !.obs = "refused"]
  <2>2. /\ y \in Runs /\ y.st = runs[q].st /\ y.effect = runs[q].effect
        /\ y.id = runs[q].id /\ y.ws = runs[q].ws /\ y.kind = runs[q].kind
        /\ y.lane = runs[q].lane /\ y.after = runs[q].after
    BY <2>1, ObsBecomes
  <2>3. F(q) = y \/ F(q) = runs[q]
    OBVIOUS
  <2>. HIDE DEF F, y
  <2>. QED BY <2>1, <2>2, <2>3, Zenon
<1>. HIDE DEF F
<1>3. Len(runs) \in Nat
  BY SMT DEF TypeOK
<1>4. runs' \in [1..Len(runs) -> Runs]
  BY <1>1, <1>2, Zenon DEF Numbers
<1>5. runs' \in Seq(Runs) /\ Len(runs') = Len(runs)
  BY <1>3, <1>4, SMT
<1>6. \A q \in Numbers : runs'[q] = F(q)
  BY <1>1, Zenon DEF Numbers
<1>7. \A q \in Numbers : Same(q) /\ runs'[q].st = runs[q].st /\ runs'[q].effect = runs[q].effect
  BY <1>2, <1>6, Zenon DEF Same
<1>. QED BY <1>5, <1>7, Zenon DEF Numbers

LEMMA DisposeInvariant ==
  ASSUME IInv, Dispose
  PROVE  IInv'
<1>1. TypeOK /\ Order /\ Hooked
  BY Zenon DEF IInv
<1>2. /\ runs' \in Seq(Runs) /\ Len(runs') = Len(runs) /\ Numbers' = Numbers
      /\ \A q \in Numbers : Same(q) /\ runs'[q].st = runs[q].st
  BY <1>1, DisposeRuns
<1>3. disposed' = "draining" /\ UNCHANGED <<bound, kept, tails, pend>>
  BY Zenon DEF Dispose
<1>4. Moves
  BY <1>2, Zenon DEF Moves, Advances, Settled
<1>5. Hooked'
  BY <1>1, <1>2, <1>3, Zenon DEF Hooked, Active, Same
<1>6. pend' \in PendType /\ bound' \in [Workspaces -> Lanes]
      /\ disposed' \in {"no", "draining", "done"}
  BY <1>1, <1>3, Zenon DEF TypeOK, PendType
<1>. QED BY <1>3, <1>4, <1>5, <1>6, MovesKeepInvariant

LEMMA DisposedInvariant ==
  ASSUME IInv, Disposed
  PROVE  IInv'
<1>1. TypeOK /\ Order /\ Memory /\ Hooked
  BY Zenon DEF IInv
<1>2. /\ \A n \in Names : tails[n] # 0 => Settled(tails[n])
      /\ disposed' = "done" /\ kept' = {}
      /\ tails' = [n \in Names |-> 0]
      /\ pend' = [n \in Names |-> [i \in Ids |-> 0]]
      /\ UNCHANGED <<bound, runs>>
  BY Zenon DEF Disposed
<1>3. ASSUME NEW q \in Numbers PROVE Settled(q)
  <2>. SUFFICES ASSUME ~Settled(q) PROVE FALSE
    OBVIOUS
  <2>. DEFINE n == runs[q].lane
              t == tails[n]
  <2>1. n \in Names
    BY <1>1, RunType, Zenon DEF Order, Ranked, Lanes
  <2>2. t # 0 /\ q <= t /\ runs[t].lane = n
    BY <1>1, <2>1, Zenon DEF Order, Tailed
  <2>3. Settled(t)
    BY <1>2, <2>1, <2>2
  <2>4. t \in Numbers
    <3>1. t \in 0..Len(runs)
      BY <1>1, <2>1, Zenon DEF TypeOK
    <3>2. \A x \in 0..Len(runs) : x # 0 => x \in Numbers
      BY <1>1, SMT DEF TypeOK, Numbers
    <3>. QED BY <2>2, <3>1, <3>2, Zenon
  <2>. HIDE DEF t
  <2>5. q < t
    <3>1. q # t
      BY <2>3
    <3>. QED BY <2>2, <2>4, <3>1, SMT DEF Numbers
  <2>. QED BY <1>1, <2>2, <2>3, <2>4, <2>5, Zenon DEF Order, Serial, Settled, Beside
<1>4. 0 \in 0..Len(runs)
  BY <1>1, SMT DEF TypeOK
<1>5. TypeOK'
  BY <1>1, <1>2, <1>4, Zenon DEF TypeOK
<1>7. Order'
  <2>1. Ranked' /\ Chained' /\ Serial'
    BY <1>1, <1>2, Zenon DEF Order, Ranked, Chained, Serial, Settled, Beside, Numbers
  <2>2. Tailed'
    BY <1>2, <1>3, Zenon DEF Tailed, Settled, Numbers
  <2>. QED BY <2>1, <2>2, Zenon DEF Order
<1>8. Memory'
  <2>1. Distinct'
    BY <1>2, Zenon DEF Distinct
  <2>2. Remembered'
    BY <1>2, <1>3, Zenon DEF Remembered, Settled, Numbers
  <2>3. LedgerBound'
    <3>1. ASSUME NEW l \in Lanes PROVE Ledger(l)' = {}
      BY <1>2, Zenon DEF Ledger
    <3>2. Cardinality({}) = 0 /\ 0 <= Capacity
      BY FS_EmptySet, LaneAssumption, SMT
    <3>. QED BY <3>1, <3>2, Zenon DEF LedgerBound
  <2>. QED BY <2>1, <2>2, <2>3, Zenon DEF Memory
<1>9. Hooked'
  BY <1>2, <1>3, Zenon DEF Hooked, Active, Settled, Numbers
<1>. QED BY <1>5, <1>7, <1>8, <1>9, Zenon DEF IInv

LEMMA RegistryInvariant ==
  ASSUME IInv, UNCHANGED <<runs, kept, tails, pend, disposed>>,
         bound' \in [Workspaces -> Lanes]
  PROVE  IInv'
<1>1. TypeOK'
  BY Zenon DEF IInv, TypeOK
<1>2. Order' /\ Memory' /\ Hooked'
  BY Zenon DEF IInv, Order, Ranked, Chained, Serial, Tailed, Memory, Distinct, Remembered,
       LedgerBound, Ledger, Hooked, Settled, Beside, Active, Numbers
<1>. QED BY <1>1, <1>2, Zenon DEF IInv

LEMMA RemoveInvariant ==
  ASSUME IInv, NEW w \in Workspaces, Remove(w)
  PROVE  IInv'
<1>1. bound' \in [Workspaces -> Lanes] /\ UNCHANGED <<runs, kept, tails, pend, disposed>>
  BY Zenon DEF IInv, TypeOK, Lanes, Remove
<1>. QED BY <1>1, RegistryInvariant

LEMMA AddInvariant ==
  ASSUME IInv, NEW w \in Workspaces, NEW n \in Names, Add(w, n)
  PROVE  IInv'
<1>1. bound' \in [Workspaces -> Lanes] /\ UNCHANGED <<runs, kept, tails, pend, disposed>>
  BY Zenon DEF IInv, TypeOK, Lanes, Add
<1>. QED BY <1>1, RegistryInvariant

-----------------------------------------------------------------------------
(* An operation is accepted *)

LEMMA Appended ==
  ASSUME TypeOK, NEW x \in Runs, runs' = Append(runs, x)
  PROVE  LET n == Len(runs) + 1 IN
         /\ runs' \in Seq(Runs) /\ Len(runs') = n /\ n \in Nat
         /\ Numbers' = Numbers \cup {n}
         /\ runs'[n] = x
         /\ \A q \in Numbers : runs'[q] = runs[q] /\ q < n /\ q # n
<1>1. runs \in Seq(Runs)
  BY Zenon DEF TypeOK
<1>. QED BY <1>1, SMT DEF Numbers

Accepted(i, w, x) ==
  LET l == bound[w]
      n == Len(runs) + 1
  IN /\ x \in Runs /\ runs' = Append(runs, x)
     /\ x.id = i /\ x.lane = l /\ x.effect = FALSE
     /\ l = None => x.st = "settled" /\ x.after = 0 /\ tails' = tails
     /\ l # None => /\ x.st = "queued" /\ x.after = tails[l]
                   /\ tails' = [tails EXCEPT ![l] = n]

LEMMA SubmitAccepts ==
  ASSUME TypeOK, NEW i \in Ids, NEW w \in Workspaces, NEW k \in Kinds, Submit(i, w, k)
  PROVE  \E x : Accepted(i, w, x)
<1>. DEFINE l == bound[w]
            run == [id |-> i, ws |-> w, kind |-> k, lane |-> l, after |-> 0, st |-> "queued",
                    effect |-> FALSE, obs |-> "none"]
            x0 == [run EXCEPT !.st = "settled"]
            x1 == [run EXCEPT !.after = tails[l]]
<1>1. l \in Lanes /\ 0 \in Nat
  BY Zenon DEF TypeOK
<1>2. l # None => tails[l] \in Nat
  <2>1. l # None => tails[l] \in 0..Len(runs)
    BY <1>1, Zenon DEF TypeOK, Lanes
  <2>2. \A p \in 0..Len(runs) : p \in Nat
    BY SMT DEF TypeOK
  <2>. QED BY <2>1, <2>2
<1>3. run \in Runs
  <2>1. FALSE \in BOOLEAN
    OBVIOUS
  <2>. QED BY <1>1, <2>1, Zenon DEF Runs
<1>4. x0 \in Runs /\ (l # None => x1 \in Runs)
  <2>1. run.id = i
    BY SMT
  <2>. HIDE DEF run
  <2>. QED BY <1>2, <1>3, <2>1, Zenon DEF Runs
<1>5. /\ x0.id = i /\ x0.lane = l /\ x0.effect = FALSE /\ x0.st = "settled" /\ x0.after = 0
      /\ x1.id = i /\ x1.lane = l /\ x1.effect = FALSE /\ x1.st = "queued"
      /\ x1.after = tails[l]
  BY SMT
<1>6. \/ l = None /\ runs' = Append(runs, x0) /\ UNCHANGED tails
      \/ l # None /\ runs' = Append(runs, x1) /\ tails' = [tails EXCEPT ![l] = Len(runs) + 1]
  BY Zenon DEF Submit
<1>. HIDE DEF x0, x1
<1>7. (l = None => Accepted(i, w, x0)) /\ (l # None => Accepted(i, w, x1))
  BY <1>4, <1>5, <1>6, Zenon DEF Accepted
<1>. QED BY <1>7

\* The room made in a ledger: what is pending stays, and one record more fits.
LEMMA RoomMade ==
  ASSUME TypeOK, LedgerBound, NEW l \in Lanes, NEW room \in SUBSET kept, MakeRoom(l, room)
  PROVE  /\ \A q \in kept : ~Settled(q) => q \in room
         /\ Cardinality({r \in room : runs[r].lane = l}) < Capacity
<1>1. IsFiniteSet(Ledger(l)) /\ Cardinality(Ledger(l)) \in Nat
      /\ Cardinality(Ledger(l)) <= Capacity
  <2>1. IsFiniteSet(1..Len(runs))
    <3>1. Len(runs) \in Int /\ 1 \in Int
      BY SMT DEF TypeOK
    <3>. QED BY <3>1, FS_Interval
  <2>2. Ledger(l) \subseteq 1..Len(runs)
    BY Zenon DEF TypeOK, Ledger
  <2>3. IsFiniteSet(Ledger(l))
    BY <2>1, <2>2, FS_Subset
  <2>. QED BY <2>3, FS_CardinalityType, Zenon DEF LedgerBound
<1>. DEFINE rest == {r \in room : runs[r].lane = l}
<1>2. CASE Cardinality(Ledger(l)) < Capacity
  <2>1. room = kept
    BY <1>2, Zenon DEF MakeRoom
  <2>2. rest = Ledger(l)
    BY <2>1, Zenon DEF Ledger
  <2>. QED BY <1>2, <2>1, <2>2, Zenon
<1>3. CASE ~(Cardinality(Ledger(l)) < Capacity)
  <2>1. PICK r \in Ledger(l) : Settled(r) /\ room = kept \ {r}
    BY <1>3, Zenon DEF MakeRoom
  <2>2. rest = Ledger(l) \ {r}
    BY <2>1, Zenon DEF Ledger
  <2>3. Cardinality(Ledger(l) \ {r}) = Cardinality(Ledger(l)) - 1
    BY <1>1, <2>1, FS_RemoveElement
  <2>4. Cardinality(rest) < Capacity
    <3>. HIDE DEF rest
    <3>. QED BY <1>1, <2>2, <2>3, LaneAssumption, SMT
  <2>5. \A q \in kept : ~Settled(q) => q \in room
    BY <2>1, Zenon
  <2>. QED BY <2>4, <2>5
<1>. QED BY <1>2, <1>3

LEMMA SubmitOrder ==
  ASSUME TypeOK, Order, NEW i \in Ids, NEW w \in Workspaces, NEW x, Accepted(i, w, x)
  PROVE  Order'
<1>. DEFINE l == bound[w]
<1>. PICK n : n = Len(runs) + 1
  OBVIOUS
<1>1. /\ x \in Runs /\ runs' = Append(runs, x) /\ x.lane = l
      /\ l = None => x.st = "settled" /\ x.after = 0 /\ tails' = tails
      /\ l # None => /\ x.st = "queued" /\ x.after = tails[l]
                    /\ tails' = [tails EXCEPT ![l] = n]
  BY Zenon DEF Accepted
<1>2. /\ n \in Nat /\ Numbers' = Numbers \cup {n} /\ runs'[n] = x
      /\ \A q \in Numbers : runs'[q] = runs[q] /\ q < n /\ q # n
  BY <1>1, Appended
<1>3. l \in Lanes /\ (l # None => l \in Names)
  BY Zenon DEF TypeOK, Lanes
<1>4. \A m \in Names : tails[m] \in Numbers \cup {0}
  <2>1. \A p \in 0..Len(runs) : p \in Numbers \cup {0}
    BY SMT DEF TypeOK, Numbers
  <2>. QED BY <2>1, Zenon DEF TypeOK
<1>5. n # 0 /\ ~(n < n) /\ 0 < n /\ (\A q \in Numbers : ~(n < q) /\ q <= n) /\ 0 \notin Numbers
  <2>1. Len(runs) \in Nat
    BY SMT DEF TypeOK
  <2>. QED BY <2>1, SMT DEF Numbers
<1>6. ASSUME NEW q \in Numbers PROVE (Settled(q)' <=> Settled(q)) /\ (Beside(q, n)' <=> runs[q].lane = l)
  BY <1>1, <1>2, <1>6, Zenon DEF Settled, Beside
<1>7. ASSUME NEW q \in Numbers, NEW r \in Numbers PROVE Beside(q, r)' <=> Beside(q, r)
  BY <1>2, <1>7, Zenon DEF Beside
<1>8. Ranked'
  <2>. SUFFICES ASSUME NEW r \in Numbers \cup {n}
                PROVE  /\ runs'[r].after < r
                       /\ runs'[r].after # 0 => runs'[runs'[r].after].lane = runs'[r].lane
                       /\ runs'[r].lane = None => Settled(r)'
    BY <1>2, Zenon DEF Ranked
  <2>1. CASE r \in Numbers
    <3>1. runs[r].after < r /\ (runs[r].after # 0 => runs[runs[r].after].lane = runs[r].lane)
          /\ (runs[r].lane = None => Settled(r))
      BY <2>1, Zenon DEF Order, Ranked
    <3>2. runs[r].after # 0 => runs[r].after \in Numbers
      <4>1. runs[r].after \in Nat
        BY <2>1, RunType
      <4>. QED BY <2>1, <3>1, <4>1, SMT DEF Numbers
    <3>. QED BY <1>2, <1>6, <2>1, <3>1, <3>2, Zenon
  <2>2. CASE r = n
    <3>1. CASE l = None
      <4>1. x.after = 0 /\ Settled(n)'
        BY <1>1, <1>2, <3>1, Zenon DEF Settled
      <4>. QED BY <1>2, <1>5, <2>2, <4>1, Zenon
    <3>2. CASE l # None
      <4>1. x.after = tails[l] /\ x.after \in Numbers \cup {0}
        BY <1>1, <1>3, <1>4, <3>2, Zenon
      <4>2. x.after # 0 => runs'[x.after] = runs[x.after] /\ runs[x.after].lane = l
        BY <1>2, <1>3, <3>2, <4>1, Zenon DEF Order, Tailed
      <4>3. x.after < n
        BY <1>2, <1>5, <4>1, Zenon
      <4>. QED BY <1>1, <1>2, <2>2, <3>2, <4>2, <4>3, Zenon
    <3>. QED BY <3>1, <3>2
  <2>. QED BY <2>1, <2>2
<1>9. Chained'
  <2>. SUFFICES ASSUME NEW r \in Numbers \cup {n}, NEW q \in Numbers \cup {n},
                       q < r, Beside(q, r)', ~Settled(q)'
                PROVE  runs'[r].after # 0 /\ q <= runs'[r].after
    BY <1>2, Zenon DEF Chained
  <2>1. q \in Numbers
    BY <1>5, Zenon
  <2>2. CASE r \in Numbers
    BY <1>2, <1>6, <1>7, <2>1, <2>2, Zenon DEF Order, Chained
  <2>3. CASE r = n
    <3>1. runs[q].lane = l /\ ~Settled(q)
      BY <1>6, <2>1, <2>3, Zenon
    <3>2. l # None
      BY <2>1, <3>1, Zenon DEF Order, Ranked
    <3>3. tails[l] # 0 /\ q <= tails[l]
      BY <1>3, <2>1, <3>1, <3>2, Zenon DEF Order, Tailed
    <3>. QED BY <1>1, <1>2, <2>3, <3>2, <3>3, Zenon
  <2>. QED BY <2>2, <2>3
<1>10. Serial'
  <2>. SUFFICES ASSUME NEW r \in Numbers \cup {n}, NEW q \in Numbers \cup {n},
                       q < r, Beside(q, r)', runs'[r].st # "queued"
                PROVE  Settled(q)'
    BY <1>2, Zenon DEF Serial
  <2>1. q \in Numbers
    BY <1>5, Zenon
  <2>2. CASE r \in Numbers
    BY <1>2, <1>6, <1>7, <2>1, <2>2, Zenon DEF Order, Serial
  <2>3. CASE r = n
    <3>1. l = None /\ runs[q].lane = l
      BY <1>1, <1>2, <1>6, <2>1, <2>3, Zenon
    <3>. QED BY <1>6, <2>1, <3>1, Zenon DEF Order, Ranked
  <2>. QED BY <2>2, <2>3
<1>11. Tailed'
  <2>. SUFFICES ASSUME NEW m \in Names
                PROVE  /\ tails'[m] # 0 => runs'[tails'[m]].lane = m
                       /\ \A q \in Numbers \cup {n} : (runs'[q].lane = m /\ ~Settled(q)')
                                               => tails'[m] # 0 /\ q <= tails'[m]
    BY <1>2, Zenon DEF Tailed
  <2>1. CASE m = l
    <3>1. l # None
      BY <2>1, LaneAssumption, Zenon
    <3>2. tails'[m] = n
      BY <1>1, <2>1, <3>1, Zenon DEF TypeOK
    <3>3. n <= n
      BY <1>2, SMT
    <3>. QED BY <1>1, <1>2, <1>5, <2>1, <3>2, <3>3, Zenon
  <2>2. CASE m # l
    <3>1. tails'[m] = tails[m]
      BY <1>1, <2>2, Zenon DEF TypeOK
    <3>2. tails[m] # 0 => runs'[tails[m]].lane = m
      BY <1>2, <1>4, Zenon DEF Order, Tailed
    <3>3. ASSUME NEW q \in Numbers \cup {n}, runs'[q].lane = m, ~Settled(q)'
          PROVE  tails[m] # 0 /\ q <= tails[m]
      <4>1. q \in Numbers
        BY <1>1, <1>2, <2>2, <3>3, Zenon
      <4>. QED BY <1>2, <1>6, <3>3, <4>1, Zenon DEF Order, Tailed
    <3>. QED BY <3>1, <3>2, <3>3, Zenon
  <2>. QED BY <2>1, <2>2
<1>. QED BY <1>8, <1>9, <1>10, <1>11, Zenon DEF Order

LEMMA SubmitMemory ==
  ASSUME TypeOK, Memory, NEW i \in Ids, NEW w \in Workspaces, NEW k \in Kinds,
         NEW x, Submit(i, w, k), Accepted(i, w, x)
  PROVE  Memory' /\ kept' \subseteq Numbers'
<1>. DEFINE l == bound[w]
<1>. PICK n : n = Len(runs) + 1
  OBVIOUS
<1>1. x \in Runs /\ runs' = Append(runs, x) /\ x.lane = l /\ x.id = i
  BY Zenon DEF Accepted
<1>2. /\ n \in Nat /\ Numbers' = Numbers \cup {n} /\ runs'[n] = x
      /\ \A q \in Numbers : runs'[q] = runs[q] /\ q < n /\ q # n
  BY <1>1, Appended
<1>3. PICK room \in SUBSET kept : MakeRoom(l, room) /\ kept' = room \cup {n}
  BY Zenon DEF Submit
<1>4. l \in Lanes /\ kept \subseteq Numbers /\ LedgerBound
  BY Zenon DEF TypeOK, Memory, Numbers
<1>5. /\ \A q \in kept : ~Settled(q) => q \in room
      /\ Cardinality({r \in room : runs[r].lane = l}) < Capacity
  BY <1>3, <1>4, RoomMade
<1>6. room \subseteq Numbers /\ \A r \in room : r \in kept
  BY <1>4
<1>7. \A r \in kept : runs[r].lane = l => runs[r].id # i
  BY Zenon DEF Submit, Ledger
<1>8. Distinct'
  <2>. SUFFICES ASSUME NEW q \in room \cup {n}, NEW r \in room \cup {n},
                       runs'[q].lane = runs'[r].lane, runs'[q].id = runs'[r].id
                PROVE  q = r
    BY <1>3, Zenon DEF Distinct, Beside
  <2>1. CASE q \in room /\ r \in room
    <3>1. Beside(q, r) /\ runs[q].id = runs[r].id
      BY <1>2, <1>6, <2>1, Zenon DEF Beside
    <3>. QED BY <1>6, <2>1, <3>1, Zenon DEF Memory, Distinct
  <2>2. CASE q \in room /\ r = n
    BY <1>1, <1>2, <1>6, <1>7, <2>2, Zenon
  <2>3. CASE q = n /\ r \in room
    BY <1>1, <1>2, <1>6, <1>7, <2>3, Zenon
  <2>4. CASE q = n /\ r = n
    BY <2>4
  <2>. QED BY <2>1, <2>2, <2>3, <2>4, Zenon
<1>9. Remembered'
  <2>. SUFFICES ASSUME NEW r \in Numbers \cup {n}, ~Settled(r)' PROVE r \in room \cup {n}
    BY <1>2, <1>3, Zenon DEF Remembered
  <2>1. r \in Numbers => r \in kept /\ ~Settled(r)
    BY <1>2, Zenon DEF Memory, Remembered, Settled
  <2>. QED BY <1>5, <2>1, Zenon
<1>10. LedgerBound'
  <2>. SUFFICES ASSUME NEW m \in Lanes PROVE Cardinality(Ledger(m)') <= Capacity
    BY Zenon DEF LedgerBound
  <2>. DEFINE rest == {r \in room : runs[r].lane = m}
  <2>1. Ledger(m)' = IF m = l THEN rest \cup {n} ELSE rest
    BY <1>1, <1>2, <1>3, <1>6, Zenon DEF Ledger
  <2>2. rest \subseteq Ledger(m)
    BY <1>6, Zenon DEF Ledger
  <2>3. IsFiniteSet(Ledger(m)) /\ Cardinality(Ledger(m)) \in Nat
        /\ Cardinality(Ledger(m)) <= Capacity
    <3>1. IsFiniteSet(1..Len(runs))
      <4>1. Len(runs) \in Int /\ 1 \in Int
        BY SMT DEF TypeOK
      <4>. QED BY <4>1, FS_Interval
    <3>2. Ledger(m) \subseteq 1..Len(runs)
      BY Zenon DEF TypeOK, Ledger
    <3>3. IsFiniteSet(Ledger(m))
      BY <3>1, <3>2, FS_Subset
    <3>. QED BY <1>4, <3>3, FS_CardinalityType, Zenon DEF LedgerBound
  <2>4. IsFiniteSet(rest) /\ Cardinality(rest) <= Cardinality(Ledger(m))
    BY <2>2, <2>3, FS_Subset
  <2>5. Cardinality(rest) \in Nat
    BY <2>4, FS_CardinalityType
  <2>6. CASE m # l
    <3>1. Ledger(m)' = rest
      BY <2>1, <2>6
    <3>. HIDE DEF rest
    <3>. QED BY <2>3, <2>4, <2>5, <3>1, LaneAssumption, SMT
  <2>7. CASE m = l
    <3>1. Ledger(m)' = rest \cup {n}
      BY <2>1, <2>7
    <3>2. n \notin rest
      BY <1>2, <1>6
    <3>3. Cardinality(rest \cup {n}) = Cardinality(rest) + 1
      BY <2>4, <3>2, FS_AddElement
    <3>4. Cardinality(rest) < Capacity
      BY <1>5, <2>7
    <3>. HIDE DEF rest
    <3>. QED BY <2>5, <3>1, <3>3, <3>4, LaneAssumption, SMT
  <2>. QED BY <2>6, <2>7
<1>. QED BY <1>2, <1>3, <1>6, <1>8, <1>9, <1>10, Zenon DEF Memory

LEMMA SubmitInvariant ==
  ASSUME IInv, NEW i \in Ids, NEW w \in Workspaces, NEW k \in Kinds, Submit(i, w, k)
  PROVE  IInv'
<1>. DEFINE l == bound[w]
<1>. PICK n : n = Len(runs) + 1
  OBVIOUS
<1>1. TypeOK /\ Order /\ Memory /\ Hooked
  BY Zenon DEF IInv
<1>2. PICK x : Accepted(i, w, x)
  BY <1>1, SubmitAccepts
<1>3. /\ x \in Runs /\ runs' = Append(runs, x) /\ x.st \in {"queued", "settled"}
      /\ tails' = tails \/ (l # None /\ tails' = [tails EXCEPT ![l] = n])
  BY <1>2, Zenon DEF Accepted
<1>4. /\ runs' \in Seq(Runs) /\ Len(runs') = n /\ Numbers' = Numbers \cup {n} /\ runs'[n] = x
      /\ \A q \in Numbers : runs'[q] = runs[q]
  BY <1>3, <1>1, Appended
<1>5. UNCHANGED <<bound, pend, disposed>>
  BY Zenon DEF Submit
<1>6. Memory' /\ kept' \subseteq Numbers'
  BY <1>1, <1>2, SubmitMemory
<1>7. TypeOK'
  <2>1. 0..Len(runs) \subseteq 0..n /\ n \in 0..n
    BY <1>1, SMT DEF TypeOK
  <2>2. [Ids -> 0..Len(runs)] \subseteq [Ids -> 0..n]
    BY <2>1, Zenon
  <2>3. pend' \in [Names -> [Ids -> 0..n]]
    BY <1>1, <1>5, <2>2, Zenon DEF TypeOK
  <2>4. tails' \in [Names -> 0..n]
    <3>1. tails \in [Names -> 0..n]
      BY <1>1, <2>1, Zenon DEF TypeOK
    <3>. QED BY <1>3, <2>1, <3>1, Zenon
  <2>. QED BY <1>1, <1>4, <1>5, <1>6, <2>3, <2>4, Zenon DEF TypeOK, Numbers
<1>8. Order'
  BY <1>1, <1>2, SubmitOrder
<1>9. Hooked'
  <2>. SUFFICES ASSUME NEW r \in Numbers \cup {n}
                PROVE  /\ (runs'[r].kind = "send" /\ Active(r)')
                             => pend'[runs'[r].lane][runs'[r].id] = r
                       /\ runs'[r].st = "observing" => runs'[r].kind = "send"
    BY <1>4, Zenon DEF Hooked
  <2>1. CASE r \in Numbers
    <3>1. runs'[r] = runs[r] /\ pend' = pend /\ (Active(r)' => Active(r))
      BY <1>4, <1>5, <2>1, Zenon DEF Active
    <3>. QED BY <1>1, <2>1, <3>1, Zenon DEF Hooked
  <2>2. CASE r = n
    BY <1>3, <1>4, <2>2, Zenon DEF Active
  <2>. QED BY <2>1, <2>2
<1>. QED BY <1>6, <1>7, <1>8, <1>9, Zenon DEF IInv

-----------------------------------------------------------------------------
(* The invariant *)

LEMMA InitInvariant ==
  ASSUME Init
  PROVE  IInv
<1>1. Len(runs) = 0 /\ runs \in Seq(Runs) /\ Numbers = {}
  BY SMT DEF Init, Numbers
<1>2. 0 \in 0..Len(runs)
  BY <1>1, SMT
<1>3. TypeOK
  BY <1>1, <1>2, Zenon DEF Init, TypeOK
<1>4. Ranked /\ Chained /\ Serial /\ Remembered /\ Hooked
  BY <1>1, Zenon DEF Ranked, Chained, Serial, Remembered, Hooked
<1>5. Tailed
  BY <1>1, Zenon DEF Tailed, Init
<1>6. Distinct
  BY Zenon DEF Init, Distinct
<1>7. LedgerBound
  <2>1. ASSUME NEW l \in Lanes PROVE Ledger(l) = {}
    BY Zenon DEF Init, Ledger
  <2>2. Cardinality({}) = 0 /\ 0 <= Capacity
    BY FS_EmptySet, LaneAssumption, SMT
  <2>. QED BY <2>1, <2>2, Zenon DEF LedgerBound
<1>. QED BY <1>3, <1>4, <1>5, <1>6, <1>7, Zenon DEF IInv, Order, Memory

LEMMA NextInvariant ==
  ASSUME IInv, [Next]_vars
  PROVE  IInv'
<1>1. CASE UNCHANGED vars
  <2>1. UNCHANGED <<runs, kept, tails, pend, disposed>> /\ bound' = bound
    BY <1>1, Zenon DEF vars
  <2>2. bound' \in [Workspaces -> Lanes]
    BY <2>1, Zenon DEF IInv, TypeOK
  <2>. QED BY <2>1, <2>2, RegistryInvariant
<1>2. ASSUME NEW i \in Ids, NEW w \in Workspaces, NEW k \in Kinds, Submit(i, w, k) PROVE IInv'
  BY <1>2, SubmitInvariant
<1>3. ASSUME NEW r \in Numbers,
             \/ Begin(r) \/ Affect(r) \/ Returned(r) \/ Failed(r)
             \/ Observe(r) \/ Wait(r) \/ Sweep(r)
      PROVE  IInv'
  BY <1>3, BeginInvariant, AffectInvariant, ReturnedInvariant, FailedInvariant,
     ObserveInvariant, WaitInvariant, SweepInvariant
<1>4. CASE Dispose \/ Disposed
  BY <1>4, DisposeInvariant, DisposedInvariant
<1>5. ASSUME NEW w \in Workspaces, Remove(w) \/ \E n \in Names : Add(w, n) PROVE IInv'
  BY <1>5, RemoveInvariant, AddInvariant
<1>. QED BY <1>1, <1>2, <1>3, <1>4, <1>5, Zenon DEF Next, Numbers

LEMMA Invariant == Spec => []IInv
<1>1. Init => IInv
  BY InitInvariant
<1>2. IInv /\ [Next]_vars => IInv'
  BY NextInvariant
<1>. QED BY <1>1, <1>2, PTL DEF Spec

(* The state of the executor stays of its type. *)
THEOREM MutationTypeCorrect == Spec => []TypeOK
<1>1. IInv => TypeOK
  BY Zenon DEF IInv
<1>. QED BY <1>1, Invariant, PTL

(* No ledger outgrows its capacity, what is pending keeps its record however   *)
(* many operations are accepted after it, and what awaits an observation is    *)
(* found by the hook that reports it under the name it was accepted for.       *)
THEOREM FoundTheorem == Spec => []PendingIsFound
<1>1. IInv => PendingIsFound
  <2>1. ASSUME IInv, NEW r \in Numbers, runs[r].st = "observing"
        PROVE  pend[runs[r].lane][runs[r].id] = r
    BY <2>1, Zenon DEF IInv, Hooked, Active
  <2>. QED BY <2>1, Zenon DEF IInv, Memory, Remembered, PendingIsFound, Numbers
<1>. QED BY <1>1, Invariant, PTL

-----------------------------------------------------------------------------
(* The executor keeps the promise of OnceInOrder *)

Jobs == [r \in 1..Len(runs) |-> Job(runs[r])]
JobType == [lane : Lanes, id : Ids, done : BOOLEAN, stage : {"waiting", "working", "over"}]

Stage(y) == IF y.st = "queued" THEN "waiting" ELSE IF y.st = "settled" THEN "over" ELSE "working"

JobOf(l, i, d, s) == [lane |-> l, id |-> i, done |-> d, stage |-> s]

LEMMA JobIs ==
  ASSUME NEW y
  PROVE  Job(y) = JobOf(y.lane, y.id, y.effect, Stage(y)) /\ Job(y).stage = Stage(y)
<1>1. Job(y) = JobOf(y.lane, y.id, y.effect, Stage(y))
  BY DEF Job, JobOf, Stage
<1>2. JobOf(y.lane, y.id, y.effect, Stage(y)).stage = Stage(y)
  BY SMT DEF JobOf
<1>. QED BY <1>1, <1>2

LEMMA JobStage ==
  ASSUME NEW l, NEW i, NEW d, NEW s, NEW t
  PROVE  [JobOf(l, i, d, s) EXCEPT !.stage = t] = JobOf(l, i, d, t)
BY SMT DEF JobOf

LEMMA JobDone ==
  ASSUME NEW l, NEW i, NEW d, NEW s, NEW e
  PROVE  [JobOf(l, i, d, s) EXCEPT !.done = e] = JobOf(l, i, e, s)
BY SMT DEF JobOf

LEMMA JobFields ==
  ASSUME NEW y \in Runs
  PROVE  /\ Job(y) \in JobType
         /\ Job(y).lane = y.lane /\ Job(y).id = y.id /\ Job(y).done = y.effect
         /\ Job(y).stage = "over" <=> y.st = "settled"
         /\ Job(y).stage = "waiting" <=> y.st = "queued"
         /\ Job(y).stage = "working" <=> y.st \in {"executing", "observing"}
<1>. DEFINE stage == IF y.st = "queued" THEN "waiting"
                     ELSE IF y.st = "settled" THEN "over" ELSE "working"
<1>1. /\ y.lane \in Lanes /\ y.id \in Ids /\ y.effect \in BOOLEAN
      /\ y.st \in {"queued", "executing", "observing", "settled"}
  BY Zenon DEF Runs
<1>2. stage \in {"waiting", "working", "over"}
  OBVIOUS
<1>3. /\ stage = "over" <=> y.st = "settled"
      /\ stage = "waiting" <=> y.st = "queued"
      /\ stage = "working" <=> y.st \in {"executing", "observing"}
  BY <1>1, SMT
<1>4. Job(y) = [lane |-> y.lane, id |-> y.id, done |-> y.effect, stage |-> stage]
  BY DEF Job
<1>. HIDE DEF stage
<1>5. Job(y) \in JobType
  BY <1>1, <1>2, <1>4, SMT DEF JobType
<1>6. Job(y).lane = y.lane /\ Job(y).id = y.id /\ Job(y).done = y.effect /\ Job(y).stage = stage
  BY <1>4, SMT
<1>. QED BY <1>3, <1>5, <1>6, Zenon

LEMMA JobsType ==
  ASSUME TypeOK
  PROVE  /\ Jobs \in Seq(JobType) /\ Len(Jobs) = Len(runs) /\ DOMAIN Jobs = Numbers
         /\ \A r \in Numbers : Jobs[r] = Job(runs[r])
<1>1. \A r \in Numbers : Job(runs[r]) \in JobType
  BY RunType, JobFields, Zenon
<1>2. Jobs \in [1..Len(runs) -> JobType]
  BY <1>1, Zenon DEF Jobs, Numbers
<1>3. Len(runs) \in Nat
  BY SMT DEF TypeOK
<1>4. Jobs \in Seq(JobType) /\ Len(Jobs) = Len(runs)
  BY <1>2, <1>3, SMT
<1>. QED BY <1>4, Zenon DEF Jobs, Numbers

LEMMA JobsStep ==
  ASSUME TypeOK, NEW r \in Numbers, NEW y, Becomes(r, y)
  PROVE  Jobs' = [Jobs EXCEPT ![r] = Job(y)]
<1>1. /\ runs'[r] = y /\ Len(runs') = Len(runs)
      /\ \A q \in Numbers : q # r => runs'[q] = runs[q]
  BY BecomesRuns
<1>2. Jobs' = [q \in Numbers |-> Job(runs'[q])]
  BY <1>1, Zenon DEF Jobs, Numbers
<1>3. Jobs = [q \in Numbers |-> Job(runs[q])]
  BY Zenon DEF Jobs, Numbers
<1>. QED BY <1>1, <1>2, <1>3, Zenon

LEMMA JobsUnchanged ==
  ASSUME TypeOK, NEW r \in Numbers, NEW y, Becomes(r, y), Job(y) = Job(runs[r])
  PROVE  Jobs' = Jobs
<1>1. Jobs' = [Jobs EXCEPT ![r] = Job(y)]
  BY JobsStep
<1>2. Jobs = [q \in Numbers |-> Job(runs[q])]
  BY Zenon DEF Jobs, Numbers
<1>. QED BY <1>1, <1>2, Zenon

\* What becomes of a job when its run ends, begins or takes effect.
LEMMA JobChange ==
  ASSUME TypeOK, NEW r \in Numbers, NEW y, Becomes(r, y)
  PROVE  /\ Job(y) = [Job(runs[r]) EXCEPT !.stage = Job(y).stage, !.done = y.effect]
         /\ y.effect = runs[r].effect =>
              Job(y) = [Job(runs[r]) EXCEPT !.stage = Job(y).stage]
         /\ Job(y).stage = Job(runs[r]).stage =>
              Job(y) = [Job(runs[r]) EXCEPT !.done = y.effect]
         /\ (y.effect = runs[r].effect /\ Job(y).stage = Job(runs[r]).stage) =>
              Job(y) = Job(runs[r])
<1>1. y.lane = runs[r].lane /\ y.id = runs[r].id
  BY Zenon DEF Becomes
<1>. DEFINE l == runs[r].lane
            i == runs[r].id
            d == runs[r].effect
            s == Stage(runs[r])
            e == y.effect
            t == Stage(y)
<1>2. Job(y) = JobOf(l, i, e, t) /\ Job(runs[r]) = JobOf(l, i, d, s)
      /\ Job(y).stage = t /\ Job(runs[r]).stage = s
  BY <1>1, JobIs, Zenon
<1>. HIDE DEF l, i, d, s, e, t
<1>3. /\ [JobOf(l, i, d, s) EXCEPT !.stage = t, !.done = e] = JobOf(l, i, e, t)
      /\ [JobOf(l, i, d, s) EXCEPT !.stage = t] = JobOf(l, i, d, t)
      /\ [JobOf(l, i, d, s) EXCEPT !.done = e] = JobOf(l, i, e, s)
  <2>1. [JobOf(l, i, d, s) EXCEPT !.stage = t] = JobOf(l, i, d, t)
    BY JobStage
  <2>2. [JobOf(l, i, d, t) EXCEPT !.done = e] = JobOf(l, i, e, t)
    BY JobDone
  <2>3. [JobOf(l, i, d, s) EXCEPT !.done = e] = JobOf(l, i, e, s)
    BY JobDone
  <2>4. [JobOf(l, i, d, s) EXCEPT !.stage = t, !.done = e]
          = [[JobOf(l, i, d, s) EXCEPT !.stage = t] EXCEPT !.done = e]
    BY Zenon
  <2>. QED BY <2>1, <2>2, <2>3, <2>4
<1>4. /\ Job(y) = [Job(runs[r]) EXCEPT !.stage = t, !.done = e]
      /\ e = d => Job(y) = [Job(runs[r]) EXCEPT !.stage = t]
      /\ t = s => Job(y) = [Job(runs[r]) EXCEPT !.done = e]
      /\ (e = d /\ t = s) => Job(y) = Job(runs[r])
  BY <1>2, <1>3, Zenon
<1>. QED BY <1>2, <1>4, Zenon DEF d, e

LEMMA PromiseBegin ==
  ASSUME TypeOK, Order, NEW r \in Numbers, NEW y, Becomes(r, y),
         runs[r].st = "queued", Turn(r), y.st \in {"executing", "settled"}
  PROVE  Promise!Begin(r)
<1>1. y \in Runs /\ y.effect \in BOOLEAN
  BY Zenon DEF Becomes, Runs
<1>2. runs[r] \in Runs
  BY RunType
<1>3. Jobs[r].stage = "waiting"
  BY <1>2, JobFields, JobsType, Zenon
<1>4. \A q \in 1..(r - 1) : Jobs[q].lane = Jobs[r].lane => Jobs[q].stage = "over"
  <2>. SUFFICES ASSUME NEW q \in 1..(r - 1), Jobs[q].lane = Jobs[r].lane
                PROVE  Jobs[q].stage = "over"
    OBVIOUS
  <2>1. q \in Numbers /\ q < r
    BY SMT DEF TypeOK, Numbers
  <2>2. runs[q] \in Runs /\ Jobs[q] = Job(runs[q]) /\ Jobs[r] = Job(runs[r])
    BY <2>1, RunType, JobsType
  <2>3. Beside(q, r)
    BY <1>2, <2>2, JobFields, Zenon DEF Beside
  <2>4. Settled(q)
    BY <2>1, <2>3, Zenon DEF Turn
  <2>. QED BY <2>2, <2>4, JobFields, Zenon DEF Settled
<1>5. Job(y).stage \in {"working", "over"}
  BY <1>1, JobFields, Zenon
<1>6. Jobs' = [Jobs EXCEPT ![r] = Job(y)]
  BY JobsStep
<1>7. Job(y) = [Job(runs[r]) EXCEPT !.stage = Job(y).stage, !.done = y.effect]
  BY JobChange
<1>8. DOMAIN Jobs = Numbers /\ Jobs[r] = Job(runs[r])
  BY JobsType
<1>9. Jobs' = [Jobs EXCEPT ![r].stage = Job(y).stage, ![r].done = y.effect]
  BY <1>6, <1>7, <1>8, Zenon
<1>. QED BY <1>1, <1>3, <1>4, <1>5, <1>9, Zenon DEF Promise!Begin, Promise!First, Jobs

LEMMA PromiseFinish ==
  ASSUME TypeOK, NEW r \in Numbers, NEW y, Becomes(r, y), Active(r),
         y.st = "settled", y.effect = runs[r].effect
  PROVE  Promise!Finish(r)
<1>1. y \in Runs /\ runs[r] \in Runs
  BY RunType, Zenon DEF Becomes
<1>2. Jobs[r].stage = "working"
  BY <1>1, JobFields, JobsType, Zenon DEF Active
<1>3. Job(y).stage = "over"
  BY <1>1, JobFields
<1>4. Jobs' = [Jobs EXCEPT ![r] = Job(y)]
  BY JobsStep
<1>5. Job(y) = [Job(runs[r]) EXCEPT !.stage = Job(y).stage]
  BY JobChange
<1>6. Jobs[r] = Job(runs[r])
  BY JobsType
<1>7. Jobs' = [Jobs EXCEPT ![r].stage = "over"]
  BY <1>3, <1>4, <1>5, <1>6, Zenon
<1>. QED BY <1>2, <1>7, Zenon DEF Promise!Finish, Jobs

LEMMA PromiseAffect ==
  ASSUME TypeOK, NEW r \in Numbers, Affect(r)
  PROVE  Promise!Affect(r)
<1>. DEFINE y == [runs[r] EXCEPT !.effect = TRUE]
<1>1. runs' = [runs EXCEPT ![r].effect = TRUE] /\ runs[r].st = "executing" /\ ~runs[r].effect
  BY Zenon DEF Affect
<1>2. TRUE \in BOOLEAN /\ "executing" \in {"executing", "observing"}
  OBVIOUS
<1>3. Becomes(r, y) /\ y.st = runs[r].st /\ y.effect = TRUE
  BY <1>1, <1>2, StageBecomes
<1>. HIDE DEF y
<1>4. y \in Runs /\ runs[r] \in Runs
  BY <1>3, RunType, Zenon DEF Becomes
<1>5. Jobs[r] = Job(runs[r])
  BY JobsType
<1>6. Jobs[r].stage = "working" /\ Job(y).stage = "working" /\ ~Jobs[r].done
  BY <1>1, <1>3, <1>4, <1>5, JobFields, Zenon
<1>7. Jobs' = [Jobs EXCEPT ![r] = Job(y)]
  BY <1>3, JobsStep
<1>8. Job(y) = [Job(runs[r]) EXCEPT !.done = y.effect]
  <2>1. Job(y).stage = Job(runs[r]).stage
    BY <1>5, <1>6
  <2>2. Job(y).stage = Job(runs[r]).stage => Job(y) = [Job(runs[r]) EXCEPT !.done = y.effect]
    BY <1>3, JobChange
  <2>. QED BY <2>1, <2>2
<1>9. Jobs' = [Jobs EXCEPT ![r].done = TRUE]
  BY <1>3, <1>5, <1>7, <1>8, Zenon
<1>. QED BY <1>6, <1>9, Zenon DEF Promise!Affect, Jobs

LEMMA PromiseAccept ==
  ASSUME TypeOK, Memory, NEW i \in Ids, NEW w \in Workspaces, NEW k \in Kinds,
         NEW x, Submit(i, w, k), Accepted(i, w, x)
  PROVE  Promise!Accept(bound[w], i) /\ Len(Jobs') > Len(Jobs)
<1>. DEFINE l == bound[w]
            z == [lane |-> l, id |-> i, done |-> FALSE, stage |-> Job(x).stage]
<1>. PICK n : n = Len(runs) + 1
  OBVIOUS
<1>1. /\ x \in Runs /\ runs' = Append(runs, x) /\ x.lane = l /\ x.id = i /\ x.effect = FALSE
      /\ x.st \in {"queued", "settled"}
  BY Zenon DEF Accepted
<1>2. /\ runs' \in Seq(Runs) /\ Len(runs') = n /\ n \in Nat /\ Numbers' = Numbers \cup {n}
      /\ runs'[n] = x /\ \A q \in Numbers : runs'[q] = runs[q]
  BY <1>1, Appended
<1>3. Job(x).stage \in {"waiting", "over"}
  BY <1>1, JobFields, Zenon
<1>4. Job(x) = z
  BY <1>1, JobIs, Zenon DEF JobOf
<1>5. Jobs \in Seq(JobType) /\ Len(Jobs) = Len(runs) /\ \A r \in Numbers : Jobs[r] = Job(runs[r])
  BY JobsType
<1>6. Job(x) \in JobType
  BY <1>1, JobFields
<1>7. /\ Append(Jobs, Job(x)) \in Seq(JobType) /\ Len(Append(Jobs, Job(x))) = n
      /\ \A r \in Numbers : Append(Jobs, Job(x))[r] = Jobs[r]
      /\ Append(Jobs, Job(x))[n] = Job(x)
  <2>1. /\ Append(Jobs, Job(x)) \in Seq(JobType) /\ Len(Append(Jobs, Job(x))) = Len(Jobs) + 1
        /\ \A r \in 1..Len(Jobs) : Append(Jobs, Job(x))[r] = Jobs[r]
        /\ Append(Jobs, Job(x))[Len(Jobs) + 1] = Job(x)
    BY <1>5, <1>6, AppendProperties
  <2>. QED BY <1>5, <2>1, Zenon DEF Numbers
<1>8. /\ Jobs' \in Seq(JobType) /\ Len(Jobs') = n
      /\ \A r \in Numbers \cup {n} : Jobs'[r] = Job(runs'[r])
  <2>1. \A r \in Numbers : Job(runs[r]) \in JobType
    BY RunType, JobFields, Zenon
  <2>2. 1..n = Numbers \cup {n}
    BY <1>2, Zenon DEF Numbers
  <2>3. Jobs' = [r \in 1..n |-> Job(runs'[r])]
    BY <1>2, Zenon DEF Jobs
  <2>4. Jobs' \in [1..n -> JobType] /\ \A r \in Numbers \cup {n} : Jobs'[r] = Job(runs'[r])
    BY <1>2, <1>6, <2>1, <2>2, <2>3, Zenon
  <2>. QED BY <1>2, <2>4, SMT
<1>9. \A r \in 1..n : Jobs'[r] = Append(Jobs, Job(x))[r]
  <2>1. 1..n = Numbers \cup {n}
    BY <1>2, Zenon DEF Numbers
  <2>. QED BY <1>2, <1>5, <1>7, <1>8, <2>1, Zenon
<1>10. Jobs' = Append(Jobs, z)
  <2>1. Jobs' = Append(Jobs, Job(x))
    BY <1>7, <1>8, <1>9, SeqEqual
  <2>. QED BY <1>4, <2>1
<1>11. \A r \in 1..Len(Jobs) : (Jobs[r].lane = l /\ Jobs[r].id = i) => Jobs[r].stage = "over"
  <2>. SUFFICES ASSUME NEW r \in Numbers, Jobs[r].lane = l, Jobs[r].id = i
                PROVE  Jobs[r].stage = "over"
    BY <1>5, Zenon DEF Numbers
  <2>1. runs[r] \in Runs /\ Jobs[r] = Job(runs[r])
    BY <1>5, RunType
  <2>2. runs[r].lane = l /\ runs[r].id = i
    BY <2>1, JobFields, Zenon
  <2>3. r \notin kept
    BY <2>2, Zenon DEF Submit, Ledger
  <2>4. Settled(r)
    BY <2>3, Zenon DEF Memory, Remembered
  <2>. QED BY <2>1, <2>4, JobFields, Zenon DEF Settled
<1>. HIDE DEF l
<1>12. \E s \in {"waiting", "over"} :
         Jobs' = Append(Jobs, [lane |-> l, id |-> i, done |-> FALSE, stage |-> s])
  BY <1>3, <1>10
<1>13. Len(Jobs') > Len(Jobs)
  <2>1. Len(Jobs) \in Nat /\ Len(Jobs') = Len(Jobs) + 1
    BY <1>2, <1>5, <1>8, SMT
  <2>. QED BY <2>1, SMT
<1>. QED BY <1>11, <1>12, <1>13, Zenon DEF Promise!Accept, Jobs, l

-----------------------------------------------------------------------------
(* Every step maps to a step of the promise, or to none *)

LEMMA BeginKeepsPromise ==
  ASSUME IInv, NEW r \in Numbers, Begin(r)
  PROVE  Promise!Begin(r)
<1>1. TypeOK /\ Order
  BY Zenon DEF IInv
<1>2. runs[r].st = "queued" /\ (runs[r].after # 0 => Settled(runs[r].after))
  BY Zenon DEF Begin
<1>3. Turn(r)
  BY <1>1, <1>2, TurnComes
<1>4. \E y : Becomes(r, y) /\ y.st \in {"executing", "settled"}
  <2>2. runs' = Settle(r) => \E y : Becomes(r, y) /\ y.st = "settled"
    BY <1>1, SettleBecomes
  <2>3. Throws(r) => \E y : Becomes(r, y) /\ y.st = "settled"
    BY <1>1, ThrowsBecomes
  <2>4. Executes(r) => \E y : Becomes(r, y) /\ y.st = "executing"
    BY <1>1, ExecutesBecomes
  <2>. QED BY <2>2, <2>3, <2>4, Zenon DEF Begin
<1>. QED BY <1>1, <1>2, <1>3, <1>4, PromiseBegin

LEMMA SettleFinishes ==
  ASSUME IInv, NEW r \in Numbers, Active(r), runs' = Settle(r)
  PROVE  Promise!Finish(r)
<1>1. TypeOK
  BY Zenon DEF IInv
<1>2. PICK y : Becomes(r, y) /\ y.st = "settled" /\ y.effect = runs[r].effect
  BY <1>1, SettleBecomes
<1>. QED BY <1>1, <1>2, PromiseFinish

LEMMA ReturnedKeepsPromise ==
  ASSUME IInv, NEW r \in Numbers, Returned(r)
  PROVE  Promise!Finish(r) \/ Jobs' = Jobs
<1>1. TypeOK /\ Active(r) /\ runs[r].st = "executing"
  BY Zenon DEF IInv, Returned, Active
<1>2. CASE runs[r].kind # "send"
  <2>1. runs' = Settle(r)
    BY <1>2, Zenon DEF Returned
  <2>. QED BY <1>1, <2>1, SettleFinishes
<1>3. CASE runs[r].kind = "send"
  <2>. DEFINE y == [runs[r] EXCEPT !.st = "observing"]
  <2>1. TRUE \in BOOLEAN /\ "observing" \in {"executing", "observing"}
    OBVIOUS
  <2>2. runs' = [runs EXCEPT ![r].st = "observing"]
    BY <1>3, Zenon DEF Returned
  <2>3. Becomes(r, y) /\ y.st = "observing" /\ y.effect = runs[r].effect
    BY <1>1, <2>1, <2>2, StageBecomes
  <2>. HIDE DEF y
  <2>4. y \in Runs /\ runs[r] \in Runs
    BY <1>1, <2>3, RunType, Zenon DEF Becomes
  <2>5. Job(y).stage = Job(runs[r]).stage
    <3>1. Job(y).stage = "working"
      BY <2>3, <2>4, JobFields, Zenon
    <3>2. Job(runs[r]).stage = "working"
      BY <1>1, <2>4, JobFields, Zenon
    <3>. QED BY <3>1, <3>2
  <2>6. Job(y) = Job(runs[r])
    BY <1>1, <2>3, <2>5, JobChange
  <2>. QED BY <1>1, <2>3, <2>6, JobsUnchanged
<1>. QED BY <1>2, <1>3

LEMMA ObserveKeepsPromise ==
  ASSUME TypeOK, NEW r \in Numbers, Observe(r)
  PROVE  Jobs' = Jobs
<1>1. PICK p \in Numbers : \E y :
        Becomes(p, y) /\ y.st = runs[p].st /\ y.effect = runs[p].effect
  BY ObserveBecomes
<1>2. PICK y : Becomes(p, y) /\ y.st = runs[p].st /\ y.effect = runs[p].effect
  BY <1>1
<1>3. Job(y).stage = Job(runs[p]).stage
  BY <1>2, SMT DEF Job
<1>4. Job(y) = Job(runs[p])
  BY <1>2, <1>3, JobChange
<1>. QED BY <1>2, <1>4, JobsUnchanged

LEMMA DisposeKeepsPromise ==
  ASSUME TypeOK, Dispose
  PROVE  Jobs' = Jobs
<1>1. /\ Len(runs') = Len(runs)
      /\ \A q \in Numbers : /\ Same(q)
                             /\ runs'[q].st = runs[q].st /\ runs'[q].effect = runs[q].effect
  BY DisposeRuns
<1>2. \A q \in Numbers : Job(runs'[q]) = Job(runs[q])
  BY <1>1, Zenon DEF Job, Same
<1>. QED BY <1>1, <1>2, Zenon DEF Jobs, Numbers

LEMMA NextKeepsPromise ==
  ASSUME IInv, [Next]_vars
  PROVE  [Promise!Next]_Jobs
<1>1. TypeOK /\ Memory
  BY Zenon DEF IInv
<1>2. ASSUME UNCHANGED runs PROVE Jobs' = Jobs
  BY <1>2, Zenon DEF Jobs
<1>3. ASSUME NEW i \in Ids, NEW w \in Workspaces, NEW k \in Kinds, Submit(i, w, k)
      PROVE  Promise!Next
  <2>1. PICK x : Accepted(i, w, x)
    BY <1>1, <1>3, SubmitAccepts
  <2>2. Promise!Accept(bound[w], i) /\ Len(Jobs') > Len(Jobs)
    BY <1>1, <1>3, <2>1, PromiseAccept
  <2>3. bound[w] \in Lanes
    BY <1>1, Zenon DEF TypeOK
  <2>. QED BY <2>2, <2>3, Zenon DEF Promise!Next, Jobs
<1>4. ASSUME NEW r \in Numbers, Promise!Begin(r) \/ Promise!Affect(r) \/ Promise!Finish(r)
      PROVE  Promise!Next
  <2>1. r \in 1..Len(Jobs)
    BY <1>1, JobsType, Zenon DEF Numbers
  <2>. QED BY <1>4, <2>1, Zenon DEF Promise!Next, Jobs
<1>5. ASSUME NEW r \in Numbers,
             \/ Begin(r) \/ Affect(r) \/ Returned(r) \/ Failed(r)
             \/ Observe(r) \/ Wait(r) \/ Sweep(r)
      PROVE  Promise!Next \/ Jobs' = Jobs
  <2>1. CASE Begin(r)
    BY <1>4, <2>1, BeginKeepsPromise
  <2>2. CASE Affect(r)
    BY <1>1, <1>4, <2>2, PromiseAffect
  <2>3. CASE Returned(r)
    BY <1>4, <2>3, ReturnedKeepsPromise
  <2>4. CASE Failed(r)
    <3>1. Active(r) /\ runs' = Settle(r)
      BY <2>4, Zenon DEF Failed, Active
    <3>. QED BY <1>4, <3>1, SettleFinishes
  <2>5. CASE Observe(r)
    BY <1>1, <2>5, ObserveKeepsPromise
  <2>6. CASE Wait(r)
    <3>1. Active(r) /\ runs' = Settle(r)
      BY <2>6, Zenon DEF Wait, Active
    <3>. QED BY <1>4, <3>1, SettleFinishes
  <2>7. CASE Sweep(r)
    BY <1>2, <2>7, Zenon DEF Sweep
  <2>. QED BY <1>5, <2>1, <2>2, <2>3, <2>4, <2>5, <2>6, <2>7
<1>6. CASE Dispose
  BY <1>1, <1>6, DisposeKeepsPromise
<1>7. CASE Disposed
  BY <1>2, <1>7, Zenon DEF Disposed
<1>8. ASSUME NEW w \in Workspaces, Remove(w) \/ \E n \in Names : Add(w, n)
      PROVE  Jobs' = Jobs
  BY <1>2, <1>8, Zenon DEF Remove, Add
<1>9. CASE UNCHANGED vars
  BY <1>2, <1>9, Zenon DEF vars
<1>. QED BY <1>3, <1>5, <1>6, <1>7, <1>8, <1>9, Zenon DEF Next, Numbers

(* Under one name, operations are worked on one at a time in the order of      *)
(* their acceptance, each takes effect at most once, and none is accepted      *)
(* again while it is under way: whatever fails, times out, is renamed, removed *)
(* or disposed meanwhile.                                                      *)
THEOREM OrderTheorem == Spec => OnceInOrder
<1>1. Init => Promise!Init
  <2>. SUFFICES ASSUME Init PROVE Jobs = <<>>
    BY Zenon DEF Promise!Init, Jobs
  <2>1. Len(runs) = 0
    BY SMT DEF Init
  <2>. QED BY <2>1, SMT DEF Jobs
<1>2. IInv /\ [Next]_vars => [Promise!Next]_Jobs
  BY NextKeepsPromise
<1>. QED BY <1>1, <1>2, Invariant, PTL DEF Spec, OnceInOrder, Promise!Spec, Jobs
=============================================================================
