---------------------------- MODULE AuthorityProofs ----------------------------
(* Who owns what, for any hosts and transports: the types, the agreement of  *)
(* controller, leases and input, the eligibility of the owners of focus and  *)
(* geometry, and that the geometry is neither forgotten nor snatched.  First *)
(* the sequences, then one lemma per operation of the arbiter, then one per  *)
(* operation of the runtime, then the actions.                               *)
EXTENDS Authority, TLAPS, SequenceTheorems, WellFoundedInduction

-----------------------------------------------------------------------------
(* Sequences without repetition *)

LEMMA Least ==
  ASSUME NEW T \in SUBSET Nat, T # {}
  PROVE  Min(T) \in T /\ \A y \in T : Min(T) <= y
  <1> DEFINE R == OpToRel(<, Nat)
  <1>1. IsWellFoundedOn(R, Nat)
    BY NatLessThanWellFounded
  <1>2. \A x, y \in Nat : y < x => <<y, x>> \in R
    BY DEF OpToRel
  <1> HIDE DEF R
  <1>3. \E x \in T : \A y \in T : ~(<<y, x>> \in R)
    BY <1>1, WFMin
  <1>4. \E x \in T : \A y \in T : x <= y
    <2>1. PICK x \in T : \A y \in T : ~(<<y, x>> \in R)
      BY <1>3
    <2>2. ASSUME NEW y \in T PROVE x <= y
      <3>1. x \in Nat /\ y \in Nat
        OBVIOUS
      <3>2. ~(y < x)
        BY <1>2, <2>1, <3>1
      <3> QED BY <3>1, <3>2
    <2> QED BY <2>2
  <1> QED BY <1>4 DEF Min

LEMMA Greatest ==
  ASSUME NEW n \in Nat, NEW T \in SUBSET (1..n), T # {}
  PROVE  Max(T) \in T
  <1> DEFINE U == {n - i : i \in T}
  <1>1. U \in SUBSET Nat /\ U # {}
    <2>1. \A i \in T : n - i \in Nat
      OBVIOUS
    <2>2. \E i \in T : n - i \in U
      OBVIOUS
    <2> QED BY <2>1, <2>2
  <1>2. Min(U) \in U /\ \A y \in U : Min(U) <= y
    BY <1>1, Least
  <1>3. PICK i \in T : Min(U) = n - i
    BY <1>2
  <1>4. ASSUME NEW j \in T PROVE i >= j
    <2>1. n - j \in U
      OBVIOUS
    <2>2. n - i <= n - j
      BY <1>2, <1>3, <2>1
    <2>3. i \in Nat /\ j \in Nat
      OBVIOUS
    <2> QED BY <2>2, <2>3
  <1> QED BY <1>4 DEF Max

LEMMA RemovalProperties ==
  ASSUME NEW S, NEW s \in Seq(S), NEW e, IsInjective(s)
  PROVE  /\ RemoveFirst(s, e) \in Seq(S)
         /\ IsInjective(RemoveFirst(s, e))
         /\ ToSet(RemoveFirst(s, e)) = ToSet(s) \ {e}
  <1>1. CASE ~\E i \in 1..Len(s) : s[i] = e
    BY <1>1 DEF RemoveFirst, ToSet
  <1>2. ASSUME NEW k \in 1..Len(s), s[k] = e
        PROVE  RemoveFirst(s, e) = SubSeq(s, 1, k-1) \o SubSeq(s, k+1, Len(s))
    <2>1. {i \in 1..Len(s) : s[i] = e} = {k}
      BY <1>2 DEF IsInjective
    <2>2. Min({k}) = k
      BY DEF Min
    <2> QED BY <1>2, <2>1, <2>2 DEF RemoveFirst, SelectInSeq, RemoveAt
  <1>3. CASE \E i \in 1..Len(s) : s[i] = e
    <2>1. PICK k \in 1..Len(s) : s[k] = e
      BY <1>3
    <2> DEFINE p == SubSeq(s, 1, k-1)
               q == SubSeq(s, k+1, Len(s))
    <2>2. p \in Seq(S) /\ Len(p) = k - 1 /\ \A i \in 1..k-1 : p[i] = s[i]
      BY SubSeqProperties, ElementOfSeq
    <2>3. q \in Seq(S) /\ Len(q) = Len(s) - k /\ \A i \in 1..Len(s) - k : q[i] = s[i + k]
      BY SubSeqProperties, ElementOfSeq
    <2>4. RemoveFirst(s, e) = p \o q
      BY <1>2, <2>1
    <2> HIDE DEF p, q
    <2>5. /\ p \o q \in Seq(S) /\ Len(p \o q) = Len(s) - 1
          /\ \A i \in 1..Len(s)-1 : (p \o q)[i] = IF i < k THEN s[i] ELSE s[i + 1]
      <3>1. /\ p \o q \in Seq(S) /\ Len(p \o q) = Len(p) + Len(q)
            /\ \A i \in 1..Len(p) + Len(q) : (p \o q)[i] = IF i <= Len(p) THEN p[i] ELSE q[i - Len(p)]
        BY <2>2, <2>3, ConcatProperties
      <3>2. Len(p) + Len(q) = Len(s) - 1
        BY <2>2, <2>3
      <3>3. ASSUME NEW i \in 1..Len(s)-1
            PROVE  (p \o q)[i] = IF i < k THEN s[i] ELSE s[i + 1]
        <4>1. CASE i < k
          BY <4>1, <2>2, <3>1, <3>2
        <4>2. CASE ~(i < k)
          <5>1. i - (k - 1) \in 1..Len(s) - k /\ i - (k - 1) + k = i + 1
            BY <4>2
          <5>2. (p \o q)[i] = q[i - (k - 1)]
            BY <4>2, <2>2, <3>1, <3>2
          <5> QED BY <4>2, <5>1, <5>2, <2>3
        <4> QED BY <4>1, <4>2
      <3> QED BY <3>1, <3>2, <3>3
    <2> DEFINE t == p \o q
               From(i) == IF i < k THEN i ELSE i + 1
    <2>6. /\ DOMAIN t = 1..Len(s)-1 /\ DOMAIN s = 1..Len(s)
          /\ \A i \in 1..Len(s)-1 : t[i] = IF i < k THEN s[i] ELSE s[i + 1]
      BY <2>5, LenProperties
    <2> HIDE DEF t
    <2>7. \A i \in DOMAIN t : t[i] = s[From(i)] /\ From(i) \in DOMAIN s /\ From(i) # k
      BY <2>6
    <2>8. \A i, j \in DOMAIN t : From(i) = From(j) => i = j
      BY <2>6
    <2>9. \A j \in DOMAIN s : j # k => \E i \in DOMAIN t : From(i) = j
      <3> SUFFICES ASSUME NEW j \in DOMAIN s, j # k
                   PROVE  \E i \in DOMAIN t : From(i) = j
        OBVIOUS
      <3>1. j < k => (j \in DOMAIN t /\ From(j) = j)
        BY <2>6
      <3>2. ~(j < k) => (j - 1 \in DOMAIN t /\ From(j - 1) = j)
        BY <2>6
      <3> QED BY <3>1, <3>2
    <2> HIDE DEF From
    <2>10. IsInjective(t)
      <3> SUFFICES ASSUME NEW i \in DOMAIN t, NEW j \in DOMAIN t, t[i] = t[j] PROVE i = j
        BY DEF IsInjective
      <3>1. s[From(i)] = s[From(j)] /\ From(i) \in DOMAIN s /\ From(j) \in DOMAIN s
        BY <2>7
      <3>2. From(i) = From(j)
        BY <3>1 DEF IsInjective
      <3> QED BY <3>2, <2>8
    <2>11. ToSet(t) = ToSet(s) \ {e}
      <3>1. \A i \in DOMAIN t : t[i] \in ToSet(s) /\ t[i] # e
        <4> SUFFICES ASSUME NEW i \in DOMAIN t PROVE t[i] \in ToSet(s) /\ t[i] # e
          OBVIOUS
        <4>1. t[i] = s[From(i)] /\ From(i) \in DOMAIN s /\ From(i) # k
          BY <2>7
        <4>2. s[From(i)] # s[k]
          BY <4>1, <2>1, <2>6 DEF IsInjective
        <4> QED BY <4>1, <4>2, <2>1 DEF ToSet
      <3>2. \A j \in DOMAIN s : s[j] # e => s[j] \in ToSet(t)
        <4> SUFFICES ASSUME NEW j \in DOMAIN s, s[j] # e PROVE s[j] \in ToSet(t)
          OBVIOUS
        <4>1. PICK i \in DOMAIN t : From(i) = j
          BY <2>1, <2>9
        <4> QED BY <4>1, <2>7 DEF ToSet
      <3> QED BY <3>1, <3>2 DEF ToSet
    <2> QED BY <2>4, <2>5, <2>10, <2>11 DEF t
  <1> QED BY <1>1, <1>3
LEMMA AppendedProperties ==
  ASSUME NEW S, NEW s \in Seq(S), NEW e \in S, IsInjective(s), e \notin ToSet(s)
  PROVE  /\ Append(s, e) \in Seq(S)
         /\ IsInjective(Append(s, e))
         /\ ToSet(Append(s, e)) = ToSet(s) \cup {e}
  <1> DEFINE t == Append(s, e)
  <1>1. /\ t \in Seq(S) /\ DOMAIN s = 1..Len(s) /\ DOMAIN t = 1..Len(s)+1 /\ Len(s) \in Nat
        /\ \A i \in 1..Len(s) : t[i] = s[i]
        /\ t[Len(s)+1] = e
    BY AppendProperties, LenProperties
  <1> HIDE DEF t
  <1>2. \A i \in DOMAIN t : (i \in DOMAIN s /\ t[i] = s[i]) \/ (i = Len(s)+1 /\ t[i] = e)
    BY <1>1
  <1>3. \A i \in DOMAIN s : i \in DOMAIN t /\ t[i] = s[i] /\ s[i] # e
    BY <1>1 DEF ToSet
  <1>4. IsInjective(t)
    BY <1>2, <1>3 DEF IsInjective
  <1>5. Len(s)+1 \in DOMAIN t
    BY <1>1
  <1>6. ToSet(t) = ToSet(s) \cup {e}
    BY <1>1, <1>2, <1>3, <1>5 DEF ToSet
  <1> QED BY <1>1, <1>4, <1>6 DEF t

LEMMA PrependedProperties ==
  ASSUME NEW S, NEW s \in Seq(S), NEW e \in S, IsInjective(s), e \notin ToSet(s)
  PROVE  /\ <<e>> \o s \in Seq(S)
         /\ IsInjective(<<e>> \o s)
         /\ ToSet(<<e>> \o s) = ToSet(s) \cup {e}
  <1> DEFINE t == <<e>> \o s
  <1>1. /\ t \in Seq(S) /\ DOMAIN s = 1..Len(s) /\ DOMAIN t = 1..Len(s)+1 /\ Len(s) \in Nat
        /\ t[1] = e
        /\ \A i \in 2..Len(s)+1 : t[i] = s[i-1]
    <2>1. <<e>> \in Seq(S) /\ Len(<<e>>) = 1 /\ <<e>>[1] = e
      OBVIOUS
    <2> QED BY <2>1, ConcatProperties, LenProperties
  <1> HIDE DEF t
  <1>2. \A i \in DOMAIN t : (i - 1 \in DOMAIN s /\ t[i] = s[i-1]) \/ (i = 1 /\ t[i] = e)
    BY <1>1
  <1>3. \A i \in DOMAIN s : i + 1 \in DOMAIN t /\ t[i+1] = s[i] /\ s[i] # e
    <2> SUFFICES ASSUME NEW i \in DOMAIN s
                 PROVE  i + 1 \in DOMAIN t /\ t[i+1] = s[i] /\ s[i] # e
      OBVIOUS
    <2>1. i + 1 \in 2..Len(s)+1 /\ (i + 1) - 1 = i
      BY <1>1
    <2> QED BY <1>1, <2>1 DEF ToSet
  <1>4. IsInjective(t)
    <2> SUFFICES ASSUME NEW i \in DOMAIN t, NEW j \in DOMAIN t, t[i] = t[j] PROVE i = j
      BY DEF IsInjective
    <2>1. i \in Int /\ j \in Int
      BY <1>1
    <2>2. CASE i - 1 \in DOMAIN s /\ t[i] = s[i-1]
      <3>1. t[i] # e
        BY <2>2 DEF ToSet
      <3>2. j - 1 \in DOMAIN s /\ t[j] = s[j-1]
        BY <3>1, <1>2
      <3>3. i - 1 = j - 1
        BY <2>2, <3>2 DEF IsInjective
      <3> QED BY <3>3, <2>1
    <2>3. CASE i = 1 /\ t[i] = e
      <3>1. ~(j - 1 \in DOMAIN s /\ t[j] = s[j-1])
        BY <2>3 DEF ToSet
      <3> QED BY <3>1, <1>2, <2>3
    <2> QED BY <2>2, <2>3, <1>2
  <1>5. 1 \in DOMAIN t /\ t[1] = e
    BY <1>1
  <1>6. ToSet(t) = ToSet(s) \cup {e}
    <2>1. ToSet(t) \subseteq ToSet(s) \cup {e}
      BY <1>2 DEF ToSet
    <2>2. ToSet(s) \subseteq ToSet(t)
      BY <1>3 DEF ToSet
    <2>3. e \in ToSet(t)
      BY <1>5 DEF ToSet
    <2> QED BY <2>1, <2>2, <2>3
  <1> QED BY <1>1, <1>4, <1>6 DEF t

-----------------------------------------------------------------------------
(* The arbiter *)

\* Nobody claims or is in the foreground who is not connected.
Formed(a) ==
  /\ a \in Arbiters
  /\ IsInjective(a.recent)
  /\ \A h \in Hosts : a.claims[h] # {} \/ h \in a.foreground => h \in Connected(a)

\* The owner of kind k may own it.
Rightful(a, k) ==
  /\ a.owner[k] \in Eligible(a, k) \cup {None}
  /\ k = "geometry" /\ a.yielding => a.owner[k] = None

Sound(a) ==
  /\ Formed(a)
  /\ Rightful(a, "focus") /\ Rightful(a, "geometry")
  /\ a.owner["input"] # None => "input" \in a.claims[a.owner["input"]]

\* The geometry is owned if it can be.
Served(a) ==
  Eligible(a, "geometry") # {} /\ a.owner["geometry"] = None => a.yielding

\* From a to b the geometry changed hands only as it may.
Steady(a, b) ==
  LET h == a.owner["geometry"]
  IN h # None /\ b.owner["geometry"] # h => h \notin Eligible(b, "geometry") \/ b.yielding

LEMMA EligibleConnected ==
  ASSUME NEW a, Formed(a), NEW k \in Kinds
  PROVE  Eligible(a, k) \subseteq Connected(a) /\ Eligible(a, k) \subseteq Hosts
  BY DEF Formed, Eligible

LEMMA PreferredProperties ==
  ASSUME NEW a, Formed(a), NEW k \in Kinds, NEW active
  PROVE  /\ Eligible(a, k) = {} => Preferred(a, k, active) = None
         /\ Eligible(a, k) # {} => Preferred(a, k, active) \in Eligible(a, k)
         /\ active \in Eligible(a, k) => Preferred(a, k, active) = active
  <1> DEFINE E == Eligible(a, k)
             P == {i \in DOMAIN a.recent : a.recent[i] \in E}
  <1>1. CASE E = {}
    BY <1>1 DEF Preferred
  <1>2. CASE E # {} /\ active \in E
    BY <1>2 DEF Preferred
  <1>3. CASE E # {} /\ active \notin E
    <2>1. a.recent \in Seq(Hosts)
      BY DEF Formed, Arbiters
    <2>2. Len(a.recent) \in Nat /\ DOMAIN a.recent = 1..Len(a.recent)
      BY <2>1, LenProperties
    <2>3. E \subseteq ToSet(a.recent)
      BY EligibleConnected DEF Connected
    <2>4. P # {} /\ P \subseteq 1..Len(a.recent)
      BY <1>3, <2>2, <2>3 DEF ToSet
    <2>5. Max(P) \in P
      BY <2>2, <2>4, Greatest
    <2> QED BY <1>3, <2>5 DEF Preferred
  <1> QED BY <1>1, <1>2, <1>3

\* An election only sets the owner of its kind, and rightfully.
LEMMA ElectProperties ==
  ASSUME NEW a, Formed(a), NEW k \in Kinds, NEW active
  PROVE  \E o \in Hosts \cup {None} :
           /\ Elect(a, k, active) = SetOwner(a, k, o)
           /\ o \in Eligible(a, k) \cup {None}
           /\ k = "geometry" /\ a.yielding => o = None
           /\ k = "geometry" /\ ~a.yielding /\ a.owner[k] \in Eligible(a, k) => o = a.owner[k]
           /\ o = None => Eligible(a, k) = {} \/ (k = "geometry" /\ a.yielding)
           /\ k # "geometry" /\ active \in Eligible(a, k) => o = active
  <1>1. Eligible(a, k) \subseteq Hosts /\ None \notin Hosts
    BY EligibleConnected, HostOfAssumption
  <1>2. CASE k = "geometry" /\ a.yielding
    BY <1>2 DEF Elect
  <1>3. CASE k = "geometry" /\ ~a.yielding /\ a.owner[k] \in Eligible(a, k)
    <2>1. Elect(a, k, active) = SetOwner(a, k, a.owner[k])
      <3>1. Elect(a, k, active) = a
        BY <1>3 DEF Elect
      <3>2. [a EXCEPT !.owner[k] = a.owner[k]] = a
        BY DEF Formed, Arbiters
      <3> QED BY <3>1, <3>2 DEF SetOwner
    <2> QED BY <1>1, <1>3, <2>1
  <1>4. CASE k # "geometry" \/ (~a.yielding /\ a.owner[k] \notin Eligible(a, k))
    <2>1. Elect(a, k, active) = SetOwner(a, k, Preferred(a, k, active))
      BY <1>4 DEF Elect
    <2> QED BY <1>1, <1>4, <2>1, PreferredProperties
  <1> QED BY <1>2, <1>3, <1>4

LEMMA ActivityProperties ==
  ASSUME NEW a, Formed(a), NEW h \in Hosts
  PROVE  /\ Formed(Activity(a, h))
         /\ Connected(Activity(a, h)) = Connected(a) \cup {h}
         /\ Activity(a, h).foreground = a.foreground
         /\ Activity(a, h).claims = a.claims
         /\ Activity(a, h).owner = a.owner
         /\ Activity(a, h).yielding = a.yielding
  <1> DEFINE r == RemoveFirst(a.recent, h)
             s == Append(r, h)
  <1>1. a.recent \in Seq(Hosts) /\ IsInjective(a.recent)
    BY DEF Formed, Arbiters
  <1>2. r \in Seq(Hosts) /\ IsInjective(r) /\ ToSet(r) = ToSet(a.recent) \ {h}
    BY <1>1, RemovalProperties
  <1> HIDE DEF r
  <1>3. s \in Seq(Hosts) /\ IsInjective(s) /\ ToSet(s) = ToSet(a.recent) \cup {h}
    BY <1>2, AppendedProperties
  <1>4. Activity(a, h) = [a EXCEPT !.recent = s]
    BY DEF Activity, r
  <1> HIDE DEF s
  <1> QED BY <1>3, <1>4 DEF Formed, Arbiters, Connected

\* a and b differ in who owns what only.
SameClaims(a, b) ==
  /\ b.claims = a.claims /\ b.foreground = a.foreground
  /\ b.yielding = a.yielding /\ Connected(b) = Connected(a)

LEMMA SetOwnerProperties ==
  ASSUME NEW a, Formed(a), NEW k \in Kinds, NEW o \in Hosts \cup {None}
  PROVE  /\ Formed(SetOwner(a, k, o)) /\ SameClaims(a, SetOwner(a, k, o))
         /\ SetOwner(a, k, o).owner[k] = o
         /\ \A j \in Kinds \ {k} : SetOwner(a, k, o).owner[j] = a.owner[j]
  BY DEF Formed, Arbiters, SetOwner, SameClaims, Connected

LEMMA SetInputProperties ==
  ASSUME NEW a, Formed(a), NEW o \in Hosts \cup {None}
  PROVE  /\ Formed(SetOwner(a, "input", o)) /\ SameClaims(a, SetOwner(a, "input", o))
         /\ SetOwner(a, "input", o).owner["input"] = o
         /\ SetOwner(a, "input", o).owner["focus"] = a.owner["focus"]
         /\ SetOwner(a, "input", o).owner["geometry"] = a.owner["geometry"]
  BY DEF Formed, Arbiters, SetOwner, SameClaims, Connected, Kinds

LEMMA SameEligible ==
  ASSUME NEW a, NEW b, SameClaims(a, b), NEW k PROVE Eligible(b, k) = Eligible(a, k)
  BY DEF SameClaims, Eligible

LEMMA RightfulStays ==
  ASSUME NEW a, NEW b, NEW k, Rightful(a, k), SameClaims(a, b), b.owner[k] = a.owner[k]
  PROVE  Rightful(b, k)
  BY SameEligible DEF Rightful, SameClaims

LEMMA AmbientElected ==
  ASSUME NEW a, Formed(a), NEW k \in {"focus", "geometry"}, NEW active
  PROVE  LET b == Elect(a, k, active)
         IN  /\ Formed(b) /\ SameClaims(a, b)
             /\ \A j \in Kinds \ {k} : b.owner[j] = a.owner[j]
             /\ Rightful(b, k)
             /\ k = "geometry" => Served(b) /\ Steady(a, b)
  <1> DEFINE b == Elect(a, k, active)
  <1>1. k \in Kinds
    BY DEF Kinds
  <1>2. PICK o \in Hosts \cup {None} :
          /\ b = SetOwner(a, k, o)
          /\ o \in Eligible(a, k) \cup {None}
          /\ k = "geometry" /\ a.yielding => o = None
          /\ k = "geometry" /\ ~a.yielding /\ a.owner[k] \in Eligible(a, k) => o = a.owner[k]
          /\ o = None => Eligible(a, k) = {} \/ (k = "geometry" /\ a.yielding)
    BY <1>1, ElectProperties
  <1> HIDE DEF b
  <1>3. /\ Formed(b) /\ SameClaims(a, b) /\ b.owner[k] = o
        /\ \A j \in Kinds \ {k} : b.owner[j] = a.owner[j]
    BY <1>1, <1>2, SetOwnerProperties
  <1>4. Eligible(b, k) = Eligible(a, k) /\ b.yielding = a.yielding
    BY <1>3, SameEligible DEF SameClaims
  <1>5. Rightful(b, k)
    BY <1>2, <1>3, <1>4 DEF Rightful
  <1>6. k = "geometry" => Served(b)
    BY <1>2, <1>3, <1>4 DEF Served
  <1>7. k = "geometry" => Steady(a, b)
    BY <1>2, <1>3, <1>4 DEF Steady
  <1> QED BY <1>3, <1>5, <1>6, <1>7 DEF b

LEMMA ElectAmbientProperties ==
  ASSUME NEW a, Formed(a)
  PROVE  LET b == ElectAmbient(a)
         IN  /\ Formed(b) /\ SameClaims(a, b) /\ b.owner["input"] = a.owner["input"]
             /\ Rightful(b, "focus") /\ Rightful(b, "geometry")
             /\ Served(b) /\ Steady(a, b)
  <1> DEFINE m == Elect(a, "focus", None)
             b == Elect(m, "geometry", None)
  <1>1. /\ Formed(m) /\ SameClaims(a, m) /\ Rightful(m, "focus")
        /\ m.owner["input"] = a.owner["input"] /\ m.owner["geometry"] = a.owner["geometry"]
    BY AmbientElected DEF Kinds
  <1> HIDE DEF m
  <1>2. /\ Formed(b) /\ SameClaims(m, b) /\ Rightful(b, "geometry") /\ Served(b) /\ Steady(m, b)
        /\ b.owner["input"] = m.owner["input"] /\ b.owner["focus"] = m.owner["focus"]
    BY <1>1, AmbientElected DEF Kinds
  <1> HIDE DEF b
  <1>3. Rightful(b, "focus")
    BY <1>1, <1>2, RightfulStays
  <1>4. SameClaims(a, b)
    BY <1>1, <1>2 DEF SameClaims
  <1>5. Steady(a, b)
    BY <1>1, <1>2 DEF Steady
  <1> QED BY <1>1, <1>2, <1>3, <1>4, <1>5 DEF ElectAmbient, m, b

\* An operation of the arbiter that leaves the input with i.
Turns(a, b, i) ==
  /\ Sound(b) /\ b.owner["input"] = i /\ b.yielding = a.yielding
  /\ Served(a) => Served(b)
  /\ Steady(a, b)

\* Who claims what, is in the foreground and connected in b.
Has(b, claims, foreground, connected) ==
  b.claims = claims /\ b.foreground = foreground /\ Connected(b) = connected

LEMMA PresenceTurns ==
  ASSUME NEW a, Sound(a), NEW h \in Connected(a), NEW v \in BOOLEAN
  PROVE  LET b == Presence(a, h, v)
         IN  /\ Turns(a, b, a.owner["input"])
             /\ Has(b, a.claims, IF v THEN a.foreground \cup {h} ELSE a.foreground \ {h}, Connected(a))
  <1> DEFINE b == Presence(a, h, v)
  <1>1. CASE v = (h \in a.foreground)
    <2>1. b = a
      BY <1>1 DEF Presence
    <2>2. (IF v THEN a.foreground \cup {h} ELSE a.foreground \ {h}) = a.foreground
      BY <1>1
    <2> QED BY <2>1, <2>2 DEF Turns, Has, Steady
  <1>2. CASE v # (h \in a.foreground)
    <2> DEFINE f == IF v THEN a.foreground \cup {h} ELSE a.foreground \ {h}
               placed == [a EXCEPT !.foreground = f]
               active == Activity(placed, h)
    <2>1. b = ElectAmbient(active)
      BY <1>2 DEF Presence
    <2>2. h \in Hosts /\ f \in SUBSET Hosts
      BY DEF Sound, Formed, Arbiters, Connected, ToSet
    <2> HIDE DEF f
    <2>3. /\ Formed(placed) /\ Connected(placed) = Connected(a) /\ placed.claims = a.claims
          /\ placed.foreground = f /\ placed.owner = a.owner /\ placed.yielding = a.yielding
      <3>1. f \subseteq a.foreground \cup {h}
        BY DEF f
      <3> QED BY <2>2, <3>1 DEF Sound, Formed, Arbiters, Connected
    <2> HIDE DEF placed
    <2>4. /\ Formed(active) /\ Connected(active) = Connected(a) /\ active.claims = a.claims
          /\ active.foreground = f /\ active.owner = a.owner /\ active.yielding = a.yielding
      <3>1. Connected(a) \cup {h} = Connected(a)
        OBVIOUS
      <3> QED BY <2>2, <2>3, <3>1, ActivityProperties
    <2> HIDE DEF active
    <2>5. /\ Formed(b) /\ SameClaims(active, b) /\ b.owner["input"] = active.owner["input"]
          /\ Rightful(b, "focus") /\ Rightful(b, "geometry") /\ Served(b) /\ Steady(active, b)
      BY <2>1, <2>4, ElectAmbientProperties
    <2> HIDE DEF b
    <2>6. Sound(b)
      BY <2>4, <2>5 DEF Sound, SameClaims
    <2>7. Steady(a, b)
      BY <2>4, <2>5 DEF Steady
    <2> QED BY <2>4, <2>5, <2>6, <2>7 DEF Turns, Has, SameClaims, b, f
  <1> QED BY <1>1, <1>2

LEMMA GiveClaimTurns ==
  ASSUME NEW a, Sound(a), NEW h \in Connected(a), NEW k \in Kinds
  PROVE  LET b == GiveClaim(a, h, k)
         IN  /\ Turns(a, b, IF k = "input" THEN h ELSE a.owner["input"])
             /\ Has(b, [a.claims EXCEPT ![h] = @ \cup {k}], a.foreground, Connected(a))
  <1> DEFINE claims == [a.claims EXCEPT ![h] = @ \cup {k}]
             given == [a EXCEPT !.claims[h] = @ \cup {k}]
             active == Activity(given, h)
             b == Elect(active, k, h)
  <1>1. h \in Hosts /\ a \in Arbiters
    BY DEF Sound, Formed, Arbiters, Connected, ToSet
  <1>2. /\ claims \in [Hosts -> SUBSET Kinds]
        /\ \A g \in Hosts : a.claims[g] \subseteq claims[g]
        /\ \A g \in Hosts \ {h} : a.claims[g] = claims[g]
        /\ k \in claims[h]
    BY <1>1 DEF Arbiters
  <1>3. given = [a EXCEPT !.claims = claims]
    BY <1>1 DEF Arbiters
  <1> HIDE DEF claims, given
  <1>4. /\ Formed(given) /\ Connected(given) = Connected(a) /\ given.claims = claims
        /\ given.foreground = a.foreground /\ given.owner = a.owner /\ given.yielding = a.yielding
    BY <1>1, <1>2, <1>3 DEF Sound, Formed, Arbiters, Connected
  <1>5. /\ Formed(active) /\ Connected(active) = Connected(a) /\ active.claims = claims
        /\ active.foreground = a.foreground /\ active.owner = a.owner
        /\ active.yielding = a.yielding
    <2>1. Connected(a) \cup {h} = Connected(a)
      OBVIOUS
    <2> QED BY <1>1, <1>4, <2>1, ActivityProperties
  <1> HIDE DEF active
  <1>6. \A j \in {"focus", "geometry"} : Rightful(active, j)
    <2>1. \A j \in {"focus", "geometry"} : Eligible(a, j) \subseteq Eligible(active, j)
      BY <1>2, <1>5 DEF Eligible
    <2> QED BY <1>5, <2>1 DEF Sound, Rightful
  <1>7. CASE k = "input"
    <2>1. h \in Eligible(active, k)
      BY <1>1, <1>2, <1>5, <1>7 DEF Eligible
    <2>2. b = SetOwner(active, k, h)
      BY <1>5, <1>7, <2>1, ElectProperties DEF Kinds
    <2> HIDE DEF b
    <2>3. /\ Formed(b) /\ SameClaims(active, b) /\ b.owner["input"] = h
          /\ b.owner["focus"] = a.owner["focus"] /\ b.owner["geometry"] = a.owner["geometry"]
      BY <1>1, <1>5, <1>7, <2>2, SetOwnerProperties DEF Kinds
    <2>4. Sound(b)
      BY <1>2, <1>5, <1>6, <1>7, <2>3, RightfulStays DEF Sound, SameClaims
    <2>5. Eligible(b, "geometry") = Eligible(a, "geometry")
      BY <1>1, <1>2, <1>5, <1>7, <2>3 DEF Eligible, SameClaims, claims, Sound, Formed, Arbiters
    <2>6. Turns(a, b, h)
      BY <1>5, <2>3, <2>4, <2>5 DEF Turns, Served, Steady, SameClaims
    <2> QED BY <1>5, <1>7, <2>3, <2>6 DEF Has, SameClaims, b, claims, active, given, GiveClaim
  <1>8. CASE k # "input"
    <2>1. k \in {"focus", "geometry"}
      BY <1>8 DEF Kinds
    <2>2. /\ Formed(b) /\ SameClaims(active, b) /\ Rightful(b, k)
          /\ \A j \in Kinds \ {k} : b.owner[j] = a.owner[j]
          /\ k = "geometry" => Served(b) /\ Steady(active, b)
      BY <1>5, <2>1, AmbientElected
    <2> HIDE DEF b
    <2>3. b.owner["input"] = a.owner["input"]
      BY <1>8, <2>2 DEF Kinds
    <2>4. \A j \in {"focus", "geometry"} : Rightful(b, j)
      BY <1>5, <1>6, <2>2, RightfulStays DEF Kinds
    <2>5. Sound(b)
      BY <1>2, <1>5, <2>2, <2>3, <2>4 DEF Sound, SameClaims, Formed, Arbiters, Kinds
    <2>6. CASE k = "geometry"
      BY <1>5, <2>2, <2>3, <2>5, <2>6 DEF Turns, Steady, SameClaims, b, claims, Has,
         active, given, GiveClaim
    <2>7. CASE k = "focus"
      <3>1. Eligible(b, "geometry") = Eligible(a, "geometry")
        BY <1>1, <1>2, <1>5, <2>2, <2>7 DEF Eligible, SameClaims, claims, Sound, Formed, Arbiters
      <3>2. b.owner["geometry"] = a.owner["geometry"]
        BY <2>2, <2>7 DEF Kinds
      <3>3. Turns(a, b, a.owner["input"])
        BY <1>5, <2>2, <2>3, <2>5, <3>1, <3>2 DEF Turns, Served, Steady, SameClaims
      <3> QED BY <1>5, <2>2, <2>7, <3>3 DEF Has, SameClaims, b, claims, active, given, GiveClaim
    <2> QED BY <2>1, <2>6, <2>7
  <1> QED BY <1>7, <1>8

LEMMA DropClaimTurns ==
  ASSUME NEW a, Sound(a), NEW h \in Hosts, NEW k \in Kinds
  PROVE  LET b == DropClaim(a, h, k)
         IN  /\ Turns(a, b, IF k = "input" /\ a.owner["input"] = h THEN None ELSE a.owner["input"])
             /\ Has(b, [a.claims EXCEPT ![h] = @ \ {k}], a.foreground, Connected(a))
  <1> DEFINE claims == [a.claims EXCEPT ![h] = @ \ {k}]
             dropped == [a EXCEPT !.claims[h] = @ \ {k}]
             b == DropClaim(a, h, k)
  <1>1. a \in Arbiters /\ None \notin Hosts
    BY HostOfAssumption DEF Sound, Formed
  <1>2. /\ claims \in [Hosts -> SUBSET Kinds]
        /\ \A g \in Hosts : claims[g] \subseteq a.claims[g]
        /\ \A g \in Hosts \ {h} : a.claims[g] = claims[g]
        /\ \A j \in Kinds \ {k} : j \in claims[h] <=> j \in a.claims[h]
    BY <1>1 DEF Arbiters
  <1>3. dropped = [a EXCEPT !.claims = claims]
    BY <1>1 DEF Arbiters
  <1>4. CASE k \notin a.claims[h]
    <2>1. b = a /\ claims = a.claims
      BY <1>1, <1>4 DEF DropClaim, Arbiters
    <2>2. ~(k = "input" /\ a.owner["input"] = h)
      BY <1>1, <1>4 DEF Sound
    <2> QED BY <2>1, <2>2 DEF Turns, Has, Steady
  <1> HIDE DEF claims
  <1>5. /\ Formed(dropped) /\ Connected(dropped) = Connected(a) /\ dropped.claims = claims
        /\ dropped.foreground = a.foreground /\ dropped.owner = a.owner
        /\ dropped.yielding = a.yielding
    <2> HIDE DEF dropped
    <2> QED BY <1>1, <1>2, <1>3 DEF Sound, Formed, Arbiters, Connected
  <1>6. \A j \in Kinds \ {k} : Eligible(dropped, j) = Eligible(a, j)
    <2> HIDE DEF dropped
    <2> QED BY <1>2, <1>5 DEF Eligible
  <1>7. \A j \in {"focus", "geometry"} \ {k} : Rightful(dropped, j)
    <2> HIDE DEF dropped
    <2> QED BY <1>5, <1>6 DEF Rightful, Sound, Kinds
  <1>8. CASE k \in a.claims[h] /\ k = "input"
    <2> DEFINE o == IF a.owner["input"] = h THEN None ELSE a.owner["input"]
    <2>1. o \in Hosts \cup {None}
      BY <1>1 DEF Arbiters, Kinds
    <2>2. /\ Formed(b) /\ SameClaims(dropped, b) /\ b.owner["input"] = o
          /\ b.owner["focus"] = a.owner["focus"] /\ b.owner["geometry"] = a.owner["geometry"]
      <3>1. CASE a.owner["input"] = h
        <4>1. b = SetOwner(dropped, "input", o)
          BY <1>8, <3>1 DEF DropClaim
        <4> HIDE DEF dropped, b, o
        <4> QED BY <1>5, <2>1, <4>1, SetInputProperties
      <3>2. CASE a.owner["input"] # h
        <4>1. b = dropped
          BY <1>8, <3>2 DEF DropClaim
        <4> HIDE DEF dropped, b
        <4> QED BY <1>5, <3>2, <4>1 DEF SameClaims
      <3> QED BY <3>1, <3>2
    <2> HIDE DEF dropped, b
    <2>3. Rightful(b, "focus") /\ Rightful(b, "geometry")
      BY <1>5, <1>7, <1>8, <2>2, RightfulStays
    <2>4. o # None => "input" \in claims[o]
      BY <1>1, <1>2, <1>8, <2>1 DEF Sound
    <2> HIDE DEF o
    <2>5. Sound(b)
      BY <1>5, <2>2, <2>3, <2>4 DEF Sound, SameClaims
    <2>6. Eligible(b, "geometry") = Eligible(a, "geometry")
      BY <1>6, <1>8, <2>2, SameEligible DEF Kinds
    <2>7. Turns(a, b, o)
      BY <1>5, <2>2, <2>5, <2>6 DEF Turns, Served, Steady, SameClaims
    <2> QED BY <1>5, <1>8, <2>2, <2>7 DEF Has, SameClaims, b, claims, o
  <1>9. CASE k \in a.claims[h] /\ k # "input"
    <2>1. b = Elect(dropped, k, None) /\ k \in {"focus", "geometry"}
      BY <1>9 DEF DropClaim, Kinds
    <2> HIDE DEF dropped, b
    <2>2. /\ Formed(b) /\ SameClaims(dropped, b) /\ Rightful(b, k)
          /\ \A j \in Kinds \ {k} : b.owner[j] = a.owner[j]
          /\ k = "geometry" => Served(b) /\ Steady(dropped, b)
      BY <1>5, <2>1, AmbientElected
    <2>3. b.owner["input"] = a.owner["input"]
      BY <1>9, <2>2 DEF Kinds
    <2>4. \A j \in {"focus", "geometry"} : Rightful(b, j)
      BY <1>5, <1>7, <2>2, RightfulStays DEF Kinds
    <2>5. a.owner["input"] # None => "input" \in claims[a.owner["input"]]
      BY <1>1, <1>2, <1>9 DEF Sound, Arbiters, Kinds
    <2>6. Sound(b)
      BY <1>5, <2>2, <2>3, <2>4, <2>5 DEF Sound, SameClaims
    <2>7. CASE k = "geometry"
      BY <1>5, <2>2, <2>3, <2>6, <2>7 DEF Turns, Steady, SameClaims, Has, b, claims
    <2>8. CASE k = "focus"
      <3>1. Eligible(b, "geometry") = Eligible(a, "geometry")
        BY <1>6, <2>2, <2>8, SameEligible DEF Kinds
      <3>2. b.owner["geometry"] = a.owner["geometry"]
        BY <2>2, <2>8 DEF Kinds
      <3>3. Turns(a, b, a.owner["input"])
        BY <1>5, <2>2, <2>3, <2>6, <3>1, <3>2 DEF Turns, Served, Steady, SameClaims
      <3> QED BY <1>5, <2>2, <2>8, <3>3 DEF Has, SameClaims, b, claims
    <2> QED BY <2>1, <2>7, <2>8
  <1> QED BY <1>4, <1>8, <1>9

LEMMA ConnectTurns ==
  ASSUME NEW a, Sound(a), NEW h \in Hosts \ Connected(a)
  PROVE  LET b == Connect(a, h)
         IN  /\ Turns(a, b, a.owner["input"])
             /\ Has(b, a.claims, a.foreground, Connected(a) \cup {h})
  <1> DEFINE s == <<h>> \o a.recent
             b == Connect(a, h)
  <1>1. s \in Seq(Hosts) /\ IsInjective(s) /\ ToSet(s) = Connected(a) \cup {h}
    BY PrependedProperties DEF Sound, Formed, Arbiters, Connected
  <1>2. b = [a EXCEPT !.recent = s]
    BY DEF Connect
  <1> HIDE DEF s, b
  <1>3. /\ Formed(b) /\ Connected(b) = Connected(a) \cup {h} /\ b.owner = a.owner
        /\ b.claims = a.claims /\ b.foreground = a.foreground /\ b.yielding = a.yielding
    BY <1>1, <1>2 DEF Sound, Formed, Arbiters, Connected
  <1>4. \A k : Eligible(b, k) = Eligible(a, k)
    BY <1>3 DEF Eligible
  <1>5. Sound(b)
    BY <1>3, <1>4 DEF Sound, Rightful
  <1> QED BY <1>3, <1>4, <1>5 DEF Turns, Has, Served, Steady, b

LEMMA DisconnectTurns ==
  ASSUME NEW a, Sound(a), NEW h \in Hosts
  PROVE  LET b == Disconnect(a, h)
         IN  /\ Turns(a, b, IF a.owner["input"] = h THEN None ELSE a.owner["input"])
             /\ Has(b, [a.claims EXCEPT ![h] = {}], a.foreground \ {h}, Connected(a) \ {h})
  <1> DEFINE s == RemoveFirst(a.recent, h)
             claims == [a.claims EXCEPT ![h] = {}]
             gone == [a EXCEPT !.recent = s, !.foreground = @ \ {h}, !.claims = claims]
             o == IF a.owner["input"] = h THEN None ELSE a.owner["input"]
             m == SetOwner(gone, "input", o)
             b == Disconnect(a, h)
  <1>1. a \in Arbiters /\ None \notin Hosts
    BY HostOfAssumption DEF Sound, Formed
  <1>2. s \in Seq(Hosts) /\ IsInjective(s) /\ ToSet(s) = Connected(a) \ {h}
    BY RemovalProperties DEF Sound, Formed, Arbiters, Connected
  <1>3. /\ claims \in [Hosts -> SUBSET Kinds] /\ claims[h] = {}
        /\ \A g \in Hosts \ {h} : claims[g] = a.claims[g]
    BY <1>1 DEF Arbiters
  <1>4. o \in Hosts \cup {None} /\ (o # None => "input" \in claims[o])
    BY <1>1, <1>3 DEF Sound, Arbiters, Kinds
  <1>5. b = ElectAmbient(m)
    <2>1. [a EXCEPT !.recent = s, !.foreground = @ \ {h}, !.claims[h] = {}] = gone
      BY <1>1 DEF Arbiters
    <2>2. CASE a.owner["input"] = h
      BY <2>1, <2>2 DEF Disconnect
    <2>3. CASE a.owner["input"] # h
      <3>1. SetOwner(gone, "input", a.owner["input"]) = gone
        BY <1>1 DEF SetOwner, Arbiters, Kinds
      <3> QED BY <2>1, <2>3, <3>1 DEF Disconnect
    <2> QED BY <2>2, <2>3
  <1> HIDE DEF s, claims, o, b
  <1>6. /\ Formed(gone) /\ Connected(gone) = Connected(a) \ {h} /\ gone.claims = claims
        /\ gone.foreground = a.foreground \ {h} /\ gone.owner = a.owner
        /\ gone.yielding = a.yielding
    BY <1>1, <1>2, <1>3 DEF Sound, Formed, Arbiters, Connected
  <1> HIDE DEF gone
  <1>7. /\ Formed(m) /\ SameClaims(gone, m) /\ m.owner["input"] = o
        /\ m.owner["geometry"] = a.owner["geometry"]
    BY <1>4, <1>6, SetInputProperties
  <1> HIDE DEF m
  <1>8. /\ Formed(b) /\ SameClaims(m, b) /\ b.owner["input"] = o
        /\ Rightful(b, "focus") /\ Rightful(b, "geometry") /\ Served(b) /\ Steady(m, b)
    BY <1>5, <1>7, ElectAmbientProperties
  <1>9. Sound(b)
    BY <1>4, <1>6, <1>7, <1>8 DEF Sound, SameClaims
  <1>10. Steady(a, b)
    BY <1>7, <1>8 DEF Steady
  <1> QED BY <1>6, <1>7, <1>8, <1>9, <1>10 DEF Turns, Has, SameClaims, b, o, claims

LEMMA ElectTurns ==
  ASSUME NEW a, Sound(a), NEW k \in {"focus", "geometry"}, NEW active
  PROVE  LET b == Elect(a, k, active)
         IN  Turns(a, b, a.owner["input"]) /\ Has(b, a.claims, a.foreground, Connected(a))
  <1> DEFINE b == Elect(a, k, active)
  <1>1. /\ Formed(b) /\ SameClaims(a, b) /\ Rightful(b, k)
        /\ \A j \in Kinds \ {k} : b.owner[j] = a.owner[j]
        /\ k = "geometry" => Served(b) /\ Steady(a, b)
    BY AmbientElected DEF Sound
  <1> HIDE DEF b
  <1>2. b.owner["input"] = a.owner["input"]
    BY <1>1 DEF Kinds
  <1>3. \A j \in {"focus", "geometry"} : Rightful(b, j)
    BY <1>1, RightfulStays DEF Kinds, Sound
  <1>4. Sound(b)
    BY <1>1, <1>2, <1>3 DEF Sound, SameClaims
  <1>5. CASE k = "geometry"
    BY <1>1, <1>2, <1>4, <1>5 DEF Turns, Has, SameClaims, b
  <1>6. CASE k = "focus"
    <2>1. Eligible(b, "geometry") = Eligible(a, "geometry") /\ b.owner["geometry"] = a.owner["geometry"]
      BY <1>1, <1>6, SameEligible DEF Kinds
    <2> QED BY <1>1, <1>2, <1>4, <2>1 DEF Turns, Has, SameClaims, Served, Steady, b
  <1> QED BY <1>5, <1>6

LEMMA ActivityTurns ==
  ASSUME NEW a, Sound(a), NEW h \in Connected(a)
  PROVE  LET b == Activity(a, h)
         IN  Turns(a, b, a.owner["input"]) /\ Has(b, a.claims, a.foreground, Connected(a))
  <1> DEFINE b == Activity(a, h)
  <1>1. h \in Hosts /\ Connected(a) \cup {h} = Connected(a)
    BY DEF Sound, Formed, Arbiters, Connected, ToSet
  <1>2. /\ Formed(b) /\ Connected(b) = Connected(a) /\ b.foreground = a.foreground
        /\ b.claims = a.claims /\ b.owner = a.owner /\ b.yielding = a.yielding
    BY <1>1, ActivityProperties DEF Sound
  <1> HIDE DEF b
  <1>3. \A k : Eligible(b, k) = Eligible(a, k)
    BY <1>2 DEF Eligible
  <1>4. Sound(b)
    BY <1>2, <1>3 DEF Sound, Rightful
  <1> QED BY <1>2, <1>3, <1>4 DEF Turns, Has, Served, Steady, b

\* A second operation keeps what the first kept, if it does not make the owner
\* eligible again that the first found not to be.
LEMMA TurnsChain ==
  ASSUME NEW a, NEW b, NEW c, NEW i, NEW j, Turns(a, b, i), Turns(b, c, j),
         a.owner["geometry"] \in Eligible(c, "geometry") =>
           a.owner["geometry"] \in Eligible(b, "geometry")
  PROVE  Turns(a, c, j)
  BY DEF Turns, Steady

-----------------------------------------------------------------------------
(* The runtime *)

Leases == [Hosts -> {"none", "live", "stale"}]
Runtimes == [arb : Arbiters, controller : Hosts \cup {None}, lease : Leases]

\* Input, controller and leases name the same host.
Consistent(s) ==
  /\ s \in Runtimes /\ Sound(s.arb)
  /\ s.controller = s.arb.owner["input"]
  /\ \A h \in Hosts : s.lease[h] = "live" <=> s.controller = h

\* An operation of the runtime, after which c are connected.
Leads(s, r, c) ==
  /\ Consistent(r) /\ Turns(s.arb, r.arb, r.controller) /\ Connected(r.arb) = c
  /\ \A h \in Hosts : r.lease[h] = "stale" => s.lease[h] = "stale"

\* What changes the arbiter only, and not the owner of the input.
LEMMA ArbiterLeads ==
  ASSUME NEW s, Consistent(s), NEW b, Turns(s.arb, b, s.controller), NEW c, Connected(b) = c
  PROVE  Leads(s, [s EXCEPT !.arb = b], c)
  BY DEF Leads, Consistent, Runtimes, Turns, Sound, Formed

LEMMA AcquireLeads ==
  ASSUME NEW s, Consistent(s), NEW h \in Connected(s.arb), s.controller \in {None, h}
  PROVE  Leads(s, Acquire(s, h), Connected(s.arb)) /\ Acquire(s, h).controller = h
  <1> DEFINE p == Presence(s.arb, h, TRUE)
             q == GiveClaim(p, h, "input")
             r == Acquire(s, h)
  <1>1. h \in Hosts /\ Sound(s.arb) /\ None \notin Hosts /\ "input" \in Kinds /\ s \in Runtimes
    BY HostOfAssumption DEF Consistent, Sound, Formed, Arbiters, Connected, ToSet, Kinds
  <1>2. /\ Turns(s.arb, p, s.arb.owner["input"])
        /\ Has(p, s.arb.claims, s.arb.foreground \cup {h}, Connected(s.arb))
    BY <1>1, PresenceTurns
  <1>3. /\ Turns(p, q, h)
        /\ Has(q, [s.arb.claims EXCEPT ![h] = @ \cup {"input"}], s.arb.foreground \cup {h}, Connected(s.arb))
    <2> HIDE DEF p
    <2> QED BY <1>1, <1>2, GiveClaimTurns DEF Turns, Has
  <1>4. /\ r.arb = q /\ r.controller = h
        /\ r.lease \in Leases
        /\ \A g \in Hosts : r.lease[g] = IF g = h THEN "live" ELSE s.lease[g]
        /\ r \in [arb : {q}, controller : {h}, lease : Leases]
    <2> HIDE DEF q
    <2>1. [s EXCEPT !.arb = q] = [arb |-> q, controller |-> s.controller, lease |-> s.lease]
      BY <1>1 DEF Runtimes
    <2>2. CASE s.controller = h
      <3>1. r = [arb |-> q, controller |-> h, lease |-> [s.lease EXCEPT ![h] = "live"]]
        BY <2>1, <2>2 DEF Acquire, q
      <3> QED BY <1>1, <3>1 DEF Runtimes, Leases
    <2>3. CASE s.controller # h
      <3>1. \A g \in Hosts : s.lease[g] # "live"
        BY <1>1, <2>3 DEF Consistent
      <3>2. Outdated(s.lease) = s.lease
        BY <1>1, <3>1 DEF Outdated, Runtimes, Leases
      <3>3. r = [arb |-> q, controller |-> h, lease |-> [s.lease EXCEPT ![h] = "live"]]
        BY <2>1, <2>3, <3>2 DEF Acquire, Assign, q
      <3> QED BY <1>1, <3>3 DEF Runtimes, Leases
    <2> QED BY <2>2, <2>3
  <1> HIDE DEF p, q, r
  <1>5. Eligible(q, "geometry") = Eligible(p, "geometry")
    BY <1>1, <1>2, <1>3 DEF Eligible, Has, Runtimes, Arbiters
  <1>6. Turns(s.arb, q, h)
    BY <1>2, <1>3, <1>5, TurnsChain
  <1>7. Consistent(r)
    BY <1>1, <1>4, <1>6 DEF Consistent, Runtimes, Turns, Sound, Formed
  <1> QED BY <1>3, <1>4, <1>6, <1>7 DEF Leads, Has, r

LEMMA SurrenderLeads ==
  ASSUME NEW s, Consistent(s), NEW h \in Hosts, s.controller = h
  PROVE  /\ Leads(s, Surrender(s, h), Connected(s.arb)) /\ Surrender(s, h).controller = None
         /\ Eligible(Surrender(s, h).arb, "geometry") \subseteq Eligible(s.arb, "geometry")
         /\ Surrender(s, h).lease[h] = "none"
  <1> DEFINE p == DropClaim(s.arb, h, "input")
             q == DropClaim(p, h, "geometry")
             r == Surrender(s, h)
  <1>1. Sound(s.arb) /\ None \notin Hosts /\ {"input", "geometry"} \subseteq Kinds /\ s \in Runtimes
    BY HostOfAssumption DEF Consistent, Kinds
  <1>2. Turns(s.arb, p, None)
        /\ Has(p, [s.arb.claims EXCEPT ![h] = @ \ {"input"}], s.arb.foreground, Connected(s.arb))
    <2>1. s.arb.owner["input"] = h
      BY DEF Consistent
    <2> QED BY <1>1, <2>1, DropClaimTurns
  <1>3. Turns(p, q, None)
        /\ Has(q, [p.claims EXCEPT ![h] = @ \ {"geometry"}], s.arb.foreground, Connected(s.arb))
    <2> HIDE DEF p
    <2>1. Sound(p) /\ p.owner["input"] = None
      BY <1>2 DEF Turns
    <2> QED BY <1>1, <1>2, <2>1, DropClaimTurns DEF Has
  <1> HIDE DEF p, q
  <1>4. Eligible(q, "geometry") \subseteq Eligible(p, "geometry")
    BY <1>2, <1>3 DEF Eligible, Has, Turns, Sound, Formed, Arbiters
  <1>5. Turns(s.arb, q, None)
    BY <1>2, <1>3, <1>4, TurnsChain
  <1>6. r = [arb |-> q, controller |-> None, lease |-> [Outdated(s.lease) EXCEPT ![h] = "none"]]
    <2> DEFINE clear == [arb |-> s.arb, controller |-> None, lease |-> Outdated(s.lease)]
               cleared == [arb |-> s.arb, controller |-> None,
                           lease |-> [Outdated(s.lease) EXCEPT ![h] = "none"]]
    <2>1. ClearController(s) = clear
      BY <1>1 DEF ClearController, Runtimes
    <2>2. [clear EXCEPT !.lease[h] = "none"] = cleared
      OBVIOUS
    <2>3. r = [cleared EXCEPT !.arb = DropClaim(DropClaim(cleared.arb, h, "input"), h, "geometry")]
      BY <2>1, <2>2 DEF Surrender
    <2>4. cleared.arb = s.arb
      OBVIOUS
    <2> QED BY <2>3, <2>4 DEF p, q
  <1> HIDE DEF r
  <1>7. /\ r \in [arb : {q}, controller : {None}, lease : Leases]
        /\ \A g \in Hosts : r.lease[g] = IF g = h THEN "none" ELSE s.lease[g]
    BY <1>1, <1>6 DEF Runtimes, Leases, Outdated, Consistent
  <1>8. Consistent(r)
    BY <1>1, <1>5, <1>7 DEF Consistent, Runtimes, Turns, Sound, Formed
  <1>9. Eligible(p, "geometry") \subseteq Eligible(s.arb, "geometry")
    <2>1. s.arb.claims \in [Hosts -> SUBSET Kinds]
      BY <1>1 DEF Sound, Formed, Arbiters
    <2>2. \A g \in Hosts : "geometry" \in p.claims[g] => "geometry" \in s.arb.claims[g]
      BY <1>1, <1>2, <2>1 DEF Has
    <2> QED BY <1>2, <2>2 DEF Eligible, Has
  <1> QED BY <1>3, <1>4, <1>5, <1>7, <1>8, <1>9 DEF Leads, Has, r


LEMMA Shown ==
  ASSUME NEW a, Sound(a), NEW h \in Connected(a)
  PROVE  LET b == Presence(a, h, TRUE)
         IN  Turns(a, b, a.owner["input"]) /\ Has(b, a.claims, a.foreground \cup {h}, Connected(a))
  <1>1. \A v \in BOOLEAN : LET b == Presence(a, h, v)
         IN  /\ Turns(a, b, a.owner["input"])
             /\ Has(b, a.claims, IF v THEN a.foreground \cup {h} ELSE a.foreground \ {h}, Connected(a))
    BY PresenceTurns
  <1> QED BY <1>1, Zenon

LEMMA Hidden ==
  ASSUME NEW a, Sound(a), NEW h \in Connected(a)
  PROVE  LET b == Presence(a, h, FALSE)
         IN  Turns(a, b, a.owner["input"]) /\ Has(b, a.claims, a.foreground \ {h}, Connected(a))
  <1>1. \A v \in BOOLEAN : LET b == Presence(a, h, v)
         IN  /\ Turns(a, b, a.owner["input"])
             /\ Has(b, a.claims, IF v THEN a.foreground \cup {h} ELSE a.foreground \ {h}, Connected(a))
    BY PresenceTurns
  <1> QED BY <1>1, Zenon

LEMMA Assigned ==
  ASSUME NEW s \in Runtimes, NEW b, NEW h
  PROVE  Assign([s EXCEPT !.arb = b], h)
           = [arb |-> b, controller |-> h, lease |-> [Outdated(s.lease) EXCEPT ![h] = "live"]]
  <1>1. [s EXCEPT !.arb = b] = [arb |-> b, controller |-> s.controller, lease |-> s.lease]
    BY DEF Runtimes
  <1> DEFINE m == [arb |-> b, controller |-> s.controller, lease |-> s.lease]
  <1>2. Assign(m, h)
          = [arb |-> b, controller |-> h, lease |-> [Outdated(s.lease) EXCEPT ![h] = "live"]]
    <2>1. m.lease = s.lease
      OBVIOUS
    <2>2. Assign(m, h) = [m EXCEPT !.controller = h, !.lease = [Outdated(m.lease) EXCEPT ![h] = "live"]]
      BY DEF Assign
    <2> DEFINE l == [Outdated(s.lease) EXCEPT ![h] = "live"]
    <2>3. Assign(m, h) = [m EXCEPT !.controller = h, !.lease = l]
      BY <2>1, <2>2
    <2> HIDE DEF l
    <2>4. [m EXCEPT !.controller = h, !.lease = l] = [arb |-> b, controller |-> h, lease |-> l]
      <3>1. [m EXCEPT !.controller = h] = [arb |-> b, controller |-> h, lease |-> s.lease]
        OBVIOUS
      <3>2. [[arb |-> b, controller |-> h, lease |-> s.lease] EXCEPT !.lease = l]
              = [arb |-> b, controller |-> h, lease |-> l]
        OBVIOUS
      <3> QED BY <3>1, <3>2
    <2> QED BY <2>3, <2>4 DEF l
  <1> HIDE DEF m
  <1>3. [s EXCEPT !.arb = b] = m
    BY <1>1 DEF m
  <1> QED BY <1>2, <1>3

\* The host in the way gives up the input and the geometry, both lose and gain the
\* foreground, and the other takes the controller.
LEMMA HandoffLeads ==
  ASSUME NEW s, Consistent(s), NEW from \in Connected(s.arb), NEW to \in Connected(s.arb),
         s.controller = from, from # to
  PROVE  Leads(s, Handoff(s, from, to), Connected(s.arb)) /\ Handoff(s, from, to).controller = to
  <1> DEFINE a == s.arb
             c == Connected(a)
             p1 == DropClaim(a, from, "input")
             p2 == DropClaim(p1, from, "geometry")
             p3 == Presence(p2, from, FALSE)
             p4 == Presence(p3, to, TRUE)
             p5 == GiveClaim(p4, to, "input")
             r == Handoff(s, from, to)
  <1>1. /\ from \in Hosts /\ to \in Hosts /\ Sound(a) /\ None \notin Hosts
        /\ "input" \in Kinds /\ "geometry" \in Kinds /\ s \in Runtimes
        /\ a.owner["input"] = from /\ from \in c /\ to \in c
    BY HostOfAssumption DEF Consistent, Sound, Formed, Arbiters, Connected, ToSet, Kinds
  <1>2. r = [arb |-> p5, controller |-> to,
             lease |-> [[Outdated(s.lease) EXCEPT ![to] = "live"] EXCEPT ![from] = "none"]]
    <2> HIDE DEF p5
    <2> DEFINE assigned == [arb |-> p5, controller |-> to, lease |-> [Outdated(s.lease) EXCEPT ![to] = "live"]]
    <2>2. Assign([s EXCEPT !.arb = p5], to) = assigned
      BY <1>1, Assigned
    <2>3. r = [Assign([s EXCEPT !.arb = p5], to) EXCEPT !.lease[from] = "none"]
      BY DEF Handoff, p5
    <2> HIDE DEF r
    <2> QED BY <2>2, <2>3
  <1>3. /\ Turns(a, p1, None)
        /\ Has(p1, [a.claims EXCEPT ![from] = @ \ {"input"}], a.foreground, c)
    BY <1>1, DropClaimTurns
  <1> HIDE DEF p1
  <1>4. /\ Turns(p1, p2, None)
        /\ Has(p2, [p1.claims EXCEPT ![from] = @ \ {"geometry"}], a.foreground, c)
    <2>1. Sound(p1) /\ p1.owner["input"] = None
      BY <1>3 DEF Turns
    <2> QED BY <1>1, <1>3, <2>1, DropClaimTurns DEF Has
  <1> HIDE DEF p2
  <1>5. /\ Turns(p2, p3, None)
        /\ Has(p3, p2.claims, a.foreground \ {from}, c)
    <2>1. Sound(p2) /\ p2.owner["input"] = None /\ from \in Connected(p2)
      BY <1>1, <1>4 DEF Turns, Has
    <2>2. Turns(p2, p3, p2.owner["input"]) /\ Has(p3, p2.claims, p2.foreground \ {from}, Connected(p2))
      BY <2>1, Hidden, Zenon
    <2> HIDE DEF p3
    <2> QED BY <1>4, <2>1, <2>2 DEF Has
  <1> HIDE DEF p3
  <1>6. /\ Turns(p3, p4, None)
        /\ Has(p4, p2.claims, (a.foreground \ {from}) \cup {to}, c)
    <2>1. Sound(p3) /\ p3.owner["input"] = None /\ to \in Connected(p3)
      BY <1>1, <1>5 DEF Turns, Has
    <2>2. Turns(p3, p4, p3.owner["input"]) /\ Has(p4, p3.claims, p3.foreground \cup {to}, Connected(p3))
      BY <2>1, Shown, Zenon
    <2> HIDE DEF p4
    <2> QED BY <1>5, <2>1, <2>2 DEF Has
  <1> HIDE DEF p4
  <1>7. /\ Turns(p4, p5, to)
        /\ Has(p5, [p2.claims EXCEPT ![to] = @ \cup {"input"}], (a.foreground \ {from}) \cup {to}, c)
    <2>1. Sound(p4) /\ to \in Connected(p4)
      BY <1>1, <1>6 DEF Turns, Has
    <2> QED BY <1>1, <1>6, <2>1, GiveClaimTurns DEF Has
  <1> HIDE DEF p5, r
  <1>8. Turns(a, p5, to)
    <2> DEFINE o == a.owner["geometry"]
    <2>1. o \in Hosts \cup {None} /\ (o # None => o \in a.foreground)
      BY <1>1 DEF Sound, Rightful, Eligible, Formed, Arbiters, Kinds
    <2>2. /\ o \in Eligible(p2, "geometry") => o \in Eligible(p1, "geometry")
          /\ o \in Eligible(p3, "geometry") => o \in Eligible(p2, "geometry")
          /\ o \in Eligible(p4, "geometry") => o \in Eligible(p3, "geometry")
          /\ o \in Eligible(p5, "geometry") => o \in Eligible(p4, "geometry")
      <3>1. /\ a.claims \in [Hosts -> SUBSET Kinds] /\ p1.claims \in [Hosts -> SUBSET Kinds]
            /\ p2.claims \in [Hosts -> SUBSET Kinds]
        BY <1>1, <1>3, <1>4 DEF Turns, Sound, Formed, Arbiters
      <3>2. \A g \in Hosts : "geometry" \in p2.claims[g] => "geometry" \in p1.claims[g]
        BY <1>1, <1>4, <3>1 DEF Has
      <3>3. o \in Eligible(p2, "geometry") => o \in Eligible(p1, "geometry")
        BY <1>3, <1>4, <3>2 DEF Eligible, Has
      <3>4. o \in Eligible(p3, "geometry") => o \in Eligible(p2, "geometry")
        BY <1>4, <1>5 DEF Eligible, Has
      <3>5. o \in Eligible(p4, "geometry") => o \in Eligible(p3, "geometry")
        BY <1>1, <1>5, <1>6, <2>1 DEF Eligible, Has
      <3>6. \A g \in Hosts : "geometry" \in p5.claims[g] => "geometry" \in p4.claims[g]
        BY <1>1, <1>6, <1>7, <3>1 DEF Has
      <3>7. o \in Eligible(p5, "geometry") => o \in Eligible(p4, "geometry")
        BY <1>6, <1>7, <3>6 DEF Eligible, Has
      <3> QED BY <3>3, <3>4, <3>5, <3>7
    <2> HIDE DEF o
    <2>3. Turns(a, p2, None)
      BY <1>3, <1>4, <2>2 DEF Turns, Steady, o
    <2>4. Turns(a, p3, None)
      BY <1>5, <2>2, <2>3 DEF Turns, Steady, o
    <2>5. Turns(a, p4, None)
      BY <1>6, <2>2, <2>4 DEF Turns, Steady, o
    <2> QED BY <1>7, <2>2, <2>5 DEF Turns, Steady, o
  <1> DEFINE lease2 == [[Outdated(s.lease) EXCEPT ![to] = "live"] EXCEPT ![from] = "none"]
  <1>9. /\ r.arb = p5 /\ r.controller = to /\ r.lease \in Leases
        /\ \A g \in Hosts : r.lease[g] = IF g = from THEN "none"
                                         ELSE IF g = to THEN "live" ELSE s.lease[g]
        /\ r \in [arb : {p5}, controller : {to}, lease : Leases]
    BY <1>1, <1>2 DEF Runtimes, Leases, Outdated, Consistent
  <1>10. Consistent(r)
    BY <1>1, <1>8, <1>9 DEF Consistent, Runtimes, Turns, Sound, Formed
  <1> QED BY <1>7, <1>8, <1>9, <1>10 DEF Leads, Has, r


LEMMA LeadsChain ==
  ASSUME NEW s, NEW m, NEW r, NEW c, NEW d, Leads(s, m, c), Leads(m, r, d),
         \/ m.arb.owner["geometry"] = s.arb.owner["geometry"]
         \/ Eligible(r.arb, "geometry") \subseteq Eligible(m.arb, "geometry")
  PROVE  Leads(s, r, d)
  <1>1. Rightful(m.arb, "geometry")
    BY DEF Leads, Consistent, Sound
  <1>2. Steady(s.arb, r.arb)
    <2>1. Steady(s.arb, m.arb) /\ Steady(m.arb, r.arb) /\ r.arb.yielding = m.arb.yielding
      BY DEF Leads, Turns
    <2> QED BY <1>1, <2>1 DEF Steady, Rightful
  <1> QED BY <1>2 DEF Leads, Turns

\* A host without the lease that makes it the controller gives up its lease.
LEMMA ForgetLeads ==
  ASSUME NEW s, Consistent(s), NEW h \in Hosts, s.lease[h] # "live"
  PROVE  /\ Leads(s, [s EXCEPT !.lease[h] = "none"], Connected(s.arb))
         /\ [s EXCEPT !.lease[h] = "none"].arb = s.arb
         /\ [s EXCEPT !.lease[h] = "none"].controller = s.controller
  <1> DEFINE r == [s EXCEPT !.lease[h] = "none"]
  <1>1. r = [arb |-> s.arb, controller |-> s.controller, lease |-> [s.lease EXCEPT ![h] = "none"]]
    BY DEF Consistent, Runtimes
  <1> HIDE DEF r
  <1>2. /\ r.arb = s.arb /\ r.controller = s.controller /\ r \in Runtimes
        /\ \A g \in Hosts : r.lease[g] = IF g = h THEN "none" ELSE s.lease[g]
    BY <1>1 DEF Consistent, Runtimes, Leases
  <1>3. Consistent(r)
    BY <1>2 DEF Consistent
  <1> QED BY <1>2, <1>3 DEF Leads, Turns, Steady, Consistent, r

LEMMA ActivateLeads ==
  ASSUME NEW s, Consistent(s), NEW h \in Connected(s.arb), blocked \in BOOLEAN
  PROVE  /\ Leads(s, Activate(s, h), Connected(s.arb))
         /\ ~blocked => Activate(s, h).controller = h
  <1>1. h \in Hosts /\ s \in Runtimes /\ Sound(s.arb)
    BY DEF Consistent, Sound, Formed, Arbiters, Connected, ToSet
  <1>2. CASE s.lease[h] = "live"
    <2>1. Activate(s, h) = s /\ s.controller = h
      BY <1>1, <1>2 DEF Activate, Consistent
    <2> QED BY <2>1 DEF Leads, Turns, Steady, Consistent
  <1>3. CASE s.lease[h] # "live" /\ blocked
    BY <1>1, <1>3, ForgetLeads DEF Activate
  <1>4. CASE s.lease[h] # "live" /\ ~blocked /\ s.controller \in {None, h}
    BY <1>1, <1>4, AcquireLeads DEF Activate
  <1>5. CASE s.lease[h] # "live" /\ ~blocked /\ s.controller \notin {None, h}
    <2>1. /\ s.controller \in Hosts /\ s.lease[s.controller] = "live"
          /\ s.controller \in Connected(s.arb)
      BY <1>1, <1>5 DEF Consistent, Runtimes, Sound, Formed
    <2>2. Activate(s, h) = Handoff(s, s.controller, h)
      BY <1>5, <2>1 DEF Activate
    <2> QED BY <1>5, <2>1, <2>2, HandoffLeads
  <1> QED BY <1>2, <1>3, <1>4, <1>5

LEMMA DropLeads ==
  ASSUME NEW s, Consistent(s), NEW h \in Hosts, NEW k \in Kinds, k = "input" => s.controller # h
  PROVE  LET r == [s EXCEPT !.arb = DropClaim(s.arb, h, k)]
         IN  /\ Leads(s, r, Connected(s.arb)) /\ r.controller = s.controller /\ r.lease = s.lease
             /\ Eligible(r.arb, "geometry") \subseteq Eligible(s.arb, "geometry")
  <1> DEFINE q == DropClaim(s.arb, h, k)
  <1>1. s \in Runtimes /\ Sound(s.arb) /\ s.controller = s.arb.owner["input"]
        /\ s.arb.claims \in [Hosts -> SUBSET Kinds]
    BY DEF Consistent, Sound, Formed, Arbiters
  <1>2. /\ Turns(s.arb, q, s.controller)
        /\ Has(q, [s.arb.claims EXCEPT ![h] = @ \ {k}], s.arb.foreground, Connected(s.arb))
    BY <1>1, DropClaimTurns
  <1> HIDE DEF q
  <1>3. Leads(s, [s EXCEPT !.arb = q], Connected(s.arb))
    BY <1>2, ArbiterLeads DEF Has
  <1>4. Eligible(q, "geometry") \subseteq Eligible(s.arb, "geometry")
    BY <1>1, <1>2 DEF Eligible, Has
  <1>5. /\ [s EXCEPT !.arb = q].arb = q /\ [s EXCEPT !.arb = q].controller = s.controller
        /\ [s EXCEPT !.arb = q].lease = s.lease
    BY <1>1 DEF Runtimes
  <1> QED BY <1>3, <1>4, <1>5 DEF q

LEMMA GiveLeads ==
  ASSUME NEW s, Consistent(s), NEW h \in Connected(s.arb), NEW k \in Kinds,
         k = "input" => s.controller = h
  PROVE  LET r == [s EXCEPT !.arb = GiveClaim(s.arb, h, k)]
         IN  /\ Leads(s, r, Connected(s.arb)) /\ r.controller = s.controller
             /\ k = "input" => Eligible(r.arb, "geometry") = Eligible(s.arb, "geometry")
  <1> DEFINE q == GiveClaim(s.arb, h, k)
  <1>1. s \in Runtimes /\ Sound(s.arb) /\ s.controller = s.arb.owner["input"]
        /\ s.arb.claims \in [Hosts -> SUBSET Kinds] /\ h \in Hosts
    BY DEF Consistent, Sound, Formed, Arbiters, Connected, ToSet
  <1>2. /\ Turns(s.arb, q, s.controller)
        /\ Has(q, [s.arb.claims EXCEPT ![h] = @ \cup {k}], s.arb.foreground, Connected(s.arb))
    BY <1>1, GiveClaimTurns
  <1> HIDE DEF q
  <1>3. Leads(s, [s EXCEPT !.arb = q], Connected(s.arb))
    BY <1>2, ArbiterLeads DEF Has
  <1>4. k = "input" => Eligible(q, "geometry") = Eligible(s.arb, "geometry")
    BY <1>1, <1>2 DEF Eligible, Has
  <1>5. [s EXCEPT !.arb = q].arb = q /\ [s EXCEPT !.arb = q].controller = s.controller
    BY <1>1 DEF Runtimes
  <1> QED BY <1>3, <1>4, <1>5 DEF q

LEMMA DisconnectLeads ==
  ASSUME NEW s, Consistent(s), NEW h \in Hosts, s.controller # h
  PROVE  LET r == [s EXCEPT !.arb = Disconnect(s.arb, h)]
         IN  /\ Leads(s, r, Connected(s.arb) \ {h})
             /\ Eligible(r.arb, "geometry") \subseteq Eligible(s.arb, "geometry")
  <1> DEFINE q == Disconnect(s.arb, h)
  <1>1. s \in Runtimes /\ Sound(s.arb) /\ s.controller = s.arb.owner["input"]
        /\ s.arb.claims \in [Hosts -> SUBSET Kinds]
    BY DEF Consistent, Sound, Formed, Arbiters
  <1>2. /\ Turns(s.arb, q, s.controller)
        /\ Has(q, [s.arb.claims EXCEPT ![h] = {}], s.arb.foreground \ {h}, Connected(s.arb) \ {h})
    BY <1>1, DisconnectTurns
  <1> HIDE DEF q
  <1>3. Leads(s, [s EXCEPT !.arb = q], Connected(s.arb) \ {h})
    BY <1>2, ArbiterLeads DEF Has
  <1>4. Eligible(q, "geometry") \subseteq Eligible(s.arb, "geometry")
    BY <1>1, <1>2 DEF Eligible, Has
  <1>5. [s EXCEPT !.arb = q].arb = q
    BY <1>1 DEF Runtimes
  <1> QED BY <1>3, <1>4, <1>5 DEF q

-----------------------------------------------------------------------------
(* The inductive invariant *)

\* Only transports that are bound size, each for its host and once.
Placed ==
  /\ role \in [Transports -> Roles \cup {"none"}]
  /\ sizers \in [Hosts -> Seq(Transports)]
  /\ \A h \in Hosts :
       /\ IsInjective(sizers[h])
       /\ \A t \in ToSet(sizers[h]) : HostOf[t] = h /\ role[t] # "none"

Linked == \A h \in Hosts : h \in Connected(arb) <=> Refs(h) # {}

IInv ==
  /\ Consistent(Now) /\ Placed /\ Linked
  /\ timer \in BOOLEAN /\ blocked \in BOOLEAN
  /\ timer \/ Served(arb)
  /\ arb.yielding => timer

StepOK ==
  /\ Steady(arb, arb')
  /\ \A h \in Hosts : lease[h] # "stale" /\ lease'[h] = "stale" => blocked'

LEMMA Advances ==
  ASSUME IInv, NEW r, NEW c, Leads(Now, r, c), Becomes(r), timer' = timer, blocked' \in BOOLEAN,
         Placed', \A h \in Hosts : h \in c <=> Refs(h)' # {}
  PROVE  IInv' /\ StepOK
  <1>1. r = [arb |-> r.arb, controller |-> r.controller, lease |-> r.lease]
    BY DEF Leads, Consistent, Runtimes
  <1>2. arb' = r.arb /\ controller' = r.controller /\ lease' = r.lease /\ Now' = r
    BY <1>1 DEF Becomes, Now
  <1>3. Now.arb = arb /\ Now.lease = lease /\ Now.controller = controller
    BY DEF Now
  <1>4. Consistent(Now)'
    BY <1>2 DEF Leads, Consistent, Sound, Formed, Rightful, Eligible, Connected
  <1>5. Linked'
    BY <1>2 DEF Leads, Linked, Connected
  <1>6. (timer \/ Served(arb))' /\ (arb.yielding => timer)'
    BY <1>2, <1>3 DEF IInv, Leads, Turns, Served, Eligible
  <1>7. StepOK
    BY <1>2, <1>3 DEF StepOK, Leads, Turns, Steady, Eligible
  <1> QED BY <1>4, <1>5, <1>6, <1>7 DEF IInv

\* An operation that binds and closes nothing.
LEMMA Stays ==
  ASSUME IInv, NEW r, Leads(Now, r, Connected(arb)), Becomes(r),
         UNCHANGED <<timer, role, sizers, blocked>>
  PROVE  IInv' /\ StepOK
  <1>1. Placed'
    BY DEF IInv, Placed
  <1>2. \A h \in Hosts : h \in Connected(arb) <=> Refs(h)' # {}
    BY DEF IInv, Linked, Refs
  <1> QED BY <1>1, <1>2, Advances DEF IInv

LEMMA StutterStays ==
  ASSUME IInv, UNCHANGED vars
  PROVE  IInv' /\ StepOK
  <1>1. Leads(Now, Now, Connected(arb)) /\ Becomes(Now)
    BY DEF IInv, Leads, Turns, Steady, Consistent, Now, Becomes, vars
  <1> QED BY <1>1, Stays DEF vars

LEMMA InitHolds == Init => IInv
  <1> SUFFICES ASSUME Init PROVE IInv
    OBVIOUS
  <1>1. ToSet(<<>>) = {} /\ IsInjective(<<>>)
    BY DEF ToSet, IsInjective
  <1>2. arb \in Arbiters
    BY HostOfAssumption DEF Init, Arbiters, Kinds
  <1>3. Formed(arb) /\ \A k \in Kinds : arb.owner[k] = None /\ Eligible(arb, k) = {}
    BY <1>1, <1>2 DEF Init, Formed, Eligible, Connected
  <1>4. Sound(arb)
    BY <1>3 DEF Sound, Rightful, Kinds
  <1>5. Consistent(Now)
    BY <1>2, <1>3, <1>4, HostOfAssumption DEF Init, Consistent, Now, Runtimes, Leases, Kinds
  <1>6. Placed
    BY <1>1 DEF Init, Placed
  <1>7. Linked
    BY <1>1 DEF Init, Linked, Refs, Connected
  <1> QED BY <1>3, <1>5, <1>6, <1>7 DEF Init, IInv, Served, Kinds

-----------------------------------------------------------------------------
(* The actions *)

\* The host of a transport that is bound is connected.
LEMMA BoundConnected ==
  ASSUME IInv, NEW t \in Transports, role[t] # "none"
  PROVE  HostOf[t] \in Hosts /\ HostOf[t] \in Connected(arb) /\ t \in Refs(HostOf[t])
  BY HostOfAssumption DEF IInv, Linked, Refs

LEMMA NowConsistent ==
  ASSUME IInv
  PROVE  Consistent(Now) /\ Now.arb = arb /\ Now.controller = controller /\ Now.lease = lease
  BY DEF IInv, Now

LEMMA BindKeeps ==
  ASSUME IInv, NEW t \in Transports, Bind(t)
  PROVE  IInv' /\ StepOK
  <1> DEFINE h == HostOf[t]
             joined == IF Refs(h) = {} THEN [Now EXCEPT !.arb = Connect(Now.arb, h)] ELSE Now
             c == Connected(arb) \cup {h}
  <1>1. h \in Hosts /\ Consistent(Now) /\ Now.arb = arb /\ Now.controller = controller
        /\ Now.lease = lease /\ Now \in Runtimes /\ Sound(arb)
    BY HostOfAssumption, NowConsistent DEF Consistent
  <1>2. PICK r \in RolesOf[t] : LET takes == r = "attachment" /\ lease[h] = "none" IN
          /\ takes => ~blocked /\ controller \in {None, h}
          /\ role' = [role EXCEPT ![t] = r]
          /\ sizers' = [sizers EXCEPT ![h] = IF r = "stream" THEN Append(@, t) ELSE @]
          /\ Becomes(IF takes THEN Acquire(joined, h) ELSE joined)
    BY DEF Bind
  <1>3. role[t] = "none" /\ timer' = timer /\ blocked' = blocked
    BY DEF Bind
  <1>4. r \in Roles /\ r # "none"
    BY RolesOfAssumption DEF Roles
  <1>5. /\ Leads(Now, joined, c) /\ joined.controller = controller
        /\ joined.arb.owner["geometry"] = arb.owner["geometry"]
    <2>1. CASE Refs(h) = {}
      <3> DEFINE q == Connect(arb, h)
      <3>1. h \notin Connected(arb)
        BY <1>1, <2>1 DEF IInv, Linked
      <3>2. Turns(arb, q, controller) /\ Connected(q) = c
        BY <1>1, <3>1, ConnectTurns DEF Has, Consistent
      <3>3. q.owner = arb.owner
        BY <1>1 DEF Connect, Sound, Formed, Arbiters
      <3> HIDE DEF q
      <3>4. Leads(Now, [Now EXCEPT !.arb = q], c)
        BY <1>1, <3>2, ArbiterLeads
      <3>5. joined = [Now EXCEPT !.arb = q]
        BY <1>1, <2>1 DEF q
      <3>6. [Now EXCEPT !.arb = q].arb = q /\ [Now EXCEPT !.arb = q].controller = controller
        BY <1>1 DEF Runtimes
      <3> QED BY <3>3, <3>4, <3>5, <3>6
    <2>2. CASE Refs(h) # {}
      <3>1. h \in Connected(arb)
        BY <1>1, <2>2 DEF IInv, Linked
      <3>2. Connected(arb) = c
        BY <3>1
      <3> QED BY <1>1, <2>2, <3>2 DEF Leads, Turns, Steady, Consistent
    <2> QED BY <2>1, <2>2
  <1> HIDE DEF joined
  <1> DEFINE takes == r = "attachment" /\ lease[h] = "none"
             m == IF takes THEN Acquire(joined, h) ELSE joined
  <1>6. Leads(Now, m, c)
    <2>1. CASE takes
      <3>1. Consistent(joined) /\ h \in Connected(joined.arb) /\ Connected(joined.arb) = c
        BY <1>5 DEF Leads
      <3>2. Leads(joined, Acquire(joined, h), c)
        BY <1>2, <1>5, <2>1, <3>1, AcquireLeads
      <3>3. Leads(Now, Acquire(joined, h), c)
        BY <1>1, <1>5, <3>2, LeadsChain
      <3> QED BY <2>1, <3>3
    <2>2. CASE ~takes
      BY <1>5, <2>2
    <2> QED BY <2>1, <2>2
  <1>7. Becomes(m)
    BY <1>2
  <1> HIDE DEF m, takes
  <1>8. Placed'
    <2>1. t \notin ToSet(sizers[h])
      BY <1>1, <1>3 DEF IInv, Placed
    <2>2. sizers[h] \in Seq(Transports) /\ IsInjective(sizers[h])
      BY <1>1 DEF IInv, Placed
    <2>3. /\ Append(sizers[h], t) \in Seq(Transports) /\ IsInjective(Append(sizers[h], t))
          /\ ToSet(Append(sizers[h], t)) = ToSet(sizers[h]) \cup {t}
      BY <2>1, <2>2, AppendedProperties
    <2>4. sizers' \in [Hosts -> Seq(Transports)] /\ role' \in [Transports -> Roles \cup {"none"}]
      BY <1>2, <1>4, <2>3 DEF IInv, Placed
    <2>5. ASSUME NEW g \in Hosts
          PROVE  /\ IsInjective(sizers'[g])
                 /\ \A u \in ToSet(sizers'[g]) : HostOf[u] = g /\ (u = t \/ role[u] # "none")
      <3>1. CASE g = h /\ r = "stream"
        <4>1. sizers'[g] = Append(sizers[h], t)
          BY <1>2, <3>1 DEF IInv, Placed
        <4> QED BY <2>3, <3>1, <4>1 DEF IInv, Placed
      <3>2. CASE ~(g = h /\ r = "stream")
        <4>1. sizers'[g] = sizers[g]
          BY <1>2, <3>2 DEF IInv, Placed
        <4> QED BY <4>1 DEF IInv, Placed
      <3> QED BY <3>1, <3>2
    <2>6. \A g \in Hosts : ToSet(sizers[g]) \subseteq Transports /\ ToSet(sizers'[g]) \subseteq Transports
      BY <2>4 DEF IInv, Placed, ToSet
    <2>7. \A u \in Transports : u = t \/ role[u] # "none" => role'[u] # "none"
      BY <1>2, <1>4 DEF IInv, Placed
    <2> QED BY <2>4, <2>5, <2>6, <2>7 DEF Placed
  <1>9. \A g \in Hosts : g \in c <=> Refs(g)' # {}
    <2>1. \A u \in Transports : role'[u] # "none" <=> u = t \/ role[u] # "none"
      BY <1>2, <1>4 DEF IInv, Placed
    <2> QED BY <1>1, <2>1 DEF IInv, Linked, Refs
  <1> QED BY <1>3, <1>6, <1>7, <1>8, <1>9, Advances DEF IInv

LEMMA SetPresenceKeeps ==
  ASSUME IInv, NEW t \in Transports, SetPresence(t)
  PROVE  IInv' /\ StepOK
  <1> DEFINE h == HostOf[t]
             v == h \notin Now.arb.foreground
             q == Presence(Now.arb, h, v)
  <1>1. role[t] # "none" /\ Becomes([Now EXCEPT !.arb = q]) /\ UNCHANGED <<timer, role, sizers, blocked>>
    BY DEF SetPresence, IsStream
  <1>2. h \in Connected(Now.arb) /\ Consistent(Now) /\ Sound(Now.arb) /\ v \in BOOLEAN
        /\ Now.arb.owner["input"] = Now.controller /\ Now.arb = arb
    BY <1>1, BoundConnected, NowConsistent DEF Consistent
  <1>3. Turns(Now.arb, q, Now.controller) /\ Connected(q) = Connected(arb)
    <2>1. CASE v
      <3>1. q = Presence(Now.arb, h, TRUE)
        BY <2>1
      <3> QED BY <1>2, <3>1, Shown, Zenon DEF Has
    <2>2. CASE ~v
      <3>1. q = Presence(Now.arb, h, FALSE)
        BY <2>2
      <3> QED BY <1>2, <3>1, Hidden, Zenon DEF Has
    <2> QED BY <2>1, <2>2
  <1> HIDE DEF q
  <1>4. Leads(Now, [Now EXCEPT !.arb = q], Connected(arb))
    BY <1>2, <1>3, ArbiterLeads
  <1> QED BY <1>1, <1>4, Stays

LEMMA NoteActivityKeeps ==
  ASSUME IInv, NEW t \in Transports, NoteActivity(t)
  PROVE  IInv' /\ StepOK
  <1> DEFINE h == HostOf[t]
             p == Activity(Now.arb, h)
  <1>1. role[t] # "none" /\ UNCHANGED <<timer, role, sizers, blocked>>
    BY DEF NoteActivity, IsStream
  <1>2. h \in Connected(Now.arb) /\ Consistent(Now) /\ Sound(Now.arb)
        /\ Now.arb.owner["input"] = Now.controller /\ Now.arb = arb
        /\ arb.claims \in [Hosts -> SUBSET Kinds] /\ h \in Hosts
    BY <1>1, BoundConnected, NowConsistent DEF Consistent, Sound, Formed, Arbiters
  <1>3. Turns(Now.arb, p, Now.controller) /\ Has(p, arb.claims, arb.foreground, Connected(arb))
    BY <1>2, ActivityTurns
  <1> HIDE DEF p
  <1>4. CASE Becomes([Now EXCEPT !.arb = p])
    <2>1. Leads(Now, [Now EXCEPT !.arb = p], Connected(arb))
      BY <1>2, <1>3, ArbiterLeads DEF Has
    <2> QED BY <1>1, <1>4, <2>1, Stays
  <1>5. ASSUME NEW k \in arb.claims[h] \ {"input"}, Becomes([Now EXCEPT !.arb = Elect(p, k, h)])
        PROVE  IInv' /\ StepOK
    <2> DEFINE q == Elect(p, k, h)
    <2>1. k \in {"focus", "geometry"}
      BY <1>2 DEF Kinds
    <2>2. Turns(p, q, Now.controller) /\ Has(q, arb.claims, arb.foreground, Connected(arb))
      <3>1. Sound(p) /\ p.owner["input"] = Now.controller
        BY <1>3 DEF Turns
      <3> QED BY <1>3, <2>1, <3>1, ElectTurns DEF Has
    <2> HIDE DEF q
    <2>3. Eligible(q, "geometry") = Eligible(p, "geometry")
      BY <1>3, <2>2 DEF Has, Eligible
    <2>4. Turns(Now.arb, q, Now.controller)
      BY <1>3, <2>2, <2>3, TurnsChain
    <2>5. Leads(Now, [Now EXCEPT !.arb = q], Connected(arb))
      BY <1>2, <2>2, <2>4, ArbiterLeads DEF Has
    <2>6. Becomes([Now EXCEPT !.arb = q])
      BY <1>5 DEF q
    <2> QED BY <1>1, <2>5, <2>6, Stays
  <1> QED BY <1>4, <1>5 DEF NoteActivity, p

LEMMA RequestInputKeeps ==
  ASSUME IInv, NEW t \in Transports, RequestInput(t)
  PROVE  IInv' /\ StepOK
  <1> DEFINE h == HostOf[t]
             active == Activate(Now, h)
             r == [active EXCEPT !.arb = GiveClaim(active.arb, h, "input")]
  <1>1. /\ role[t] # "none" /\ UNCHANGED <<timer, role, sizers, blocked>>
        /\ Becomes(IF blocked THEN active ELSE r)
    BY DEF RequestInput
  <1>2. h \in Connected(Now.arb) /\ Consistent(Now) /\ Now.arb = arb /\ blocked \in BOOLEAN
    BY <1>1, BoundConnected, NowConsistent DEF IInv
  <1>3. Leads(Now, active, Connected(arb)) /\ (~blocked => active.controller = h)
    BY <1>2, ActivateLeads
  <1> HIDE DEF active
  <1>4. CASE blocked
    BY <1>1, <1>3, <1>4, Stays
  <1>5. CASE ~blocked
    <2>1. Consistent(active) /\ h \in Connected(active.arb) /\ "input" \in Kinds
      BY <1>2, <1>3 DEF Leads, Kinds
    <2>2. /\ Leads(active, r, Connected(active.arb))
          /\ Eligible(r.arb, "geometry") = Eligible(active.arb, "geometry")
      BY <1>3, <1>5, <2>1, GiveLeads
    <2> HIDE DEF r
    <2>3. Leads(active, r, Connected(arb))
      BY <1>3, <2>2 DEF Leads
    <2>4. Leads(Now, r, Connected(arb))
      BY <1>3, <2>2, <2>3, LeadsChain
    <2> QED BY <1>1, <1>5, <2>4, Stays
  <1> QED BY <1>4, <1>5

LEMMA RequestFocusKeeps ==
  ASSUME IInv, NEW t \in Transports, RequestFocus(t)
  PROVE  IInv' /\ StepOK
  <1> DEFINE h == HostOf[t]
             r == [Now EXCEPT !.arb = GiveClaim(Now.arb, h, "focus")]
  <1>1. role[t] # "none" /\ UNCHANGED <<timer, role, sizers, blocked>> /\ Becomes(r)
    BY DEF RequestFocus, IsStream
  <1>2. h \in Connected(Now.arb) /\ Consistent(Now) /\ Now.arb = arb /\ "focus" \in Kinds
    BY <1>1, BoundConnected, NowConsistent DEF Kinds
  <1>3. Leads(Now, r, Connected(arb))
    BY <1>2, GiveLeads
  <1> QED BY <1>1, <1>3, Stays

\* A transport that is bound is put last of those that size, or taken out.
LEMMA SizersStay ==
  ASSUME IInv, NEW t \in Transports, role' = role,
         NEW after \in {RemoveFirst(sizers[HostOf[t]], t),
                         Append(RemoveFirst(sizers[HostOf[t]], t), t)},
         role[t] # "none",
         sizers' = [sizers EXCEPT ![HostOf[t]] = after]
  PROVE  Placed'
  <1> DEFINE h == HostOf[t]
             cut == RemoveFirst(sizers[h], t)
  <1>1. h \in Hosts /\ sizers[h] \in Seq(Transports) /\ IsInjective(sizers[h])
    BY HostOfAssumption DEF IInv, Placed
  <1>2. cut \in Seq(Transports) /\ IsInjective(cut) /\ ToSet(cut) = ToSet(sizers[h]) \ {t}
    BY <1>1, RemovalProperties
  <1> HIDE DEF cut
  <1>3. t \notin ToSet(cut)
    BY <1>2
  <1>4. /\ Append(cut, t) \in Seq(Transports) /\ IsInjective(Append(cut, t))
        /\ ToSet(Append(cut, t)) = ToSet(cut) \cup {t}
    BY <1>2, <1>3, AppendedProperties
  <1>5. /\ after \in Seq(Transports) /\ IsInjective(after)
        /\ ToSet(after) \subseteq ToSet(sizers[h]) \cup {t}
    BY <1>2, <1>4 DEF cut
  <1>6. sizers' \in [Hosts -> Seq(Transports)] /\ role' \in [Transports -> Roles \cup {"none"}]
    BY <1>5 DEF IInv, Placed
  <1>7. ASSUME NEW g \in Hosts
        PROVE  IsInjective(sizers'[g]) /\ \A u \in ToSet(sizers'[g]) : HostOf[u] = g /\ role[u] # "none"
    <2>1. CASE g = h
      <3>1. sizers'[g] = after
        BY <1>1, <2>1 DEF IInv, Placed
      <3> QED BY <1>1, <1>5, <2>1, <3>1 DEF IInv, Placed
    <2>2. CASE g # h
      <3>1. sizers'[g] = sizers[g]
        BY <1>1, <2>2 DEF IInv, Placed
      <3> QED BY <3>1 DEF IInv, Placed
    <2> QED BY <2>1, <2>2
  <1> QED BY <1>6, <1>7 DEF Placed

\* An operation that binds and closes nothing, and puts the sizers in order.
LEMMA Sizes ==
  ASSUME IInv, NEW r, Leads(Now, r, Connected(arb)), Becomes(r), Placed',
         UNCHANGED <<timer, role, blocked>>
  PROVE  IInv' /\ StepOK
  <1>1. \A h \in Hosts : h \in Connected(arb) <=> Refs(h)' # {}
    BY DEF IInv, Linked, Refs
  <1> QED BY <1>1, Advances DEF IInv

LEMMA RequestGeometryKeeps ==
  ASSUME IInv, NEW t \in Transports, RequestGeometry(t)
  PROVE  IInv' /\ StepOK
  <1> DEFINE h == HostOf[t]
             r == [Now EXCEPT !.arb = GiveClaim(Now.arb, h, "geometry")]
  <1>1. role[t] # "none" /\ UNCHANGED <<timer, role, blocked>> /\ Becomes(r)
    BY DEF RequestGeometry
  <1>2. h \in Connected(Now.arb) /\ Consistent(Now) /\ Now.arb = arb /\ "geometry" \in Kinds
    BY <1>1, BoundConnected, NowConsistent DEF Kinds
  <1>3. Leads(Now, r, Connected(arb))
    BY <1>2, GiveLeads
  <1>4. PICK after \in {RemoveFirst(sizers[h], t), Append(RemoveFirst(sizers[h], t), t)} :
          sizers' = [sizers EXCEPT ![h] = after]
    BY DEF RequestGeometry
  <1>5. Placed'
    BY <1>1, <1>4, SizersStay
  <1> HIDE DEF r
  <1> QED BY <1>1, <1>3, <1>5, Sizes

LEMMA ReleaseInputKeeps ==
  ASSUME IInv, NEW t \in Transports, ReleaseInput(t)
  PROVE  IInv' /\ StepOK
  <1> DEFINE h == HostOf[t]
  <1>1. role[t] # "none" /\ UNCHANGED <<timer, role, sizers, blocked>>
    BY DEF ReleaseInput, IsStream
  <1>2. h \in Hosts /\ Consistent(Now) /\ Now.arb = arb /\ "input" \in Kinds
        /\ Now.lease = lease /\ Now.controller = controller /\ lease[h] \in {"none", "live", "stale"}
    BY HostOfAssumption, NowConsistent DEF Kinds, Consistent, Runtimes, Leases
  <1>3. CASE lease[h] = "live"
    <2>1. Becomes(Surrender(Now, h)) /\ Now.controller = h
      BY <1>2, <1>3 DEF ReleaseInput, Consistent
    <2>2. Leads(Now, Surrender(Now, h), Connected(arb))
      BY <1>2, <2>1, SurrenderLeads
    <2> QED BY <1>1, <2>1, <2>2, Stays
  <1>4. CASE lease[h] = "stale"
    <2>1. Becomes([Now EXCEPT !.lease[h] = "none"])
      BY <1>4 DEF ReleaseInput
    <2>2. Leads(Now, [Now EXCEPT !.lease[h] = "none"], Connected(arb))
      BY <1>2, <1>4, ForgetLeads
    <2> QED BY <1>1, <2>1, <2>2, Stays
  <1>5. CASE lease[h] = "none"
    <2>1. controller # h
      BY <1>2, <1>5 DEF Consistent
    <2>2. Becomes([Now EXCEPT !.arb = DropClaim(Now.arb, h, "input")])
      BY <1>5, <2>1 DEF ReleaseInput
    <2>3. Leads(Now, [Now EXCEPT !.arb = DropClaim(Now.arb, h, "input")], Connected(arb))
      BY <1>2, <2>1, DropLeads
    <2> QED BY <1>1, <2>2, <2>3, Stays
  <1> QED BY <1>2, <1>3, <1>4, <1>5

LEMMA ReleaseFocusKeeps ==
  ASSUME IInv, NEW t \in Transports, ReleaseFocus(t)
  PROVE  IInv' /\ StepOK
  <1> DEFINE r == [Now EXCEPT !.arb = DropClaim(Now.arb, HostOf[t], "focus")]
  <1>1. UNCHANGED <<timer, role, sizers, blocked>> /\ Becomes(r)
    BY DEF ReleaseFocus
  <1>2. HostOf[t] \in Hosts /\ Consistent(Now) /\ Now.arb = arb /\ "focus" \in Kinds
    BY HostOfAssumption, NowConsistent DEF Kinds
  <1>3. Leads(Now, r, Connected(arb))
    BY <1>2, DropLeads
  <1> HIDE DEF r
  <1> QED BY <1>1, <1>3, Stays

LEMMA WithoutSizerLeads ==
  ASSUME IInv, NEW t \in Transports
  PROVE  LET r == WithoutSizer(Now, t)
         IN  /\ Leads(Now, r, Connected(arb)) /\ r.controller = controller /\ r.lease = lease
             /\ Eligible(r.arb, "geometry") \subseteq Eligible(arb, "geometry")
  <1> DEFINE h == HostOf[t]
             r == WithoutSizer(Now, t)
  <1>1. h \in Hosts /\ Consistent(Now) /\ Now.arb = arb /\ "geometry" \in Kinds
        /\ Now.lease = lease /\ Now.controller = controller
    BY HostOfAssumption, NowConsistent DEF Kinds
  <1>2. CASE sizers[h] = <<t>>
    <2>1. r = [Now EXCEPT !.arb = DropClaim(Now.arb, h, "geometry")]
      BY <1>2 DEF WithoutSizer
    <2> HIDE DEF r
    <2> QED BY <1>1, <2>1, DropLeads DEF r
  <1>3. CASE sizers[h] # <<t>>
    <2>1. r = Now
      BY <1>3 DEF WithoutSizer
    <2>2. Leads(Now, Now, Connected(arb))
      BY <1>1 DEF Leads, Turns, Steady, Consistent
    <2> QED BY <1>1, <2>1, <2>2
  <1> QED BY <1>2, <1>3

LEMMA ReleaseGeometryKeeps ==
  ASSUME IInv, NEW t \in Transports, ReleaseGeometry(t)
  PROVE  IInv' /\ StepOK
  <1> DEFINE r == WithoutSizer(Now, t)
             after == RemoveFirst(sizers[HostOf[t]], t)
  <1>1. role[t] # "none" /\ UNCHANGED <<timer, role, blocked>> /\ Becomes(r)
        /\ sizers' = [sizers EXCEPT ![HostOf[t]] = after]
    BY DEF ReleaseGeometry, IsStream
  <1>2. Leads(Now, r, Connected(arb))
    BY WithoutSizerLeads
  <1> HIDE DEF r, after
  <1>3. Placed'
    BY <1>1, SizersStay DEF after
  <1> QED BY <1>1, <1>2, <1>3, Sizes

LEMMA CloseKeeps ==
  ASSUME IInv, NEW t \in Transports, Close(t)
  PROVE  IInv' /\ StepOK
  <1> DEFINE h == HostOf[t]
             unsized == WithoutSizer(Now, t)
             surrendered == IF lease[h] = "live" THEN Surrender(unsized, h)
                            ELSE [unsized EXCEPT !.lease[h] = "none"]
             retired == IF surrendered.controller = h THEN ClearController(surrendered) ELSE surrendered
             gone == [retired EXCEPT !.arb = Disconnect(retired.arb, h)]
             cut == RemoveFirst(sizers[h], t)
  <1>1. /\ role[t] # "none" /\ UNCHANGED <<timer, blocked>>
        /\ role' = [role EXCEPT ![t] = "none"] /\ sizers' = [sizers EXCEPT ![h] = cut]
        /\ Becomes(IF Refs(h) # {t} THEN unsized ELSE gone)
    BY DEF Close
  <1>2. h \in Hosts /\ Consistent(Now) /\ Now.arb = arb /\ Now.lease = lease /\ t \in Refs(h)
        /\ Now.controller = controller
    BY <1>1, HostOfAssumption, NowConsistent, BoundConnected
  <1>3. /\ Leads(Now, unsized, Connected(arb)) /\ unsized.controller = controller
        /\ unsized.lease = lease /\ Consistent(unsized) /\ Connected(unsized.arb) = Connected(arb)
    BY WithoutSizerLeads DEF Leads
  <1> HIDE DEF unsized
  <1>4. /\ Leads(unsized, surrendered, Connected(arb)) /\ surrendered.controller # h
        /\ Eligible(surrendered.arb, "geometry") \subseteq Eligible(unsized.arb, "geometry")
    <2>1. CASE lease[h] = "live"
      <3>1. unsized.controller = h
        BY <1>2, <1>3, <2>1 DEF Consistent
      <3>2. None # h
        BY <1>2, HostOfAssumption
      <3> QED BY <1>2, <1>3, <2>1, <3>1, <3>2, SurrenderLeads
    <2>2. CASE lease[h] # "live"
      <3>1. controller # h
        BY <1>2, <2>2 DEF Consistent
      <3> QED BY <1>2, <1>3, <2>2, <3>1, ForgetLeads
    <2> QED BY <2>1, <2>2
  <1>5. retired = surrendered
    BY <1>4
  <1> HIDE DEF surrendered
  <1>6. Leads(Now, retired, Connected(arb))
    BY <1>3, <1>4, <1>5, LeadsChain
  <1>7. Leads(Now, gone, Connected(arb) \ {h})
    <2>1. Consistent(retired) /\ retired.controller # h /\ Connected(retired.arb) = Connected(arb)
      BY <1>4, <1>5, <1>6 DEF Leads
    <2> HIDE DEF retired
    <2>2. /\ Leads(retired, gone, Connected(arb) \ {h})
          /\ Eligible(gone.arb, "geometry") \subseteq Eligible(retired.arb, "geometry")
      BY <1>2, <2>1, DisconnectLeads
    <2> HIDE DEF gone
    <2> QED BY <1>6, <2>2, LeadsChain
  <1> HIDE DEF gone, retired
  <1>8. cut \in Seq(Transports) /\ IsInjective(cut) /\ ToSet(cut) = ToSet(sizers[h]) \ {t}
    BY <1>2, RemovalProperties DEF IInv, Placed
  <1> HIDE DEF cut
  <1>9. \A u \in Transports : role'[u] # "none" <=> u # t /\ role[u] # "none"
    BY <1>1 DEF IInv, Placed
  <1>10. Placed'
    <2>1. sizers' \in [Hosts -> Seq(Transports)] /\ role' \in [Transports -> Roles \cup {"none"}]
      BY <1>1, <1>8 DEF IInv, Placed
    <2>2. ASSUME NEW g \in Hosts
          PROVE  /\ IsInjective(sizers'[g])
                 /\ \A u \in ToSet(sizers'[g]) : HostOf[u] = g /\ u # t /\ role[u] # "none"
      <3>1. CASE g = h
        <4>1. sizers'[g] = cut
          BY <1>1, <3>1 DEF IInv, Placed
        <4> QED BY <1>8, <3>1, <4>1 DEF IInv, Placed
      <3>2. CASE g # h
        <4>1. sizers'[g] = sizers[g]
          BY <1>1, <3>2 DEF IInv, Placed
        <4> QED BY <3>2, <4>1 DEF IInv, Placed
      <3> QED BY <3>1, <3>2
    <2>3. \A g \in Hosts : ToSet(sizers'[g]) \subseteq Transports
      BY <2>1 DEF ToSet
    <2> QED BY <1>9, <2>1, <2>2, <2>3 DEF Placed
  <1>11. CASE Refs(h) # {t}
    <2>1. \A g \in Hosts : g \in Connected(arb) <=> Refs(g)' # {}
      BY <1>2, <1>9, <1>11 DEF IInv, Linked, Refs
    <2> QED BY <1>1, <1>3, <1>10, <1>11, <2>1, Advances DEF IInv
  <1>12. CASE Refs(h) = {t}
    <2>1. \A g \in Hosts : g \in Connected(arb) \ {h} <=> Refs(g)' # {}
      BY <1>2, <1>9, <1>12 DEF IInv, Linked, Refs
    <2> QED BY <1>1, <1>7, <1>10, <1>12, <2>1, Advances DEF IInv
  <1> QED BY <1>11, <1>12

\* What tmux does: nothing is bound or closed, the timer and the yield may change.
LEMMA Settles ==
  ASSUME IInv, NEW r, Consistent(r), Becomes(r), Connected(r.arb) = Connected(arb),
         UNCHANGED <<role, sizers>>, timer' \in BOOLEAN, blocked' \in BOOLEAN,
         timer' \/ Served(r.arb), r.arb.yielding => timer'
  PROVE  IInv'
  <1>1. r = [arb |-> r.arb, controller |-> r.controller, lease |-> r.lease]
    BY DEF Consistent, Runtimes
  <1>2. arb' = r.arb /\ controller' = r.controller /\ lease' = r.lease /\ Now' = r
    BY <1>1 DEF Becomes, Now
  <1>3. Consistent(Now)'
    BY <1>2 DEF Consistent, Sound, Formed, Rightful, Eligible, Connected
  <1>4. Linked' /\ Placed'
    BY <1>2 DEF IInv, Linked, Refs, Connected, Placed
  <1> QED BY <1>2, <1>3, <1>4 DEF IInv, Served, Eligible

\* The arbiter of now replaced by b.
LEMMA Replacing ==
  ASSUME IInv, NEW b \in Arbiters
  PROVE  LET r == [Now EXCEPT !.arb = b]
         IN  r \in Runtimes /\ r.arb = b /\ r.controller = controller /\ r.lease = lease
  BY NowConsistent DEF Consistent, Runtimes

LEMMA NativeActivityKeeps ==
  ASSUME IInv, NativeActivity
  PROVE  IInv' /\ StepOK
  <1> DEFINE b == [[arb EXCEPT !.yielding = TRUE] EXCEPT !.owner["geometry"] = None]
             r == [Now EXCEPT !.arb = b]
  <1>1. arb \in Arbiters /\ Sound(arb) /\ controller = arb.owner["input"] /\ Consistent(Now)
        /\ Now.arb = arb /\ Now.controller = controller /\ Now.lease = lease /\ None \notin Hosts
    BY HostOfAssumption, NowConsistent DEF Consistent, Sound, Formed
  <1>2. Becomes(r) /\ timer' = TRUE /\ UNCHANGED <<role, sizers, blocked>>
    BY <1>1 DEF NativeActivity, SetOwner
  <1>3. /\ b \in Arbiters /\ b.recent = arb.recent /\ b.claims = arb.claims
        /\ b.foreground = arb.foreground /\ b.yielding = TRUE /\ b.owner["geometry"] = None
        /\ b.owner["input"] = arb.owner["input"] /\ b.owner["focus"] = arb.owner["focus"]
    BY <1>1 DEF Arbiters, Kinds
  <1> HIDE DEF b
  <1>4. Connected(b) = Connected(arb) /\ \A k : Eligible(b, k) = Eligible(arb, k)
    BY <1>3 DEF Connected, Eligible
  <1>5. Sound(b)
    BY <1>1, <1>3, <1>4 DEF Sound, Formed, Rightful
  <1>6. r \in Runtimes /\ r.arb = b /\ r.controller = controller /\ r.lease = lease
    BY <1>3, Replacing
  <1> HIDE DEF r
  <1>7. Consistent(r)
    BY <1>1, <1>3, <1>5, <1>6 DEF Consistent
  <1>8. IInv'
    BY <1>2, <1>4, <1>6, <1>7, Settles DEF IInv
  <1>9. StepOK
    BY <1>2, <1>3, <1>6 DEF StepOK, Steady, Becomes
  <1> QED BY <1>8, <1>9

LEMMA QuietKeeps ==
  ASSUME IInv, QuietLongEnough
  PROVE  IInv' /\ StepOK
  <1> DEFINE b == [arb EXCEPT !.yielding = FALSE]
             r == [Now EXCEPT !.arb = b]
  <1>1. arb \in Arbiters /\ Sound(arb) /\ controller = arb.owner["input"] /\ Consistent(Now)
        /\ Now.arb = arb /\ Now.controller = controller /\ Now.lease = lease /\ Now \in Runtimes
    BY NowConsistent DEF Consistent, Sound, Formed
  <1>2. Becomes(r) /\ UNCHANGED <<timer, role, sizers, blocked>> /\ timer
    <2>1. [Now EXCEPT !.arb.yielding = FALSE] = r
      BY <1>1 DEF Runtimes
    <2> QED BY <2>1 DEF QuietLongEnough, IInv
  <1>3. /\ b \in Arbiters /\ b.recent = arb.recent /\ b.claims = arb.claims
        /\ b.foreground = arb.foreground /\ b.yielding = FALSE /\ b.owner = arb.owner
    BY <1>1 DEF Arbiters
  <1> HIDE DEF b
  <1>4. Connected(b) = Connected(arb) /\ \A k : Eligible(b, k) = Eligible(arb, k)
    BY <1>3 DEF Connected, Eligible
  <1>5. Sound(b)
    BY <1>1, <1>3, <1>4 DEF Sound, Formed, Rightful
  <1>6. r \in Runtimes /\ r.arb = b /\ r.controller = controller /\ r.lease = lease
    BY <1>3, Replacing
  <1> HIDE DEF r
  <1>7. Consistent(r)
    BY <1>1, <1>3, <1>5, <1>6 DEF Consistent
  <1>8. IInv'
    BY <1>2, <1>3, <1>4, <1>6, <1>7, Settles DEF IInv
  <1>9. StepOK
    BY <1>2, <1>3, <1>6 DEF StepOK, Steady, Becomes
  <1> QED BY <1>8, <1>9

LEMMA TimerFiresKeeps ==
  ASSUME IInv, TimerFires
  PROVE  IInv' /\ StepOK
  <1> DEFINE b == Elect(Now.arb, "geometry", None)
             r == [Now EXCEPT !.arb = b]
  <1>1. Sound(arb) /\ controller = arb.owner["input"] /\ Consistent(Now)
        /\ Now.arb = arb /\ Now.controller = controller /\ Now.lease = lease /\ "geometry" \in Kinds
        /\ arb \in Arbiters
    BY NowConsistent DEF Consistent, Kinds, Sound, Formed
  <1>2. timer /\ timer' = arb.yielding /\ UNCHANGED <<role, sizers, blocked>>
        /\ Becomes(IF arb.yielding THEN Now ELSE r)
    BY DEF TimerFires
  <1>3. CASE arb.yielding
    <2>1. Becomes(Now) /\ timer' \in BOOLEAN /\ timer'
      BY <1>1, <1>2, <1>3
    <2>2. IInv'
      BY <1>1, <1>2, <2>1, Settles DEF IInv
    <2>3. StepOK
      BY <1>1, <2>1 DEF StepOK, Steady, Becomes
    <2> QED BY <2>2, <2>3
  <1>4. CASE ~arb.yielding
    <2>1. /\ Turns(arb, b, controller) /\ Has(b, arb.claims, arb.foreground, Connected(arb))
      BY <1>1, ElectTurns
    <2>2. Served(b)
      BY <1>1, AmbientElected DEF Sound
    <2> HIDE DEF b
    <2>3. Leads(Now, r, Connected(arb))
      BY <1>1, <2>1, ArbiterLeads DEF Has
    <2>4. b \in Arbiters /\ ~b.yielding
      BY <1>4, <2>1 DEF Turns, Sound, Formed
    <2>5. r.arb = b /\ r.lease = lease
      BY <2>4, Replacing
    <2> HIDE DEF r
    <2>6. Becomes(r) /\ timer' \in BOOLEAN /\ blocked' \in BOOLEAN
      <3>1. Becomes(r)
        BY <1>2, <1>4
      <3>2. arb.yielding \in BOOLEAN
        BY <1>1 DEF Arbiters
      <3>3. timer' \in BOOLEAN /\ blocked' \in BOOLEAN
        BY <1>2, <3>2 DEF IInv
      <3> QED BY <3>1, <3>3
    <2>7. IInv'
      BY <1>2, <2>2, <2>3, <2>4, <2>5, <2>6, Settles DEF Leads
    <2>8. StepOK
      BY <2>1, <2>5, <2>6 DEF StepOK, Turns, Steady, Becomes
    <2> QED BY <2>7, <2>8
  <1> QED BY <1>3, <1>4

LEMMA InvalidateKeeps ==
  ASSUME IInv, Invalidate
  PROVE  IInv' /\ StepOK
  <1> DEFINE b == [arb EXCEPT !.claims = [h \in Hosts |-> {}], !.owner = [k \in Kinds |-> None]]
             cleared == ClearController(Now)
             r == [cleared EXCEPT !.arb = b]
  <1>1. arb \in Arbiters /\ Sound(arb) /\ controller = arb.owner["input"] /\ Consistent(Now)
        /\ Now.arb = arb /\ Now.controller = controller /\ Now.lease = lease /\ Now \in Runtimes
        /\ None \notin Hosts
    BY HostOfAssumption, NowConsistent DEF Consistent, Sound, Formed
  <1>2. /\ cleared.arb = arb /\ cleared \in Runtimes /\ cleared.controller = None
        /\ \A h \in Hosts : cleared.lease[h] # "live"
    <2>1. CASE controller = None
      BY <1>1, <2>1 DEF ClearController, Consistent
    <2>2. CASE controller # None
      <3>1. cleared = [arb |-> arb, controller |-> None, lease |-> Outdated(lease)]
        BY <1>1, <2>2 DEF ClearController, Runtimes
      <3>2. Outdated(lease) \in Leases /\ \A h \in Hosts : Outdated(lease)[h] # "live"
        BY <1>1 DEF Outdated, Leases, Runtimes
      <3> HIDE DEF cleared
      <3> QED BY <1>1, <3>1, <3>2 DEF Runtimes
    <2> QED BY <2>1, <2>2
  <1> HIDE DEF cleared
  <1>3. Becomes(r) /\ blocked' = TRUE /\ UNCHANGED <<timer, role, sizers>>
    BY <1>2 DEF Invalidate, cleared
  <1>4. /\ b \in Arbiters /\ b.recent = arb.recent /\ \A h \in Hosts : b.claims[h] = {}
        /\ b.foreground = arb.foreground /\ b.yielding = arb.yielding
        /\ \A k \in Kinds : b.owner[k] = None
    BY <1>1 DEF Arbiters
  <1> HIDE DEF b
  <1>5. Connected(b) = Connected(arb) /\ \A k : Eligible(b, k) = {}
    BY <1>4 DEF Connected, Eligible
  <1>6. Sound(b) /\ Served(b)
    BY <1>1, <1>4, <1>5 DEF Sound, Formed, Rightful, Served, Kinds
  <1>7. r \in Runtimes /\ r.arb = b /\ r.controller = None /\ r.lease = cleared.lease
    BY <1>2, <1>4 DEF Runtimes
  <1> HIDE DEF r
  <1>8. Consistent(r)
    BY <1>1, <1>2, <1>4, <1>6, <1>7 DEF Consistent, Kinds
  <1>9. timer' \in BOOLEAN /\ (b.yielding => timer')
    BY <1>3, <1>4 DEF IInv
  <1>10. IInv'
    BY <1>3, <1>5, <1>6, <1>7, <1>8, <1>9, Settles
  <1>11. StepOK
    BY <1>3, <1>5, <1>7 DEF StepOK, Steady, Becomes
  <1> QED BY <1>10, <1>11

LEMMA VerifyKeeps ==
  ASSUME IInv, Verify
  PROVE  IInv' /\ StepOK
  <1>1. Becomes(Now) /\ UNCHANGED <<timer, role, sizers>> /\ blocked' \in BOOLEAN
    BY DEF Verify
  <1>2. Leads(Now, Now, Connected(arb))
    BY NowConsistent DEF Leads, Turns, Steady, Consistent
  <1>3. Placed' /\ \A h \in Hosts : h \in Connected(arb) <=> Refs(h)' # {}
    BY <1>1 DEF IInv, Placed, Linked, Refs
  <1> QED BY <1>1, <1>2, <1>3, Advances

LEMMA NextKeeps ==
  ASSUME IInv, [Next]_vars
  PROVE  IInv' /\ StepOK
  <1>1. CASE UNCHANGED vars
    BY <1>1, StutterStays
  <1>2. ASSUME NEW t \in Transports, Transport(t) PROVE IInv' /\ StepOK
    BY <1>2, BindKeeps, SetPresenceKeeps, NoteActivityKeeps, RequestInputKeeps, RequestFocusKeeps,
       RequestGeometryKeeps, ReleaseInputKeeps, ReleaseFocusKeeps, ReleaseGeometryKeeps, CloseKeeps
       DEF Transport
  <1> QED BY <1>1, <1>2, NativeActivityKeeps, QuietKeeps, TimerFiresKeeps, InvalidateKeeps,
             VerifyKeeps DEF Next

-----------------------------------------------------------------------------
(* The theorems *)

\* The inductive invariant holds in every reachable state.
THEOREM InvariantHolds == Spec => []IInv
  <1>1. Init => IInv
    BY InitHolds
  <1>2. IInv /\ [Next]_vars => IInv'
    BY NextKeeps
  <1> QED BY <1>1, <1>2, PTL DEF Spec

LEMMA Consequences ==
  ASSUME IInv
  PROVE  /\ TypeOK /\ ControllerIsInputOwner /\ ControllerCanType
         /\ OwnersAreEligible /\ GeometryIsNotForgotten
  <1>1. /\ arb \in Arbiters /\ controller \in Hosts \cup {None}
        /\ lease \in [Hosts -> {"none", "live", "stale"}] /\ Sound(arb)
        /\ controller = arb.owner["input"] /\ None \notin Hosts
        /\ \A h \in Hosts : lease[h] = "live" <=> controller = h
    BY HostOfAssumption, NowConsistent DEF Consistent, Runtimes, Leases
  <1>2. TypeOK
    BY <1>1 DEF TypeOK, IInv, Placed
  <1>3. ControllerCanType
    <2>1. \A h \in Hosts : controller = h => h \in Connected(arb)
      BY <1>1 DEF Sound, Formed, Arbiters
    <2> QED BY <1>1, <2>1 DEF ControllerCanType, IInv, Linked
  <1>4. OwnersAreEligible
    <2>1. \A k \in {"focus", "geometry"} : Eligible(arb, k) \subseteq Connected(arb)
      BY <1>1 DEF Eligible, Sound, Formed, Arbiters
    <2> QED BY <1>1, <2>1 DEF OwnersAreEligible, Sound, Rightful
  <1>5. GeometryIsNotForgotten
    BY DEF GeometryIsNotForgotten, IInv, Served
  <1> QED BY <1>1, <1>2, <1>3, <1>4, <1>5 DEF ControllerIsInputOwner

\* Every reachable state is well typed.
THEOREM AuthorityTypeCorrect == Spec => []TypeOK
  BY InvariantHolds, Consequences, PTL

\* The client shown as the owner of the input is the controller of the runtime.
THEOREM InputOwnerTheorem == Spec => []ControllerIsInputOwner
  BY InvariantHolds, Consequences, PTL

\* The controller, and nobody else, has a live lease, and it has a transport.
THEOREM ControllerTheorem == Spec => []ControllerCanType
  BY InvariantHolds, Consequences, PTL

\* The owners of focus and geometry are connected, claim them and are in the
\* foreground, and nobody owns the geometry while tmux's own client sizes.
THEOREM EligibleTheorem == Spec => []OwnersAreEligible
  BY InvariantHolds, Consequences, PTL

\* Where somebody could own the geometry and nobody does, the timer is armed.
THEOREM NotForgottenTheorem == Spec => []GeometryIsNotForgotten
  BY InvariantHolds, Consequences, PTL

\* The geometry changes hands only when its owner may no longer have it.
THEOREM StableTheorem == Spec => GeometryIsStable
  <1>1. IInv /\ [Next]_vars => StepOK
    BY NextKeeps
  <1>2. StepOK => LET h == arb.owner["geometry"]
                 IN h # None /\ arb'.owner["geometry"] # h =>
                      h \notin Eligible(arb', "geometry") \/ arb'.yielding
    BY DEF StepOK, Steady
  <1> QED BY <1>1, <1>2, InvariantHolds, PTL DEF Spec, GeometryIsStable

\* A lease becomes useless in its host's hands only while windows are contested.
THEOREM OutdatedTheorem == Spec => OnlyConflictsOutdate
  <1>1. IInv /\ [Next]_vars => StepOK
    BY NextKeeps
  <1>2. StepOK => \A h \in Hosts : lease[h] # "stale" /\ lease'[h] = "stale" => blocked'
    BY DEF StepOK
  <1> QED BY <1>1, <1>2, InvariantHolds, PTL DEF Spec, OnlyConflictsOutdate

====
