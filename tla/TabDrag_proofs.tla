----------------------------- MODULE TabDrag_proofs -----------------------------
(***************************************************************************)
(* Theorems of TabDrag: the checks of the controller, the strip that owns  *)
(* it, that no tab is lost and that a cancelled drag restores every strip, *)
(* for all windows, tabs, strips, presses and any bound on them.           *)
(*                                                                         *)
(* A state is a record here, as in TabDrag, and each operation is          *)
(* a function from states to states.  First what InsertTab, Without and    *)
(* Place do to the order of a strip; then the invariant DragInv, and what  *)
(* Attach(), Detach(), MoveAttached() and RevertDrag() keep of it; then    *)
(* the steps, one lemma for each action; last the theorems.                *)
(***************************************************************************)
EXTENDS TabDrag, SequenceTheorems, FiniteSetTheorems, WellFoundedInduction, TLAPS

--------------------------------------------------------------------------------
\* Sequences without repetition, and the order they put their elements in.
Distinct(q) == q \in Seq(Tabs) /\ IsInjective(q)
Before(q, x, y) == \E i, j \in DOMAIN q : i < j /\ q[i] = x /\ q[j] = y

\* A set of natural numbers that is not empty has a least element.
LEMMA LeastOf ==
    ASSUME NEW T \in SUBSET Nat, T # {}
    PROVE  \E n \in T : \A m \in T : n <= m
<1>1. PICK n \in T : \A m \in T : ~(<<m, n>> \in OpToRel(<, Nat))
  BY WFMin, NatLessThanWellFounded
<1>2. ASSUME NEW m \in T PROVE n <= m
  <2>1. ~(m < n)
    <3> SUFFICES ASSUME m < n PROVE <<m, n>> \in OpToRel(<, Nat)
      BY <1>1
    <3> QED
      BY Zenon DEF OpToRel
  <2> QED
    BY <2>1
<1> QED
  BY <1>2

LEMMA SeqIs ==
    ASSUME NEW S, NEW q \in Seq(S)
    PROVE  /\ Len(q) \in Nat /\ DOMAIN q = 1..Len(q)
           /\ \A i \in 1..Len(q) : q[i] \in S /\ q[i] \in ToSet(q)
           /\ \A x : x \in ToSet(q) <=> \E i \in 1..Len(q) : q[i] = x
           /\ ToSet(q) \subseteq S
           /\ q = <<>> <=> Len(q) = 0
           /\ q = <<>> <=> ToSet(q) = {}
<1>1. Len(q) \in Nat /\ DOMAIN q = 1..Len(q) /\ \A i \in 1..Len(q) : q[i] \in S
  BY LenProperties, ElementOfSeq
<1>2. q = <<>> <=> Len(q) = 0
  BY <1>1, EmptySeq
<1>3. \A x : x \in ToSet(q) <=> \E i \in 1..Len(q) : q[i] = x
  BY <1>1 DEF ToSet
<1>4. Len(q) # 0 => 1 \in 1..Len(q)
  BY <1>1
<1> QED
  BY <1>1, <1>2, <1>3, <1>4

LEMMA DistinctIs ==
    ASSUME NEW q, Distinct(q)
    PROVE  /\ q \in Seq(Tabs) /\ Len(q) \in Nat /\ DOMAIN q = 1..Len(q)
           /\ \A i \in 1..Len(q) : q[i] \in Tabs /\ q[i] \in ToSet(q)
           /\ \A x : x \in ToSet(q) <=> \E i \in 1..Len(q) : q[i] = x
           /\ ToSet(q) \subseteq Tabs
           /\ q = <<>> <=> ToSet(q) = {}
           /\ \A i, j \in 1..Len(q) : q[i] = q[j] => i = j
           /\ \A x, y : Before(q, x, y) <=> \E i, j \in 1..Len(q) : i < j /\ q[i] = x /\ q[j] = y
<1>1. q \in Seq(Tabs)
  BY DEF Distinct
<1>2. DOMAIN q = 1..Len(q)
  BY <1>1, LenProperties
<1> QED
  BY <1>1, <1>2, SeqIs DEF Distinct, IsInjective, Before

\* Two of them with the same elements in the same order are the same.
LEMMA SameOrder ==
    ASSUME NEW p, NEW q, Distinct(p), Distinct(q), ToSet(p) = ToSet(q),
           \A x, y : Before(p, x, y) => Before(q, x, y)
    PROVE  p = q
<1>0. /\ Len(p) \in Nat /\ Len(q) \in Nat /\ DOMAIN p = 1..Len(p) /\ DOMAIN q = 1..Len(q)
      /\ \A i, j \in 1..Len(p) : p[i] = p[j] => i = j
      /\ \A i, j \in 1..Len(q) : q[i] = q[j] => i = j
  BY DistinctIs
<1>1. \A i \in 1..Len(p) : \E j \in 1..Len(q) : q[j] = p[i]
  BY DistinctIs
<1>2. \A i \in 1..Len(q) : \E j \in 1..Len(p) : p[j] = q[i]
  BY ZenonT(40), DistinctIs
<1>3. ASSUME NEW i \in 1..Len(p), NEW j \in 1..Len(p), i < j,
             NEW k \in 1..Len(q), NEW l \in 1..Len(q), q[k] = p[i], q[l] = p[j]
      PROVE  k < l
  <2>1. Before(q, p[i], p[j])
    BY <1>0, <1>3 DEF Before
  <2>2. PICK m, n \in 1..Len(q) : m < n /\ q[m] = p[i] /\ q[n] = p[j]
    BY <1>0, <2>1 DEF Before
  <2> QED
    BY <1>0, <1>3, <2>2
<1> DEFINE Bad == {n \in 1..Len(p) : ~(n \in 1..Len(q) /\ p[n] = q[n])}
<1>4. Bad = {}
  <2> SUFFICES ASSUME Bad # {} PROVE FALSE
    OBVIOUS
  <2>1. PICK n \in Bad : \A m \in Bad : n <= m
    <3>1. Bad \in SUBSET Nat
      BY DistinctIs
    <3> HIDE DEF Bad
    <3> QED
      BY <3>1, LeastOf
  <2>2. Len(p) \in Nat /\ Len(q) \in Nat /\ n \in 1..Len(p)
    BY <2>1, DistinctIs
  <2>3. \A m \in 1..Len(p) : m < n => m \in 1..Len(q) /\ p[m] = q[m]
    BY <2>1, <2>2
  <2>4. PICK m \in 1..Len(q) : q[m] = p[n]
    BY <1>1, <2>2
  <2>5. m >= n
    <3> SUFFICES ASSUME m < n PROVE FALSE
      BY <2>2
    <3>1. m \in 1..Len(p) /\ p[m] = q[m]
      BY <2>2, <2>3
    <3> QED
      BY <1>0, <2>2, <2>4, <3>1
  <2>6. n \in 1..Len(q)
    BY <2>2, <2>5
  <2>7. PICK k \in 1..Len(p) : p[k] = q[n]
    BY <1>2, <2>6
  <2>8. k >= n
    <3> SUFFICES ASSUME k < n PROVE FALSE
      BY <2>2
    <3>1. k \in 1..Len(q) /\ p[k] = q[k]
      BY <2>2, <2>3
    <3> QED
      BY <1>0, <2>2, <2>6, <2>7, <3>1
  <2>9. m # n /\ k # n
    BY <2>1, <2>4, <2>6, <2>7
  <2>10. m < n
    BY <1>3, <2>2, <2>4, <2>6, <2>7, <2>8, <2>9
  <2> QED
    BY <2>2, <2>5, <2>10
<1>5. Len(q) <= Len(p)
  <2> SUFFICES ASSUME Len(p) < Len(q) PROVE FALSE
    BY DistinctIs
  <2>1. Len(q) \in 1..Len(q) /\ Len(p) \in Nat /\ Len(q) \in Nat
    BY DistinctIs
  <2>2. PICK j \in 1..Len(p) : p[j] = q[Len(q)]
    BY <1>2, <2>1
  <2>3. j \in 1..Len(q) /\ p[j] = q[j]
    BY <1>4
  <2>4. j = Len(q)
    BY <1>0, <2>1, <2>2, <2>3
  <2> QED
    BY <1>0, <2>2, <2>4
<1>6. Len(p) <= Len(q)
  <2>1. Len(p) \in Nat /\ Len(q) \in Nat
    BY DistinctIs
  <2>2. Len(p) # 0 => Len(p) \in 1..Len(p)
    BY <2>1
  <2>3. Len(p) # 0 => Len(p) \in 1..Len(q)
    BY <1>4, <2>2
  <2> QED
    BY <2>1, <2>3
<1>7. Len(p) = Len(q)
  BY <1>5, <1>6, DistinctIs
<1>8. p \in Seq(Tabs) /\ q \in Seq(Tabs) /\ \A i \in 1..Len(p) : p[i] = q[i]
  BY <1>4, DistinctIs
<1> QED
  BY <1>7, <1>8, SeqEqual

\* Only() picks the elements of a set, in their order.
Picked(q, S, n, h) ==
    h = [k \in 0..n |-> IF k = 0 THEN <<>>
                        ELSE IF q[k] \in S THEN Append(h[k - 1], q[k]) ELSE h[k - 1]]

LEMMA PickedExists ==
    ASSUME NEW q, Len(q) \in Nat, NEW S
    PROVE  \E h : Picked(q, S, Len(q), h)
<1> DEFINE Bad == {n \in 0..Len(q) : ~\E h : Picked(q, S, n, h)}
<1> SUFFICES ASSUME Bad # {} PROVE FALSE
  OBVIOUS
<1>1. PICK n \in Bad : \A m \in Bad : n <= m
  <2>1. Bad \in SUBSET Nat
    OBVIOUS
  <2> HIDE DEF Bad
  <2> QED
    BY <2>1, LeastOf
<1>2. n # 0
  <2>1. Picked(q, S, 0, [k \in 0..0 |-> <<>>])
    BY DEF Picked
  <2> QED
    BY <1>1, <2>1
<1>3. n \in 1..Len(q) /\ n - 1 \in 0..Len(q) /\ ~(n <= n - 1)
  BY <1>1, <1>2
<1>4. PICK h : Picked(q, S, n - 1, h)
  BY <1>1, <1>3
<1> DEFINE last == IF q[n] \in S THEN Append(h[n - 1], q[n]) ELSE h[n - 1]
           g == [k \in 0..n |-> IF k = n THEN last ELSE h[k]]
<1>5. /\ 0..n = 0..(n - 1) \cup {n} /\ n \notin 0..(n - 1)
      /\ \A k \in 0..n : k # 0 => k - 1 \in 0..(n - 1)
  BY <1>3
<1>6. ASSUME NEW k \in 0..n
      PROVE  g[k] = IF k = 0 THEN <<>>
                    ELSE IF q[k] \in S THEN Append(g[k - 1], q[k]) ELSE g[k - 1]
  <2>1. k # 0 => g[k - 1] = h[k - 1]
    BY <1>5
  <2>2. CASE k = n
    <3>1. g[k] = last /\ k # 0
      BY <2>2, <1>3
    <3> HIDE DEF g
    <3> QED
      BY <2>1, <2>2, <3>1
  <2>3. CASE k # n
    <3>1. g[k] = h[k] /\ k \in 0..(n - 1)
      BY <1>5, <2>3
    <3>2. h[k] = IF k = 0 THEN <<>>
                 ELSE IF q[k] \in S THEN Append(h[k - 1], q[k]) ELSE h[k - 1]
      BY <1>4, <3>1 DEF Picked
    <3> HIDE DEF g
    <3> QED
      BY <2>1, <3>1, <3>2
  <2> QED
    BY <2>2, <2>3
<1>7. Picked(q, S, n, g)
  <2> HIDE DEF last
  <2> QED
    BY <1>6 DEF Picked
<1> QED
  BY <1>1, <1>7

LEMMA OnlyPicks ==
    ASSUME NEW q, Len(q) \in Nat, NEW S
    PROVE  \E h : Picked(q, S, Len(q), h) /\ Only(q, S) = h[Len(q)]
<1> DEFINE h == CHOOSE g : Picked(q, S, Len(q), g)
<1>1. Picked(q, S, Len(q), h)
  BY PickedExists
<1>2. Only(q, S) = h[Len(q)]
  BY DEF Only, Picked
<1> QED
  BY <1>1, <1>2

\* e tells where the elements of r come from in the first n of q.
Embeds(q, S, n, r, e) ==
    /\ r \in Seq(Tabs) /\ Len(r) \in Nat /\ e \in [1..Len(r) -> 1..n]
    /\ \A i \in 1..Len(r) : r[i] = q[e[i]] /\ q[e[i]] \in S
    /\ \A i, j \in 1..Len(r) : i < j => e[i] < e[j]
    /\ \A k \in 1..n : q[k] \in S => \E i \in 1..Len(r) : e[i] = k

LEMMA EmbedsNext ==
    ASSUME NEW q \in Seq(Tabs), NEW S, NEW n \in 1..Len(q), NEW r, NEW e,
           Embeds(q, S, n - 1, r, e)
    PROVE  \E f : Embeds(q, S, n, IF q[n] \in S THEN Append(r, q[n]) ELSE r, f)
<1>1. /\ Len(q) \in Nat /\ n \in Nat /\ n \in 1..n /\ n \notin 1..(n - 1) /\ q[n] \in Tabs
      /\ 1..n = 1..(n - 1) \cup {n} /\ \A k \in 1..(n - 1) : k < n
  BY SeqIs
<1>2. CASE q[n] \notin S
  <2>1. e \in [1..Len(r) -> 1..n]
    BY <1>1 DEF Embeds
  <2>2. Embeds(q, S, n, r, e)
    BY <1>1, <1>2, <2>1 DEF Embeds
  <2> QED
    BY <1>2, <2>2
<1>3. CASE q[n] \in S
  <2> DEFINE l == Len(r) + 1
             f == [i \in 1..l |-> IF i = l THEN n ELSE e[i]]
             a == Append(r, q[n])
  <2>1. /\ a \in Seq(Tabs) /\ Len(a) = l /\ a[l] = q[n]
        /\ \A i \in 1..Len(r) : a[i] = r[i]
    BY <1>1, AppendProperties DEF Embeds
  <2>2. Len(r) \in Nat /\ l \in Nat /\ 1..l = 1..Len(r) \cup {l} /\ l \notin 1..Len(r) /\ l \in 1..l
    BY DEF Embeds
  <2>3. f[l] = n /\ \A i \in 1..Len(r) : f[i] = e[i]
    BY <2>2
  <2>4. f \in [1..l -> 1..n]
    BY <1>1, <2>2 DEF Embeds
  <2> HIDE DEF f, a, l
  <2>5. \A i \in 1..l : a[i] = q[f[i]] /\ q[f[i]] \in S
    BY <1>3, <2>1, <2>2, <2>3 DEF Embeds
  <2>6. \A i, j \in 1..l : i < j => f[i] < f[j]
    <3> SUFFICES ASSUME NEW i \in 1..l, NEW j \in 1..l, i < j PROVE f[i] < f[j]
      OBVIOUS
    <3>1. i \in 1..Len(r)
      BY <2>2 DEF l
    <3>2. f[i] = e[i] /\ e[i] \in 1..(n - 1)
      BY <2>3, <3>1 DEF Embeds
    <3> QED
      BY <1>1, <2>2, <2>3, <3>1, <3>2 DEF Embeds
  <2>7. \A k \in 1..n : q[k] \in S => \E i \in 1..l : f[i] = k
    BY <1>1, <2>2, <2>3 DEF Embeds
  <2>8. Embeds(q, S, n, a, f)
    BY <2>1, <2>2, <2>4, <2>5, <2>6, <2>7 DEF Embeds
  <2> QED
    BY <1>3, <2>8 DEF a
<1> QED
  BY <1>2, <1>3

LEMMA OnlyIs ==
    ASSUME NEW q \in Seq(Tabs), NEW S
    PROVE  \E e : Embeds(q, S, Len(q), Only(q, S), e)
<1>1. Len(q) \in Nat
  BY LenProperties
<1>2. PICK h : Picked(q, S, Len(q), h) /\ Only(q, S) = h[Len(q)]
  BY <1>1, OnlyPicks
<1>3. h[0] = <<>>
  BY <1>1, <1>2 DEF Picked
<1> DEFINE Bad == {n \in 0..Len(q) : ~\E e : Embeds(q, S, n, h[n], e)}
<1>4. Bad = {}
  <2> SUFFICES ASSUME Bad # {} PROVE FALSE
    OBVIOUS
  <2>1. PICK n \in Bad : \A m \in Bad : n <= m
    <3>1. Bad \in SUBSET Nat
      BY <1>1
    <3> HIDE DEF Bad
    <3> QED
      BY <3>1, LeastOf
  <2>2. n # 0
    <3>1. Len(<<>>) = 0 /\ <<>> \in Seq(Tabs)
      BY EmptySeq
    <3>2. 1..Len(<<>>) = {}
      BY <3>1
    <3>3. Embeds(q, S, 0, <<>>, [i \in 1..Len(<<>>) |-> 0])
      BY <3>1, <3>2 DEF Embeds
    <3> QED
      BY <1>3, <2>1, <3>3
  <2>3. n \in 1..Len(q) /\ n - 1 \in 0..Len(q) /\ ~(n <= n - 1)
    BY <1>1, <2>1, <2>2
  <2>4. PICK e : Embeds(q, S, n - 1, h[n - 1], e)
    BY <2>1, <2>3
  <2>5. h[n] = IF q[n] \in S THEN Append(h[n - 1], q[n]) ELSE h[n - 1]
    <3>1. n \in 0..Len(q) /\ n # 0
      BY <2>1, <2>2
    <3> QED
      BY <1>2, <3>1 DEF Picked
  <2> QED
    BY <2>1, <2>3, <2>4, <2>5, EmbedsNext
<1>5. Len(q) \in 0..Len(q)
  BY <1>1
<1> QED
  BY <1>2, <1>4, <1>5

LEMMA OnlyKeeps ==
    ASSUME NEW q, Distinct(q), NEW S
    PROVE  /\ Distinct(Only(q, S)) /\ ToSet(Only(q, S)) = ToSet(q) \cap S
           /\ \A x, y : Before(Only(q, S), x, y) <=> Before(q, x, y) /\ x \in S /\ y \in S
<1> DEFINE r == Only(q, S)
<1>1. q \in Seq(Tabs) /\ Len(q) \in Nat /\ DOMAIN q = 1..Len(q)
      /\ \A i, j \in 1..Len(q) : q[i] = q[j] => i = j
  BY DistinctIs
<1>2. PICK e : Embeds(q, S, Len(q), r, e)
  BY <1>1, OnlyIs
<1> HIDE DEF r
<1>3. r \in Seq(Tabs) /\ Len(r) \in Nat /\ DOMAIN r = 1..Len(r)
  BY <1>2, LenProperties DEF Embeds
<1>4. \A i \in 1..Len(r) : e[i] \in 1..Len(q) /\ r[i] = q[e[i]] /\ r[i] \in S
  BY <1>2 DEF Embeds
<1>5. \A i, j \in 1..Len(r) : i < j <=> e[i] < e[j]
  <2> SUFFICES ASSUME NEW i \in 1..Len(r), NEW j \in 1..Len(r) PROVE i < j <=> e[i] < e[j]
    OBVIOUS
  <2>1. i < j => e[i] < e[j]
    BY <1>2 DEF Embeds
  <2>2. j < i => e[j] < e[i]
    BY <1>2 DEF Embeds
  <2> QED
    BY <1>1, <1>3, <1>4, <2>1, <2>2
<1>6. \A k \in 1..Len(q) : q[k] \in S => \E i \in 1..Len(r) : e[i] = k
  BY <1>2 DEF Embeds
<1>7. Distinct(r)
  <2>1. \A i, j \in 1..Len(r) : r[i] = r[j] => i = j
    <3> SUFFICES ASSUME NEW i \in 1..Len(r), NEW j \in 1..Len(r), r[i] = r[j] PROVE i = j
      OBVIOUS
    <3>1. e[i] = e[j] /\ e[i] \in Nat
      BY <1>1, <1>4
    <3>2. ~(i < j) /\ ~(j < i)
      BY <1>5, <3>1
    <3> QED
      BY <1>3, <3>2
  <2> QED
    BY <1>3, <2>1 DEF Distinct, IsInjective
<1>8. ToSet(r) = ToSet(q) \cap S
  BY SMTT(40), <1>1, <1>3, <1>4, <1>6 DEF ToSet
<1>9. \A x, y : Before(r, x, y) <=> Before(q, x, y) /\ x \in S /\ y \in S
  <2> SUFFICES ASSUME NEW x, NEW y
               PROVE  Before(r, x, y) <=> Before(q, x, y) /\ x \in S /\ y \in S
    OBVIOUS
  <2>1. Before(r, x, y) => Before(q, x, y) /\ x \in S /\ y \in S
    BY <1>1, <1>3, <1>4, <1>5 DEF Before
  <2>2. ASSUME Before(q, x, y), x \in S, y \in S PROVE Before(r, x, y)
    <3>1. PICK k, l \in 1..Len(q) : k < l /\ q[k] = x /\ q[l] = y
      BY <1>1, <2>2 DEF Before
    <3>2. PICK i, j \in 1..Len(r) : e[i] = k /\ e[j] = l
      BY <1>6, <2>2, <3>1
    <3> QED
      BY <1>3, <1>4, <1>5, <3>1, <3>2 DEF Before
  <2> QED
    BY <2>1, <2>2
<1> QED
  BY <1>7, <1>8, <1>9 DEF r

LEMMA LenIsCardinality ==
    ASSUME NEW q, Distinct(q)
    PROVE  IsFiniteSet(ToSet(q)) /\ Cardinality(ToSet(q)) = Len(q)
<1> DEFINE f == [i \in 1..Len(q) |-> q[i]]
<1>1. /\ Len(q) \in Nat /\ \A x : x \in ToSet(q) <=> \E i \in 1..Len(q) : q[i] = x
      /\ \A i \in 1..Len(q) : q[i] \in ToSet(q)
      /\ \A i, j \in 1..Len(q) : q[i] = q[j] => i = j
  BY DistinctIs
<1>2. f \in Surjection(1..Len(q), ToSet(q)) /\ f \in Injection(1..Len(q), ToSet(q))
  BY <1>1 DEF Surjection, Injection, IsInjective
<1>3. IsFiniteSet(1..Len(q)) /\ Cardinality(1..Len(q)) = Len(q)
  <2>1. 1 \in Int /\ Len(q) \in Int
    BY <1>1
  <2>2. IsFiniteSet(1..Len(q)) /\ Cardinality(1..Len(q)) = IF 1 > Len(q) THEN 0 ELSE Len(q) - 1 + 1
    BY <2>1, FS_Interval
  <2> QED
    BY <1>1, <2>2
<1> HIDE DEF f
<1> QED
  BY <1>2, <1>3, FS_Surjection

LEMMA SameLength ==
    ASSUME NEW p, NEW q, Distinct(p), Distinct(q), ToSet(p) \subseteq ToSet(q)
    PROVE  /\ Len(p) \in Nat /\ Len(q) \in Nat /\ Len(p) <= Len(q)
           /\ Len(p) = Len(q) <=> ToSet(p) = ToSet(q)
<1>1. Len(p) \in Nat /\ Len(q) \in Nat
  BY DistinctIs
<1> QED
  BY <1>1, LenIsCardinality, FS_Subset

\* Where everything is when b has been put behind the first p of q.
LEMMA InsertedAt ==
    ASSUME NEW q \in Seq(Tabs), NEW b \in Seq(Tabs), NEW p \in 0..Len(q)
    PROVE  /\ InsertBlock(q, p, b) \in Seq(Tabs) /\ Len(q) \in Nat /\ Len(b) \in Nat
           /\ Len(InsertBlock(q, p, b)) = Len(q) + Len(b)
           /\ DOMAIN InsertBlock(q, p, b) = 1..(Len(q) + Len(b))
           /\ \A i \in 1..(Len(q) + Len(b)) :
                  InsertBlock(q, p, b)[i] = IF i <= p THEN q[i]
                                            ELSE IF i <= p + Len(b) THEN b[i - p] ELSE q[i - Len(b)]
<1> DEFINE r == InsertBlock(q, p, b)
           n == Len(q)
           m == Len(b)
<1>1. q \in Seq(Tabs) /\ n \in Nat /\ \A i \in 1..n : q[i] \in Tabs
  BY SeqIs
<1>2. b \in Seq(Tabs) /\ m \in Nat /\ \A i \in 1..m : b[i] \in Tabs
  BY SeqIs
<1>3. p \in Nat /\ p <= n /\ n - p \in Nat
  BY <1>1
<1> HIDE DEF n, m
<1> DEFINE l == SubSeq(q, 1, p)
           t == SubSeq(q, p + 1, n)
<1>4. l \in Seq(Tabs) /\ Len(l) = p /\ \A i \in 1..p : l[i] = q[i]
  <2>1. \A i \in 1..p : q[i] \in Tabs
    BY <1>1, <1>3
  <2>2. l \in Seq(Tabs) /\ Len(l) = (IF 1 <= p THEN p - 1 + 1 ELSE 0)
        /\ \A i \in 1..(p - 1 + 1) : l[i] = q[1 + i - 1]
    BY <1>3, <2>1, SubSeqProperties
  <2> HIDE DEF l
  <2>3. Len(l) = p
    BY <1>3, <2>2
  <2>4. ASSUME NEW i \in 1..p PROVE l[i] = q[i]
    <3>1. i \in 1..(p - 1 + 1) /\ 1 + i - 1 = i
      BY <1>3
    <3> QED
      BY <2>2, <3>1
  <2> QED
    BY <2>2, <2>3, <2>4
<1>5. t \in Seq(Tabs) /\ Len(t) = n - p /\ \A i \in 1..(n - p) : t[i] = q[p + i]
  <2>1. \A i \in (p + 1)..n : q[i] \in Tabs
    BY <1>1, <1>3
  <2>2. t \in Seq(Tabs) /\ Len(t) = (IF p + 1 <= n THEN n - (p + 1) + 1 ELSE 0)
        /\ \A i \in 1..(n - (p + 1) + 1) : t[i] = q[p + 1 + i - 1]
    BY <1>1, <1>3, <2>1, SubSeqProperties
  <2> HIDE DEF t
  <2>3. Len(t) = n - p
    BY <1>1, <1>3, <2>2
  <2>4. ASSUME NEW i \in 1..(n - p) PROVE t[i] = q[p + i]
    <3>1. i \in 1..(n - (p + 1) + 1) /\ p + 1 + i - 1 = p + i
      BY <1>1, <1>3
    <3> QED
      BY <2>2, <3>1
  <2> QED
    BY <2>2, <2>3, <2>4
<1>6. r = (l \o b) \o t
  BY DEF InsertBlock, n
<1> HIDE DEF l, t, r
<1>7. /\ r \in Seq(Tabs) /\ Len(r) = n + m /\ DOMAIN r = 1..(n + m)
      /\ \A i \in 1..(n + m) : r[i] = IF i <= p THEN q[i]
                                      ELSE IF i <= p + m THEN b[i - p] ELSE q[i - m]
  <2> DEFINE lb == l \o b
  <2>1. lb \in Seq(Tabs) /\ Len(lb) = p + m
        /\ \A i \in 1..(p + m) : lb[i] = IF i <= p THEN q[i] ELSE b[i - p]
    <3>1. lb \in Seq(Tabs) /\ Len(lb) = Len(l) + Len(b)
          /\ \A i \in 1..(Len(l) + Len(b)) : lb[i] = IF i <= Len(l) THEN l[i] ELSE b[i - Len(l)]
      BY <1>2, <1>4, ConcatProperties
    <3>2. Len(l) = p /\ Len(b) = m
      BY <1>4 DEF m
    <3> HIDE DEF lb
    <3>3. lb \in Seq(Tabs) /\ Len(lb) = p + m
          /\ \A i \in 1..(p + m) : lb[i] = IF i <= p THEN l[i] ELSE b[i - p]
      BY <3>1, <3>2
    <3> QED
      BY <1>2, <1>3, <1>4, <3>3
  <2> HIDE DEF lb
  <2>2. r \in Seq(Tabs) /\ Len(r) = (p + m) + (n - p)
        /\ \A i \in 1..((p + m) + (n - p)) : r[i] = IF i <= p + m THEN lb[i] ELSE t[i - (p + m)]
    <3>1. (lb \o t) \in Seq(Tabs) /\ Len(lb \o t) = Len(lb) + Len(t)
          /\ \A i \in 1..(Len(lb) + Len(t)) :
                 (lb \o t)[i] = IF i <= Len(lb) THEN lb[i] ELSE t[i - Len(lb)]
      BY <1>5, <2>1, ConcatProperties
    <3>2. r = lb \o t
      BY <1>6 DEF lb
    <3> QED
      BY <1>5, <2>1, <3>1, <3>2
  <2>3. (p + m) + (n - p) = n + m
    BY <1>1, <1>2, <1>3
  <2>4. ASSUME NEW i \in 1..(n + m), i > p + m PROVE t[i - (p + m)] = q[i - m]
    <3>1. i - (p + m) \in 1..(n - p) /\ p + (i - (p + m)) = i - m
      BY <1>1, <1>2, <1>3, <2>4
    <3> QED
      BY <1>5, <3>1
  <2>5. ASSUME NEW i \in 1..(n + m)
        PROVE  r[i] = IF i <= p THEN q[i] ELSE IF i <= p + m THEN b[i - p] ELSE q[i - m]
    <3>1. CASE i <= p + m
      <4>1. i \in 1..(p + m)
        BY <1>1, <1>2, <1>3, <3>1
      <4> QED
        BY <2>1, <2>2, <2>3, <3>1, <4>1
    <3>2. CASE i > p + m
      <4>1. ~(i <= p + m) /\ ~(i <= p)
        BY <1>1, <1>2, <1>3, <3>2
      <4> QED
        BY <2>2, <2>3, <2>4, <3>2, <4>1
    <3> QED
      BY <1>1, <1>2, <1>3, <3>1, <3>2
  <2>6. DOMAIN r = 1..Len(r)
    BY <2>2, LenProperties
  <2> QED
    BY <2>2, <2>3, <2>5, <2>6
<1> QED
  BY <1>1, <1>2, <1>7 DEF r, n, m

LEMMA InsertIs ==
    ASSUME NEW q, Distinct(q), NEW b, Distinct(b), ToSet(q) \cap ToSet(b) = {},
           NEW p \in 0..Len(q)
    PROVE  /\ Distinct(InsertBlock(q, p, b)) /\ Len(InsertBlock(q, p, b)) = Len(q) + Len(b)
           /\ ToSet(InsertBlock(q, p, b)) = ToSet(q) \cup ToSet(b)
           /\ \A i \in 1..Len(b) : InsertBlock(q, p, b)[p + i] = b[i]
           /\ \A i \in 1..Len(q) : InsertBlock(q, p, b)[IF i <= p THEN i ELSE i + Len(b)] = q[i]
           /\ \A x, y \in ToSet(q) : Before(InsertBlock(q, p, b), x, y) <=> Before(q, x, y)
           /\ \A x, y \in ToSet(b) : Before(InsertBlock(q, p, b), x, y) <=> Before(b, x, y)
           /\ \A i \in 1..Len(q), y \in ToSet(b) : 
                  /\ Before(InsertBlock(q, p, b), q[i], y) <=> i <= p
                  /\ Before(InsertBlock(q, p, b), y, q[i]) <=> i > p
<1> DEFINE r == InsertBlock(q, p, b)
           n == Len(q)
           m == Len(b)
<1>1. /\ q \in Seq(Tabs) /\ n \in Nat /\ DOMAIN q = 1..n
      /\ \A i \in 1..n : q[i] \in Tabs /\ q[i] \in ToSet(q)
      /\ \A x : x \in ToSet(q) <=> \E i \in 1..n : q[i] = x
      /\ \A i, j \in 1..n : q[i] = q[j] => i = j
  BY DistinctIs
<1>2. /\ b \in Seq(Tabs) /\ m \in Nat /\ DOMAIN b = 1..m
      /\ \A i \in 1..m : b[i] \in Tabs /\ b[i] \in ToSet(b)
      /\ \A x : x \in ToSet(b) <=> \E i \in 1..m : b[i] = x
      /\ \A i, j \in 1..m : b[i] = b[j] => i = j
  BY DistinctIs
<1>3. p \in Nat /\ p <= n /\ n - p \in Nat
  BY <1>1
<1>7. /\ r \in Seq(Tabs) /\ Len(r) = n + m /\ DOMAIN r = 1..(n + m)
      /\ \A i \in 1..(n + m) : r[i] = IF i <= p THEN q[i]
                                      ELSE IF i <= p + m THEN b[i - p] ELSE q[i - m]
  <2>1. q \in Seq(Tabs) /\ b \in Seq(Tabs) /\ p \in 0..Len(q)
    BY <1>1, <1>2
  <2> HIDE DEF r
  <2> QED
    BY ONLY <2>1, InsertedAt DEF r, n, m
<1> HIDE DEF n, m, r
\* The places of the elements of q and of b.
<1> DEFINE At1(i) == IF i <= p THEN i ELSE i + m
<1>8. ASSUME NEW i \in 1..n PROVE At1(i) \in 1..(n + m) /\ r[At1(i)] = q[i]
  <2>1. CASE i <= p
    BY <1>1, <1>2, <1>3, <1>7, <2>1
  <2>2. CASE ~(i <= p)
    <3>1. i + m \in 1..(n + m) /\ ~(i + m <= p) /\ ~(i + m <= p + m) /\ (i + m) - m = i
      BY <1>1, <1>2, <1>3, <2>2
    <3> QED
      BY <1>7, <2>2, <3>1
  <2> QED
    BY <2>1, <2>2
<1>9. ASSUME NEW i \in 1..m PROVE p + i \in 1..(n + m) /\ r[p + i] = b[i]
  <2>1. p + i \in 1..(n + m) /\ ~(p + i <= p) /\ p + i <= p + m /\ (p + i) - p = i
    BY <1>1, <1>2, <1>3
  <2> QED
    BY <1>7, <2>1
<1>10. ASSUME NEW k \in 1..(n + m)
       PROVE  \/ \E i \in 1..n : k = At1(i)
              \/ \E i \in 1..m : k = p + i
  <2>1. CASE k <= p
    BY <1>1, <1>2, <1>3, <2>1
  <2>2. CASE k > p /\ k <= p + m
    <3>1. k - p \in 1..m /\ k = p + (k - p)
      BY <1>1, <1>2, <1>3, <2>2
    <3> QED
      BY <3>1
  <2>3. CASE k > p + m
    <3>1. k - m \in 1..n /\ ~(k - m <= p) /\ k = (k - m) + m
      BY <1>1, <1>2, <1>3, <2>3
    <3> QED
      BY <3>1
  <2> QED
    BY <1>1, <1>2, <1>3, <2>1, <2>2, <2>3
<1>11. \A i, j \in 1..n : i < j <=> At1(i) < At1(j)
  BY <1>1, <1>2, <1>3
<1>12. \A i \in 1..n, j \in 1..m : /\ At1(i) < p + j <=> i <= p
                                   /\ p + j < At1(i) <=> i > p
                                   /\ At1(i) # p + j
  BY <1>1, <1>2, <1>3
<1> HIDE DEF At1
<1>22. \A i \in 1..n, j \in 1..m : q[i] # b[j]
  BY <1>1, <1>2
<1>13. Distinct(r)
  <2> SUFFICES ASSUME NEW k \in 1..(n + m), NEW h \in 1..(n + m), r[k] = r[h] PROVE k = h
    BY <1>7 DEF Distinct, IsInjective
  <2>1. CASE \E i \in 1..n : k = At1(i)
    <3>1. PICK i \in 1..n : k = At1(i)
      BY <2>1
    <3>2. PICK j \in 1..n : h = At1(j)
      <4>1. r[h] = q[i]
        BY <1>8, <3>1
      <4>2. ~\E j \in 1..m : h = p + j
        BY <1>9, <1>22, <4>1
      <4> QED
        BY <1>10, <4>2
    <3>3. r[k] = q[i] /\ r[h] = q[j]
      BY ONLY <1>8, <3>1, <3>2
    <3>4. i = j
      <4>1. q[i] = q[j]
        BY <3>3
      <4> QED
        BY ONLY <1>1, <4>1
    <3> QED
      BY ONLY <3>1, <3>2, <3>4
  <2>2. CASE \E i \in 1..m : k = p + i
    <3>1. PICK i \in 1..m : k = p + i
      BY <2>2
    <3>2. PICK j \in 1..m : h = p + j
      <4>1. r[h] = b[i]
        BY <1>9, <3>1
      <4>2. ~\E j \in 1..n : h = At1(j)
        BY <1>8, <1>22, <4>1
      <4> QED
        BY <1>10, <4>2
    <3>3. r[k] = b[i] /\ r[h] = b[j]
      BY ONLY <1>9, <3>1, <3>2
    <3>4. i = j
      <4>1. b[i] = b[j]
        BY <3>3
      <4> QED
        BY ONLY <1>2, <4>1
    <3> QED
      BY ONLY <3>1, <3>2, <3>4
  <2> QED
    BY <1>10, <2>1, <2>2
<1>14. ToSet(r) = ToSet(q) \cup ToSet(b)
  <2>1. \A x : x \in ToSet(r) <=> \E k \in 1..(n + m) : r[k] = x
    BY <1>7, SeqIs
  <2>2. ASSUME NEW x \in ToSet(r) PROVE x \in ToSet(q) \cup ToSet(b)
    <3>1. PICK k \in 1..(n + m) : r[k] = x
      BY <2>1, <2>2
    <3>2. CASE \E i \in 1..n : k = At1(i)
      BY <1>1, <1>8, <3>1, <3>2
    <3>3. CASE \E i \in 1..m : k = p + i
      BY <1>2, <1>9, <3>1, <3>3
    <3> QED
      BY <1>10, <3>2, <3>3
  <2>3. ASSUME NEW x \in ToSet(q) PROVE x \in ToSet(r)
    BY <1>1, <1>8, <2>1
  <2>4. ASSUME NEW x \in ToSet(b) PROVE x \in ToSet(r)
    BY <1>2, <1>9, <2>1
  <2> QED
    BY <2>2, <2>3, <2>4
<1>15. \A x, y : Before(r, x, y) <=> \E k, h \in 1..(n + m) : k < h /\ r[k] = x /\ r[h] = y
  BY <1>7 DEF Before
<1>16. \A k, h \in 1..(n + m) : r[k] = r[h] => k = h
  BY <1>7, <1>13 DEF Distinct, IsInjective
<1>17. ASSUME NEW k \in 1..(n + m), NEW h \in 1..(n + m)
       PROVE  Before(r, r[k], r[h]) <=> k < h
  BY <1>15, <1>16
<1>18. \A x, y \in ToSet(q) : Before(r, x, y) <=> Before(q, x, y)
  <2> SUFFICES ASSUME NEW i \in 1..n, NEW j \in 1..n
               PROVE  Before(r, q[i], q[j]) <=> Before(q, q[i], q[j])
    BY <1>1
  <2>1. Before(r, q[i], q[j]) <=> At1(i) < At1(j)
    BY <1>8, <1>17
  <2>2. Before(q, q[i], q[j]) <=> i < j
    BY <1>1 DEF Before
  <2> QED
    BY <1>11, <2>1, <2>2
<1>19. \A x, y \in ToSet(b) : Before(r, x, y) <=> Before(b, x, y)
  <2> SUFFICES ASSUME NEW i \in 1..m, NEW j \in 1..m
               PROVE  Before(r, b[i], b[j]) <=> Before(b, b[i], b[j])
    BY <1>2
  <2>1. Before(r, b[i], b[j]) <=> p + i < p + j
    BY <1>9, <1>17
  <2>2. Before(b, b[i], b[j]) <=> i < j
    BY <1>2 DEF Before
  <2> QED
    BY <1>2, <1>3, <2>1, <2>2
<1>20. ASSUME NEW i \in 1..n, NEW y \in ToSet(b)
       PROVE  /\ Before(r, q[i], y) <=> i <= p
              /\ Before(r, y, q[i]) <=> i > p
  <2>1. PICK j \in 1..m : y = b[j]
    BY <1>2
  <2>2. Before(r, q[i], b[j]) <=> At1(i) < p + j
    BY <1>8, <1>9, <1>17
  <2>3. Before(r, b[j], q[i]) <=> p + j < At1(i)
    BY <1>8, <1>9, <1>17
  <2> QED
    BY <1>12, <2>1, <2>2, <2>3
<1>21. \A i \in 1..n : r[IF i <= p THEN i ELSE i + m] = q[i]
  BY <1>8 DEF At1
<1> HIDE DEF At1
<1> QED
  BY <1>7, <1>9, <1>13, <1>14, <1>18, <1>19, <1>20, <1>21 DEF r, n, m

--------------------------------------------------------------------------------
\* The invariant.
B0 == Browsers \cup {Null}
WindowStates == {"unborn", "open", "hidden", "closing", "gone"}
DragSet == [alive : BOOLEAN, state : States, owner : B0, source : B0, attached : B0,
            data : Seq([tab : Tabs, index : Nat \ {0}]), newBrowser : BOOLEAN, inLoop : BOOLEAN,
            target : B0, tracked : B0, observed : B0]
FrameSet == [at : {"SaveFocus", "Finder", "Show", "Loop", "AfterLoop"}, ending : BOOLEAN,
             result : {"done", "canceled"}]
HistorySet == [before : [Browsers -> Seq(Tabs)], disturbed : BOOLEAN, quick : BOOLEAN,
               ended : {"none", "reverted", "completed"}, drags : Nat, changes : Nat]
Checks == {"Attach()", "No tabs should be dragging", "Detach()", "MoveAttached()", "RevertDragAt()",
           "DestroyDragController()", "CHECK(!in_move_loop_)", "deleted with its strip"}
ViewSet == [dragged : SUBSET Tabs, animating : SUBSET Tabs]
StateSet == [strip : [Browsers -> Seq(Tabs)], window : [Browsers -> WindowStates],
             views : ViewSet, drag : DragSet, capture : B0, button : {"up", "down"},
             stack : Seq(FrameSet), history : HistorySet, failed : SUBSET Checks]

\* The one check that can fail, and only after a press while tabs still animated.
Excused == {"No tabs should be dragging"}
Unfailing(s) == s.failed \subseteq Excused /\ (~s.history.quick => s.failed = {})
\* It is what attaching tabs adds to the failures f, if tabs of V are dragged there already.
Noted(V, f, g) == g \subseteq f \cup Excused /\ (V = {} => g = f)

TabsOf(s) == [i \in DOMAIN s.drag.data |-> s.drag.data[i].tab]

\* Every tab is in one place.
Laid(strips) == /\ \A w \in Browsers : Distinct(strips[w])
                /\ \A w, x \in Browsers : w # x => ToSet(strips[w]) \cap ToSet(strips[x]) = {}

\* A window that is hidden waits for the loop that dragged it to return.
Settled(s) == \A w \in Browsers :
    /\ s.strip[w] # <<>> => s.window[w] \in {"open", "hidden"}
    /\ s.window[w] = "open" => s.strip[w] # <<>>
    /\ s.window[w] = "hidden" => s.drag.state = "WaitingToDragTabs" /\ s.drag.attached = w

\* The dragged tabs are in the strip that owns the controller.
Owned(s) == IF ~s.drag.alive THEN s.drag = NoDrag ELSE
    /\ s.drag.data # <<>> /\ Distinct(TabsOf(s)) /\ s.history.ended = "none"
    /\ s.drag.state # "Stopped"
    /\ s.drag.state = "NotStarted" <=> s.drag.attached = Null
    /\ s.drag.owner = IF s.drag.state = "NotStarted" THEN s.drag.source ELSE s.drag.attached
    /\ s.drag.owner \in Browsers /\ s.drag.tracked = s.drag.attached
    /\ Dragged(s) \subseteq ToSet(s.strip[s.drag.owner])
    /\ s.window[s.drag.owner] = IF s.drag.state = "WaitingToDragTabs" THEN "hidden" ELSE "open"
    /\ s.drag.source # Null => s.strip[s.drag.source] # <<>>
    /\ s.drag.state = "WaitingToDragTabs" =>
           s.drag.target \in Browsers /\ s.drag.target # s.drag.attached
    /\ s.drag.target # Null =>
           /\ s.window[s.drag.target] = "open"
           /\ \/ s.drag.state = "WaitingToDragTabs"
              \/ s.drag.state = "DraggingTabs" /\ s.drag.target = s.drag.attached

\* A window that is dragged has no other tabs.
Whole(s) == s.drag.state \in {"DraggingWindow", "WaitingToDragTabs"} =>
                ToSet(s.strip[s.drag.owner]) = Dragged(s)

\* The views that are dragged are those of the drag, and of earlier ones that animate back.
Seen(s) ==
    /\ s.views.animating \subseteq s.views.dragged
    /\ s.drag.alive /\ s.drag.state # "NotStarted" =>
           Dragged(s) \subseteq s.views.dragged \ s.views.animating
    /\ Unfailing(s)
    /\ ~s.history.quick /\ s.drag.alive =>
           s.views.dragged = IF s.drag.state = "NotStarted" THEN {} ELSE Dragged(s)

\* The tabs are next to each other, in the order of ts.
Block(q, ts) == \E c, p : /\ Distinct(c) /\ p \in 0..Len(c) /\ ToSet(c) \cap ToSet(ts) = {}
                          /\ q = InsertBlock(c, p, ts)

\* Where the tabs of the drag are in the strips b: d is the data of the controller, u the source.
Known(d, b, u) ==
    /\ \A i \in 1..Len(d) : d[i].index \in 1..Len(b[u]) /\ b[u][d[i].index] = d[i].tab
    /\ \A i, j \in 1..Len(d) : i < j => d[i].index < d[j].index

\* q has the tabs S of b, in the order of b but for those of D.
Like(q, b, S, D) ==
    /\ ToSet(q) = S
    /\ \A x, y : x \notin D /\ y \notin D => (Before(q, x, y) <=> Before(b, x, y))

\* As long as no tab is opened or closed: the dragged tabs know where they were, they are
\* there or together in one strip, and the others are in their old order.
Undone(s) == s.drag.alive /\ ~s.history.disturbed /\ s.drag.source # Null =>
    /\ Known(s.drag.data, s.history.before, s.drag.source)
    /\ \A w \in Browsers :
           Like(s.strip[w], s.history.before[w],
                (ToSet(s.history.before[w]) \ Dragged(s))
                    \cup (IF w = s.drag.owner THEN Dragged(s) ELSE {}), Dragged(s))
    /\ \/ s.drag.owner = s.drag.source
          /\ s.strip[s.drag.source] = s.history.before[s.drag.source]
       \/ Block(s.strip[s.drag.owner], TabsOf(s))
Restored(s) == s.history.ended = "reverted" /\ ~s.history.disturbed => s.strip = s.history.before

Sound(s) ==
    /\ s \in StateSet /\ Laid(s.strip) /\ Laid(s.history.before)
    /\ Settled(s) /\ Owned(s) /\ Seen(s) /\ Undone(s) /\ Restored(s)
Body(s) == Sound(s) /\ Whole(s)

\* What has called out when, and what the controller knows of the loop.
Looping(s) == s.stack # <<>> /\ s.stack[1].at = "Loop"
Turns(s) ==
    /\ Len(s.stack) <= 2
    /\ Len(s.stack) = 2 => /\ Looping(s) /\ ~s.stack[1].ending /\ s.stack[2].at = "Finder"
                           /\ s.drag.alive /\ s.drag.state = "DraggingWindow"
    /\ Looping(s) => s.capture = Null
    /\ s.drag.alive =>
           /\ s.drag.inLoop = Looping(s)
           /\ Looping(s) <=> s.drag.state \in {"DraggingWindow", "WaitingToDragTabs"}
           /\ s.drag.state = "WaitingToDragTabs" => s.stack[1].ending
           /\ s.drag.observed = IF Looping(s) THEN s.drag.attached ELSE Null
           /\ Len(s.stack) = 1 =>
                  /\ s.stack[1].at = "SaveFocus" => s.drag.state = "NotStarted"
                  /\ s.stack[1].at \in {"Finder", "Show", "AfterLoop"} =>
                         s.drag.state = "DraggingTabs"
                  /\ s.stack[1].at = "Show" => ToSet(s.strip[s.drag.owner]) = Dragged(s)
           /\ s.drag.target # Null =>
                  \/ s.drag.state = "WaitingToDragTabs"
                  \/ Len(s.stack) = 1 /\ s.stack[1].at = "AfterLoop"

DragInv(s) == Body(s) /\ Turns(s)

--------------------------------------------------------------------------------
\* What the parts of the state are, and how a state is put together.
LEMMA StateIs ==
    ASSUME NEW s \in StateSet
    PROVE  /\ s.strip \in [Browsers -> Seq(Tabs)] /\ s.window \in [Browsers -> WindowStates]
           /\ s.views \in ViewSet /\ s.drag \in DragSet /\ s.capture \in B0
           /\ s.button \in {"up", "down"} /\ s.stack \in Seq(FrameSet)
           /\ s.history \in HistorySet /\ s.failed \in SUBSET Checks
BY DEF StateSet

LEMMA DragIs ==
    ASSUME NEW d \in DragSet
    PROVE  /\ d.alive \in BOOLEAN /\ d.state \in States /\ d.owner \in B0 /\ d.source \in B0
           /\ d.attached \in B0 /\ d.data \in Seq([tab : Tabs, index : Nat \ {0}])
           /\ d.newBrowser \in BOOLEAN /\ d.inLoop \in BOOLEAN /\ d.target \in B0
           /\ d.tracked \in B0 /\ d.observed \in B0
BY DEF DragSet

LEMMA BecomesIs ==
    ASSUME NEW r \in StateSet, Becomes(r)
    PROVE  State' = r
<1>1. State' = [strip |-> r.strip, window |-> r.window, views |-> r.views, drag |-> r.drag,
          capture |-> r.capture, button |-> r.button, stack |-> r.stack, history |-> r.history,
          failed |-> r.failed]
  BY DEF Becomes, State
<1>2. r = [strip |-> r.strip, window |-> r.window, views |-> r.views, drag |-> r.drag,
          capture |-> r.capture, button |-> r.button, stack |-> r.stack, history |-> r.history,
          failed |-> r.failed]
  BY DEF StateSet
<1> QED
  BY <1>1, <1>2

LEMMA PutViews ==
    ASSUME NEW v \in ViewSet, NEW X, NEW Y
    PROVE  [[v EXCEPT !.dragged = X] EXCEPT !.animating = Y] = [dragged |-> X, animating |-> Y]
<1>1. DOMAIN v = {"dragged", "animating"} /\ v = [f \in DOMAIN v |-> v[f]]
  BY DEF ViewSet
<1>2. [[v EXCEPT !.dragged = X] EXCEPT !.animating = Y] = [f \in DOMAIN v |-> IF f = "animating" THEN Y ELSE IF f = "dragged" THEN X ELSE v[f]]
  BY <1>1
<1> QED
  BY <1>1, <1>2

LEMMA PutDrag ==
    ASSUME NEW s \in StateSet, NEW d
    PROVE  [s EXCEPT !.drag = d] = [strip |-> s.strip, window |-> s.window, views |-> s.views,
              drag |-> d, capture |-> s.capture, button |-> s.button, stack |-> s.stack,
              history |-> s.history, failed |-> s.failed]
BY SMTT(40) DEF StateSet

LEMMA NoDragIs ==
    /\ NoDrag \in DragSet /\ NoDrag.alive = FALSE /\ NoDrag.state = "NotStarted"
    /\ NoDrag.data = <<>> /\ NoDrag.owner = Null /\ NoDrag.source = Null
    /\ NoDrag.attached = Null /\ NoDrag.target = Null
<1>1. <<>> \in Seq([tab : Tabs, index : Nat \ {0}])
  BY EmptySeq
<1> QED
  BY <1>1 DEF NoDrag, DragSet, States, B0

\* The tabs of the drag.
LEMMA TabsOfIs ==
    ASSUME NEW s, s.drag \in DragSet
    PROVE  /\ Len(s.drag.data) \in Nat /\ TabsOf(s) \in Seq(Tabs)
           /\ Len(TabsOf(s)) = Len(s.drag.data) /\ DOMAIN TabsOf(s) = 1..Len(s.drag.data)
           /\ \A i \in 1..Len(s.drag.data) : TabsOf(s)[i] = s.drag.data[i].tab
           /\ Dragged(s) = ToSet(TabsOf(s)) /\ Dragged(s) \subseteq Tabs
           /\ Dragged(s) = {s.drag.data[i].tab : i \in 1..Len(s.drag.data)}
           /\ s.drag.data # <<>> <=> Dragged(s) # {}
           /\ TabsOf(s) = [i \in 1..Len(s.drag.data) |-> s.drag.data[i].tab]
           /\ \A i \in 1..Len(s.drag.data) : s.drag.data[i].tab \in Tabs \ {Null}
<1> DEFINE d == s.drag.data
<1>1. d \in Seq([tab : Tabs, index : Nat \ {0}])
  BY DragIs
<1> HIDE DEF d
<1>2. /\ Len(d) \in Nat /\ DOMAIN d = 1..Len(d) /\ (d = <<>> <=> Len(d) = 0)
      /\ \A i \in 1..Len(d) : d[i].tab \in Tabs
  <2> DEFINE S == [tab : Tabs, index : Nat \ {0}]
  <2>1. \A x \in S : x.tab \in Tabs
    OBVIOUS
  <2>2. d \in Seq(S)
    BY <1>1
  <2> HIDE DEF S
  <2>3. /\ Len(d) \in Nat /\ DOMAIN d = 1..Len(d) /\ (d = <<>> <=> Len(d) = 0)
        /\ \A i \in 1..Len(d) : d[i] \in S
    BY <2>2, SeqIs
  <2> QED
    BY <2>1, <2>3
<1>3. Null \notin Tabs
  BY StripsAssumption
<1>4. TabsOf(s) = [i \in 1..Len(d) |-> d[i].tab]
  BY <1>2 DEF TabsOf, d
<1>5. TabsOf(s) \in Seq(Tabs) /\ Len(TabsOf(s)) = Len(d) /\ DOMAIN TabsOf(s) = 1..Len(d)
  BY <1>2, <1>4
<1>6. Dragged(s) = {d[i].tab : i \in 1..Len(d)}
  BY <1>2, <1>3 DEF Dragged, d
<1>7. ToSet(TabsOf(s)) = Dragged(s)
  <2>1. \A x : x \in ToSet(TabsOf(s)) <=> \E i \in 1..Len(d) : TabsOf(s)[i] = x
    BY <1>5, SeqIs
  <2>2. \A x : x \in Dragged(s) <=> \E i \in 1..Len(d) : d[i].tab = x
    BY <1>6
  <2> QED
    BY <1>4, <2>1, <2>2
<1>8. d # <<>> <=> Dragged(s) # {}
  <2>1. d # <<>> <=> \E i \in 1..Len(d) : TRUE
    BY <1>2
  <2> QED
    BY <1>6, <2>1
<1>9. Dragged(s) \subseteq Tabs /\ \A i \in 1..Len(d) : TabsOf(s)[i] = d[i].tab /\ d[i].tab \in Tabs \ {Null}
  BY <1>2, <1>3, <1>4, <1>6
<1> QED
  BY <1>2, <1>4, <1>5, <1>6, <1>7, <1>8, <1>9 DEF d

--------------------------------------------------------------------------------
\* What the operations on a state do to its parts.
LEMMA MatchIs ==
    ASSUME NEW s, s.drag \in DragSet, NEW w
    PROVE  /\ Dragged(s) \subseteq ToSet(s.strip[w]) => MatchingViews(s, w) = Dragged(s)
           /\ Dragged(s) # {} /\ Dragged(s) \cap ToSet(s.strip[w]) = {} => MatchingViews(s, w) = {}
<1>1. /\ DOMAIN s.drag.data = 1..Len(s.drag.data)
      /\ Dragged(s) = {s.drag.data[i].tab : i \in 1..Len(s.drag.data)}
  BY TabsOfIs, DragIs, SeqIs
<1> QED
  BY <1>1 DEF MatchingViews

LEMMA WithoutKeeps ==
    ASSUME NEW q, Distinct(q), NEW S
    PROVE  /\ Distinct(Without(q, S)) /\ ToSet(Without(q, S)) = ToSet(q) \ S
           /\ \A x, y : Before(Without(q, S), x, y) <=> Before(q, x, y) /\ x \notin S /\ y \notin S
           /\ Without(q, S) = <<>> <=> ToSet(q) \subseteq S
<1> DEFINE T == ToSet(q) \ S
<1>1. /\ Distinct(Only(q, T)) /\ ToSet(Only(q, T)) = ToSet(q) \cap T
      /\ \A x, y : Before(Only(q, T), x, y) <=> Before(q, x, y) /\ x \in T /\ y \in T
  BY OnlyKeeps
<1>2. \A x, y : Before(q, x, y) => x \in ToSet(q) /\ y \in ToSet(q)
  BY DistinctIs
<1>3. Only(q, T) = <<>> <=> ToSet(Only(q, T)) = {}
  BY <1>1, DistinctIs
<1>4. Without(q, S) = Only(q, T)
  BY DEF Without
<1> HIDE DEF T
<1>5. \A x : x \in T <=> x \in ToSet(q) /\ x \notin S
  BY DEF T
<1> QED
  BY <1>1, <1>2, <1>3, <1>4, <1>5

\* The tabs that stay in the strip the drag leaves.
Rest(s) == Without(s.strip[s.drag.attached], Dragged(s))

LEMMA DetachIs ==
    ASSUME NEW s \in StateSet, NEW c \in BOOLEAN, s.drag.attached \in Browsers,
           s.drag.owner = s.drag.attached, Distinct(s.strip[s.drag.attached]),
           Dragged(s) \subseteq ToSet(s.strip[s.drag.attached])
    PROVE  /\ Rest(s) \in Seq(Tabs) /\ Detach(s, c) \in StateSet
           /\ Detach(s, c).strip = [s.strip EXCEPT ![s.drag.attached] = Rest(s)]
           /\ Detach(s, c).window = IF Rest(s) = <<>> THEN [s.window EXCEPT ![s.drag.attached] = "closing"]
                                    ELSE s.window
           /\ Detach(s, c).views = [dragged |-> s.views.dragged \ Dragged(s),
                                    animating |-> s.views.animating \ Dragged(s)]
           /\ Detach(s, c).drag = [s.drag EXCEPT !.owner = Null, !.tracked = Null, !.observed = Null,
                                        !.attached = Null,
                                        !.source = IF Rest(s) = <<>> /\ s.drag.source = s.drag.attached
                                                   THEN Null ELSE s.drag.source]
           /\ Detach(s, c).button = s.button /\ Detach(s, c).stack = s.stack
           /\ Detach(s, c).history = s.history /\ Detach(s, c).failed = s.failed
<1> DEFINE w == s.drag.attached
           D == Dragged(s)
           rest == Rest(s)
           ca == IF c /\ s.capture = w THEN Null ELSE s.capture
           out == [s EXCEPT !.drag.owner = Null, !.drag.tracked = Null, !.drag.observed = Null,
                            !.capture = ca, !.strip[w] = rest,
                            !.views.dragged = s.views.dragged \ D,
                            !.views.animating = s.views.animating \ D]
           strips == [s.strip EXCEPT ![w] = rest]
           seen == [dragged |-> s.views.dragged \ D, animating |-> s.views.animating \ D]
           loose == [s.drag EXCEPT !.owner = Null, !.tracked = Null, !.observed = Null]
           lost == [loose EXCEPT !.source = Null]
           closed == [s.window EXCEPT ![w] = "closing"]
           empty == IF s.drag.source = w THEN lost ELSE loose
           ca2 == IF ca = w THEN Null ELSE ca
<1>1. /\ s.strip \in [Browsers -> Seq(Tabs)] /\ s.window \in [Browsers -> WindowStates]
      /\ s.views \in ViewSet /\ s.drag \in DragSet /\ s.capture \in B0 /\ w \in Browsers
      /\ s.button \in {"up", "down"} /\ s.stack \in Seq(FrameSet)
      /\ s.history \in HistorySet /\ s.failed \in SUBSET Checks
  BY StateIs
<1>2. rest \in Seq(Tabs)
  BY WithoutKeeps DEF Distinct, Rest
<1> HIDE DEF w, D, rest
<1>3. /\ strips \in [Browsers -> Seq(Tabs)] /\ strips[w] = rest /\ seen \in ViewSet
      /\ closed \in [Browsers -> WindowStates]
      /\ ca \in B0 /\ ca2 \in B0
  BY <1>1, <1>2 DEF ViewSet, WindowStates, B0
<1>4. loose \in DragSet /\ lost \in DragSet /\ empty \in DragSet /\ loose.alive = s.drag.alive /\ loose.owner = Null /\ loose.source = s.drag.source
  BY <1>1 DEF DragSet, B0
<1> HIDE DEF ca, ca2
<1>5. out = [strip |-> strips, window |-> s.window, views |-> seen, drag |-> loose, capture |-> ca,
             button |-> s.button, stack |-> s.stack, history |-> s.history, failed |-> s.failed]
  <2>1. out = [s EXCEPT !.drag = [[[@ EXCEPT !.owner = Null] EXCEPT !.tracked = Null] EXCEPT !.observed = Null],
                    !.capture = ca, !.strip = [@ EXCEPT ![w] = rest],
                    !.views = [[@ EXCEPT !.dragged = s.views.dragged \ D] EXCEPT !.animating = s.views.animating \ D]]
    BY <1>1 DEF StateSet
  <2>2. [[[s.drag EXCEPT !.owner = Null] EXCEPT !.tracked = Null] EXCEPT !.observed = Null] = loose
    BY <1>1 DEF DragSet
  <2>3. [[s.views EXCEPT !.dragged = s.views.dragged \ D] EXCEPT !.animating = s.views.animating \ D] = seen
    <3>1. \A v \in ViewSet : \A X, Y :
              [[v EXCEPT !.dragged = X] EXCEPT !.animating = Y] = [dragged |-> X, animating |-> Y]
      BY PutViews
    <3> HIDE DEF seen
    <3>2. [[s.views EXCEPT !.dragged = s.views.dragged \ D] EXCEPT !.animating = s.views.animating \ D]
             = [dragged |-> s.views.dragged \ D, animating |-> s.views.animating \ D]
      BY ONLY <1>1, <3>1, Zenon
    <3> QED
      BY <3>2 DEF seen
  <2>4. out = [s EXCEPT !.drag = loose, !.capture = ca, !.strip = strips, !.views = seen]
    BY <2>1, <2>2, <2>3
  <2> HIDE DEF out, loose, strips, seen
  <2> QED
    BY <2>4 DEF StateSet
<1>6. Check(s, s.drag.owner = w /\ D \subseteq ToSet(s.strip[w]), "Detach()") = s
  BY DEF Check, w, D
<1>7. Detach(s, c) = [AfterRemoval(out, w, FALSE) EXCEPT !.drag.attached = Null]
  BY <1>6 DEF Detach, TakenOut, w, D, rest, Rest, ca
<1>8. w # Null
  BY <1>1, StripsAssumption
<1> HIDE DEF strips, seen, loose, out
<1>9. CASE rest # <<>>
  <2>1. AfterRemoval(out, w, FALSE) = out
    BY <1>3, <1>5, <1>9 DEF AfterRemoval
  <2>2. Detach(s, c) = [out EXCEPT !.drag = [loose EXCEPT !.attached = Null]]
    <3>1. Detach(s, c) = [out EXCEPT !.drag = [out.drag EXCEPT !.attached = Null]]
      BY <2>1, <1>7
    <3> QED
      BY <3>1, <1>5
  <2>3. [loose EXCEPT !.attached = Null] \in DragSet
    BY <1>4 DEF DragSet, B0
  <2>4. Detach(s, c) = [strip |-> strips, window |-> s.window, views |-> seen,
             drag |-> [loose EXCEPT !.attached = Null], capture |-> ca,
             button |-> s.button, stack |-> s.stack, history |-> s.history, failed |-> s.failed]
    BY <2>2, <1>5
  <2>5. Detach(s, c) \in StateSet
    BY <2>4, <2>3, <1>1, <1>3 DEF StateSet
  <2>6. [loose EXCEPT !.attached = Null] =
         [s.drag EXCEPT !.owner = Null, !.tracked = Null, !.observed = Null,
              !.attached = Null, !.source = s.drag.source]
    BY <1>1 DEF DragSet, loose
  <2>7. Detach(s, c) \in StateSet /\ Detach(s, c).strip = strips /\ Detach(s, c).window = s.window
        /\ Detach(s, c).views = seen /\ Detach(s, c).drag = [loose EXCEPT !.attached = Null]
        /\ Detach(s, c).button = s.button /\ Detach(s, c).stack = s.stack
        /\ Detach(s, c).history = s.history /\ Detach(s, c).failed = s.failed
    BY ONLY <2>4, <2>5
  <2> QED
    BY <2>7, <2>6, <1>2, <1>9 DEF strips, seen, w, D, rest
<1>10. CASE rest = <<>>
  <2>1. AfterRemoval(out, w, FALSE) = [strip |-> strips, window |-> closed, views |-> seen, drag |-> empty,
             capture |-> ca2, button |-> s.button, stack |-> s.stack, history |-> s.history, failed |-> s.failed]
    BY <1>3, <1>4, <1>5, <1>8, <1>10 DEF AfterRemoval, ca2
  <2>2. [empty EXCEPT !.attached = Null] \in DragSet
    BY <1>4 DEF DragSet, B0
  <2> HIDE DEF empty
  <2>3. Detach(s, c) = [strip |-> strips, window |-> closed, views |-> seen, 
             drag |-> [empty EXCEPT !.attached = Null], capture |-> ca2,
             button |-> s.button, stack |-> s.stack, history |-> s.history, failed |-> s.failed]
    <3>1. PICK m : m = AfterRemoval(out, w, FALSE)
      OBVIOUS
    <3>2. m = [strip |-> strips, window |-> closed, views |-> seen, drag |-> empty,
             capture |-> ca2, button |-> s.button, stack |-> s.stack, history |-> s.history,
             failed |-> s.failed]
      BY <2>1, <3>1
    <3> HIDE DEF closed
    <3>3. m \in StateSet
      BY <3>2, <1>1, <1>3, <1>4 DEF StateSet
    <3>4. Detach(s, c) = [m EXCEPT !.drag = [m.drag EXCEPT !.attached = Null]]
      BY <1>7, <3>1
    <3>5. m.drag = empty /\ m.strip = strips /\ m.window = closed /\ m.views = seen /\ m.capture = ca2
          /\ m.button = s.button /\ m.stack = s.stack /\ m.history = s.history /\ m.failed = s.failed
      BY ONLY <3>2
    <3> QED
      BY ONLY <3>3, <3>4, <3>5, PutDrag
  <2>4. Detach(s, c) \in StateSet
    BY <2>3, <2>2, <1>1, <1>3 DEF StateSet
  <2>6. [empty EXCEPT !.attached = Null] =
         [s.drag EXCEPT !.owner = Null, !.tracked = Null, !.observed = Null,
              !.attached = Null, !.source = IF s.drag.source = w THEN Null ELSE s.drag.source]
    BY <1>1 DEF DragSet, loose, empty
  <2>7. Detach(s, c) \in StateSet /\ Detach(s, c).strip = strips /\ Detach(s, c).window = closed
        /\ Detach(s, c).views = seen /\ Detach(s, c).drag = [empty EXCEPT !.attached = Null]
        /\ Detach(s, c).button = s.button /\ Detach(s, c).stack = s.stack
        /\ Detach(s, c).history = s.history /\ Detach(s, c).failed = s.failed
    BY ONLY <2>3, <2>4
  <2> QED
    BY <2>7, <2>6, <1>2, <1>10 DEF strips, seen, w, D, rest, closed
<1> QED
  BY <1>9, <1>10

\* r is s after the tabs have been attached to x, whose strip has become new.
Attached(s, x, new, r) ==
    /\ r \in StateSet
    /\ r.strip = [s.strip EXCEPT ![x] = new] /\ r.window = s.window
    /\ r.views = [dragged |-> s.views.dragged \cup Dragged(s),
                  animating |-> s.views.animating \ Dragged(s)]
    /\ r.drag = [s.drag EXCEPT !.attached = x, !.owner = x, !.tracked = x]
    /\ r.capture = x /\ r.button = s.button /\ r.stack = s.stack /\ r.history = s.history
    /\ Noted(s.views.dragged, s.failed, r.failed)

LEMMA AttachIs ==
    ASSUME NEW s \in StateSet, NEW c \in BOOLEAN, NEW x \in Browsers, s.drag.attached = Null,
           c => s.drag.owner = Null, ~c => s.drag.owner = x, Dragged(s) # {},
           NEW new \in Seq(Tabs),
           \/ Dragged(s) \subseteq ToSet(s.strip[x]) /\ new = s.strip[x]
           \/ Dragged(s) \cap ToSet(s.strip[x]) = {} /\ new = TabsOf(s) \o s.strip[x]
    PROVE  Attached(s, x, new, Attach(s, x, c))
<1> DEFINE D == Dragged(s)
           in == [s EXCEPT !.drag.attached = x]
           ind == [s.drag EXCEPT !.attached = x]
           tabs == [i \in DOMAIN s.drag.data |-> s.drag.data[i].tab]
           strips == [s.strip EXCEPT ![x] = new]
           name == "No tabs should be dragging"
           fa == IF s.views.dragged \cap ToSet(new) = {} THEN s.failed ELSE s.failed \cup {name}
           m1 == [in EXCEPT !.strip = strips]
           still == [m1 EXCEPT !.failed = fa]
           seen == [dragged |-> s.views.dragged \cup D, animating |-> s.views.animating \ D]
<1>1. /\ s.strip \in [Browsers -> Seq(Tabs)] /\ s.window \in [Browsers -> WindowStates]
      /\ s.views \in ViewSet /\ s.drag \in DragSet /\ s.capture \in B0
      /\ s.button \in {"up", "down"} /\ s.stack \in Seq(FrameSet)
      /\ s.history \in HistorySet /\ s.failed \in SUBSET Checks
  BY StateIs
<1>2. D \in SUBSET Tabs
  BY <1>1, TabsOfIs
<1>3. in = [s EXCEPT !.drag = ind]
  OBVIOUS
<1>4. ind \in DragSet /\ ind.data = s.drag.data /\ x \in B0
  BY <1>1 DEF DragSet, B0
<1>5. in = [strip |-> s.strip, window |-> s.window, views |-> s.views, drag |-> ind,
            capture |-> s.capture, button |-> s.button, stack |-> s.stack, history |-> s.history,
            failed |-> s.failed]
  BY <1>3, PutDrag
<1> HIDE DEF ind
<1>6. in \in StateSet /\ in.drag = ind /\ in.strip = s.strip /\ in.views = s.views /\ in.failed = s.failed
  BY <1>1, <1>4, <1>5 DEF StateSet
<1>7. Dragged(in) = D
  BY <1>4, <1>6 DEF Dragged
<1> HIDE DEF in, D
<1>8. Check(s, s.drag.attached = Null /\ s.drag.owner = (IF c THEN Null ELSE x), "Attach()") = s
  BY DEF Check
<1>9. (IF MatchingViews(in, x) # {} THEN in ELSE [in EXCEPT !.strip[x] = tabs \o @]) = m1
  <2>1. CASE Dragged(s) \subseteq ToSet(s.strip[x]) /\ new = s.strip[x]
    <3>1. MatchingViews(in, x) # {}
      BY <2>1, <1>4, <1>6, <1>7, MatchIs DEF D
    <3>2. strips = s.strip
      BY <2>1, <1>1
    <3>3. m1 = in
      BY <3>2, <1>5
    <3> QED
      BY <3>1, <3>3
  <2>2. CASE Dragged(s) \cap ToSet(s.strip[x]) = {} /\ new = TabsOf(s) \o s.strip[x]
    <3>1. MatchingViews(in, x) = {}
      BY <2>2, <1>4, <1>6, <1>7, MatchIs DEF D
    <3>2. [in EXCEPT !.strip[x] = tabs \o @] = [in EXCEPT !.strip = [in.strip EXCEPT ![x] = tabs \o in.strip[x]]]
      OBVIOUS
    <3> QED
      BY <3>1, <3>2, <1>6, <2>2 DEF TabsOf
  <2> QED
    BY <2>1, <2>2
<1>10. strips \in [Browsers -> Seq(Tabs)] /\ strips[x] = new /\ fa \in SUBSET Checks
  <2>1. strips \in [Browsers -> Seq(Tabs)] /\ strips[x] = new
    BY <1>1
  <2>2. s.failed \cup {name} \in SUBSET Checks
    BY <1>1 DEF Checks
  <2> QED
    BY <1>1, <2>1, <2>2
<1>11. seen \in ViewSet
  BY <1>1, <1>2 DEF ViewSet
<1> HIDE DEF strips, fa, seen
<1>12. m1 = [strip |-> strips, window |-> s.window, views |-> s.views, drag |-> ind,
            capture |-> s.capture, button |-> s.button, stack |-> s.stack, history |-> s.history,
            failed |-> s.failed]
  BY <1>5
<1> HIDE DEF m1
<1>13. still = [strip |-> strips, window |-> s.window, views |-> s.views, drag |-> ind,
            capture |-> s.capture, button |-> s.button, stack |-> s.stack, history |-> s.history,
            failed |-> fa]
  BY <1>12
<1>14. Check(m1, s.views.dragged \cap ToSet(m1.strip[x]) = {}, name) = still
  <2>1. m1.strip[x] = new /\ m1.failed = s.failed
    BY <1>10, <1>12
  <2>2. CASE s.views.dragged \cap ToSet(new) = {}
    BY <2>1, <2>2, <1>12, <1>13 DEF Check, fa
  <2>3. CASE s.views.dragged \cap ToSet(new) # {}
    BY <2>1, <2>3 DEF Check, fa
  <2> QED
    BY <2>2, <2>3
<1>15. Inserted(in, x) = m1
  <2>1. [i \in DOMAIN in.drag.data |-> in.drag.data[i].tab] = tabs
    BY <1>4, <1>6
  <2> HIDE DEF m1, tabs
  <2> QED
    BY ONLY <1>9, <2>1 DEF Inserted
<1> HIDE DEF m1
<1>16. Dragged(m1) = D /\ m1.views = s.views
  BY <1>4, <1>12 DEF Dragged, D
<1> HIDE DEF still
<1>17. still \in StateSet /\ still.views = s.views /\ still.drag = ind
  BY <1>1, <1>4, <1>10, <1>13 DEF StateSet
<1> DEFINE begun == StartedDragging(m1, x)
<1>18. begun = [still EXCEPT !.views = seen]
  <2>1. begun = [still EXCEPT !.views.dragged = @ \cup D, !.views.animating = @ \ D]
    <3>1. Check(m1, m1.views.dragged \cap ToSet(m1.strip[x]) = {}, name) = still
      BY <1>14, <1>16
    <3> QED
      BY ONLY <1>16, <3>1 DEF StartedDragging, begun, name
  <2>2. begun = [still EXCEPT !.views = [[still.views EXCEPT !.dragged = still.views.dragged \cup D]
                                          EXCEPT !.animating = still.views.animating \ D]]
    BY ONLY <1>17, <2>1 DEF StateSet, ViewSet
  <2>3. [[still.views EXCEPT !.dragged = still.views.dragged \cup D]
            EXCEPT !.animating = still.views.animating \ D] = seen
    <3>1. \A v \in ViewSet : \A X, Y :
            [[v EXCEPT !.dragged = X] EXCEPT !.animating = Y] = [dragged |-> X, animating |-> Y]
      BY PutViews
    <3>2. [[s.views EXCEPT !.dragged = s.views.dragged \cup D] EXCEPT !.animating = s.views.animating \ D]
             = [dragged |-> s.views.dragged \cup D, animating |-> s.views.animating \ D]
      BY ONLY <1>1, <3>1, Zenon
    <3> QED
      BY <3>2, <1>17 DEF seen
  <2> HIDE DEF begun
  <2> QED
    BY ONLY <2>2, <2>3
<1>19. begun = [strip |-> strips, window |-> s.window, views |-> seen, drag |-> ind,
            capture |-> s.capture, button |-> s.button, stack |-> s.stack, history |-> s.history,
            failed |-> fa]
  BY ONLY <1>13, <1>18
<1> DEFINE fin == [begun EXCEPT !.capture = x, !.drag.owner = x, !.drag.tracked = x]
<1>20. Attach(s, x, c) = fin
  <2>1. Attach(s, x, c) = [StartedDragging(Inserted([s EXCEPT !.drag.attached = x], x), x)
                              EXCEPT !.capture = x, !.drag.owner = x, !.drag.tracked = x]
    BY ONLY <1>8 DEF Attach
  <2> QED
    BY ONLY <1>15, <2>1 DEF in, begun, fin
<1> HIDE DEF begun
<1>21. begun.drag = ind
  BY ONLY <1>19
<1> DEFINE last == [s.drag EXCEPT !.attached = x, !.owner = x, !.tracked = x]
<1>22. [[begun.drag EXCEPT !.owner = x] EXCEPT !.tracked = x] = last
  BY <1>1, <1>21 DEF DragSet, ind
<1>23. last \in DragSet
  BY <1>1, <1>4 DEF DragSet
<1>24. fin = [begun EXCEPT !.capture = x, !.drag = last]
  <2>1. fin = [begun EXCEPT !.capture = x, !.drag = [[begun.drag EXCEPT !.owner = x] EXCEPT !.tracked = x]]
    BY ONLY <1>19
  <2> HIDE DEF fin, last
  <2> QED
    BY ONLY <1>22, <2>1
<1> HIDE DEF last, fin
<1>25. fin = [strip |-> strips, window |-> s.window, views |-> seen, drag |-> last,
            capture |-> x, button |-> s.button, stack |-> s.stack, history |-> s.history,
            failed |-> fa]
  BY ONLY <1>24, <1>19
<1>26. /\ fin \in StateSet /\ fin.strip = strips /\ fin.window = s.window /\ fin.views = seen
       /\ fin.drag = last /\ fin.capture = x /\ fin.button = s.button /\ fin.stack = s.stack
       /\ fin.history = s.history /\ fin.failed = fa
  BY <1>1, <1>4, <1>10, <1>11, <1>23, <1>25 DEF StateSet
<1> QED
  <2>1. Noted(s.views.dragged, s.failed, fa)
    BY DEF fa, name, Noted, Excused
  <2> QED
    BY <1>20, <1>26, <2>1 DEF strips, seen, last, D, Attached

--------------------------------------------------------------------------------
\* r is s with the dragged tabs moved to the front of the strip of x, and dragged there.
Carried(s, x, r) ==
    /\ r \in StateSet
    /\ r.strip = [s.strip EXCEPT ![s.drag.attached] = Rest(s), ![x] = TabsOf(s) \o s.strip[x]]
    /\ r.window = [w \in Browsers |-> IF w = x THEN "open"
                                      ELSE IF w = s.drag.attached /\ Rest(s) = <<>> THEN "closing"
                                      ELSE s.window[w]]
    /\ r.views = [dragged |-> (s.views.dragged \ Dragged(s)) \cup Dragged(s),
                  animating |-> s.views.animating \ Dragged(s)]
    /\ r.drag.alive = s.drag.alive /\ r.drag.data = s.drag.data /\ r.drag.state = "DraggingTabs"
    /\ r.drag.owner = x /\ r.drag.attached = x /\ r.drag.tracked = x
    /\ r.drag.source = IF Rest(s) = <<>> /\ s.drag.source = s.drag.attached THEN Null ELSE s.drag.source
    /\ r.drag.target \in {Null, x} /\ r.history = s.history
    /\ Noted(s.views.dragged \ Dragged(s), s.failed, r.failed)

LEMMA FrontInsert ==
    ASSUME NEW q \in Seq(Tabs), NEW b \in Seq(Tabs)
    PROVE  InsertBlock(q, 0, b) = b \o q
<1>1. SubSeq(q, 1, 0) = <<>> /\ SubSeq(q, 1, Len(q)) = q
  OBVIOUS
<1>2. SubSeq(q, 0 + 1, Len(q)) = q
  BY <1>1
<1>3. <<>> \o b = b
  OBVIOUS
<1> QED
  BY <1>1, <1>2, <1>3 DEF InsertBlock

\* r is s after the tabs have left the strip they were in and are attached to x.
Carries(s, x, r) ==
    /\ r \in StateSet
    /\ r.strip = [s.strip EXCEPT ![s.drag.attached] = Rest(s), ![x] = TabsOf(s) \o s.strip[x]]
    /\ r.window = IF Rest(s) = <<>> THEN [s.window EXCEPT ![s.drag.attached] = "closing"]
                  ELSE s.window
    /\ r.views = [dragged |-> (s.views.dragged \ Dragged(s)) \cup Dragged(s),
                  animating |-> s.views.animating \ Dragged(s)]
    /\ r.drag = [s.drag EXCEPT !.owner = x, !.tracked = x, !.observed = Null, !.attached = x,
                    !.source = IF Rest(s) = <<>> /\ s.drag.source = s.drag.attached
                               THEN Null ELSE s.drag.source]
    /\ r.capture = x /\ r.button = s.button /\ r.stack = s.stack /\ r.history = s.history
    /\ Noted(s.views.dragged \ Dragged(s), s.failed, r.failed)

LEMMA CarryIs ==
    ASSUME NEW s \in StateSet, NEW c \in BOOLEAN, NEW x \in Browsers, s.drag.attached \in Browsers,
           x # s.drag.attached, s.drag.owner = s.drag.attached, Distinct(s.strip[s.drag.attached]),
           Dragged(s) # {}, Dragged(s) \subseteq ToSet(s.strip[s.drag.attached]),
           Dragged(s) \cap ToSet(s.strip[x]) = {}
    PROVE  Carries(s, x, DetachAndAttachToNewContext(s, c, x))
<1> DEFINE m == Detach(s, c)
           a == s.drag.attached
           so == IF Rest(s) = <<>> /\ s.drag.source = a THEN Null ELSE s.drag.source
           new == TabsOf(s) \o s.strip[x]
<1>1. /\ Rest(s) \in Seq(Tabs) /\ m \in StateSet
      /\ m.strip = [s.strip EXCEPT ![a] = Rest(s)]
      /\ m.window = IF Rest(s) = <<>> THEN [s.window EXCEPT ![a] = "closing"] ELSE s.window
      /\ m.views = [dragged |-> s.views.dragged \ Dragged(s),
                    animating |-> s.views.animating \ Dragged(s)]
      /\ m.drag = [s.drag EXCEPT !.owner = Null, !.tracked = Null, !.observed = Null,
                        !.attached = Null, !.source = so]
      /\ m.button = s.button /\ m.stack = s.stack /\ m.history = s.history /\ m.failed = s.failed
  BY DetachIs
<1>2. s.drag \in DragSet /\ s.strip \in [Browsers -> Seq(Tabs)] /\ s.views \in ViewSet
  BY StateIs
<1> HIDE DEF m, a, so
<1>3. m.drag.attached = Null /\ m.drag.owner = Null /\ m.drag.data = s.drag.data /\ m.drag \in DragSet
  BY <1>1, <1>2, StateIs DEF DragSet
<1>4. Dragged(m) = Dragged(s) /\ TabsOf(m) = TabsOf(s)
  BY <1>3 DEF Dragged, TabsOf
<1>5. m.strip[x] = s.strip[x] /\ new \in Seq(Tabs)
  BY <1>1, <1>2, TabsOfIs DEF a
<1> DEFINE r == Attach(m, x, TRUE)
<1> HIDE DEF new
<1>6. Attached(m, x, new, r)
  <2>1. Dragged(m) # {} /\ (TRUE => m.drag.owner = Null) /\ (~TRUE => m.drag.owner = x)
    BY <1>3, <1>4
  <2>2. Dragged(m) \cap ToSet(m.strip[x]) = {} /\ new = TabsOf(m) \o m.strip[x]
    BY <1>4, <1>5 DEF new
  <2>3. m \in StateSet /\ TRUE \in BOOLEAN /\ m.drag.attached = Null
    BY <1>1, <1>3
  <2>4. \/ Dragged(m) \subseteq ToSet(m.strip[x]) /\ new = m.strip[x]
        \/ Dragged(m) \cap ToSet(m.strip[x]) = {} /\ new = TabsOf(m) \o m.strip[x]
    BY <2>2
  <2> QED
    BY ONLY <2>3, <1>5, <2>1, <2>4, x \in Browsers, AttachIs, Zenon DEF r
<1> HIDE DEF r
<1>12. /\ r \in StateSet /\ r.strip = [m.strip EXCEPT ![x] = new] /\ r.window = m.window
       /\ r.views = [dragged |-> m.views.dragged \cup Dragged(m),
                     animating |-> m.views.animating \ Dragged(m)]
       /\ r.drag = [m.drag EXCEPT !.attached = x, !.owner = x, !.tracked = x]
       /\ r.capture = x /\ r.button = m.button /\ r.stack = m.stack /\ r.history = m.history
       /\ Noted(m.views.dragged, m.failed, r.failed)
  BY <1>6 DEF Attached
<1>7. r.drag = [s.drag EXCEPT !.owner = x, !.tracked = x, !.observed = Null, !.attached = x, !.source = so]
  <2>1. \A d \in DragSet : \A o : [[d EXCEPT !.owner = Null, !.tracked = Null, !.observed = Null, !.attached = Null, !.source = o]
                 EXCEPT !.attached = x, !.owner = x, !.tracked = x]
             = [d EXCEPT !.owner = x, !.tracked = x, !.observed = Null, !.attached = x, !.source = o]
    BY ZenonT(40) DEF DragSet
  <2>2. r.drag = [m.drag EXCEPT !.attached = x, !.owner = x, !.tracked = x] /\ s.drag \in DragSet
    BY <1>2, <1>12
  <2>3. m.drag = [s.drag EXCEPT !.owner = Null, !.tracked = Null, !.observed = Null,
                        !.attached = Null, !.source = so]
    BY <1>1
  <2>4. r.drag = [[s.drag EXCEPT !.owner = Null, !.tracked = Null, !.observed = Null,
                        !.attached = Null, !.source = so] EXCEPT !.attached = x, !.owner = x, !.tracked = x]
    BY ONLY <2>2, <2>3
  <2> QED
    BY ONLY <2>1, <2>2, <2>4, Zenon
<1>8. r.views = [dragged |-> (s.views.dragged \ Dragged(s)) \cup Dragged(s),
                 animating |-> s.views.animating \ Dragged(s)]
  <2>1. m.views.dragged = s.views.dragged \ Dragged(s) /\ m.views.animating = s.views.animating \ Dragged(s)
    BY <1>1
  <2>2. (s.views.animating \ Dragged(s)) \ Dragged(s) = s.views.animating \ Dragged(s)
    OBVIOUS
  <2> QED
    BY <2>1, <2>2, <1>4, <1>12
<1>9. Noted(s.views.dragged \ Dragged(s), s.failed, r.failed)
  BY <1>1, <1>12
<1>10. r.strip = [s.strip EXCEPT ![a] = Rest(s), ![x] = new]
  BY <1>1, <1>12
<1>11. DetachAndAttachToNewContext(s, c, x) = r
  BY DEF DetachAndAttachToNewContext, r, m
<1> QED
  BY <1>1, <1>12, <1>7, <1>8, <1>9, <1>10, <1>11 DEF Carries, a, so, new

\* Sequences of a state, as its invariant has them.
LEMMA LaidIs ==
    ASSUME NEW strips, Laid(strips)
    PROVE  /\ \A w \in Browsers : Distinct(strips[w])
           /\ \A w \in Browsers : strips[w] \in Seq(Tabs) /\ (strips[w] = <<>> <=> ToSet(strips[w]) = {})
           /\ \A w, x \in Browsers : w # x => ToSet(strips[w]) \cap ToSet(strips[x]) = {}
BY DistinctIs DEF Laid

LEMMA BeforeIn ==
    ASSUME NEW q, Distinct(q)
    PROVE  \A x, y : Before(q, x, y) => x \in ToSet(q) /\ y \in ToSet(q)
BY DistinctIs

\* Tabs that are inserted leave the order of the others alone.
LEMMA InsertKeeps ==
    ASSUME NEW q, Distinct(q), NEW b, Distinct(b), ToSet(q) \cap ToSet(b) = {}, NEW p \in 0..Len(q)
    PROVE  /\ Distinct(InsertBlock(q, p, b)) /\ ToSet(InsertBlock(q, p, b)) = ToSet(q) \cup ToSet(b)
           /\ Block(InsertBlock(q, p, b), b)
           /\ \A x, y : x \notin ToSet(b) /\ y \notin ToSet(b) =>
                  (Before(InsertBlock(q, p, b), x, y) <=> Before(q, x, y))
<1>1. /\ Distinct(InsertBlock(q, p, b)) /\ ToSet(InsertBlock(q, p, b)) = ToSet(q) \cup ToSet(b)
      /\ \A x, y \in ToSet(q) : Before(InsertBlock(q, p, b), x, y) <=> Before(q, x, y)
  BY InsertIs
<1>2. Block(InsertBlock(q, p, b), b)
  BY DEF Block
<1>3. \A x, y : Before(q, x, y) => x \in ToSet(q) /\ y \in ToSet(q)
  BY BeforeIn
<1>4. \A x, y : Before(InsertBlock(q, p, b), x, y) =>
             x \in ToSet(InsertBlock(q, p, b)) /\ y \in ToSet(InsertBlock(q, p, b))
  BY <1>1, BeforeIn
<1> QED
  BY <1>1, <1>2, <1>3, <1>4

LEMMA CarriedFine ==
    ASSUME NEW s, Body(s), s.drag.alive, s.drag.state \in {"DraggingTabs", "WaitingToDragTabs"},
           NEW x \in Browsers, x # s.drag.attached, s.window[x] \in {"unborn", "open"},
           NEW r, Carried(s, x, r)
    PROVE  Body(r) /\ Dragged(r) = Dragged(s) /\ (s.strip[x] = <<>> => ToSet(r.strip[x]) = Dragged(r))
<1> DEFINE a == s.drag.attached
           D == Dragged(s)
           new == TabsOf(s) \o s.strip[x]
           old == s.history.before
<1>1. /\ s \in StateSet /\ Laid(s.strip) /\ Laid(s.history.before)
      /\ Settled(s) /\ Owned(s) /\ Seen(s) /\ Undone(s) /\ Restored(s) /\ Whole(s)
  BY DEF Body, Sound
<1>2. /\ s.drag.data # <<>> /\ Distinct(TabsOf(s)) /\ s.history.ended = "none"
      /\ a \in Browsers /\ s.drag.owner = a
      /\ D \subseteq ToSet(s.strip[a])
      /\ s.drag.source # Null => s.strip[s.drag.source] # <<>>
      /\ s.window[a] = IF s.drag.state = "WaitingToDragTabs" THEN "hidden" ELSE "open"
  BY <1>1 DEF Owned, B0
<1>3. /\ s.drag \in DragSet /\ r.drag \in DragSet /\ s.strip \in [Browsers -> Seq(Tabs)]
      /\ s.window \in [Browsers -> WindowStates] /\ Null \notin Browsers
  BY <1>1, StateIs, StripsAssumption DEF Carried
<1>4. D # {} /\ ToSet(TabsOf(s)) = D /\ Dragged(r) = D /\ TabsOf(r) = TabsOf(s)
  <2>1. r.drag.data = s.drag.data
    BY DEF Carried
  <2> QED
    <3>1. Dragged(r) = Dragged(s) /\ TabsOf(r) = TabsOf(s)
      BY <2>1 DEF Dragged, TabsOf
    <3> QED
      BY <1>2, <1>3, <3>1, TabsOfIs
<1>5. /\ \A w \in Browsers : Distinct(s.strip[w]) /\ s.strip[w] \in Seq(Tabs)
                             /\ (s.strip[w] = <<>> <=> ToSet(s.strip[w]) = {})
      /\ \A w, y \in Browsers : w # y => ToSet(s.strip[w]) \cap ToSet(s.strip[y]) = {}
  BY <1>1, LaidIs
<1>6. /\ Distinct(Rest(s)) /\ ToSet(Rest(s)) = ToSet(s.strip[a]) \ D
      /\ \A y, z : Before(Rest(s), y, z) <=> Before(s.strip[a], y, z) /\ y \notin D /\ z \notin D
      /\ Rest(s) = <<>> <=> ToSet(s.strip[a]) \subseteq D
  BY <1>2, <1>5, WithoutKeeps DEF Rest
<1>7. /\ Distinct(new) /\ ToSet(new) = ToSet(s.strip[x]) \cup D /\ Block(new, TabsOf(s))
      /\ \A y, z : y \notin D /\ z \notin D => (Before(new, y, z) <=> Before(s.strip[x], y, z))
  <2>1. ToSet(s.strip[x]) \cap ToSet(TabsOf(s)) = {}
    BY ZenonT(40), <1>2, <1>4, <1>5
  <2>2. 0 \in 0..Len(s.strip[x]) /\ TabsOf(s) \in Seq(Tabs)
    BY <1>3, TabsOfIs
  <2>3. InsertBlock(s.strip[x], 0, TabsOf(s)) = new
    BY <1>5, <2>2, FrontInsert
  <2>4. Distinct(s.strip[x])
    BY <1>5
  <2> HIDE DEF new
  <2> QED
    BY ONLY <1>2, <1>4, <2>1, <2>2, <2>3, <2>4, InsertKeeps
<1> HIDE DEF a, D, new, old
<1>8. /\ r \in StateSet /\ r.strip = [s.strip EXCEPT ![a] = Rest(s), ![x] = new]
      /\ r.window = [w \in Browsers |-> IF w = x THEN "open"
                                      ELSE IF w = a /\ Rest(s) = <<>> THEN "closing" ELSE s.window[w]]
      /\ r.views = [dragged |-> (s.views.dragged \ D) \cup D, animating |-> s.views.animating \ D]
      /\ r.drag.alive = s.drag.alive /\ r.drag.data = s.drag.data /\ r.drag.state = "DraggingTabs"
      /\ r.drag.owner = x /\ r.drag.attached = x /\ r.drag.tracked = x
      /\ r.drag.source = IF Rest(s) = <<>> /\ s.drag.source = a THEN Null ELSE s.drag.source
      /\ r.drag.target \in {Null, x} /\ r.history = s.history
      /\ Noted(s.views.dragged \ D, s.failed, r.failed)
  BY DEF Carried, a, D, new
<1>9. /\ r.strip[a] = Rest(s) /\ r.strip[x] = new
      /\ \A w \in Browsers \ {a, x} : r.strip[w] = s.strip[w]
  BY <1>2, <1>3, <1>8 DEF a
<1>10. x # a
  BY DEF a
<1>11. Laid(r.strip)
  <2>1. \A w \in Browsers : Distinct(r.strip[w])
    BY <1>5, <1>6, <1>7, <1>9
  <2>2. \A w \in Browsers \ {a, x} : ToSet(s.strip[w]) \cap D = {}
    BY <1>2, <1>5
  <2>3. \A w, y \in Browsers : w # y => ToSet(r.strip[w]) \cap ToSet(r.strip[y]) = {}
    <3>1. \A w \in Browsers : ToSet(r.strip[w]) = IF w = a THEN ToSet(s.strip[a]) \ D
                                  ELSE IF w = x THEN ToSet(s.strip[x]) \cup D ELSE ToSet(s.strip[w])
      BY <1>6, <1>7, <1>9, <1>10
    <3>2. SUFFICES ASSUME NEW w \in Browsers, NEW y \in Browsers, w # y
                   PROVE  ToSet(r.strip[w]) \cap ToSet(r.strip[y]) = {}
      OBVIOUS
    <3>3. ToSet(s.strip[w]) \cap ToSet(s.strip[y]) = {}
      BY <1>5, <3>2
    <3>4. /\ w \notin {a, x} => ToSet(s.strip[w]) \cap D = {}
          /\ y \notin {a, x} => ToSet(s.strip[y]) \cap D = {}
      BY <2>2
    <3>5. CASE w # x /\ y # x
      BY <3>1, <3>3, <3>5
    <3>6. CASE w = x
      BY <3>1, <3>2, <3>3, <3>4, <3>6
    <3>7. CASE y = x
      BY <3>1, <3>2, <3>3, <3>4, <3>7
    <3> QED
      BY <3>5, <3>6, <3>7
  <2> QED
    BY <2>1, <2>3 DEF Laid
<1>12. \A w \in Browsers : r.strip[w] = <<>> <=> ToSet(r.strip[w]) = {}
  BY <1>11, LaidIs
<1>13. Settled(r)
  <2>1. SUFFICES ASSUME NEW w \in Browsers
                 PROVE  /\ r.strip[w] # <<>> => r.window[w] \in {"open", "hidden"}
                        /\ r.window[w] = "open" => r.strip[w] # <<>>
                        /\ r.window[w] # "hidden"
    BY DEF Settled
  <2>2. /\ s.strip[w] # <<>> => s.window[w] \in {"open", "hidden"}
        /\ s.window[w] = "open" => s.strip[w] # <<>>
        /\ s.window[w] = "hidden" => s.drag.state = "WaitingToDragTabs" /\ s.drag.attached = w
    BY <1>1 DEF Settled
  <2>3. CASE w = x
    BY <2>3, <1>4, <1>7, <1>8, <1>9, <1>12
  <2>4. CASE w = a
    <3>1. s.window[a] = "hidden" => Rest(s) = <<>>
      BY <1>1, <1>2, <1>6, <2>2, <2>4 DEF Whole, D
    <3> QED
      BY <2>2, <2>4, <3>1, <1>2, <1>8, <1>9, <1>10
  <2>5. CASE w \notin {a, x}
    BY <2>2, <2>5, <1>8, <1>9 DEF a
  <2> QED
    BY <2>3, <2>4, <2>5
<1>14. Owned(r)
  <2>1. r.drag.data # <<>> /\ Distinct(TabsOf(r)) /\ r.history.ended = "none"
    BY <1>2, <1>4, <1>8
  <2>2. Dragged(r) \subseteq ToSet(r.strip[r.drag.owner]) /\ r.window[r.drag.owner] = "open"
    BY <1>4, <1>7, <1>8, <1>9
  <2>3. r.drag.source # Null => r.strip[r.drag.source] # <<>>
    <3>1. SUFFICES ASSUME r.drag.source # Null PROVE r.strip[r.drag.source] # <<>>
      OBVIOUS
    <3>2. r.drag.source = s.drag.source /\ s.drag.source \in Browsers /\ s.strip[s.drag.source] # <<>>
          /\ (s.drag.source = a => Rest(s) # <<>>)
      BY <3>1, <1>2, <1>3, <1>8, DragIs DEF B0
    <3>3. r.strip[x] # <<>>
      BY <1>4, <1>7, <1>9, <1>12
    <3> QED
      BY <3>2, <3>3, <1>9
  <2> QED
    BY ZenonT(40), <2>1, <2>2, <2>3, <1>3, <1>8, <1>4 DEF Owned
<1>15. Seen(r)
  <2>1. D \subseteq s.views.dragged \ s.views.animating /\ s.views.animating \subseteq s.views.dragged
    BY <1>1 DEF Seen, D
  <2>2. Unfailing(s) /\ (~s.history.quick => s.views.dragged = D)
    BY <1>1 DEF Seen, D
  <2>3. r.views.dragged = s.views.dragged /\ r.views.animating = s.views.animating
    BY <2>1, <1>8
  <2>4. Unfailing(r)
    <3>1. r.history = s.history /\ Noted(s.views.dragged \ D, s.failed, r.failed)
      BY <1>8
    <3> QED
      BY ONLY <2>2, <3>1 DEF Noted, Unfailing
  <2> QED
    BY <2>1, <2>2, <2>3, <2>4, <1>4, <1>8 DEF Seen
<1>16. Undone(r)
  <2>1. SUFFICES ASSUME ~r.history.disturbed, r.drag.source # Null
                 PROVE  Undone(r)
    BY DEF Undone
  <2>2. s.drag.source = r.drag.source /\ ~s.history.disturbed /\ s.history = r.history
    BY <2>1, <1>8
  <2>3. /\ Known(s.drag.data, old, s.drag.source)
        /\ \A w \in Browsers : Like(s.strip[w], old[w],
                (ToSet(old[w]) \ D) \cup (IF w = a THEN D ELSE {}), D)
    BY <1>1, <1>2, <2>1, <2>2 DEF Undone, old, D
  <2>4. ASSUME NEW w \in Browsers
        PROVE  Like(r.strip[w], old[w], (ToSet(old[w]) \ D) \cup (IF w = x THEN D ELSE {}), D)
    <3>1. /\ ToSet(s.strip[w]) = (ToSet(old[w]) \ D) \cup (IF w = a THEN D ELSE {})
          /\ \A y, z : y \notin D /\ z \notin D => (Before(s.strip[w], y, z) <=> Before(old[w], y, z))
      BY <2>3 DEF Like
    <3>2. CASE w = a
      BY <3>1, <3>2, <1>6, <1>9, <1>10 DEF Like
    <3>3. CASE w = x
      <4>1. ToSet(new) = (ToSet(old[x]) \ D) \cup D
        BY <3>1, <3>3, <1>7, <1>10
      <4> QED
        BY <3>1, <3>3, <4>1, <1>7, <1>9 DEF Like
    <3>4. CASE w \notin {a, x}
      BY <3>1, <3>4, <1>9 DEF Like
    <3> QED
      BY <3>2, <3>3, <3>4
  <2>5. Block(r.strip[r.drag.owner], TabsOf(r))
    BY <1>4, <1>7, <1>8, <1>9
  <2> QED
    BY <2>2, <2>3, <2>4, <2>5, <1>4, <1>8 DEF Undone, old
<1>17. Laid(r.history.before) /\ Restored(r) /\ Whole(r)
  BY <1>1, <1>2, <1>8 DEF Restored, Whole
<1>18. s.strip[x] = <<>> => ToSet(r.strip[x]) = Dragged(r)
  BY <1>4, <1>5, <1>7, <1>9
<1> QED
  BY <1>4, <1>8, <1>11, <1>13, <1>14, <1>15, <1>16, <1>17, <1>18 DEF Body, Sound, D

--------------------------------------------------------------------------------
\* r differs from s only in what called out, in capture, and in what the controller
\* notes of its loop.
Alike(s, r) ==
    /\ r \in StateSet
    /\ r.strip = s.strip /\ r.window = s.window /\ r.views = s.views /\ r.history = s.history
    /\ r.failed = s.failed
    /\ \/ r.drag = s.drag
       \/ /\ s.drag.alive /\ r.drag.alive = s.drag.alive /\ r.drag.state = s.drag.state
          /\ r.drag.owner = s.drag.owner /\ r.drag.source = s.drag.source
          /\ r.drag.attached = s.drag.attached /\ r.drag.data = s.drag.data
          /\ r.drag.target = s.drag.target /\ r.drag.tracked = s.drag.tracked

LEMMA AlikeFine ==
    ASSUME NEW s, Sound(s), NEW r, Alike(s, r)
    PROVE  /\ Sound(r) /\ Dragged(r) = Dragged(s) /\ TabsOf(r) = TabsOf(s)
           /\ Whole(s) => Whole(r)
<1>1. /\ s \in StateSet /\ Laid(s.strip) /\ Laid(s.history.before)
      /\ Settled(s) /\ Owned(s) /\ Seen(s) /\ Undone(s) /\ Restored(s)
  BY DEF Sound
<1>2. /\ r.strip = s.strip /\ r.window = s.window /\ r.views = s.views /\ r.history = s.history
      /\ r.failed = s.failed /\ r \in StateSet
  BY DEF Alike
<1>3. /\ r.drag.alive = s.drag.alive /\ r.drag.state = s.drag.state
      /\ r.drag.owner = s.drag.owner /\ r.drag.source = s.drag.source
      /\ r.drag.attached = s.drag.attached /\ r.drag.data = s.drag.data
      /\ r.drag.target = s.drag.target /\ r.drag.tracked = s.drag.tracked
      /\ ~s.drag.alive => r.drag = s.drag
  BY DEF Alike
<1>4. Dragged(r) = Dragged(s) /\ TabsOf(r) = TabsOf(s)
  BY <1>3 DEF Dragged, TabsOf
<1>5. Settled(r)
  BY <1>1, <1>2, <1>3 DEF Settled
<1>6. Owned(r)
  BY <1>1, <1>2, <1>3, <1>4 DEF Owned
<1>7. Seen(r)
  BY <1>1, <1>2, <1>3, <1>4 DEF Seen, Unfailing
<1>8. Undone(r)
  BY <1>1, <1>2, <1>3, <1>4 DEF Undone
<1>9. Restored(r) /\ Laid(r.strip) /\ Laid(r.history.before)
  BY <1>1, <1>2 DEF Restored
<1>10. Whole(s) => Whole(r)
  BY <1>2, <1>3, <1>4 DEF Whole
<1> QED
  BY <1>2, <1>4, <1>5, <1>6, <1>7, <1>8, <1>9, <1>10 DEF Sound

\* r is s with the window dragged that the tabs are in.
Windowed(s, r) ==
    /\ r \in StateSet
    /\ r.strip = s.strip /\ r.window = s.window /\ r.views = s.views /\ r.history = s.history
    /\ r.failed = s.failed /\ r.drag.state = "DraggingWindow"
    /\ r.drag.alive = s.drag.alive
    /\ r.drag.owner = s.drag.owner /\ r.drag.source = s.drag.source
    /\ r.drag.attached = s.drag.attached /\ r.drag.data = s.drag.data
    /\ r.drag.target = s.drag.target /\ r.drag.tracked = s.drag.tracked

LEMMA WindowedFine ==
    ASSUME NEW s, Body(s), s.drag.alive, s.drag.state = "DraggingTabs", s.drag.target = Null,
           ToSet(s.strip[s.drag.owner]) = Dragged(s), NEW r, Windowed(s, r)
    PROVE  Body(r) /\ Dragged(r) = Dragged(s)
<1>1. /\ s \in StateSet /\ Laid(s.strip) /\ Laid(s.history.before)
      /\ Settled(s) /\ Owned(s) /\ Seen(s) /\ Undone(s) /\ Restored(s)
  BY DEF Body, Sound
<1>2. /\ r.strip = s.strip /\ r.window = s.window /\ r.views = s.views /\ r.history = s.history
      /\ r.failed = s.failed /\ r \in StateSet /\ r.drag.state = "DraggingWindow"
      /\ r.drag.alive = s.drag.alive
      /\ r.drag.owner = s.drag.owner /\ r.drag.source = s.drag.source
      /\ r.drag.attached = s.drag.attached /\ r.drag.data = s.drag.data
      /\ r.drag.target = s.drag.target /\ r.drag.tracked = s.drag.tracked
  BY DEF Windowed
<1>4. Dragged(r) = Dragged(s) /\ TabsOf(r) = TabsOf(s)
  BY <1>2 DEF Dragged, TabsOf
<1>5. Settled(r)
  BY <1>1, <1>2 DEF Settled
<1>6. Owned(r)
  BY <1>1, <1>2, <1>4 DEF Owned
<1>7. Seen(r)
  BY <1>1, <1>2, <1>4 DEF Seen, Unfailing
<1>8. Undone(r)
  BY <1>1, <1>2, <1>4 DEF Undone
<1>9. Restored(r) /\ Laid(r.strip) /\ Laid(r.history.before) /\ Whole(r)
  BY <1>1, <1>2, <1>4 DEF Restored, Whole
<1> QED
  BY <1>2, <1>4, <1>5, <1>6, <1>7, <1>8, <1>9 DEF Body, Sound

\* r is s with the drag begun.
Begun(s, r) ==
    /\ r \in StateSet
    /\ r.strip = s.strip /\ r.window = s.window /\ r.history = s.history
    /\ r.views = [dragged |-> s.views.dragged \cup Dragged(s),
                  animating |-> s.views.animating \ Dragged(s)]
    /\ r.drag.state = "DraggingTabs" /\ r.drag.alive = s.drag.alive
    /\ r.drag.owner = s.drag.owner /\ r.drag.source = s.drag.source
    /\ r.drag.attached = s.drag.owner /\ r.drag.data = s.drag.data
    /\ r.drag.target = s.drag.target /\ r.drag.tracked = s.drag.owner
    /\ Noted(s.views.dragged, s.failed, r.failed)

LEMMA BegunFine ==
    ASSUME NEW s, Body(s), s.drag.alive, s.drag.state = "NotStarted", NEW r, Begun(s, r)
    PROVE  Body(r) /\ Dragged(r) = Dragged(s) /\ s.drag.target = Null
<1>1. /\ s \in StateSet /\ Laid(s.strip) /\ Laid(s.history.before)
      /\ Settled(s) /\ Owned(s) /\ Seen(s) /\ Undone(s) /\ Restored(s)
  BY DEF Body, Sound
<1>2. /\ r.strip = s.strip /\ r.window = s.window /\ r.history = s.history
      /\ r \in StateSet /\ r.drag.state = "DraggingTabs"
      /\ r.drag.alive = s.drag.alive
      /\ r.drag.owner = s.drag.owner /\ r.drag.source = s.drag.source
      /\ r.drag.attached = s.drag.owner /\ r.drag.data = s.drag.data
      /\ r.drag.target = s.drag.target /\ r.drag.tracked = s.drag.owner
      /\ r.views.dragged = s.views.dragged \cup Dragged(s)
      /\ r.views.animating = s.views.animating \ Dragged(s)
      /\ Noted(s.views.dragged, s.failed, r.failed)
  BY DEF Begun
<1>3. s.drag.target = Null
  BY <1>1 DEF Owned
<1>4. Dragged(r) = Dragged(s) /\ TabsOf(r) = TabsOf(s)
  BY <1>2 DEF Dragged, TabsOf
<1>5. Settled(r)
  BY <1>1, <1>2 DEF Settled
<1>6. Owned(r)
  BY <1>1, <1>2, <1>3, <1>4, StripsAssumption DEF Owned
<1>7. Seen(r)
  <2>1. Unfailing(r)
    <3>1. Unfailing(s) /\ (~s.history.quick => s.views.dragged = {})
      BY <1>1 DEF Seen
    <3>2. r.history = s.history /\ Noted(s.views.dragged, s.failed, r.failed)
      BY <1>2
    <3> QED
      BY ONLY <3>1, <3>2 DEF Noted, Unfailing
  <2> QED
    BY <1>1, <1>2, <1>4, <2>1 DEF Seen
<1>8. Undone(r)
  BY <1>1, <1>2, <1>4 DEF Undone
<1>9. Restored(r) /\ Laid(r.strip) /\ Laid(r.history.before) /\ Whole(r)
  BY <1>1, <1>2, <1>4 DEF Restored, Whole
<1> QED
  BY <1>2, <1>3, <1>4, <1>5, <1>6, <1>7, <1>8, <1>9 DEF Body, Sound

--------------------------------------------------------------------------------
\* r is s with the dragged tabs moved within their strip.
Moved(s, r, q) ==
    /\ r \in StateSet /\ r.strip = [s.strip EXCEPT ![s.drag.attached] = q]
    /\ r.window = s.window /\ r.views = s.views /\ r.drag = s.drag /\ r.capture = s.capture
    /\ r.button = s.button /\ r.stack = s.stack /\ r.history = s.history /\ r.failed = s.failed

LEMMA MoveIs ==
    ASSUME NEW s, Body(s), s.drag.alive, s.drag.state = "DraggingTabs", NEW p \in Nat
    PROVE  \E at \in 0..Len(Rest(s)) :
               Moved(s, MoveAttached(s, p), InsertBlock(Rest(s), at, Only(s.strip[s.drag.attached], Dragged(s))))
<1> DEFINE w == s.drag.attached
           D == Dragged(s)
           at == IF p > Len(Rest(s)) THEN Len(Rest(s)) ELSE p
           mid == Only(s.strip[w], D)
           q == InsertBlock(Rest(s), at, mid)
<1>1. s \in StateSet /\ Laid(s.strip) /\ Owned(s)
  BY DEF Body, Sound
<1>2. w \in Browsers /\ w # Null /\ D \subseteq ToSet(s.strip[w])
  BY <1>1, StripsAssumption, StateIs, DragIs DEF Owned, B0
<1>3. Distinct(s.strip[w])
  BY <1>1, <1>2, LaidIs
<1>4. /\ Distinct(Rest(s)) /\ ToSet(Rest(s)) = ToSet(s.strip[w]) \ D
  BY <1>3, WithoutKeeps DEF Rest
<1>5. Distinct(mid) /\ ToSet(mid) = ToSet(s.strip[w]) \cap D
  BY <1>3, OnlyKeeps
<1>6. at \in 0..Len(Rest(s))
  BY <1>4, DistinctIs
<1> HIDE DEF at, mid, D, w
<1>7. q \in Seq(Tabs)
  <2>1. ToSet(Rest(s)) \cap ToSet(mid) = {}
    BY <1>4, <1>5
  <2> QED
    BY <2>1, <1>4, <1>5, <1>6, InsertIs DEF Distinct
<1>8. Check(s, w # Null /\ s.drag.state = "DraggingTabs", "MoveAttached()") = s
  BY <1>2 DEF Check
<1> DEFINE F(m) == [m EXCEPT !.strip[w] = q]
<1>9. MoveAttached(s, p) = F(Check(s, w # Null /\ s.drag.state = "DraggingTabs", "MoveAttached()"))
  BY DEF MoveAttached, at, w, mid, D, Rest
<1>10. MoveAttached(s, p) = F(s)
  <2> HIDE DEF F
  <2> QED
    BY <1>8, <1>9
<1> HIDE DEF q
<1>11. Moved(s, F(s), q)
  <2>1. F(s) = [s EXCEPT !.strip = [s.strip EXCEPT ![w] = q]]
    OBVIOUS
  <2>2. [s.strip EXCEPT ![w] = q] \in [Browsers -> Seq(Tabs)]
    BY <1>1, <1>7, StateIs
  <2> HIDE DEF F
  <2> QED
    BY <1>1, <2>1, <2>2 DEF Moved, StateSet, w
<1>12. Moved(s, MoveAttached(s, p), InsertBlock(Rest(s), at, mid))
  BY <1>10, <1>11 DEF q
<1> QED
  BY <1>6, <1>12 DEF mid, w, D

LEMMA MoveFine ==
    ASSUME NEW s, Body(s), s.drag.alive, s.drag.state = "DraggingTabs", NEW at \in 0..Len(Rest(s)),
           NEW r, Moved(s, r, InsertBlock(Rest(s), at, Only(s.strip[s.drag.attached], Dragged(s))))
    PROVE  /\ Body(r) /\ Dragged(r) = Dragged(s)
           /\ ToSet(r.strip[s.drag.owner]) = ToSet(s.strip[s.drag.owner])
<1> DEFINE w == s.drag.attached
           D == Dragged(s)
           mid == Only(s.strip[w], D)
           q == InsertBlock(Rest(s), at, mid)
           old == s.history.before
           ts == TabsOf(s)
           u == s.drag.source
<1>1. /\ s \in StateSet /\ Laid(s.strip) /\ Laid(s.history.before)
      /\ Settled(s) /\ Owned(s) /\ Seen(s) /\ Undone(s) /\ Restored(s) /\ Whole(s)
  BY DEF Body, Sound
<1>2. /\ w \in Browsers /\ D \subseteq ToSet(s.strip[w]) /\ s.drag.owner = w /\ Distinct(ts)
      /\ s.history.ended = "none"
  BY <1>1, StateIs, DragIs DEF Owned, B0
<1>3. Distinct(s.strip[w])
  BY <1>1, <1>2, LaidIs
<1>4. /\ Distinct(Rest(s)) /\ ToSet(Rest(s)) = ToSet(s.strip[w]) \ D
      /\ \A y, z : Before(Rest(s), y, z) <=> Before(s.strip[w], y, z) /\ y \notin D /\ z \notin D
  BY <1>3, WithoutKeeps DEF Rest
<1>5. /\ Distinct(mid) /\ ToSet(mid) = D
      /\ \A y, z : Before(mid, y, z) <=> Before(s.strip[w], y, z) /\ y \in D /\ z \in D
  <2>1. /\ Distinct(mid) /\ ToSet(mid) = ToSet(s.strip[w]) \cap D
        /\ \A y, z : Before(mid, y, z) <=> Before(s.strip[w], y, z) /\ y \in D /\ z \in D
    BY <1>3, OnlyKeeps
  <2> HIDE DEF mid, D, w
  <2> QED
    BY <2>1, <1>2
<1> HIDE DEF mid
<1>6. /\ Distinct(q) /\ ToSet(q) = ToSet(s.strip[w]) /\ Block(q, mid)
      /\ \A y, z : y \notin D /\ z \notin D => (Before(q, y, z) <=> Before(s.strip[w], y, z))
  <2>1. ToSet(Rest(s)) \cap ToSet(mid) = {}
    BY <1>4, <1>5
  <2>2. /\ Distinct(q) /\ ToSet(q) = ToSet(Rest(s)) \cup ToSet(mid) /\ Block(q, mid)
        /\ \A y, z : y \notin ToSet(mid) /\ z \notin ToSet(mid) => (Before(q, y, z) <=> Before(Rest(s), y, z))
    BY <1>4, <1>5, <2>1, InsertKeeps
  <2> HIDE DEF q, D, w
  <2>3. ToSet(q) = ToSet(s.strip[w])
    BY <1>2, <1>4, <1>5, <2>2
  <2> QED
    BY <1>4, <1>5, <2>2, <2>3
<1> HIDE DEF q
<1>7. /\ r \in StateSet /\ r.strip = [s.strip EXCEPT ![w] = q]
      /\ r.window = s.window /\ r.views = s.views /\ r.drag = s.drag
      /\ r.history = s.history /\ r.failed = s.failed
  BY DEF Moved, w, q, mid, D
<1> HIDE DEF w
<1>8. /\ r.strip[w] = q /\ \A x \in Browsers \ {w} : r.strip[x] = s.strip[x]
      /\ \A x \in Browsers : ToSet(r.strip[x]) = ToSet(s.strip[x]) /\ Distinct(r.strip[x])
  <2>1. r.strip[w] = q /\ \A x \in Browsers \ {w} : r.strip[x] = s.strip[x]
    BY <1>1, <1>2, <1>7, StateIs
  <2> QED
    BY <2>1, <1>1, <1>6, LaidIs
<1>9. Laid(r.strip)
  BY <1>1, <1>8 DEF Laid
<1>10. \A x \in Browsers : r.strip[x] = <<>> <=> s.strip[x] = <<>>
  <2>1. \A x \in Browsers : r.strip[x] = <<>> <=> ToSet(r.strip[x]) = {}
    BY <1>9, LaidIs
  <2>2. \A x \in Browsers : s.strip[x] = <<>> <=> ToSet(s.strip[x]) = {}
    BY <1>1, LaidIs
  <2> QED
    BY ONLY <2>1, <2>2, <1>8
<1>11. Dragged(r) = D /\ TabsOf(r) = ts
  BY <1>7 DEF Dragged, TabsOf
<1>12. Settled(r)
  BY <1>1, <1>7, <1>10 DEF Settled
<1>13. Owned(r)
  <2>1. s.drag.source # Null => s.drag.source \in Browsers
    BY <1>1, StateIs, DragIs DEF B0
  <2> QED
    BY <1>1, <1>2, <1>7, <1>8, <1>10, <1>11, <2>1 DEF Owned, D
<1>14. Seen(r) /\ Whole(r)
  BY <1>1, <1>2, <1>7, <1>8, <1>11 DEF Seen, Unfailing, Whole, D
<1>15. Undone(r)
  <2>1. SUFFICES ASSUME ~r.history.disturbed, r.drag.source # Null
                 PROVE  Undone(r)
    BY DEF Undone
  <2>2. /\ Known(s.drag.data, old, u)
        /\ \A x \in Browsers : Like(s.strip[x], old[x],
                (ToSet(old[x]) \ D) \cup (IF x = w THEN D ELSE {}), D)
        /\ (w = u /\ s.strip[u] = old[u]) \/ Block(s.strip[w], ts)
    BY <1>1, <1>2, <1>7, <2>1 DEF Undone
  <2>3. ASSUME NEW x \in Browsers
        PROVE  Like(r.strip[x], old[x], (ToSet(old[x]) \ D) \cup (IF x = w THEN D ELSE {}), D)
    BY <2>2, <1>6, <1>8 DEF Like
  <2>4. s.drag \in DragSet
    BY <1>1, StateIs
  <2>5. ToSet(ts) = D
    BY <2>4, TabsOfIs
  <2>6. \A x, y : Before(ts, x, y) => Before(s.strip[w], x, y)
    <3>1. CASE w = u /\ s.strip[u] = old[u]
      <4>1. SUFFICES ASSUME NEW x, NEW y, Before(ts, x, y) PROVE Before(old[u], x, y)
        BY <3>1
      <4>2. PICK i, j \in 1..Len(ts) : i < j /\ ts[i] = x /\ ts[j] = y
        BY <1>2, <4>1, DistinctIs
      <4>3. Len(ts) = Len(s.drag.data) /\ ts[i] = s.drag.data[i].tab /\ ts[j] = s.drag.data[j].tab
        BY <2>4, <4>2, TabsOfIs
      <4>4. /\ s.drag.data[i].index \in 1..Len(old[u]) /\ old[u][s.drag.data[i].index] = x
            /\ s.drag.data[j].index \in 1..Len(old[u]) /\ old[u][s.drag.data[j].index] = y
            /\ s.drag.data[i].index < s.drag.data[j].index
        BY <2>2, <4>2, <4>3 DEF Known
      <4>5. Distinct(old[u])
        BY <1>1, <1>2, <3>1, LaidIs
      <4>6. DOMAIN old[u] = 1..Len(old[u])
        BY <4>5, DistinctIs
      <4> QED
        BY <4>4, <4>6 DEF Before
    <3>2. CASE Block(s.strip[w], ts)
      <4>1. PICK c, p : /\ Distinct(c) /\ p \in 0..Len(c) /\ ToSet(c) \cap ToSet(ts) = {}
                        /\ s.strip[w] = InsertBlock(c, p, ts)
        BY <3>2 DEF Block
      <4>2. \A x, y \in ToSet(ts) : Before(s.strip[w], x, y) <=> Before(ts, x, y)
        BY <1>2, <4>1, InsertIs
      <4>3. \A x, y : Before(ts, x, y) => x \in ToSet(ts) /\ y \in ToSet(ts)
        BY <1>2, BeforeIn
      <4> QED
        BY <4>2, <4>3
    <3> QED
      BY <2>2, <3>1, <3>2
  <2>7. \A x, y : Before(ts, x, y) => Before(mid, x, y)
    BY <2>5, <2>6, <1>2, <1>5, BeforeIn
  <2>8. ts = mid
    BY <2>5, <2>7, <1>2, <1>5, SameOrder
  <2>9. Block(r.strip[w], ts)
    BY <2>8, <1>6, <1>8
  <2> QED
    BY <2>2, <2>3, <2>9, <1>2, <1>7, <1>11 DEF Undone
<1>16. Restored(r)
  BY <1>2, <1>7 DEF Restored
<1> QED
  BY <1>1, <1>2, <1>7, <1>8, <1>9, <1>11, <1>12, <1>13, <1>14, <1>15, <1>16 DEF Body, Sound

--------------------------------------------------------------------------------
\* Putting tabs back where they were.
InOrder(q, o) == \A x, y : Before(q, x, y) => Before(o, x, y)

LEMMA BeforeIs ==
    ASSUME NEW q, Distinct(q), NEW i \in 1..Len(q), NEW j \in 1..Len(q)
    PROVE  Before(q, q[i], q[j]) <=> i < j
<1>1. DOMAIN q = 1..Len(q) /\ \A k, l \in 1..Len(q) : q[k] = q[l] => k = l
  BY DistinctIs
<1> QED
  BY <1>1 DEF Before

\* What has the first tabs of o, and its tabs in the order of o, begins like o.
LEMMA SamePrefix ==
    ASSUME NEW c, Distinct(c), NEW o, Distinct(o), ToSet(c) \subseteq ToSet(o), InOrder(c, o),
           NEW m \in 0..Len(o), \A i \in 1..m : o[i] \in ToSet(c)
    PROVE  m <= Len(c) /\ \A i \in 1..m : c[i] = o[i]
<1>1. /\ Len(c) \in Nat /\ \A i \in 1..Len(c) : c[i] \in ToSet(c)
      /\ \A x \in ToSet(c) : \E i \in 1..Len(c) : c[i] = x
      /\ \A i, j \in 1..Len(c) : c[i] = c[j] => i = j
  BY DistinctIs
<1>2. /\ Len(o) \in Nat /\ \A x \in ToSet(o) : \E i \in 1..Len(o) : o[i] = x
      /\ \A i, j \in 1..Len(o) : o[i] = o[j] => i = j
  BY DistinctIs
<1>3. m \in Nat /\ m <= Len(o)
  BY <1>2
<1> DEFINE Bad == {i \in 1..m : ~(i <= Len(c) /\ c[i] = o[i])}
<1>4. Bad = {}
  <2> SUFFICES ASSUME Bad # {} PROVE FALSE
    OBVIOUS
  <2>1. PICK i \in Bad : \A j \in Bad : i <= j
    <3>1. Bad \in SUBSET Nat
      BY <1>3
    <3> HIDE DEF Bad
    <3> QED
      BY <3>1, LeastOf
  <2>2. i \in 1..m /\ i \in 1..Len(o) /\ ~(i <= Len(c) /\ c[i] = o[i])
    BY <1>2, <1>3, <2>1
  <2>3. \A j \in 1..m : j < i => j \in 1..Len(c) /\ c[j] = o[j]
    <3> SUFFICES ASSUME NEW j \in 1..m, j < i PROVE j \in 1..Len(c) /\ c[j] = o[j]
      OBVIOUS
    <3>1. j \notin Bad
      BY <1>3, <2>1, <2>2
    <3> QED
      BY <1>1, <1>3, <3>1
  <2> HIDE DEF Bad
  <2>4. PICK j \in 1..Len(c) : c[j] = o[i]
    BY <1>1, <2>2
  <2>5. ~(j < i)
    <3> SUFFICES ASSUME j < i PROVE FALSE
      OBVIOUS
    <3>1. j \in 1..m /\ j \in 1..Len(o)
      BY <1>1, <1>2, <1>3, <2>2
    <3>2. c[j] = o[j]
      BY <2>3, <3>1
    <3>3. o[i] = o[j]
      BY <2>4, <3>2
    <3>4. i = j
      BY ONLY <1>2, <2>2, <3>1, <3>3
    <3> QED
      BY <1>3, <2>2, <3>4
  <2>6. i < j /\ i \in 1..Len(c)
    BY <1>1, <1>3, <2>2, <2>4, <2>5
  <2>7. Before(c, c[i], o[i])
    BY <2>4, <2>6, BeforeIs
  <2>8. Before(o, c[i], o[i])
    BY <2>7 DEF InOrder
  <2>9. PICK l \in 1..Len(o) : o[l] = c[i]
    BY <1>1, <1>2, <2>6
  <2>10. l < i
    BY <2>2, <2>8, <2>9, BeforeIs
  <2>11. l \in 1..m
    BY <1>2, <1>3, <2>2, <2>10
  <2>12. l \in 1..Len(c) /\ c[l] = c[i]
    BY <2>3, <2>9, <2>10, <2>11
  <2> QED
    BY <1>1, <2>6, <2>10, <2>12
<1>5. \A i \in 1..m : i <= Len(c) /\ c[i] = o[i]
  BY <1>4
<1>6. m <= Len(c)
  <2>1. CASE m = 0
    BY <1>1, <2>1
  <2>2. CASE m # 0
    BY <1>3, <1>5, <2>2
  <2> QED
    BY <2>1, <2>2
<1> QED
  BY <1>5, <1>6

\* A tab put back at its index is where it was among the tabs that are there.
Putting(c, o, k, t, p, b, d) ==
    /\ Distinct(c) /\ Distinct(o) /\ ToSet(c) \subseteq ToSet(o) /\ InOrder(c, o)
    /\ k \in 1..Len(o) /\ \A i \in 1..(k - 1) : o[i] \in ToSet(c)
    /\ t = o[k] /\ t \notin ToSet(c) /\ p = k - 1 /\ b = <<t>> /\ d = InsertBlock(c, p, b)

LEMMA PutInOrder ==
    ASSUME NEW c, NEW o, NEW k, NEW t, NEW p, NEW b, NEW d, Putting(c, o, k, t, p, b, d)
    PROVE  p \in 0..Len(c) /\ Distinct(d) /\ InOrder(d, o) /\ ToSet(d) = ToSet(c) \cup {t}
<1>0. /\ Distinct(c) /\ Distinct(o) /\ ToSet(c) \subseteq ToSet(o) /\ InOrder(c, o)
      /\ k \in 1..Len(o) /\ \A i \in 1..(k - 1) : o[i] \in ToSet(c)
      /\ t = o[k] /\ t \notin ToSet(c) /\ p = k - 1 /\ b = <<t>> /\ d = InsertBlock(c, p, b)
  BY DEF Putting
<1> USE <1>0
<1>1. Len(o) \in Nat /\ k - 1 \in 0..Len(o) /\ t \in Tabs /\ \A x \in ToSet(o) : \E i \in 1..Len(o) : o[i] = x
  BY DistinctIs
<1>2. /\ k - 1 <= Len(c) /\ \A i \in 1..(k - 1) : c[i] = o[i]
  BY <1>1, SamePrefix
<1>3. /\ Len(c) \in Nat /\ \A x : x \in ToSet(c) <=> \E i \in 1..Len(c) : c[i] = x
      /\ \A i, j \in 1..Len(c) : c[i] = c[j] => i = j
  BY DistinctIs
<1>4. p \in 0..Len(c)
  BY <1>1, <1>2, <1>3
<1>5. Distinct(b) /\ ToSet(b) = {t} /\ Len(b) = 1 /\ DOMAIN b = 1..1
  <2>1. b \in Seq(Tabs) /\ Len(b) = 1 /\ b[1] = t /\ DOMAIN b = 1..1
    BY <1>1
  <2>2. \A x : x \in ToSet(b) <=> \E i \in 1..1 : b[i] = x
    <3>1. \A x : x \in ToSet(b) <=> \E i \in 1..Len(b) : b[i] = x
      <4>1. b \in Seq(Tabs)
        BY <2>1
      <4> QED
        BY ONLY <4>1, SeqIs
    <3> QED
      BY <2>1, <3>1
  <2>3. ToSet(b) = {t}
    BY <2>1, <2>2
  <2>4. IsInjective(b)
    BY <2>1 DEF IsInjective
  <2> QED
    BY <2>1, <2>3, <2>4 DEF Distinct
<1>6. /\ Distinct(d) /\ ToSet(d) = ToSet(c) \cup ToSet(b)
      /\ \A x, y \in ToSet(c) : Before(d, x, y) <=> Before(c, x, y)
      /\ \A x, y \in ToSet(b) : Before(d, x, y) <=> Before(b, x, y)
      /\ \A i \in 1..Len(c), y \in ToSet(b) : /\ Before(d, c[i], y) <=> i <= p
                                              /\ Before(d, y, c[i]) <=> i > p
  <2>1. /\ ToSet(c) \cap ToSet(b) = {} /\ Distinct(c) /\ Distinct(b)
        /\ p \in 0..Len(c) /\ d = InsertBlock(c, p, b)
    BY <1>4, <1>5
  <2> QED
    BY ONLY <2>1, InsertIs
<1>7. ASSUME NEW x, NEW y, Before(d, x, y) PROVE Before(o, x, y)
  <2>1. x \in ToSet(d) /\ y \in ToSet(d)
    BY <1>6, <1>7, BeforeIn
  <2>6. t \in ToSet(b) /\ \A z \in ToSet(b) : z = t
    BY <1>5
  <2>2. CASE x \in ToSet(c) /\ y \in ToSet(c)
    BY <1>6, <1>7, <2>2 DEF InOrder
  <2>3. CASE x = t /\ y = t
    <3>1. Before(b, t, t)
      BY <1>6, <1>7, <2>3, <2>6
    <3> QED
      BY <1>5, <3>1 DEF Before
  <2>4. CASE x \in ToSet(c) /\ y = t
    <3>1. PICK i \in 1..Len(c) : c[i] = x
      BY <1>3, <2>4
    <3>2. i <= k - 1
      BY <1>6, <1>7, <2>4, <2>6, <3>1
    <3>3. i \in 1..(k - 1) /\ i \in 1..Len(o) /\ i < k
      BY <1>1, <1>3, <3>1, <3>2
    <3>4. o[i] = x
      BY <1>2, <3>1, <3>3
    <3>5. Before(o, o[i], o[k])
      BY <3>3, BeforeIs
    <3> QED
      BY <2>4, <3>4, <3>5
  <2>5. CASE x = t /\ y \in ToSet(c)
    <3>1. PICK i \in 1..Len(c) : c[i] = y
      BY <1>3, <2>5
    <3>2. i > k - 1
      BY <1>6, <1>7, <2>5, <2>6, <3>1
    <3>3. PICK l \in 1..Len(o) : o[l] = y
      BY <1>1, <2>5
    <3>4. l # k
      BY <2>5, <3>3
    <3>5. ~(l < k)
      <4> SUFFICES ASSUME l < k PROVE FALSE
        OBVIOUS
      <4>1. l \in 1..(k - 1) /\ l \in 1..Len(c)
        BY <1>1, <1>2, <1>3, <3>3
      <4>2. c[l] = c[i]
        BY <1>2, <3>1, <3>3, <4>1
      <4> QED
        BY <1>1, <1>3, <3>1, <3>2, <4>1, <4>2
    <3>6. k < l
      BY <1>1, <3>3, <3>4, <3>5
    <3>7. Before(o, o[k], o[l])
      BY <3>3, <3>6, BeforeIs
    <3> QED
      BY <2>5, <3>3, <3>7
  <2> QED
    BY <1>6, <2>1, <2>2, <2>3, <2>4, <2>5, <2>6
<1> QED
  BY <1>4, <1>5, <1>6, <1>7 DEF InOrder

\* A tab taken out of the block that it begins.
LEMMA TakeOut ==
    ASSUME NEW c, Distinct(c), NEW p \in 0..Len(c), NEW b, Distinct(b), NEW r, Distinct(r), NEW t,
           ToSet(c) \cap ToSet(b) = {}, t \in ToSet(b), ToSet(r) = ToSet(b) \ {t},
           \A x, y : Before(b, x, y) /\ x # t /\ y # t => Before(r, x, y)
    PROVE  Without(InsertBlock(c, p, b), {t}) = InsertBlock(c, p, r)
<1> DEFINE q == InsertBlock(c, p, b)
           l == Without(q, {t})
           d == InsertBlock(c, p, r)
<1>1. /\ \A x \in ToSet(c) : \E i \in 1..Len(c) : c[i] = x
      /\ \A i \in 1..Len(c) : c[i] \in ToSet(c)
  BY DistinctIs
<1>2. /\ Distinct(q) /\ ToSet(q) = ToSet(c) \cup ToSet(b)
      /\ \A x, y \in ToSet(c) : Before(q, x, y) <=> Before(c, x, y)
      /\ \A x, y \in ToSet(b) : Before(q, x, y) <=> Before(b, x, y)
      /\ \A i \in 1..Len(c), y \in ToSet(b) : /\ Before(q, c[i], y) <=> i <= p
                                              /\ Before(q, y, c[i]) <=> i > p
  BY InsertIs
<1>3. ToSet(c) \cap ToSet(r) = {}
  OBVIOUS
<1>4. /\ Distinct(d) /\ ToSet(d) = ToSet(c) \cup ToSet(r)
      /\ \A x, y \in ToSet(c) : Before(d, x, y) <=> Before(c, x, y)
      /\ \A x, y \in ToSet(r) : Before(d, x, y) <=> Before(r, x, y)
      /\ \A i \in 1..Len(c), y \in ToSet(r) : /\ Before(d, c[i], y) <=> i <= p
                                              /\ Before(d, y, c[i]) <=> i > p
  BY <1>3, InsertIs
<1> HIDE DEF q, d
<1>5. /\ Distinct(l) /\ ToSet(l) = ToSet(q) \ {t}
      /\ \A x, y : Before(l, x, y) <=> Before(q, x, y) /\ x \notin {t} /\ y \notin {t}
  BY <1>2, WithoutKeeps
<1> HIDE DEF l
<1>6. ToSet(l) = ToSet(d)
  BY <1>2, <1>4, <1>5
<1>7. ASSUME NEW x, NEW y, Before(l, x, y) PROVE Before(d, x, y)
  <2>1. Before(q, x, y) /\ x # t /\ y # t
    BY <1>5, <1>7
  <2>2. x \in ToSet(q) /\ y \in ToSet(q)
    BY <1>2, <2>1, BeforeIn
  <2>3. CASE x \in ToSet(c) /\ y \in ToSet(c)
    BY <1>2, <1>4, <2>1, <2>3
  <2>4. CASE x \in ToSet(b) /\ y \in ToSet(b)
    <3>1. Before(b, x, y)
      BY <1>2, <2>1, <2>4
    <3>2. Before(r, x, y) /\ x \in ToSet(r) /\ y \in ToSet(r)
      BY <2>1, <2>4, <3>1
    <3> QED
      BY <1>4, <3>2
  <2>5. CASE x \in ToSet(c) /\ y \in ToSet(b)
    <3>1. PICK i \in 1..Len(c) : c[i] = x
      BY <1>1, <2>5
    <3>2. y \in ToSet(r) /\ Before(q, c[i], y)
      BY <2>1, <2>5, <3>1
    <3> QED
      BY <1>2, <1>4, <2>5, <3>1, <3>2
  <2>6. CASE x \in ToSet(b) /\ y \in ToSet(c)
    <3>1. PICK i \in 1..Len(c) : c[i] = y
      BY <1>1, <2>6
    <3>2. x \in ToSet(r) /\ Before(q, x, c[i])
      BY <2>1, <2>6, <3>1
    <3> QED
      BY <1>2, <1>4, <2>6, <3>1, <3>2
  <2> QED
    BY <1>2, <2>2, <2>3, <2>4, <2>5, <2>6
<1>8. l = d
  BY <1>4, <1>5, <1>6, <1>7, SameOrder
<1> QED
  BY <1>8 DEF l, d, q

\* A tab put into a strip beside the block r, at the place k among the others.
Beside(c, p, r, t, k, b, e, q, i) ==
    /\ c \in Seq(Tabs) /\ p \in 0..Len(c) /\ r \in Seq(Tabs) /\ t \in Tabs
    /\ k \in 1..(Len(c) + 1) /\ b = <<t>> /\ e = InsertBlock(c, k - 1, b)
    /\ q = InsertBlock(c, p, r) /\ i = (IF k > p + 1 THEN k + Len(r) ELSE k)

LEMMA PutBeside ==
    ASSUME NEW c, NEW p, NEW r, NEW t, NEW k, NEW b, NEW e, NEW q, NEW i,
           Beside(c, p, r, t, k, b, e, q, i)
    PROVE  \E h \in 0..Len(e) : InsertTab(q, i, t) = InsertBlock(e, h, r)
<1>0. /\ c \in Seq(Tabs) /\ p \in 0..Len(c) /\ r \in Seq(Tabs) /\ t \in Tabs
      /\ k \in 1..(Len(c) + 1) /\ b = <<t>> /\ e = InsertBlock(c, k - 1, b)
      /\ q = InsertBlock(c, p, r) /\ i = (IF k > p + 1 THEN k + Len(r) ELSE k)
  BY DEF Beside
<1> USE <1>0
<1> DEFINE h == IF k > p + 1 THEN p ELSE p + 1
           n == Len(c)
           m == Len(r)
           l == InsertBlock(q, i - 1, b)
           d == InsertBlock(e, h, r)
<1>1. n \in Nat /\ m \in Nat /\ b \in Seq(Tabs) /\ Len(b) = 1 /\ b[1] = t
  BY SeqIs
<1>2. p \in Nat /\ p <= n /\ k \in Nat /\ 1 <= k /\ k <= n + 1 /\ k - 1 \in 0..n
  BY <1>1
<1>3. /\ q \in Seq(Tabs) /\ Len(q) = n + m
      /\ \A j \in 1..(n + m) : q[j] = IF j <= p THEN c[j] ELSE IF j <= p + m THEN r[j - p] ELSE c[j - m]
  BY InsertedAt
<1>4. /\ e \in Seq(Tabs) /\ Len(e) = n + 1
      /\ \A j \in 1..(n + 1) : e[j] = IF j <= k - 1 THEN c[j]
                                      ELSE IF j <= k THEN b[j - (k - 1)] ELSE c[j - 1]
  <2> DEFINE o == k - 1
  <2>1. o \in 0..Len(c) /\ e = InsertBlock(c, o, b)
    BY <1>2
  <2>2. o + 1 = k
    BY <1>2
  <2> HIDE DEF o
  <2>3. /\ e \in Seq(Tabs) /\ Len(e) = Len(c) + Len(b)
        /\ \A j \in 1..(Len(c) + Len(b)) : e[j] = IF j <= o THEN c[j]
                                      ELSE IF j <= o + Len(b) THEN b[j - o] ELSE c[j - Len(b)]
    <3>1. c \in Seq(Tabs) /\ b \in Seq(Tabs) /\ o \in 0..Len(c)
      BY <1>1, <2>1
    <3> QED
      BY ONLY <2>1, <3>1, InsertedAt
  <2> QED
    BY <1>1, <2>2, <2>3 DEF o
<1>5. i \in Nat /\ i - 1 \in 0..(n + m) /\ ~(i > (n + m) + 1)
  BY <1>1, <1>2
<1>6. /\ l \in Seq(Tabs) /\ Len(l) = n + m + 1
      /\ \A j \in 1..(n + m + 1) : l[j] = IF j <= i - 1 THEN q[j]
                                      ELSE IF j <= i THEN b[j - (i - 1)] ELSE q[j - 1]
  <2> DEFINE o == i - 1
  <2>1. o \in 0..Len(q) /\ l = InsertBlock(q, o, b)
    BY <1>3, <1>5
  <2>2. o + 1 = i
    BY <1>5
  <2> HIDE DEF o, l
  <2>3. /\ l \in Seq(Tabs) /\ Len(l) = Len(q) + Len(b)
        /\ \A j \in 1..(Len(q) + Len(b)) : l[j] = IF j <= o THEN q[j]
                                      ELSE IF j <= o + Len(b) THEN b[j - o] ELSE q[j - Len(b)]
    <3>1. q \in Seq(Tabs) /\ b \in Seq(Tabs) /\ o \in 0..Len(q)
      BY <1>1, <1>3, <2>1
    <3> QED
      BY ONLY <2>1, <3>1, InsertedAt
  <2> QED
    BY <1>1, <1>3, <2>2, <2>3 DEF o
<1>7. h \in 0..Len(e)
  BY <1>2, <1>4
<1>8. /\ d \in Seq(Tabs) /\ Len(d) = n + 1 + m
      /\ \A j \in 1..(n + 1 + m) : d[j] = IF j <= h THEN e[j] ELSE IF j <= h + m THEN r[j - h] ELSE e[j - m]
  <2> HIDE DEF h, d, n, m
  <2>1. e \in Seq(Tabs) /\ r \in Seq(Tabs) /\ h \in 0..Len(e) /\ d = InsertBlock(e, h, r)
    BY <1>4, <1>7 DEF d
  <2>2. /\ d \in Seq(Tabs) /\ Len(d) = Len(e) + Len(r)
        /\ \A j \in 1..(Len(e) + Len(r)) : d[j] = IF j <= h THEN e[j] ELSE IF j <= h + Len(r) THEN r[j - h]
                                                  ELSE e[j - Len(r)]
    BY ONLY <2>1, InsertedAt
  <2> QED
    BY <1>4, <2>2 DEF m
<1> HIDE DEF l, d, n, m, h
<1>9. InsertTab(q, i, t) = l
  BY <1>3, <1>5 DEF InsertTab, l, n, m
<1>10. ASSUME NEW j \in 1..(n + m + 1) PROVE l[j] = d[j]
  <2>1. /\ j \in Nat /\ j >= 1 /\ j <= n + m + 1
        /\ l[j] = IF j <= i - 1 THEN q[j] ELSE IF j <= i THEN b[j - (i - 1)] ELSE q[j - 1]
        /\ d[j] = IF j <= h THEN e[j] ELSE IF j <= h + m THEN r[j - h] ELSE e[j - m]
    <3>1. n + 1 + m = n + m + 1
      BY <1>1
    <3>2. d[j] = IF j <= h THEN e[j] ELSE IF j <= h + m THEN r[j - h] ELSE e[j - m]
      BY <1>8, <3>1
    <3>3. l[j] = IF j <= i - 1 THEN q[j] ELSE IF j <= i THEN b[j - (i - 1)] ELSE q[j - 1]
      BY <1>6
    <3>4. j \in Nat /\ j >= 1 /\ j <= n + m + 1
      BY <1>1
    <3> QED
      BY <3>2, <3>3, <3>4
  <2>2. j <= n + m => q[j] = IF j <= p THEN c[j] ELSE IF j <= p + m THEN r[j - p] ELSE c[j - m]
    <3>1. j <= n + m => j \in 1..(n + m)
      BY <1>1, <2>1
    <3> QED
      BY <1>3, <3>1
  <2>3. j - 1 >= 1 => q[j - 1] = IF j - 1 <= p THEN c[j - 1]
                                 ELSE IF j - 1 <= p + m THEN r[j - 1 - p] ELSE c[j - 1 - m]
    <3>1. j - 1 >= 1 => j - 1 \in 1..(n + m)
      BY <1>1, <2>1
    <3> QED
      BY <1>3, <3>1
  <2>4. j <= n + 1 => e[j] = IF j <= k - 1 THEN c[j] ELSE IF j <= k THEN b[j - (k - 1)] ELSE c[j - 1]
    BY <1>1, <1>4, <2>1
  <2>5. j - m >= 1 => e[j - m] = IF j - m <= k - 1 THEN c[j - m]
                                 ELSE IF j - m <= k THEN b[j - m - (k - 1)] ELSE c[j - m - 1]
    <3>1. j - m >= 1 => j - m \in 1..(n + 1)
      BY <1>1, <2>1
    <3> QED
      BY <1>4, <3>1
  <2>6. j - 1 - m = j - m - 1 /\ j - 1 - p = j - (p + 1)
    BY <1>1, <1>2, <2>1
  <2>7. CASE k > p + 1
    <3>1. i = k + m /\ h = p
      BY <2>7 DEF m, h
    <3>2. CASE j <= p
      <4>1. l[j] = q[j] /\ q[j] = c[j]
        <5>1. j <= i - 1 /\ j <= n + m
          BY <3>1, <3>2, <2>7, <1>1, <1>2, <2>1
        <5> QED
          BY <3>2, <2>1, <2>2, <5>1
      <4>2. d[j] = e[j] /\ e[j] = c[j]
        <5>1. j <= h /\ j <= n + 1 /\ j <= k - 1
          BY <3>1, <3>2, <2>7, <1>1, <1>2, <2>1
        <5> QED
          BY <2>1, <2>4, <5>1
      <4> QED
        BY <4>1, <4>2
    <3>3. CASE j > p /\ j <= p + m
      <4>3. j <= i - 1 /\ j <= n + m /\ ~(j <= p)
        BY <3>1, <3>3, <2>7, <1>1, <1>2
      <4>1. l[j] = q[j] /\ q[j] = r[j - p]
        BY <4>3, <3>3, <2>1, <2>2
      <4>2. d[j] = r[j - p]
        BY <3>1, <3>3, <1>1, <1>2, <2>1
      <4> QED
        BY <4>1, <4>2
    <3>4. CASE j > p + m /\ j <= k + m - 1
      <4>1. l[j] = q[j] /\ q[j] = c[j - m]
        BY <3>1, <3>4, <1>1, <1>2, <2>1, <2>2
      <4>2. d[j] = e[j - m] /\ e[j - m] = c[j - m]
        BY <3>1, <3>4, <1>1, <1>2, <2>1, <2>5
      <4> QED
        BY <4>1, <4>2
    <3>5. CASE j = k + m
      <4>1. l[j] = b[1]
        BY <3>1, <3>5, <1>1, <1>2, <2>1
      <4>2. d[j] = e[j - m] /\ e[j - m] = b[1]
        BY <3>1, <3>5, <2>7, <1>1, <1>2, <2>1, <2>5
      <4> QED
        BY <4>1, <4>2
    <3>6. CASE j > k + m
      <4>1. l[j] = q[j - 1] /\ q[j - 1] = c[j - 1 - m]
        BY <3>1, <3>6, <2>7, <1>1, <1>2, <2>1, <2>3
      <4>2. d[j] = e[j - m] /\ e[j - m] = c[j - m - 1]
        BY <3>1, <3>6, <2>7, <1>1, <1>2, <2>1, <2>5
      <4> QED
        BY <4>1, <4>2, <2>6
    <3>7. j \in Nat /\ m \in Nat
      BY <1>1, <2>1
    <3>8. j <= p \/ (j > p /\ j <= p + m) \/ (j > p + m /\ j <= k + m - 1) \/ j = k + m \/ j > k + m
      <4>1. \A a1, a2, a3, a4 \in Int : a1 <= a2 \/ (a1 > a2 /\ a1 <= a2 + a3)
                 \/ (a1 > a2 + a3 /\ a1 <= a4 + a3 - 1) \/ a1 = a4 + a3 \/ a1 > a4 + a3
        OBVIOUS
      <4> QED
        BY ONLY <4>1, <3>7, <1>2
    <3> QED
      BY ONLY <3>2, <3>3, <3>4, <3>5, <3>6, <3>8
  <2>8. CASE ~(k > p + 1)
    <3>1. i = k /\ h = p + 1
      BY <2>8 DEF m, h
    <3>2. CASE j <= k - 1
      <4>1. l[j] = q[j] /\ q[j] = c[j]
        BY <3>1, <3>2, <2>8, <1>1, <1>2, <2>1, <2>2
      <4>2. d[j] = e[j] /\ e[j] = c[j]
        BY <3>1, <3>2, <2>8, <1>1, <1>2, <2>1, <2>4
      <4> QED
        BY <4>1, <4>2
    <3>3. CASE j = k
      <4>1. l[j] = b[1]
        BY <3>1, <3>3, <1>1, <1>2, <2>1
      <4>2. d[j] = e[j] /\ e[j] = b[1]
        BY <3>1, <3>3, <2>8, <1>1, <1>2, <2>1, <2>4
      <4> QED
        BY <4>1, <4>2
    <3>4. CASE j > k /\ j <= p + 1
      <4>1. l[j] = q[j - 1] /\ q[j - 1] = c[j - 1]
        BY <3>1, <3>4, <2>8, <1>1, <1>2, <2>1, <2>3
      <4>2. d[j] = e[j] /\ e[j] = c[j - 1]
        BY <3>1, <3>4, <2>8, <1>1, <1>2, <2>1, <2>4
      <4> QED
        BY <4>1, <4>2
    <3>5. CASE j > p + 1 /\ j <= p + 1 + m
      <4>1. l[j] = q[j - 1] /\ q[j - 1] = r[j - 1 - p]
        BY <3>1, <3>5, <2>8, <1>1, <1>2, <2>1, <2>3
      <4>2. d[j] = r[j - (p + 1)]
        BY <3>1, <3>5, <2>8, <1>1, <1>2, <2>1
      <4> QED
        BY <4>1, <4>2, <2>6
    <3>6. CASE j > p + 1 + m
      <4>1. l[j] = q[j - 1] /\ q[j - 1] = c[j - 1 - m]
        BY <3>1, <3>6, <2>8, <1>1, <1>2, <2>1, <2>3
      <4>2. d[j] = e[j - m] /\ e[j - m] = c[j - m - 1]
        BY <3>1, <3>6, <2>8, <1>1, <1>2, <2>1, <2>5
      <4> QED
        BY <4>1, <4>2, <2>6
    <3>7. j \in Nat /\ m \in Nat
      BY <1>1, <2>1
    <3>8. j <= k - 1 \/ j = k \/ (j > k /\ j <= p + 1) \/ (j > p + 1 /\ j <= p + 1 + m) \/ j > p + 1 + m
      <4>1. \A a1, a2, a3, a4 \in Int : a1 <= a2 - 1 \/ a1 = a2 \/ (a1 > a2 /\ a1 <= a3 + 1)
                 \/ (a1 > a3 + 1 /\ a1 <= a3 + 1 + a4) \/ a1 > a3 + 1 + a4
        OBVIOUS
      <4> QED
        BY ONLY <4>1, <3>7, <1>2
    <3> QED
      BY ONLY <3>2, <3>3, <3>4, <3>5, <3>6, <3>8
  <2> QED
    BY <2>7, <2>8
<1>11. l = d
  <2>1. Len(l) = Len(d)
    BY <1>1, <1>6, <1>8
  <2>2. \A j \in 1..Len(l) : l[j] = d[j]
    BY <1>6, <1>10
  <2>3. l \in Seq(Tabs) /\ d \in Seq(Tabs)
    BY <1>6, <1>8
  <2> QED
    BY ONLY <2>1, <2>2, <2>3, SeqEqual
<1> QED
  BY <1>7, <1>9, <1>11 DEF d

LEMMA AsBefore ==
    ASSUME NEW o, Distinct(o), NEW k \in 1..Len(o), NEW t, t = o[k]
    PROVE  InsertTab(Without(o, {t}), k, t) = o
<1> DEFINE c == Without(o, {t})
           p == k - 1
           b == <<t>>
           d == InsertBlock(c, p, b)
<1>1. /\ Len(o) \in Nat /\ \A i \in 1..Len(o) : o[i] \in ToSet(o)
      /\ \A i, j \in 1..Len(o) : o[i] = o[j] => i = j
  BY DistinctIs
<1>2. /\ Distinct(c) /\ ToSet(c) = ToSet(o) \ {t} /\ InOrder(c, o)
  BY WithoutKeeps DEF InOrder
<1> HIDE DEF c
<1>3. \A i \in 1..(k - 1) : o[i] \in ToSet(c)
  BY <1>1, <1>2
<1>4. t \notin ToSet(c) /\ ToSet(c) \subseteq ToSet(o)
  BY <1>2
<1>5. p = k - 1 /\ b = <<t>> /\ d = InsertBlock(c, p, b)
  OBVIOUS
<1> HIDE DEF p, b, d
<1>6. p \in 0..Len(c) /\ Distinct(d) /\ InOrder(d, o) /\ ToSet(d) = ToSet(c) \cup {t}
  <2>1. Putting(c, o, k, t, p, b, d)
    BY <1>2, <1>3, <1>4, <1>5 DEF Putting
  <2> QED
    BY ONLY <2>1, PutInOrder
<1>7. ToSet(d) = ToSet(o)
  BY <1>1, <1>2, <1>6
<1>8. d = o
  BY <1>6, <1>7, SameOrder DEF InOrder
<1>9. ~(k > Len(c) + 1) /\ k \in Int
  BY <1>1, <1>2, <1>5, <1>6, DistinctIs
<1>10. InsertTab(c, k, t) = InsertBlock(c, k - 1, <<t>>)
  BY <1>9 DEF InsertTab
<1> QED
  BY <1>5, <1>8, <1>10 DEF c

\* What is left of ts behind its first n.
Later(ts, n) == SubSeq(ts, n + 1, Len(ts))

LEMMA LaterIs ==
    ASSUME NEW ts, Distinct(ts), NEW n \in 0..Len(ts)
    PROVE  /\ Distinct(Later(ts, n)) /\ Len(Later(ts, n)) = Len(ts) - n
           /\ \A i \in 1..(Len(ts) - n) : Later(ts, n)[i] = ts[n + i]
           /\ ToSet(Later(ts, n)) = {ts[i] : i \in (n + 1)..Len(ts)}
           /\ \A x, y : Before(Later(ts, n), x, y) <=>
                            \E i, j \in (n + 1)..Len(ts) : i < j /\ ts[i] = x /\ ts[j] = y
<1> DEFINE l == Later(ts, n)
           m == Len(ts)
<1>1. /\ ts \in Seq(Tabs) /\ m \in Nat /\ n \in Nat /\ n <= m /\ \A i \in 1..m : ts[i] \in Tabs
      /\ \A i, j \in 1..m : ts[i] = ts[j] => i = j
  <2>1. /\ ts \in Seq(Tabs) /\ m \in Nat /\ \A i \in 1..m : ts[i] \in Tabs
        /\ \A i, j \in 1..m : ts[i] = ts[j] => i = j
    BY DistinctIs
  <2> QED
    BY <2>1
<1>2. l \in Seq(Tabs) /\ Len(l) = m - n /\ \A i \in 1..(m - n) : l[i] = ts[n + i]
  <2>1. \A i \in (n + 1)..m : ts[i] \in Tabs
    BY <1>1
  <2> HIDE DEF m
  <2>2. l \in Seq(Tabs) /\ Len(l) = (IF n + 1 <= m THEN m - (n + 1) + 1 ELSE 0)
        /\ \A i \in 1..(m - (n + 1) + 1) : l[i] = ts[n + 1 + i - 1]
    <3>1. l = SubSeq(ts, n + 1, m)
      BY DEF Later, m
    <3> HIDE DEF l
    <3> QED
      BY <1>1, <2>1, <3>1, SubSeqProperties
  <2> HIDE DEF l
  <2>3. Len(l) = m - n
    BY <1>1, <2>2
  <2>4. ASSUME NEW i \in 1..(m - n) PROVE l[i] = ts[n + i]
    <3>1. i \in 1..(m - (n + 1) + 1) /\ n + 1 + i - 1 = n + i
      BY <1>1
    <3> QED
      BY <2>2, <3>1
  <2> QED
    BY <2>2, <2>3, <2>4
<1> HIDE DEF l, m
<1>3. /\ DOMAIN l = 1..(m - n) /\ \A x : x \in ToSet(l) <=> \E i \in 1..(m - n) : l[i] = x
  <2>1. DOMAIN l = 1..Len(l) /\ \A x : x \in ToSet(l) <=> \E i \in 1..Len(l) : l[i] = x
    BY ONLY <1>2, SeqIs
  <2> QED
    BY <1>2, <2>1
<1>4. \A i \in 1..(m - n) : n + i \in (n + 1)..m /\ n + i \in 1..m
  BY <1>1
<1>5. \A i \in (n + 1)..m : i \in 1..m /\ i - n \in 1..(m - n) /\ n + (i - n) = i
  BY <1>1
<1>6. \A i \in (n + 1)..m : l[i - n] = ts[i]
  BY <1>2, <1>5
<1>7. IsInjective(l)
  <2> SUFFICES ASSUME NEW i \in 1..(m - n), NEW j \in 1..(m - n), l[i] = l[j] PROVE i = j
    BY <1>3 DEF IsInjective
  <2>1. ts[n + i] = ts[n + j]
    BY <1>2
  <2>2. n + i = n + j
    BY <1>1, <1>4, <2>1
  <2> QED
    BY <1>1, <2>2
<1>8. ToSet(l) = {ts[i] : i \in (n + 1)..m}
  <2>1. ASSUME NEW x \in ToSet(l) PROVE x \in {ts[i] : i \in (n + 1)..m}
    BY <1>2, <1>3, <1>4
  <2>2. ASSUME NEW i \in (n + 1)..m PROVE ts[i] \in ToSet(l)
    BY <1>3, <1>5, <1>6
  <2> QED
    BY <2>1, <2>2
<1>9. ASSUME NEW x, NEW y
      PROVE  Before(l, x, y) <=> \E i, j \in (n + 1)..m : i < j /\ ts[i] = x /\ ts[j] = y
  <2>1. ASSUME Before(l, x, y) PROVE \E i, j \in (n + 1)..m : i < j /\ ts[i] = x /\ ts[j] = y
    <3>1. PICK i, j \in 1..(m - n) : i < j /\ l[i] = x /\ l[j] = y
      BY <1>3, <2>1 DEF Before
    <3>2. n + i < n + j /\ ts[n + i] = x /\ ts[n + j] = y
      BY <1>1, <1>2, <3>1
    <3> QED
      BY <1>4, <3>2
  <2>2. ASSUME NEW i \in (n + 1)..m, NEW j \in (n + 1)..m, i < j, ts[i] = x, ts[j] = y
        PROVE  Before(l, x, y)
    <3>1. i - n < j - n
      BY <1>1, <2>2
    <3> QED
      BY <1>3, <1>5, <1>6, <2>2, <3>1 DEF Before
  <2> QED
    BY <2>1, <2>2
<1> QED
  BY <1>2, <1>7, <1>8, <1>9 DEF l, m, Distinct

LEMMA LaterHas ==
    ASSUME NEW ts, Distinct(ts), NEW n \in 0..Len(ts)
    PROVE  /\ Distinct(Later(ts, n))
           /\ \A x : x \in ToSet(Later(ts, n)) <=> \E i \in (n + 1)..Len(ts) : ts[i] = x
<1> DEFINE S == {ts[i] : i \in (n + 1)..Len(ts)}
<1>1. Distinct(Later(ts, n)) /\ ToSet(Later(ts, n)) = S
  BY SMTT(40), LaterIs
<1>2. \A x : x \in S <=> \E i \in (n + 1)..Len(ts) : ts[i] = x
  OBVIOUS
<1> HIDE DEF S
<1> QED
  BY <1>1, <1>2

\* One tab of the block goes back to its place; the block stays together beside it.
Gathered(o, ts, n, q) ==
    \E c, p : /\ Distinct(c) /\ InOrder(c, o) /\ p \in 0..Len(c)
              /\ ToSet(c) = ToSet(o) \ ToSet(Later(ts, n)) /\ q = InsertBlock(c, p, Later(ts, n))
Reverts(o, ts, n, i, c, p, k, q) ==
    /\ Distinct(o) /\ Distinct(ts) /\ n \in 0..Len(ts) /\ i \in 1..Len(ts) /\ i = n + 1
    /\ Distinct(c) /\ InOrder(c, o) /\ p \in 0..Len(c)
    /\ ToSet(c) = ToSet(o) \ ToSet(Later(ts, n)) /\ ToSet(ts) \subseteq ToSet(o)
    /\ k \in 1..Len(o) /\ o[k] = ts[i] /\ \A j \in 1..(k - 1) : o[j] \notin ToSet(Later(ts, n))
    /\ q = InsertBlock(c, p, Later(ts, n))

LEMMA RevertBeside ==
    ASSUME NEW o, NEW ts, NEW n, NEW i, NEW c, NEW p, NEW k, NEW q,
           Reverts(o, ts, n, i, c, p, k, q)
    PROVE  /\ Distinct(q) /\ Place(q, ts[i]) = p + 1
           /\ Gathered(o, ts, i, InsertTab(Without(q, {ts[i]}),
                                           IF k > p + 1 THEN k + (Len(ts) - i) ELSE k, ts[i]))
<1>0. /\ Distinct(o) /\ Distinct(ts) /\ n \in 0..Len(ts) /\ i \in 1..Len(ts) /\ i = n + 1
      /\ Distinct(c) /\ InOrder(c, o) /\ p \in 0..Len(c)
      /\ ToSet(c) = ToSet(o) \ ToSet(Later(ts, n)) /\ ToSet(ts) \subseteq ToSet(o)
      /\ k \in 1..Len(o) /\ o[k] = ts[i] /\ \A j \in 1..(k - 1) : o[j] \notin ToSet(Later(ts, n))
      /\ q = InsertBlock(c, p, Later(ts, n))
  BY DEF Reverts
<1> USE <1>0
<1> DEFINE b == Later(ts, n)
           r == Later(ts, i)
           t == ts[i]
           o1 == k - 1
           b1 == <<t>>
           e == InsertBlock(c, o1, b1)
           f == IF k > p + 1 THEN k + (Len(ts) - i) ELSE k
           q2 == InsertBlock(c, p, r)
<1>1. /\ Len(ts) \in Nat /\ n \in Nat /\ i \in Nat /\ i \in 0..Len(ts) /\ n = i - 1
      /\ \A j, l \in 1..Len(ts) : ts[j] = ts[l] => j = l
      /\ t \in ToSet(ts) /\ t \in Tabs
  BY DistinctIs
<1>2. /\ Distinct(b) /\ Len(b) = Len(ts) - n /\ ToSet(b) = {ts[j] : j \in i..Len(ts)}
      /\ \A x, y : Before(b, x, y) <=> \E j, l \in i..Len(ts) : j < l /\ ts[j] = x /\ ts[l] = y
      /\ b[1] = t
  <2>1. 1 \in 1..(Len(ts) - n) /\ n + 1 = i
    BY <1>1
  <2>2. /\ Distinct(b) /\ Len(b) = Len(ts) - n /\ ToSet(b) = {ts[j] : j \in (n + 1)..Len(ts)}
        /\ \A x, y : Before(b, x, y) <=> \E j, l \in (n + 1)..Len(ts) : j < l /\ ts[j] = x /\ ts[l] = y
        /\ \A j \in 1..(Len(ts) - n) : b[j] = ts[n + j]
    <3>1. Distinct(ts) /\ n \in 0..Len(ts)
      OBVIOUS
    <3> QED
      <4>1. /\ Distinct(Later(ts, n)) /\ Len(Later(ts, n)) = Len(ts) - n
            /\ \A j \in 1..(Len(ts) - n) : Later(ts, n)[j] = ts[n + j]
            /\ ToSet(Later(ts, n)) = {ts[j] : j \in (n + 1)..Len(ts)}
            /\ \A x, y : Before(Later(ts, n), x, y) <=>
                            \E j, l \in (n + 1)..Len(ts) : j < l /\ ts[j] = x /\ ts[l] = y
        BY ONLY <3>1, LaterIs
      <4> QED
        BY ONLY <4>1 DEF b
  <2> HIDE DEF b
  <2>3. b[1] = t
    BY <2>1, <2>2
  <2>4. n + 1 = i
    BY <2>1
  <2> HIDE DEF t
  <2> QED
    BY ONLY <2>2, <2>3, <2>4
<1>3. /\ Distinct(r) /\ Len(r) = Len(ts) - i /\ ToSet(r) = {ts[j] : j \in (i + 1)..Len(ts)}
      /\ \A x, y : Before(r, x, y) <=> \E j, l \in (i + 1)..Len(ts) : j < l /\ ts[j] = x /\ ts[l] = y
  <2>1. Distinct(ts) /\ i \in 0..Len(ts)
    BY <1>1
  <2> QED
    BY ONLY <2>1, LaterIs DEF r
<1> HIDE DEF b, r, t
<1>4. ToSet(r) = ToSet(b) \ {t} /\ t \in ToSet(b)
  <2>1. i..Len(ts) = {i} \cup (i + 1)..Len(ts) /\ i \notin (i + 1)..Len(ts)
    BY <1>1
  <2>2. ToSet(b) = {t} \cup ToSet(r)
    BY <1>2, <1>3, <2>1 DEF t
  <2>3. t \notin ToSet(r)
    <3>1. \A j \in (i + 1)..Len(ts) : j \in 1..Len(ts) /\ j # i
      BY <1>1
    <3> QED
      BY <1>1, <1>3, <3>1 DEF t
  <2> QED
    BY <2>2, <2>3
<1>5. ASSUME NEW x, NEW y, Before(b, x, y), x # t, y # t PROVE Before(r, x, y)
  <2>1. PICK j, l \in i..Len(ts) : j < l /\ ts[j] = x /\ ts[l] = y
    BY <1>2, <1>5
  <2>2. j \in (i + 1)..Len(ts) /\ l \in (i + 1)..Len(ts)
    BY <1>1, <1>5, <2>1 DEF t
  <2> QED
    BY <1>3, <2>1, <2>2
<1>6. ToSet(c) \cap ToSet(b) = {}
  BY DEF b
<1>7. q = InsertBlock(c, p, b) /\ p \in 0..Len(c)
  BY DEF b
<1>8. /\ Distinct(q) /\ Len(q) = Len(c) + Len(b) /\ \A j \in 1..Len(b) : q[p + j] = b[j]
  <2>1. Distinct(c) /\ Distinct(b)
    BY <1>2
  <2> QED
    BY ONLY <2>1, <1>6, <1>7, InsertIs
<1>9. Place(q, t) = p + 1
  <2>2. 1 \in 1..Len(b) /\ Len(c) \in Nat /\ Len(b) \in Nat /\ p \in Nat /\ p <= Len(c)
    BY <1>1, <1>2, DistinctIs
  <2>3. p + 1 \in 1..Len(q) /\ q[p + 1] = t
    BY <1>2, <1>8, <2>2
  <2>4. DOMAIN q = 1..Len(q) /\ \A j, l \in 1..Len(q) : q[j] = q[l] => j = l
    <3>1. Distinct(q)
      BY <1>8
    <3> QED
      BY ONLY <3>1, DistinctIs
  <2> QED
    BY ONLY <2>3, <2>4 DEF Place
<1>10. Without(q, {t}) = q2
  <2>1. Distinct(c) /\ Distinct(b) /\ Distinct(r) /\ t \in ToSet(b) /\ ToSet(r) = ToSet(b) \ {t}
    BY <1>2, <1>3, <1>4
  <2>2. \A x, y : Before(b, x, y) /\ x # t /\ y # t => Before(r, x, y)
    BY <1>5
  <2>3. Without(InsertBlock(c, p, b), {t}) = InsertBlock(c, p, r)
    BY ONLY <2>1, <2>2, <1>6, <1>7, TakeOut
  <2> QED
    BY <2>3, <1>7 DEF q2
<1>11. /\ o1 = k - 1 /\ b1 = <<t>> /\ e = InsertBlock(c, o1, b1) /\ t = o[k] /\ t \notin ToSet(c)
       /\ \A j \in 1..(k - 1) : o[j] \in ToSet(c) 
       /\ ToSet(c) \subseteq ToSet(o)
  <2>1. Len(o) \in Nat /\ \A j \in 1..Len(o) : o[j] \in ToSet(o)
    BY DistinctIs
  <2>2. \A j \in 1..(k - 1) : j \in 1..Len(o)
    BY <2>1
  <2> QED
    BY <1>4, <2>1, <2>2 DEF t, b
<1> HIDE DEF o1, b1, e
<1>12. o1 \in 0..Len(c) /\ Distinct(e) /\ InOrder(e, o) /\ ToSet(e) = ToSet(c) \cup {t}
  <2>1. Distinct(c) /\ Distinct(o) /\ InOrder(c, o) /\ k \in 1..Len(o)
    OBVIOUS
  <2>2. Putting(c, o, k, t, o1, b1, e)
    BY ONLY <2>1, <1>11 DEF Putting
  <2> QED
    BY ONLY <2>2, PutInOrder
<1>13. \E h \in 0..Len(e) : InsertTab(q2, f, t) = InsertBlock(e, h, r)
  <2>1. c \in Seq(Tabs) /\ r \in Seq(Tabs) /\ t \in Tabs /\ Len(c) \in Nat
    BY <1>1, <1>3, DistinctIs DEF t
  <2>2. k \in 1..(Len(c) + 1)
    BY <1>11, <1>12, <2>1
  <2>3. e = InsertBlock(c, k - 1, b1)
    BY <1>11
  <2>4. f = IF k > p + 1 THEN k + Len(r) ELSE k
    BY <1>3
  <2> HIDE DEF f
  <2>5. q2 = InsertBlock(c, p, r)
    OBVIOUS
  <2> HIDE DEF q2
  <2> QED
    <3>1. Beside(c, p, r, t, k, b1, e, q2, f)
      BY ONLY <2>1, <2>2, <2>3, <2>4, <2>5, <1>7, <1>11 DEF Beside
    <3> QED
      BY ONLY <3>1, PutBeside
<1>14. ToSet(e) = ToSet(o) \ ToSet(r)
  <2>1. ToSet(c) = ToSet(o) \ ToSet(b)
    BY DEF b
  <2>2. t \in ToSet(o)
    BY <1>1 DEF t
  <2> QED
    BY <1>4, <1>12, <2>1, <2>2
<1>15. Gathered(o, ts, i, InsertTab(q2, f, t))
  <2>1. PICK h \in 0..Len(e) : InsertTab(q2, f, t) = InsertBlock(e, h, r)
    BY <1>13
  <2> HIDE DEF q2, f
  <2> QED
    BY ONLY <2>1, <1>12, <1>14 DEF Gathered, r
<1> QED
  BY <1>8, <1>9, <1>10, <1>15 DEF t

--------------------------------------------------------------------------------
\* A tab put into a strip that does not have it.
LEMMA InsertTabIs ==
    ASSUME NEW c, Distinct(c), NEW k \in Nat \ {0}, NEW t \in Tabs, t \notin ToSet(c)
    PROVE  /\ Distinct(InsertTab(c, k, t)) /\ ToSet(InsertTab(c, k, t)) = ToSet(c) \cup {t}
           /\ k - 1 <= Len(c) => InsertTab(c, k, t) = InsertBlock(c, k - 1, <<t>>)
<1> DEFINE n == IF k > Len(c) + 1 THEN Len(c) + 1 ELSE k
           b == <<t>>
           p == n - 1
<1>1. Len(c) \in Nat
  BY DistinctIs
<1>2. p \in 0..Len(c) /\ (k - 1 <= Len(c) => p = k - 1)
  BY <1>1
<1>3. Distinct(b) /\ ToSet(b) = {t}
  <2>1. b \in Seq(Tabs) /\ Len(b) = 1 /\ b[1] = t /\ DOMAIN b = 1..1
    OBVIOUS
  <2>2. \A x : x \in ToSet(b) <=> \E i \in 1..Len(b) : b[i] = x
    BY ONLY <2>1, SeqIs
  <2>3. IsInjective(b)
    BY <2>1 DEF IsInjective
  <2> QED
    BY <2>1, <2>2, <2>3 DEF Distinct
<1>4. InsertTab(c, k, t) = InsertBlock(c, p, b)
  BY DEF InsertTab
<1> HIDE DEF p, b
<1>5. /\ Distinct(InsertBlock(c, p, b)) /\ ToSet(InsertBlock(c, p, b)) = ToSet(c) \cup ToSet(b)
  <2>1. ToSet(c) \cap ToSet(b) = {} /\ Distinct(c)
    BY <1>3
  <2> QED
    BY ONLY <2>1, <1>2, <1>3, InsertKeeps
<1> QED
  BY <1>2, <1>3, <1>4, <1>5 DEF b

\* How many tabs are still to be reverted: the tabs of the drag are never null here.
LEMMA LaterCount ==
    ASSUME NEW s, s.drag \in DragSet, NEW i \in 1..Len(s.drag.data)
    PROVE  Cardinality({j \in i + 1 .. Len(s.drag.data) : s.drag.data[j].tab # Null}) = Len(s.drag.data) - i
<1> DEFINE n == Len(s.drag.data)
           T == {j \in i + 1 .. n : s.drag.data[j].tab # Null}
<1>1. n \in Nat /\ \A j \in 1..n : s.drag.data[j].tab # Null
  BY TabsOfIs
<1> HIDE DEF n
<1>2. i \in 1..n
  BY DEF n
<1>3. T = (i + 1)..n
  BY <1>1, <1>2
<1>4. i + 1 \in Int /\ n \in Int
  BY <1>1, <1>2
<1>5. Cardinality((i + 1)..n) = IF i + 1 > n THEN 0 ELSE n - (i + 1) + 1
  BY ONLY <1>4, FS_Interval
<1> HIDE DEF T
<1>6. Cardinality(T) = n - i
  BY <1>1, <1>2, <1>3, <1>5
<1> QED
  BY <1>6 DEF T, n

LEMMA IndexIs ==
    ASSUME NEW d, d \in DragSet, NEW i \in 1..Len(d.data)
    PROVE  d.data[i].index \in Nat \ {0}
<1> DEFINE q == d.data
           S == [tab : Tabs, index : Nat \ {0}]
<1>1. q \in Seq(S) /\ i \in 1..Len(q)
  BY DragIs
<1> HIDE DEF q, S
<1>2. q[i] \in S
  BY ONLY <1>1, SeqIs
<1> QED
  BY <1>2 DEF q, S

\* The drag d is one that has started and can be reverted.
Revertible(s) ==
    /\ s \in StateSet /\ s.drag.source \in Browsers /\ s.drag.attached \in Browsers
    /\ s.drag.owner = s.drag.attached
    /\ Distinct(TabsOf(s)) /\ Dragged(s) # {} /\ Dragged(s) \subseteq ToSet(s.strip[s.drag.attached])
    /\ Distinct(s.strip[s.drag.source]) /\ Distinct(s.strip[s.drag.attached])

\* x is s with other strips, windows and dragged views, and capture perhaps gone.
Partly(s, x) ==
    /\ x \in StateSet /\ x.drag = s.drag /\ x.button = s.button /\ x.stack = s.stack
    /\ x.history = s.history /\ x.failed = s.failed
    /\ x.capture = s.capture \/ x.capture = Null

\* One tab goes back within its strip.
GoesWithin(s, x, i, t, u, k, f, q) ==
    /\ s \in StateSet /\ s.drag.source \in Browsers /\ s.drag.attached = s.drag.source
    /\ Partly(s, x) /\ i \in 1..Len(s.drag.data)
    /\ t = TabsOf(s)[i] /\ u = s.drag.source /\ k = s.drag.data[i].index
    /\ Distinct(x.strip[u]) /\ t \in ToSet(x.strip[u])
    /\ f = (IF k > Place(x.strip[u], t) THEN k + (Len(TabsOf(s)) - i) ELSE k)
    /\ q = InsertTab(Without(x.strip[u], {t}), f, t)

\* r is x with the tab put back.
WentWithin(s, x, u, q, r) ==
    /\ Partly(s, r) /\ r.strip = [x.strip EXCEPT ![u] = q]
    /\ r.window = x.window /\ r.views = x.views /\ r.capture = x.capture
    /\ Distinct(q) /\ ToSet(q) = ToSet(x.strip[u])
WentAcross(s, x, t, u, w, c, q, r) ==
    /\ Partly(s, r) /\ r.strip = [x.strip EXCEPT ![w] = c, ![u] = q]
    /\ r.window = IF c = <<>> THEN [x.window EXCEPT ![w] = "closing"] ELSE x.window
    /\ r.views = [dragged |-> x.views.dragged \ {t}, animating |-> x.views.animating]
    /\ Distinct(c) /\ ToSet(c) = ToSet(x.strip[w]) \ {t} /\ InOrder(c, x.strip[w])
    /\ Distinct(q) /\ ToSet(q) = ToSet(x.strip[u]) \cup {t}

LEMMA RevertWithin ==
    ASSUME NEW s, NEW x, NEW i, NEW t, NEW u, NEW k, NEW f, NEW q, GoesWithin(s, x, i, t, u, k, f, q)
    PROVE  WentWithin(s, x, u, q, RevertDragAt(x, i))
<1>0. /\ s \in StateSet /\ s.drag.source \in Browsers /\ s.drag.attached = s.drag.source
      /\ Partly(s, x) /\ i \in 1..Len(s.drag.data)
      /\ t = TabsOf(s)[i] /\ u = s.drag.source /\ k = s.drag.data[i].index
      /\ Distinct(x.strip[u]) /\ t \in ToSet(x.strip[u])
      /\ f = (IF k > Place(x.strip[u], t) THEN k + (Len(TabsOf(s)) - i) ELSE k)
      /\ q = InsertTab(Without(x.strip[u], {t}), f, t)
  BY DEF GoesWithin
<1>1. /\ x \in StateSet /\ x.drag = s.drag /\ x.drag \in DragSet /\ u \in Browsers
      /\ x.strip \in [Browsers -> Seq(Tabs)] /\ x.drag.source = u /\ x.drag.attached = u
      /\ Distinct(x.strip[u]) /\ t \in ToSet(x.strip[u]) /\ i \in 1..Len(s.drag.data)
      /\ s.drag.data[i].index = k /\ Partly(s, x)
  BY <1>0, StateIs DEF Partly
<1>2. /\ Len(s.drag.data) \in Nat /\ Len(TabsOf(s)) = Len(s.drag.data)
      /\ s.drag.data[i].tab = t /\ t \in Tabs /\ t # Null
  <2>1. /\ Len(s.drag.data) \in Nat /\ Len(TabsOf(s)) = Len(s.drag.data)
        /\ \A j \in 1..Len(s.drag.data) : TabsOf(s)[j] = s.drag.data[j].tab
        /\ \A j \in 1..Len(s.drag.data) : s.drag.data[j].tab \in Tabs \ {Null}
    BY <1>1, TabsOfIs
  <2>2. i \in 1..Len(s.drag.data) /\ t = TabsOf(s)[i]
    BY <1>0
  <2> QED
    BY ONLY <2>1, <2>2
<1>3. k \in Nat \ {0}
  <2>1. s.drag \in DragSet /\ i \in 1..Len(s.drag.data)
    BY <1>1
  <2>2. s.drag.data[i].index \in Nat \ {0}
    BY ONLY <2>1, IndexIs
  <2> QED
    BY <1>1, <2>2
<1>4. f \in Nat \ {0}
  <2>1. Len(TabsOf(s)) - i \in Nat
    <3> DEFINE n == Len(TabsOf(s))
    <3>1. n \in Nat /\ i \in 1..n
      BY <1>1, <1>2
    <3> HIDE DEF n
    <3>2. n - i \in Nat
      BY ONLY <3>1
    <3> QED
      BY <3>2 DEF n
  <2>2. f = (IF k > Place(x.strip[u], t) THEN k + (Len(TabsOf(s)) - i) ELSE k)
    BY <1>0
  <2> QED
    BY ONLY <1>3, <2>1, <2>2
<1>5. RevertIndex(x, i) = f
  <2>1. Cardinality({j \in i + 1 .. Len(x.drag.data) : x.drag.data[j].tab # Null}) = Len(x.drag.data) - i
    BY <1>1, LaterCount
  <2>2. f = (IF k > Place(x.strip[u], t) THEN k + (Len(x.drag.data) - i) ELSE k)
    BY <1>0, <1>1, <1>2
  <2>3. /\ x.drag.data[i].tab = t /\ x.drag.data[i].index = k
        /\ x.drag.source = u /\ x.drag.attached = u
    BY <1>1, <1>2
  <2> QED
    BY ONLY <2>1, <2>2, <2>3 DEF RevertIndex
<1>6. Distinct(Without(x.strip[u], {t})) /\ ToSet(Without(x.strip[u], {t})) = ToSet(x.strip[u]) \ {t}
  BY <1>1, WithoutKeeps
<1>7. Distinct(q) /\ ToSet(q) = ToSet(x.strip[u])
  <2> DEFINE c == Without(x.strip[u], {t})
  <2>1. Distinct(c) /\ t \notin ToSet(c) /\ ToSet(c) = ToSet(x.strip[u]) \ {t}
    BY <1>6
  <2>2. q = InsertTab(c, f, t)
    BY <1>0
  <2> HIDE DEF c
  <2>3. Distinct(q) /\ ToSet(q) = ToSet(c) \cup {t}
    BY ONLY <1>2, <1>4, <2>1, <2>2, InsertTabIs
  <2>4. (ToSet(x.strip[u]) \ {t}) \cup {t} = ToSet(x.strip[u])
    BY <1>1
  <2> QED
    BY ONLY <2>1, <2>3, <2>4
<1> DEFINE c == Without(x.strip[u], {t})
           mid == [x EXCEPT !.strip[u] = c]
           r == [mid EXCEPT !.strip[u] = InsertTab(@, f, t)]
<1>8. RevertDragAt(x, i) = r
  BY <1>1, <1>2, <1>5 DEF RevertDragAt
<1>9. q = InsertTab(c, f, t) /\ q \in Seq(Tabs)
  BY <1>0, <1>7 DEF Distinct
<1> HIDE DEF c
<1>10. r = [x EXCEPT !.strip = [x.strip EXCEPT ![u] = q]]
  <2>1. mid = [x EXCEPT !.strip = [x.strip EXCEPT ![u] = c]]
    BY <1>1 DEF StateSet
  <2>2. mid.strip[u] = c
    BY <1>1, <2>1 DEF StateSet
  <2>3. r = [mid EXCEPT !.strip = [mid.strip EXCEPT ![u] = q]]
    BY <1>1, <1>9, <2>2 DEF StateSet
  <2>4. mid.strip = [x.strip EXCEPT ![u] = c]
    BY <1>1, <2>1 DEF StateSet
  <2>5. [mid.strip EXCEPT ![u] = q] = [x.strip EXCEPT ![u] = q]
    BY <1>1, <2>4
  <2> HIDE DEF r, mid
  <2> QED
    BY <1>1, <2>1, <2>3, <2>5 DEF StateSet
<1> HIDE DEF r
<1>11. /\ r \in StateSet /\ r.strip = [x.strip EXCEPT ![u] = q] /\ r.window = x.window /\ r.views = x.views
       /\ r.drag = x.drag /\ r.capture = x.capture /\ r.button = x.button /\ r.stack = x.stack
       /\ r.history = x.history /\ r.failed = x.failed
  BY <1>1, <1>9, <1>10 DEF StateSet
<1>12. Partly(s, r)
  BY <1>1, <1>11 DEF Partly
<1> QED
  BY ONLY <1>7, <1>8, <1>11, <1>12 DEF WentWithin

\* One tab goes back from another strip, whose window closes behind the last one.
GoesAcross(s, x, i, t, u, w, k, c, q) ==
    /\ s \in StateSet /\ s.drag.source \in Browsers /\ s.drag.attached \in Browsers
    /\ s.drag.attached # s.drag.source /\ s.drag.owner = s.drag.attached
    /\ Partly(s, x) /\ i \in 1..Len(s.drag.data)
    /\ t = TabsOf(s)[i] /\ u = s.drag.source /\ w = s.drag.attached /\ k = s.drag.data[i].index
    /\ Distinct(x.strip[u]) /\ Distinct(x.strip[w])
    /\ t \in ToSet(x.strip[w]) /\ t \notin ToSet(x.strip[u])
    /\ c = Without(x.strip[w], {t}) /\ q = InsertTab(x.strip[u], k, t)

LEMMA RevertAcross ==
    ASSUME NEW s, NEW x, NEW i, NEW t, NEW u, NEW w, NEW k, NEW c, NEW q,
           GoesAcross(s, x, i, t, u, w, k, c, q)
    PROVE  WentAcross(s, x, t, u, w, c, q, RevertDragAt(x, i))
<1>0. /\ s \in StateSet /\ s.drag.source \in Browsers /\ s.drag.attached \in Browsers
      /\ s.drag.attached # s.drag.source /\ s.drag.owner = s.drag.attached
      /\ Partly(s, x) /\ i \in 1..Len(s.drag.data)
      /\ t = TabsOf(s)[i] /\ u = s.drag.source /\ w = s.drag.attached /\ k = s.drag.data[i].index
      /\ Distinct(x.strip[u]) /\ Distinct(x.strip[w])
      /\ t \in ToSet(x.strip[w]) /\ t \notin ToSet(x.strip[u])
      /\ c = Without(x.strip[w], {t}) /\ q = InsertTab(x.strip[u], k, t)
  BY DEF GoesAcross
<1>1. /\ x \in StateSet /\ x.drag = s.drag /\ x.drag \in DragSet /\ u \in Browsers /\ w \in Browsers
      /\ x.strip \in [Browsers -> Seq(Tabs)] /\ x.window \in [Browsers -> WindowStates] /\ x.capture \in B0
      /\ x.views \in ViewSet /\ u # w /\ x.drag.source = u /\ x.drag.attached = w
      /\ s.drag.data[i].index = k /\ i \in 1..Len(s.drag.data) /\ Partly(s, x)
      /\ Distinct(x.strip[u]) /\ Distinct(x.strip[w])
      /\ t \in ToSet(x.strip[w]) /\ t \notin ToSet(x.strip[u])
  BY <1>0, StateIs DEF Partly
<1>2. /\ Len(s.drag.data) \in Nat /\ Len(TabsOf(s)) = Len(s.drag.data)
      /\ s.drag.data[i].tab = t /\ t \in Tabs /\ t # Null
  <2>1. /\ Len(s.drag.data) \in Nat /\ Len(TabsOf(s)) = Len(s.drag.data)
        /\ \A j \in 1..Len(s.drag.data) : TabsOf(s)[j] = s.drag.data[j].tab
        /\ \A j \in 1..Len(s.drag.data) : s.drag.data[j].tab \in Tabs \ {Null}
    BY <1>1, TabsOfIs
  <2>2. i \in 1..Len(s.drag.data) /\ t = TabsOf(s)[i]
    BY <1>0
  <2> QED
    BY ONLY <2>1, <2>2
<1>3. k \in Nat \ {0}
  <2>1. s.drag \in DragSet /\ i \in 1..Len(s.drag.data)
    BY <1>1
  <2>2. s.drag.data[i].index \in Nat \ {0}
    BY ONLY <2>1, IndexIs
  <2> QED
    BY <1>1, <2>2
<1>5. RevertIndex(x, i) = k
  BY <1>1 DEF RevertIndex
<1>4. c = Without(x.strip[w], {t}) /\ q = InsertTab(x.strip[u], k, t)
  BY <1>0
<1>6. Distinct(c) /\ ToSet(c) = ToSet(x.strip[w]) \ {t} /\ InOrder(c, x.strip[w]) /\ c \in Seq(Tabs)
      /\ (c = <<>> <=> ToSet(x.strip[w]) \subseteq {t})
  <2>1. Distinct(c) /\ ToSet(c) = ToSet(x.strip[w]) \ {t} /\ InOrder(c, x.strip[w])
    BY <1>1, <1>4, WithoutKeeps DEF InOrder
  <2>2. c \in Seq(Tabs)
    BY <2>1 DEF Distinct
  <2>3. c = <<>> <=> ToSet(x.strip[w]) \subseteq {t}
    BY <1>1, <1>4, WithoutKeeps
  <2> QED
    BY ONLY <2>1, <2>2, <2>3
<1>7. Distinct(q) /\ ToSet(q) = ToSet(x.strip[u]) \cup {t} /\ q \in Seq(Tabs)
  <2>1. Distinct(q) /\ ToSet(q) = ToSet(x.strip[u]) \cup {t}
    <3>1. Distinct(x.strip[u]) /\ t \notin ToSet(x.strip[u]) /\ q = InsertTab(x.strip[u], k, t)
      BY <1>1, <1>4
    <3> QED
      BY ONLY <1>2, <1>3, <3>1, InsertTabIs
  <2> QED
    BY <2>1 DEF Distinct
<1>8. c = <<>> => Len(x.strip[w]) = 1
  <2> SUFFICES ASSUME c = <<>> PROVE Len(x.strip[w]) = 1
    OBVIOUS
  <2>1. ToSet(x.strip[w]) = {t}
    BY <1>1, <1>6
  <2>2. Cardinality(ToSet(x.strip[w])) = Len(x.strip[w])
    BY <1>1, LenIsCardinality
  <2> QED
    <3>1. Cardinality({t}) = 1
      BY FS_Singleton
    <3> QED
      BY <2>1, <2>2, <3>1
<1> DEFINE seen == [dragged |-> x.views.dragged \ {t}, animating |-> x.views.animating]
           strips == [x.strip EXCEPT ![w] = c]
           mid == [[x EXCEPT !.strip[w] = c] EXCEPT !.views.dragged = @ \ {t}]
           ca == IF c = <<>> /\ x.capture = w THEN Null ELSE x.capture
           wins == IF c = <<>> THEN [x.window EXCEPT ![w] = "closing"] ELSE x.window
           left == AfterRemoval(mid, w, Len(x.strip[w]) = 1)
           r == [left EXCEPT !.strip[u] = InsertTab(@, k, t)]
<1>9. RevertDragAt(x, i) = r
  BY <1>1, <1>2, <1>4, <1>5 DEF RevertDragAt, IsRemovingLastTabForRevert
<1>10. /\ seen \in ViewSet /\ strips \in [Browsers -> Seq(Tabs)] /\ strips[w] = c
       /\ wins \in [Browsers -> WindowStates] /\ ca \in B0 /\ strips[u] = x.strip[u]
  BY <1>1, <1>6 DEF ViewSet, WindowStates, B0
<1>11. mid = [x EXCEPT !.strip = strips, !.views = seen]
  <2>1. mid = [x EXCEPT !.strip = strips, !.views = [x.views EXCEPT !.dragged = x.views.dragged \ {t}]]
    BY <1>1 DEF StateSet
  <2>2. [x.views EXCEPT !.dragged = x.views.dragged \ {t}] = seen
    <3>1. x.views = [dragged |-> x.views.dragged, animating |-> x.views.animating]
      BY <1>1 DEF ViewSet
    <3> DEFINE X == x.views.dragged \ {t}
    <3>2. [[x.views EXCEPT !.dragged = X] EXCEPT !.animating = x.views.animating]
              = [dragged |-> X, animating |-> x.views.animating]
      <4>1. \A v \in ViewSet : \A V, Y :
              [[v EXCEPT !.dragged = V] EXCEPT !.animating = Y] = [dragged |-> V, animating |-> Y]
        BY PutViews
      <4>2. x.views \in ViewSet
        BY <1>1
      <4> HIDE DEF X
      <4> QED
        BY ONLY <4>1, <4>2
    <3>3. [[x.views EXCEPT !.dragged = X] EXCEPT !.animating = x.views.animating]
              = [x.views EXCEPT !.dragged = X]
      BY <1>1 DEF ViewSet
    <3> QED
      BY <3>2, <3>3 DEF seen
  <2> QED
    BY <2>1, <2>2
<1> HIDE DEF mid, strips, seen, ca, wins
<1>12. mid = [strip |-> strips, window |-> x.window, views |-> seen, drag |-> x.drag, capture |-> x.capture,
              button |-> x.button, stack |-> x.stack, history |-> x.history, failed |-> x.failed]
  BY <1>1, <1>11 DEF StateSet
<1>13. left = [strip |-> strips, window |-> wins, views |-> seen, drag |-> x.drag, capture |-> ca,
              button |-> x.button, stack |-> x.stack, history |-> x.history, failed |-> x.failed]
  <2>1. CASE c # <<>>
    <3>1. left = mid
      BY <1>10, <1>12, <2>1 DEF AfterRemoval
    <3> QED
      BY <1>12, <3>1, <2>1 DEF wins, ca
  <2>2. CASE c = <<>>
    <3>1. mid.strip[w] = <<>> /\ mid.drag.source # w /\ Len(x.strip[w]) = 1
      BY <1>1, <1>8, <1>10, <1>12, <2>2
    <3>2. left = [mid EXCEPT !.window[w] = "closing", !.capture = IF @ = w THEN Null ELSE @]
      BY <3>1 DEF AfterRemoval
    <3> HIDE DEF left
    <3> QED
      BY <1>12, <3>2, <2>2 DEF wins, ca
  <2> QED
    BY <2>1, <2>2
<1> HIDE DEF left
<1>14. r = [strip |-> [x.strip EXCEPT ![w] = c, ![u] = q], window |-> wins, views |-> seen, drag |-> x.drag,
            capture |-> ca, button |-> x.button, stack |-> x.stack, history |-> x.history,
            failed |-> x.failed]
  <2>1. left.strip[u] = x.strip[u]
    BY <1>10, <1>13
  <2>2. r = [left EXCEPT !.strip = [left.strip EXCEPT ![u] = q]]
    BY <1>4, <1>13, <2>1
  <2>3. left.strip = strips
    BY <1>13
  <2>4. [strips EXCEPT ![u] = q] = [x.strip EXCEPT ![w] = c, ![u] = q]
    BY DEF strips
  <2>5. [left.strip EXCEPT ![u] = q] = [x.strip EXCEPT ![w] = c, ![u] = q]
    BY ONLY <2>3, <2>4
  <2> HIDE DEF r
  <2> QED
    BY ONLY <1>13, <2>2, <2>5
<1> HIDE DEF r
<1>15. [x.strip EXCEPT ![w] = c, ![u] = q] \in [Browsers -> Seq(Tabs)]
  BY <1>1, <1>6, <1>7
<1>16. /\ x.drag \in DragSet /\ x.button \in {"up", "down"} /\ x.stack \in Seq(FrameSet)
       /\ x.history \in HistorySet /\ x.failed \in SUBSET Checks
  BY <1>1, StateIs
<1>17. r \in StateSet
  <2> DEFINE st == [x.strip EXCEPT ![w] = c, ![u] = q]
  <2>1. st \in [Browsers -> Seq(Tabs)]
    BY <1>15
  <2>2. r = [strip |-> st, window |-> wins, views |-> seen, drag |-> x.drag,
            capture |-> ca, button |-> x.button, stack |-> x.stack, history |-> x.history,
            failed |-> x.failed]
    BY <1>14
  <2> HIDE DEF st
  <2> QED
    BY ONLY <2>1, <2>2, <1>10, <1>16 DEF StateSet
<1>18. Partly(s, r)
  <2>1. /\ r.drag = x.drag /\ r.button = x.button /\ r.stack = x.stack /\ r.history = x.history
        /\ r.failed = x.failed /\ r.capture = ca
    BY <1>14
  <2>2. ca = x.capture \/ ca = Null
    BY DEF ca
  <2> QED
    BY <1>1, <1>17, <2>1, <2>2 DEF Partly
<1>19. r.strip = [x.strip EXCEPT ![w] = c, ![u] = q] /\ r.window = wins /\ r.views = seen
  BY <1>14
<1>20. /\ r.window = IF c = <<>> THEN [x.window EXCEPT ![w] = "closing"] ELSE x.window
       /\ r.views = [dragged |-> x.views.dragged \ {t}, animating |-> x.views.animating]
  BY ONLY <1>19 DEF wins, seen
<1> QED
  BY ONLY <1>6, <1>7, <1>9, <1>18, <1>19, <1>20 DEF WentAcross

--------------------------------------------------------------------------------
\* Reverting the tabs one after the other.
Reverting(s, n, h) ==
    h = [k \in 0..n |-> IF k = 0 THEN Check(s, s.drag.source # Null, "RevertDragAt()")
                        ELSE RevertDragAt(h[k - 1], k)]

LEMMA RevertingExists ==
    ASSUME NEW s, NEW N \in Nat
    PROVE  \E h : Reverting(s, N, h)
<1> DEFINE Bad == {n \in 0..N : ~\E h : Reverting(s, n, h)}
           s0 == Check(s, s.drag.source # Null, "RevertDragAt()")
<1> SUFFICES ASSUME Bad # {} PROVE FALSE
  OBVIOUS
<1>1. PICK n \in Bad : \A m \in Bad : n <= m
  <2>1. Bad \in SUBSET Nat
    OBVIOUS
  <2> HIDE DEF Bad
  <2> QED
    BY <2>1, LeastOf
<1> HIDE DEF s0
<1>2. n # 0
  <2>1. Reverting(s, 0, [k \in 0..0 |-> s0])
    BY DEF Reverting, s0
  <2> QED
    BY <1>1, <2>1
<1>3. n \in 1..N /\ n - 1 \in 0..N /\ ~(n <= n - 1)
  BY <1>1, <1>2
<1>4. PICK h : Reverting(s, n - 1, h)
  BY <1>1, <1>3
<1> DEFINE last == RevertDragAt(h[n - 1], n)
           g == [k \in 0..n |-> IF k = n THEN last ELSE h[k]]
<1>5. /\ 0..n = 0..(n - 1) \cup {n} /\ n \notin 0..(n - 1)
      /\ \A k \in 0..n : k # 0 => k - 1 \in 0..(n - 1)
  BY <1>3
<1>6. ASSUME NEW k \in 0..n
      PROVE  g[k] = IF k = 0 THEN s0 ELSE RevertDragAt(g[k - 1], k)
  <2>1. k # 0 => g[k - 1] = h[k - 1]
    <3> HIDE DEF last
    <3> QED
      BY <1>5
  <2>2. CASE k = n
    <3>1. g[k] = last /\ k # 0
      <4> HIDE DEF last
      <4> QED
        BY <2>2, <1>3
    <3>2. last = RevertDragAt(g[k - 1], k)
      <4>1. g[k - 1] = h[k - 1] /\ h[k - 1] = h[n - 1]
        BY <2>1, <2>2, <3>1
      <4> HIDE DEF g
      <4> QED
        BY <2>2, <4>1
    <3> HIDE DEF g, last
    <3> QED
      BY <3>1, <3>2
  <2>3. CASE k # n
    <3>1. g[k] = h[k] /\ k \in 0..(n - 1)
      <4> HIDE DEF last
      <4> QED
        BY <1>5, <2>3
    <3>2. h[k] = IF k = 0 THEN s0 ELSE RevertDragAt(h[k - 1], k)
      BY <1>4, <3>1 DEF Reverting, s0
    <3> HIDE DEF g
    <3> QED
      BY <2>1, <3>1, <3>2
  <2> QED
    BY <2>2, <2>3
<1>7. Reverting(s, n, g)
  <2> DEFINE F(k) == IF k = 0 THEN s0 ELSE RevertDragAt(g[k - 1], k)
  <2>1. g = [k \in 0..n |-> F(k)]
    <3>1. \A k \in 0..n : g[k] = F(k)
      BY <1>6
    <3>2. g = [k \in 0..n |-> g[k]]
      <4> DEFINE G(k) == IF k = n THEN last ELSE h[k]
      <4>1. g = [k \in 0..n |-> G(k)]
        OBVIOUS
      <4> HIDE DEF G, g
      <4> QED
        BY <4>1
    <3> HIDE DEF g, F
    <3> QED
      BY <3>1, <3>2
  <2> HIDE DEF g
  <2> QED
    BY <2>1 DEF Reverting, s0
<1> QED
  BY <1>1, <1>7

LEMMA RevertDragIs ==
    ASSUME NEW s, Len(s.drag.data) \in Nat, s.drag.source # Null
    PROVE  \E h :
              /\ h[0] = s /\ \A n \in 1..Len(s.drag.data) : h[n] = RevertDragAt(h[n - 1], n)
              /\ RevertDrag(s) = IF s.drag.attached = s.drag.source
                                 THEN StoppedDragging(h[Len(s.drag.data)], Dragged(s))
                                 ELSE h[Len(s.drag.data)]
<1> DEFINE N == Len(s.drag.data)
           h == CHOOSE g : Reverting(s, N, g)
<1>1. Reverting(s, N, h)
  BY RevertingExists
<1>2. RevertDrag(s) = IF s.drag.attached = s.drag.source THEN StoppedDragging(h[N], Dragged(s)) ELSE h[N]
  BY DEF RevertDrag, Reverting
<1> HIDE DEF h
<1>3. Check(s, s.drag.source # Null, "RevertDragAt()") = s
  BY DEF Check
<1>4. h[0] = s /\ \A n \in 1..N : h[n] = RevertDragAt(h[n - 1], n)
  <2>1. 0 \in 0..N /\ \A n \in 1..N : n \in 0..N /\ n # 0
    OBVIOUS
  <2> QED
    BY <1>1, <1>3, <2>1 DEF Reverting
<1> QED
  BY <1>2, <1>4

\* The controller knows where its tabs are in o.
Placed(s, o) ==
    /\ Distinct(o)
    /\ \A i \in 1..Len(s.drag.data) :
           /\ s.drag.data[i].index \in 1..Len(o) /\ o[s.drag.data[i].index] = TabsOf(s)[i]
    /\ \A i, j \in 1..Len(s.drag.data) : i < j => s.drag.data[i].index < s.drag.data[j].index

LEMMA PlacedIs ==
    ASSUME NEW s, s.drag \in DragSet, NEW o, Placed(s, o)
    PROVE  /\ Dragged(s) \subseteq ToSet(o)
           /\ \A i, l \in 1..Len(s.drag.data) : \A j \in 1..(s.drag.data[i].index - 1) :
                  j \in 1..Len(o) /\ (o[j] = TabsOf(s)[l] => l < i)
<1>1. /\ Len(s.drag.data) \in Nat /\ Dragged(s) = ToSet(TabsOf(s)) /\ DOMAIN TabsOf(s) = 1..Len(s.drag.data)
  BY TabsOfIs
<1>2. /\ Len(o) \in Nat /\ \A i \in 1..Len(o) : o[i] \in ToSet(o)
      /\ \A i, j \in 1..Len(o) : o[i] = o[j] => i = j
  BY DistinctIs DEF Placed
<1>3. Dragged(s) \subseteq ToSet(o)
  BY <1>1, <1>2 DEF Placed, ToSet
<1>4. ASSUME NEW i \in 1..Len(s.drag.data), NEW l \in 1..Len(s.drag.data),
             NEW j \in 1..(s.drag.data[i].index - 1)
      PROVE  j \in 1..Len(o) /\ (o[j] = TabsOf(s)[l] => l < i)
  <2>1. /\ s.drag.data[i].index \in 1..Len(o) /\ s.drag.data[l].index \in 1..Len(o)
        /\ o[s.drag.data[l].index] = TabsOf(s)[l]
        /\ (i < l => s.drag.data[i].index < s.drag.data[l].index)
    BY DEF Placed
  <2>2. j \in 1..Len(o)
    BY <1>2, <2>1
  <2>3. ASSUME o[j] = TabsOf(s)[l] PROVE l < i
    <3>1. j = s.drag.data[l].index
      BY <1>2, <2>1, <2>2, <2>3
    <3>2. j < s.drag.data[i].index
      BY <1>2, <2>1
    <3>3. ~(i < l) /\ i # l
      BY <1>2, <2>1, <3>1, <3>2
    <3> QED
      BY <1>1, <3>3
  <2> QED
    BY <2>2, <2>3
<1> QED
  BY <1>3, <1>4

--------------------------------------------------------------------------------
\* The tabs are in the strip they came from: they change places within it.
Within(s, x) ==
    /\ Partly(s, x) /\ x.strip = [s.strip EXCEPT ![s.drag.source] = x.strip[s.drag.source]]
    /\ x.window = s.window /\ x.views = s.views
    /\ Distinct(x.strip[s.drag.source]) /\ ToSet(x.strip[s.drag.source]) = ToSet(s.strip[s.drag.source])

\* q is the strip when n of the tabs have been put back to where they are in o.
Ordered(s, o, n, q) ==
    \/ s.strip[s.drag.source] = o /\ q = o
    \/ Gathered(o, TabsOf(s), n, q)

PutBack(s, q, i) ==
    InsertTab(Without(q, {TabsOf(s)[i]}),
              IF s.drag.data[i].index > Place(q, TabsOf(s)[i])
              THEN s.drag.data[i].index + (Len(TabsOf(s)) - i) ELSE s.drag.data[i].index,
              TabsOf(s)[i])

LEMMA WithinNext ==
    ASSUME NEW s, Revertible(s), s.drag.attached = s.drag.source, NEW x, Within(s, x),
           NEW i \in 1..Len(s.drag.data)
    PROVE  /\ Within(s, RevertDragAt(x, i))
           /\ RevertDragAt(x, i).strip[s.drag.source] = PutBack(s, x.strip[s.drag.source], i)
<1> DEFINE u == s.drag.source
           t == TabsOf(s)[i]
           k == s.drag.data[i].index
           f == IF k > Place(x.strip[u], t) THEN k + (Len(TabsOf(s)) - i) ELSE k
           q == InsertTab(Without(x.strip[u], {t}), f, t)
           r == RevertDragAt(x, i)
<1>1. /\ s \in StateSet /\ s.drag \in DragSet /\ u \in Browsers /\ Partly(s, x)
      /\ s.strip \in [Browsers -> Seq(Tabs)] /\ x.strip \in [Browsers -> Seq(Tabs)]
      /\ Distinct(x.strip[u]) /\ ToSet(x.strip[u]) = ToSet(s.strip[u])
  BY StateIs DEF Revertible, Within, Partly
<1>2. t \in ToSet(x.strip[u])
  <2>1. t \in Dragged(s)
    BY <1>1, TabsOfIs
  <2>2. Dragged(s) \subseteq ToSet(s.strip[u])
    BY DEF Revertible
  <2> QED
    BY <1>1, <2>1, <2>2
<1>3. /\ t = TabsOf(s)[i] /\ u = s.drag.source /\ k = s.drag.data[i].index
      /\ f = (IF k > Place(x.strip[u], t) THEN k + (Len(TabsOf(s)) - i) ELSE k)
      /\ q = InsertTab(Without(x.strip[u], {t}), f, t)
      /\ s.drag.attached = s.drag.source /\ s.drag.source \in Browsers
      /\ i \in 1..Len(s.drag.data) /\ r = RevertDragAt(x, i)
  BY <1>1
<1> HIDE DEF u, t, k, f, q, r
<1>4. /\ Partly(s, r) /\ r.strip = [x.strip EXCEPT ![u] = q]
      /\ r.window = x.window /\ r.views = x.views /\ r.capture = x.capture
      /\ Distinct(q) /\ ToSet(q) = ToSet(x.strip[u])
  <2>1. GoesWithin(s, x, i, t, u, k, f, q)
    BY ONLY <1>1, <1>2, <1>3 DEF GoesWithin
  <2> QED
    <3>1. WentWithin(s, x, u, q, RevertDragAt(x, i))
      BY ONLY <2>1, RevertWithin
    <3> QED
      BY ONLY <1>3, <3>1 DEF WentWithin
<1>5. r.strip[u] = q /\ r.strip = [s.strip EXCEPT ![u] = q]
  <2>1. x.strip = [s.strip EXCEPT ![u] = x.strip[u]]
    BY <1>3 DEF Within
  <2> QED
    BY <1>1, <1>4, <2>1
<1>6. Within(s, r)
  BY <1>1, <1>3, <1>4, <1>5 DEF Within
<1>7. q = PutBack(s, x.strip[u], i)
  BY <1>3 DEF PutBack
<1> QED
  BY <1>3, <1>5, <1>6, <1>7

LEMMA OrderedNext ==
    ASSUME NEW s, s.drag \in DragSet, Distinct(TabsOf(s)), NEW o, Placed(s, o),
           NEW i \in 1..Len(s.drag.data), NEW q, Ordered(s, o, i - 1, q)
    PROVE  Ordered(s, o, i, PutBack(s, q, i))
<1> DEFINE ts == TabsOf(s)
           k == s.drag.data[i].index
           n == i - 1
<1>1. /\ Len(s.drag.data) \in Nat /\ Len(ts) = Len(s.drag.data) /\ ToSet(ts) \subseteq ToSet(o)
      /\ i \in 1..Len(ts) /\ n \in 0..Len(ts) /\ i = n + 1 /\ Distinct(ts)
  BY TabsOfIs, PlacedIs
<1>2. /\ k \in 1..Len(o) /\ o[k] = ts[i] /\ Distinct(o)
      /\ \A j, l \in 1..Len(o) : o[j] = o[l] => j = l
      /\ DOMAIN o = 1..Len(o)
  BY DistinctIs DEF Placed
<1>3. CASE s.strip[s.drag.source] = o /\ q = o
  <2>1. Place(o, ts[i]) = k
    BY <1>2 DEF Place
  <2>2. k \in Int /\ ~(k > k)
    BY <1>2
  <2>3. PutBack(s, q, i) = InsertTab(Without(o, {ts[i]}), k, ts[i])
    BY <1>3, <2>1, <2>2 DEF PutBack
  <2>4. InsertTab(Without(o, {ts[i]}), k, ts[i]) = o
    <3> HIDE DEF k, ts
    <3> QED
      BY ONLY <1>2, AsBefore
  <2> QED
    BY <1>3, <2>3, <2>4 DEF Ordered
<1>4. CASE Gathered(o, ts, n, q)
  <2>1. PICK c, p : /\ Distinct(c) /\ InOrder(c, o) /\ p \in 0..Len(c)
                    /\ ToSet(c) = ToSet(o) \ ToSet(Later(ts, n))
                    /\ q = InsertBlock(c, p, Later(ts, n))
    <3> HIDE DEF ts, n
    <3> QED
      BY <1>4 DEF Gathered
  <2>2. \A j \in 1..(k - 1) : o[j] \notin ToSet(Later(ts, n))
    <3> SUFFICES ASSUME NEW j \in 1..(k - 1), o[j] \in ToSet(Later(ts, n)) PROVE FALSE
      OBVIOUS
    <3>1. \A x : x \in ToSet(Later(ts, n)) <=> \E l \in (n + 1)..Len(ts) : ts[l] = x
      <4> HIDE DEF n, ts
      <4> QED
        BY ONLY <1>1, LaterHas
    <3>2. PICK l \in i..Len(ts) : o[j] = ts[l]
      BY <3>1, <1>1
    <3>3. l \in 1..Len(s.drag.data)
      BY <1>1
    <3>4. l < i
      BY <3>2, <3>3, PlacedIs
    <3> QED
      BY <1>1, <3>3, <3>4
  <2>3. Reverts(o, ts, n, i, c, p, k, q)
    <3> HIDE DEF k, n, ts
    <3> QED
      BY <1>1, <1>2, <2>1, <2>2 DEF Reverts
  <2> DEFINE f == IF k > p + 1 THEN k + (Len(ts) - i) ELSE k
  <2>4. /\ Place(q, ts[i]) = p + 1 /\ Gathered(o, ts, i, InsertTab(Without(q, {ts[i]}), f, ts[i]))
    <3> HIDE DEF k, n, ts
    <3> QED
      BY ONLY <2>3, RevertBeside DEF f
  <2>5. PutBack(s, q, i) = InsertTab(Without(q, {ts[i]}), f, ts[i])
    BY <2>4 DEF PutBack
  <2> HIDE DEF f
  <2> QED
    BY <2>4, <2>5 DEF Ordered
<1> QED
  BY <1>3, <1>4 DEF Ordered

\* When the last tab is back, everything is where it was.
LEMMA OrderedLast ==
    ASSUME NEW s, s.drag \in DragSet, Distinct(TabsOf(s)), NEW o, Distinct(o),
           NEW q, Ordered(s, o, Len(s.drag.data), q)
    PROVE  q = o
<1> DEFINE ts == TabsOf(s)
           n == Len(s.drag.data)
           b == Later(ts, n)
<1> SUFFICES ASSUME Gathered(o, ts, n, q)
             PROVE  q = o
  BY DEF Ordered
<1>1. PICK c, p : /\ Distinct(c) /\ InOrder(c, o) /\ p \in 0..Len(c)
                  /\ ToSet(c) = ToSet(o) \ ToSet(b) /\ q = InsertBlock(c, p, b)
  BY DEF Gathered
<1>2. n \in 0..Len(ts) /\ n = Len(ts) /\ n \in Nat /\ Distinct(ts)
  BY TabsOfIs
<1> HIDE DEF ts, n
<1>3. Distinct(b) /\ ToSet(b) = {}
  <2>1. Distinct(b) /\ \A x : x \in ToSet(b) <=> \E i \in (n + 1)..Len(ts) : ts[i] = x
    BY ONLY <1>2, LaterHas DEF b
  <2>2. (n + 1)..Len(ts) = {}
    BY <1>2
  <2> QED
    BY <2>1, <2>2
<1> HIDE DEF b
<1>4. /\ Distinct(q) /\ ToSet(q) = ToSet(c) \cup ToSet(b)
      /\ \A x, y : x \notin ToSet(b) /\ y \notin ToSet(b) => (Before(q, x, y) <=> Before(c, x, y))
  <2>1. ToSet(c) \cap ToSet(b) = {}
    BY <1>3
  <2> QED
    BY ONLY <2>1, <1>1, <1>3, InsertKeeps
<1>5. ToSet(q) = ToSet(o)
  BY <1>1, <1>3, <1>4
<1>6. \A x, y : Before(q, x, y) => Before(o, x, y)
  BY <1>1, <1>3, <1>4 DEF InOrder
<1> QED
  BY <1>4, <1>5, <1>6, SameOrder

\* All tabs go back within their strip.
LEMMA RevertedWithin ==
    ASSUME NEW s, Revertible(s), s.drag.attached = s.drag.source
    PROVE  \E x : /\ RevertDrag(s) = StoppedDragging(x, Dragged(s)) /\ Within(s, x)
                  /\ \A o : Placed(s, o) /\ Ordered(s, o, 0, s.strip[s.drag.source])
                                => x.strip[s.drag.source] = o
<1> DEFINE N == Len(s.drag.data)
           u == s.drag.source
<1>1. s \in StateSet /\ s.drag \in DragSet /\ N \in Nat /\ u # Null /\ u \in Browsers
      /\ s.drag.attached = s.drag.source /\ Distinct(TabsOf(s))
  BY StateIs, TabsOfIs, StripsAssumption DEF Revertible
<1>2. PICK h :
        /\ h[0] = s /\ \A n \in 1..N : h[n] = RevertDragAt(h[n - 1], n)
        /\ RevertDrag(s) = StoppedDragging(h[N], Dragged(s))
  <2>1. \E h : /\ h[0] = s /\ \A n \in 1..N : h[n] = RevertDragAt(h[n - 1], n)
               /\ RevertDrag(s) = IF s.drag.attached = u THEN StoppedDragging(h[N], Dragged(s)) ELSE h[N]
    BY <1>1, RevertDragIs
  <2> QED
    BY <1>1, <2>1
<1> DEFINE Good(n) == /\ Within(s, h[n])
                      /\ \A o : Placed(s, o) /\ Ordered(s, o, 0, s.strip[u]) => Ordered(s, o, n, h[n].strip[u])
           Bad == {n \in 0..N : ~Good(n)}
<1>3. Good(0)
  <2>1. Within(s, s)
    <3>1. /\ s.strip \in [Browsers -> Seq(Tabs)] /\ Distinct(TabsOf(s))
      BY <1>1, StateIs
    <3>2. Partly(s, s)
      BY <1>1 DEF Partly
    <3>3. s.strip = [s.strip EXCEPT ![u] = s.strip[u]]
      BY <3>1
    <3>4. Distinct(s.strip[u])
      BY DEF Revertible
    <3> QED
      BY <3>2, <3>3, <3>4 DEF Within
  <2> QED
    BY <1>2, <2>1
<1>4. ASSUME NEW n \in 1..N, Good(n - 1) PROVE Good(n)
  <2> DEFINE m == n - 1
  <2>1. h[n] = RevertDragAt(h[m], n) /\ Within(s, h[m])
    BY <1>2, <1>4
  <2>2. Within(s, h[n]) /\ h[n].strip[u] = PutBack(s, h[m].strip[u], n)
    BY <1>1, <2>1, WithinNext
  <2>3. ASSUME NEW o, Placed(s, o), Ordered(s, o, 0, s.strip[u])
        PROVE  Ordered(s, o, n, h[n].strip[u])
    <3>1. Ordered(s, o, n - 1, h[m].strip[u])
      BY <1>4, <2>3
    <3>2. Ordered(s, o, n, PutBack(s, h[m].strip[u], n))
      BY <1>1, <2>3, <3>1, OrderedNext
    <3> QED
      BY <2>2, <3>2
  <2> QED
    BY <2>2, <2>3
<1>5. Good(N)
  <2> HIDE DEF Good
  <2> SUFFICES ASSUME Bad # {} PROVE FALSE
    BY <1>1
  <2>1. PICK n \in Bad : \A m \in Bad : n <= m
    <3>1. Bad \in SUBSET Nat
      OBVIOUS
    <3> HIDE DEF Bad
    <3> QED
      BY <3>1, LeastOf
  <2>2. n \in 1..N /\ n - 1 \in 0..N /\ ~(n <= n - 1)
    BY <1>1, <1>3, <2>1
  <2>3. Good(n - 1)
    BY <2>1, <2>2
  <2> QED
    BY <1>4, <2>1, <2>2, <2>3
<1>6. \A o : Placed(s, o) /\ Ordered(s, o, 0, s.strip[u]) => h[N].strip[u] = o
  <2> SUFFICES ASSUME NEW o, Placed(s, o), Ordered(s, o, 0, s.strip[u]) PROVE h[N].strip[u] = o
    OBVIOUS
  <2>1. Ordered(s, o, N, h[N].strip[u]) /\ Distinct(o)
    BY <1>5 DEF Placed
  <2> QED
    BY <1>1, <2>1, OrderedLast
<1> QED
  BY <1>2, <1>5, <1>6

--------------------------------------------------------------------------------
\* The tabs are in another strip: they leave it one by one for the strip they came from.
Done(s, n) == {TabsOf(s)[j] : j \in 1..n}

LEMMA DoneIs ==
    ASSUME NEW s, s.drag \in DragSet, Distinct(TabsOf(s))
    PROVE  /\ Done(s, 0) = {} /\ Done(s, Len(s.drag.data)) = Dragged(s)
           /\ \A n \in 1..Len(s.drag.data) :
                  /\ Done(s, n) = Done(s, n - 1) \cup {TabsOf(s)[n]}
                  /\ TabsOf(s)[n] \notin Done(s, n - 1) /\ TabsOf(s)[n] \in Dragged(s)
                  /\ \A l \in 1..Len(s.drag.data) : l < n => TabsOf(s)[l] \in Done(s, n - 1)
           /\ \A n \in 0..Len(s.drag.data) : Done(s, n) \subseteq Dragged(s)
<1> DEFINE ts == TabsOf(s)
           N == Len(s.drag.data)
<1>1. /\ N \in Nat /\ Len(ts) = N /\ Dragged(s) = ToSet(ts)
  BY TabsOfIs
<1>2. /\ \A i \in 1..N : ts[i] \in ToSet(ts)
      /\ \A x : x \in ToSet(ts) <=> \E i \in 1..N : ts[i] = x
      /\ \A i, j \in 1..N : ts[i] = ts[j] => i = j
  BY <1>1, DistinctIs
<1> HIDE DEF ts, N
<1>3. Done(s, 0) = {}
  BY DEF Done
<1>4. Done(s, N) = Dragged(s)
  BY <1>1, <1>2 DEF Done, ts
<1>5. ASSUME NEW n \in 1..N
      PROVE  /\ Done(s, n) = Done(s, n - 1) \cup {ts[n]}
             /\ ts[n] \notin Done(s, n - 1) /\ ts[n] \in Dragged(s)
             /\ \A j \in 1..N : j < n => ts[j] \in Done(s, n - 1)
  <2>1. /\ 1..n = 1..(n - 1) \cup {n} /\ n \notin 1..(n - 1)
        /\ \A l \in 1..(n - 1) : l \in 1..N /\ l # n
        /\ \A l \in 1..N : l < n => l \in 1..(n - 1)
    BY <1>1
  <2>2. Done(s, n) = Done(s, n - 1) \cup {ts[n]}
    BY <2>1 DEF Done, ts
  <2>3. ts[n] \notin Done(s, n - 1)
    BY <1>2, <2>1 DEF Done, ts
  <2> QED
    BY <1>1, <1>2, <2>1, <2>2, <2>3 DEF Done, ts
<1>6. ASSUME NEW n \in 0..N PROVE Done(s, n) \subseteq Dragged(s)
  <2>1. \A j \in 1..n : j \in 1..N
    BY <1>1
  <2> QED
    BY <1>1, <1>2, <2>1 DEF Done, ts
<1> QED
  BY <1>3, <1>4, <1>5, <1>6 DEF ts, N

CarriedBack(s, n, x, u, w) ==
    /\ Partly(s, x) /\ x.strip = [s.strip EXCEPT ![w] = x.strip[w], ![u] = x.strip[u]]
    /\ x.window = IF x.strip[w] = <<>> THEN [s.window EXCEPT ![w] = "closing"] ELSE s.window
    /\ x.views = [dragged |-> s.views.dragged \ Done(s, n), animating |-> s.views.animating]
    /\ Distinct(x.strip[w]) /\ InOrder(x.strip[w], s.strip[w])
    /\ ToSet(x.strip[w]) = ToSet(s.strip[w]) \ Done(s, n)
    /\ Distinct(x.strip[u]) /\ ToSet(x.strip[u]) = ToSet(s.strip[u]) \cup Done(s, n)
Across(s, n, x) == CarriedBack(s, n, x, s.drag.source, s.drag.attached)

\* The strip they came from still has its other tabs in the order of o.
Behind(s, o) ==
    /\ Placed(s, o) /\ ToSet(s.strip[s.drag.source]) = ToSet(o) \ Dragged(s)
    /\ InOrder(s.strip[s.drag.source], o)

LEMMA AcrossNext ==
    ASSUME NEW s, Revertible(s), s.drag.attached # s.drag.source,
           ToSet(s.strip[s.drag.source]) \cap Dragged(s) = {},
           NEW i \in 1..Len(s.drag.data), NEW x, Across(s, i - 1, x)
    PROVE  /\ Across(s, i, RevertDragAt(x, i))
           /\ RevertDragAt(x, i).strip[s.drag.source]
                  = InsertTab(x.strip[s.drag.source], s.drag.data[i].index, TabsOf(s)[i])
<1> DEFINE u == s.drag.source
           w == s.drag.attached
           t == TabsOf(s)[i]
           k == s.drag.data[i].index
           c == Without(x.strip[w], {t})
           q == InsertTab(x.strip[u], k, t)
           r == RevertDragAt(x, i)
           n == i - 1
<1>1. /\ s \in StateSet /\ s.drag \in DragSet /\ u \in Browsers /\ w \in Browsers /\ u # w
      /\ s.drag.owner = w
      /\ s.strip \in [Browsers -> Seq(Tabs)] /\ Distinct(TabsOf(s)) /\ Distinct(s.strip[w])
      /\ s.window \in [Browsers -> WindowStates]
      /\ Dragged(s) \subseteq ToSet(s.strip[w]) /\ ToSet(s.strip[u]) \cap Dragged(s) = {}
  BY StateIs DEF Revertible
<1>2. /\ Partly(s, x) /\ x.strip = [s.strip EXCEPT ![w] = x.strip[w], ![u] = x.strip[u]]
      /\ x.window = IF x.strip[w] = <<>> THEN [s.window EXCEPT ![w] = "closing"] ELSE s.window
      /\ x.views = [dragged |-> s.views.dragged \ Done(s, n), animating |-> s.views.animating]
      /\ Distinct(x.strip[w]) /\ InOrder(x.strip[w], s.strip[w])
      /\ ToSet(x.strip[w]) = ToSet(s.strip[w]) \ Done(s, n)
      /\ Distinct(x.strip[u]) /\ ToSet(x.strip[u]) = ToSet(s.strip[u]) \cup Done(s, n)
  BY DEF Across, CarriedBack
<1>3. /\ Done(s, i) = Done(s, n) \cup {t} /\ t \notin Done(s, n) /\ t \in Dragged(s)
  BY <1>1, DoneIs
<1>4. t \in ToSet(x.strip[w]) /\ t \notin ToSet(x.strip[u]) /\ x.strip[w] # <<>>
  <2>1. t \in ToSet(x.strip[w]) /\ t \notin ToSet(x.strip[u])
    BY <1>1, <1>2, <1>3
  <2> QED
    BY <2>1, <1>2, DistinctIs
<1>5. GoesAcross(s, x, i, t, u, w, k, c, q)
  BY <1>1, <1>2, <1>4 DEF GoesAcross
<1> HIDE DEF u, w, t, k, c, q, r, n
<1>6. WentAcross(s, x, t, u, w, c, q, r)
  BY ONLY <1>5, RevertAcross DEF r
<1>7. /\ Partly(s, r) /\ r.strip = [x.strip EXCEPT ![w] = c, ![u] = q]
      /\ r.window = IF c = <<>> THEN [x.window EXCEPT ![w] = "closing"] ELSE x.window
      /\ r.views = [dragged |-> x.views.dragged \ {t}, animating |-> x.views.animating]
      /\ Distinct(c) /\ ToSet(c) = ToSet(x.strip[w]) \ {t} /\ InOrder(c, x.strip[w])
      /\ Distinct(q) /\ ToSet(q) = ToSet(x.strip[u]) \cup {t}
  BY <1>6 DEF WentAcross
<1>8. r.strip[w] = c /\ r.strip[u] = q /\ r.strip = [s.strip EXCEPT ![w] = c, ![u] = q]
  <2>1. x.strip \in [Browsers -> Seq(Tabs)]
    BY <1>2, StateIs DEF Partly
  <2>2. r.strip[w] = c /\ r.strip[u] = q
    BY <1>1, <1>7, <2>1
  <2>3. [x.strip EXCEPT ![w] = c, ![u] = q] = [s.strip EXCEPT ![w] = c, ![u] = q]
    BY <1>1, <1>2
  <2> QED
    BY <1>7, <2>2, <2>3
<1>9. r.window = IF c = <<>> THEN [s.window EXCEPT ![w] = "closing"] ELSE s.window
  BY <1>2, <1>4, <1>7
<1>10. r.views = [dragged |-> s.views.dragged \ Done(s, i), animating |-> s.views.animating]
  <2>1. x.views.dragged = s.views.dragged \ Done(s, n) /\ x.views.animating = s.views.animating
    BY <1>2
  <2>2. (s.views.dragged \ Done(s, n)) \ {t} = s.views.dragged \ Done(s, i)
    BY <1>3
  <2> QED
    BY <1>7, <2>1, <2>2
<1>11. InOrder(c, s.strip[w])
  BY <1>2, <1>7 DEF InOrder
<1>12. ToSet(c) = ToSet(s.strip[w]) \ Done(s, i) /\ ToSet(q) = ToSet(s.strip[u]) \cup Done(s, i)
  BY <1>2, <1>3, <1>7
<1>13. Across(s, i, r)
  <2>1. Partly(s, r) /\ r.strip = [s.strip EXCEPT ![w] = r.strip[w], ![u] = r.strip[u]]
    BY <1>7, <1>8
  <2>2. r.window = IF r.strip[w] = <<>> THEN [s.window EXCEPT ![w] = "closing"] ELSE s.window
    BY <1>8, <1>9
  <2>3. /\ Distinct(r.strip[w]) /\ InOrder(r.strip[w], s.strip[w])
        /\ ToSet(r.strip[w]) = ToSet(s.strip[w]) \ Done(s, i)
        /\ Distinct(r.strip[u]) /\ ToSet(r.strip[u]) = ToSet(s.strip[u]) \cup Done(s, i)
    BY <1>7, <1>8, <1>11, <1>12
  <2>4. CarriedBack(s, i, r, u, w)
    BY ONLY <2>1, <2>2, <2>3, <1>10 DEF CarriedBack
  <2> QED
    BY ONLY <2>4 DEF Across, u, w
<1> QED
  BY <1>8, <1>13 DEF r, q, u, k, t

LEMMA BehindNext ==
    ASSUME NEW s, s.drag \in DragSet, Distinct(TabsOf(s)), NEW o, Behind(s, o),
           NEW i \in 1..Len(s.drag.data), NEW c, Distinct(c), InOrder(c, o),
           ToSet(c) = ToSet(s.strip[s.drag.source]) \cup Done(s, i - 1)
    PROVE  InOrder(InsertTab(c, s.drag.data[i].index, TabsOf(s)[i]), o)
<1> DEFINE ts == TabsOf(s)
           k == s.drag.data[i].index
           t == ts[i]
           n == i - 1
           p == k - 1
           b == <<t>>
           d == InsertBlock(c, p, b)
<1>1. /\ Placed(s, o) /\ ToSet(s.strip[s.drag.source]) = ToSet(o) \ Dragged(s) /\ Distinct(o)
      /\ k \in 1..Len(o) /\ o[k] = t
      /\ Len(o) \in Nat /\ \A j \in 1..Len(o) : o[j] \in ToSet(o)
  <2>1. Placed(s, o) /\ ToSet(s.strip[s.drag.source]) = ToSet(o) \ Dragged(s) /\ Distinct(o)
        /\ k \in 1..Len(o) /\ o[k] = t
    BY DEF Behind, Placed
  <2> QED
    BY <2>1, DistinctIs
<1>2. /\ t \notin Done(s, n) /\ t \in Dragged(s) /\ Done(s, n) \subseteq Dragged(s)
      /\ \A l \in 1..Len(s.drag.data) : l < i => ts[l] \in Done(s, n)
  <2>1. n \in 0..Len(s.drag.data)
    OBVIOUS
  <2> QED
    BY <2>1, DoneIs
<1>3. \A j \in 1..(k - 1) : o[j] \in ToSet(c)
  <2> SUFFICES ASSUME NEW j \in 1..(k - 1), o[j] \notin ToSet(c) PROVE FALSE
    OBVIOUS
  <2>1. j \in 1..Len(o) /\ \A l \in 1..Len(s.drag.data) : o[j] = ts[l] => l < i
    BY <1>1, PlacedIs
  <2>2. o[j] \in ToSet(o)
    BY <1>1, <2>1
  <2>3. o[j] \in Dragged(s)
    BY <1>1, <2>2
  <2>4. PICK l \in 1..Len(s.drag.data) : ts[l] = o[j]
    <3>1. Dragged(s) = ToSet(ts) /\ DOMAIN ts = 1..Len(s.drag.data)
      BY TabsOfIs
    <3> QED
      BY <2>3, <3>1 DEF ToSet
  <2> QED
    BY <1>2, <2>1, <2>4
<1>4. ToSet(c) \subseteq ToSet(o) /\ t \notin ToSet(c)
  <2>1. Dragged(s) \subseteq ToSet(o)
    BY <1>1, PlacedIs
  <2> QED
    BY <1>1, <1>2, <2>1
<1>5. Putting(c, o, k, t, p, b, d)
  <2> HIDE DEF k, t
  <2> QED
    BY <1>1, <1>3, <1>4 DEF Putting
<1>6. t \in Tabs
  BY <1>1, DistinctIs
<1> HIDE DEF p, b, d, k, t
<1>7. p \in 0..Len(c) /\ InOrder(d, o)
  BY ONLY <1>5, PutInOrder
<1>8. InsertTab(c, k, t) = InsertBlock(c, k - 1, <<t>>)
  <2>1. k \in Nat \ {0} /\ k - 1 <= Len(c) /\ Distinct(c) /\ t \notin ToSet(c)
    <3>1. Len(c) \in Nat
      BY DistinctIs
    <3> QED
      BY <1>1, <1>4, <1>7, <3>1 DEF p
  <2> QED
    BY ONLY <2>1, <1>6, InsertTabIs
<1> QED
  BY <1>7, <1>8 DEF d, p, b, k, t

\* All tabs go back from another strip.
LEMMA RevertedAcross ==
    ASSUME NEW s, Revertible(s), s.drag.attached # s.drag.source,
           ToSet(s.strip[s.drag.source]) \cap Dragged(s) = {}
    PROVE  /\ Across(s, Len(s.drag.data), RevertDrag(s))
           /\ \A o : Behind(s, o) => RevertDrag(s).strip[s.drag.source] = o
<1> DEFINE N == Len(s.drag.data)
           u == s.drag.source
           w == s.drag.attached
<1>1. /\ s \in StateSet /\ s.drag \in DragSet /\ N \in Nat /\ u # Null /\ u \in Browsers /\ w \in Browsers
      /\ u # w /\ Distinct(TabsOf(s)) /\ Distinct(s.strip[u]) /\ Distinct(s.strip[w])
      /\ s.strip \in [Browsers -> Seq(Tabs)] /\ s.window \in [Browsers -> WindowStates]
      /\ s.views \in ViewSet /\ s.strip[w] # <<>>
  <2>1. /\ s \in StateSet /\ u \in Browsers /\ w \in Browsers /\ Distinct(TabsOf(s))
        /\ Distinct(s.strip[u]) /\ Distinct(s.strip[w])
        /\ Dragged(s) # {} /\ Dragged(s) \subseteq ToSet(s.strip[w])
    BY DEF Revertible
  <2>2. s.drag \in DragSet /\ s.strip \in [Browsers -> Seq(Tabs)] /\ s.window \in [Browsers -> WindowStates]
        /\ s.views \in ViewSet
    BY <2>1, StateIs
  <2>3. N \in Nat
    BY <2>2, TabsOfIs
  <2>4. s.strip[w] # <<>>
    BY <2>1, DistinctIs
  <2> QED
    BY <2>1, <2>2, <2>3, <2>4, StripsAssumption
<1>2. PICK h :
        /\ h[0] = s /\ \A n \in 1..N : h[n] = RevertDragAt(h[n - 1], n)
        /\ RevertDrag(s) = h[N]
  <2>1. \E h : /\ h[0] = s /\ \A n \in 1..N : h[n] = RevertDragAt(h[n - 1], n)
               /\ RevertDrag(s) = IF w = u THEN StoppedDragging(h[N], Dragged(s)) ELSE h[N]
    BY <1>1, RevertDragIs
  <2> QED
    BY <1>1, <2>1
<1> DEFINE Good(n) == /\ Across(s, n, h[n])
                      /\ \A o : Behind(s, o) => InOrder(h[n].strip[u], o)
           Bad == {n \in 0..N : ~Good(n)}
<1>3. Good(0)
  <2>1. Done(s, 0) = {}
    BY <1>1, DoneIs
  <2>2. Partly(s, s) /\ s.strip = [s.strip EXCEPT ![w] = s.strip[w], ![u] = s.strip[u]]
    BY <1>1 DEF Partly
  <2>3. s.views = [dragged |-> s.views.dragged \ Done(s, 0), animating |-> s.views.animating]
    <3>1. s.views = [dragged |-> s.views.dragged, animating |-> s.views.animating]
      BY <1>1 DEF ViewSet
    <3>2. s.views.dragged \ Done(s, 0) = s.views.dragged
      BY <2>1
    <3> QED
      BY <3>1, <3>2
  <2>4. CarriedBack(s, 0, s, u, w)
    BY <1>1, <2>1, <2>2, <2>3 DEF CarriedBack, InOrder
  <2>5. \A o : Behind(s, o) => InOrder(s.strip[u], o)
    BY DEF Behind
  <2> QED
    BY <1>2, <2>4, <2>5 DEF Across
<1>4. ASSUME NEW n \in 1..N, Good(n - 1) PROVE Good(n)
  <2> DEFINE m == n - 1
  <2>1. h[n] = RevertDragAt(h[m], n) /\ Across(s, m, h[m])
    BY <1>2, <1>4
  <2>2. Across(s, n, h[n]) /\ h[n].strip[u] = InsertTab(h[m].strip[u], s.drag.data[n].index, TabsOf(s)[n])
    <3>1. /\ Across(s, n, RevertDragAt(h[m], n))
          /\ RevertDragAt(h[m], n).strip[u] = InsertTab(h[m].strip[u], s.drag.data[n].index, TabsOf(s)[n])
      BY <1>1, <2>1, AcrossNext
    <3> QED
      BY <2>1, <3>1
  <2>3. ASSUME NEW o, Behind(s, o) PROVE InOrder(h[n].strip[u], o)
    <3> DEFINE c == h[m].strip[u]
    <3>1. InOrder(c, o)
      BY <1>4, <2>3
    <3>2. Distinct(c) /\ ToSet(c) = ToSet(s.strip[u]) \cup Done(s, n - 1)
      BY <2>1 DEF Across, CarriedBack
    <3>3. InOrder(InsertTab(c, s.drag.data[n].index, TabsOf(s)[n]), o)
      <4> HIDE DEF c
      <4> QED
        BY <1>1, <2>3, <3>1, <3>2, BehindNext
    <3> QED
      BY <2>2, <3>3
  <2> QED
    BY <2>2, <2>3
<1>5. Good(N)
  <2> HIDE DEF Good
  <2> SUFFICES ASSUME Bad # {} PROVE FALSE
    BY <1>1
  <2>1. PICK n \in Bad : \A m \in Bad : n <= m
    <3>1. Bad \in SUBSET Nat
      OBVIOUS
    <3> HIDE DEF Bad
    <3> QED
      BY <3>1, LeastOf
  <2>2. n \in 1..N /\ n - 1 \in 0..N /\ ~(n <= n - 1)
    BY <1>1, <1>3, <2>1
  <2>3. Good(n - 1)
    BY <2>1, <2>2
  <2> QED
    BY <1>4, <2>1, <2>2, <2>3
<1>6. ASSUME NEW o, Behind(s, o) PROVE h[N].strip[u] = o
  <2> DEFINE q == h[N].strip[u]
  <2>1. InOrder(q, o)
    BY <1>5, <1>6
  <2>2. Distinct(q) /\ ToSet(q) = ToSet(s.strip[u]) \cup Done(s, N)
    BY <1>5 DEF Across, CarriedBack
  <2>3. Done(s, N) = Dragged(s)
    BY <1>1, DoneIs
  <2>4. Placed(s, o) /\ ToSet(s.strip[u]) = ToSet(o) \ Dragged(s)
    BY <1>6 DEF Behind
  <2>5. Distinct(o) /\ Dragged(s) \subseteq ToSet(o)
    BY <1>1, <2>4, PlacedIs DEF Placed
  <2>6. ToSet(q) = ToSet(o)
    BY <2>2, <2>3, <2>4, <2>5
  <2> HIDE DEF q
  <2>7. q = o
    BY <2>1, <2>2, <2>5, <2>6, SameOrder DEF InOrder
  <2> QED
    BY <2>7 DEF q
<1> QED
  BY <1>2, <1>5, <1>6

--------------------------------------------------------------------------------
\* The end of a drag.
Stop(s) == [s EXCEPT !.drag.state = "Stopped", !.drag.tracked = Null]
EndedBy(s, c) == IF s.drag.state = "NotStarted" THEN Stop(s)
                 ELSE IF c THEN RevertDrag(Stop(s)) ELSE CompleteDrag(Stop(s))

LEMMA StopIs ==
    ASSUME NEW s \in StateSet
    PROVE  /\ Stop(s) \in StateSet /\ Stop(s).strip = s.strip /\ Stop(s).window = s.window
           /\ Stop(s).views = s.views /\ Stop(s).capture = s.capture /\ Stop(s).button = s.button
           /\ Stop(s).stack = s.stack /\ Stop(s).history = s.history /\ Stop(s).failed = s.failed
           /\ Stop(s).drag.alive = s.drag.alive /\ Stop(s).drag.owner = s.drag.owner
           /\ Stop(s).drag.source = s.drag.source /\ Stop(s).drag.attached = s.drag.attached
           /\ Stop(s).drag.data = s.drag.data
           /\ Dragged(Stop(s)) = Dragged(s) /\ TabsOf(Stop(s)) = TabsOf(s)
<1> DEFINE d == [s.drag EXCEPT !.state = "Stopped", !.tracked = Null]
<1>1. s.drag \in DragSet
  BY StateIs
<1>2. d \in DragSet
  BY <1>1 DEF DragSet, States, B0
<1>3. /\ d.alive = s.drag.alive /\ d.owner = s.drag.owner /\ d.source = s.drag.source
      /\ d.attached = s.drag.attached /\ d.data = s.drag.data
  BY <1>1 DEF DragSet
<1>4. Stop(s) = [s EXCEPT !.drag = d]
  <2>1. Stop(s) = [s EXCEPT !.drag = [[@ EXCEPT !.state = "Stopped"] EXCEPT !.tracked = Null]]
    BY DEF Stop, StateSet
  <2>2. [[s.drag EXCEPT !.state = "Stopped"] EXCEPT !.tracked = Null] = d
    OBVIOUS
  <2> HIDE DEF d
  <2> QED
    BY <2>1, <2>2 DEF StateSet
<1> HIDE DEF d
<1>5. /\ Stop(s) \in StateSet /\ Stop(s).strip = s.strip /\ Stop(s).window = s.window
      /\ Stop(s).views = s.views /\ Stop(s).capture = s.capture /\ Stop(s).button = s.button
      /\ Stop(s).stack = s.stack /\ Stop(s).history = s.history /\ Stop(s).failed = s.failed
      /\ Stop(s).drag = d
  BY <1>2, <1>4 DEF StateSet
<1>6. Dragged(Stop(s)) = Dragged(s) /\ TabsOf(Stop(s)) = TabsOf(s)
  BY <1>3, <1>5 DEF Dragged, TabsOf
<1> QED
  BY <1>3, <1>5, <1>6

LEMMA AnimatedIs ==
    ASSUME NEW m \in StateSet, NEW T \in SUBSET Tabs
    PROVE  /\ StoppedDragging(m, T) \in StateSet /\ StoppedDragging(m, T).strip = m.strip
           /\ StoppedDragging(m, T).window = m.window
           /\ StoppedDragging(m, T).views.dragged = m.views.dragged
           /\ StoppedDragging(m, T).views.animating = m.views.animating \cup T
           /\ StoppedDragging(m, T).drag = m.drag
           /\ StoppedDragging(m, T).capture = m.capture /\ StoppedDragging(m, T).button = m.button
           /\ StoppedDragging(m, T).stack = m.stack /\ StoppedDragging(m, T).history = m.history
           /\ StoppedDragging(m, T).failed = m.failed
<1> DEFINE v == [m.views EXCEPT !.animating = m.views.animating \cup T]
<1>1. m.views \in ViewSet
  BY StateIs
<1>2. v \in ViewSet /\ v.dragged = m.views.dragged /\ v.animating = m.views.animating \cup T
  BY <1>1 DEF ViewSet
<1>3. StoppedDragging(m, T) = [m EXCEPT !.views = v]
  BY DEF StoppedDragging, StateSet
<1> HIDE DEF v
<1>4. /\ StoppedDragging(m, T) \in StateSet /\ StoppedDragging(m, T).strip = m.strip
      /\ StoppedDragging(m, T).window = m.window /\ StoppedDragging(m, T).views = v
      /\ StoppedDragging(m, T).drag = m.drag
      /\ StoppedDragging(m, T).capture = m.capture /\ StoppedDragging(m, T).button = m.button
      /\ StoppedDragging(m, T).stack = m.stack /\ StoppedDragging(m, T).history = m.history
      /\ StoppedDragging(m, T).failed = m.failed
  BY <1>2, <1>3 DEF StateSet
<1> QED
  BY <1>2, <1>4

\* r is m with the drag over.
Over(m, e, r) ==
    /\ r \in StateSet /\ r.strip = m.strip /\ r.window = m.window /\ r.views = m.views
    /\ r.drag = NoDrag /\ r.capture = m.capture /\ r.button = m.button /\ r.stack = m.stack
    /\ r.failed = m.failed /\ r.history.before = m.history.before
    /\ r.history.disturbed = m.history.disturbed /\ r.history.ended = e
    /\ r.history.quick = m.history.quick

LEMMA EndImplIs ==
    ASSUME NEW s \in StateSet, NEW c \in BOOLEAN, NEW m \in StateSet, m = EndedBy(s, c),
           m.drag.owner = (IF m.drag.attached # Null THEN m.drag.attached ELSE m.drag.source),
           NEW e, e = IF s.drag.state = "NotStarted" THEN "none" ELSE IF c THEN "reverted" ELSE "completed"
    PROVE  Over(m, e, EndDragImpl(s, c))
<1> DEFINE d == [m.drag EXCEPT !.data = <<>>]
           hi == [m.history EXCEPT !.ended = e]
           ended == [m EXCEPT !.drag.data = <<>>, !.history.ended = e]
           r == [ended EXCEPT !.drag = NoDrag]
<1>1. m.drag \in DragSet /\ m.history \in HistorySet /\ NoDrag \in DragSet
  BY StateIs, NoDragIs
<1>2. d.owner = m.drag.owner
  BY <1>1 DEF DragSet
<1>3. /\ hi \in HistorySet /\ hi.before = m.history.before /\ hi.disturbed = m.history.disturbed
      /\ hi.ended = e /\ hi.quick = m.history.quick
  BY <1>1 DEF HistorySet
<1>4. ended = [m EXCEPT !.drag = d, !.history = hi]
  BY DEF StateSet
<1> HIDE DEF d, hi
<1>5. EndDragImpl(s, c) = r
  <2> DEFINE owning == IF m.drag.attached # Null THEN m.drag.attached ELSE m.drag.source
  <2>1. EndDragImpl(s, c) = IF owning = ended.drag.owner THEN r
                            ELSE Check(ended, FALSE, "DestroyDragController()")
    BY DEF EndDragImpl, EndedBy, Stop
  <2>2. ended.drag = d
    BY <1>4 DEF StateSet
  <2> QED
    BY <1>2, <2>1, <2>2
<1> HIDE DEF ended
<1>6. r = [m EXCEPT !.drag = NoDrag, !.history = hi]
  BY <1>4 DEF StateSet
<1> HIDE DEF r
<1>7. /\ r \in StateSet /\ r.strip = m.strip /\ r.window = m.window /\ r.views = m.views
      /\ r.drag = NoDrag /\ r.capture = m.capture /\ r.button = m.button /\ r.stack = m.stack
      /\ r.failed = m.failed /\ r.history = hi
  BY <1>1, <1>3, <1>6 DEF StateSet
<1> QED
  BY <1>3, <1>5, <1>7 DEF Over

LEMMA OverFine ==
    ASSUME NEW m, NEW e, NEW r, Over(m, e, r), Laid(m.strip), Laid(m.history.before),
           \A w \in Browsers : /\ m.strip[w] # <<>> => m.window[w] = "open"
                               /\ m.window[w] = "open" => m.strip[w] # <<>>
                               /\ m.window[w] # "hidden",
           m.views.animating \subseteq m.views.dragged, Unfailing(m),
           e = "reverted" /\ ~m.history.disturbed => m.strip = m.history.before
    PROVE  Body(r)
<1>1. /\ r \in StateSet /\ r.strip = m.strip /\ r.window = m.window /\ r.views = m.views
      /\ r.drag = NoDrag /\ r.failed = m.failed /\ r.history.before = m.history.before
      /\ r.history.disturbed = m.history.disturbed /\ r.history.ended = e
      /\ r.history.quick = m.history.quick
      /\ ~r.drag.alive /\ r.drag.state = "NotStarted"
  BY NoDragIs DEF Over
<1>2. Settled(r)
  BY <1>1 DEF Settled
<1>3. Owned(r)
  BY <1>1 DEF Owned
<1>4. Seen(r)
  BY <1>1 DEF Seen, Unfailing
<1>5. Undone(r)
  BY <1>1 DEF Undone
<1>6. Restored(r) /\ Whole(r)
  BY <1>1 DEF Restored, Whole
<1> QED
  BY <1>1, <1>2, <1>3, <1>4, <1>5, <1>6 DEF Body, Sound

--------------------------------------------------------------------------------
\* What the controller still knows when nothing was opened or closed.
LEMMA UndoneIs ==
    ASSUME NEW s, Sound(s), s.drag.alive, ~s.history.disturbed, s.drag.source \in Browsers,
           NEW o, o = s.history.before[s.drag.source]
    PROVE  /\ Placed(s, o) /\ Dragged(s) \subseteq ToSet(o)
           /\ \A w \in Browsers : w # s.drag.source =>
                  /\ ToSet(s.history.before[w]) \cap Dragged(s) = {}
                  /\ ToSet(s.strip[w]) = ToSet(s.history.before[w])
                         \cup (IF w = s.drag.owner THEN Dragged(s) ELSE {})
           /\ \A w \in Browsers : w # s.drag.source /\ w # s.drag.owner =>
                  s.strip[w] = s.history.before[w]
           /\ ToSet(s.strip[s.drag.source]) = (ToSet(o) \ Dragged(s))
                  \cup (IF s.drag.source = s.drag.owner THEN Dragged(s) ELSE {})
           /\ \A w \in Browsers : \A x, y : x \notin Dragged(s) /\ y \notin Dragged(s) =>
                  (Before(s.strip[w], x, y) <=> Before(s.history.before[w], x, y))
<1> DEFINE u == s.drag.source
           b == s.history.before
           D == Dragged(s)
<1>1. /\ s \in StateSet /\ Laid(s.strip) /\ Laid(b) /\ Undone(s) /\ s.drag \in DragSet /\ u # Null
  BY StateIs, StripsAssumption DEF Sound
<1>2. /\ Known(s.drag.data, b, u)
      /\ \A w \in Browsers :
           Like(s.strip[w], b[w], (ToSet(b[w]) \ D) \cup (IF w = s.drag.owner THEN D ELSE {}), D)
  BY <1>1 DEF Undone
<1>3. /\ Distinct(o) /\ o = b[u] /\ \A w \in Browsers : Distinct(b[w]) /\ Distinct(s.strip[w])
      /\ \A w \in Browsers : w # u => ToSet(b[w]) \cap ToSet(o) = {}
  BY <1>1, LaidIs
<1>4. Placed(s, o)
  <2>1. \A i \in 1..Len(s.drag.data) : TabsOf(s)[i] = s.drag.data[i].tab
    BY <1>1, TabsOfIs
  <2> HIDE DEF u, b
  <2>2. \A i \in 1..Len(s.drag.data) : /\ s.drag.data[i].index \in 1..Len(o)
                                        /\ o[s.drag.data[i].index] = s.drag.data[i].tab
    BY <1>2, <1>3 DEF Known
  <2>3. \A i, j \in 1..Len(s.drag.data) : i < j => s.drag.data[i].index < s.drag.data[j].index
    BY <1>2 DEF Known
  <2> QED
    BY <1>3, <2>1, <2>2, <2>3 DEF Placed
<1>5. D \subseteq ToSet(o)
  BY <1>1, <1>4, PlacedIs
<1>6. \A w \in Browsers :
         /\ ToSet(s.strip[w]) = (ToSet(b[w]) \ D) \cup (IF w = s.drag.owner THEN D ELSE {})
         /\ \A x, y : x \notin D /\ y \notin D => (Before(s.strip[w], x, y) <=> Before(b[w], x, y))
  BY <1>2 DEF Like
<1>7. ASSUME NEW w \in Browsers, w # u
      PROVE  /\ ToSet(b[w]) \cap D = {}
             /\ ToSet(s.strip[w]) = ToSet(b[w]) \cup (IF w = s.drag.owner THEN D ELSE {})
  BY <1>3, <1>5, <1>6, <1>7
<1>8. ASSUME NEW w \in Browsers, w # u, w # s.drag.owner PROVE s.strip[w] = b[w]
  <2>1. ToSet(s.strip[w]) = ToSet(b[w]) /\ ToSet(b[w]) \cap D = {}
    BY <1>7, <1>8
  <2>2. Distinct(s.strip[w]) /\ Distinct(b[w])
    BY <1>3
  <2>3. \A x, y : Before(s.strip[w], x, y) => Before(b[w], x, y)
    <3> SUFFICES ASSUME NEW x, NEW y, Before(s.strip[w], x, y) PROVE Before(b[w], x, y)
      OBVIOUS
    <3>1. x \in ToSet(s.strip[w]) /\ y \in ToSet(s.strip[w])
      BY <2>2, BeforeIn
    <3> QED
      BY <1>6, <2>1, <3>1
  <2> QED
    BY <2>1, <2>2, <2>3, SameOrder
<1> QED
  BY <1>3, <1>4, <1>5, <1>6, <1>7, <1>8

\* A drag that has started, and can end.
LEMMA StartedIs ==
    ASSUME NEW s, Sound(s), s.drag.alive, s.drag.state \notin {"NotStarted", "WaitingToDragTabs"}
    PROVE  /\ s \in StateSet /\ s.drag \in DragSet /\ s.views \in ViewSet
           /\ s.strip \in [Browsers -> Seq(Tabs)] /\ s.window \in [Browsers -> WindowStates]
           /\ s.drag.attached \in Browsers /\ s.drag.owner = s.drag.attached /\ s.drag.attached # Null
           /\ Distinct(TabsOf(s)) /\ Dragged(s) # {} /\ Dragged(s) \subseteq Tabs
           /\ Dragged(s) \subseteq ToSet(s.strip[s.drag.attached])
           /\ Laid(s.strip) /\ Laid(s.history.before)
           /\ \A w \in Browsers : /\ s.strip[w] # <<>> => s.window[w] = "open"
                                  /\ s.window[w] = "open" => s.strip[w] # <<>>
                                  /\ s.window[w] # "hidden"
           /\ s.views.animating \subseteq s.views.dragged
           /\ Dragged(s) \subseteq s.views.dragged \ s.views.animating
           /\ Unfailing(s)
<1>1. /\ s \in StateSet /\ Laid(s.strip) /\ Laid(s.history.before) /\ Settled(s) /\ Owned(s) /\ Seen(s)
      /\ s.drag \in DragSet /\ s.views \in ViewSet
      /\ s.strip \in [Browsers -> Seq(Tabs)] /\ s.window \in [Browsers -> WindowStates]
  BY StateIs DEF Sound
<1>2. /\ s.drag.data # <<>> /\ Distinct(TabsOf(s)) /\ s.drag.owner = s.drag.attached
      /\ s.drag.owner \in Browsers /\ Dragged(s) \subseteq ToSet(s.strip[s.drag.owner])
  BY <1>1 DEF Owned
<1>3. Dragged(s) # {} /\ Dragged(s) \subseteq Tabs
  BY <1>1, <1>2, TabsOfIs
<1>4. \A w \in Browsers : /\ s.strip[w] # <<>> => s.window[w] = "open"
                          /\ s.window[w] = "open" => s.strip[w] # <<>>
                          /\ s.window[w] # "hidden"
  BY <1>1 DEF Settled
<1>5. /\ s.views.animating \subseteq s.views.dragged
      /\ Dragged(s) \subseteq s.views.dragged \ s.views.animating
      /\ Unfailing(s)
  BY <1>1 DEF Seen
<1> QED
  BY <1>1, <1>2, <1>3, <1>4, <1>5, StripsAssumption

LEMMA LaterAll ==
    ASSUME NEW ts, Distinct(ts)
    PROVE  Later(ts, 0) = ts
<1>1. 0 \in 0..Len(ts) /\ Len(ts) \in Nat /\ ts \in Seq(Tabs)
  BY DistinctIs
<1>2. /\ Distinct(Later(ts, 0)) /\ Len(Later(ts, 0)) = Len(ts) - 0
      /\ \A i \in 1..(Len(ts) - 0) : Later(ts, 0)[i] = ts[0 + i]
  <2> DEFINE n == 0
  <2>1. n \in 0..Len(ts)
    BY <1>1
  <2> HIDE DEF n
  <2>2. /\ Distinct(Later(ts, n)) /\ Len(Later(ts, n)) = Len(ts) - n
        /\ \A i \in 1..(Len(ts) - n) : Later(ts, n)[i] = ts[n + i]
    <3>1. Distinct(ts)
      OBVIOUS
    <3> QED
      BY ONLY <2>1, <3>1, LaterIs
  <2> QED
    BY <2>2 DEF n
<1>3. Later(ts, 0) \in Seq(Tabs)
  BY <1>2 DEF Distinct
<1>4. Len(Later(ts, 0)) = Len(ts) /\ \A i \in 1..Len(ts) : Later(ts, 0)[i] = ts[i]
  BY <1>1, <1>2
<1> QED
  BY <1>1, <1>3, <1>4, SeqEqual

\* Completing leaves the tabs where they are.
LEMMA CompletedFine ==
    ASSUME NEW s, Sound(s), s.drag.alive, s.drag.state \notin {"NotStarted", "WaitingToDragTabs"}
    PROVE  /\ Body(EndDragImpl(s, FALSE)) /\ Over(CompleteDrag(Stop(s)), "completed", EndDragImpl(s, FALSE))
           /\ CompleteDrag(Stop(s)).strip = s.strip /\ CompleteDrag(Stop(s)).window = s.window
           /\ CompleteDrag(Stop(s)).capture = s.capture /\ CompleteDrag(Stop(s)).button = s.button
           /\ CompleteDrag(Stop(s)).stack = s.stack
           /\ CompleteDrag(Stop(s)).history = s.history
<1> DEFINE z == Stop(s)
           m == CompleteDrag(z)
           w == s.drag.attached
           D == Dragged(s)
<1>1. /\ s \in StateSet /\ s.drag \in DragSet
      /\ w \in Browsers /\ s.drag.owner = w /\ w # Null
      /\ D # {} /\ D \subseteq Tabs /\ D \subseteq ToSet(s.strip[w])
      /\ Laid(s.strip) /\ Laid(s.history.before)
      /\ \A x \in Browsers : /\ s.strip[x] # <<>> => s.window[x] = "open"
                             /\ s.window[x] = "open" => s.strip[x] # <<>>
                             /\ s.window[x] # "hidden"
      /\ s.views.animating \subseteq s.views.dragged
      /\ D \subseteq s.views.dragged \ s.views.animating
      /\ Unfailing(s)
  BY StartedIs
<1>2. /\ z \in StateSet /\ z.strip = s.strip /\ z.window = s.window
      /\ z.views = s.views /\ z.capture = s.capture /\ z.button = s.button
      /\ z.stack = s.stack /\ z.history = s.history /\ z.failed = s.failed
      /\ z.drag.owner = s.drag.owner /\ z.drag.attached = s.drag.attached
      /\ Dragged(z) = D
  BY <1>1, StopIs
<1> HIDE DEF z, D
<1>3. m = StoppedDragging(z, D)
  <2>1. z.drag \in DragSet /\ Dragged(z) \subseteq ToSet(z.strip[w])
    BY <1>1, <1>2, StateIs
  <2>2. MatchingViews(z, w) = D
    BY <1>2, <2>1, MatchIs
  <2> QED
    BY <1>2, <2>2 DEF CompleteDrag
<1> HIDE DEF m
<1>4. /\ m \in StateSet /\ m.strip = s.strip /\ m.window = s.window
      /\ m.views.dragged = s.views.dragged /\ m.views.animating = s.views.animating \cup D
      /\ m.drag = z.drag /\ m.capture = s.capture /\ m.button = s.button /\ m.stack = s.stack
      /\ m.history = s.history /\ m.failed = s.failed
  BY <1>1, <1>2, <1>3, AnimatedIs
<1>5. Over(m, "completed", EndDragImpl(s, FALSE))
  <2> DEFINE e == "completed"
             c == FALSE
  <2>1. /\ m \in StateSet /\ m = EndedBy(s, c) /\ c \in BOOLEAN
        /\ m.drag.owner = (IF m.drag.attached # Null THEN m.drag.attached ELSE m.drag.source)
        /\ e = IF s.drag.state = "NotStarted" THEN "none" ELSE IF c THEN "reverted" ELSE "completed"
    BY <1>1, <1>2, <1>4 DEF EndedBy, m, z
  <2> HIDE DEF e, c
  <2>2. Over(m, e, EndDragImpl(s, c))
    BY <1>1, <2>1, EndImplIs
  <2> QED
    BY <2>2 DEF e, c
<1>6. Body(EndDragImpl(s, FALSE))
  <2>1. /\ Laid(m.strip) /\ Laid(m.history.before)
        /\ \A x \in Browsers : /\ m.strip[x] # <<>> => m.window[x] = "open"
                               /\ m.window[x] = "open" => m.strip[x] # <<>>
                               /\ m.window[x] # "hidden"
        /\ m.views.animating \subseteq m.views.dragged /\ Unfailing(m)
        /\ ~("completed" = "reverted")
    BY <1>1, <1>4 DEF Unfailing
  <2> QED
    BY <1>5, <2>1, OverFine
<1> QED
  BY <1>4, <1>5, <1>6 DEF m, z

LEMMA StopRevertible ==
    ASSUME NEW s, Sound(s), s.drag.alive, s.drag.state \notin {"NotStarted", "WaitingToDragTabs"},
           s.drag.source \in Browsers
    PROVE  Revertible(Stop(s))
<1>1. /\ s \in StateSet /\ s.drag.attached \in Browsers /\ s.drag.owner = s.drag.attached
      /\ Distinct(TabsOf(s)) /\ Dragged(s) # {} /\ Dragged(s) \subseteq ToSet(s.strip[s.drag.attached])
      /\ Laid(s.strip)
  BY StartedIs
<1>2. Distinct(s.strip[s.drag.attached]) /\ Distinct(s.strip[s.drag.source])
  BY <1>1, LaidIs
<1>3. /\ Stop(s) \in StateSet /\ Stop(s).strip = s.strip
      /\ Stop(s).drag.owner = s.drag.owner
      /\ Stop(s).drag.source = s.drag.source /\ Stop(s).drag.attached = s.drag.attached
      /\ Dragged(Stop(s)) = Dragged(s) /\ TabsOf(Stop(s)) = TabsOf(s)
  BY <1>1, StopIs
<1> QED
  BY <1>1, <1>2, <1>3 DEF Revertible

\* What the revert leaves, wherever the tabs were: then the end of the drag is sound.
Put(s, m) ==
    /\ m \in StateSet /\ Laid(m.strip) /\ m.history = s.history /\ m.failed = s.failed
    /\ \A w \in Browsers : /\ m.strip[w] # <<>> => m.window[w] = "open"
                           /\ m.window[w] = "open" => m.strip[w] # <<>>
                           /\ m.window[w] # "hidden"
    /\ m.views.animating \subseteq m.views.dragged
    /\ ~s.history.disturbed => m.strip = s.history.before
    /\ m.drag.owner = s.drag.owner /\ m.drag.attached = s.drag.attached
    /\ m.button = s.button /\ m.stack = s.stack /\ m.capture \in {s.capture, Null}

LEMMA PutWithin ==
    ASSUME NEW s, Sound(s), s.drag.alive, s.drag.state \notin {"NotStarted", "WaitingToDragTabs"},
           s.drag.source \in Browsers, s.drag.source = s.drag.attached
    PROVE  Put(s, RevertDrag(Stop(s)))
<1> DEFINE z == Stop(s)
           m == RevertDrag(z)
           u == s.drag.source
           D == Dragged(s)
           b == s.history.before
<1>1. /\ s \in StateSet /\ s.drag \in DragSet /\ s.strip \in [Browsers -> Seq(Tabs)]
      /\ u \in Browsers /\ s.drag.owner = u /\ u # Null /\ s.drag.attached = u
      /\ D # {} /\ D \subseteq Tabs /\ D \subseteq ToSet(s.strip[u]) /\ Distinct(TabsOf(s))
      /\ Laid(s.strip) /\ Laid(b)
      /\ \A x \in Browsers : /\ s.strip[x] # <<>> => s.window[x] = "open"
                             /\ s.window[x] = "open" => s.strip[x] # <<>>
                             /\ s.window[x] # "hidden"
      /\ s.views.animating \subseteq s.views.dragged
      /\ D \subseteq s.views.dragged \ s.views.animating
  BY StartedIs
<1>2. /\ z \in StateSet /\ z.strip = s.strip /\ z.window = s.window
      /\ z.views = s.views /\ z.capture = s.capture /\ z.button = s.button
      /\ z.stack = s.stack /\ z.history = s.history /\ z.failed = s.failed
      /\ z.drag.owner = s.drag.owner /\ z.drag.attached = s.drag.attached
      /\ z.drag.source = s.drag.source /\ z.drag.data = s.drag.data
      /\ Dragged(z) = D /\ TabsOf(z) = TabsOf(s)
  BY <1>1, StopIs
<1>3. Revertible(z)
  BY StopRevertible
<1> HIDE DEF z, D
<1>4. PICK x : /\ m = StoppedDragging(x, Dragged(z)) /\ Within(z, x)
               /\ \A o : Placed(z, o) /\ Ordered(z, o, 0, z.strip[z.drag.source])
                             => x.strip[z.drag.source] = o
  BY <1>2, <1>3, RevertedWithin
<1> HIDE DEF m
<1>5. /\ Partly(z, x) /\ x.strip = [s.strip EXCEPT ![u] = x.strip[u]]
      /\ x.window = s.window /\ x.views = s.views
      /\ Distinct(x.strip[u]) /\ ToSet(x.strip[u]) = ToSet(s.strip[u])
  BY <1>2, <1>4 DEF Within
<1>6. /\ x \in StateSet /\ x.drag = z.drag /\ x.button = s.button /\ x.stack = s.stack
      /\ x.history = s.history /\ x.failed = s.failed
      /\ x.capture \in {s.capture, Null}
  BY <1>2, <1>5 DEF Partly
<1>7. /\ m \in StateSet /\ m.strip = x.strip /\ m.window = s.window
      /\ m.views.dragged = s.views.dragged /\ m.views.animating = s.views.animating \cup D
      /\ m.drag = z.drag /\ m.capture \in {s.capture, Null} /\ m.button = s.button /\ m.stack = s.stack
      /\ m.history = s.history /\ m.failed = s.failed
  BY <1>1, <1>2, <1>4, <1>5, <1>6, AnimatedIs
<1>8. \A w \in Browsers : /\ Distinct(x.strip[w]) /\ ToSet(x.strip[w]) = ToSet(s.strip[w])
                          /\ w # u => x.strip[w] = s.strip[w]
  BY <1>1, <1>5, LaidIs
<1>9. Laid(m.strip)
  <2>1. \A w, y \in Browsers : w # y => ToSet(s.strip[w]) \cap ToSet(s.strip[y]) = {}
    BY <1>1, LaidIs
  <2>2. \A w, y \in Browsers : w # y => ToSet(x.strip[w]) \cap ToSet(x.strip[y]) = {}
    BY <1>8, <2>1
  <2>3. Laid(x.strip)
    BY <1>8, <2>2 DEF Laid
  <2> QED
    BY <1>7, <2>3
<1>10. \A w \in Browsers : x.strip[w] = <<>> <=> s.strip[w] = <<>>
  <2> SUFFICES ASSUME NEW w \in Browsers PROVE x.strip[w] = <<>> <=> s.strip[w] = <<>>
    OBVIOUS
  <2>1. Distinct(x.strip[w]) /\ Distinct(s.strip[w]) /\ ToSet(x.strip[w]) = ToSet(s.strip[w])
    BY <1>1, <1>8, LaidIs
  <2>2. x.strip[w] = <<>> <=> ToSet(x.strip[w]) = {}
    BY <2>1, DistinctIs
  <2>3. s.strip[w] = <<>> <=> ToSet(s.strip[w]) = {}
    BY <2>1, DistinctIs
  <2> QED
    BY <2>1, <2>2, <2>3
<1>11. ASSUME ~s.history.disturbed PROVE m.strip = b
  <2> DEFINE o == b[u]
  <2>1. /\ Placed(s, o)
        /\ \A w \in Browsers : w # u => s.strip[w] = b[w]
        /\ ToSet(s.strip[u]) = (ToSet(o) \ D) \cup D
        /\ \A a, c : a \notin D /\ c \notin D => (Before(s.strip[u], a, c) <=> Before(o, a, c))
        /\ D \subseteq ToSet(o)
    BY <1>1, <1>11, UndoneIs DEF D
  <2>2. Distinct(o)
    BY <1>1, LaidIs
  <2> HIDE DEF o
  <2>3. Placed(z, o)
    BY <1>2, <2>1 DEF Placed
  <2>4. s.strip[u] = o \/ Block(s.strip[u], TabsOf(s))
    BY <1>1, <1>11 DEF Sound, Undone, o
  <2>5. Ordered(z, o, 0, s.strip[u])
    <3>1. CASE s.strip[u] = o
      BY <1>2, <3>1 DEF Ordered
    <3>2. CASE Block(s.strip[u], TabsOf(s))
      <4> DEFINE ts == TabsOf(s)
                 q == s.strip[u]
      <4>1. PICK c, p : /\ Distinct(c) /\ p \in 0..Len(c) /\ ToSet(c) \cap ToSet(ts) = {}
                        /\ q = InsertBlock(c, p, ts)
        BY <3>2 DEF Block
      <4>2. Distinct(ts) /\ Later(ts, 0) = ts /\ D = ToSet(ts)
        BY <1>1, LaterAll, TabsOfIs DEF D
      <4> HIDE DEF ts, q
      <4>3. /\ ToSet(q) = ToSet(c) \cup ToSet(ts)
            /\ \A a, d : a \notin ToSet(ts) /\ d \notin ToSet(ts) => (Before(q, a, d) <=> Before(c, a, d))
        <5>1. Distinct(c) /\ Distinct(ts) /\ ToSet(c) \cap ToSet(ts) = {} /\ p \in 0..Len(c)
          BY <4>1, <4>2
        <5> QED
          BY ONLY <4>1, <5>1, InsertKeeps
      <4>4. InOrder(c, o)
        <5> SUFFICES ASSUME NEW a, NEW d, Before(c, a, d) PROVE Before(o, a, d)
          BY DEF InOrder
        <5>1. a \in ToSet(c) /\ d \in ToSet(c)
          BY <4>1, BeforeIn
        <5>2. a \notin D /\ d \notin D
          BY <4>1, <4>2, <5>1
        <5> QED
          BY <2>1, <4>2, <4>3, <5>2 DEF q
      <4>5. ToSet(c) = ToSet(o) \ ToSet(ts)
        BY <2>1, <4>1, <4>2, <4>3 DEF q
      <4>6. Gathered(o, ts, 0, q)
        BY <4>1, <4>2, <4>4, <4>5 DEF Gathered
      <4> QED
        BY <1>2, <4>6 DEF Ordered, ts, q
    <3> QED
      BY <2>4, <3>1, <3>2
  <2>6. x.strip[u] = o
    BY <1>2, <1>4, <2>3, <2>5
  <2>7. \A w \in Browsers : x.strip[w] = b[w]
    BY <1>8, <2>1, <2>6 DEF o
  <2>8. x.strip \in [Browsers -> Seq(Tabs)] /\ b \in [Browsers -> Seq(Tabs)]
    <3>1. s.history \in HistorySet
      BY <1>1, StateIs
    <3> QED
      BY <1>6, <3>1, StateIs DEF HistorySet
  <2> QED
    BY <1>7, <2>7, <2>8
<1>12. m.views.animating \subseteq m.views.dragged
  BY <1>1, <1>7
<1>13. \A w \in Browsers : /\ m.strip[w] # <<>> => m.window[w] = "open"
                           /\ m.window[w] = "open" => m.strip[w] # <<>>
                           /\ m.window[w] # "hidden"
  BY <1>1, <1>7, <1>10
<1> QED
  BY <1>2, <1>7, <1>9, <1>11, <1>12, <1>13 DEF Put, m, z

LEMMA PutAcross ==
    ASSUME NEW s, Sound(s), s.drag.alive, s.drag.state \notin {"NotStarted", "WaitingToDragTabs"},
           s.drag.source \in Browsers, s.drag.source # s.drag.attached,
           s.strip[s.drag.source] # <<>>
    PROVE  Put(s, RevertDrag(Stop(s)))
<1> DEFINE z == Stop(s)
           m == RevertDrag(z)
           u == s.drag.source
           a == s.drag.attached
           D == Dragged(s)
           b == s.history.before
           N == Len(s.drag.data)
<1>1. /\ s \in StateSet /\ s.drag \in DragSet /\ s.strip \in [Browsers -> Seq(Tabs)]
      /\ s.window \in [Browsers -> WindowStates]
      /\ u \in Browsers /\ a \in Browsers /\ s.drag.owner = a /\ a # Null /\ u # a
      /\ D # {} /\ D \subseteq Tabs /\ D \subseteq ToSet(s.strip[a]) /\ Distinct(TabsOf(s))
      /\ Laid(s.strip) /\ Laid(b)
      /\ \A x \in Browsers : /\ s.strip[x] # <<>> => s.window[x] = "open"
                             /\ s.window[x] = "open" => s.strip[x] # <<>>
                             /\ s.window[x] # "hidden"
      /\ s.views.animating \subseteq s.views.dragged
      /\ D \subseteq s.views.dragged \ s.views.animating
  BY StartedIs
<1>2. /\ z \in StateSet /\ z.strip = s.strip /\ z.window = s.window
      /\ z.views = s.views /\ z.capture = s.capture /\ z.button = s.button
      /\ z.stack = s.stack /\ z.history = s.history /\ z.failed = s.failed
      /\ z.drag.owner = s.drag.owner /\ z.drag.attached = s.drag.attached
      /\ z.drag.source = s.drag.source /\ z.drag.data = s.drag.data
      /\ Dragged(z) = D /\ TabsOf(z) = TabsOf(s) /\ z.drag \in DragSet
  BY <1>1, StopIs, StateIs
<1>3. Revertible(z)
  BY StopRevertible
<1>4. ToSet(s.strip[u]) \cap D = {} /\ ToSet(s.strip[u]) \cap ToSet(s.strip[a]) = {}
  BY <1>1, LaidIs
<1> HIDE DEF z, D
<1>5. /\ Across(z, N, m) /\ \A o : Behind(z, o) => m.strip[u] = o
  BY <1>1, <1>2, <1>3, <1>4, RevertedAcross
<1>6. Done(z, N) = D
  BY <1>1, <1>2, DoneIs
<1> HIDE DEF m, N
<1>7. /\ Partly(z, m) /\ m.strip = [s.strip EXCEPT ![a] = m.strip[a], ![u] = m.strip[u]]
      /\ m.window = IF m.strip[a] = <<>> THEN [s.window EXCEPT ![a] = "closing"] ELSE s.window
      /\ m.views = [dragged |-> s.views.dragged \ D, animating |-> s.views.animating]
      /\ Distinct(m.strip[a]) /\ InOrder(m.strip[a], s.strip[a])
      /\ ToSet(m.strip[a]) = ToSet(s.strip[a]) \ D
      /\ Distinct(m.strip[u]) /\ ToSet(m.strip[u]) = ToSet(s.strip[u]) \cup D
  BY <1>2, <1>5, <1>6 DEF Across, CarriedBack
<1>8. /\ m \in StateSet /\ m.drag = z.drag /\ m.button = s.button /\ m.stack = s.stack
      /\ m.history = s.history /\ m.failed = s.failed
      /\ m.capture \in {s.capture, Null}
  BY <1>2, <1>7 DEF Partly
<1>9. \A w \in Browsers : w # a /\ w # u => m.strip[w] = s.strip[w]
  BY <1>1, <1>7
<1>10. Laid(m.strip)
  <2>1. /\ \A w \in Browsers : Distinct(s.strip[w])
        /\ \A w, y \in Browsers : w # y => ToSet(s.strip[w]) \cap ToSet(s.strip[y]) = {}
    BY <1>1, LaidIs
  <2>2. \A w \in Browsers : Distinct(m.strip[w])
    BY <1>7, <1>9, <2>1
  <2>3. ASSUME NEW w \in Browsers, w # a, w # u
        PROVE  /\ ToSet(m.strip[w]) \cap ToSet(m.strip[a]) = {}
               /\ ToSet(m.strip[w]) \cap ToSet(m.strip[u]) = {}
    <3>1. m.strip[w] = s.strip[w] /\ ToSet(s.strip[w]) \cap ToSet(s.strip[a]) = {}
          /\ ToSet(s.strip[w]) \cap ToSet(s.strip[u]) = {}
      BY <1>1, <1>9, <2>1, <2>3
    <3> QED
      BY <1>1, <1>7, <3>1
  <2>4. ToSet(m.strip[a]) \cap ToSet(m.strip[u]) = {}
    BY <1>4, <1>7
  <2>5. \A w, y \in Browsers : w # y => ToSet(m.strip[w]) \cap ToSet(m.strip[y]) = {}
    <3> SUFFICES ASSUME NEW w \in Browsers, NEW y \in Browsers, w # y
                 PROVE  ToSet(m.strip[w]) \cap ToSet(m.strip[y]) = {}
      OBVIOUS
    <3>1. CASE w # a /\ w # u
      BY <1>9, <2>1, <2>3, <3>1
    <3>2. CASE y # a /\ y # u
      BY <1>9, <2>1, <2>3, <3>2
    <3>3. CASE w \in {a, u} /\ y \in {a, u}
      BY <2>4, <3>3
    <3> QED
      BY <3>1, <3>2, <3>3
  <2> QED
    BY <2>2, <2>5 DEF Laid
<1>11. \A w \in Browsers : /\ m.strip[w] # <<>> => m.window[w] = "open"
                           /\ m.window[w] = "open" => m.strip[w] # <<>>
                           /\ m.window[w] # "hidden"
  <2> SUFFICES ASSUME NEW w \in Browsers
               PROVE  /\ m.strip[w] # <<>> => m.window[w] = "open"
                      /\ m.window[w] = "open" => m.strip[w] # <<>>
                      /\ m.window[w] # "hidden"
    OBVIOUS
  <2>1. CASE w = a
    <3>1. s.strip[a] # <<>>
      <4>1. Distinct(s.strip[a])
        BY <1>1, LaidIs
      <4> QED
        BY <1>1, <4>1, DistinctIs
    <3>2. s.window[a] = "open" /\ s.window \in [Browsers -> WindowStates] /\ a \in Browsers
      BY ONLY <1>1, <3>1
    <3>3. m.window = IF m.strip[a] = <<>> THEN [s.window EXCEPT ![a] = "closing"] ELSE s.window
      BY <1>7
    <3>4. m.window[a] = IF m.strip[a] = <<>> THEN "closing" ELSE "open"
      BY ONLY <3>2, <3>3
    <3> QED
      BY ONLY <2>1, <3>4
  <2>2. CASE w = u
    <3>1. m.strip[u] # <<>>
      BY SMTT(40), <1>1, <1>7, DistinctIs
    <3>2. m.window[u] = s.window[u]
      BY <1>1, <1>7
    <3> QED
      BY <1>1, <2>2, <3>1, <3>2
  <2>3. CASE w # a /\ w # u
    <3>1. m.window[w] = s.window[w] /\ m.strip[w] = s.strip[w]
      BY <1>1, <1>7, <1>9, <2>3
    <3> QED
      BY <1>1, <3>1
  <2> QED
    BY <2>1, <2>2, <2>3
<1>12. m.views.animating \subseteq m.views.dragged
  BY SMTT(40), <1>1, <1>7
<1>13. ASSUME ~s.history.disturbed PROVE m.strip = b
  <2> DEFINE o == b[u]
  <2>1. /\ Placed(s, o)
        /\ \A w \in Browsers : w # u /\ w # a => s.strip[w] = b[w]
        /\ ToSet(b[a]) \cap D = {} /\ ToSet(s.strip[a]) = ToSet(b[a]) \cup D
        /\ ToSet(s.strip[u]) = ToSet(o) \ D
        /\ \A w \in Browsers : \A x, y : x \notin D /\ y \notin D =>
               (Before(s.strip[w], x, y) <=> Before(b[w], x, y))
    <3>1. Sound(s) /\ s.drag.alive /\ ~s.history.disturbed /\ s.drag.source \in Browsers
          /\ o = s.history.before[s.drag.source]
      BY <1>1, <1>13
    <3> HIDE DEF o
    <3>2. /\ Placed(s, o)
          /\ \A w \in Browsers : w # s.drag.source =>
                  /\ ToSet(s.history.before[w]) \cap Dragged(s) = {}
                  /\ ToSet(s.strip[w]) = ToSet(s.history.before[w])
                         \cup (IF w = s.drag.owner THEN Dragged(s) ELSE {})
          /\ \A w \in Browsers : w # s.drag.source /\ w # s.drag.owner =>
                  s.strip[w] = s.history.before[w]
          /\ ToSet(s.strip[s.drag.source]) = (ToSet(o) \ Dragged(s))
                  \cup (IF s.drag.source = s.drag.owner THEN Dragged(s) ELSE {})
          /\ \A w \in Browsers : \A x, y : x \notin Dragged(s) /\ y \notin Dragged(s) =>
                  (Before(s.strip[w], x, y) <=> Before(s.history.before[w], x, y))
      BY ONLY <3>1, UndoneIs
    <3> QED
      BY <1>1, <3>2 DEF D
  <2>2. \A w \in Browsers : Distinct(b[w]) /\ Distinct(s.strip[w])
    BY <1>1, LaidIs
  <2>3. InOrder(s.strip[u], o)
    <3> SUFFICES ASSUME NEW x, NEW y, Before(s.strip[u], x, y) PROVE Before(o, x, y)
      BY DEF InOrder
    <3>1. x \in ToSet(s.strip[u]) /\ y \in ToSet(s.strip[u])
      BY <1>1, <2>2, BeforeIn
    <3>2. x \notin D /\ y \notin D
      BY <1>4, <3>1
    <3> QED
      BY <1>1, <2>1, <3>2
  <2> HIDE DEF o
  <2>4. Behind(z, o)
    <3>1. Placed(z, o)
      BY <1>2, <2>1 DEF Placed
    <3> QED
      BY <1>2, <2>1, <2>3, <3>1 DEF Behind
  <2>5. m.strip[u] = o
    BY <1>5, <2>4
  <2>6. m.strip[a] = b[a]
    <3>1. ToSet(m.strip[a]) = ToSet(b[a])
      BY <1>7, <2>1
    <3>2. Distinct(m.strip[a]) /\ Distinct(b[a])
      BY <1>1, <1>7, <2>2
    <3>3. \A x, y : Before(m.strip[a], x, y) => Before(b[a], x, y)
      <4> SUFFICES ASSUME NEW x, NEW y, Before(m.strip[a], x, y) PROVE Before(b[a], x, y)
        OBVIOUS
      <4>1. x \in ToSet(m.strip[a]) /\ y \in ToSet(m.strip[a])
        BY <3>2, BeforeIn
      <4>2. x \notin D /\ y \notin D /\ Before(s.strip[a], x, y)
        BY <1>7, <4>1 DEF InOrder
      <4> QED
        BY <1>1, <2>1, <4>2
    <3> QED
      BY <3>1, <3>2, <3>3, SameOrder
  <2>7. \A w \in Browsers : m.strip[w] = b[w]
    BY <1>9, <2>1, <2>5, <2>6 DEF o
  <2>8. m.strip \in [Browsers -> Seq(Tabs)] /\ b \in [Browsers -> Seq(Tabs)]
    <3>1. s.history \in HistorySet
      BY <1>1, StateIs
    <3> QED
      BY <1>8, <3>1, StateIs DEF HistorySet
  <2> QED
    BY <2>7, <2>8
<1>14. m.drag.owner = s.drag.owner /\ m.drag.attached = s.drag.attached
  BY <1>2, <1>8
<1> QED
  BY <1>8, <1>10, <1>11, <1>12, <1>13, <1>14 DEF Put, m, z

\* Reverting puts the tabs back where they were.
LEMMA RevertedFine ==
    ASSUME NEW s, Sound(s), s.drag.alive, s.drag.state \notin {"NotStarted", "WaitingToDragTabs"},
           s.drag.source # Null
    PROVE  /\ Body(EndDragImpl(s, TRUE)) /\ Over(RevertDrag(Stop(s)), "reverted", EndDragImpl(s, TRUE))
           /\ Put(s, RevertDrag(Stop(s)))
<1> DEFINE m == RevertDrag(Stop(s))
<1>1. /\ s \in StateSet /\ s.drag.source \in Browsers /\ s.drag.attached \in Browsers
      /\ s.drag.owner = s.drag.attached /\ s.drag.attached # Null /\ Unfailing(s)
      /\ Laid(s.history.before)
  <2>1. s \in StateSet /\ s.drag \in DragSet
    BY StartedIs
  <2>2. s.drag.source \in Browsers
    BY <2>1, DragIs DEF B0
  <2> QED
    BY <2>2, StartedIs
<1>2. s.strip[s.drag.source] # <<>>
  BY <1>1 DEF Sound, Owned
<1>3. Put(s, m)
  BY <1>1, <1>2, PutWithin, PutAcross
<1>4. /\ m \in StateSet /\ Laid(m.strip) /\ m.history = s.history /\ m.failed = s.failed
      /\ \A w \in Browsers : /\ m.strip[w] # <<>> => m.window[w] = "open"
                             /\ m.window[w] = "open" => m.strip[w] # <<>>
                             /\ m.window[w] # "hidden"
      /\ m.views.animating \subseteq m.views.dragged
      /\ ~s.history.disturbed => m.strip = s.history.before
      /\ m.drag.owner = s.drag.owner /\ m.drag.attached = s.drag.attached
  BY <1>3 DEF Put
<1>5. Over(m, "reverted", EndDragImpl(s, TRUE))
  <2> DEFINE e == "reverted"
             c == TRUE
  <2>1. /\ m \in StateSet /\ m = EndedBy(s, c) /\ c \in BOOLEAN
        /\ m.drag.owner = (IF m.drag.attached # Null THEN m.drag.attached ELSE m.drag.source)
        /\ e = IF s.drag.state = "NotStarted" THEN "none" ELSE IF c THEN "reverted" ELSE "completed"
    BY <1>1, <1>4 DEF EndedBy
  <2> HIDE DEF e, c, m
  <2>2. Over(m, e, EndDragImpl(s, c))
    BY <1>1, <2>1, EndImplIs
  <2> QED
    BY <2>2 DEF e, c
<1>6. Body(EndDragImpl(s, TRUE))
  <2> HIDE DEF m
  <2> DEFINE e == "reverted"
  <2>1. /\ Laid(m.strip) /\ Laid(m.history.before)
        /\ \A x \in Browsers : /\ m.strip[x] # <<>> => m.window[x] = "open"
                               /\ m.window[x] = "open" => m.strip[x] # <<>>
                               /\ m.window[x] # "hidden"
        /\ m.views.animating \subseteq m.views.dragged /\ Unfailing(m)
        /\ e = "reverted" /\ ~m.history.disturbed => m.strip = m.history.before
    BY <1>1, <1>4 DEF Unfailing
  <2>2. Over(m, e, EndDragImpl(s, TRUE))
    BY <1>5
  <2> HIDE DEF e
  <2> QED
    BY <2>1, <2>2, OverFine
<1> QED
  BY <1>3, <1>5, <1>6

--------------------------------------------------------------------------------
\* r is s with the drag over: the loop may have been told to end.
Ends(s, r) ==
    /\ Body(r) /\ r.drag = NoDrag /\ r.capture \in {s.capture, Null} /\ r.button = s.button
    /\ r.history.disturbed = s.history.disturbed

LEMMA NotStartedFine ==
    ASSUME NEW s, Sound(s), s.drag.alive, s.drag.state = "NotStarted", NEW c \in BOOLEAN
    PROVE  /\ Body(EndDragImpl(s, c)) /\ Over(Stop(s), "none", EndDragImpl(s, c))
<1> DEFINE m == Stop(s)
<1>1. /\ s \in StateSet /\ Laid(s.strip) /\ Laid(s.history.before) /\ Settled(s) /\ Owned(s) /\ Seen(s)
  BY DEF Sound
<1>2. /\ m \in StateSet /\ m.strip = s.strip /\ m.window = s.window
      /\ m.views = s.views /\ m.capture = s.capture /\ m.button = s.button
      /\ m.stack = s.stack /\ m.history = s.history /\ m.failed = s.failed
      /\ m.drag.owner = s.drag.owner /\ m.drag.attached = s.drag.attached
      /\ m.drag.source = s.drag.source
  BY <1>1, StopIs
<1>3. s.drag.attached = Null /\ s.drag.owner = s.drag.source
  BY <1>1 DEF Owned
<1>4. Over(m, "none", EndDragImpl(s, c))
  <2> DEFINE e == "none"
  <2>1. /\ m \in StateSet /\ m = EndedBy(s, c)
        /\ m.drag.owner = (IF m.drag.attached # Null THEN m.drag.attached ELSE m.drag.source)
        /\ e = IF s.drag.state = "NotStarted" THEN "none" ELSE IF c THEN "reverted" ELSE "completed"
    BY <1>2, <1>3 DEF EndedBy
  <2> HIDE DEF e, m
  <2>2. Over(m, e, EndDragImpl(s, c))
    BY <1>1, <2>1, EndImplIs
  <2> QED
    BY <2>2 DEF e
<1> HIDE DEF m
<1>5. /\ Laid(m.strip) /\ Laid(m.history.before)
      /\ \A w \in Browsers : /\ m.strip[w] # <<>> => m.window[w] = "open"
                             /\ m.window[w] = "open" => m.strip[w] # <<>>
                             /\ m.window[w] # "hidden"
      /\ m.views.animating \subseteq m.views.dragged /\ Unfailing(m)
  <2>1. \A w \in Browsers : /\ s.strip[w] # <<>> => s.window[w] = "open"
                            /\ s.window[w] = "open" => s.strip[w] # <<>>
                            /\ s.window[w] # "hidden"
    BY <1>1 DEF Settled
  <2>2. s.views.animating \subseteq s.views.dragged /\ Unfailing(s)
    BY <1>1 DEF Seen
  <2> QED
    BY <1>1, <1>2, <2>1, <2>2 DEF Unfailing
<1>6. Body(EndDragImpl(s, c))
  <2> DEFINE e == "none"
  <2>1. Over(m, e, EndDragImpl(s, c)) /\ ~(e = "reverted")
    BY <1>4
  <2> HIDE DEF e
  <2> QED
    BY <1>5, <2>1, OverFine
<1> QED
  BY <1>4, <1>6 DEF m

LEMMA EndImplFine ==
    ASSUME NEW s, Sound(s), s.drag.alive, s.drag.state # "WaitingToDragTabs", NEW c \in BOOLEAN,
           c => s.drag.source # Null
    PROVE  /\ Ends(s, EndDragImpl(s, c)) /\ EndDragImpl(s, c).stack = s.stack
           /\ ~c => EndDragImpl(s, c).strip = s.strip /\ EndDragImpl(s, c).window = s.window
<1> DEFINE r == EndDragImpl(s, c)
<1>1. CASE s.drag.state = "NotStarted"
  <2>1. Body(r) /\ Over(Stop(s), "none", r)
    BY <1>1, NotStartedFine
  <2>2. s \in StateSet
    BY DEF Sound
  <2>3. /\ Stop(s).strip = s.strip /\ Stop(s).window = s.window /\ Stop(s).capture = s.capture
        /\ Stop(s).button = s.button /\ Stop(s).stack = s.stack /\ Stop(s).history = s.history
    BY <2>2, StopIs
  <2> HIDE DEF r
  <2> QED
    BY <2>1, <2>3 DEF Over, Ends, r
<1>2. CASE s.drag.state # "NotStarted" /\ ~c
  <2> DEFINE m == CompleteDrag(Stop(s))
  <2>1. c = FALSE
    BY <1>2
  <2>2. /\ Body(r) /\ Over(m, "completed", r) /\ m.strip = s.strip /\ m.window = s.window
        /\ m.capture = s.capture /\ m.button = s.button /\ m.stack = s.stack
        /\ m.history = s.history
    BY <1>2, <2>1, CompletedFine
  <2> HIDE DEF m, r
  <2> QED
    BY <2>2 DEF Over, Ends, r
<1>3. CASE s.drag.state # "NotStarted" /\ c
  <2> DEFINE m == RevertDrag(Stop(s))
  <2>1. c = TRUE
    BY <1>3
  <2>2. Body(r) /\ Over(m, "reverted", r) /\ Put(s, m)
    BY <1>3, <2>1, RevertedFine
  <2> HIDE DEF m, r
  <2> QED
    BY <1>3, <2>2 DEF Over, Ends, Put, r
<1> QED
  BY <1>1, <1>2, <1>3

\* The loop is told to end.
Told(st) == [i \in DOMAIN st |-> IF st[i].at = "Loop" THEN [st[i] EXCEPT !.ending = TRUE] ELSE st[i]]

LEMMA ToldIs ==
    ASSUME NEW st \in Seq(FrameSet)
    PROVE  /\ Told(st) \in Seq(FrameSet) /\ Len(Told(st)) = Len(st) /\ Len(st) \in Nat
           /\ \A i \in 1..Len(st) : /\ Told(st)[i].at = st[i].at /\ Told(st)[i].result = st[i].result
                                    /\ st[i].at = "Loop" => Told(st)[i].ending
                                    /\ st[i].at # "Loop" => Told(st)[i] = st[i]
           /\ Told(st) = <<>> <=> st = <<>>
<1>1. Len(st) \in Nat /\ DOMAIN st = 1..Len(st) /\ \A i \in 1..Len(st) : st[i] \in FrameSet
  BY SeqIs
<1> DEFINE F(i) == IF st[i].at = "Loop" THEN [st[i] EXCEPT !.ending = TRUE] ELSE st[i]
<1>2. ASSUME NEW i \in 1..Len(st)
      PROVE  /\ F(i) \in FrameSet /\ F(i).at = st[i].at /\ F(i).result = st[i].result
             /\ st[i].at = "Loop" => F(i).ending
             /\ st[i].at # "Loop" => F(i) = st[i]
  <2>1. st[i] \in FrameSet
    BY <1>1
  <2>2. [st[i] EXCEPT !.ending = TRUE] \in FrameSet /\ [st[i] EXCEPT !.ending = TRUE].at = st[i].at
        /\ [st[i] EXCEPT !.ending = TRUE].result = st[i].result
        /\ [st[i] EXCEPT !.ending = TRUE].ending
    BY <2>1 DEF FrameSet
  <2> QED
    BY <2>1, <2>2
<1>3. Told(st) = [i \in 1..Len(st) |-> F(i)]
  BY <1>1 DEF Told
<1> HIDE DEF F
<1>4. Told(st) \in Seq(FrameSet) /\ Len(Told(st)) = Len(st) /\ \A i \in 1..Len(st) : Told(st)[i] = F(i)
  <2>1. \A i \in 1..Len(st) : F(i) \in FrameSet
    BY <1>2
  <2> DEFINE q == [i \in 1..Len(st) |-> F(i)]
             n == Len(st)
  <2>2. n \in Nat /\ \A i \in 1..n : F(i) \in FrameSet
    BY <1>1, <2>1
  <2>3. q = [i \in 1..n |-> F(i)]
    OBVIOUS
  <2> HIDE DEF n, q
  <2>4. q \in Seq(FrameSet) /\ Len(q) = n
    BY <2>2, <2>3, IsASeq, LenProperties
  <2>5. \A i \in 1..n : q[i] = F(i)
    BY <2>3
  <2> QED
    BY <1>3, <2>4, <2>5 DEF q, n
<1>5. Told(st) = <<>> <=> st = <<>>
  BY <1>4, SeqIs
<1> QED
  BY <1>1, <1>2, <1>4, <1>5

LEMMA LoopToldIs ==
    ASSUME NEW s \in StateSet
    PROVE  /\ Alike(s, EndMoveLoop(s)) /\ EndMoveLoop(s).drag = s.drag
           /\ EndMoveLoop(s).stack = Told(s.stack)
           /\ EndMoveLoop(s).capture = s.capture /\ EndMoveLoop(s).button = s.button
<1>1. s.stack \in Seq(FrameSet)
  BY StateIs
<1>2. Told(s.stack) \in Seq(FrameSet)
  BY <1>1, ToldIs
<1>3. EndMoveLoop(s) = [s EXCEPT !.stack = Told(s.stack)]
  BY DEF EndMoveLoop, Told
<1>4. /\ EndMoveLoop(s) \in StateSet /\ EndMoveLoop(s).strip = s.strip /\ EndMoveLoop(s).window = s.window
      /\ EndMoveLoop(s).views = s.views /\ EndMoveLoop(s).drag = s.drag
      /\ EndMoveLoop(s).capture = s.capture /\ EndMoveLoop(s).button = s.button
      /\ EndMoveLoop(s).stack = Told(s.stack) /\ EndMoveLoop(s).history = s.history
      /\ EndMoveLoop(s).failed = s.failed
  BY <1>2, <1>3 DEF StateSet
<1> QED
  BY <1>4 DEF Alike

LEMMA EndDragFine ==
    ASSUME NEW s, Sound(s), s.drag.alive, s.drag.state # "WaitingToDragTabs",
           NEW reason, ~(reason = "capture lost" /\ s.drag.state = "DraggingWindow")
    PROVE  /\ Ends(s, EndDrag(s, reason)) /\ EndDrag(s, reason).stack \in {s.stack, Told(s.stack)}
           /\ reason = "complete" => EndDrag(s, reason).strip = s.strip
                                      /\ EndDrag(s, reason).window = s.window
<1> DEFINE z == IF s.drag.state = "DraggingWindow" /\ s.drag.inLoop THEN EndMoveLoop(s) ELSE s
           c == reason # "complete" /\ s.drag.source # Null
<1>1. s \in StateSet
  BY DEF Sound
<1>2. /\ Alike(s, z) /\ z.drag = s.drag /\ z.stack \in {s.stack, Told(s.stack)}
      /\ z.capture = s.capture /\ z.button = s.button
  BY <1>1, LoopToldIs DEF Alike
<1>3. EndDrag(s, reason) = EndDragImpl(z, c)
  BY DEF EndDrag
<1> HIDE DEF z
<1>4. Sound(z)
  BY <1>2, AlikeFine
<1>5. c \in BOOLEAN /\ (c => z.drag.source # Null)
  BY <1>2
<1>6. /\ Ends(z, EndDragImpl(z, c)) /\ EndDragImpl(z, c).stack = z.stack
      /\ ~c => EndDragImpl(z, c).strip = z.strip /\ EndDragImpl(z, c).window = z.window
  <2> HIDE DEF c
  <2> QED
    BY <1>2, <1>4, <1>5, EndImplFine
<1>7. z.history = s.history /\ z.strip = s.strip /\ z.window = s.window
  BY <1>2 DEF Alike
<1> QED
  BY <1>2, <1>3, <1>6, <1>7 DEF Ends

LEMMA EndTurns ==
    ASSUME NEW s, s \in StateSet, Turns(s), Len(s.stack) # 2, NEW r, ~r.drag.alive,
           r.capture \in {s.capture, Null}, r.stack \in {s.stack, Told(s.stack)}
    PROVE  Turns(r)
<1>1. s.stack \in Seq(FrameSet) /\ Len(s.stack) \in Nat
  BY StateIs, SeqIs
<1>2. /\ Len(r.stack) = Len(s.stack) /\ (Looping(r) <=> Looping(s))
  <2>1. s.stack # <<>> => 1 \in 1..Len(s.stack)
    BY <1>1, SeqIs
  <2> QED
    BY <1>1, <2>1, ToldIs DEF Looping
<1> QED
  BY <1>1, <1>2 DEF Turns

--------------------------------------------------------------------------------
\* What has called out.
Frames == {"SaveFocus", "Finder", "Show", "Loop", "AfterLoop"}

LEMMA StackIs ==
    ASSUME NEW s \in StateSet
    PROVE  /\ s.stack \in Seq(FrameSet) /\ Len(s.stack) \in Nat
           /\ s.stack = <<>> <=> Len(s.stack) = 0
           /\ \A i \in 1..Len(s.stack) : s.stack[i] \in FrameSet /\ s.stack[i].at \in Frames
           /\ At(s) = "EventLoop" <=> Len(s.stack) = 0
           /\ Len(s.stack) # 0 => At(s) = s.stack[Len(s.stack)].at /\ Top(s) = s.stack[Len(s.stack)]
<1>1. /\ s.stack \in Seq(FrameSet) /\ Len(s.stack) \in Nat /\ (s.stack = <<>> <=> Len(s.stack) = 0)
      /\ \A i \in 1..Len(s.stack) : s.stack[i] \in FrameSet
  BY StateIs, SeqIs
<1>2. \A f \in FrameSet : f.at \in Frames /\ f.at # "EventLoop"
  BY DEF FrameSet, Frames
<1>3. Len(s.stack) # 0 => Len(s.stack) \in 1..Len(s.stack)
  BY <1>1
<1>4. Top(s) = s.stack[Len(s.stack)]
  BY DEF Top, Last
<1> QED
  BY <1>1, <1>2, <1>3, <1>4 DEF At

\* r is s with what called out changed to st.
Stacked(s, r, st) ==
    /\ Alike(s, r) /\ r.drag = s.drag /\ r.capture = s.capture /\ r.button = s.button
    /\ r.stack = st

LEMMA PutStack ==
    ASSUME NEW s \in StateSet, NEW st \in Seq(FrameSet)
    PROVE  Stacked(s, [s EXCEPT !.stack = st], st)
<1> DEFINE r == [s EXCEPT !.stack = st]
<1>1. /\ r \in StateSet /\ r.strip = s.strip /\ r.window = s.window /\ r.views = s.views
      /\ r.drag = s.drag /\ r.capture = s.capture /\ r.button = s.button /\ r.stack = st
      /\ r.history = s.history /\ r.failed = s.failed
  BY DEF StateSet
<1> QED
  BY <1>1 DEF Stacked, Alike

LEMMA PushIs ==
    ASSUME NEW s \in StateSet, NEW at \in Frames
    PROVE  LET r == Push(s, at) IN
           /\ r \in StateSet /\ Stacked(s, r, r.stack) /\ Len(r.stack) = Len(s.stack) + 1
           /\ r.stack[Len(s.stack) + 1].at = at /\ r.stack[Len(s.stack) + 1].ending = FALSE
           /\ \A i \in 1..Len(s.stack) : r.stack[i] = s.stack[i]
<1> DEFINE f == [at |-> at, ending |-> FALSE, result |-> "done"]
           st == Append(s.stack, f)
<1>1. s.stack \in Seq(FrameSet) /\ f \in FrameSet /\ Len(s.stack) \in Nat
  BY StackIs DEF FrameSet, Frames
<1>2. f.at = at /\ f.ending = FALSE
  OBVIOUS
<1>3. Push(s, at) = [s EXCEPT !.stack = st]
  BY DEF Push
<1> HIDE DEF f
<1>4. /\ st \in Seq(FrameSet) /\ Len(st) = Len(s.stack) + 1 /\ st[Len(s.stack) + 1] = f
      /\ \A i \in 1..Len(s.stack) : st[i] = s.stack[i]
  BY <1>1, AppendProperties
<1> HIDE DEF st
<1>5. Stacked(s, Push(s, at), st)
  BY <1>3, <1>4, PutStack
<1>6. Push(s, at) \in StateSet /\ Push(s, at).stack = st
  BY <1>5 DEF Stacked, Alike
<1> QED
  BY <1>2, <1>4, <1>5, <1>6

LEMMA PopIs ==
    ASSUME NEW s \in StateSet, Len(s.stack) # 0
    PROVE  LET r == Pop(s) IN
           /\ r \in StateSet /\ Stacked(s, r, r.stack) /\ Len(r.stack) = Len(s.stack) - 1
           /\ \A i \in 1..Len(s.stack) - 1 : r.stack[i] = s.stack[i]
<1> DEFINE st == SubSeq(s.stack, 1, Len(s.stack) - 1)
<1>1. s.stack \in Seq(FrameSet) /\ Len(s.stack) \in Nat
  BY StackIs
<1>2. Pop(s) = [s EXCEPT !.stack = st]
  BY DEF Pop, Front
<1>3. /\ st \in Seq(FrameSet) /\ Len(st) = Len(s.stack) - 1
      /\ \A i \in 1..Len(s.stack) - 1 : st[i] = s.stack[i]
  <2>1. \A i \in 1..Len(s.stack) - 1 : s.stack[i] \in FrameSet
    BY <1>1
  <2>2. st \in Seq(FrameSet) /\ Len(st) = Len(s.stack) - 1
    BY <1>1, <2>1
  <2> QED
    BY <1>1, <2>2
<1> HIDE DEF st
<1>4. Stacked(s, Pop(s), st)
  BY <1>2, <1>3, PutStack
<1>5. Pop(s) \in StateSet /\ Pop(s).stack = st
  BY <1>4 DEF Stacked, Alike
<1> QED
  BY <1>3, <1>4, <1>5

\* What the rest of the invariant says when nothing, or one thing, has called out.
LEMMA TurnsNone ==
    ASSUME NEW r, r.stack = <<>>,
           r.drag.alive => /\ r.drag.inLoop = FALSE /\ r.drag.target = Null /\ r.drag.observed = Null
                           /\ r.drag.state \notin {"DraggingWindow", "WaitingToDragTabs"}
    PROVE  Turns(r)
<1>1. Len(r.stack) = 0 /\ ~Looping(r) /\ Looping(r) = FALSE
  BY DEF Looping
<1>2. r.drag.alive => r.drag.inLoop = Looping(r)
  BY <1>1
<1> QED
  BY <1>1, <1>2 DEF Turns

LEMMA TurnsOne ==
    ASSUME NEW r, Len(r.stack) = 1, r.stack # <<>>, r.stack[1].at \in Frames \ {"Loop"},
           r.drag.alive =>
               /\ r.drag.inLoop = FALSE /\ r.drag.observed = Null
               /\ r.drag.target # Null => r.stack[1].at = "AfterLoop"
               /\ r.drag.state = IF r.stack[1].at = "SaveFocus" THEN "NotStarted" ELSE "DraggingTabs"
               /\ r.stack[1].at = "Show" => ToSet(r.strip[r.drag.owner]) = Dragged(r)
    PROVE  Turns(r)
<1>1. ~Looping(r) /\ Looping(r) = FALSE
  BY DEF Looping
<1>2. r.drag.alive => r.drag.inLoop = Looping(r)
  BY <1>1
<1> QED
  BY <1>1, <1>2 DEF Turns, Frames

LEMMA TurnsLoop ==
    ASSUME NEW r, Len(r.stack) = 1, r.stack # <<>>, r.stack[1].at = "Loop", r.capture = Null,
           r.drag.alive =>
               /\ r.drag.inLoop = TRUE /\ r.drag.observed = r.drag.attached
               /\ r.drag.state \in {"DraggingWindow", "WaitingToDragTabs"}
               /\ r.drag.state = "DraggingWindow" => r.drag.target = Null
               /\ r.drag.state = "WaitingToDragTabs" => r.stack[1].ending
    PROVE  Turns(r)
<1>1. Looping(r) /\ Looping(r) = TRUE
  BY DEF Looping
<1>2. r.drag.alive => r.drag.inLoop = Looping(r)
  BY <1>1
<1>3. /\ Len(r.stack) <= 2 /\ Len(r.stack) # 2
      /\ r.drag.alive => (r.drag.state = "WaitingToDragTabs" => r.stack[1].ending)
  OBVIOUS
<1>4. r.drag.alive => r.drag.observed = IF Looping(r) THEN r.drag.attached ELSE Null
  BY <1>1
<1>5. r.drag.alive => (Looping(r) <=> r.drag.state \in {"DraggingWindow", "WaitingToDragTabs"})
  BY <1>1
<1>6. r.drag.alive /\ r.drag.target # Null => r.drag.state = "WaitingToDragTabs"
  OBVIOUS
<1> QED
  BY <1>1, <1>2, <1>3, <1>4, <1>5, <1>6 DEF Turns

--------------------------------------------------------------------------------
\* A window is dragged.
\* The state the loop is entered in.
Nested(s) == [s EXCEPT !.drag.state = "DraggingWindow", !.drag.inLoop = TRUE,
                       !.drag.observed = s.drag.attached, !.capture = Null]

LEMMA NestedIs ==
    ASSUME NEW s \in StateSet
    PROVE  LET r == Nested(s) IN
           /\ r \in StateSet /\ r.strip = s.strip /\ r.window = s.window /\ r.views = s.views
           /\ r.history = s.history /\ r.failed = s.failed /\ r.capture = Null /\ r.stack = s.stack
           /\ r.drag.state = "DraggingWindow" /\ r.drag.inLoop = TRUE
           /\ r.drag.observed = s.drag.attached /\ r.drag.alive = s.drag.alive
           /\ r.drag.owner = s.drag.owner /\ r.drag.source = s.drag.source
           /\ r.drag.attached = s.drag.attached /\ r.drag.data = s.drag.data
           /\ r.drag.target = s.drag.target /\ r.drag.tracked = s.drag.tracked
<1> DEFINE d == [s.drag EXCEPT !.state = "DraggingWindow", !.inLoop = TRUE, !.observed = s.drag.attached]
<1>1. s.drag \in DragSet /\ s.drag.attached \in B0
  BY StateIs, DragIs
<1>2. /\ d \in DragSet /\ d.state = "DraggingWindow" /\ d.inLoop = TRUE
      /\ d.observed = s.drag.attached /\ d.alive = s.drag.alive
      /\ d.owner = s.drag.owner /\ d.source = s.drag.source
      /\ d.attached = s.drag.attached /\ d.data = s.drag.data
      /\ d.target = s.drag.target /\ d.tracked = s.drag.tracked
  BY <1>1 DEF DragSet, States
<1>3. Nested(s) = [s EXCEPT !.drag = d, !.capture = Null]
  BY DEF Nested
<1> HIDE DEF d
<1>4. /\ Nested(s) \in StateSet /\ Nested(s).strip = s.strip /\ Nested(s).window = s.window
      /\ Nested(s).views = s.views /\ Nested(s).history = s.history /\ Nested(s).failed = s.failed
      /\ Nested(s).capture = Null /\ Nested(s).stack = s.stack /\ Nested(s).drag = d
  BY <1>2, <1>3 DEF StateSet, B0
<1> QED
  BY <1>2, <1>4

LEMMA LoopFine ==
    ASSUME NEW s, Body(s), s.drag.alive, s.drag.state = "DraggingTabs", s.drag.target = Null,
           s.drag.inLoop = FALSE, s.stack = <<>>, ToSet(s.strip[s.drag.owner]) = Dragged(s)
    PROVE  DragInv(RunMoveLoop(s))
<1> DEFINE m == Nested(s)
           r == RunMoveLoop(s)
<1>1. s \in StateSet
  BY DEF Body, Sound
<1>2. Check(s, ~s.drag.inLoop, "CHECK(!in_move_loop_)") = s
  BY DEF Check
<1>3. r = Push(m, "Loop")
  BY <1>2 DEF RunMoveLoop, Nested
<1>4. /\ m \in StateSet /\ m.strip = s.strip /\ m.window = s.window /\ m.views = s.views
      /\ m.history = s.history /\ m.failed = s.failed /\ m.capture = Null /\ m.stack = s.stack
      /\ m.drag.state = "DraggingWindow" /\ m.drag.inLoop = TRUE
      /\ m.drag.observed = s.drag.attached /\ m.drag.alive = s.drag.alive
      /\ m.drag.owner = s.drag.owner /\ m.drag.source = s.drag.source
      /\ m.drag.attached = s.drag.attached /\ m.drag.data = s.drag.data
      /\ m.drag.target = s.drag.target /\ m.drag.tracked = s.drag.tracked
  BY <1>1, NestedIs
<1> HIDE DEF m
<1>5. /\ r \in StateSet /\ Stacked(m, r, r.stack) /\ Len(r.stack) = Len(m.stack) + 1
      /\ r.stack[Len(m.stack) + 1].at = "Loop"
  <2>1. "Loop" \in Frames
    BY DEF Frames
  <2>2. m \in StateSet
    BY <1>4
  <2>3. LET p == Push(m, "Loop") IN
        /\ p \in StateSet /\ Stacked(m, p, p.stack) /\ Len(p.stack) = Len(m.stack) + 1
        /\ p.stack[Len(m.stack) + 1].at = "Loop"
    BY <2>1, <2>2, PushIs
  <2> HIDE DEF r
  <2> QED
    BY <1>3, <2>3
<1> HIDE DEF r
<1>6. Len(m.stack) = 0
  BY <1>4, StackIs
<1>7. Len(r.stack) = 1 /\ r.stack[1].at = "Loop" /\ r.stack # <<>>
  BY <1>5, <1>6, StackIs
<1>8. /\ r.strip = m.strip /\ r.window = m.window /\ r.views = m.views /\ r.history = m.history
      /\ r.failed = m.failed /\ r.drag = m.drag /\ r.capture = m.capture
  BY <1>5 DEF Stacked, Alike
<1>9. Windowed(s, r)
  BY ZenonT(40), <1>4, <1>5, <1>8 DEF Windowed
<1>10. Body(r)
  BY <1>9, WindowedFine
<1>11. Turns(r)
  BY ZenonT(40), <1>4, <1>7, <1>8, TurnsLoop
<1> QED
  BY <1>10, <1>11 DEF DragInv, r

\* The tabs of a window that has no others are those that are dragged.
LEMMA AllTabs ==
    ASSUME NEW s, Body(s), s.drag.alive, Len(s.strip[s.drag.owner]) = Len(s.drag.data)
    PROVE  ToSet(s.strip[s.drag.owner]) = Dragged(s)
<1>1. s \in StateSet /\ Laid(s.strip) /\ Owned(s)
  BY DEF Body, Sound
<1>2. /\ Distinct(TabsOf(s)) /\ s.drag.owner \in Browsers
      /\ Dragged(s) \subseteq ToSet(s.strip[s.drag.owner])
  BY <1>1 DEF Owned
<1>3. Distinct(s.strip[s.drag.owner])
  BY <1>1, <1>2, LaidIs
<1>4. s.drag \in DragSet
  BY <1>1, StateIs
<1>5. Len(TabsOf(s)) = Len(s.drag.data) /\ Dragged(s) = ToSet(TabsOf(s))
  BY <1>4, TabsOfIs
<1> QED
  BY <1>2, <1>3, <1>5, SameLength

\* The controller calls out to look for the window under the mouse, or to move the focus.
LEMMA StackedFine ==
    ASSUME NEW s, Body(s), NEW r, NEW st, Stacked(s, r, st)
    PROVE  /\ Body(r) /\ r.strip = s.strip /\ r.drag = s.drag /\ r.capture = s.capture
           /\ r.stack = st /\ Dragged(r) = Dragged(s) /\ r.history = s.history /\ r.window = s.window
<1>1. Alike(s, r) /\ r.drag = s.drag /\ r.capture = s.capture /\ r.stack = st
  BY DEF Stacked
<1>2. r.strip = s.strip /\ r.history = s.history /\ r.window = s.window
  BY <1>1 DEF Alike
<1> QED
  BY <1>1, <1>2, AlikeFine DEF Body

LEMMA PushedOne ==
    ASSUME NEW s, Body(s), s.drag.alive, s.stack = <<>>, NEW at \in Frames \ {"Loop"},
           s.drag.inLoop = FALSE, s.drag.observed = Null,
           s.drag.target # Null => at = "AfterLoop",
           s.drag.state = IF at = "SaveFocus" THEN "NotStarted" ELSE "DraggingTabs",
           at = "Show" => ToSet(s.strip[s.drag.owner]) = Dragged(s)
    PROVE  DragInv(Push(s, at))
<1> DEFINE r == Push(s, at)
<1>1. s \in StateSet /\ Len(s.stack) = 0 /\ at \in Frames
  BY StackIs DEF Body, Sound
<1>2. /\ r \in StateSet /\ Stacked(s, r, r.stack) /\ Len(r.stack) = Len(s.stack) + 1
      /\ r.stack[Len(s.stack) + 1].at = at
  BY <1>1, PushIs
<1> HIDE DEF r
<1>3. Len(r.stack) = 1 /\ r.stack[1].at = at /\ r.stack # <<>>
  BY <1>1, <1>2, StackIs
<1>4. Body(r) /\ r.strip = s.strip /\ r.drag = s.drag /\ Dragged(r) = Dragged(s)
  BY <1>2, StackedFine
<1>5. r.drag.alive =>
               /\ r.drag.inLoop = FALSE /\ r.drag.observed = Null
               /\ r.drag.target # Null => r.stack[1].at = "AfterLoop"
               /\ r.drag.state = IF r.stack[1].at = "SaveFocus" THEN "NotStarted" ELSE "DraggingTabs"
               /\ r.stack[1].at = "Show" => ToSet(r.strip[r.drag.owner]) = Dragged(r)
  BY <1>3, <1>4
<1>6. Turns(r)
  BY <1>3, <1>5, TurnsOne
<1> QED
  BY <1>4, <1>6 DEF DragInv, r

LEMMA FinderPushed ==
    ASSUME NEW s, Body(s), s.drag.alive, s.stack = <<>>, s.drag.inLoop = FALSE,
           s.drag.observed = Null, s.drag.target = Null, s.drag.state = "DraggingTabs"
    PROVE  DragInv(Push(s, "Finder"))
<1> DEFINE at == "Finder"
<1>1. /\ at \in Frames \ {"Loop"} /\ at # "SaveFocus" /\ at # "Show"
  BY DEF Frames
<1> HIDE DEF at
<1>2. DragInv(Push(s, at))
  BY <1>1, PushedOne
<1> QED
  BY <1>2 DEF at

LEMMA BeginIs ==
    ASSUME NEW s, Body(s), s.drag.alive, s.drag.state = "NotStarted"
    PROVE  LET r == Attach([s EXCEPT !.drag.state = "DraggingTabs"], s.drag.source, FALSE) IN
           /\ Begun(s, r) /\ r.stack = s.stack /\ r.drag.inLoop = s.drag.inLoop
           /\ r.drag.observed = s.drag.observed
<1> DEFINE d == [s.drag EXCEPT !.state = "DraggingTabs"]
           m == [s EXCEPT !.drag.state = "DraggingTabs"]
           x == s.drag.source
           new == s.strip[x]
           r == Attach(m, x, FALSE)
<1>1. s \in StateSet /\ Owned(s) /\ Laid(s.strip) /\ s.drag \in DragSet
  BY StateIs DEF Body, Sound
<1>2. /\ x = s.drag.owner /\ x \in Browsers /\ s.drag.attached = Null /\ s.drag.data # <<>>
      /\ Dragged(s) \subseteq ToSet(s.strip[x])
  BY <1>1 DEF Owned
<1>3. /\ d \in DragSet /\ d.state = "DraggingTabs" /\ d.alive = s.drag.alive /\ d.owner = s.drag.owner
      /\ d.source = s.drag.source /\ d.attached = s.drag.attached /\ d.data = s.drag.data
      /\ d.target = s.drag.target /\ d.tracked = s.drag.tracked /\ d.inLoop = s.drag.inLoop
      /\ d.observed = s.drag.observed
  BY <1>1 DEF DragSet, States
<1>4. m = [s EXCEPT !.drag = d]
  OBVIOUS
<1> HIDE DEF d
<1>5. /\ m \in StateSet /\ m.strip = s.strip /\ m.window = s.window /\ m.views = s.views
      /\ m.history = s.history /\ m.failed = s.failed /\ m.stack = s.stack /\ m.drag = d
  BY <1>1, <1>3, <1>4 DEF StateSet
<1> HIDE DEF m
<1>6. Dragged(m) = Dragged(s)
  BY <1>3, <1>5 DEF Dragged
<1>7. Dragged(s) # {} /\ new \in Seq(Tabs) /\ Dragged(s) \subseteq ToSet(new)
  BY <1>1, <1>2, TabsOfIs, LaidIs
<1> HIDE DEF new
<1>8. Attached(m, x, new, r)
  <2> DEFINE no == FALSE
  <2>1. no \in BOOLEAN /\ (no => m.drag.owner = Null) /\ (~no => m.drag.owner = x)
    BY <1>2, <1>3, <1>5
  <2>2. /\ m \in StateSet /\ x \in Browsers /\ m.drag.attached = Null /\ Dragged(m) # {}
        /\ Dragged(m) \subseteq ToSet(m.strip[x]) /\ new = m.strip[x] /\ new \in Seq(Tabs)
    BY <1>2, <1>3, <1>5, <1>6, <1>7 DEF new
  <2> HIDE DEF no, x, r
  <2>3. Attached(m, x, new, Attach(m, x, no))
    BY <2>1, <2>2, AttachIs
  <2> QED
    BY <2>3 DEF no, r
<1> HIDE DEF r
<1>9. /\ r \in StateSet /\ r.strip = [s.strip EXCEPT ![x] = new] /\ r.window = s.window
      /\ r.views = [dragged |-> s.views.dragged \cup Dragged(s),
                    animating |-> s.views.animating \ Dragged(s)]
      /\ r.drag = [d EXCEPT !.attached = x, !.owner = x, !.tracked = x]
      /\ r.stack = s.stack /\ r.history = s.history
      /\ Noted(s.views.dragged, s.failed, r.failed)
  BY <1>5, <1>6, <1>8 DEF Attached
<1>10. r.strip = s.strip
  BY <1>1, <1>2, <1>9, StateIs DEF new
<1>11. /\ r.drag.state = "DraggingTabs" /\ r.drag.alive = s.drag.alive /\ r.drag.owner = x
       /\ r.drag.source = s.drag.source /\ r.drag.attached = x /\ r.drag.data = s.drag.data
       /\ r.drag.target = s.drag.target /\ r.drag.tracked = x /\ r.drag.inLoop = s.drag.inLoop
       /\ r.drag.observed = s.drag.observed
  <2>1. d \in DragSet /\ r.drag = [d EXCEPT !.attached = x, !.owner = x, !.tracked = x]
    BY <1>3, <1>9
  <2>2. /\ r.drag.state = d.state /\ r.drag.alive = d.alive /\ r.drag.owner = x
        /\ r.drag.source = d.source /\ r.drag.attached = x /\ r.drag.data = d.data
        /\ r.drag.target = d.target /\ r.drag.tracked = x /\ r.drag.inLoop = d.inLoop
        /\ r.drag.observed = d.observed
    BY ONLY <2>1 DEF DragSet
  <2> QED
    BY <1>3, <2>2
<1>12. Begun(s, r)
  BY <1>2, <1>9, <1>10, <1>11 DEF Begun
<1> QED
  BY <1>9, <1>11, <1>12 DEF r, m

LEMMA StartFine ==
    ASSUME NEW s, Body(s), s.drag.alive, s.drag.state = "NotStarted", s.stack = <<>>,
           s.drag.inLoop = FALSE, s.drag.observed = Null
    PROVE  DragInv(StartDrag(s))
<1> DEFINE r == Attach([s EXCEPT !.drag.state = "DraggingTabs"], s.drag.source, FALSE)
<1>1. /\ Begun(s, r) /\ r.stack = s.stack /\ r.drag.inLoop = s.drag.inLoop
      /\ r.drag.observed = s.drag.observed
  BY BeginIs
<1>2. StartDrag(s) = IF Len(s.drag.data) = Len(s.strip[s.drag.source]) THEN RunMoveLoop(r)
                     ELSE Push(r, "Finder")
  BY DEF StartDrag
<1> HIDE DEF r
<1>3. Body(r) /\ Dragged(r) = Dragged(s) /\ s.drag.target = Null
  BY <1>1, BegunFine
<1>4. /\ r \in StateSet /\ r.strip = s.strip /\ r.drag.state = "DraggingTabs"
      /\ r.drag.alive = s.drag.alive /\ r.drag.owner = s.drag.owner /\ r.drag.data = s.drag.data
      /\ r.drag.target = s.drag.target
  BY <1>1 DEF Begun
<1>5. s.drag.source = s.drag.owner
  BY DEF Body, Sound, Owned
<1>6. CASE Len(s.drag.data) = Len(s.strip[s.drag.source])
  <2>1. ToSet(r.strip[r.drag.owner]) = Dragged(r)
    BY <1>3, <1>4, <1>5, <1>6, AllTabs
  <2> QED
    BY <1>1, <1>2, <1>3, <1>4, <1>6, <2>1, LoopFine
<1>7. CASE Len(s.drag.data) # Len(s.strip[s.drag.source])
  <2>1. StartDrag(s) = Push(r, "Finder")
    BY <1>2, <1>7
  <2> QED
    BY <1>1, <1>3, <1>4, <2>1, FinderPushed
<1> QED
  BY <1>6, <1>7

--------------------------------------------------------------------------------
\* The tabs are carried from one strip to another, or moved within theirs.
\* v is s with the window x open, about to take the tabs.
Opened(s, x, v) ==
    /\ v \in StateSet /\ v.strip = s.strip /\ v.views = s.views /\ v.history = s.history
    /\ v.failed = s.failed /\ v.stack = s.stack
    /\ v.window = [w \in Browsers |-> IF w = x THEN "open" ELSE s.window[w]]
    /\ v.drag.alive = s.drag.alive /\ v.drag.data = s.drag.data /\ v.drag.state = s.drag.state
    /\ v.drag.owner = s.drag.owner /\ v.drag.attached = s.drag.attached
    /\ v.drag.source = s.drag.source /\ v.drag.target = s.drag.target
    /\ v.drag.inLoop = FALSE

\* Carried(), but for the state of the drag and its target.
Taken(s, x, r) ==
    /\ r \in StateSet
    /\ r.strip = [s.strip EXCEPT ![s.drag.attached] = Rest(s), ![x] = TabsOf(s) \o s.strip[x]]
    /\ r.window = [w \in Browsers |-> IF w = x THEN "open"
                                      ELSE IF w = s.drag.attached /\ Rest(s) = <<>> THEN "closing"
                                      ELSE s.window[w]]
    /\ r.views = [dragged |-> (s.views.dragged \ Dragged(s)) \cup Dragged(s),
                  animating |-> s.views.animating \ Dragged(s)]
    /\ r.drag.alive = s.drag.alive /\ r.drag.data = s.drag.data
    /\ r.drag.owner = x /\ r.drag.attached = x /\ r.drag.tracked = x
    /\ r.drag.source = IF Rest(s) = <<>> /\ s.drag.source = s.drag.attached THEN Null ELSE s.drag.source
    /\ r.history = s.history /\ r.stack = s.stack
    /\ Noted(s.views.dragged \ Dragged(s), s.failed, r.failed)
    /\ r.drag.inLoop = FALSE /\ r.drag.observed = Null

LEMMA TakenIs ==
    ASSUME NEW s, Body(s), s.drag.alive, s.drag.state \in {"DraggingTabs", "WaitingToDragTabs"},
           NEW x \in Browsers, x # s.drag.attached, NEW v, Opened(s, x, v), NEW c \in BOOLEAN
    PROVE  LET r == DetachAndAttachToNewContext(v, c, x) IN
           /\ Taken(s, x, r) /\ r.drag.state = s.drag.state /\ r.drag.target = s.drag.target
<1> DEFINE r == DetachAndAttachToNewContext(v, c, x)
           a == s.drag.attached
<1>1. s \in StateSet /\ Owned(s) /\ Laid(s.strip) /\ s.drag \in DragSet
  BY StateIs DEF Body, Sound
<1>2. /\ a = s.drag.owner /\ a \in Browsers /\ s.drag.data # <<>>
      /\ Dragged(s) \subseteq ToSet(s.strip[a])
  BY <1>1 DEF Owned
<1>3. /\ v \in StateSet /\ v.strip = s.strip /\ v.views = s.views /\ v.history = s.history
      /\ v.failed = s.failed /\ v.stack = s.stack
      /\ v.window = [w \in Browsers |-> IF w = x THEN "open" ELSE s.window[w]]
      /\ v.drag.alive = s.drag.alive /\ v.drag.data = s.drag.data /\ v.drag.state = s.drag.state
      /\ v.drag.owner = s.drag.owner /\ v.drag.attached = s.drag.attached
      /\ v.drag.source = s.drag.source /\ v.drag.target = s.drag.target
      /\ v.drag.inLoop = FALSE
  BY DEF Opened
<1>4. Dragged(v) = Dragged(s) /\ TabsOf(v) = TabsOf(s) /\ Rest(v) = Rest(s)
  <2>1. Dragged(v) = Dragged(s) /\ TabsOf(v) = TabsOf(s)
    BY <1>3 DEF Dragged, TabsOf
  <2> QED
    BY <1>3, <2>1 DEF Rest
<1>5. Dragged(s) # {} /\ Distinct(s.strip[a]) /\ Dragged(s) \cap ToSet(s.strip[x]) = {}
  <2>1. Dragged(s) # {}
    BY <1>1, <1>2, TabsOfIs
  <2>2. Distinct(s.strip[a]) /\ ToSet(s.strip[a]) \cap ToSet(s.strip[x]) = {}
    BY <1>1, <1>2, LaidIs
  <2> QED
    BY <1>2, <2>1, <2>2
<1>6. v.drag \in DragSet
  BY <1>3, StateIs
<1> HIDE DEF a
<1>7. /\ r \in StateSet
      /\ r.strip = [v.strip EXCEPT ![v.drag.attached] = Rest(v), ![x] = TabsOf(v) \o v.strip[x]]
      /\ r.window = IF Rest(v) = <<>> THEN [v.window EXCEPT ![v.drag.attached] = "closing"]
                    ELSE v.window
      /\ r.views = [dragged |-> (v.views.dragged \ Dragged(v)) \cup Dragged(v),
                    animating |-> v.views.animating \ Dragged(v)]
      /\ r.drag = [v.drag EXCEPT !.owner = x, !.tracked = x, !.observed = Null, !.attached = x,
                      !.source = IF Rest(v) = <<>> /\ v.drag.source = v.drag.attached
                                 THEN Null ELSE v.drag.source]
      /\ r.stack = v.stack /\ r.history = v.history
      /\ Noted(v.views.dragged \ Dragged(v), v.failed, r.failed)
  <2>1. /\ v \in StateSet /\ v.drag.attached \in Browsers /\ x # v.drag.attached
        /\ v.drag.owner = v.drag.attached /\ Distinct(v.strip[v.drag.attached])
        /\ Dragged(v) # {} /\ Dragged(v) \subseteq ToSet(v.strip[v.drag.attached])
        /\ Dragged(v) \cap ToSet(v.strip[x]) = {}
    BY <1>2, <1>3, <1>4, <1>5 DEF a
  <2>2. Carries(v, x, r)
    BY <2>1, CarryIs
  <2> HIDE DEF r
  <2> QED
    BY <2>2 DEF Carries
<1> HIDE DEF r
<1>8. r.window = [w \in Browsers |-> IF w = x THEN "open"
                                     ELSE IF w = s.drag.attached /\ Rest(s) = <<>> THEN "closing"
                                     ELSE s.window[w]]
  BY <1>2, <1>3, <1>4, <1>7 DEF a
<1> DEFINE so == IF Rest(s) = <<>> /\ s.drag.source = s.drag.attached THEN Null ELSE s.drag.source
           d == v.drag
<1>9. d \in DragSet /\ r.drag = [d EXCEPT !.owner = x, !.tracked = x, !.observed = Null, !.attached = x,
                                    !.source = so]
  BY <1>3, <1>4, <1>6, <1>7
<1> HIDE DEF so
<1>10. /\ r.drag.alive = d.alive /\ r.drag.data = d.data /\ r.drag.state = d.state
       /\ r.drag.owner = x /\ r.drag.attached = x /\ r.drag.tracked = x /\ r.drag.source = so
       /\ r.drag.target = d.target /\ r.drag.inLoop = d.inLoop /\ r.drag.observed = Null
  <2> HIDE DEF d
  <2> QED
    BY ONLY <1>9 DEF DragSet
<1>11. r.strip = [s.strip EXCEPT ![s.drag.attached] = Rest(s), ![x] = TabsOf(s) \o s.strip[x]]
  BY <1>3, <1>4, <1>7
<1> QED
  BY ZenonT(40), <1>3, <1>4, <1>7, <1>8, <1>10, <1>11 DEF Taken, so, r

\* r is s after the tabs have been carried to the strip of x, which takes them.
Took(s, x, r) ==
    /\ Body(s) /\ s.drag.alive /\ s.drag.state \in {"DraggingTabs", "WaitingToDragTabs"}
    /\ x \in Browsers /\ x # s.drag.attached /\ s.window[x] \in {"unborn", "open"}
    /\ Taken(s, x, r) /\ r.drag.state = "DraggingTabs" /\ r.drag.target \in {Null, x}

Landed(s, x, r) ==
    /\ Body(r) /\ Dragged(r) = Dragged(s) /\ (s.strip[x] = <<>> => ToSet(r.strip[x]) = Dragged(r))
    /\ r.drag.alive /\ r.stack = s.stack /\ r.drag.inLoop = FALSE /\ r.drag.observed = Null
    /\ r.drag.owner = x

LEMMA TakenFine ==
    ASSUME NEW s, NEW x, NEW r, Took(s, x, r)
    PROVE  Landed(s, x, r)
<1>0. /\ Body(s) /\ s.drag.alive /\ s.drag.state \in {"DraggingTabs", "WaitingToDragTabs"}
      /\ x \in Browsers /\ x # s.drag.attached /\ s.window[x] \in {"unborn", "open"}
      /\ Taken(s, x, r) /\ r.drag.state = "DraggingTabs" /\ r.drag.target \in {Null, x}
  BY DEF Took
<1>1. Carried(s, x, r)
  BY <1>0 DEF Taken, Carried
<1>2. r.drag.alive /\ r.stack = s.stack /\ r.drag.inLoop = FALSE /\ r.drag.observed = Null
      /\ r.drag.owner = x
  BY <1>0 DEF Taken
<1> QED
  BY <1>0, <1>1, <1>2, CarriedFine DEF Landed

LEMMA MoveStep ==
    ASSUME NEW s, Body(s), s.drag.alive, s.drag.state = "DraggingTabs", NEW p \in Nat
    PROVE  LET r == MoveAttached(s, p) IN
           Body(r) /\ r.drag = s.drag /\ r.stack = s.stack /\ r.capture = s.capture
<1>1. PICK at \in 0..Len(Rest(s)) :
          Moved(s, MoveAttached(s, p), InsertBlock(Rest(s), at, Only(s.strip[s.drag.attached], Dragged(s))))
  BY MoveIs
<1>2. Body(MoveAttached(s, p))
  BY <1>1, MoveFine
<1>3. /\ MoveAttached(s, p).drag = s.drag /\ MoveAttached(s, p).stack = s.stack
      /\ MoveAttached(s, p).capture = s.capture
  BY <1>1 DEF Moved
<1> QED
  BY <1>2, <1>3

--------------------------------------------------------------------------------
\* The mouse has moved: what the controller does once it knows the window under it.
\* Nothing else has called out, and the controller is not in a loop.
Idle(s) ==
    /\ Body(s) /\ s.drag.alive /\ s.stack = <<>> /\ s.drag.inLoop = FALSE
    /\ s.drag.observed = Null /\ s.drag.target = Null

LEMMA NewBrowserIs ==
    ASSUME NEW s \in StateSet, NEW b \in BOOLEAN
    PROVE  LET r == [s EXCEPT !.drag.newBrowser = b] IN
           /\ r \in StateSet /\ r.strip = s.strip /\ r.window = s.window /\ r.views = s.views
           /\ r.history = s.history /\ r.failed = s.failed /\ r.capture = s.capture
           /\ r.stack = s.stack /\ r.button = s.button
           /\ r.drag.alive = s.drag.alive /\ r.drag.state = s.drag.state
           /\ r.drag.owner = s.drag.owner /\ r.drag.source = s.drag.source
           /\ r.drag.attached = s.drag.attached /\ r.drag.data = s.drag.data
           /\ r.drag.target = s.drag.target /\ r.drag.tracked = s.drag.tracked
           /\ r.drag.inLoop = s.drag.inLoop /\ r.drag.observed = s.drag.observed
<1> DEFINE d == [s.drag EXCEPT !.newBrowser = b]
           r == [s EXCEPT !.drag.newBrowser = b]
<1>1. s.drag \in DragSet
  BY StateIs
<1>2. /\ d \in DragSet /\ d.alive = s.drag.alive /\ d.state = s.drag.state /\ d.owner = s.drag.owner
      /\ d.source = s.drag.source /\ d.attached = s.drag.attached /\ d.data = s.drag.data
      /\ d.target = s.drag.target /\ d.tracked = s.drag.tracked /\ d.inLoop = s.drag.inLoop
      /\ d.observed = s.drag.observed
  BY <1>1 DEF DragSet
<1>3. r = [s EXCEPT !.drag = d]
  OBVIOUS
<1> HIDE DEF d, r
<1>4. /\ r \in StateSet /\ r.strip = s.strip /\ r.window = s.window /\ r.views = s.views
      /\ r.history = s.history /\ r.failed = s.failed /\ r.capture = s.capture
      /\ r.stack = s.stack /\ r.button = s.button /\ r.drag = d
  BY <1>2, <1>3 DEF StateSet
<1> QED
  BY <1>2, <1>4 DEF r

LEMMA IdleAgain ==
    ASSUME NEW s, Idle(s)
    PROVE  LET r == [s EXCEPT !.drag.newBrowser = FALSE] IN
           /\ Idle(r) /\ r.strip = s.strip /\ r.window = s.window /\ r.drag.state = s.drag.state
           /\ r.drag.attached = s.drag.attached /\ r.drag.data = s.drag.data
           /\ r.drag.owner = s.drag.owner
<1> DEFINE b == FALSE
           r == [s EXCEPT !.drag.newBrowser = b]
<1>1. s \in StateSet /\ b \in BOOLEAN
  BY DEF Idle, Body, Sound
<1>2. /\ r \in StateSet /\ r.strip = s.strip /\ r.window = s.window /\ r.views = s.views
      /\ r.history = s.history /\ r.failed = s.failed /\ r.capture = s.capture
      /\ r.stack = s.stack /\ r.button = s.button
      /\ r.drag.alive = s.drag.alive /\ r.drag.state = s.drag.state
      /\ r.drag.owner = s.drag.owner /\ r.drag.source = s.drag.source
      /\ r.drag.attached = s.drag.attached /\ r.drag.data = s.drag.data
      /\ r.drag.target = s.drag.target /\ r.drag.tracked = s.drag.tracked
      /\ r.drag.inLoop = s.drag.inLoop /\ r.drag.observed = s.drag.observed
  <2> HIDE DEF b
  <2> QED
    BY <1>1, NewBrowserIs
<1> HIDE DEF r
<1>3. Alike(s, r)
  BY <1>2 DEF Alike, Idle
<1>4. Body(r)
  BY <1>3, AlikeFine DEF Body, Idle
<1>5. Idle(r)
  BY <1>2, <1>4 DEF Idle
<1> QED
  BY <1>2, <1>5 DEF r, b

LEMMA MovedFine ==
    ASSUME NEW s, Idle(s), s.drag.state = "DraggingTabs", NEW p \in Nat
    PROVE  DragInv(MoveAttached(s, p))
<1> DEFINE r == MoveAttached(s, p)
<1>1. Body(r) /\ r.drag = s.drag /\ r.stack = s.stack
  BY MoveStep DEF Idle
<1> HIDE DEF r
<1>2. Turns(r)
  BY <1>1, TurnsNone DEF Idle
<1> QED
  BY <1>1, <1>2 DEF DragInv, r

\* The tabs leave the others for a window of their own, which is then shown.
LEMMA DetachedFine ==
    ASSUME NEW s, Idle(s), s.drag.state = "DraggingTabs", NEW n \in NewWindows(s) \cup {Null},
           n # Null \/ Len(s.strip[s.drag.attached]) = Len(s.drag.data)
    PROVE  DragInv(DetachIntoNewBrowserAndRunMoveLoop(s, n))
<1> DEFINE a == s.drag.attached
           v == [s EXCEPT !.window[n] = "open", !.drag.newBrowser = TRUE]
<1>1. /\ Body(s) /\ s.drag.alive /\ s.stack = <<>> /\ s.drag.inLoop = FALSE
      /\ s.drag.observed = Null /\ s.drag.target = Null
      /\ s \in StateSet /\ Settled(s) /\ Owned(s) /\ s.drag.owner = a /\ a \in Browsers
      /\ s.window[a] = "open"
  BY DEF Idle, Body, Sound, Owned
<1>2. CASE Len(s.strip[a]) = Len(s.drag.data)
  <2>1. ToSet(s.strip[s.drag.owner]) = Dragged(s)
    BY <1>1, <1>2, AllTabs
  <2>2. DetachIntoNewBrowserAndRunMoveLoop(s, n) = RunMoveLoop(s)
    BY <1>2 DEF DetachIntoNewBrowserAndRunMoveLoop
  <2> QED
    BY <1>1, <2>1, <2>2, LoopFine
<1>3. CASE Len(s.strip[a]) # Len(s.drag.data)
  <2>1. n \in Browsers /\ s.window[n] = "unborn" /\ n # a
    BY <1>1, <1>3 DEF NewWindows
  <2>2. s.strip[n] = <<>>
    BY <1>1, <2>1 DEF Settled
  <2> DEFINE W == [w \in Browsers |-> IF w = n THEN "open" ELSE s.window[w]]
             z == [s EXCEPT !.window = W]
             b == TRUE
  <2>3. W \in [Browsers -> WindowStates] /\ W = [s.window EXCEPT ![n] = "open"]
    BY <1>1, <2>1, StateIs DEF WindowStates
  <2>4. v = [z EXCEPT !.drag.newBrowser = b]
    BY <2>3
  <2> HIDE DEF W, v
  <2>5. /\ z \in StateSet /\ z.strip = s.strip /\ z.window = W /\ z.views = s.views
        /\ z.history = s.history /\ z.failed = s.failed /\ z.stack = s.stack /\ z.drag = s.drag
    BY <1>1, <2>3 DEF StateSet
  <2>6. /\ v \in StateSet /\ v.strip = z.strip /\ v.window = z.window /\ v.views = z.views
        /\ v.history = z.history /\ v.failed = z.failed /\ v.stack = z.stack
        /\ v.drag.alive = z.drag.alive /\ v.drag.state = z.drag.state
        /\ v.drag.owner = z.drag.owner /\ v.drag.source = z.drag.source
        /\ v.drag.attached = z.drag.attached /\ v.drag.data = z.drag.data
        /\ v.drag.target = z.drag.target /\ v.drag.inLoop = z.drag.inLoop
    <3>1. z \in StateSet /\ b \in BOOLEAN
      BY <2>5
    <3> HIDE DEF z, b
    <3> QED
      BY <2>4, <3>1, NewBrowserIs
  <2> HIDE DEF z
  <2>7. Opened(s, n, v)
    BY <1>1, <2>5, <2>6 DEF Opened, W
  <2> DEFINE c == TRUE
             r == DetachAndAttachToNewContext(v, c, n)
  <2>8. /\ Taken(s, n, r) /\ r.drag.state = "DraggingTabs" /\ r.drag.target = Null
    <3>1. c \in BOOLEAN
      OBVIOUS
    <3> HIDE DEF c
    <3> QED
      BY <1>1, <2>1, <2>7, <3>1, TakenIs
  <2>9. DetachIntoNewBrowserAndRunMoveLoop(s, n) = Push(r, "Show")
    BY <1>3 DEF DetachIntoNewBrowserAndRunMoveLoop, v
  <2> HIDE DEF r
  <2>10. /\ Body(r) /\ Dragged(r) = Dragged(s) /\ ToSet(r.strip[n]) = Dragged(r)
         /\ r.drag.alive /\ r.stack = s.stack /\ r.drag.inLoop = FALSE /\ r.drag.observed = Null
         /\ r.drag.owner = n
    <3>1. Took(s, n, r)
      BY <1>1, <2>1, <2>8 DEF Took
    <3>2. Landed(s, n, r)
      BY <3>1, TakenFine
    <3> QED
      BY <2>2, <3>2 DEF Landed
  <2> DEFINE at == "Show"
  <2>11. at \in Frames \ {"Loop"} /\ at # "SaveFocus"
    BY DEF Frames
  <2> HIDE DEF at
  <2>12. DragInv(Push(r, at))
    BY <1>1, <2>8, <2>10, <2>11, PushedOne
  <2> QED
    BY <2>9, <2>12 DEF at
<1> QED
  BY <1>2, <1>3

\* The tabs are carried over to the strip of another open window.
LEMMA CarriedOver ==
    ASSUME NEW s, Idle(s), s.drag.state = "DraggingTabs", NEW x \in Browsers, s.window[x] = "open",
           x # s.drag.attached, NEW p \in Nat
    PROVE  DragInv(MoveAttached(DetachAndAttachToNewContext(s, FALSE, x), p))
<1> DEFINE c == FALSE
           r == DetachAndAttachToNewContext(s, c, x)
<1>1. /\ Body(s) /\ s.drag.alive /\ s.stack = <<>> /\ s.drag.inLoop = FALSE
      /\ s.drag.observed = Null /\ s.drag.target = Null /\ s \in StateSet
      /\ s.window \in [Browsers -> WindowStates]
  BY StateIs DEF Idle, Body, Sound
<1>2. s.window = [w \in Browsers |-> IF w = x THEN "open" ELSE s.window[w]]
  BY <1>1
<1>3. Opened(s, x, s)
  BY <1>1, <1>2 DEF Opened
<1>4. /\ Taken(s, x, r) /\ r.drag.state = "DraggingTabs" /\ r.drag.target = Null
  <2>1. c \in BOOLEAN
    OBVIOUS
  <2> HIDE DEF c
  <2> QED
    BY <1>1, <1>3, <2>1, TakenIs
<1> HIDE DEF r
<1>5. /\ Body(r) /\ r.drag.alive /\ r.stack = s.stack /\ r.drag.inLoop = FALSE /\ r.drag.observed = Null
  <2>1. Took(s, x, r)
    BY <1>1, <1>4 DEF Took
  <2>2. Landed(s, x, r)
    BY <2>1, TakenFine
  <2> QED
    BY <2>2 DEF Landed
<1>6. Idle(r)
  BY <1>1, <1>4, <1>5 DEF Idle
<1>7. DragInv(MoveAttached(r, p))
  BY <1>4, <1>6, MovedFine
<1> QED
  BY <1>7 DEF r, c

LEMMA ContinuedFine ==
    ASSUME NEW s, Idle(s), s.drag.state = "DraggingTabs",
           NEW found \in {w \in Browsers : s.window[w] = "open"} \cup {Null},
           NEW n \in NewWindows(s) \cup {Null}, NEW p \in Nat,
           found = Null => n # Null \/ Len(s.strip[s.drag.attached]) = Len(s.drag.data)
    PROVE  DragInv(ContinueDragging(s, found, n, p))
<1> DEFINE u == [s EXCEPT !.drag.newBrowser = FALSE]
<1>1. /\ Idle(u) /\ u.strip = s.strip /\ u.window = s.window /\ u.drag.state = "DraggingTabs"
      /\ u.drag.attached = s.drag.attached /\ u.drag.data = s.drag.data
  BY IdleAgain
<1>2. Null \notin Browsers /\ s.drag.attached \in Browsers
  BY StripsAssumption DEF Idle, Body, Sound, Owned
<1>3. ContinueDragging(s, found, n, p) =
          IF found # s.drag.attached THEN DragBrowserToNewTabStrip(u, found, n, p)
          ELSE MoveAttached(s, p)
  BY DEF ContinueDragging
<1> HIDE DEF u
<1>4. CASE found = Null
  <2>1. ContinueDragging(s, found, n, p) = DetachIntoNewBrowserAndRunMoveLoop(u, n)
    BY <1>2, <1>3, <1>4 DEF DragBrowserToNewTabStrip
  <2>2. NewWindows(u) = NewWindows(s)
    BY <1>1 DEF NewWindows
  <2> QED
    BY <1>1, <1>4, <2>1, <2>2, DetachedFine
<1>5. CASE found = s.drag.attached
  <2>1. ContinueDragging(s, found, n, p) = MoveAttached(s, p)
    BY <1>3, <1>5
  <2> QED
    BY <2>1, MovedFine
<1>6. CASE found # Null /\ found # s.drag.attached
  <2>1. ContinueDragging(s, found, n, p) = MoveAttached(DetachAndAttachToNewContext(u, FALSE, found), p)
    BY <1>1, <1>3, <1>6 DEF DragBrowserToNewTabStrip
  <2>2. found \in Browsers /\ u.window[found] = "open"
    BY <1>1, <1>6
  <2> QED
    BY <1>1, <1>6, <2>1, <2>2, CarriedOver
<1> QED
  BY <1>4, <1>5, <1>6

\* The controller is in the loop that moves the window.
MovedByLoop(s) ==
    /\ Body(s) /\ s.drag.alive /\ s.drag.state = "DraggingWindow" /\ Len(s.stack) = 1
    /\ s.stack[1].at = "Loop" /\ s.capture = Null /\ s.drag.inLoop = TRUE
    /\ s.drag.observed = s.drag.attached /\ s.drag.target = Null

LEMMA LoopMovesFine ==
    ASSUME NEW s, MovedByLoop(s)
    PROVE  DragInv(s)
<1>1. /\ Body(s) /\ s.drag.alive /\ s.drag.state = "DraggingWindow" /\ Len(s.stack) = 1
      /\ s.stack[1].at = "Loop" /\ s.capture = Null /\ s.drag.inLoop = TRUE
      /\ s.drag.observed = s.drag.attached /\ s.drag.target = Null /\ s \in StateSet
  BY DEF MovedByLoop, Body, Sound
<1>2. s.stack # <<>>
  BY <1>1, StackIs
<1>3. Turns(s)
  BY <1>1, <1>2, TurnsLoop
<1> QED
  BY <1>1, <1>3 DEF DragInv

\* m is s with the dragged window hidden until its loop has returned.
Hides(s, x, m) ==
    /\ m \in StateSet /\ m.strip = s.strip /\ m.views = s.views /\ m.history = s.history
    /\ m.failed = s.failed /\ m.stack = s.stack /\ m.capture = s.capture
    /\ m.window = [s.window EXCEPT ![s.drag.attached] = "hidden"]
    /\ m.drag.alive = s.drag.alive /\ m.drag.state = "WaitingToDragTabs" /\ m.drag.target = x
    /\ m.drag.owner = s.drag.owner /\ m.drag.source = s.drag.source
    /\ m.drag.attached = s.drag.attached /\ m.drag.data = s.drag.data
    /\ m.drag.tracked = s.drag.tracked /\ m.drag.inLoop = s.drag.inLoop
    /\ m.drag.observed = s.drag.observed

LEMMA HidesIs ==
    ASSUME NEW s, MovedByLoop(s), NEW x \in Browsers
    PROVE  Hides(s, x, [[s EXCEPT !.drag.newBrowser = FALSE] EXCEPT
                           !.window[s.drag.attached] = "hidden", !.drag.target = x,
                           !.drag.state = "WaitingToDragTabs"])
<1> DEFINE u == [s EXCEPT !.drag.newBrowser = FALSE]
           a == s.drag.attached
           W == [s.window EXCEPT ![a] = "hidden"]
           d == [u.drag EXCEPT !.target = x, !.state = "WaitingToDragTabs"]
           m == [u EXCEPT !.window[a] = "hidden", !.drag.target = x,
                          !.drag.state = "WaitingToDragTabs"]
<1>1. s \in StateSet /\ a \in B0
  BY StateIs, DragIs DEF MovedByLoop, Body, Sound
<1>2. /\ u \in StateSet /\ u.strip = s.strip /\ u.window = s.window /\ u.views = s.views
      /\ u.history = s.history /\ u.failed = s.failed /\ u.capture = s.capture
      /\ u.stack = s.stack
      /\ u.drag.alive = s.drag.alive
      /\ u.drag.owner = s.drag.owner /\ u.drag.source = s.drag.source
      /\ u.drag.attached = s.drag.attached /\ u.drag.data = s.drag.data
      /\ u.drag.tracked = s.drag.tracked
      /\ u.drag.inLoop = s.drag.inLoop /\ u.drag.observed = s.drag.observed
  <2> DEFINE b == FALSE
             v == [s EXCEPT !.drag.newBrowser = b]
  <2>1. b \in BOOLEAN
    OBVIOUS
  <2> HIDE DEF b
  <2>2. /\ v \in StateSet /\ v.strip = s.strip /\ v.window = s.window /\ v.views = s.views
        /\ v.history = s.history /\ v.failed = s.failed /\ v.capture = s.capture
        /\ v.stack = s.stack
        /\ v.drag.alive = s.drag.alive
        /\ v.drag.owner = s.drag.owner /\ v.drag.source = s.drag.source
        /\ v.drag.attached = s.drag.attached /\ v.drag.data = s.drag.data
        /\ v.drag.tracked = s.drag.tracked
        /\ v.drag.inLoop = s.drag.inLoop /\ v.drag.observed = s.drag.observed
    BY <1>1, <2>1, NewBrowserIs
  <2>3. v = u
    BY DEF b
  <2> HIDE DEF v, u
  <2> QED
    BY <2>2, <2>3
<1> HIDE DEF u, a
<1>3. u.drag \in DragSet /\ x \in B0
  BY <1>2, StateIs DEF B0
<1>4. /\ d \in DragSet /\ d.target = x /\ d.state = "WaitingToDragTabs"
      /\ d.alive = u.drag.alive /\ d.owner = u.drag.owner /\ d.source = u.drag.source
      /\ d.attached = u.drag.attached /\ d.data = u.drag.data /\ d.tracked = u.drag.tracked
      /\ d.inLoop = u.drag.inLoop /\ d.observed = u.drag.observed
  BY <1>3 DEF DragSet, States
<1>5. m = [u EXCEPT !.window = W, !.drag = d]
  BY <1>2
<1>6. W \in [Browsers -> WindowStates]
  BY <1>1, StateIs DEF WindowStates
<1> HIDE DEF d, W, m
<1>7. /\ m \in StateSet /\ m.strip = u.strip /\ m.views = u.views /\ m.history = u.history
      /\ m.failed = u.failed /\ m.stack = u.stack /\ m.capture = u.capture /\ m.window = W
      /\ m.drag = d
  BY <1>2, <1>4, <1>5, <1>6 DEF StateSet
<1>8. Hides(s, x, m)
  BY <1>2, <1>4, <1>7 DEF Hides, W, a
<1> QED
  BY <1>8 DEF m, u, a

LEMMA HiddenFine ==
    ASSUME NEW s, MovedByLoop(s), NEW x \in Browsers, s.window[x] = "open", x # s.drag.attached,
           NEW m, Hides(s, x, m)
    PROVE  Body(m)
<1>1. /\ s \in StateSet /\ Laid(s.strip) /\ Laid(s.history.before)
      /\ Settled(s) /\ Owned(s) /\ Seen(s) /\ Undone(s) /\ Restored(s) /\ Whole(s)
      /\ s.drag.alive /\ s.drag.state = "DraggingWindow"
  BY DEF MovedByLoop, Body, Sound
<1>2. /\ m \in StateSet /\ m.strip = s.strip /\ m.views = s.views /\ m.history = s.history
      /\ m.failed = s.failed
      /\ m.window = [s.window EXCEPT ![s.drag.attached] = "hidden"]
      /\ m.drag.alive = s.drag.alive /\ m.drag.state = "WaitingToDragTabs" /\ m.drag.target = x
      /\ m.drag.owner = s.drag.owner /\ m.drag.source = s.drag.source
      /\ m.drag.attached = s.drag.attached /\ m.drag.data = s.drag.data
      /\ m.drag.tracked = s.drag.tracked
  BY DEF Hides
<1>3. Dragged(m) = Dragged(s) /\ TabsOf(m) = TabsOf(s)
  BY <1>2 DEF Dragged, TabsOf
<1>4. /\ s.drag.data # <<>> /\ Distinct(TabsOf(s)) /\ s.history.ended = "none"
      /\ s.drag.owner = s.drag.attached /\ s.drag.owner \in Browsers /\ s.drag.tracked = s.drag.attached
      /\ s.drag.attached # Null
      /\ Dragged(s) \subseteq ToSet(s.strip[s.drag.owner])
      /\ s.drag.source # Null => s.strip[s.drag.source] # <<>>
      /\ s.window[s.drag.owner] = "open"
  BY <1>1 DEF Owned
<1>5. /\ m.window[s.drag.attached] = "hidden"
      /\ \A w \in Browsers \ {s.drag.attached} : m.window[w] = s.window[w]
  BY <1>1, <1>2, <1>4, StateIs
<1>6. Settled(m)
  BY <1>1, <1>2, <1>4, <1>5 DEF Settled
<1>7. Owned(m)
  BY <1>1, <1>2, <1>3, <1>4, <1>5 DEF Owned
<1>8. Seen(m)
  BY <1>1, <1>2, <1>3 DEF Seen, Unfailing
<1>9. Undone(m)
  BY <1>1, <1>2, <1>3 DEF Undone
<1>10. Restored(m) /\ Laid(m.strip) /\ Laid(m.history.before) /\ Whole(m)
  BY <1>1, <1>2, <1>3 DEF Restored, Whole
<1> QED
  BY <1>2, <1>6, <1>7, <1>8, <1>9, <1>10 DEF Body, Sound

LEMMA WindowContinued ==
    ASSUME NEW s, MovedByLoop(s),
           NEW found \in {w \in Browsers : s.window[w] = "open"} \cup {Null}, found # s.drag.attached,
           NEW n, NEW p
    PROVE  DragInv(ContinueDragging(s, found, n, p))
<1>1. s.drag.state = "DraggingWindow" /\ Null \notin Browsers /\ s \in StateSet
  BY StripsAssumption DEF MovedByLoop, Body, Sound
<1>2. CASE found = Null
  <2>1. ContinueDragging(s, found, n, p) = s
    BY <1>1, <1>2 DEF ContinueDragging
  <2> QED
    BY <2>1, LoopMovesFine
<1>3. CASE found # Null
  <2> DEFINE u == [s EXCEPT !.drag.newBrowser = FALSE]
             m == [u EXCEPT !.window[s.drag.attached] = "hidden", !.drag.target = found,
                            !.drag.state = "WaitingToDragTabs"]
             r == EndMoveLoop(m)
  <2>1. u.drag.state = "DraggingWindow" /\ u.drag.attached = s.drag.attached
    <3>1. s.drag \in DragSet
      BY <1>1, StateIs
    <3>2. /\ [s.drag EXCEPT !.newBrowser = FALSE].state = s.drag.state
          /\ [s.drag EXCEPT !.newBrowser = FALSE].attached = s.drag.attached
      BY <3>1 DEF DragSet
    <3>3. u.drag = [s.drag EXCEPT !.newBrowser = FALSE]
      BY <1>1 DEF StateSet
    <3> HIDE DEF u
    <3> QED
      BY <1>1, <3>2, <3>3
  <2>2. ContinueDragging(s, found, n, p) = DragBrowserToNewTabStrip(u, found, n, p)
    BY <1>1, <1>3 DEF ContinueDragging
  <2>3. DragBrowserToNewTabStrip(u, found, n, p) =
            EndMoveLoop([u EXCEPT !.window[u.drag.attached] = "hidden", !.drag.target = found,
                                  !.drag.state = "WaitingToDragTabs"])
    <3> HIDE DEF u
    <3> QED
      BY <1>3, <2>1 DEF DragBrowserToNewTabStrip
  <2>4. ContinueDragging(s, found, n, p) = r
    <3> HIDE DEF u
    <3> QED
      BY <2>1, <2>2, <2>3
  <2>5. found \in Browsers /\ s.window[found] = "open"
    BY <1>3
  <2>6. Hides(s, found, m)
    BY <2>5, HidesIs
  <2> HIDE DEF m
  <2>7. Body(m)
    BY <2>5, <2>6, HiddenFine
  <2>8. /\ m \in StateSet /\ m.stack = s.stack /\ m.capture = Null /\ m.drag.alive
        /\ m.drag.state = "WaitingToDragTabs" /\ m.drag.inLoop = TRUE
        /\ m.drag.observed = m.drag.attached /\ Len(s.stack) = 1 /\ s.stack[1].at = "Loop"
    BY <2>6 DEF Hides, MovedByLoop
  <2>9. /\ Alike(m, r) /\ r.drag = m.drag /\ r.stack = Told(s.stack) /\ r.capture = Null
    BY <2>8, LoopToldIs
  <2>10. Len(r.stack) = 1 /\ r.stack[1].at = "Loop" /\ r.stack[1].ending /\ r.stack # <<>>
    <3>1. s.stack \in Seq(FrameSet) /\ s.stack # <<>>
      BY <1>1, <2>8, StackIs
    <3> HIDE DEF r
    <3> QED
      BY <2>8, <2>9, <3>1, ToldIs
  <2> HIDE DEF r
  <2>11. Body(r)
    BY <2>7, <2>9, AlikeFine DEF Body
  <2>12. Turns(r)
    BY <2>8, <2>9, <2>10, TurnsLoop
  <2> QED
    BY <2>4, <2>11, <2>12 DEF DragInv
<1> QED
  BY <1>2, <1>3

--------------------------------------------------------------------------------
\* The loop has returned.
LEMMA OutIs ==
    ASSUME NEW s \in StateSet
    PROVE  LET r == [s EXCEPT !.drag.inLoop = FALSE, !.drag.observed = Null] IN
           /\ r \in StateSet /\ r.strip = s.strip /\ r.window = s.window /\ r.views = s.views
           /\ r.history = s.history /\ r.failed = s.failed /\ r.capture = s.capture
           /\ r.stack = s.stack /\ r.button = s.button
           /\ r.drag.alive = s.drag.alive /\ r.drag.state = s.drag.state
           /\ r.drag.owner = s.drag.owner /\ r.drag.source = s.drag.source
           /\ r.drag.attached = s.drag.attached /\ r.drag.data = s.drag.data
           /\ r.drag.target = s.drag.target /\ r.drag.tracked = s.drag.tracked
           /\ r.drag.inLoop = FALSE /\ r.drag.observed = Null
<1> DEFINE d == [s.drag EXCEPT !.inLoop = FALSE, !.observed = Null]
           r == [s EXCEPT !.drag.inLoop = FALSE, !.drag.observed = Null]
<1>1. s.drag \in DragSet
  BY StateIs
<1>2. /\ d \in DragSet /\ d.alive = s.drag.alive /\ d.state = s.drag.state /\ d.owner = s.drag.owner
      /\ d.source = s.drag.source /\ d.attached = s.drag.attached /\ d.data = s.drag.data
      /\ d.target = s.drag.target /\ d.tracked = s.drag.tracked /\ d.inLoop = FALSE
      /\ d.observed = Null
  BY <1>1 DEF DragSet, B0
<1>3. r = [s EXCEPT !.drag = d]
  OBVIOUS
<1> HIDE DEF d, r
<1>4. /\ r \in StateSet /\ r.strip = s.strip /\ r.window = s.window /\ r.views = s.views
      /\ r.history = s.history /\ r.failed = s.failed /\ r.capture = s.capture
      /\ r.stack = s.stack /\ r.button = s.button /\ r.drag = d
  BY <1>2, <1>3 DEF StateSet
<1> QED
  BY <1>2, <1>4 DEF r

\* r is s with the drag of tabs going on.
Resumed(s, r) ==
    /\ r \in StateSet /\ r.strip = s.strip /\ r.window = s.window /\ r.views = s.views
    /\ r.history = s.history /\ r.failed = s.failed /\ r.stack = s.stack
    /\ r.drag.alive = s.drag.alive /\ r.drag.state = "DraggingTabs"
    /\ r.drag.owner = s.drag.owner /\ r.drag.source = s.drag.source
    /\ r.drag.attached = s.drag.attached /\ r.drag.data = s.drag.data
    /\ r.drag.target = s.drag.target /\ r.drag.tracked = s.drag.tracked
    /\ r.drag.inLoop = s.drag.inLoop /\ r.drag.observed = s.drag.observed

LEMMA ResumedIs ==
    ASSUME NEW s \in StateSet
    PROVE  Resumed(s, [s EXCEPT !.drag.state = "DraggingTabs"])
<1> DEFINE d == [s.drag EXCEPT !.state = "DraggingTabs"]
           r == [s EXCEPT !.drag.state = "DraggingTabs"]
<1>1. s.drag \in DragSet
  BY StateIs
<1>2. /\ d \in DragSet /\ d.alive = s.drag.alive /\ d.state = "DraggingTabs" /\ d.owner = s.drag.owner
      /\ d.source = s.drag.source /\ d.attached = s.drag.attached /\ d.data = s.drag.data
      /\ d.target = s.drag.target /\ d.tracked = s.drag.tracked /\ d.inLoop = s.drag.inLoop
      /\ d.observed = s.drag.observed
  BY <1>1 DEF DragSet, States
<1>3. r = [s EXCEPT !.drag = d]
  OBVIOUS
<1> HIDE DEF d, r
<1>4. /\ r \in StateSet /\ r.strip = s.strip /\ r.window = s.window /\ r.views = s.views
      /\ r.history = s.history /\ r.failed = s.failed /\ r.stack = s.stack /\ r.drag = d
  BY <1>2, <1>3 DEF StateSet
<1> QED
  BY <1>2, <1>4 DEF Resumed, r

LEMMA CarriedAfterLoop ==
    ASSUME NEW s, Body(s), s.drag.alive, s.drag.state = "WaitingToDragTabs", s.stack = <<>>,
           NEW result, NEW p \in Nat
    PROVE  DragInv(AfterMoveLoop(s, result, p))
<1> DEFINE x == s.drag.target
           out == [s EXCEPT !.drag.inLoop = FALSE, !.drag.observed = Null]
           no == FALSE
           there == DetachAndAttachToNewContext(out, no, x)
           on == [there EXCEPT !.drag.state = "DraggingTabs"]
           r == MoveAttached(on, p)
<1>1. /\ s \in StateSet /\ Owned(s) /\ x \in Browsers /\ s.window[x] = "open" /\ x # s.drag.attached
      /\ s.window \in [Browsers -> WindowStates]
  BY StateIs, StripsAssumption DEF Body, Sound, Owned
<1>2. /\ out \in StateSet /\ out.strip = s.strip /\ out.window = s.window /\ out.views = s.views
      /\ out.history = s.history /\ out.failed = s.failed
      /\ out.stack = s.stack
      /\ out.drag.alive = s.drag.alive /\ out.drag.state = s.drag.state
      /\ out.drag.owner = s.drag.owner /\ out.drag.source = s.drag.source
      /\ out.drag.attached = s.drag.attached /\ out.drag.data = s.drag.data
      /\ out.drag.target = s.drag.target
      /\ out.drag.inLoop = FALSE
  BY <1>1, OutIs
<1>3. AfterMoveLoop(s, result, p) = Push(r, "AfterLoop")
  BY DEF AfterMoveLoop
<1> HIDE DEF out
<1>4. Opened(s, x, out)
  BY <1>1, <1>2 DEF Opened
<1>5. Taken(s, x, there) /\ there.drag.target = x
  <2>1. no \in BOOLEAN /\ s.drag.state \in {"DraggingTabs", "WaitingToDragTabs"}
    OBVIOUS
  <2> HIDE DEF no, x
  <2> QED
    BY <1>1, <1>4, <2>1, TakenIs DEF x
<1> HIDE DEF there
<1>6. Resumed(there, on)
  <2>1. there \in StateSet
    BY <1>5 DEF Taken
  <2> QED
    BY <2>1, ResumedIs
<1> HIDE DEF on
<1>7. Taken(s, x, on) /\ on.drag.state = "DraggingTabs" /\ on.drag.target = x
  BY <1>5, <1>6 DEF Taken, Resumed
<1>8. Took(s, x, on)
  BY <1>1, <1>7 DEF Took
<1>9. /\ Body(on) /\ on.drag.alive /\ on.stack = s.stack /\ on.drag.inLoop = FALSE
      /\ on.drag.observed = Null /\ on.drag.state = "DraggingTabs"
  <2>1. Landed(s, x, on)
    BY <1>8, TakenFine
  <2> QED
    BY <1>7, <2>1 DEF Landed
<1>10. Body(r) /\ r.drag = on.drag /\ r.stack = <<>>
  BY <1>9, MoveStep
<1> HIDE DEF r
<1> DEFINE at == "AfterLoop"
<1>11. at \in Frames \ {"Loop"} /\ at # "SaveFocus" /\ at # "Show"
  BY DEF Frames
<1>12. at = "AfterLoop"
  OBVIOUS
<1> HIDE DEF at
<1>13. DragInv(Push(r, at))
  BY <1>9, <1>10, <1>11, <1>12, PushedOne
<1> QED
  BY <1>3, <1>12, <1>13

LEMMA EndedAfterLoop ==
    ASSUME NEW s, Body(s), s.drag.alive, s.drag.state = "DraggingWindow", s.stack = <<>>,
           NEW result, NEW p
    PROVE  DragInv(AfterMoveLoop(s, result, p))
<1> DEFINE out == [s EXCEPT !.drag.inLoop = FALSE, !.drag.observed = Null]
           reason == IF result = "canceled" THEN "cancel" ELSE "complete"
           r == EndDrag(out, reason)
<1>1. s \in StateSet
  BY DEF Body, Sound
<1>2. /\ out \in StateSet /\ out.strip = s.strip /\ out.window = s.window /\ out.views = s.views
      /\ out.history = s.history /\ out.failed = s.failed
      /\ out.stack = s.stack
      /\ out.drag.alive = s.drag.alive /\ out.drag.state = s.drag.state
      /\ out.drag.owner = s.drag.owner /\ out.drag.source = s.drag.source
      /\ out.drag.attached = s.drag.attached /\ out.drag.data = s.drag.data
      /\ out.drag.target = s.drag.target /\ out.drag.tracked = s.drag.tracked
  BY <1>1, OutIs
<1>3. AfterMoveLoop(s, result, p) = r
  BY DEF AfterMoveLoop
<1> HIDE DEF out
<1>4. Sound(out)
  <2>1. Alike(s, out)
    BY <1>2 DEF Alike
  <2> QED
    BY <2>1, AlikeFine DEF Body
<1>5. reason # "capture lost"
  OBVIOUS
<1> HIDE DEF reason
<1>6. Ends(out, r) /\ r.stack \in {out.stack, Told(out.stack)}
  BY <1>2, <1>4, <1>5, EndDragFine
<1> HIDE DEF r
<1>7. r.stack = <<>>
  <2> DEFINE st == out.stack
  <2>1. st \in Seq(FrameSet) /\ st = <<>> /\ r.stack \in {st, Told(st)}
    BY <1>2, <1>6, StateIs
  <2> HIDE DEF st
  <2>2. Told(st) = <<>> <=> st = <<>>
    BY <2>1, ToldIs
  <2> QED
    BY <2>1, <2>2
<1>8. Body(r) /\ ~r.drag.alive
  BY <1>6, NoDragIs DEF Ends
<1>9. Turns(r)
  BY <1>7, <1>8, TurnsNone
<1> QED
  BY <1>3, <1>8, <1>9 DEF DragInv

--------------------------------------------------------------------------------
\* What has called out returns.
LEMMA TopIs ==
    ASSUME NEW s, DragInv(s)
    PROVE  /\ s \in StateSet /\ Len(s.stack) \in 0..2
           /\ At(s) = "EventLoop" <=> Len(s.stack) = 0
           /\ At(s) # "EventLoop" /\ At(s) # "Finder" =>
                  Len(s.stack) = 1 /\ s.stack[1].at = At(s) /\ Top(s) = s.stack[1]
           /\ At(s) = "Finder" =>
                  (Len(s.stack) = 1 /\ s.stack[1].at = "Finder") \/ Len(s.stack) = 2
<1>1. s \in StateSet /\ Turns(s)
  BY DEF DragInv, Body, Sound
<1>2. /\ Len(s.stack) \in Nat
      /\ At(s) = "EventLoop" <=> Len(s.stack) = 0
      /\ Len(s.stack) # 0 => At(s) = s.stack[Len(s.stack)].at /\ Top(s) = s.stack[Len(s.stack)]
  BY <1>1, StackIs
<1>3. Len(s.stack) <= 2 /\ (Len(s.stack) = 2 => s.stack[2].at = "Finder")
  BY <1>1 DEF Turns
<1>4. CASE Len(s.stack) = 0
  BY <1>1, <1>2, <1>4
<1>5. CASE Len(s.stack) = 1
  BY <1>1, <1>2, <1>5
<1>6. CASE Len(s.stack) = 2
  BY <1>1, <1>2, <1>3, <1>6
<1>7. Len(s.stack) = 0 \/ Len(s.stack) = 1 \/ Len(s.stack) = 2
  <2> DEFINE k == Len(s.stack)
  <2>1. k \in Nat /\ k <= 2
    BY <1>2, <1>3
  <2> HIDE DEF k
  <2>2. k = 0 \/ k = 1 \/ k = 2
    BY <2>1
  <2> QED
    BY <2>2 DEF k
<1> QED
  BY <1>4, <1>5, <1>6, <1>7

\* What the rest of the invariant says of a controller that is not in a loop.
Free(s) ==
    /\ s.drag.inLoop = FALSE /\ s.drag.observed = Null
    /\ s.drag.state \in {"NotStarted", "DraggingTabs"}
    /\ s.drag.target # Null => Len(s.stack) = 1 /\ s.stack[1].at = "AfterLoop"
    /\ Len(s.stack) = 1 =>
           /\ s.stack[1].at = "SaveFocus" => s.drag.state = "NotStarted"
           /\ s.stack[1].at \in {"Finder", "Show", "AfterLoop"} => s.drag.state = "DraggingTabs"
           /\ s.stack[1].at = "Show" => ToSet(s.strip[s.drag.owner]) = Dragged(s)

LEMMA FreeIs ==
    ASSUME NEW s, DragInv(s), s.drag.alive, Len(s.stack) \in {0, 1}, ~Looping(s)
    PROVE  Free(s)
<1>1. s \in StateSet /\ Turns(s) /\ Owned(s) /\ s.drag \in DragSet
  BY StateIs DEF DragInv, Body, Sound
<1>2. Len(s.stack) \in Nat /\ (s.stack = <<>> <=> Len(s.stack) = 0)
  BY <1>1, StackIs
<1>3. Looping(s) = FALSE
  BY DEF Looping
<1>4. /\ s.drag.inLoop = Looping(s)
      /\ Looping(s) <=> s.drag.state \in {"DraggingWindow", "WaitingToDragTabs"}
      /\ s.drag.observed = IF Looping(s) THEN s.drag.attached ELSE Null
      /\ Len(s.stack) = 1 =>
             /\ s.stack[1].at = "SaveFocus" => s.drag.state = "NotStarted"
             /\ s.stack[1].at \in {"Finder", "Show", "AfterLoop"} =>
                    s.drag.state = "DraggingTabs"
             /\ s.stack[1].at = "Show" => ToSet(s.strip[s.drag.owner]) = Dragged(s)
      /\ s.drag.target # Null =>
             \/ s.drag.state = "WaitingToDragTabs"
             \/ Len(s.stack) = 1 /\ s.stack[1].at = "AfterLoop"
  BY <1>1 DEF Turns
<1>5. s.drag.state \in States /\ s.drag.state # "Stopped"
  BY <1>1, DragIs DEF Owned
<1>6. s.drag.state \notin {"DraggingWindow", "WaitingToDragTabs"}
  BY <1>3, <1>4
<1>7. s.drag.inLoop = FALSE
  BY <1>3, <1>4
<1>8. s.drag.observed = Null
  BY <1>3, <1>4
<1> QED
  BY <1>4, <1>5, <1>6, <1>7, <1>8 DEF States, Free

LEMMA PoppedIs ==
    ASSUME NEW s, DragInv(s), Len(s.stack) # 0
    PROVE  LET r == Pop(s) IN
           /\ Body(r) /\ r.strip = s.strip /\ r.drag = s.drag /\ r.capture = s.capture
           /\ Dragged(r) = Dragged(s) /\ r.window = s.window /\ r.history = s.history
           /\ Len(r.stack) = Len(s.stack) - 1
           /\ Len(s.stack) = 1 => r.stack = <<>>
           /\ Len(s.stack) = 2 => r.stack[1] = s.stack[1]
<1>1. s \in StateSet /\ Body(s)
  BY DEF DragInv, Body, Sound
<1>2. Len(s.stack) \in Nat
  BY <1>1, StackIs
<1> DEFINE r == Pop(s)
<1>3. /\ r \in StateSet /\ Stacked(s, r, r.stack) /\ Len(r.stack) = Len(s.stack) - 1
      /\ \A i \in 1..Len(s.stack) - 1 : r.stack[i] = s.stack[i]
  BY <1>1, PopIs
<1> HIDE DEF r
<1>4. /\ Body(r) /\ r.strip = s.strip /\ r.drag = s.drag /\ r.capture = s.capture
      /\ Dragged(r) = Dragged(s) /\ r.window = s.window /\ r.history = s.history
  BY <1>1, <1>3, StackedFine
<1>5. Len(s.stack) = 1 => r.stack = <<>>
  BY <1>3, StackIs
<1>6. Len(s.stack) = 2 => r.stack[1] = s.stack[1]
  BY <1>3
<1> QED
  BY <1>3, <1>4, <1>5, <1>6 DEF r

\* The drag has ended meanwhile.
LEMMA DeadReturns ==
    ASSUME NEW s, DragInv(s), Len(s.stack) # 0, ~s.drag.alive
    PROVE  DragInv(Pop(s))
<1> DEFINE r == Pop(s)
<1>1. Len(s.stack) = 1
  BY TopIs DEF DragInv, Turns
<1>2. Body(r) /\ r.drag = s.drag /\ r.stack = <<>>
  BY <1>1, PoppedIs
<1> HIDE DEF r
<1>3. Turns(r)
  BY <1>2, TurnsNone
<1> QED
  BY <1>2, <1>3 DEF DragInv, r

LEMMA SaveFocusReturns ==
    ASSUME NEW s, DragInv(s), At(s) = "SaveFocus", s.drag.alive
    PROVE  DragInv(StartDrag(Pop(s)))
<1> DEFINE r == Pop(s)
<1>1. Len(s.stack) = 1 /\ s.stack[1].at = "SaveFocus"
  BY TopIs
<1>2. s.drag.inLoop = FALSE /\ s.drag.observed = Null /\ s.drag.state = "NotStarted"
  <2>1. Free(s)
    BY <1>1, FreeIs DEF Looping
  <2> QED
    BY <1>1, <2>1 DEF Free
<1>3. Body(r) /\ r.drag = s.drag /\ r.stack = <<>>
  BY <1>1, PoppedIs
<1> HIDE DEF r
<1>4. DragInv(StartDrag(r))
  BY <1>2, <1>3, StartFine
<1> QED
  BY <1>4 DEF r

LEMMA ShowReturns ==
    ASSUME NEW s, DragInv(s), At(s) = "Show", s.drag.alive
    PROVE  DragInv(RunMoveLoop(Pop(s)))
<1> DEFINE r == Pop(s)
<1>1. Len(s.stack) = 1 /\ s.stack[1].at = "Show"
  BY TopIs
<1>2. /\ s.drag.inLoop = FALSE /\ s.drag.target = Null /\ s.drag.state = "DraggingTabs"
      /\ ToSet(s.strip[s.drag.owner]) = Dragged(s)
  <2>1. Free(s)
    BY <1>1, FreeIs DEF Looping
  <2> QED
    BY <1>1, <2>1 DEF Free
<1>3. Body(r) /\ r.drag = s.drag /\ r.stack = <<>> /\ r.strip = s.strip /\ Dragged(r) = Dragged(s)
  BY <1>1, PoppedIs
<1> HIDE DEF r
<1>4. DragInv(RunMoveLoop(r))
  BY <1>2, <1>3, LoopFine
<1> QED
  BY <1>4 DEF r

LEMMA FinderReturns ==
    ASSUME NEW s, DragInv(s), At(s) = "Finder", s.drag.alive,
           NEW found \in {w \in Browsers : s.window[w] = "open"} \cup {Null},
           NEW n \in NewWindows(s) \cup {Null}, NEW p \in Nat,
           s.drag.state = "DraggingWindow" => found # s.drag.attached,
           found = Null /\ s.drag.state = "DraggingTabs" =>
               n # Null \/ Len(s.strip[s.drag.attached]) = Len(s.drag.data)
    PROVE  DragInv(ContinueDragging(Pop(s), found, n, p))
<1> DEFINE r == Pop(s)
<1>1. CASE Len(s.stack) = 1 /\ s.stack[1].at = "Finder"
  <2>1. /\ s.drag.inLoop = FALSE /\ s.drag.target = Null /\ s.drag.state = "DraggingTabs"
        /\ s.drag.observed = Null
    <3>1. Free(s)
      BY <1>1, FreeIs DEF Looping
    <3> QED
      BY <1>1, <3>1 DEF Free
  <2>2. Body(r) /\ r.drag = s.drag /\ r.stack = <<>> /\ r.strip = s.strip /\ r.window = s.window
    BY <1>1, PoppedIs
  <2> HIDE DEF r
  <2>3. Idle(r) /\ NewWindows(r) = NewWindows(s)
    BY <2>1, <2>2 DEF Idle, NewWindows
  <2>4. DragInv(ContinueDragging(r, found, n, p))
    BY <2>1, <2>2, <2>3, ContinuedFine
  <2> QED
    BY <2>4 DEF r
<1>2. CASE Len(s.stack) = 2
  <2>1. s \in StateSet /\ Turns(s) /\ Body(s) /\ Owned(s)
    BY DEF DragInv, Body, Sound
  <2>2. /\ Looping(s) /\ s.stack[1].at = "Loop" /\ s.drag.state = "DraggingWindow" /\ s.capture = Null
        /\ s.drag.observed = s.drag.attached
    BY <1>2, <2>1 DEF Turns, Looping
  <2>3. s.drag.inLoop = TRUE
    <3>1. s.drag.inLoop = Looping(s)
      BY <2>1 DEF Turns
    <3>2. Looping(s) = TRUE
      BY <2>2 DEF Looping
    <3> QED
      BY <3>1, <3>2
  <2>4. s.drag.target = Null
    BY <2>1, <2>2 DEF Owned
  <2>5. Body(r) /\ r.drag = s.drag /\ Len(r.stack) = 1 /\ r.stack[1] = s.stack[1]
        /\ r.window = s.window /\ r.capture = s.capture
    <3>1. Len(s.stack) # 0
      BY <1>2
    <3>2. /\ Body(r) /\ r.drag = s.drag /\ Len(r.stack) = Len(s.stack) - 1
          /\ Len(s.stack) = 2 => r.stack[1] = s.stack[1]
          /\ r.window = s.window /\ r.capture = s.capture
      BY <3>1, PoppedIs
    <3> HIDE DEF r
    <3> QED
      BY <1>2, <3>2
  <2> HIDE DEF r
  <2>6. MovedByLoop(r)
    BY <2>2, <2>3, <2>4, <2>5 DEF MovedByLoop
  <2>7. DragInv(ContinueDragging(r, found, n, p))
    BY <2>2, <2>5, <2>6, WindowContinued
  <2> QED
    BY <2>7 DEF r
<1> QED
  BY <1>1, <1>2, TopIs

LEMMA LoopEnded ==
    ASSUME NEW s, DragInv(s), At(s) = "Loop", s.drag.alive, NEW result, NEW p \in Nat
    PROVE  DragInv(AfterMoveLoop(Pop(s), result, p))
<1> DEFINE r == Pop(s)
<1>1. Len(s.stack) = 1 /\ s.stack[1].at = "Loop"
  BY TopIs
<1>2. s \in StateSet /\ Turns(s) /\ Body(s)
  BY DEF DragInv, Body, Sound
<1>3. s.drag.state \in {"DraggingWindow", "WaitingToDragTabs"}
  <2>1. s.stack # <<>>
    BY <1>1, <1>2, StackIs
  <2>2. Looping(s)
    BY <1>1, <2>1 DEF Looping
  <2> QED
    BY <1>2, <2>2 DEF Turns
<1>4. Body(r) /\ r.drag = s.drag /\ r.stack = <<>>
  BY <1>1, PoppedIs
<1> HIDE DEF r
<1>5. DragInv(AfterMoveLoop(r, result, p))
  BY <1>3, <1>4, CarriedAfterLoop, EndedAfterLoop
<1> QED
  BY <1>5 DEF r

\* The window the tabs were dragged to has been activated.
LEMMA ActivatedFine ==
    ASSUME NEW s, DragInv(s), At(s) = "AfterLoop", s.drag.alive
    PROVE  DragInv([Pop(s) EXCEPT !.drag.target = Null])
<1> DEFINE m == Pop(s)
           d == [m.drag EXCEPT !.target = Null]
           r == [m EXCEPT !.drag.target = Null]
<1>1. Len(s.stack) = 1 /\ s.stack[1].at = "AfterLoop"
  BY TopIs
<1>2. /\ s.drag.inLoop = FALSE /\ s.drag.observed = Null /\ s.drag.state = "DraggingTabs"
  <2>1. Free(s)
    BY <1>1, FreeIs DEF Looping
  <2> QED
    BY <1>1, <2>1 DEF Free
<1>3. Body(m) /\ m.drag = s.drag /\ m.stack = <<>>
  BY <1>1, PoppedIs
<1> HIDE DEF m
<1>4. /\ m \in StateSet /\ Laid(m.strip) /\ Laid(m.history.before) /\ m.drag \in DragSet
      /\ Settled(m) /\ Owned(m) /\ Seen(m) /\ Undone(m) /\ Restored(m) /\ Whole(m)
  BY <1>3, StateIs DEF Body, Sound
<1>5. /\ d \in DragSet /\ d.alive = m.drag.alive /\ d.state = m.drag.state /\ d.owner = m.drag.owner
      /\ d.source = m.drag.source /\ d.attached = m.drag.attached /\ d.data = m.drag.data
      /\ d.target = Null /\ d.tracked = m.drag.tracked /\ d.inLoop = m.drag.inLoop
      /\ d.observed = m.drag.observed
  BY <1>4 DEF DragSet, B0
<1>6. r = [m EXCEPT !.drag = d]
  OBVIOUS
<1> HIDE DEF d, r
<1>7. /\ r \in StateSet /\ r.strip = m.strip /\ r.window = m.window /\ r.views = m.views
      /\ r.history = m.history /\ r.failed = m.failed /\ r.stack = m.stack /\ r.drag = d
  BY <1>4, <1>5, <1>6 DEF StateSet
<1>8. Dragged(r) = Dragged(m) /\ TabsOf(r) = TabsOf(m)
  BY <1>5, <1>7 DEF Dragged, TabsOf
<1>9. Settled(r) /\ Seen(r) /\ Restored(r) /\ Laid(r.strip) /\ Laid(r.history.before) /\ Whole(r)
  BY <1>4, <1>5, <1>7, <1>8 DEF Settled, Seen, Unfailing, Restored, Whole
<1>10. Owned(r)
  BY <1>2, <1>3, <1>4, <1>5, <1>7, <1>8 DEF Owned
<1>11. Undone(r)
  BY <1>4, <1>5, <1>7, <1>8 DEF Undone
<1>12. Turns(r)
  BY ZenonT(40), <1>2, <1>3, <1>5, <1>7, TurnsNone
<1>13. DragInv(r)
  BY <1>7, <1>9, <1>10, <1>11, <1>12 DEF DragInv, Body, Sound
<1> QED
  BY <1>13 DEF r, m

--------------------------------------------------------------------------------
\* Mouse, keys and capture.
\* What the rest of the invariant says of a controller that is in a loop.
LoopKnown(s) ==
    /\ Looping(s) /\ s.stack # <<>> /\ s.stack[1].at = "Loop" /\ s.capture = Null
    /\ s.drag.alive =>
           /\ s.drag.inLoop = TRUE /\ s.drag.observed = s.drag.attached
           /\ s.drag.state \in {"DraggingWindow", "WaitingToDragTabs"}
           /\ s.drag.state = "WaitingToDragTabs" => s.stack[1].ending
           /\ s.drag.state = "DraggingWindow" => s.drag.target = Null

LEMMA LoopIs ==
    ASSUME NEW s, DragInv(s), Len(s.stack) = 1, s.stack[1].at = "Loop"
    PROVE  LoopKnown(s)
<1>1. s \in StateSet /\ Turns(s) /\ Owned(s)
  BY DEF DragInv, Body, Sound
<1>2. s.stack # <<>>
  BY <1>1, StackIs
<1>3. Looping(s) /\ Looping(s) = TRUE
  BY <1>2 DEF Looping
<1>4. /\ Looping(s) => s.capture = Null
      /\ s.drag.alive => /\ s.drag.inLoop = Looping(s)
                         /\ Looping(s) <=> s.drag.state \in {"DraggingWindow", "WaitingToDragTabs"}
                         /\ s.drag.state = "WaitingToDragTabs" => s.stack[1].ending
                         /\ s.drag.observed = IF Looping(s) THEN s.drag.attached ELSE Null
  BY <1>1 DEF Turns
<1>5. s.drag.alive /\ s.drag.state = "DraggingWindow" => s.drag.target = Null
  BY <1>1 DEF Owned
<1>6. s.drag.alive => s.drag.inLoop = TRUE
  BY <1>3, <1>4
<1>7. s.drag.alive => s.drag.observed = s.drag.attached
  BY <1>3, <1>4
<1>8. s.drag.alive => s.drag.state \in {"DraggingWindow", "WaitingToDragTabs"}
  BY <1>3, <1>4
<1> QED
  BY <1>2, <1>3, <1>4, <1>5, <1>6, <1>7, <1>8 DEF LoopKnown

LEMMA WindowMoved ==
    ASSUME NEW s, DragInv(s), Len(s.stack) = 1, s.stack[1].at = "Loop", ~s.stack[1].ending,
           s.drag.alive
    PROVE  DragInv(Push(s, "Finder"))
<1> DEFINE at == "Finder"
           r == Push(s, at)
<1>1. s \in StateSet /\ Turns(s) /\ Body(s)
  BY DEF DragInv, Body, Sound
<1>2. LoopKnown(s)
  BY LoopIs
<1>3. /\ s.stack[1].at = "Loop" /\ s.capture = Null
      /\ s.drag.inLoop = TRUE /\ s.drag.observed = s.drag.attached
      /\ s.drag.state = "DraggingWindow" /\ s.drag.target = Null
  BY <1>2 DEF LoopKnown
<1>4. at \in Frames /\ at = "Finder"
  BY DEF Frames
<1> HIDE DEF at
<1>5. /\ r \in StateSet /\ Stacked(s, r, r.stack) /\ Len(r.stack) = Len(s.stack) + 1
      /\ r.stack[Len(s.stack) + 1].at = at
      /\ \A i \in 1..Len(s.stack) : r.stack[i] = s.stack[i]
  BY <1>1, <1>4, PushIs
<1> HIDE DEF r
<1>6. Len(r.stack) = 2 /\ r.stack[2].at = "Finder" /\ r.stack[1] = s.stack[1]
  BY <1>4, <1>5
<1>7. Body(r) /\ r.drag = s.drag /\ r.capture = s.capture
  BY <1>1, <1>5, StackedFine
<1>8. Looping(r) /\ Looping(r) = TRUE
  <2>1. r.stack # <<>>
    BY <1>5, <1>6, StackIs
  <2> QED
    BY <1>3, <1>6, <2>1 DEF Looping
<1>9. r.drag.inLoop = Looping(r)
  BY <1>3, <1>7, <1>8
<1>10. r.drag.observed = IF Looping(r) THEN r.drag.attached ELSE Null
  BY <1>3, <1>7, <1>8
<1>11. Turns(r)
  BY <1>3, <1>6, <1>7, <1>8, <1>9, <1>10 DEF Turns
<1> QED
  BY <1>4, <1>7, <1>11 DEF DragInv, r

LEMMA MouseMoved ==
    ASSUME NEW s, DragInv(s), s.drag.alive,
           At(s) = "EventLoop" \/ (At(s) = "Loop" /\ ~Top(s).ending)
    PROVE  DragInv(Drag(s))
<1>1. s \in StateSet /\ Body(s) /\ Owned(s)
  BY DEF DragInv, Body, Sound
<1>2. CASE At(s) = "EventLoop"
  <2>1. Len(s.stack) = 0 /\ s.stack = <<>> /\ ~Looping(s)
    BY <1>1, <1>2, TopIs, StackIs DEF Looping
  <2>2. Free(s)
    BY <2>1, FreeIs
  <2>3. /\ s.drag.inLoop = FALSE /\ s.drag.observed = Null /\ s.drag.target = Null
        /\ s.drag.state \in {"NotStarted", "DraggingTabs"}
    BY <2>1, <2>2 DEF Free
  <2>4. CASE s.drag.state = "DraggingTabs"
    <3>1. Drag(s) = Push(s, "Finder")
      BY <2>4 DEF Drag
    <3> QED
      BY <1>1, <2>1, <2>3, <2>4, <3>1, FinderPushed
  <2>5. CASE s.drag.state = "NotStarted"
    <3> DEFINE at == "SaveFocus"
    <3>1. Drag(s) = Push(s, at)
      BY <2>5 DEF Drag
    <3>2. at \in Frames \ {"Loop"} /\ at = "SaveFocus"
      BY DEF Frames
    <3> HIDE DEF at
    <3> QED
      BY <1>1, <2>1, <2>3, <2>5, <3>1, <3>2, PushedOne
  <2> QED
    BY <2>3, <2>4, <2>5
<1>3. CASE At(s) = "Loop" /\ ~Top(s).ending
  <2>1. Len(s.stack) = 1 /\ s.stack[1].at = "Loop" /\ ~s.stack[1].ending
    BY <1>3, TopIs
  <2>2. LoopKnown(s)
    BY <2>1, LoopIs
  <2>3. s.drag.state = "DraggingWindow"
    BY <2>1, <2>2 DEF LoopKnown
  <2>4. Drag(s) = Push(s, "Finder")
    BY <2>3 DEF Drag
  <2> QED
    BY <2>1, <2>4, WindowMoved
<1> QED
  BY <1>2, <1>3

LEMMA PutCapture ==
    ASSUME NEW s \in StateSet
    PROVE  LET r == [s EXCEPT !.capture = Null] IN
           /\ Alike(s, r) /\ r.drag = s.drag /\ r.capture = Null /\ r.stack = s.stack
           /\ r.button = s.button /\ r.strip = s.strip
<1> DEFINE r == [s EXCEPT !.capture = Null]
<1>1. /\ r \in StateSet /\ r.strip = s.strip /\ r.window = s.window /\ r.views = s.views
      /\ r.drag = s.drag /\ r.capture = Null /\ r.button = s.button /\ r.stack = s.stack
      /\ r.history = s.history /\ r.failed = s.failed
  BY DEF StateSet, B0
<1> QED
  BY <1>1 DEF Alike

LEMMA UncapturedFine ==
    ASSUME NEW s, DragInv(s)
    PROVE  DragInv([s EXCEPT !.capture = Null])
<1> DEFINE r == [s EXCEPT !.capture = Null]
<1>1. s \in StateSet /\ Body(s) /\ Turns(s)
  BY DEF DragInv, Body, Sound
<1>2. /\ Alike(s, r) /\ r.drag = s.drag /\ r.capture = Null /\ r.stack = s.stack /\ r.strip = s.strip
  BY <1>1, PutCapture
<1> HIDE DEF r
<1>3. Body(r) /\ Dragged(r) = Dragged(s)
  BY <1>1, <1>2, AlikeFine DEF Body
<1>4. Looping(r) = Looping(s)
  BY <1>2 DEF Looping
<1>5. Turns(r)
  BY <1>1, <1>2, <1>3, <1>4 DEF Turns
<1> QED
  BY <1>3, <1>5 DEF DragInv, r

\* The drag ends for one of the reasons EndDrag() is told.
LEMMA EndedFine ==
    ASSUME NEW s, DragInv(s), s.drag.alive, s.drag.state # "WaitingToDragTabs", Len(s.stack) # 2,
           NEW reason, ~(reason = "capture lost" /\ s.drag.state = "DraggingWindow")
    PROVE  DragInv(EndDrag(s, reason)) /\ EndDrag(s, reason).drag = NoDrag
<1> DEFINE r == EndDrag(s, reason)
<1>1. s \in StateSet /\ Sound(s) /\ Turns(s)
  BY DEF DragInv, Body, Sound
<1>2. Ends(s, r) /\ r.stack \in {s.stack, Told(s.stack)}
  BY <1>1, EndDragFine
<1> HIDE DEF r
<1>3. Body(r) /\ r.drag = NoDrag /\ ~r.drag.alive /\ r.capture \in {s.capture, Null}
  BY <1>2, NoDragIs DEF Ends
<1>4. Turns(r)
  BY <1>1, <1>2, <1>3, EndTurns
<1> QED
  BY <1>3, <1>4 DEF DragInv, r

\* What is dispatched does not find the controller waiting.
LEMMA DispatchedIs ==
    ASSUME NEW s, DragInv(s), At(s) = "EventLoop" \/ (At(s) = "Loop" /\ ~Top(s).ending)
    PROVE  /\ Len(s.stack) # 2
           /\ s.drag.alive => s.drag.state # "WaitingToDragTabs"
           /\ s.drag.alive => s.drag.target = Null
<1>1. s \in StateSet
  BY DEF DragInv, Body, Sound
<1>2. CASE At(s) = "EventLoop"
  <2>1. Len(s.stack) = 0 /\ s.stack = <<>> /\ ~Looping(s)
    BY <1>1, <1>2, TopIs, StackIs DEF Looping
  <2>2. s.drag.alive => Free(s)
    BY <2>1, FreeIs
  <2> QED
    BY <2>1, <2>2 DEF Free
<1>3. CASE At(s) = "Loop" /\ ~Top(s).ending
  <2>1. Len(s.stack) = 1 /\ s.stack[1].at = "Loop" /\ ~s.stack[1].ending
    BY <1>3, TopIs
  <2>2. LoopKnown(s)
    BY <2>1, LoopIs
  <2> QED
    BY <2>1, <2>2 DEF LoopKnown
<1> QED
  BY <1>2, <1>3

\* The loop is told to end.
LEMMA StoppedLoop ==
    ASSUME NEW s, DragInv(s), At(s) = "Loop", NEW r, NEW st, Stacked(s, r, st), Len(st) = 1,
           st[1].at = "Loop", st[1].ending = TRUE
    PROVE  DragInv(r)
<1>1. Len(s.stack) = 1 /\ s.stack[1].at = "Loop" /\ Body(s)
  BY TopIs DEF DragInv
<1>2. LoopKnown(s)
  BY <1>1, LoopIs
<1>3. Body(r) /\ r.drag = s.drag /\ r.capture = s.capture /\ r.stack = st
  BY <1>1, StackedFine
<1>4. r.stack # <<>>
  <2>1. r \in StateSet
    BY <1>3 DEF Body, Sound
  <2>2. Len(r.stack) = 1
    BY <1>3
  <2>3. r.stack = <<>> <=> Len(r.stack) = 0
    BY <2>1, StackIs
  <2> QED
    BY <2>2, <2>3
<1>5. r.capture = Null
  BY <1>2, <1>3 DEF LoopKnown
<1>6. r.drag.alive =>
          /\ r.drag.inLoop = TRUE /\ r.drag.observed = r.drag.attached
          /\ r.drag.state \in {"DraggingWindow", "WaitingToDragTabs"}
          /\ r.drag.state = "DraggingWindow" => r.drag.target = Null
          /\ r.drag.state = "WaitingToDragTabs" => r.stack[1].ending
  BY <1>2, <1>3 DEF LoopKnown
<1>7. Turns(r)
  BY <1>3, <1>4, <1>5, <1>6, TurnsLoop
<1> QED
  BY <1>3, <1>7 DEF DragInv

LEMMA LoopReleased ==
    ASSUME NEW s, DragInv(s), At(s) = "Loop"
    PROVE  DragInv(EndMoveLoop(s))
<1> DEFINE r == EndMoveLoop(s)
           st == s.stack
<1>1. s \in StateSet /\ st \in Seq(FrameSet) /\ Len(st) = 1 /\ st[1].at = "Loop"
  BY TopIs, StateIs
<1>2. Alike(s, r) /\ r.drag = s.drag /\ r.stack = Told(st) /\ r.capture = s.capture /\ r.button = s.button
  BY <1>1, LoopToldIs
<1>3. Len(Told(st)) = 1 /\ Told(st)[1].at = "Loop" /\ Told(st)[1].ending
  <2> HIDE DEF st
  <2> QED
    BY <1>1, ToldIs
<1>4. Told(st)[1].ending = TRUE
  <2>1. Told(st) \in Seq(FrameSet)
    BY <1>1, ToldIs
  <2>2. Told(st)[1] \in FrameSet
    BY <1>3, <2>1
  <2> QED
    BY <1>3, <2>2 DEF FrameSet
<1> HIDE DEF r
<1>5. Stacked(s, r, Told(st))
  BY <1>2 DEF Stacked
<1> HIDE DEF st
<1>6. DragInv(r)
  BY <1>3, <1>4, <1>5, StoppedLoop
<1> QED
  BY <1>6 DEF r

LEMMA LoopCanceled ==
    ASSUME NEW s, DragInv(s), At(s) = "Loop"
    PROVE  DragInv([s EXCEPT !.stack[Len(s.stack)].ending = TRUE,
                             !.stack[Len(s.stack)].result = "canceled"])
<1> DEFINE f == [s.stack[1] EXCEPT !.ending = TRUE, !.result = "canceled"]
           st == [s.stack EXCEPT ![1] = f]
           r == [s EXCEPT !.stack[Len(s.stack)].ending = TRUE,
                          !.stack[Len(s.stack)].result = "canceled"]
<1>1. s \in StateSet /\ s.stack \in Seq(FrameSet) /\ Len(s.stack) = 1 /\ s.stack[1].at = "Loop"
  BY TopIs, StateIs
<1>2. s.stack[1] \in FrameSet
  BY <1>1
<1>3. f \in FrameSet /\ f.at = s.stack[1].at /\ f.ending = TRUE
  BY <1>2 DEF FrameSet
<1>4. r = [s EXCEPT !.stack = st]
  BY <1>1
<1> HIDE DEF f, r
<1>5. st \in Seq(FrameSet) /\ Len(st) = 1 /\ st[1] = f
  BY <1>1, <1>3
<1> HIDE DEF st
<1>6. Stacked(s, r, st)
  BY <1>1, <1>4, <1>5, PutStack
<1>7. DragInv(r)
  BY <1>1, <1>3, <1>5, <1>6, StoppedLoop
<1> QED
  BY <1>7 DEF r

LEMMA ReleasedFine ==
    ASSUME NEW s, DragInv(s), At(s) = "EventLoop", NEW w
    PROVE  DragInv([ContextEndDrag(s, w, "complete") EXCEPT !.capture = Null])
<1> DEFINE m == ContextEndDrag(s, w, "complete")
<1>1. DragInv(m)
  <2>1. CASE s.drag.alive /\ s.drag.owner = w
    <3>1. m = EndDrag(s, "complete")
      BY <2>1 DEF ContextEndDrag
    <3> DEFINE reason == "complete"
    <3>2. s.drag.state # "WaitingToDragTabs" /\ Len(s.stack) # 2 /\ reason # "capture lost"
      BY <2>1, DispatchedIs
    <3> HIDE DEF reason
    <3>3. DragInv(EndDrag(s, reason))
      BY <2>1, <3>2, EndedFine
    <3> QED
      BY <3>1, <3>3 DEF reason
  <2>2. CASE ~(s.drag.alive /\ s.drag.owner = w)
    <3>1. m = s
      BY <2>2 DEF ContextEndDrag
    <3> QED
      BY <3>1
  <2> QED
    BY <2>1, <2>2
<1> HIDE DEF m
<1>2. DragInv([m EXCEPT !.capture = Null])
  BY <1>1, UncapturedFine
<1> QED
  BY <1>2 DEF m

LEMMA CaptureLost ==
    ASSUME NEW s, DragInv(s), s.capture # Null
    PROVE  DragInv(ContextEndDrag([s EXCEPT !.capture = Null], s.capture, "capture lost"))
<1> DEFINE m == [s EXCEPT !.capture = Null]
           reason == "capture lost"
           r == ContextEndDrag(m, s.capture, reason)
<1>1. s \in StateSet /\ Turns(s)
  BY DEF DragInv, Body, Sound
<1>2. DragInv(m) /\ m.drag = s.drag /\ m.stack = s.stack
  BY <1>1, UncapturedFine, PutCapture
<1>3. ~Looping(s) /\ Len(s.stack) # 2
  BY <1>1 DEF Turns
<1>4. s.drag.alive => s.drag.state # "WaitingToDragTabs"
  BY <1>1, <1>3 DEF Turns
<1> HIDE DEF m, reason
<1>5. CASE m.drag.alive /\ m.drag.owner = s.capture
  <2>1. r = EndDrag(m, reason)
    BY <1>5 DEF ContextEndDrag
  <2>2. ~(reason = "capture lost" /\ m.drag.state = "DraggingWindow")
    <3>1. m.drag.state # "DraggingWindow"
      BY <1>1, <1>2, <1>3, <1>5 DEF Turns
    <3> QED
      BY <3>1
  <2>3. DragInv(EndDrag(m, reason))
    BY <1>2, <1>3, <1>4, <1>5, <2>2, EndedFine
  <2> QED
    BY <2>1, <2>3 DEF m, reason
<1>6. CASE ~(m.drag.alive /\ m.drag.owner = s.capture)
  <2>1. r = m
    BY <1>6 DEF ContextEndDrag
  <2> QED
    BY <1>2, <2>1 DEF m, reason
<1> QED
  BY <1>5, <1>6

LEMMA KeyFine ==
    ASSUME NEW s, DragInv(s), At(s) = "EventLoop" \/ (At(s) = "Loop" /\ ~Top(s).ending),
           s.drag.alive, NEW reason \in {"complete", "cancel"}
    PROVE  DragInv(EndDrag(s, reason))
<1>1. s.drag.state # "WaitingToDragTabs" /\ Len(s.stack) # 2
  BY DispatchedIs
<1>2. reason # "capture lost"
  OBVIOUS
<1> QED
  BY <1>1, <1>2, EndedFine

--------------------------------------------------------------------------------
\* Tabs are opened.
LEMMA AppendIs ==
    ASSUME NEW q, Distinct(q), NEW t \in Tabs, t \notin ToSet(q)
    PROVE  /\ Append(q, t) \in Seq(Tabs) /\ Distinct(Append(q, t))
           /\ ToSet(Append(q, t)) = ToSet(q) \cup {t} /\ Append(q, t) # <<>>
<1> DEFINE r == Append(q, t)
<1>1. /\ q \in Seq(Tabs) /\ Len(q) \in Nat /\ DOMAIN q = 1..Len(q)
      /\ \A i \in 1..Len(q) : q[i] \in ToSet(q)
      /\ \A x : x \in ToSet(q) <=> \E i \in 1..Len(q) : q[i] = x
      /\ \A i, j \in 1..Len(q) : q[i] = q[j] => i = j
  BY DistinctIs
<1>2. /\ r \in Seq(Tabs) /\ Len(r) = Len(q) + 1 /\ r[Len(q) + 1] = t
      /\ \A i \in 1..Len(q) : r[i] = q[i]
  BY <1>1, AppendProperties
<1> HIDE DEF r
<1>3. /\ Len(r) \in Nat /\ DOMAIN r = 1..Len(r) /\ (r = <<>> <=> Len(r) = 0)
      /\ \A x : x \in ToSet(r) <=> \E i \in 1..Len(r) : r[i] = x
  BY <1>2, SeqIs
<1>4. \A i \in 1..Len(r) : i \in 1..Len(q) \/ i = Len(q) + 1
  BY <1>1, <1>2
<1>5. ASSUME NEW i \in 1..Len(r), NEW j \in 1..Len(r), r[i] = r[j]
      PROVE  i = j
  <2>1. CASE i \in 1..Len(q) /\ j \in 1..Len(q)
    BY <1>1, <1>2, <1>5, <2>1
  <2>2. CASE i \in 1..Len(q) /\ j = Len(q) + 1
    BY <1>1, <1>2, <1>5, <2>2
  <2>3. CASE i = Len(q) + 1 /\ j \in 1..Len(q)
    BY <1>1, <1>2, <1>5, <2>3
  <2> QED
    BY <1>4, <2>1, <2>2, <2>3
<1>6. IsInjective(r)
  BY <1>3, <1>5 DEF IsInjective
<1>7. ToSet(r) = ToSet(q) \cup {t}
  <2>1. ASSUME NEW x \in ToSet(r) PROVE x \in ToSet(q) \cup {t}
    BY <1>1, <1>2, <1>3, <1>4, <2>1
  <2>2. ASSUME NEW x \in ToSet(q) PROVE x \in ToSet(r)
    <3>1. PICK i \in 1..Len(q) : q[i] = x
      BY <1>1, <2>2
    <3>2. i \in 1..Len(r) /\ r[i] = x
      BY <1>1, <1>2, <3>1
    <3> QED
      BY <1>3, <3>2
  <2>3. t \in ToSet(r)
    <3>1. Len(q) + 1 \in 1..Len(r)
      BY <1>1, <1>2
    <3> QED
      BY <1>2, <1>3, <3>1
  <2> QED
    BY <2>1, <2>2, <2>3
<1>8. r # <<>>
  BY <1>1, <1>2, <1>3
<1> QED
  BY <1>2, <1>6, <1>7, <1>8 DEF Distinct, r

LEMMA Disturb ==
    ASSUME NEW h \in HistorySet
    PROVE  LET g == [h EXCEPT !.disturbed = TRUE, !.changes = h.changes + 1] IN
           g \in HistorySet /\ g.disturbed = TRUE /\ g.before = h.before /\ g.ended = h.ended /\ g.quick = h.quick
<1> DEFINE c == h.changes + 1
           b == TRUE
<1>1. c \in Nat /\ b \in BOOLEAN
  BY DEF HistorySet
<1> HIDE DEF c
<1>2. LET g == [h EXCEPT !.disturbed = b, !.changes = c] IN
      g \in HistorySet /\ g.disturbed = b /\ g.before = h.before /\ g.ended = h.ended /\ g.quick = h.quick
  <2> HIDE DEF b
  <2> QED
    BY <1>1 DEF HistorySet
<1> QED
  BY <1>2 DEF c

\* r is s with t at the end of the strip of w.
Added(s, w, t, r) ==
    /\ r \in StateSet /\ r.strip = [s.strip EXCEPT ![w] = Append(s.strip[w], t)]
    /\ r.window = s.window /\ r.views = s.views /\ r.drag = s.drag /\ r.capture = s.capture
    /\ r.button = s.button /\ r.stack = s.stack /\ r.failed = s.failed
    /\ r.history.disturbed = TRUE /\ r.history.before = s.history.before
    /\ r.history.ended = s.history.ended /\ r.history.quick = s.history.quick

LEMMA AddedIs ==
    ASSUME NEW s \in StateSet, NEW w \in Browsers, NEW t \in Tabs
    PROVE  Added(s, w, t, [s EXCEPT !.strip[w] = Append(@, t), !.history.disturbed = TRUE,
                                    !.history.changes = @ + 1])
<1> DEFINE q == Append(s.strip[w], t)
           strips == [s.strip EXCEPT ![w] = q]
           h == [s.history EXCEPT !.disturbed = TRUE, !.changes = s.history.changes + 1]
           r == [s EXCEPT !.strip[w] = Append(@, t), !.history.disturbed = TRUE,
                          !.history.changes = @ + 1]
<1>1. s.strip \in [Browsers -> Seq(Tabs)] /\ s.history \in HistorySet
  BY StateIs
<1>2. q \in Seq(Tabs)
  BY <1>1, AppendProperties
<1>3. /\ h \in HistorySet /\ h.disturbed = TRUE /\ h.before = s.history.before
      /\ h.ended = s.history.ended /\ h.quick = s.history.quick
  BY <1>1, Disturb
<1>4. r = [s EXCEPT !.strip = strips, !.history = h]
  BY <1>1 DEF HistorySet, StateSet
<1>5. strips \in [Browsers -> Seq(Tabs)]
  <2> HIDE DEF q
  <2> QED
    BY <1>1, <1>2
<1> HIDE DEF q, h, strips, r
<1>6. /\ r \in StateSet /\ r.strip = strips /\ r.window = s.window /\ r.views = s.views
      /\ r.drag = s.drag /\ r.capture = s.capture /\ r.button = s.button /\ r.stack = s.stack
      /\ r.failed = s.failed /\ r.history = h
  BY <1>3, <1>4, <1>5 DEF StateSet
<1>7. Added(s, w, t, r)
  BY <1>3, <1>6 DEF Added, strips, q
<1> QED
  BY <1>7 DEF r

LEMMA AddedFine ==
    ASSUME NEW s, Body(s), NEW w \in Browsers, s.window[w] = "open", NEW t \in Tabs,
           \A x \in Browsers : t \notin ToSet(s.strip[x]), NEW r, Added(s, w, t, r)
    PROVE  /\ Sound(r) /\ Dragged(r) = Dragged(s)
           /\ \A x \in Browsers \ {w} : r.strip[x] = s.strip[x]
<1>1. /\ s \in StateSet /\ Laid(s.strip) /\ Laid(s.history.before)
      /\ Settled(s) /\ Owned(s) /\ Seen(s)
  BY DEF Body, Sound
<1>2. /\ r \in StateSet /\ r.strip = [s.strip EXCEPT ![w] = Append(s.strip[w], t)]
      /\ r.window = s.window /\ r.views = s.views /\ r.drag = s.drag /\ r.failed = s.failed
      /\ r.history.disturbed = TRUE /\ r.history.before = s.history.before
      /\ r.history.ended = s.history.ended /\ r.history.quick = s.history.quick
  BY DEF Added
<1>3. Dragged(r) = Dragged(s) /\ TabsOf(r) = TabsOf(s)
  BY <1>2 DEF Dragged, TabsOf
<1> DEFINE q == Append(s.strip[w], t)
<1>4. Distinct(q) /\ ToSet(q) = ToSet(s.strip[w]) \cup {t} /\ q # <<>>
  BY <1>1, LaidIs, AppendIs
<1> HIDE DEF q
<1>5. /\ r.strip[w] = q /\ \A x \in Browsers \ {w} : r.strip[x] = s.strip[x]
  BY <1>1, <1>2, StateIs DEF q
<1>6. \A x \in Browsers : ToSet(s.strip[x]) \subseteq ToSet(r.strip[x])
  BY <1>4, <1>5
<1>7. Laid(r.strip)
  <2>1. \A x \in Browsers : Distinct(r.strip[x])
    BY <1>1, <1>4, <1>5, LaidIs
  <2>2. ASSUME NEW x \in Browsers, NEW y \in Browsers, x # y
        PROVE  ToSet(r.strip[x]) \cap ToSet(r.strip[y]) = {}
    <3>1. ToSet(s.strip[x]) \cap ToSet(s.strip[y]) = {} /\ t \notin ToSet(s.strip[x])
          /\ t \notin ToSet(s.strip[y])
      BY <1>1, <2>2, LaidIs
    <3>2. ToSet(r.strip[x]) = IF x = w THEN ToSet(s.strip[x]) \cup {t} ELSE ToSet(s.strip[x])
      BY <1>4, <1>5
    <3>3. ToSet(r.strip[y]) = IF y = w THEN ToSet(s.strip[y]) \cup {t} ELSE ToSet(s.strip[y])
      BY <1>4, <1>5
    <3> QED
      BY <2>2, <3>1, <3>2, <3>3
  <2> QED
    BY <2>1, <2>2 DEF Laid
<1>8. Settled(r)
  <2>1. ASSUME NEW x \in Browsers
        PROVE  /\ r.strip[x] # <<>> => r.window[x] \in {"open", "hidden"}
               /\ r.window[x] = "open" => r.strip[x] # <<>>
               /\ r.window[x] = "hidden" => r.drag.state = "WaitingToDragTabs" /\ r.drag.attached = x
    <3>1. CASE x = w
      BY <1>2, <1>4, <1>5, <3>1
    <3>2. CASE x # w
      <4>1. r.strip[x] = s.strip[x] /\ r.window[x] = s.window[x]
        BY <1>2, <1>5, <3>2
      <4>2. /\ s.strip[x] # <<>> => s.window[x] \in {"open", "hidden"}
            /\ s.window[x] = "open" => s.strip[x] # <<>>
            /\ s.window[x] = "hidden" => s.drag.state = "WaitingToDragTabs" /\ s.drag.attached = x
        BY <1>1 DEF Settled
      <4>3. r.drag = s.drag
        BY <1>2
      <4> QED
        BY ONLY <4>1, <4>2, <4>3
    <3> QED
      BY <3>1, <3>2
  <2> QED
    BY <2>1 DEF Settled
<1>9. s.drag.source # Null => s.drag.source \in Browsers
  BY <1>1, StateIs, DragIs DEF B0
<1>10. Owned(r)
  <2>1. s.drag.alive => s.drag.owner \in Browsers /\ Dragged(s) \subseteq ToSet(s.strip[s.drag.owner])
    BY <1>1 DEF Owned
  <2>2. s.drag.alive => Dragged(r) \subseteq ToSet(r.strip[r.drag.owner])
    BY <1>2, <1>3, <1>6, <2>1
  <2>3. s.drag.alive /\ s.drag.source # Null => r.strip[s.drag.source] # <<>>
    <3>1. s.drag.alive /\ s.drag.source # Null => s.strip[s.drag.source] # <<>>
      BY <1>1 DEF Owned
    <3> QED
      BY <1>4, <1>5, <1>9, <3>1
  <2> QED
    BY <1>1, <1>2, <1>3, <2>2, <2>3 DEF Owned
<1>11. Seen(r)
  BY <1>1, <1>2, <1>3 DEF Seen, Unfailing
<1>12. Undone(r) /\ Restored(r) /\ Laid(r.history.before)
  BY <1>1, <1>2 DEF Undone, Restored
<1> QED
  BY <1>2, <1>3, <1>5, <1>7, <1>8, <1>10, <1>11, <1>12 DEF Sound

\* What is dispatched, for the rest of the invariant.
Dispatched(s) == At(s) = "EventLoop" \/ (At(s) = "Loop" /\ ~Top(s).ending)

LEMMA QuietTurns ==
    ASSUME NEW s, DragInv(s), Dispatched(s), NEW r, r.stack = s.stack, r.capture \in {s.capture, Null},
           r.drag.alive => /\ s.drag.alive /\ r.drag.inLoop = s.drag.inLoop
                           /\ r.drag.state = s.drag.state /\ r.drag.attached = s.drag.attached
                           /\ r.drag.observed = s.drag.observed /\ r.drag.target = s.drag.target
    PROVE  Turns(r)
<1>1. s \in StateSet /\ Turns(s)
  BY DEF DragInv, Body, Sound
<1>2. Looping(r) = Looping(s) /\ (Looping(r) <=> Looping(s))
  BY DEF Looping
<1>3. Len(s.stack) # 2 /\ (Len(s.stack) = 1 => s.stack[1].at = "Loop") /\ Len(s.stack) <= 2
  BY <1>1, TopIs DEF Dispatched, Turns
<1>4. Looping(r) => r.capture = Null
  BY <1>1, <1>2 DEF Turns
<1>5. r.drag.alive =>
        /\ r.drag.inLoop = Looping(r)
        /\ Looping(r) <=> r.drag.state \in {"DraggingWindow", "WaitingToDragTabs"}
        /\ r.drag.state = "WaitingToDragTabs" => r.stack[1].ending
        /\ r.drag.observed = IF Looping(r) THEN r.drag.attached ELSE Null
        /\ r.drag.target # Null => r.drag.state = "WaitingToDragTabs"
  <2> SUFFICES ASSUME r.drag.alive PROVE
        /\ r.drag.inLoop = Looping(r)
        /\ Looping(r) <=> r.drag.state \in {"DraggingWindow", "WaitingToDragTabs"}
        /\ r.drag.state = "WaitingToDragTabs" => r.stack[1].ending
        /\ r.drag.observed = IF Looping(r) THEN r.drag.attached ELSE Null
        /\ r.drag.target # Null => r.drag.state = "WaitingToDragTabs"
    OBVIOUS
  <2>1. /\ s.drag.inLoop = Looping(s)
        /\ Looping(s) <=> s.drag.state \in {"DraggingWindow", "WaitingToDragTabs"}
        /\ s.drag.state = "WaitingToDragTabs" => s.stack[1].ending
        /\ s.drag.observed = IF Looping(s) THEN s.drag.attached ELSE Null
        /\ s.drag.target # Null => s.drag.state = "WaitingToDragTabs"
    BY <1>1, <1>3 DEF Turns
  <2>2. r.drag.inLoop = Looping(r)
    BY <1>2, <2>1
  <2>3. r.drag.observed = IF Looping(r) THEN r.drag.attached ELSE Null
    BY <1>2, <2>1
  <2> QED
    BY <1>2, <2>1, <2>2, <2>3
<1> QED
  BY <1>3, <1>4, <1>5 DEF Turns

LEMMA OpenFine ==
    ASSUME NEW s, DragInv(s), Dispatched(s), NEW w \in Browsers, s.window[w] = "open", NEW t \in Tabs,
           \A x \in Browsers : t \notin ToSet(s.strip[x]), NEW r, Added(s, w, t, r)
    PROVE  DragInv(IF s.drag.state = "DraggingWindow" THEN ContextEndDrag(r, w, "complete") ELSE r)
<1>1. Body(s) /\ Owned(s) /\ Whole(s)
  BY DEF DragInv, Body, Sound
<1>2. Sound(r) /\ Dragged(r) = Dragged(s) /\ \A x \in Browsers \ {w} : r.strip[x] = s.strip[x]
  BY <1>1, AddedFine
<1>3. r.drag = s.drag /\ r.stack = s.stack /\ r.capture = s.capture /\ r \in StateSet
  BY DEF Added
<1>4. Turns(r)
  BY <1>3, QuietTurns
<1>5. /\ Len(s.stack) # 2
      /\ s.drag.alive => s.drag.state # "WaitingToDragTabs"
  BY DispatchedIs DEF Dispatched
<1>6. CASE s.drag.state = "DraggingWindow" /\ s.drag.alive /\ s.drag.owner = w
  <2> DEFINE reason == "complete"
             e == EndDrag(r, reason)
  <2>1. (IF s.drag.state = "DraggingWindow" THEN ContextEndDrag(r, w, "complete") ELSE r) = e
    BY <1>3, <1>6 DEF ContextEndDrag
  <2>2. reason # "capture lost"
    OBVIOUS
  <2> HIDE DEF reason
  <2>3. Ends(r, e) /\ e.stack \in {r.stack, Told(r.stack)}
    BY <1>2, <1>3, <1>5, <1>6, <2>2, EndDragFine
  <2> HIDE DEF e
  <2>4. Body(e) /\ ~e.drag.alive /\ e.capture \in {r.capture, Null}
    BY <2>3, NoDragIs DEF Ends
  <2>5. Turns(e)
    BY <1>3, <1>4, <1>5, <2>3, <2>4, EndTurns
  <2> QED
    BY <2>1, <2>4, <2>5 DEF DragInv
<1>7. CASE ~(s.drag.state = "DraggingWindow" /\ s.drag.alive /\ s.drag.owner = w)
  <2>1. (IF s.drag.state = "DraggingWindow" THEN ContextEndDrag(r, w, "complete") ELSE r) = r
    BY <1>3, <1>7 DEF ContextEndDrag
  <2>2. Whole(r)
    <3>1. SUFFICES ASSUME r.drag.state \in {"DraggingWindow", "WaitingToDragTabs"}
                   PROVE  ToSet(r.strip[r.drag.owner]) = Dragged(r)
      BY DEF Whole
    <3>2. s.drag.alive
      BY <1>1, <1>3, <3>1, NoDragIs DEF Owned
    <3>3. s.drag.owner \in Browsers \ {w}
      BY <1>1, <1>3, <1>5, <1>7, <3>1, <3>2 DEF Owned
    <3> QED
      BY <1>1, <1>2, <1>3, <3>1, <3>3 DEF Whole
  <2> QED
    BY <1>2, <1>4, <2>1, <2>2 DEF DragInv, Body
<1> QED
  BY <1>6, <1>7

--------------------------------------------------------------------------------
\* Tabs are closed.
\* r is s without t, before the strip it was in may close its window.
Removed(s, w, t, r) ==
    /\ r \in StateSet /\ r.strip = [s.strip EXCEPT ![w] = Without(s.strip[w], {t})]
    /\ r.window = s.window /\ r.drag = s.drag /\ r.capture = s.capture
    /\ r.views = [dragged |-> s.views.dragged \ {t}, animating |-> s.views.animating \ {t}]
    /\ r.button = s.button /\ r.stack = s.stack /\ r.failed = s.failed
    /\ r.history.disturbed = TRUE /\ r.history.before = s.history.before
    /\ r.history.ended = s.history.ended /\ r.history.quick = s.history.quick

LEMMA RemovedIs ==
    ASSUME NEW s \in StateSet, Laid(s.strip), NEW w \in Browsers, NEW t \in Tabs,
           NEW data, data = s.drag.data
    PROVE  Removed(s, w, t,
               [s EXCEPT !.strip[w] = Without(@, {t}), !.drag.data = data,
                         !.views.dragged = @ \ {t}, !.views.animating = @ \ {t},
                         !.history.disturbed = TRUE, !.history.changes = @ + 1])
<1> DEFINE q == Without(s.strip[w], {t})
           strips == [s.strip EXCEPT ![w] = q]
           h == [s.history EXCEPT !.disturbed = TRUE, !.changes = s.history.changes + 1]
           seen == [dragged |-> s.views.dragged \ {t}, animating |-> s.views.animating \ {t}]
           r == [s EXCEPT !.strip[w] = Without(@, {t}), !.drag.data = data,
                         !.views.dragged = @ \ {t}, !.views.animating = @ \ {t},
                         !.history.disturbed = TRUE, !.history.changes = @ + 1]
<1>1. /\ s.strip \in [Browsers -> Seq(Tabs)] /\ s.history \in HistorySet /\ s.views \in ViewSet
      /\ s.drag \in DragSet
  BY StateIs
<1>2. q \in Seq(Tabs)
  <2>1. Distinct(s.strip[w])
    BY LaidIs
  <2>2. Distinct(q)
    BY <2>1, WithoutKeeps
  <2> QED
    BY <2>2 DEF Distinct
<1>3. /\ h \in HistorySet /\ h.disturbed = TRUE /\ h.before = s.history.before
      /\ h.ended = s.history.ended /\ h.quick = s.history.quick
  BY <1>1, Disturb
<1>4. seen \in ViewSet
  BY <1>1 DEF ViewSet
<1>5. [s.drag EXCEPT !.data = data] = s.drag
  BY <1>1 DEF DragSet
<1>6. [[s.views EXCEPT !.dragged = s.views.dragged \ {t}] EXCEPT !.animating = s.views.animating \ {t}]
          = seen
  <2> DEFINE X == s.views.dragged \ {t}
             Y == s.views.animating \ {t}
  <2>1. seen = [dragged |-> X, animating |-> Y]
    OBVIOUS
  <2> HIDE DEF X, Y, seen
  <2>2. [[s.views EXCEPT !.dragged = X] EXCEPT !.animating = Y] = [dragged |-> X, animating |-> Y]
    BY <1>1, PutViews
  <2> QED
    BY <2>1, <2>2 DEF X, Y
<1>7. r = [s EXCEPT !.strip = strips, !.drag = [s.drag EXCEPT !.data = data],
                    !.views = [[s.views EXCEPT !.dragged = s.views.dragged \ {t}]
                                    EXCEPT !.animating = s.views.animating \ {t}],
                    !.history = h]
  <2>1. (s.views.animating \ {t}) = [s.views EXCEPT !.dragged = s.views.dragged \ {t}].animating \ {t}
    BY <1>1 DEF ViewSet
  <2>2. s.history.changes + 1 = [s.history EXCEPT !.disturbed = TRUE].changes + 1
    BY <1>1 DEF HistorySet
  <2> QED
    BY ZenonT(40), <2>1, <2>2 DEF StateSet
<1>8. strips \in [Browsers -> Seq(Tabs)]
  <2> HIDE DEF q
  <2> QED
    BY <1>1, <1>2
<1>9. r = [s EXCEPT !.strip = strips, !.drag = s.drag, !.views = seen, !.history = h]
  <2> HIDE DEF r, strips, seen, h
  <2> QED
    BY <1>5, <1>6, <1>7
<1> HIDE DEF q, h, strips, seen, r
<1>10. /\ r \in StateSet /\ r.strip = strips /\ r.window = s.window /\ r.views = seen
       /\ r.drag = s.drag /\ r.capture = s.capture /\ r.button = s.button /\ r.stack = s.stack
       /\ r.failed = s.failed /\ r.history = h
  BY <1>1, <1>3, <1>4, <1>8, <1>9 DEF StateSet
<1>11. Removed(s, w, t, r)
  BY <1>3, <1>10 DEF Removed, strips, q, seen
<1> QED
  BY <1>11 DEF r

\* r is m, with the window w closed when its strip is empty.
Emptied(m, w, r) ==
    /\ r \in StateSet /\ r.strip = m.strip /\ r.views = m.views /\ r.button = m.button
    /\ r.stack = m.stack /\ r.failed = m.failed /\ r.history = m.history
    /\ r.capture \in {m.capture, Null}
    /\ r.window = [x \in Browsers |-> IF x = w /\ m.strip[w] = <<>> THEN "closing" ELSE m.window[x]]
    /\ r.drag.alive = m.drag.alive /\ r.drag.state = m.drag.state /\ r.drag.owner = m.drag.owner
    /\ r.drag.source = IF m.strip[w] = <<>> /\ m.drag.source = w THEN Null ELSE m.drag.source
    /\ r.drag.attached = m.drag.attached /\ r.drag.data = m.drag.data
    /\ r.drag.target = m.drag.target /\ r.drag.tracked = m.drag.tracked
    /\ r.drag.inLoop = m.drag.inLoop /\ r.drag.observed = m.drag.observed
    /\ m.drag = NoDrag => r.drag = NoDrag

LEMMA EmptiedIs ==
    ASSUME NEW m \in StateSet, NEW w \in Browsers,
           m.strip[w] = <<>> => ~(m.drag.alive /\ m.drag.owner = w)
    PROVE  Emptied(m, w, AfterRemoval(m, w, FALSE))
<1> DEFINE r == AfterRemoval(m, w, FALSE)
<1>1. /\ m.window \in [Browsers -> WindowStates] /\ m.drag \in DragSet /\ m.capture \in B0
  BY StateIs
<1>2. CASE m.strip[w] # <<>>
  <2>1. r = m
    BY <1>2 DEF AfterRemoval
  <2>2. m.window = [x \in Browsers |-> IF x = w /\ m.strip[w] = <<>> THEN "closing" ELSE m.window[x]]
    BY <1>1, <1>2
  <2> HIDE DEF r
  <2>3. Emptied(m, w, r)
    BY <1>2, <2>1, <2>2 DEF Emptied
  <2> QED
    BY <2>3 DEF r
<1>3. CASE m.strip[w] = <<>>
  <2> DEFINE d == IF m.drag.source = w THEN [m.drag EXCEPT !.source = Null] ELSE m.drag
             W == [m.window EXCEPT ![w] = "closing"]
             c == IF m.capture = w THEN Null ELSE m.capture
             e == IF m.drag.source = w THEN [m EXCEPT !.drag.source = Null] ELSE m
  <2>1. /\ d \in DragSet /\ d.alive = m.drag.alive /\ d.state = m.drag.state /\ d.owner = m.drag.owner
        /\ d.source = (IF m.drag.source = w THEN Null ELSE m.drag.source)
        /\ d.attached = m.drag.attached /\ d.data = m.drag.data
        /\ d.target = m.drag.target /\ d.tracked = m.drag.tracked /\ d.inLoop = m.drag.inLoop
        /\ d.observed = m.drag.observed
    <3>1. LET g == [m.drag EXCEPT !.source = Null] IN
          /\ g \in DragSet /\ g.alive = m.drag.alive /\ g.state = m.drag.state /\ g.owner = m.drag.owner
          /\ g.source = Null
          /\ g.attached = m.drag.attached /\ g.data = m.drag.data
          /\ g.target = m.drag.target /\ g.tracked = m.drag.tracked /\ g.inLoop = m.drag.inLoop
          /\ g.observed = m.drag.observed
      BY <1>1 DEF DragSet, B0
    <3> QED
      BY <1>1, <3>1
  <2>2. e = [m EXCEPT !.drag = d]
    BY <1>1 DEF StateSet
  <2>3. W \in [Browsers -> WindowStates] /\ c \in B0 /\ c \in {m.capture, Null}
        /\ W = [x \in Browsers |-> IF x = w /\ m.strip[w] = <<>> THEN "closing" ELSE m.window[x]]
    BY <1>1, <1>3 DEF WindowStates, B0
  <2>4. ~(m.drag.alive /\ m.drag.owner = w)
    BY <1>3
  <2>5. m.drag = NoDrag => d = NoDrag
    BY NoDragIs, StripsAssumption
  <2>6. e.drag.alive = m.drag.alive /\ e.drag.owner = m.drag.owner /\ e.window = m.window
        /\ e.capture = m.capture
    <3> HIDE DEF d, e
    <3> QED
      BY <2>1, <2>2 DEF StateSet
  <2>7. r = [e EXCEPT !.window = W, !.capture = c]
    <3> DEFINE F(z) == IF m.drag.alive /\ m.drag.owner = w /\ ~FALSE THEN z
                       ELSE [z EXCEPT !.window[w] = "closing", !.capture = IF @ = w THEN Null ELSE @]
    <3>1. r = F(e)
      BY <1>3, <2>6 DEF AfterRemoval
    <3>2. F(e) = [e EXCEPT !.window[w] = "closing", !.capture = IF @ = w THEN Null ELSE @]
      BY <2>4
    <3> HIDE DEF F, r
    <3>3. [e EXCEPT !.window[w] = "closing", !.capture = IF @ = w THEN Null ELSE @] =
              [e EXCEPT !.window = [e.window EXCEPT ![w] = "closing"],
                        !.capture = IF e.capture = w THEN Null ELSE e.capture]
      OBVIOUS
    <3> QED
      BY <2>6, <3>1, <3>2, <3>3
  <2> HIDE DEF d, W, c, e, r
  <2>8. r = [m EXCEPT !.drag = d, !.window = W, !.capture = c]
    BY <2>2, <2>7 DEF StateSet
  <2>9. /\ r \in StateSet /\ r.strip = m.strip /\ r.views = m.views /\ r.button = m.button
        /\ r.stack = m.stack /\ r.failed = m.failed /\ r.history = m.history /\ r.capture = c
        /\ r.window = W /\ r.drag = d
    BY <2>1, <2>3, <2>8 DEF StateSet
  <2>10. Emptied(m, w, r)
    BY <1>3, <2>1, <2>3, <2>5, <2>9 DEF Emptied
  <2> QED
    BY <2>10 DEF r
<1> QED
  BY <1>2, <1>3

\* A tab goes that is not dragged, while no window waits for its loop.
Closable(s, w, t) ==
    /\ Body(s) /\ w \in Browsers /\ t \in ToSet(s.strip[w]) /\ t \notin Dragged(s)
    /\ s.drag.alive => s.drag.state # "WaitingToDragTabs" /\ s.drag.target = Null

LEMMA ClosableIs ==
    ASSUME NEW s, NEW w, NEW t, Closable(s, w, t), NEW m, Removed(s, w, t, m)
    PROVE  /\ Distinct(m.strip[w]) /\ ToSet(m.strip[w]) = ToSet(s.strip[w]) \ {t}
           /\ m.strip[w] = <<>> <=> ToSet(s.strip[w]) = {t}
           /\ \A x \in Browsers \ {w} : m.strip[x] = s.strip[x]
           /\ m.strip[w] = <<>> => ~(s.drag.alive /\ s.drag.owner = w)
           /\ s.window[w] = "open"
<1>1. /\ Body(s) /\ w \in Browsers /\ t \in ToSet(s.strip[w]) /\ t \notin Dragged(s)
      /\ s.drag.alive => s.drag.state # "WaitingToDragTabs" /\ s.drag.target = Null
  BY DEF Closable
<1>2. s \in StateSet /\ Laid(s.strip) /\ Settled(s) /\ Owned(s) /\ s.drag \in DragSet
  BY <1>1, StateIs DEF Body, Sound
<1>3. Distinct(s.strip[w]) /\ s.strip[w] # <<>>
  BY <1>1, <1>2, LaidIs
<1> DEFINE q == Without(s.strip[w], {t})
<1>4. /\ Distinct(q) /\ ToSet(q) = ToSet(s.strip[w]) \ {t}
      /\ q = <<>> <=> ToSet(s.strip[w]) \subseteq {t}
  BY <1>3, WithoutKeeps
<1> HIDE DEF q
<1>5. m.strip[w] = q /\ \A x \in Browsers \ {w} : m.strip[x] = s.strip[x]
  <2>1. m.strip = [s.strip EXCEPT ![w] = q]
    BY DEF Removed, q
  <2> QED
    BY <1>1, <1>2, <2>1, StateIs
<1>6. m.strip[w] = <<>> => ~(s.drag.alive /\ s.drag.owner = w)
  <2>1. SUFFICES ASSUME m.strip[w] = <<>>, s.drag.alive, s.drag.owner = w PROVE FALSE
    OBVIOUS
  <2>2. Dragged(s) # {} /\ Dragged(s) \subseteq ToSet(s.strip[w])
    BY <1>2, <2>1, TabsOfIs DEF Owned
  <2> QED
    BY <1>1, <1>4, <1>5, <2>1, <2>2
<1>7. s.window[w] = "open"
  <2>1. s.window[w] \in {"open", "hidden"}
    BY <1>1, <1>2, <1>3 DEF Settled
  <2>2. s.window[w] # "hidden"
    <3>1. SUFFICES ASSUME s.window[w] = "hidden" PROVE FALSE
      OBVIOUS
    <3>2. s.drag.state = "WaitingToDragTabs"
      BY <1>1, <1>2, <3>1 DEF Settled
    <3> QED
      BY <1>1, <1>2, <3>2, NoDragIs DEF Owned
  <2> QED
    BY <2>1, <2>2
<1>8. m.strip[w] = <<>> <=> ToSet(s.strip[w]) = {t}
  BY <1>1, <1>4, <1>5
<1> QED
  BY <1>4, <1>5, <1>6, <1>7, <1>8

LEMMA ClosedFine ==
    ASSUME NEW s, NEW w, NEW t, Closable(s, w, t), NEW m, Removed(s, w, t, m), NEW r, Emptied(m, w, r)
    PROVE  Body(r)
<1>1. /\ Body(s) /\ w \in Browsers /\ t \in ToSet(s.strip[w]) /\ t \notin Dragged(s)
      /\ s.drag.alive => s.drag.state # "WaitingToDragTabs" /\ s.drag.target = Null
  BY DEF Closable
<1>2. /\ s \in StateSet /\ Laid(s.strip) /\ Laid(s.history.before) /\ Settled(s) /\ Owned(s) /\ Seen(s)
      /\ Whole(s) /\ s.drag \in DragSet
  BY <1>1, StateIs DEF Body, Sound
<1>3. /\ Distinct(m.strip[w]) /\ ToSet(m.strip[w]) = ToSet(s.strip[w]) \ {t}
      /\ m.strip[w] = <<>> <=> ToSet(s.strip[w]) = {t}
      /\ \A x \in Browsers \ {w} : m.strip[x] = s.strip[x]
      /\ m.strip[w] = <<>> => ~(s.drag.alive /\ s.drag.owner = w)
      /\ s.window[w] = "open"
  BY ClosableIs
<1> DEFINE gone == m.strip[w] = <<>>
<1>4. /\ m.window = s.window /\ m.drag = s.drag /\ m.failed = s.failed
      /\ m.views = [dragged |-> s.views.dragged \ {t}, animating |-> s.views.animating \ {t}]
      /\ m.history.disturbed = TRUE /\ m.history.before = s.history.before
      /\ m.history.ended = s.history.ended /\ m.history.quick = s.history.quick
  BY DEF Removed
<1>5. /\ r \in StateSet /\ r.strip = m.strip /\ r.failed = s.failed
      /\ r.views.dragged = s.views.dragged \ {t} /\ r.views.animating = s.views.animating \ {t}
      /\ r.history.disturbed = TRUE /\ r.history.before = s.history.before
      /\ r.history.ended = s.history.ended /\ r.history.quick = s.history.quick
      /\ r.drag.alive = s.drag.alive /\ r.drag.state = s.drag.state /\ r.drag.owner = s.drag.owner
      /\ r.drag.source = (IF gone /\ s.drag.source = w THEN Null ELSE s.drag.source)
      /\ r.drag.attached = s.drag.attached /\ r.drag.data = s.drag.data
      /\ r.drag.target = s.drag.target /\ r.drag.tracked = s.drag.tracked
      /\ s.drag = NoDrag => r.drag = NoDrag
      /\ r.window = [x \in Browsers |-> IF x = w /\ gone THEN "closing" ELSE s.window[x]]
  BY <1>4 DEF Emptied
<1>6. r.window[w] = (IF gone THEN "closing" ELSE "open")
      /\ \A x \in Browsers \ {w} : r.window[x] = s.window[x] /\ r.strip[x] = s.strip[x]
  BY <1>1, <1>3, <1>5
<1>7. Dragged(r) = Dragged(s) /\ TabsOf(r) = TabsOf(s)
  BY <1>5 DEF Dragged, TabsOf
<1>8. \A x \in Browsers : /\ Distinct(r.strip[x])
                          /\ ToSet(r.strip[x]) = IF x = w THEN ToSet(s.strip[x]) \ {t} ELSE ToSet(s.strip[x])
  <2>1. ASSUME NEW x \in Browsers
        PROVE  /\ Distinct(r.strip[x])
               /\ ToSet(r.strip[x]) = IF x = w THEN ToSet(s.strip[x]) \ {t} ELSE ToSet(s.strip[x])
    <3>1. CASE x = w
      <4>1. r.strip[x] = m.strip[w]
        BY <1>5, <3>1
      <4> QED
        BY ONLY <1>3, <3>1, <4>1
    <3>2. CASE x # w
      <4>1. r.strip[x] = s.strip[x]
        BY <1>6, <3>2
      <4>2. Distinct(s.strip[x])
        BY <1>2, LaidIs
      <4> QED
        BY ONLY <3>2, <4>1, <4>2
    <3> QED
      BY ONLY <3>1, <3>2
  <2> QED
    BY ONLY <2>1
<1>9. Laid(r.strip)
  <2>1. \A x, y \in Browsers : x # y => ToSet(s.strip[x]) \cap ToSet(s.strip[y]) = {}
    BY <1>2, LaidIs
  <2>2. \A x, y \in Browsers : x # y => ToSet(r.strip[x]) \cap ToSet(r.strip[y]) = {}
    BY <1>8, <2>1
  <2> QED
    BY <1>8, <2>2 DEF Laid
<1>10. Settled(r)
  <2>1. ASSUME NEW x \in Browsers
        PROVE  /\ r.strip[x] # <<>> => r.window[x] \in {"open", "hidden"}
               /\ r.window[x] = "open" => r.strip[x] # <<>>
               /\ r.window[x] = "hidden" => r.drag.state = "WaitingToDragTabs" /\ r.drag.attached = x
    <3>1. CASE x = w
      BY <1>5, <1>6, <3>1
    <3>2. CASE x # w
      <4>1. r.strip[x] = s.strip[x] /\ r.window[x] = s.window[x]
        BY <1>6, <3>2
      <4>2. /\ s.strip[x] # <<>> => s.window[x] \in {"open", "hidden"}
            /\ s.window[x] = "open" => s.strip[x] # <<>>
            /\ s.window[x] = "hidden" => s.drag.state = "WaitingToDragTabs" /\ s.drag.attached = x
        BY <1>2 DEF Settled
      <4>3. r.drag.state = s.drag.state /\ r.drag.attached = s.drag.attached
        BY <1>5
      <4> QED
        BY ONLY <4>1, <4>2, <4>3
    <3> QED
      BY <3>1, <3>2
  <2> QED
    BY <2>1 DEF Settled
<1>11. s.drag.alive =>
         /\ s.drag.data # <<>> /\ Distinct(TabsOf(s)) /\ s.history.ended = "none"
         /\ s.drag.state # "Stopped" /\ s.drag.state # "WaitingToDragTabs"
         /\ s.drag.state = "NotStarted" <=> s.drag.attached = Null
         /\ s.drag.owner = IF s.drag.state = "NotStarted" THEN s.drag.source ELSE s.drag.attached
         /\ s.drag.owner \in Browsers /\ s.drag.tracked = s.drag.attached
         /\ Dragged(s) \subseteq ToSet(s.strip[s.drag.owner])
         /\ s.window[s.drag.owner] = "open"
         /\ s.drag.source # Null => s.strip[s.drag.source] # <<>> /\ s.drag.source \in Browsers
         /\ s.drag.target = Null
  <2>1. s.drag.source \in Browsers \/ s.drag.source = Null
    BY <1>2, DragIs DEF B0
  <2> QED
    BY <1>1, <1>2, <2>1 DEF Owned
<1>12. Owned(r)
  <2>1. CASE ~s.drag.alive
    <3>1. r.drag = NoDrag /\ ~r.drag.alive
      BY <1>2, <1>5, <2>1 DEF Owned
    <3> QED
      BY <3>1 DEF Owned
  <2>2. CASE s.drag.alive
    <3>1. r.drag.owner = IF r.drag.state = "NotStarted" THEN r.drag.source ELSE r.drag.attached
      BY <1>3, <1>5, <1>11, <2>2
    <3>2. Dragged(r) \subseteq ToSet(r.strip[r.drag.owner])
      BY ZenonT(40), <1>1, <1>5, <1>7, <1>8, <1>11, <2>2
    <3>3. r.window[r.drag.owner] = "open"
      BY <1>3, <1>5, <1>6, <1>11, <2>2
    <3>4. r.drag.source # Null => r.strip[r.drag.source] # <<>>
      BY <1>5, <1>6, <1>11, <2>2
    <3>5. /\ r.drag.data # <<>> /\ Distinct(TabsOf(r)) /\ r.history.ended = "none"
          /\ r.drag.state # "Stopped" /\ r.drag.state # "WaitingToDragTabs"
          /\ r.drag.state = "NotStarted" <=> r.drag.attached = Null
          /\ r.drag.owner \in Browsers /\ r.drag.tracked = r.drag.attached
          /\ r.drag.target = Null /\ r.drag.alive
      BY <1>5, <1>7, <1>11, <2>2
    <3> QED
      BY <3>1, <3>2, <3>3, <3>4, <3>5 DEF Owned
  <2> QED
    BY <2>1, <2>2
<1>13. Seen(r)
  <2>1. r.views.animating \subseteq r.views.dragged
    BY <1>2, <1>5 DEF Seen
  <2>2. r.drag.alive /\ r.drag.state # "NotStarted" =>
           Dragged(r) \subseteq r.views.dragged \ r.views.animating
    BY <1>1, <1>2, <1>5, <1>7 DEF Seen
  <2>3. ~r.history.quick /\ r.drag.alive =>
           r.views.dragged = IF r.drag.state = "NotStarted" THEN {} ELSE Dragged(r)
    BY <1>1, <1>2, <1>5, <1>7 DEF Seen
  <2>4. Unfailing(r)
    BY <1>2, <1>5 DEF Seen, Unfailing
  <2> QED
    BY <2>1, <2>2, <2>3, <2>4 DEF Seen
<1>14. Undone(r) /\ Restored(r) /\ Laid(r.history.before)
  BY <1>2, <1>5 DEF Undone, Restored
<1>15. Whole(r)
  <2>1. SUFFICES ASSUME r.drag.state \in {"DraggingWindow", "WaitingToDragTabs"}
                 PROVE  ToSet(r.strip[r.drag.owner]) = Dragged(r)
    BY DEF Whole
  <2>2. s.drag.alive
    BY <1>2, <1>5, <2>1, NoDragIs DEF Owned
  <2>3. ToSet(s.strip[s.drag.owner]) = Dragged(s) /\ s.drag.owner \in Browsers
    BY <1>2, <1>5, <1>11, <2>1, <2>2 DEF Whole
  <2>4. s.drag.owner # w
    BY <1>1, <2>3
  <2> QED
    BY <1>5, <1>6, <1>7, <2>3, <2>4
<1> QED
  BY <1>5, <1>9, <1>10, <1>12, <1>13, <1>14, <1>15 DEF Body, Sound

\* RemoveTab() once the drag of the tab, if there was one, is over.
Closed(e, w, t) ==
    LET data == [i \in DOMAIN e.drag.data |->
                    IF e.drag.tracked = w /\ e.drag.data[i].tab = t
                    THEN [e.drag.data[i] EXCEPT !.tab = Null] ELSE e.drag.data[i]]
    IN AfterRemoval([e EXCEPT !.strip[w] = Without(@, {t}), !.drag.data = data,
                              !.views.dragged = @ \ {t}, !.views.animating = @ \ {t},
                              !.history.disturbed = TRUE, !.history.changes = @ + 1],
                    w, FALSE)

LEMMA ClosedIs ==
    ASSUME NEW e, NEW w, NEW t, Closable(e, w, t)
    PROVE  \E m : Removed(e, w, t, m) /\ Emptied(m, w, Closed(e, w, t))
<1> DEFINE data == [i \in DOMAIN e.drag.data |->
                       IF e.drag.tracked = w /\ e.drag.data[i].tab = t
                       THEN [e.drag.data[i] EXCEPT !.tab = Null] ELSE e.drag.data[i]]
           m == [e EXCEPT !.strip[w] = Without(@, {t}), !.drag.data = data,
                          !.views.dragged = @ \ {t}, !.views.animating = @ \ {t},
                          !.history.disturbed = TRUE, !.history.changes = @ + 1]
<1>1. e \in StateSet /\ Laid(e.strip) /\ w \in Browsers /\ t \in ToSet(e.strip[w]) /\ t \notin Dragged(e)
  BY DEF Closable, Body, Sound
<1>2. t \in Tabs /\ t # Null
  <2>1. Distinct(e.strip[w])
    BY <1>1, LaidIs
  <2> QED
    BY <1>1, <2>1, DistinctIs, StripsAssumption
<1>3. data = e.drag.data
  <2>1. e.drag.data \in Seq([tab : Tabs, index : Nat \ {0}])
    BY <1>1, StateIs, DragIs
  <2>2. e.drag.data = [i \in DOMAIN e.drag.data |-> e.drag.data[i]]
    BY <2>1
  <2>3. \A i \in DOMAIN e.drag.data : e.drag.data[i].tab # t
    BY <1>1, <1>2 DEF Dragged
  <2> QED
    BY <2>2, <2>3
<1>4. Closed(e, w, t) = AfterRemoval(m, w, FALSE)
  BY DEF Closed
<1> HIDE DEF data
<1>5. Removed(e, w, t, m)
  BY <1>1, <1>2, <1>3, RemovedIs
<1> HIDE DEF m
<1>6. m \in StateSet /\ m.drag = e.drag
  BY <1>5 DEF Removed
<1>7. m.strip[w] = <<>> => ~(m.drag.alive /\ m.drag.owner = w)
  BY <1>5, <1>6, ClosableIs
<1>8. Emptied(m, w, Closed(e, w, t))
  BY <1>1, <1>4, <1>6, <1>7, EmptiedIs
<1> QED
  BY <1>5, <1>8

LEMMA ClosingFine ==
    ASSUME NEW e, NEW w, NEW t, Closable(e, w, t)
    PROVE  LET r == Closed(e, w, t) IN
           /\ Body(r) /\ r.stack = e.stack /\ r.capture \in {e.capture, Null}
           /\ r.drag.alive = e.drag.alive /\ r.drag.inLoop = e.drag.inLoop
           /\ r.drag.state = e.drag.state /\ r.drag.attached = e.drag.attached
           /\ r.drag.observed = e.drag.observed /\ r.drag.target = e.drag.target
<1> DEFINE r == Closed(e, w, t)
<1>1. PICK m : Removed(e, w, t, m) /\ Emptied(m, w, r)
  BY ClosedIs
<1> HIDE DEF r
<1>2. Body(r)
  BY <1>1, ClosedFine
<1>3. /\ r.stack = e.stack /\ r.capture \in {e.capture, Null}
      /\ r.drag.alive = e.drag.alive /\ r.drag.inLoop = e.drag.inLoop
      /\ r.drag.state = e.drag.state /\ r.drag.attached = e.drag.attached
      /\ r.drag.observed = e.drag.observed /\ r.drag.target = e.drag.target
  BY <1>1 DEF Removed, Emptied
<1> QED
  BY <1>2, <1>3 DEF r

LEMMA CloseFine ==
    ASSUME NEW s, DragInv(s), Dispatched(s), NEW w \in Browsers, NEW t \in ToSet(s.strip[w])
    PROVE  DragInv(RemoveTab(s, w, t))
<1>1. /\ Body(s) /\ Sound(s) /\ Owned(s) /\ Laid(s.strip) /\ s \in StateSet /\ Turns(s)
  BY DEF DragInv, Body, Sound
<1>2. /\ Len(s.stack) # 2
      /\ s.drag.alive => s.drag.state # "WaitingToDragTabs"
      /\ s.drag.alive => s.drag.target = Null
  BY DispatchedIs DEF Dispatched
<1>3. CASE t \notin Dragged(s)
  <2> DEFINE r == Closed(s, w, t)
  <2>1. RemoveTab(s, w, t) = r
    BY <1>3 DEF RemoveTab, Closed
  <2> HIDE DEF r
  <2>2. Closable(s, w, t)
    BY <1>1, <1>2, <1>3 DEF Closable
  <2>3. /\ Body(r) /\ r.stack = s.stack /\ r.capture \in {s.capture, Null}
        /\ r.drag.alive = s.drag.alive /\ r.drag.inLoop = s.drag.inLoop
        /\ r.drag.state = s.drag.state /\ r.drag.attached = s.drag.attached
        /\ r.drag.observed = s.drag.observed /\ r.drag.target = s.drag.target
    BY <2>2, ClosingFine DEF r
  <2>4. Turns(r)
    BY <2>3, QuietTurns
  <2> QED
    BY <2>1, <2>3, <2>4 DEF DragInv
<1>4. CASE t \in Dragged(s)
  <2> DEFINE reason == "complete"
             e == EndDrag(s, reason)
             r == Closed(e, w, t)
  <2>1. s.drag.alive
    BY <1>1, <1>4, NoDragIs DEF Owned, Dragged
  <2>2. s.drag.owner = w
    <3>1. s.drag.owner \in Browsers /\ t \in ToSet(s.strip[s.drag.owner])
      BY <1>1, <1>4, <2>1 DEF Owned
    <3> QED
      BY <1>1, <3>1, LaidIs
  <2>3. RemoveTab(s, w, t) = r
    BY <1>4, <2>1, <2>2 DEF RemoveTab, Closed, ContextEndDrag
  <2>4. reason # "capture lost" /\ reason = "complete"
    OBVIOUS
  <2> HIDE DEF reason
  <2>5. /\ Ends(s, e) /\ e.stack \in {s.stack, Told(s.stack)} /\ e.strip = s.strip
    BY <1>1, <1>2, <2>1, <2>4, EndDragFine
  <2> HIDE DEF e
  <2>6. Body(e) /\ e.drag = NoDrag /\ ~e.drag.alive /\ e.capture \in {s.capture, Null}
    BY <2>5, NoDragIs DEF Ends
  <2>7. Dragged(e) = {}
    BY <2>6, NoDragIs DEF Dragged
  <2>8. Closable(e, w, t)
    BY <2>5, <2>6, <2>7 DEF Closable
  <2>9. /\ Body(r) /\ r.stack = e.stack /\ r.capture \in {e.capture, Null}
        /\ r.drag.alive = e.drag.alive
    BY <2>8, ClosingFine
  <2> HIDE DEF r
  <2>10. /\ ~r.drag.alive /\ r.capture \in {s.capture, Null}
         /\ r.stack \in {s.stack, Told(s.stack)}
    BY <2>5, <2>6, <2>9
  <2>11. Turns(r)
    BY <1>1, <1>2, <2>10, EndTurns
  <2> QED
    BY <2>3, <2>9, <2>11 DEF DragInv
<1> QED
  BY <1>3, <1>4

LEMMA DeleteFine ==
    ASSUME NEW s, DragInv(s), Dispatched(s), NEW w \in Browsers, s.window[w] = "closing"
    PROVE  DragInv(Check([s EXCEPT !.window[w] = "gone",
                              !.drag = IF s.drag.alive /\ s.drag.owner = w THEN NoDrag ELSE @],
                         s.drag.alive => s.drag.owner # w, "deleted with its strip"))
<1> DEFINE W == [s.window EXCEPT ![w] = "gone"]
           r == [s EXCEPT !.window = W]
<1>1. /\ Body(s) /\ Sound(s) /\ Owned(s) /\ Laid(s.strip) /\ s \in StateSet /\ Settled(s) /\ Seen(s)
      /\ Undone(s) /\ Restored(s) /\ Whole(s) /\ Laid(s.history.before)
  BY DEF DragInv, Body, Sound
<1>2. s.window \in [Browsers -> WindowStates] /\ s.drag \in DragSet
  BY <1>1, StateIs
<1>3. s.drag.alive => s.drag.owner # w
  BY <1>1 DEF Owned
<1>4. Check([s EXCEPT !.window[w] = "gone",
                      !.drag = IF s.drag.alive /\ s.drag.owner = w THEN NoDrag ELSE @],
            s.drag.alive => s.drag.owner # w, "deleted with its strip") = r
  <2> DEFINE m == [s EXCEPT !.window[w] = "gone",
                      !.drag = IF s.drag.alive /\ s.drag.owner = w THEN NoDrag ELSE @]
  <2>1. m = [s EXCEPT !.window = W, !.drag = s.drag]
    BY <1>3
  <2>2. m = r
    <3> HIDE DEF m, W
    <3> QED
      BY <1>1, <2>1 DEF StateSet
  <2> HIDE DEF m, r
  <2> QED
    BY <1>3, <2>2 DEF Check, m
<1>5. W \in [Browsers -> WindowStates] /\ W[w] = "gone"
      /\ \A x \in Browsers \ {w} : W[x] = s.window[x]
  BY <1>2 DEF WindowStates
<1> HIDE DEF W
<1>6. /\ r \in StateSet /\ r.strip = s.strip /\ r.window = W /\ r.views = s.views /\ r.drag = s.drag
      /\ r.capture = s.capture /\ r.stack = s.stack /\ r.history = s.history /\ r.failed = s.failed
  BY <1>1, <1>5 DEF StateSet
<1> HIDE DEF r
<1>7. Settled(r)
  <2>1. ASSUME NEW x \in Browsers
        PROVE  /\ r.strip[x] # <<>> => r.window[x] \in {"open", "hidden"}
               /\ r.window[x] = "open" => r.strip[x] # <<>>
               /\ r.window[x] = "hidden" => r.drag.state = "WaitingToDragTabs" /\ r.drag.attached = x
    BY <1>1, <1>5, <1>6 DEF Settled
  <2> QED
    BY <2>1 DEF Settled
<1>8. Dragged(r) = Dragged(s) /\ TabsOf(r) = TabsOf(s)
  BY <1>6 DEF Dragged, TabsOf
<1>9. Owned(r)
  <2>1. CASE ~s.drag.alive
    BY <1>1, <1>6, <2>1 DEF Owned
  <2>2. CASE s.drag.alive
    <3>1. /\ s.drag.owner \in Browsers \ {w}
          /\ s.drag.target # Null => s.window[s.drag.target] = "open"
      BY <1>1, <1>3, <2>2 DEF Owned
    <3>2. r.window[r.drag.owner] = s.window[s.drag.owner]
      BY <1>5, <1>6, <3>1
    <3>3. r.drag.target # Null => r.window[r.drag.target] = "open"
      BY <1>2, <1>5, <1>6, <3>1, DragIs DEF B0
    <3> QED
      BY <1>1, <1>6, <1>8, <2>2, <3>2, <3>3 DEF Owned
  <2> QED
    BY <2>1, <2>2
<1>10. Seen(r) /\ Restored(r) /\ Whole(r)
  BY <1>1, <1>6, <1>8 DEF Seen, Unfailing, Restored, Whole
<1>11. Undone(r)
  BY <1>1, <1>6, <1>8 DEF Undone
<1>12. Turns(r)
  BY <1>6, QuietTurns
<1> QED
  BY <1>1, <1>4, <1>6, <1>7, <1>9, <1>10, <1>11, <1>12 DEF DragInv, Body, Sound

--------------------------------------------------------------------------------
\* A press, and what changes nothing but the button or the views.
PressedData(q, D) == [i \in 1 .. Cardinality(D) |->
                          LET t == Only(q, D)[i] IN [tab |-> t, index |-> Place(q, t)]]

\* d has the tabs D of q in their order, with their places.
DataOf(q, D, d) ==
    /\ d \in Seq([tab : Tabs, index : Nat \ {0}]) /\ Len(d) \in Nat \ {0}
    /\ Distinct([i \in 1..Len(d) |-> d[i].tab]) /\ {d[i].tab : i \in 1..Len(d)} = D
    /\ \A i \in 1..Len(d) : d[i].index \in 1..Len(q) /\ q[d[i].index] = d[i].tab
    /\ \A i, j \in 1..Len(d) : i < j => d[i].index < d[j].index

LEMMA PressedDataIs ==
    ASSUME NEW q, Distinct(q), NEW D, D # {}, D \subseteq ToSet(q)
    PROVE  DataOf(q, D, PressedData(q, D))
<1> DEFINE o == Only(q, D)
           d == PressedData(q, D)
           n == Cardinality(D)
<1>1. Distinct(o) /\ ToSet(o) = D
      /\ \A x, y : Before(o, x, y) <=> Before(q, x, y) /\ x \in D /\ y \in D
  <2>1. /\ Distinct(o) /\ ToSet(o) = ToSet(q) \cap D
        /\ \A x, y : Before(o, x, y) <=> Before(q, x, y) /\ x \in D /\ y \in D
    BY OnlyKeeps
  <2> QED
    BY <2>1
<1> HIDE DEF o
<1>2. /\ Len(o) = n /\ n \in Nat /\ n # 0 /\ o \in Seq(Tabs)
      /\ \A i \in 1..n : o[i] \in Tabs /\ o[i] \in D
      /\ \A x : x \in D <=> \E i \in 1..n : o[i] = x
      /\ \A i, j \in 1..n : o[i] = o[j] => i = j
  <2>1. n = Len(o)
    BY <1>1, LenIsCardinality
  <2>2. /\ Len(o) \in Nat /\ o \in Seq(Tabs) /\ (o = <<>> <=> ToSet(o) = {})
        /\ \A i \in 1..Len(o) : o[i] \in Tabs /\ o[i] \in ToSet(o)
        /\ \A x : x \in ToSet(o) <=> \E i \in 1..Len(o) : o[i] = x
        /\ \A i, j \in 1..Len(o) : o[i] = o[j] => i = j
    BY <1>1, DistinctIs
  <2>3. Len(o) # 0
    BY <1>1, <2>2
  <2> HIDE DEF n
  <2> QED
    BY <1>1, <2>1, <2>2, <2>3
<1>3. d = [i \in 1..n |-> [tab |-> o[i], index |-> Place(q, o[i])]]
  BY DEF PressedData, o
<1> HIDE DEF d, n
<1>4. /\ q \in Seq(Tabs) /\ Len(q) \in Nat /\ DOMAIN q = 1..Len(q)
      /\ \A x : x \in ToSet(q) <=> \E i \in 1..Len(q) : q[i] = x
  BY DistinctIs
<1>5. ASSUME NEW i \in 1..n
      PROVE  Place(q, o[i]) \in 1..Len(q) /\ q[Place(q, o[i])] = o[i]
  <2>1. \E k \in DOMAIN q : q[k] = o[i]
    BY <1>2, <1>4, <1>5
  <2> QED
    BY <1>4, <2>1 DEF Place
<1>6. DOMAIN d = 1..n /\ Len(d) = n
      /\ \A i \in 1..n : d[i] = [tab |-> o[i], index |-> Place(q, o[i])]
  BY <1>2, <1>3
<1>7. \A i \in 1..n : /\ d[i].tab = o[i] /\ d[i].index = Place(q, o[i])
                      /\ d[i] \in [tab : Tabs, index : Nat \ {0}]
  <2>1. ASSUME NEW i \in 1..n
        PROVE  /\ d[i].tab = o[i] /\ d[i].index = Place(q, o[i])
               /\ d[i] \in [tab : Tabs, index : Nat \ {0}]
    <3>1. Place(q, o[i]) \in Nat \ {0} /\ o[i] \in Tabs
      BY <1>2, <1>4, <1>5
    <3> QED
      BY <1>6, <3>1
  <2> QED
    BY <2>1
<1>8. d \in Seq([tab : Tabs, index : Nat \ {0}])
  <2> DEFINE R == [tab : Tabs, index : Nat \ {0}]
  <2>1. d = [i \in 1..n |-> d[i]]
    BY <1>3, <1>6
  <2>2. \A i \in 1..n : d[i] \in R
    BY <1>7
  <2> HIDE DEF R
  <2>3. d \in [1..n -> R]
    BY ONLY <2>1, <2>2
  <2>4. d \in Seq(R)
    BY ONLY <1>2, <2>3
  <2> QED
    BY <2>4 DEF R
<1>9. [i \in 1..Len(d) |-> d[i].tab] = o
  <2>1. [i \in 1..Len(d) |-> d[i].tab] = [i \in 1..n |-> o[i]]
    BY <1>6, <1>7
  <2> QED
    <3>1. o = [i \in 1..n |-> o[i]]
      BY <1>2, SeqIs
    <3> QED
      BY <2>1, <3>1
<1>10. {d[i].tab : i \in 1..Len(d)} = D
  BY <1>2, <1>6, <1>7
<1>11. \A i \in 1..Len(d) : d[i].index \in 1..Len(q) /\ q[d[i].index] = d[i].tab
  BY <1>5, <1>6, <1>7
<1>12. ASSUME NEW i \in 1..n, NEW j \in 1..n, i < j
       PROVE  d[i].index < d[j].index
  <2>1. Before(o, o[i], o[j])
    BY <1>1, <1>2, <1>12, BeforeIs
  <2>2. Before(q, o[i], o[j])
    BY <1>1, <2>1
  <2>3. Before(q, q[d[i].index], q[d[j].index]) /\ d[i].index \in 1..Len(q) /\ d[j].index \in 1..Len(q)
    BY <1>6, <1>7, <1>11, <2>2
  <2> QED
    BY <2>3, BeforeIs
<1>13. \A i, j \in 1..Len(d) : i < j => d[i].index < d[j].index
  BY <1>6, <1>12
<1> QED
  <2>1. DataOf(q, D, d)
    BY <1>1, <1>2, <1>6, <1>8, <1>9, <1>10, <1>11, <1>13 DEF DataOf
  <2> QED
    BY <2>1 DEF d

\* The state that Press leaves.
Pressed(s, w, D, r) ==
    /\ r = [strip |-> s.strip, window |-> s.window, views |-> s.views, drag |-> r.drag,
            capture |-> w, button |-> "down", stack |-> s.stack, history |-> r.history,
            failed |-> s.failed]
    /\ r.drag = [NoDrag EXCEPT !.alive = TRUE, !.owner = w, !.source = w,
                               !.data = PressedData(s.strip[w], D)]
    /\ r.history = [s.history EXCEPT !.before = s.strip, !.disturbed = FALSE, !.ended = "none",
                                     !.quick = @ \/ s.views.dragged # {}, !.drags = @ + 1]

LEMMA PressFine ==
    ASSUME NEW s, DragInv(s), At(s) = "EventLoop", ~s.drag.alive, NEW w \in Browsers,
           s.window[w] = "open", NEW D, D # {}, D \subseteq ToSet(s.strip[w]),
           NEW r, Pressed(s, w, D, r)
    PROVE  DragInv(r)
<1> DEFINE d == PressedData(s.strip[w], D)
           no == FALSE
           none == "none"
<1>1. /\ s \in StateSet /\ Laid(s.strip) /\ Settled(s) /\ Owned(s) /\ Seen(s)
  BY DEF DragInv, Body, Sound
<1>2. Distinct(s.strip[w]) /\ s.strip[w] # <<>> /\ w \in B0
  BY <1>1, LaidIs DEF Settled, B0
<1>3. /\ d \in Seq([tab : Tabs, index : Nat \ {0}]) /\ Len(d) \in Nat \ {0}
      /\ Distinct([i \in 1..Len(d) |-> d[i].tab])
      /\ {d[i].tab : i \in 1..Len(d)} = D
      /\ \A i \in 1..Len(d) : d[i].index \in 1..Len(s.strip[w]) /\ s.strip[w][d[i].index] = d[i].tab
      /\ \A i, j \in 1..Len(d) : i < j => d[i].index < d[j].index
  <2>1. DataOf(s.strip[w], D, d)
    BY <1>2, PressedDataIs
  <2> QED
    BY <2>1 DEF DataOf
<1> HIDE DEF d
<1>4. s.history \in HistorySet /\ s.strip \in [Browsers -> Seq(Tabs)]
  BY <1>1, StateIs
<1>5. /\ r.strip = s.strip /\ r.window = s.window /\ r.views = s.views /\ r.failed = s.failed
      /\ r.capture = w /\ r.button = "down" /\ r.stack = s.stack
      /\ r.drag = [NoDrag EXCEPT !.alive = TRUE, !.owner = w, !.source = w, !.data = d]
      /\ r.history = [s.history EXCEPT !.before = s.strip, !.disturbed = FALSE, !.ended = "none",
                                       !.quick = @ \/ s.views.dragged # {}, !.drags = @ + 1]
  BY DEF Pressed, d
<1>6. /\ r.drag.alive /\ r.drag.state = "NotStarted" /\ r.drag.owner = w /\ r.drag.source = w
      /\ r.drag.attached = Null /\ r.drag.data = d /\ r.drag.target = Null
      /\ r.drag.tracked = Null /\ r.drag.observed = Null /\ r.drag.inLoop = no /\ r.drag \in DragSet
  BY ZenonT(40), <1>2, <1>3, <1>5 DEF NoDrag, DragSet, B0, States
<1>7. /\ r.history \in HistorySet /\ r.history.before = s.strip /\ r.history.disturbed = no
      /\ r.history.ended = none /\ r.history.quick = (s.history.quick \/ s.views.dragged # {})
  <2> DEFINE q == s.history.quick \/ s.views.dragged # {}
  <2>1. s.history.drags + 1 \in Nat /\ q \in BOOLEAN
    BY <1>4 DEF HistorySet
  <2>2. r.history = [s.history EXCEPT !.before = s.strip, !.disturbed = FALSE, !.ended = "none",
                                      !.quick = q, !.drags = @ + 1]
    BY <1>4, <1>5 DEF HistorySet
  <2> HIDE DEF q
  <2>3. /\ r.history \in HistorySet /\ r.history.before = s.strip /\ r.history.disturbed = no
        /\ r.history.ended = none /\ r.history.quick = q
    BY <1>4, <2>1, <2>2 DEF HistorySet
  <2> QED
    BY <2>3 DEF q
<1>8. r \in StateSet
  <2>1. r = [strip |-> s.strip, window |-> s.window, views |-> s.views, drag |-> r.drag,
            capture |-> w, button |-> "down", stack |-> s.stack, history |-> r.history,
            failed |-> s.failed]
    BY DEF Pressed
  <2> QED
    BY <1>1, <1>2, <1>6, <1>7, <2>1, StateIs DEF StateSet
<1>9. DOMAIN d = 1..Len(d) /\ d # <<>>
  BY <1>3, SeqIs
<1>10. TabsOf(r) = [i \in 1..Len(d) |-> d[i].tab] /\ Dragged(r) = D
  <2>1. D \subseteq Tabs
    BY <1>2, DistinctIs
  <2>2. Null \notin D
    BY <2>1, StripsAssumption
  <2> QED
    BY SMTT(40), <1>3, <1>6, <1>9, <2>2 DEF TabsOf, Dragged
<1>11. Settled(r)
  <2>1. ASSUME NEW x \in Browsers
        PROVE  /\ r.strip[x] # <<>> => r.window[x] \in {"open", "hidden"}
               /\ r.window[x] = "open" => r.strip[x] # <<>>
               /\ r.window[x] = "hidden" => r.drag.state = "WaitingToDragTabs" /\ r.drag.attached = x
    <3>1. s.window[x] # "hidden"
      BY <1>1, NoDragIs DEF Settled, Owned
    <3> QED
      BY <1>1, <1>5, <3>1 DEF Settled
  <2> QED
    BY <2>1 DEF Settled
<1>12. Owned(r)
  <2>1. r.window[r.drag.owner] = "open" /\ Dragged(r) \subseteq ToSet(r.strip[r.drag.owner])
        /\ r.strip[r.drag.source] # <<>> /\ Distinct(TabsOf(r))
    BY <1>2, <1>3, <1>5, <1>6, <1>10
  <2> HIDE DEF no
  <2>2. r.history.ended = "none"
    BY <1>7
  <2> QED
    BY <1>6, <1>9, <2>1, <2>2 DEF Owned
<1>13. Seen(r)
  <2>1. Unfailing(r)
    BY <1>1, <1>5, <1>7 DEF Seen, Unfailing
  <2> QED
    BY <1>1, <1>5, <1>6, <1>7, <2>1 DEF Seen
<1>14. Undone(r)
  <2>1. Known(r.drag.data, r.history.before, r.drag.source)
    BY <1>3, <1>6, <1>7 DEF Known
  <2>2. ASSUME NEW x \in Browsers
        PROVE  Like(r.strip[x], r.history.before[x],
                    (ToSet(r.history.before[x]) \ Dragged(r))
                        \cup (IF x = r.drag.owner THEN Dragged(r) ELSE {}), Dragged(r))
    <3>1. ToSet(s.strip[x]) = (ToSet(s.strip[x]) \ D) \cup (IF x = w THEN D ELSE {})
      <4>1. CASE x = w
        BY <4>1
      <4>2. CASE x # w
        <5>1. ToSet(s.strip[x]) \cap ToSet(s.strip[w]) = {}
          BY <1>1, <4>2, LaidIs
        <5> QED
          BY <4>2, <5>1
      <4> QED
        BY <4>1, <4>2
    <3>2. Like(s.strip[x], s.strip[x], (ToSet(s.strip[x]) \ D) \cup (IF x = w THEN D ELSE {}), D)
      BY <3>1 DEF Like
    <3> QED
      BY <1>5, <1>6, <1>7, <1>10, <3>2
  <2>3. r.drag.owner = r.drag.source
        /\ r.strip[r.drag.source] = r.history.before[r.drag.source]
    BY <1>5, <1>6, <1>7
  <2> QED
    BY <2>1, <2>2, <2>3 DEF Undone
<1>15. Restored(r) /\ Whole(r) /\ Laid(r.strip) /\ Laid(r.history.before)
  BY <1>1, <1>5, <1>6, <1>7 DEF Restored, Whole
<1>16. Turns(r)
  <2>1. r.stack = <<>>
    BY <1>1, <1>5, StackIs
  <2>2. r.drag.inLoop = FALSE
    BY <1>6
  <2>3. r.drag.state \notin {"DraggingWindow", "WaitingToDragTabs"}
    BY <1>6
  <2> QED
    BY <1>6, <2>1, <2>2, <2>3, TurnsNone
<1> QED
  BY <1>8, <1>11, <1>12, <1>13, <1>14, <1>15, <1>16 DEF DragInv, Body, Sound

LEMMA AnimatedFine ==
    ASSUME NEW s, DragInv(s), NEW r,
           r = [s EXCEPT !.views = [dragged |-> s.views.dragged \ s.views.animating, animating |-> {}]]
    PROVE  DragInv(r)
<1> DEFINE v == [dragged |-> s.views.dragged \ s.views.animating, animating |-> {}]
<1>1. /\ Body(s) /\ s \in StateSet /\ Laid(s.strip) /\ Settled(s) /\ Owned(s) /\ Seen(s) /\ Whole(s)
      /\ Undone(s) /\ Restored(s) /\ Laid(s.history.before) /\ Turns(s) /\ s.views \in ViewSet
  BY StateIs DEF DragInv, Body, Sound
<1>2. v \in ViewSet /\ v.dragged = s.views.dragged \ s.views.animating /\ v.animating = {}
  BY <1>1 DEF ViewSet
<1> HIDE DEF v
<1>3. /\ r \in StateSet /\ r.strip = s.strip /\ r.window = s.window /\ r.drag = s.drag
      /\ r.views = v /\ r.capture = s.capture /\ r.stack = s.stack /\ r.history = s.history
      /\ r.failed = s.failed
  <2>1. r = [s EXCEPT !.views = v]
    BY DEF v
  <2> QED
    BY <1>1, <1>2, <2>1 DEF StateSet
<1>4. Dragged(r) = Dragged(s) /\ TabsOf(r) = TabsOf(s)
  BY <1>3 DEF Dragged, TabsOf
<1>5. Seen(r)
  <2>1. r.drag.alive /\ r.drag.state # "NotStarted" =>
           Dragged(r) \subseteq r.views.dragged \ r.views.animating
    BY <1>1, <1>2, <1>3, <1>4 DEF Seen
  <2>2. ~r.history.quick /\ r.drag.alive =>
           r.views.dragged = IF r.drag.state = "NotStarted" THEN {} ELSE Dragged(r)
    <3> SUFFICES ASSUME ~s.history.quick
                 PROVE  r.drag.alive => r.views.dragged = IF r.drag.state = "NotStarted" THEN {}
                                                          ELSE Dragged(r)
      BY <1>3
    <3>1. /\ s.drag.alive => s.views.dragged = IF s.drag.state = "NotStarted" THEN {} ELSE Dragged(s)
          /\ s.drag.alive /\ s.drag.state # "NotStarted" =>
                 Dragged(s) \subseteq s.views.dragged \ s.views.animating
      BY <1>1 DEF Seen
    <3>2. s.drag.alive => s.views.dragged \ s.views.animating = s.views.dragged
      BY ONLY <3>1
    <3> QED
      BY ONLY <1>2, <1>3, <1>4, <3>1, <3>2
  <2>3. Unfailing(r)
    BY <1>1, <1>3 DEF Seen, Unfailing
  <2> QED
    BY <1>2, <1>3, <2>1, <2>2, <2>3 DEF Seen
<1>6. Settled(r) /\ Owned(r) /\ Whole(r) /\ Undone(r) /\ Restored(r)
  <2>1. Settled(r)
    BY <1>1, <1>3 DEF Settled
  <2>2. Owned(r)
    BY ZenonT(40), <1>1, <1>3, <1>4 DEF Owned
  <2>3. Undone(r)
    BY <1>1, <1>3, <1>4 DEF Undone
  <2> QED
    BY <1>1, <1>3, <1>4, <2>1, <2>2, <2>3 DEF Whole, Restored
<1>7. Turns(r)
  <2>1. Looping(r) = Looping(s)
    BY <1>3 DEF Looping
  <2> QED
    BY <1>1, <1>3, <1>4, <2>1 DEF Turns
<1> QED
  BY <1>1, <1>3, <1>5, <1>6, <1>7 DEF DragInv, Body, Sound

LEMMA ButtonFine ==
    ASSUME NEW s, DragInv(s), NEW r, r = [s EXCEPT !.button = "up"]
    PROVE  DragInv(r)
<1>1. s \in StateSet /\ Body(s) /\ Turns(s)
  BY DEF DragInv, Body, Sound
<1>2. /\ r \in StateSet /\ r.strip = s.strip /\ r.window = s.window /\ r.drag = s.drag
      /\ r.views = s.views /\ r.capture = s.capture /\ r.stack = s.stack /\ r.history = s.history
      /\ r.failed = s.failed
  BY <1>1 DEF StateSet
<1>3. Alike(s, r)
  BY <1>2 DEF Alike
<1>4. Body(r) /\ Dragged(r) = Dragged(s)
  BY <1>1, <1>3, AlikeFine DEF Body
<1>5. Turns(r)
  <2>1. Looping(r) = Looping(s)
    BY <1>2 DEF Looping
  <2> QED
    BY <1>1, <1>2, <1>4, <2>1 DEF Turns
<1> QED
  BY <1>4, <1>5 DEF DragInv

--------------------------------------------------------------------------------
\* The start, the steps, and what every state has.
LEMMA StateParts ==
    /\ State.strip = strip /\ State.window = window /\ State.views = views /\ State.drag = drag
    /\ State.capture = capture /\ State.button = button /\ State.stack = stack
    /\ State.history = history /\ State.failed = failed
BY DEF State

LEMMA LiveIs ==
    ASSUME DragInv(State)
    PROVE  /\ Live \subseteq Tabs /\ Cardinality(Live) \in Nat
           /\ \A t : t \in Live <=> \E w \in Browsers : t \in ToSet(State.strip[w])
<1>1. Laid(strip)
  BY StateParts DEF DragInv, Body, Sound
<1>2. \A w \in Browsers : ToSet(strip[w]) \subseteq Tabs
  BY <1>1, LaidIs, DistinctIs
<1>3. Live \subseteq Tabs
  BY <1>2 DEF Live
<1>4. IsFiniteSet(Live)
  BY <1>3, StripsAssumption, FS_Subset
<1>5. Cardinality(Live) \in Nat
  BY <1>4, FS_CardinalityType
<1> QED
  BY <1>3, <1>5, StateParts DEF Live

LEMMA InitFine == TabDragInit => DragInv(State)
<1> SUFFICES ASSUME TabDragInit PROVE DragInv(State)
  OBVIOUS
<1> DEFINE s == State
           no == FALSE
           none == "none"
<1>1. /\ s.strip = Strips /\ s.views.dragged = {} /\ s.views.animating = {} /\ s.drag = NoDrag
      /\ s.window = [w \in Browsers |-> IF Strips[w] = <<>> THEN "unborn" ELSE "open"]
      /\ s.capture = Null /\ s.button = "up" /\ s.stack = <<>> /\ s.failed = {}
      /\ s.history = [before |-> Strips, disturbed |-> no, ended |-> none, quick |-> no, drags |-> 0,
                      changes |-> 0]
      /\ s.views = [dragged |-> {}, animating |-> {}]
  BY StateParts DEF TabDragInit
<1>2. Laid(Strips)
  <2>1. \A w \in Browsers : Strips[w] \in Seq(Tabs) /\ IsInjective(Strips[w])
    BY StripsAssumption
  <2>2. \A w, x \in Browsers : w # x => ToSet(Strips[w]) \cap ToSet(Strips[x]) = {}
    BY StripsAssumption
  <2> QED
    BY <2>1, <2>2 DEF Laid, Distinct
<1>3. s.history \in HistorySet /\ s.history.ended = none /\ s.history.before = Strips
  BY <1>1, StripsAssumption DEF HistorySet
<1>4. s \in StateSet
  <2>1. s.window \in [Browsers -> WindowStates]
    BY <1>1 DEF WindowStates
  <2>2. s.stack \in Seq(FrameSet)
    BY <1>1, EmptySeq
  <2>3. s.strip \in [Browsers -> Seq(Tabs)]
    BY <1>1, StripsAssumption
  <2>4. s.views \in ViewSet
    BY <1>1 DEF ViewSet
  <2>5. s = [strip |-> s.strip, window |-> s.window, views |-> s.views, drag |-> s.drag,
             capture |-> s.capture, button |-> s.button, stack |-> s.stack,
             history |-> s.history, failed |-> s.failed]
    BY StateParts DEF State
  <2>6. s.drag \in DragSet /\ s.capture \in B0 /\ s.button \in {"up", "down"}
        /\ s.failed \in SUBSET Checks
    BY <1>1, NoDragIs DEF B0
  <2> HIDE DEF s
  <2> QED
    BY <1>3, <2>1, <2>2, <2>3, <2>4, <2>5, <2>6 DEF StateSet
<1> HIDE DEF s
<1>5. Settled(s)
  <2>1. \A x \in Browsers : s.window[x] = IF Strips[x] = <<>> THEN "unborn" ELSE "open"
    BY <1>1
  <2> QED
    BY <1>1, <2>1 DEF Settled
<1>6. Owned(s) /\ Seen(s) /\ Undone(s) /\ Restored(s) /\ Whole(s)
  <2>1. Owned(s)
    BY <1>1, NoDragIs DEF Owned
  <2>2. Seen(s) /\ Undone(s) /\ Whole(s)
    BY <1>1, NoDragIs DEF Seen, Unfailing, Undone, Whole
  <2>3. Restored(s)
    BY <1>3 DEF Restored
  <2> QED
    BY <2>1, <2>2, <2>3
<1>7. Turns(s)
  BY <1>1, NoDragIs, TurnsNone
<1> QED
  BY <1>1, <1>2, <1>3, <1>4, <1>5, <1>6, <1>7 DEF DragInv, Body, Sound, s

LEMMA BecomesFine ==
    ASSUME NEW r, DragInv(r), Becomes(r)
    PROVE  DragInv(State)'
<1>1. r \in StateSet
  BY DEF DragInv, Body, Sound
<1>2. State' = r
  BY <1>1, BecomesIs
<1>3. DragInv(State') <=> DragInv(r)
  BY ONLY <1>2
<1> QED
  BY <1>3

LEMMA PressStep ==
    ASSUME DragInv(State), Press
    PROVE  DragInv(State)'
<1>1. PICK w \in Browsers, D \in (SUBSET Live) \ {{}} :
        /\ At(State) = "EventLoop" /\ button = "up" /\ capture = Null /\ ~drag.alive
        /\ window[w] = "open" /\ D \subseteq ToSet(strip[w])
        /\ drag' = [NoDrag EXCEPT !.alive = TRUE, !.owner = w, !.source = w,
                        !.data = [i \in 1 .. Cardinality(D) |->
                            LET t == Only(strip[w], D)[i]
                            IN [tab |-> t, index |-> Place(strip[w], t)]]]
        /\ capture' = w /\ button' = "down"
        /\ Events + 2 <= MaxEvents
        /\ history' = [history EXCEPT !.before = strip, !.disturbed = FALSE, !.ended = "none",
                                      !.quick = @ \/ views.dragged # {}, !.drags = @ + 1]
        /\ UNCHANGED <<strip, window, views, stack, failed>>
  BY DEF Press
<1> DEFINE s == State
           r == [strip |-> strip, window |-> window, views |-> views, drag |-> drag',
                 capture |-> w, button |-> "down", stack |-> stack, history |-> history',
                 failed |-> failed]
<1>2. State' = r
  BY <1>1 DEF State
<1>3. Pressed(s, w, D, r)
  <2>1. /\ s.strip = strip /\ s.window = window /\ s.views = views /\ s.stack = stack
        /\ s.history = history /\ s.failed = failed
    BY StateParts
  <2>2. r.drag = drag' /\ r.history = history'
    OBVIOUS
  <2>3. r.drag = [NoDrag EXCEPT !.alive = TRUE, !.owner = w, !.source = w,
                                !.data = PressedData(s.strip[w], D)]
    BY <1>1, <2>1, <2>2 DEF PressedData
  <2>4. r.history = [s.history EXCEPT !.before = s.strip, !.disturbed = FALSE, !.ended = "none",
                                      !.quick = @ \/ views.dragged # {}, !.drags = @ + 1]
    BY <1>1, <2>1, <2>2
  <2>5. r = [strip |-> s.strip, window |-> s.window, views |-> s.views, drag |-> r.drag,
            capture |-> w, button |-> "down", stack |-> s.stack, history |-> r.history,
            failed |-> s.failed]
    BY <2>1, <2>2
  <2> QED
    BY <2>3, <2>4, <2>5 DEF Pressed
<1> HIDE DEF r
<1>4. DragInv(r)
  <2>1. /\ DragInv(s) /\ At(s) = "EventLoop" /\ ~s.drag.alive /\ s.window[w] = "open"
        /\ D # {} /\ D \subseteq ToSet(s.strip[w])
    BY <1>1, StateParts
  <2> HIDE DEF s
  <2> QED
    BY ONLY <1>3, <2>1, PressFine
<1>5. DragInv(State') <=> DragInv(r)
  BY ONLY <1>2
<1> QED
  BY <1>4, <1>5

LEMMA ReturnStep ==
    ASSUME DragInv(State), Returns
    PROVE  DragInv(State)'
<1> DEFINE s == State
<1>1. /\ s.strip = strip /\ s.window = window /\ s.drag = drag
  BY StateParts
<1>2. At(s) # "EventLoop" => Len(s.stack) # 0
  BY TopIs
<1>3. ~drag.alive /\ At(s) # "EventLoop" => DragInv(Pop(s))
  BY <1>1, <1>2, DeadReturns
<1>4. CASE AfterSaveFocus
  <2>1. At(s) = "SaveFocus" /\ Becomes(IF drag.alive THEN StartDrag(Pop(s)) ELSE Pop(s))
    BY <1>4 DEF AfterSaveFocus
  <2>2. DragInv(IF drag.alive THEN StartDrag(Pop(s)) ELSE Pop(s))
    BY <1>1, <1>3, <2>1, SaveFocusReturns
  <2> QED
    BY <2>1, <2>2, BecomesFine
<1>5. CASE AfterFinder
  <2>1. At(s) = "Finder"
    BY <1>5 DEF AfterFinder
  <2>2. CASE ~drag.alive /\ Becomes(Pop(s))
    BY <1>3, <2>1, <2>2, BecomesFine
  <2>3. ASSUME drag.alive,
               NEW found \in {w \in Browsers : window[w] = "open"} \cup {Null},
               NEW n \in NewWindows(s) \cup {Null}, NEW p \in 0 .. Cardinality(Live),
               drag.state = "DraggingWindow" => found # drag.attached,
               (found = Null /\ drag.state = "DraggingTabs") =>
                       (n # Null \/ Len(strip[drag.attached]) = Len(drag.data)),
               Becomes(ContinueDragging(Pop(s), found, n, p))
        PROVE  DragInv(State)'
    <3>1. p \in Nat
      BY <2>3, LiveIs
    <3>2. /\ DragInv(s) /\ s.drag.alive /\ found \in {w \in Browsers : s.window[w] = "open"} \cup {Null}
          /\ s.drag.state = "DraggingWindow" => found # s.drag.attached
          /\ found = Null /\ s.drag.state = "DraggingTabs" =>
                 n # Null \/ Len(s.strip[s.drag.attached]) = Len(s.drag.data)
      BY <1>1, <2>3
    <3>3. DragInv(ContinueDragging(Pop(s), found, n, p))
      <4> HIDE DEF s
      <4> QED
        BY <2>1, <2>3, <3>1, <3>2, FinderReturns
    <3> QED
      BY <2>3, <3>3, BecomesFine
  <2> QED
    BY <1>5, <2>2, <2>3 DEF AfterFinder
<1>6. CASE AfterShow
  <2>1. At(s) = "Show" /\ Becomes(IF drag.alive THEN RunMoveLoop(Pop(s)) ELSE Pop(s))
    BY <1>6 DEF AfterShow
  <2>2. DragInv(IF drag.alive THEN RunMoveLoop(Pop(s)) ELSE Pop(s))
    BY <1>1, <1>3, <2>1, ShowReturns
  <2> QED
    BY <2>1, <2>2, BecomesFine
<1>7. CASE LoopReturns
  <2>1. PICK p \in 0 .. Cardinality(Live) :
          Becomes(IF drag.alive THEN AfterMoveLoop(Pop(s), Top(s).result, p) ELSE Pop(s))
    BY <1>7 DEF LoopReturns
  <2>2. At(s) = "Loop" /\ p \in Nat
    BY <1>7, LiveIs DEF LoopReturns
  <2>3. DragInv(IF drag.alive THEN AfterMoveLoop(Pop(s), Top(s).result, p) ELSE Pop(s))
    BY <1>1, <1>3, <2>2, LoopEnded
  <2> QED
    BY <2>1, <2>3, BecomesFine
<1>8. CASE AfterLoopActivates
  <2>1. At(s) = "AfterLoop"
        /\ Becomes(IF drag.alive THEN [Pop(s) EXCEPT !.drag.target = Null] ELSE Pop(s))
    BY <1>8 DEF AfterLoopActivates
  <2>2. DragInv(IF drag.alive THEN [Pop(s) EXCEPT !.drag.target = Null] ELSE Pop(s))
    BY <1>1, <1>3, <2>1, ActivatedFine
  <2> QED
    BY <2>1, <2>2, BecomesFine
<1> QED
  BY <1>4, <1>5, <1>6, <1>7, <1>8 DEF Returns

LEMMA InputStep ==
    ASSUME DragInv(State),
           MouseMove \/ ReleaseButton \/ ReleaseIsHandled \/ LoopIsCanceled \/ CaptureIsLost
               \/ KeyPressed \/ AnimationEnds
    PROVE  DragInv(State)'
<1> DEFINE s == State
<1>1. /\ s.strip = strip /\ s.window = window /\ s.drag = drag /\ s.capture = capture
      /\ s.views = views /\ s.stack = stack /\ s.button = button /\ s.history = history
      /\ s.failed = failed
  BY StateParts
<1>2. CASE MouseMove
  <2>1. /\ drag.alive /\ Becomes(Drag(s))
        /\ At(s) = "EventLoop" \/ (At(s) = "Loop" /\ ~Top(s).ending)
    BY <1>2 DEF MouseMove
  <2>2. DragInv(Drag(s))
    BY <1>1, <2>1, MouseMoved
  <2> QED
    BY <2>1, <2>2, BecomesFine
<1>3. CASE ReleaseButton
  <2> DEFINE r == [s EXCEPT !.button = "up"]
  <2>1. State' = r
    BY <1>3 DEF ReleaseButton, State
  <2>2. DragInv(r)
    <3> HIDE DEF s
    <3> QED
      BY ButtonFine DEF s
  <2>3. DragInv(State') <=> DragInv(r)
    BY ONLY <2>1
  <2> QED
    BY <2>2, <2>3
<1>4. CASE ReleaseIsHandled
  <2>1. CASE /\ At(s) = "EventLoop"
             /\ Becomes([ContextEndDrag(s, capture, "complete") EXCEPT !.capture = Null])
    <3>1. DragInv([ContextEndDrag(s, capture, "complete") EXCEPT !.capture = Null])
      BY <2>1, ReleasedFine
    <3> QED
      BY <2>1, <3>1, BecomesFine
  <2>2. CASE At(s) = "Loop" /\ Becomes(EndMoveLoop(s))
    <3>1. DragInv(EndMoveLoop(s))
      BY <2>2, LoopReleased
    <3> QED
      BY <2>2, <3>1, BecomesFine
  <2> QED
    BY <1>4, <2>1, <2>2 DEF ReleaseIsHandled
<1>5. CASE LoopIsCanceled
  <2> DEFINE r == [s EXCEPT !.stack[Len(s.stack)].ending = TRUE,
                            !.stack[Len(s.stack)].result = "canceled"]
  <2>1. At(s) = "Loop" /\ Becomes(r)
    BY <1>1, <1>5 DEF LoopIsCanceled
  <2>2. DragInv(r)
    BY <2>1, LoopCanceled
  <2> HIDE DEF r
  <2> QED
    BY <2>1, <2>2, BecomesFine
<1>6. CASE CaptureIsLost
  <2> DEFINE r == ContextEndDrag([s EXCEPT !.capture = Null], s.capture, "capture lost")
  <2>1. s.capture # Null /\ Becomes(r)
    BY <1>1, <1>6 DEF CaptureIsLost
  <2>2. DragInv(r)
    BY <2>1, CaptureLost
  <2> HIDE DEF r
  <2> QED
    BY <2>1, <2>2, BecomesFine
<1>7. CASE KeyPressed
  <2>1. PICK reason \in {"complete", "cancel"} : Becomes(EndDrag(s, reason))
    BY <1>7 DEF KeyPressed
  <2>2. s.drag.alive /\ (At(s) = "EventLoop" \/ (At(s) = "Loop" /\ ~Top(s).ending))
    BY <1>1, <1>7 DEF KeyPressed, Dispatching
  <2>3. DragInv(EndDrag(s, reason))
    BY <2>2, KeyFine
  <2> QED
    BY <2>1, <2>3, BecomesFine
<1>8. CASE AnimationEnds
  <2> DEFINE r == [s EXCEPT !.views = [dragged |-> s.views.dragged \ s.views.animating,
                                       animating |-> {}]]
  <2>1. State' = r
    BY <1>1, <1>8 DEF AnimationEnds, State
  <2>2. DragInv(r)
    BY AnimatedFine
  <2>3. DragInv(State') <=> DragInv(r)
    BY ONLY <2>1
  <2> QED
    BY <2>2, <2>3
<1> QED
  BY <1>2, <1>3, <1>4, <1>5, <1>6, <1>7, <1>8

LEMMA TabStep ==
    ASSUME DragInv(State), OpenTab \/ CloseTab \/ DeleteWindow
    PROVE  DragInv(State)'
<1> DEFINE s == State
<1>1. /\ s.strip = strip /\ s.window = window /\ s.drag = drag
  BY StateParts
<1>2. Dispatching => Dispatched(s)
  BY DEF Dispatching, Dispatched
<1>3. CASE OpenTab
  <2>1. PICK w \in Browsers, t \in Tabs \ Live :
        /\ Dispatching /\ window[w] = "open"
        /\ LET added == [s EXCEPT !.strip[w] = Append(@, t), !.history.disturbed = TRUE,
                                  !.history.changes = @ + 1]
           IN Becomes(IF drag.state = "DraggingWindow"
                      THEN ContextEndDrag(added, w, "complete") ELSE added)
    BY <1>3 DEF OpenTab
  <2> DEFINE r == [s EXCEPT !.strip[w] = Append(@, t), !.history.disturbed = TRUE,
                            !.history.changes = @ + 1]
             m == IF s.drag.state = "DraggingWindow" THEN ContextEndDrag(r, w, "complete") ELSE r
  <2>2. Becomes(m)
    BY <1>1, <2>1
  <2>3. \A x \in Browsers : t \notin ToSet(s.strip[x])
    BY <2>1, LiveIs
  <2>4. s \in StateSet
    BY DEF DragInv, Body, Sound
  <2>5. Added(s, w, t, r)
    <3> HIDE DEF s
    <3> QED
      BY <2>4, AddedIs
  <2>6. DragInv(s) /\ Dispatched(s) /\ s.window[w] = "open"
    BY <1>1, <1>2, <2>1
  <2> HIDE DEF r, s
  <2>7. DragInv(m)
    BY <2>3, <2>5, <2>6, OpenFine
  <2> HIDE DEF m
  <2> QED
    BY <2>2, <2>7, BecomesFine
<1>4. CASE CloseTab
  <2>1. PICK w \in Browsers, t \in Live :
           Dispatching /\ t \in ToSet(strip[w]) /\ Becomes(RemoveTab(s, w, t))
    BY <1>4 DEF CloseTab
  <2>2. DragInv(RemoveTab(s, w, t))
    BY <1>1, <1>2, <2>1, CloseFine
  <2> QED
    BY <2>1, <2>2, BecomesFine
<1>5. CASE DeleteWindow
  <2>1. PICK w \in Browsers :
        /\ Dispatching /\ window[w] = "closing"
        /\ Becomes(Check([s EXCEPT !.window[w] = "gone",
                              !.drag = IF drag.alive /\ drag.owner = w THEN NoDrag ELSE @],
                         drag.alive => drag.owner # w, "deleted with its strip"))
    BY <1>5 DEF DeleteWindow
  <2> DEFINE r == Check([s EXCEPT !.window[w] = "gone",
                              !.drag = IF s.drag.alive /\ s.drag.owner = w THEN NoDrag ELSE @],
                         s.drag.alive => s.drag.owner # w, "deleted with its strip")
  <2>2. Becomes(r)
    BY <1>1, <2>1
  <2>3. DragInv(s) /\ Dispatched(s) /\ s.window[w] = "closing"
    BY <1>1, <1>2, <2>1
  <2>4. DragInv(r)
    <3> HIDE DEF s
    <3> QED
      BY <2>3, DeleteFine
  <2> HIDE DEF r
  <2> QED
    BY <2>2, <2>4, BecomesFine
<1> QED
  BY <1>3, <1>4, <1>5

LEMMA DragStep ==
    ASSUME DragInv(State), [TabDragNext]_tabDragVars
    PROVE  DragInv(State)'
<1>1. CASE TabDragNext
  BY <1>1, PressStep, ReturnStep, InputStep, TabStep DEF TabDragNext
<1>2. CASE UNCHANGED tabDragVars
  <2>1. State' = State
    BY <1>2 DEF tabDragVars, State
  <2>2. DragInv(State') <=> DragInv(State)
    BY ONLY <2>1
  <2> QED
    BY <2>2
<1> QED
  BY <1>1, <1>2

LEMMA DragAlways == TabDragSpec => []DragInv(State)
<1>1. TabDragInit => DragInv(State)
  BY InitFine
<1>2. DragInv(State) /\ [TabDragNext]_tabDragVars => DragInv(State)'
  BY DragStep
<1> QED
  BY <1>1, <1>2, PTL DEF TabDragSpec

--------------------------------------------------------------------------------
LEMMA InvType == DragInv(State) => TabDragTypeOK
<1> SUFFICES ASSUME DragInv(State) PROVE TabDragTypeOK
  OBVIOUS
<1>1. State \in StateSet /\ Seen(State)
  BY DEF DragInv, Body, Sound
<1>2. /\ strip \in [Browsers -> Seq(Tabs)] /\ window \in [Browsers -> WindowStates]
      /\ views \in ViewSet /\ drag \in DragSet /\ capture \in B0 /\ button \in {"up", "down"}
  BY <1>1, StateIs, StateParts
<1>3. views.animating \subseteq views.dragged /\ views.dragged \subseteq Tabs
  BY <1>1, <1>2, StateParts DEF Seen, ViewSet
<1>4. /\ drag.state \in States /\ drag.alive \in BOOLEAN /\ drag.inLoop \in BOOLEAN
      /\ drag.owner \in B0 /\ drag.source \in B0 /\ drag.attached \in B0 /\ drag.target \in B0
  BY <1>2, DragIs
<1> QED
  BY <1>2, <1>3, <1>4 DEF TabDragTypeOK, WindowStates, B0

LEMMA InvOwner == DragInv(State) => OwnerHoldsTheDrag
<1> SUFFICES ASSUME DragInv(State) PROVE OwnerHoldsTheDrag
  OBVIOUS
<1>1. State \in StateSet /\ Seen(State) /\ Owned(State) /\ Whole(State) /\ Settled(State)
  BY DEF DragInv, Body, Sound
<1> SUFFICES ASSUME drag.alive PROVE
      /\ drag.owner = (IF drag.attached # Null THEN drag.attached ELSE drag.source)
      /\ drag.attached # Null => Dragged(State) \subseteq ToSet(strip[drag.attached])
      /\ drag.owner # Null
      /\ \A w \in {drag.owner, drag.source, drag.target} \ {Null} :
             window[w] \in {"open", "hidden"}
      /\ drag.state = "DraggingWindow" => ToSet(strip[drag.attached]) = Dragged(State)
  BY DEF OwnerHoldsTheDrag
<1>2. /\ drag.state = "NotStarted" <=> drag.attached = Null
      /\ drag.owner = IF drag.state = "NotStarted" THEN drag.source ELSE drag.attached
      /\ drag.owner \in Browsers /\ Dragged(State) \subseteq ToSet(strip[drag.owner])
      /\ window[drag.owner] = IF drag.state = "WaitingToDragTabs" THEN "hidden" ELSE "open"
      /\ drag.source # Null => strip[drag.source] # <<>>
      /\ drag.target # Null => window[drag.target] = "open"
  BY <1>1, StateParts DEF Owned
<1>3. drag.owner # Null
  BY <1>2, StripsAssumption
<1>4. drag.source # Null => window[drag.source] \in {"open", "hidden"}
  <2>1. drag.source \in B0
    BY <1>1, StateIs, DragIs, StateParts
  <2> QED
    BY <1>1, <1>2, <2>1, StateParts DEF Settled, B0
<1>5. drag.state = "DraggingWindow" => ToSet(strip[drag.owner]) = Dragged(State)
  BY <1>1, StateParts DEF Whole
<1>6. \A w \in {drag.owner, drag.source, drag.target} \ {Null} : window[w] \in {"open", "hidden"}
  BY <1>2, <1>4
<1> QED
  BY <1>2, <1>3, <1>5, <1>6

LEMMA InvConsistent == DragInv(State) => DragIsConsistent
<1> SUFFICES ASSUME DragInv(State) PROVE DragIsConsistent
  OBVIOUS
<1>1. Unfailing(State)
  BY DEF DragInv, Body, Sound, Seen
<1>2. failed \subseteq {"No tabs should be dragging"} /\ (~history.quick => failed = {})
  BY <1>1, StateParts DEF Unfailing, Excused
<1> QED
  BY <1>2, InvType, InvOwner DEF DragIsConsistent, ChecksHold

LEMMA InvKept == DragInv(State) => TabsAreKept
<1> SUFFICES ASSUME DragInv(State) PROVE TabsAreKept
  OBVIOUS
<1>1. State \in StateSet /\ Laid(strip) /\ Settled(State) /\ Owned(State) /\ Turns(State)
  BY StateParts DEF DragInv, Body, Sound
<1>2. \A w, x \in Browsers, i, j \in 1 .. Cardinality(Tabs) :
           (i \in DOMAIN strip[w] /\ j \in DOMAIN strip[x] /\ strip[w][i] = strip[x][j])
               => w = x /\ i = j
  <2> SUFFICES ASSUME NEW w \in Browsers, NEW x \in Browsers, NEW i \in DOMAIN strip[w],
                      NEW j \in DOMAIN strip[x], strip[w][i] = strip[x][j]
               PROVE  w = x /\ i = j
    OBVIOUS
  <2>1. Distinct(strip[w]) /\ Distinct(strip[x])
    BY <1>1, LaidIs
  <2>2. strip[w][i] \in ToSet(strip[w]) /\ strip[x][j] \in ToSet(strip[x])
    BY <2>1, DistinctIs
  <2>3. w = x
    BY <1>1, <2>2, LaidIs
  <2> QED
    BY <2>1, <2>3, DistinctIs
<1>3. stack = <<>> => \A w \in Browsers : window[w] # "hidden"
  <2> SUFFICES ASSUME stack = <<>>, NEW w \in Browsers, window[w] = "hidden" PROVE FALSE
    OBVIOUS
  <2>1. drag.state = "WaitingToDragTabs"
    BY <1>1, StateParts DEF Settled
  <2>2. drag.alive
    BY <1>1, <2>1, StateParts, NoDragIs DEF Owned
  <2>3. Looping(State)
    BY <1>1, <2>1, <2>2, StateParts DEF Turns
  <2> QED
    BY <2>3, StateParts DEF Looping
<1> QED
  BY <1>1, <1>2, <1>3, StateParts DEF TabsAreKept, Settled

LEMMA InvRestores == DragInv(State) => CancelRestores
<1> SUFFICES ASSUME DragInv(State) PROVE CancelRestores
  OBVIOUS
<1>1. Restored(State)
  BY DEF DragInv, Body, Sound
<1> QED
  BY <1>1, StateParts DEF Restored, CancelRestores

(* No check of TabDragController, Attach(), Detach() or RunMoveLoop() fails, and the strip
   that owns the controller is always the one its tabs are in, in a window that still exists
   and, when a window is dragged, has no others.  The one exception is counted, not assumed
   away: StartedDragging() can find tabs dragging, after a press that did not wait for the
   tabs of the last drag to reach their places, and no other check fails then either. *)
THEOREM DragCorrect == TabDragSpec => []DragIsConsistent
<1>1. DragInv(State) => DragIsConsistent
  BY InvConsistent
<1> QED
  BY <1>1, DragAlways, PTL

(* Detach(), Attach(), MoveAttached() and RevertDrag() never lose or double a tab, and once
   every call the controller made has returned, a window is open exactly as long as it has
   tabs and none is left hidden. *)
THEOREM TabsCorrect == TabDragSpec => []TabsAreKept
<1>1. DragInv(State) => TabsAreKept
  BY InvKept
<1> QED
  BY <1>1, DragAlways, PTL

(* RevertDrag() puts every tab back where it was, through however many strips and windows
   the drag went: the indices it computes for tabs that are still to be reverted are right
   for every number of tabs and every order they were moved in. *)
THEOREM CancelCorrect == TabDragSpec => []CancelRestores
<1>1. DragInv(State) => CancelRestores
  BY InvRestores
<1> QED
  BY <1>1, DragAlways, PTL
=============================================================================
