------------------------ MODULE FrameBeforeUnload_proofs ------------------------
(***************************************************************************)
(* Proofs about FrameBeforeUnload: every round of beforeunload is told     *)
(* right and in time, for every tree of frames.                            *)
(***************************************************************************)
EXTENDS FrameBeforeUnload, SequenceTheorems, WellFoundedInduction, TLAPS

\* The states that the steps below work on: the records Now stands for.
Rounds == [waiting : BOOLEAN, forNavigation : BOOLEAN, cancels : BOOLEAN,
           replies : SUBSET Frames, shown : BOOLEAN, timer : BOOLEAN,
           closing : BOOLEAN, clean : BOOLEAN, orphaned : BOOLEAN]
Told == [kind : {"told"}, frame : Frames, proceed : BOOLEAN,
         forNavigation : BOOLEAN, closing : BOOLEAN, unheard : SUBSET Frames]
Tasks == Told \cup [kind : {"simulate"}, frame : Frames, proceed : BOOLEAN]
              \cup [kind : {"legacy"}, frame : Frames]
States == [round : [Frames -> Rounds], runs : [Frames -> Seq({"run", "no"})],
           tasks : Seq(Tasks), outcome : Told \cup {[kind |-> "none"]}]

\* What is told is right.
Right(t) == t.kind = "told" => t.unheard = {} /\ ~(t.closing /\ t.forNavigation)
TellsRight(s) == Right(s.outcome) /\ \A t \in ToSet(s.tasks) : Right(t)

\* A round is for one client, and its timer runs only while it is open.
OneClient(s) ==
    \A f \in Frames : /\ ~(s.round[f].closing /\ s.round[f].forNavigation)
                      /\ s.round[f].timer => s.round[f].waiting

\* What an open round that is clean knows: it waits for every renderer below that has a
\* request to answer, which has that one only; no other round is open above or below;
\* and if a frame below will answer itself from a task it is the initiator, and
\* there is nobody else to answer.
Asks(s, f) == {g \in Subtree(f) : s.runs[g] # <<>>}
Hears(s, f) ==
    /\ Asks(s, f) \subseteq s.round[f].replies
    /\ \A g \in Asks(s, f) : Len(s.runs[g]) = 1
    /\ \A g \in Related(f) : ~s.round[g].waiting
    /\ \A t \in ToSet(s.tasks) : t.kind = "legacy" /\ t.frame \in Subtree(f)
           => t.frame = f /\ Asks(s, f) = {}
CleanHears(s) == \A f \in Frames : s.round[f].waiting /\ s.round[f].clean => Hears(s, f)

\* Only frames that exist have open rounds, and each will end.
Open(s) == {f \in Frames : s.round[f].waiting}
Finals(s) == {t.frame : t \in {t \in ToSet(s.tasks) : t.kind = "simulate"}}
Covered(s, f, D) ==
    \/ s.round[f].timer \/ s.round[f].orphaned \/ Debugging \/ f \in Finals(s)
    \/ \E d \in D : f \in Ancestors[d[1]]
AllCovered(s, D) == \A f \in Open(s) : Covered(s, f, D)

Sound(s) == s \in States /\ TellsRight(s) /\ OneClient(s) /\ CleanHears(s)

\* The inductive invariant.
FramesFine ==
    /\ live \subseteq alive /\ alive \subseteq Frames /\ handler \subseteq live
    /\ dialogs \subseteq Frames \X Frames /\ budget \in 0..Budget
RoundsFine == Sound(Now) /\ AllCovered(Now, dialogs) /\ Open(Now) \subseteq alive
RoundInv == FramesFine /\ RoundsFine
--------------------------------------------------------------------------------
\* The tree of frames.  Order lists every frame once, after its parent.
N == Len(Order)

LEMMA Positions ==
    /\ N \in Nat \ {0} /\ DOMAIN Order = 1..N
    /\ Frames = {Order[k] : k \in 1..N} /\ Main \in Frames
    /\ \A i, j \in 1..N : Order[i] = Order[j] => i = j
<1>1. N \in Nat /\ DOMAIN Order = 1..N /\ N # 0
  BY TreeAssumption, LenProperties, EmptySeq DEF N
<1>2. Frames = {Order[k] : k \in 1..N}
  BY <1>1 DEF Frames, ToSet
<1> QED
  BY <1>1, <1>2, TreeAssumption DEF Main, IsInjective

\* A set of natural numbers that is not empty has a least element.
LEMMA Least ==
    ASSUME NEW T \in SUBSET Nat, T # {}
    PROVE  \E n \in T : \A m \in T : n <= m
<1>1. PICK n \in T : \A m \in T : ~(<<m, n>> \in OpToRel(<, Nat))
  BY WFMin, NatLessThanWellFounded
<1>2. ASSUME NEW m \in T PROVE n <= m
  <2>1. ~(m < n)
    <3> SUFFICES ASSUME m < n PROVE <<m, n>> \in OpToRel(<, Nat)
      BY <1>1
    <3> QED
      BY Zenon DEF OpToRel
  <2> QED
    BY <2>1
<1> QED
  BY <1>2

\* The first n frames, and what Ancestors has to be on them.
First(n) == {Order[k] : k \in 1..n}
AncestorsOn(n, h) ==
    h = [f \in First(n) |-> IF Parent[f] = None THEN {f} ELSE {f} \cup h[Parent[f]]]

LEMMA ParentBefore ==
    ASSUME NEW n \in 1..N, Parent[Order[n]] # None
    PROVE  Parent[Order[n]] \in First(n - 1)
<1>1. Order[n] \in Frames /\ Parent[Order[n]] \in Frames
  BY Positions, TreeAssumption
<1>2. PICK i \in 1..N : Parent[Order[n]] = Order[i]
  BY <1>1, Positions
<1>3. i < n
  BY <1>2, Positions, TreeAssumption
<1> QED
  BY <1>2, <1>3 DEF First

LEMMA AncestorsExist == \E h : AncestorsOn(N, h)
<1> DEFINE Bad == {n \in 0..N : ~\E h : AncestorsOn(n, h)}
<1> SUFFICES ASSUME Bad # {} PROVE FALSE
  BY Positions
<1>1. PICK n \in Bad : \A m \in Bad : n <= m
  <2>1. Bad \in SUBSET Nat
    BY Positions
  <2> HIDE DEF Bad
  <2> QED
    BY <2>1, Least
<1>2. n # 0
  <2>1. AncestorsOn(0, [f \in First(0) |-> {f}])
    BY DEF AncestorsOn, First
  <2> QED
    BY <1>1, <2>1
<1>3. n \in 1..N /\ n - 1 \in 0..N /\ ~(n <= n - 1)
  BY <1>1, <1>2, Positions
<1>4. PICK h : AncestorsOn(n - 1, h)
  BY <1>1, <1>3
<1> DEFINE new == IF Parent[Order[n]] = None THEN {Order[n]} ELSE {Order[n]} \cup h[Parent[Order[n]]]
           g == [f \in First(n) |-> IF f = Order[n] THEN new ELSE h[f]]
<1>5. First(n) = First(n - 1) \cup {Order[n]} /\ Order[n] \notin First(n - 1)
  BY <1>3, Positions DEF First
<1>6. \A f \in First(n) : Parent[f] # None => Parent[f] \in First(n - 1)
  <2> SUFFICES ASSUME NEW k \in 1..n, Parent[Order[k]] # None
               PROVE  Parent[Order[k]] \in First(n - 1)
    BY DEF First
  <2>1. k \in 1..N /\ Parent[Order[k]] \in First(k - 1)
    BY <1>3, Positions, ParentBefore
  <2> QED
    BY <2>1, <1>3 DEF First
<1>7. ASSUME NEW f \in First(n)
      PROVE  g[f] = IF Parent[f] = None THEN {f} ELSE {f} \cup g[Parent[f]]
  <2>1. Parent[f] # None => g[Parent[f]] = h[Parent[f]]
    BY <1>5, <1>6
  <2>2. CASE f = Order[n]
    BY <2>1, <2>2
  <2>3. CASE f # Order[n]
    BY <1>4, <1>5, <2>1, <2>3 DEF AncestorsOn
  <2> QED
    BY <2>2, <2>3
<1>8. AncestorsOn(n, g)
  <2> HIDE DEF new
  <2> QED
    BY <1>7 DEF AncestorsOn
<1> QED
  BY <1>1, <1>8

LEMMA AncestorsDef ==
    ASSUME NEW f \in Frames
    PROVE  Ancestors[f] = IF f = Main THEN {f} ELSE {f} \cup Ancestors[Parent[f]]
<1>1. First(N) = Frames
  BY Positions DEF First
<1>2. \E h : h = [g \in Frames |-> IF Parent[g] = None THEN {g} ELSE {g} \cup h[Parent[g]]]
  BY <1>1, AncestorsExist DEF AncestorsOn
<1>3. Ancestors = [g \in Frames |-> IF Parent[g] = None THEN {g} ELSE {g} \cup Ancestors[Parent[g]]]
  BY <1>2 DEF Ancestors
<1> QED
  BY <1>3, TreeAssumption

LEMMA OfMain == Ancestors[Main] = {Main} /\ Main \in Frames
BY AncestorsDef, Positions

LEMMA ParentIs ==
    ASSUME NEW f \in Frames, f # Main
    PROVE  Parent[f] \in Frames
BY TreeAssumption

\* What holds of the main frame, and of a frame when it does of its parent, holds of all.
LEMMA Downwards ==
    ASSUME NEW S \in SUBSET Frames, Main \in S,
           \A f \in Frames \ {Main} : Parent[f] \in S => f \in S
    PROVE  S = Frames
<1> DEFINE Bad == {n \in 1..N : Order[n] \notin S}
<1> SUFFICES ASSUME Bad # {} PROVE FALSE
  BY Positions
<1>1. PICK n \in Bad : \A m \in Bad : n <= m
  <2>1. Bad \in SUBSET Nat
    BY Positions
  <2> HIDE DEF Bad
  <2> QED
    BY <2>1, Least
<1>2. Order[n] \in Frames \ {Main}
  BY <1>1, Positions
<1>3. Parent[Order[n]] \in First(n - 1)
  BY <1>1, <1>2, ParentBefore, TreeAssumption
<1>4. PICK k \in 1..(n - 1) : Parent[Order[n]] = Order[k]
  BY <1>3 DEF First
<1>5. k \in 1..N /\ ~(n <= k)
  BY <1>1, <1>4, Positions
<1>6. Parent[Order[n]] \in S
  BY <1>1, <1>4, <1>5
<1> QED
  BY <1>1, <1>2, <1>6

Upward(f) == Ancestors[f] \subseteq Frames /\ f \in Ancestors[f] /\ Main \in Ancestors[f]
LEMMA AncestorsUp == \A f \in Frames : Upward(f)
<1> DEFINE S == {f \in Frames : Upward(f)}
<1>1. Main \in S
  BY AncestorsDef, Positions DEF Upward
<1>2. ASSUME NEW f \in Frames \ {Main}, Parent[f] \in S PROVE f \in S
  BY <1>2, AncestorsDef DEF Upward
<1>3. S = Frames
  <2> HIDE DEF S
  <2>1. S \in SUBSET Frames
    BY DEF S
  <2> QED
    BY <1>1, <1>2, <2>1, Downwards
<1> QED
  BY <1>3

\* An ancestor of an ancestor is one.
LEMMA Transitive ==
    ASSUME NEW f \in Frames, NEW g \in Ancestors[f], NEW h \in Ancestors[g]
    PROVE  h \in Ancestors[f]
<1> DEFINE S == {x \in Frames : \A y \in Ancestors[x] : Ancestors[y] \subseteq Ancestors[x]}
<1>1. Main \in S
  BY OfMain
<1>2. ASSUME NEW x \in Frames \ {Main}, Parent[x] \in S PROVE x \in S
  BY <1>2, AncestorsDef
<1>3. S = Frames
  <2> HIDE DEF S
  <2>1. S \in SUBSET Frames
    BY DEF S
  <2> QED
    BY <1>1, <1>2, <2>1, Downwards
<1> QED
  BY <1>3

\* Of two ancestors of a frame, one is an ancestor of the other.
LEMMA Chain ==
    ASSUME NEW f \in Frames, NEW g \in Ancestors[f], NEW h \in Ancestors[f]
    PROVE  g \in Ancestors[h] \/ h \in Ancestors[g]
<1> DEFINE S == {x \in Frames : \A y, z \in Ancestors[x] : y \in Ancestors[z] \/ z \in Ancestors[y]}
<1>1. Main \in S
  BY OfMain
<1>2. ASSUME NEW x \in Frames \ {Main}, Parent[x] \in S PROVE x \in S
  <2>1. Ancestors[x] = {x} \cup Ancestors[Parent[x]] /\ Parent[x] \in Frames
    BY AncestorsDef, ParentIs
  <2>2. \A y \in Ancestors[x] : y \in Ancestors[x]
    OBVIOUS
  <2> QED
    BY <1>2, <2>1, <2>2
<1>3. S = Frames
  <2> HIDE DEF S
  <2>1. S \in SUBSET Frames
    BY DEF S
  <2> QED
    BY <1>1, <1>2, <2>1, Downwards
<1> QED
  BY <1>3

\* Where a frame is in Order; its ancestors come before it.
At(f) == CHOOSE k \in 1..N : Order[k] = f
LEMMA AtIs == ASSUME NEW f \in Frames PROVE At(f) \in 1..N /\ Order[At(f)] = f
BY Positions DEF At

LEMMA Before ==
    ASSUME NEW f \in Frames, NEW g \in Ancestors[f]
    PROVE  At(g) <= At(f)
<1> DEFINE S == {x \in Frames : \A y \in Ancestors[x] : At(y) <= At(x)}
<1>1. Main \in S
  BY OfMain, AtIs, Positions
<1>2. ASSUME NEW x \in Frames \ {Main}, Parent[x] \in S PROVE x \in S
  <2>1. Ancestors[x] = {x} \cup Ancestors[Parent[x]] /\ Parent[x] \in Frames
    BY AncestorsDef, ParentIs
  <2>2. At(Parent[x]) \in 1..N /\ At(x) \in 1..N
    BY <2>1, AtIs
  <2>3. At(Parent[x]) < At(x)
    <3>1. Parent[Order[At(x)]] = Order[At(Parent[x])] /\ DOMAIN Order = 1..N
      BY <2>1, AtIs, Positions
    <3> QED
      BY <2>2, <3>1, TreeAssumption
  <2>4. ASSUME NEW y \in Ancestors[x] PROVE At(y) <= At(x)
    <3>1. CASE y = x
      BY <2>2, <3>1
    <3>2. CASE y \in Ancestors[Parent[x]]
      <4>1. y \in Frames /\ At(y) \in 1..N
        BY <2>1, <3>2, AncestorsUp, AtIs DEF Upward
      <4>2. At(y) <= At(Parent[x])
        BY <1>2, <3>2
      <4> QED
        BY <2>2, <2>3, <4>1, <4>2
    <3> QED
      BY <2>1, <3>1, <3>2
  <2> QED
    BY <2>4
<1>3. S = Frames
  <2> HIDE DEF S
  <2>1. S \in SUBSET Frames
    BY DEF S
  <2> QED
    BY <1>1, <1>2, <2>1, Downwards
<1> QED
  BY <1>3

\* Two frames are not above each other.
LEMMA Antisymmetric ==
    ASSUME NEW f \in Frames, NEW g \in Ancestors[f], f \in Ancestors[g]
    PROVE  f = g
<1>1. g \in Frames
  BY AncestorsUp DEF Upward
<1>2. At(g) <= At(f) /\ At(f) <= At(g) /\ At(f) \in 1..N /\ At(g) \in 1..N
  BY <1>1, Before, AtIs
<1>3. At(f) = At(g)
  BY <1>2, Positions
<1> QED
  BY <1>1, <1>3, AtIs

\* The nearest frame of S above f: S has none, or it is below the others.
IsNearest(S, f, a) == a \in S \cap Ancestors[f] /\ \A b \in S \cap Ancestors[f] : b \in Ancestors[a]
LEMMA NearestIs ==
    ASSUME NEW S, NEW f \in Frames
    PROVE  /\ S \cap Ancestors[f] = {} => Nearest(S, f) = None
           /\ S \cap Ancestors[f] # {} => IsNearest(S, f, Nearest(S, f))
<1>1. S \cap Ancestors[f] = {} => Nearest(S, f) = None
  BY DEF Nearest
<1>2. ASSUME S \cap Ancestors[f] # {} PROVE IsNearest(S, f, Nearest(S, f))
  <2> DEFINE up == S \cap Ancestors[f]
             T == {N - At(a) : a \in up}
  <2>1. up \subseteq Frames /\ up # {}
    BY <1>2, AncestorsUp DEF Upward
  <2>2. T \in SUBSET Nat /\ T # {}
    BY <2>1, AtIs, Positions
  <2>3. PICK n \in T : \A m \in T : n <= m
    BY <2>2, Least
  <2>4. PICK a \in up : n = N - At(a)
    BY <2>3
  <2>5. ASSUME NEW b \in up PROVE b \in Ancestors[a]
    <3>1. N - At(a) <= N - At(b) /\ At(a) \in 1..N /\ At(b) \in 1..N /\ N \in Nat
      BY <2>1, <2>3, <2>4, AtIs, Positions
    <3>2. At(b) <= At(a)
      BY ONLY <3>1
    <3>3. CASE b \in Ancestors[a]
      BY <3>3
    <3>4. CASE a \in Ancestors[b]
      <4>1. At(a) <= At(b)
        BY <2>1, <3>4, Before
      <4>2. At(a) = At(b)
        BY ONLY <3>1, <3>2, <4>1
      <4>3. a = b
        BY <2>1, <4>2, AtIs
      <4> QED
        BY <3>4, <4>3
    <3> QED
      BY <3>3, <3>4, Chain
  <2> QED
    BY <1>2, <2>4, <2>5 DEF Nearest, IsNearest
<1> QED
  BY <1>1, <1>2
--------------------------------------------------------------------------------
\* Sequences.
LEMMA ToSetAppend ==
    ASSUME NEW S, NEW q \in Seq(S), NEW e \in S
    PROVE  Append(q, e) \in Seq(S) /\ ToSet(Append(q, e)) = ToSet(q) \cup {e}
<1>1. /\ Append(q, e) \in Seq(S) /\ Len(Append(q, e)) = Len(q) + 1 /\ Append(q, e)[Len(q) + 1] = e
      /\ \A i \in 1..Len(q) : Append(q, e)[i] = q[i]
  BY AppendProperties
<1>2. Len(q) \in Nat /\ DOMAIN q = 1..Len(q) /\ DOMAIN Append(q, e) = 1..(Len(q) + 1)
  BY <1>1, LenProperties
<1>3. 1..(Len(q) + 1) = 1..Len(q) \cup {Len(q) + 1}
  BY <1>2
<1> QED
  BY <1>1, <1>2, <1>3 DEF ToSet

LEMMA ToSetTail ==
    ASSUME NEW S, NEW q \in Seq(S), q # <<>>
    PROVE  /\ Head(q) \in S /\ Tail(q) \in Seq(S) /\ Len(q) \in Nat \ {0} /\ Len(Tail(q)) = Len(q) - 1
           /\ Tail(q) = <<>> <=> Len(q) = 1
           /\ ToSet(q) = {Head(q)} \cup ToSet(Tail(q))
<1> DEFINE n == Len(q)
<1>1. n \in Nat \ {0} /\ DOMAIN q = 1..n /\ \A i \in 1..n : q[i] \in S
  BY LenProperties, EmptySeq, ElementOfSeq
<1>2. /\ Head(q) = q[1] /\ Tail(q) \in Seq(S) /\ Len(Tail(q)) = n - 1
      /\ \A i \in 1..(n - 1) : Tail(q)[i] = q[i + 1]
  BY HeadTailProperties
<1>3. DOMAIN Tail(q) = 1..(n - 1)
  BY <1>2, LenProperties
<1>4. 1..n = {1} \cup {i + 1 : i \in 1..(n - 1)}
  <2> HIDE DEF n
  <2> SUFFICES ASSUME NEW k
               PROVE  k \in 1..n <=> k = 1 \/ \E i \in 1..(n - 1) : k = i + 1
    OBVIOUS
  <2>1. k \in 1..n => k = 1 \/ (k - 1 \in 1..(n - 1) /\ k = (k - 1) + 1)
    BY <1>1
  <2>2. ASSUME NEW i \in 1..(n - 1) PROVE i + 1 \in 1..n
    BY <1>1
  <2> QED
    BY <1>1, <2>1, <2>2
<1>5. ToSet(q) = {q[1]} \cup {q[i + 1] : i \in 1..(n - 1)}
  <2> HIDE DEF n
  <2>1. ToSet(q) = {q[i] : i \in 1..n}
    BY <1>1 DEF ToSet
  <2> QED
    BY <1>4, <2>1
<1>6. ToSet(Tail(q)) = {q[i + 1] : i \in 1..(n - 1)}
  BY <1>2, <1>3 DEF ToSet
<1>7. Tail(q) = <<>> <=> n = 1
  <2>1. Tail(q) = <<>> <=> Len(Tail(q)) = 0
    BY <1>2, EmptySeq, LenProperties
  <2> HIDE DEF n
  <2> QED
    BY <1>1, <1>2, <2>1
<1> QED
  BY <1>1, <1>2, <1>5, <1>6, <1>7

LEMMA TypedTasks ==
    ASSUME NEW q \in Seq(Tasks)
    PROVE  ToSet(q) \subseteq Tasks
BY LenProperties, ElementOfSeq DEF ToSet

--------------------------------------------------------------------------------
\* A completion.  r is s after an answer to the round of i that leaves the frames of left:
\* if there is none, the round is closed and something that is right is told.
Ends(s, r, i, left) ==
    /\ r \in States /\ r.runs = s.runs
    /\ \A f \in Frames \ {i} : r.round[f] = s.round[f]
    /\ r.round[i].replies = left
    /\ r.round[i].waiting <=> left # {}
    /\ r.round[i].timer <=> s.round[i].timer /\ left # {}
    /\ r.round[i].clean = s.round[i].clean /\ r.round[i].orphaned = s.round[i].orphaned
    /\ r.round[i].closing = s.round[i].closing
    /\ r.round[i].forNavigation = s.round[i].forNavigation
    /\ \E t \in Told : /\ Right(t) /\ r.outcome \in {s.outcome, t}
                       /\ ToSet(r.tasks) \in {ToSet(s.tasks), ToSet(s.tasks) \cup {t}}

\* left holds everybody below i who still has something to answer, unless the answer is
\* final or negative.
Heeds(s, i, proceed, final, left) ==
    /\ left \in SUBSET Frames
    /\ s.round[i].clean /\ (left # {} \/ (proceed /\ ~final)) => Asks(s, i) \subseteq left

LEMMA Completed ==
    ASSUME NEW s, Sound(s), NEW i \in Open(s),
           NEW proceed \in BOOLEAN, NEW final \in BOOLEAN, NEW destroyed \in BOOLEAN,
           NEW left, Heeds(s, i, proceed, final, left)
    PROVE  Ends(s, CompletedWithLeft(s, i, proceed, final, destroyed, left), i, left)
<1> DEFINE r == CompletedWithLeft(s, i, proceed, final, destroyed, left)
           rd == s.round[i]
           t == [kind |-> "told", frame |-> i, proceed |-> proceed,
                 forNavigation |-> rd.forNavigation, closing |-> rd.closing,
                 unheard |-> IF rd.clean /\ proceed /\ ~final
                             THEN {g \in Subtree(i) : s.runs[g] # <<>>} ELSE {}]
           closed == [rd EXCEPT !.waiting = FALSE, !.shown = FALSE, !.timer = FALSE,
                                !.replies = {}]
<1>1. /\ i \in Frames /\ s \in States /\ rd \in Rounds /\ rd.waiting
      /\ s.round \in [Frames -> Rounds] /\ s.runs \in [Frames -> Seq({"run", "no"})]
      /\ s.tasks \in Seq(Tasks) /\ s.outcome \in Told \cup {[kind |-> "none"]}
      /\ left \in SUBSET Frames
  BY DEF Open, Sound, States, Heeds
<1>2. t \in Told
  <2>1. Subtree(i) \subseteq Frames
    BY DEF Subtree
  <2> QED
    BY <1>1, <2>1 DEF Told, Rounds
<1>3. CASE left # {}
  <2>1. r = [s EXCEPT !.round = [s.round EXCEPT ![i] = [rd EXCEPT !.replies = left]]]
    BY <1>1, <1>3 DEF CompletedWithLeft, States
  <2>2. [rd EXCEPT !.replies = left] \in Rounds
    BY <1>1 DEF Rounds
  <2>3. /\ r \in States /\ r.runs = s.runs /\ r.tasks = s.tasks /\ r.outcome = s.outcome
        /\ r.round = [s.round EXCEPT ![i] = [rd EXCEPT !.replies = left]]
    <3> HIDE DEF rd
    <3> QED
      BY <1>1, <2>1, <2>2 DEF States
  <2>4. /\ \A f \in Frames \ {i} : r.round[f] = s.round[f]
        /\ r.round[i] = [rd EXCEPT !.replies = left]
    BY <1>1, <2>3
  <2>5. \E u \in Told : Right(u)
    <3>1. [t EXCEPT !.unheard = {}, !.closing = FALSE] \in Told
      BY <1>2 DEF Told
    <3> QED
      BY <3>1, <1>2 DEF Right, Told
  <2> QED
    BY <1>1, <1>3, <2>3, <2>4, <2>5 DEF Ends, Rounds
<1>4. CASE left = {}
  <2>1. r = [s EXCEPT !.round = [s.round EXCEPT ![i] = closed],
                      !.tasks = IF destroyed THEN Append(s.tasks, t) ELSE s.tasks,
                      !.outcome = IF destroyed THEN s.outcome ELSE t]
    BY <1>1, <1>4 DEF CompletedWithLeft, States
  <2>2. closed \in Rounds
    BY <1>1 DEF Rounds
  <2>3. /\ Append(s.tasks, t) \in Seq(Tasks)
        /\ ToSet(Append(s.tasks, t)) = ToSet(s.tasks) \cup {t}
    <3>1. t \in Tasks
      BY <1>2 DEF Tasks
    <3> HIDE DEF t
    <3> QED
      BY <1>1, <3>1, ToSetAppend
  <2>4. /\ r \in States /\ r.runs = s.runs
        /\ r.tasks = IF destroyed THEN Append(s.tasks, t) ELSE s.tasks
        /\ r.outcome = IF destroyed THEN s.outcome ELSE t
        /\ r.round = [s.round EXCEPT ![i] = closed]
    <3> HIDE DEF closed, t, rd, r
    <3> QED
      BY <1>1, <1>2, <2>1, <2>2, <2>3 DEF States
  <2>5. /\ \A f \in Frames \ {i} : r.round[f] = s.round[f]
        /\ r.round[i] = closed
    <3> HIDE DEF closed, r
    <3> QED
      BY <1>1, <2>4
  <2>6. Right(t)
    <3>1. t.unheard = {}
      BY <1>4 DEF Heeds, Asks
    <3>2. ~(rd.closing /\ rd.forNavigation)
      BY <1>1 DEF Sound, OneClient
    <3> QED
      BY <3>1, <3>2 DEF Right
  <2>7. r.outcome \in {s.outcome, t} /\ ToSet(r.tasks) \in {ToSet(s.tasks), ToSet(s.tasks) \cup {t}}
    <3> HIDE DEF t, r
    <3> QED
      BY <2>3, <2>4
  <2>8. /\ closed.waiting = FALSE /\ closed.timer = FALSE /\ closed.replies = {}
        /\ closed.clean = rd.clean /\ closed.orphaned = rd.orphaned
        /\ closed.closing = rd.closing /\ closed.forNavigation = rd.forNavigation
    BY <1>1 DEF Rounds
  <2> HIDE DEF t, r, closed, rd
  <2>9. \E u \in Told : /\ Right(u) /\ r.outcome \in {s.outcome, u}
                        /\ ToSet(r.tasks) \in {ToSet(s.tasks), ToSet(s.tasks) \cup {u}}
    BY <1>2, <2>6, <2>7
  <2>10. /\ r.round[i].replies = left /\ r.round[i].waiting = FALSE /\ r.round[i].timer = FALSE
         /\ r.round[i].clean = s.round[i].clean /\ r.round[i].orphaned = s.round[i].orphaned
         /\ r.round[i].closing = s.round[i].closing
         /\ r.round[i].forNavigation = s.round[i].forNavigation
    BY <1>4, <2>5, <2>8 DEF rd
  <2> QED
    BY <1>4, <2>4, <2>5, <2>9, <2>10 DEF Ends, r
<1> QED
  BY <1>3, <1>4

\* r is sound, and a round that is still open has kept what will end it.
KeptAt(s, r, f) ==
    /\ s.round[f].timer => r.round[f].timer
    /\ s.round[f].orphaned => r.round[f].orphaned
    /\ f \in Finals(s) => f \in Finals(r)
Kept(s, r) ==
    Sound(r) /\ Open(r) \subseteq Open(s) /\ \A f \in Open(r) : KeptAt(s, r, f)

LEMMA KeptKept ==
    ASSUME NEW s, NEW r, NEW q, Kept(s, r), Kept(r, q)
    PROVE  Kept(s, q)
<1>1. Sound(q) /\ Open(q) \subseteq Open(s) /\ Open(q) \subseteq Open(r)
  BY DEF Kept
<1>2. ASSUME NEW f \in Open(q) PROVE KeptAt(s, q, f)
  <2>1. f \in Open(r)
    BY <1>1
  <2>2. KeptAt(s, r, f) /\ KeptAt(r, q, f)
    BY <2>1 DEF Kept
  <2> QED
    BY <2>2, Zenon DEF KeptAt
<1> QED
  BY <1>1, <1>2 DEF Kept

LEMMA KeptCovered ==
    ASSUME NEW D, NEW s, NEW r, Kept(s, r), AllCovered(s, D)
    PROVE  AllCovered(r, D)
<1> SUFFICES ASSUME NEW f \in Open(r) PROVE Covered(r, f, D)
  BY Zenon DEF AllCovered
<1>1. f \in Open(s)
  BY DEF Kept
<1>2. Covered(s, f, D)
  BY <1>1 DEF AllCovered
<1>3. KeptAt(s, r, f)
  BY DEF Kept
<1> QED
  BY <1>2, <1>3, Zenon DEF KeptAt, Covered

LEMMA EndsKept ==
    ASSUME NEW s, Sound(s), NEW i \in Open(s), NEW left, NEW r, Ends(s, r, i, left),
           s.round[i].clean /\ left # {} => Asks(s, i) \subseteq left
    PROVE  Kept(s, r) /\ (left = {} => i \notin Open(r))
<1>1. i \in Frames /\ s \in States /\ r \in States /\ s.round[i].waiting
  BY DEF Open, Sound, Ends
<1>2. PICK t \in Told : /\ Right(t) /\ r.outcome \in {s.outcome, t}
                        /\ ToSet(r.tasks) \in {ToSet(s.tasks), ToSet(s.tasks) \cup {t}}
  BY DEF Ends
<1>3. t.kind = "told"
  BY DEF Told
<1>4. Open(r) = IF left = {} THEN Open(s) \ {i} ELSE Open(s)
  BY <1>1 DEF Ends, Open
<1>5. TellsRight(r)
  BY <1>2 DEF Sound, TellsRight
<1>6. OneClient(r)
  BY <1>1 DEF Sound, OneClient, Ends
<1>7. CleanHears(r)
  <2> SUFFICES ASSUME NEW f \in Frames, r.round[f].waiting, r.round[f].clean PROVE Hears(r, f)
    BY DEF CleanHears
  <2>1. s.round[f].waiting /\ s.round[f].clean /\ (f = i => left # {})
    BY <1>1 DEF Ends
  <2>2. Hears(s, f)
    BY <2>1 DEF Sound, CleanHears
  <2>3. Asks(r, f) = Asks(s, f) /\ r.runs = s.runs
    BY DEF Asks, Ends
  <2>4. Asks(r, f) \subseteq r.round[f].replies
    BY <2>1, <2>2, <2>3 DEF Hears, Ends
  <2>5. \A g \in Related(f) : ~r.round[g].waiting
    <3>1. Related(f) \subseteq Frames
      BY AncestorsUp DEF Related, Subtree, Upward
    <3> QED
      BY <1>1, <2>2, <3>1 DEF Hears, Ends
  <2>6. \A u \in ToSet(r.tasks) : u.kind = "legacy" => u \in ToSet(s.tasks)
    BY <1>2, <1>3
  <2> QED
    BY <2>2, <2>3, <2>4, <2>5, <2>6 DEF Hears
<1>8. Finals(s) \subseteq Finals(r)
  BY <1>2 DEF Finals
<1>9. \A f \in Open(r) : /\ s.round[f].timer => r.round[f].timer
                         /\ s.round[f].orphaned => r.round[f].orphaned
  BY <1>1, <1>4 DEF Ends, Open
<1>10. Sound(r)
  BY <1>1, <1>5, <1>6, <1>7 DEF Sound
<1>11. \A f \in Open(r) : KeptAt(s, r, f)
  BY <1>8, <1>9 DEF KeptAt
<1> QED
  BY <1>4, <1>10, <1>11 DEF Kept

\* r is s but for rounds that were closed or are no longer clean, requests that were
\* dropped, and tasks that were taken or that answer nothing.
CalmRound(old, new) ==
    /\ new.waiting => old.waiting /\ (new.clean => old.clean) /\ new.replies = old.replies
    /\ new.timer => new.waiting
    /\ ~(new.closing /\ new.forNavigation)
CalmRuns(old, new) ==
    /\ old = <<>> => new = <<>>
    /\ Len(old) = 1 => new = <<>> \/ Len(new) = 1
Calmer(s, r) ==
    /\ r \in States /\ Right(r.outcome)
    /\ \A f \in Frames : CalmRound(s.round[f], r.round[f]) /\ CalmRuns(s.runs[f], r.runs[f])
    /\ \A t \in ToSet(r.tasks) : t \in ToSet(s.tasks) \/ (Right(t) /\ t.kind # "legacy")

LEMMA SameIsCalm ==
    ASSUME NEW s, Sound(s), NEW f \in Frames
    PROVE  CalmRound(s.round[f], s.round[f]) /\ CalmRuns(s.runs[f], s.runs[f])
BY DEF Sound, OneClient, CalmRound, CalmRuns

LEMMA CalmerSound ==
    ASSUME NEW s, Sound(s), NEW r, Calmer(s, r)
    PROVE  Sound(r) /\ Open(r) \subseteq Open(s)
<1>1. /\ s \in States /\ r \in States
      /\ \A f \in Frames : CalmRound(s.round[f], r.round[f]) /\ CalmRuns(s.runs[f], r.runs[f])
  BY DEF Sound, Calmer
<1>2. Open(r) \subseteq Open(s)
  BY <1>1 DEF CalmRound, Open
<1>3. TellsRight(r)
  <2>1. \A t \in ToSet(s.tasks) : Right(t)
    BY DEF Sound, TellsRight
  <2> QED
    BY <2>1 DEF TellsRight, Calmer
<1>4. OneClient(r)
  BY <1>1 DEF OneClient, CalmRound
<1>5. CleanHears(r)
  <2> SUFFICES ASSUME NEW f \in Open(r), r.round[f].clean PROVE Hears(r, f)
    BY DEF CleanHears, Open
  <2>1. f \in Frames /\ s.round[f].waiting /\ s.round[f].clean /\ r.round[f].replies = s.round[f].replies
    BY <1>1 DEF CalmRound, Open
  <2>2. Hears(s, f)
    BY <2>1 DEF Sound, CleanHears
  <2>3. ASSUME NEW g \in Asks(r, f) PROVE g \in Asks(s, f) /\ Len(r.runs[g]) = 1
    <3>1. g \in Frames /\ g \in Subtree(f) /\ r.runs[g] # <<>>
      BY DEF Asks, Subtree
    <3>2. s.runs[g] # <<>>
      BY <1>1, <3>1 DEF CalmRuns
    <3>3. g \in Asks(s, f)
      BY <3>1, <3>2 DEF Asks
    <3>4. Len(s.runs[g]) = 1
      BY <2>2, <3>3 DEF Hears
    <3> QED
      BY <1>1, <3>1, <3>3, <3>4 DEF CalmRuns
  <2>4. \A g \in Related(f) : ~r.round[g].waiting
    <3>1. Related(f) \subseteq Frames
      BY <2>1, AncestorsUp DEF Related, Subtree, Upward
    <3>2. ASSUME NEW g \in Related(f) PROVE ~r.round[g].waiting
      <4>1. ~s.round[g].waiting /\ CalmRound(s.round[g], r.round[g])
        BY <1>1, <2>2, <3>1 DEF Hears
      <4> QED
        BY <4>1 DEF CalmRound
    <3> QED
      BY <3>2
  <2>5. \A t \in ToSet(r.tasks) : t.kind = "legacy" => t \in ToSet(s.tasks)
    BY DEF Calmer
  <2>6. Asks(r, f) \subseteq Asks(s, f)
    BY <2>3
  <2>7. \A t \in ToSet(r.tasks) : t.kind = "legacy" /\ t.frame \in Subtree(f)
           => t.frame = f /\ Asks(r, f) = {}
    BY <2>2, <2>5, <2>6 DEF Hears
  <2>8. Asks(r, f) \subseteq r.round[f].replies
    BY <2>1, <2>2, <2>6 DEF Hears
  <2> QED
    BY <2>3, <2>4, <2>7, <2>8 DEF Hears
<1> QED
  BY <1>1, <1>2, <1>3, <1>4, <1>5 DEF Sound

LEMMA CalmerKept ==
    ASSUME NEW s, Sound(s), NEW r, Calmer(s, r), ToSet(s.tasks) \subseteq ToSet(r.tasks),
           \A f \in Open(r) : /\ r.round[f].timer = s.round[f].timer
                              /\ r.round[f].orphaned = s.round[f].orphaned
    PROVE  Kept(s, r)
<1>1. Sound(r) /\ Open(r) \subseteq Open(s)
  BY CalmerSound
<1>2. Finals(s) \subseteq Finals(r)
  BY DEF Finals
<1>3. \A f \in Open(r) : KeptAt(s, r, f)
  BY <1>2 DEF KeptAt
<1> QED
  BY <1>1, <1>3 DEF Kept

--------------------------------------------------------------------------------
\* The initiator of f is the nearest open round above it.
LEMMA InitiatorIs ==
    ASSUME NEW s, NEW f \in Frames
    PROVE  LET i == GetBeforeUnloadInitiator(s, f)
           IN /\ i = None => Open(s) \cap Ancestors[f] = {}
              /\ i # None => IsNearest(Open(s), f, i) /\ i \in Open(s) /\ f \in Subtree(i)
              /\ f \in Open(s) => i = f
<1> DEFINE i == GetBeforeUnloadInitiator(s, f)
<1>1. i = Nearest(Open(s), f)
  BY DEF GetBeforeUnloadInitiator, Open
<1>2. i = None => Open(s) \cap Ancestors[f] = {}
  <2>1. Open(s) \cap Ancestors[f] \subseteq Frames /\ None \notin Frames
    BY TreeAssumption DEF Open
  <2> HIDE DEF i
  <2> QED
    BY <1>1, <2>1, NearestIs DEF IsNearest
<1>3. i # None => IsNearest(Open(s), f, i) /\ i \in Open(s) /\ f \in Subtree(i)
  BY <1>1, NearestIs DEF IsNearest, Subtree
<1>4. f \in Open(s) => i = f
  <2> SUFFICES ASSUME f \in Open(s) PROVE i = f
    OBVIOUS
  <2>1. f \in Ancestors[f]
    BY AncestorsUp DEF Upward
  <2>2. i # None
    BY <1>2, <2>1
  <2>3. i \in Ancestors[f] /\ f \in Ancestors[i]
    BY <1>3, <2>1, <2>2 DEF IsNearest
  <2> QED
    BY <2>3, Antisymmetric
<1> QED
  BY <1>2, <1>3, <1>4

\* No clean round has f to hear from.
Silent(s, f) == \A j \in Open(s) : s.round[j].clean /\ f \in Subtree(j) => s.runs[f] = <<>>

LEMMA Answered ==
    ASSUME NEW s, Sound(s), NEW f \in Frames, NEW i \in Open(s), f \in Subtree(i),
           NEW proceed \in BOOLEAN, NEW final \in BOOLEAN, NEW destroyed \in BOOLEAN,
           final \/ Silent(s, f)
    PROVE  LET r == ProcessBeforeUnloadCompletedFromFrame(s, i, f, proceed, final, destroyed)
           IN Kept(s, r) /\ (final => i \notin Open(r))
<1> DEFINE left == IF ~proceed \/ final THEN {} ELSE s.round[i].replies \ {f}
           r == CompletedWithLeft(s, i, proceed, final, destroyed, left)
<1>1. i \in Frames /\ s.round[i] \in Rounds
  BY DEF Open, Sound, States
<1>2. s.round[i].clean /\ proceed /\ ~final => Asks(s, i) \subseteq left
  <2> SUFFICES ASSUME s.round[i].clean, proceed, ~final PROVE Asks(s, i) \subseteq left
    OBVIOUS
  <2>1. Asks(s, i) \subseteq s.round[i].replies
    BY <1>1 DEF Sound, CleanHears, Hears, Open
  <2>2. s.runs[f] = <<>>
    BY DEF Silent
  <2>3. f \notin Asks(s, i)
    BY <2>2 DEF Asks
  <2> QED
    BY <2>1, <2>3
<1>3. left \in SUBSET Frames /\ (left # {} => proceed /\ ~final)
  BY <1>1 DEF Rounds
<1> HIDE DEF left
<1>4. Heeds(s, i, proceed, final, left)
  BY <1>2, <1>3 DEF Heeds
<1>5. Ends(s, r, i, left)
  BY <1>4, Completed
<1>6. Kept(s, r) /\ (left = {} => i \notin Open(r))
  <2> HIDE DEF r
  <2> QED
    BY <1>2, <1>3, <1>5, EndsKept
<1>7. final => left = {}
  BY <1>3
<1> QED
  BY <1>6, <1>7 DEF ProcessBeforeUnloadCompletedFromFrame, left

LEMMA AnswerKept ==
    ASSUME NEW s, Sound(s), NEW f \in Frames, NEW proceed \in BOOLEAN, NEW final \in BOOLEAN,
           final \/ Silent(s, f)
    PROVE  LET r == ProcessBeforeUnloadCompleted(s, f, proceed, final)
           IN Kept(s, r) /\ (final => f \notin Open(r))
<1> DEFINE i == GetBeforeUnloadInitiator(s, f)
           r == ProcessBeforeUnloadCompletedFromFrame(s, i, f, proceed, final, FALSE)
<1>1. CASE i = None
  <2>1. f \notin Open(s)
    BY <1>1, InitiatorIs, AncestorsUp DEF Upward
  <2>2. Kept(s, s)
    BY DEF Kept, KeptAt
  <2> QED
    BY <1>1, <2>1, <2>2 DEF ProcessBeforeUnloadCompleted
<1>2. CASE i # None
  <2>1. i \in Open(s) /\ f \in Subtree(i) /\ (f \in Open(s) => i = f)
    BY <1>2, InitiatorIs
  <2>2. Kept(s, r) /\ (final => i \notin Open(r))
    <3> HIDE DEF i
    <3> QED
      BY <2>1, Answered
  <2>3. Kept(s, r) /\ (final => f \notin Open(r))
    BY <2>1, <2>2 DEF Kept
  <2> QED
    BY <1>2, <2>3 DEF ProcessBeforeUnloadCompleted
<1> QED
  BY <1>1, <1>2

--------------------------------------------------------------------------------
\* A host goes away.
LEMMA DestroyedKept ==
    ASSUME NEW s, Sound(s), NEW f \in Frames
    PROVE  Kept(s, Destroyed(s, f)) /\ f \notin Open(Destroyed(s, f))
<1> DEFINE i == GetBeforeUnloadInitiator(s, f)
           silent == [s EXCEPT !.runs[f] = <<>>]
           told == IF i \in {None, f} THEN silent
                   ELSE ProcessBeforeUnloadCompletedFromFrame(silent, i, f, TRUE, FALSE, TRUE)
           r == [told EXCEPT !.round[f] = Idle]
<1>1. Destroyed(s, f) = r
  BY DEF Destroyed
<1>2. s \in States
  BY DEF Sound
<1>3. /\ silent \in States /\ silent.runs = [s.runs EXCEPT ![f] = <<>>]
      /\ silent.round = s.round /\ silent.tasks = s.tasks /\ silent.outcome = s.outcome
  <2>1. <<>> \in Seq({"run", "no"})
    BY EmptySeq
  <2> QED
    BY <1>2, <2>1 DEF States
<1>4. Calmer(s, silent)
  <2> HIDE DEF silent
  <2>1. Right(s.outcome)
    BY DEF Sound, TellsRight
  <2>2. ASSUME NEW g \in Frames
        PROVE  CalmRound(s.round[g], silent.round[g]) /\ CalmRuns(s.runs[g], silent.runs[g])
    <3>1. silent.runs[g] \in {<<>>, s.runs[g]} /\ silent.round[g] = s.round[g]
      BY <1>2, <1>3 DEF States
    <3> QED
      BY <3>1, SameIsCalm DEF CalmRuns
  <2> QED
    BY <1>3, <2>1, <2>2 DEF Calmer
<1>5. Kept(s, silent) /\ Sound(silent) /\ Open(silent) = Open(s)
  <2>1. Open(silent) = Open(s)
    BY <1>3 DEF Open
  <2> HIDE DEF silent
  <2> QED
    BY <1>3, <1>4, <2>1, CalmerKept, CalmerSound
<1>6. Silent(silent, f)
  BY <1>2, <1>3 DEF Silent, States
<1>7. Kept(silent, told)
  <2>1. CASE i \in {None, f}
    BY <1>5, <2>1 DEF Kept, KeptAt
  <2>2. CASE i \notin {None, f}
    <3>1. i \in Open(silent) /\ f \in Subtree(i)
      BY <1>5, <2>2, InitiatorIs
    <3> HIDE DEF silent, i
    <3>2. Kept(silent, ProcessBeforeUnloadCompletedFromFrame(silent, i, f, TRUE, FALSE, TRUE))
      BY <1>5, <1>6, <3>1, Answered
    <3> QED
      BY <2>2, <3>2
  <2> QED
    BY <2>1, <2>2
<1> HIDE DEF told
<1>8. told \in States /\ Sound(told)
  BY <1>7 DEF Kept, Sound
<1>9. /\ r \in States /\ r.round = [told.round EXCEPT ![f] = Idle]
      /\ r.runs = told.runs /\ r.tasks = told.tasks /\ r.outcome = told.outcome
  <2>1. Idle \in Rounds
    BY DEF Idle, Rounds
  <2> QED
    BY <1>8, <2>1 DEF States
<1>10. /\ Calmer(told, r) /\ f \notin Open(r)
       /\ \A g \in Open(r) : r.round[g] = told.round[g]
  <2>1. ~Idle.waiting /\ ~Idle.timer /\ ~Idle.closing
    BY DEF Idle
  <2> HIDE DEF r
  <2>2. Right(told.outcome)
    BY <1>8 DEF Sound, TellsRight
  <2>3. ASSUME NEW g \in Frames
        PROVE  CalmRound(told.round[g], r.round[g]) /\ CalmRuns(told.runs[g], r.runs[g])
    <3>1. r.round[g] \in {Idle, told.round[g]}
      BY <1>8, <1>9 DEF States
    <3> QED
      BY <1>8, <1>9, <2>1, <3>1, SameIsCalm DEF CalmRound
  <2>4. f \notin Open(r) /\ \A g \in Open(r) : r.round[g] = told.round[g]
    BY <1>8, <1>9, <2>1 DEF States, Open
  <2> QED
    BY <1>9, <2>2, <2>3, <2>4 DEF Calmer
<1>11. Kept(told, r)
  <2> HIDE DEF r
  <2> QED
    BY <1>8, <1>9, <1>10, CalmerKept
<1> QED
  <2> HIDE DEF r, silent
  <2>1. Kept(s, told)
    BY <1>5, <1>7, KeptKept
  <2> QED
    BY <1>1, <1>10, <1>11, <2>1, KeptKept

\* The hosts of S go away one after the other, last in Order first.
RemovalOf(s, S, n, h) ==
    h = [k \in 0..n |->
            IF k = 0 THEN s
            ELSE IF Order[N + 1 - k] \in S THEN Destroyed(h[k - 1], Order[N + 1 - k])
            ELSE h[k - 1]]

LEMMA RemovalExists == ASSUME NEW s, NEW S PROVE \E h : RemovalOf(s, S, N, h)
<1> DEFINE Bad == {n \in 0..N : ~\E h : RemovalOf(s, S, n, h)}
<1> SUFFICES ASSUME Bad # {} PROVE FALSE
  <2>1. N \in 0..N
    BY Positions
  <2> QED
    BY <2>1
<1>1. PICK n \in Bad : \A m \in Bad : n <= m
  <2>1. Bad \in SUBSET Nat
    BY Positions
  <2> HIDE DEF Bad
  <2> QED
    BY <2>1, Least
<1>2. n # 0
  <2>1. RemovalOf(s, S, 0, [k \in 0..0 |-> s])
    BY DEF RemovalOf
  <2> QED
    BY <1>1, <2>1
<1>3. n \in 1..N /\ n - 1 \in 0..N /\ ~(n <= n - 1)
  BY <1>1, <1>2, Positions
<1>4. PICK h : RemovalOf(s, S, n - 1, h)
  BY <1>1, <1>3
<1> DEFINE new == IF Order[N + 1 - n] \in S THEN Destroyed(h[n - 1], Order[N + 1 - n]) ELSE h[n - 1]
           g == [k \in 0..n |-> IF k = n THEN new ELSE h[k]]
<1>5. /\ 0..n = 0..(n - 1) \cup {n} /\ n \notin 0..(n - 1)
      /\ \A k \in 0..n : k # 0 => k - 1 \in 0..(n - 1)
  BY <1>3, Positions
<1>6. ASSUME NEW k \in 0..n
      PROVE  g[k] = IF k = 0 THEN s
                    ELSE IF Order[N + 1 - k] \in S THEN Destroyed(g[k - 1], Order[N + 1 - k])
                    ELSE g[k - 1]
  <2>1. k # 0 => g[k - 1] = h[k - 1]
    BY <1>5
  <2>2. CASE k = n
    <3>1. g[k] = new /\ k # 0
      BY <2>2, <1>3
    <3> HIDE DEF g
    <3> QED
      BY <2>1, <2>2, <3>1
  <2>3. CASE k # n
    <3>1. g[k] = h[k] /\ k \in 0..(n - 1)
      BY <1>5, <2>3
    <3>2. h[k] = IF k = 0 THEN s
                 ELSE IF Order[N + 1 - k] \in S THEN Destroyed(h[k - 1], Order[N + 1 - k])
                 ELSE h[k - 1]
      BY <1>4, <3>1 DEF RemovalOf
    <3> HIDE DEF g
    <3> QED
      BY <2>1, <3>1, <3>2
  <2> QED
    BY <2>2, <2>3
<1>7. RemovalOf(s, S, n, g)
  <2> HIDE DEF new
  <2> QED
    BY <1>6 DEF RemovalOf
<1> QED
  BY <1>1, <1>7

LEMMA RemovalIs ==
    ASSUME NEW s, NEW S
    PROVE  \E h : RemovalOf(s, S, N, h) /\ RemoveHosts(s, S) = h[N]
<1> DEFINE h == CHOOSE g : RemovalOf(s, S, N, g)
<1>1. RemovalOf(s, S, N, h)
  BY RemovalExists
<1>2. RemoveHosts(s, S) = h[N]
  BY DEF RemoveHosts, RemovalOf, N
<1> QED
  BY <1>1, <1>2

LEMMA RemovedKept ==
    ASSUME NEW s, Sound(s), NEW S
    PROVE  Kept(s, RemoveHosts(s, S)) /\ Open(RemoveHosts(s, S)) \cap S = {}
<1>1. PICK h : RemovalOf(s, S, N, h) /\ RemoveHosts(s, S) = h[N]
  BY RemovalIs
<1> DEFINE Gone(k) == \A j \in 1..k : Order[N + 1 - j] \in S => Order[N + 1 - j] \notin Open(h[k])
           Bad == {n \in 0..N : ~(Kept(s, h[n]) /\ Gone(n))}
<1>2. h[0] = s
  BY <1>1, Positions DEF RemovalOf
<1>3. Bad = {}
  <2> SUFFICES ASSUME Bad # {} PROVE FALSE
    OBVIOUS
  <2>1. PICK n \in Bad : \A m \in Bad : n <= m
    <3>1. Bad \in SUBSET Nat
      BY Positions
    <3> HIDE DEF Bad
    <3> QED
      BY <3>1, Least
  <2>2. n # 0
    <3>1. Kept(s, h[0])
      BY <1>2 DEF Kept, KeptAt
    <3>2. Gone(0)
      OBVIOUS
    <3> HIDE DEF Gone
    <3> QED
      BY <2>1, <3>1, <3>2
  <2>3. n \in 1..N /\ n - 1 \in 0..N /\ ~(n <= n - 1) /\ N + 1 - n \in 1..N
    BY <2>1, <2>2, Positions
  <2>4. Kept(s, h[n - 1]) /\ Gone(n - 1)
    <3> HIDE DEF Gone
    <3> QED
      BY <2>1, <2>3
  <2> DEFINE f == Order[N + 1 - n]
  <2>5. f \in Frames /\ h[n] = IF f \in S THEN Destroyed(h[n - 1], f) ELSE h[n - 1]
    BY <1>1, <2>1, <2>3, Positions DEF RemovalOf
  <2>6. Kept(h[n - 1], h[n]) /\ (f \in S => f \notin Open(h[n]))
    <3>1. CASE f \in S
      <4>1. Sound(h[n - 1])
        BY <2>4 DEF Kept
      <4> QED
        BY <2>5, <3>1, <4>1, DestroyedKept
    <3>2. CASE f \notin S
      BY <2>4, <2>5, <3>2 DEF Kept, KeptAt
    <3> QED
      BY <3>1, <3>2
  <2>7. Kept(s, h[n])
    BY <2>4, <2>6, KeptKept
  <2>8. Gone(n)
    <3> SUFFICES ASSUME NEW j \in 1..n, Order[N + 1 - j] \in S
                 PROVE  Order[N + 1 - j] \notin Open(h[n])
      OBVIOUS
    <3>1. CASE j = n
      BY <2>6, <3>1
    <3>2. CASE j # n
      <4>1. j \in 1..(n - 1)
        BY <2>3, <3>2
      <4> QED
        BY <2>4, <2>6, <4>1 DEF Kept
    <3> QED
      BY <3>1, <3>2
  <2> HIDE DEF Gone
  <2> QED
    BY <2>1, <2>7, <2>8
<1>4. Kept(s, h[N]) /\ Gone(N)
  <2>1. N \in 0..N
    BY Positions
  <2> HIDE DEF Gone
  <2> QED
    BY <1>3, <2>1
<1>5. ASSUME NEW f \in Open(h[N]), f \in S PROVE FALSE
  <2>1. PICK k \in 1..N : f = Order[k]
    BY Positions DEF Open
  <2>2. N + 1 - k \in 1..N /\ N + 1 - (N + 1 - k) = k
    BY Positions
  <2> QED
    BY <1>4, <1>5, <2>1, <2>2
<1> QED
  BY <1>1, <1>4, <1>5

--------------------------------------------------------------------------------
\* Whom a round asks: local roots below f, and nobody if f answers itself.
AskedOf(f, subframesOnly, n, h) ==
    h = [k \in 0..n |->
            IF k = 0 THEN [found |-> FALSE, legacy |-> FALSE, replies |-> {}]
            ELSE CheckOrDispatchBeforeUnloadForFrame(f, subframesOnly, h[k - 1], Order[k])]

LEMMA AskedExists == ASSUME NEW f, NEW only PROVE \E h : AskedOf(f, only, N, h)
<1> DEFINE Bad == {n \in 0..N : ~\E h : AskedOf(f, only, n, h)}
           none == [found |-> FALSE, legacy |-> FALSE, replies |-> {}]
<1> SUFFICES ASSUME Bad # {} PROVE FALSE
  <2>1. N \in 0..N
    BY Positions
  <2> QED
    BY <2>1
<1>1. PICK n \in Bad : \A m \in Bad : n <= m
  <2>1. Bad \in SUBSET Nat
    BY Positions
  <2> HIDE DEF Bad
  <2> QED
    BY <2>1, Least
<1>2. n # 0
  <2>1. AskedOf(f, only, 0, [k \in 0..0 |-> none])
    BY DEF AskedOf
  <2> QED
    BY <1>1, <2>1
<1>3. n \in 1..N /\ n - 1 \in 0..N /\ ~(n <= n - 1)
  BY <1>1, <1>2, Positions
<1>4. PICK h : AskedOf(f, only, n - 1, h)
  BY <1>1, <1>3
<1> DEFINE new == CheckOrDispatchBeforeUnloadForFrame(f, only, h[n - 1], Order[n])
           g == [k \in 0..n |-> IF k = n THEN new ELSE h[k]]
<1>5. /\ 0..n = 0..(n - 1) \cup {n} /\ n \notin 0..(n - 1)
      /\ \A k \in 0..n : k # 0 => k - 1 \in 0..(n - 1)
  BY <1>3, Positions
<1>6. ASSUME NEW k \in 0..n
      PROVE  g[k] = IF k = 0 THEN none
                    ELSE CheckOrDispatchBeforeUnloadForFrame(f, only, g[k - 1], Order[k])
  <2>1. k # 0 => g[k - 1] = h[k - 1]
    BY <1>5
  <2>2. CASE k = n
    <3>1. g[k] = new /\ k # 0
      BY <2>2, <1>3
    <3> HIDE DEF g
    <3> QED
      BY <2>1, <2>2, <3>1
  <2>3. CASE k # n
    <3>1. g[k] = h[k] /\ k \in 0..(n - 1)
      BY <1>5, <2>3
    <3>2. h[k] = IF k = 0 THEN none
                 ELSE CheckOrDispatchBeforeUnloadForFrame(f, only, h[k - 1], Order[k])
      BY <1>4, <3>1 DEF AskedOf
    <3> HIDE DEF g, none
    <3> QED
      BY <2>1, <3>1, <3>2
  <2> QED
    BY <2>2, <2>3
<1>7. AskedOf(f, only, n, g)
  <2> HIDE DEF new
  <2> QED
    BY <1>6 DEF AskedOf
<1> QED
  BY <1>1, <1>7

LEMMA AskedIs ==
    ASSUME NEW f, NEW only
    PROVE  \E h : AskedOf(f, only, N, h) /\ CheckOrDispatchBeforeUnloadForSubtree(f, only) = h[N]
<1> DEFINE h == CHOOSE g : AskedOf(f, only, N, g)
<1>1. AskedOf(f, only, N, h)
  BY AskedExists
<1>2. CheckOrDispatchBeforeUnloadForSubtree(f, only) = h[N]
  BY DEF CheckOrDispatchBeforeUnloadForSubtree, AskedOf, N
<1> QED
  BY <1>1, <1>2

\* What has been found when the first k frames of Order were looked at.
Found(f, k, acc) ==
    /\ acc \in [found : BOOLEAN, legacy : BOOLEAN, replies : SUBSET Subtree(f)]
    /\ acc.legacy => acc.replies = {}
    /\ k < At(f) => acc.replies = {}

LEMMA AskedStep ==
    ASSUME NEW f \in Frames, NEW only, NEW k \in 1..N, NEW acc, Found(f, k - 1, acc)
    PROVE  Found(f, k, CheckOrDispatchBeforeUnloadForFrame(f, only, acc, Order[k]))
<1> DEFINE g == Order[k]
           simulated == g = f /\ g \notin handler /\ LegacyMode # "skip"
           root == Nearest({f} \cup {a \in Subtree(f) : IsLocalRoot(a)}, g)
           r == CheckOrDispatchBeforeUnloadForFrame(f, only, acc, g)
<1>1. g \in Frames /\ k \in Nat /\ At(f) \in 1..N /\ At(g) = k
  <2>1. g \in Frames /\ At(f) \in 1..N /\ At(g) \in 1..N /\ Order[At(g)] = g
    BY Positions, AtIs
  <2> QED
    BY <2>1, Positions
<1>2. /\ acc \in [found : BOOLEAN, legacy : BOOLEAN, replies : SUBSET Subtree(f)]
      /\ acc.legacy => acc.replies = {}
      /\ k - 1 < At(f) => acc.replies = {}
  BY DEF Found
<1>3. k < At(f) => k - 1 < At(f)
  BY <1>1, Positions
<1>4. CASE r = acc
  BY <1>2, <1>3, <1>4 DEF Found
<1>5. CASE r = [acc EXCEPT !.found = TRUE]
  BY <1>2, <1>3, <1>5 DEF Found
<1>6. CASE r = [acc EXCEPT !.found = TRUE, !.legacy = TRUE] /\ simulated
  <2>1. k - 1 < At(f)
    BY <1>1, <1>6, Positions
  <2> QED
    BY <1>2, <1>6, <2>1 DEF Found
<1>7. CASE /\ r = [found |-> TRUE, legacy |-> FALSE, replies |-> acc.replies \cup {root}]
           /\ g \in Subtree(f)
  <2> DEFINE S == {f} \cup {a \in Subtree(f) : IsLocalRoot(a)}
  <2>1. f \in Ancestors[g] /\ f \in Subtree(f)
    BY <1>7, AncestorsUp DEF Subtree, Upward
  <2>2. IsNearest(S, g, root)
    <3>1. S \cap Ancestors[g] # {}
      BY <2>1
    <3> HIDE DEF S
    <3> QED
      BY <1>1, <3>1, NearestIs DEF S
  <2>3. root \in Subtree(f)
    BY <2>1, <2>2 DEF IsNearest
  <2>4. ~(k < At(f))
    <3>1. At(f) <= At(g)
      BY <1>1, <2>1, Before
    <3> QED
      BY <1>1, <3>1, Positions
  <2> HIDE DEF root, r
  <2>5. acc.replies \cup {root} \in SUBSET Subtree(f)
    BY <1>2, <2>3
  <2>6. /\ r \in [found : BOOLEAN, legacy : BOOLEAN, replies : SUBSET Subtree(f)]
        /\ r.legacy = FALSE
    BY <1>7, <2>5
  <2>7. Found(f, k, r)
    BY ONLY <2>4, <2>6 DEF Found
  <2> QED
    BY <2>7 DEF r
<1> QED
  BY <1>4, <1>5, <1>6, <1>7 DEF CheckOrDispatchBeforeUnloadForFrame

LEMMA AskedFound ==
    ASSUME NEW f \in Frames, NEW only
    PROVE  LET asked == CheckOrDispatchBeforeUnloadForSubtree(f, only)
           IN /\ asked \in [found : BOOLEAN, legacy : BOOLEAN, replies : SUBSET Subtree(f)]
              /\ asked.legacy => asked.replies = {}
<1>1. PICK h : AskedOf(f, only, N, h) /\ CheckOrDispatchBeforeUnloadForSubtree(f, only) = h[N]
  BY AskedIs
<1> DEFINE Bad == {n \in 0..N : ~Found(f, n, h[n])}
<1>2. Found(f, 0, h[0])
  BY <1>1, Positions DEF AskedOf, Found
<1>3. Bad = {}
  <2> SUFFICES ASSUME Bad # {} PROVE FALSE
    OBVIOUS
  <2>1. PICK n \in Bad : \A m \in Bad : n <= m
    <3>1. Bad \in SUBSET Nat
      BY Positions
    <3> HIDE DEF Bad
    <3> QED
      BY <3>1, Least
  <2>2. n \in 1..N /\ n - 1 \in 0..N /\ ~(n <= n - 1)
    BY <1>2, <2>1, Positions
  <2>3. Found(f, n - 1, h[n - 1])
    BY <2>1, <2>2
  <2>4. h[n] = CheckOrDispatchBeforeUnloadForFrame(f, only, h[n - 1], Order[n])
    <3>1. n # 0 /\ n \in 0..N
      BY <2>2, Positions
    <3> QED
      BY <1>1, <3>1 DEF AskedOf
  <2> QED
    BY <2>1, <2>2, <2>3, <2>4, AskedStep
<1>4. Found(f, N, h[N])
  BY <1>3, Positions
<1> QED
  BY <1>1, <1>4 DEF Found

--------------------------------------------------------------------------------
\* Steps.
LEMMA NowIs ==
    ASSUME NEW s \in States, Becomes(s)
    PROVE  Now' = s
BY DEF Now, Becomes, States

LEMMA NowTyped ==
    ASSUME RoundsFine
    PROVE  /\ Now \in States /\ Sound(Now)
           /\ Now.round = round /\ Now.runs = runs /\ Now.tasks = tasks /\ Now.outcome = outcome
           /\ round \in [Frames -> Rounds] /\ runs \in [Frames -> Seq({"run", "no"})]
           /\ tasks \in Seq(Tasks) /\ outcome \in Told \cup {[kind |-> "none"]}
BY DEF RoundsFine, Sound, States, Now

LEMMA FineStep ==
    ASSUME RoundsFine, NEW s, Kept(Now, s), Becomes(s), dialogs' = dialogs,
           Open(s) \subseteq alive'
    PROVE  RoundsFine'
<1>1. Now' = s
  BY NowIs DEF Kept, Sound
<1>2. Sound(s) /\ AllCovered(s, dialogs)
  BY KeptCovered DEF RoundsFine, Kept
<1> QED
  BY <1>1, <1>2 DEF RoundsFine

LEMMA InitFine == Init => RoundInv
<1> SUFFICES ASSUME Init PROVE RoundInv
  OBVIOUS
<1>1. Idle \in Rounds /\ ~Idle.waiting /\ ~Idle.timer /\ ~Idle.closing
  BY DEF Idle, Rounds
<1>2. Now \in States /\ Now.tasks = <<>> /\ Now.outcome = [kind |-> "none"]
  <2>1. <<>> \in Seq(Tasks) /\ <<>> \in Seq({"run", "no"})
    BY EmptySeq
  <2> QED
    BY <1>1, <2>1 DEF Init, Now, States
<1>3. \A f \in Frames : Now.round[f] = Idle
  BY DEF Init, Now
<1>4. ToSet(Now.tasks) = {}
  <2>1. DOMAIN <<>> = {}
    BY EmptySeq
  <2> QED
    BY <1>2, <2>1 DEF ToSet
<1>5. Open(Now) = {}
  BY <1>1, <1>3 DEF Open
<1>6. Sound(Now)
  BY <1>1, <1>2, <1>3, <1>4, <1>5 DEF Sound, TellsRight, Right, OneClient, CleanHears, Open
<1>7. FramesFine
  BY TreeAssumption DEF Init, FramesFine
<1> QED
  BY <1>5, <1>6, <1>7 DEF RoundInv, RoundsFine, AllCovered

\* The frames, apart from the rounds.
LEMMA FramesStep == FramesFine /\ [Next]_vars => FramesFine'
<1> SUFFICES ASSUME FramesFine, [Next]_vars PROVE FramesFine'
  OBVIOUS
<1> USE DEF FramesFine
<1>0. Budget \in Nat
  BY TreeAssumption
<1>1. ASSUME NEW f \in Frames, NEW type \in Types, DispatchBeforeUnload(f, type) PROVE FramesFine'
  BY <1>0, <1>1 DEF DispatchBeforeUnload, Spend
<1>2. ASSUME NEW r \in Frames, Answer(r) PROVE FramesFine'
  BY <1>2 DEF Answer
<1>3. CASE RunTask
  BY <1>3 DEF RunTask
<1>4. ASSUME NEW f \in Frames, BeforeUnloadTimeout(f) PROVE FramesFine'
  BY <1>4 DEF BeforeUnloadTimeout
<1>5. ASSUME NEW x \in Frames, NEW r \in Frames, RunBeforeUnloadConfirm(x, r) PROVE FramesFine'
  BY <1>0, <1>5 DEF RunBeforeUnloadConfirm, Spend
<1>6. ASSUME NEW d \in dialogs, NEW success \in BOOLEAN, JavaScriptDialogClosed(d, success)
      PROVE FramesFine'
  BY <1>6 DEF JavaScriptDialogClosed
<1>7. ASSUME NEW f \in Frames, RemoveChild(f) PROVE FramesFine'
  BY <1>0, <1>7 DEF RemoveChild, Spend
<1>8. ASSUME NEW f \in Frames, RenderProcessGone(Site[f]) PROVE FramesFine'
  BY <1>0, <1>8 DEF RenderProcessGone, Spend
<1>9. ASSUME NEW f \in Frames, DidCommitNavigation(f) PROVE FramesFine'
  BY <1>0, <1>9 DEF DidCommitNavigation, Spend
<1>10. ASSUME NEW f \in Frames, ResetWaitingState(f) PROVE FramesFine'
  BY <1>0, <1>10 DEF ResetWaitingState, Spend
<1>11. CASE UNCHANGED vars
  BY <1>11 DEF vars
<1> QED
  BY <1>1, <1>2, <1>3, <1>4, <1>5, <1>6, <1>7, <1>8, <1>9, <1>10, <1>11 DEF Next

LEMMA AnswerFine ==
    ASSUME RoundsFine, NEW r \in Frames, Answer(r)
    PROVE  RoundsFine'
<1> DEFINE s == [Now EXCEPT !.runs[r] = Tail(@)]
<1>1. PICK proceed \in BOOLEAN : Becomes(ProcessBeforeUnloadCompleted(s, r, proceed, FALSE))
  BY Zenon DEF Answer
<1>2. runs[r] # <<>> /\ dialogs' = dialogs /\ alive' = alive
  BY DEF Answer
<1>3. /\ Tail(runs[r]) \in Seq({"run", "no"}) /\ Len(runs[r]) \in Nat
      /\ Len(runs[r]) = 1 <=> Tail(runs[r]) = <<>>
  BY <1>2, NowTyped, ToSetTail
<1>4. /\ s \in States /\ s.runs = [runs EXCEPT ![r] = Tail(runs[r])]
      /\ s.round = round /\ s.tasks = tasks /\ s.outcome = outcome
  BY <1>3, NowTyped DEF States
<1> HIDE DEF s
<1>5. Calmer(Now, s)
  <2>1. Right(s.outcome)
    BY <1>4, NowTyped DEF Sound, TellsRight
  <2>2. ASSUME NEW g \in Frames
        PROVE  CalmRound(Now.round[g], s.round[g]) /\ CalmRuns(Now.runs[g], s.runs[g])
    <3>1. CalmRound(Now.round[g], s.round[g])
      BY <1>4, NowTyped, SameIsCalm
    <3>2. CalmRuns(Now.runs[g], s.runs[g])
      <4>1. CASE g = r
        BY <1>2, <1>3, <1>4, <4>1, NowTyped DEF CalmRuns
      <4>2. CASE g # r
        BY <1>4, <4>2, NowTyped, SameIsCalm
      <4> QED
        BY <4>1, <4>2
    <3> QED
      BY <3>1, <3>2
  <2> QED
    BY <1>4, <2>1, <2>2, NowTyped DEF Calmer
<1>6. Kept(Now, s)
  BY <1>4, <1>5, NowTyped, CalmerKept
<1>7. Silent(s, r)
  <2> SUFFICES ASSUME NEW j \in Open(s), s.round[j].clean, r \in Subtree(j) PROVE s.runs[r] = <<>>
    BY DEF Silent
  <2>1. Hears(Now, j)
    BY <1>4, NowTyped DEF Sound, CleanHears, Open
  <2>2. r \in Asks(Now, j)
    BY <1>2, NowTyped DEF Asks
  <2>3. Len(runs[r]) = 1
    BY <2>1, <2>2, NowTyped DEF Hears
  <2> QED
    BY <1>3, <1>4, <2>3, NowTyped
<1>8. Kept(s, ProcessBeforeUnloadCompleted(s, r, proceed, FALSE))
  BY <1>6, <1>7, AnswerKept DEF Kept
<1> DEFINE t == ProcessBeforeUnloadCompleted(s, r, proceed, FALSE)
<1> HIDE DEF t
<1>9. Kept(Now, t) /\ Becomes(t)
  BY <1>1, <1>6, <1>8, KeptKept DEF s, t
<1>10. Open(t) \subseteq alive'
  BY <1>2, <1>9 DEF Kept, RoundsFine
<1> QED
  BY <1>2, <1>9, <1>10, FineStep

LEMMA RunTaskFine == ASSUME RoundsFine, RunTask PROVE RoundsFine'
<1> DEFINE t == Head(tasks)
           s == [Now EXCEPT !.tasks = Tail(tasks)]
           done(r) == Kept(Now, r) /\ Open(r) \subseteq alive
<1>1. /\ tasks # <<>> /\ dialogs' = dialogs /\ alive' = alive
      /\ Becomes(IF t.frame \notin alive THEN s
                 ELSE CASE t.kind = "told" -> [s EXCEPT !.outcome = t]
                        [] t.kind = "legacy" -> ProcessBeforeUnloadCompleted(s, t.frame, TRUE, FALSE)
                        [] t.kind = "simulate" ->
                             ProcessBeforeUnloadCompleted(s, t.frame, t.proceed, TRUE))
  BY DEF RunTask
<1>2. /\ t \in Tasks /\ Tail(tasks) \in Seq(Tasks) /\ ToSet(tasks) = {t} \cup ToSet(Tail(tasks))
  BY <1>1, NowTyped, ToSetTail
<1>3. /\ s \in States /\ s.runs = runs /\ s.round = round /\ s.outcome = outcome
      /\ s.tasks = Tail(tasks)
  BY <1>2, NowTyped DEF States
<1>4. t.frame \in Frames /\ t.kind \in {"told", "legacy", "simulate"} /\ Right(t)
  <2>1. Right(t)
    BY <1>2, NowTyped DEF Sound, TellsRight
  <2> QED
    BY <1>2, <2>1 DEF Tasks, Told
<1>5. t.kind = "simulate" => t.proceed \in BOOLEAN
  BY <1>2 DEF Tasks, Told
<1>6. t.kind = "told" => t \in Told
  BY <1>2 DEF Tasks
<1> HIDE DEF s, t
<1>7. ASSUME NEW r \in States, r.round = round, r.runs = runs, r.tasks = s.tasks, Right(r.outcome)
      PROVE  Sound(r) /\ Open(r) = Open(Now)
  <2>1. \A g \in Frames : CalmRound(Now.round[g], r.round[g]) /\ CalmRuns(Now.runs[g], r.runs[g])
    BY <1>7, NowTyped, SameIsCalm
  <2>2. Calmer(Now, r)
    BY <1>2, <1>3, <1>7, <2>1, NowTyped DEF Calmer
  <2> QED
    BY <1>7, <2>2, NowTyped, CalmerSound DEF Open
<1>8. Right(outcome) /\ Sound(s) /\ Open(s) = Open(Now)
  <2>1. Right(outcome)
    BY NowTyped DEF Sound, TellsRight
  <2> QED
    BY <1>3, <1>7, <2>1
<1>9. \A f \in Finals(Now) : f \in Finals(s) \/ (f = t.frame /\ t.kind = "simulate")
  BY <1>2, <1>3, NowTyped DEF Finals
<1>10. ASSUME NEW r, Kept(s, r), t.kind = "simulate" => t.frame \notin Open(r)
       PROVE  done(r)
  <2>1. Sound(r) /\ Open(r) \subseteq Open(Now)
    BY <1>8, <1>10 DEF Kept
  <2>2. ASSUME NEW f \in Open(r) PROVE KeptAt(Now, r, f)
    <3>1. KeptAt(s, r, f)
      BY <1>10 DEF Kept
    <3>2. f \in Finals(Now) => f \in Finals(s)
      BY <1>9, <1>10
    <3>3. Now.round = s.round
      BY <1>3, NowTyped
    <3> QED
      BY <3>1, <3>2, <3>3, Zenon DEF KeptAt
  <2> QED
    BY <2>1, <2>2 DEF Kept, RoundsFine
<1>11. CASE t.frame \notin alive
  <2>1. Kept(s, s)
    BY <1>8 DEF Kept, KeptAt
  <2>2. t.frame \notin Open(s)
    BY <1>8, <1>11 DEF RoundsFine
  <2>3. Becomes(s)
    BY <1>1, <1>11
  <2> QED
    BY <1>1, <1>10, <2>1, <2>2, <2>3, FineStep
<1>12. CASE t.frame \in alive /\ t.kind = "told"
  <2> DEFINE r == [s EXCEPT !.outcome = t]
  <2>1. /\ r \in States /\ r.runs = runs /\ r.round = round /\ r.tasks = s.tasks
        /\ r.outcome = t
    BY <1>3, <1>6, <1>12 DEF States
  <2>2. Becomes(r)
    BY <1>1, <1>12
  <2> HIDE DEF r
  <2>3. Sound(r) /\ Open(r) = Open(Now)
    BY <1>4, <1>7, <2>1
  <2>4. Kept(s, r)
    BY <1>3, <1>8, <2>1, <2>3 DEF Kept, KeptAt, Finals
  <2>5. done(r)
    BY <1>10, <1>12, <2>4
  <2> QED
    BY <1>1, <2>2, <2>5, FineStep
<1>13. CASE t.frame \in alive /\ t.kind = "legacy"
  <2> DEFINE r == ProcessBeforeUnloadCompleted(s, t.frame, TRUE, FALSE)
  <2>1. Becomes(r)
    BY <1>1, <1>13
  <2>2. Silent(s, t.frame)
    <3> SUFFICES ASSUME NEW j \in Open(s), s.round[j].clean, t.frame \in Subtree(j)
                 PROVE  s.runs[t.frame] = <<>>
      BY DEF Silent
    <3>1. Hears(Now, j)
      BY <1>3, NowTyped DEF Sound, CleanHears, Open
    <3>2. Asks(Now, j) = {}
      BY <1>2, <1>13, <3>1, NowTyped DEF Hears
    <3> QED
      BY <1>3, <3>2, NowTyped DEF Asks
  <2>3. Kept(s, r)
    BY <1>4, <1>8, <2>2, AnswerKept
  <2> HIDE DEF r
  <2>4. done(r)
    BY <1>10, <1>13, <2>3
  <2> QED
    BY <1>1, <2>1, <2>4, FineStep
<1>14. CASE t.frame \in alive /\ t.kind = "simulate"
  <2> DEFINE r == ProcessBeforeUnloadCompleted(s, t.frame, t.proceed, TRUE)
  <2>1. Becomes(r)
    BY <1>1, <1>14
  <2>2. Kept(s, r) /\ t.frame \notin Open(r)
    BY <1>4, <1>5, <1>8, <1>14, AnswerKept
  <2> HIDE DEF r
  <2>3. done(r)
    BY <1>10, <2>2
  <2> QED
    BY <1>1, <2>1, <2>3, FineStep
<1> QED
  BY <1>4, <1>11, <1>12, <1>13, <1>14

LEMMA RemoveChildFine ==
    ASSUME RoundsFine, NEW f \in Frames, RemoveChild(f)
    PROVE  RoundsFine'
<1> DEFINE s == RemoveHosts(Now, Subtree(f))
<1>1. Becomes(s) /\ dialogs' = dialogs /\ alive' = alive \ Subtree(f)
  BY DEF RemoveChild
<1>2. Kept(Now, s) /\ Open(s) \cap Subtree(f) = {}
  BY NowTyped, RemovedKept
<1> HIDE DEF s
<1>3. Open(s) \subseteq alive'
  BY <1>1, <1>2 DEF Kept, RoundsFine
<1> QED
  BY <1>1, <1>2, <1>3, FineStep

LEMMA DidCommitFine ==
    ASSUME RoundsFine, NEW f \in Frames, DidCommitNavigation(f)
    PROVE  RoundsFine'
<1> DEFINE below == Subtree(f) \ {f}
           s == IF f = Main /\ round[f].waiting /\ round[f].forNavigation
                THEN ProcessBeforeUnloadCompleted(Now, f, TRUE, TRUE) ELSE Now
           r == RemoveHosts(s, below)
<1>1. Becomes(r) /\ dialogs' = dialogs /\ alive' = alive \ below
  BY DEF DidCommitNavigation
<1>2. Kept(Now, s)
  <2>1. Kept(Now, Now)
    BY NowTyped DEF Kept, KeptAt
  <2>2. Kept(Now, ProcessBeforeUnloadCompleted(Now, f, TRUE, TRUE))
    BY NowTyped, AnswerKept
  <2> QED
    BY <2>1, <2>2
<1> HIDE DEF s
<1>3. Kept(s, r) /\ Open(r) \cap below = {}
  BY <1>2, RemovedKept DEF Kept
<1> HIDE DEF r, below
<1>4. Kept(Now, r)
  BY <1>2, <1>3, KeptKept
<1>5. Open(r) \subseteq alive'
  BY <1>1, <1>3, <1>4 DEF Kept, RoundsFine
<1> QED
  BY <1>1, <1>4, <1>5, FineStep

LEMMA ProcessGoneFine ==
    ASSUME RoundsFine, NEW p, RenderProcessGone(p)
    PROVE  RoundsFine'
<1> DEFINE dead == {f \in alive : Site[f] = p}
           below == UNION {Subtree(f) \ {f} : f \in dead}
           s == RemoveHosts(Now, below)
           left == [f \in Frames |-> IF f \in dead THEN <<>> ELSE s.runs[f]]
           r == [s EXCEPT !.runs = left]
<1>1. Becomes(r) /\ dialogs' = dialogs /\ alive' = alive \ below
  BY DEF RenderProcessGone
<1>2. Kept(Now, s) /\ Open(s) \cap below = {} /\ Sound(s)
  BY NowTyped, RemovedKept DEF Kept
<1> HIDE DEF s, dead, below
<1>3. s \in States
  BY <1>2 DEF Sound
<1>4. /\ r \in States /\ r.runs = left /\ r.round = s.round
      /\ r.tasks = s.tasks /\ r.outcome = s.outcome
  <2>1. left \in [Frames -> Seq({"run", "no"})]
    <3>1. <<>> \in Seq({"run", "no"})
      BY EmptySeq
    <3> QED
      BY <1>3, <3>1 DEF States
  <2> HIDE DEF left
  <2> QED
    BY <1>3, <2>1 DEF States
<1>5. \A g \in Frames : r.runs[g] \in {<<>>, s.runs[g]}
  BY <1>4
<1> HIDE DEF r, left
<1>6. Calmer(s, r)
  <2>1. Right(r.outcome)
    BY <1>2, <1>4 DEF Sound, TellsRight
  <2>2. ASSUME NEW g \in Frames
        PROVE  CalmRound(s.round[g], r.round[g]) /\ CalmRuns(s.runs[g], r.runs[g])
    BY <1>2, <1>4, <1>5, SameIsCalm DEF CalmRuns
  <2> QED
    BY <1>4, <2>1, <2>2 DEF Calmer
<1>7. Kept(s, r)
  BY <1>2, <1>4, <1>6, CalmerKept
<1>8. Kept(Now, r)
  BY <1>2, <1>7, KeptKept
<1>9. Open(r) \subseteq alive'
  BY <1>1, <1>2, <1>7, <1>8 DEF Kept, RoundsFine
<1> QED
  BY <1>1, <1>8, <1>9, FineStep

\* A step that closes rounds, drops requests or adds tasks that answer nothing.
LEMMA CalmStep ==
    ASSUME RoundsFine, NEW r, r = Now', Calmer(Now, r), alive' = alive,
           \A f \in Open(r) : Covered(r, f, dialogs')
    PROVE  RoundsFine'
<1>1. Sound(r) /\ Open(r) \subseteq Open(Now)
  BY NowTyped, CalmerSound
<1> QED
  BY <1>1 DEF RoundsFine, AllCovered

\* The fields of Now after the step.
LEMMA NextIs ==
    ASSUME NEW r, r = Now'
    PROVE  r.round = round' /\ r.runs = runs' /\ r.tasks = tasks' /\ r.outcome = outcome'
BY DEF Now

LEMMA NextTyped ==
    ASSUME NEW r, r = Now', round' \in [Frames -> Rounds],
           runs' \in [Frames -> Seq({"run", "no"})], tasks' \in Seq(Tasks),
           outcome' \in Told \cup {[kind |-> "none"]}
    PROVE  r \in States
BY DEF Now, States

LEMMA ResetFine ==
    ASSUME RoundsFine, NEW f \in Frames, ResetWaitingState(f)
    PROVE  RoundsFine'
<1>1. PICK r : r = Now'
  OBVIOUS
<1> DEFINE new == [round[f] EXCEPT !.waiting = FALSE, !.timer = FALSE, !.shown = FALSE,
                                   !.replies = {}]
<1>2. /\ round' = [round EXCEPT ![f] = new] /\ dialogs' = dialogs /\ alive' = alive
      /\ runs' = runs /\ tasks' = tasks /\ outcome' = outcome
  BY DEF ResetWaitingState
<1>3. /\ new \in Rounds /\ ~new.waiting /\ ~new.timer
      /\ new.closing = round[f].closing /\ new.forNavigation = round[f].forNavigation
  <2>1. round[f] \in Rounds
    BY NowTyped
  <2> QED
    BY <2>1 DEF Rounds
<1> HIDE DEF new
<1>4. \A g \in Frames : round'[g] = IF g = f THEN new ELSE round[g]
  BY <1>2, NowTyped
<1>5. r \in States
  BY <1>1, <1>2, <1>3, NowTyped, NextTyped
<1>6. r.round = round' /\ r.runs = runs /\ r.tasks = tasks /\ r.outcome = outcome
  BY <1>1, <1>2, NextIs
<1>7. Calmer(Now, r)
  <2>1. Right(outcome)
    BY NowTyped DEF Sound, TellsRight
  <2>2. ASSUME NEW g \in Frames
        PROVE  CalmRound(Now.round[g], r.round[g]) /\ CalmRuns(Now.runs[g], r.runs[g])
    <3>1. CalmRound(Now.round[g], Now.round[g]) /\ CalmRuns(Now.runs[g], Now.runs[g])
      BY NowTyped, SameIsCalm
    <3> QED
      BY <1>3, <1>4, <1>6, <3>1, NowTyped DEF CalmRound
  <2> QED
    BY <1>5, <1>6, <2>1, <2>2, NowTyped DEF Calmer
<1>8. Kept(Now, r)
  <2>1. \A g \in Open(r) : r.round[g] = round[g]
    BY <1>3, <1>4, <1>6 DEF Open
  <2> QED
    BY <1>6, <1>7, <2>1, NowTyped, CalmerKept
<1>9. \A g \in Open(r) : Covered(r, g, dialogs')
  BY <1>2, <1>8, KeptCovered DEF RoundsFine, AllCovered
<1> QED
  BY <1>1, <1>2, <1>7, <1>9, CalmStep

LEMMA TimeoutFine ==
    ASSUME RoundsFine, NEW f \in Frames, BeforeUnloadTimeout(f)
    PROVE  RoundsFine'
<1>1. PICK r : r = Now'
  OBVIOUS
<1> DEFINE t == Simulated(f, TRUE)
           new == [round[f] EXCEPT !.timer = FALSE]
<1>2. /\ round' = [round EXCEPT ![f] = new] /\ dialogs' = dialogs /\ alive' = alive
      /\ runs' = runs /\ outcome' = outcome
      /\ tasks' = IF Debugging THEN tasks ELSE Append(tasks, t)
  BY NowTyped DEF BeforeUnloadTimeout
<1>3. new \in Rounds /\ ~new.timer /\ CalmRound(round[f], new) /\ new.orphaned = round[f].orphaned
  <2>1. CalmRound(round[f], round[f])
    BY NowTyped, SameIsCalm
  <2> QED
    BY <2>1, NowTyped DEF Rounds, CalmRound
<1>4. t \in Tasks /\ Right(t) /\ t.kind = "simulate" /\ t.frame = f
  BY DEF Simulated, Tasks, Right
<1> HIDE DEF new, t
<1>5. /\ Append(tasks, t) \in Seq(Tasks) /\ ToSet(Append(tasks, t)) = ToSet(tasks) \cup {t}
  BY <1>4, NowTyped, ToSetAppend
<1>6. \A g \in Frames : round'[g] = IF g = f THEN new ELSE round[g]
  BY <1>2, NowTyped
<1>7. r \in States
  BY <1>1, <1>2, <1>3, <1>5, NowTyped, NextTyped
<1>8. r.round = round' /\ r.runs = runs /\ r.tasks = tasks' /\ r.outcome = outcome
  BY <1>1, <1>2, NextIs
<1>9. Calmer(Now, r)
  <2>1. Right(outcome)
    BY NowTyped DEF Sound, TellsRight
  <2>2. ASSUME NEW g \in Frames
        PROVE  CalmRound(Now.round[g], r.round[g]) /\ CalmRuns(Now.runs[g], r.runs[g])
    <3>1. CalmRound(Now.round[g], Now.round[g]) /\ CalmRuns(Now.runs[g], Now.runs[g])
      BY NowTyped, SameIsCalm
    <3> QED
      BY <1>3, <1>6, <1>8, <3>1, NowTyped
  <2>3. \A u \in ToSet(r.tasks) : u \in ToSet(tasks) \/ u = t
    BY <1>2, <1>5, <1>8
  <2> QED
    BY <1>4, <1>7, <1>8, <2>1, <2>2, <2>3, NowTyped DEF Calmer
<1>10. ASSUME NEW g \in Open(r) PROVE Covered(r, g, dialogs')
  <2>1. g \in Open(Now) /\ g \in Frames
    BY <1>9, NowTyped, CalmerSound DEF Open
  <2>2. Covered(Now, g, dialogs)
    BY <2>1 DEF RoundsFine, AllCovered
  <2>3. ~Debugging => t \in ToSet(r.tasks)
    BY <1>2, <1>5, <1>8
  <2>4. CASE g = f
    BY <1>4, <2>3, <2>4 DEF Covered, Finals
  <2>5. CASE g # f
    <3>1. g \in Finals(Now) => g \in Finals(r)
      BY <1>2, <1>5, <1>8, NowTyped DEF Finals
    <3>2. r.round[g] = Now.round[g]
      BY <1>6, <1>8, <2>1, <2>5, NowTyped
    <3> QED
      BY <1>2, <2>2, <3>1, <3>2 DEF Covered
  <2> QED
    BY <2>4, <2>5
<1> QED
  BY <1>1, <1>2, <1>9, <1>10, CalmStep

LEMMA ConfirmFine ==
    ASSUME RoundsFine, NEW x \in Frames, NEW q \in Frames, RunBeforeUnloadConfirm(x, q)
    PROVE  RoundsFine'
<1>1. PICK r : r = Now'
  OBVIOUS
<1> DEFINE i == GetBeforeUnloadInitiator(Now, x)
           stopped == [f \in Frames |-> IF f \in Ancestors[x] THEN [round[f] EXCEPT !.timer = FALSE]
                                        ELSE round[f]]
<1>2. /\ alive' = alive /\ tasks' = tasks /\ outcome' = outcome
      /\ \/ /\ runs' = [runs EXCEPT ![q][1] = "no"] /\ runs[q] # <<>>
            /\ round' = round /\ dialogs' = dialogs
         \/ /\ round' = IF i = None THEN stopped ELSE [stopped EXCEPT ![i].shown = TRUE]
            /\ dialogs' = dialogs \cup {<<x, q>>} /\ runs' = runs
  BY DEF RunBeforeUnloadConfirm
<1> HIDE DEF i
<1>3. /\ runs' \in [Frames -> Seq({"run", "no"})]
      /\ \A g \in Frames : CalmRuns(runs[g], runs'[g])
  <2>1. \A g \in Frames : CalmRuns(runs[g], runs[g])
    BY NowTyped, SameIsCalm
  <2>2. CASE runs' = runs
    BY <2>1, <2>2, NowTyped
  <2>3. CASE runs' = [runs EXCEPT ![q][1] = "no"] /\ runs[q] # <<>>
    <3> DEFINE new == [runs[q] EXCEPT ![1] = "no"]
    <3>1. runs' = [runs EXCEPT ![q] = new]
      BY <2>3, NowTyped
    <3>2. runs[q] \in Seq({"run", "no"}) /\ runs[q] # <<>>
      BY <2>3, NowTyped
    <3>3. new \in Seq({"run", "no"}) /\ Len(new) = Len(runs[q])
      BY <3>2, ExceptSeq
    <3> HIDE DEF new
    <3>4. CalmRuns(runs[q], new)
      BY <3>2, <3>3 DEF CalmRuns
    <3>5. \A g \in Frames : runs'[g] = IF g = q THEN new ELSE runs[g]
      BY <3>1, NowTyped
    <3> QED
      BY <2>1, <3>1, <3>3, <3>4, <3>5, NowTyped
  <2> QED
    BY <1>2, <2>2, <2>3
\* Only timers of frames above x have stopped, and only if a dialog of x is open now.
<1>4. /\ round' \in [Frames -> Rounds]
      /\ \A g \in Frames :
            /\ CalmRound(round[g], round'[g]) /\ round'[g].orphaned = round[g].orphaned
            /\ \/ round'[g].timer = round[g].timer
               \/ g \in Ancestors[x] /\ <<x, q>> \in dialogs'
  <2>1. \A g \in Frames : CalmRound(round[g], round[g]) /\ round[g] \in Rounds
    BY NowTyped, SameIsCalm
  <2>2. CASE round' = round
    BY <2>1, <2>2, NowTyped
  <2>3. CASE /\ round' = IF i = None THEN stopped ELSE [stopped EXCEPT ![i].shown = TRUE]
             /\ dialogs' = dialogs \cup {<<x, q>>}
    <3>1. ASSUME NEW g \in Frames
          PROVE  /\ stopped[g] \in Rounds /\ stopped[g].orphaned = round[g].orphaned
                 /\ CalmRound(round[g], stopped[g])
                 /\ stopped[g].timer = round[g].timer \/ g \in Ancestors[x]
      <4>1. CASE g \in Ancestors[x]
        <5>1. stopped[g] = [round[g] EXCEPT !.timer = FALSE]
          BY <4>1
        <5> QED
          BY <2>1, <4>1, <5>1 DEF Rounds, CalmRound
      <4>2. CASE g \notin Ancestors[x]
        BY <2>1, <4>2
      <4> QED
        BY <4>1, <4>2
    <3>2. stopped \in [Frames -> Rounds]
      BY <3>1
    <3> HIDE DEF stopped
    <3>3. ASSUME NEW g \in Frames
          PROVE  /\ round'[g] \in Rounds /\ round'[g].orphaned = stopped[g].orphaned
                 /\ CalmRound(round[g], round'[g])
                 /\ round'[g].timer = stopped[g].timer
      <4>1. round'[g] = stopped[g] \/ round'[g] = [stopped[g] EXCEPT !.shown = TRUE]
        BY <2>3, <3>2
      <4>2. CASE round'[g] = stopped[g]
        BY <3>1, <4>2
      <4>3. CASE round'[g] = [stopped[g] EXCEPT !.shown = TRUE]
        BY <3>1, <4>3 DEF Rounds, CalmRound
      <4> QED
        BY <4>1, <4>2, <4>3
    <3>4. round' \in [Frames -> Rounds]
      <4>1. round' = [g \in Frames |-> round'[g]]
        BY <2>3, <3>2
      <4> QED
        BY <3>3, <4>1
    <3> QED
      BY <2>3, <3>1, <3>3, <3>4
  <2> QED
    BY <1>2, <2>2, <2>3
<1>5. r \in States
  BY <1>1, <1>2, <1>3, <1>4, NowTyped, NextTyped
<1>6. r.round = round' /\ r.runs = runs' /\ r.tasks = tasks /\ r.outcome = outcome
  BY <1>1, <1>2, NextIs
<1>7. Calmer(Now, r)
  <2>1. Right(outcome)
    BY NowTyped DEF Sound, TellsRight
  <2> QED
    BY <1>3, <1>4, <1>5, <1>6, <2>1, NowTyped DEF Calmer
<1>8. ASSUME NEW g \in Open(r) PROVE Covered(r, g, dialogs')
  <2>1. g \in Open(Now) /\ g \in Frames
    BY <1>7, NowTyped, CalmerSound DEF Open
  <2>2. Covered(Now, g, dialogs)
    BY <2>1 DEF RoundsFine, AllCovered
  <2>3. CASE g \in Ancestors[x] /\ <<x, q>> \in dialogs'
    BY <2>3 DEF Covered
  <2>4. CASE r.round[g].timer = Now.round[g].timer
    <3>1. r.round[g].orphaned = Now.round[g].orphaned /\ Finals(r) = Finals(Now)
      BY <1>4, <1>6, <2>1, NowTyped DEF Finals
    <3>2. dialogs \subseteq dialogs'
      BY <1>2
    <3> QED
      BY <2>2, <2>4, <3>1, <3>2 DEF Covered
  <2> QED
    BY <1>4, <1>6, <2>1, <2>3, <2>4, NowTyped
<1> QED
  BY <1>1, <1>2, <1>7, <1>8, CalmStep

LEMMA ClosedFine ==
    ASSUME FramesFine, RoundsFine, NEW d \in dialogs, NEW success \in BOOLEAN,
           JavaScriptDialogClosed(d, success)
    PROVE  RoundsFine'
<1>1. PICK r : r = Now'
  OBVIOUS
<1> DEFINE a == d[1]
           q == d[2]
           Waits(f) == f \in Ancestors[a] /\ round[f].waiting
           new(f) == IF Waits(f)
                     THEN IF a \in alive THEN [round[f] EXCEPT !.timer = TRUE]
                          ELSE [round[f] EXCEPT !.orphaned = TRUE]
                     ELSE round[f]
<1>2. /\ alive' = alive /\ tasks' = tasks /\ outcome' = outcome /\ dialogs' = dialogs \ {d}
      /\ runs' = runs \/ (runs' = [runs EXCEPT ![q][1] = "no"] /\ runs[q] # <<>>)
      /\ round' = [f \in Frames |-> new(f)]
  BY DEF JavaScriptDialogClosed
<1>3. a \in Frames /\ q \in Frames
  BY DEF FramesFine
<1> HIDE DEF a, q
<1>4. /\ runs' \in [Frames -> Seq({"run", "no"})]
      /\ \A g \in Frames : CalmRuns(runs[g], runs'[g])
  <2>1. \A g \in Frames : CalmRuns(runs[g], runs[g])
    BY NowTyped, SameIsCalm
  <2>2. CASE runs' = runs
    BY <2>1, <2>2, NowTyped
  <2>3. CASE runs' = [runs EXCEPT ![q][1] = "no"] /\ runs[q] # <<>>
    <3> DEFINE no == [runs[q] EXCEPT ![1] = "no"]
    <3>1. runs' = [runs EXCEPT ![q] = no]
      BY <1>3, <2>3, NowTyped
    <3>2. runs[q] \in Seq({"run", "no"}) /\ runs[q] # <<>>
      BY <1>3, <2>3, NowTyped
    <3>3. no \in Seq({"run", "no"}) /\ Len(no) = Len(runs[q])
      BY <3>2, ExceptSeq
    <3> HIDE DEF no
    <3>4. CalmRuns(runs[q], no)
      BY <3>2, <3>3 DEF CalmRuns
    <3>5. \A g \in Frames : runs'[g] = IF g = q THEN no ELSE runs[g]
      BY <3>1, NowTyped
    <3> QED
      BY <2>1, <3>1, <3>3, <3>4, <3>5, NowTyped
  <2> QED
    BY <1>2, <2>2, <2>3
<1>5. ASSUME NEW g \in Frames
      PROVE  /\ new(g) \in Rounds /\ CalmRound(round[g], new(g))
             /\ round[g].orphaned => new(g).orphaned
             /\ round[g].timer => new(g).timer
             /\ Waits(g) => new(g).timer \/ new(g).orphaned
  <2>1. CalmRound(round[g], round[g]) /\ round[g] \in Rounds
    BY NowTyped, SameIsCalm
  <2>2. CASE ~Waits(g)
    <3>1. new(g) = round[g]
      BY <2>2
    <3> HIDE DEF new, Waits
    <3> QED
      BY <2>1, <2>2, <3>1
  <2>3. CASE Waits(g) /\ a \in alive
    <3>1. new(g) = [round[g] EXCEPT !.timer = TRUE] /\ round[g].waiting
      BY <2>3
    <3> HIDE DEF new
    <3> QED
      BY <2>1, <3>1 DEF Rounds, CalmRound
  <2>4. CASE Waits(g) /\ a \notin alive
    <3>1. new(g) = [round[g] EXCEPT !.orphaned = TRUE]
      BY <2>4
    <3> HIDE DEF new
    <3> QED
      BY <2>1, <3>1 DEF Rounds, CalmRound
  <2> HIDE DEF new, Waits
  <2> QED
    BY <2>2, <2>3, <2>4
<1>6. \A g \in Frames : Waits(g) <=> g \in Ancestors[a] /\ round[g].waiting
  OBVIOUS
<1> HIDE DEF new, Waits
<1>7. round' \in [Frames -> Rounds] /\ \A g \in Frames : round'[g] = new(g)
  BY <1>2, <1>5
<1>8. r \in States
  BY <1>1, <1>2, <1>4, <1>7, NowTyped, NextTyped
<1>9. r.round = round' /\ r.runs = runs' /\ r.tasks = tasks /\ r.outcome = outcome
  BY <1>1, <1>2, NextIs
<1>10. Calmer(Now, r)
  <2>1. Right(outcome)
    BY NowTyped DEF Sound, TellsRight
  <2> QED
    BY <1>4, <1>5, <1>7, <1>8, <1>9, <2>1, NowTyped DEF Calmer
<1>11. ASSUME NEW g \in Open(r) PROVE Covered(r, g, dialogs')
  <2>1. g \in Open(Now) /\ g \in Frames
    BY <1>10, NowTyped, CalmerSound DEF Open
  <2>2. Covered(Now, g, dialogs)
    BY <2>1 DEF RoundsFine, AllCovered
  <2>3. round[g].waiting /\ r.round[g] = new(g)
    BY <1>7, <1>9, <2>1, NowTyped DEF Open
  <2>4. CASE g \in Ancestors[a]
    <3>1. Waits(g)
      BY <1>6, <2>1, <2>3, <2>4
    <3> QED
      BY <1>5, <2>1, <2>3, <3>1 DEF Covered
  <2>5. CASE g \notin Ancestors[a]
    <3>1. \A e \in dialogs : g \in Ancestors[e[1]] => e \in dialogs'
      BY <1>2, <2>5 DEF a
    <3>2. Finals(r) = Finals(Now)
      BY <1>9, NowTyped DEF Finals
    <3>3. /\ Now.round[g].orphaned => r.round[g].orphaned
          /\ Now.round[g].timer => r.round[g].timer
      BY <1>5, <2>1, <2>3, NowTyped
    <3> QED
      BY <2>2, <3>1, <3>2, <3>3, Zenon DEF Covered
  <2> QED
    BY <2>4, <2>5
<1> QED
  BY <1>1, <1>2, <1>10, <1>11, CalmStep

\* A dispatch on a frame that is already asking, or that has nobody to ask.
LEMMA DispatchCalm ==
    ASSUME RoundsFine, NEW f \in Frames, NEW type \in Types, DispatchBeforeUnload(f, type),
           f \in Open(Now) \/ round' = round
    PROVE  RoundsFine'
<1>1. PICK r : r = Now'
  OBVIOUS
<1> DEFINE told == [kind |-> "told", frame |-> f, proceed |-> TRUE,
                    forNavigation |-> FALSE, closing |-> TRUE, unheard |-> {}]
           new == [round[f] EXCEPT !.forNavigation = @ /\ ForNavigation(type),
                                   !.closing = @ \/ ~ForNavigation(type)]
<1>2. /\ alive' = alive /\ dialogs' = dialogs /\ outcome' = outcome
      /\ \/ tasks' = Append(tasks, told) /\ round' = round /\ runs' = runs
         \/ /\ round[f].waiting /\ runs' = runs /\ tasks' = tasks
            /\ round' = [round EXCEPT ![f].forNavigation = @ /\ ForNavigation(type),
                                      ![f].closing = @ \/ ~ForNavigation(type)]
         \/ ~round[f].waiting /\ StartRound(f, type, CheckOrDispatchBeforeUnloadForSubtree(
                                                         f, type = "RENDERER_INITIATED_NAVIGATION"))
  BY DEF DispatchBeforeUnload
<1>3. /\ told \in Tasks /\ Right(told) /\ told.kind = "told"
      /\ Append(tasks, told) \in Seq(Tasks) /\ ToSet(Append(tasks, told)) = ToSet(tasks) \cup {told}
  <2>1. told \in Tasks /\ Right(told) /\ told.kind = "told"
    BY DEF Told, Tasks, Right
  <2> HIDE DEF told
  <2> QED
    BY <2>1, NowTyped, ToSetAppend
<1> HIDE DEF told
<1>4. ForNavigation(type) \in BOOLEAN
  BY DEF ForNavigation
<1>5. CASE tasks' = Append(tasks, told) /\ round' = round /\ runs' = runs
  <2>1. r \in States
    BY <1>1, <1>2, <1>3, <1>5, NowTyped, NextTyped
  <2>2. r.round = round /\ r.runs = runs /\ r.tasks = tasks' /\ r.outcome = outcome
    BY <1>1, <1>2, <1>5, NextIs
  <2>3. Right(outcome)
    BY NowTyped DEF Sound, TellsRight
  <2>4. Calmer(Now, r)
    BY <1>3, <1>5, <2>1, <2>2, <2>3, NowTyped, SameIsCalm DEF Calmer
  <2>5. Kept(Now, r)
    BY <1>3, <1>5, <2>2, <2>4, NowTyped, CalmerKept
  <2>6. \A g \in Open(r) : Covered(r, g, dialogs')
    BY <1>2, <2>5, KeptCovered DEF RoundsFine, AllCovered
  <2> QED
    BY <1>1, <1>2, <2>4, <2>6, CalmStep
<1>6. CASE /\ round[f].waiting /\ runs' = runs /\ tasks' = tasks
           /\ round' = [round EXCEPT ![f].forNavigation = @ /\ ForNavigation(type),
                                     ![f].closing = @ \/ ~ForNavigation(type)]
  <2>1. round' = [round EXCEPT ![f] = new]
    BY <1>6, NowTyped
  <2>2. /\ new \in Rounds /\ CalmRound(round[f], new)
        /\ new.timer = round[f].timer /\ new.orphaned = round[f].orphaned
    <3>1. CalmRound(round[f], round[f]) /\ round[f] \in Rounds
      BY NowTyped, SameIsCalm
    <3> QED
      BY <1>4, <3>1 DEF Rounds, CalmRound
  <2> HIDE DEF new
  <2>3. \A g \in Frames : round'[g] = IF g = f THEN new ELSE round[g]
    BY <2>1, NowTyped
  <2>4. r \in States
    <3>1. round' \in [Frames -> Rounds]
      BY <2>1, <2>2, NowTyped
    <3> QED
      BY <1>1, <1>2, <1>6, <3>1, NowTyped, NextTyped
  <2>5. r.round = round' /\ r.runs = runs /\ r.tasks = tasks /\ r.outcome = outcome
    BY <1>1, <1>2, <1>6, NextIs
  <2>6. Right(outcome)
    BY NowTyped DEF Sound, TellsRight
  <2>7. ASSUME NEW g \in Frames
        PROVE  /\ CalmRound(Now.round[g], r.round[g]) /\ CalmRuns(Now.runs[g], r.runs[g])
               /\ r.round[g].timer = round[g].timer /\ r.round[g].orphaned = round[g].orphaned
    <3>1. CalmRound(round[g], round[g]) /\ CalmRuns(runs[g], runs[g])
      BY NowTyped, SameIsCalm
    <3> QED
      BY <2>2, <2>3, <2>5, <3>1, NowTyped
  <2>8. Calmer(Now, r)
    BY <2>4, <2>5, <2>6, <2>7, NowTyped DEF Calmer
  <2>9. Kept(Now, r)
    <3>1. Open(r) \subseteq Frames
      BY DEF Open
    <3> QED
      BY <2>5, <2>7, <2>8, <3>1, NowTyped, CalmerKept
  <2>10. \A g \in Open(r) : Covered(r, g, dialogs')
    BY <1>2, <2>9, KeptCovered DEF RoundsFine, AllCovered
  <2> QED
    BY <1>1, <1>2, <2>8, <2>10, CalmStep
<1>7. CASE ~round[f].waiting /\ round' = round
        /\ StartRound(f, type, CheckOrDispatchBeforeUnloadForSubtree(
                                   f, type = "RENDERER_INITIATED_NAVIGATION"))
  <2>1. PICK started \in [waiting : {TRUE}, forNavigation : BOOLEAN, cancels : BOOLEAN,
                     replies : {round'[f].replies}, shown : {FALSE}, timer : BOOLEAN,
                     closing : BOOLEAN, clean : BOOLEAN, orphaned : {FALSE}] :
             round'[f] = started
    <3>1. f \notin Related(f)
      BY DEF Related
    <3> QED
      BY <1>7, <3>1 DEF StartRound, Idle, ForNavigation
  <2> QED
    BY <1>7, <2>1
<1> QED
  BY <1>2, <1>5, <1>6, <1>7, NowTyped DEF Open

\* A new round.  Fresh is what makes it clean.
Fresh(f) ==
    /\ \A g \in Subtree(f) : runs[g] = <<>>
    /\ \A g \in Related(f) : ~round[g].waiting
    /\ \A k \in DOMAIN tasks : tasks[k].kind = "told"
Started(f, type, asked) ==
    LET showing == dialogs # {}
    IN [Idle EXCEPT !.waiting = TRUE, !.forNavigation = ForNavigation(type),
                    !.closing = ~ForNavigation(type), !.clean = Fresh(f),
                    !.timer = ~showing, !.cancels = ~showing /\ type = "DISCARD",
                    !.replies = IF showing THEN {}
                                ELSE IF asked.legacy THEN {f} ELSE asked.replies]

LEMMA StartFine ==
    ASSUME RoundsFine, NEW f \in Frames, NEW type \in Types, f \in alive, alive' = alive,
           dialogs' = dialogs, outcome' = outcome, ~round[f].waiting,
           NEW asked \in [found : BOOLEAN, legacy : BOOLEAN, replies : SUBSET Subtree(f)],
           asked.legacy => asked.replies = {},
           StartRound(f, type, asked)
    PROVE  RoundsFine'
<1>1. PICK r : r = Now'
  OBVIOUS
<1> DEFINE showing == dialogs # {}
           new == Started(f, type, asked)
           sim == Simulated(f, type # "DISCARD")
           leg == [kind |-> "legacy", frame |-> f]
<1>2. /\ round' = [g \in Frames |-> CASE g = f -> new
                                      [] g \in Related(f) -> [round[g] EXCEPT !.clean = FALSE]
                                      [] OTHER -> round[g]]
      /\ runs' = IF showing THEN runs
                 ELSE [g \in Frames |-> IF g \in asked.replies THEN Append(runs[g], "run")
                                        ELSE runs[g]]
      /\ tasks' = IF showing THEN Append(tasks, sim)
                  ELSE IF asked.legacy THEN Append(tasks, leg) ELSE tasks
  BY DEF StartRound, Started, Fresh
<1>3. Subtree(f) \subseteq Frames /\ f \in Subtree(f) /\ f \notin Related(f)
  BY AncestorsUp DEF Subtree, Upward, Related
<1>4. /\ new \in Rounds /\ new.waiting /\ (new.clean => Fresh(f))
      /\ new.timer = ~showing /\ ~(new.closing /\ new.forNavigation)
      /\ new.replies = IF showing THEN {} ELSE IF asked.legacy THEN {f} ELSE asked.replies
  <2>1. Fresh(f) \in BOOLEAN /\ ForNavigation(type) \in BOOLEAN
    BY DEF Fresh, ForNavigation
  <2> QED
    BY <1>3, <2>1 DEF Started, Idle, Rounds
<1>5. sim \in Tasks /\ sim.kind = "simulate" /\ sim.frame = f
  BY DEF Simulated, Tasks
<1>6. leg \in Tasks /\ leg.kind = "legacy" /\ leg.frame = f
  BY DEF Tasks
<1> HIDE DEF new, sim, leg, showing
<1>7. ASSUME NEW t \in {sim, leg}
      PROVE  Append(tasks, t) \in Seq(Tasks) /\ ToSet(Append(tasks, t)) = ToSet(tasks) \cup {t}
  BY <1>5, <1>6, NowTyped, ToSetAppend
<1>8. /\ tasks' \in Seq(Tasks) /\ ToSet(tasks) \subseteq ToSet(tasks')
      /\ \A t \in ToSet(tasks') :
            t \in ToSet(tasks) \/ t = sim \/ (t = leg /\ asked.legacy /\ ~showing)
      /\ showing => sim \in ToSet(tasks')
  BY <1>2, <1>7, NowTyped
<1>9. ASSUME NEW g \in Frames
      PROVE  /\ runs'[g] \in Seq({"run", "no"})
             /\ runs'[g] = runs[g]
                \/ (g \in asked.replies /\ ~showing /\ ~asked.legacy /\ (runs[g] = <<>> => Len(runs'[g]) = 1))
  <2>1. runs[g] \in Seq({"run", "no"})
    BY NowTyped
  <2>2. CASE runs'[g] = runs[g]
    BY <2>1, <2>2
  <2>3. CASE runs'[g] = Append(runs[g], "run") /\ g \in asked.replies /\ ~showing
    <3>1. /\ Append(runs[g], "run") \in Seq({"run", "no"})
          /\ Len(Append(runs[g], "run")) = Len(runs[g]) + 1
      BY <2>1, AppendProperties
    <3>2. runs[g] = <<>> => Len(runs[g]) = 0
      BY EmptySeq
    <3> QED
      BY <2>3, <3>1, <3>2
  <2> QED
    BY <1>2, <2>2, <2>3
<1>10. runs' \in [Frames -> Seq({"run", "no"})]
  <2>1. runs' = [g \in Frames |-> runs'[g]]
    BY <1>2, NowTyped
  <2> QED
    BY <1>9, <2>1
<1>11. ASSUME NEW g \in Frames
       PROVE  /\ round'[g] \in Rounds /\ (g = f => round'[g] = new)
              /\ g \in Related(f) => ~round'[g].clean
              /\ g # f => /\ round'[g].waiting = round[g].waiting
                          /\ round'[g].timer = round[g].timer
                          /\ round'[g].orphaned = round[g].orphaned
                          /\ round'[g].closing = round[g].closing
                          /\ round'[g].forNavigation = round[g].forNavigation
                          /\ g \notin Related(f) => round'[g] = round[g]
  <2>1. round[g] \in Rounds
    BY NowTyped
  <2>2. CASE g = f
    <3>1. round'[g] = new
      BY <1>2, <1>3, <2>2
    <3> QED
      BY <1>3, <1>4, <2>2, <3>1
  <2>3. CASE g # f /\ g \in Related(f)
    <3>1. round'[g] = [round[g] EXCEPT !.clean = FALSE]
      BY <1>2, <2>3
    <3> QED
      BY <2>1, <2>3, <3>1 DEF Rounds
  <2>4. CASE g # f /\ g \notin Related(f)
    <3>1. round'[g] = round[g]
      BY <1>2, <2>4
    <3> QED
      BY <2>1, <2>4, <3>1
  <2> QED
    BY <2>2, <2>3, <2>4
<1>12. round' \in [Frames -> Rounds]
  <2>1. round' = [g \in Frames |-> round'[g]]
    BY <1>2
  <2> QED
    BY <1>11, <2>1
<1>13. r \in States
  BY <1>1, <1>8, <1>10, <1>12, NowTyped, NextTyped
<1>14. r.round = round' /\ r.runs = runs' /\ r.tasks = tasks' /\ r.outcome = outcome
  BY <1>1, NextIs
<1>15. TellsRight(r)
  <2>1. Right(sim) /\ Right(leg)
    BY <1>5, <1>6 DEF Right
  <2>2. Right(outcome) /\ \A t \in ToSet(tasks) : Right(t)
    BY NowTyped DEF Sound, TellsRight
  <2> QED
    BY <1>8, <1>14, <2>1, <2>2 DEF TellsRight
<1>16. OneClient(r)
  <2>1. OneClient(Now)
    BY NowTyped DEF Sound
  <2> QED
    BY <1>4, <1>11, <1>14, <2>1, NowTyped DEF OneClient
<1>17. Open(r) = Open(Now) \cup {f}
  BY <1>4, <1>11, <1>14, NowTyped DEF Open
<1>18. ASSUME Fresh(f) PROVE Hears(r, f)
  <2>1. \A g \in Asks(r, f) : /\ g \in asked.replies /\ ~showing /\ ~asked.legacy
                              /\ Len(r.runs[g]) = 1
    <3> SUFFICES ASSUME NEW g \in Asks(r, f)
                 PROVE  g \in asked.replies /\ ~showing /\ ~asked.legacy /\ Len(r.runs[g]) = 1
      OBVIOUS
    <3>1. g \in Frames /\ runs[g] = <<>> /\ runs'[g] # <<>>
      BY <1>3, <1>14, <1>18 DEF Asks, Fresh
    <3> QED
      BY <1>9, <1>14, <3>1
  <2>2. r.round[f].replies = IF showing THEN {} ELSE IF asked.legacy THEN {f} ELSE asked.replies
    BY <1>4, <1>11, <1>14
  <2>3. \A g \in Related(f) : ~r.round[g].waiting
    <3>1. Related(f) \subseteq Frames
      BY <1>3, AncestorsUp DEF Related, Upward
    <3> QED
      BY <1>3, <1>11, <1>14, <1>18, <3>1 DEF Fresh
  <2>4. ASSUME NEW t \in ToSet(r.tasks), t.kind = "legacy"
        PROVE  t.frame = f /\ Asks(r, f) = {}
    <3>1. t \notin ToSet(tasks)
      BY <1>18, <2>4 DEF Fresh, ToSet
    <3>2. t = leg /\ asked.legacy
      BY <1>5, <1>8, <1>14, <2>4, <3>1
    <3> QED
      BY <1>6, <2>1, <3>2
  <2> QED
    BY <2>1, <2>2, <2>3, <2>4 DEF Hears
<1>19. ASSUME NEW h \in Open(Now), h # f, r.round[h].clean PROVE Hears(r, h)
  <2>1. h \in Frames /\ h \notin Related(f) /\ r.round[h] = round[h] /\ round[h].waiting
    BY <1>11, <1>14, <1>19, NowTyped DEF Open
  <2>2. Hears(Now, h)
    BY <1>19, <2>1, NowTyped DEF Sound, CleanHears
  <2>3. h \notin Subtree(f) /\ f \notin Subtree(h) /\ f \notin Related(h)
    BY <1>19, <2>1 DEF Related, Subtree
  <2>4. \A g \in Subtree(h) : g \notin asked.replies
    <3> SUFFICES ASSUME NEW g \in Subtree(h), g \in Subtree(f) PROVE FALSE
      OBVIOUS
    <3>1. g \in Frames /\ h \in Ancestors[g] /\ f \in Ancestors[g]
      BY DEF Subtree
    <3>2. h \in Ancestors[f] \/ f \in Ancestors[h]
      BY <3>1, Chain
    <3> QED
      BY <2>1, <2>3, <3>2 DEF Subtree
  <2>5. Asks(r, h) = Asks(Now, h) /\ \A g \in Asks(r, h) : r.runs[g] = Now.runs[g]
    <3>1. \A g \in Subtree(h) : r.runs[g] = Now.runs[g]
      BY <1>9, <1>14, <2>4, NowTyped DEF Subtree
    <3> QED
      BY <3>1 DEF Asks
  <2>6. \A g \in Related(h) : ~r.round[g].waiting
    <3>1. Related(h) \subseteq Frames
      BY <2>1, AncestorsUp DEF Related, Subtree, Upward
    <3> QED
      BY <1>11, <1>14, <2>2, <2>3, <3>1, NowTyped DEF Hears
  <2>7. \A t \in ToSet(r.tasks) : t.kind = "legacy" /\ t.frame \in Subtree(h) => t \in ToSet(tasks)
    BY <1>5, <1>6, <1>8, <1>14, <2>3
  <2>8. \A t \in ToSet(r.tasks) : t.kind = "legacy" /\ t.frame \in Subtree(h)
           => t.frame = h /\ Asks(r, h) = {}
    BY <2>2, <2>5, <2>7, NowTyped DEF Hears
  <2>9. Asks(r, h) \subseteq r.round[h].replies /\ \A g \in Asks(r, h) : Len(r.runs[g]) = 1
    BY <2>1, <2>2, <2>5, NowTyped DEF Hears
  <2> QED
    BY <2>6, <2>8, <2>9 DEF Hears
<1>20. CleanHears(r)
  <2>1. r.round[f].clean => Fresh(f)
    BY <1>4, <1>11, <1>14
  <2>2. \A h \in Frames : r.round[h].waiting => h \in Open(Now) \cup {f}
    BY <1>17 DEF Open
  <2> QED
    BY <1>18, <1>19, <2>1, <2>2 DEF CleanHears
<1>21. ASSUME NEW h \in Open(r) PROVE Covered(r, h, dialogs)
  <2>1. CASE h = f
    <3>1. r.round[f].timer = ~showing
      BY <1>4, <1>11, <1>14
    <3>2. showing => f \in Finals(r)
      BY <1>5, <1>8, <1>14 DEF Finals
    <3> QED
      BY <2>1, <3>1, <3>2 DEF Covered
  <2>2. CASE h # f
    <3>1. h \in Open(Now) /\ h \in Frames
      BY <1>17, <2>2 DEF Open
    <3>2. Covered(Now, h, dialogs)
      BY <3>1 DEF RoundsFine, AllCovered
    <3>3. /\ r.round[h].timer = Now.round[h].timer /\ r.round[h].orphaned = Now.round[h].orphaned
          /\ h \in Finals(Now) => h \in Finals(r)
      BY <1>8, <1>11, <1>14, <2>2, <3>1, NowTyped DEF Finals
    <3> QED
      BY <3>2, <3>3 DEF Covered
  <2> QED
    BY <2>1, <2>2
<1>22. Sound(r)
  BY <1>13, <1>15, <1>16, <1>20 DEF Sound
<1>23. Open(r) \subseteq alive
  BY <1>17 DEF RoundsFine
<1> QED
  BY <1>1, <1>21, <1>22, <1>23 DEF RoundsFine, AllCovered

LEMMA DispatchFine ==
    ASSUME RoundsFine, NEW f \in Frames, NEW type \in Types, DispatchBeforeUnload(f, type)
    PROVE  RoundsFine'
<1> DEFINE asked == CheckOrDispatchBeforeUnloadForSubtree(
                        f, type = "RENDERER_INITIATED_NAVIGATION")
<1>1. /\ f \in alive /\ alive' = alive /\ dialogs' = dialogs /\ outcome' = outcome
      /\ \/ round' = round
         \/ round[f].waiting
         \/ ~round[f].waiting /\ StartRound(f, type, asked)
  BY DEF DispatchBeforeUnload
<1>2. /\ asked \in [found : BOOLEAN, legacy : BOOLEAN, replies : SUBSET Subtree(f)]
      /\ asked.legacy => asked.replies = {}
  BY AskedFound
<1> HIDE DEF asked
<1>3. CASE round' = round
  BY <1>3, DispatchCalm
<1>4. CASE round[f].waiting
  BY <1>4, NowTyped, DispatchCalm DEF Open
<1>5. CASE ~round[f].waiting /\ StartRound(f, type, asked)
  BY <1>1, <1>2, <1>5, StartFine
<1> QED
  BY <1>1, <1>3, <1>4, <1>5

LEMMA RoundsStep == RoundInv /\ [Next]_vars => RoundInv'
<1> SUFFICES ASSUME FramesFine, RoundsFine, [Next]_vars PROVE RoundsFine'
  BY FramesStep DEF RoundInv
<1>1. ASSUME NEW f \in Frames, NEW type \in Types, DispatchBeforeUnload(f, type) PROVE RoundsFine'
  BY <1>1, DispatchFine
<1>2. ASSUME NEW r \in Frames, Answer(r) PROVE RoundsFine'
  BY <1>2, AnswerFine
<1>3. CASE RunTask
  BY <1>3, RunTaskFine
<1>4. ASSUME NEW f \in Frames, BeforeUnloadTimeout(f) PROVE RoundsFine'
  BY <1>4, TimeoutFine
<1>5. ASSUME NEW x \in Frames, NEW r \in Frames, RunBeforeUnloadConfirm(x, r) PROVE RoundsFine'
  BY <1>5, ConfirmFine
<1>6. ASSUME NEW d \in dialogs, NEW success \in BOOLEAN, JavaScriptDialogClosed(d, success)
      PROVE RoundsFine'
  BY <1>6, ClosedFine
<1>7. ASSUME NEW f \in Frames, RemoveChild(f) PROVE RoundsFine'
  BY <1>7, RemoveChildFine
<1>8. ASSUME NEW f \in Frames, RenderProcessGone(Site[f]) PROVE RoundsFine'
  BY <1>8, ProcessGoneFine
<1>9. ASSUME NEW f \in Frames, DidCommitNavigation(f) PROVE RoundsFine'
  BY <1>9, DidCommitFine
<1>10. ASSUME NEW f \in Frames, ResetWaitingState(f) PROVE RoundsFine'
  BY <1>10, ResetFine
<1>11. CASE UNCHANGED vars
  <2>1. Now' = Now /\ dialogs' = dialogs /\ alive' = alive
    BY <1>11 DEF vars, Now
  <2> QED
    BY <2>1 DEF RoundsFine
<1> QED
  BY <1>1, <1>2, <1>3, <1>4, <1>5, <1>6, <1>7, <1>8, <1>9, <1>10, <1>11 DEF Next

LEMMA RoundsInvariant == Spec => []RoundInv
<1> QED
  BY InitFine, RoundsStep, PTL DEF Spec

--------------------------------------------------------------------------------
\* A round that was left alone is told to go on only when everybody below its initiator
\* has answered or went away, and a close that was asked for in a round is never answered
\* to the navigator: ProcessBeforeUnloadCompletedFromFrame().
THEOREM CompletionCorrect == Spec => []CompletionIsRight
<1>1. RoundInv => CompletionIsRight
  BY NowTyped DEF RoundInv, Sound, TellsRight, Right, CompletionIsRight, AllHeard, CloseSticks
<1> QED
  BY <1>1, RoundsInvariant, PTL

\* No open round waits for a renderer alone, unless the frame of its dialog was removed
\* (JavaScriptDialogClosed()), and no timer of a round outlives it.
THEOREM TimingCorrect == Spec => []RoundsAreTimed
<1>1. RoundInv => RoundsAreTimed
  <2> SUFFICES ASSUME RoundInv PROVE RoundsAreTimed
    OBVIOUS
  <2>1. FramesFine /\ RoundsFine
    BY DEF RoundInv
  <2>2. TypeOK
    <3>1. \A f \in Frames : round[f].timer => round[f].waiting
      BY <2>1, NowTyped DEF Sound, OneClient
    <3> QED
      BY <2>1, <3>1, NowTyped DEF TypeOK, FramesFine, Rounds
  <2>3. WaitingIsTimed
    <3> SUFFICES ASSUME NEW f \in Frames, round[f].waiting PROVE RoundIsTimed(f) \/ round[f].orphaned
      BY DEF WaitingIsTimed
    <3>1. Covered(Now, f, dialogs)
      BY <2>1, NowTyped DEF RoundsFine, AllCovered, Open
    <3>2. f \in Finals(Now) => HasFinalTask(f)
      BY <2>1, NowTyped DEF Finals, HasFinalTask, ToSet
    <3> QED
      BY <2>1, <3>1, <3>2, NowTyped DEF Covered, RoundIsTimed
  <2> QED
    BY <2>2, <2>3 DEF RoundsAreTimed
<1> QED
  BY <1>1, RoundsInvariant, PTL
================================================================================
