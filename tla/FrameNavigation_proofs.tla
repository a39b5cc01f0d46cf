----------------------- MODULE FrameNavigation_proofs ------------------------
(***************************************************************************)
(* Theorems of FrameNavigation, for every number of hosts and of           *)
(* navigations: no check of the browser or of a renderer fails but the     *)
(* three of BrokenChecks, every request that waits for its commit is still *)
(* to be answered, the browser shows the document that the frame has once  *)
(* nothing is on its way, and it shows that nothing loads once nothing     *)
(* does.                                                                   *)
(*                                                                         *)
(* Core, the inductive invariant, says where the client of a navigation is *)
(* (Tokens): with its frame, in the message that brings it, in the report  *)
(* that ends it, or with an archive that loads; which messages a channel   *)
(* may hold, and in which order, for the life of the host at its end       *)
(* (Lives); and that a navigation that was not asked to commit yet is      *)
(* known at one place (EarlyOnce) and was nowhere sent (EarlyIsUnsent).    *)
(*                                                                         *)
(* Channels are reasoned about through four questions: is there a message  *)
(* of a class (Holds), is there one before another (Then), is the first,   *)
(* or the last, of a class in another one (FirstIs, LastIs). The lemmas on *)
(* Joins, Pops and Adds answer them for a channel that is read or written, *)
(* and the proofs after them speak of channels in these words.             *)
(*                                                                         *)
(* AllTold, which holds where Core does, is about what the browser shows   *)
(* once it has taken all that was sent: the last report on its way is of   *)
(* what the frame has, and the last word about a load is that it stopped,  *)
(* unless the frame is busy: it loads, or has an answer to give.           *)
(***************************************************************************)
EXTENDS FrameNavigation, FiniteSetTheorems, SequenceTheorems, TLAPS

-----------------------------------------------------------------------------
(* Messages and channels.                                                  *)

Nums == 0..MaxNavs
Args == {"", "same global", "Ok", "Aborted", "RestartCrossDocument",
         "cross", "mhtml", "reload", "error", "same", "none", "fragment", "history", "other url"}
NavKinds == {"none", "same", "cross", "mhtml", "reload"}
DownTypes == {"bind", "commit", "same", "dropped", "delete", "undo", "unload"}
UpTypes == {"begin", "didCommit", "didCommitSame", "processed", "disconnected", "stopped", "unloaded"}

Of(types, ns) == [type: types, n: ns, arg: Args, dsn: Nums]
All(types) == Of(types, Nums)
One(type, n) == Of({type}, {n})
Messages == All(DownTypes \cup UpTypes)

\* What is in a channel, in which order.
Holds(q, S) == \E i \in DOMAIN q : q[i] \in S
Then(q, S, T) == \E i, j \in DOMAIN q : i < j /\ q[i] \in S /\ q[j] \in T
FirstIs(q, T, S) == \E i \in DOMAIN q : q[i] \in S /\ \A j \in DOMAIN q : j < i => q[j] \notin T
LastIs(q, T, S) == \E i \in DOMAIN q : q[i] \in S /\ \A j \in DOMAIN q : j > i => q[j] \notin T

Joins(c, a, b) ==
    /\ \A S : Holds(c, S) <=> Holds(a, S) \/ Holds(b, S)
    /\ \A S, T : Then(c, S, T) <=> Then(a, S, T) \/ Then(b, S, T) \/ (Holds(a, S) /\ Holds(b, T))
    /\ \A S, T : FirstIs(c, T, S) <=> FirstIs(a, T, S) \/ (~Holds(a, T) /\ FirstIs(b, T, S))
    /\ \A S, T : LastIs(c, T, S) <=> LastIs(b, T, S) \/ (~Holds(b, T) /\ LastIs(a, T, S))

\* A sequence followed by another one, in the words of the invariant.
LEMMA Concat ==
  ASSUME NEW X, NEW a \in Seq(X), NEW b \in Seq(X)
  PROVE  a \o b \in Seq(X) /\ Joins(a \o b, a, b)
<1> DEFINE c == a \o b
<1>1. /\ c \in Seq(X) /\ Len(c) = Len(a) + Len(b) /\ Len(a) \in Nat /\ Len(b) \in Nat
      /\ DOMAIN c = 1..(Len(a) + Len(b)) /\ DOMAIN a = 1..Len(a) /\ DOMAIN b = 1..Len(b)
      /\ \A i \in 1..Len(a) : c[i] = a[i]
      /\ \A i \in 1..Len(b) : c[i + Len(a)] = b[i]
      /\ \A i \in 1..(Len(a) + Len(b)) : i \in 1..Len(a) \/ (i - Len(a) \in 1..Len(b) /\ c[i] = b[i - Len(a)])
  OBVIOUS
<1> HIDE DEF c
<1> DEFINE la == Len(a)
           lb == Len(b)
<1>2. /\ la \in Nat /\ lb \in Nat
      /\ DOMAIN c = 1..(la + lb) /\ DOMAIN a = 1..la /\ DOMAIN b = 1..lb
      /\ \A i \in 1..la : i \in 1..(la + lb) /\ c[i] = a[i]
      /\ \A i \in 1..lb : i + la \in 1..(la + lb) /\ c[i + la] = b[i]
      /\ \A i \in 1..(la + lb) : i \in 1..la \/ (i - la \in 1..lb /\ c[i] = b[i - la])
  BY <1>1
<1> HIDE DEF la, lb
<1>3. \A S : Holds(c, S) <=> Holds(a, S) \/ Holds(b, S)
  BY <1>2 DEF Holds
<1>4. \A S, T : Then(c, S, T) <=> Then(a, S, T) \/ Then(b, S, T) \/ (Holds(a, S) /\ Holds(b, T))
  <2> TAKE S, T
  <2>1. ASSUME Then(c, S, T) PROVE Then(a, S, T) \/ Then(b, S, T) \/ (Holds(a, S) /\ Holds(b, T))
    <3>1. PICK i \in DOMAIN c, j \in DOMAIN c : i < j /\ c[i] \in S /\ c[j] \in T
      BY <2>1 DEF Then
    <3>2. CASE j \in 1..la
      <4>1. i \in 1..la  BY <3>1, <3>2, <1>2
      <4> QED  BY <3>1, <3>2, <4>1, <1>2 DEF Then
    <3>3. CASE j - la \in 1..lb /\ c[j] = b[j - la]
      <4>1. CASE i \in 1..la
        <5>1. Holds(a, S)  BY <3>1, <4>1, <1>2 DEF Holds
        <5>2. Holds(b, T)  BY <3>1, <3>3, <1>2 DEF Holds
        <5> QED  BY <5>1, <5>2
      <4>2. CASE i - la \in 1..lb /\ c[i] = b[i - la]
        BY <3>1, <3>3, <4>2, <1>2 DEF Then
      <4> QED  BY <3>1, <4>1, <4>2, <1>2
    <3> QED  BY <3>1, <3>2, <3>3, <1>2
  <2>2. ASSUME Then(a, S, T) PROVE Then(c, S, T)
    BY <2>2, <1>2 DEF Then
  <2>3. ASSUME Then(b, S, T) PROVE Then(c, S, T)
    <3>1. PICK i \in DOMAIN b, j \in DOMAIN b : i < j /\ b[i] \in S /\ b[j] \in T
      BY <2>3 DEF Then
    <3>2. /\ i + la \in DOMAIN c /\ j + la \in DOMAIN c /\ i + la < j + la
          /\ c[i + la] \in S /\ c[j + la] \in T
      BY <3>1, <1>2
    <3> QED  BY <3>2 DEF Then
  <2>4. ASSUME Holds(a, S), Holds(b, T) PROVE Then(c, S, T)
    <3>1. PICK i \in DOMAIN a, j \in DOMAIN b : a[i] \in S /\ b[j] \in T
      BY <2>4 DEF Holds
    <3>2. /\ i \in DOMAIN c /\ j + la \in DOMAIN c /\ i < j + la
          /\ c[i] \in S /\ c[j + la] \in T
      BY <3>1, <1>2
    <3> QED  BY <3>2 DEF Then
  <2> QED  BY <2>1, <2>2, <2>3, <2>4
<1>5. \A S, T : FirstIs(c, T, S) <=> FirstIs(a, T, S) \/ (~Holds(a, T) /\ FirstIs(b, T, S))
  <2> TAKE S, T
  <2>1. ASSUME FirstIs(c, T, S) PROVE FirstIs(a, T, S) \/ (~Holds(a, T) /\ FirstIs(b, T, S))
    <3>1. PICK i \in DOMAIN c : c[i] \in S /\ \A j \in DOMAIN c : j < i => c[j] \notin T
      BY <2>1 DEF FirstIs
    <3>2. CASE i \in 1..la
      BY <3>1, <3>2, <1>2 DEF FirstIs
    <3>3. CASE i - la \in 1..lb /\ c[i] = b[i - la]
      <4>1. ~Holds(a, T)  BY <3>1, <3>3, <1>2 DEF Holds
      <4>2. ASSUME NEW j \in DOMAIN b, j < i - la PROVE b[j] \notin T
        <5>1. j + la \in DOMAIN c /\ j + la < i /\ c[j + la] = b[j]  BY <3>3, <4>2, <1>2
        <5> QED  BY <3>1, <5>1
      <4>3. FirstIs(b, T, S)  BY <3>1, <3>3, <4>2, <1>2 DEF FirstIs
      <4> QED  BY <4>1, <4>3
    <3> QED  BY <3>1, <3>2, <3>3, <1>2
  <2>2. ASSUME FirstIs(a, T, S) PROVE FirstIs(c, T, S)
    <3>1. PICK i \in DOMAIN a : a[i] \in S /\ \A j \in DOMAIN a : j < i => a[j] \notin T
      BY <2>2 DEF FirstIs
    <3>2. ASSUME NEW j \in DOMAIN c, j < i PROVE c[j] \notin T
      BY <3>1, <3>2, <1>2
    <3> QED  BY <3>1, <3>2, <1>2 DEF FirstIs
  <2>3. ASSUME ~Holds(a, T), FirstIs(b, T, S) PROVE FirstIs(c, T, S)
    <3>1. PICK i \in DOMAIN b : b[i] \in S /\ \A j \in DOMAIN b : j < i => b[j] \notin T
      BY <2>3 DEF FirstIs
    <3>2. ASSUME NEW j \in DOMAIN c, j < i + la PROVE c[j] \notin T
      <4>1. CASE j \in 1..la  BY <4>1, <2>3, <1>2 DEF Holds
      <4>2. CASE j - la \in 1..lb /\ c[j] = b[j - la]
        <5>1. j - la < i  BY <3>1, <3>2, <4>2, <1>2
        <5> QED  BY <3>1, <4>2, <5>1, <1>2
      <4> QED  BY <4>1, <4>2, <1>2
    <3>3. i + la \in DOMAIN c /\ c[i + la] \in S  BY <3>1, <1>2
    <3> QED  BY <3>2, <3>3 DEF FirstIs
  <2> QED  BY <2>1, <2>2, <2>3
<1>6. \A S, T : LastIs(c, T, S) <=> LastIs(b, T, S) \/ (~Holds(b, T) /\ LastIs(a, T, S))
  <2> TAKE S, T
  <2>1. ASSUME LastIs(c, T, S) PROVE LastIs(b, T, S) \/ (~Holds(b, T) /\ LastIs(a, T, S))
    <3>1. PICK i \in DOMAIN c : c[i] \in S /\ \A j \in DOMAIN c : j > i => c[j] \notin T
      BY <2>1 DEF LastIs
    <3>2. CASE i \in 1..la
      <4>1. ~Holds(b, T)
        <5>1. ASSUME NEW j \in DOMAIN b PROVE b[j] \notin T
          <6>1. j + la \in DOMAIN c /\ j + la > i /\ c[j + la] = b[j]  BY <3>2, <1>2
          <6> QED  BY <3>1, <6>1
        <5> QED  BY <5>1 DEF Holds
      <4>2. LastIs(a, T, S)  BY <3>1, <3>2, <1>2 DEF LastIs
      <4> QED  BY <4>1, <4>2
    <3>3. CASE i - la \in 1..lb /\ c[i] = b[i - la]
      <4>2. ASSUME NEW j \in DOMAIN b, j > i - la PROVE b[j] \notin T
        <5>1. j + la \in DOMAIN c /\ j + la > i /\ c[j + la] = b[j]  BY <3>3, <4>2, <1>2
        <5> QED  BY <3>1, <5>1
      <4>3. LastIs(b, T, S)  BY <3>1, <3>3, <4>2, <1>2 DEF LastIs
      <4> QED  BY <4>3
    <3> QED  BY <3>1, <3>2, <3>3, <1>2
  <2>2. ASSUME LastIs(b, T, S) PROVE LastIs(c, T, S)
    <3>1. PICK i \in DOMAIN b : b[i] \in S /\ \A j \in DOMAIN b : j > i => b[j] \notin T
      BY <2>2 DEF LastIs
    <3>2. ASSUME NEW j \in DOMAIN c, j > i + la PROVE c[j] \notin T
      <4>1. j - la \in 1..lb /\ c[j] = b[j - la] /\ j - la > i  BY <3>1, <3>2, <1>2
      <4> QED  BY <3>1, <4>1, <1>2
    <3>3. i + la \in DOMAIN c /\ c[i + la] \in S  BY <3>1, <1>2
    <3> QED  BY <3>2, <3>3 DEF LastIs
  <2>3. ASSUME ~Holds(b, T), LastIs(a, T, S) PROVE LastIs(c, T, S)
    <3>1. PICK i \in DOMAIN a : a[i] \in S /\ \A j \in DOMAIN a : j > i => a[j] \notin T
      BY <2>3 DEF LastIs
    <3>2. ASSUME NEW j \in DOMAIN c, j > i PROVE c[j] \notin T
      BY <3>1, <3>2, <2>3, <1>2 DEF Holds
    <3> QED  BY <3>1, <3>2, <1>2 DEF LastIs
  <2> QED  BY <2>1, <2>2, <2>3
<1> QED  BY <1>1, <1>3, <1>4, <1>5, <1>6 DEF Joins, c

\* A channel without a message, and one that holds a single one.
LEMMA Short ==
  /\ \A S : ~Holds(<<>>, S)
  /\ \A S, T : ~Then(<<>>, S, T) /\ ~FirstIs(<<>>, T, S) /\ ~LastIs(<<>>, T, S)
  /\ \A m, S : Holds(<<m>>, S) <=> m \in S
  /\ \A m, S, T : /\ ~Then(<<m>>, S, T)
                  /\ FirstIs(<<m>>, T, S) <=> m \in S
                  /\ LastIs(<<m>>, T, S) <=> m \in S
  BY DEF Holds, Then, FirstIs, LastIs

\* A sequence is its head followed by its tail.
LEMMA PopOne ==
  ASSUME NEW X, NEW q \in Seq(X), q # <<>>
  PROVE  Head(q) \in X /\ Tail(q) \in Seq(X) /\ q = <<Head(q)>> \o Tail(q)
<1>1. Head(q) \in X /\ Tail(q) \in Seq(X)  BY HeadTailProperties
<1>2. q = <<Head(q)>> \o Tail(q)  OBVIOUS
<1> QED  BY <1>1, <1>2

\* What comes in an order is there.
LEMMA ThenHolds == \A q, S, T : Then(q, S, T) => Holds(q, S) /\ Holds(q, T)
  BY DEF Then, Holds

\* The fields of a message, and when it is of a class of messages.
LEMMA MessageFacts ==
  /\ \A m \in Messages : m.type \in DownTypes \cup UpTypes /\ m.n \in Nums /\ m.arg \in Args /\ m.dsn \in Nums
  /\ \A m \in Messages : \A types, ns : m \in Of(types, ns) <=> m.type \in types /\ m.n \in ns
  BY DEF Messages, All, Of

\* A message without an argument (Msg).
LEMMA Plain ==
  ASSUME NEW t \in DownTypes \cup UpTypes, NEW n \in Nums
  PROVE  /\ Msg(t, n) \in Messages /\ Msg(t, n).type = t /\ Msg(t, n).n = n
         /\ Msg(t, n).arg = ""
<1> DEFINE e == ""
           z == 0
<1>1. Msg(t, n) = [type |-> t, n |-> n, arg |-> e, dsn |-> z]  BY DEF Msg
<1>2. e \in Args /\ z \in Nums /\ e = ""  BY NavigationAssumption DEF Args, Nums
<1> HIDE DEF e, z
<1> DEFINE m == Msg(t, n)
<1>3. m = [type |-> t, n |-> n, arg |-> e, dsn |-> z]  BY <1>1
<1> HIDE DEF m
<1>4. m.type = t /\ m.n = n /\ m.arg = e  BY <1>3
<1>5. m \in Messages  BY <1>2, <1>3 DEF Messages, All, Of
<1>6. m.arg = ""  BY <1>2, <1>4
<1> QED  BY <1>4, <1>5, <1>6 DEF m

\* A message with an argument: how an answer ended, or of which kind a navigation is.
LEMMA WithArg ==
  ASSUME NEW t \in DownTypes \cup UpTypes, NEW n \in Nums, NEW a \in Args
  PROVE  /\ [Msg(t, n) EXCEPT !.arg = a] \in Messages
         /\ [Msg(t, n) EXCEPT !.arg = a].type = t /\ [Msg(t, n) EXCEPT !.arg = a].n = n
         /\ [Msg(t, n) EXCEPT !.arg = a].arg = a
<1>1. [Msg(t, n) EXCEPT !.arg = a] = [type |-> t, n |-> n, arg |-> a, dsn |-> 0]
  <2> DEFINE e == ""
  <2>1. Msg(t, n) = [type |-> t, n |-> n, arg |-> e, dsn |-> 0]  BY DEF Msg
  <2> HIDE DEF e
  <2> QED  BY <2>1
<1>2. 0 \in Nums  BY NavigationAssumption DEF Nums
<1> QED  BY <1>1, <1>2 DEF Messages, All, Of

\* A message with the sequence number of a document.
LEMMA WithDsn ==
  ASSUME NEW t \in DownTypes \cup UpTypes, NEW n \in Nums, NEW a \in Args, NEW k \in Nums
  PROVE  LET m == [type |-> t, n |-> n, arg |-> a, dsn |-> k] IN
         m \in Messages /\ m.type = t /\ m.n = n
  BY DEF Messages, All, Of

\* Channel r is channel q with the message m behind it, if c; q is r with m before it.
Adds(r, q, c, m) ==
    /\ r \in Seq(Messages)
    /\ \A S : Holds(r, S) <=> Holds(q, S) \/ (c /\ m \in S)
    /\ \A S, T : Then(r, S, T) <=> Then(q, S, T) \/ (c /\ m \in T /\ Holds(q, S))
    /\ \A S, T : FirstIs(r, T, S) <=> FirstIs(q, T, S) \/ (c /\ m \in S /\ ~Holds(q, T))
    /\ \A S, T : LastIs(r, T, S) <=> (c /\ m \in S) \/ (~(c /\ m \in T) /\ LastIs(q, T, S))
Pops(q, m, r) ==
    /\ m \in Messages /\ r \in Seq(Messages)
    /\ \A S : Holds(q, S) <=> m \in S \/ Holds(r, S)
    /\ \A S, T : Then(q, S, T) <=> Then(r, S, T) \/ (m \in S /\ Holds(r, T))
    /\ \A S, T : FirstIs(q, T, S) <=> m \in S \/ (m \notin T /\ FirstIs(r, T, S))
    /\ \A S, T : LastIs(q, T, S) <=> LastIs(r, T, S) \/ (~Holds(r, T) /\ m \in S)

\* A channel whose head is taken, in the words of the invariant.
LEMMA Popping ==
  ASSUME NEW q \in Seq(Messages), q # <<>>
  PROVE  Pops(q, Head(q), Tail(q))
<1>1. Head(q) \in Messages /\ Tail(q) \in Seq(Messages) /\ q = <<Head(q)>> \o Tail(q)
  BY PopOne
<1>2. <<Head(q)>> \in Seq(Messages)  BY <1>1
<1>3. Joins(<<Head(q)>> \o Tail(q), <<Head(q)>>, Tail(q))  BY <1>1, <1>2, Concat
<1>4. Joins(q, <<Head(q)>>, Tail(q))  BY <1>1, <1>3
<1> QED  BY <1>1, <1>4, Short DEF Joins, Pops

\* A channel to which one message is added or none, in the words of the invariant.
LEMMA Adding ==
  ASSUME NEW q \in Seq(Messages), NEW c \in BOOLEAN, NEW m, c => m \in Messages
  PROVE  OneIf(c, m) \in Seq(Messages) /\ Adds(q \o OneIf(c, m), q, c, m)
<1>1. CASE c
  <2>1. <<m>> \in Seq(Messages) /\ OneIf(c, m) = <<m>>  BY <1>1 DEF OneIf
  <2>2. q \o <<m>> \in Seq(Messages) /\ Joins(q \o <<m>>, q, <<m>>)  BY <2>1, Concat
  <2> QED  BY <1>1, <2>1, <2>2, Short DEF Joins, Adds
<1>2. CASE ~c
  <2>1. <<>> \in Seq(Messages) /\ OneIf(c, m) = <<>>  BY <1>2 DEF OneIf
  <2>2. q \o <<>> \in Seq(Messages) /\ Joins(q \o <<>>, q, <<>>)  BY <2>1, Concat
  <2> QED  BY <1>2, <2>1, <2>2, Short DEF Joins, Adds
<1> QED  BY <1>1, <1>2

-----------------------------------------------------------------------------
(* The inductive invariant.                                                *)

\* The messages that the invariant tells apart, those of all navigations and those of n.
Ends == All({"unload", "undo", "delete"})
Unloads == All({"unload"})
Deletes == All({"delete"})
Sames == All({"same"})
Asks == All({"commit"})
Preparations == All({"commit", "bind"})
BindOf(n) == One("bind", n)
AskOf(n) == One("commit", n)
SameOf(n) == One("same", n)
DropOf(n) == One("dropped", n)
Blanks == Of({"bind", "commit"}, {0})

Shown == All({"begin", "didCommitSame", "didCommit"})
Commits == All({"didCommit"})
RealCommits == Of({"didCommit"}, Navs)
InitialCommits == {m \in Commits : m.n = 0 \/ m.arg = "same global"}
Unloadeds == All({"unloaded"})
BeginOf(n) == One("begin", n)
CommitOf(n) == One("didCommit", n)
EndOf(n) == One("disconnected", n)
ReturnOf(n) == Of({"didCommit", "disconnected"}, {n})
AnswerOf(n) == One("processed", n)

HostRecs == [life: HostStates, live: BOOLEAN, waiting: BOOLEAN, pend: Nums, closed: BOOLEAN,
             requests: SUBSET Navs, same: SUBSET Navs, empty: SUBSET Navs, loading: BOOLEAN,
             dsn: Nums, pos: Nums]
FrameRecs == [life: FrameStates, client: Nums, mhtml: Nums, nav: Nums, docLoading: BOOLEAN,
              started: BOOLEAN, initial: BOOLEAN, script: BOOLEAN, dsn: Nums, pos: Nums]

Types ==
    /\ nav \in [Navs -> [from: Hosts \cup {None}, kind: NavKinds]]
    /\ next \in 1..(MaxNavs + 1) /\ crashes \in Nat
    /\ ongoing \in Nums /\ current \in Hosts /\ initial \in BOOLEAN
    /\ host \in [Hosts -> HostRecs] /\ frame \in [Hosts -> FrameRecs]
    /\ down \in [Hosts -> Seq(Messages)] /\ up \in [Hosts -> Seq(Messages)]
    /\ bad \subseteq BrokenChecks

InSpec(s) == s.life \in {"Speculative", "PendingCommit"}

\* The life of host s, of its frame f and of their channels d and u.
HostLives(h, s, f, d, u) ==
    /\ s.life = "Active" <=> h = current
    /\ s.life = "none" => f.life = "none" /\ f.mhtml = 0 /\ d = <<>> /\ u = <<>>
    /\ s.live => s.life \in {"Speculative", "PendingCommit", "Active"} /\ ~Holds(d, Ends)
    /\ InSpec(s) => s.live /\ f.life \in {"provisional", "attached"} /\ s.same = {}
    /\ ~s.live => s.requests = {} /\ s.same = {}
    /\ s.life = "Active" /\ ~s.live => d = <<>> /\ u = <<>> /\ f.life = "gone" /\ f.mhtml = 0
    /\ s.life = "Active" /\ s.live => f.life = "attached"
    /\ s.waiting => h = current /\ ongoing = 0 /\ s.same = {}
    /\ s.pend # 0 => s.waiting /\ (s.live \/ s.closed)
    /\ s.life \in {"none", "Speculative", "PendingCommit"} => h # First
    /\ s.life = "Speculative" => /\ f.life = "provisional" /\ f.mhtml = 0 /\ f.client = 0
                                 /\ s.requests = {} /\ ~Holds(d, Preparations)
ChannelsLive(s, f, d, u) ==
    /\ ~Holds(d, Blanks)
    /\ Holds(d, Unloads) \/ Holds(u, Unloadeds)
          => s.life \in {"PendingDeletion", "deleted"}
    /\ Holds(d, Sames) => f.life = "attached" /\ ~f.initial /\ ~Then(d, Ends, Sames)
    /\ Holds(d, Deletes) => /\ s.life = "deleted" /\ f.life # "attached" /\ f.mhtml = 0
                                    /\ ~Holds(d, Asks)
    /\ InSpec(s) /\ f.life = "provisional" => ~Holds(u, Shown)
    /\ InSpec(s) /\ f.life = "attached" => FirstIs(u, Shown, Commits)
InitialLives(h, s, f, u) ==
    /\ f.life = "attached" /\ f.initial => /\ h = First /\ ~Holds(u, RealCommits)
                                           /\ s.life = "Active" => initial
                                           /\ s.live => s.dsn = 0
    /\ Holds(u, InitialCommits) => /\ h = First /\ ~Then(u, RealCommits, InitialCommits)
                                   /\ s.life = "Active" => initial
Lives(h, s, f, d, u) ==
    HostLives(h, s, f, d, u) /\ ChannelsLive(s, f, d, u) /\ InitialLives(h, s, f, u)

\* The client of navigation n is in one place; w holds the navigations that frames forgot.
Tokens(s, f, d, u, w, n) ==
    /\ ~Then(u, ReturnOf(n), ReturnOf(n))
    /\ f.client = n => f.mhtml # n /\ ~Holds(u, ReturnOf(n)) /\ ~Holds(d, BindOf(n))
    /\ f.mhtml = n => ~Holds(u, ReturnOf(n)) /\ ~Holds(d, BindOf(n))
    /\ Holds(d, BindOf(n)) => /\ ~Holds(u, ReturnOf(n)) /\ ~Then(d, BindOf(n), BindOf(n))
                                   /\ Then(d, BindOf(n), AskOf(n))
    /\ f.mhtml = n \/ Holds(u, CommitOf(n)) => n \in s.requests
    /\ Holds(d, AskOf(n)) /\ (f.client = n \/ Holds(d, BindOf(n))) => n \in s.requests
    /\ n \in s.requests =>
          \/ Holds(d, AskOf(n)) /\ f.client = n
          \/ Then(d, BindOf(n), AskOf(n))
          \/ Holds(u, ReturnOf(n))
          \/ f.mhtml = n
          \/ f.client = n /\ n \in w
    /\ n \in s.same => Holds(d, SameOf(n)) \/ Holds(u, AnswerOf(n))

\* The frame f waits for its navigation n, or the end of its client is on its way.
Awaited(f, u, n) == f.client = n \/ Holds(u, EndOf(n))

Begun(s, f, u, n) ==
    /\ Holds(u, BeginOf(n)) => Awaited(f, u, n)
    /\ s.pend = n => s.closed \/ Awaited(f, u, n)

OngoingIsAwaited ==
    ongoing # 0 /\ nav[ongoing].from # None =>
        LET h == nav[ongoing].from IN
        h = current /\ host[h].live /\ Awaited(frame[h], up[h], ongoing)

\* Where a navigation is that was not asked to commit yet.
IsBegun(h, n) == Holds(up[h], BeginOf(n)) \/ host[h].pend = n
Early(n) == n >= next \/ n = ongoing \/ \E h \in Hosts : IsBegun(h, n) \/ n \in host[h].same

EarlyOnce(n) ==
    /\ n >= next => n # ongoing /\ \A h \in Hosts : ~IsBegun(h, n) /\ n \notin host[h].same
    /\ n = ongoing => \A h \in Hosts : ~IsBegun(h, n) /\ n \notin host[h].same
    /\ \A h \in Hosts :
         /\ IsBegun(h, n) => nav[n].from = h
         /\ n \in host[h].same => nav[n].from = None
         /\ ~Then(up[h], BeginOf(n), BeginOf(n))
         /\ ~Then(up[h], EndOf(n), BeginOf(n))
         /\ ~(Holds(up[h], BeginOf(n)) /\ host[h].pend = n)

EarlyIsUnsent(n) ==
    Early(n) => \A h \in Hosts :
        /\ n \notin host[h].requests
        /\ ~Holds(down[h], BindOf(n)) /\ ~Holds(down[h], AskOf(n)) /\ ~Holds(down[h], DropOf(n))
        /\ frame[h].mhtml # n /\ ~Holds(up[h], CommitOf(n))
        /\ frame[h].client = n \/ Holds(up[h], EndOf(n)) => nav[n].from = h /\ n < next

Apart ==
    \A g, h \in Hosts :
        /\ InSpec(host[g]) /\ InSpec(host[h]) => g = h
        /\ g # h => host[g].requests \cap host[h].requests = {} /\ host[g].same \cap host[h].same = {}
        /\ \A n \in host[g].requests : ~Holds(down[h], DropOf(n))

Pipes ==
    \A h \in Hosts : Lives(h, host[h], frame[h], down[h], up[h])
Clients ==
    \A h \in Hosts : host[h].live => \A n \in Navs :
        Tokens(host[h], frame[h], down[h], up[h], swallowed, n) /\ Begun(host[h], frame[h], up[h], n)

Core ==
    /\ Types /\ Pipes /\ Clients /\ OngoingIsAwaited
    /\ \A n \in Navs : EarlyOnce(n) /\ EarlyIsUnsent(n)
    /\ Apart

\* The same facts for each kind of message: q is r with m before it, r is q with m behind it if c.
DownPops(q, m, r) ==
    /\ m \in Messages /\ r \in Seq(Messages) /\ q # <<>>
    /\ Holds(q, Ends) <=> m.type \in {"unload", "undo", "delete"} \/ Holds(r, Ends)
    /\ Holds(q, Unloads) <=> m.type = "unload" \/ Holds(r, Unloads)
    /\ Holds(q, Deletes) <=> m.type = "delete" \/ Holds(r, Deletes)
    /\ Holds(q, Sames) <=> m.type = "same" \/ Holds(r, Sames)
    /\ Holds(q, Asks) <=> m.type = "commit" \/ Holds(r, Asks)
    /\ Holds(q, Blanks) <=> (m.type \in {"bind", "commit"} /\ m.n = 0) \/ Holds(r, Blanks)
    /\ Holds(q, Preparations) <=> m.type \in {"commit", "bind"} \/ Holds(r, Preparations)
    /\ Then(q, Ends, Sames)
          <=> Then(r, Ends, Sames) \/ (m.type \in {"unload", "undo", "delete"} /\ Holds(r, Sames))
    /\ \A n \in Navs :
        /\ Holds(q, BindOf(n)) <=> (m.type = "bind" /\ m.n = n) \/ Holds(r, BindOf(n))
        /\ Holds(q, AskOf(n)) <=> (m.type = "commit" /\ m.n = n) \/ Holds(r, AskOf(n))
        /\ Holds(q, SameOf(n)) <=> (m.type = "same" /\ m.n = n) \/ Holds(r, SameOf(n))
        /\ Holds(q, DropOf(n)) <=> (m.type = "dropped" /\ m.n = n) \/ Holds(r, DropOf(n))
        /\ Then(q, BindOf(n), BindOf(n))
              <=> Then(r, BindOf(n), BindOf(n)) \/ (m.type = "bind" /\ m.n = n /\ Holds(r, BindOf(n)))
        /\ Then(q, BindOf(n), AskOf(n))
              <=> Then(r, BindOf(n), AskOf(n)) \/ (m.type = "bind" /\ m.n = n /\ Holds(r, AskOf(n)))

UpAdds(r, q, c, m) ==
    /\ r \in Seq(Messages)
    /\ Holds(r, Shown)
          <=> Holds(q, Shown) \/ (c /\ m.type \in {"begin", "didCommitSame", "didCommit"})
    /\ Holds(r, Unloadeds) <=> Holds(q, Unloadeds) \/ (c /\ m.type = "unloaded")
    /\ Holds(r, RealCommits) <=> Holds(q, RealCommits) \/ (c /\ m.type = "didCommit" /\ m.n \in Navs)
    /\ Holds(r, InitialCommits)
          <=> \/ Holds(q, InitialCommits)
              \/ (c /\ m.type = "didCommit" /\ (m.n = 0 \/ m.arg = "same global"))
    /\ Then(r, RealCommits, InitialCommits)
          <=> \/ Then(q, RealCommits, InitialCommits)
              \/ /\ c /\ m.type = "didCommit" /\ (m.n = 0 \/ m.arg = "same global")
                 /\ Holds(q, RealCommits)
    /\ FirstIs(r, Shown, Commits)
          <=> FirstIs(q, Shown, Commits) \/ (c /\ m.type = "didCommit" /\ ~Holds(q, Shown))
    /\ \A n \in Navs :
        /\ Holds(r, BeginOf(n)) <=> Holds(q, BeginOf(n)) \/ (c /\ m.type = "begin" /\ m.n = n)
        /\ Holds(r, CommitOf(n)) <=> Holds(q, CommitOf(n)) \/ (c /\ m.type = "didCommit" /\ m.n = n)
        /\ Holds(r, EndOf(n)) <=> Holds(q, EndOf(n)) \/ (c /\ m.type = "disconnected" /\ m.n = n)
        /\ Holds(r, ReturnOf(n))
              <=> Holds(q, ReturnOf(n)) \/ (c /\ m.type \in {"didCommit", "disconnected"} /\ m.n = n)
        /\ Holds(r, AnswerOf(n))
              <=> Holds(q, AnswerOf(n)) \/ (c /\ m.type = "processed" /\ m.n = n)
        /\ Then(r, ReturnOf(n), ReturnOf(n))
              <=> \/ Then(q, ReturnOf(n), ReturnOf(n))
                  \/ /\ c /\ m.type \in {"didCommit", "disconnected"} /\ m.n = n
                     /\ Holds(q, ReturnOf(n))
        /\ Then(r, BeginOf(n), BeginOf(n))
              <=> Then(q, BeginOf(n), BeginOf(n)) \/ (c /\ m.type = "begin" /\ m.n = n /\ Holds(q, BeginOf(n)))
        /\ Then(r, EndOf(n), BeginOf(n))
              <=> Then(q, EndOf(n), BeginOf(n)) \/ (c /\ m.type = "begin" /\ m.n = n /\ Holds(q, EndOf(n)))
        /\ Holds(r, ReturnOf(n)) <=> Holds(r, CommitOf(n)) \/ Holds(r, EndOf(n))

\* What a frame that takes a message changes in the classes of messages that browsers send.
LEMMA PopsDown ==
  ASSUME NEW q, NEW m, NEW r, Pops(q, m, r), q # <<>>
  PROVE  DownPops(q, m, r)
<1>1. m \in Messages /\ r \in Seq(Messages)  BY DEF Pops
<1>2. m.n \in Nums  BY <1>1, MessageFacts
<1>3. \A types, ns : m \in Of(types, ns) <=> m.type \in types /\ m.n \in ns
  BY <1>1, MessageFacts
<1>4. \A S : Holds(q, S) <=> m \in S \/ Holds(r, S)  BY DEF Pops
<1>5. \A S, T : Then(q, S, T) <=> Then(r, S, T) \/ (m \in S /\ Holds(r, T))  BY DEF Pops
<1>6. /\ m \in Ends <=> m.type \in {"unload", "undo", "delete"}
      /\ m \in Unloads <=> m.type = "unload"
      /\ m \in Deletes <=> m.type = "delete"
      /\ m \in Sames <=> m.type = "same"
      /\ m \in Asks <=> m.type = "commit"
      /\ m \in Preparations <=> m.type \in {"commit", "bind"}
      /\ m \in Blanks <=> m.type \in {"bind", "commit"} /\ m.n = 0
  BY <1>2, <1>3 DEF Ends, Unloads, Deletes, Sames, Asks, Preparations, Blanks, All
<1>7. ASSUME NEW n PROVE /\ m \in BindOf(n) <=> m.type = "bind" /\ m.n = n
                         /\ m \in AskOf(n) <=> m.type = "commit" /\ m.n = n
                         /\ m \in SameOf(n) <=> m.type = "same" /\ m.n = n
                         /\ m \in DropOf(n) <=> m.type = "dropped" /\ m.n = n
  BY <1>3 DEF BindOf, AskOf, SameOf, DropOf, One
<1> QED  BY <1>1, <1>4, <1>5, <1>6, <1>7 DEF DownPops

\* When a message is of each of the classes of messages that frames send.
LEMMA InUp ==
  ASSUME NEW m \in Messages
  PROVE  /\ m \in Shown <=> m.type \in {"begin", "didCommitSame", "didCommit"}
         /\ m \in Commits <=> m.type = "didCommit"
         /\ m \in RealCommits <=> m.type = "didCommit" /\ m.n \in Navs
         /\ m \in InitialCommits <=> m.type = "didCommit" /\ (m.n = 0 \/ m.arg = "same global")
         /\ m \in Unloadeds <=> m.type = "unloaded"
         /\ \A n : /\ m \in BeginOf(n) <=> m.type = "begin" /\ m.n = n
                   /\ m \in CommitOf(n) <=> m.type = "didCommit" /\ m.n = n
                   /\ m \in EndOf(n) <=> m.type = "disconnected" /\ m.n = n
                   /\ m \in ReturnOf(n) <=> m.type \in {"didCommit", "disconnected"} /\ m.n = n
                   /\ m \in AnswerOf(n) <=> m.type = "processed" /\ m.n = n
<1>1. m.n \in Nums  BY MessageFacts
<1>2. \A types, ns : m \in Of(types, ns) <=> m.type \in types /\ m.n \in ns
  BY MessageFacts
<1>3. m \in Shown <=> m.type \in {"begin", "didCommitSame", "didCommit"}
  BY <1>1, <1>2 DEF Shown, All
<1>4. m \in Commits <=> m.type = "didCommit"  BY <1>1, <1>2 DEF Commits, All
<1>5. m \in RealCommits <=> m.type = "didCommit" /\ m.n \in Navs  BY <1>2 DEF RealCommits
<1>6. m \in InitialCommits <=> m.type = "didCommit" /\ (m.n = 0 \/ m.arg = "same global")
  BY <1>4 DEF InitialCommits
<1>7. m \in Unloadeds <=> m.type = "unloaded"  BY <1>1, <1>2 DEF Unloadeds, All
<1>8. ASSUME NEW n PROVE /\ m \in BeginOf(n) <=> m.type = "begin" /\ m.n = n
                         /\ m \in CommitOf(n) <=> m.type = "didCommit" /\ m.n = n
                         /\ m \in EndOf(n) <=> m.type = "disconnected" /\ m.n = n
                         /\ m \in ReturnOf(n) <=> m.type \in {"didCommit", "disconnected"} /\ m.n = n
                         /\ m \in AnswerOf(n) <=> m.type = "processed" /\ m.n = n
  BY <1>2 DEF BeginOf, CommitOf, EndOf, ReturnOf, AnswerOf, One
<1> QED  BY <1>3, <1>4, <1>5, <1>6, <1>7, <1>8

\* An answer of either kind.
LEMMA Returned ==
  \A q, n : Holds(q, ReturnOf(n)) <=> Holds(q, CommitOf(n)) \/ Holds(q, EndOf(n))
  BY DEF Holds, ReturnOf, CommitOf, EndOf, One, Of

\* What one message more changes in the classes of messages that frames send.
LEMMA AddsUp ==
  ASSUME NEW q, NEW c \in BOOLEAN, NEW m, NEW r, Adds(r, q, c, m), c => m \in Messages
  PROVE  UpAdds(r, q, c, m)
<1>1. r \in Seq(Messages)  BY DEF Adds
<1>2. CASE ~c
  BY <1>1, <1>2, Returned DEF Adds, UpAdds
<1>3. CASE c
  <2>1. \A S : Holds(r, S) <=> Holds(q, S) \/ m \in S  BY <1>3 DEF Adds
  <2>2. \A S, T : Then(r, S, T) <=> Then(q, S, T) \/ (m \in T /\ Holds(q, S))  BY <1>3 DEF Adds
  <2>3. \A S, T : FirstIs(r, T, S) <=> FirstIs(q, T, S) \/ (m \in S /\ ~Holds(q, T))  BY <1>3 DEF Adds
  <2> QED  BY <1>1, <1>3, <2>1, <2>2, <2>3, InUp, Returned DEF UpAdds
<1> QED  BY <1>2, <1>3

-----------------------------------------------------------------------------
(* The steps of the renderers.                                             *)

\* What the invariant says of one host, its frame and their channels.
LEMMA Situation ==
  ASSUME Core, NEW h \in Hosts
  PROVE  /\ Types /\ Lives(h, host[h], frame[h], down[h], up[h])
         /\ host[h] \in HostRecs /\ frame[h] \in FrameRecs
         /\ down[h] \in Seq(Messages) /\ up[h] \in Seq(Messages)
         /\ \A n \in Navs :
              /\ n # 0 /\ n \in Nums
              /\ host[h].live => Tokens(host[h], frame[h], down[h], up[h], swallowed, n)
<1>1. Types /\ Lives(h, host[h], frame[h], down[h], up[h])  BY DEF Core, Pipes
<1>2. /\ host[h] \in HostRecs /\ frame[h] \in FrameRecs
      /\ down[h] \in Seq(Messages) /\ up[h] \in Seq(Messages)
  BY <1>1 DEF Types
<1>3. \A n \in Navs : n # 0 /\ n \in Nums  BY NavigationAssumption DEF Navs, Nums
<1>4. \A n \in Navs : host[h].live => Tokens(host[h], frame[h], down[h], up[h], swallowed, n)
  BY DEF Core, Clients
<1> QED  BY <1>1, <1>2, <1>3, <1>4

\* A step of a frame, seen by a navigation n that it does not begin: the frame sends no client that
\* it has not, and a navigation that was not asked to commit keeps its client, or its end is told.
FrameMoves(s, f, d, u, f2, d2, u2, n) ==
    /\ Holds(d2, BindOf(n)) => Holds(d, BindOf(n))
    /\ Holds(d2, AskOf(n)) => Holds(d, AskOf(n))
    /\ Holds(d2, DropOf(n)) => Holds(d, DropOf(n))
    /\ f2.mhtml = n \/ Holds(u2, CommitOf(n))
          => f.mhtml = n \/ Holds(u, CommitOf(n)) \/ Holds(d, AskOf(n))
    /\ Awaited(f2, u2, n) => Awaited(f, u, n) \/ f.mhtml = n \/ Holds(d, BindOf(n))
    /\ Awaited(f, u, n) /\ s.live => Awaited(f2, u2, n) \/ Holds(d, AskOf(n)) \/ Holds(d, DropOf(n))
    /\ Holds(u2, BeginOf(n)) <=> Holds(u, BeginOf(n))
    /\ Then(u2, BeginOf(n), BeginOf(n)) => Then(u, BeginOf(n), BeginOf(n))
    /\ Then(u2, EndOf(n), BeginOf(n)) => Then(u, EndOf(n), BeginOf(n))

\* The frame begins navigation n.
FrameBegins(f2, d, d2, u2, n) ==
    /\ d2 = d /\ f2.client = n /\ f2.mhtml # n
    /\ ~Holds(u2, CommitOf(n)) /\ ~Holds(u2, EndOf(n))
    /\ ~Then(u2, BeginOf(n), BeginOf(n)) /\ ~Then(u2, EndOf(n), BeginOf(n))

\* Host h's frame takes a step that begins navigation k, or none if k is 0.
FrameSteps(h, k) ==
    /\ UNCHANGED <<ongoing, current, initial, host>>
    /\ \/ nav' = nav /\ next' = next /\ k = 0
       \/ next \in Navs /\ next' = next + 1 /\ \A n \in Navs \ {next} : nav'[n] = nav[n]
    /\ k # 0 => k = next /\ next' = next + 1 /\ nav'[k].from = h
    /\ \A g \in Hosts \ {h} : frame'[g] = frame[g] /\ down'[g] = down[g] /\ up'[g] = up[g]
    /\ \A n \in Navs :
        /\ n # k => FrameMoves(host[h], frame[h], down[h], up[h], frame'[h], down'[h], up'[h], n)
        /\ n = k => FrameBegins(frame'[h], down[h], down'[h], up'[h], n)

\* A step of h's frame keeps the invariant if it keeps what is said of h: the invariant relates
\* hosts through what the browser alone changes, or through a navigation that has just begun.
LEMMA FrameStepsKeep ==
  ASSUME Core, NEW h \in Hosts, NEW k, FrameSteps(h, k), Types', swallowed \subseteq swallowed',
         Lives(h, host[h], frame[h], down[h], up[h])',
         \A n \in Navs : host[h].live => Tokens(host[h], frame[h], down[h], up[h], swallowed, n)'
  PROVE  Core'
<1>1. /\ \A g \in Hosts : host'[g] = host[g]
      /\ ongoing' = ongoing /\ current' = current /\ initial' = initial
  BY DEF FrameSteps
<1>2. next \in Int
  <2>1. Types  BY DEF Core
  <2>2. next \in 1..(MaxNavs + 1)  BY <2>1 DEF Types
  <2> QED  BY ONLY <2>2, NavigationAssumption
<1>3. next <= next' /\ next' \in Int  BY <1>2 DEF FrameSteps
<1>4. Pipes'
  <2> SUFFICES ASSUME NEW g \in Hosts PROVE Lives(g, host[g], frame[g], down[g], up[g])'
    BY DEF Pipes
  <2>1. CASE g = h  BY <2>1
  <2>2. CASE g # h
    <3>1. Lives(g, host[g], frame[g], down[g], up[g])  BY DEF Core, Pipes
    <3> QED  BY <2>2, <3>1 DEF FrameSteps, Lives, HostLives, ChannelsLive, InitialLives
  <2> QED  BY <2>1, <2>2
<1>5. ASSUME NEW n \in Navs, n # k PROVE (Early(n)' => Early(n)) /\ \A g \in Hosts : IsBegun(g, n)' <=> IsBegun(g, n)
  <2>1. \A g \in Hosts : IsBegun(g, n)' <=> IsBegun(g, n)
    BY <1>1, <1>5 DEF FrameSteps, FrameMoves, IsBegun
  <2>2. n >= next' => n >= next  BY <1>2, <1>3 DEF FrameSteps, Navs
  <2> QED  BY <1>1, <2>1, <2>2 DEF Early
<1>6. ASSUME NEW n \in Navs, n = k
      PROVE  /\ n = next /\ next' = next + 1 /\ ~(n >= next') /\ nav'[n].from = h /\ ongoing # n
             /\ \A g \in Hosts : ~IsBegun(g, n) /\ n \notin host[g].same
             /\ \A g \in Hosts : /\ n \notin host[g].requests
                                 /\ ~Holds(down[g], BindOf(n)) /\ ~Holds(down[g], AskOf(n))
                                 /\ ~Holds(down[g], DropOf(n))
                                 /\ frame[g].mhtml # n /\ ~Holds(up[g], CommitOf(n))
                                 /\ frame[g].client # n /\ ~Holds(up[g], EndOf(n))
  <2>1. n # 0 /\ n \in Int  BY DEF Navs
  <2>2. n = next /\ next' = next + 1 /\ nav'[n].from = h  BY <1>6, <2>1 DEF FrameSteps
  <2>3. n >= next /\ ~(n >= next') /\ ~(n < next)  BY <1>2, <2>2
  <2>4. EarlyOnce(n) /\ EarlyIsUnsent(n) /\ Early(n)  BY <2>3 DEF Core, Early
  <2>5. ongoing # n /\ \A g \in Hosts : ~IsBegun(g, n) /\ n \notin host[g].same
    BY <2>3, <2>4 DEF EarlyOnce
  <2> QED  BY <2>2, <2>3, <2>4, <2>5 DEF EarlyIsUnsent
<1>7. ASSUME NEW n \in Navs PROVE EarlyIsUnsent(n)'
  <2> SUFFICES ASSUME Early(n)', NEW g \in Hosts
               PROVE  (/\ n \notin host[g].requests
                       /\ ~Holds(down[g], BindOf(n)) /\ ~Holds(down[g], AskOf(n)) /\ ~Holds(down[g], DropOf(n))
                       /\ frame[g].mhtml # n /\ ~Holds(up[g], CommitOf(n))
                       /\ frame[g].client = n \/ Holds(up[g], EndOf(n))
                             => nav[n].from = g /\ n < next)'
    BY DEF EarlyIsUnsent
  <2>1. CASE n # k
    <3>1. /\ n \notin host[g].requests
          /\ ~Holds(down[g], BindOf(n)) /\ ~Holds(down[g], AskOf(n)) /\ ~Holds(down[g], DropOf(n))
          /\ frame[g].mhtml # n /\ ~Holds(up[g], CommitOf(n))
          /\ frame[g].client = n \/ Holds(up[g], EndOf(n)) => nav[n].from = g /\ n < next
      BY <1>5, <2>1 DEF Core, EarlyIsUnsent
    <3>2. n < next => n < next' /\ nav'[n] = nav[n]
      BY <1>2, <1>3 DEF FrameSteps, Navs
    <3>3. CASE g # h  BY <1>1, <3>1, <3>2, <3>3 DEF FrameSteps
    <3>4. CASE g = h  BY <1>1, <2>1, <3>1, <3>2, <3>4 DEF FrameSteps, FrameMoves, Awaited
    <3> QED  BY <3>3, <3>4
  <2>2. CASE n = k
    <3>1. n < next'  BY <1>2, <1>6, <2>2
    <3>2. CASE g # h  BY <1>1, <1>6, <2>2, <3>2 DEF FrameSteps
    <3>3. CASE g = h  BY <1>1, <1>6, <2>2, <3>1, <3>3 DEF FrameSteps, FrameBegins
    <3> QED  BY <3>2, <3>3
  <2> QED  BY <2>1, <2>2
<1>8. ASSUME NEW n \in Navs PROVE EarlyOnce(n)'
  <2>1. EarlyOnce(n)  BY DEF Core
  <2>2. CASE n # k
    <3>1. n >= next' => n >= next  BY <1>2, <1>3 DEF Navs
    <3>2. \A g \in Hosts : IsBegun(g, n) \/ n \in host[g].same => nav'[n] = nav[n]
      <4>1. n = next => n >= next  BY <1>2
      <4> QED  BY <2>1, <4>1 DEF EarlyOnce, FrameSteps
    <3>3. \A g \in Hosts : /\ ~Then(up'[g], BeginOf(n), BeginOf(n))
                           /\ ~Then(up'[g], EndOf(n), BeginOf(n))
                           /\ ~(Holds(up'[g], BeginOf(n)) /\ host'[g].pend = n)
      BY <1>1, <2>1, <2>2 DEF EarlyOnce, FrameSteps, FrameMoves
    <3> QED  BY <1>1, <1>5, <2>1, <2>2, <3>1, <3>2, <3>3 DEF EarlyOnce
  <2>3. CASE n = k
    <3>1. \A g \in Hosts : IsBegun(g, n)' => g = h
      BY <1>1, <1>6, <2>3 DEF IsBegun, FrameSteps
    <3>2. \A g \in Hosts : /\ ~Then(up'[g], BeginOf(n), BeginOf(n))
                           /\ ~Then(up'[g], EndOf(n), BeginOf(n))
                           /\ ~(Holds(up'[g], BeginOf(n)) /\ host'[g].pend = n)
      BY <1>1, <1>6, <2>1, <2>3 DEF EarlyOnce, FrameSteps, FrameBegins, IsBegun
    <3> QED  BY <1>1, <1>6, <2>3, <3>1, <3>2 DEF EarlyOnce
  <2> QED  BY <2>2, <2>3
<1>9. ASSUME NEW n \in Navs, NEW g \in Hosts, n # k, Early(n), Awaited(frame[g], up[g], n), host[g].live
      PROVE  Awaited(frame'[g], up'[g], n)
  <2>1. CASE g # h  BY <1>9, <2>1 DEF FrameSteps
  <2>2. CASE g = h
    <3>1. ~Holds(down[g], AskOf(n)) /\ ~Holds(down[g], DropOf(n))
      BY <1>9 DEF Core, EarlyIsUnsent
    <3> QED  BY <1>9, <2>2, <3>1 DEF FrameSteps, FrameMoves
  <2> QED  BY <2>1, <2>2
<1>10. Clients'
  <2> SUFFICES ASSUME NEW g \in Hosts, host'[g].live, NEW n \in Navs
               PROVE  /\ Tokens(host[g], frame[g], down[g], up[g], swallowed, n)'
                      /\ Begun(host[g], frame[g], up[g], n)'
    BY DEF Clients
  <2>1. Tokens(host[g], frame[g], down[g], up[g], swallowed, n) /\ Begun(host[g], frame[g], up[g], n)
    BY <1>1 DEF Core, Clients
  <2>2. Tokens(host[g], frame[g], down[g], up[g], swallowed, n)'
    <3>1. CASE g = h  BY <1>1, <3>1
    <3>2. CASE g # h  BY <1>1, <2>1, <3>2 DEF FrameSteps, Tokens
    <3> QED  BY <3>1, <3>2
  <2>3. CASE n # k
    <3>1. ASSUME IsBegun(g, n), Awaited(frame[g], up[g], n) PROVE Awaited(frame'[g], up'[g], n)
      BY <1>1, <1>9, <2>3, <3>1 DEF Early
    <3>2. Holds(up'[g], BeginOf(n)) <=> Holds(up[g], BeginOf(n))
      BY <2>3 DEF FrameSteps, FrameMoves
    <3> QED  BY <1>1, <2>1, <2>2, <3>1, <3>2 DEF Begun, IsBegun
  <2>4. CASE n = k
    <3>1. CASE g = h  BY <2>2, <2>4, <3>1 DEF FrameSteps, FrameBegins, Begun, Awaited
    <3>2. CASE g # h  BY <1>1, <1>6, <2>2, <2>4, <3>2 DEF FrameSteps, Begun, IsBegun
    <3> QED  BY <3>1, <3>2
  <2> QED  BY <2>3, <2>4
<1>11. OngoingIsAwaited'
  <2> SUFFICES ASSUME ongoing' # 0, nav'[ongoing'].from # None
               PROVE  /\ nav'[ongoing'].from = current' /\ host'[current'].live
                      /\ Awaited(frame'[current'], up'[current'], ongoing')
    BY DEF OngoingIsAwaited
  <2>1. ongoing # 0 /\ ongoing \in Navs /\ current \in Hosts
    <3>1. ongoing \in Nums /\ current \in Hosts  BY DEF Core, Types
    <3> QED  BY <1>1, <3>1, NavigationAssumption DEF Nums, Navs
  <2>2. Early(ongoing) /\ ongoing # k  BY <1>6, <2>1 DEF Early
  <2>3. nav'[ongoing] = nav[ongoing]
    <3>1. ongoing = next => ongoing >= next  BY <1>2
    <3>2. EarlyOnce(ongoing)  BY <2>1 DEF Core
    <3> QED  BY <2>1, <3>1, <3>2 DEF EarlyOnce, FrameSteps
  <2>4. /\ nav[ongoing].from = current /\ host[current].live
        /\ Awaited(frame[current], up[current], ongoing)
    BY <1>1, <2>1, <2>3 DEF Core, OngoingIsAwaited
  <2> QED  BY <1>1, <1>9, <2>1, <2>2, <2>3, <2>4
<1>12. Apart'
  <2> SUFFICES ASSUME NEW e \in Hosts, NEW g \in Hosts
               PROVE  (/\ InSpec(host[e]) /\ InSpec(host[g]) => e = g
                       /\ e # g => /\ host[e].requests \cap host[g].requests = {}
                                   /\ host[e].same \cap host[g].same = {}
                       /\ \A n \in host[e].requests : ~Holds(down[g], DropOf(n)))'
    BY DEF Apart
  <2>1. /\ InSpec(host[e]) /\ InSpec(host[g]) => e = g
        /\ e # g => /\ host[e].requests \cap host[g].requests = {}
                    /\ host[e].same \cap host[g].same = {}
        /\ \A n \in host[e].requests : ~Holds(down[g], DropOf(n))
    BY DEF Core, Apart
  <2>2. host[e].requests \subseteq Navs  BY DEF Core, Types, HostRecs
  <2>3. ASSUME NEW n \in host[e].requests PROVE ~Holds(down'[g], DropOf(n))
    <3>1. n \in Navs /\ ~Holds(down[g], DropOf(n))  BY <2>1, <2>2
    <3>2. CASE g # h  BY <3>1, <3>2 DEF FrameSteps
    <3>3. CASE g = h /\ n # k  BY <3>1, <3>3 DEF FrameSteps, FrameMoves
    <3>4. CASE g = h /\ n = k  BY <3>1, <3>4 DEF FrameSteps, FrameBegins
    <3> QED  BY <3>2, <3>3, <3>4
  <2> QED  BY <1>1, <2>1, <2>3
<1> QED  BY <1>4, <1>7, <1>8, <1>10, <1>11, <1>12 DEF Core

\* A step of h's frame that begins nothing: what is to be shown of it.
LEMMA FrameDone ==
  ASSUME Core, NEW h \in Hosts, NEW f2, NEW d2, NEW u2,
         UNCHANGED rendererOnly, swallowed \subseteq swallowed', bad' \subseteq bad \cup BrokenChecks,
         frame' \in [Hosts -> FrameRecs], down' \in [Hosts -> Seq(Messages)],
         up' \in [Hosts -> Seq(Messages)],
         frame'[h] = f2, down'[h] = d2, up'[h] = u2,
         \A g \in Hosts \ {h} : frame'[g] = frame[g] /\ down'[g] = down[g] /\ up'[g] = up[g],
         Lives(h, host[h], f2, d2, u2),
         \A n \in Navs :
            /\ host[h].live => Tokens(host[h], f2, d2, u2, swallowed', n)
            /\ FrameMoves(host[h], frame[h], down[h], up[h], f2, d2, u2, n)
  PROVE  Core'
<1>1. Types'  BY DEF Core, Types, rendererOnly
<1>2. Lives(h, host[h], frame[h], down[h], up[h])'
  BY DEF rendererOnly, Lives, HostLives, ChannelsLive, InitialLives
<1>3. \A n \in Navs : host[h].live => Tokens(host[h], frame[h], down[h], up[h], swallowed, n)'
  BY DEF rendererOnly, Tokens
<1>4. FrameSteps(h, 0)  BY DEF rendererOnly, FrameSteps, Navs
<1> QED  BY <1>1, <1>2, <1>3, <1>4, FrameStepsKeep

\* One message sent by a frame, or none.
LEMMA Sending ==
  ASSUME NEW q \in Seq(Messages), NEW c \in BOOLEAN, NEW m \in Messages
  PROVE  OneIf(c, m) \in Seq(Messages) /\ UpAdds(q \o OneIf(c, m), q, c, m)
  BY Adding, AddsUp

\* Two messages sent by a frame one after the other, each of them perhaps.
LEMMA Sending2 ==
  ASSUME NEW q \in Seq(Messages), NEW c1 \in BOOLEAN, NEW m1 \in Messages,
         NEW c2 \in BOOLEAN, NEW m2 \in Messages
  PROVE  /\ OneIf(c1, m1) \o OneIf(c2, m2) \in Seq(Messages)
         /\ \E r : UpAdds(r, q, c1, m1) /\ UpAdds(q \o (OneIf(c1, m1) \o OneIf(c2, m2)), r, c2, m2)
<1> DEFINE a == OneIf(c1, m1)
           b == OneIf(c2, m2)
<1>1. a \in Seq(Messages) /\ UpAdds(q \o a, q, c1, m1)  BY Sending
<1>2. q \o a \in Seq(Messages)  BY <1>1 DEF UpAdds
<1>3. b \in Seq(Messages) /\ UpAdds((q \o a) \o b, q \o a, c2, m2)  BY <1>2, Sending
<1> HIDE DEF a, b
<1>4. (q \o a) \o b = q \o (a \o b) /\ a \o b \in Seq(Messages)
  <2>1. a \in Seq(Messages) /\ b \in Seq(Messages)  BY <1>1, <1>3
  <2>2. (q \o a) \o b = q \o (a \o b)  BY ONLY q \in Seq(Messages), <2>1, ConcatAssociative
  <2>3. a \o b \in Seq(Messages)  BY ONLY <2>1, ConcatProperties
  <2> QED  BY <2>2, <2>3
<1>5. UpAdds(q \o (a \o b), q \o a, c2, m2)  BY <1>3, <1>4
<1> QED  BY <1>1, <1>4, <1>5 DEF a, b

\* Three messages sent by a frame one after the other, each of them perhaps.
LEMMA Sending3 ==
  ASSUME NEW q \in Seq(Messages), NEW c1 \in BOOLEAN, NEW m1 \in Messages,
         NEW c2 \in BOOLEAN, NEW m2 \in Messages, NEW c3 \in BOOLEAN, NEW m3 \in Messages
  PROVE  /\ (OneIf(c1, m1) \o OneIf(c2, m2)) \o OneIf(c3, m3) \in Seq(Messages)
         /\ \E r, s : /\ UpAdds(r, q, c1, m1) /\ UpAdds(s, r, c2, m2)
                      /\ UpAdds(q \o ((OneIf(c1, m1) \o OneIf(c2, m2)) \o OneIf(c3, m3)), s, c3, m3)
<1> DEFINE a == OneIf(c1, m1) \o OneIf(c2, m2)
           b == OneIf(c3, m3)
<1>1. a \in Seq(Messages) /\ \E r : UpAdds(r, q, c1, m1) /\ UpAdds(q \o a, r, c2, m2)
  BY Sending2
<1>2. q \o a \in Seq(Messages)
  <2> HIDE DEF a
  <2> QED  BY <1>1, ConcatProperties
<1>3. b \in Seq(Messages) /\ UpAdds((q \o a) \o b, q \o a, c3, m3)  BY <1>2, Sending
<1> HIDE DEF a, b
<1>4. (q \o a) \o b = q \o (a \o b) /\ a \o b \in Seq(Messages)
  BY <1>1, <1>3, ConcatAssociative, ConcatProperties
<1>5. UpAdds(q \o (a \o b), q \o a, c3, m3)  BY <1>3, <1>4
<1>6. \E r, s : UpAdds(r, q, c1, m1) /\ UpAdds(s, r, c2, m2) /\ UpAdds(q \o (a \o b), s, c3, m3)
  BY <1>1, <1>5
<1> QED  BY <1>4, <1>6 DEF a, b

\* Four messages sent by a frame one after the other, each of them perhaps.
LEMMA Sending4 ==
  ASSUME NEW q \in Seq(Messages), NEW c1 \in BOOLEAN, NEW m1 \in Messages,
         NEW c2 \in BOOLEAN, NEW m2 \in Messages, NEW c3 \in BOOLEAN, NEW m3 \in Messages,
         NEW c4 \in BOOLEAN, NEW m4 \in Messages
  PROVE  /\ ((OneIf(c1, m1) \o OneIf(c2, m2)) \o OneIf(c3, m3)) \o OneIf(c4, m4) \in Seq(Messages)
         /\ \E r, s, t :
               /\ UpAdds(r, q, c1, m1) /\ UpAdds(s, r, c2, m2) /\ UpAdds(t, s, c3, m3)
               /\ UpAdds(q \o (((OneIf(c1, m1) \o OneIf(c2, m2)) \o OneIf(c3, m3)) \o OneIf(c4, m4)),
                         t, c4, m4)
<1> DEFINE a == (OneIf(c1, m1) \o OneIf(c2, m2)) \o OneIf(c3, m3)
           b == OneIf(c4, m4)
<1>1. /\ a \in Seq(Messages)
      /\ \E r, s : /\ UpAdds(r, q, c1, m1) /\ UpAdds(s, r, c2, m2)
                   /\ UpAdds(q \o a, s, c3, m3)
  BY Sending3
<1>2. q \o a \in Seq(Messages)
  <2> HIDE DEF a
  <2> QED  BY <1>1, ConcatProperties
<1>3. b \in Seq(Messages) /\ UpAdds((q \o a) \o b, q \o a, c4, m4)  BY <1>2, Sending
<1> HIDE DEF a, b
<1>4. (q \o a) \o b = q \o (a \o b) /\ a \o b \in Seq(Messages)
  BY <1>1, <1>3, ConcatAssociative, ConcatProperties
<1>5. UpAdds(q \o (a \o b), q \o a, c4, m4)  BY <1>3, <1>4
<1>6. \E r, s, t : /\ UpAdds(r, q, c1, m1) /\ UpAdds(s, r, c2, m2) /\ UpAdds(t, s, c3, m3)
                   /\ UpAdds(q \o (a \o b), t, c4, m4)
  BY <1>1, <1>5
<1> QED  BY <1>4, <1>6 DEF a, b

\* The messages that frames send.
LEMMA ClosedMessage ==
  ASSUME NEW n \in Nums
  PROVE  /\ Msg("disconnected", n) \in Messages /\ Msg("disconnected", n).type = "disconnected"
         /\ Msg("disconnected", n).n = n
<1>1. "disconnected" \in DownTypes \cup UpTypes  BY DEF UpTypes
<1> QED  BY <1>1, Plain

\* The report that a frame stopped loading.
LEMMA StoppedMessage ==
  Msg("stopped", 0) \in Messages /\ Msg("stopped", 0).type = "stopped"
<1>1. "stopped" \in DownTypes \cup UpTypes /\ 0 \in Nums
  BY NavigationAssumption DEF UpTypes, Nums
<1> QED  BY <1>1, Plain

\* A message that is always sent.
LEMMA SentAlone == \A m : <<m>> = OneIf(TRUE, m)
  BY DEF OneIf

\* Two messages that are always sent.
LEMMA SentTogether ==
  ASSUME NEW m1 \in Messages, NEW m2 \in Messages
  PROVE  <<m1>> \o <<m2>> = <<m1, m2>>
<1>1. <<m1>> \in Seq(Messages) /\ <<m2>> \in Seq(Messages) /\ <<m1, m2>> \in Seq(Messages)
  OBVIOUS
<1>2. Len(<<m1>>) = 1 /\ Len(<<m2>>) = 1 /\ Len(<<m1, m2>>) = 2  OBVIOUS
<1>3. /\ <<m1>> \o <<m2>> \in Seq(Messages) /\ Len(<<m1>> \o <<m2>>) = 2
      /\ \A i \in 1..2 : (<<m1>> \o <<m2>>)[i] = IF i <= 1 THEN <<m1>>[i] ELSE <<m2>>[i - 1]
  BY <1>1, <1>2, ConcatProperties
<1>4. \A i \in 1..2 : (<<m1>> \o <<m2>>)[i] = <<m1, m2>>[i]
  BY <1>3
<1> QED  BY <1>1, <1>2, <1>3, <1>4, SeqEqual

\* The report of the document of about:blank that keeps the global object of the initial one.
LEMMA GlobalMessage ==
  LET m == [Msg("didCommit", 0) EXCEPT !.arg = "same global"] IN
  m \in Messages /\ m.type = "didCommit" /\ m.n = 0 /\ m.arg = "same global"
<1> DEFINE t == "didCommit"
           a == "same global"
<1>1. t \in DownTypes \cup UpTypes /\ 0 \in Nums /\ a \in Args
  BY NavigationAssumption DEF UpTypes, Nums, Args
<1> HIDE DEF t, a
<1>2. /\ [Msg(t, 0) EXCEPT !.arg = a] \in Messages
      /\ [Msg(t, 0) EXCEPT !.arg = a].type = t /\ [Msg(t, 0) EXCEPT !.arg = a].n = 0
      /\ [Msg(t, 0) EXCEPT !.arg = a].arg = a
  BY <1>1, WithArg
<1> QED  BY <1>2 DEF t, a

\* What Receive changes: the frame of h takes the head of its channel.
LEMMA Received ==
  ASSUME Types, NEW h \in Hosts, NEW t, Receive(h, t)
  PROVE  /\ DownPops(down[h], Head(down[h]), down'[h]) /\ Head(down[h]).type = t
         /\ Head(down[h]) \in Messages /\ Head(down[h]).n \in Nums
         /\ down' \in [Hosts -> Seq(Messages)]
         /\ \A g \in Hosts \ {h} : down'[g] = down[g]
<1>1. down \in [Hosts -> Seq(Messages)]  BY DEF Types
<1>2. down[h] \in Seq(Messages) /\ down[h] # <<>> /\ Head(down[h]).type = t
  BY <1>1 DEF Receive, Next1
<1>3. Pops(down[h], Head(down[h]), Tail(down[h]))  BY <1>2, Popping
<1>4. down' = [down EXCEPT ![h] = Tail(down[h])]  BY DEF Receive, Popped
<1>5. Tail(down[h]) \in Seq(Messages) /\ Head(down[h]) \in Messages  BY <1>3 DEF Pops
<1>6. DownPops(down[h], Head(down[h]), Tail(down[h]))  BY <1>2, <1>3, PopsDown
<1>7. Head(down[h]).n \in Nums  BY <1>5, MessageFacts
<1> QED  BY <1>1, <1>2, <1>4, <1>5, <1>6, <1>7

\* What Report changes: the frame of h becomes f and sends ms.
LEMMA Reported ==
  ASSUME Types, NEW h \in Hosts, NEW f \in FrameRecs, NEW ms \in Seq(Messages), Report(h, f, ms)
  PROVE  /\ frame' \in [Hosts -> FrameRecs] /\ frame'[h] = f
         /\ up' \in [Hosts -> Seq(Messages)] /\ up'[h] = up[h] \o ms
         /\ \A g \in Hosts \ {h} : frame'[g] = frame[g] /\ up'[g] = up[g]
<1>1. up[h] \o ms \in Seq(Messages)  BY ConcatProperties DEF Types
<1> QED  BY <1>1 DEF Types, Report, Send

\* Bind: the client of a navigation arrives and replaces the one the frame had.
LEMMA BindKeeps ==
  ASSUME Core, NEW h \in Hosts, Bind(h)
  PROVE  Core'
<1> DEFINE s == host[h]
           f == frame[h]
           f2 == frame'[h]
           d == down[h]
           d2 == down'[h]
           u == up[h]
           u2 == up'[h]
           m == Head(down[h])
           c == f.client # 0
           mc == Msg("disconnected", f.client)
<1>1. /\ Types /\ Lives(h, s, f, d, u) /\ s \in HostRecs /\ f \in FrameRecs
      /\ d \in Seq(Messages) /\ u \in Seq(Messages)
      /\ \A n \in Navs : n # 0 /\ n \in Nums /\ (s.live => Tokens(s, f, d, u, swallowed, n))
  BY Situation
<1>2. /\ DownPops(d, m, d2) /\ m.type = "bind" /\ m.n \in Nums
      /\ down' \in [Hosts -> Seq(Messages)] /\ \A g \in Hosts \ {h} : down'[g] = down[g]
  BY <1>1, Received DEF Bind
<1>3. [f EXCEPT !.client = m.n] \in FrameRecs
  BY <1>1, <1>2 DEF FrameRecs
<1>4. c \in BOOLEAN /\ mc \in Messages /\ mc.type = "disconnected" /\ mc.n = f.client
  <2>1. f.client \in Nums  BY <1>1 DEF FrameRecs
  <2> QED  BY <2>1, ClosedMessage
<1>5. Closed(f.client) \in Seq(Messages) /\ UpAdds(u \o Closed(f.client), u, c, mc)
  BY <1>1, <1>4, Sending DEF Closed
<1>6. /\ frame' \in [Hosts -> FrameRecs] /\ f2 = [f EXCEPT !.client = m.n]
      /\ up' \in [Hosts -> Seq(Messages)] /\ UpAdds(u2, u, c, mc)
      /\ \A g \in Hosts \ {h} : frame'[g] = frame[g] /\ up'[g] = up[g]
  <2>1. Report(h, [f EXCEPT !.client = m.n], Closed(f.client))  BY DEF Bind
  <2> HIDE DEF s, d, d2, u2, m, c, mc
  <2> QED  BY <1>1, <1>3, <1>5, <2>1, Reported DEF u2
<1>7. f2.life = f.life /\ f2.client = m.n /\ f2.mhtml = f.mhtml /\ f2.initial = f.initial
  BY <1>1, <1>6 DEF FrameRecs
<1>8. UNCHANGED rendererOnly /\ swallowed' = swallowed /\ bad' = bad
  BY DEF Bind
<1>9. c <=> f.client # 0  OBVIOUS
<1> HIDE DEF s, f, f2, d, d2, u, u2, m, c, mc
<1>10. Lives(h, s, f2, d2, u2)
  BY <1>1, <1>2, <1>4, <1>6, <1>7, <1>9
     DEF Lives, HostLives, ChannelsLive, InitialLives, DownPops, UpAdds
<1>11. ASSUME NEW n \in Navs, s.live PROVE Tokens(s, f2, d2, u2, swallowed', n)
  BY <1>1, <1>2, <1>4, <1>6, <1>7, <1>8, <1>9, <1>11 DEF Tokens, DownPops, UpAdds
<1>12. ASSUME NEW n \in Navs PROVE FrameMoves(s, f, d, u, f2, d2, u2, n)
  BY <1>1, <1>2, <1>4, <1>6, <1>7, <1>9, <1>12 DEF FrameMoves, Awaited, DownPops, UpAdds
<1> QED
  BY <1>2, <1>6, <1>8, <1>10, <1>11, <1>12, FrameDone DEF s, f, f2, d, d2, u, u2

\* Commit: the frame takes a commit, and the document commits, waits for its body or is refused.
LEMMA CommitKeeps ==
  ASSUME Core, NEW h \in Hosts, Commit(h)
  PROVE  Core'
<1> DEFINE s == host[h]
           f == frame[h]
           f2 == frame'[h]
           d == down[h]
           d2 == down'[h]
           u == up[h]
           u2 == up'[h]
           m == Head(down[h])
<1>1. /\ Types /\ Lives(h, s, f, d, u) /\ s \in HostRecs /\ f \in FrameRecs
      /\ d \in Seq(Messages) /\ u \in Seq(Messages)
      /\ \A n \in Navs : n # 0 /\ n \in Nums /\ (s.live => Tokens(s, f, d, u, swallowed, n))
  BY Situation
<1>2. /\ DownPops(d, m, d2) /\ m.type = "commit" /\ m.n \in Nums
      /\ down' \in [Hosts -> Seq(Messages)] /\ \A g \in Hosts \ {h} : down'[g] = down[g]
  BY <1>1, Received DEF Commit
<1>3. UNCHANGED rendererOnly /\ bad' = bad
  BY DEF Commit
<1>4. m.n \in Navs
  <2>1. m.n # 0  BY <1>1, <1>2 DEF Lives, ChannelsLive, DownPops
  <2> QED  BY <1>2, <2>1, NavigationAssumption DEF Nums, Navs
<1>5. ASSUME frame' \in [Hosts -> FrameRecs], up' \in [Hosts -> Seq(Messages)],
             \A g \in Hosts \ {h} : frame'[g] = frame[g] /\ up'[g] = up[g],
             swallowed \subseteq swallowed',
             Lives(h, s, f2, d2, u2),
             \A n \in Navs : /\ s.live => Tokens(s, f2, d2, u2, swallowed', n)
                             /\ FrameMoves(s, f, d, u, f2, d2, u2, n)
      PROVE  Core'
  BY <1>2, <1>3, <1>5, FrameDone
<1>6. f.client \in Nums /\ f.mhtml \in Nums  BY <1>1 DEF FrameRecs
<1>7. CASE f.client # m.n /\ UNCHANGED <<frame, up, swallowed>>
  <2>1. /\ frame' \in [Hosts -> FrameRecs] /\ up' \in [Hosts -> Seq(Messages)]
        /\ f2 = f /\ u2 = u /\ swallowed' = swallowed
        /\ \A g \in Hosts \ {h} : frame'[g] = frame[g] /\ up'[g] = up[g]
    BY <1>1, <1>7 DEF Types
  <2> HIDE DEF s, f, f2, d, d2, u, u2, m
  <2>2. Lives(h, s, f2, d2, u2)
    BY <1>1, <1>2, <2>1 DEF Lives, HostLives, ChannelsLive, InitialLives, DownPops
  <2>3. ASSUME NEW n \in Navs, s.live PROVE Tokens(s, f2, d2, u2, swallowed', n)
    BY <1>1, <1>2, <1>7, <2>1, <2>3 DEF Tokens, DownPops
  <2>4. ASSUME NEW n \in Navs PROVE FrameMoves(s, f, d, u, f2, d2, u2, n)
    BY <1>2, <2>1, <2>4 DEF FrameMoves, DownPops
  <2> QED  BY <1>5, <2>1, <2>2, <2>3, <2>4
<1>8. CASE /\ f.client = m.n /\ Attached(h)
           /\ swallowed' = swallowed \cup {m.n} /\ Report(h, f, Stopped(f))
  <2> DEFINE c == ~IsLoading(f)
             mc == Msg("stopped", 0)
  <2>1. c \in BOOLEAN /\ mc \in Messages /\ mc.type = "stopped"
    BY StoppedMessage DEF IsLoading
  <2>2. Stopped(f) \in Seq(Messages) /\ UpAdds(u \o Stopped(f), u, c, mc)
    BY <1>1, <2>1, Sending DEF Stopped
  <2>3. /\ frame' \in [Hosts -> FrameRecs] /\ up' \in [Hosts -> Seq(Messages)]
        /\ f2 = f /\ UpAdds(u2, u, c, mc)
        /\ \A g \in Hosts \ {h} : frame'[g] = frame[g] /\ up'[g] = up[g]
    <3> HIDE DEF s, d, d2, m, c, mc
    <3> QED  BY <1>1, <1>8, <2>2, Reported
  <2> HIDE DEF s, f, f2, d, d2, u, u2, m, c, mc
  <2>4. Lives(h, s, f2, d2, u2)
    BY <1>1, <1>2, <2>1, <2>3
       DEF Lives, HostLives, ChannelsLive, InitialLives, DownPops, UpAdds
  <2>5. ASSUME NEW n \in Navs, s.live PROVE Tokens(s, f2, d2, u2, swallowed', n)
    BY <1>1, <1>2, <1>8, <2>1, <2>3, <2>5 DEF Tokens, DownPops, UpAdds
  <2>6. ASSUME NEW n \in Navs PROVE FrameMoves(s, f, d, u, f2, d2, u2, n)
    BY <1>2, <2>1, <2>3, <2>6 DEF FrameMoves, Awaited, DownPops, UpAdds
  <2> QED  BY <1>5, <1>8, <2>3, <2>4, <2>5, <2>6
<1>9. CASE /\ f.client = m.n /\ swallowed' = swallowed
           /\ Report(h, [f EXCEPT !.client = 0, !.mhtml = m.n], Closed(f.mhtml))
  <2> DEFINE c == f.mhtml # 0
             mc == Msg("disconnected", f.mhtml)
             x == [f EXCEPT !.client = 0, !.mhtml = m.n]
  <2>1. c \in BOOLEAN /\ mc \in Messages /\ mc.type = "disconnected" /\ mc.n = f.mhtml
    BY <1>6, ClosedMessage
  <2>2. Closed(f.mhtml) \in Seq(Messages) /\ UpAdds(u \o Closed(f.mhtml), u, c, mc)
    BY <1>1, <2>1, Sending DEF Closed
  <2>3. 0 \in Nums  BY NavigationAssumption DEF Nums
  <2>4. /\ x \in FrameRecs /\ x.life = f.life /\ x.client = 0 /\ x.mhtml = m.n
        /\ x.initial = f.initial
    <3> HIDE DEF f, m
    <3> QED  BY <1>1, <1>2, <2>3 DEF FrameRecs
  <2>5. /\ frame' \in [Hosts -> FrameRecs] /\ up' \in [Hosts -> Seq(Messages)]
        /\ f2 = x /\ UpAdds(u2, u, c, mc)
        /\ \A g \in Hosts \ {h} : frame'[g] = frame[g] /\ up'[g] = up[g]
    <3>1. Report(h, x, Closed(f.mhtml))  BY <1>9
    <3> HIDE DEF s, d, d2, m, c, mc, x
    <3> QED  BY <1>1, <2>2, <2>4, <3>1, Reported
  <2>6. c <=> f.mhtml # 0  OBVIOUS
  <2> HIDE DEF s, f, f2, d, d2, u, u2, m, c, mc, x
  <2>7. Lives(h, s, f2, d2, u2)
    <3>1. HostLives(h, s, f2, d2, u2)
      BY <1>1, <1>2, <2>4, <2>5 DEF Lives, HostLives, DownPops
    <3>2. ChannelsLive(s, f2, d2, u2)
      BY <1>1, <1>2, <2>1, <2>4, <2>5 DEF Lives, ChannelsLive, DownPops, UpAdds
    <3>3. InitialLives(h, s, f2, u2)
      BY <1>1, <2>1, <2>4, <2>5 DEF Lives, InitialLives, UpAdds
    <3> QED  BY <3>1, <3>2, <3>3 DEF Lives
  <2>8. ASSUME NEW n \in Navs, s.live PROVE Tokens(s, f2, d2, u2, swallowed', n)
    BY <1>1, <1>2, <1>9, <2>1, <2>4, <2>5, <2>6, <2>8 DEF Tokens, DownPops, UpAdds
  <2>9. ASSUME NEW n \in Navs PROVE FrameMoves(s, f, d, u, f2, d2, u2, n)
    BY <1>1, <1>2, <1>9, <2>1, <2>4, <2>5, <2>6, <2>9 DEF FrameMoves, Awaited, DownPops, UpAdds
  <2> QED  BY <1>5, <1>9, <2>5, <2>7, <2>8, <2>9
<1>10. ASSUME f.client = m.n, swallowed' = swallowed, NEW a \in DidCommitArgs(h),
              Report(h, Committed(h, m.n),
                     Closed(f.mhtml) \o <<[Msg("didCommit", m.n) EXCEPT !.arg = a]>>)
       PROVE  Core'
  <2> DEFINE c == f.mhtml # 0
             mc == Msg("disconnected", f.mhtml)
             r == [Msg("didCommit", m.n) EXCEPT !.arg = a]
             x == Committed(h, m.n)
  <2>1. c \in BOOLEAN /\ mc \in Messages /\ mc.type = "disconnected" /\ mc.n = f.mhtml
    BY <1>6, ClosedMessage
  <2>2. r \in Messages /\ r.type = "didCommit" /\ r.n = m.n /\ r.arg = a
    <3>1. "didCommit" \in DownTypes \cup UpTypes /\ a \in Args
      BY DEF UpTypes, Args, DidCommitArgs
    <3> HIDE DEF m
    <3> QED  BY <1>2, <3>1, WithArg
  <2>3. a = "same global" => f.life = "attached" /\ f.initial
    BY DEF DidCommitArgs, Attached
  <2>4. 0 \in Nums  BY NavigationAssumption DEF Nums
  <2>5. /\ x \in FrameRecs /\ x.life = "attached" /\ x.client = 0 /\ x.mhtml = 0
        /\ ~x.initial
    <3>1. "attached" \in FrameStates  BY DEF FrameStates
    <3> HIDE DEF m
    <3> QED  BY <1>1, <1>2, <2>4, <3>1 DEF FrameRecs, Committed
  <2>6. \E r1 : UpAdds(r1, u, c, mc) /\ UpAdds(u2, r1, TRUE, r)
    <3> DEFINE ms == Closed(f.mhtml) \o <<r>>
    <3>1. ms = OneIf(c, mc) \o OneIf(TRUE, r)  BY SentAlone DEF Closed
    <3> HIDE DEF r, c, mc, x
    <3>2. /\ ms \in Seq(Messages)
          /\ \E r1 : UpAdds(r1, u, c, mc) /\ UpAdds(u \o ms, r1, TRUE, r)
      BY <1>1, <2>1, <2>2, <3>1, Sending2
    <3>3. Report(h, x, ms)  BY <1>10 DEF x, r
    <3> HIDE DEF ms
    <3>4. u2 = u \o ms  BY <1>1, <2>5, <3>2, <3>3, Reported
    <3> QED  BY <3>2, <3>4
  <2>7. /\ frame' \in [Hosts -> FrameRecs] /\ up' \in [Hosts -> Seq(Messages)] /\ f2 = x
        /\ \A g \in Hosts \ {h} : frame'[g] = frame[g] /\ up'[g] = up[g]
    <3> DEFINE ms == Closed(f.mhtml) \o <<r>>
    <3>1. ms = OneIf(c, mc) \o OneIf(TRUE, r)  BY SentAlone DEF Closed
    <3> HIDE DEF r, c, mc, x
    <3>2. ms \in Seq(Messages)
      BY <1>1, <2>1, <2>2, <3>1, Sending2
    <3>3. Report(h, x, ms)  BY <1>10 DEF x, r
    <3> HIDE DEF ms
    <3> QED  BY <1>1, <2>5, <3>2, <3>3, Reported
  <2>8. PICK r1 : UpAdds(r1, u, c, mc) /\ UpAdds(u2, r1, TRUE, r)  BY <2>6
  <2>9. c <=> f.mhtml # 0  OBVIOUS
  <2> HIDE DEF s, f, f2, d, d2, u, u2, m, c, mc, r, x
  <2>10. Lives(h, s, f2, d2, u2)
    <3>1. HostLives(h, s, f2, d2, u2)
      BY <1>1, <1>2, <2>5, <2>7 DEF Lives, HostLives, DownPops
    <3>2. ChannelsLive(s, f2, d2, u2)
      BY <1>1, <1>2, <2>1, <2>2, <2>5, <2>7, <2>8 DEF Lives, HostLives, ChannelsLive, DownPops, UpAdds
    <3>3. InitialLives(h, s, f2, u2)
      <4>1. InitialLives(h, s, f, u) /\ m.n # 0  BY <1>1, <1>4 DEF Lives
      <4>2. /\ Holds(u2, InitialCommits) <=> Holds(u, InitialCommits) \/ a = "same global"
            /\ Then(u2, RealCommits, InitialCommits) <=>
                  Then(u, RealCommits, InitialCommits) \/ (a = "same global" /\ Holds(u, RealCommits))
        BY <2>1, <2>2, <2>8, <4>1 DEF UpAdds
      <4> QED  BY <2>3, <2>5, <2>7, <4>1, <4>2, ThenHolds DEF InitialLives
    <3> QED  BY <3>1, <3>2, <3>3 DEF Lives
  <2>11. ASSUME NEW n \in Navs, s.live PROVE Tokens(s, f2, d2, u2, swallowed', n)
    BY <1>1, <1>2, <1>10, <2>1, <2>2, <2>5, <2>7, <2>8, <2>9, <2>11, ZenonT(60)
     DEF Tokens, DownPops, UpAdds
  <2>12. ASSUME NEW n \in Navs PROVE FrameMoves(s, f, d, u, f2, d2, u2, n)
    BY <1>1, <1>2, <1>10, <2>1, <2>2, <2>5, <2>7, <2>8, <2>9, <2>12
       DEF FrameMoves, Awaited, DownPops, UpAdds
  <2> QED  BY <1>5, <1>10, <2>7, <2>10, <2>11, <2>12
<1> QED
  BY <1>7, <1>8, <1>9, <1>10 DEF Commit

\* BodyLoadingFinished: an archive has arrived and its document commits.
LEMMA BodyLoadingFinishedKeeps ==
  ASSUME Core, NEW h \in Hosts, BodyLoadingFinished(h)
  PROVE  Core'
<1> DEFINE s == host[h]
           f == frame[h]
           f2 == frame'[h]
           d == down[h]
           d2 == down'[h]
           u == up[h]
           u2 == up'[h]
<1>1. /\ Types /\ Lives(h, s, f, d, u) /\ s \in HostRecs /\ f \in FrameRecs
      /\ d \in Seq(Messages) /\ u \in Seq(Messages)
      /\ \A n \in Navs : n # 0 /\ n \in Nums /\ (s.live => Tokens(s, f, d, u, swallowed, n))
  BY Situation
<1>2. /\ d2 = d /\ down' \in [Hosts -> Seq(Messages)]
      /\ \A g \in Hosts \ {h} : down'[g] = down[g]
  BY <1>1 DEF Types, BodyLoadingFinished
<1>3. UNCHANGED rendererOnly /\ swallowed' = swallowed /\ bad' = bad
  BY DEF BodyLoadingFinished
<1>4. 0 \in Nums /\ f.client \in Nums /\ f.mhtml \in Nums
  BY <1>1, NavigationAssumption DEF Nums, FrameRecs
<1> DEFINE x == [Committed(h, f.mhtml) EXCEPT !.client = f.client]
<1>5. PICK a \in DidCommitArgs(h) :
         Report(h, x, <<[Msg("didCommit", f.mhtml) EXCEPT !.arg = a]>>)
  BY DEF BodyLoadingFinished
<1> DEFINE r == [Msg("didCommit", f.mhtml) EXCEPT !.arg = a]
<1>6. /\ x \in FrameRecs /\ x.life = "attached" /\ x.client = f.client /\ x.mhtml = 0
      /\ ~x.initial
  <2>1. "attached" \in FrameStates  BY DEF FrameStates
  <2> QED  BY <1>1, <1>4, <2>1 DEF FrameRecs, Committed
<1>7. /\ r \in Messages /\ r.type = "didCommit" /\ r.n = f.mhtml /\ r.arg = a
      /\ a = "same global" => f.life = "attached" /\ f.initial
  <2>1. "didCommit" \in DownTypes \cup UpTypes /\ a \in Args
    BY DEF UpTypes, Args, DidCommitArgs
  <2> HIDE DEF f
  <2>2. r \in Messages /\ r.type = "didCommit" /\ r.n = f.mhtml /\ r.arg = a
    BY <1>4, <2>1, WithArg
  <2> QED  BY <2>2 DEF DidCommitArgs, Attached, f
<1>8. /\ frame' \in [Hosts -> FrameRecs] /\ up' \in [Hosts -> Seq(Messages)]
      /\ f2 = x /\ UpAdds(u2, u, TRUE, r)
      /\ \A g \in Hosts \ {h} : frame'[g] = frame[g] /\ up'[g] = up[g]
  <2> HIDE DEF x, r
  <2>1. <<r>> \in Seq(Messages) /\ UpAdds(u \o <<r>>, u, TRUE, r)
    BY <1>1, <1>7, Sending, SentAlone
  <2>2. Report(h, x, <<r>>)  BY <1>5 DEF r
  <2> QED  BY <1>1, <1>6, <2>1, <2>2, Reported, ZenonT(60)
<1>9. f.mhtml # 0 /\ f.mhtml \in Navs
  BY <1>4, NavigationAssumption DEF BodyLoadingFinished, Nums, Navs
<1>10. f2.life = "attached" /\ f2.client = f.client /\ f2.mhtml = 0 /\ ~f2.initial
  BY <1>6, <1>8
<1> HIDE DEF s, f, f2, d, d2, u, u2, r, x
<1>11. Lives(h, s, f2, d2, u2)
  <2>1. HostLives(h, s, f2, d2, u2)
    BY <1>1, <1>2, <1>7, <1>8, <1>9, <1>10 DEF Lives, HostLives, ChannelsLive, UpAdds
  <2>2. ChannelsLive(s, f2, d2, u2)
    BY <1>1, <1>2, <1>7, <1>8, <1>9, <1>10 DEF Lives, HostLives, ChannelsLive, UpAdds
  <2>3. InitialLives(h, s, f2, u2)
    BY <1>1, <1>2, <1>7, <1>8, <1>9, <1>10, ThenHolds DEF Lives, InitialLives, UpAdds
  <2> QED  BY <2>1, <2>2, <2>3 DEF Lives
<1>12. ASSUME NEW n \in Navs, s.live PROVE Tokens(s, f2, d2, u2, swallowed', n)
  BY <1>1, <1>2, <1>7, <1>8, <1>9, <1>10, <1>3, <1>12 DEF Lives, HostLives, Tokens, UpAdds
<1>13. ASSUME NEW n \in Navs PROVE FrameMoves(s, f, d, u, f2, d2, u2, n)
  BY <1>1, <1>2, <1>7, <1>8, <1>9, <1>10, <1>13 DEF FrameMoves, Awaited, UpAdds
<1> QED
  BY <1>2, <1>3, <1>8, <1>11, <1>12, <1>13, FrameDone DEF s, f, f2, d, d2, u, u2

\* AbortClientNavigation: the frame gives its navigation up and closes its client.
LEMMA AbortClientNavigationKeeps ==
  ASSUME Core, NEW h \in Hosts, AbortClientNavigation(h)
  PROVE  Core'
<1> DEFINE s == host[h]
           f == frame[h]
           f2 == frame'[h]
           d == down[h]
           d2 == down'[h]
           u == up[h]
           u2 == up'[h]
           x == [f EXCEPT !.client = 0, !.mhtml = 0, !.nav = 0]
           c1 == f.mhtml # 0
           m1 == Msg("disconnected", f.mhtml)
           c2 == f.client # 0
           m2 == Msg("disconnected", f.client)
           c3 == ~IsLoading(x)
           m3 == Msg("stopped", 0)
<1>1. /\ Types /\ Lives(h, s, f, d, u) /\ s \in HostRecs /\ f \in FrameRecs
      /\ d \in Seq(Messages) /\ u \in Seq(Messages)
      /\ \A n \in Navs : n # 0 /\ n \in Nums /\ (s.live => Tokens(s, f, d, u, swallowed, n))
  BY Situation
<1>2. /\ d2 = d /\ down' \in [Hosts -> Seq(Messages)]
      /\ \A g \in Hosts \ {h} : down'[g] = down[g]
  BY <1>1 DEF Types, AbortClientNavigation
<1>3. UNCHANGED rendererOnly /\ swallowed' = swallowed /\ bad' = bad
  BY DEF AbortClientNavigation
<1>4. 0 \in Nums /\ f.client \in Nums /\ f.mhtml \in Nums
  BY <1>1, NavigationAssumption DEF Nums, FrameRecs
<1>5. /\ m1 \in Messages /\ m1.type = "disconnected" /\ m1.n = f.mhtml
      /\ m2 \in Messages /\ m2.type = "disconnected" /\ m2.n = f.client
      /\ m3 \in Messages /\ m3.type = "stopped"
      /\ c1 \in BOOLEAN /\ c2 \in BOOLEAN /\ c3 \in BOOLEAN
      /\ (c1 <=> f.mhtml # 0) /\ (c2 <=> f.client # 0)
  BY <1>4, ClosedMessage, StoppedMessage DEF IsLoading
<1>6. /\ x \in FrameRecs /\ x.life = f.life /\ x.client = 0 /\ x.mhtml = 0 /\ x.initial = f.initial
  <2> HIDE DEF f
  <2> QED  BY <1>1, <1>4 DEF FrameRecs
<1>7. /\ frame' \in [Hosts -> FrameRecs] /\ up' \in [Hosts -> Seq(Messages)] /\ f2 = x
      /\ \E r1, r2 : UpAdds(r1, u, c1, m1) /\ UpAdds(r2, r1, c2, m2) /\ UpAdds(u2, r2, c3, m3)
      /\ \A g \in Hosts \ {h} : frame'[g] = frame[g] /\ up'[g] = up[g]
  <2> DEFINE ms == (OneIf(c1, m1) \o OneIf(c2, m2)) \o OneIf(c3, m3)
  <2>1. Report(h, x, ms)  BY DEF AbortClientNavigation, Closed, Stopped
  <2> HIDE DEF x, c1, m1, c2, m2, c3, m3
  <2>2. /\ ms \in Seq(Messages)
        /\ \E r1, r2 : UpAdds(r1, u, c1, m1) /\ UpAdds(r2, r1, c2, m2) /\ UpAdds(u \o ms, r2, c3, m3)
    BY <1>1, <1>5, Sending3
  <2> HIDE DEF ms
  <2>3. /\ frame' \in [Hosts -> FrameRecs] /\ up' \in [Hosts -> Seq(Messages)] /\ f2 = x
        /\ u2 = u \o ms /\ \A g \in Hosts \ {h} : frame'[g] = frame[g] /\ up'[g] = up[g]
    BY <1>1, <1>6, <2>1, <2>2, Reported
  <2> QED  BY <2>2, <2>3
<1>8. PICK r1, r2 : UpAdds(r1, u, c1, m1) /\ UpAdds(r2, r1, c2, m2) /\ UpAdds(u2, r2, c3, m3)
  BY <1>7
<1>9. f2.life = f.life /\ f2.client = 0 /\ f2.mhtml = 0 /\ f2.initial = f.initial /\ f.life = "attached"
  BY <1>6, <1>7 DEF AbortClientNavigation, Attached
<1> HIDE DEF s, f, f2, d, d2, u, u2, x, c1, m1, c2, m2, c3, m3
<1>10. Lives(h, s, f2, d2, u2)
  <2>1. HostLives(h, s, f2, d2, u2)
    BY <1>1, <1>2, <1>5, <1>8, <1>9 DEF Lives, HostLives, ChannelsLive, UpAdds
  <2>2. ChannelsLive(s, f2, d2, u2)
    BY <1>1, <1>2, <1>5, <1>8, <1>9 DEF Lives, HostLives, ChannelsLive, UpAdds
  <2>3. InitialLives(h, s, f2, u2)
    BY <1>1, <1>2, <1>5, <1>8, <1>9, ThenHolds DEF Lives, InitialLives, UpAdds
  <2> QED  BY <2>1, <2>2, <2>3 DEF Lives
<1>11. ASSUME NEW n \in Navs, s.live PROVE Tokens(s, f2, d2, u2, swallowed', n)
  BY <1>1, <1>2, <1>5, <1>8, <1>9, <1>3, <1>11 DEF Lives, HostLives, Tokens, UpAdds
<1>12. ASSUME NEW n \in Navs PROVE FrameMoves(s, f, d, u, f2, d2, u2, n)
  BY <1>1, <1>2, <1>5, <1>8, <1>9, <1>12 DEF FrameMoves, Awaited, UpAdds
<1> QED
  BY <1>2, <1>3, <1>7, <1>10, <1>11, <1>12, FrameDone DEF s, f, f2, d, d2, u, u2

\* SynchronouslyCommitAboutBlankForBug778318: the frame commits about:blank unasked.
LEMMA SynchronouslyCommitAboutBlankForBug778318Keeps ==
  ASSUME Core, NEW h \in Hosts, SynchronouslyCommitAboutBlankForBug778318(h)
  PROVE  Core'
<1> DEFINE s == host[h]
           f == frame[h]
           f2 == frame'[h]
           d == down[h]
           d2 == down'[h]
           u == up[h]
           u2 == up'[h]
           x == [f EXCEPT !.started = TRUE, !.dsn = 0, !.pos = 0]
           m1 == [Msg("didCommit", 0) EXCEPT !.arg = "same global"]
           m2 == Msg("stopped", 0)
<1>1. /\ Types /\ Lives(h, s, f, d, u) /\ s \in HostRecs /\ f \in FrameRecs
      /\ d \in Seq(Messages) /\ u \in Seq(Messages)
      /\ \A n \in Navs : n # 0 /\ n \in Nums /\ (s.live => Tokens(s, f, d, u, swallowed, n))
  BY Situation
<1>2. /\ d2 = d /\ down' \in [Hosts -> Seq(Messages)]
      /\ \A g \in Hosts \ {h} : down'[g] = down[g]
  BY <1>1 DEF Types, SynchronouslyCommitAboutBlankForBug778318
<1>3. UNCHANGED rendererOnly /\ swallowed' = swallowed /\ bad' = bad
  BY DEF SynchronouslyCommitAboutBlankForBug778318
<1>4. 0 \in Nums /\ f.client \in Nums /\ f.mhtml \in Nums
  BY <1>1, NavigationAssumption DEF Nums, FrameRecs
<1>5. /\ m1 \in Messages /\ m1.type = "didCommit" /\ m1.n = 0 /\ m1.arg = "same global"
      /\ m2 \in Messages /\ m2.type = "stopped"
  BY GlobalMessage, StoppedMessage
<1>6. /\ x \in FrameRecs /\ x.life = f.life /\ x.client = f.client /\ x.mhtml = f.mhtml
      /\ x.initial = f.initial
  <2> HIDE DEF f
  <2> QED  BY <1>1, <1>4 DEF FrameRecs
<1>7. /\ frame' \in [Hosts -> FrameRecs] /\ up' \in [Hosts -> Seq(Messages)] /\ f2 = x
      /\ \E r1 : UpAdds(r1, u, TRUE, m1) /\ UpAdds(u2, r1, TRUE, m2)
      /\ \A g \in Hosts \ {h} : frame'[g] = frame[g] /\ up'[g] = up[g]
  <2> DEFINE ms == OneIf(TRUE, m1) \o OneIf(TRUE, m2)
  <2>1. Report(h, x, <<m1, m2>>)  BY DEF SynchronouslyCommitAboutBlankForBug778318
  <2> HIDE DEF x, m1, m2
  <2>2. ms = <<m1, m2>>
    <3>1. <<m1>> \o <<m2>> = <<m1, m2>>  BY <1>5, SentTogether
    <3> QED  BY <3>1 DEF OneIf
  <2>3. /\ ms \in Seq(Messages)
        /\ \E r1 : UpAdds(r1, u, TRUE, m1) /\ UpAdds(u \o ms, r1, TRUE, m2)
    BY <1>1, <1>5, Sending2
  <2> HIDE DEF ms
  <2>4. /\ frame' \in [Hosts -> FrameRecs] /\ up' \in [Hosts -> Seq(Messages)] /\ f2 = x
        /\ u2 = u \o ms /\ \A g \in Hosts \ {h} : frame'[g] = frame[g] /\ up'[g] = up[g]
    BY <1>1, <1>6, <2>1, <2>2, <2>3, Reported
  <2> QED  BY <2>3, <2>4
<1>8. PICK r1 : UpAdds(r1, u, TRUE, m1) /\ UpAdds(u2, r1, TRUE, m2)
  BY <1>7
<1>9. /\ f2.life = f.life /\ f2.client = f.client /\ f2.mhtml = f.mhtml /\ f2.initial = f.initial
      /\ f.life = "attached" /\ f.initial
  BY <1>6, <1>7 DEF SynchronouslyCommitAboutBlankForBug778318, Attached
<1> HIDE DEF s, f, f2, d, d2, u, u2, x, m1, m2
<1>10. Lives(h, s, f2, d2, u2)
  <2>1. HostLives(h, s, f2, d2, u2)
    BY <1>1, <1>2, <1>5, <1>8, <1>9 DEF Lives, HostLives, ChannelsLive, UpAdds
  <2>2. ChannelsLive(s, f2, d2, u2)
    BY <1>1, <1>2, <1>5, <1>8, <1>9 DEF Lives, HostLives, ChannelsLive, UpAdds
  <2>3. InitialLives(h, s, f2, u2)
    BY <1>1, <1>2, <1>5, <1>8, <1>9, ThenHolds DEF Lives, InitialLives, UpAdds
  <2> QED  BY <2>1, <2>2, <2>3 DEF Lives
<1>11. ASSUME NEW n \in Navs, s.live PROVE Tokens(s, f2, d2, u2, swallowed', n)
  BY <1>1, <1>2, <1>5, <1>8, <1>9, <1>3, <1>11 DEF Lives, HostLives, Tokens, UpAdds
<1>12. ASSUME NEW n \in Navs PROVE FrameMoves(s, f, d, u, f2, d2, u2, n)
  BY <1>1, <1>2, <1>5, <1>8, <1>9, <1>12 DEF FrameMoves, Awaited, UpAdds
<1> QED
  BY <1>2, <1>3, <1>7, <1>10, <1>11, <1>12, FrameDone DEF s, f, f2, d, d2, u, u2

\* DidStopLoadingDocument: the document stops loading, and the frame says so if it is the last.
LEMMA DidStopLoadingDocumentKeeps ==
  ASSUME Core, NEW h \in Hosts, DidStopLoadingDocument(h)
  PROVE  Core'
<1> DEFINE s == host[h]
           f == frame[h]
           f2 == frame'[h]
           d == down[h]
           d2 == down'[h]
           u == up[h]
           u2 == up'[h]
           x == [f EXCEPT !.docLoading = FALSE]
           c1 == ~IsLoading(x)
           m1 == Msg("stopped", 0)
<1>1. /\ Types /\ Lives(h, s, f, d, u) /\ s \in HostRecs /\ f \in FrameRecs
      /\ d \in Seq(Messages) /\ u \in Seq(Messages)
      /\ \A n \in Navs : n # 0 /\ n \in Nums /\ (s.live => Tokens(s, f, d, u, swallowed, n))
  BY Situation
<1>2. /\ d2 = d /\ down' \in [Hosts -> Seq(Messages)]
      /\ \A g \in Hosts \ {h} : down'[g] = down[g]
  BY <1>1 DEF Types, DidStopLoadingDocument
<1>3. UNCHANGED rendererOnly /\ swallowed' = swallowed /\ bad' = bad
  BY DEF DidStopLoadingDocument
<1>4. 0 \in Nums /\ f.client \in Nums /\ f.mhtml \in Nums
  BY <1>1, NavigationAssumption DEF Nums, FrameRecs
<1>5. m1 \in Messages /\ m1.type = "stopped" /\ c1 \in BOOLEAN
  BY StoppedMessage DEF IsLoading
<1>6. /\ x \in FrameRecs /\ x.life = f.life /\ x.client = f.client /\ x.mhtml = f.mhtml
      /\ x.initial = f.initial
  <2> HIDE DEF f
  <2> QED  BY <1>1 DEF FrameRecs
<1>7. /\ frame' \in [Hosts -> FrameRecs] /\ up' \in [Hosts -> Seq(Messages)] /\ f2 = x
      /\ UpAdds(u2, u, c1, m1)
      /\ \A g \in Hosts \ {h} : frame'[g] = frame[g] /\ up'[g] = up[g]
  <2>1. Report(h, x, OneIf(c1, m1))  BY DEF DidStopLoadingDocument, Stopped
  <2> HIDE DEF x, c1, m1
  <2>2. OneIf(c1, m1) \in Seq(Messages) /\ UpAdds(u \o OneIf(c1, m1), u, c1, m1)
    BY <1>1, <1>5, Sending
  <2> QED  BY <1>1, <1>6, <2>1, <2>2, Reported, ZenonT(60)
<1>8. f2.life = f.life /\ f2.client = f.client /\ f2.mhtml = f.mhtml /\ f2.initial = f.initial
  BY <1>6, <1>7
<1>9. f.life = "attached"  BY DEF DidStopLoadingDocument, Attached
<1> HIDE DEF s, f, f2, d, d2, u, u2, x, c1, m1
<1>10. Lives(h, s, f2, d2, u2)
  <2>1. HostLives(h, s, f2, d2, u2)
    BY <1>1, <1>2, <1>5, <1>7, <1>8, <1>9 DEF Lives, HostLives, ChannelsLive, UpAdds
  <2>2. ChannelsLive(s, f2, d2, u2)
    BY <1>1, <1>2, <1>5, <1>7, <1>8, <1>9 DEF Lives, HostLives, ChannelsLive, UpAdds
  <2>3. InitialLives(h, s, f2, u2)
    BY <1>1, <1>2, <1>5, <1>7, <1>8, <1>9, ThenHolds DEF Lives, InitialLives, UpAdds
  <2> QED  BY <2>1, <2>2, <2>3 DEF Lives
<1>11. ASSUME NEW n \in Navs, s.live PROVE Tokens(s, f2, d2, u2, swallowed', n)
  BY <1>1, <1>2, <1>5, <1>7, <1>8, <1>9, <1>3, <1>11 DEF Lives, HostLives, Tokens, UpAdds
<1>12. ASSUME NEW n \in Navs PROVE FrameMoves(s, f, d, u, f2, d2, u2, n)
  BY <1>1, <1>2, <1>5, <1>7, <1>8, <1>9, <1>12 DEF FrameMoves, Awaited, UpAdds
<1> QED
  BY <1>2, <1>3, <1>7, <1>10, <1>11, <1>12, FrameDone DEF s, f, f2, d, d2, u, u2

\* The frame that is gone.
LEMMA GoneFrame ==
  Gone \in FrameRecs /\ Gone.life = "gone" /\ Gone.client = 0 /\ Gone.mhtml = 0
<1>1. 0 \in Nums  BY NavigationAssumption DEF Nums
<1>2. NoFrame \in FrameRecs /\ NoFrame.client = 0 /\ NoFrame.mhtml = 0
  BY <1>1 DEF NoFrame, FrameRecs, FrameStates
<1> DEFINE life == "gone"
<1>3. life \in FrameStates /\ Gone = [NoFrame EXCEPT !.life = life]  BY DEF Gone, FrameStates
<1> HIDE DEF life
<1>4. Gone \in FrameRecs /\ Gone.life = life /\ Gone.client = 0 /\ Gone.mhtml = 0
  BY <1>2, <1>3 DEF FrameRecs
<1> QED  BY <1>4 DEF life

\* OnDroppedNavigation: the browser closed its end of the client.
LEMMA OnDroppedNavigationKeeps ==
  ASSUME Core, NEW h \in Hosts, OnDroppedNavigation(h)
  PROVE  Core'
<1> DEFINE s == host[h]
           f == frame[h]
           f2 == frame'[h]
           d == down[h]
           d2 == down'[h]
           u == up[h]
           u2 == up'[h]
           m == Head(down[h])
           x == [f EXCEPT !.client = 0, !.nav = 0]
           c1 == ~IsLoading(x)
           m1 == Msg("stopped", 0)
<1>1. /\ Types /\ Lives(h, s, f, d, u) /\ s \in HostRecs /\ f \in FrameRecs
      /\ d \in Seq(Messages) /\ u \in Seq(Messages)
      /\ \A n \in Navs : n # 0 /\ n \in Nums /\ (s.live => Tokens(s, f, d, u, swallowed, n))
  BY Situation
<1>2. /\ DownPops(d, m, d2) /\ m.type = "dropped" /\ m.n \in Nums
      /\ down' \in [Hosts -> Seq(Messages)] /\ \A g \in Hosts \ {h} : down'[g] = down[g]
  BY <1>1, Received DEF OnDroppedNavigation
<1>3. UNCHANGED rendererOnly /\ swallowed' = swallowed /\ bad' = bad
  BY DEF OnDroppedNavigation
<1>4. 0 \in Nums /\ f.client \in Nums /\ f.mhtml \in Nums
  BY <1>1, NavigationAssumption DEF Nums, FrameRecs
<1>5. m1 \in Messages /\ m1.type = "stopped" /\ c1 \in BOOLEAN
  BY StoppedMessage DEF IsLoading
<1>6. /\ x \in FrameRecs /\ x.life = f.life /\ x.client = 0 /\ x.mhtml = f.mhtml
      /\ x.initial = f.initial
  <2> HIDE DEF f
  <2> QED  BY <1>1, <1>4 DEF FrameRecs
<1>7. m.n \notin s.requests
  <2>1. m.n \in s.requests => m.n \in Navs /\ ~Holds(d, DropOf(m.n))
    BY <1>1 DEF Core, Apart, HostRecs
  <2> QED  BY <1>2, <2>1 DEF DownPops
<1>8. CASE f.client # m.n
  <2>1. UNCHANGED <<frame, up>>  BY <1>8 DEF OnDroppedNavigation
  <2>2. /\ frame' \in [Hosts -> FrameRecs] /\ up' \in [Hosts -> Seq(Messages)] /\ f2 = f /\ u2 = u
        /\ \A g \in Hosts \ {h} : frame'[g] = frame[g] /\ up'[g] = up[g]
    BY <1>1, <2>1 DEF Types
  <2> HIDE DEF s, f, f2, d, d2, u, u2, m, x
  <2>3. Lives(h, s, f2, d2, u2)
    BY <1>1, <1>2, <2>2 DEF Lives, HostLives, ChannelsLive, InitialLives, DownPops
  <2>4. ASSUME NEW n \in Navs, s.live PROVE Tokens(s, f2, d2, u2, swallowed', n)
    BY <1>1, <1>2, <1>3, <2>2, <2>4 DEF Tokens, DownPops
  <2>5. ASSUME NEW n \in Navs PROVE FrameMoves(s, f, d, u, f2, d2, u2, n)
    BY <1>2, <2>2, <2>5 DEF FrameMoves, DownPops
  <2> QED  BY <1>2, <1>3, <2>2, <2>3, <2>4, <2>5, FrameDone DEF s, f, f2, d, d2, u, u2
<1>9. CASE f.client = m.n
  <2>1. Report(h, x, OneIf(c1, m1))  BY <1>9 DEF OnDroppedNavigation, Stopped
  <2>2. /\ frame' \in [Hosts -> FrameRecs] /\ up' \in [Hosts -> Seq(Messages)] /\ f2 = x
        /\ UpAdds(u2, u, c1, m1)
        /\ \A g \in Hosts \ {h} : frame'[g] = frame[g] /\ up'[g] = up[g]
    <3> HIDE DEF x, c1, m1
    <3>1. OneIf(c1, m1) \in Seq(Messages) /\ UpAdds(u \o OneIf(c1, m1), u, c1, m1)
      BY <1>1, <1>5, Sending
    <3> QED  BY <1>1, <1>6, <2>1, <3>1, Reported
  <2>3. f2.life = f.life /\ f2.client = 0 /\ f2.mhtml = f.mhtml /\ f2.initial = f.initial
    BY <1>6, <2>2
  <2> HIDE DEF s, f, f2, d, d2, u, u2, m, x, c1, m1
  <2>4. Lives(h, s, f2, d2, u2)
    BY <1>1, <1>2, <1>5, <2>2, <2>3 DEF Lives, HostLives, ChannelsLive, InitialLives, DownPops, UpAdds
  <2>5. ASSUME NEW n \in Navs, s.live PROVE Tokens(s, f2, d2, u2, swallowed', n)
    BY <1>1, <1>2, <1>3, <1>5, <1>7, <1>9, <2>2, <2>3, <2>5 DEF Tokens, DownPops, UpAdds
  <2>6. ASSUME NEW n \in Navs PROVE FrameMoves(s, f, d, u, f2, d2, u2, n)
    BY <1>1, <1>2, <1>5, <1>9, <2>2, <2>3, <2>6 DEF FrameMoves, Awaited, DownPops, UpAdds
  <2> QED  BY <1>2, <1>3, <2>2, <2>4, <2>5, <2>6, FrameDone DEF s, f, f2, d, d2, u, u2
<1> QED  BY <1>8, <1>9

\* Unload: the frame that was swapped out goes away and acknowledges it.
LEMMA UnloadKeeps ==
  ASSUME Core, NEW h \in Hosts, Unload(h)
  PROVE  Core'
<1> DEFINE s == host[h]
           f == frame[h]
           f2 == frame'[h]
           d == down[h]
           d2 == down'[h]
           u == up[h]
           u2 == up'[h]
           m == Head(down[h])
           m1 == Msg("unloaded", 0)
<1>1. /\ Types /\ Lives(h, s, f, d, u) /\ s \in HostRecs /\ f \in FrameRecs
      /\ d \in Seq(Messages) /\ u \in Seq(Messages)
      /\ \A n \in Navs : n # 0 /\ n \in Nums /\ (s.live => Tokens(s, f, d, u, swallowed, n))
  BY Situation
<1>2. /\ DownPops(d, m, d2) /\ m.type = "unload" /\ m.n \in Nums
      /\ down' \in [Hosts -> Seq(Messages)] /\ \A g \in Hosts \ {h} : down'[g] = down[g]
  BY <1>1, Received DEF Unload
<1>3. UNCHANGED rendererOnly /\ swallowed' = swallowed /\ bad' = bad
  BY DEF Unload
<1>4. 0 \in Nums /\ f.client \in Nums /\ f.mhtml \in Nums
  BY <1>1, NavigationAssumption DEF Nums, FrameRecs
<1>5. m1 \in Messages /\ m1.type = "unloaded"
  <2>1. "unloaded" \in DownTypes \cup UpTypes  BY DEF UpTypes
  <2> QED  BY <1>4, <2>1, Plain
<1>6. Gone \in FrameRecs /\ Gone.life = "gone" /\ Gone.client = 0 /\ Gone.mhtml = 0
  BY GoneFrame
<1>7. /\ frame' \in [Hosts -> FrameRecs] /\ up' \in [Hosts -> Seq(Messages)] /\ f2 = Gone
      /\ UpAdds(u2, u, TRUE, m1)
      /\ \A g \in Hosts \ {h} : frame'[g] = frame[g] /\ up'[g] = up[g]
  <2>1. Report(h, Gone, <<m1>>)  BY DEF Unload
  <2> HIDE DEF m1
  <2>2. <<m1>> \in Seq(Messages) /\ UpAdds(u \o <<m1>>, u, TRUE, m1)
    BY <1>1, <1>5, Sending, SentAlone
  <2> QED  BY <1>1, <1>6, <2>1, <2>2, Reported, ZenonT(60)
<1>8. ~s.live  BY <1>1, <1>2 DEF Lives, HostLives, DownPops
<1>9. f2.life = "gone" /\ f2.client = 0 /\ f2.mhtml = 0  BY <1>6, <1>7
<1> HIDE DEF s, f, f2, d, d2, u, u2, m, m1
<1>10. Lives(h, s, f2, d2, u2)
  <2>1. HostLives(h, s, f2, d2, u2)
    BY <1>1, <1>2, <1>5, <1>7, <1>8, <1>9 DEF Lives, HostLives, ChannelsLive, DownPops, UpAdds
  <2>2. ChannelsLive(s, f2, d2, u2)
    BY <1>1, <1>2, <1>5, <1>7, <1>8, <1>9 DEF Lives, HostLives, ChannelsLive, DownPops, UpAdds
  <2>3. InitialLives(h, s, f2, u2)
    BY <1>1, <1>2, <1>5, <1>7, <1>8, <1>9, ThenHolds DEF Lives, InitialLives, UpAdds
  <2> QED  BY <2>1, <2>2, <2>3 DEF Lives
<1>11. ASSUME NEW n \in Navs, s.live PROVE Tokens(s, f2, d2, u2, swallowed', n)
  BY <1>1, <1>2, <1>5, <1>7, <1>8, <1>9, <1>3, <1>11 DEF Lives, HostLives, Tokens, DownPops, UpAdds
<1>12. ASSUME NEW n \in Navs PROVE FrameMoves(s, f, d, u, f2, d2, u2, n)
  BY <1>1, <1>2, <1>5, <1>7, <1>8, <1>9, <1>12 DEF FrameMoves, Awaited, DownPops, UpAdds
<1> QED
  BY <1>2, <1>3, <1>7, <1>10, <1>11, <1>12, FrameDone DEF s, f, f2, d, d2, u, u2

\* UndoCommitNavigation: the frame of a discarded host that had committed goes away.
LEMMA UndoCommitNavigationKeeps ==
  ASSUME Core, NEW h \in Hosts, UndoCommitNavigation(h)
  PROVE  Core'
<1> DEFINE s == host[h]
           f == frame[h]
           f2 == frame'[h]
           d == down[h]
           d2 == down'[h]
           u == up[h]
           u2 == up'[h]
           m == Head(down[h])
<1>1. /\ Types /\ Lives(h, s, f, d, u) /\ s \in HostRecs /\ f \in FrameRecs
      /\ d \in Seq(Messages) /\ u \in Seq(Messages)
      /\ \A n \in Navs : n # 0 /\ n \in Nums /\ (s.live => Tokens(s, f, d, u, swallowed, n))
  BY Situation
<1>2. /\ DownPops(d, m, d2) /\ m.type = "undo" /\ m.n \in Nums
      /\ down' \in [Hosts -> Seq(Messages)] /\ \A g \in Hosts \ {h} : down'[g] = down[g]
  BY <1>1, Received DEF UndoCommitNavigation
<1>3. UNCHANGED rendererOnly /\ swallowed' = swallowed /\ bad' = bad
  BY DEF UndoCommitNavigation
<1>4. Gone \in FrameRecs /\ Gone.life = "gone" /\ Gone.client = 0 /\ Gone.mhtml = 0
  BY GoneFrame
<1>5. /\ frame' \in [Hosts -> FrameRecs] /\ up' \in [Hosts -> Seq(Messages)] /\ f2 = Gone /\ u2 = u
      /\ \A g \in Hosts \ {h} : frame'[g] = frame[g] /\ up'[g] = up[g]
  <2>1. Report(h, Gone, <<>>)  BY DEF UndoCommitNavigation
  <2>2. <<>> \in Seq(Messages)  OBVIOUS
  <2>3. /\ frame' \in [Hosts -> FrameRecs] /\ up' \in [Hosts -> Seq(Messages)] /\ f2 = Gone
        /\ u2 = u \o <<>> /\ \A g \in Hosts \ {h} : frame'[g] = frame[g] /\ up'[g] = up[g]
    BY <1>1, <1>4, <2>1, <2>2, Reported
  <2>4. u \o <<>> = u  BY <1>1, ConcatEmptySeq
  <2> QED  BY <2>3, <2>4
<1>6. ~s.live  BY <1>1, <1>2 DEF Lives, HostLives, DownPops
<1>7. f2.life = "gone" /\ f2.client = 0 /\ f2.mhtml = 0  BY <1>4, <1>5
<1> HIDE DEF s, f, f2, d, d2, u, u2, m
<1>8. Lives(h, s, f2, d2, u2)
  <2>1. HostLives(h, s, f2, d2, u2)
    BY <1>1, <1>2, <1>5, <1>6, <1>7 DEF Lives, HostLives, ChannelsLive, DownPops, InSpec
  <2>2. ChannelsLive(s, f2, d2, u2)
    BY <1>1, <1>2, <1>5, <1>6, <1>7 DEF Lives, HostLives, ChannelsLive, DownPops
  <2>3. InitialLives(h, s, f2, u2)
    BY <1>1, <1>2, <1>5, <1>6, <1>7, ThenHolds DEF Lives, InitialLives
  <2> QED  BY <2>1, <2>2, <2>3 DEF Lives
<1>9. ASSUME NEW n \in Navs, s.live PROVE Tokens(s, f2, d2, u2, swallowed', n)
  BY <1>1, <1>2, <1>5, <1>6, <1>7, <1>3, <1>9 DEF Lives, HostLives, Tokens, DownPops
<1>10. ASSUME NEW n \in Navs PROVE FrameMoves(s, f, d, u, f2, d2, u2, n)
  BY <1>1, <1>2, <1>5, <1>6, <1>7, <1>10 DEF FrameMoves, Awaited, DownPops
<1> QED
  BY <1>2, <1>3, <1>5, <1>8, <1>9, <1>10, FrameDone DEF s, f, f2, d, d2, u, u2

\* Delete: the frame of a discarded host that had not committed goes away.
LEMMA DeleteKeeps ==
  ASSUME Core, NEW h \in Hosts, Delete(h)
  PROVE  Core'
<1> DEFINE s == host[h]
           f == frame[h]
           f2 == frame'[h]
           d == down[h]
           d2 == down'[h]
           u == up[h]
           u2 == up'[h]
           m == Head(down[h])
<1>1. /\ Types /\ Lives(h, s, f, d, u) /\ s \in HostRecs /\ f \in FrameRecs
      /\ d \in Seq(Messages) /\ u \in Seq(Messages)
      /\ \A n \in Navs : n # 0 /\ n \in Nums /\ (s.live => Tokens(s, f, d, u, swallowed, n))
  BY Situation
<1>2. /\ DownPops(d, m, d2) /\ m.type = "delete" /\ m.n \in Nums
      /\ down' \in [Hosts -> Seq(Messages)] /\ \A g \in Hosts \ {h} : down'[g] = down[g]
  BY <1>1, Received DEF Delete
<1>3. UNCHANGED rendererOnly /\ swallowed' = swallowed /\ bad' = bad
  <2>1. f.life # "attached"  BY <1>1, <1>2 DEF Lives, ChannelsLive, DownPops
  <2> QED  BY <2>1 DEF Delete, Attached
<1>4. Gone \in FrameRecs /\ Gone.life = "gone" /\ Gone.client = 0 /\ Gone.mhtml = 0
  BY GoneFrame
<1>5. /\ frame' \in [Hosts -> FrameRecs] /\ up' \in [Hosts -> Seq(Messages)] /\ f2 = Gone /\ u2 = u
      /\ \A g \in Hosts \ {h} : frame'[g] = frame[g] /\ up'[g] = up[g]
  <2>1. Report(h, Gone, <<>>)  BY DEF Delete
  <2>2. <<>> \in Seq(Messages)  OBVIOUS
  <2>3. /\ frame' \in [Hosts -> FrameRecs] /\ up' \in [Hosts -> Seq(Messages)] /\ f2 = Gone
        /\ u2 = u \o <<>> /\ \A g \in Hosts \ {h} : frame'[g] = frame[g] /\ up'[g] = up[g]
    BY <1>1, <1>4, <2>1, <2>2, Reported
  <2>4. u \o <<>> = u  BY <1>1, ConcatEmptySeq
  <2> QED  BY <2>3, <2>4
<1>6. ~s.live  BY <1>1, <1>2 DEF Lives, HostLives, DownPops
<1>7. f2.life = "gone" /\ f2.client = 0 /\ f2.mhtml = 0  BY <1>4, <1>5
<1> HIDE DEF s, f, f2, d, d2, u, u2, m
<1>8. Lives(h, s, f2, d2, u2)
  <2>1. HostLives(h, s, f2, d2, u2)
    BY <1>1, <1>2, <1>5, <1>6, <1>7 DEF Lives, HostLives, ChannelsLive, DownPops, InSpec
  <2>2. ChannelsLive(s, f2, d2, u2)
    BY <1>1, <1>2, <1>5, <1>6, <1>7 DEF Lives, HostLives, ChannelsLive, DownPops
  <2>3. InitialLives(h, s, f2, u2)
    BY <1>1, <1>2, <1>5, <1>6, <1>7, ThenHolds DEF Lives, InitialLives
  <2> QED  BY <2>1, <2>2, <2>3 DEF Lives
<1>9. ASSUME NEW n \in Navs, s.live PROVE Tokens(s, f2, d2, u2, swallowed', n)
  BY <1>1, <1>2, <1>5, <1>6, <1>7, <1>3, <1>9 DEF Lives, HostLives, Tokens, DownPops
<1>10. ASSUME NEW n \in Navs PROVE FrameMoves(s, f, d, u, f2, d2, u2, n)
  BY <1>1, <1>2, <1>5, <1>6, <1>7, <1>10 DEF FrameMoves, Awaited, DownPops
<1> QED
  BY <1>2, <1>3, <1>5, <1>8, <1>9, <1>10, FrameDone DEF s, f, f2, d, d2, u, u2

\* CommitSameDocument: the frame commits within its document, or refuses and says so.
LEMMA CommitSameDocumentKeeps ==
  ASSUME Core, NEW h \in Hosts, CommitSameDocument(h)
  PROVE  Core'
<1> DEFINE s == host[h]
           f == frame[h]
           f2 == frame'[h]
           d == down[h]
           d2 == down'[h]
           u == up[h]
           u2 == up'[h]
           m == Head(down[h])
           x == [f EXCEPT !.mhtml = 0]
           c1 == f.mhtml # 0
           m1 == Msg("disconnected", f.mhtml)
           m2(url) == [Msg("didCommitSame", m.n) EXCEPT !.arg = url]
           t == TRUE
           c3 == ~IsLoading(x)
           m3 == Msg("stopped", 0)
           m4(how) == [Msg("processed", m.n) EXCEPT !.arg = how]
<1>1. /\ Types /\ Lives(h, s, f, d, u) /\ s \in HostRecs /\ f \in FrameRecs
      /\ d \in Seq(Messages) /\ u \in Seq(Messages)
      /\ \A n \in Navs : n # 0 /\ n \in Nums /\ (s.live => Tokens(s, f, d, u, swallowed, n))
  BY Situation
<1>2. /\ DownPops(d, m, d2) /\ m.type = "same" /\ m.n \in Nums
      /\ down' \in [Hosts -> Seq(Messages)] /\ \A g \in Hosts \ {h} : down'[g] = down[g]
  BY <1>1, Received DEF CommitSameDocument
<1>3. f.life = "attached" /\ ~f.initial
  BY <1>1, <1>2 DEF Lives, ChannelsLive, DownPops
<1>4. UNCHANGED rendererOnly /\ swallowed' = swallowed /\ bad' \subseteq BrokenChecks
  <2>1. /\ UNCHANGED rendererOnly /\ swallowed' = swallowed
        /\ bad' \subseteq bad \cup (IF f.life = "attached" THEN {} ELSE {"same document outside the tree"})
                              \cup (IF x.initial THEN {"no history item"} ELSE {})
                              \cup {"history of another document"}
    BY DEF CommitSameDocument, Attached
  <2>2. ~x.initial
    <3> HIDE DEF f
    <3> QED  BY <1>1, <1>3 DEF FrameRecs
  <2>3. bad \subseteq BrokenChecks /\ "history of another document" \in BrokenChecks
    BY <1>1 DEF Types, BrokenChecks
  <2> HIDE DEF x, f
  <2> QED  BY <1>3, <2>1, <2>2, <2>3
<1>5. 0 \in Nums /\ f.mhtml \in Nums
  BY <1>1, NavigationAssumption DEF Nums, FrameRecs
<1>6. /\ m1 \in Messages /\ m1.type = "disconnected" /\ m1.n = f.mhtml
      /\ m3 \in Messages /\ m3.type = "stopped"
      /\ c1 \in BOOLEAN /\ c3 \in BOOLEAN /\ (c1 <=> f.mhtml # 0)
  BY <1>5, ClosedMessage, StoppedMessage DEF IsLoading
<1>7. ASSUME NEW url \in Args
      PROVE  m2(url) \in Messages /\ m2(url).type = "didCommitSame" /\ m2(url).n = m.n
  <2>1. "didCommitSame" \in DownTypes \cup UpTypes  BY DEF UpTypes
  <2> HIDE DEF m
  <2> QED  BY <1>2, <2>1, WithArg
<1>8. ASSUME NEW how \in Args
      PROVE  m4(how) \in Messages /\ m4(how).type = "processed" /\ m4(how).n = m.n
  <2>1. "processed" \in DownTypes \cup UpTypes  BY DEF UpTypes
  <2> HIDE DEF m
  <2> QED  BY <1>2, <2>1, WithArg
<1>9. ASSUME NEW y \in FrameRecs, y.life = f.life, y.client = f.client, y.mhtml = 0,
             y.initial = f.initial,
             frame' \in [Hosts -> FrameRecs], up' \in [Hosts -> Seq(Messages)], f2 = y,
             \A g \in Hosts \ {h} : frame'[g] = frame[g] /\ up'[g] = up[g],
             NEW r1, NEW r2, NEW r3, NEW e2, e2, NEW k2, NEW e3, NEW k3, NEW e4, NEW k4,
             UpAdds(r1, u, c1, m1), UpAdds(r2, r1, e2, k2), UpAdds(r3, r2, e3, k3),
             UpAdds(u2, r3, e4, k4),
             k2.type \in {"didCommitSame", "processed"},
             k3.type \in {"stopped", "processed"}, k4.type \in {"stopped", "processed"},
             (k2.type = "processed" /\ k2.n = m.n) \/ (e4 /\ k4.type = "processed" /\ k4.n = m.n)
      PROVE  Core'
  <2>1. f2.life = f.life /\ f2.client = f.client /\ f2.mhtml = 0 /\ f2.initial = f.initial
    BY <1>9
  <2> HIDE DEF s, f, f2, d, d2, u, u2, m, x, c1, m1, m2, c3, m3, m4
  <2>2. Lives(h, s, f2, d2, u2)
    <3>1. HostLives(h, s, f2, d2, u2)
      BY <1>1, <1>2, <1>3, <2>1 DEF Lives, HostLives, DownPops
    <3>2. ChannelsLive(s, f2, d2, u2)
      BY <1>1, <1>2, <1>3, <1>6, <1>9, <2>1 DEF Lives, HostLives, ChannelsLive, DownPops, UpAdds
    <3>3. InitialLives(h, s, f2, u2)
      BY <1>1, <1>6, <1>9, <2>1 DEF Lives, InitialLives, UpAdds
    <3> QED  BY <3>1, <3>2, <3>3 DEF Lives
  <2>3. ASSUME NEW n \in Navs, s.live PROVE Tokens(s, f2, d2, u2, swallowed', n)
    <3>1. Tokens(s, f, d, u, swallowed, n) /\ n # 0 /\ n \in Nums  BY <1>1, <2>3
    <3>2. /\ Holds(d2, BindOf(n)) <=> Holds(d, BindOf(n))
          /\ Holds(d2, AskOf(n)) <=> Holds(d, AskOf(n))
          /\ Then(d2, BindOf(n), BindOf(n)) <=> Then(d, BindOf(n), BindOf(n))
          /\ Then(d2, BindOf(n), AskOf(n)) <=> Then(d, BindOf(n), AskOf(n))
          /\ Holds(d, SameOf(n)) <=> m.n = n \/ Holds(d2, SameOf(n))
      BY <1>2 DEF DownPops
    <3>3. /\ Holds(u2, CommitOf(n)) <=> Holds(u, CommitOf(n))
          /\ Holds(u2, ReturnOf(n)) <=> Holds(u, ReturnOf(n)) \/ f.mhtml = n
          /\ Then(u2, ReturnOf(n), ReturnOf(n))
                <=> Then(u, ReturnOf(n), ReturnOf(n)) \/ (f.mhtml = n /\ Holds(u, ReturnOf(n)))
          /\ m.n = n \/ Holds(u, AnswerOf(n)) => Holds(u2, AnswerOf(n))
      BY <1>6, <1>9, <3>1 DEF UpAdds
    <3> QED  BY <1>4, <2>1, <3>1, <3>2, <3>3 DEF Tokens
  <2>4. ASSUME NEW n \in Navs PROVE FrameMoves(s, f, d, u, f2, d2, u2, n)
    BY <1>1, <1>2, <1>6, <1>9, <2>1, <2>4, ZenonT(60) DEF FrameMoves, Awaited, DownPops, UpAdds
  <2> QED  BY <1>2, <1>4, <1>9, <2>2, <2>3, <2>4, FrameDone DEF s, f, f2, d, d2, u, u2
<1>10. /\ x \in FrameRecs /\ x.life = f.life /\ x.client = f.client /\ x.mhtml = 0
       /\ x.initial = f.initial
  <2> HIDE DEF f
  <2> QED  BY <1>1, <1>5 DEF FrameRecs
<1>11. ASSUME NEW url \in Args,
              Report(h, [x EXCEPT !.pos = m.n],
                     Closed(f.mhtml) \o <<m2(url)>> \o Stopped(x) \o <<m4("Ok")>>)
       PROVE  Core'
  <2> DEFINE y == [x EXCEPT !.pos = m.n]
             k2 == m2(url)
             k4 == m4("Ok")
             ms == ((OneIf(c1, m1) \o OneIf(t, k2)) \o OneIf(c3, m3)) \o OneIf(t, k4)
  <2>1. Report(h, y, ms)
    <3>1. /\ Closed(f.mhtml) = OneIf(c1, m1) /\ <<k2>> = OneIf(t, k2)
          /\ Stopped(x) = OneIf(c3, m3) /\ <<k4>> = OneIf(t, k4)
      BY SentAlone DEF Closed, Stopped
    <3>2. Report(h, y, Closed(f.mhtml) \o <<k2>> \o Stopped(x) \o <<k4>>)
      BY <1>11
    <3> HIDE DEF y, x, c1, m1, m2, k2, c3, m3, m4, k4
    <3> QED  BY <3>1, <3>2
  <2>2. /\ y \in FrameRecs /\ y.life = f.life /\ y.client = f.client /\ y.mhtml = 0
        /\ y.initial = f.initial
    <3> HIDE DEF x, m
    <3> QED  BY <1>2, <1>10 DEF FrameRecs
  <2>3. /\ k4 \in Messages /\ k4.type = "processed" /\ k4.n = m.n
        /\ k2 \in Messages /\ k2.type = "didCommitSame"
    <3>1. "Ok" \in Args  BY DEF Args
    <3> QED  BY <1>7, <1>8, <1>11, <3>1
  <2>b. t  OBVIOUS
  <2>a. c1 \in BOOLEAN /\ c3 \in BOOLEAN /\ t \in BOOLEAN /\ u \in Seq(Messages)
        /\ m1 \in Messages /\ k2 \in Messages /\ m3 \in Messages /\ k4 \in Messages
    BY <1>1, <1>6, <2>3
  <2> HIDE DEF s, f2, d, d2, m, u, x, y, c1, m1, m2, k2, c3, m3, m4, k4, t
  <2>4. /\ ms \in Seq(Messages)
        /\ \E r1, r2, r3 : /\ UpAdds(r1, u, c1, m1) /\ UpAdds(r2, r1, t, k2)
                           /\ UpAdds(r3, r2, c3, m3) /\ UpAdds(u \o ms, r3, t, k4)
    <3>1. /\ ((OneIf(c1, m1) \o OneIf(t, k2)) \o OneIf(c3, m3)) \o OneIf(t, k4) \in Seq(Messages)
          /\ \E r1, r2, r3 :
               /\ UpAdds(r1, u, c1, m1) /\ UpAdds(r2, r1, t, k2) /\ UpAdds(r3, r2, c3, m3)
               /\ UpAdds(u \o (((OneIf(c1, m1) \o OneIf(t, k2)) \o OneIf(c3, m3)) \o OneIf(t, k4)),
                         r3, t, k4)
      BY ONLY <2>a, Sending4, SMTT(60)
    <3> QED  BY ONLY <3>1 DEF ms
  <2> HIDE DEF ms
  <2>5. /\ frame' \in [Hosts -> FrameRecs] /\ up' \in [Hosts -> Seq(Messages)] /\ f2 = y
        /\ u2 = u \o ms /\ \A g \in Hosts \ {h} : frame'[g] = frame[g] /\ up'[g] = up[g]
    BY <1>1, <2>1, <2>2, <2>4, Reported DEF f2, u, u2
  <2>6. PICK r1, r2, r3 : /\ UpAdds(r1, u, c1, m1) /\ UpAdds(r2, r1, t, k2)
                          /\ UpAdds(r3, r2, c3, m3) /\ UpAdds(u2, r3, t, k4)
    BY <2>4, <2>5
  <2>7. /\ k2.type \in {"didCommitSame", "processed"} /\ m3.type \in {"stopped", "processed"}
        /\ k4.type \in {"stopped", "processed"}
    BY <1>6, <2>3
  <2> QED  BY <1>9, <2>b, <2>2, <2>3, <2>5, <2>6, <2>7
<1>12. ASSUME NEW how \in Args,
              Report(h, x, Closed(f.mhtml) \o Refused(x, m.n, how))
       PROVE  Core'
  <2> DEFINE k == m4(how)
             ms == (OneIf(c1, m1) \o OneIf(t, k)) \o OneIf(c3, m3)
  <2>1. k \in Messages /\ k.type = "processed" /\ k.n = m.n  BY <1>8, <1>12
  <2>2. Refused(x, m.n, how) = OneIf(t, k) \o OneIf(c3, m3)
    BY SentAlone DEF Refused, Stopped
  <2>3. Closed(f.mhtml) = OneIf(c1, m1)  BY DEF Closed
  <2>b. t  OBVIOUS
  <2>a. c1 \in BOOLEAN /\ c3 \in BOOLEAN /\ t \in BOOLEAN /\ u \in Seq(Messages)
        /\ m1 \in Messages /\ m3 \in Messages /\ k \in Messages
    BY <1>1, <1>6, <2>1
  <2> HIDE DEF s, f2, d, d2, m, u, x, c1, m1, m2, c3, m3, m4, k, t
  <2>4. /\ OneIf(c1, m1) \in Seq(Messages) /\ OneIf(t, k) \in Seq(Messages)
        /\ OneIf(c3, m3) \in Seq(Messages)
    BY ONLY <2>a, Sending
  <2>5. Report(h, x, ms)
    <3>1. ms = OneIf(c1, m1) \o (OneIf(t, k) \o OneIf(c3, m3))  BY ONLY <2>4, ConcatAssociative DEF ms
    <3> HIDE DEF ms
    <3> QED  BY <1>12, <2>2, <2>3, <3>1
  <2>6. /\ ms \in Seq(Messages)
        /\ \E r1, r2 : /\ UpAdds(r1, u, c1, m1) /\ UpAdds(r2, r1, t, k)
                       /\ UpAdds(u \o ms, r2, c3, m3)
    <3>1. /\ (OneIf(c1, m1) \o OneIf(t, k)) \o OneIf(c3, m3) \in Seq(Messages)
          /\ \E r1, r2 :
               /\ UpAdds(r1, u, c1, m1) /\ UpAdds(r2, r1, t, k)
               /\ UpAdds(u \o ((OneIf(c1, m1) \o OneIf(t, k)) \o OneIf(c3, m3)), r2, c3, m3)
      BY ONLY <2>a, Sending3
    <3> QED  BY ONLY <3>1 DEF ms
  <2> HIDE DEF ms
  <2>7. /\ frame' \in [Hosts -> FrameRecs] /\ up' \in [Hosts -> Seq(Messages)] /\ f2 = x
        /\ u2 = u \o ms /\ \A g \in Hosts \ {h} : frame'[g] = frame[g] /\ up'[g] = up[g]
    BY <1>1, <1>10, <2>5, <2>6, Reported DEF f2, u, u2
  <2>8. PICK r1, r2 : /\ UpAdds(r1, u, c1, m1) /\ UpAdds(r2, r1, t, k)
                      /\ UpAdds(u2, r2, c3, m3)
    BY <2>6, <2>7
  <2>9. UpAdds(u2, u2, FALSE, m3)
    BY <2>8, Returned DEF UpAdds
  <2>10. /\ k.type \in {"didCommitSame", "processed"} /\ m3.type \in {"stopped", "processed"}
    BY <1>6, <2>1
  <2> QED  BY <1>9, <1>10, <2>b, <2>1, <2>7, <2>8, <2>9, <2>10
<1> QED
  <2>1. /\ "Aborted" \in Args /\ "RestartCrossDocument" \in Args
        /\ "" \in Args /\ "other url" \in Args
    BY DEF Args
  <2>2. \/ \E url \in {"", "other url"} :
              Report(h, [x EXCEPT !.pos = m.n],
                     Closed(f.mhtml) \o <<m2(url)>> \o Stopped(x) \o <<m4("Ok")>>)
        \/ \E how \in {"Aborted", "RestartCrossDocument"} :
              Report(h, x, Closed(f.mhtml) \o Refused(x, m.n, how))
    BY DEF CommitSameDocument
  <2> HIDE DEF m, x, f, m2, m4
  <2> QED  BY <1>11, <1>12, <2>1, <2>2

\* What NewNavigation changes: navigation next starts, with a kind of its own.
LEMMA Started ==
  ASSUME Types, NEW from \in Hosts \cup {None}, NEW kinds \in SUBSET NavKinds,
         NewNavigation(from, kinds)
  PROVE  /\ next \in Navs /\ next \in Nums /\ next # 0 /\ next' = next + 1
         /\ next' \in 1..(MaxNavs + 1)
         /\ nav' \in [Navs -> [from: Hosts \cup {None}, kind: NavKinds]]
         /\ nav'[next].from = from /\ \A n \in Navs \ {next} : nav'[n] = nav[n]
<1>1. /\ next \in 1..(MaxNavs + 1) /\ crashes \in Nat
      /\ nav \in [Navs -> [from: Hosts \cup {None}, kind: NavKinds]]
  BY DEF Types
<1>2. next + crashes <= MaxNavs /\ next' = next + 1  BY DEF NewNavigation
<1>3. /\ next \in Navs /\ next \in Nums /\ next # 0 /\ next' \in 1..(MaxNavs + 1)
  BY ONLY <1>1, <1>2, NavigationAssumption DEF Navs, Nums
<1>4. PICK k \in kinds : nav' = [nav EXCEPT ![next] = [from |-> from, kind |-> k]]
  BY DEF NewNavigation
<1> QED  BY <1>1, <1>2, <1>3, <1>4

\* What a navigation that starts may be.
LEMMA DocumentKinds == \A n \in Navs : Kinds[n] \in SUBSET NavKinds
  BY NavigationAssumption DEF Navs, NavKinds

\* What is known of the navigation that begins next.
LEMMA NextIsUnknown ==
  ASSUME Core, next \in Navs, NEW h \in Hosts
  PROVE  /\ next # ongoing /\ ~Holds(up[h], BeginOf(next)) /\ host[h].pend # next
         /\ next \notin host[h].same /\ next \notin host[h].requests
         /\ ~Holds(down[h], BindOf(next)) /\ ~Holds(down[h], AskOf(next)) /\ ~Holds(down[h], DropOf(next))
         /\ frame[h].mhtml # next /\ ~Holds(up[h], CommitOf(next))
         /\ frame[h].client # next /\ ~Holds(up[h], EndOf(next))
<1>1. next >= next /\ ~(next < next)  BY DEF Navs
<1>2. EarlyOnce(next) /\ EarlyIsUnsent(next) /\ Early(next)  BY <1>1 DEF Core, Early
<1> QED  BY <1>1, <1>2 DEF EarlyOnce, EarlyIsUnsent, IsBegun

\* BeginNavigationInternal: the frame asks for a navigation and keeps the other end of its client.
LEMMA BeginNavigationInternalKeeps ==
  ASSUME Core, NEW h \in Hosts, BeginNavigationInternal(h)
  PROVE  Core'
<1> DEFINE s == host[h]
           f == frame[h]
           f2 == frame'[h]
           d == down[h]
           d2 == down'[h]
           u == up[h]
           u2 == up'[h]
           x == [f EXCEPT !.client = next, !.nav = next, !.mhtml = 0, !.started = TRUE]
           c1 == f.client # 0
           m1 == Msg("disconnected", f.client)
           c2 == f.mhtml # 0
           m2 == Msg("disconnected", f.mhtml)
           t == TRUE
           m3 == Msg("begin", next)
<1>1. /\ Types /\ Lives(h, s, f, d, u) /\ s \in HostRecs /\ f \in FrameRecs
      /\ d \in Seq(Messages) /\ u \in Seq(Messages)
      /\ \A n \in Navs : n # 0 /\ n \in Nums /\ (s.live => Tokens(s, f, d, u, swallowed, n))
  BY Situation
<1>2. /\ next \in Navs /\ next \in Nums /\ next # 0 /\ next' = next + 1
      /\ next' \in 1..(MaxNavs + 1)
      /\ nav' \in [Navs -> [from: Hosts \cup {None}, kind: NavKinds]]
      /\ nav'[next].from = h /\ \A n \in Navs \ {next} : nav'[n] = nav[n]
  <2>1. NewNavigation(h, Kinds[next])  BY DEF BeginNavigationInternal
  <2>2. next \in Navs
    <3>1. next \in 1..(MaxNavs + 1) /\ crashes \in Nat /\ next + crashes <= MaxNavs
      BY <1>1, <2>1 DEF Types, NewNavigation
    <3> QED  BY ONLY <3>1, NavigationAssumption DEF Navs
  <2> QED  BY <1>1, <2>1, <2>2, DocumentKinds, Started
<1>3. /\ UNCHANGED <<ongoing, current, initial, host, down, crashes>>
      /\ swallowed' = swallowed /\ bad' = bad
  BY DEF BeginNavigationInternal
<1>4. 0 \in Nums /\ f.client \in Nums /\ f.mhtml \in Nums
  BY <1>1, NavigationAssumption DEF Nums, FrameRecs
<1>5. /\ m1 \in Messages /\ m1.type = "disconnected" /\ m1.n = f.client
      /\ m2 \in Messages /\ m2.type = "disconnected" /\ m2.n = f.mhtml
      /\ m3 \in Messages /\ m3.type = "begin" /\ m3.n = next
      /\ c1 \in BOOLEAN /\ c2 \in BOOLEAN /\ t \in BOOLEAN
  <2>1. "begin" \in DownTypes \cup UpTypes  BY DEF UpTypes
  <2>2. m3 \in Messages /\ m3.type = "begin" /\ m3.n = next  BY <1>2, <2>1, Plain
  <2>3. m1 \in Messages /\ m1.type = "disconnected" /\ m1.n = f.client  BY <1>4, ClosedMessage
  <2>4. m2 \in Messages /\ m2.type = "disconnected" /\ m2.n = f.mhtml  BY <1>4, ClosedMessage
  <2> QED  BY <2>2, <2>3, <2>4
<1>6. /\ x \in FrameRecs /\ x.life = f.life /\ x.client = next /\ x.mhtml = 0 /\ x.initial = f.initial
  <2> HIDE DEF f
  <2> QED  BY <1>1, <1>2, <1>4 DEF FrameRecs
<1>7. /\ frame' \in [Hosts -> FrameRecs] /\ up' \in [Hosts -> Seq(Messages)] /\ f2 = x
      /\ \E r1, r2 : UpAdds(r1, u, c1, m1) /\ UpAdds(r2, r1, c2, m2) /\ UpAdds(u2, r2, t, m3)
      /\ \A g \in Hosts \ {h} : frame'[g] = frame[g] /\ up'[g] = up[g]
  <2> DEFINE ms == (OneIf(c1, m1) \o OneIf(c2, m2)) \o OneIf(t, m3)
  <2>1. Report(h, x, ms)
    <3>1. /\ Closed(f.client) = OneIf(c1, m1) /\ Closed(f.mhtml) = OneIf(c2, m2)
          /\ <<m3>> = OneIf(t, m3)
      BY SentAlone DEF Closed
    <3>2. Report(h, x, Closed(f.client) \o Closed(f.mhtml) \o <<m3>>)
      BY DEF BeginNavigationInternal
    <3> HIDE DEF x, c1, m1, c2, m2, t, m3
    <3> QED  BY <3>1, <3>2
  <2> HIDE DEF x, c1, m1, c2, m2, t, m3
  <2>2. /\ ms \in Seq(Messages)
        /\ \E r1, r2 : UpAdds(r1, u, c1, m1) /\ UpAdds(r2, r1, c2, m2) /\ UpAdds(u \o ms, r2, t, m3)
    BY <1>1, <1>5, Sending3
  <2> HIDE DEF ms
  <2>3. /\ frame' \in [Hosts -> FrameRecs] /\ up' \in [Hosts -> Seq(Messages)] /\ f2 = x
        /\ u2 = u \o ms /\ \A g \in Hosts \ {h} : frame'[g] = frame[g] /\ up'[g] = up[g]
    BY <1>1, <1>6, <2>1, <2>2, Reported
  <2> QED  BY <2>2, <2>3
<1>8. PICK r1, r2 : UpAdds(r1, u, c1, m1) /\ UpAdds(r2, r1, c2, m2) /\ UpAdds(u2, r2, t, m3)
  BY <1>7
<1>9. /\ f2.life = f.life /\ f2.client = next /\ f2.mhtml = 0 /\ f2.initial = f.initial
      /\ f.life = "attached"
  BY <1>6, <1>7 DEF BeginNavigationInternal, Attached
<1>10. /\ ~Holds(u, BeginOf(next)) /\ ~Holds(u, EndOf(next)) /\ ~Holds(u, CommitOf(next))
       /\ ~Holds(d, BindOf(next)) /\ ~Holds(d, AskOf(next))
       /\ next \notin s.requests /\ next \notin s.same
       /\ f.client # next /\ f.mhtml # next
  BY <1>2, NextIsUnknown
<1>11. (c1 <=> f.client # 0) /\ (c2 <=> f.mhtml # 0) /\ t /\ d2 = d
  BY <1>3
<1> HIDE DEF s, f, f2, d, d2, u, u2, x, c1, m1, c2, m2, t, m3
<1>12. Lives(h, s, f2, d2, u2)
  <2>1. HostLives(h, s, f2, d2, u2)
    BY <1>1, <1>5, <1>8, <1>9, <1>11 DEF Lives, HostLives, ChannelsLive, UpAdds
  <2>2. ChannelsLive(s, f2, d2, u2)
    BY <1>1, <1>5, <1>8, <1>9, <1>11 DEF Lives, HostLives, ChannelsLive, UpAdds
  <2>3. InitialLives(h, s, f2, u2)
    BY <1>1, <1>5, <1>8, <1>9, <1>11, ThenHolds DEF Lives, InitialLives, UpAdds
  <2> QED  BY <2>1, <2>2, <2>3 DEF Lives
<1>13. ASSUME NEW n \in Navs, s.live PROVE Tokens(s, f2, d2, u2, swallowed, n)
  <2>1. Tokens(s, f, d, u, swallowed, n) /\ n # 0  BY <1>1, <1>13
  <2>2. Holds(u2, CommitOf(n)) <=> Holds(u, CommitOf(n))  BY <1>5, <1>8 DEF UpAdds
  <2>3. Holds(u2, AnswerOf(n)) <=> Holds(u, AnswerOf(n))  BY <1>5, <1>8 DEF UpAdds
  <2>4. /\ Holds(u2, ReturnOf(n)) <=> Holds(u, ReturnOf(n)) \/ f.client = n \/ f.mhtml = n
        /\ Then(u2, ReturnOf(n), ReturnOf(n))
              <=> \/ Then(u, ReturnOf(n), ReturnOf(n))
                  \/ (f.client = n \/ f.mhtml = n) /\ Holds(u, ReturnOf(n))
                  \/ f.client = n /\ f.mhtml = n
    BY <1>5, <1>8, <1>11, <2>1 DEF UpAdds
  <2>5. n = next => ~Holds(u, ReturnOf(n)) /\ ~Then(u, ReturnOf(n), ReturnOf(n))
    BY <1>10, Returned, ThenHolds
  <2>6. CASE n = next
    <3>1. /\ ~Holds(u2, ReturnOf(n)) /\ ~Then(u2, ReturnOf(n), ReturnOf(n))
          /\ ~Holds(u2, CommitOf(n))
      BY <1>10, <2>2, <2>4, <2>5, <2>6
    <3> QED  BY <1>9, <1>10, <1>11, <2>1, <2>6, <3>1 DEF Tokens
  <2>7. CASE n # next
    BY <1>9, <1>11, <2>1, <2>2, <2>3, <2>4, <2>7 DEF Tokens
  <2> QED  BY <2>6, <2>7
<1>14. ASSUME NEW n \in Navs, n # next PROVE FrameMoves(s, f, d, u, f2, d2, u2, n)
  BY <1>1, <1>5, <1>8, <1>9, <1>11, <1>14 DEF FrameMoves, Awaited, UpAdds
<1>15. FrameBegins(f2, d, d2, u2, next)
  BY <1>2, <1>5, <1>8, <1>9, <1>10, <1>11, ThenHolds DEF FrameBegins, UpAdds
<1>16. FrameSteps(h, next)
  BY <1>2, <1>3, <1>7, <1>14, <1>15 DEF FrameSteps, s, f, f2, d, d2, u, u2
<1>17. Types'
  BY <1>1, <1>2, <1>3, <1>7 DEF Types
<1>18. Lives(h, host[h], frame[h], down[h], up[h])'
  BY <1>3, <1>12 DEF Lives, HostLives, ChannelsLive, InitialLives, s, f2, d2, u2
<1>19. \A n \in Navs : host[h].live => Tokens(host[h], frame[h], down[h], up[h], swallowed, n)'
  BY <1>3, <1>13 DEF Tokens, s, f2, d2, u2
<1> QED
  BY <1>3, <1>16, <1>17, <1>18, <1>19, FrameStepsKeep

\* DidFinishSameDocumentNavigation: a page that navigates within its document tells the browser.
LEMMA DidFinishSameDocumentNavigationKeeps ==
  ASSUME Core, NEW h \in Hosts, DidFinishSameDocumentNavigation(h)
  PROVE  Core'
<1> DEFINE s == host[h]
           f == frame[h]
           f2 == frame'[h]
           d == down[h]
           d2 == down'[h]
           u == up[h]
           u2 == up'[h]
           x == [f EXCEPT !.pos = next]
           t == TRUE
           m1 == Msg("didCommitSame", next)
           c2 == ~IsLoading(f)
           m2 == Msg("stopped", 0)
<1>1. /\ Types /\ Lives(h, s, f, d, u) /\ s \in HostRecs /\ f \in FrameRecs
      /\ d \in Seq(Messages) /\ u \in Seq(Messages)
      /\ \A n \in Navs : n # 0 /\ n \in Nums /\ (s.live => Tokens(s, f, d, u, swallowed, n))
  BY Situation
<1>2. /\ next \in Navs /\ next \in Nums /\ next # 0 /\ next' = next + 1
      /\ next' \in 1..(MaxNavs + 1)
      /\ nav' \in [Navs -> [from: Hosts \cup {None}, kind: NavKinds]]
      /\ nav'[next].from = h /\ \A n \in Navs \ {next} : nav'[n] = nav[n]
  <2>1. NewNavigation(h, {"same"})  BY DEF DidFinishSameDocumentNavigation
  <2>2. {"same"} \in SUBSET NavKinds  BY DEF NavKinds
  <2> QED  BY <1>1, <2>1, <2>2, Started
<1>3. /\ UNCHANGED <<ongoing, current, initial, host, down, crashes>>
      /\ swallowed' = swallowed /\ bad' = bad
  BY DEF DidFinishSameDocumentNavigation
<1>5. /\ m1 \in Messages /\ m1.type = "didCommitSame" /\ m1.n = next
      /\ m2 \in Messages /\ m2.type = "stopped"
      /\ t \in BOOLEAN /\ c2 \in BOOLEAN
  <2>1. "didCommitSame" \in DownTypes \cup UpTypes  BY DEF UpTypes
  <2> QED  BY <1>2, <2>1, Plain, StoppedMessage DEF IsLoading
<1>6. /\ x \in FrameRecs /\ x.life = f.life /\ x.client = f.client /\ x.mhtml = f.mhtml
      /\ x.initial = f.initial
  <2> HIDE DEF f
  <2> QED  BY <1>1, <1>2 DEF FrameRecs
<1>7. /\ frame' \in [Hosts -> FrameRecs] /\ up' \in [Hosts -> Seq(Messages)] /\ f2 = x
      /\ \E r1 : UpAdds(r1, u, t, m1) /\ UpAdds(u2, r1, c2, m2)
      /\ \A g \in Hosts \ {h} : frame'[g] = frame[g] /\ up'[g] = up[g]
  <2> DEFINE ms == OneIf(t, m1) \o OneIf(c2, m2)
  <2>1. Report(h, x, ms)
    <3>1. <<m1>> = OneIf(t, m1) /\ Stopped(f) = OneIf(c2, m2)
      BY SentAlone DEF Stopped
    <3>2. Report(h, x, <<m1>> \o Stopped(f))
      BY DEF DidFinishSameDocumentNavigation
    <3> HIDE DEF x, c2, m1, m2, t
    <3> QED  BY <3>1, <3>2
  <2> HIDE DEF x, m1, c2, m2, t
  <2>2. /\ ms \in Seq(Messages)
        /\ \E r1 : UpAdds(r1, u, t, m1) /\ UpAdds(u \o ms, r1, c2, m2)
    BY <1>1, <1>5, Sending2
  <2> HIDE DEF ms
  <2>3. /\ frame' \in [Hosts -> FrameRecs] /\ up' \in [Hosts -> Seq(Messages)] /\ f2 = x
        /\ u2 = u \o ms /\ \A g \in Hosts \ {h} : frame'[g] = frame[g] /\ up'[g] = up[g]
    BY <1>1, <1>6, <2>1, <2>2, Reported
  <2> QED  BY <2>2, <2>3
<1>8. PICK r1 : UpAdds(r1, u, t, m1) /\ UpAdds(u2, r1, c2, m2)
  BY <1>7
<1>9. /\ f2.life = f.life /\ f2.client = f.client /\ f2.mhtml = f.mhtml /\ f2.initial = f.initial
      /\ f.life = "attached"
  BY <1>6, <1>7 DEF DidFinishSameDocumentNavigation, Attached
<1>11. t /\ d2 = d  BY <1>3
<1> HIDE DEF s, f, f2, d, d2, u, u2, x, m1, c2, m2, t
<1>12. Lives(h, s, f2, d2, u2)
  <2>1. HostLives(h, s, f2, d2, u2)
    BY <1>1, <1>5, <1>8, <1>9, <1>11 DEF Lives, HostLives, ChannelsLive, UpAdds
  <2>2. ChannelsLive(s, f2, d2, u2)
    BY <1>1, <1>5, <1>8, <1>9, <1>11 DEF Lives, HostLives, ChannelsLive, UpAdds
  <2>3. InitialLives(h, s, f2, u2)
    BY <1>1, <1>5, <1>8, <1>9, <1>11, ThenHolds DEF Lives, InitialLives, UpAdds
  <2> QED  BY <2>1, <2>2, <2>3 DEF Lives
<1>13. ASSUME NEW n \in Navs, s.live PROVE Tokens(s, f2, d2, u2, swallowed, n)
  BY <1>1, <1>5, <1>8, <1>9, <1>11, <1>13 DEF Tokens, UpAdds
<1>14. ASSUME NEW n \in Navs PROVE FrameMoves(s, f, d, u, f2, d2, u2, n)
  BY <1>1, <1>5, <1>8, <1>9, <1>11, <1>14 DEF FrameMoves, Awaited, UpAdds
<1>16. FrameSteps(h, 0)
  <2>1. \A n \in Navs : n # 0  BY <1>1
  <2>2. \A n \in Navs : FrameMoves(host[h], frame[h], down[h], up[h], frame'[h], down'[h], up'[h], n)
    BY <1>14 DEF s, f, f2, d, d2, u, u2
  <2>3. /\ UNCHANGED <<ongoing, current, initial, host>>
        /\ \A g \in Hosts \ {h} : frame'[g] = frame[g] /\ down'[g] = down[g] /\ up'[g] = up[g]
    BY <1>3, <1>7
  <2> QED  BY <1>2, <2>1, <2>2, <2>3 DEF FrameSteps
<1>17. Types'
  BY <1>1, <1>2, <1>3, <1>7 DEF Types
<1>18. Lives(h, host[h], frame[h], down[h], up[h])'
  BY <1>3, <1>12 DEF Lives, HostLives, ChannelsLive, InitialLives, s, f2, d2, u2
<1>19. \A n \in Navs : host[h].live => Tokens(host[h], frame[h], down[h], up[h], swallowed, n)'
  BY <1>3, <1>13 DEF Tokens, s, f2, d2, u2
<1> QED
  BY <1>3, <1>16, <1>17, <1>18, <1>19, FrameStepsKeep

-----------------------------------------------------------------------------
(* What the steps of the browser do to the channels.                       *)

DownAdds(r, q, c, m) ==
    /\ r \in Seq(Messages)
    /\ Holds(r, Ends) <=> Holds(q, Ends) \/ (c /\ m.type \in {"unload", "undo", "delete"})
    /\ Holds(r, Unloads) <=> Holds(q, Unloads) \/ (c /\ m.type = "unload")
    /\ Holds(r, Deletes) <=> Holds(q, Deletes) \/ (c /\ m.type = "delete")
    /\ Holds(r, Sames) <=> Holds(q, Sames) \/ (c /\ m.type = "same")
    /\ Holds(r, Asks) <=> Holds(q, Asks) \/ (c /\ m.type = "commit")
    /\ Holds(r, Blanks) <=> Holds(q, Blanks) \/ (c /\ m.type \in {"bind", "commit"} /\ m.n = 0)
    /\ Holds(r, Preparations) <=> Holds(q, Preparations) \/ (c /\ m.type \in {"commit", "bind"})
    /\ Then(r, Ends, Sames) <=> Then(q, Ends, Sames) \/ (c /\ m.type = "same" /\ Holds(q, Ends))
    /\ \A n \in Navs :
        /\ Holds(r, BindOf(n)) <=> Holds(q, BindOf(n)) \/ (c /\ m.type = "bind" /\ m.n = n)
        /\ Holds(r, AskOf(n)) <=> Holds(q, AskOf(n)) \/ (c /\ m.type = "commit" /\ m.n = n)
        /\ Holds(r, SameOf(n)) <=> Holds(q, SameOf(n)) \/ (c /\ m.type = "same" /\ m.n = n)
        /\ Holds(r, DropOf(n)) <=> Holds(q, DropOf(n)) \/ (c /\ m.type = "dropped" /\ m.n = n)
        /\ Then(r, BindOf(n), BindOf(n))
              <=> Then(q, BindOf(n), BindOf(n)) \/ (c /\ m.type = "bind" /\ m.n = n /\ Holds(q, BindOf(n)))
        /\ Then(r, BindOf(n), AskOf(n))
              <=> Then(q, BindOf(n), AskOf(n)) \/ (c /\ m.type = "commit" /\ m.n = n /\ Holds(q, BindOf(n)))

UpPops(q, m, r) ==
    /\ m \in Messages /\ r \in Seq(Messages) /\ q # <<>>
    /\ Holds(q, Shown)
          <=> m.type \in {"begin", "didCommitSame", "didCommit"} \/ Holds(r, Shown)
    /\ Holds(q, Unloadeds) <=> m.type = "unloaded" \/ Holds(r, Unloadeds)
    /\ Holds(q, RealCommits) <=> (m.type = "didCommit" /\ m.n \in Navs) \/ Holds(r, RealCommits)
    /\ Holds(q, InitialCommits)
          <=> \/ m.type = "didCommit" /\ (m.n = 0 \/ m.arg = "same global")
              \/ Holds(r, InitialCommits)
    /\ Then(q, RealCommits, InitialCommits)
          <=> \/ Then(r, RealCommits, InitialCommits)
              \/ m.type = "didCommit" /\ m.n \in Navs /\ Holds(r, InitialCommits)
    /\ FirstIs(q, Shown, Commits)
          <=> \/ m.type = "didCommit"
              \/ m.type \notin {"begin", "didCommitSame"} /\ FirstIs(r, Shown, Commits)
    /\ \A n \in Navs :
        /\ Holds(q, BeginOf(n)) <=> (m.type = "begin" /\ m.n = n) \/ Holds(r, BeginOf(n))
        /\ Holds(q, CommitOf(n)) <=> (m.type = "didCommit" /\ m.n = n) \/ Holds(r, CommitOf(n))
        /\ Holds(q, EndOf(n)) <=> (m.type = "disconnected" /\ m.n = n) \/ Holds(r, EndOf(n))
        /\ Holds(q, ReturnOf(n))
              <=> (m.type \in {"didCommit", "disconnected"} /\ m.n = n) \/ Holds(r, ReturnOf(n))
        /\ Holds(q, AnswerOf(n))
              <=> (m.type = "processed" /\ m.n = n) \/ Holds(r, AnswerOf(n))
        /\ Then(q, ReturnOf(n), ReturnOf(n))
              <=> \/ Then(r, ReturnOf(n), ReturnOf(n))
                  \/ m.type \in {"didCommit", "disconnected"} /\ m.n = n /\ Holds(r, ReturnOf(n))
        /\ Then(q, BeginOf(n), BeginOf(n))
              <=> Then(r, BeginOf(n), BeginOf(n)) \/ (m.type = "begin" /\ m.n = n /\ Holds(r, BeginOf(n)))
        /\ Then(q, EndOf(n), BeginOf(n))
              <=> Then(r, EndOf(n), BeginOf(n)) \/ (m.type = "disconnected" /\ m.n = n /\ Holds(r, BeginOf(n)))

\* Channel e is channel d with messages behind it that tell of the end of the navigations ns.
Drops(e, d, ns) ==
    /\ e \in Seq(Messages)
    /\ Holds(e, Ends) <=> Holds(d, Ends)
    /\ Holds(e, Unloads) <=> Holds(d, Unloads)
    /\ Holds(e, Deletes) <=> Holds(d, Deletes)
    /\ Holds(e, Sames) <=> Holds(d, Sames)
    /\ Holds(e, Asks) <=> Holds(d, Asks)
    /\ Holds(e, Blanks) <=> Holds(d, Blanks)
    /\ Holds(e, Preparations) <=> Holds(d, Preparations)
    /\ Then(e, Ends, Sames) <=> Then(d, Ends, Sames)
    /\ \A n \in Navs :
        /\ Holds(e, BindOf(n)) <=> Holds(d, BindOf(n))
        /\ Holds(e, AskOf(n)) <=> Holds(d, AskOf(n))
        /\ Holds(e, SameOf(n)) <=> Holds(d, SameOf(n))
        /\ Holds(e, DropOf(n)) => Holds(d, DropOf(n)) \/ n \in ns
        /\ Then(e, BindOf(n), BindOf(n)) <=> Then(d, BindOf(n), BindOf(n))
        /\ Then(e, BindOf(n), AskOf(n)) <=> Then(d, BindOf(n), AskOf(n))

\* When a message is of each of the classes of messages that the browser sends.
LEMMA InDown ==
  ASSUME NEW m \in Messages
  PROVE  /\ m \in Ends <=> m.type \in {"unload", "undo", "delete"}
         /\ m \in Unloads <=> m.type = "unload"
         /\ m \in Deletes <=> m.type = "delete"
         /\ m \in Sames <=> m.type = "same"
         /\ m \in Asks <=> m.type = "commit"
         /\ m \in Preparations <=> m.type \in {"commit", "bind"}
         /\ m \in Blanks <=> m.type \in {"bind", "commit"} /\ m.n = 0
         /\ \A n : /\ m \in BindOf(n) <=> m.type = "bind" /\ m.n = n
                   /\ m \in AskOf(n) <=> m.type = "commit" /\ m.n = n
                   /\ m \in SameOf(n) <=> m.type = "same" /\ m.n = n
                   /\ m \in DropOf(n) <=> m.type = "dropped" /\ m.n = n
<1>1. m.n \in Nums  BY MessageFacts
<1>2. \A types, ns : m \in Of(types, ns) <=> m.type \in types /\ m.n \in ns
  BY MessageFacts
<1>3. /\ m \in Ends <=> m.type \in {"unload", "undo", "delete"}
      /\ m \in Unloads <=> m.type = "unload"
      /\ m \in Deletes <=> m.type = "delete"
      /\ m \in Sames <=> m.type = "same"
      /\ m \in Asks <=> m.type = "commit"
      /\ m \in Preparations <=> m.type \in {"commit", "bind"}
      /\ m \in Blanks <=> m.type \in {"bind", "commit"} /\ m.n = 0
  BY <1>1, <1>2 DEF Ends, Unloads, Deletes, Sames, Asks, Preparations, Blanks, All
<1>4. ASSUME NEW n PROVE /\ m \in BindOf(n) <=> m.type = "bind" /\ m.n = n
                         /\ m \in AskOf(n) <=> m.type = "commit" /\ m.n = n
                         /\ m \in SameOf(n) <=> m.type = "same" /\ m.n = n
                         /\ m \in DropOf(n) <=> m.type = "dropped" /\ m.n = n
  BY <1>2 DEF BindOf, AskOf, SameOf, DropOf, One
<1> QED  BY <1>3, <1>4

\* What one message more changes in the classes of messages that the browser sends.
LEMMA AddsDown ==
  ASSUME NEW q, NEW c \in BOOLEAN, NEW m, NEW r, Adds(r, q, c, m), c => m \in Messages
  PROVE  DownAdds(r, q, c, m)
<1>1. r \in Seq(Messages)  BY DEF Adds
<1>2. CASE ~c
  BY <1>1, <1>2 DEF Adds, DownAdds
<1>3. CASE c
  <2>1. \A S : Holds(r, S) <=> Holds(q, S) \/ m \in S  BY <1>3 DEF Adds
  <2>2. \A S, T : Then(r, S, T) <=> Then(q, S, T) \/ (m \in T /\ Holds(q, S))  BY <1>3 DEF Adds
  <2> QED  BY <1>1, <1>3, <2>1, <2>2, InDown DEF DownAdds
<1> QED  BY <1>2, <1>3

\* What a browser that takes a message changes in the classes of messages that frames send.
LEMMA PopsUp ==
  ASSUME NEW q, NEW m, NEW r, Pops(q, m, r), q # <<>>
  PROVE  UpPops(q, m, r)
<1>1. m \in Messages /\ r \in Seq(Messages)  BY DEF Pops
<1>2. \A S : Holds(q, S) <=> m \in S \/ Holds(r, S)  BY DEF Pops
<1>3. \A S, T : Then(q, S, T) <=> Then(r, S, T) \/ (m \in S /\ Holds(r, T))  BY DEF Pops
<1>4. \A S, T : FirstIs(q, T, S) <=> m \in S \/ (m \notin T /\ FirstIs(r, T, S))  BY DEF Pops
<1>5. m.n \in Nums  BY <1>1, MessageFacts
<1>6. /\ m \in Shown <=> m.type \in {"begin", "didCommitSame", "didCommit"}
      /\ m \in Commits <=> m.type = "didCommit"
      /\ m \in RealCommits <=> m.type = "didCommit" /\ m.n \in Navs
      /\ m \in InitialCommits <=> m.type = "didCommit" /\ (m.n = 0 \/ m.arg = "same global")
      /\ m \in Unloadeds <=> m.type = "unloaded"
  BY <1>1, InUp
<1>7. ASSUME NEW n \in Navs
      PROVE  /\ m \in BeginOf(n) <=> m.type = "begin" /\ m.n = n
             /\ m \in CommitOf(n) <=> m.type = "didCommit" /\ m.n = n
             /\ m \in EndOf(n) <=> m.type = "disconnected" /\ m.n = n
             /\ m \in ReturnOf(n) <=> m.type \in {"didCommit", "disconnected"} /\ m.n = n
             /\ m \in AnswerOf(n) <=> m.type = "processed" /\ m.n = n
  BY <1>1, InUp
<1>8. FirstIs(q, Shown, Commits)
        <=> \/ m.type = "didCommit"
            \/ m.type \notin {"begin", "didCommitSame"} /\ FirstIs(r, Shown, Commits)
  BY <1>4, <1>6
<1>9. \A n \in Navs :
        /\ Holds(q, BeginOf(n)) <=> (m.type = "begin" /\ m.n = n) \/ Holds(r, BeginOf(n))
        /\ Holds(q, CommitOf(n)) <=> (m.type = "didCommit" /\ m.n = n) \/ Holds(r, CommitOf(n))
        /\ Holds(q, EndOf(n)) <=> (m.type = "disconnected" /\ m.n = n) \/ Holds(r, EndOf(n))
        /\ Holds(q, ReturnOf(n))
              <=> (m.type \in {"didCommit", "disconnected"} /\ m.n = n) \/ Holds(r, ReturnOf(n))
        /\ Holds(q, AnswerOf(n))
              <=> (m.type = "processed" /\ m.n = n) \/ Holds(r, AnswerOf(n))
  BY <1>2, <1>7
<1>10. \A n \in Navs :
        /\ Then(q, ReturnOf(n), ReturnOf(n))
              <=> \/ Then(r, ReturnOf(n), ReturnOf(n))
                  \/ m.type \in {"didCommit", "disconnected"} /\ m.n = n /\ Holds(r, ReturnOf(n))
        /\ Then(q, BeginOf(n), BeginOf(n))
              <=> Then(r, BeginOf(n), BeginOf(n)) \/ (m.type = "begin" /\ m.n = n /\ Holds(r, BeginOf(n)))
        /\ Then(q, EndOf(n), BeginOf(n))
              <=> Then(r, EndOf(n), BeginOf(n)) \/ (m.type = "disconnected" /\ m.n = n /\ Holds(r, BeginOf(n)))
  BY <1>3, <1>7
<1> QED  BY <1>1, <1>2, <1>3, <1>6, <1>8, <1>9, <1>10 DEF UpPops

\* Messages of which each tells of the end of one of ns.
LEMMA DroppingAll ==
  ASSUME NEW q \in Seq(Messages), NEW ns, NEW b \in Seq(Messages),
         \A i \in DOMAIN b : b[i].type = "dropped" /\ b[i].n \in ns
  PROVE  Drops(q \o b, q, ns)
<1>1. Joins(q \o b, q, b) /\ q \o b \in Seq(Messages)  BY Concat
<1> DEFINE e == q \o b
<1>2. /\ e \in Seq(Messages)
      /\ \A S : Holds(e, S) <=> Holds(q, S) \/ Holds(b, S)
      /\ \A S, T : Then(e, S, T) <=> Then(q, S, T) \/ Then(b, S, T) \/ (Holds(q, S) /\ Holds(b, T))
  BY <1>1 DEF Joins
<1> HIDE DEF e
<1>3. \A i \in DOMAIN b : b[i] \in Messages  OBVIOUS
<1>4. /\ ~Holds(b, Ends) /\ ~Holds(b, Unloads) /\ ~Holds(b, Deletes) /\ ~Holds(b, Sames)
      /\ ~Holds(b, Asks) /\ ~Holds(b, Blanks) /\ ~Holds(b, Preparations)
  BY <1>3, InDown DEF Holds
<1>5. ASSUME NEW n PROVE /\ ~Holds(b, BindOf(n)) /\ ~Holds(b, AskOf(n)) /\ ~Holds(b, SameOf(n))
                         /\ Holds(b, DropOf(n)) => n \in ns
  BY <1>3, InDown DEF Holds
<1> QED  BY <1>2, <1>4, <1>5, ThenHolds DEF Drops, e

\* The end of one client.
LEMMA DroppingOne ==
  ASSUME NEW q \in Seq(Messages), NEW n \in Nums
  PROVE  <<Msg("dropped", n)>> \in Seq(Messages) /\ Drops(q \o <<Msg("dropped", n)>>, q, {n})
<1> DEFINE m == Msg("dropped", n)
           b == <<m>>
<1>1. m \in Messages /\ m.type = "dropped" /\ m.n = n
  <2>1. "dropped" \in DownTypes \cup UpTypes  BY DEF DownTypes
  <2> QED  BY <2>1, Plain
<1> HIDE DEF m
<1>2. b \in Seq(Messages) /\ \A i \in DOMAIN b : b[i].type = "dropped" /\ b[i].n \in {n}
  BY <1>1
<1> QED  BY <1>2, DroppingAll DEF m

\* A channel that stays what it is.
LEMMA DropsNothing == \A q \in Seq(Messages) : \A ns : Drops(q, q, ns)
  BY DEF Drops

\* The end of some clients after the end of others.
LEMMA DropsMore ==
  \A q, r, e, ns, ms : Drops(r, q, ns) /\ Drops(e, r, ms) => Drops(e, q, ns \cup ms)
  BY DEF Drops

\* What a navigation that ends sends, if there is one.
LEMMA DroppedOne ==
  ASSUME Types, NEW c \in [Hosts -> Seq(Messages)], NEW n \in Nums
  PROVE  /\ Dropped(c, n) \in [Hosts -> Seq(Messages)]
         /\ \A g \in Hosts : /\ Drops(Dropped(c, n)[g], c[g], {n})
                             /\ frame[g].life # "attached" => Dropped(c, n)[g] = c[g]
<1>1. CASE n = 0 \/ nav[n].from = None \/ frame[nav[n].from].life # "attached"
  <2>1. Dropped(c, n) = c  BY <1>1 DEF Dropped
  <2> QED  BY <2>1, DropsNothing
<1>2. CASE ~(n = 0 \/ nav[n].from = None \/ frame[nav[n].from].life # "attached")
  <2>1. n \in Navs  BY <1>2, NavigationAssumption DEF Nums, Navs
  <2>2. nav[n].from \in Hosts  BY <1>2, <2>1 DEF Types
  <2> DEFINE o == nav[n].from
             b == <<Msg("dropped", n)>>
  <2>3. Dropped(c, n) = [c EXCEPT ![o] = c[o] \o b]  BY <1>2, <2>2 DEF Dropped, Send
  <2>4. c[o] \in Seq(Messages)  BY <2>2
  <2>5. b \in Seq(Messages) /\ Drops(c[o] \o b, c[o], {n})  BY <2>4, DroppingOne
  <2>6. c[o] \o b \in Seq(Messages)  BY <2>5 DEF Drops
  <2>7. frame[o].life = "attached"  BY <1>2
  <2> HIDE DEF o, b
  <2> QED  BY <2>2, <2>3, <2>5, <2>6, <2>7, DropsNothing DEF o
<1> QED  BY <1>1, <1>2

\* DroppedAll: every frame that is attached is told of the end of the clients of ns.
LEMMA DroppedSome ==
  ASSUME Types, NEW c \in [Hosts -> Seq(Messages)], NEW ns \in SUBSET Navs
  PROVE  /\ DroppedAll(c, ns) \in [Hosts -> Seq(Messages)]
         /\ \A g \in Hosts : /\ Drops(DroppedAll(c, ns)[g], c[g], ns)
                             /\ frame[g].life # "attached" => DroppedAll(c, ns)[g] = c[g]
<1>1. ASSUME NEW g \in Hosts
      PROVE  /\ DroppedAll(c, ns)[g] \in Seq(Messages)
             /\ Drops(DroppedAll(c, ns)[g], c[g], ns)
             /\ frame[g].life # "attached" => DroppedAll(c, ns)[g] = c[g]
  <2> DEFINE es == {n \in ns : nav[n].from = g}
             b == [i \in 1..Cardinality(es) |-> Msg("dropped", SetToSeq(es)[i])]
             q == c[g]
  <2>1. q \in Seq(Messages)  OBVIOUS
  <2>2. CASE frame[g].life # "attached"
    <3>1. DroppedAll(c, ns)[g] = q \o <<>>  BY <2>2 DEF DroppedAll
    <3>2. q \o <<>> = q  BY <2>1, ConcatEmptySeq
    <3> QED  BY <2>1, <3>1, <3>2, DropsNothing
  <2>3. CASE frame[g].life = "attached"
    <3>1. DroppedAll(c, ns)[g] = q \o b  BY <2>3 DEF DroppedAll
    <3>2. IsFiniteSet(Navs) /\ es \subseteq Navs /\ ns \subseteq Navs
      <4>1. 1 \in Int /\ MaxNavs \in Int  BY NavigationAssumption
      <4> QED  BY <4>1, FS_Interval DEF Navs
    <3>3. IsFiniteSet(es)  BY <3>2, FS_Subset
    <3>4. Cardinality(es) \in Nat  BY <3>3, FS_CardinalityType
    <3>5. ASSUME NEW i \in 1..Cardinality(es) PROVE SetToSeq(es)[i] \in es
      <4>1. \E f \in [1..Cardinality(es) -> es] : IsInjective(f)
        <5>1. ExistsBijection(1..Cardinality(es), es)  BY <3>3, FS_CardinalityType
        <5> QED  BY <5>1 DEF ExistsBijection, Bijection, Injection
      <4>2. SetToSeq(es) \in [1..Cardinality(es) -> es]
        BY <4>1 DEF SetToSeq
      <4> QED  BY <3>5, <4>2
    <3>6. ASSUME NEW i \in 1..Cardinality(es)
          PROVE  b[i] \in Messages /\ b[i].type = "dropped" /\ b[i].n \in ns
      <4>1. "dropped" \in DownTypes \cup UpTypes  BY DEF DownTypes
      <4>2. SetToSeq(es)[i] \in ns /\ SetToSeq(es)[i] \in Nums
        BY <3>2, <3>5, <3>6 DEF Navs, Nums
      <4> DEFINE k == SetToSeq(es)[i]
      <4>3. b[i] = Msg("dropped", k)  BY <3>6
      <4>4. k \in ns /\ k \in Nums  BY <4>2
      <4> HIDE DEF b, es, k
      <4>5. Msg("dropped", k) \in Messages /\ Msg("dropped", k).type = "dropped" /\ Msg("dropped", k).n = k
        BY <4>1, <4>4, Plain
      <4> QED  BY <4>3, <4>4, <4>5
    <3>7. b \in [1..Cardinality(es) -> Messages]  BY <3>6
    <3>8. b \in Seq(Messages) /\ DOMAIN b = 1..Cardinality(es)
      <4> HIDE DEF b, es
      <4> QED  BY <3>4, <3>7, SeqDef
    <3> HIDE DEF b, es
    <3>9. Drops(q \o b, q, ns)  BY <2>1, <3>6, <3>8, DroppingAll
    <3> QED  BY <2>3, <3>1, <3>9 DEF Drops
  <2> QED  BY <2>2, <2>3
<1>2. DroppedAll(c, ns) = [g \in Hosts |-> DroppedAll(c, ns)[g]]
  BY DEF DroppedAll
<1> QED  BY <1>1, <1>2

-----------------------------------------------------------------------------
(* The steps of the browser.                                               *)

\* Host g takes no part in a step, except that its frame is told of the end of ns.
Untouched(g, ns) ==
    /\ host'[g] = host[g] /\ frame'[g] = frame[g] /\ up'[g] = up[g]
    /\ Drops(down'[g], down[g], ns)
    /\ frame[g].life # "attached" => down'[g] = down[g]

\* Host g takes part: host o may get navigation k to commit, or the next one within its document.
TakesPart(g, o, k, ns) ==
    /\ InSpec(host'[g]) => InSpec(host[g]) \/ Speculative = {}
    /\ \A n \in Navs :
        /\ n \in host'[g].requests => n \in host[g].requests \/ (n = k /\ g = o)
        /\ n \in host'[g].same => n \in host[g].same \/ (n = next /\ g = o)
        /\ Holds(down'[g], BindOf(n)) => Holds(down[g], BindOf(n)) \/ n = k
        /\ Holds(down'[g], AskOf(n)) => Holds(down[g], AskOf(n)) \/ n = k
        /\ Holds(down'[g], DropOf(n)) => Holds(down[g], DropOf(n)) \/ n \in ns
        /\ frame'[g].mhtml = n => frame[g].mhtml = n
        /\ Holds(up'[g], CommitOf(n)) => Holds(up[g], CommitOf(n))
        /\ frame'[g].client = n \/ Holds(up'[g], EndOf(n))
              => frame[g].client = n \/ Holds(up[g], EndOf(n))

BrowserSteps(G, o, k, ns) ==
    /\ next' = next \/ (next \in Navs /\ next' = next + 1)
    /\ \A n \in Navs : n < next => nav'[n].from = nav[n].from
    /\ k = 0 \/ k = ongoing
    /\ \A n \in Navs : Early(n)' => Early(n) /\ n \notin ns /\ n # k
    /\ \A n \in Navs \cap ns : \A g \in Hosts : n \notin host'[g].requests
    /\ \A g \in G : TakesPart(g, o, k, ns)
    /\ \A g, h \in G : InSpec(host'[g]) /\ InSpec(host'[h]) => g = h
    /\ \A g \in Hosts \ G :
        /\ Untouched(g, ns)
        /\ g = current' <=> g = current
        /\ host[g].waiting => ongoing' = 0
        /\ host[g].life = "Active" /\ initial => initial'

\* A host that a step of the browser leaves alone, but for the end of the clients of ns, stays
\* what the invariant says it is.
LEMMA UntouchedKeep ==
  ASSUME Core, NEW g \in Hosts, NEW ns, Untouched(g, ns), swallowed' = swallowed,
         g = current' <=> g = current, host[g].waiting => ongoing' = 0,
         host[g].life = "Active" /\ initial => initial'
  PROVE  /\ Lives(g, host[g], frame[g], down[g], up[g])'
         /\ \A n \in Navs : host'[g].live =>
              /\ Tokens(host[g], frame[g], down[g], up[g], swallowed, n)'
              /\ Begun(host[g], frame[g], up[g], n)'
<1> DEFINE s == host[g]
           f == frame[g]
           u == up[g]
           d == down[g]
           d2 == down'[g]
<1>1. /\ host'[g] = s /\ frame'[g] = f /\ up'[g] = u
      /\ Drops(d2, d, ns) /\ (f.life # "attached" => d2 = d)
  BY DEF Untouched
<1>2. Lives(g, s, f, d, u)  BY DEF Core, Pipes
<1>3. \A n \in Navs : s.live => Tokens(s, f, d, u, swallowed, n) /\ Begun(s, f, u, n)
  BY DEF Core, Clients
<1>4. /\ g = current' <=> g = current
      /\ s.waiting => ongoing' = 0
      /\ s.life = "Active" /\ initial => initial'
  OBVIOUS
<1> HIDE DEF s, f, u, d, d2
<1>5. /\ host'[g] = s /\ frame'[g] = f /\ up'[g] = u /\ down'[g] = d2
  BY <1>1 DEF d2
<1>6. HostLives(g, host[g], frame[g], down[g], up[g])'
  <2>1. HostLives(g, s, f, d, u)  BY <1>2 DEF Lives
  <2>2. (g = current' <=> g = current) /\ (s.waiting => ongoing' = 0)  BY <1>4
  <2>3. /\ Holds(d2, Ends) <=> Holds(d, Ends)
        /\ Holds(d2, Preparations) <=> Holds(d, Preparations)
    BY <1>1 DEF Drops
  <2>4. /\ s.life = "none" => f.life = "none" /\ f.mhtml = 0 /\ d2 = <<>> /\ u = <<>>
        /\ s.life = "Active" /\ ~s.live => d2 = <<>> /\ u = <<>> /\ f.life = "gone" /\ f.mhtml = 0
    BY <1>1, <2>1 DEF HostLives
  <2> QED  BY <1>5, <2>1, <2>2, <2>3, <2>4 DEF HostLives, InSpec
<1>7. ChannelsLive(host[g], frame[g], down[g], up[g])'
  BY <1>1, <1>2, <1>5 DEF Lives, ChannelsLive, Drops, InSpec
<1>8. InitialLives(g, host[g], frame[g], up[g])'
  BY <1>2, <1>4, <1>5 DEF Lives, InitialLives
<1>9. Lives(g, host[g], frame[g], down[g], up[g])'
  BY <1>6, <1>7, <1>8 DEF Lives
<1>10. ASSUME NEW n \in Navs, s.live PROVE Tokens(s, f, d2, u, swallowed, n) /\ Begun(s, f, u, n)
  BY <1>1, <1>3, <1>10 DEF Tokens, Drops
<1> QED  BY <1>5, <1>9, <1>10 DEF Tokens, Begun, Awaited

\* A step of the browser keeps the invariant if it keeps what is said of the hosts in G, leaves
\* the others alone, and neither begins a navigation n that the frames know nor loses its place.
LEMMA BrowserStepsKeep ==
  ASSUME Core, NEW G \in SUBSET Hosts, NEW o, NEW k, NEW ns, BrowserSteps(G, o, k, ns),
         Types', swallowed' = swallowed, OngoingIsAwaited',
         \A n \in Navs : EarlyOnce(n)',
         \A g \in G : Lives(g, host[g], frame[g], down[g], up[g])',
         \A g \in G : \A n \in Navs : host'[g].live =>
              /\ Tokens(host[g], frame[g], down[g], up[g], swallowed, n)'
              /\ Begun(host[g], frame[g], up[g], n)'
  PROVE  Core'
<1>1. ASSUME NEW g \in Hosts \ G
      PROVE  /\ Lives(g, host[g], frame[g], down[g], up[g])'
             /\ \A n \in Navs : host'[g].live =>
                  /\ Tokens(host[g], frame[g], down[g], up[g], swallowed, n)'
                  /\ Begun(host[g], frame[g], up[g], n)'
  <2>1. /\ Untouched(g, ns) /\ (g = current' <=> g = current)
        /\ host[g].waiting => ongoing' = 0
        /\ host[g].life = "Active" /\ initial => initial'
    BY DEF BrowserSteps
  <2> QED  BY <2>1, UntouchedKeep
<1>2. Pipes' /\ Clients'
  <2>1. ASSUME NEW g \in Hosts
        PROVE  /\ Lives(g, host[g], frame[g], down[g], up[g])'
               /\ \A n \in Navs : host'[g].live =>
                    /\ Tokens(host[g], frame[g], down[g], up[g], swallowed, n)'
                    /\ Begun(host[g], frame[g], up[g], n)'
    BY <1>1
  <2> QED  BY <2>1 DEF Pipes, Clients
<1>3. ASSUME NEW g \in Hosts PROVE TakesPart(g, o, k, ns)
  <2>1. CASE g \in G  BY <2>1 DEF BrowserSteps
  <2>2. CASE g \notin G
    <3>1. Untouched(g, ns)  BY <2>2 DEF BrowserSteps
    <3> QED  BY <3>1 DEF TakesPart, Untouched, Drops
  <2> QED  BY <2>1, <2>2
<1>4. next \in Int /\ next' \in Int /\ next <= next'
  <2>1. next \in 1..(MaxNavs + 1)  BY DEF Core, Types
  <2>2. next \in Int  BY ONLY <2>1, NavigationAssumption
  <2> QED  BY <2>2 DEF BrowserSteps
<1>5. ASSUME NEW n \in Navs PROVE EarlyIsUnsent(n)'
  <2> SUFFICES ASSUME Early(n)', NEW g \in Hosts
               PROVE  (/\ n \notin host[g].requests
                       /\ ~Holds(down[g], BindOf(n)) /\ ~Holds(down[g], AskOf(n)) /\ ~Holds(down[g], DropOf(n))
                       /\ frame[g].mhtml # n /\ ~Holds(up[g], CommitOf(n))
                       /\ frame[g].client = n \/ Holds(up[g], EndOf(n))
                             => nav[n].from = g /\ n < next)'
    BY DEF EarlyIsUnsent
  <2>1. Early(n) /\ n \notin ns /\ n # k  BY DEF BrowserSteps
  <2>2. /\ n \notin host[g].requests
        /\ ~Holds(down[g], BindOf(n)) /\ ~Holds(down[g], AskOf(n)) /\ ~Holds(down[g], DropOf(n))
        /\ frame[g].mhtml # n /\ ~Holds(up[g], CommitOf(n))
        /\ frame[g].client = n \/ Holds(up[g], EndOf(n)) => nav[n].from = g /\ n < next
    BY <2>1 DEF Core, EarlyIsUnsent
  <2>3. n < next => nav'[n].from = nav[n].from /\ n < next'
    BY <1>4 DEF BrowserSteps, Navs
  <2> QED  BY <1>3, <2>1, <2>2, <2>3 DEF TakesPart
<1>6. Apart'
  <2> SUFFICES ASSUME NEW g \in Hosts, NEW h \in Hosts
               PROVE  (/\ InSpec(host[g]) /\ InSpec(host[h]) => g = h
                       /\ g # h => /\ host[g].requests \cap host[h].requests = {}
                                   /\ host[g].same \cap host[h].same = {}
                       /\ \A n \in host[g].requests : ~Holds(down[h], DropOf(n)))'
    BY DEF Apart
  <2>1. /\ InSpec(host[g]) /\ InSpec(host[h]) => g = h
        /\ g # h => /\ host[g].requests \cap host[h].requests = {}
                    /\ host[g].same \cap host[h].same = {}
        /\ \A n \in host[g].requests : ~Holds(down[h], DropOf(n))
    BY DEF Core, Apart
  <2>2. TakesPart(g, o, k, ns) /\ TakesPart(h, o, k, ns)  BY <1>3
  <2>3. /\ host'[g].requests \subseteq Navs /\ host'[g].same \subseteq Navs
        /\ host'[h].requests \subseteq Navs /\ host'[h].same \subseteq Navs
    <3>1. host'[g] \in HostRecs /\ host'[h] \in HostRecs  BY DEF Types
    <3> QED  BY <3>1 DEF HostRecs
  <2>4. ASSUME InSpec(host'[g]), InSpec(host'[h]) PROVE g = h
    <3>1. \A e \in Hosts \ G : host'[e] = host[e]  BY DEF BrowserSteps, Untouched
    <3>2. CASE g \in G /\ h \in G  BY <2>4, <3>2 DEF BrowserSteps
    <3>3. CASE g \notin G /\ InSpec(host[h])
      BY <2>1, <2>4, <3>1, <3>3
    <3>4. CASE h \notin G /\ InSpec(host[g])
      BY <2>1, <2>4, <3>1, <3>4
    <3>5. CASE Speculative = {}
      <4>1. \A e \in Hosts : ~InSpec(host[e])  BY <3>5 DEF Speculative, InSpec
      <4> QED  BY <2>4, <3>1, <3>2, <4>1
    <3>6. (InSpec(host[g]) \/ Speculative = {}) /\ (InSpec(host[h]) \/ Speculative = {})
      BY <2>2, <2>4 DEF TakesPart
    <3> QED  BY <3>2, <3>3, <3>4, <3>5, <3>6
  <2>5. ASSUME NEW n \in Navs, n = k
        PROVE  \A e \in Hosts : n \notin host[e].requests /\ ~Holds(down[e], DropOf(n))
    <3>1. n = ongoing  BY <2>5 DEF BrowserSteps, Navs
    <3>2. Early(n) /\ EarlyIsUnsent(n)  BY <3>1 DEF Early, Core
    <3> QED  BY <3>2 DEF EarlyIsUnsent
  <2>6. ASSUME NEW n \in Navs, n = next
        PROVE  \A e \in Hosts : n \notin host[e].same
    BY <2>6, NextIsUnknown
  <2>7. ASSUME NEW n \in host'[g].requests PROVE ~Holds(down'[h], DropOf(n))
    <3>1. n \in Navs  BY <2>3
    <3>2. n \notin ns  BY <3>1 DEF BrowserSteps
    <3>3. ~Holds(down[h], DropOf(n))
      <4>1. n \in host[g].requests \/ n = k  BY <2>2, <3>1 DEF TakesPart
      <4> QED  BY <2>1, <2>5, <3>1, <4>1
    <3> QED  BY <2>2, <3>1, <3>2, <3>3 DEF TakesPart
  <2>8. ASSUME g # h, NEW n \in host'[g].requests, n \in host'[h].requests PROVE FALSE
    <3>1. n \in Navs  BY <2>3
    <3>2. n \in host[g].requests \/ (n = k /\ g = o)  BY <2>2, <3>1 DEF TakesPart
    <3>3. n \in host[h].requests \/ (n = k /\ h = o)  BY <2>2, <2>8, <3>1 DEF TakesPart
    <3> QED  BY <2>1, <2>5, <2>8, <3>1, <3>2, <3>3
  <2>9. ASSUME g # h, NEW n \in host'[g].same, n \in host'[h].same PROVE FALSE
    <3>1. n \in Navs  BY <2>3
    <3>2. n \in host[g].same \/ (n = next /\ g = o)  BY <2>2, <3>1 DEF TakesPart
    <3>3. n \in host[h].same \/ (n = next /\ h = o)  BY <2>2, <2>9, <3>1 DEF TakesPart
    <3> QED  BY <2>1, <2>6, <2>9, <3>1, <3>2, <3>3
  <2> QED  BY <2>4, <2>7, <2>8, <2>9
<1> QED  BY <1>2, <1>5, <1>6 DEF Core

\* A navigation that comes to no new place in the browser.
Stays(n) ==
    /\ n >= next' => n >= next
    /\ n < next => nav'[n].from = nav[n].from
    /\ ongoing' = n => ongoing = n
    /\ \A g \in Hosts :
        /\ host'[g].pend = n => host[g].pend = n
        /\ n \in host'[g].same => n \in host[g].same
        /\ Holds(up'[g], BeginOf(n)) => Holds(up[g], BeginOf(n))
        /\ Then(up'[g], BeginOf(n), BeginOf(n)) => Then(up[g], BeginOf(n), BeginOf(n))
        /\ Then(up'[g], EndOf(n), BeginOf(n)) => Then(up[g], EndOf(n), BeginOf(n))

\* A navigation whose early places stay what they are or become fewer.
LEMMA StaysKeep ==
  ASSUME Core, NEW n \in Navs, Stays(n)
  PROVE  EarlyOnce(n)' /\ (Early(n)' => Early(n))
<1>1. EarlyOnce(n)  BY DEF Core
<1>2. \A g \in Hosts : IsBegun(g, n)' => IsBegun(g, n)  BY DEF Stays, IsBegun
<1>3. Early(n)' => Early(n)  BY <1>2 DEF Early, Stays
<1>4. \A g \in Hosts : IsBegun(g, n) \/ n \in host[g].same => n < next
  <2>1. n >= next \/ n < next
    <3>1. next \in 1..(MaxNavs + 1)  BY DEF Core, Types
    <3>2. next \in Int  BY ONLY <3>1, NavigationAssumption
    <3> QED  BY <3>2 DEF Navs
  <2> QED  BY <1>1, <2>1 DEF EarlyOnce
<1>5. ASSUME NEW g \in Hosts
      PROVE  /\ IsBegun(g, n)' => nav'[n].from = g
             /\ n \in host'[g].same => nav'[n].from = None
             /\ ~Then(up'[g], BeginOf(n), BeginOf(n))
             /\ ~Then(up'[g], EndOf(n), BeginOf(n))
             /\ ~(Holds(up'[g], BeginOf(n)) /\ host'[g].pend = n)
  BY <1>1, <1>2, <1>4 DEF EarlyOnce, Stays
<1>6. /\ n >= next' => n # ongoing' /\ \A h \in Hosts : ~IsBegun(h, n)' /\ n \notin host'[h].same
      /\ n = ongoing' => \A h \in Hosts : ~IsBegun(h, n)' /\ n \notin host'[h].same
  BY <1>1, <1>2 DEF EarlyOnce, Stays
<1> QED  BY <1>3, <1>5, <1>6 DEF EarlyOnce

\* A message sent to one frame, perhaps.
LEMMA SentDown ==
  ASSUME NEW c \in [Hosts -> Seq(Messages)], NEW h \in Hosts, NEW b \in BOOLEAN, NEW m \in Messages
  PROVE  /\ Send(c, h, OneIf(b, m)) \in [Hosts -> Seq(Messages)]
         /\ DownAdds(Send(c, h, OneIf(b, m))[h], c[h], b, m)
         /\ \A g \in Hosts \ {h} : Send(c, h, OneIf(b, m))[g] = c[g]
<1>1. c[h] \in Seq(Messages)  OBVIOUS
<1>2. Adds(c[h] \o OneIf(b, m), c[h], b, m)  BY <1>1, Adding
<1>3. DownAdds(c[h] \o OneIf(b, m), c[h], b, m) /\ c[h] \o OneIf(b, m) \in Seq(Messages)
  BY <1>2, AddsDown DEF Adds
<1> QED  BY <1>3 DEF Send

\* A message sent to one frame.
LEMMA SentOne ==
  ASSUME NEW c \in [Hosts -> Seq(Messages)], NEW h \in Hosts, NEW m \in Messages
  PROVE  /\ Send(c, h, <<m>>) \in [Hosts -> Seq(Messages)]
         /\ DownAdds(Send(c, h, <<m>>)[h], c[h], TRUE, m)
         /\ \A g \in Hosts \ {h} : Send(c, h, <<m>>)[g] = c[g]
<1> DEFINE t == TRUE
<1>1. t \in BOOLEAN /\ OneIf(t, m) = <<m>>  BY SentAlone
<1> HIDE DEF t
<1>2. /\ Send(c, h, OneIf(t, m)) \in [Hosts -> Seq(Messages)]
      /\ DownAdds(Send(c, h, OneIf(t, m))[h], c[h], t, m)
      /\ \A g \in Hosts \ {h} : Send(c, h, OneIf(t, m))[g] = c[g]
  BY <1>1, SentDown
<1>3. /\ Send(c, h, <<m>>) \in [Hosts -> Seq(Messages)]
      /\ DownAdds(Send(c, h, <<m>>)[h], c[h], t, m)
      /\ \A g \in Hosts \ {h} : Send(c, h, <<m>>)[g] = c[g]
  BY <1>1, <1>2
<1> QED  BY <1>3 DEF t

\* What the browser changes that takes the head of the channel of h.
LEMMA Taken ==
  ASSUME Types, NEW h \in Hosts, NEW t, Next1(up, h, t), up' = Popped(up, h)
  PROVE  /\ UpPops(up[h], Head(up[h]), up'[h]) /\ Head(up[h]).type = t
         /\ Head(up[h]) \in Messages /\ Head(up[h]).n \in Nums
         /\ up' \in [Hosts -> Seq(Messages)]
         /\ \A g \in Hosts \ {h} : up'[g] = up[g]
<1>1. up \in [Hosts -> Seq(Messages)]  BY DEF Types
<1>2. up[h] \in Seq(Messages) /\ up[h] # <<>> /\ Head(up[h]).type = t
  BY <1>1 DEF Next1
<1>3. Pops(up[h], Head(up[h]), Tail(up[h]))  BY <1>2, Popping
<1>4. up' = [up EXCEPT ![h] = Tail(up[h])]  BY DEF Popped
<1>5. Tail(up[h]) \in Seq(Messages) /\ Head(up[h]) \in Messages  BY <1>3 DEF Pops
<1>6. UpPops(up[h], Head(up[h]), Tail(up[h]))  BY <1>2, <1>3, PopsUp
<1>7. Head(up[h]).n \in Nums  BY <1>5, MessageFacts
<1> QED  BY <1>1, <1>2, <1>4, <1>5, <1>6, <1>7

\* A host that does not exist yet.
LEMMA NoHostRecord ==
  /\ NoHost \in HostRecs /\ ~NoHost.waiting /\ NoHost.pend = 0 /\ NoHost.requests = {}
  /\ NoHost.same = {} /\ ~NoHost.live /\ NoHost.dsn = 0
<1>1. 0 \in Nums  BY NavigationAssumption DEF Nums
<1> DEFINE l == "none"
<1>2. NoHost = [life |-> l, live |-> FALSE, waiting |-> FALSE, pend |-> 0, closed |-> FALSE,
                requests |-> {}, same |-> {}, empty |-> {}, loading |-> FALSE, dsn |-> 0, pos |-> 0]
  BY DEF NoHost
<1>3. l \in HostStates  BY DEF HostStates
<1> HIDE DEF l
<1> QED  BY <1>1, <1>2, <1>3 DEF HostRecs

\* A host that has just been created, in a process that lives or not.
LEMMA FreshHost ==
  ASSUME NEW l \in HostStates, NEW b \in BOOLEAN
  PROVE  LET s == [NoHost EXCEPT !.life = l, !.live = b] IN
         /\ s \in HostRecs /\ s.life = l /\ s.live = b /\ ~s.waiting /\ s.pend = 0
         /\ s.requests = {} /\ s.same = {}
  BY NoHostRecord DEF HostRecs

\* A host that has just been created, in a process that does not live.
LEMMA DeadHost ==
  ASSUME NEW l \in HostStates
  PROVE  LET s == [NoHost EXCEPT !.life = l] IN
         /\ s \in HostRecs /\ s.life = l /\ ~s.live /\ ~s.waiting /\ s.pend = 0
         /\ s.requests = {} /\ s.same = {}
  BY NoHostRecord DEF HostRecs

\* A frame that has just been created.
LEMMA FreshFrame ==
  ASSUME NEW l \in FrameStates
  PROVE  LET f == [NoFrame EXCEPT !.life = l] IN
         f \in FrameRecs /\ f.life = l /\ f.client = 0 /\ f.mhtml = 0
<1>1. 0 \in Nums  BY NavigationAssumption DEF Nums
<1>2. NoFrame \in FrameRecs /\ NoFrame.client = 0 /\ NoFrame.mhtml = 0
  BY <1>1 DEF NoFrame, FrameRecs, FrameStates
<1> QED  BY <1>2 DEF FrameRecs

\* The numbers of the navigations that have started, and of those that have not.
LEMMA NextInRange ==
  ASSUME Types
  PROVE  next \in Int /\ (next + crashes <= MaxNavs => next \in Navs) /\ ~(next < next)
         /\ \A n \in Navs : (n >= next \/ n < next) /\ (n >= next + 1 => n >= next)
<1>1. next \in 1..(MaxNavs + 1) /\ crashes \in Nat  BY DEF Types
<1> QED  BY ONLY <1>1, NavigationAssumption DEF Navs

\* The request of the FrameTreeNode, when it is not that any more.
LEMMA OngoingLeaves ==
  ASSUME Core, NEW n \in Navs, n = ongoing, Stays(n), ongoing' # n
  PROVE  ~Early(n)' /\ \A g \in Hosts : n \notin host[g].requests
<1>1. EarlyOnce(n) /\ EarlyIsUnsent(n) /\ Early(n)  BY DEF Core, Early
<1>2. EarlyOnce(n)'  BY StaysKeep
<1>3. \A g \in Hosts : ~IsBegun(g, n) /\ n \notin host[g].same  BY <1>1 DEF EarlyOnce
<1>4. \A g \in Hosts : ~IsBegun(g, n)' /\ n \notin host'[g].same  BY <1>3 DEF Stays, IsBegun
<1>5. ~(n >= next')  BY <1>1 DEF Stays, EarlyOnce
<1> QED  BY <1>1, <1>4, <1>5 DEF Early, EarlyIsUnsent

\* CancelNavigation: the request of the FrameTreeNode is destroyed.
LEMMA CancelNavigationKeeps ==
  ASSUME Core, CancelNavigation
  PROVE  Core'
<1>1. Types  BY DEF Core
<1>2. /\ ongoing # 0 /\ ongoing' = 0 /\ down' = Dropped(down, ongoing)
      /\ UNCHANGED <<nav, next, current, initial, host, frame, up, crashes, swallowed, bad>>
  BY DEF CancelNavigation
<1>3. down \in [Hosts -> Seq(Messages)] /\ ongoing \in Nums /\ 0 \in Nums
  <2>1. 0 \in Nums  BY NavigationAssumption DEF Nums
  <2> QED  BY <1>1, <2>1 DEF Types
<1>4. /\ down' \in [Hosts -> Seq(Messages)]
      /\ \A g \in Hosts : /\ Drops(down'[g], down[g], {ongoing})
                          /\ frame[g].life # "attached" => down'[g] = down[g]
  BY <1>1, <1>2, <1>3, DroppedOne
<1>5. \A g \in Hosts : Untouched(g, {ongoing})  BY <1>2, <1>4 DEF Untouched
<1>6. Types'  BY <1>1, <1>2, <1>3, <1>4 DEF Types
<1>7. ASSUME NEW n \in Navs PROVE Stays(n)
  BY <1>2 DEF Stays, Navs
<1>8. \A n \in Navs : EarlyOnce(n)' /\ (Early(n)' => Early(n))
  BY <1>7, StaysKeep
<1>9. ASSUME NEW n \in Navs, n = ongoing
      PROVE  ~Early(n)' /\ \A g \in Hosts : n \notin host'[g].requests
  <2>1. ongoing' # n  BY <1>2, <1>9
  <2> QED  BY <1>2, <1>7, <1>9, <2>1, OngoingLeaves
<1>10. BrowserSteps({}, None, 0, {ongoing})
  <2>1. \A n \in Navs : Early(n)' => Early(n) /\ n \notin {ongoing} /\ n # 0
    BY <1>8, <1>9 DEF Navs
  <2>2. \A n \in Navs \cap {ongoing} : \A g \in Hosts : n \notin host'[g].requests  BY <1>9
  <2> QED  BY <1>2, <1>5, <2>1, <2>2 DEF BrowserSteps
<1>11. OngoingIsAwaited'  BY <1>2 DEF OngoingIsAwaited
<1>12. {} \in SUBSET Hosts  OBVIOUS
<1> QED  BY <1>2, <1>6, <1>8, <1>10, <1>11, <1>12, BrowserStepsKeep

\* BrowserNavigates: the browser starts a navigation, which replaces the one under way.
LEMMA BrowserNavigatesKeeps ==
  ASSUME Core, BrowserNavigates
  PROVE  Core'
<1>1. Types  BY DEF Core
<1>2. /\ ~host[current].waiting /\ NewNavigation(None, Kinds[next])
      /\ ongoing' = next /\ down' = Dropped(down, ongoing)
      /\ UNCHANGED <<current, initial, host, frame, up, crashes, swallowed, bad>>
  BY DEF BrowserNavigates
<1>3. down \in [Hosts -> Seq(Messages)] /\ ongoing \in Nums
  BY <1>1 DEF Types
<1>4. /\ next \in Navs /\ next \in Nums /\ next # 0 /\ next' = next + 1
      /\ next' \in 1..(MaxNavs + 1)
      /\ nav' \in [Navs -> [from: Hosts \cup {None}, kind: NavKinds]]
      /\ nav'[next].from = None /\ \A n \in Navs \ {next} : nav'[n] = nav[n]
  <2>1. next \in Navs  BY <1>1, <1>2, NextInRange DEF NewNavigation
  <2> QED  BY <1>1, <1>2, <2>1, DocumentKinds, Started
<1>5. /\ down' \in [Hosts -> Seq(Messages)]
      /\ \A g \in Hosts : /\ Drops(down'[g], down[g], {ongoing})
                          /\ frame[g].life # "attached" => down'[g] = down[g]
  BY <1>1, <1>2, <1>3, DroppedOne
<1>6. \A g \in Hosts : Untouched(g, {ongoing})  BY <1>2, <1>5 DEF Untouched
<1>7. Types'  BY <1>1, <1>2, <1>4, <1>5 DEF Types
<1>8. \A g \in Hosts : next # ongoing /\ ~IsBegun(g, next) /\ next \notin host[g].same
  BY <1>4, NextIsUnknown DEF IsBegun
<1>9. ASSUME NEW n \in Navs, n # next PROVE Stays(n)
  BY <1>1, <1>2, <1>4, <1>9, NextInRange DEF Stays
<1>10. next # ongoing
  <2>1. current \in Hosts  BY <1>1 DEF Types
  <2> QED  BY <1>8, <2>1
<1>11. ASSUME NEW n \in Navs, n = next PROVE EarlyOnce(n)' /\ Early(n) /\ n # ongoing
  <2>1. Early(n)  BY <1>1, <1>11, NextInRange DEF Early
  <2>2. \A g \in Hosts : ~IsBegun(g, n)' /\ n \notin host'[g].same
    BY <1>2, <1>8, <1>11 DEF IsBegun
  <2>3. EarlyOnce(n)  BY DEF Core
  <2>4. ~(n >= next')  BY <1>1, <1>4, <1>11, NextInRange
  <2> QED  BY <1>2, <1>10, <1>11, <2>1, <2>2, <2>3, <2>4 DEF EarlyOnce
<1>12. \A n \in Navs : EarlyOnce(n)' /\ (Early(n)' => Early(n))
  BY <1>9, <1>11, StaysKeep
<1>13. ASSUME NEW n \in Navs, n = ongoing
       PROVE  ~Early(n)' /\ \A g \in Hosts : n \notin host'[g].requests
  BY <1>2, <1>9, <1>10, <1>13, OngoingLeaves
<1>14. BrowserSteps({}, None, 0, {ongoing})
  <2>1. \A n \in Navs : Early(n)' => Early(n) /\ n \notin {ongoing} /\ n # 0
    BY <1>12, <1>13 DEF Navs
  <2>2. \A n \in Navs \cap {ongoing} : \A g \in Hosts : n \notin host'[g].requests  BY <1>13
  <2>3. \A g \in Hosts : ~host[g].waiting
    BY <1>2 DEF Core, Pipes, Lives, HostLives
  <2>4. \A n \in Navs : n < next => nav'[n].from = nav[n].from
    BY <1>1, <1>4, NextInRange
  <2> QED  BY <1>2, <1>4, <1>6, <2>1, <2>2, <2>3, <2>4 DEF BrowserSteps
<1>15. OngoingIsAwaited'  BY <1>2, <1>4 DEF OngoingIsAwaited
<1>16. {} \in SUBSET Hosts  OBVIOUS
<1> QED  BY <1>2, <1>7, <1>12, <1>14, <1>15, <1>16, BrowserStepsKeep

\* CreateRenderFrame: the browser creates a speculative host and its frame, in a process of
\* its own.
LEMMA CreateRenderFrameKeeps ==
  ASSUME Core, CreateRenderFrame
  PROVE  Core'
<1> DEFINE ls == "Speculative"
           lf == "provisional"
           s2 == [NoHost EXCEPT !.life = ls, !.live = TRUE]
           f2 == [NoFrame EXCEPT !.life = lf]
<1>1. Types  BY DEF Core
<1>2. /\ Speculative = {}
      /\ UNCHANGED <<nav, next, ongoing, current, initial, down, up, crashes, swallowed, bad>>
  BY DEF CreateRenderFrame
<1>3. PICK h \in Hosts : /\ host[h].life = "none"
                         /\ host' = [host EXCEPT ![h] = s2] /\ frame' = [frame EXCEPT ![h] = f2]
  BY DEF CreateRenderFrame
<1>4. ls \in HostStates /\ lf \in FrameStates /\ TRUE \in BOOLEAN  BY DEF HostStates, FrameStates
<1>5. /\ s2 \in HostRecs /\ s2.life = "Speculative" /\ s2.live /\ ~s2.waiting /\ s2.pend = 0
      /\ s2.requests = {} /\ s2.same = {}
      /\ f2 \in FrameRecs /\ f2.life = "provisional" /\ f2.client = 0 /\ f2.mhtml = 0
  <2>1. ls = "Speculative" /\ lf = "provisional"  OBVIOUS
  <2> HIDE DEF ls, lf
  <2> QED  BY <1>4, <2>1, FreshHost, FreshFrame
<1> HIDE DEF ls, lf, s2, f2
<1>6. /\ host' \in [Hosts -> HostRecs] /\ frame' \in [Hosts -> FrameRecs]
      /\ host'[h] = s2 /\ frame'[h] = f2
      /\ \A g \in Hosts \ {h} : host'[g] = host[g] /\ frame'[g] = frame[g]
  BY <1>1, <1>3, <1>5 DEF Types
<1>7. Types'  BY <1>1, <1>2, <1>6 DEF Types
<1>8. /\ down[h] = <<>> /\ up[h] = <<>> /\ h # First /\ h # current
  BY <1>3 DEF Core, Pipes, Lives, HostLives
<1>9. Lives(h, host[h], frame[h], down[h], up[h])'
  <2>1. HostLives(h, host[h], frame[h], down[h], up[h])'
    BY <1>2, <1>5, <1>6, <1>8, Short DEF HostLives, InSpec
  <2>2. ChannelsLive(host[h], frame[h], down[h], up[h])'
    BY <1>2, <1>5, <1>6, <1>8, Short DEF ChannelsLive, InSpec
  <2>3. InitialLives(h, host[h], frame[h], up[h])'
    BY <1>2, <1>5, <1>6, <1>8, Short DEF InitialLives
  <2> QED  BY <2>1, <2>2, <2>3 DEF Lives
<1>10. ASSUME NEW n \in Navs
       PROVE  Tokens(host[h], frame[h], down[h], up[h], swallowed, n)' /\ Begun(host[h], frame[h], up[h], n)'
  <2>1. n # 0  BY DEF Navs
  <2> QED  BY <1>2, <1>5, <1>6, <1>8, <2>1, Short DEF Tokens, Begun
<1>11. ASSUME NEW n \in Navs PROVE Stays(n)
  <2>1. \A g \in Hosts : n \in host'[g].same => n \in host[g].same  BY <1>5, <1>6
  <2>2. \A g \in Hosts : host'[g].pend = n => host[g].pend = n  BY <1>5, <1>6 DEF Navs
  <2> QED  BY <1>2, <2>1, <2>2 DEF Stays
<1>12. \A n \in Navs : EarlyOnce(n)' /\ (Early(n)' => Early(n))  BY <1>11, StaysKeep
<1>13. BrowserSteps({h}, None, 0, {})
  <2>1. TakesPart(h, None, 0, {})
    BY <1>2, <1>5, <1>6, <1>8 DEF TakesPart, Navs
  <2>2. ASSUME NEW g \in Hosts \ {h}
        PROVE  /\ Untouched(g, {}) /\ (g = current' <=> g = current)
               /\ host[g].waiting => ongoing' = 0
               /\ host[g].life = "Active" /\ initial => initial'
    <3>1. down[g] \in Seq(Messages)  BY <1>1 DEF Types
    <3>2. host[g].waiting => ongoing = 0  BY DEF Core, Pipes, Lives, HostLives
    <3> QED  BY <1>2, <1>6, <3>1, <3>2, DropsNothing DEF Untouched
  <2> QED  BY <1>2, <1>12, <2>1, <2>2 DEF BrowserSteps, Navs
<1>14. OngoingIsAwaited'
  <2> SUFFICES ASSUME ongoing # 0, nav[ongoing].from # None
               PROVE  /\ nav[ongoing].from = current /\ host'[current].live
                      /\ Awaited(frame'[current], up[current], ongoing)
    BY <1>2 DEF OngoingIsAwaited, Awaited
  <2>1. /\ nav[ongoing].from = current /\ host[current].live
        /\ Awaited(frame[current], up[current], ongoing)
    BY DEF Core, OngoingIsAwaited
  <2>2. current \in Hosts \ {h}  BY <1>1, <1>8 DEF Types
  <2> QED  BY <1>6, <2>1, <2>2
<1>15. {h} \in SUBSET Hosts  OBVIOUS
<1> QED  BY <1>2, <1>7, <1>9, <1>10, <1>12, <1>13, <1>14, <1>15, BrowserStepsKeep

\* CommitSameDocumentNavigation: the browser asks the current frame to commit within its document.
LEMMA CommitSameDocumentNavigationKeeps ==
  ASSUME Core, CommitSameDocumentNavigation
  PROVE  Core'
<1>0. PICK h \in Hosts : h = current  BY DEF Core, Types
<1>a. PICK type \in Args :
        down' = Send(Dropped(down, ongoing), h,
                     <<[type |-> "same", n |-> next, arg |-> type, dsn |-> host[h].dsn]>>)
  <2>1. "fragment" \in Args /\ "history" \in Args  BY DEF Args
  <2> QED  BY <1>0, <2>1 DEF CommitSameDocumentNavigation
<1> DEFINE s == host[h]
           f == frame[h]
           d == down[h]
           d2 == down'[h]
           u == up[h]
           s2 == [s EXCEPT !.same = @ \cup {next}, !.loading = TRUE]
           m == [type |-> "same", n |-> next, arg |-> type, dsn |-> s.dsn]
           c == Dropped(down, ongoing)
<1>1. /\ Types /\ h \in Hosts  BY DEF Core
<1>2. /\ Lives(h, s, f, d, u) /\ s \in HostRecs /\ f \in FrameRecs
      /\ d \in Seq(Messages) /\ u \in Seq(Messages)
      /\ \A n \in Navs : n # 0 /\ n \in Nums /\ (s.live => Tokens(s, f, d, u, swallowed, n))
  BY <1>1, Situation
<1>3. /\ s.live /\ ~s.waiting /\ s.dsn # 0 /\ NewNavigation(None, {"same"}) /\ ongoing' = 0
      /\ host' = [host EXCEPT ![h] = s2] /\ down' = Send(c, h, <<m>>)
      /\ UNCHANGED <<current, initial, frame, up, crashes, swallowed, bad>>
  BY <1>0, <1>1, <1>a DEF CommitSameDocumentNavigation, Types
<1>4. /\ next \in Navs /\ next \in Nums /\ next # 0 /\ next' = next + 1
      /\ next' \in 1..(MaxNavs + 1)
      /\ nav' \in [Navs -> [from: Hosts \cup {None}, kind: NavKinds]]
      /\ nav'[next].from = None /\ \A n \in Navs \ {next} : nav'[n] = nav[n]
  <2>1. {"same"} \in SUBSET NavKinds  BY DEF NavKinds
  <2> QED  BY <1>1, <1>3, <2>1, Started
<1>5. /\ c \in [Hosts -> Seq(Messages)]
      /\ \A g \in Hosts : /\ Drops(c[g], down[g], {ongoing})
                          /\ frame[g].life # "attached" => c[g] = down[g]
  <2>1. down \in [Hosts -> Seq(Messages)] /\ ongoing \in Nums  BY <1>1 DEF Types
  <2> QED  BY <1>1, <2>1, DroppedOne
<1>6. m \in Messages /\ m.type = "same" /\ m.n = next
  <2>1. "same" \in DownTypes \cup UpTypes  BY DEF DownTypes
  <2>2. s.dsn \in Nums  BY <1>2 DEF HostRecs
  <2> HIDE DEF s
  <2> QED  BY <1>4, <1>a, <2>1, <2>2, WithDsn
<1>7. /\ down' \in [Hosts -> Seq(Messages)] /\ DownAdds(d2, c[h], TRUE, m)
      /\ \A g \in Hosts \ {h} : down'[g] = c[g]
  <2> HIDE DEF m, c, s, s2, f, d, d2, u
  <2>1. /\ Send(c, h, <<m>>) \in [Hosts -> Seq(Messages)]
        /\ DownAdds(Send(c, h, <<m>>)[h], c[h], TRUE, m)
        /\ \A g \in Hosts \ {h} : Send(c, h, <<m>>)[g] = c[g]
    BY <1>1, <1>5, <1>6, SentOne
  <2>2. down' = Send(c, h, <<m>>)  BY <1>3
  <2> QED  BY <2>1, <2>2 DEF d2
<1>8. /\ s2 \in HostRecs /\ s2.life = s.life /\ s2.live = s.live /\ s2.waiting = s.waiting
      /\ s2.pend = s.pend /\ s2.closed = s.closed /\ s2.requests = s.requests
      /\ s2.same = s.same \cup {next} /\ s2.dsn = s.dsn
  <2> HIDE DEF s
  <2> QED  BY <1>2, <1>4 DEF HostRecs
<1>9. /\ host' \in [Hosts -> HostRecs] /\ host'[h] = s2
      /\ \A g \in Hosts \ {h} : host'[g] = host[g]
  <2> HIDE DEF s2
  <2> QED  BY <1>1, <1>3, <1>8 DEF Types
<1>10. Types'
  <2>1. 0 \in Nums  BY NavigationAssumption DEF Nums
  <2> QED  BY <1>1, <1>3, <1>4, <1>7, <1>9, <2>1 DEF Types
<1>11. s.life = "Active" /\ f.life = "attached" /\ ~f.initial /\ ~Holds(d, Ends)
  <2> HIDE DEF s, f, d, u
  <2> QED  BY <1>0, <1>2, <1>3 DEF Lives, HostLives, InitialLives
<1>12. Drops(c[h], d, {ongoing})  BY <1>1, <1>5
<1>13. /\ frame'[h] = f /\ up'[h] = u /\ h = current /\ h = current' /\ initial' = initial /\ ongoing' = 0
       /\ swallowed' = swallowed
  BY <1>0, <1>3
<1>14. ~Holds(c[h], Ends) /\ ~Holds(d2, Ends)  BY <1>6, <1>7, <1>11, <1>12 DEF Drops, DownAdds
<1> HIDE DEF s, f, d, d2, u, s2, m, c
<1>15. Lives(h, host[h], frame[h], down[h], up[h])'
  <2>1. down'[h] = d2 /\ host'[h] = s2 /\ frame'[h] = f /\ up'[h] = u  BY <1>9, <1>13 DEF d2
  <2>2. HostLives(h, host[h], frame[h], down[h], up[h])'
    BY <1>2, <1>3, <1>8, <1>11, <1>13, <1>14, <2>1 DEF Lives, HostLives, InSpec
  <2>3. ChannelsLive(host[h], frame[h], down[h], up[h])'
    BY <1>2, <1>3, <1>6, <1>7, <1>8, <1>11, <1>12, <1>14, <2>1, ThenHolds
       DEF Lives, ChannelsLive, InSpec, Drops, DownAdds
  <2>4. InitialLives(h, host[h], frame[h], up[h])'
    BY <1>2, <1>8, <1>13, <2>1 DEF Lives, InitialLives
  <2> QED  BY <2>2, <2>3, <2>4 DEF Lives
<1>16. ASSUME NEW n \in Navs
       PROVE  Tokens(host[h], frame[h], down[h], up[h], swallowed, n)' /\ Begun(host[h], frame[h], up[h], n)'
  <2>1. down'[h] = d2 /\ host'[h] = s2 /\ frame'[h] = f /\ up'[h] = u  BY <1>9, <1>13 DEF d2
  <2>2. Begun(s, f, u, n)  BY <1>1, <1>3 DEF Core, Clients, s, f, u
  <2>3. Tokens(s2, f, d2, u, swallowed, n)
    BY <1>2, <1>3, <1>6, <1>7, <1>8, <1>12, <1>16 DEF Tokens, Drops, DownAdds
  <2>4. Begun(s2, f, u, n)  BY <1>8, <2>2 DEF Begun
  <2> QED  BY <1>13, <2>1, <2>3, <2>4 DEF Tokens, Begun, Awaited
<1>17. \A g \in Hosts : next # ongoing /\ ~IsBegun(g, next) /\ next \notin host[g].same
  BY <1>4, NextIsUnknown DEF IsBegun
<1>18. \A g \in Hosts : host'[g].pend = host[g].pend /\ (g # h => host'[g].same = host[g].same)
  BY <1>8, <1>9 DEF s
<1>19. ASSUME NEW n \in Navs, n # next PROVE Stays(n)
  <2>1. \A g \in Hosts : n \in host'[g].same => n \in host[g].same
    BY <1>8, <1>9, <1>18, <1>19 DEF s
  <2> QED  BY <1>1, <1>2, <1>3, <1>4, <1>18, <1>19, <2>1, NextInRange DEF Stays
<1>20. ASSUME NEW n \in Navs, n = next PROVE EarlyOnce(n)' /\ Early(n) /\ n # ongoing
  <2>1. Early(n)  BY <1>1, <1>20, NextInRange DEF Early
  <2>2. \A g \in Hosts : ~IsBegun(g, n)'
    BY <1>3, <1>17, <1>18, <1>20 DEF IsBegun
  <2>3. EarlyOnce(n)  BY DEF Core
  <2>4. ~(n >= next')  BY <1>1, <1>4, <1>20, NextInRange
  <2>5. n # 0  BY <1>2
  <2>6. n # ongoing  BY <1>1, <1>17, <1>20
  <2>7. /\ ~(n >= next') /\ n # ongoing' /\ nav'[n].from = None  BY <1>3, <1>4, <1>20, <2>4, <2>5
  <2>8. \A g \in Hosts : /\ ~Then(up'[g], BeginOf(n), BeginOf(n)) /\ ~Then(up'[g], EndOf(n), BeginOf(n))
                        /\ ~(Holds(up'[g], BeginOf(n)) /\ host'[g].pend = n)
    BY <1>3, <1>18, <2>3 DEF EarlyOnce
  <2> QED  BY <2>1, <2>2, <2>6, <2>7, <2>8 DEF EarlyOnce
<1>21. \A n \in Navs : EarlyOnce(n)' /\ (Early(n)' => Early(n))
  BY <1>19, <1>20, StaysKeep
<1>22. ASSUME NEW n \in Navs, n = ongoing
       PROVE  ~Early(n)' /\ \A g \in Hosts : n \notin host'[g].requests
  <2>1. n # next  BY <1>20, <1>22
  <2>2. ongoing' # n  BY <1>2, <1>3
  <2>3. ~Early(n)' /\ \A g \in Hosts : n \notin host[g].requests
    BY <1>19, <1>22, <2>1, <2>2, OngoingLeaves
  <2> QED  BY <1>8, <1>9, <2>3 DEF s
<1>23. BrowserSteps({h}, h, 0, {ongoing})
  <2>1. \A n \in Navs : Early(n)' => Early(n) /\ n \notin {ongoing} /\ n # 0
    BY <1>2, <1>21, <1>22
  <2>2. \A n \in Navs \cap {ongoing} : \A g \in Hosts : n \notin host'[g].requests  BY <1>22
  <2>3. \A n \in Navs : n < next => nav'[n].from = nav[n].from
    BY <1>1, <1>4, NextInRange
  <2>4. TakesPart(h, h, 0, {ongoing})
    <3>1. /\ down'[h] = d2 /\ host'[h] = s2 /\ frame'[h] = f /\ up'[h] = u
          /\ down[h] = d /\ host[h] = s /\ frame[h] = f /\ up[h] = u
      BY <1>9, <1>13 DEF d2, d, s, f, u
    <3>2. ~InSpec(s2)  BY <1>8, <1>11 DEF InSpec
    <3> QED  BY <1>6, <1>7, <1>8, <1>12, <3>1, <3>2 DEF TakesPart, Drops, DownAdds
  <2>5. ASSUME NEW g \in Hosts \ {h}
        PROVE  /\ Untouched(g, {ongoing}) /\ (g = current' <=> g = current)
               /\ host[g].waiting => ongoing' = 0
               /\ host[g].life = "Active" /\ initial => initial'
    BY <1>3, <1>5, <1>7, <1>9 DEF Untouched
  <2> QED  BY <1>4, <2>1, <2>2, <2>3, <2>4, <2>5 DEF BrowserSteps
<1>24. OngoingIsAwaited'  BY <1>3 DEF OngoingIsAwaited
<1>25. {h} \in SUBSET Hosts  BY <1>1
<1> QED  BY <1>3, <1>10, <1>15, <1>16, <1>21, <1>23, <1>24, <1>25, BrowserStepsKeep

\* InitHost: a host that waited for its frame begins the navigation it was told of meanwhile.
LEMMA InitHostKeeps ==
  ASSUME Core, NEW h \in Hosts, InitHost(h)
  PROVE  Core'
<1> DEFINE s == host[h]
           f == frame[h]
           d == down[h]
           u == up[h]
           p == s.pend
           s2 == [s EXCEPT !.waiting = FALSE, !.pend = 0, !.closed = FALSE]
<1>1. /\ Types /\ Lives(h, s, f, d, u) /\ s \in HostRecs /\ f \in FrameRecs
      /\ d \in Seq(Messages) /\ u \in Seq(Messages)
      /\ \A n \in Navs : n # 0 /\ n \in Nums /\ (s.live => Tokens(s, f, d, u, swallowed, n))
  BY Situation
<1>2. /\ s.waiting /\ ongoing' = (IF p # 0 /\ ~s.closed THEN p ELSE ongoing)
      /\ host' = [host EXCEPT ![h] = s2]
      /\ UNCHANGED <<nav, next, current, initial, frame, down, up, crashes, swallowed, bad>>
  BY <1>1 DEF InitHost, Types
<1>3. h = current /\ ongoing = 0 /\ (p # 0 => s.live \/ s.closed)
  <2> HIDE DEF s, p
  <2> QED  BY <1>1, <1>2 DEF Lives, HostLives, p
<1>4. p \in Nums /\ 0 \in Nums
  <2>1. 0 \in Nums  BY NavigationAssumption DEF Nums
  <2> QED  BY <1>1, <2>1 DEF HostRecs
<1>5. /\ s2 \in HostRecs /\ s2.life = s.life /\ s2.live = s.live /\ ~s2.waiting /\ s2.pend = 0
      /\ s2.requests = s.requests /\ s2.same = s.same /\ s2.dsn = s.dsn
  <2> HIDE DEF s, p
  <2> QED  BY <1>1, <1>4 DEF HostRecs
<1>6. /\ host' \in [Hosts -> HostRecs] /\ host'[h] = s2
      /\ \A g \in Hosts \ {h} : host'[g] = host[g]
  <2> HIDE DEF s2
  <2> QED  BY <1>1, <1>2, <1>5 DEF Types
<1>7. ongoing' \in Nums  BY <1>1, <1>2, <1>4 DEF Types
<1>8. Types'  BY <1>1, <1>2, <1>6, <1>7 DEF Types
<1>9. frame'[h] = f /\ down'[h] = d /\ up'[h] = u  BY <1>2
<1>10. ASSUME NEW n \in Navs, n = p, ~s.closed
       PROVE  /\ nav[n].from = h /\ Awaited(f, u, n) /\ s.live /\ Early(n)
              /\ ~(n >= next) /\ n # ongoing
              /\ \A g \in Hosts : ~IsBegun(g, n)' /\ n \notin host'[g].same
              /\ EarlyOnce(n)
  <2>1. IsBegun(h, n) /\ EarlyOnce(n)  BY <1>10 DEF IsBegun, Core
  <2>2. s.live  BY <1>1, <1>3, <1>10
  <2>3. Begun(s, f, u, n)  BY <2>2 DEF Core, Clients
  <2>4. Awaited(f, u, n)  BY <1>10, <2>3 DEF Begun
  <2>5. nav[n].from = h /\ n # ongoing /\ ~(n >= next) /\ ~Holds(u, BeginOf(n))
    BY <1>10, <2>1 DEF EarlyOnce
  <2>6. \A g \in Hosts : IsBegun(g, n)' => g = h /\ FALSE
    BY <1>1, <1>2, <1>5, <1>6, <1>9, <2>1, <2>5 DEF IsBegun, EarlyOnce
  <2>7. \A g \in Hosts : host'[g].same = host[g].same  BY <1>5, <1>6
  <2>8. \A g \in Hosts : n \notin host[g].same
    BY <2>1, <2>5, NavigationAssumption DEF EarlyOnce
  <2>9. Early(n)  BY <2>1 DEF Early
  <2> QED  BY <2>1, <2>2, <2>4, <2>5, <2>6, <2>7, <2>8, <2>9
<1> HIDE DEF s, f, d, u, p, s2
<1>11. Lives(h, host[h], frame[h], down[h], up[h])'
  <2>1. HostLives(h, host[h], frame[h], down[h], up[h])'
    BY <1>1, <1>2, <1>5, <1>6, <1>9 DEF Lives, HostLives, InSpec
  <2>2. ChannelsLive(host[h], frame[h], down[h], up[h])'
    BY <1>1, <1>5, <1>6, <1>9 DEF Lives, ChannelsLive, InSpec
  <2>3. InitialLives(h, host[h], frame[h], up[h])'
    BY <1>1, <1>2, <1>5, <1>6, <1>9 DEF Lives, InitialLives
  <2> QED  BY <2>1, <2>2, <2>3 DEF Lives
<1>12. ASSUME NEW n \in Navs, host'[h].live
       PROVE  Tokens(host[h], frame[h], down[h], up[h], swallowed, n)' /\ Begun(host[h], frame[h], up[h], n)'
  <2>1. s.live  BY <1>5, <1>6, <1>12
  <2>2. Tokens(s, f, d, u, swallowed, n) /\ n # 0  BY <1>1, <2>1
  <2>3. Begun(s, f, u, n)  BY <2>1 DEF Core, Clients, s, f, u
  <2> QED  BY <1>2, <1>5, <1>6, <1>9, <2>2, <2>3 DEF Tokens, Begun, Awaited
<1>13. ASSUME NEW n \in Navs PROVE EarlyOnce(n)' /\ (Early(n)' => Early(n))
  <2>1. CASE n = p /\ ~s.closed
    <3>1. \A g \in Hosts : ~(Holds(up[g], BeginOf(n)) /\ host'[g].pend = n)
      BY <1>1, <1>5, <1>6, <1>10, <2>1 DEF EarlyOnce
    <3> QED  BY <1>2, <1>10, <2>1, <3>1 DEF EarlyOnce, IsBegun
  <2>2. CASE ~(n = p /\ ~s.closed)
    <3>1. \A g \in Hosts : host'[g].pend = n => host[g].pend = n  BY <1>1, <1>5, <1>6
    <3>2. \A g \in Hosts : n \in host'[g].same => n \in host[g].same  BY <1>5, <1>6 DEF s
    <3>3. Stays(n)  BY <1>1, <1>2, <2>2, <3>1, <3>2 DEF Stays
    <3> QED  BY <3>3, StaysKeep
  <2> QED  BY <2>1, <2>2
<1>14. OngoingIsAwaited'
  <2> SUFFICES ASSUME ongoing' # 0, nav[ongoing'].from # None
               PROVE  /\ nav[ongoing'].from = current /\ host'[current].live
                      /\ Awaited(frame[current], up[current], ongoing')
    BY <1>2 DEF OngoingIsAwaited, Awaited
  <2>1. ongoing' = p /\ ~s.closed /\ p \in Navs
    BY <1>2, <1>3, <1>4, NavigationAssumption DEF Nums, Navs
  <2> QED  BY <1>3, <1>5, <1>6, <1>10, <2>1 DEF f, u
<1>15. BrowserSteps({h}, h, 0, {})
  <2>1. TakesPart(h, h, 0, {})
    BY <1>2, <1>5, <1>6 DEF TakesPart, InSpec, s
  <2>2. ASSUME NEW g \in Hosts \ {h}
        PROVE  /\ Untouched(g, {}) /\ (g = current' <=> g = current)
               /\ host[g].waiting => ongoing' = 0
               /\ host[g].life = "Active" /\ initial => initial'
    <3>1. down[g] \in Seq(Messages)  BY <1>1 DEF Types
    <3>2. host[g].waiting => g = current  BY DEF Core, Pipes, Lives, HostLives
    <3> QED  BY <1>2, <1>3, <1>6, <3>1, <3>2, DropsNothing DEF Untouched
  <2>3. \A n \in Navs : n # 0  BY <1>1
  <2> QED  BY <1>2, <1>13, <2>1, <2>2, <2>3 DEF BrowserSteps
<1>16. {h} \in SUBSET Hosts  OBVIOUS
<1> QED  BY <1>2, <1>8, <1>11, <1>12, <1>13, <1>14, <1>15, <1>16, BrowserStepsKeep

\* The numbers of navigations are not 0, the number that stands for none.
LEMMA NavsArePositive == \A n \in Navs : n # 0 /\ n \in Nums
  BY NavigationAssumption DEF Navs, Nums

\* The browser takes message m of h's frame, which leaves the host as s2; ns are dropped.
TakesIn(h, m, s2, ns) ==
    /\ UpPops(up[h], m, up'[h]) /\ up' \in [Hosts -> Seq(Messages)]
    /\ s2 \in HostRecs /\ host' \in [Hosts -> HostRecs] /\ host'[h] = s2
    /\ \A g \in Hosts \ {h} : up'[g] = up[g] /\ host'[g] = host[g]
    /\ UNCHANGED <<next, current, frame, crashes, swallowed>>
    /\ nav' \in [Navs -> [from: Hosts \cup {None}, kind: NavKinds]]
    /\ \A n \in Navs : nav'[n].from = nav[n].from
    /\ down' \in [Hosts -> Seq(Messages)]
    /\ \A g \in Hosts : /\ Drops(down'[g], down[g], ns)
                        /\ frame[g].life # "attached" => down'[g] = down[g]
    /\ ongoing' \in Nums /\ initial' \in BOOLEAN /\ bad' \subseteq BrokenChecks

\* The browser takes a message m of h, and h becomes s2: the invariant is kept if what is said of h
\* is kept, h gives requests up and asks for none, and nothing of the others is at stake.
LEMMA AnswerKeeps ==
  ASSUME Core, NEW h \in Hosts, NEW ns, NEW m, NEW s2, TakesIn(h, m, s2, ns),
         s2.requests \subseteq host[h].requests, s2.same \subseteq host[h].same,
         InSpec(s2) => InSpec(host[h]),
         \A g \in Hosts \ {h} : /\ host[g].waiting => ongoing' = 0
                                /\ host[g].life = "Active" /\ initial => initial',
         \A n \in Navs : \/ (ongoing' = n => ongoing = n) /\ (s2.pend = n => host[h].pend = n)
                         \/ EarlyOnce(n)' /\ Early(n),
         \A n \in Navs \cap ns : ~Early(n)' /\ \A g \in Hosts : n \notin host'[g].requests,
         OngoingIsAwaited',
         Lives(h, host[h], frame[h], down[h], up[h])',
         \A n \in Navs : s2.live => /\ Tokens(s2, frame[h], down'[h], up'[h], swallowed, n)
                                    /\ Begun(s2, frame[h], up'[h], n)
  PROVE  Core'
<1>0. /\ UpPops(up[h], m, up'[h]) /\ up' \in [Hosts -> Seq(Messages)]
      /\ s2 \in HostRecs /\ host' \in [Hosts -> HostRecs] /\ host'[h] = s2
      /\ \A g \in Hosts \ {h} : up'[g] = up[g] /\ host'[g] = host[g]
      /\ UNCHANGED <<next, current, frame, crashes, swallowed>>
      /\ nav' \in [Navs -> [from: Hosts \cup {None}, kind: NavKinds]]
      /\ \A n \in Navs : nav'[n].from = nav[n].from
      /\ down' \in [Hosts -> Seq(Messages)]
      /\ \A g \in Hosts : /\ Drops(down'[g], down[g], ns)
                          /\ frame[g].life # "attached" => down'[g] = down[g]
      /\ ongoing' \in Nums /\ initial' \in BOOLEAN /\ bad' \subseteq BrokenChecks
  BY DEF TakesIn
<1>1. Types /\ Types'  BY <1>0 DEF Core, Types
<1>2. ASSUME NEW n \in Navs PROVE EarlyOnce(n)' /\ (Early(n)' => Early(n))
  <2>1. CASE (ongoing' = n => ongoing = n) /\ (s2.pend = n => host[h].pend = n)
    <3>1. \A g \in Hosts : /\ host'[g].pend = n => host[g].pend = n
                           /\ n \in host'[g].same => n \in host[g].same
      BY <1>0, <2>1
    <3>2. \A g \in Hosts :
            /\ Holds(up'[g], BeginOf(n)) => Holds(up[g], BeginOf(n))
            /\ Then(up'[g], BeginOf(n), BeginOf(n)) => Then(up[g], BeginOf(n), BeginOf(n))
            /\ Then(up'[g], EndOf(n), BeginOf(n)) => Then(up[g], EndOf(n), BeginOf(n))
      BY <1>0 DEF UpPops
    <3>3. Stays(n)  BY <1>0, <2>1, <3>1, <3>2 DEF Stays
    <3> QED  BY <3>3, StaysKeep
  <2>2. CASE EarlyOnce(n)' /\ Early(n)  BY <2>2
  <2> QED  BY <2>1, <2>2
<1>3. \A n \in Navs : n # 0  BY NavsArePositive
<1>4. TakesPart(h, h, 0, ns)
  BY <1>0 DEF TakesPart, UpPops, Drops
<1>5. \A g \in Hosts \ {h} : Untouched(g, ns)  BY <1>0 DEF Untouched
<1>6. BrowserSteps({h}, h, 0, ns)
  <2>1. \A n \in Navs : Early(n)' => Early(n) /\ n \notin ns /\ n # 0  BY <1>2, <1>3
  <2> QED  BY <1>0, <1>4, <1>5, <2>1 DEF BrowserSteps
<1>7. \A n \in Navs : host'[h].live =>
        /\ Tokens(host[h], frame[h], down[h], up[h], swallowed, n)'
        /\ Begun(host[h], frame[h], up[h], n)'
  BY <1>0 DEF Tokens, Begun, Awaited
<1>8. {h} \in SUBSET Hosts  OBVIOUS
<1> QED  BY <1>0, <1>1, <1>2, <1>6, <1>7, <1>8, BrowserStepsKeep, ZenonT(60)

\* The host h stays what it was when the browser takes a message of its frame.
LEMMA PoppedLives ==
  ASSUME Core, NEW h \in Hosts, NEW ns, NEW m, NEW s2, TakesIn(h, m, s2, ns),
         s2.life = host[h].life, s2.live = host[h].live, s2.waiting = host[h].waiting,
         s2.waiting => ongoing' = 0, s2.pend # 0 => s2.waiting /\ (s2.live \/ s2.closed),
         s2.requests \subseteq host[h].requests, s2.same \subseteq host[h].same,
         InSpec(host[h]) => m.type # "didCommit",
         s2.dsn # 0 => s2.dsn = host[h].dsn \/ (m.type = "didCommit" /\ m.n \in Navs),
         \/ initial' = initial
         \/ s2.life = "Active" /\ (\/ frame[h].life = "attached" /\ frame[h].initial
                                   \/ Holds(up'[h], InitialCommits)) => initial'
  PROVE  Lives(h, host[h], frame[h], down[h], up[h])'
<1> DEFINE s == host[h]
           f == frame[h]
           d == down[h]
           u == up[h]
           d2 == down'[h]
           u2 == up'[h]
<1>1. Lives(h, s, f, d, u)  BY DEF Core, Pipes
<1>2. /\ UpPops(u, m, u2) /\ Drops(d2, d, ns) /\ (f.life # "attached" => d2 = d)
      /\ host'[h] = s2 /\ frame'[h] = f /\ down'[h] = d2 /\ up'[h] = u2 /\ current' = current
  BY DEF TakesIn
<1>3. /\ s2.dsn # 0 => s2.dsn = s.dsn \/ (m.type = "didCommit" /\ m.n \in Navs)
      /\ s2.life = s.life /\ s2.live = s.live /\ s2.waiting = s.waiting
      /\ s2.waiting => ongoing' = 0
      /\ s2.pend # 0 => s2.waiting /\ (s2.live \/ s2.closed)
      /\ s2.requests \subseteq s.requests /\ s2.same \subseteq s.same
      /\ InSpec(s) => m.type # "didCommit"
      /\ \/ initial' = initial
         \/ s2.life = "Active" /\ ((f.life = "attached" /\ f.initial) \/ Holds(u2, InitialCommits)) => initial'
  OBVIOUS
<1> HIDE DEF s, f, d, u, d2, u2
<1>4. u # <<>>  BY <1>2 DEF UpPops
<1>5. HostLives(h, host[h], frame[h], down[h], up[h])'
  BY <1>1, <1>2, <1>3, <1>4 DEF Lives, HostLives, InSpec, Drops
<1>6. ChannelsLive(host[h], frame[h], down[h], up[h])'
  <2>1. ChannelsLive(s, f, d, u)  BY <1>1 DEF Lives
  <2>2. /\ ~Holds(d2, Blanks)
        /\ Holds(d2, Unloads) \/ Holds(u2, Unloadeds) => s.life \in {"PendingDeletion", "deleted"}
        /\ Holds(d2, Sames) => f.life = "attached" /\ ~f.initial /\ ~Then(d2, Ends, Sames)
        /\ Holds(d2, Deletes) => /\ s.life = "deleted" /\ f.life # "attached" /\ f.mhtml = 0
                                 /\ ~Holds(d2, Asks)
    BY <1>2, <2>1 DEF ChannelsLive, Drops, UpPops
  <2>3. /\ InSpec(s) /\ f.life = "provisional" => ~Holds(u2, Shown)
        /\ InSpec(s) /\ f.life = "attached" => FirstIs(u2, Shown, Commits)
    BY <1>2, <1>3, <2>1 DEF ChannelsLive, UpPops
  <2>4. InSpec(s2) <=> InSpec(s)  BY <1>3 DEF InSpec
  <2> QED  BY <1>2, <1>3, <2>2, <2>3, <2>4 DEF ChannelsLive, InSpec
<1>7. InitialLives(h, host[h], frame[h], up[h])'
  <2>1. InitialLives(h, s, f, u)  BY <1>1 DEF Lives
  <2>2. /\ Holds(u2, InitialCommits) => Holds(u, InitialCommits)
        /\ Holds(u2, RealCommits) => Holds(u, RealCommits)
        /\ Then(u2, RealCommits, InitialCommits) => Then(u, RealCommits, InitialCommits)
    BY <1>2 DEF UpPops
  <2>3. s.life = "Active" /\ ((f.life = "attached" /\ f.initial) \/ Holds(u2, InitialCommits)) => initial'
    <3>1. CASE initial' = initial
      <4>1. s.life = "Active" /\ ((f.life = "attached" /\ f.initial) \/ Holds(u2, InitialCommits)) => initial
        BY <2>1, <2>2 DEF InitialLives
      <4> QED  BY <3>1, <4>1
    <3> QED  BY <1>3, <3>1
  <2>4. f.life = "attached" /\ f.initial => (s2.live => s2.dsn = 0)
    <3>1. m.type = "didCommit" /\ m.n \in Navs => Holds(u, RealCommits)  BY <1>2 DEF UpPops
    <3> QED  BY <1>3, <2>1, <3>1 DEF InitialLives
  <2> QED  BY ONLY <1>2, <1>3, <2>1, <2>2, <2>3, <2>4 DEF InitialLives
<1> QED  BY <1>5, <1>6, <1>7 DEF Lives

\* The place of the client of n after the browser took m, which may be the report of its end.
LEMMA PoppedTokens ==
  ASSUME NEW n \in Navs, NEW s, NEW s2, NEW f, NEW d, NEW d2, NEW u, NEW u2, NEW m, NEW ns, NEW w,
         Tokens(s, f, d, u, w, n), UpPops(u, m, u2), Drops(d2, d, ns),
         IF m.type \in {"didCommit", "disconnected"} /\ m.n = n THEN n \notin s2.requests
         ELSE n \in s2.requests <=> n \in s.requests,
         n \in s2.same => n \in s.same /\ ~(m.type = "processed" /\ m.n = n)
  PROVE  Tokens(s2, f, d2, u2, w, n)
<1>1. CASE m.type \in {"didCommit", "disconnected"} /\ m.n = n
  <2>1. /\ f.client # n /\ f.mhtml # n /\ ~Holds(u2, ReturnOf(n)) /\ ~Holds(d2, BindOf(n))
        /\ ~Holds(u2, CommitOf(n)) /\ ~Then(u2, ReturnOf(n), ReturnOf(n))
    BY <1>1, Returned DEF Tokens, UpPops, Drops
  <2>2. n \in s2.same => Holds(d2, SameOf(n)) \/ Holds(u2, AnswerOf(n))
    BY DEF Tokens, UpPops, Drops
  <2> QED  BY <1>1, <2>1, <2>2 DEF Tokens
<1>2. CASE ~(m.type \in {"didCommit", "disconnected"} /\ m.n = n)
  <2>1. n \in s2.requests <=> n \in s.requests  BY <1>2
  <2>2. /\ Holds(u2, ReturnOf(n)) <=> Holds(u, ReturnOf(n))
        /\ Holds(u2, CommitOf(n)) <=> Holds(u, CommitOf(n))
        /\ Then(u2, ReturnOf(n), ReturnOf(n)) => Then(u, ReturnOf(n), ReturnOf(n))
        /\ ~(m.type = "processed" /\ m.n = n)
              => (Holds(u, AnswerOf(n)) => Holds(u2, AnswerOf(n)))
    BY <1>2 DEF UpPops
  <2> QED  BY <2>1, <2>2 DEF Tokens, Drops
<1> QED  BY <1>1, <1>2

\* The navigation n that a frame began, after the browser took m, which may tell of it.
LEMMA PoppedBegun ==
  ASSUME NEW n \in Navs, NEW s, NEW s2, NEW f, NEW u, NEW u2, NEW m,
         Begun(s, f, u, n), UpPops(u, m, u2), ~Then(u, EndOf(n), BeginOf(n)),
         s2.pend = n => \/ s.pend = n /\ (s.closed => s2.closed)
                        \/ m.type = "begin" /\ m.n = n,
         m.type = "disconnected" /\ m.n = n /\ s2.pend = n => s2.closed
  PROVE  Begun(s2, f, u2, n)
<1>1. Holds(u2, BeginOf(n)) => Awaited(f, u2, n)
  BY DEF Begun, Awaited, UpPops
<1>2. s2.pend = n => s2.closed \/ Awaited(f, u2, n)
  BY DEF Begun, Awaited, UpPops
<1> QED  BY <1>1, <1>2 DEF Begun

\* The request of the FrameTreeNode stays what it was, or is gone.
LEMMA PoppedOngoing ==
  ASSUME Core, NEW h \in Hosts, NEW ns, NEW m, NEW s2, TakesIn(h, m, s2, ns),
         s2.live = host[h].live, ongoing' \in {0, ongoing},
         m.type = "disconnected" /\ m.n = ongoing /\ nav[ongoing].from = h => ongoing' = 0
  PROVE  OngoingIsAwaited'
<1> SUFFICES ASSUME ongoing' # 0, nav'[ongoing'].from # None
             PROVE  LET g == nav'[ongoing'].from IN
                    g = current' /\ host'[g].live /\ Awaited(frame'[g], up'[g], ongoing')
  BY DEF OngoingIsAwaited, Awaited
<1>1. ongoing' = ongoing /\ ongoing \in Navs
  <2>1. ongoing \in Nums  BY DEF Core, Types
  <2> QED  BY <2>1, NavigationAssumption DEF Nums, Navs
<1>2. nav'[ongoing].from = nav[ongoing].from  BY <1>1 DEF TakesIn
<1>3. PICK g \in Hosts : /\ g = nav[ongoing].from /\ g = current /\ host[g].live
                         /\ Awaited(frame[g], up[g], ongoing)
  <2>1. current \in Hosts  BY DEF Core, Types
  <2> QED  BY <1>1, <1>2, <2>1 DEF Core, OngoingIsAwaited
<1>4. /\ frame' = frame /\ current' = current /\ host'[g].live
      /\ g # h => up'[g] = up[g]
      /\ UpPops(up[h], m, up'[h])
  BY <1>3 DEF TakesIn
<1>5. Awaited(frame[g], up'[g], ongoing)
  <2>1. CASE g # h  BY <1>3, <1>4, <2>1
  <2>2. CASE g = h
    <3>1. ~(m.type = "disconnected" /\ m.n = ongoing)  BY <1>1, <1>3, <2>2
    <3> QED  BY <1>1, <1>3, <1>4, <2>2, <3>1 DEF Awaited, UpPops
  <2> QED  BY <2>1, <2>2
<1> QED  BY <1>1, <1>2, <1>3, <1>4, <1>5

\* The browser takes a message m of h and h keeps its life, its process and its wait: the same,
\* with what is to be shown of h spelled out by the kinds of message.
LEMMA PopKeeps ==
  ASSUME Core, NEW h \in Hosts, NEW ns, NEW m, NEW s2, TakesIn(h, m, s2, ns),
         s2.life = host[h].life, s2.live = host[h].live, s2.waiting = host[h].waiting,
         s2.waiting => ongoing' = 0, s2.pend # 0 => s2.waiting /\ (s2.live \/ s2.closed),
         s2.requests \subseteq host[h].requests, s2.same \subseteq host[h].same,
         InSpec(host[h]) => m.type # "didCommit",
         s2.dsn # 0 => s2.dsn = host[h].dsn \/ (m.type = "didCommit" /\ m.n \in Navs),
         \/ initial' = initial
         \/ s2.life = "Active" /\ (\/ frame[h].life = "attached" /\ frame[h].initial
                                   \/ Holds(up'[h], InitialCommits)) => initial',
         \A g \in Hosts \ {h} : /\ host[g].waiting => ongoing' = 0
                                /\ host[g].life = "Active" /\ initial => initial',
         \A n \in Navs : \/ (ongoing' = n => ongoing = n) /\ (s2.pend = n => host[h].pend = n)
                         \/ EarlyOnce(n)' /\ Early(n),
         \A n \in Navs \cap ns : ~Early(n)' /\ \A g \in Hosts : n \notin host'[g].requests,
         OngoingIsAwaited',
         \A n \in Navs :
            /\ IF m.type \in {"didCommit", "disconnected"} /\ m.n = n THEN n \notin s2.requests
               ELSE n \in s2.requests <=> n \in host[h].requests
            /\ n \in s2.same => ~(m.type = "processed" /\ m.n = n)
            /\ s2.pend = n => \/ host[h].pend = n /\ (host[h].closed => s2.closed)
                              \/ m.type = "begin" /\ m.n = n
            /\ m.type = "disconnected" /\ m.n = n /\ s2.pend = n => s2.closed
  PROVE  Core'
<1>1. InSpec(s2) => InSpec(host[h])  BY DEF InSpec
<1>2. Lives(h, host[h], frame[h], down[h], up[h])'  BY PoppedLives
<1>3. ASSUME NEW n \in Navs, s2.live
      PROVE  Tokens(s2, frame[h], down'[h], up'[h], swallowed, n) /\ Begun(s2, frame[h], up'[h], n)
  <2>1. /\ Tokens(host[h], frame[h], down[h], up[h], swallowed, n)
        /\ Begun(host[h], frame[h], up[h], n)
    BY <1>3 DEF Core, Clients
  <2>2. UpPops(up[h], m, up'[h]) /\ Drops(down'[h], down[h], ns)  BY DEF TakesIn
  <2>3. ~Then(up[h], EndOf(n), BeginOf(n))  BY DEF Core, EarlyOnce
  <2>4. Tokens(s2, frame[h], down'[h], up'[h], swallowed, n)
    BY <2>1, <2>2, PoppedTokens
  <2>5. Begun(s2, frame[h], up'[h], n)
    BY <2>1, <2>2, <2>3, PoppedBegun
  <2> QED  BY <2>4, <2>5
<1> QED  BY <1>1, <1>2, <1>3, AnswerKeeps

\* Taking a message and ending one client.
LEMMA TakesDropping ==
  ASSUME Types, NEW h \in Hosts, NEW t, Next1(up, h, t), up' = Popped(up, h),
         NEW s2 \in HostRecs, host' = [host EXCEPT ![h] = s2], NEW k \in Nums, down' = Dropped(down, k),
         UNCHANGED <<next, current, frame, crashes, swallowed>>,
         nav' \in [Navs -> [from: Hosts \cup {None}, kind: NavKinds]],
         \A n \in Navs : nav'[n].from = nav[n].from,
         ongoing' \in Nums, initial' \in BOOLEAN, bad' \subseteq BrokenChecks
  PROVE  TakesIn(h, Head(up[h]), s2, {k})
<1>1. /\ UpPops(up[h], Head(up[h]), up'[h]) /\ up' \in [Hosts -> Seq(Messages)]
      /\ \A g \in Hosts \ {h} : up'[g] = up[g]
  BY Taken
<1>2. /\ host' \in [Hosts -> HostRecs] /\ host'[h] = s2
      /\ \A g \in Hosts \ {h} : host'[g] = host[g]
  BY DEF Types
<1>3. /\ down' \in [Hosts -> Seq(Messages)]
      /\ \A g \in Hosts : /\ Drops(down'[g], down[g], {k})
                          /\ frame[g].life # "attached" => down'[g] = down[g]
  <2>1. down \in [Hosts -> Seq(Messages)]  BY DEF Types
  <2> QED  BY <2>1, DroppedOne
<1> QED  BY <1>1, <1>2, <1>3 DEF TakesIn

\* Taking a message and sending none.
LEMMA TakesQuietly ==
  ASSUME Types, NEW h \in Hosts, NEW t, Next1(up, h, t), up' = Popped(up, h),
         NEW s2 \in HostRecs, host' = [host EXCEPT ![h] = s2],
         UNCHANGED <<nav, next, current, frame, down, crashes, swallowed>>,
         ongoing' \in Nums, initial' \in BOOLEAN, bad' \subseteq BrokenChecks
  PROVE  TakesIn(h, Head(up[h]), s2, {})
<1>1. /\ UpPops(up[h], Head(up[h]), up'[h]) /\ up' \in [Hosts -> Seq(Messages)]
      /\ \A g \in Hosts \ {h} : up'[g] = up[g]
  BY Taken
<1>2. /\ host' \in [Hosts -> HostRecs] /\ host'[h] = s2
      /\ \A g \in Hosts \ {h} : host'[g] = host[g]
  BY DEF Types
<1>3. /\ down' \in [Hosts -> Seq(Messages)]
      /\ \A g \in Hosts : Drops(down'[g], down[g], {}) /\ down'[g] = down[g]
  <2>1. down \in [Hosts -> Seq(Messages)]  BY DEF Types
  <2> QED  BY <2>1, DropsNothing
<1>4. nav' = nav /\ nav' \in [Navs -> [from: Hosts \cup {None}, kind: NavKinds]]  BY DEF Types
<1> QED  BY <1>1, <1>2, <1>3, <1>4 DEF TakesIn

\* Only the shown host waits, and only while no navigation is under way.
LEMMA OthersDoNotWait ==
  ASSUME Core, NEW g \in Hosts
  PROVE  /\ host[g].waiting => g = current /\ ongoing = 0
         /\ host[g].life = "Active" <=> g = current
  BY DEF Core, Pipes, Lives, HostLives

\* The browser takes a message m of h, sends none and begins no navigation.
LEMMA QuietPopKeeps ==
  ASSUME Core, NEW h \in Hosts, NEW m, NEW s2, TakesIn(h, m, s2, {}),
         s2.life = host[h].life, s2.live = host[h].live, s2.waiting = host[h].waiting,
         s2.pend = host[h].pend, host[h].closed => s2.closed,
         s2.requests \subseteq host[h].requests, s2.same \subseteq host[h].same,
         InSpec(host[h]) => m.type # "didCommit", s2.dsn = host[h].dsn,
         ongoing' \in {0, ongoing}, initial' = initial,
         m.type = "disconnected" /\ m.n = ongoing /\ nav[ongoing].from = h => ongoing' = 0,
         \A n \in Navs :
            /\ IF m.type \in {"didCommit", "disconnected"} /\ m.n = n THEN n \notin s2.requests
               ELSE n \in s2.requests <=> n \in host[h].requests
            /\ n \in s2.same => ~(m.type = "processed" /\ m.n = n)
            /\ m.type = "disconnected" /\ m.n = n /\ s2.pend = n => s2.closed
  PROVE  Core'
<1>1. /\ s2.waiting => ongoing' = 0
      /\ s2.pend # 0 => s2.waiting /\ (s2.live \/ s2.closed)
  BY DEF Core, Pipes, Lives, HostLives
<1>2. \A g \in Hosts \ {h} : /\ host[g].waiting => ongoing' = 0
                             /\ host[g].life = "Active" /\ initial => initial'
  BY OthersDoNotWait
<1>3. \A n \in Navs : n # 0  BY NavsArePositive
<1>4. OngoingIsAwaited'  BY PoppedOngoing
<1> QED  BY <1>1, <1>2, <1>3, <1>4, PopKeeps

\* DidStopLoading: the browser is told that a frame stopped loading.
LEMMA DidStopLoadingKeeps ==
  ASSUME Core, NEW h \in Hosts, DidStopLoading(h)
  PROVE  Core'
<1> DEFINE s == host[h]
           m == Head(up[h])
           s2 == [s EXCEPT !.loading = FALSE]
<1>1. /\ Types /\ s \in HostRecs  BY Situation
<1>2. /\ Next1(up, h, "stopped") /\ up' = Popped(up, h) /\ host' = [host EXCEPT ![h] = s2]
      /\ UNCHANGED <<nav, next, ongoing, current, initial, frame, down, crashes, swallowed, bad>>
  BY <1>1 DEF DidStopLoading, Types
<1>3. m.type = "stopped"  BY <1>2 DEF Next1
<1>4. /\ s2 \in HostRecs /\ s2.life = s.life /\ s2.live = s.live /\ s2.waiting = s.waiting
      /\ s2.pend = s.pend /\ s2.closed = s.closed /\ s2.requests = s.requests /\ s2.same = s.same
      /\ s2.dsn = s.dsn
  <2> HIDE DEF s
  <2> QED  BY <1>1 DEF HostRecs
<1>5. ongoing' \in Nums /\ initial' \in BOOLEAN /\ bad' \subseteq BrokenChecks
  BY <1>1, <1>2 DEF Types
<1> HIDE DEF m, s2
<1>6. TakesIn(h, m, s2, {})  BY <1>1, <1>2, <1>4, <1>5, TakesQuietly DEF m
<1> QED  BY <1>2, <1>3, <1>4, <1>6, QuietPopKeeps

\* NavigationRequestCancelled: the client of a navigation was closed by its frame.
LEMMA NavigationRequestCancelledKeeps ==
  ASSUME Core, NEW h \in Hosts, NavigationRequestCancelled(h)
  PROVE  Core'
<1> DEFINE s == host[h]
           m == Head(up[h])
           s2 == [s EXCEPT !.requests = @ \ {m.n}, !.closed = @ \/ s.pend = m.n]
<1>1. /\ Types /\ s \in HostRecs  BY Situation
<1>2. /\ Next1(up, h, "disconnected") /\ up' = Popped(up, h) /\ host' = [host EXCEPT ![h] = s2]
      /\ ongoing' = (IF ongoing = m.n /\ nav[ongoing].from = h THEN 0 ELSE ongoing)
      /\ UNCHANGED <<nav, next, current, initial, frame, down, crashes, swallowed, bad>>
  BY <1>1 DEF NavigationRequestCancelled, Types
<1>3. m.type = "disconnected"  BY <1>2 DEF Next1
<1>4. /\ s2 \in HostRecs /\ s2.life = s.life /\ s2.live = s.live /\ s2.waiting = s.waiting
      /\ s2.pend = s.pend /\ (s.closed \/ s.pend = m.n => s2.closed)
      /\ s2.requests = s.requests \ {m.n} /\ s2.same = s.same /\ s2.dsn = s.dsn
  <2> HIDE DEF s, m
  <2> QED  BY <1>1 DEF HostRecs
<1>5. ongoing' \in Nums /\ initial' \in BOOLEAN /\ bad' \subseteq BrokenChecks
  <2>1. 0 \in Nums  BY NavigationAssumption DEF Nums
  <2> QED  BY <1>1, <1>2, <2>1 DEF Types
<1> HIDE DEF m, s2
<1>6. TakesIn(h, m, s2, {})  BY <1>1, <1>2, <1>4, <1>5, TakesQuietly DEF m
<1> QED  BY <1>2, <1>3, <1>4, <1>6, QuietPopKeeps

\* DidCommitSameDocumentNavigation: the browser is told of a commit within a document.
LEMMA DidCommitSameDocumentNavigationKeeps ==
  ASSUME Core, NEW h \in Hosts, DidCommitSameDocumentNavigation(h)
  PROVE  Core'
<1> DEFINE s == host[h]
           m == Head(up[h])
           w == StillWaiting(h, m)
           s2 == IF Inactive(h) THEN s
                 ELSE [s EXCEPT !.same = w, !.loading = TRUE, !.pos = m.n]
<1>1. /\ Types /\ s \in HostRecs /\ Lives(h, s, frame[h], down[h], up[h])  BY Situation
<1>2. /\ Next1(up, h, "didCommitSame") /\ up' = Popped(up, h)
      /\ host' = [host EXCEPT ![h] = s2]
      /\ NotShown(h, "same document in a host not shown")
      /\ UNCHANGED <<nav, next, ongoing, current, initial, frame, down, crashes, swallowed>>
  BY <1>1 DEF DidCommitSameDocumentNavigation, Types
<1>3. /\ m.type = "didCommitSame" /\ m.n \in Nums /\ UpPops(up[h], m, up'[h])
  BY <1>1, <1>2, Taken
<1>4. ~InSpec(s) /\ (Inactive(h) => ~s.live /\ s.same = {})
  <2> HIDE DEF s, m
  <2> QED  BY <1>1, <1>3 DEF Lives, HostLives, ChannelsLive, UpPops, InSpec, Inactive, s
<1>5. h \notin Speculative  BY <1>4 DEF Speculative, InSpec
<1>6. /\ s2 \in HostRecs /\ s2.life = s.life /\ s2.live = s.live /\ s2.waiting = s.waiting
      /\ s2.pend = s.pend /\ s2.closed = s.closed
      /\ s2.requests = s.requests /\ s2.same \subseteq s.same /\ s2.dsn = s.dsn
  <2>0. w \subseteq s.same  BY DEF StillWaiting
  <2> HIDE DEF s, m, w
  <2>1. CASE Inactive(h)  BY <1>1, <1>4, <2>1
  <2>2. CASE ~Inactive(h)  BY <1>1, <1>3, <2>0, <2>2 DEF HostRecs
  <2> QED  BY <2>1, <2>2
<1>7. ongoing' \in Nums /\ initial' \in BOOLEAN /\ bad' \subseteq BrokenChecks
  BY <1>1, <1>2, <1>5 DEF Types, NotShown
<1> HIDE DEF m, s2
<1>8. TakesIn(h, m, s2, {})  BY <1>1, <1>2, <1>6, <1>7, TakesQuietly DEF m
<1>9. \A n \in Navs :
        /\ m.type \notin {"didCommit", "disconnected"} /\ (n \in s2.requests <=> n \in host[h].requests)
        /\ n \in s2.same => ~(m.type = "processed" /\ m.n = n)
  BY <1>3, <1>6
<1> QED  BY <1>2, <1>3, <1>6, <1>8, <1>9, QuietPopKeeps

\* OnUnloadACK: a frame that was swapped out is gone.
LEMMA OnUnloadACKKeeps ==
  ASSUME Core, NEW h \in Hosts, OnUnloadACK(h)
  PROVE  Core'
<1> DEFINE s == host[h]
           m == Head(up[h])
           l == "deleted"
           s2 == [NoHost EXCEPT !.life = l]
<1>1. /\ Types /\ s \in HostRecs /\ Lives(h, s, frame[h], down[h], up[h])  BY Situation
<1>2. /\ Next1(up, h, "unloaded") /\ up' = Popped(up, h) /\ host' = [host EXCEPT ![h] = s2]
      /\ UNCHANGED <<nav, next, ongoing, current, initial, frame, down, crashes, swallowed, bad>>
  BY <1>1 DEF OnUnloadACK, Types
<1>3. m.type = "unloaded" /\ UpPops(up[h], m, up'[h])  BY <1>1, <1>2, Taken
<1>4. l = "deleted" /\ l \in HostStates  BY DEF HostStates
<1> HIDE DEF l
<1>5. /\ s2 \in HostRecs /\ s2.life = l /\ ~s2.live /\ ~s2.waiting
      /\ s2.pend = 0 /\ s2.requests = {} /\ s2.same = {}
  BY <1>4, DeadHost
<1>6. ongoing' \in Nums /\ initial' \in BOOLEAN /\ bad' \subseteq BrokenChecks
  BY <1>1, <1>2 DEF Types
<1> HIDE DEF m, s2
<1>7. TakesIn(h, m, s2, {})  BY <1>1, <1>2, <1>5, <1>6, TakesQuietly DEF m
<1>8. /\ host'[h] = s2 /\ frame'[h] = frame[h] /\ down'[h] = down[h] /\ current' = current
      /\ Holds(up'[h], InitialCommits) => Holds(up[h], InitialCommits)
      /\ Holds(up'[h], RealCommits) => Holds(up[h], RealCommits)
      /\ Then(up'[h], RealCommits, InitialCommits) => Then(up[h], RealCommits, InitialCommits)
  BY <1>2, <1>3, <1>7 DEF TakesIn, UpPops
<1>9. s.life \in {"PendingDeletion", "deleted"}
  <2> HIDE DEF s
  <2> QED  BY <1>1, <1>3 DEF Lives, ChannelsLive, UpPops
<1> HIDE DEF s
<1>10. Lives(h, host[h], frame[h], down[h], up[h])'
  <2>1. h # current  BY <1>1, <1>9 DEF Lives, HostLives
  <2>2. HostLives(h, host[h], frame[h], down[h], up[h])'
    BY <1>4, <1>5, <1>8, <2>1 DEF HostLives, InSpec
  <2>3. ChannelsLive(host[h], frame[h], down[h], up[h])'
    BY <1>1, <1>4, <1>5, <1>8, <1>9 DEF Lives, ChannelsLive, InSpec
  <2>4. InitialLives(h, host[h], frame[h], up[h])'
    BY <1>1, <1>4, <1>5, <1>8 DEF Lives, InitialLives
  <2> QED  BY <2>2, <2>3, <2>4 DEF Lives
<1>11. OngoingIsAwaited'
  <2> SUFFICES ASSUME ongoing # 0, nav[ongoing].from # None
               PROVE  /\ nav[ongoing].from = current /\ host'[current].live
                      /\ Awaited(frame[current], up'[current], ongoing)
    BY <1>2 DEF OngoingIsAwaited, Awaited
  <2>1. /\ nav[ongoing].from = current /\ host[current].live
        /\ Awaited(frame[current], up[current], ongoing)
    BY DEF Core, OngoingIsAwaited
  <2>2. current \in Hosts \ {h}
    <3>1. h # current  BY <1>1, <1>9 DEF Lives, HostLives
    <3> QED  BY <1>1, <3>1 DEF Types
  <2> QED  BY <1>7, <2>1, <2>2 DEF TakesIn
<1>12. ~InSpec(s2)  BY <1>4, <1>5 DEF InSpec
<1>13. \A g \in Hosts \ {h} : /\ host[g].waiting => ongoing' = 0
                              /\ host[g].life = "Active" /\ initial => initial'
  BY <1>2, OthersDoNotWait
<1>14. \A n \in Navs : (ongoing' = n => ongoing = n) /\ (s2.pend = n => host[h].pend = n)
  BY <1>2, <1>5, NavsArePositive
<1> QED  BY <1>5, <1>7, <1>10, <1>11, <1>12, <1>13, <1>14, AnswerKeeps

\* The request of the FrameTreeNode is replaced by another one, or dropped.
LEMMA OngoingReplaced ==
  ASSUME Core, NEW h \in Hosts, NEW ns, NEW m, NEW s2, TakesIn(h, m, s2, ns),
         s2.requests \subseteq host[h].requests, s2.same \subseteq host[h].same,
         s2.pend = host[h].pend, NEW n \in Navs, n = ongoing, ongoing' # n
  PROVE  ~Early(n)' /\ \A g \in Hosts : n \notin host'[g].requests
<1>1. Stays(n)
  <2>1. \A g \in Hosts : /\ host'[g].pend = n => host[g].pend = n
                         /\ n \in host'[g].same => n \in host[g].same
    BY DEF TakesIn
  <2>2. \A g \in Hosts :
          /\ Holds(up'[g], BeginOf(n)) => Holds(up[g], BeginOf(n))
          /\ Then(up'[g], BeginOf(n), BeginOf(n)) => Then(up[g], BeginOf(n), BeginOf(n))
          /\ Then(up'[g], EndOf(n), BeginOf(n)) => Then(up[g], EndOf(n), BeginOf(n))
    BY DEF TakesIn, UpPops
  <2> QED  BY <2>1, <2>2 DEF TakesIn, Stays
<1>2. ~Early(n)' /\ \A g \in Hosts : n \notin host[g].requests  BY <1>1, OngoingLeaves
<1>3. \A g \in Hosts : host'[g].requests \subseteq host[g].requests  BY DEF TakesIn
<1> QED  BY <1>2, <1>3

\* OnSameDocumentCommitProcessed: a frame answers the request to commit within its document; when
\* it refused, the navigation starts again as one between documents.
LEMMA OnSameDocumentCommitProcessedKeeps ==
  ASSUME Core, NEW h \in Hosts, OnSameDocumentCommitProcessed(h)
  PROVE  Core'
<1> DEFINE s == host[h]
           m == Head(up[h])
           restart == m.n \in s.same /\ m.arg = "RestartCrossDocument"
           s2 == [s EXCEPT !.same = @ \ {m.n}, !.empty = IF restart THEN @ \cup {m.n} ELSE @]
<1>1. /\ Types /\ s \in HostRecs /\ Lives(h, s, frame[h], down[h], up[h])  BY Situation
<1>2. /\ Next1(up, h, "processed") /\ up' = Popped(up, h)
      /\ host' = [host EXCEPT ![h] = s2]
      /\ ongoing' = (IF restart THEN m.n ELSE ongoing)
      /\ nav' = (IF restart THEN [nav EXCEPT ![m.n].kind = "cross"] ELSE nav)
      /\ down' = (IF restart THEN Dropped(down, ongoing) ELSE down)
      /\ bad' \subseteq bad \cup BrokenChecks
      /\ UNCHANGED <<next, current, initial, frame, crashes, swallowed>>
  BY <1>1 DEF OnSameDocumentCommitProcessed, Types, BrokenChecks
<1>3. /\ m.type = "processed" /\ m.n \in Nums /\ UpPops(up[h], m, up'[h])
  BY <1>1, <1>2, Taken
<1>4. s.same \subseteq Navs /\ s.empty \subseteq Navs  BY <1>1 DEF HostRecs
<1>5. /\ s2 \in HostRecs /\ s2.life = s.life /\ s2.live = s.live /\ s2.waiting = s.waiting
      /\ s2.pend = s.pend /\ s2.closed = s.closed
      /\ s2.requests = s.requests /\ s2.same = s.same \ {m.n}
      /\ s2.dsn = s.dsn
  <2> DEFINE e == IF restart THEN s.empty \cup {m.n} ELSE s.empty
  <2>1. e \subseteq Navs  BY <1>4
  <2>2. s2 = [s EXCEPT !.same = @ \ {m.n}, !.empty = e]
    <3> HIDE DEF s
    <3> QED  BY <1>1 DEF HostRecs
  <2> HIDE DEF s, m, restart, e, s2
  <2> QED  BY <1>1, <1>4, <2>1, <2>2 DEF HostRecs
<1>6. initial' \in BOOLEAN /\ bad' \subseteq BrokenChecks
  BY <1>1, <1>2 DEF Types
<1>7. CASE ~restart
  <2>1. /\ ongoing' = ongoing /\ ongoing' \in Nums
        /\ UNCHANGED <<nav, next, current, frame, down, crashes, swallowed>>
    BY <1>1, <1>2, <1>7 DEF Types
  <2> HIDE DEF m, s2, restart
  <2>2. TakesIn(h, m, s2, {})  BY <1>1, <1>2, <1>5, <1>6, <2>1, TakesQuietly DEF m
  <2> QED  BY <1>2, <1>3, <1>5, <2>1, <2>2, QuietPopKeeps, ZenonT(60)
<1>8. CASE restart
  <2> DEFINE n == m.n
             c == "cross"
  <2>1. /\ n \in s.same /\ n \in Navs /\ ongoing' = n /\ down' = Dropped(down, ongoing)
        /\ nav' = [nav EXCEPT ![n].kind = c]
    BY <1>2, <1>4, <1>8
  <2>0. PICK k \in Navs : k = n  BY <2>1
  <2>2. c \in NavKinds  BY DEF NavKinds
  <2> HIDE DEF c, m, s2, restart
  <2>3. /\ nav' \in [Navs -> [from: Hosts \cup {None}, kind: NavKinds]]
        /\ \A j \in Navs : nav'[j].from = nav[j].from
    BY <1>1, <2>1, <2>2 DEF Types
  <2>4. ongoing \in Nums /\ ongoing' \in Nums  BY <1>1, <1>3, <2>1 DEF Types
  <2>5. TakesIn(h, m, s2, {ongoing})
    BY <1>1, <1>2, <1>5, <1>6, <2>1, <2>3, <2>4, TakesDropping DEF m
  <2>6. s.live /\ ~s.waiting /\ h = current /\ s.life = "Active" /\ ~InSpec(s)
    <3> HIDE DEF s, n
    <3> QED  BY <1>1, <2>1 DEF Lives, HostLives, InSpec
  <2>7. /\ EarlyOnce(k) /\ Early(k) /\ ~(k >= next) /\ k # ongoing /\ nav[k].from = None
        /\ \A g \in Hosts : ~IsBegun(g, k) /\ (g # h => k \notin host[g].same)
    <3>0. k \in s.same  BY <2>0, <2>1
    <3>1. EarlyOnce(k) /\ Early(k)  BY <3>0 DEF Core, Early
    <3>2. ~(k >= next) /\ k # ongoing /\ nav[k].from = None
      BY <3>0, <3>1 DEF EarlyOnce
    <3>3. ASSUME NEW g \in Hosts PROVE ~IsBegun(g, k)
      BY <3>1, <3>2, NavigationAssumption DEF EarlyOnce
    <3>4. ASSUME NEW g \in Hosts, g # h PROVE k \notin host[g].same
      BY <3>0, <3>4 DEF Core, Apart
    <3> QED  BY <3>1, <3>2, <3>3, <3>4
  <2>8. EarlyOnce(k)'
    <3>1. \A g \in Hosts : ~IsBegun(g, k)' /\ k \notin host'[g].same
      <4>1. \A g \in Hosts : host'[g].pend = host[g].pend  BY <1>5, <2>5 DEF TakesIn
      <4>2. \A g \in Hosts : Holds(up'[g], BeginOf(k)) => Holds(up[g], BeginOf(k))
        BY <2>5 DEF TakesIn, UpPops
      <4>3. \A g \in Hosts : k \notin host'[g].same  BY <1>5, <2>0, <2>5, <2>7 DEF TakesIn, n
      <4> QED  BY <2>7, <4>1, <4>2, <4>3 DEF IsBegun
    <3>2. \A g \in Hosts : /\ ~Then(up'[g], BeginOf(k), BeginOf(k)) /\ ~Then(up'[g], EndOf(k), BeginOf(k))
                           /\ ~Holds(up'[g], BeginOf(k))
      <4>1. \A g \in Hosts : ~Holds(up'[g], BeginOf(k))  BY <3>1 DEF IsBegun
      <4> QED  BY <4>1, ThenHolds
    <3>3. ~(k >= next')  BY <1>2, <2>7
    <3> QED  BY <3>1, <3>2, <3>3 DEF EarlyOnce
  <2>9. \A j \in Navs : \/ (ongoing' = j => ongoing = j) /\ (s2.pend = j => s.pend = j)
                        \/ EarlyOnce(j)' /\ Early(j)
    <3>1. ASSUME NEW j \in Navs, j = k PROVE EarlyOnce(j)' /\ Early(j)  BY <2>7, <2>8, <3>1
    <3>2. \A j \in Navs : j # k => ongoing' # j  BY <2>0, <2>1
    <3> QED  BY <1>5, <3>1, <3>2
  <2>10. \A j \in Navs \cap {ongoing} : ~Early(j)' /\ \A g \in Hosts : j \notin host'[g].requests
    <3>1. ASSUME NEW j \in Navs, j = ongoing
          PROVE  ~Early(j)' /\ \A g \in Hosts : j \notin host'[g].requests
      <4>1. ongoing' # j  BY <2>0, <2>1, <2>7, <3>1
      <4> QED  BY <1>5, <2>5, <3>1, <4>1, OngoingReplaced
    <3> QED  BY <3>1
  <2>11. OngoingIsAwaited'
    <3>1. ongoing' = k /\ nav'[k].from = None  BY <2>0, <2>1, <2>3, <2>7
    <3> QED  BY <3>1 DEF OngoingIsAwaited
  <2>12. \A g \in Hosts \ {h} : /\ host[g].waiting => ongoing' = 0
                                /\ host[g].life = "Active" /\ initial => initial'
    BY <2>6, OthersDoNotWait
  <2>13. s.pend # 0 => s.waiting  BY <1>1 DEF Lives, HostLives
  <2>14. \A j \in Navs :
          /\ IF m.type \in {"didCommit", "disconnected"} /\ m.n = j THEN j \notin s2.requests
             ELSE j \in s2.requests <=> j \in host[h].requests
          /\ j \in s2.same => ~(m.type = "processed" /\ m.n = j)
          /\ s2.pend = j => \/ host[h].pend = j /\ (host[h].closed => s2.closed)
                            \/ m.type = "begin" /\ m.n = j
          /\ m.type = "disconnected" /\ m.n = j /\ s2.pend = j => s2.closed
    <3>1. /\ m.type = "processed" /\ host[h] = s /\ s2.pend = s.pend /\ s2.closed = s.closed
          /\ s2.requests = s.requests /\ s2.same = s.same \ {m.n}
      BY <1>3, <1>5
    <3> HIDE DEF s, m, s2
    <3> QED  BY ONLY <3>1
  <2>15. /\ s2.life = host[h].life /\ s2.live = host[h].live /\ s2.waiting = host[h].waiting
         /\ s2.waiting => ongoing' = 0
         /\ s2.pend # 0 => s2.waiting /\ (s2.live \/ s2.closed)
         /\ s2.requests \subseteq host[h].requests /\ s2.same \subseteq host[h].same
         /\ InSpec(host[h]) => m.type # "didCommit"
         /\ initial' = initial /\ s2.dsn = host[h].dsn
    BY <1>2, <1>5, <2>6, <2>13
  <2> HIDE DEF s
  <2> QED  BY <2>5, <2>9, <2>10, <2>11, <2>12, <2>14, <2>15, PopKeeps DEF s
<1> QED  BY <1>7, <1>8

\* A navigation that a frame begins is nowhere but in the message that tells of it.
LEMMA BeginTaken ==
  ASSUME Core, NEW h \in Hosts, NEW ns, NEW m, NEW s2, TakesIn(h, m, s2, ns),
         m.type = "begin", m.n \in Navs, s2.same = host[h].same
  PROVE  LET n == m.n IN
         /\ Early(n) /\ ~(n >= next') /\ n # ongoing /\ nav[n].from = h /\ nav'[n].from = h
         /\ \A g \in Hosts : /\ host[g].pend # n /\ n \notin host'[g].same
                             /\ ~Holds(up'[g], BeginOf(n)) /\ n \notin host[g].requests
                             /\ ~Then(up'[g], BeginOf(n), BeginOf(n))
                             /\ ~Then(up'[g], EndOf(n), BeginOf(n))
<1> DEFINE n == m.n
<1>1. UpPops(up[h], m, up'[h])  BY DEF TakesIn
<1>2. Holds(up[h], BeginOf(n)) /\ IsBegun(h, n)  BY <1>1 DEF UpPops, IsBegun
<1>3. EarlyOnce(n) /\ Early(n) /\ EarlyIsUnsent(n)  BY <1>2 DEF Core, Early
<1>4. ~(n >= next) /\ n # ongoing /\ nav[n].from = h /\ host[h].pend # n
  BY <1>2, <1>3 DEF EarlyOnce
<1>5. ASSUME NEW g \in Hosts, g # h PROVE ~IsBegun(g, n)
  BY <1>3, <1>4, <1>5 DEF EarlyOnce
<1>6. \A g \in Hosts : n \notin host[g].same
  BY <1>3, <1>4, NavigationAssumption DEF EarlyOnce
<1>7. ~Holds(up'[h], BeginOf(n))
  BY <1>1, <1>3 DEF UpPops, EarlyOnce
<1>8. \A g \in Hosts : ~Holds(up'[g], BeginOf(n)) /\ host[g].pend # n
  BY <1>4, <1>5, <1>7 DEF TakesIn, IsBegun
<1>9. \A g \in Hosts : n \notin host'[g].same /\ n \notin host[g].requests
  BY <1>3, <1>6 DEF TakesIn, EarlyIsUnsent
<1>10. ~(n >= next') /\ nav'[n].from = h  BY <1>4 DEF TakesIn
<1> QED  BY <1>3, <1>4, <1>8, <1>9, <1>10, ThenHolds

\* BeginNavigation: the browser is told of a navigation that a frame began, and takes it, keeps it
\* for later or drops it.
LEMMA BeginNavigationKeeps ==
  ASSUME Core, NEW h \in Hosts, BeginNavigation(h)
  PROVE  Core'
<1> DEFINE s == host[h]
           m == Head(up[h])
           n == m.n
<1>1. /\ Types /\ s \in HostRecs /\ Lives(h, s, frame[h], down[h], up[h])  BY Situation
<1>2. /\ Next1(up, h, "begin") /\ up' = Popped(up, h)
      /\ NotShown(h, "begin in a host not shown")
      /\ UNCHANGED <<nav, next, current, initial, frame, crashes, swallowed>>
  BY DEF BeginNavigation
<1>3. /\ m.type = "begin" /\ n \in Nums /\ UpPops(up[h], m, up'[h])
  BY <1>1, <1>2, Taken
<1>4. ~InSpec(s) /\ (~Inactive(h) => s.life = "Active" /\ s.live /\ h = current)
  <2>1. ~InSpec(s) /\ s.life # "none" /\ (s.life = "Active" => s.live)
    <3> HIDE DEF s, m, n
    <3> QED  BY <1>1, <1>3 DEF Lives, HostLives, ChannelsLive, UpPops, InSpec
  <2>2. s.life \in HostStates  BY <1>1 DEF HostRecs
  <2>3. ~Inactive(h) => s.life = "Active"
    BY <2>1, <2>2 DEF Inactive, InSpec, HostStates
  <2> QED  BY <1>1, <2>1, <2>3 DEF Lives, HostLives
<1>5. h \notin Speculative  BY <1>4 DEF Speculative, InSpec
<1>6. initial' \in BOOLEAN /\ bad' \subseteq BrokenChecks
  BY <1>1, <1>2, <1>5 DEF Types, NotShown
<1>7. /\ nav' \in [Navs -> [from: Hosts \cup {None}, kind: NavKinds]]
      /\ \A k \in Navs : nav'[k].from = nav[k].from
      /\ ongoing \in Nums /\ 0 \in Nums
  <2>1. 0 \in Nums  BY NavigationAssumption DEF Nums
  <2> QED  BY <1>1, <1>2, <2>1 DEF Types
<1>8. \A k \in Navs : k # 0  BY NavsArePositive
<1>9. n = 0 \/ n \in Navs  BY <1>3, NavigationAssumption DEF Nums, Navs
<1>10. s.pend # 0 => s.waiting /\ (s.live \/ s.closed)
  BY <1>1 DEF Lives, HostLives
<1>11. CASE Inactive(h) /\ UNCHANGED <<ongoing, host, down>>
  <2>1. host' = [host EXCEPT ![h] = s]  BY <1>1, <1>11 DEF Types
  <2> HIDE DEF m, n
  <2>2. TakesIn(h, m, s, {})  BY <1>1, <1>2, <1>6, <1>7, <1>11, <2>1, TakesQuietly DEF m
  <2> QED  BY <1>2, <1>3, <1>4, <1>11, <2>2, QuietPopKeeps
<1>12. CASE /\ ~Inactive(h) /\ s.waiting
            /\ host' = [host EXCEPT ![h].pend = n, ![h].closed = FALSE]
            /\ UNCHANGED <<ongoing, down>>
  <2> DEFINE s2 == [s EXCEPT !.pend = n, !.closed = FALSE]
  <2>1. host' = [host EXCEPT ![h] = s2]  BY <1>1, <1>12 DEF Types
  <2>2. /\ s2 \in HostRecs /\ s2.life = s.life /\ s2.live = s.live /\ s2.waiting = s.waiting
        /\ s2.pend = n /\ s2.requests = s.requests /\ s2.same = s.same
        /\ s2.dsn = s.dsn
    <3> HIDE DEF s, m, n
    <3> QED  BY <1>1, <1>3 DEF HostRecs
  <2> HIDE DEF m, n, s2
  <2>3. TakesIn(h, m, s2, {})  BY <1>1, <1>2, <1>6, <1>7, <1>12, <2>1, <2>2, TakesQuietly DEF m
  <2>4. ongoing = 0 /\ ongoing' = 0  BY <1>12, OthersDoNotWait
  <2>5. ASSUME NEW k \in Navs, k = n PROVE EarlyOnce(k)' /\ Early(k)
    <3>1. /\ Early(k) /\ ~(k >= next') /\ k # ongoing /\ nav'[k].from = h
          /\ \A g \in Hosts : /\ host[g].pend # k /\ k \notin host'[g].same
                              /\ ~Holds(up'[g], BeginOf(k))
                              /\ ~Then(up'[g], BeginOf(k), BeginOf(k))
                              /\ ~Then(up'[g], EndOf(k), BeginOf(k))
      BY <1>3, <2>2, <2>3, <2>5, BeginTaken DEF n
    <3>2. \A g \in Hosts : host'[g].pend = k => g = h  BY <2>3, <3>1 DEF TakesIn
    <3>3. k # ongoing'  BY <1>8, <2>4, <2>5
    <3> QED  BY <3>1, <3>2, <3>3 DEF EarlyOnce, IsBegun
  <2>6. \A k \in Navs : \/ (ongoing' = k => ongoing = k) /\ (s2.pend = k => s.pend = k)
                        \/ EarlyOnce(k)' /\ Early(k)
    BY <2>2, <2>4, <2>5
  <2>7. OngoingIsAwaited'  BY <2>4 DEF OngoingIsAwaited
  <2>8. \A g \in Hosts \ {h} : /\ host[g].waiting => ongoing' = 0
                               /\ host[g].life = "Active" /\ initial => initial'
    BY <1>2, <2>4
  <2>9. \A k \in Navs : s2.pend = k => m.type = "begin" /\ m.n = k  BY <1>3, <2>2 DEF n
  <2>10. \A j \in Navs :
          /\ IF m.type \in {"didCommit", "disconnected"} /\ m.n = j THEN j \notin s2.requests
             ELSE j \in s2.requests <=> j \in host[h].requests
          /\ j \in s2.same => ~(m.type = "processed" /\ m.n = j)
          /\ s2.pend = j => \/ host[h].pend = j /\ (host[h].closed => s2.closed)
                            \/ m.type = "begin" /\ m.n = j
          /\ m.type = "disconnected" /\ m.n = j /\ s2.pend = j => s2.closed
    BY <1>3, <2>2, <2>9
  <2>11. /\ s2.life = host[h].life /\ s2.live = host[h].live /\ s2.waiting = host[h].waiting
         /\ s2.waiting => ongoing' = 0
         /\ s2.pend # 0 => s2.waiting /\ (s2.live \/ s2.closed)
         /\ s2.requests \subseteq host[h].requests /\ s2.same \subseteq host[h].same
         /\ InSpec(host[h]) => m.type # "didCommit"
         /\ initial' = initial /\ s2.dsn = host[h].dsn
    BY <1>2, <1>3, <1>4, <1>12, <2>2, <2>4
  <2>12. \A j \in Navs \cap {} : ~Early(j)' /\ \A g \in Hosts : j \notin host'[g].requests  OBVIOUS
  <2> HIDE DEF s
  <2> QED  BY <2>3, <2>6, <2>7, <2>8, <2>10, <2>11, <2>12, PopKeeps DEF s
<1>13. CASE /\ ~Inactive(h) /\ ~s.waiting /\ ongoing' = n /\ down' = Dropped(down, ongoing)
            /\ UNCHANGED host
  <2>1. host' = [host EXCEPT ![h] = s]  BY <1>1, <1>13 DEF Types
  <2>2. ongoing' \in Nums  BY <1>3, <1>13
  <2>3. TakesIn(h, m, s, {ongoing})
    <3> HIDE DEF m, n
    <3> QED  BY <1>1, <1>2, <1>6, <1>7, <1>13, <2>1, <2>2, TakesDropping DEF m
  <2>4. s.pend = 0  BY <1>10, <1>13
  <2> HIDE DEF n
  <2>5. ASSUME NEW k \in Navs, k = n
        PROVE  /\ EarlyOnce(k)' /\ Early(k) /\ k # ongoing /\ nav'[k].from = h
               /\ Awaited(frame[h], up'[h], k)
    <3>1. /\ Early(k) /\ ~(k >= next') /\ k # ongoing /\ nav'[k].from = h
          /\ \A g \in Hosts : /\ host[g].pend # k /\ k \notin host'[g].same
                              /\ ~Holds(up'[g], BeginOf(k))
                              /\ ~Then(up'[g], BeginOf(k), BeginOf(k))
                              /\ ~Then(up'[g], EndOf(k), BeginOf(k))
      BY <1>3, <2>3, <2>5, BeginTaken DEF n
    <3>2. EarlyOnce(k)'  BY <1>13, <3>1 DEF EarlyOnce, IsBegun
    <3>3. Begun(s, frame[h], up[h], k)  BY <1>4, <1>13, <2>5 DEF Core, Clients
    <3>4. Awaited(frame[h], up'[h], k)
      <4> HIDE DEF s, m
      <4> QED  BY <1>3, <2>5, <3>3 DEF Begun, Awaited, UpPops, n
    <3> QED  BY <3>1, <3>2, <3>4
  <2>6. \A k \in Navs : \/ (ongoing' = k => ongoing = k) /\ (s.pend = k => s.pend = k)
                        \/ EarlyOnce(k)' /\ Early(k)
    BY <1>13, <2>5
  <2>7. \A k \in Navs \cap {ongoing} : ~Early(k)' /\ \A g \in Hosts : k \notin host'[g].requests
    <3>1. ASSUME NEW k \in Navs, k = ongoing
          PROVE  ~Early(k)' /\ \A g \in Hosts : k \notin host'[g].requests
      <4>1. ongoing' # k  BY <1>13, <2>5, <3>1
      <4> HIDE DEF m
      <4> QED  BY <2>3, <3>1, <4>1, OngoingReplaced
    <3> QED  BY <3>1
  <2>8. OngoingIsAwaited'
    <3>1. CASE n = 0  BY <1>13, <3>1 DEF OngoingIsAwaited
    <3>2. CASE n \in Navs
      BY <1>2, <1>4, <1>13, <2>5, <3>2 DEF OngoingIsAwaited, Awaited
    <3> QED  BY <1>9, <3>1, <3>2
  <2>9. \A g \in Hosts \ {h} : /\ host[g].waiting => ongoing' = 0
                               /\ host[g].life = "Active" /\ initial => initial'
    BY <1>2, <1>4, <1>13, OthersDoNotWait
  <2> HIDE DEF m
  <2>10. \A j \in Navs :
          /\ IF m.type \in {"didCommit", "disconnected"} /\ m.n = j THEN j \notin s.requests
             ELSE j \in s.requests <=> j \in host[h].requests
          /\ j \in s.same => ~(m.type = "processed" /\ m.n = j)
          /\ s.pend = j => \/ host[h].pend = j /\ (host[h].closed => s.closed)
                           \/ m.type = "begin" /\ m.n = j
          /\ m.type = "disconnected" /\ m.n = j /\ s.pend = j => s.closed
    <3>1. m.type = "begin" /\ host[h] = s  BY <1>3
    <3> HIDE DEF s, m
    <3> QED  BY ONLY <3>1
  <2>11. /\ s.life = host[h].life /\ s.live = host[h].live /\ s.waiting = host[h].waiting
         /\ s.waiting => ongoing' = 0
         /\ s.pend # 0 => s.waiting /\ (s.live \/ s.closed)
         /\ s.requests \subseteq host[h].requests /\ s.same \subseteq host[h].same
         /\ InSpec(host[h]) => m.type # "didCommit"
         /\ initial' = initial
    BY <1>2, <1>3, <1>4, <1>13, <2>4
  <2> HIDE DEF s
  <2> QED  BY <2>3, <2>6, <2>7, <2>8, <2>9, <2>10, <2>11, PopKeeps DEF s
<1>14. CASE /\ ~Inactive(h) /\ ~s.waiting /\ down' = Dropped(down, n)
            /\ UNCHANGED <<ongoing, host>>
  <2>1. host' = [host EXCEPT ![h] = s]  BY <1>1, <1>14 DEF Types
  <2>2. ongoing' \in Nums /\ ongoing' = ongoing  BY <1>7, <1>14
  <2>3. TakesIn(h, m, s, {n})
    <3> HIDE DEF m, n
    <3> QED  BY <1>1, <1>2, <1>3, <1>6, <1>7, <1>14, <2>1, <2>2, TakesDropping DEF m
  <2>4. s.pend = 0  BY <1>10, <1>14
  <2> HIDE DEF n
  <2>5. ASSUME NEW k \in Navs, k = n
        PROVE  ~Early(k)' /\ \A g \in Hosts : k \notin host'[g].requests
    <3>1. /\ ~(k >= next') /\ k # ongoing
          /\ \A g \in Hosts : /\ host[g].pend # k /\ k \notin host'[g].same
                              /\ ~Holds(up'[g], BeginOf(k)) /\ k \notin host[g].requests
      BY <1>3, <2>3, <2>5, BeginTaken DEF n
    <3> QED  BY <1>14, <3>1 DEF Early, IsBegun
  <2>6. \A k \in Navs \cap {n} : ~Early(k)' /\ \A g \in Hosts : k \notin host'[g].requests
    BY <2>5
  <2> HIDE DEF m
  <2>7. OngoingIsAwaited'  BY <1>3, <2>2, <2>3, PoppedOngoing
  <2>8. \A g \in Hosts \ {h} : /\ host[g].waiting => ongoing' = 0
                               /\ host[g].life = "Active" /\ initial => initial'
    <3>1. \A g \in Hosts \ {h} : ~host[g].waiting  BY <1>4, <1>14, OthersDoNotWait
    <3> QED  BY <1>2, <3>1
  <2>9. \A j \in Navs : \/ (ongoing' = j => ongoing = j) /\ (s.pend = j => s.pend = j)
                        \/ EarlyOnce(j)' /\ Early(j)
    BY <2>2
  <2>10. \A j \in Navs :
          /\ IF m.type \in {"didCommit", "disconnected"} /\ m.n = j THEN j \notin s.requests
             ELSE j \in s.requests <=> j \in host[h].requests
          /\ j \in s.same => ~(m.type = "processed" /\ m.n = j)
          /\ s.pend = j => \/ host[h].pend = j /\ (host[h].closed => s.closed)
                           \/ m.type = "begin" /\ m.n = j
          /\ m.type = "disconnected" /\ m.n = j /\ s.pend = j => s.closed
    <3>1. m.type = "begin" /\ host[h] = s  BY <1>3
    <3> HIDE DEF s, m
    <3> QED  BY ONLY <3>1
  <2>11. /\ s.life = host[h].life /\ s.live = host[h].live /\ s.waiting = host[h].waiting
         /\ s.waiting => ongoing' = 0
         /\ s.pend # 0 => s.waiting /\ (s.live \/ s.closed)
         /\ s.requests \subseteq host[h].requests /\ s.same \subseteq host[h].same
         /\ InSpec(host[h]) => m.type # "didCommit"
         /\ initial' = initial
    BY <1>2, <1>3, <1>4, <1>14, <2>4
  <2> HIDE DEF s
  <2> QED  BY <2>3, <2>6, <2>7, <2>8, <2>9, <2>10, <2>11, PopKeeps DEF s
<1> QED  BY <1>11, <1>12, <1>13, <1>14 DEF BeginNavigation

\* What the host h is when it takes the report of a commit.
LEMMA DidCommitSituation ==
  ASSUME Core, NEW h \in Hosts, Next1(up, h, "didCommit"), up' = Popped(up, h)
  PROVE  LET s == host[h]
             f == frame[h]
             m == Head(up[h])
             n == m.n
         IN
         /\ m.type = "didCommit" /\ n \in Nums /\ UpPops(up[h], m, up'[h])
         /\ ~Inactive(h) => s.live /\ n \in s.requests \cup {0} /\ (s.life = "Active" \/ InSpec(s))
         /\ Inactive(h) => s.requests = {}
         /\ n = 0 \/ m.arg = "same global" => h = First /\ ~InSpec(s) /\ (s.life = "Active" => initial)
         /\ n # 0 => /\ n \in Navs /\ ~(f.life = "attached" /\ f.initial)
                     /\ ~Holds(up'[h], InitialCommits)
<1> DEFINE s == host[h]
           f == frame[h]
           m == Head(up[h])
           n == m.n
           u == up[h]
           u2 == up'[h]
<1>1. /\ Types /\ s \in HostRecs /\ Lives(h, s, f, down[h], u)
      /\ \A k \in Navs : s.live => Tokens(s, f, down[h], u, swallowed, k)
  BY Situation
<1>2. m.type = "didCommit" /\ n \in Nums /\ UpPops(u, m, u2)  BY <1>1, Taken
<1>3. n = 0 \/ n \in Navs  BY <1>2, NavigationAssumption DEF Nums, Navs
<1> HIDE DEF s, f, n, u, u2
<1>4. s.life # "none" /\ (s.life = "Active" => s.live) /\ (InSpec(s) => s.live)
  BY <1>1, <1>2 DEF Lives, HostLives, UpPops
<1>5. s.life \in HostStates  BY <1>1 DEF HostRecs
<1>6. ~Inactive(h) => s.live /\ (s.life = "Active" \/ InSpec(s))
  BY <1>4, <1>5 DEF Inactive, InSpec, HostStates, s
<1>7. ~Inactive(h) => n \in s.requests \cup {0}
  <2> SUFFICES ASSUME ~Inactive(h), n \in Navs PROVE n \in s.requests
    BY <1>3
  <2>1. Tokens(s, f, down[h], u, swallowed, n)  BY <1>1, <1>6
  <2>2. Holds(u, CommitOf(n))  BY <1>2 DEF UpPops, n
  <2> QED  BY <2>1, <2>2 DEF Tokens
<1>8. Inactive(h) => s.requests = {}
  <2>1. Inactive(h) => s.life \in {"PendingDeletion", "deleted"}  BY DEF Inactive, s
  <2> QED  BY <1>1, <2>1 DEF Lives, HostLives
<1>9. n = 0 \/ m.arg = "same global" => h = First /\ ~InSpec(s) /\ (s.life = "Active" => initial)
  <2>1. n = 0 \/ m.arg = "same global" => Holds(u, InitialCommits)
    BY <1>2 DEF UpPops, n
  <2> QED  BY <1>1, <2>1 DEF Lives, HostLives, InitialLives, InSpec
<1>10. n # 0 => n \in Navs /\ ~(f.life = "attached" /\ f.initial) /\ ~Holds(u2, InitialCommits)
  <2>1. n # 0 => n \in Navs  BY <1>3
  <2>2. n \in Navs => /\ Holds(u, RealCommits)
                      /\ Holds(u2, InitialCommits) => /\ Holds(u, InitialCommits)
                                                      /\ Then(u, RealCommits, InitialCommits)
    BY <1>2 DEF UpPops, n
  <2> QED  BY <1>1, <2>1, <2>2 DEF Lives, InitialLives
<1> QED  BY <1>2, <1>6, <1>7, <1>8, <1>9, <1>10 DEF s, f, n, u, u2

\* The host that is shown swaps: h, whose frame reports with m that it committed n, replaces
\* the host o; they become s2 and t2.
Swaps(h, o, m, n, s2, t2) ==
    /\ h # o /\ o = current /\ InSpec(host[h]) /\ h # First
    /\ m.n = n /\ m.type = "didCommit" /\ UpPops(up[h], m, up'[h]) /\ n \in host[h].requests
    /\ up' \in [Hosts -> Seq(Messages)] /\ \A g \in Hosts \ {h} : up'[g] = up[g]
    /\ s2 \in HostRecs /\ t2 \in HostRecs /\ host' \in [Hosts -> HostRecs]
    /\ host'[h] = s2 /\ host'[o] = t2 /\ \A g \in Hosts \ {h, o} : host'[g] = host[g]
    /\ s2.life = "Active" /\ s2.live = host[h].live /\ s2.waiting = host[h].waiting
    /\ s2.pend = host[h].pend /\ s2.closed = host[h].closed
    /\ s2.requests = host[h].requests \ {n} /\ s2.same = host[h].same
    /\ t2.life \in {"PendingDeletion", "deleted"} /\ ~t2.live /\ ~t2.waiting /\ t2.pend = 0
    /\ t2.requests = {} /\ t2.same = {}
    /\ ongoing' = 0 /\ initial' = FALSE /\ current' = h
    /\ down' = Send(Dropped(DroppedAll(down, host[o].requests), ongoing), o,
                    OneIf(host[o].live, Msg("unload", 0)))
    /\ UNCHANGED <<nav, next, frame, crashes, swallowed, bad>>

\* The host h takes the place of the current host o, which is unloaded, or deleted when it is dead.
LEMMA SwapKeeps ==
  ASSUME Core, NEW h \in Hosts, NEW o \in Hosts, NEW m, NEW n \in Navs, NEW s2, NEW t2,
         Swaps(h, o, m, n, s2, t2)
  PROVE  Core'
<1>0. /\ h # o /\ o = current /\ InSpec(host[h]) /\ h # First
      /\ m.n = n /\ m.type = "didCommit" /\ UpPops(up[h], m, up'[h]) /\ n \in host[h].requests
      /\ up' \in [Hosts -> Seq(Messages)] /\ \A g \in Hosts \ {h} : up'[g] = up[g]
      /\ s2 \in HostRecs /\ t2 \in HostRecs /\ host' \in [Hosts -> HostRecs]
      /\ host'[h] = s2 /\ host'[o] = t2 /\ \A g \in Hosts \ {h, o} : host'[g] = host[g]
      /\ s2.life = "Active" /\ s2.live = host[h].live /\ s2.waiting = host[h].waiting
      /\ s2.pend = host[h].pend /\ s2.closed = host[h].closed
      /\ s2.requests = host[h].requests \ {n} /\ s2.same = host[h].same
      /\ t2.life \in {"PendingDeletion", "deleted"} /\ ~t2.live /\ ~t2.waiting /\ t2.pend = 0
      /\ t2.requests = {} /\ t2.same = {}
      /\ ongoing' = 0 /\ initial' = FALSE /\ current' = h
      /\ down' = Send(Dropped(DroppedAll(down, host[o].requests), ongoing), o,
                      OneIf(host[o].live, Msg("unload", 0)))
      /\ UNCHANGED <<nav, next, frame, crashes, swallowed, bad>>
  BY DEF Swaps
<1> USE <1>0
<1> DEFINE s == host[h]
           f == frame[h]
           b == host[o].live
           w == Msg("unload", 0)
           rs == host[o].requests
           ns == rs \cup {ongoing}
           c1 == DroppedAll(down, rs)
           c2 == Dropped(c1, ongoing)
<1>1. /\ Types /\ s \in HostRecs /\ Lives(h, s, f, down[h], up[h])
      /\ host[o] \in HostRecs /\ Lives(o, host[o], frame[o], down[o], up[o])
  BY Situation
<1>2. b \in BOOLEAN /\ rs \in SUBSET Navs /\ ongoing \in Nums /\ 0 \in Nums
  <2>1. 0 \in Nums  BY NavigationAssumption DEF Nums
  <2> QED  BY <1>1, <2>1 DEF HostRecs, Types
<1>3. w \in Messages /\ w.type = "unload" /\ w.n = 0
  <2>1. "unload" \in DownTypes \cup UpTypes  BY DEF DownTypes
  <2>2. 0 \in Nums  BY <1>2
  <2> QED  BY ONLY <2>1, <2>2, Plain
<1> HIDE DEF b, w, rs
<1>4. /\ c1 \in [Hosts -> Seq(Messages)]
      /\ \A g \in Hosts : /\ Drops(c1[g], down[g], rs)
                          /\ frame[g].life # "attached" => c1[g] = down[g]
  <2>1. down \in [Hosts -> Seq(Messages)]  BY <1>1 DEF Types
  <2> QED  BY <1>1, <1>2, <2>1, DroppedSome
<1> HIDE DEF c1
<1>5. /\ c2 \in [Hosts -> Seq(Messages)]
      /\ \A g \in Hosts : /\ Drops(c2[g], c1[g], {ongoing})
                          /\ frame[g].life # "attached" => c2[g] = c1[g]
  BY <1>1, <1>2, <1>4, DroppedOne
<1> HIDE DEF c2
<1>6. \A g \in Hosts : /\ Drops(c2[g], down[g], ns)
                       /\ frame[g].life # "attached" => c2[g] = down[g]
  BY <1>4, <1>5, DropsMore
<1>7. /\ down' \in [Hosts -> Seq(Messages)] /\ DownAdds(down'[o], c2[o], b, w)
      /\ \A g \in Hosts \ {o} : down'[g] = c2[g]
  <2>1. down' = Send(c2, o, OneIf(b, w))  BY DEF c2, c1, b, w, rs
  <2>2. /\ Send(c2, o, OneIf(b, w)) \in [Hosts -> Seq(Messages)]
        /\ DownAdds(Send(c2, o, OneIf(b, w))[o], c2[o], b, w)
        /\ \A g \in Hosts \ {o} : Send(c2, o, OneIf(b, w))[g] = c2[g]
    <3>1. o \in Hosts  OBVIOUS
    <3> QED  BY ONLY <1>2, <1>3, <1>5, <3>1, SentDown
  <2> QED  BY <2>1, <2>2
<1>8. Types'
  BY <1>1, <1>2, <1>7 DEF Types
<1>9. /\ s.live /\ ~s.waiting /\ s.pend = 0 /\ s.same = {} /\ s.life # "Active" /\ f.life = "attached"
      /\ s.life # "deleted" /\ s.life # "PendingDeletion"
  <2>1. Holds(up[h], Shown)  BY DEF UpPops
  <2> HIDE DEF s, f
  <2>2. InSpec(s)  BY DEF s
  <2>3. s.life # "Active" /\ s.life # "deleted" /\ s.life # "PendingDeletion"  BY <2>2 DEF InSpec
  <2> QED  BY <1>1, <2>1, <2>2, <2>3 DEF Lives, HostLives, ChannelsLive
<1>10. host[o].life = "Active"  BY <1>1 DEF Lives, HostLives
<1>11. ASSUME NEW k \in Navs PROVE Stays(k)
  <2>1. \A g \in Hosts : host'[g].pend = k => host[g].pend = k
    BY NavsArePositive
  <2>2. \A g \in Hosts : k \in host'[g].same => k \in host[g].same  OBVIOUS
  <2>3. ongoing' # k  BY NavsArePositive
  <2>4. \A g \in Hosts :
          /\ Holds(up'[g], BeginOf(k)) => Holds(up[g], BeginOf(k))
          /\ Then(up'[g], BeginOf(k), BeginOf(k)) => Then(up[g], BeginOf(k), BeginOf(k))
          /\ Then(up'[g], EndOf(k), BeginOf(k)) => Then(up[g], EndOf(k), BeginOf(k))
    BY DEF UpPops
  <2> QED  BY <2>1, <2>2, <2>3, <2>4 DEF Stays
<1>12. \A k \in Navs : EarlyOnce(k)' /\ (Early(k)' => Early(k))  BY <1>11, StaysKeep
<1>13. \A g \in Hosts : host'[g].requests \subseteq host[g].requests /\ (g = o => host'[g].requests = {})
  OBVIOUS
<1>14. ASSUME NEW k \in Navs, k \in ns
       PROVE  ~Early(k)' /\ \A g \in Hosts : k \notin host'[g].requests
  <2>1. CASE k = ongoing
    <3>1. ongoing' # k  BY NavsArePositive
    <3> QED  BY <1>11, <1>13, <2>1, <3>1, OngoingLeaves
  <2>2. CASE k \in rs
    <3>1. ~Early(k)  BY <2>2 DEF Core, EarlyIsUnsent, rs
    <3>2. \A g \in Hosts \ {o} : k \notin host[g].requests  BY <2>2 DEF Core, Apart, rs
    <3> QED  BY <1>12, <1>13, <3>1, <3>2
  <2> QED  BY <1>14, <2>1, <2>2
<1>15. TakesPart(h, h, 0, ns)
  <2>1. ~InSpec(host'[h])  BY DEF InSpec
  <2>2. Drops(down'[h], down[h], ns)  BY <1>6, <1>7
  <2> HIDE DEF ns
  <2> QED  BY <1>13, <2>1, <2>2 DEF TakesPart, Drops, UpPops
<1>16. TakesPart(o, h, 0, ns)
  <2>1. ~InSpec(host'[o])  BY DEF InSpec
  <2>2. Drops(c2[o], down[o], ns)  BY <1>6
  <2> HIDE DEF ns
  <2> QED  BY <1>3, <1>7, <1>13, <2>1, <2>2 DEF TakesPart, Drops, DownAdds
<1>17. ASSUME NEW g \in Hosts \ {h, o}
       PROVE  /\ Untouched(g, ns) /\ (g = current' <=> g = current)
              /\ host[g].waiting => ongoing' = 0
              /\ host[g].life = "Active" /\ initial => initial'
  <2>1. Untouched(g, ns)
    <3>1. down'[g] = c2[g] /\ Drops(c2[g], down[g], ns) /\ (frame[g].life # "attached" => c2[g] = down[g])
      BY ONLY <1>6, <1>7, g \in Hosts \ {h, o}
    <3>2. host'[g] = host[g] /\ frame'[g] = frame[g] /\ up'[g] = up[g]  OBVIOUS
    <3> HIDE DEF ns
    <3> QED  BY ONLY <3>1, <3>2 DEF Untouched
  <2>2. host[g].life # "Active"  BY OthersDoNotWait
  <2> QED  BY <2>1, <2>2
<1>18. BrowserSteps({h, o}, h, 0, ns)
  <2>1. ~InSpec(host'[h]) /\ ~InSpec(host'[o])  BY DEF InSpec
  <2>2. \A k \in Navs : Early(k)' => Early(k) /\ k \notin ns /\ k # 0
    BY <1>12, <1>14, NavsArePositive
  <2>3. \A k \in Navs \cap ns : \A g \in Hosts : k \notin host'[g].requests  BY <1>14
  <2> HIDE DEF ns
  <2> QED  BY <1>15, <1>16, <1>17, <2>1, <2>2, <2>3 DEF BrowserSteps
<1>19. Lives(h, host[h], frame[h], down[h], up[h])'
  <2> DEFINE d == down[h]
             d2 == down'[h]
             u2 == up'[h]
  <2>1. /\ host'[h] = s2 /\ frame'[h] = f /\ down'[h] = d2 /\ up'[h] = u2 /\ current' = h
        /\ ongoing' = 0 /\ Drops(d2, d, ns) /\ UpPops(up[h], m, u2) /\ h # First
        /\ s2.life = "Active" /\ s2.live = s.live /\ s2.waiting = s.waiting /\ s2.pend = s.pend
        /\ s2.same = s.same /\ Lives(h, s, f, d, up[h])
    BY <1>1, <1>6, <1>7
  <2> HIDE DEF s, f, d, d2, u2, ns
  <2>2. HostLives(h, host[h], frame[h], down[h], up[h])'
    BY <1>9, <2>1 DEF Lives, HostLives, InSpec, Drops
  <2>3. ChannelsLive(host[h], frame[h], down[h], up[h])'
    BY <1>9, <2>1 DEF Lives, ChannelsLive, InSpec, Drops, UpPops
  <2>4. InitialLives(h, host[h], frame[h], up[h])'
    BY <2>1 DEF Lives, InitialLives, UpPops
  <2> QED  BY <2>2, <2>3, <2>4 DEF Lives
<1>20. Lives(o, host[o], frame[o], down[o], up[o])'
  <2> DEFINE d == down[o]
             d2 == down'[o]
             u == up[o]
             q == c2[o]
             e == frame[o]
             t == host[o]
  <2>1. /\ host'[o] = t2 /\ frame'[o] = e /\ down'[o] = d2 /\ up'[o] = u /\ o # current'
        /\ Drops(q, d, ns) /\ DownAdds(d2, q, b, w) /\ Lives(o, t, e, d, u) /\ t.life = "Active"
    BY <1>1, <1>6, <1>7, <1>10
  <2> HIDE DEF d, d2, u, q, e, t, ns
  <2>2. HostLives(o, host[o], frame[o], down[o], up[o])'
    BY <2>1, NavsArePositive DEF HostLives, InSpec
  <2>3. ~Holds(d, Deletes) /\ ~Holds(d, Blanks)
        /\ (Holds(d, Sames) => e.life = "attached" /\ ~e.initial /\ ~Then(d, Ends, Sames))
    BY <2>1 DEF Lives, ChannelsLive
  <2>4. ~Holds(d2, Deletes) /\ ~Holds(d2, Blanks)
        /\ (Holds(d2, Sames) => e.life = "attached" /\ ~e.initial /\ ~Then(d2, Ends, Sames))
    BY <1>3, <2>1, <2>3 DEF Drops, DownAdds
  <2>5. ChannelsLive(host[o], frame[o], down[o], up[o])'
    BY <2>1, <2>4 DEF ChannelsLive, InSpec
  <2>6. InitialLives(o, host[o], frame[o], up[o])'
    BY <2>1 DEF Lives, InitialLives
  <2> QED  BY <2>2, <2>5, <2>6 DEF Lives
<1>21. ASSUME NEW k \in Navs
       PROVE  /\ Tokens(s2, f, down'[h], up'[h], swallowed, k) /\ Begun(s2, f, up'[h], k)
  <2>1. Tokens(s, f, down[h], up[h], swallowed, k) /\ Begun(s, f, up[h], k)
    BY <1>9 DEF Core, Clients
  <2>2. Drops(down'[h], down[h], ns)  BY <1>6, <1>7
  <2>3. ~Then(up[h], EndOf(k), BeginOf(k))  BY DEF Core, EarlyOnce
  <2> HIDE DEF ns
  <2>4. IF m.type \in {"didCommit", "disconnected"} /\ m.n = k THEN k \notin s2.requests
        ELSE k \in s2.requests <=> k \in s.requests
    OBVIOUS
  <2>5. k \in s2.same => k \in s.same /\ ~(m.type = "processed" /\ m.n = k)
    OBVIOUS
  <2>6. Tokens(s2, f, down'[h], up'[h], swallowed, k)  BY <2>1, <2>2, <2>4, <2>5, PoppedTokens
  <2>7. Begun(s2, f, up'[h], k)  BY <2>1, <2>3, PoppedBegun
  <2> QED  BY <2>6, <2>7
<1>22. \A g \in {h, o} : \A k \in Navs : host'[g].live =>
         /\ Tokens(host[g], frame[g], down[g], up[g], swallowed, k)'
         /\ Begun(host[g], frame[g], up[g], k)'
  <2>1. ASSUME NEW k \in Navs, host'[h].live
        PROVE  /\ Tokens(host[h], frame[h], down[h], up[h], swallowed, k)'
               /\ Begun(host[h], frame[h], up[h], k)'
    BY <1>21 DEF Tokens, Begun, Awaited
  <2> QED  BY <2>1
<1>23. OngoingIsAwaited'  BY DEF OngoingIsAwaited
<1>24. {h, o} \in SUBSET Hosts  OBVIOUS
<1>25. \A g \in {h, o} : Lives(g, host[g], frame[g], down[g], up[g])'  BY <1>19, <1>20
<1> HIDE DEF ns
<1> QED  BY <1>8, <1>12, <1>18, <1>22, <1>23, <1>24, <1>25, BrowserStepsKeep

\* DidCommitNavigation: the browser is told of a commit, in the current host or in the one that is
\* to replace it.
LEMMA DidCommitNavigationKeeps ==
  ASSUME Core, NEW h \in Hosts, DidCommitNavigation(h)
  PROVE  Core'
<1> DEFINE s == host[h]
           f == frame[h]
           m == Head(up[h])
           n == m.n
           l == "Active"
           s2 == [s EXCEPT !.requests = @ \ {n}, !.loading = TRUE, !.life = l, !.dsn = n, !.pos = n]
           committed == [host EXCEPT ![h].requests = @ \ {n}, ![h].loading = TRUE,
                                     ![h].life = "Active", ![h].dsn = n, ![h].pos = n]
           refused == Inactive(h) \/ n \notin s.requests \cup {0}
<1>1. Types /\ s \in HostRecs  BY Situation
<1>2. /\ Next1(up, h, "didCommit") /\ up' = Popped(up, h)
      /\ UNCHANGED <<nav, next, frame, crashes, swallowed>>
      /\ refused => UNCHANGED <<ongoing, current, initial, host, down, bad>>
      /\ ~refused =>
           /\ bad' = bad \cup (IF m.arg = "same global" /\ ~initial
                               THEN {"interface provider missing"} ELSE {})
                         \cup (IF n = 0 /\ ~initial THEN {"no request"} ELSE {})
           /\ initial' = (initial /\ n = 0)
           /\ h = current => host' = committed /\ UNCHANGED <<ongoing, current, down>>
           /\ h # current => SwapTo(h, committed)
  BY DEF DidCommitNavigation
<1>3. /\ m.type = "didCommit" /\ n \in Nums /\ UpPops(up[h], m, up'[h])
      /\ ~Inactive(h) => s.live /\ n \in s.requests \cup {0} /\ (s.life = "Active" \/ InSpec(s))
      /\ Inactive(h) => s.requests = {}
      /\ n = 0 \/ m.arg = "same global" => h = First /\ ~InSpec(s) /\ (s.life = "Active" => initial)
      /\ n # 0 => /\ n \in Navs /\ ~(f.life = "attached" /\ f.initial)
                  /\ ~Holds(up'[h], InitialCommits)
  BY <1>2, DidCommitSituation
<1>4. refused => Inactive(h) /\ s.requests = {} /\ ~InSpec(s)
  BY <1>3 DEF Inactive, InSpec
<1>5. /\ up' \in [Hosts -> Seq(Messages)]
      /\ \A g \in Hosts \ {h} : up'[g] = up[g]
  BY <1>1, <1>2, Taken
<1>6. CASE refused
  <2>1. UNCHANGED <<ongoing, current, initial, host, down, bad>>  BY <1>2, <1>6
  <2>2. host' = [host EXCEPT ![h] = s] /\ ongoing' \in Nums /\ initial' \in BOOLEAN
        /\ bad' \subseteq BrokenChecks
    BY <1>1, <2>1 DEF Types
  <2>3. s.requests = {} /\ ~InSpec(s)  BY <1>4, <1>6
  <2> HIDE DEF m, n, refused
  <2>4. TakesIn(h, m, s, {})  BY <1>1, <1>2, <2>1, <2>2, TakesQuietly DEF m
  <2> HIDE DEF s
  <2> QED  BY <1>3, <2>1, <2>3, <2>4, QuietPopKeeps DEF s
<1>7. CASE ~refused
  <2>1. /\ ~Inactive(h) /\ s.live /\ n \in s.requests \cup {0}
        /\ s.life = "Active" \/ InSpec(s)
    BY <1>3, <1>7
  <2>2. /\ h = current <=> s.life = "Active"
        /\ ~(s.life = "Active" /\ InSpec(s))
        /\ InSpec(s) => h # First
        /\ s.pend # 0 => s.waiting /\ (s.live \/ s.closed)
        /\ s.waiting => ongoing = 0
    <3>1. Lives(h, s, f, down[h], up[h])  BY Situation
    <3> HIDE DEF s, f
    <3> QED  BY <3>1 DEF Lives, HostLives, InSpec
  <2>3. bad' = bad
    <3>1. n = 0 \/ m.arg = "same global" => initial  BY <1>3, <2>1, <2>2
    <3> QED  BY <1>2, <1>7, <3>1
  <2>4. /\ l = "Active" /\ l \in HostStates
    BY DEF HostStates
  <2>5. committed = [host EXCEPT ![h] = s2]  BY <1>1 DEF Types
  <2> HIDE DEF l
  <2>6. /\ s2 \in HostRecs /\ s2.life = l /\ s2.live = s.live /\ s2.waiting = s.waiting
        /\ s2.pend = s.pend /\ s2.closed = s.closed
        /\ s2.requests = s.requests \ {n} /\ s2.same = s.same /\ s2.dsn = n
    <3> HIDE DEF s, m, n
    <3> QED  BY <1>1, <1>3, <2>4 DEF HostRecs
  <2>7. initial' = (initial /\ n = 0) /\ initial \in BOOLEAN /\ initial' \in BOOLEAN
        /\ bad' \subseteq BrokenChecks
    BY <1>1, <1>2, <1>7, <2>3 DEF Types
  <2>8. CASE h = current
    <3>1. host' = [host EXCEPT ![h] = s2] /\ UNCHANGED <<ongoing, current, down>>
      BY <1>2, <1>7, <2>5, <2>8
    <3>2. ongoing' \in Nums  BY <1>1, <3>1 DEF Types
    <3> HIDE DEF m, n, refused, committed, s2, s
    <3>3. TakesIn(h, m, s2, {})  BY <1>1, <1>2, <2>6, <2>7, <3>1, <3>2, TakesQuietly DEF m
    <3>4. OngoingIsAwaited'  BY <1>3, <2>6, <3>1, <3>3, PoppedOngoing DEF s
    <3>5. \A g \in Hosts \ {h} : /\ host[g].waiting => ongoing' = 0
                                 /\ host[g].life = "Active" /\ initial => initial'
      BY <2>8, OthersDoNotWait
    <3>6. \/ initial' = initial
          \/ s2.life = "Active" /\ (\/ frame[h].life = "attached" /\ frame[h].initial
                                    \/ Holds(up'[h], InitialCommits)) => initial'
      <4>1. CASE n = 0  BY <2>7, <4>1
      <4>2. CASE n # 0  BY <1>3, <4>2 DEF f
      <4> QED  BY <4>1, <4>2
    <3>7. \A j \in Navs :
            /\ IF m.type \in {"didCommit", "disconnected"} /\ m.n = j THEN j \notin s2.requests
               ELSE j \in s2.requests <=> j \in host[h].requests
            /\ j \in s2.same => ~(m.type = "processed" /\ m.n = j)
            /\ s2.pend = j => \/ host[h].pend = j /\ (host[h].closed => s2.closed)
                              \/ m.type = "begin" /\ m.n = j
            /\ m.type = "disconnected" /\ m.n = j /\ s2.pend = j => s2.closed
      <4>1. /\ m.type = "didCommit" /\ host[h] = s /\ s2.pend = s.pend /\ s2.closed = s.closed
            /\ s2.requests = s.requests \ {m.n}
        BY <1>3, <2>6 DEF s, n
      <4> QED  BY ONLY <4>1
    <3>8. /\ s2.life = host[h].life /\ s2.live = host[h].live /\ s2.waiting = host[h].waiting
          /\ s2.waiting => ongoing' = 0
          /\ s2.pend # 0 => s2.waiting /\ (s2.live \/ s2.closed)
          /\ s2.requests \subseteq host[h].requests /\ s2.same \subseteq host[h].same
          /\ InSpec(host[h]) => m.type # "didCommit"
          /\ s2.dsn # 0 => s2.dsn = host[h].dsn \/ (m.type = "didCommit" /\ m.n \in Navs)
      BY <1>3, <2>1, <2>2, <2>4, <2>6, <2>8, <3>1 DEF s, n
    <3>9. \A j \in Navs : \/ (ongoing' = j => ongoing = j) /\ (s2.pend = j => host[h].pend = j)
                          \/ EarlyOnce(j)' /\ Early(j)
      BY <2>6, <3>1 DEF s
    <3>10. \A j \in Navs \cap {} : ~Early(j)' /\ \A g \in Hosts : j \notin host'[g].requests  OBVIOUS
    <3> QED  BY <3>3, <3>4, <3>5, <3>6, <3>7, <3>8, <3>9, <3>10, PopKeeps
  <2>9. CASE h # current
    <3>0. PICK o \in Hosts : o = current  BY <1>1 DEF Types
    <3> DEFINE l2 == IF host[o].live THEN "PendingDeletion" ELSE "deleted"
               t2 == [NoHost EXCEPT !.life = l2]
    <3>1. /\ host' = [committed EXCEPT ![o] = t2] /\ ongoing' = 0 /\ current' = h
          /\ down' = Send(Dropped(DroppedAll(down, host[o].requests), ongoing), o,
                          OneIf(host[o].live, Msg("unload", 0)))
      BY <1>2, <1>7, <2>9, <3>0 DEF SwapTo, SwappedHosts
    <3>2. l2 \in {"PendingDeletion", "deleted"} /\ l2 \in HostStates  BY DEF HostStates
    <3> HIDE DEF l2, m, n, refused, committed, s2, s, f
    <3>3. /\ t2 \in HostRecs /\ t2.life = l2 /\ ~t2.live /\ ~t2.waiting /\ t2.pend = 0
          /\ t2.requests = {} /\ t2.same = {}
      BY <3>2, DeadHost
    <3> HIDE DEF t2
    <3>4. /\ host' \in [Hosts -> HostRecs] /\ host'[h] = s2 /\ host'[o] = t2
          /\ \A g \in Hosts \ {h, o} : host'[g] = host[g]
      BY <1>1, <2>5, <2>6, <2>9, <3>0, <3>1, <3>3 DEF Types
    <3>5. /\ InSpec(host[h]) /\ h # First /\ n \in Navs /\ n \in host[h].requests
      <4>1. InSpec(s) /\ h # First  BY <2>1, <2>2, <2>9
      <4> QED  BY <1>3, <2>1, <4>1 DEF s
    <3>6. initial' = FALSE  BY <2>7, <3>5, NavsArePositive
    <3>7. /\ UNCHANGED <<nav, next, frame, crashes, swallowed, bad>> /\ h # o
      BY <1>2, <2>3, <2>9, <3>0
    <3>8. /\ s2 \in HostRecs /\ s2.life = "Active" /\ s2.live = host[h].live
          /\ s2.waiting = host[h].waiting
          /\ s2.pend = host[h].pend /\ s2.closed = host[h].closed
          /\ s2.requests = host[h].requests \ {n} /\ s2.same = host[h].same
      BY <2>4, <2>6 DEF s
    <3>9. m.n = n /\ m.type = "didCommit" /\ UpPops(up[h], m, up'[h])  BY <1>3 DEF n
    <3>10. t2.life \in {"PendingDeletion", "deleted"}  BY <3>2, <3>3
    <3>11. Swaps(h, o, m, n, s2, t2)
      BY ONLY <1>5, <3>0, <3>1, <3>3, <3>4, <3>5, <3>6, <3>7, <3>8, <3>9, <3>10 DEF Swaps
    <3> QED  BY <3>5, <3>11, SwapKeeps
  <2> QED  BY <2>8, <2>9
<1> QED  BY <1>6, <1>7

\* CommitIn: the browser asks a frame to commit a navigation, and its host keeps the request.
LEMMA CommitInKeeps ==
  ASSUME Core, NEW h \in Hosts, NEW kind \in Args, CommitIn(h, kind)
  PROVE  Core'
<1>0. PICK n \in Navs : n = ongoing
  <2>1. ongoing \in Nums /\ ongoing # 0  BY DEF Core, Types, CommitIn
  <2> QED  BY <2>1, NavigationAssumption DEF Nums, Navs
<1> DEFINE s == host[h]
           f == frame[h]
           d == down[h]
           d2 == down'[h]
           u == up[h]
           t == TRUE
           l2 == IF s.life = "Speculative" THEN "PendingCommit" ELSE s.life
           s2 == [s EXCEPT !.requests = @ \cup {n}, !.loading = TRUE, !.life = l2]
           b == nav[n].from # h
           mb == Msg("bind", n)
           mc == [Msg("commit", n) EXCEPT !.arg = kind]
           d1 == d \o OneIf(b, mb)
<1>1. /\ Types /\ Lives(h, s, f, d, u) /\ s \in HostRecs /\ f \in FrameRecs
      /\ d \in Seq(Messages) /\ u \in Seq(Messages)
      /\ \A k \in Navs : k # 0 /\ k \in Nums /\ (s.live => Tokens(s, f, d, u, swallowed, k))
  BY Situation
<1>2. /\ s.live /\ (h = current \/ h \in Speculative) /\ ongoing' = 0
      /\ host' = [host EXCEPT ![h] = s2]
      /\ down' = Send(down, h, OneIf(b, mb) \o <<mc>>)
      /\ UNCHANGED <<nav, next, current, initial, frame, up, crashes, swallowed, bad>>
  <2>1. host' = [host EXCEPT ![h].requests = @ \cup {n}, ![h].loading = TRUE,
                             ![h].life = IF @ = "Speculative" THEN "PendingCommit" ELSE @]
    BY <1>0 DEF CommitIn
  <2>2. host' = [host EXCEPT ![h] = s2]  BY <1>1, <2>1 DEF Types, HostRecs
  <2>3. /\ s.live /\ (h = current \/ h \in Speculative) /\ ongoing' = 0
        /\ down' = Send(down, h, OneIf(b, mb) \o <<mc>>)
        /\ UNCHANGED <<nav, next, current, initial, frame, up, crashes, swallowed, bad>>
    BY <1>0 DEF CommitIn
  <2> QED  BY <2>2, <2>3
<1>3. /\ mb \in Messages /\ mb.type = "bind" /\ mb.n = n
      /\ mc \in Messages /\ mc.type = "commit" /\ mc.n = n
  <2>1. "bind" \in DownTypes \cup UpTypes /\ "commit" \in DownTypes \cup UpTypes  BY DEF DownTypes
  <2>2. n \in Nums /\ kind \in Args  BY <1>1
  <2>3. mb \in Messages /\ mb.type = "bind" /\ mb.n = n  BY ONLY <2>1, <2>2, Plain
  <2>4. mc \in Messages /\ mc.type = "commit" /\ mc.n = n  BY ONLY <2>1, <2>2, WithArg
  <2> QED  BY <2>3, <2>4
<1>4. t \in BOOLEAN /\ OneIf(t, mc) = <<mc>> /\ b \in BOOLEAN  BY SentAlone
<1>5. /\ l2 \in HostStates /\ l2 # "Speculative" /\ (l2 = "Active" <=> s.life = "Active")
      /\ (InSpec(s) => l2 = "PendingCommit") /\ (~InSpec(s) => l2 = s.life)
  <2>1. "PendingCommit" \in HostStates /\ s.life \in HostStates  BY <1>1 DEF HostStates, HostRecs
  <2> HIDE DEF s
  <2> QED  BY <2>1 DEF InSpec
<1> HIDE DEF t, l2, b, mb, mc
<1>6. /\ s2 \in HostRecs /\ s2.life = l2 /\ s2.live = s.live /\ s2.waiting = s.waiting
      /\ s2.pend = s.pend /\ s2.closed = s.closed
      /\ s2.requests = s.requests \cup {n} /\ s2.same = s.same /\ s2.dsn = s.dsn
  <2> HIDE DEF s
  <2> QED  BY <1>1, <1>5 DEF HostRecs
<1>7. /\ d1 \in Seq(Messages) /\ DownAdds(d1, d, b, mb)
      /\ DownAdds(d1 \o <<mc>>, d1, t, mc) /\ d1 \o <<mc>> \in Seq(Messages)
      /\ OneIf(b, mb) \o <<mc>> \in Seq(Messages)
      /\ d1 \o <<mc>> = d \o (OneIf(b, mb) \o <<mc>>)
  <2> HIDE DEF d
  <2>1. OneIf(b, mb) \in Seq(Messages) /\ Adds(d1, d, b, mb)  BY <1>1, <1>3, <1>4, Adding
  <2>2. d1 \in Seq(Messages)  BY <2>1 DEF Adds
  <2>3. d1 = d \o OneIf(b, mb)  OBVIOUS
  <2> HIDE DEF d1
  <2>4. OneIf(t, mc) \in Seq(Messages) /\ Adds(d1 \o OneIf(t, mc), d1, t, mc)
    BY <1>3, <1>4, <2>2, Adding
  <2>5. <<mc>> \in Seq(Messages) /\ Adds(d1 \o <<mc>>, d1, t, mc)  BY <1>4, <2>4
  <2>6. DownAdds(d1, d, b, mb)  BY <1>3, <1>4, <2>1, AddsDown
  <2>7. DownAdds(d1 \o <<mc>>, d1, t, mc)  BY <1>3, <1>4, <2>5, AddsDown
  <2>8. d1 \o <<mc>> \in Seq(Messages)  BY <2>5 DEF Adds
  <2>9. (d \o OneIf(b, mb)) \o <<mc>> = d \o (OneIf(b, mb) \o <<mc>>)
    BY <1>1, <2>1, <2>5, ConcatAssociative
  <2>10. OneIf(b, mb) \o <<mc>> \in Seq(Messages)  BY <2>1, <2>5, ConcatProperties
  <2> QED  BY <2>2, <2>3, <2>6, <2>7, <2>8, <2>9, <2>10
<1> HIDE DEF d1
<1>8. /\ down' \in [Hosts -> Seq(Messages)] /\ d2 = d1 \o <<mc>>
      /\ \A g \in Hosts \ {h} : down'[g] = down[g]
  BY <1>1, <1>2, <1>7 DEF Types, Send
<1>9. /\ host' \in [Hosts -> HostRecs] /\ host'[h] = s2
      /\ \A g \in Hosts \ {h} : host'[g] = host[g]
  <2> HIDE DEF s2
  <2> QED  BY <1>1, <1>2, <1>6 DEF Types
<1>10. Types'
  <2>1. 0 \in Nums  BY NavigationAssumption DEF Nums
  <2> QED  BY <1>1, <1>2, <1>8, <1>9, <2>1 DEF Types
<1>11. DownAdds(d2, d1, TRUE, mc)  BY <1>7, <1>8 DEF t
<1>12. /\ host'[h] = s2 /\ frame'[h] = f /\ up'[h] = u /\ current' = current /\ initial' = initial
       /\ down'[h] = d2
  BY <1>2, <1>9
<1>13. /\ EarlyOnce(n) /\ Early(n) /\ EarlyIsUnsent(n)
       /\ \A g \in Hosts : ~IsBegun(g, n) /\ n \notin host[g].same
  <2>1. EarlyOnce(n) /\ Early(n) /\ EarlyIsUnsent(n)  BY <1>0 DEF Core, Early
  <2> QED  BY <1>0, <2>1 DEF EarlyOnce
<1>14. ASSUME NEW k \in Navs PROVE Stays(k)
  <2>1. \A g \in Hosts : host'[g].pend = host[g].pend /\ host'[g].same = host[g].same
    BY <1>6, <1>9 DEF s
  <2> QED  BY <1>1, <1>2, <2>1 DEF Stays
<1>15. \A k \in Navs : EarlyOnce(k)' /\ (Early(k)' => Early(k))  BY <1>14, StaysKeep
<1>16. ~Early(n)'
  <2>1. ongoing' # n  BY <1>1, <1>2
  <2> QED  BY <1>0, <1>14, <2>1, OngoingLeaves
<1>17. \A g \in Hosts \ {h} : host[g].waiting => ongoing' = 0  BY <1>2
<1>18. TakesPart(h, h, n, {})
  <2>1. InSpec(s2) => InSpec(s)  BY <1>5, <1>6 DEF InSpec
  <2>2. host[h] = s /\ down[h] = d /\ frame[h] = f /\ up[h] = u  OBVIOUS
  <2> HIDE DEF s, d, d2, f, u, s2
  <2> QED  BY <1>3, <1>6, <1>7, <1>11, <1>12, <2>1, <2>2 DEF TakesPart, DownAdds
<1>19. BrowserSteps({h}, h, n, {})
  <2>1. \A k \in Navs : Early(k)' => Early(k) /\ k \notin {} /\ k # n  BY <1>15, <1>16
  <2>2. ASSUME NEW g \in Hosts \ {h}
        PROVE  /\ Untouched(g, {}) /\ (g = current' <=> g = current)
               /\ host[g].waiting => ongoing' = 0
               /\ host[g].life = "Active" /\ initial => initial'
    <3>1. down[g] \in Seq(Messages)  BY <1>1 DEF Types
    <3> QED  BY <1>2, <1>8, <1>9, <3>1, DropsNothing DEF Untouched
  <2> HIDE DEF s, d, d2, f, u, s2
  <2> QED  BY <1>0, <1>2, <1>18, <2>1, <2>2 DEF BrowserSteps
<1>20. ~s.waiting
  <2> HIDE DEF s, f, d, u
  <2> QED  BY <1>0, <1>1 DEF Lives, HostLives
<1> HIDE DEF s, d, d2, f, u, s2
<1>21. Lives(h, host[h], frame[h], down[h], up[h])'
  <2>1. HostLives(h, host[h], frame[h], down[h], up[h])'
    <3>1. HostLives(h, s, f, d, u) /\ s.live  BY <1>1, <1>2 DEF Lives
    <3>2. Holds(d2, Ends) => Holds(d, Ends)  BY <1>3, <1>7, <1>11 DEF DownAdds
    <3>3. InSpec(s2) => InSpec(s)  BY <1>5, <1>6 DEF InSpec
    <3>4. s2.life \in {"none", "Speculative", "PendingCommit"}
            => s.life \in {"none", "Speculative", "PendingCommit"}
      BY <1>5, <1>6 DEF InSpec
    <3>5. /\ s2.life = "Active" <=> s.life = "Active"
          /\ s2.life = "none" => s.life = "none"
          /\ s2.life # "Speculative"
          /\ s2.life \in {"Speculative", "PendingCommit", "Active"}
      <4>1. s.life \in {"Speculative", "PendingCommit", "Active"}  BY <3>1 DEF HostLives
      <4> QED  BY <1>5, <1>6, <4>1 DEF InSpec
    <3> QED  BY <1>6, <1>12, <1>20, <3>1, <3>2, <3>3, <3>4, <3>5 DEF HostLives
  <2>2. ChannelsLive(host[h], frame[h], down[h], up[h])'
    <3>1. ChannelsLive(s, f, d, u) /\ s.life \in {"Speculative", "PendingCommit", "Active"}
      BY <1>1, <1>2 DEF Lives, HostLives
    <3>2. InSpec(s2) => InSpec(s)  BY <1>5, <1>6 DEF InSpec
    <3>3. /\ ~Holds(d2, Blanks) /\ ~Holds(d2, Unloads) /\ ~Holds(u, Unloadeds)
          /\ ~Holds(d2, Deletes)
          /\ Holds(d2, Sames) => f.life = "attached" /\ ~f.initial /\ ~Then(d2, Ends, Sames)
      BY <1>1, <1>3, <1>7, <1>11, <3>1 DEF ChannelsLive, DownAdds
    <3> QED  BY <1>12, <3>1, <3>2, <3>3 DEF ChannelsLive
  <2>3. InitialLives(h, host[h], frame[h], up[h])'
    BY <1>1, <1>5, <1>6, <1>12 DEF Lives, InitialLives
  <2> QED  BY <2>1, <2>2, <2>3 DEF Lives
<1>22. ASSUME NEW k \in Navs
       PROVE  Tokens(s2, f, d2, u, swallowed, k) /\ Begun(s2, f, u, k)
  <2>1. Tokens(s, f, d, u, swallowed, k) /\ Begun(s, f, u, k)
    BY <1>2 DEF Core, Clients, s, f, d, u
  <2>2. Begun(s2, f, u, k)  BY <1>6, <2>1 DEF Begun
  <2>3. CASE k # n
    <3>1. k \in s2.requests <=> k \in s.requests  BY <1>6, <2>3
    <3>2. /\ Holds(d2, BindOf(k)) <=> Holds(d, BindOf(k))
          /\ Holds(d2, AskOf(k)) <=> Holds(d, AskOf(k))
          /\ Holds(d, SameOf(k)) => Holds(d2, SameOf(k))
          /\ Then(d2, BindOf(k), BindOf(k)) <=> Then(d, BindOf(k), BindOf(k))
          /\ Then(d2, BindOf(k), AskOf(k)) <=> Then(d, BindOf(k), AskOf(k))
      BY <1>3, <1>7, <1>11, <2>3 DEF DownAdds
    <3> QED  BY <1>6, <2>1, <2>2, <3>1, <3>2 DEF Tokens
  <2>4. CASE k = n
    <3>1. /\ ~Holds(d, BindOf(n)) /\ ~Holds(d, AskOf(n)) /\ f.mhtml # n /\ ~Holds(u, CommitOf(n))
          /\ f.client = n \/ Holds(u, EndOf(n)) => ~b
          /\ n \notin s.same
      BY <1>13 DEF EarlyIsUnsent, s, f, d, u, b
    <3>2. ~b => f.client = n \/ Holds(u, EndOf(n))
      <4>1. ~b => nav[n].from # None /\ nav[n].from = h  BY NavigationAssumption DEF b
      <4> QED  BY <1>0, <1>1, <4>1 DEF Core, OngoingIsAwaited, Awaited, f, u
    <3>3. Holds(u, ReturnOf(n)) <=> Holds(u, EndOf(n))  BY <3>1, Returned
    <3>4. /\ Holds(d1, BindOf(n)) <=> b
          /\ ~Holds(d1, AskOf(n))
          /\ ~Then(d1, BindOf(n), BindOf(n))
      BY <1>3, <1>7, <3>1, ThenHolds DEF DownAdds
    <3>5. /\ Holds(d2, BindOf(n)) <=> b
          /\ Holds(d2, AskOf(n))
          /\ ~Then(d2, BindOf(n), BindOf(n))
          /\ b => Then(d2, BindOf(n), AskOf(n))
      BY <1>3, <1>11, <3>4 DEF DownAdds
    <3>6. /\ ~Then(u, ReturnOf(n), ReturnOf(n))
          /\ f.client = n => ~Holds(u, ReturnOf(n))
      BY <2>1, <2>4 DEF Tokens
    <3>7. n \in s2.requests /\ n \notin s2.same  BY <1>6, <3>1
    <3> QED  BY <2>2, <2>4, <3>1, <3>2, <3>3, <3>5, <3>6, <3>7 DEF Tokens
  <2> QED  BY <2>3, <2>4
<1>23. \A g \in {h} : \A k \in Navs : host'[g].live =>
         /\ Tokens(host[g], frame[g], down[g], up[g], swallowed, k)'
         /\ Begun(host[g], frame[g], up[g], k)'
  <2>1. swallowed' = swallowed  BY <1>2
  <2> QED  BY <1>12, <1>22, <2>1 DEF Tokens, Begun, Awaited
<1>24. OngoingIsAwaited'  BY <1>2 DEF OngoingIsAwaited
<1>25. {h} \in SUBSET Hosts  OBVIOUS
<1>26. swallowed' = swallowed  BY <1>2
<1> QED  BY <1>10, <1>15, <1>19, <1>21, <1>23, <1>24, <1>25, <1>26, BrowserStepsKeep

\* DiscardSpeculative: the host that was to replace the current one is not needed any more.
LEMMA DiscardSpeculativeKeeps ==
  ASSUME Core, NEW h \in Hosts, DiscardSpeculative(h)
  PROVE  Core'
<1> DEFINE s == host[h]
           f == frame[h]
           d == down[h]
           d2 == down'[h]
           rs == s.requests
           how == HowDiscarded(s.life)
           m == Msg(how, 0)
           c == DroppedAll(down, rs)
           l == "deleted"
           s2 == [NoHost EXCEPT !.life = l]
<1>1. /\ Types /\ Lives(h, s, f, d, up[h]) /\ s \in HostRecs  BY Situation
<1>2. /\ InSpec(s) /\ host' = [host EXCEPT ![h] = s2]
      /\ down' = Send(c, h, <<m>>) /\ up' = [up EXCEPT ![h] = <<>>]
      /\ UNCHANGED <<nav, next, ongoing, current, initial, frame, crashes, swallowed, bad>>
  BY DEF DiscardSpeculative, Speculative, InSpec
<1>3. rs \in SUBSET Navs /\ 0 \in Nums
  <2>1. 0 \in Nums  BY NavigationAssumption DEF Nums
  <2> QED  BY <1>1, <2>1 DEF HostRecs
<1>4. /\ m \in Messages /\ m.type = how /\ m.n = 0 /\ how \in {"delete", "undo"}
      /\ s.life = "Speculative" <=> how = "delete"
  <2>1. how \in {"delete", "undo"} /\ (s.life = "Speculative" <=> how = "delete")
    BY DEF HowDiscarded
  <2>2. how \in DownTypes \cup UpTypes  BY <2>1 DEF DownTypes
  <2> HIDE DEF how
  <2> QED  BY <1>3, <2>1, <2>2, Plain
<1>5. l = "deleted" /\ l \in HostStates  BY DEF HostStates
<1> HIDE DEF l, m, how
<1>6. /\ s2 \in HostRecs /\ s2.life = l /\ ~s2.live /\ ~s2.waiting /\ s2.pend = 0
      /\ s2.requests = {} /\ s2.same = {}
  BY <1>5, DeadHost
<1> HIDE DEF s2, rs
<1>7. /\ c \in [Hosts -> Seq(Messages)]
      /\ \A g \in Hosts : /\ Drops(c[g], down[g], rs)
                          /\ frame[g].life # "attached" => c[g] = down[g]
  <2>1. down \in [Hosts -> Seq(Messages)]  BY <1>1 DEF Types
  <2> QED  BY <1>1, <1>3, <2>1, DroppedSome
<1> HIDE DEF c
<1>8. /\ down' \in [Hosts -> Seq(Messages)] /\ DownAdds(d2, c[h], TRUE, m)
      /\ \A g \in Hosts \ {h} : down'[g] = c[g]
  <2>1. /\ Send(c, h, <<m>>) \in [Hosts -> Seq(Messages)]
        /\ DownAdds(Send(c, h, <<m>>)[h], c[h], TRUE, m)
        /\ \A g \in Hosts \ {h} : Send(c, h, <<m>>)[g] = c[g]
    <3>1. h \in Hosts  OBVIOUS
    <3> QED  BY ONLY <1>4, <1>7, <3>1, SentOne
  <2> QED  BY <1>2, <2>1
<1>9. /\ host' \in [Hosts -> HostRecs] /\ host'[h] = s2
      /\ \A g \in Hosts \ {h} : host'[g] = host[g]
  BY <1>1, <1>2, <1>6 DEF Types
<1>10. /\ up' \in [Hosts -> Seq(Messages)] /\ up'[h] = <<>>
       /\ \A g \in Hosts \ {h} : up'[g] = up[g]
  <2>1. <<>> \in Seq(Messages)  BY EmptySeq
  <2> QED  BY <1>1, <1>2, <2>1 DEF Types
<1>11. Types'  BY <1>1, <1>2, <1>8, <1>9, <1>10 DEF Types
<1>12. ASSUME NEW k \in Navs PROVE Stays(k)
  <2>1. \A g \in Hosts : host'[g].pend = k => host[g].pend = k
    BY <1>6, <1>9, NavsArePositive
  <2>2. \A g \in Hosts : k \in host'[g].same => k \in host[g].same  BY <1>6, <1>9
  <2>3. \A g \in Hosts :
          /\ Holds(up'[g], BeginOf(k)) => Holds(up[g], BeginOf(k))
          /\ Then(up'[g], BeginOf(k), BeginOf(k)) => Then(up[g], BeginOf(k), BeginOf(k))
          /\ Then(up'[g], EndOf(k), BeginOf(k)) => Then(up[g], EndOf(k), BeginOf(k))
    BY <1>10, Short
  <2> QED  BY <1>2, <2>1, <2>2, <2>3 DEF Stays
<1>13. \A k \in Navs : EarlyOnce(k)' /\ (Early(k)' => Early(k))  BY <1>12, StaysKeep
<1>14. ASSUME NEW k \in Navs, k \in rs
       PROVE  ~Early(k)' /\ \A g \in Hosts : k \notin host'[g].requests
  <2>1. ~Early(k)  BY <1>14 DEF Core, EarlyIsUnsent, rs
  <2>2. \A g \in Hosts \ {h} : k \notin host[g].requests  BY <1>14 DEF Core, Apart, rs
  <2> QED  BY <1>6, <1>9, <1>13, <2>1, <2>2
<1>15. /\ host'[h] = s2 /\ frame'[h] = f /\ down'[h] = d2 /\ up'[h] = <<>> /\ current' = current
       /\ Drops(c[h], d, rs)
  BY <1>2, <1>7, <1>9, <1>10
<1> HIDE DEF s, f, d, d2
<1>16. s.live /\ h # current
  BY <1>1, <1>2 DEF Lives, HostLives, InSpec
<1>17. Lives(h, host[h], frame[h], down[h], up[h])'
  <2>1. HostLives(h, host[h], frame[h], down[h], up[h])'
    BY <1>5, <1>6, <1>15, <1>16 DEF HostLives, InSpec
  <2>2. /\ Holds(d, Sames) => f.life = "attached" /\ ~f.initial /\ ~Then(d, Ends, Sames)
        /\ ~Holds(d, Blanks) /\ ~Holds(d, Deletes)
        /\ s.life = "Speculative" => f.life # "attached" /\ f.mhtml = 0 /\ ~Holds(d, Preparations)
    BY <1>1, <1>2 DEF Lives, HostLives, ChannelsLive, InSpec
  <2>3. Holds(d, Asks) => Holds(d, Preparations)
    <3>1. Asks \subseteq Preparations  BY DEF Asks, Preparations, All, Of
    <3> QED  BY <3>1 DEF Holds
  <2>4. /\ Holds(d2, Sames) => f.life = "attached" /\ ~f.initial /\ ~Then(d2, Ends, Sames)
        /\ ~Holds(d2, Blanks)
        /\ Holds(d2, Deletes) => f.life # "attached" /\ f.mhtml = 0 /\ ~Holds(d2, Asks)
    BY <1>4, <1>8, <1>15, <2>2, <2>3 DEF Drops, DownAdds
  <2>5. ChannelsLive(host[h], frame[h], down[h], up[h])'
    BY <1>5, <1>6, <1>15, <2>4 DEF ChannelsLive, InSpec
  <2>6. InitialLives(h, host[h], frame[h], up[h])'
    BY <1>1, <1>5, <1>6, <1>15, Short DEF Lives, InitialLives
  <2> QED  BY <2>1, <2>5, <2>6 DEF Lives
<1>18. TakesPart(h, h, 0, rs)
  <2>1. ~InSpec(s2)  BY <1>5, <1>6 DEF InSpec
  <2>2. down[h] = d /\ frame[h] = f  BY DEF d, f
  <2> QED  BY <1>4, <1>6, <1>8, <1>15, <2>1, <2>2, Short DEF TakesPart, Drops, DownAdds
<1>19. BrowserSteps({h}, h, 0, rs)
  <2>1. \A k \in Navs : Early(k)' => Early(k) /\ k \notin rs /\ k # 0
    BY <1>13, <1>14, NavsArePositive
  <2>2. \A k \in Navs \cap rs : \A g \in Hosts : k \notin host'[g].requests  BY <1>14
  <2>3. ASSUME NEW g \in Hosts \ {h}
        PROVE  /\ Untouched(g, rs) /\ (g = current' <=> g = current)
               /\ host[g].waiting => ongoing' = 0
               /\ host[g].life = "Active" /\ initial => initial'
    <3>1. Untouched(g, rs)  BY <1>2, <1>7, <1>8, <1>9, <1>10 DEF Untouched
    <3>2. host[g].waiting => ongoing = 0  BY OthersDoNotWait
    <3> QED  BY <1>2, <3>1, <3>2
  <2> QED  BY <1>2, <1>18, <2>1, <2>2, <2>3 DEF BrowserSteps
<1>20. OngoingIsAwaited'
  <2> SUFFICES ASSUME ongoing # 0, nav[ongoing].from # None
               PROVE  /\ nav[ongoing].from = current /\ host'[current].live
                      /\ Awaited(frame[current], up'[current], ongoing)
    BY <1>2 DEF OngoingIsAwaited, Awaited
  <2>1. /\ nav[ongoing].from = current /\ host[current].live
        /\ Awaited(frame[current], up[current], ongoing)
    BY DEF Core, OngoingIsAwaited
  <2>2. current \in Hosts \ {h}  BY <1>1, <1>16 DEF Types
  <2> QED  BY <1>9, <1>10, <2>1, <2>2
<1>21. \A g \in {h} : \A k \in Navs : host'[g].live =>
         /\ Tokens(host[g], frame[g], down[g], up[g], swallowed, k)'
         /\ Begun(host[g], frame[g], up[g], k)'
  BY <1>6, <1>9
<1>22. {h} \in SUBSET Hosts /\ swallowed' = swallowed  BY <1>2
<1> QED  BY <1>11, <1>13, <1>17, <1>19, <1>20, <1>21, <1>22, BrowserStepsKeep

\* RenderProcessGone: a process died, and with it the frame, what it was sent and what it sent.
LEMMA RenderProcessGoneKeeps ==
  ASSUME Core, NEW h \in Hosts, RenderProcessGone(h)
  PROVE  Core'
<1> DEFINE s == host[h]
           f == frame[h]
           rs == {n \in s.requests : nav[n].from # h}
           c == DroppedAll(down, rs)
           l == "deleted"
           dead == [NoHost EXCEPT !.life = l]
           crashed == [s EXCEPT !.live = FALSE, !.requests = {}, !.same = {}, !.empty = {},
                                !.loading = FALSE, !.closed = s.pend # 0]
           s2 == IF s.life = "Active" THEN crashed ELSE dead
<1>1. /\ Types /\ Lives(h, s, f, down[h], up[h]) /\ s \in HostRecs  BY Situation
<1>2. /\ crashes' = crashes + 1 /\ f.life \in {"provisional", "attached"}
      /\ frame' = [frame EXCEPT ![h] = Gone] /\ host' = [host EXCEPT ![h] = s2]
      /\ ongoing' = (IF ongoing # 0 /\ nav[ongoing].from = h THEN 0 ELSE ongoing)
      /\ down' = [c EXCEPT ![h] = <<>>] /\ up' = [up EXCEPT ![h] = <<>>]
      /\ UNCHANGED <<nav, next, current, initial, swallowed, bad>>
  BY <1>1 DEF RenderProcessGone, Types
<1>3. rs \in SUBSET Navs /\ 0 \in Nums /\ rs \subseteq s.requests
  <2>1. 0 \in Nums  BY NavigationAssumption DEF Nums
  <2> QED  BY <1>1, <2>1 DEF HostRecs
<1>4. l = "deleted" /\ l \in HostStates  BY DEF HostStates
<1> HIDE DEF l, rs
<1>5. /\ dead \in HostRecs /\ dead.life = l /\ ~dead.live /\ ~dead.waiting /\ dead.pend = 0
      /\ dead.requests = {} /\ dead.same = {}
  BY <1>4, DeadHost
<1> HIDE DEF dead
<1>6. /\ crashed \in HostRecs /\ crashed.life = s.life /\ ~crashed.live
      /\ crashed.waiting = s.waiting /\ crashed.pend = s.pend
      /\ (crashed.pend # 0 => crashed.closed) /\ crashed.requests = {} /\ crashed.same = {}
  <2> HIDE DEF s
  <2> QED  BY <1>1 DEF HostRecs
<1> HIDE DEF crashed
<1>7. /\ s2 \in HostRecs /\ s2.life = (IF s.life = "Active" THEN "Active" ELSE "deleted")
      /\ ~s2.live /\ (s2.waiting => s.waiting) /\ (s2.pend # 0 => s2.pend = s.pend /\ s2.closed)
      /\ (s2.pend # 0 => s2.waiting = s.waiting)
      /\ s2.requests = {} /\ s2.same = {}
  BY <1>4, <1>5, <1>6
<1> HIDE DEF s2
<1>8. /\ c \in [Hosts -> Seq(Messages)]
      /\ \A g \in Hosts : /\ Drops(c[g], down[g], rs)
                          /\ frame[g].life # "attached" => c[g] = down[g]
  <2>1. down \in [Hosts -> Seq(Messages)]  BY <1>1 DEF Types
  <2> QED  BY <1>1, <1>3, <2>1, DroppedSome
<1> HIDE DEF c
<1>9. <<>> \in Seq(Messages) /\ Gone \in FrameRecs /\ Gone.life = "gone"
      /\ Gone.client = 0 /\ Gone.mhtml = 0
  BY EmptySeq, GoneFrame
<1>10. /\ down' \in [Hosts -> Seq(Messages)] /\ down'[h] = <<>>
       /\ \A g \in Hosts \ {h} : down'[g] = c[g]
       /\ up' \in [Hosts -> Seq(Messages)] /\ up'[h] = <<>>
       /\ \A g \in Hosts \ {h} : up'[g] = up[g]
       /\ frame' \in [Hosts -> FrameRecs] /\ frame'[h] = Gone
       /\ \A g \in Hosts \ {h} : frame'[g] = frame[g]
       /\ host' \in [Hosts -> HostRecs] /\ host'[h] = s2
       /\ \A g \in Hosts \ {h} : host'[g] = host[g]
  BY <1>1, <1>2, <1>7, <1>8, <1>9 DEF Types
<1>11. ongoing' \in Nums /\ (ongoing' = 0 \/ ongoing' = ongoing) /\ (ongoing = 0 => ongoing' = 0)
  BY <1>1, <1>2, <1>3 DEF Types
<1>12. Types'
  <2>1. crashes' \in Nat
    <3>1. crashes \in Nat  BY <1>1 DEF Types
    <3> QED  BY ONLY <1>2, <3>1
  <2> QED  BY <1>1, <1>2, <1>10, <1>11, <2>1 DEF Types
<1>13. ASSUME NEW k \in Navs PROVE Stays(k)
  <2>1. \A g \in Hosts : host'[g].pend = k => host[g].pend = k
    BY <1>7, <1>10, NavsArePositive
  <2>2. \A g \in Hosts : k \in host'[g].same => k \in host[g].same  BY <1>7, <1>10
  <2>3. \A g \in Hosts :
          /\ Holds(up'[g], BeginOf(k)) => Holds(up[g], BeginOf(k))
          /\ Then(up'[g], BeginOf(k), BeginOf(k)) => Then(up[g], BeginOf(k), BeginOf(k))
          /\ Then(up'[g], EndOf(k), BeginOf(k)) => Then(up[g], EndOf(k), BeginOf(k))
    <3>1. \A g \in Hosts : up'[g] = up[g] \/ up'[g] = <<>>  BY <1>10
    <3> QED  BY ONLY <3>1, Short
  <2>4. ongoing' = k => ongoing = k  BY <1>11, NavsArePositive
  <2> QED  BY <1>2, <2>1, <2>2, <2>3, <2>4 DEF Stays
<1>14. \A k \in Navs : EarlyOnce(k)' /\ (Early(k)' => Early(k))  BY <1>13, StaysKeep
<1>15. ASSUME NEW k \in Navs, k \in rs
       PROVE  ~Early(k)' /\ \A g \in Hosts : k \notin host'[g].requests
  <2>1. ~Early(k)  BY <1>3, <1>15 DEF Core, EarlyIsUnsent
  <2>2. \A g \in Hosts \ {h} : k \notin host[g].requests  BY <1>3, <1>15 DEF Core, Apart
  <2> QED  BY <1>7, <1>10, <1>14, <2>1, <2>2
<1> HIDE DEF s, f
<1>16. Lives(h, host[h], frame[h], down[h], up[h])'
  <2>1. HostLives(h, s, f, down[h], up[h])  BY <1>1 DEF Lives
  <2>2. current' = current  BY <1>2
  <2>3. HostLives(h, host[h], frame[h], down[h], up[h])'
    BY <1>7, <1>9, <1>10, <1>11, <2>1, <2>2, Short DEF HostLives, InSpec
  <2>4. ChannelsLive(host[h], frame[h], down[h], up[h])'
    BY <1>7, <1>9, <1>10, Short DEF ChannelsLive, InSpec
  <2>5. InitialLives(h, host[h], frame[h], up[h])'
    BY <1>9, <1>10, Short DEF InitialLives
  <2> QED  BY <2>3, <2>4, <2>5 DEF Lives
<1>17. TakesPart(h, h, 0, rs)
  <2>1. ~InSpec(s2)  BY <1>7 DEF InSpec
  <2> QED  BY <1>7, <1>9, <1>10, <2>1, Short, NavsArePositive DEF TakesPart
<1>18. BrowserSteps({h}, h, 0, rs)
  <2>1. \A k \in Navs : Early(k)' => Early(k) /\ k \notin rs /\ k # 0
    BY <1>14, <1>15, NavsArePositive
  <2>2. \A k \in Navs \cap rs : \A g \in Hosts : k \notin host'[g].requests  BY <1>15
  <2>3. ASSUME NEW g \in Hosts \ {h}
        PROVE  /\ Untouched(g, rs) /\ (g = current' <=> g = current)
               /\ host[g].waiting => ongoing' = 0
               /\ host[g].life = "Active" /\ initial => initial'
    <3>1. Untouched(g, rs)  BY <1>8, <1>10 DEF Untouched
    <3>2. host[g].waiting => ongoing = 0  BY OthersDoNotWait
    <3> QED  BY <1>2, <1>11, <3>1, <3>2
  <2> QED  BY <1>2, <1>17, <2>1, <2>2, <2>3 DEF BrowserSteps
<1>19. OngoingIsAwaited'
  <2> SUFFICES ASSUME ongoing' # 0, nav[ongoing'].from # None
               PROVE  /\ nav[ongoing'].from = current /\ host'[current].live
                      /\ Awaited(frame'[current], up'[current], ongoing')
    BY <1>2 DEF OngoingIsAwaited, Awaited
  <2>1. ongoing' = ongoing /\ ongoing # 0 /\ nav[ongoing].from # h  BY <1>2
  <2>2. /\ nav[ongoing].from = current /\ host[current].live
        /\ Awaited(frame[current], up[current], ongoing)
    BY <2>1 DEF Core, OngoingIsAwaited
  <2>3. current \in Hosts \ {h}  BY <1>1, <2>1, <2>2 DEF Types
  <2> QED  BY <1>10, <2>1, <2>2, <2>3
<1>20. \A g \in {h} : \A k \in Navs : host'[g].live =>
         /\ Tokens(host[g], frame[g], down[g], up[g], swallowed, k)'
         /\ Begun(host[g], frame[g], up[g], k)'
  BY <1>7, <1>10
<1>21. {h} \in SUBSET Hosts /\ swallowed' = swallowed  BY <1>2
<1> QED  BY <1>12, <1>14, <1>16, <1>18, <1>19, <1>20, <1>21, BrowserStepsKeep

-----------------------------------------------------------------------------
(* The invariant holds; the checks and the requests.                       *)

\* The invariant holds at first.
LEMMA InitIsCore ==
  ASSUME Init
  PROVE  Core
<1> DEFINE la == "Active"
           lf == "attached"
<1>1. 0 \in Nums /\ 1 \in 1..(MaxNavs + 1) /\ <<>> \in Seq(Messages)
  <2>1. 0 \in Nums /\ 1 \in 1..(MaxNavs + 1)  BY NavigationAssumption DEF Nums
  <2> QED  BY <2>1, EmptySeq
<1>2. /\ nav = [n \in Navs |-> [from |-> None, kind |-> "none"]]
      /\ next = 1 /\ ongoing = 0 /\ current = First /\ initial = TRUE /\ crashes = 0
      /\ down = [h \in Hosts |-> <<>>] /\ up = [h \in Hosts |-> <<>>] /\ swallowed = {} /\ bad = {}
  BY DEF Init
<1>3. PICK w \in BOOLEAN :
        /\ host = [h \in Hosts |-> IF h = First THEN [NoHost EXCEPT !.life = la, !.live = TRUE, !.waiting = w]
                                   ELSE NoHost]
        /\ frame = [h \in Hosts |-> IF h = First THEN [NoFrame EXCEPT !.life = lf, !.script = w]
                                    ELSE NoFrame]
  BY DEF Init
<1>4. la = "Active" /\ la \in HostStates /\ lf = "attached" /\ lf \in FrameStates
      /\ "none" \in HostStates /\ "none" \in FrameStates
  BY DEF HostStates, FrameStates
<1>5. First \in Hosts /\ None \notin Hosts  BY NavigationAssumption
<1> DEFINE s1 == [NoHost EXCEPT !.life = la, !.live = TRUE, !.waiting = w]
           f1 == [NoFrame EXCEPT !.life = lf, !.script = w]
<1> HIDE DEF la, lf
<1>6. /\ s1 \in HostRecs /\ s1.life = la /\ s1.live /\ s1.pend = 0 /\ s1.requests = {} /\ s1.same = {}
      /\ s1.dsn = 0
  BY <1>4, NoHostRecord DEF HostRecs
<1>7. NoFrame \in FrameRecs /\ NoFrame.client = 0 /\ NoFrame.mhtml = 0 /\ NoFrame.life = "none"
  BY <1>1, <1>4 DEF NoFrame, FrameRecs
<1>8. f1 \in FrameRecs /\ f1.client = 0 /\ f1.mhtml = 0 /\ f1.life = lf
  BY <1>4, <1>7 DEF FrameRecs
<1>9. /\ NoHost \in HostRecs /\ ~NoHost.waiting /\ NoHost.pend = 0 /\ NoHost.requests = {}
      /\ NoHost.same = {} /\ ~NoHost.live /\ NoHost.life = "none"
  BY NoHostRecord DEF NoHost
<1> HIDE DEF s1, f1
<1>10. /\ host[First] = s1 /\ frame[First] = f1
       /\ \A h \in Hosts \ {First} : host[h] = NoHost /\ frame[h] = NoFrame
       /\ host \in [Hosts -> HostRecs] /\ frame \in [Hosts -> FrameRecs]
       /\ \A h \in Hosts : down[h] = <<>> /\ up[h] = <<>>
       /\ down \in [Hosts -> Seq(Messages)] /\ up \in [Hosts -> Seq(Messages)]
  BY <1>1, <1>2, <1>3, <1>5, <1>6, <1>7, <1>8, <1>9 DEF s1, f1
<1>11. Types
  <2>1. nav \in [Navs -> [from: Hosts \cup {None}, kind: NavKinds]]
    <3>1. "none" \in NavKinds  BY DEF NavKinds
    <3> QED  BY <1>2, <3>1
  <2> QED  BY <1>1, <1>2, <1>5, <1>10, <2>1 DEF Types
<1>12. \A h \in Hosts : host[h].pend = 0 /\ host[h].same = {} /\ host[h].requests = {} /\ ~InSpec(host[h])
                        /\ frame[h].client = 0 /\ frame[h].mhtml = 0 /\ (host[h].live => h = First)
  BY <1>4, <1>6, <1>7, <1>8, <1>9, <1>10 DEF InSpec
<1>13. ASSUME NEW h \in Hosts PROVE Lives(h, host[h], frame[h], down[h], up[h])
  <2>1. CASE h = First
    <3>1. HostLives(h, host[h], frame[h], down[h], up[h])
      BY <1>2, <1>4, <1>6, <1>8, <1>10, <1>12, <2>1, Short DEF HostLives, InSpec
    <3>2. ChannelsLive(host[h], frame[h], down[h], up[h])
      BY <1>10, <1>12, Short DEF ChannelsLive
    <3>3. InitialLives(h, host[h], frame[h], up[h])
      BY <1>2, <1>6, <1>10, <2>1, Short DEF InitialLives
    <3> QED  BY <3>1, <3>2, <3>3 DEF Lives
  <2>2. CASE h # First
    <3>1. HostLives(h, host[h], frame[h], down[h], up[h])
      BY <1>2, <1>7, <1>9, <1>10, <2>2, Short DEF HostLives, InSpec
    <3>2. ChannelsLive(host[h], frame[h], down[h], up[h])
      BY <1>10, <1>12, Short DEF ChannelsLive
    <3>3. InitialLives(h, host[h], frame[h], up[h])
      BY <1>7, <1>10, <2>2, Short DEF InitialLives
    <3> QED  BY <3>1, <3>2, <3>3 DEF Lives
  <2> QED  BY <2>1, <2>2
<1>14. ASSUME NEW h \in Hosts, NEW n \in Navs
       PROVE  /\ Tokens(host[h], frame[h], down[h], up[h], swallowed, n)
              /\ Begun(host[h], frame[h], up[h], n)
  BY <1>10, <1>12, NavsArePositive, Short DEF Tokens, Begun
<1>15. OngoingIsAwaited  BY <1>2 DEF OngoingIsAwaited
<1>16. ASSUME NEW n \in Navs PROVE EarlyOnce(n) /\ EarlyIsUnsent(n)
  <2>1. n # ongoing /\ \A h \in Hosts : ~IsBegun(h, n) /\ n \notin host[h].same
    BY <1>2, <1>10, <1>12, NavsArePositive, Short DEF IsBegun
  <2>2. EarlyOnce(n)  BY <1>10, <2>1, Short DEF EarlyOnce
  <2>3. EarlyIsUnsent(n)  BY <1>10, <1>12, NavsArePositive, Short DEF EarlyIsUnsent
  <2> QED  BY <2>2, <2>3
<1>17. Apart  BY <1>10, <1>12, Short DEF Apart
<1> QED  BY <1>11, <1>13, <1>14, <1>15, <1>16, <1>17 DEF Core, Pipes, Clients

\* A navigation that commits commits in a host, as what its kind is, or as an error.
LEMMA ReadyToCommit ==
  ASSUME Core, CommitNavigation \/ FailedNavigation
  PROVE  \E h \in Hosts, kind \in Args : CommitIn(h, kind)
<1>1. CASE CommitNavigation
  <2>1. PICK h \in Hosts : ongoing # 0 /\ CommitIn(h, nav[ongoing].kind)
    BY <1>1 DEF CommitNavigation
  <2>2. nav \in [Navs -> [from: Hosts \cup {None}, kind: NavKinds]] /\ ongoing \in Nums
    BY DEF Core, Types
  <2>3. ongoing \in Navs  BY <2>1, <2>2, NavigationAssumption DEF Nums, Navs
  <2>4. nav[ongoing].kind \in Args  BY <2>2, <2>3 DEF NavKinds, Args
  <2> QED  BY <2>1, <2>4
<1>2. CASE FailedNavigation
  <2>1. "error" \in Args  BY DEF Args
  <2> QED  BY <1>2, <2>1 DEF FailedNavigation
<1> QED  BY <1>1, <1>2

\* Every step of the browser and of the renderers keeps the invariant.
LEMMA CoreStep ==
  ASSUME Core, [Next]_vars
  PROVE  Core'
<1>1. CASE BrowserNavigates  BY <1>1, BrowserNavigatesKeeps
<1>2. CASE CommitSameDocumentNavigation  BY <1>2, CommitSameDocumentNavigationKeeps
<1>3. CASE CreateRenderFrame  BY <1>3, CreateRenderFrameKeeps
<1>4. CASE CommitNavigation \/ FailedNavigation
  <2>1. PICK h \in Hosts, kind \in Args : CommitIn(h, kind)  BY <1>4, ReadyToCommit
  <2> QED  BY <2>1, CommitInKeeps
<1>5. CASE CancelNavigation  BY <1>5, CancelNavigationKeeps
<1>6. ASSUME NEW h \in Hosts, Browser(h) PROVE Core'
  BY <1>6, DiscardSpeculativeKeeps, BeginNavigationKeeps, InitHostKeeps, DidCommitNavigationKeeps,
     DidCommitSameDocumentNavigationKeeps, OnSameDocumentCommitProcessedKeeps,
     NavigationRequestCancelledKeeps, DidStopLoadingKeeps, OnUnloadACKKeeps, RenderProcessGoneKeeps
     DEF Browser
<1>7. ASSUME NEW h \in Hosts, Renderer(h) PROVE Core'
  BY <1>7, BindKeeps, CommitKeeps, BodyLoadingFinishedKeeps, AbortClientNavigationKeeps,
     SynchronouslyCommitAboutBlankForBug778318Keeps, DidStopLoadingDocumentKeeps, OnDroppedNavigationKeeps,
     UnloadKeeps, UndoCommitNavigationKeeps, DeleteKeeps, CommitSameDocumentKeeps, BeginNavigationInternalKeeps,
     DidFinishSameDocumentNavigationKeeps
     DEF Renderer
<1>8. CASE UNCHANGED vars
  <2>1. UNCHANGED <<nav, next, ongoing, current, initial, host, frame, down, up, crashes, swallowed, bad>>
    BY <1>8 DEF vars
  <2>2. Types'  BY <2>1 DEF Core, Types
  <2>3. Pipes'  BY <2>1 DEF Core, Pipes, Lives, HostLives, ChannelsLive, InitialLives, InSpec
  <2>4. Clients'
    <3>1. ASSUME NEW h \in Hosts, host[h].live, NEW n \in Navs
          PROVE  /\ Tokens(host[h], frame[h], down[h], up[h], swallowed, n)'
                 /\ Begun(host[h], frame[h], up[h], n)'
      <4>1. Tokens(host[h], frame[h], down[h], up[h], swallowed, n) /\ Begun(host[h], frame[h], up[h], n)
        BY <3>1 DEF Core, Clients
      <4> QED  BY ONLY <2>1, <4>1 DEF Tokens, Begun, Awaited
    <3> QED  BY <2>1, <3>1 DEF Clients
  <2>5. OngoingIsAwaited'  BY <2>1 DEF Core, OngoingIsAwaited, Awaited
  <2>6. ASSUME NEW n \in Navs PROVE EarlyOnce(n)' /\ EarlyIsUnsent(n)'
    <3>1. EarlyOnce(n) /\ EarlyIsUnsent(n)  BY DEF Core
    <3> QED  BY ONLY <2>1, <3>1 DEF EarlyOnce, EarlyIsUnsent, Early, IsBegun
  <2>7. Apart'  BY <2>1 DEF Core, Apart, InSpec
  <2> QED  BY <2>2, <2>3, <2>4, <2>5, <2>6, <2>7 DEF Core
<1> QED  BY <1>1, <1>2, <1>3, <1>4, <1>5, <1>6, <1>7, <1>8 DEF Next

\* The browser and the renderers keep the invariant, whatever the bound on the navigations, the
\* number of hosts and what the navigations are: the types, the life of every host, its frame and
\* their channels, and the one place where the client of a navigation is.
THEOREM CoreCorrect == Spec => []Core
<1>1. Init => Core  BY InitIsCore
<1>2. Core /\ [Next]_vars => Core'  BY CoreStep
<1> QED  BY <1>1, <1>2, PTL DEF Spec

\* The invariant says what ChecksHold does: the types, the one active and the one speculative host
\* and the checks that failed.
LEMMA CoreChecks ==
  ASSUME Core
  PROVE  ChecksHold
<1>1. Types /\ Pipes /\ Apart  BY DEF Core
<1>2. next \in 1..(MaxNavs + 1) /\ ongoing \in 0..MaxNavs /\ current \in Hosts
  BY <1>1 DEF Types, Nums
<1>3. host[current].life = "Active"  BY <1>1, <1>2 DEF Pipes, Lives, HostLives
<1>4. ASSUME NEW h \in Hosts
      PROVE  /\ host[h].life \in HostStates /\ frame[h].life \in FrameStates
             /\ host[h].requests \cup host[h].same \cup host[h].empty \subseteq Navs
             /\ host[h].life = "Active" => h = current
  <2>1. host[h] \in HostRecs /\ frame[h] \in FrameRecs  BY <1>1 DEF Types
  <2>2. host[h].life = "Active" => h = current  BY <1>1 DEF Pipes, Lives, HostLives
  <2> QED  BY <2>1, <2>2 DEF HostRecs, FrameRecs
<1>5. Cardinality(Speculative) <= 1
  <2>1. \A h \in Speculative : InSpec(host[h])  BY DEF Speculative, InSpec
  <2>2. \A g, h \in Speculative : g = h  BY <1>1, <2>1 DEF Apart, Speculative
  <2>3. CASE Speculative = {}
    <3>1. Cardinality(Speculative) = 0  BY <2>3, FS_EmptySet
    <3> QED  BY <3>1
  <2>4. CASE Speculative # {}
    <3>1. PICK h : Speculative = {h}  BY <2>2, <2>4
    <3>2. Cardinality({h}) = 1  BY FS_Singleton
    <3> QED  BY <3>1, <3>2
  <2> QED  BY <2>3, <2>4
<1>6. bad \subseteq BrokenChecks  BY <1>1 DEF Types
<1> QED  BY <1>2, <1>3, <1>4, <1>5, <1>6 DEF ChecksHold, TypeOK

\* ChecksHold: whatever the two sides send at the same time, no host but one is active, no check
\* of the browser or of a renderer fails and no renderer is killed for what it was right to send,
\* but for the three checks of same-document navigations (BrokenChecks) that the code does break:
\* a refusal finds no request, a navigation that was carried out finds one, and a navigation in
\* the history finds another document.
THEOREM ChecksAlwaysHold == Spec => []ChecksHold
<1>1. Core => ChecksHold  BY CoreChecks
<1> QED  BY <1>1, CoreCorrect, PTL

\* What a channel of typed messages holds, in the words of the property.
LEMMA HeldIsHas ==
  ASSUME NEW c \in [Hosts -> Seq(Messages)], NEW h \in Hosts, NEW types, NEW n
  PROVE  Holds(c[h], Of(types, {n})) => Has(c, h, types, n)
<1>1. \A i \in DOMAIN c[h] : c[h][i] \in Messages
  <2>1. c[h] \in Seq(Messages)  OBVIOUS
  <2> QED  BY <2>1, ElementOfSeq, LenProperties
<1> QED  BY <1>1, MessageFacts DEF Holds, Has

\* The invariant says what RequestsAreInFlight does.
LEMMA CoreInFlight ==
  ASSUME Core
  PROVE  RequestsAreInFlight
<1>1. /\ down \in [Hosts -> Seq(Messages)] /\ up \in [Hosts -> Seq(Messages)]
      /\ host \in [Hosts -> HostRecs]
  BY DEF Core, Types
<1>2. ASSUME NEW h \in Hosts, host[h].live, NEW n \in Navs
      PROVE  /\ n \in host[h].requests =>
                  \/ Has(down, h, {"commit"}, n) \/ Has(up, h, {"didCommit", "disconnected"}, n)
                  \/ frame[h].mhtml = n
                  \/ frame[h].client = n /\ n \in swallowed
             /\ n \in host[h].same =>
                  Has(down, h, {"same"}, n) \/ Has(up, h, {"processed"}, n)
  <2>1. Tokens(host[h], frame[h], down[h], up[h], swallowed, n)  BY <1>2 DEF Core, Clients
  <2>2. /\ Holds(down[h], AskOf(n)) => Has(down, h, {"commit"}, n)
        /\ Holds(up[h], ReturnOf(n)) => Has(up, h, {"didCommit", "disconnected"}, n)
        /\ Holds(down[h], SameOf(n)) => Has(down, h, {"same"}, n)
        /\ Holds(up[h], AnswerOf(n)) => Has(up, h, {"processed"}, n)
    BY <1>1, HeldIsHas DEF AskOf, ReturnOf, SameOf, AnswerOf, One
  <2> QED  BY <2>1, <2>2, ThenHolds DEF Tokens
<1>3. \A h \in Hosts : host[h].requests \subseteq Navs /\ host[h].same \subseteq Navs
  BY <1>1 DEF HostRecs
<1> QED  BY <1>2, <1>3 DEF RequestsAreInFlight

\* RequestsAreInFlight: what navigation_requests_ and same_document_navigation_requests_ of a live
\* host hold is always still to be answered, or swallowed by a page that holds galaxies.
THEOREM RequestsAlwaysInFlight == Spec => []RequestsAreInFlight
<1>1. Core => RequestsAreInFlight  BY CoreInFlight
<1> QED  BY <1>1, CoreCorrect, PTL

-----------------------------------------------------------------------------
(* What the browser will show, and whether it will show that it loads.     *)

Reports == All({"didCommit", "didCommitSame"})
Stops == All({"stopped"})
Turns == All({"didCommit", "didCommitSame", "disconnected", "stopped"})
CommitsTo(n) == {m \in Commits : m.n = n}
ReportsOf(n) == {m \in Reports : m.n = n}

\* The last of the messages of T in q is in S; a reader who takes none of them has b already.
Tells(q, T, S, b) == IF Holds(q, T) THEN LastIs(q, T, S) ELSE b

\* The frame f has an answer or the end of a load still to send.
Busy(f, d) ==
    \/ IsLoading(f) \/ f.mhtml # 0 \/ Holds(d, Sames)
    \/ \E n \in Navs : Then(d, BindOf(n), AskOf(n)) \/ (f.client = n /\ Holds(d, AskOf(n)))

\* Once it has read u, the browser shows the document and the position of the frame in the tree;
\* it shows that nothing loads, unless the frame is busy.
Told(s, f, d, u) ==
    /\ f.life = "attached" => /\ Tells(u, Commits, CommitsTo(f.dsn), s.dsn = f.dsn)
                              /\ Tells(u, Reports, ReportsOf(f.pos), s.pos = f.pos)
    /\ Busy(f, d) \/ Tells(u, Turns, Stops, ~s.loading)

AllTold == \A h \in Hosts : host[h].live => Told(host[h], frame[h], down[h], up[h])

\* What ms tells a browser that reads it after it knows of the document k and the position p.
Says(ms, k, k2, p, p2) ==
    /\ ms \in Seq(Messages)
    /\ IF Holds(ms, Commits) THEN LastIs(ms, Commits, CommitsTo(k2)) ELSE k2 = k
    /\ IF Holds(ms, Reports) THEN LastIs(ms, Reports, ReportsOf(p2)) ELSE p2 = p

\* ms says nothing of documents and positions.
Silent(ms) == ms \in Seq(Messages) /\ ~Holds(ms, Commits) /\ ~Holds(ms, Reports)

\* The last thing that ms says of loads is that they stopped.
EndsStill(ms) == LastIs(ms, Turns, Stops)

\* When a message is a report of a commit, or of the end of a load, or of neither.
LEMMA TurnClasses ==
  ASSUME NEW m \in Messages
  PROVE  /\ m \in Commits <=> m.type = "didCommit"
         /\ m \in Reports <=> m.type \in {"didCommit", "didCommitSame"}
         /\ m \in Stops <=> m.type = "stopped"
         /\ m \in Turns <=> m.type \in {"didCommit", "didCommitSame", "disconnected", "stopped"}
         /\ \A n : /\ m \in CommitsTo(n) <=> m.type = "didCommit" /\ m.n = n
                   /\ m \in ReportsOf(n) <=> m.type \in {"didCommit", "didCommitSame"} /\ m.n = n
<1>1. \A types, ns : m \in Of(types, ns) <=> m.type \in types /\ m.n \in ns  BY MessageFacts
<1>2. m.n \in Nums  BY MessageFacts
<1> QED  BY <1>1, <1>2 DEF Commits, Reports, Stops, Turns, CommitsTo, ReportsOf, All

\* What is the last message of a class is one of the class.
LEMMA LastHolds ==
  ASSUME NEW q \in Seq(Messages)
  PROVE  \A n : /\ LastIs(q, Commits, CommitsTo(n)) => Holds(q, Commits)
                /\ LastIs(q, Reports, ReportsOf(n)) => Holds(q, Reports)
                /\ LastIs(q, Turns, Stops) => Holds(q, Turns)
<1>1. \A T, S : LastIs(q, T, S) => Holds(q, S)  BY DEF LastIs, Holds
<1>2. \A i \in DOMAIN q : q[i] \in Messages  BY ElementOfSeq, LenProperties
<1> QED  BY <1>1, <1>2, TurnClasses DEF Holds

\* A message that is sent alone, perhaps.
LEMMA SaidAlone ==
  ASSUME NEW m \in Messages
  PROVE  /\ <<m>> \in Seq(Messages)
         /\ m.type \notin {"didCommit", "didCommitSame"} => Silent(<<m>>)
         /\ m.type = "stopped" => EndsStill(<<m>>)
         /\ m.type \notin {"didCommit", "didCommitSame", "disconnected", "stopped"} => ~Holds(<<m>>, Turns)
         /\ \A k, p : m.type = "didCommit" => Says(<<m>>, k, m.n, p, m.n)
         /\ \A k, p : m.type = "didCommitSame" => Says(<<m>>, k, k, p, m.n)
<1>1. <<m>> \in Seq(Messages)  OBVIOUS
<1> QED  BY <1>1, TurnClasses, Short DEF Silent, EndsStill, Says

\* A frame that sends nothing.
LEMMA SaidNothing ==
  Silent(<<>>) /\ ~Holds(<<>>, Turns)
<1>1. <<>> \in Seq(Messages)  BY EmptySeq
<1> QED  BY <1>1, Short DEF Silent

\* What two runs of messages say, the second after the first.
LEMMA SaidTogether ==
  ASSUME NEW a \in Seq(Messages), NEW b \in Seq(Messages)
  PROVE  /\ a \o b \in Seq(Messages)
         /\ Silent(a) /\ Silent(b) => Silent(a \o b)
         /\ EndsStill(b) => EndsStill(a \o b)
         /\ EndsStill(a) /\ ~Holds(b, Turns) => EndsStill(a \o b)
         /\ ~Holds(a, Turns) /\ ~Holds(b, Turns) => ~Holds(a \o b, Turns)
         /\ \A k, k2, p, p2 : /\ Silent(a) /\ Says(b, k, k2, p, p2) => Says(a \o b, k, k2, p, p2)
                              /\ Says(a, k, k2, p, p2) /\ Silent(b) => Says(a \o b, k, k2, p, p2)
<1> DEFINE c == a \o b
<1>1. c \in Seq(Messages) /\ Joins(c, a, b)  BY Concat
<1> HIDE DEF c
<1>2. /\ \A S : Holds(c, S) <=> Holds(a, S) \/ Holds(b, S)
      /\ \A S, T : LastIs(c, T, S) <=> LastIs(b, T, S) \/ (~Holds(b, T) /\ LastIs(a, T, S))
  BY <1>1 DEF Joins
<1>3. c \in Seq(Messages)
         /\ (Silent(a) /\ Silent(b) => Silent(c))
         /\ (EndsStill(b) => EndsStill(c))
         /\ (EndsStill(a) /\ ~Holds(b, Turns) => EndsStill(c))
         /\ (~Holds(a, Turns) /\ ~Holds(b, Turns) => ~Holds(c, Turns))
  BY <1>1, <1>2 DEF Silent, EndsStill
<1>4. ASSUME NEW k, NEW k2, NEW p, NEW p2
      PROVE  /\ Silent(a) /\ Says(b, k, k2, p, p2) => Says(c, k, k2, p, p2)
             /\ Says(a, k, k2, p, p2) /\ Silent(b) => Says(c, k, k2, p, p2)
  BY <1>1, <1>2 DEF Silent, Says
<1> QED  BY <1>3, <1>4 DEF c

\* Closed: the end of a client, if there is one.
LEMMA SaidClosed ==
  ASSUME NEW n \in Nums
  PROVE  Silent(Closed(n)) /\ (n = 0 => ~Holds(Closed(n), Turns))
<1>1. CASE n = 0
  <2>1. Closed(n) = <<>>  BY <1>1 DEF Closed, OneIf
  <2> QED  BY <2>1, SaidNothing
<1>2. CASE n # 0
  <2>1. Closed(n) = <<Msg("disconnected", n)>>  BY <1>2 DEF Closed, OneIf
  <2>2. Msg("disconnected", n) \in Messages /\ Msg("disconnected", n).type = "disconnected"
    BY ClosedMessage
  <2> QED  BY <1>2, <2>1, <2>2, SaidAlone
<1> QED  BY <1>1, <1>2

\* Stopped: the frame says that it stopped loading, if nothing loads.
LEMMA SaidStopped ==
  ASSUME NEW f
  PROVE  /\ Silent(Stopped(f)) /\ (~IsLoading(f) => EndsStill(Stopped(f)))
         /\ IsLoading(f) => ~Holds(Stopped(f), Turns)
<1>1. CASE IsLoading(f)
  <2>1. Stopped(f) = <<>>  BY <1>1 DEF Stopped, OneIf
  <2> QED  BY <1>1, <2>1, SaidNothing
<1>2. CASE ~IsLoading(f)
  <2>1. Stopped(f) = <<Msg("stopped", 0)>>  BY <1>2 DEF Stopped, OneIf
  <2> QED  BY <1>2, <2>1, StoppedMessage, SaidAlone
<1> QED  BY <1>1, <1>2

\* A frame f becomes f2, which sends ms: the host s is still told of it.
LEMMA FrameTells ==
  ASSUME NEW s, NEW f, NEW f2, NEW d, NEW d2, NEW u \in Seq(Messages), NEW ms \in Seq(Messages),
         Told(s, f, d, u),
         f2.life = "attached" =>
            \/ LastIs(ms, Commits, CommitsTo(f2.dsn)) /\ LastIs(ms, Reports, ReportsOf(f2.pos))
            \/ f.life = "attached" /\ Says(ms, f.dsn, f2.dsn, f.pos, f2.pos),
         Busy(f2, d2) \/ EndsStill(ms) \/ (~Holds(ms, Turns) /\ ~Busy(f, d))
  PROVE  Told(s, f2, d2, u \o ms)
<1> DEFINE c == u \o ms
<1>1. Joins(c, u, ms)  BY Concat
<1> HIDE DEF c
<1>2. /\ \A S : Holds(c, S) <=> Holds(u, S) \/ Holds(ms, S)
      /\ \A S, T : LastIs(c, T, S) <=> LastIs(ms, T, S) \/ (~Holds(ms, T) /\ LastIs(u, T, S))
  BY <1>1 DEF Joins
<1>3. \A n : /\ LastIs(ms, Commits, CommitsTo(n)) => Holds(ms, Commits)
             /\ LastIs(ms, Reports, ReportsOf(n)) => Holds(ms, Reports)
             /\ LastIs(ms, Turns, Stops) => Holds(ms, Turns)
  BY LastHolds
<1>5. ASSUME f2.life = "attached"
      PROVE  /\ Tells(c, Commits, CommitsTo(f2.dsn), s.dsn = f2.dsn)
             /\ Tells(c, Reports, ReportsOf(f2.pos), s.pos = f2.pos)
  <2>1. CASE LastIs(ms, Commits, CommitsTo(f2.dsn)) /\ LastIs(ms, Reports, ReportsOf(f2.pos))
    BY <1>2, <1>3, <2>1 DEF Tells
  <2>2. CASE f.life = "attached" /\ Says(ms, f.dsn, f2.dsn, f.pos, f2.pos)
    BY <1>2, <1>3, <2>2 DEF Told, Tells, Says
  <2> QED  BY <1>5, <2>1, <2>2
<1>6. Busy(f2, d2) \/ Tells(c, Turns, Stops, ~s.loading)
  BY <1>2, <1>3 DEF Told, Tells, EndsStill
<1> QED  BY <1>5, <1>6 DEF Told, c

\* The browser changes what it shows, or takes the head m of what was sent.
LEMMA HostIsTold ==
  ASSUME NEW s, NEW s2, NEW f, NEW d, NEW d2, NEW u,
         Told(s, f, d, u), s2.dsn = s.dsn, s2.pos = s.pos,
         Busy(f, d) => Busy(f, d2), s2.loading => s.loading \/ Busy(f, d2) \/ Holds(u, Turns)
  PROVE  Told(s2, f, d2, u)
  BY DEF Told, Tells

\* The browser takes the head m of what the frame f of s sent, and s becomes s2, as m tells it.
LEMMA HostHears ==
  ASSUME NEW s, NEW s2, NEW f, NEW d, NEW d2, NEW u, NEW m, NEW r, Pops(u, m, r),
         Told(s, f, d, u), Busy(f, d) => Busy(f, d2),
         s2.dsn = IF m.type = "didCommit" THEN m.n ELSE s.dsn,
         s2.pos = IF m.type \in {"didCommit", "didCommitSame"} THEN m.n ELSE s.pos,
         s2.loading => m.type # "stopped" /\ (s.loading \/ m.type \in {"didCommit", "didCommitSame"})
  PROVE  Told(s2, f, d2, r)
<1>1. /\ m \in Messages
      /\ \A S : Holds(u, S) <=> m \in S \/ Holds(r, S)
      /\ \A S, T : LastIs(u, T, S) <=> LastIs(r, T, S) \/ (~Holds(r, T) /\ m \in S)
  BY DEF Pops
<1>2. /\ m \in Commits <=> m.type = "didCommit"
      /\ m \in Reports <=> m.type \in {"didCommit", "didCommitSame"}
      /\ m \in Stops <=> m.type = "stopped"
      /\ m \in Turns <=> m.type \in {"didCommit", "didCommitSame", "disconnected", "stopped"}
      /\ \A n : /\ m \in CommitsTo(n) <=> m.type = "didCommit" /\ m.n = n
                /\ m \in ReportsOf(n) <=> m.type \in {"didCommit", "didCommitSame"} /\ m.n = n
  BY <1>1, TurnClasses
<1>3. r \in Seq(Messages)  BY DEF Pops
<1>4. ASSUME f.life = "attached"
      PROVE  /\ Tells(r, Commits, CommitsTo(f.dsn), s2.dsn = f.dsn)
             /\ Tells(r, Reports, ReportsOf(f.pos), s2.pos = f.pos)
  BY <1>1, <1>2, <1>3, <1>4, LastHolds DEF Told, Tells
<1>5. Busy(f, d2) \/ Tells(r, Turns, Stops, ~s2.loading)
  BY <1>1, <1>2, <1>3, LastHolds DEF Told, Tells
<1> QED  BY <1>4, <1>5 DEF Told

-----------------------------------------------------------------------------
(* What the steps of the renderers tell of it.                             *)

\* Messages that are silent leave the document and the position what they were.
LEMMA SilentSays == \A ms, k, p : Silent(ms) => Says(ms, k, k, p, p)
  BY DEF Silent, Says

\* A step of h's frame that sends ms and becomes f2.
LEMMA ReportTells ==
  ASSUME Core, AllTold, NEW h \in Hosts, NEW f2, NEW ms \in Seq(Messages), Report(h, f2, ms),
         host' = host, \A g \in Hosts \ {h} : down'[g] = down[g],
         host[h].live /\ f2.life = "attached" =>
            \/ LastIs(ms, Commits, CommitsTo(f2.dsn)) /\ LastIs(ms, Reports, ReportsOf(f2.pos))
            \/ /\ frame[h].life = "attached"
               /\ Says(ms, frame[h].dsn, f2.dsn, frame[h].pos, f2.pos),
         host[h].live => Busy(f2, down'[h]) \/ EndsStill(ms)
  PROVE  AllTold'
<1>1. /\ frame'[h] = f2 /\ up'[h] = up[h] \o ms /\ up[h] \in Seq(Messages)
      /\ \A g \in Hosts \ {h} : frame'[g] = frame[g] /\ up'[g] = up[g]
  <2>1. frame \in [Hosts -> FrameRecs] /\ up \in [Hosts -> Seq(Messages)]  BY DEF Core, Types
  <2>2. frame' = [frame EXCEPT ![h] = f2] /\ up' = [up EXCEPT ![h] = up[h] \o ms]
    BY <2>1 DEF Report, Send
  <2> QED  BY <2>1, <2>2
<1>2. ASSUME host[h].live PROVE Told(host[h], f2, down'[h], up[h] \o ms)
  <2>1. Told(host[h], frame[h], down[h], up[h])  BY <1>2 DEF AllTold
  <2> QED  BY <1>1, <1>2, <2>1, FrameTells
<1>3. ASSUME NEW g \in Hosts, host[g].live PROVE Told(host[g], frame'[g], down'[g], up'[g])
  <2>1. CASE g = h  BY <1>1, <1>2, <1>3, <2>1
  <2>2. CASE g # h
    <3>1. Told(host[g], frame[g], down[g], up[g])  BY <1>3 DEF AllTold
    <3> QED  BY <1>1, <2>2, <3>1
  <2> QED  BY <2>1, <2>2
<1>4. ASSUME NEW g \in Hosts, host'[g].live PROVE Told(host[g], frame[g], down[g], up[g])'
  BY <1>3, <1>4 DEF Told, Tells, Busy
<1> QED  BY <1>4 DEF AllTold

\* A step of h's frame that takes a message, does not change and sends nothing.
LEMMA IgnoredTells ==
  ASSUME Core, AllTold, NEW h \in Hosts, UNCHANGED <<host, frame, up>>,
         \A g \in Hosts \ {h} : down'[g] = down[g],
         host[h].live /\ Busy(frame[h], down[h]) => Busy(frame[h], down'[h])
  PROVE  AllTold'
<1>1. ASSUME NEW g \in Hosts, host[g].live PROVE Told(host[g], frame[g], down'[g], up[g])
  <2>1. Told(host[g], frame[g], down[g], up[g])  BY <1>1 DEF AllTold
  <2>2. CASE g = h  BY <1>1, <2>1, <2>2 DEF Told
  <2>3. CASE g # h  BY <2>1, <2>3
  <2> QED  BY <2>2, <2>3
<1>2. ASSUME NEW g \in Hosts, host'[g].live PROVE Told(host[g], frame[g], down[g], up[g])'
  BY <1>1, <1>2 DEF Told, Tells, Busy
<1> QED  BY <1>2 DEF AllTold

\* Bind: the request to commit is behind the client, so the frame has an answer to send.
LEMMA BindTells ==
  ASSUME Core, AllTold, NEW h \in Hosts, Bind(h)
  PROVE  AllTold'
<1> DEFINE f == frame[h]
           d == down[h]
           d2 == down'[h]
           m == Head(down[h])
           x == [f EXCEPT !.client = m.n]
<1>1. /\ Types /\ Lives(h, host[h], f, d, up[h]) /\ f \in FrameRecs
      /\ \A n \in Navs : host[h].live => Tokens(host[h], f, d, up[h], swallowed, n)
  BY Situation
<1>2. /\ DownPops(d, m, d2) /\ m.type = "bind" /\ m.n \in Nums
      /\ \A g \in Hosts \ {h} : down'[g] = down[g]
  BY <1>1, Received DEF Bind
<1>3. Report(h, x, Closed(f.client)) /\ host' = host  BY DEF Bind, rendererOnly
<1> HIDE DEF m, f
<1>4. x.life = f.life /\ x.dsn = f.dsn /\ x.pos = f.pos /\ x.client = m.n /\ f.client \in Nums
  BY <1>1, <1>2 DEF FrameRecs
<1> HIDE DEF d, d2, x
<1>5. Silent(Closed(f.client))  BY <1>4, SaidClosed
<1>6. ASSUME host[h].live PROVE Busy(x, d2)
  <2>1. m.n # 0  BY <1>1, <1>2 DEF Lives, ChannelsLive, DownPops
  <2>2. m.n \in Navs  BY <1>2, <2>1, NavigationAssumption DEF Nums, Navs
  <2>3. Holds(d, BindOf(m.n))  BY <1>2, <2>2 DEF DownPops
  <2>4. Then(d, BindOf(m.n), AskOf(m.n))  BY <1>1, <1>6, <2>2, <2>3 DEF Tokens
  <2>5. Then(d2, BindOf(m.n), AskOf(m.n)) \/ Holds(d2, AskOf(m.n))  BY <1>2, <2>2, <2>4 DEF DownPops
  <2> QED  BY <1>4, <2>2, <2>5 DEF Busy
<1>7. Says(Closed(f.client), f.dsn, x.dsn, f.pos, x.pos) /\ Closed(f.client) \in Seq(Messages)
  BY <1>4, <1>5, SilentSays DEF Silent
<1> QED  BY <1>2, <1>3, <1>4, <1>6, <1>7, ReportTells DEF d2, f

\* The report of a commit.
LEMMA SaidCommit ==
  ASSUME NEW n \in Nums, NEW h, NEW a \in DidCommitArgs(h)
  PROVE  LET ms == <<[Msg("didCommit", n) EXCEPT !.arg = a]>> IN
         /\ ms \in Seq(Messages)
         /\ LastIs(ms, Commits, CommitsTo(n)) /\ LastIs(ms, Reports, ReportsOf(n))
<1> DEFINE t == "didCommit"
           m == [Msg(t, n) EXCEPT !.arg = a]
<1>1. a \in Args /\ t \in DownTypes \cup UpTypes  BY DEF DidCommitArgs, Args, UpTypes
<1>2. t = "didCommit"  OBVIOUS
<1> HIDE DEF t
<1>3. m \in Messages /\ m.type = t /\ m.n = n  BY ONLY <1>1, n \in Nums, WithArg
<1> HIDE DEF m
<1>4. m \in CommitsTo(n) /\ m \in ReportsOf(n)  BY <1>2, <1>3, TurnClasses
<1>5. <<m>> \in Seq(Messages)  BY <1>3
<1>6. LastIs(<<m>>, Commits, CommitsTo(n)) /\ LastIs(<<m>>, Reports, ReportsOf(n))
  BY <1>4, Short
<1> QED  BY <1>2, <1>5, <1>6 DEF m

\* What comes before a report of a commit does not count.
LEMMA SaidAtLast ==
  ASSUME NEW a \in Seq(Messages), NEW b \in Seq(Messages), NEW n,
         LastIs(b, Commits, CommitsTo(n)) /\ LastIs(b, Reports, ReportsOf(n))
  PROVE  /\ a \o b \in Seq(Messages)
         /\ LastIs(a \o b, Commits, CommitsTo(n)) /\ LastIs(a \o b, Reports, ReportsOf(n))
  BY Concat DEF Joins

\* Commit: the frame reports the document that replaces its own, waits for its body, or says at
\* once that nothing loads.
LEMMA CommitTells ==
  ASSUME Core, AllTold, NEW h \in Hosts, Commit(h)
  PROVE  AllTold'
<1> DEFINE f == frame[h]
           d == down[h]
           d2 == down'[h]
           m == Head(down[h])
<1>1. /\ Types /\ Lives(h, host[h], f, d, up[h]) /\ f \in FrameRecs
      /\ \A n \in Navs : host[h].live => Tokens(host[h], f, d, up[h], swallowed, n)
  BY Situation
<1>2. /\ DownPops(d, m, d2) /\ m.type = "commit" /\ m.n \in Nums
      /\ \A g \in Hosts \ {h} : down'[g] = down[g]
  BY <1>1, Received DEF Commit
<1>3. m.n # 0
  <2> HIDE DEF f, d, d2, m
  <2> QED  BY <1>1, <1>2 DEF Lives, ChannelsLive, DownPops
<1>4. host' = host  BY DEF Commit, rendererOnly
<1>5. f.client \in Nums /\ f.mhtml \in Nums  BY <1>1 DEF FrameRecs
<1>6. Silent(Closed(f.mhtml))  BY <1>5, SaidClosed
<1>7. CASE f.client # m.n /\ UNCHANGED <<frame, up>>
  <2>1. Busy(f, d) => Busy(f, d2)
    <3> HIDE DEF f, d, d2, m
    <3> QED  BY <1>2, <1>7 DEF Busy, DownPops
  <2> QED  BY <1>2, <1>4, <1>7, <2>1, IgnoredTells
<1>8. CASE Report(h, f, Stopped(f))
  <2>1. Silent(Stopped(f)) /\ (~IsLoading(f) => EndsStill(Stopped(f)))  BY SaidStopped
  <2>2. Busy(f, d2) \/ EndsStill(Stopped(f))  BY <2>1 DEF Busy
  <2>3. Says(Stopped(f), f.dsn, f.dsn, f.pos, f.pos) /\ Stopped(f) \in Seq(Messages)
    BY <2>1, SilentSays DEF Silent
  <2> QED  BY <1>2, <1>4, <1>8, <2>2, <2>3, ReportTells
<1>9. CASE Report(h, [f EXCEPT !.client = 0, !.mhtml = m.n], Closed(f.mhtml))
  <2> DEFINE x == [f EXCEPT !.client = 0, !.mhtml = m.n]
  <2>1. x.life = f.life /\ x.dsn = f.dsn /\ x.pos = f.pos /\ x.mhtml = m.n
    <3> HIDE DEF f, m
    <3> QED  BY <1>1 DEF FrameRecs
  <2>2. Report(h, x, Closed(f.mhtml))  BY <1>9
  <2> HIDE DEF x
  <2>3. Busy(x, d2)  BY <1>3, <2>1 DEF Busy
  <2>4. Says(Closed(f.mhtml), f.dsn, x.dsn, f.pos, x.pos) /\ Closed(f.mhtml) \in Seq(Messages)
    BY <1>6, <2>1, SilentSays DEF Silent
  <2> QED  BY <1>2, <1>4, <2>1, <2>2, <2>3, <2>4, ReportTells
<1>10. ASSUME NEW a \in DidCommitArgs(h),
              Report(h, Committed(h, m.n),
                     Closed(f.mhtml) \o <<[Msg("didCommit", m.n) EXCEPT !.arg = a]>>)
       PROVE  AllTold'
  <2> DEFINE x == Committed(h, m.n)
             b == <<[Msg("didCommit", m.n) EXCEPT !.arg = a]>>
             ms == Closed(f.mhtml) \o b
  <2>1. x.dsn = m.n /\ x.pos = m.n /\ x.docLoading
    <3>1. x = [f EXCEPT !.life = "attached", !.client = 0, !.mhtml = 0, !.nav = 0,
                        !.docLoading = TRUE, !.initial = FALSE, !.dsn = m.n, !.pos = m.n]
      BY DEF Committed
    <3> HIDE DEF f, m, x
    <3> QED  BY <1>1, <3>1 DEF FrameRecs
  <2>2. Report(h, x, ms)  BY <1>10
  <2>3. /\ b \in Seq(Messages)
        /\ LastIs(b, Commits, CommitsTo(m.n)) /\ LastIs(b, Reports, ReportsOf(m.n))
    BY <1>2, SaidCommit
  <2>4. Closed(f.mhtml) \in Seq(Messages)  BY <1>6 DEF Silent
  <2> HIDE DEF x, b
  <2>5. /\ ms \in Seq(Messages)
        /\ LastIs(ms, Commits, CommitsTo(m.n)) /\ LastIs(ms, Reports, ReportsOf(m.n))
    BY <2>3, <2>4, SaidAtLast
  <2> HIDE DEF ms
  <2>6. Busy(x, d2)  BY <2>1 DEF Busy, IsLoading
  <2> QED  BY <1>2, <1>4, <2>1, <2>2, <2>5, <2>6, ReportTells
<1> QED  BY <1>7, <1>8, <1>9, <1>10 DEF Commit

\* BodyLoadingFinished: the frame reports the document of the archive.
LEMMA BodyLoadingFinishedTells ==
  ASSUME Core, AllTold, NEW h \in Hosts, BodyLoadingFinished(h)
  PROVE  AllTold'
<1> DEFINE f == frame[h]
           n == f.mhtml
           x == [Committed(h, n) EXCEPT !.client = f.client]
<1>1. Types /\ f \in FrameRecs  BY Situation
<1>2. n \in Nums /\ down' = down /\ host' = host  BY <1>1 DEF FrameRecs, BodyLoadingFinished, rendererOnly
<1>3. PICK a \in DidCommitArgs(h) : Report(h, x, <<[Msg("didCommit", n) EXCEPT !.arg = a]>>)
  BY DEF BodyLoadingFinished
<1> DEFINE ms == <<[Msg("didCommit", n) EXCEPT !.arg = a]>>
<1>4. x.dsn = n /\ x.pos = n /\ x.docLoading
  <2>1. Committed(h, n) = [f EXCEPT !.life = "attached", !.client = 0, !.mhtml = 0, !.nav = 0,
                                    !.docLoading = TRUE, !.initial = FALSE, !.dsn = n, !.pos = n]
    BY DEF Committed
  <2> HIDE DEF f, n
  <2> QED  BY <1>1, <2>1 DEF FrameRecs
<1>5. /\ ms \in Seq(Messages)
      /\ LastIs(ms, Commits, CommitsTo(n)) /\ LastIs(ms, Reports, ReportsOf(n))
  BY <1>2, SaidCommit
<1>6. Report(h, x, ms)  BY <1>3
<1> HIDE DEF x, ms, n
<1>7. Busy(x, down'[h])  BY <1>4 DEF Busy, IsLoading
<1> QED  BY <1>2, <1>4, <1>5, <1>6, <1>7, ReportTells

\* A frame that is gone belongs to a host that does not live.
LEMMA GoneTells ==
  ASSUME Core, AllTold, NEW h \in Hosts, NEW t \in {"unload", "undo", "delete"}, Receive(h, t),
         NEW ms \in Seq(Messages), Report(h, Gone, ms), host' = host
  PROVE  AllTold'
<1>1. Types /\ Lives(h, host[h], frame[h], down[h], up[h])  BY Situation
<1>2. /\ DownPops(down[h], Head(down[h]), down'[h]) /\ Head(down[h]).type = t
      /\ \A g \in Hosts \ {h} : down'[g] = down[g]
  BY <1>1, Received
<1>3. Holds(down[h], Ends)  BY <1>2 DEF DownPops
<1>4. ~host[h].live  BY <1>1, <1>3 DEF Lives, HostLives
<1> QED  BY <1>2, <1>4, ReportTells

\* Unload, UndoCommitNavigation, Delete: the host of a frame that goes away is not live.
LEMMA UnloadTells ==
  ASSUME Core, AllTold, NEW h \in Hosts, Unload(h) \/ UndoCommitNavigation(h) \/ Delete(h)
  PROVE  AllTold'
<1> DEFINE t == "unloaded"
<1>1. host' = host  BY DEF Unload, UndoCommitNavigation, Delete, rendererOnly
<1>2. <<Msg("unloaded", 0)>> \in Seq(Messages) /\ <<>> \in Seq(Messages)
  <2>1. t \in DownTypes \cup UpTypes /\ 0 \in Nums  BY NavigationAssumption DEF UpTypes, Nums
  <2>2. Msg(t, 0) \in Messages
    <3> HIDE DEF t
    <3> QED  BY <2>1, Plain
  <2> QED  BY <2>2, EmptySeq
<1>3. CASE Unload(h)
  <2>1. Receive(h, "unload") /\ Report(h, Gone, <<Msg("unloaded", 0)>>)  BY <1>3 DEF Unload
  <2> QED  BY <1>1, <1>2, <2>1, GoneTells
<1>4. CASE UndoCommitNavigation(h)
  <2>1. Receive(h, "undo") /\ Report(h, Gone, <<>>)  BY <1>4 DEF UndoCommitNavigation
  <2> QED  BY <1>1, <1>2, <2>1, GoneTells
<1>5. CASE Delete(h)
  <2>1. Receive(h, "delete") /\ Report(h, Gone, <<>>)  BY <1>5 DEF Delete
  <2> QED  BY <1>1, <1>2, <2>1, GoneTells
<1> QED  BY <1>3, <1>4, <1>5

\* AbortClientNavigation: the frame says that nothing loads, if the document does not.
LEMMA AbortClientNavigationTells ==
  ASSUME Core, AllTold, NEW h \in Hosts, AbortClientNavigation(h)
  PROVE  AllTold'
<1> DEFINE f == frame[h]
           x == [f EXCEPT !.client = 0, !.mhtml = 0, !.nav = 0]
           a == Closed(f.mhtml)
           b == Closed(f.client)
           c == Stopped(x)
           ms == (a \o b) \o c
<1>1. Types /\ f \in FrameRecs  BY Situation
<1>2. Report(h, x, ms) /\ down' = down /\ host' = host
  BY DEF AbortClientNavigation, rendererOnly
<1>3. x.life = f.life /\ x.dsn = f.dsn /\ x.pos = f.pos /\ f.mhtml \in Nums /\ f.client \in Nums
  <2> HIDE DEF f
  <2> QED  BY <1>1 DEF FrameRecs
<1> HIDE DEF x
<1>4. Silent(a) /\ Silent(b)  BY <1>3, SaidClosed
<1>5. Silent(c) /\ (~IsLoading(x) => EndsStill(c))  BY SaidStopped
<1> HIDE DEF a, b, c
<1>6. a \o b \in Seq(Messages) /\ Silent(a \o b)  BY <1>4, SaidTogether DEF Silent
<1>7. Silent(ms) /\ (~IsLoading(x) => EndsStill(ms))
  <2>1. c \in Seq(Messages)  BY <1>5 DEF Silent
  <2> QED  BY <1>5, <1>6, <2>1, SaidTogether
<1> HIDE DEF ms
<1>8. Busy(x, down'[h]) \/ EndsStill(ms)  BY <1>7 DEF Busy
<1>9. ms \in Seq(Messages) /\ Says(ms, f.dsn, x.dsn, f.pos, x.pos)
  BY <1>3, <1>7, SilentSays DEF Silent
<1> QED  BY <1>2, <1>3, <1>8, <1>9, ReportTells

\* OnDroppedNavigation: the frame says that nothing loads, if the document does not.
LEMMA OnDroppedNavigationTells ==
  ASSUME Core, AllTold, NEW h \in Hosts, OnDroppedNavigation(h)
  PROVE  AllTold'
<1> DEFINE f == frame[h]
           m == Head(down[h])
           x == [f EXCEPT !.client = 0, !.nav = 0]
<1>1. Types /\ f \in FrameRecs  BY Situation
<1>2. /\ DownPops(down[h], m, down'[h]) /\ m.type = "dropped"
      /\ \A g \in Hosts \ {h} : down'[g] = down[g]
  BY <1>1, Received DEF OnDroppedNavigation
<1>3. host' = host  BY DEF OnDroppedNavigation, rendererOnly
<1>4. CASE UNCHANGED <<frame, up>>
  <2>1. Busy(f, down[h]) => Busy(f, down'[h])
    <3> HIDE DEF f, m
    <3> QED  BY <1>2 DEF Busy, DownPops
  <2> QED  BY <1>2, <1>3, <1>4, <2>1, IgnoredTells
<1>5. CASE Report(h, x, Stopped(x))
  <2>1. x.life = f.life /\ x.dsn = f.dsn /\ x.pos = f.pos
    <3> HIDE DEF f
    <3> QED  BY <1>1 DEF FrameRecs
  <2> HIDE DEF x
  <2>2. Silent(Stopped(x)) /\ (~IsLoading(x) => EndsStill(Stopped(x)))  BY SaidStopped
  <2>3. Busy(x, down'[h]) \/ EndsStill(Stopped(x))  BY <2>2 DEF Busy
  <2>4. Stopped(x) \in Seq(Messages) /\ Says(Stopped(x), f.dsn, x.dsn, f.pos, x.pos)
    BY <2>1, <2>2, SilentSays DEF Silent
  <2> QED  BY <1>2, <1>3, <1>5, <2>1, <2>3, <2>4, ReportTells
<1> QED  BY <1>4, <1>5 DEF OnDroppedNavigation

\* DidStopLoadingDocument: the frame says that nothing loads, if it does not navigate.
LEMMA DidStopLoadingDocumentTells ==
  ASSUME Core, AllTold, NEW h \in Hosts, DidStopLoadingDocument(h)
  PROVE  AllTold'
<1> DEFINE f == frame[h]
           x == [f EXCEPT !.docLoading = FALSE]
<1>1. Types /\ f \in FrameRecs  BY Situation
<1>2. Report(h, x, Stopped(x)) /\ down' = down /\ host' = host
  BY DEF DidStopLoadingDocument, rendererOnly
<1>3. x.life = f.life /\ x.dsn = f.dsn /\ x.pos = f.pos
  <2> HIDE DEF f
  <2> QED  BY <1>1 DEF FrameRecs
<1> HIDE DEF x
<1>4. Silent(Stopped(x)) /\ (~IsLoading(x) => EndsStill(Stopped(x)))  BY SaidStopped
<1>5. Busy(x, down'[h]) \/ EndsStill(Stopped(x))  BY <1>4 DEF Busy
<1>6. Stopped(x) \in Seq(Messages) /\ Says(Stopped(x), f.dsn, x.dsn, f.pos, x.pos)
  BY <1>3, <1>4, SilentSays DEF Silent
<1> QED  BY <1>2, <1>3, <1>5, <1>6, ReportTells

\* SynchronouslyCommitAboutBlankForBug778318: the frame reports about:blank, and that nothing loads.
LEMMA SynchronouslyCommitAboutBlankForBug778318Tells ==
  ASSUME Core, AllTold, NEW h \in Hosts, SynchronouslyCommitAboutBlankForBug778318(h)
  PROVE  AllTold'
<1> DEFINE f == frame[h]
           x == [f EXCEPT !.started = TRUE, !.dsn = 0, !.pos = 0]
           m1 == [Msg("didCommit", 0) EXCEPT !.arg = "same global"]
           m2 == Msg("stopped", 0)
           ms == <<m1>> \o <<m2>>
<1>1. Types /\ f \in FrameRecs  BY Situation
<1>2. /\ m1 \in Messages /\ m1.type = "didCommit" /\ m1.n = 0
      /\ m2 \in Messages /\ m2.type = "stopped"
  BY GlobalMessage, StoppedMessage
<1>3. Report(h, x, <<m1, m2>>) /\ down' = down /\ host' = host /\ f.life = "attached"
  BY DEF SynchronouslyCommitAboutBlankForBug778318, rendererOnly, Attached
<1>4. x.dsn = 0 /\ x.pos = 0
  <2> HIDE DEF f
  <2> QED  BY <1>1 DEF FrameRecs
<1> HIDE DEF x, m1, m2
<1>5. Report(h, x, ms)  BY <1>2, <1>3, SentTogether
<1>6. /\ <<m1>> \in Seq(Messages) /\ Says(<<m1>>, f.dsn, 0, f.pos, 0)
      /\ <<m2>> \in Seq(Messages) /\ Silent(<<m2>>) /\ EndsStill(<<m2>>)
  BY <1>2, SaidAlone
<1>7. ms \in Seq(Messages) /\ Says(ms, f.dsn, x.dsn, f.pos, x.pos) /\ EndsStill(ms)
  BY <1>4, <1>6, SaidTogether
<1> HIDE DEF ms
<1> QED  BY <1>3, <1>5, <1>7, ReportTells

\* BeginNavigationInternal: the frame waits for its navigation, and so is busy.
LEMMA BeginNavigationInternalTells ==
  ASSUME Core, AllTold, NEW h \in Hosts, BeginNavigationInternal(h)
  PROVE  AllTold'
<1> DEFINE f == frame[h]
           x == [f EXCEPT !.client = next, !.nav = next, !.mhtml = 0, !.started = TRUE]
           m == Msg("begin", next)
           a == Closed(f.client)
           b == Closed(f.mhtml)
           ms == (a \o b) \o <<m>>
<1>1. Types /\ f \in FrameRecs  BY Situation
<1>2. Report(h, x, ms) /\ down' = down /\ host' = host
  BY DEF BeginNavigationInternal, rendererOnly
<1>3. next \in Nums /\ next # 0
  <2>1. NewNavigation(h, Kinds[next])  BY DEF BeginNavigationInternal
  <2>2. next \in Int /\ (next + crashes <= MaxNavs => next \in Navs)  BY <1>1, NextInRange
  <2> QED  BY <2>1, <2>2, NavsArePositive DEF NewNavigation
<1>4. /\ x.life = f.life /\ x.dsn = f.dsn /\ x.pos = f.pos /\ x.nav = next
      /\ f.mhtml \in Nums /\ f.client \in Nums
  <2> HIDE DEF f
  <2> QED  BY <1>1 DEF FrameRecs
<1> HIDE DEF x
<1>5. m \in Messages /\ m.type = "begin"
  <2>1. "begin" \in DownTypes \cup UpTypes  BY DEF UpTypes
  <2> QED  BY <1>3, <2>1, Plain
<1> HIDE DEF m
<1>6. Silent(a) /\ Silent(b)  BY <1>4, SaidClosed
<1>7. Silent(<<m>>)  BY <1>5, SaidAlone
<1> HIDE DEF a, b
<1>8. a \o b \in Seq(Messages) /\ Silent(a \o b)  BY <1>6, SaidTogether DEF Silent
<1>9. Silent(ms)
  <2>1. <<m>> \in Seq(Messages)  BY <1>7 DEF Silent
  <2> QED  BY <1>7, <1>8, <2>1, SaidTogether
<1> HIDE DEF ms
<1>10. Busy(x, down'[h])  BY <1>3, <1>4 DEF Busy, IsLoading
<1>11. ms \in Seq(Messages) /\ Says(ms, f.dsn, x.dsn, f.pos, x.pos)
  BY <1>4, <1>9, SilentSays DEF Silent
<1> QED  BY <1>2, <1>4, <1>10, <1>11, ReportTells

\* The report of a commit within the document.
LEMMA SaidSame ==
  ASSUME NEW n \in Nums, NEW url \in Args
  PROVE  /\ <<[Msg("didCommitSame", n) EXCEPT !.arg = url]>> \in Seq(Messages)
         /\ \A k, p : Says(<<[Msg("didCommitSame", n) EXCEPT !.arg = url]>>, k, k, p, n)
<1> DEFINE t == "didCommitSame"
           m == [Msg(t, n) EXCEPT !.arg = url]
<1>1. t \in DownTypes \cup UpTypes /\ t = "didCommitSame"  BY DEF UpTypes
<1> HIDE DEF t
<1>2. m \in Messages /\ m.type = t /\ m.n = n  BY <1>1, WithArg
<1> HIDE DEF m
<1>3. <<m>> \in Seq(Messages) /\ \A k, p : Says(<<m>>, k, k, p, n)  BY <1>1, <1>2, SaidAlone
<1> QED  BY <1>1, <1>3 DEF m

\* DidFinishSameDocumentNavigation: the frame reports the position, and that nothing loads.
LEMMA DidFinishSameDocumentNavigationTells ==
  ASSUME Core, AllTold, NEW h \in Hosts, DidFinishSameDocumentNavigation(h)
  PROVE  AllTold'
<1> DEFINE f == frame[h]
           x == [f EXCEPT !.pos = next]
           a == <<Msg("didCommitSame", next)>>
           b == Stopped(f)
           ms == a \o b
<1>1. Types /\ f \in FrameRecs  BY Situation
<1>2. Report(h, x, ms) /\ down' = down /\ host' = host
  BY DEF DidFinishSameDocumentNavigation, rendererOnly
<1>3. next \in Nums
  <2>1. NewNavigation(h, {"same"})  BY DEF DidFinishSameDocumentNavigation
  <2>2. next \in Int /\ (next + crashes <= MaxNavs => next \in Navs)  BY <1>1, NextInRange
  <2> QED  BY <2>1, <2>2, NavsArePositive DEF NewNavigation
<1>4. /\ x.life = f.life /\ x.dsn = f.dsn /\ x.pos = next /\ x.nav = f.nav
      /\ x.docLoading = f.docLoading
  <2> HIDE DEF f
  <2> QED  BY <1>1 DEF FrameRecs
<1> HIDE DEF x
<1>5. a \in Seq(Messages) /\ Says(a, f.dsn, f.dsn, f.pos, next)
  <2> DEFINE k == [Msg("didCommitSame", next) EXCEPT !.arg = ""]
  <2>1. k = Msg("didCommitSame", next)
    <3> DEFINE t == "didCommitSame"
               e == ""
    <3> HIDE DEF t
    <3>1. Msg(t, next) = [type |-> t, n |-> next, arg |-> e, dsn |-> 0]  BY DEF Msg
    <3> HIDE DEF e
    <3>2. [Msg(t, next) EXCEPT !.arg = e] = Msg(t, next)  BY <3>1
    <3> QED  BY <3>2 DEF t, e
  <2>2. "" \in Args  BY DEF Args
  <2>3. <<k>> \in Seq(Messages) /\ Says(<<k>>, f.dsn, f.dsn, f.pos, next)
    <3> HIDE DEF f
    <3> QED  BY <1>3, <2>2, SaidSame
  <2> QED  BY <2>1, <2>3
<1>6. Silent(b) /\ b \in Seq(Messages) /\ (~IsLoading(f) => EndsStill(b))  BY SaidStopped DEF Silent
<1> HIDE DEF a, b
<1>7. ms \in Seq(Messages) /\ Says(ms, f.dsn, x.dsn, f.pos, x.pos) /\ (~IsLoading(f) => EndsStill(ms))
  BY <1>4, <1>5, <1>6, SaidTogether
<1> HIDE DEF ms
<1>8. Busy(x, down'[h]) \/ EndsStill(ms)  BY <1>4, <1>7 DEF Busy, IsLoading
<1> QED  BY <1>2, <1>4, <1>7, <1>8, ReportTells

\* CommitSameDocument: the frame reports the position it takes, or refuses; either way it says that
\* nothing loads, if nothing does.
LEMMA CommitSameDocumentTells ==
  ASSUME Core, AllTold, NEW h \in Hosts, CommitSameDocument(h)
  PROVE  AllTold'
<1> DEFINE f == frame[h]
           m == Head(down[h])
           x == [f EXCEPT !.mhtml = 0]
           a == Closed(f.mhtml)
           c == Stopped(x)
           w(url) == <<[Msg("didCommitSame", m.n) EXCEPT !.arg = url]>>
           e(how) == <<[Msg("processed", m.n) EXCEPT !.arg = how]>>
<1>1. Types /\ f \in FrameRecs  BY Situation
<1>2. m.n \in Nums /\ \A g \in Hosts \ {h} : down'[g] = down[g]
  BY <1>1, Received DEF CommitSameDocument
<1>3. host' = host  BY DEF CommitSameDocument, rendererOnly
<1>4. x.life = f.life /\ x.dsn = f.dsn /\ x.pos = f.pos /\ f.mhtml \in Nums /\ x \in FrameRecs
  <2>1. 0 \in Nums  BY NavigationAssumption DEF Nums
  <2> HIDE DEF f
  <2> QED  BY <1>1, <2>1 DEF FrameRecs
<1>5. ASSUME NEW how \in Args PROVE Silent(e(how)) /\ ~Holds(e(how), Turns) /\ e(how) \in Seq(Messages)
  <2> DEFINE t == "processed"
             k == [Msg(t, m.n) EXCEPT !.arg = how]
  <2>1. t \in DownTypes \cup UpTypes /\ t = "processed"  BY DEF UpTypes
  <2> HIDE DEF t, m
  <2>2. k \in Messages /\ k.type = t  BY ONLY <1>2, <2>1, how \in Args, WithArg
  <2> HIDE DEF k
  <2>3. Silent(<<k>>) /\ ~Holds(<<k>>, Turns)  BY <2>1, <2>2, SaidAlone
  <2> QED  BY <2>1, <2>3 DEF k, Silent
<1> HIDE DEF x
<1>6. Silent(a) /\ a \in Seq(Messages)  BY <1>4, SaidClosed DEF Silent
<1>7. Silent(c) /\ c \in Seq(Messages) /\ (~IsLoading(x) => EndsStill(c))  BY SaidStopped DEF Silent
<1>8. ASSUME NEW url \in Args, Report(h, [x EXCEPT !.pos = m.n], a \o w(url) \o c \o e("Ok"))
      PROVE  AllTold'
  <2> DEFINE y == [x EXCEPT !.pos = m.n]
             b == w(url)
             k == e("Ok")
             ms == ((a \o b) \o c) \o k
  <2>1. Report(h, y, ms)  BY <1>8
  <2>2. /\ y.life = f.life /\ y.dsn = f.dsn /\ y.pos = m.n /\ y.nav = x.nav
        /\ y.docLoading = x.docLoading
    <3> HIDE DEF f, m
    <3> QED  BY <1>4 DEF FrameRecs
  <2> HIDE DEF y
  <2>3. b \in Seq(Messages) /\ Says(b, f.dsn, f.dsn, f.pos, m.n)  BY <1>2, <1>8, SaidSame
  <2>4. Silent(k) /\ ~Holds(k, Turns) /\ k \in Seq(Messages)
    <3>1. "Ok" \in Args  BY DEF Args
    <3> QED  BY <1>5, <3>1
  <2> HIDE DEF a, b, c, k, f, m, w, e
  <2>5. a \o b \in Seq(Messages) /\ Says(a \o b, f.dsn, f.dsn, f.pos, m.n)
    BY <1>6, <2>3, SaidTogether
  <2>6. /\ (a \o b) \o c \in Seq(Messages) /\ Says((a \o b) \o c, f.dsn, f.dsn, f.pos, m.n)
        /\ ~IsLoading(x) => EndsStill((a \o b) \o c)
    BY <1>7, <2>5, SaidTogether
  <2>7. /\ ms \in Seq(Messages) /\ Says(ms, f.dsn, f.dsn, f.pos, m.n)
        /\ ~IsLoading(x) => EndsStill(ms)
    BY <2>4, <2>6, SaidTogether
  <2> HIDE DEF ms
  <2>8. Busy(y, down'[h]) \/ EndsStill(ms)  BY <2>2, <2>7 DEF Busy, IsLoading
  <2> QED  BY <1>2, <1>3, <2>1, <2>2, <2>7, <2>8, ReportTells DEF f
<1>9. ASSUME NEW how \in Args, Report(h, x, a \o Refused(x, m.n, how))
      PROVE  AllTold'
  <2> DEFINE k == e(how)
             ms == a \o (k \o c)
  <2>1. Report(h, x, ms)  BY <1>9 DEF Refused
  <2>2. Silent(k) /\ k \in Seq(Messages)  BY <1>5, <1>9
  <2> HIDE DEF a, c, k, f, m
  <2>3. k \o c \in Seq(Messages) /\ Silent(k \o c) /\ (~IsLoading(x) => EndsStill(k \o c))
    BY <1>7, <2>2, SaidTogether
  <2>4. ms \in Seq(Messages) /\ Silent(ms) /\ (~IsLoading(x) => EndsStill(ms))
    BY <1>6, <2>3, SaidTogether
  <2> HIDE DEF ms
  <2>5. Busy(x, down'[h]) \/ EndsStill(ms)  BY <2>4 DEF Busy
  <2>6. Says(ms, f.dsn, x.dsn, f.pos, x.pos)  BY <1>4, <2>4, SilentSays
  <2> QED  BY <1>2, <1>3, <1>4, <2>1, <2>4, <2>5, <2>6, ReportTells DEF f
<1> QED
  <2>1. /\ "Aborted" \in Args /\ "RestartCrossDocument" \in Args
        /\ "" \in Args /\ "other url" \in Args
    BY DEF Args
  <2>2. \/ \E url \in {"", "other url"} :
              Report(h, [x EXCEPT !.pos = m.n], a \o w(url) \o c \o e("Ok"))
        \/ \E how \in {"Aborted", "RestartCrossDocument"} : Report(h, x, a \o Refused(x, m.n, how))
    BY DEF CommitSameDocument, x
  <2> HIDE DEF a, c, e, w, f, m
  <2> QED  BY <1>8, <1>9, <2>1, <2>2

-----------------------------------------------------------------------------
(* What the steps of the browser tell of it.                               *)

\* The end of a client takes nothing that the frame has to answer.
LEMMA DropsBusy ==
  ASSUME NEW e, NEW d, NEW ns, Drops(e, d, ns), NEW f, Busy(f, d)
  PROVE  Busy(f, e)
  BY DEF Drops, Busy

\* The hosts are told after a step of the browser.
LEMMA BrowserTells ==
  ASSUME frame' = frame,
         \A g \in Hosts : host'[g].live => Told(host'[g], frame[g], down'[g], up'[g])
  PROVE  AllTold'
<1>1. ASSUME NEW g \in Hosts, host'[g].live PROVE Told(host[g], frame[g], down[g], up[g])'
  BY <1>1 DEF Told, Tells, Busy
<1> QED  BY <1>1 DEF AllTold

\* A host that the browser leaves as it is, but for the navigations that end.
LEMMA BystanderIsTold ==
  ASSUME AllTold, NEW g \in Hosts, host[g].live, host'[g] = host[g], up'[g] = up[g],
         NEW ns, Drops(down'[g], down[g], ns)
  PROVE  Told(host'[g], frame[g], down'[g], up'[g])
<1>1. Told(host[g], frame[g], down[g], up[g])  BY DEF AllTold
<1>2. Busy(frame[g], down[g]) => Busy(frame[g], down'[g])  BY DropsBusy
<1> QED  BY <1>1, <1>2, HostIsTold

\* The browser takes what h's frame sent; h becomes s2.
LEMMA ReadTells ==
  ASSUME Core, AllTold, NEW h \in Hosts, NEW t, Next1(up, h, t), up' = Popped(up, h),
         frame' = frame, NEW s2, host' = [host EXCEPT ![h] = s2],
         NEW ns, \A g \in Hosts : Drops(down'[g], down[g], ns),
         s2.live =>
           /\ host[h].live
           /\ s2.dsn = IF t = "didCommit" THEN Head(up[h]).n ELSE host[h].dsn
           /\ s2.pos = IF t \in {"didCommit", "didCommitSame"} THEN Head(up[h]).n ELSE host[h].pos
           /\ s2.loading => t # "stopped" /\ (host[h].loading \/ t \in {"didCommit", "didCommitSame"})
  PROVE  AllTold'
<1> DEFINE m == Head(up[h])
<1>1. Types  BY DEF Core
<1>2. /\ host'[h] = s2 /\ \A g \in Hosts \ {h} : host'[g] = host[g] /\ up'[g] = up[g]
      /\ m.type = t
  BY <1>1, Taken DEF Types
<1>3. Pops(up[h], m, up'[h])
  <2>1. up \in [Hosts -> Seq(Messages)] /\ up[h] # <<>>  BY <1>1 DEF Types, Next1
  <2>2. up'[h] = Tail(up[h]) /\ up[h] \in Seq(Messages)  BY <2>1 DEF Popped
  <2> QED  BY <2>1, <2>2, Popping
<1> HIDE DEF m
<1>4. ASSUME s2.live PROVE Told(s2, frame[h], down'[h], up'[h])
  <2>1. Told(host[h], frame[h], down[h], up[h])  BY <1>4 DEF AllTold
  <2>2. Busy(frame[h], down[h]) => Busy(frame[h], down'[h])  BY DropsBusy
  <2> QED  BY <1>2, <1>3, <1>4, <2>1, <2>2, HostHears DEF m
<1>5. ASSUME NEW g \in Hosts, host'[g].live PROVE Told(host'[g], frame[g], down'[g], up'[g])
  <2>1. CASE g = h  BY <1>2, <1>4, <1>5, <2>1
  <2>2. CASE g # h  BY <1>2, <1>5, <2>2, BystanderIsTold
  <2> QED  BY <2>1, <2>2
<1> QED  BY <1>5, BrowserTells

\* A step of the browser that ends navigations and no more.
LEMMA NothingTells ==
  ASSUME Core, AllTold, UNCHANGED <<host, frame, up>>,
         NEW ns, \A g \in Hosts : Drops(down'[g], down[g], ns)
  PROVE  AllTold'
<1>1. ASSUME NEW g \in Hosts, host'[g].live PROVE Told(host'[g], frame[g], down'[g], up'[g])
  BY <1>1, BystanderIsTold
<1> QED  BY <1>1, BrowserTells

\* The frame's navigation ends, if there is one.
LEMMA OngoingDrops ==
  ASSUME Core, NEW c \in [Hosts -> Seq(Messages)]
  PROVE  \A g \in Hosts : Drops(Dropped(c, ongoing)[g], c[g], {ongoing})
<1>1. Types /\ ongoing \in Nums  BY DEF Core, Types
<1> QED  BY <1>1, DroppedOne

\* The channels and the hosts are what they should be, and a channel may stay what it is.
LEMMA DownChannels ==
  ASSUME Core
  PROVE  /\ down \in [Hosts -> Seq(Messages)] /\ up \in [Hosts -> Seq(Messages)]
         /\ host \in [Hosts -> HostRecs] /\ current \in Hosts
         /\ \A g \in Hosts : \A ns : Drops(down[g], down[g], ns)
<1>1. /\ down \in [Hosts -> Seq(Messages)] /\ up \in [Hosts -> Seq(Messages)]
      /\ host \in [Hosts -> HostRecs] /\ current \in Hosts
  BY DEF Core, Types
<1> QED  BY <1>1, DropsNothing

\* BrowserNavigates, CancelNavigation: the browser shows the same, and drops a request.
LEMMA BrowserNavigatesTells ==
  ASSUME Core, AllTold, BrowserNavigates \/ CancelNavigation
  PROVE  AllTold'
<1>1. down' = Dropped(down, ongoing) /\ UNCHANGED <<host, frame, up>>
  BY DEF BrowserNavigates, CancelNavigation
<1>2. \A g \in Hosts : Drops(down'[g], down[g], {ongoing})
  BY <1>1, DownChannels, OngoingDrops
<1> QED  BY <1>1, <1>2, NothingTells

\* BeginNavigation: the browser shows the same, and drops a request, perhaps.
LEMMA BeginNavigationTells ==
  ASSUME Core, AllTold, NEW h \in Hosts, BeginNavigation(h)
  PROVE  AllTold'
<1> DEFINE s == host[h]
           n == Head(up[h]).n
           x == [s EXCEPT !.pend = n, !.closed = FALSE]
<1>1. /\ Next1(up, h, "begin") /\ up' = Popped(up, h) /\ frame' = frame
  BY DEF BeginNavigation
<1>2. Types /\ n \in Nums /\ s \in HostRecs /\ down \in [Hosts -> Seq(Messages)]
  BY <1>1, Situation, Taken, DownChannels
<1>3. PICK ns : \A g \in Hosts : Drops(down'[g], down[g], ns)
  <2>1. CASE down' = down  BY <2>1, DownChannels
  <2>2. CASE down' = Dropped(down, ongoing)  BY <1>2, <2>2, OngoingDrops
  <2>3. CASE down' = Dropped(down, n)
    <3> HIDE DEF n
    <3> QED  BY <1>2, <2>3, DroppedOne
  <2> QED  BY <2>1, <2>2, <2>3 DEF BeginNavigation
<1>4. host' = [host EXCEPT ![h] = s] \/ host' = [host EXCEPT ![h] = x]
  BY <1>2 DEF BeginNavigation, Types
<1>5. x.live = s.live /\ x.dsn = s.dsn /\ x.pos = s.pos /\ x.loading = s.loading
  <2> HIDE DEF s, n
  <2> QED  BY <1>2 DEF HostRecs
<1> HIDE DEF n, x
<1> DEFINE t == "begin"
<1>6. Next1(up, h, t) /\ t \notin {"didCommit", "didCommitSame", "stopped"}  BY <1>1
<1> HIDE DEF t
<1>7. CASE host' = [host EXCEPT ![h] = s]  BY <1>1, <1>3, <1>6, <1>7, ReadTells
<1>8. CASE host' = [host EXCEPT ![h] = x]  BY <1>1, <1>3, <1>5, <1>6, <1>8, ReadTells
<1> QED  BY <1>4, <1>7, <1>8

\* InitHost: the browser shows the same.
LEMMA InitHostTells ==
  ASSUME Core, AllTold, NEW h \in Hosts, InitHost(h)
  PROVE  AllTold'
<1> DEFINE s == host[h]
           x == [s EXCEPT !.waiting = FALSE, !.pend = 0, !.closed = FALSE]
<1>1. s \in HostRecs /\ host \in [Hosts -> HostRecs]  BY Situation, DownChannels
<1>2. host' = [host EXCEPT ![h] = x] /\ UNCHANGED <<frame, down, up>>
  BY <1>1 DEF InitHost
<1>3. x.live = s.live /\ x.dsn = s.dsn /\ x.pos = s.pos /\ x.loading = s.loading
  <2> HIDE DEF s
  <2> QED  BY <1>1 DEF HostRecs
<1> HIDE DEF x
<1>4. ASSUME NEW g \in Hosts, host'[g].live PROVE Told(host'[g], frame[g], down'[g], up'[g])
  <2>1. CASE g = h
    <3>1. host'[g] = x /\ s.live  BY <1>1, <1>2, <1>3, <1>4, <2>1
    <3>2. Told(s, frame[g], down[g], up[g])  BY <2>1, <3>1 DEF AllTold
    <3> QED  BY <1>2, <1>3, <3>1, <3>2, HostIsTold
  <2>2. CASE g # h
    <3>1. host'[g] = host[g]  BY <1>1, <1>2, <2>2
    <3> QED  BY <1>2, <1>4, <3>1, DownChannels, BystanderIsTold
  <2> QED  BY <2>1, <2>2
<1> QED  BY <1>2, <1>4, BrowserTells

\* DidCommitSameDocumentNavigation: the browser shows the position, and that the frame loads, until
\* it is told that it does not.
LEMMA DidCommitSameDocumentNavigationTells ==
  ASSUME Core, AllTold, NEW h \in Hosts, DidCommitSameDocumentNavigation(h)
  PROVE  AllTold'
<1> DEFINE s == host[h]
           n == Head(up[h]).n
           w == StillWaiting(h, Head(up[h]))
           x == [s EXCEPT !.same = w, !.loading = TRUE, !.pos = n]
           t == "didCommitSame"
<1>1. /\ Next1(up, h, t) /\ up' = Popped(up, h) /\ UNCHANGED <<frame, down>>
      /\ host' = IF Inactive(h) THEN host ELSE [host EXCEPT ![h] = x]
  <2>1. host \in [Hosts -> HostRecs]  BY DownChannels
  <2> QED  BY <2>1 DEF DidCommitSameDocumentNavigation
<1>2. Lives(h, s, frame[h], down[h], up[h]) /\ s \in HostRecs /\ host \in [Hosts -> HostRecs]
  BY Situation, DownChannels
<1>3. Inactive(h) => ~s.live
  <2>1. Inactive(h) => s.life \in {"PendingDeletion", "deleted"}  BY DEF Inactive
  <2> HIDE DEF s
  <2> QED  BY <1>2, <2>1 DEF Lives, HostLives
<1>4. x.live = s.live /\ x.dsn = s.dsn /\ x.pos = n /\ t = "didCommitSame"
  <2> HIDE DEF s, n, w
  <2> QED  BY <1>2 DEF HostRecs
<1>5. \A g \in Hosts : Drops(down'[g], down[g], {})  BY <1>1, DownChannels
<1> HIDE DEF x, t, n
<1>6. CASE Inactive(h)
  <2>1. host' = [host EXCEPT ![h] = s]  BY <1>1, <1>2, <1>6
  <2> QED  BY <1>1, <1>3, <1>5, <1>6, <2>1, ReadTells
<1>7. CASE ~Inactive(h)
  <2>1. host' = [host EXCEPT ![h] = x]  BY <1>1, <1>7
  <2> QED  BY <1>1, <1>4, <1>5, <2>1, ReadTells DEF n
<1> QED  BY <1>6, <1>7

\* OnSameDocumentCommitProcessed: the browser shows the same, and may drop a request.
LEMMA OnSameDocumentCommitProcessedTells ==
  ASSUME Core, AllTold, NEW h \in Hosts, OnSameDocumentCommitProcessed(h)
  PROVE  AllTold'
<1> DEFINE s == host[h]
           m == Head(up[h])
           restart == m.n \in s.same /\ m.arg = "RestartCrossDocument"
           e == IF restart THEN s.empty \cup {m.n} ELSE s.empty
           x == [s EXCEPT !.same = @ \ {m.n}, !.empty = e]
           t == "processed"
<1>1. s \in HostRecs /\ host \in [Hosts -> HostRecs] /\ down \in [Hosts -> Seq(Messages)]
  BY Situation, DownChannels
<1>2. /\ Next1(up, h, t) /\ up' = Popped(up, h) /\ frame' = frame
      /\ down' = (IF restart THEN Dropped(down, ongoing) ELSE down)
      /\ host' = [host EXCEPT ![h].same = @ \ {m.n},
                              ![h].empty = IF restart THEN @ \cup {m.n} ELSE @]
  BY DEF OnSameDocumentCommitProcessed
<1>3. t \notin {"didCommit", "didCommitSame", "stopped"}  OBVIOUS
<1> HIDE DEF t, restart, m
<1>4. host' = [host EXCEPT ![h] = x]  BY <1>1, <1>2 DEF HostRecs
<1> HIDE DEF e
<1>5. x.live = s.live /\ x.dsn = s.dsn /\ x.pos = s.pos /\ x.loading = s.loading
  <2> HIDE DEF s
  <2> QED  BY <1>1 DEF HostRecs
<1> HIDE DEF x
<1>6. PICK ns : \A g \in Hosts : Drops(down'[g], down[g], ns)
  <2>1. CASE restart  BY <1>1, <1>2, <2>1, OngoingDrops
  <2>2. CASE ~restart  BY <1>2, <2>2, DownChannels
  <2> QED  BY <2>1, <2>2
<1> QED  BY <1>2, <1>3, <1>4, <1>5, <1>6, ReadTells

\* NavigationRequestCancelled: the browser shows the same.
LEMMA NavigationRequestCancelledTells ==
  ASSUME Core, AllTold, NEW h \in Hosts, NavigationRequestCancelled(h)
  PROVE  AllTold'
<1> DEFINE s == host[h]
           n == Head(up[h]).n
           x == [s EXCEPT !.requests = @ \ {n}, !.closed = @ \/ s.pend = n]
           t == "disconnected"
<1>1. s \in HostRecs /\ host \in [Hosts -> HostRecs]  BY Situation, DownChannels
<1>2. /\ Next1(up, h, t) /\ up' = Popped(up, h) /\ UNCHANGED <<frame, down>>
      /\ host' = [host EXCEPT ![h] = x]
  BY <1>1 DEF NavigationRequestCancelled
<1>3. x.live = s.live /\ x.dsn = s.dsn /\ x.pos = s.pos /\ x.loading = s.loading
  <2> HIDE DEF s, n
  <2> QED  BY <1>1 DEF HostRecs
<1>4. t \notin {"didCommit", "didCommitSame", "stopped"}  OBVIOUS
<1>5. \A g \in Hosts : Drops(down'[g], down[g], {})  BY <1>2, DownChannels
<1> HIDE DEF x, t
<1> QED  BY <1>2, <1>3, <1>4, <1>5, ReadTells

\* DidStopLoading: the browser shows that nothing loads.
LEMMA DidStopLoadingTells ==
  ASSUME Core, AllTold, NEW h \in Hosts, DidStopLoading(h)
  PROVE  AllTold'
<1> DEFINE s == host[h]
           x == [s EXCEPT !.loading = FALSE]
           t == "stopped"
<1>1. s \in HostRecs /\ host \in [Hosts -> HostRecs]  BY Situation, DownChannels
<1>2. /\ Next1(up, h, t) /\ up' = Popped(up, h) /\ UNCHANGED <<frame, down>>
      /\ host' = [host EXCEPT ![h] = x]
  BY <1>1 DEF DidStopLoading
<1>3. x.live = s.live /\ x.dsn = s.dsn /\ x.pos = s.pos /\ ~x.loading
  <2> HIDE DEF s
  <2> QED  BY <1>1 DEF HostRecs
<1>4. t \notin {"didCommit", "didCommitSame"}  OBVIOUS
<1>5. \A g \in Hosts : Drops(down'[g], down[g], {})  BY <1>2, DownChannels
<1> HIDE DEF x, t
<1> QED  BY <1>2, <1>3, <1>4, <1>5, ReadTells

\* OnUnloadACK: the host is not live.
LEMMA OnUnloadACKTells ==
  ASSUME Core, AllTold, NEW h \in Hosts, OnUnloadACK(h)
  PROVE  AllTold'
<1> DEFINE l == "deleted"
           x == [NoHost EXCEPT !.life = l]
           t == "unloaded"
<1>1. /\ Next1(up, h, t) /\ up' = Popped(up, h) /\ UNCHANGED <<frame, down>>
      /\ host' = [host EXCEPT ![h] = x]
  BY DEF OnUnloadACK
<1>2. l \in HostStates  BY DEF HostStates
<1> HIDE DEF l
<1>3. ~x.live  BY <1>2, DeadHost
<1>4. \A g \in Hosts : Drops(down'[g], down[g], {})  BY <1>1, DownChannels
<1> HIDE DEF x, t
<1> QED  BY <1>1, <1>3, <1>4, ReadTells

\* The hosts that are gone need not be told; the others lose navigations only.
LEMMA GoneHostTells ==
  ASSUME Core, AllTold, NEW h \in Hosts, ~host'[h].live,
         \A g \in Hosts \ {h} : /\ host'[g] = host[g] /\ frame'[g] = frame[g] /\ up'[g] = up[g]
                                /\ \E ns : Drops(down'[g], down[g], ns)
  PROVE  AllTold'
<1>1. ASSUME NEW g \in Hosts, host'[g].live PROVE Told(host'[g], frame[g], down'[g], up'[g])
  BY <1>1, BystanderIsTold
<1>2. ASSUME NEW g \in Hosts, host'[g].live PROVE Told(host[g], frame[g], down[g], up[g])'
  <2>1. g # h  BY <1>2
  <2>2. Told(host'[g], frame[g], down'[g], up'[g])  BY <1>1, <1>2
  <2> QED  BY <2>1, <2>2 DEF Told, Tells, Busy
<1> QED  BY <1>2 DEF AllTold

\* DiscardSpeculative: the host is not live any more.
LEMMA DiscardSpeculativeTells ==
  ASSUME Core, AllTold, NEW h \in Hosts, DiscardSpeculative(h)
  PROVE  AllTold'
<1> DEFINE rs == host[h].requests
           ms == <<Msg(HowDiscarded(host[h].life), 0)>>
           l == "deleted"
           c == DroppedAll(down, rs)
           x == [NoHost EXCEPT !.life = l]
<1>1. /\ Types /\ host[h] \in HostRecs /\ host \in [Hosts -> HostRecs]
      /\ down \in [Hosts -> Seq(Messages)] /\ up \in [Hosts -> Seq(Messages)]
  BY Situation, DownChannels
<1>2. /\ host' = [host EXCEPT ![h] = x] /\ down' = Send(c, h, ms)
      /\ up' = [up EXCEPT ![h] = <<>>] /\ frame' = frame
  BY DEF DiscardSpeculative
<1>3. /\ c \in [Hosts -> Seq(Messages)] /\ \A g \in Hosts : Drops(c[g], down[g], rs)
  <2>1. rs \in SUBSET Navs  BY <1>1 DEF HostRecs
  <2> HIDE DEF rs
  <2> QED  BY <1>1, <2>1, DroppedSome
<1>4. l \in HostStates  BY DEF HostStates
<1> HIDE DEF l, c, ms
<1>5. ~x.live  BY <1>4, DeadHost
<1> HIDE DEF x, rs
<1>6. \A g \in Hosts \ {h} : host'[g] = host[g] /\ up'[g] = up[g] /\ down'[g] = c[g]
  BY <1>1, <1>2, <1>3 DEF Send
<1>7. host'[h] = x  BY <1>1, <1>2
<1> QED  BY <1>2, <1>3, <1>5, <1>6, <1>7, GoneHostTells

\* RenderProcessGone: the host is not live any more.
LEMMA RenderProcessGoneTells ==
  ASSUME Core, AllTold, NEW h \in Hosts, RenderProcessGone(h)
  PROVE  AllTold'
<1> DEFINE s == host[h]
           rs == {n \in s.requests : nav[n].from # h}
           l == "deleted"
           c == DroppedAll(down, rs)
           x == [NoHost EXCEPT !.life = l]
           y == [s EXCEPT !.live = FALSE, !.requests = {}, !.same = {}, !.empty = {},
                          !.loading = FALSE, !.closed = s.pend # 0]
<1>1. /\ Types /\ s \in HostRecs /\ host \in [Hosts -> HostRecs]
      /\ down \in [Hosts -> Seq(Messages)] /\ up \in [Hosts -> Seq(Messages)]
      /\ frame \in [Hosts -> FrameRecs]
  BY Situation, DownChannels DEF Types
<1>2. /\ host' = [host EXCEPT ![h] = IF s.life = "Active" THEN y ELSE x]
      /\ down' = [c EXCEPT ![h] = <<>>]
      /\ up' = [up EXCEPT ![h] = <<>>] /\ frame' = [frame EXCEPT ![h] = Gone]
  BY <1>1 DEF RenderProcessGone
<1>3. /\ c \in [Hosts -> Seq(Messages)] /\ \A g \in Hosts : Drops(c[g], down[g], rs)
  <2>1. rs \in SUBSET Navs  BY <1>1 DEF HostRecs
  <2> HIDE DEF rs
  <2> QED  BY <1>1, <2>1, DroppedSome
<1>4. l \in HostStates  BY DEF HostStates
<1> HIDE DEF l, c
<1>5. ~x.live /\ ~y.live
  <2> HIDE DEF s
  <2> QED  BY <1>1, <1>4, DeadHost DEF HostRecs
<1> HIDE DEF x, y, rs
<1>6. \A g \in Hosts \ {h} : /\ host'[g] = host[g] /\ up'[g] = up[g] /\ down'[g] = c[g]
                             /\ frame'[g] = frame[g]
  BY <1>1, <1>2, <1>3
<1>7. host'[h] \in {x, y}  BY <1>1, <1>2
<1> QED  BY <1>3, <1>5, <1>6, <1>7, GoneHostTells

\* A message behind others takes nothing that the frame has to answer.
LEMMA AddsBusy ==
  ASSUME NEW e, NEW d, NEW c, NEW m, DownAdds(e, d, c, m), NEW f, Busy(f, d)
  PROVE  Busy(f, e)
  BY DEF DownAdds, Busy

\* The browser asks the frame of h for something: it shows that it loads.
LEMMA AskTells ==
  ASSUME Core, AllTold, NEW h \in Hosts, host[h].live, UNCHANGED <<frame, up>>,
         NEW s2, host' = [host EXCEPT ![h] = s2],
         s2.dsn = host[h].dsn, s2.pos = host[h].pos,
         Busy(frame[h], down[h]) => Busy(frame[h], down'[h]),
         Busy(frame[h], down'[h]) \/ Holds(up[h], Turns),
         NEW ns, \A g \in Hosts \ {h} : Drops(down'[g], down[g], ns)
  PROVE  AllTold'
<1>1. host'[h] = s2 /\ \A g \in Hosts \ {h} : host'[g] = host[g]  BY DownChannels
<1>2. Told(host[h], frame[h], down[h], up[h])  BY DEF AllTold
<1>3. Told(s2, frame[h], down'[h], up[h])  BY <1>2, HostIsTold
<1>4. ASSUME NEW g \in Hosts, host'[g].live PROVE Told(host'[g], frame[g], down'[g], up'[g])
  <2>1. CASE g = h  BY <1>1, <1>3, <2>1
  <2>2. CASE g # h  BY <1>1, <1>4, <2>2, BystanderIsTold
  <2> QED  BY <2>1, <2>2
<1> QED  BY <1>4, BrowserTells

\* CommitSameDocumentNavigation: the browser shows that the frame loads, which has to answer.
LEMMA CommitSameDocumentNavigationTells ==
  ASSUME Core, AllTold, CommitSameDocumentNavigation
  PROVE  AllTold'
<1>0. PICK h \in Hosts : h = current  BY DEF Core, Types
<1>a. PICK type \in Args :
        down' = Send(Dropped(down, ongoing), h,
                     <<[type |-> "same", n |-> next, arg |-> type, dsn |-> host[h].dsn]>>)
  <2>1. "fragment" \in Args /\ "history" \in Args  BY DEF Args
  <2> QED  BY <1>0, <2>1 DEF CommitSameDocumentNavigation
<1> DEFINE s == host[h]
           x == [s EXCEPT !.same = @ \cup {next}, !.loading = TRUE]
           m == [type |-> "same", n |-> next, arg |-> type, dsn |-> s.dsn]
           c == Dropped(down, ongoing)
           t == "same"
<1>1. /\ s \in HostRecs /\ host \in [Hosts -> HostRecs] /\ down \in [Hosts -> Seq(Messages)]
      /\ Types /\ ongoing \in Nums
  BY Situation, DownChannels DEF Types
<1>2. /\ s.live /\ NewNavigation(None, {"same"}) /\ host' = [host EXCEPT ![h] = x]
      /\ down' = Send(c, h, <<m>>) /\ UNCHANGED <<frame, up>>
  BY <1>0, <1>1, <1>a DEF CommitSameDocumentNavigation
<1>3. next \in Nums
  <2>1. next \in Navs  BY <1>1, <1>2, NextInRange DEF NewNavigation
  <2> QED  BY <2>1, NavsArePositive
<1>4. x.dsn = s.dsn /\ x.pos = s.pos
  <2> HIDE DEF s
  <2> QED  BY <1>1 DEF HostRecs
<1>5. m \in Messages /\ m.type = t
  <2>1. t \in DownTypes \cup UpTypes  BY DEF DownTypes
  <2>2. s.dsn \in Nums  BY <1>1 DEF HostRecs
  <2> HIDE DEF s
  <2> QED  BY <1>3, <1>a, <2>1, <2>2, WithDsn
<1>6. c \in [Hosts -> Seq(Messages)] /\ \A g \in Hosts : Drops(c[g], down[g], {ongoing})
  BY <1>1, DroppedOne
<1> HIDE DEF x, m, c
<1>7. /\ DownAdds(down'[h], c[h], TRUE, m) /\ \A g \in Hosts \ {h} : down'[g] = c[g]
  BY <1>2, <1>5, <1>6, SentOne
<1>8. Holds(down'[h], Sames)  BY <1>5, <1>7 DEF DownAdds
<1>9. Busy(frame[h], down'[h])  BY <1>8 DEF Busy
<1>10. \A g \in Hosts \ {h} : Drops(down'[g], down[g], {ongoing})  BY <1>6, <1>7
<1> QED  BY <1>2, <1>4, <1>9, <1>10, AskTells

\* The end of a client may be the last thing that the frame says of a load.
LEMMA EndTurns ==
  ASSUME NEW q, NEW n \in Nums, Holds(q, EndOf(n))
  PROVE  Holds(q, Turns)
<1>1. PICK i \in DOMAIN q : q[i] \in EndOf(n)  BY DEF Holds
<1>2. q[i] \in Turns  BY <1>1 DEF EndOf, Turns, One, All, Of
<1> QED  BY <1>2 DEF Holds

\* CommitIn: the browser shows that the frame loads, which has to answer, or has closed the client
\* and will be heard to have.
LEMMA CommitInTells ==
  ASSUME Core, AllTold, NEW h \in Hosts, NEW kind \in Args, CommitIn(h, kind)
  PROVE  AllTold'
<1>0. PICK n \in Navs : n = ongoing /\ n # 0
  <2>1. ongoing \in Nums /\ ongoing # 0  BY DEF Core, Types, CommitIn
  <2> QED  BY <2>1, NavigationAssumption DEF Nums, Navs
<1> DEFINE s == host[h]
           f == frame[h]
           d == down[h]
           d2 == down'[h]
           l2 == IF s.life = "Speculative" THEN "PendingCommit" ELSE s.life
           x == [s EXCEPT !.requests = @ \cup {n}, !.loading = TRUE, !.life = l2]
           b == nav[n].from # h
           mb == Msg("bind", n)
           mc == [Msg("commit", n) EXCEPT !.arg = kind]
           d1 == d \o OneIf(b, mb)
           tb == "bind"
           tc == "commit"
<1>1. /\ s \in HostRecs /\ host \in [Hosts -> HostRecs] /\ down \in [Hosts -> Seq(Messages)]
      /\ d \in Seq(Messages) /\ n \in Nums
  BY Situation, DownChannels
<1>2. /\ s.live /\ host' = [host EXCEPT ![h] = x] /\ UNCHANGED <<frame, up>>
      /\ down' = Send(down, h, OneIf(b, mb) \o <<mc>>)
  <2>1. host' = [host EXCEPT ![h].requests = @ \cup {n}, ![h].loading = TRUE,
                             ![h].life = IF @ = "Speculative" THEN "PendingCommit" ELSE @]
    BY <1>0 DEF CommitIn
  <2>2. host' = [host EXCEPT ![h] = x]  BY <1>1, <2>1 DEF HostRecs
  <2> QED  BY <1>0, <2>2 DEF CommitIn
<1> HIDE DEF l2
<1>3. x.dsn = s.dsn /\ x.pos = s.pos
  <2> HIDE DEF s
  <2> QED  BY <1>1 DEF HostRecs
<1>4. /\ mb \in Messages /\ mb.type = "bind" /\ mb.n = n
      /\ mc \in Messages /\ mc.type = "commit" /\ mc.n = n
  <2>1. tb \in DownTypes \cup UpTypes /\ tc \in DownTypes \cup UpTypes  BY DEF DownTypes
  <2>2. mb \in Messages /\ mb.type = tb /\ mb.n = n  BY ONLY <1>1, <2>1, Plain
  <2>3. mc \in Messages /\ mc.type = tc /\ mc.n = n  BY ONLY <1>1, <2>1, kind \in Args, WithArg
  <2> QED  BY <2>2, <2>3
<1>5. b \in BOOLEAN  OBVIOUS
<1> HIDE DEF x, mb, mc
<1>6. /\ OneIf(b, mb) \in Seq(Messages) /\ d1 \in Seq(Messages) /\ DownAdds(d1, d, b, mb)
  <2> HIDE DEF b, d
  <2>1. OneIf(b, mb) \in Seq(Messages) /\ Adds(d1, d, b, mb)  BY <1>1, <1>4, <1>5, Adding
  <2>2. DownAdds(d1, d, b, mb)  BY <1>4, <1>5, <2>1, AddsDown
  <2> QED  BY <2>1, <2>2 DEF Adds
<1>7. d2 = d1 \o <<mc>> /\ \A g \in Hosts \ {h} : down'[g] = down[g]
  <2>1. d2 = d \o (OneIf(b, mb) \o <<mc>>) /\ \A g \in Hosts \ {h} : down'[g] = down[g]
    BY <1>1, <1>2 DEF Send
  <2>2. <<mc>> \in Seq(Messages)  BY <1>4
  <2>3. (d \o OneIf(b, mb)) \o <<mc>> = d \o (OneIf(b, mb) \o <<mc>>)
    <3> HIDE DEF b, d
    <3> QED  BY <1>1, <1>6, <2>2, ConcatAssociative
  <2> QED  BY <2>1, <2>3
<1> HIDE DEF d1, d2
<1>8. DownAdds(d2, d1, TRUE, mc)
  <2> DEFINE y == TRUE
  <2>1. y \in BOOLEAN /\ OneIf(y, mc) = <<mc>>  BY SentAlone
  <2> HIDE DEF y
  <2>2. Adds(d1 \o OneIf(y, mc), d1, y, mc)  BY <1>4, <1>6, <2>1, Adding
  <2>3. DownAdds(d1 \o OneIf(y, mc), d1, y, mc)  BY <1>4, <2>1, <2>2, AddsDown
  <2> QED  BY <1>7, <2>1, <2>3 DEF y
<1>9. Busy(f, d) => Busy(f, d2)  BY <1>6, <1>8, AddsBusy
<1>10. Busy(f, d2) \/ Holds(up[h], Turns)
  <2>1. CASE b
    <3>1. Holds(d1, BindOf(n))  BY <1>4, <1>6, <2>1 DEF DownAdds
    <3>2. Then(d2, BindOf(n), AskOf(n))  BY <1>4, <1>8, <3>1 DEF DownAdds
    <3> QED  BY <3>2 DEF Busy
  <2>2. CASE ~b
    <3>1. nav[n].from = h /\ nav[n].from # None  BY <2>2, NavigationAssumption
    <3>2. Awaited(frame[h], up[h], n)  BY <1>0, <3>1 DEF Core, OngoingIsAwaited
    <3>3. Holds(d2, AskOf(n))  BY <1>4, <1>8 DEF DownAdds
    <3>4. CASE f.client = n  BY <3>3, <3>4 DEF Busy
    <3>5. CASE Holds(up[h], EndOf(n))  BY <1>1, <3>5, EndTurns
    <3> QED  BY <3>2, <3>4, <3>5 DEF Awaited
  <2> QED  BY <2>1, <2>2
<1>11. \A g \in Hosts \ {h} : Drops(down'[g], down[g], {})  BY <1>7, DownChannels
<1> QED  BY <1>2, <1>3, <1>9, <1>10, <1>11, AskTells DEF d2

\* CreateRenderFrame: the frame of a new host is not in the tree yet, and nothing loads.
LEMMA CreateRenderFrameTells ==
  ASSUME Core, AllTold, CreateRenderFrame
  PROVE  AllTold'
<1> DEFINE ls == "Speculative"
           lf == "provisional"
           s2 == [NoHost EXCEPT !.life = ls, !.live = TRUE]
           f2 == [NoFrame EXCEPT !.life = lf]
<1>1. Types  BY DEF Core
<1>2. PICK h \in Hosts : /\ host[h].life = "none" /\ UNCHANGED <<down, up>>
                         /\ host' = [host EXCEPT ![h] = s2] /\ frame' = [frame EXCEPT ![h] = f2]
  BY DEF CreateRenderFrame
<1>3. ls \in HostStates /\ lf = "provisional"  BY DEF HostStates
<1>4. down[h] = <<>> /\ up[h] = <<>>  BY <1>2 DEF Core, Pipes, Lives, HostLives
<1> HIDE DEF ls
<1>5. ~s2.loading  BY DEF NoHost
<1>6. f2.life # "attached"  BY DEF NoFrame
<1> HIDE DEF s2, f2
<1>7. /\ host'[h] = s2 /\ frame'[h] = f2 /\ down'[h] = <<>> /\ up'[h] = <<>>
      /\ \A g \in Hosts \ {h} : /\ host'[g] = host[g] /\ frame'[g] = frame[g]
                                /\ down'[g] = down[g] /\ up'[g] = up[g]
  BY <1>1, <1>2, <1>4 DEF Types
<1>8. ASSUME NEW g \in Hosts, host'[g].live PROVE Told(host'[g], frame'[g], down'[g], up'[g])
  <2>1. CASE g = h  BY <1>5, <1>6, <1>7, <2>1, SaidNothing DEF Told, Tells
  <2>2. CASE g # h
    <3>1. host[g].live  BY <1>7, <1>8, <2>2
    <3>2. Told(host[g], frame[g], down[g], up[g])  BY <3>1 DEF AllTold
    <3> QED  BY <1>7, <2>2, <3>2
  <2> QED  BY <2>1, <2>2
<1>9. ASSUME NEW g \in Hosts, host'[g].live PROVE Told(host[g], frame[g], down[g], up[g])'
  BY <1>8, <1>9 DEF Told, Tells, Busy
<1> QED  BY <1>9 DEF AllTold

\* DidCommitNavigation: the browser shows the document, in the host it knew or in the one that
\* replaces it.
LEMMA DidCommitNavigationTells ==
  ASSUME Core, AllTold, NEW h \in Hosts, DidCommitNavigation(h)
  PROVE  AllTold'
<1> DEFINE s == host[h]
           m == Head(up[h])
           n == m.n
           l == "Active"
           t == "didCommit"
           s2 == [s EXCEPT !.requests = @ \ {n}, !.loading = TRUE, !.life = l, !.dsn = n, !.pos = n]
           committed == [host EXCEPT ![h].requests = @ \ {n}, ![h].loading = TRUE,
                                     ![h].life = "Active", ![h].dsn = n, ![h].pos = n]
           refused == Inactive(h) \/ n \notin s.requests \cup {0}
<1>1. /\ Types /\ s \in HostRecs /\ host \in [Hosts -> HostRecs] /\ down \in [Hosts -> Seq(Messages)]
      /\ up \in [Hosts -> Seq(Messages)] /\ current \in Hosts
  BY Situation, DownChannels
<1>2. /\ Next1(up, h, t) /\ up' = Popped(up, h) /\ frame' = frame
      /\ refused => UNCHANGED <<host, down>>
      /\ ~refused => /\ h = current => host' = committed /\ down' = down
                     /\ h # current => SwapTo(h, committed)
  BY DEF DidCommitNavigation
<1>3. /\ n \in Nums
      /\ ~Inactive(h) => s.live /\ n \in s.requests \cup {0}
  BY <1>2, DidCommitSituation
<1>4. t = "didCommit"  OBVIOUS
<1>5. committed = [host EXCEPT ![h] = s2]  BY <1>1
<1>6. s2.live = s.live /\ s2.dsn = n /\ s2.pos = n
  <2> HIDE DEF s, n, l
  <2> QED  BY <1>1 DEF HostRecs
<1>7. refused => ~s.live
  <2>1. Inactive(h) => s.life \in {"PendingDeletion", "deleted"}  BY DEF Inactive
  <2>2. Lives(h, s, frame[h], down[h], up[h])  BY Situation
  <2>3. refused => Inactive(h)  BY <1>3
  <2> HIDE DEF s, refused
  <2> QED  BY <2>1, <2>2, <2>3 DEF Lives, HostLives
<1> HIDE DEF refused, committed, s2, t, n, l
<1>8. CASE refused
  <2>1. host' = [host EXCEPT ![h] = s]  BY <1>1, <1>2, <1>8
  <2>2. \A g \in Hosts : Drops(down'[g], down[g], {})  BY <1>2, <1>8, DownChannels
  <2> QED  BY <1>2, <1>7, <1>8, <2>1, <2>2, ReadTells
<1>9. CASE ~refused /\ h = current
  <2>1. host' = [host EXCEPT ![h] = s2]  BY <1>2, <1>5, <1>9
  <2>2. \A g \in Hosts : Drops(down'[g], down[g], {})  BY <1>2, <1>9, DownChannels
  <2> QED  BY <1>2, <1>4, <1>6, <2>1, <2>2, ReadTells DEF n
<1>10. CASE ~refused /\ h # current
  <2>0. PICK o \in Hosts : o = current  BY <1>1
  <2> DEFINE rs == host[o].requests
             b == host[o].live
             w == Msg("unload", 0)
             l2 == IF b THEN "PendingDeletion" ELSE "deleted"
             t2 == [NoHost EXCEPT !.life = l2]
             c1 == DroppedAll(down, rs)
             c2 == Dropped(c1, ongoing)
             tu == "unload"
  <2>1. /\ host' = [committed EXCEPT ![o] = t2] /\ down' = Send(c2, o, OneIf(b, w))
    BY <1>2, <1>10, <2>0 DEF SwapTo, SwappedHosts
  <2>2. rs \in SUBSET Navs /\ ongoing \in Nums /\ b \in BOOLEAN
    <3>1. host[o] \in HostRecs  BY <1>1
    <3> QED  BY <1>1, <3>1 DEF HostRecs, Types
  <2>3. l2 \in HostStates  BY DEF HostStates
  <2>4. w \in Messages
    <3>1. tu \in DownTypes \cup UpTypes /\ 0 \in Nums  BY NavigationAssumption DEF DownTypes, Nums
    <3> HIDE DEF tu
    <3>2. Msg(tu, 0) \in Messages  BY <3>1, Plain
    <3> QED  BY <3>2 DEF tu
  <2> HIDE DEF rs, b, w, l2
  <2>5. ~t2.live  BY <2>3, DeadHost
  <2> HIDE DEF t2
  <2>6. c1 \in [Hosts -> Seq(Messages)] /\ \A g \in Hosts : Drops(c1[g], down[g], rs)
    BY <1>1, <2>2, DroppedSome
  <2> HIDE DEF c1
  <2>7. c2 \in [Hosts -> Seq(Messages)] /\ \A g \in Hosts : Drops(c2[g], c1[g], {ongoing})
    BY <1>1, <2>2, <2>6, DroppedOne
  <2> HIDE DEF c2
  <2>8. \A g \in Hosts : Drops(c2[g], down[g], rs \cup {ongoing})  BY <2>6, <2>7, DropsMore
  <2>9. \A g \in Hosts \ {o} : down'[g] = c2[g]
    <3>1. \A g \in Hosts \ {o} : Send(c2, o, OneIf(b, w))[g] = c2[g]
      BY ONLY <2>0, <2>2, <2>4, <2>7, SentDown
    <3> QED  BY <2>1, <3>1
  <2>10. /\ host'[h] = s2 /\ host'[o] = t2 /\ h # o
         /\ \A g \in Hosts \ {h, o} : host'[g] = host[g]
    BY <1>1, <1>5, <1>10, <2>0, <2>1
  <2>11. m.type = "didCommit" /\ \A g \in Hosts \ {h} : up'[g] = up[g]
    BY <1>1, <1>2, <1>4, Taken
  <2>12. Pops(up[h], m, up'[h])
    <3>1. up[h] # <<>> /\ up[h] \in Seq(Messages)  BY <1>1, <1>2 DEF Next1
    <3>2. up'[h] = Tail(up[h])  BY <1>1, <1>2 DEF Popped
    <3> QED  BY <3>1, <3>2, Popping
  <2>13. s.live => Told(s2, frame[h], down'[h], up'[h])
    <3> SUFFICES ASSUME s.live PROVE Told(s2, frame[h], down'[h], up'[h])
      OBVIOUS
    <3>1. Told(s, frame[h], down[h], up[h])  BY DEF AllTold
    <3>2. Drops(down'[h], down[h], rs \cup {ongoing})  BY <2>8, <2>9, <2>10
    <3>3. Busy(frame[h], down[h]) => Busy(frame[h], down'[h])  BY <3>2, DropsBusy
    <3> HIDE DEF m, s
    <3>4. s2.dsn = m.n /\ s2.pos = m.n  BY <1>6 DEF n
    <3> QED  BY <2>11, <2>12, <3>1, <3>3, <3>4, HostHears
  <2>14. ASSUME NEW g \in Hosts, host'[g].live PROVE Told(host'[g], frame[g], down'[g], up'[g])
    <3>1. CASE g = h  BY <1>6, <2>10, <2>13, <2>14, <3>1
    <3>2. CASE g = o  BY <2>5, <2>10, <2>14, <3>2
    <3>3. CASE g # h /\ g # o
      <4>1. host'[g] = host[g] /\ up'[g] = up[g]  BY <2>10, <2>11, <3>3
      <4>2. Drops(down'[g], down[g], rs \cup {ongoing})  BY <2>8, <2>9, <3>3
      <4> QED  BY <2>14, <4>1, <4>2, BystanderIsTold
    <3> QED  BY <3>1, <3>2, <3>3
  <2> QED  BY <1>2, <2>14, BrowserTells
<1> QED  BY <1>8, <1>9, <1>10

-----------------------------------------------------------------------------
(* What the browser shows in the end.                                      *)

\* At first the browser and the frame have the blank document, and nothing loads.
LEMMA InitTells ==
  ASSUME Init
  PROVE  AllTold
<1> DEFINE la == "Active"
           lf == "attached"
<1>1. down = [h \in Hosts |-> <<>>] /\ up = [h \in Hosts |-> <<>>]  BY DEF Init
<1>2. PICK w \in BOOLEAN :
        /\ host = [h \in Hosts |-> IF h = First THEN [NoHost EXCEPT !.life = la, !.live = TRUE, !.waiting = w]
                                   ELSE NoHost]
        /\ frame = [h \in Hosts |-> IF h = First THEN [NoFrame EXCEPT !.life = lf, !.script = w]
                                    ELSE NoFrame]
  BY DEF Init
<1> HIDE DEF la, lf
<1>3. ASSUME NEW h \in Hosts
      PROVE  /\ ~host[h].loading /\ host[h].dsn = frame[h].dsn /\ host[h].pos = frame[h].pos
             /\ up[h] = <<>>
  <2>1. ~NoHost.loading /\ NoHost.dsn = 0 /\ NoHost.pos = 0 /\ NoFrame.dsn = 0 /\ NoFrame.pos = 0
    BY DEF NoHost, NoFrame
  <2>2. CASE h = First
    <3>1. host[h] = [NoHost EXCEPT !.life = la, !.live = TRUE, !.waiting = w]  BY <1>2, <2>2
    <3>2. frame[h] = [NoFrame EXCEPT !.life = lf, !.script = w]  BY <1>2, <2>2
    <3>3. ~host[h].loading /\ host[h].dsn = 0 /\ host[h].pos = 0  BY <2>1, <3>1 DEF NoHost
    <3>4. frame[h].dsn = 0 /\ frame[h].pos = 0  BY <2>1, <3>2 DEF NoFrame
    <3> QED  BY <1>1, <3>3, <3>4
  <2>3. CASE h # First
    <3>1. host[h] = NoHost /\ frame[h] = NoFrame  BY <1>2, <2>3
    <3> QED  BY <1>1, <2>1, <3>1
  <2> QED  BY <2>2, <2>3
<1>4. ASSUME NEW S PROVE ~Holds(<<>>, S)  BY Short
<1> QED  BY <1>3, <1>4 DEF AllTold, Told, Tells

\* Every step of the browser and of the renderers tells the hosts what they are to show.
LEMMA TellingStep ==
  ASSUME Core, AllTold, [Next]_vars
  PROVE  AllTold'
<1>1. CASE BrowserNavigates \/ CancelNavigation  BY <1>1, BrowserNavigatesTells
<1>2. CASE CommitSameDocumentNavigation  BY <1>2, CommitSameDocumentNavigationTells
<1>3. CASE CreateRenderFrame  BY <1>3, CreateRenderFrameTells
<1>4. CASE CommitNavigation \/ FailedNavigation
  <2>1. PICK h \in Hosts, kind \in Args : CommitIn(h, kind)  BY <1>4, ReadyToCommit
  <2> QED  BY <2>1, CommitInTells
<1>5. ASSUME NEW h \in Hosts, Browser(h) PROVE AllTold'
  BY <1>5, DiscardSpeculativeTells, BeginNavigationTells, InitHostTells, DidCommitNavigationTells,
     DidCommitSameDocumentNavigationTells, OnSameDocumentCommitProcessedTells,
     NavigationRequestCancelledTells, DidStopLoadingTells, OnUnloadACKTells, RenderProcessGoneTells
     DEF Browser
<1>6. ASSUME NEW h \in Hosts, Renderer(h) PROVE AllTold'
  BY <1>6, BindTells, CommitTells, BodyLoadingFinishedTells, AbortClientNavigationTells,
     SynchronouslyCommitAboutBlankForBug778318Tells, DidStopLoadingDocumentTells,
     OnDroppedNavigationTells, UnloadTells, CommitSameDocumentTells, BeginNavigationInternalTells,
     DidFinishSameDocumentNavigationTells
     DEF Renderer
<1>7. CASE UNCHANGED vars
  <2>1. UNCHANGED <<host, frame, down, up>>  BY <1>7 DEF vars
  <2>2. \A g \in Hosts : Drops(down'[g], down[g], {})  BY <2>1, DownChannels
  <2> QED  BY <2>1, <2>2, NothingTells
<1> QED  BY <1>1, <1>2, <1>3, <1>4, <1>5, <1>6, <1>7 DEF Next

\* Whatever the browser and the renderers do at the same time, the last reports that are on their
\* way to the host of a live renderer are of the document and the position that its frame has, the
\* host shows them already if there are none, and it shows that nothing loads, once it has taken
\* what was sent, unless the frame is still to tell it so.
THEOREM EverybodyIsTold == Spec => []AllTold
<1>1. Init => AllTold  BY InitTells
<1>2. Core /\ AllTold /\ [Next]_vars => AllTold'  BY TellingStep
<1> QED  BY <1>1, <1>2, CoreCorrect, PTL DEF Spec

\* What was told is what is shown, once no report is on its way.
LEMMA ToldAgree ==
  ASSUME Core, AllTold
  PROVE  DocumentsAgree
<1> DEFINE s == host[current]
           f == frame[current]
           u == up[current]
<1> SUFFICES ASSUME s.live, ~\E i \in DOMAIN u : u[i].type \in {"didCommit", "didCommitSame"}
             PROVE  f.life = "attached" /\ s.dsn = f.dsn /\ s.pos = f.pos
  BY DEF DocumentsAgree
<1>1. current \in Hosts  BY DownChannels
<1>2. Told(s, f, down[current], u) /\ Lives(current, s, f, down[current], u) /\ u \in Seq(Messages)
  BY <1>1, Situation DEF AllTold
<1> HIDE DEF s, f, u
<1>3. f.life = "attached"  BY <1>2 DEF Lives, HostLives
<1>4. \A i \in DOMAIN u : u[i] \in Messages  BY <1>2, ElementOfSeq, LenProperties
<1>5. ~Holds(u, Commits) /\ ~Holds(u, Reports)  BY <1>4, TurnClasses DEF Holds
<1> QED  BY <1>2, <1>3, <1>5 DEF Told, Tells

\* DocumentsAgree: when no report of a commit is on its way, the browser shows the document and the
\* position that the frame of the shown host has, which is in the tree of frames.
THEOREM DocumentsAlwaysAgree == Spec => []DocumentsAgree
<1>1. Core /\ AllTold => DocumentsAgree  BY ToldAgree
<1> QED  BY <1>1, CoreCorrect, EverybodyIsTold, PTL

\* A frame that is not busy has told that nothing loads.
LEMMA ToldSettle ==
  ASSUME Core, AllTold
  PROVE  LoadingSettles
<1> SUFFICES ASSUME host[current].live, Quiet(current) PROVE ~host[current].loading
  BY DEF LoadingSettles
<1>1. current \in Hosts  BY DownChannels
<1>2. Told(host[current], frame[current], down[current], up[current])  BY <1>1 DEF AllTold
<1>3. /\ down[current] = <<>> /\ up[current] = <<>> /\ frame[current].mhtml = 0
      /\ ~IsLoading(frame[current])
  BY DEF Quiet
<1>4. ASSUME NEW S PROVE ~Holds(<<>>, S) /\ \A T : ~Then(<<>>, S, T)  BY Short
<1>5. ~Busy(frame[current], down[current])  BY <1>3, <1>4 DEF Busy
<1> QED  BY <1>2, <1>3, <1>4, <1>5 DEF Told, Tells

\* LoadingSettles: the tab stops spinning.  A host that waits for no message, whose frame loads
\* nothing and waits for nothing, is not loading.
THEOREM LoadingAlwaysSettles == Spec => []LoadingSettles
<1>1. Core /\ AllTold => LoadingSettles  BY ToldSettle
<1> QED  BY <1>1, CoreCorrect, EverybodyIsTold, PTL
==============================================================================
