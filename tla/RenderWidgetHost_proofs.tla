----------------------- MODULE RenderWidgetHost_proofs -----------------------
(***************************************************************************)
(* Theorems of RenderWidgetHost: types, locks, the hang monitor and the    *)
(* browser's picture of its renderer, for every set of sizes, scales and   *)
(* places and every bound.                                                 *)
(***************************************************************************)
EXTENDS RenderWidgetHost, TLAPS

Widgets == [created: BOOLEAN, waitingForInit: BOOLEAN, hidden: BOOLEAN, view: BOOLEAN,
            destroyed: BOOLEAN, delegate: BOOLEAN, pendingShow: BOOLEAN,
            staleShow: BOOLEAN, props: Props, old: Props \cup {None}, ackPending: BOOLEAN,
            bounds: Rects, lastRect: Rects \cup {None}, rectAck: BOOLEAN,
            out: Seq(Messages)]
Renderers == [alive: BOOLEAN, shown: BOOLEAN, dirty: BOOLEAN,
              props: Props \cup {None}, rect: Rects \cup {None}]
Hangs == [inFlight: 0..MaxInFlight, timer: BOOLEAN, unresponsive: BOOLEAN, blocked: BOOLEAN]
Mice  == [pending: BOOLEAN, callback: BOOLEAN, locked: BOOLEAN, context: BOOLEAN, asked: BOOLEAN]
Keys  == [requested: BOOLEAN, allowed: BOOLEAN, locked: BOOLEAN, focused: BOOLEAN, asked: BOOLEAN]

-----------------------------------------------------------------------------
(* What a pipe will have told the renderer once it is empty.               *)

Visibility == {"shown", "hidden"}

\* A message of kind k is in the pipe q.
HasKind(q, k) == \E i \in DOMAIN q : q[i].kind = k

\* A renderer that had the properties p has v once it has taken the first n messages of q.
HasAfter(q, n, p, v) ==
    \/ v = p /\ \A i \in 1..n : q[i].kind # "props"
    \/ \E i \in 1..n : /\ q[i].kind = "props" /\ q[i].props = v
                       /\ \A j \in (i + 1)..n : q[j].kind # "props"

\* The last properties in q are for a new size, so that the renderer will draw for them.
WillDraw(q, p) ==
    \E i \in DOMAIN q :
        /\ q[i].kind = "props"
        /\ \A j \in DOMAIN q : j > i => q[j].kind # "props"
        /\ \E v \in Props \cup {None} : HasAfter(q, i - 1, p, v) /\ DrawsFor(v, q[i].props)

\* A renderer that has its widget shown, or not, has it shown iff b after q.
ShownAfter(q, shown, b) ==
    \/ shown = b /\ \A i \in DOMAIN q : q[i].kind \notin Visibility
    \/ \E i \in DOMAIN q : /\ q[i].kind = IF b THEN "shown" ELSE "hidden"
                           /\ \A j \in DOMAIN q : j > i => q[j].kind \notin Visibility

-----------------------------------------------------------------------------
(* The inductive invariant.                                                *)

\* The lives of the widget, its view and its renderer.
Life ==
    /\ w.view => w.created
    /\ w.created => ~w.destroyed
    /\ r.alive => w.created
    /\ ~w.created /\ ~w.destroyed => w.hidden

\* A window that the renderer asked for and that is not created yet: nothing has happened.
NewWindowIsFresh ==
    ~w.created /\ w.waitingForInit /\ ~w.destroyed
        => /\ hang.inFlight = 0 /\ ~hang.timer /\ ~hang.unresponsive
           /\ ~w.rectAck /\ ~w.ackPending /\ ~w.pendingShow
           /\ w.out = <<>> /\ w.old = None

\* A lock that is allowed was asked for, and nobody answers for a delegate that is gone.
KeysAreAskedFor ==
    /\ keys.allowed => keys.requested
    /\ keys.asked /\ w.delegate => keys.requested

Watched ==
    /\ w.created /\ ~w.hidden /\ ~hang.blocked /\ hang.inFlight > 0
          => hang.timer \/ hang.unresponsive
    /\ (hang.timer \/ hang.unresponsive) /\ ~w.destroyed
          => hang.inFlight > 0 /\ (w.created => ~w.hidden)

\* The answers the host waits for will come: x is the renderer's widget, acks the answers to
\* screen rects on the way, coming whether a frame or a commit is.
PipeOK(s, x, acks, coming) ==
    /\ HasAfter(s.out, Len(s.out), x.props, s.old)
    /\ s.ackPending => coming \/ x.dirty \/ WillDraw(s.out, x.props)
    /\ s.rectAck => acks > 0 \/ HasKind(s.out, "rects")

AnswersCome ==
    w.created /\ r.alive => PipeOK(w, r, rectAcks, frames > 0 \/ commits > 0)

\* A renderer was not told of the hide that a stale show has swallowed.
HideIsLost == w.hidden /\ w.staleShow

\* Before Init() nothing is sent and the show waits; afterwards the pipe tells the rest, and
\* only a show that is stale still waits.
VisibilityIsTold ==
    /\ w.created /\ w.waitingForInit
          => ~r.shown /\ w.out = <<>> /\ (w.pendingShow <=> ~w.hidden)
    /\ w.pendingShow /\ ~w.waitingForInit /\ ~w.destroyed => w.staleShow
    /\ w.created /\ r.alive /\ ~w.waitingForInit
          => ShownAfter(w.out, r.shown, ~w.hidden) \/ HideIsLost

WidgetInv == TypeOK /\ Life /\ NewWindowIsFresh /\ KeysAreAskedFor /\ LocksAreHeld /\ Watched /\ AnswersCome

-----------------------------------------------------------------------------
(* What a message does to the pipe, at its end and at its head.            *)

LEMMA MessageTypes ==
    ASSUME NEW m \in Messages
    PROVE  /\ m.kind = "props" => m.props \in Props
           /\ m.kind = "rects" => m.rect \in Rects
           /\ m.kind \in {"props", "rects", "shown", "hidden"}
BY DEF Messages

LEMMA AppendPipe ==
    ASSUME NEW q \in Seq(Messages), NEW m \in Messages, NEW p, NEW v
    PROVE  LET a == Append(q, m)
           IN  /\ a \in Seq(Messages)
               /\ HasKind(q, "rects") \/ m.kind = "rects" => HasKind(a, "rects")
               /\ m.kind # "props" /\ HasAfter(q, Len(q), p, v) => HasAfter(a, Len(a), p, v)
               /\ m.kind # "props" /\ WillDraw(q, p) => WillDraw(a, p)
               /\ m.kind = "props" => HasAfter(a, Len(a), p, m.props)
               /\ /\ m.kind = "props" /\ v \in Props \cup {None}
                  /\ HasAfter(q, Len(q), p, v) /\ DrawsFor(v, m.props)
                  => WillDraw(a, p)
<1> DEFINE a == Append(q, m)
<1>1. /\ a \in Seq(Messages) /\ Len(q) \in Nat /\ Len(a) = Len(q) + 1
      /\ DOMAIN q = 1..Len(q) /\ DOMAIN a = 1..(Len(q) + 1)
      /\ \A i \in 1..Len(q) : a[i] = q[i]
      /\ a[Len(q) + 1] = m
  OBVIOUS
<1> HIDE DEF a
<1>2. HasKind(q, "rects") \/ m.kind = "rects" => HasKind(a, "rects")
  BY <1>1 DEF HasKind
<1>3. ASSUME NEW n \in 0..Len(q), NEW u, HasAfter(q, n, p, u)
      PROVE  HasAfter(a, n, p, u)
  <2>1. \A i \in 1..n : i \in 1..Len(q) /\ a[i] = q[i]
    BY <1>1
  <2>2. \A i \in 1..n : \A j \in (i + 1)..n : a[j] = q[j]
    BY <1>1
  <2> QED
    BY <1>3, <2>1, <2>2 DEF HasAfter
<1>4. ASSUME m.kind # "props", HasAfter(q, Len(q), p, v)
      PROVE  HasAfter(a, Len(a), p, v)
  <2>1. CASE v = p /\ \A i \in 1..Len(q) : q[i].kind # "props"
    BY <1>1, <1>4, <2>1 DEF HasAfter
  <2>2. ASSUME NEW i \in 1..Len(q), q[i].kind = "props", q[i].props = v,
               \A j \in (i + 1)..Len(q) : q[j].kind # "props"
        PROVE  HasAfter(a, Len(a), p, v)
    <3>1. i \in 1..Len(a) /\ a[i] = q[i]
      BY <1>1
    <3>2. \A j \in (i + 1)..Len(a) : a[j].kind # "props"
      BY <1>1, <1>4, <2>2
    <3> QED
      BY <2>2, <3>1, <3>2 DEF HasAfter
  <2> QED
    BY <1>4, <2>1, <2>2 DEF HasAfter
<1>5. ASSUME m.kind # "props", WillDraw(q, p)
      PROVE  WillDraw(a, p)
  <2>1. PICK i \in DOMAIN q :
            /\ q[i].kind = "props"
            /\ \A j \in DOMAIN q : j > i => q[j].kind # "props"
            /\ \E u \in Props \cup {None} : HasAfter(q, i - 1, p, u) /\ DrawsFor(u, q[i].props)
    BY <1>5 DEF WillDraw
  <2>2. PICK u \in Props \cup {None} : HasAfter(q, i - 1, p, u) /\ DrawsFor(u, q[i].props)
    BY <2>1
  <2>3. i \in DOMAIN a /\ a[i] = q[i] /\ i - 1 \in 0..Len(q)
    BY <1>1
  <2>4. \A j \in DOMAIN a : j > i => a[j].kind # "props"
    BY <1>1, <1>5, <2>1
  <2> QED
    BY <1>3, <2>1, <2>2, <2>3, <2>4 DEF WillDraw
<1>6. ASSUME m.kind = "props"
      PROVE  HasAfter(a, Len(a), p, m.props)
  <2>1. Len(a) \in 1..Len(a) /\ a[Len(a)] = m /\ \A j \in (Len(a) + 1)..Len(a) : FALSE
    BY <1>1
  <2> QED
    BY <1>6, <2>1 DEF HasAfter
<1>7. ASSUME m.kind = "props", v \in Props \cup {None}, HasAfter(q, Len(q), p, v), DrawsFor(v, m.props)
      PROVE  WillDraw(a, p)
  <2>1. HasAfter(a, Len(a) - 1, p, v)
    BY <1>1, <1>3, <1>7
  <2>2. Len(a) \in DOMAIN a /\ a[Len(a)] = m /\ \A j \in DOMAIN a : ~(j > Len(a))
    BY <1>1
  <2> QED
    BY <1>7, <2>1, <2>2 DEF WillDraw
<1> QED
  BY <1>1, <1>2, <1>4, <1>5, <1>6, <1>7 DEF a

LEMMA AppendShown ==
    ASSUME NEW q \in Seq(Messages), NEW m \in Messages, NEW shown, NEW b
    PROVE  LET a == Append(q, m)
           IN  /\ m.kind \notin Visibility /\ ShownAfter(q, shown, b) => ShownAfter(a, shown, b)
               /\ m.kind = "shown" => ShownAfter(a, shown, TRUE)
               /\ m.kind = "hidden" => ShownAfter(a, shown, FALSE)
<1> DEFINE a == Append(q, m)
<1>1. /\ a \in Seq(Messages) /\ Len(q) \in Nat
      /\ DOMAIN q = 1..Len(q) /\ DOMAIN a = 1..(Len(q) + 1)
      /\ \A i \in 1..Len(q) : a[i] = q[i]
      /\ a[Len(q) + 1] = m
  OBVIOUS
<1> HIDE DEF a
<1>2. m.kind \notin Visibility /\ ShownAfter(q, shown, b) => ShownAfter(a, shown, b)
  BY <1>1 DEF ShownAfter
<1>3. \A j \in DOMAIN a : ~(j > Len(q) + 1)
  BY <1>1
<1>4. m.kind = "shown" => ShownAfter(a, shown, TRUE)
  BY <1>1, <1>3 DEF ShownAfter
<1>5. m.kind = "hidden" => ShownAfter(a, shown, FALSE)
  BY <1>1, <1>3 DEF ShownAfter
<1> QED
  BY <1>2, <1>4, <1>5 DEF a

\* The renderer takes the first message.
LEMMA TakePipe ==
    ASSUME NEW q \in Seq(Messages), q # <<>>, NEW p, NEW v
    PROVE  LET m == Head(q)
               a == Tail(q)
               g == IF m.kind = "props" THEN m.props ELSE p
           IN  /\ m \in Messages /\ a \in Seq(Messages)
               /\ HasKind(q, "rects") => m.kind = "rects" \/ HasKind(a, "rects")
               /\ HasAfter(q, Len(q), p, v) => HasAfter(a, Len(a), g, v)
               /\ WillDraw(q, p) => WillDraw(a, g) \/ (m.kind = "props" /\ DrawsFor(p, m.props))
<1> DEFINE m == Head(q)
           a == Tail(q)
           g == IF m.kind = "props" THEN m.props ELSE p
<1>1. /\ a \in Seq(Messages) /\ m \in Messages /\ m = q[1]
      /\ Len(q) \in Nat \ {0} /\ Len(a) = Len(q) - 1
      /\ DOMAIN q = 1..Len(q) /\ DOMAIN a = 1..(Len(q) - 1)
      /\ \A i \in 1..(Len(q) - 1) : a[i] = q[i + 1]
  OBVIOUS
<1> HIDE DEF a, m
<1>2. \A i \in DOMAIN q : i = 1 \/ (i - 1 \in DOMAIN a /\ a[i - 1] = q[i])
  BY <1>1
<1>3. HasKind(q, "rects") => m.kind = "rects" \/ HasKind(a, "rects")
  BY <1>1, <1>2 DEF HasKind
<1>4. ASSUME NEW n \in 1..Len(q), NEW u, HasAfter(q, n, p, u)
      PROVE  HasAfter(a, n - 1, g, u)
  <2>1. \A j \in 1..(n - 1) : j + 1 \in 1..n /\ a[j] = q[j + 1]
    BY <1>1
  <2>2. 1 \in 1..n /\ n - 1 \in Nat
    BY <1>1
  <2>3. CASE u = p /\ \A i \in 1..n : q[i].kind # "props"
    <3>1. u = g
      BY <1>1, <2>2, <2>3
    <3>2. \A j \in 1..(n - 1) : a[j].kind # "props"
      BY <2>1, <2>3
    <3> QED
      BY <3>1, <3>2 DEF HasAfter
  <2>4. ASSUME NEW i \in 1..n, q[i].kind = "props", q[i].props = u,
               \A j \in (i + 1)..n : q[j].kind # "props"
        PROVE  HasAfter(a, n - 1, g, u)
    <3>1. CASE i = 1
      <4>1. u = g
        BY <1>1, <2>4, <3>1
      <4>2. \A j \in 1..(n - 1) : a[j].kind # "props"
        BY <2>1, <2>4, <3>1
      <4> QED
        BY <4>1, <4>2 DEF HasAfter
    <3>2. CASE i # 1
      <4>1. i - 1 \in 1..(n - 1) /\ a[i - 1] = q[i]
        BY <1>1, <3>2
      <4>2. \A j \in ((i - 1) + 1)..(n - 1) : a[j].kind # "props"
        BY <2>1, <2>4, <3>2
      <4> QED
        BY <2>4, <4>1, <4>2 DEF HasAfter
    <3> QED
      BY <3>1, <3>2
  <2> QED
    BY <1>4, <2>3, <2>4 DEF HasAfter
<1>5. HasAfter(q, Len(q), p, v) => HasAfter(a, Len(a), g, v)
  BY <1>1, <1>4
<1>6. ASSUME WillDraw(q, p)
      PROVE  WillDraw(a, g) \/ (m.kind = "props" /\ DrawsFor(p, m.props))
  <2>1. PICK i \in DOMAIN q :
            /\ q[i].kind = "props"
            /\ \A j \in DOMAIN q : j > i => q[j].kind # "props"
            /\ \E u \in Props \cup {None} : HasAfter(q, i - 1, p, u) /\ DrawsFor(u, q[i].props)
    BY <1>6 DEF WillDraw
  <2>2. PICK u \in Props \cup {None} : HasAfter(q, i - 1, p, u) /\ DrawsFor(u, q[i].props)
    BY <2>1
  <2>3. CASE i = 1
    <3>1. u = p
      BY <2>2, <2>3 DEF HasAfter
    <3> QED
      BY <1>1, <2>1, <2>2, <2>3, <3>1
  <2>4. CASE i # 1
    <3>1. i - 1 \in DOMAIN a /\ a[i - 1] = q[i] /\ i - 1 \in 1..Len(q)
      BY <1>1, <2>4
    <3>2. HasAfter(a, (i - 1) - 1, g, u)
      BY <1>4, <2>2, <3>1
    <3>3. \A j \in DOMAIN a : j > i - 1 => a[j].kind # "props"
      <4>1. \A j \in DOMAIN a : j + 1 \in DOMAIN q /\ a[j] = q[j + 1]
        BY <1>1
      <4> QED
        BY <1>1, <2>1, <4>1
    <3> QED
      BY <2>1, <2>2, <3>1, <3>2, <3>3 DEF WillDraw
  <2> QED
    BY <2>3, <2>4
<1> QED
  BY <1>1, <1>3, <1>5, <1>6 DEF a, m

LEMMA TakeShown ==
    ASSUME NEW q \in Seq(Messages), q # <<>>, NEW shown \in BOOLEAN, NEW b \in BOOLEAN, ShownAfter(q, shown, b)
    PROVE  LET m == Head(q)
           IN  ShownAfter(Tail(q), IF m.kind = "shown" THEN TRUE
                                   ELSE IF m.kind = "hidden" THEN FALSE ELSE shown, b)
<1> DEFINE m == Head(q)
           a == Tail(q)
           g == IF m.kind = "shown" THEN TRUE ELSE IF m.kind = "hidden" THEN FALSE ELSE shown
<1>1. /\ m = q[1]
      /\ Len(q) \in Nat \ {0}
      /\ DOMAIN q = 1..Len(q) /\ DOMAIN a = 1..(Len(q) - 1)
      /\ \A i \in 1..(Len(q) - 1) : a[i] = q[i + 1]
  OBVIOUS
<1> HIDE DEF a, m
<1>2. \A j \in DOMAIN a : j + 1 \in DOMAIN q /\ j + 1 > 1 /\ a[j] = q[j + 1]
  BY <1>1
<1>3. ASSUME shown = b, \A i \in DOMAIN q : q[i].kind \notin Visibility
      PROVE  ShownAfter(a, g, b)
  <2>1. m.kind # "shown" /\ m.kind # "hidden"
    BY <1>1, <1>3 DEF Visibility
  <2>2. g = b
    BY <1>3, <2>1
  <2> QED
    BY <1>2, <1>3, <2>2 DEF ShownAfter
<1>4. ASSUME NEW i \in DOMAIN q, q[i].kind = IF b THEN "shown" ELSE "hidden",
             \A j \in DOMAIN q : j > i => q[j].kind \notin Visibility
      PROVE  ShownAfter(a, g, b)
  <2>1. CASE i = 1
    <3>1. g = b
      <4>1. m.kind = IF b THEN "shown" ELSE "hidden"
        BY <1>1, <1>4, <2>1
      <4>2. CASE b
        BY <4>1, <4>2
      <4>3. CASE ~b
        BY <4>1, <4>3
      <4>4. QED
        BY <4>2, <4>3
    <3>2. \A j \in DOMAIN a : a[j].kind \notin Visibility
      BY <1>2, <1>4, <2>1
    <3> QED
      BY <3>1, <3>2 DEF ShownAfter
  <2>2. CASE i # 1
    <3>1. i - 1 \in DOMAIN a /\ a[i - 1] = q[i]
      BY <1>1, <2>2
    <3>2. \A j \in DOMAIN a : j > i - 1 => a[j].kind \notin Visibility
      BY <1>1, <1>2, <1>4
    <3> QED
      BY <1>4, <3>1, <3>2 DEF ShownAfter
  <2> QED
    BY <2>1, <2>2
<1> QED
  BY <1>3, <1>4 DEF ShownAfter, a, m

-----------------------------------------------------------------------------
(* What the operators do to a widget.                                      *)

\* The members that sending leaves alone.
Alike(s, t) ==
    /\ t.created = s.created /\ t.waitingForInit = s.waitingForInit /\ t.hidden = s.hidden
    /\ t.view = s.view /\ t.destroyed = s.destroyed /\ t.delegate = s.delegate
    /\ t.pendingShow = s.pendingShow /\ t.staleShow = s.staleShow

\* Nothing is sent by a widget that is not created or waits for Init().
Silent(s, t) ==
    ~s.created \/ s.waitingForInit
        => t.out = s.out /\ t.rectAck = s.rectAck /\ t.ackPending = s.ackPending /\ t.old = s.old

\* The pipe of t tells the renderer what that of s told it, and more of the geometry at most.
Tells(s, t) ==
    /\ t \in Widgets /\ Alike(s, t) /\ Silent(s, t)
    /\ \A x \in Renderers, acks \in Nat, coming \in BOOLEAN :
          PipeOK(s, x, acks, coming) => PipeOK(t, x, acks, coming)
    /\ \A shown, b \in BOOLEAN : ShownAfter(s.out, shown, b) => ShownAfter(t.out, shown, b)

LEMMA TellsTwice ==
    ASSUME NEW s, NEW t, NEW u, Tells(s, t), Tells(t, u)
    PROVE  Tells(s, u)
<1>1. u \in Widgets /\ Alike(s, u) /\ Silent(s, u)
  BY DEF Tells, Alike, Silent
<1>2. QED
  BY <1>1 DEF Tells

\* A message more in the pipe, and nothing else.
LEMMA SendKeeps ==
    ASSUME NEW s \in Widgets, NEW m \in Messages
    PROVE  /\ Send(s, m) \in Widgets /\ Alike(s, Send(s, m)) /\ Send(s, m).out = Append(s.out, m)
           /\ Send(s, m).old = s.old
           /\ Send(s, m).ackPending = s.ackPending /\ Send(s, m).rectAck = s.rectAck
<1>1. Append(s.out, m) \in Seq(Messages)
  BY DEF Widgets
<1>2. QED
  BY <1>1 DEF Send, Widgets, Alike

LEMMA RectsTell ==
    ASSUME NEW s \in Widgets
    PROVE  Tells(s, SendScreenRects(s))
<1> DEFINE m == [kind |-> "rects", rect |-> s.bounds]
           t == [Send(s, m) EXCEPT !.lastRect = s.bounds, !.rectAck = TRUE]
<1>1. m \in Messages /\ m.kind = "rects" /\ s.bounds \in Rects
  BY DEF Messages, Widgets
<1>2. s.out \in Seq(Messages)
  BY DEF Widgets
<1> HIDE DEF m
<1>3. /\ t \in Widgets /\ Alike(s, t)
      /\ t.out = Append(s.out, m) /\ t.old = s.old /\ t.ackPending = s.ackPending /\ t.rectAck
  BY <1>1, SendKeeps DEF Widgets, Alike
<1> HIDE DEF t
<1>4. ASSUME NEW x \in Renderers, NEW acks \in Nat, NEW coming \in BOOLEAN,
             PipeOK(s, x, acks, coming)
      PROVE  PipeOK(t, x, acks, coming)
  BY <1>1, <1>2, <1>3, <1>4, AppendPipe DEF PipeOK
<1>5. ASSUME NEW shown \in BOOLEAN, NEW b \in BOOLEAN, ShownAfter(s.out, shown, b)
      PROVE  ShownAfter(t.out, shown, b)
  BY <1>1, <1>2, <1>3, <1>5, AppendShown DEF Visibility
<1>6. s.created /\ ~s.waitingForInit => Tells(s, t)
  BY <1>3, <1>4, <1>5 DEF Tells, Silent
<1>7. Tells(s, s)
  BY DEF Tells, Alike, Silent
<1>8. QED
  BY <1>6, <1>7 DEF SendScreenRects, t, m

LEMMA PropertiesTell ==
    ASSUME NEW s \in Widgets
    PROVE  Tells(s, SynchronizeVisualProperties(s))
<1> DEFINE m == [kind |-> "props", props |-> s.props]
           ack == DoesVisualPropertiesNeedAck(s.old, s.props)
           t == [Send(s, m) EXCEPT !.ackPending = ack, !.old = s.props]
<1>1. m \in Messages /\ m.kind = "props" /\ m.props = s.props /\ s.props \in Props
  BY DEF Messages, Widgets
<1>2. s.out \in Seq(Messages) /\ s.old \in Props \cup {None}
  BY DEF Widgets
<1>3. ack \in BOOLEAN /\ (ack => DrawsFor(s.old, s.props))
  BY DEF DoesVisualPropertiesNeedAck, DrawsFor
<1> HIDE DEF m, ack
<1>4. /\ t \in Widgets /\ Alike(s, t)
      /\ t.out = Append(s.out, m) /\ t.old = s.props /\ t.rectAck = s.rectAck
      /\ t.ackPending => DrawsFor(s.old, s.props)
  <2>1. Send(s, m) \in Widgets /\ Alike(s, Send(s, m)) /\ Send(s, m).out = Append(s.out, m)
        /\ Send(s, m).rectAck = s.rectAck
    BY <1>1, SendKeeps
  <2>2. t \in Widgets
    BY <1>1, <1>3, <2>1 DEF Widgets
  <2>3. t.ackPending = ack
    BY <2>1 DEF Widgets
  <2>4. /\ Alike(s, t) /\ t.out = Append(s.out, m) /\ t.old = s.props /\ t.rectAck = s.rectAck
    BY <2>1 DEF Widgets, Alike
  <2>5. QED
    BY <1>3, <2>2, <2>3, <2>4
<1> HIDE DEF t
<1>5. ASSUME NEW x \in Renderers, NEW acks \in Nat, NEW coming \in BOOLEAN,
             PipeOK(s, x, acks, coming)
      PROVE  PipeOK(t, x, acks, coming)
  <2>1. HasAfter(s.out, Len(s.out), x.props, s.old)
    BY <1>5 DEF PipeOK
  <2>2. /\ HasAfter(t.out, Len(t.out), x.props, s.props)
        /\ DrawsFor(s.old, s.props) => WillDraw(t.out, x.props)
        /\ HasKind(s.out, "rects") => HasKind(t.out, "rects")
    BY <2>1, <1>1, <1>2, <1>4, AppendPipe
  <2>3. QED
    BY <2>2, <1>4, <1>5 DEF PipeOK
<1>6. ASSUME NEW shown \in BOOLEAN, NEW b \in BOOLEAN, ShownAfter(s.out, shown, b)
      PROVE  ShownAfter(t.out, shown, b)
  BY <1>1, <1>2, <1>4, <1>6, AppendShown DEF Visibility
<1>7. s.created /\ ~s.waitingForInit => Tells(s, t)
  BY <1>4, <1>5, <1>6 DEF Tells, Silent
<1>8. Tells(s, s)
  BY DEF Tells, Alike, Silent
<1>9. QED
  BY <1>7, <1>8 DEF SynchronizeVisualProperties, MaySynchronize, t, m, ack

\* Both, as most handlers call them.
LEMMA GeometryTells ==
    ASSUME NEW s \in Widgets
    PROVE  Tells(s, SynchronizeVisualProperties(SendScreenRects(s)))
<1>1. Tells(s, SendScreenRects(s)) /\ SendScreenRects(s) \in Widgets
  BY RectsTell DEF Tells
<1>2. QED
  BY <1>1, PropertiesTell, TellsTwice

\* The host shows or hides the widget: m says so.
LEMMA VisibilityTells ==
    ASSUME NEW s \in Widgets, NEW m \in Messages, m.kind \in Visibility
    PROVE  /\ Send(s, m) \in Widgets /\ Alike(s, Send(s, m))
           /\ \A x \in Renderers, acks \in Nat, coming \in BOOLEAN :
                 PipeOK(s, x, acks, coming) => PipeOK(Send(s, m), x, acks, coming)
           /\ \A shown \in BOOLEAN : ShownAfter(Send(s, m).out, shown, m.kind = "shown")
<1>1. s.out \in Seq(Messages)
  BY DEF Widgets
<1>2. /\ Send(s, m) \in Widgets /\ Alike(s, Send(s, m))
      /\ Send(s, m).out = Append(s.out, m) /\ Send(s, m).old = s.old
      /\ Send(s, m).ackPending = s.ackPending /\ Send(s, m).rectAck = s.rectAck
  BY SendKeeps
<1>3. ASSUME NEW x \in Renderers, NEW acks \in Nat, NEW coming \in BOOLEAN,
             PipeOK(s, x, acks, coming)
      PROVE  PipeOK(Send(s, m), x, acks, coming)
  BY <1>1, <1>2, <1>3, AppendPipe DEF PipeOK, Visibility
<1>4. ASSUME NEW shown \in BOOLEAN
      PROVE  ShownAfter(Send(s, m).out, shown, m.kind = "shown")
  <2>1. CASE m.kind = "shown"
    BY <1>1, <1>2, <2>1, AppendShown
  <2>2. CASE m.kind = "hidden"
    BY <1>1, <1>2, <2>2, AppendShown
  <2>3. QED
    BY <2>1, <2>2 DEF Visibility
<1>5. QED
  BY <1>2, <1>3, <1>4

\* The host gives up waiting for a frame.
LEMMA UnthrottledTells ==
    ASSUME NEW s \in Widgets
    PROVE  LET t == [s EXCEPT !.ackPending = FALSE]
           IN  /\ t \in Widgets /\ Alike(s, t)
               /\ t.out = s.out /\ t.rectAck = s.rectAck /\ t.old = s.old /\ ~t.ackPending
               /\ \A x \in Renderers, acks \in Nat, before, after \in BOOLEAN :
                     PipeOK(s, x, acks, before) => PipeOK(t, x, acks, after)
<1> DEFINE t == [s EXCEPT !.ackPending = FALSE]
<1>1. /\ t \in Widgets /\ Alike(s, t)
      /\ t.out = s.out /\ t.rectAck = s.rectAck /\ t.old = s.old /\ t.ackPending = FALSE
  BY DEF Widgets, Alike
<1> HIDE DEF t
<1>2. ASSUME NEW x \in Renderers, NEW acks \in Nat, NEW before \in BOOLEAN, NEW after \in BOOLEAN,
             PipeOK(s, x, acks, before)
      PROVE  PipeOK(t, x, acks, after)
  BY <1>1, <1>2 DEF PipeOK
<1>3. QED
  BY <1>1, <1>2 DEF t

-----------------------------------------------------------------------------
(* What the handlers do to a widget.                                       *)

\* Whether a frame or a commit is on its way.
Coming == frames > 0 \/ commits > 0

\* The types, member by member, as the steps below use them.
LEMMA Types ==
    ASSUME TypeOK
    PROVE  /\ w \in Widgets /\ r \in Renderers /\ hang \in Hangs /\ mouse \in Mice /\ keys \in Keys
           /\ frames \in Nat /\ rectAcks \in Nat /\ commits \in Nat /\ Coming \in BOOLEAN
BY DEF TypeOK, Widgets, Renderers, Hangs, Mice, Keys, Coming

\* The handlers of a new geometry and of the renderer's answers leave the life of the widget
\* alone and send what the renderer will answer.
LEMMA GeometrySteps ==
    ASSUME TypeOK,
           \/ ViewChanges \/ NotifyScreenInfoChanged \/ OnUpdateScreenRectsAck
           \/ OnLocalSurfaceIdChanged \/ DidNavigate
    PROVE  /\ w' \in Widgets /\ Alike(w, w')
           /\ ~w.created \/ w.waitingForInit
                 => /\ w'.out = w.out /\ w'.old = w.old
                    /\ (w'.rectAck => w.rectAck) /\ (w'.ackPending => w.ackPending)
           /\ PipeOK(w, r, rectAcks, Coming) => PipeOK(w', r, rectAcks', Coming')
           /\ \A shown, b \in BOOLEAN : ShownAfter(w.out, shown, b) => ShownAfter(w'.out, shown, b)
<1> USE Types
<1>1. CASE ViewChanges
  <2>1. PICK p \in Props, b \in Rects :
            w' = SynchronizeVisualProperties(SendScreenRects([w EXCEPT !.props = p, !.bounds = b]))
    BY <1>1 DEF ViewChanges
  <2> DEFINE s == [w EXCEPT !.props = p, !.bounds = b]
  <2>2. /\ s \in Widgets /\ Alike(w, s)
        /\ s.out = w.out /\ s.rectAck = w.rectAck /\ s.ackPending = w.ackPending /\ s.old = w.old
    BY DEF Widgets, Alike
  <2> HIDE DEF s
  <2>3. Tells(s, w')
    BY <2>1, <2>2, GeometryTells DEF s
  <2>4. rectAcks' = rectAcks /\ Coming' = Coming
    BY <1>1 DEF ViewChanges, Coming
  <2>5. PipeOK(w, r, rectAcks, Coming) => PipeOK(s, r, rectAcks, Coming)
    BY <2>2 DEF PipeOK
  <2>6. QED
    BY <2>2, <2>3, <2>4, <2>5 DEF Tells, Alike, Silent
<1>2. CASE NotifyScreenInfoChanged
  <2>1. PICK c \in Scales :
            w' = SynchronizeVisualPropertiesIgnoringPendingAck([w EXCEPT !.props.scale = c])
    BY <1>2 DEF NotifyScreenInfoChanged
  <2> DEFINE s == [w EXCEPT !.props.scale = c]
             u == [s EXCEPT !.ackPending = FALSE]
  <2>2. [w.props EXCEPT !.scale = c] \in Props
    BY DEF Widgets, Props
  <2>3. /\ s \in Widgets /\ Alike(w, s)
        /\ s.out = w.out /\ s.rectAck = w.rectAck /\ s.ackPending = w.ackPending /\ s.old = w.old
    BY <2>2 DEF Widgets, Alike
  <2> HIDE DEF s
  <2>4. /\ u \in Widgets /\ Alike(s, u)
        /\ u.out = s.out /\ u.rectAck = s.rectAck /\ u.old = s.old /\ ~u.ackPending
        /\ PipeOK(s, r, rectAcks, Coming) => PipeOK(u, r, rectAcks, Coming)
    BY <2>3, UnthrottledTells
  <2> HIDE DEF u
  <2>5. Tells(u, w')
    BY <2>1, <2>4, PropertiesTell DEF SynchronizeVisualPropertiesIgnoringPendingAck, s, u
  <2>6. rectAcks' = rectAcks /\ Coming' = Coming
    BY <1>2 DEF NotifyScreenInfoChanged, Coming
  <2>7. PipeOK(w, r, rectAcks, Coming) => PipeOK(s, r, rectAcks, Coming)
    BY <2>3 DEF PipeOK
  <2>8. QED
    BY <2>3, <2>4, <2>5, <2>6, <2>7 DEF Tells, Alike, Silent
<1>3. CASE OnUpdateScreenRectsAck
  <2> DEFINE s == [w EXCEPT !.rectAck = FALSE]
  <2>1. /\ s \in Widgets /\ Alike(w, s)
        /\ s.out = w.out /\ s.rectAck = FALSE /\ s.ackPending = w.ackPending /\ s.old = w.old
    BY DEF Widgets, Alike
  <2> HIDE DEF s
  <2>2. Tells(s, w')
    BY <1>3, <2>1, RectsTell DEF OnUpdateScreenRectsAck, s
  <2>3. rectAcks' \in Nat /\ Coming' = Coming
    BY <1>3 DEF OnUpdateScreenRectsAck, Coming
  <2>4. PipeOK(w, r, rectAcks, Coming) => PipeOK(s, r, rectAcks', Coming)
    BY <2>1 DEF PipeOK
  <2>5. QED
    BY <2>1, <2>2, <2>3, <2>4 DEF Tells, Alike, Silent
<1>4. CASE OnLocalSurfaceIdChanged \/ DidNavigate
  <2> DEFINE u == [w EXCEPT !.ackPending = FALSE]
  <2>1. rectAcks' = rectAcks /\ Coming' \in BOOLEAN
    BY <1>4 DEF OnLocalSurfaceIdChanged, DidNavigate, Coming
  <2>2. /\ u \in Widgets /\ Alike(w, u)
        /\ u.out = w.out /\ u.rectAck = w.rectAck /\ u.old = w.old /\ ~u.ackPending
        /\ PipeOK(w, r, rectAcks, Coming) => PipeOK(u, r, rectAcks, Coming')
    BY <2>1, UnthrottledTells
  <2> HIDE DEF u
  <2>3. Tells(u, u)
    BY <2>2 DEF Tells, Alike, Silent
  <2>4. Tells(u, w')
    BY <1>4, <2>2, <2>3, PropertiesTell
       DEF OnLocalSurfaceIdChanged, DidNavigate, SynchronizeVisualPropertiesIgnoringPendingAck, u
  <2>5. QED
    BY <2>1, <2>2, <2>4 DEF Tells, Alike, Silent
<1>5. QED
  BY <1>1, <1>2, <1>3, <1>4

\* The widget is shown: the renderer is told, now or after Init().
LEMMA ShownStep ==
    ASSUME TypeOK, WasShown
    PROVE  /\ w' \in Widgets /\ ~w'.hidden
           /\ w'.created /\ w'.waitingForInit = w.waitingForInit /\ w'.destroyed = w.destroyed
           /\ w'.view = w.view /\ w'.delegate = w.delegate
           /\ w.waitingForInit => w'.out = w.out /\ w'.pendingShow
           /\ ~w.waitingForInit => w'.pendingShow = w.pendingShow
           /\ w'.staleShow = (w.staleShow /\ w.pendingShow)
           /\ PipeOK(w, r, rectAcks, Coming) => PipeOK(w', r, rectAcks', Coming')
           /\ ~w.waitingForInit => \A shown \in BOOLEAN : ShownAfter(w'.out, shown, TRUE)
<1> USE Types
<1> DEFINE s    == [w EXCEPT !.hidden = FALSE, !.staleShow = w.staleShow /\ w.pendingShow]
           seen == SynchronizeVisualProperties(SendScreenRects(s))
           m    == [kind |-> "shown"]
           told == IF w.waitingForInit THEN [seen EXCEPT !.pendingShow = TRUE] ELSE Send(seen, m)
<1>1. /\ s \in Widgets /\ s.hidden = FALSE /\ s.created = w.created
      /\ s.staleShow = (w.staleShow /\ w.pendingShow)
      /\ s.waitingForInit = w.waitingForInit /\ s.destroyed = w.destroyed
      /\ s.view = w.view /\ s.delegate = w.delegate /\ s.pendingShow = w.pendingShow
      /\ s.out = w.out /\ s.rectAck = w.rectAck /\ s.ackPending = w.ackPending /\ s.old = w.old
  BY DEF Widgets
<1>2. PipeOK(w, r, rectAcks, Coming) => PipeOK(s, r, rectAcks, Coming)
  BY <1>1 DEF PipeOK
<1>3. w.created /\ rectAcks' = rectAcks /\ Coming' = Coming /\ w' = SynchronizeVisualProperties(told)
  BY DEF WasShown, Coming
<1> HIDE DEF s
<1>4. Tells(s, seen)
  BY <1>1, GeometryTells
<1>5. seen \in Widgets /\ m \in Messages /\ m.kind = "shown"
  BY <1>4 DEF Tells, Messages
<1> HIDE DEF seen, m
<1>6. CASE w.waitingForInit
  <2>1. /\ told \in Widgets /\ told.pendingShow = TRUE
        /\ told.hidden = seen.hidden /\ told.created = seen.created
        /\ told.waitingForInit = seen.waitingForInit /\ told.destroyed = seen.destroyed
        /\ told.view = seen.view /\ told.delegate = seen.delegate
        /\ told.staleShow = seen.staleShow
        /\ told.out = seen.out /\ told.rectAck = seen.rectAck
        /\ told.ackPending = seen.ackPending /\ told.old = seen.old
    BY <1>5, <1>6 DEF Widgets
  <2> HIDE DEF told
  <2>2. PipeOK(seen, r, rectAcks, Coming) => PipeOK(told, r, rectAcks, Coming)
    BY <2>1 DEF PipeOK
  <2>3. Tells(told, w')
    BY <1>3, <2>1, PropertiesTell
  <2>4. w'.staleShow = (w.staleShow /\ w.pendingShow)
    BY <1>1, <1>4, <2>1, <2>3 DEF Tells, Alike
  <2>5. /\ ~w'.hidden /\ w'.created /\ w'.waitingForInit = w.waitingForInit
        /\ w'.destroyed = w.destroyed /\ w'.view = w.view /\ w'.delegate = w.delegate
        /\ w'.pendingShow /\ w' \in Widgets
    BY <1>1, <1>3, <1>4, <2>1, <2>3 DEF Tells, Alike
  <2>6. w'.out = w.out
    BY <1>1, <1>4, <1>6, <2>1, <2>3 DEF Tells, Alike, Silent
  <2>7. PipeOK(w, r, rectAcks, Coming) => PipeOK(w', r, rectAcks', Coming')
    BY <1>2, <1>3, <1>4, <2>2, <2>3 DEF Tells
  <2>8. QED
    BY <1>6, <2>4, <2>5, <2>6, <2>7
<1>7. CASE ~w.waitingForInit
  <2>1. /\ told \in Widgets /\ Alike(seen, told)
        /\ PipeOK(seen, r, rectAcks, Coming) => PipeOK(told, r, rectAcks, Coming)
        /\ \A shown \in BOOLEAN : ShownAfter(told.out, shown, TRUE)
    BY <1>5, <1>7, VisibilityTells DEF Visibility
  <2> HIDE DEF told
  <2>2. Tells(told, w')
    BY <1>3, <2>1, PropertiesTell
  <2>3. QED
    BY <1>1, <1>2, <1>3, <1>4, <1>7, <2>1, <2>2 DEF Tells, Alike
<1>8. QED
  BY <1>6, <1>7

\* The widget is hidden: a show that waits is forgotten, another is taken back.
LEMMA HiddenStep ==
    ASSUME TypeOK, WasHidden
    PROVE  /\ w' \in Widgets /\ w'.hidden
           /\ w'.created /\ w'.waitingForInit = w.waitingForInit /\ w'.destroyed = w.destroyed
           /\ w'.view = w.view /\ w'.delegate = w.delegate
           /\ w'.pendingShow => w.pendingShow
           /\ w'.staleShow = w.staleShow
           /\ w.pendingShow => w'.out = w.out /\ ~w'.pendingShow
           /\ PipeOK(w, r, rectAcks, Coming) => PipeOK(w', r, rectAcks', Coming')
           /\ ~w.pendingShow => \A shown \in BOOLEAN : ShownAfter(w'.out, shown, FALSE)
<1> USE Types
<1> DEFINE u == [w EXCEPT !.hidden = TRUE, !.ackPending = FALSE]
           m == [kind |-> "hidden"]
<1>1. /\ u \in Widgets /\ u.hidden = TRUE /\ u.created = w.created
      /\ u.waitingForInit = w.waitingForInit /\ u.destroyed = w.destroyed
      /\ u.view = w.view /\ u.delegate = w.delegate /\ u.pendingShow = w.pendingShow
      /\ u.staleShow = w.staleShow
      /\ u.out = w.out /\ u.rectAck = w.rectAck /\ u.ackPending = FALSE /\ u.old = w.old
  BY DEF Widgets
<1>2. PipeOK(w, r, rectAcks, Coming) => PipeOK(u, r, rectAcks, Coming)
  BY <1>1 DEF PipeOK
<1>3. w.created /\ rectAcks' = rectAcks /\ Coming' = Coming
      /\ w' = IF w.pendingShow THEN [u EXCEPT !.pendingShow = FALSE] ELSE Send(u, m)
  BY DEF WasHidden, Coming
<1>4. m \in Messages /\ m.kind = "hidden"
  BY DEF Messages
<1> HIDE DEF u, m
<1>5. CASE w.pendingShow
  <2>1. /\ w' \in Widgets /\ w'.pendingShow = FALSE /\ w'.hidden = TRUE /\ w'.created = u.created
        /\ w'.waitingForInit = u.waitingForInit /\ w'.destroyed = u.destroyed
        /\ w'.view = u.view /\ w'.delegate = u.delegate /\ w'.staleShow = u.staleShow
        /\ w'.out = u.out /\ w'.rectAck = u.rectAck /\ w'.ackPending = u.ackPending
        /\ w'.old = u.old
    <3>1. w' = [u EXCEPT !.pendingShow = FALSE] /\ u \in Widgets /\ u.hidden = TRUE
      BY <1>1, <1>3, <1>5
    <3>2. w' \in Widgets
      BY <3>1 DEF Widgets
    <3>3. /\ w'.pendingShow = FALSE /\ w'.hidden = u.hidden /\ w'.created = u.created
          /\ w'.waitingForInit = u.waitingForInit /\ w'.destroyed = u.destroyed
          /\ w'.view = u.view /\ w'.delegate = u.delegate /\ w'.staleShow = u.staleShow
      BY <3>1 DEF Widgets
    <3>4. /\ w'.out = u.out /\ w'.rectAck = u.rectAck /\ w'.ackPending = u.ackPending
          /\ w'.old = u.old
      BY <3>1 DEF Widgets
    <3>5. QED
      BY <3>1, <3>2, <3>3, <3>4
  <2>2. PipeOK(u, r, rectAcks, Coming) => PipeOK(w', r, rectAcks, Coming)
    BY <2>1 DEF PipeOK
  <2>3. QED
    BY <1>1, <1>2, <1>3, <1>5, <2>1, <2>2
<1>6. CASE ~w.pendingShow
  <2>1. /\ w' \in Widgets /\ Alike(u, w')
        /\ PipeOK(u, r, rectAcks, Coming) => PipeOK(w', r, rectAcks, Coming)
        /\ \A shown \in BOOLEAN : ShownAfter(w'.out, shown, FALSE)
    <3>1. w' = Send(u, m) /\ m.kind \in Visibility /\ (m.kind = "shown") = FALSE
      BY <1>3, <1>4, <1>6 DEF Visibility
    <3>2. \A shown \in BOOLEAN : ShownAfter(Send(u, m).out, shown, m.kind = "shown")
      BY <1>1, <1>4, <3>1, VisibilityTells
    <3>3. QED
      BY <1>1, <1>4, <3>1, <3>2, VisibilityTells
  <2>2. QED
    BY <1>1, <1>2, <1>3, <1>6, <2>1 DEF Alike
<1>7. QED
  BY <1>5, <1>6

\* The new window is shown by its renderer: what waited for Init() is sent.
LEMMA InitStep ==
    ASSUME TypeOK, InitWidget
    PROVE  /\ w' \in Widgets /\ w'.hidden = w.hidden
           /\ w'.created /\ ~w'.waitingForInit /\ w'.destroyed = w.destroyed
           /\ w'.view = w.view /\ w'.delegate = w.delegate /\ ~w'.pendingShow
           /\ PipeOK(w, r, rectAcks, Coming) => PipeOK(w', r, rectAcks', Coming')
           /\ w.pendingShow => \A shown \in BOOLEAN : ShownAfter(w'.out, shown, TRUE)
           /\ ~w.pendingShow => \A shown, b \in BOOLEAN :
                                   ShownAfter(w.out, shown, b) => ShownAfter(w'.out, shown, b)
<1> USE Types
<1> DEFINE s     == [w EXCEPT !.waitingForInit = FALSE]
           ready == SynchronizeVisualProperties(SendScreenRects(s))
           m     == [kind |-> "shown"]
<1>1. /\ s \in Widgets /\ s.hidden = w.hidden /\ s.created = w.created
      /\ s.waitingForInit = FALSE /\ s.destroyed = w.destroyed
      /\ s.view = w.view /\ s.delegate = w.delegate /\ s.pendingShow = w.pendingShow
      /\ s.out = w.out /\ s.rectAck = w.rectAck /\ s.ackPending = w.ackPending /\ s.old = w.old
  BY DEF Widgets
<1>2. PipeOK(w, r, rectAcks, Coming) => PipeOK(s, r, rectAcks, Coming)
  BY <1>1 DEF PipeOK
<1>3. w.created /\ rectAcks' = rectAcks /\ Coming' = Coming
      /\ w' = IF w.pendingShow THEN [Send(ready, m) EXCEPT !.pendingShow = FALSE] ELSE ready
  BY DEF InitWidget, Coming
<1> HIDE DEF s
<1>4. Tells(s, ready)
  BY <1>1, GeometryTells
<1>5. ready \in Widgets /\ m \in Messages /\ m.kind = "shown"
  BY <1>4 DEF Tells, Messages
<1> HIDE DEF ready, m
<1>6. CASE w.pendingShow
  <2> DEFINE told == Send(ready, m)
  <2>1. /\ told \in Widgets /\ Alike(ready, told)
        /\ PipeOK(ready, r, rectAcks, Coming) => PipeOK(told, r, rectAcks, Coming)
        /\ \A shown \in BOOLEAN : ShownAfter(told.out, shown, TRUE)
    BY <1>5, VisibilityTells DEF Visibility
  <2> HIDE DEF told
  <2>2. /\ w' \in Widgets /\ w'.pendingShow = FALSE
        /\ w'.hidden = told.hidden /\ w'.created = told.created
        /\ w'.waitingForInit = told.waitingForInit /\ w'.destroyed = told.destroyed
        /\ w'.view = told.view /\ w'.delegate = told.delegate
        /\ w'.out = told.out /\ w'.rectAck = told.rectAck
        /\ w'.ackPending = told.ackPending /\ w'.old = told.old
    BY <1>3, <1>6, <2>1 DEF Widgets, told
  <2>3. PipeOK(told, r, rectAcks, Coming) => PipeOK(w', r, rectAcks, Coming)
    BY <2>2 DEF PipeOK
  <2>4. QED
    BY <1>1, <1>2, <1>3, <1>4, <1>6, <2>1, <2>2, <2>3 DEF Tells, Alike
<1>7. CASE ~w.pendingShow
  BY <1>1, <1>2, <1>3, <1>4, <1>7 DEF Tells, Alike
<1>8. QED
  BY <1>6, <1>7

\* The browser creates the widget: its renderer knows the properties and nothing else.
LEMMA CreateStep ==
    ASSUME TypeOK, CreateWidget
    PROVE  /\ w' \in Widgets /\ r' \in Renderers /\ w'.hidden = w.hidden
           /\ w'.created /\ ~w'.waitingForInit /\ ~w'.destroyed
           /\ w'.delegate = w.delegate /\ w'.pendingShow = w.pendingShow
           /\ w'.staleShow = w.staleShow
           /\ PipeOK(w', r', rectAcks', Coming')
           /\ ShownAfter(w'.out, r'.shown, FALSE)
<1> USE Types
<1> DEFINE ack == DoesVisualPropertiesNeedAck(None, w.props)
           s   == [ResetStateForCreatedRenderWidget([w EXCEPT !.view = TRUE]) EXCEPT !.created = TRUE]
<1>1. w.props \in Props /\ ack \in BOOLEAN /\ (ack <=> DrawsFor(None, w.props))
      /\ DrawsFor(None, w.props) \in BOOLEAN
  BY DEF DoesVisualPropertiesNeedAck, DrawsFor, Widgets
<1>2. <<>> \in Seq(Messages) /\ Len(<<>>) = 0 /\ DOMAIN <<>> = 1..0
  OBVIOUS
<1> HIDE DEF ack
<1>3. s = [w EXCEPT !.view = TRUE, !.rectAck = FALSE, !.lastRect = None, !.out = <<>>,
                    !.ackPending = ack, !.old = w.props, !.created = TRUE]
  BY DEF ResetStateForCreatedRenderWidget, Widgets, ack
<1> HIDE DEF s
<1>4. /\ s \in Widgets /\ s.hidden = w.hidden /\ s.created = TRUE
      /\ s.waitingForInit = w.waitingForInit /\ s.destroyed = w.destroyed
      /\ s.delegate = w.delegate /\ s.pendingShow = w.pendingShow /\ s.staleShow = w.staleShow
      /\ s.out = <<>> /\ s.rectAck = FALSE /\ s.ackPending = ack /\ s.old = w.props
  BY <1>1, <1>2, <1>3 DEF Widgets
<1>5. ~w.waitingForInit /\ ~w.destroyed /\ rectAcks' = 0 /\ Coming' = Coming
  BY DEF CreateWidget, Coming
<1>6. r' \in Renderers /\ r'.props = w.props /\ r'.shown = FALSE /\ r'.dirty = DrawsFor(None, w.props)
  BY <1>1 DEF CreateWidget, NoWidget, Renderers
<1>7. PipeOK(s, r', 0, Coming)
  BY <1>1, <1>2, <1>4, <1>6 DEF PipeOK, HasAfter
<1>8. ShownAfter(s.out, r'.shown, FALSE)
  BY <1>2, <1>4, <1>6 DEF ShownAfter
<1>9. Tells(s, w')
  BY <1>4, GeometryTells DEF CreateWidget, RendererWidgetCreated, s
<1>10. QED
  BY <1>4, <1>5, <1>6, <1>7, <1>8, <1>9 DEF Tells, Alike

\* The renderer asked for the window: nobody knows anything yet.
LEMMA CreateNewWindowStep ==
    ASSUME TypeOK, NewWindowIsFresh, CreateWidgetForNewWindow
    PROVE  /\ w' \in Widgets /\ r' \in Renderers /\ w'.hidden = w.hidden
           /\ w'.created /\ w'.waitingForInit /\ ~w'.destroyed
           /\ w'.delegate = w.delegate /\ ~w'.pendingShow
           /\ PipeOK(w', r', rectAcks', Coming')
           /\ w'.out = <<>> /\ r'.alive /\ ~r'.shown
<1> USE Types
<1>1. PICK view \in BOOLEAN : w' = RendererWidgetCreated([w EXCEPT !.view = view])
  BY DEF CreateWidgetForNewWindow
<1> DEFINE s == [[w EXCEPT !.view = view] EXCEPT !.created = TRUE]
<1>2. /\ s \in Widgets /\ s.hidden = w.hidden /\ s.created = TRUE
      /\ s.waitingForInit = w.waitingForInit /\ s.destroyed = w.destroyed
      /\ s.delegate = w.delegate /\ s.pendingShow = w.pendingShow
      /\ s.out = w.out /\ s.rectAck = w.rectAck /\ s.ackPending = w.ackPending /\ s.old = w.old
  BY DEF Widgets
<1> HIDE DEF s
<1>3. w.waitingForInit /\ ~w.destroyed /\ ~w.rectAck /\ ~w.ackPending /\ ~w.pendingShow
      /\ w.out = <<>> /\ w.old = None /\ rectAcks' \in Nat /\ Coming' \in BOOLEAN
  BY DEF CreateWidgetForNewWindow, NewWindowIsFresh, Coming
<1>4. r' \in Renderers /\ r'.props = None /\ r'.alive /\ ~r'.shown
  BY DEF CreateWidgetForNewWindow, NoWidget, Renderers
<1>5. Tells(s, w')
  BY <1>1, <1>2, GeometryTells DEF RendererWidgetCreated, s
<1>6. /\ w'.out = <<>> /\ ~w'.rectAck /\ ~w'.ackPending /\ w'.old = None
      /\ w'.waitingForInit /\ ~w'.destroyed /\ w'.created /\ ~w'.pendingShow
      /\ w'.hidden = w.hidden /\ w'.delegate = w.delegate /\ w' \in Widgets
  BY <1>2, <1>3, <1>5 DEF Tells, Silent, Alike
<1>7. Len(<<>>) = 0
  OBVIOUS
<1>8. PipeOK(w', r', rectAcks', Coming')
  BY <1>4, <1>6, <1>7 DEF PipeOK, HasAfter
<1>9. QED
  BY <1>4, <1>6, <1>8

\* The renderer takes a message: the rest of the pipe tells it as much as the whole did.
LEMMA ReceiveStep ==
    ASSUME TypeOK, RendererReceives
    PROVE  /\ w' \in Widgets /\ r' \in Renderers /\ Alike(w, w') /\ rectAcks' \in Nat
           /\ r'.alive /\ w.out # <<>>
           /\ PipeOK(w, r, rectAcks, Coming) => PipeOK(w', r', rectAcks', Coming')
           /\ \A b \in BOOLEAN : ShownAfter(w.out, r.shown, b) => ShownAfter(w'.out, r'.shown, b)
<1> USE Types
<1> DEFINE q == w.out
           m == Head(q)
           a == Tail(q)
           g == IF m.kind = "props" THEN m.props ELSE r.props
           v == IF m.kind = "shown" THEN TRUE ELSE IF m.kind = "hidden" THEN FALSE ELSE r.shown
           d == DrawsFor(r.props, m.props)
<1>1. q \in Seq(Messages) /\ q # <<>> /\ r.shown \in BOOLEAN /\ r.dirty \in BOOLEAN
      /\ r.props \in Props \cup {None} /\ r.rect \in Rects \cup {None} /\ r.alive
  BY DEF RendererReceives, Widgets, Renderers
<1>2. m \in Messages /\ a \in Seq(Messages)
  BY <1>1
<1>3. /\ m.kind = "props" => m.props \in Props
      /\ m.kind = "rects" => m.rect \in Rects
      /\ m.kind \in {"props", "rects", "shown", "hidden"}
  BY <1>2, MessageTypes
<1>4. d \in BOOLEAN
  BY DEF DrawsFor
<1>5. HasKind(q, "rects") => m.kind = "rects" \/ HasKind(a, "rects")
  BY <1>1, TakePipe
<1>6. HasAfter(q, Len(q), r.props, w.old) => HasAfter(a, Len(a), g, w.old)
  BY <1>1, TakePipe
<1>7. WillDraw(q, r.props) => WillDraw(a, g) \/ (m.kind = "props" /\ d)
  BY <1>1, TakePipe
<1>8. \A b \in BOOLEAN : ShownAfter(q, r.shown, b) => ShownAfter(a, v, b)
  BY <1>1, TakeShown
<1>9. /\ w' = [w EXCEPT !.out = a]
      /\ r' = CASE m.kind = "props" -> [r EXCEPT !.props = m.props, !.dirty = @ \/ d]
                [] m.kind = "rects"  -> [r EXCEPT !.rect = m.rect]
                [] m.kind = "shown"  -> [r EXCEPT !.shown = TRUE]
                [] m.kind = "hidden" -> [r EXCEPT !.shown = FALSE]
      /\ rectAcks' = rectAcks + (IF m.kind = "rects" THEN 1 ELSE 0) /\ Coming' = Coming
  BY DEF RendererReceives, Coming
<1> HIDE DEF q, m, a, d
<1>10. /\ w' \in Widgets /\ Alike(w, w') /\ w'.out = a /\ w'.old = w.old
       /\ w'.ackPending = w.ackPending /\ w'.rectAck = w.rectAck
  BY <1>2, <1>9 DEF Widgets, Alike
<1>11. rectAcks' \in Nat /\ rectAcks' >= rectAcks /\ (m.kind = "rects" => rectAcks' > 0)
  BY <1>9
<1>12. /\ r' \in Renderers /\ r'.alive /\ r'.props = g /\ r'.shown = v
       /\ r'.dirty = (r.dirty \/ (m.kind = "props" /\ d))
  <2>1. CASE m.kind = "props"
    BY <1>1, <1>3, <1>4, <1>9, <2>1 DEF Renderers
  <2>2. CASE m.kind = "rects"
    BY <1>1, <1>3, <1>9, <2>2 DEF Renderers
  <2>3. CASE m.kind = "shown"
    BY <1>1, <1>9, <2>3 DEF Renderers
  <2>4. CASE m.kind = "hidden"
    BY <1>1, <1>9, <2>4 DEF Renderers
  <2>5. QED
    BY <1>3, <2>1, <2>2, <2>3, <2>4
<1>13. PipeOK(w, r, rectAcks, Coming) => PipeOK(w', r', rectAcks', Coming')
  <2> HIDE DEF g, v
  <2>1. HasAfter(w.out, Len(w.out), r.props, w.old) => HasAfter(w'.out, Len(w'.out), r'.props, w'.old)
    BY <1>6, <1>10, <1>12 DEF q
  <2>2. WillDraw(w.out, r.props) => WillDraw(w'.out, r'.props) \/ r'.dirty
    BY <1>7, <1>10, <1>12 DEF q
  <2>3. HasKind(w.out, "rects") => rectAcks' > 0 \/ HasKind(w'.out, "rects")
    BY <1>5, <1>10, <1>11 DEF q
  <2>4. (r.dirty => r'.dirty) /\ (rectAcks > 0 => rectAcks' > 0) /\ Coming' = Coming
        /\ w'.ackPending = w.ackPending /\ w'.rectAck = w.rectAck
    <3>1. r.dirty => r'.dirty
      BY <1>1, <1>12
    <3>2. (rectAcks > 0 => rectAcks' > 0) /\ w'.ackPending = w.ackPending /\ w'.rectAck = w.rectAck
      BY <1>10, <1>11
    <3>3. QED
      BY <1>9, <3>1, <3>2
  <2>5. QED
    BY <2>1, <2>2, <2>3, <2>4 DEF PipeOK
<1>14. QED
  BY <1>1, <1>8, <1>10, <1>11, <1>12, <1>13 DEF q

-----------------------------------------------------------------------------
(* The other actions.                                                      *)

\* The renderer asks for nothing and the browser tells nothing.
Quiet == UNCHANGED <<w, r, frames, rectAcks, commits>>

\* The renderer acts on its own.
RendererActs == RendererDraws \/ RendererCommitsNavigation \/ RendererDies

GeometryHandlers ==
    \/ ViewChanges \/ NotifyScreenInfoChanged \/ OnUpdateScreenRectsAck
    \/ OnLocalSurfaceIdChanged \/ DidNavigate

HangSteps ==
    \/ IncrementInFlightEventCount \/ DecrementInFlightEventCount
    \/ OnInputEventAckTimeout \/ RestartHangMonitor \/ RenderProcessBlockedStateChanged

MouseSteps == RequestMouseLock \/ GotResponseToLockMouseRequest \/ UnlockMouse \/ LostMouseLock

KeySteps ==
    SetPageFocus \/ RequestKeyboardLock \/ GotResponseToKeyboardLockRequest \/ CancelKeyboardLockRequest

LEMMA Cases ==
    ASSUME [Next]_vars
    PROVE  \/ GeometryHandlers \/ CreateWidget \/ CreateWidgetForNewWindow \/ InitWidget
           \/ WasShown \/ WasHidden \/ RendererReceives \/ RendererActs
           \/ SetView \/ RendererExited \/ ShutdownAndDestroyWidget \/ DetachDelegate
           \/ HangSteps \/ MouseSteps \/ KeySteps \/ ForwardGestureEvent \/ UNCHANGED vars
BY DEF Next, Geometry, InputAndLocks, GeometryHandlers, RendererActs, HangSteps, MouseSteps, KeySteps

LEMMA QuietSteps ==
    ASSUME HangSteps \/ MouseSteps \/ KeySteps \/ ForwardGestureEvent \/ UNCHANGED vars
    PROVE  Quiet
<1>1. CASE HangSteps
  BY <1>1 DEF HangSteps, Quiet, IncrementInFlightEventCount, DecrementInFlightEventCount,
              OnInputEventAckTimeout, RestartHangMonitor, RenderProcessBlockedStateChanged
<1>2. CASE MouseSteps
  BY <1>2 DEF MouseSteps, Quiet, RequestMouseLock, GotResponseToLockMouseRequest, UnlockMouse, LostMouseLock
<1>3. CASE KeySteps
  BY <1>3 DEF KeySteps, Quiet, SetPageFocus, RequestKeyboardLock, GotResponseToKeyboardLockRequest,
              CancelKeyboardLockRequest
<1>4. CASE ForwardGestureEvent \/ UNCHANGED vars
  BY <1>4 DEF ForwardGestureEvent, vars, Quiet
<1>5. QED
  BY <1>1, <1>2, <1>3, <1>4

LEMMA WidgetStep ==
    ASSUME TypeOK, NewWindowIsFresh, [Next]_vars
    PROVE  w' \in Widgets
<1> USE Types
<1>1. CASE GeometryHandlers
  BY <1>1, GeometrySteps DEF GeometryHandlers
<1>2. CASE CreateWidget \/ CreateWidgetForNewWindow \/ InitWidget
  BY <1>2, CreateStep, CreateNewWindowStep, InitStep
<1>3. CASE WasShown \/ WasHidden \/ RendererReceives
  BY <1>3, ShownStep, HiddenStep, ReceiveStep
<1>4. CASE SetView
  BY <1>4 DEF SetView, Widgets
<1>5. CASE RendererExited \/ ShutdownAndDestroyWidget
  <2>1. <<>> \in Seq(Messages)
    OBVIOUS
  <2>2. CASE RendererExited
    BY <2>1, <2>2 DEF RendererExited, Widgets
  <2>3. CASE ShutdownAndDestroyWidget
    BY <2>1, <2>3 DEF ShutdownAndDestroyWidget, Widgets
  <2>4. QED
    BY <1>5, <2>2, <2>3
<1>6. CASE DetachDelegate
  BY <1>6 DEF DetachDelegate, Widgets
<1>7. CASE RendererActs
  BY <1>7 DEF RendererActs, RendererDraws, RendererCommitsNavigation, RendererDies
<1>8. CASE Quiet
  BY <1>8 DEF Quiet
<1>9. QED
  BY <1>1, <1>2, <1>3, <1>4, <1>5, <1>6, <1>7, <1>8, Cases, QuietSteps

LEMMA RendererStep ==
    ASSUME TypeOK, NewWindowIsFresh, [Next]_vars
    PROVE  r' \in Renderers
<1> USE Types
<1>1. CASE CreateWidget \/ CreateWidgetForNewWindow \/ RendererReceives
  BY <1>1, CreateStep, CreateNewWindowStep, ReceiveStep
<1>2. CASE RendererActs
  <2>1. NoWidget \in Renderers /\ [r EXCEPT !.dirty = FALSE] \in Renderers
    BY DEF NoWidget, Renderers
  <2>2. QED
    BY <1>2, <2>1 DEF RendererActs, RendererDraws, RendererCommitsNavigation, RendererDies
<1>3. CASE ShutdownAndDestroyWidget
  BY <1>3 DEF ShutdownAndDestroyWidget, NoWidget, Renderers
<1>4. CASE GeometryHandlers
  BY <1>4 DEF GeometryHandlers, ViewChanges, NotifyScreenInfoChanged, OnUpdateScreenRectsAck,
              OnLocalSurfaceIdChanged, DidNavigate
<1>5. CASE InitWidget \/ WasShown \/ WasHidden \/ SetView \/ RendererExited \/ DetachDelegate
  BY <1>5 DEF InitWidget, WasShown, WasHidden, SetView, RendererExited, DetachDelegate
<1>6. CASE Quiet
  BY <1>6 DEF Quiet
<1>7. QED
  BY <1>1, <1>2, <1>3, <1>4, <1>5, <1>6, Cases, QuietSteps

\* Frames and answers are counted.
LEMMA AnswersStep ==
    ASSUME TypeOK, [Next]_vars
    PROVE  frames' \in Nat /\ rectAcks' \in Nat /\ commits' \in Nat
<1> USE Types
<1>1. CASE GeometryHandlers
  <2>1. CASE ViewChanges \/ NotifyScreenInfoChanged
    BY <2>1 DEF ViewChanges, NotifyScreenInfoChanged
  <2>2. CASE OnUpdateScreenRectsAck
    BY <2>2 DEF OnUpdateScreenRectsAck
  <2>3. CASE OnLocalSurfaceIdChanged
    BY <2>3 DEF OnLocalSurfaceIdChanged
  <2>4. CASE DidNavigate
    BY <2>4 DEF DidNavigate
  <2>5. QED
    BY <1>1, <2>1, <2>2, <2>3, <2>4 DEF GeometryHandlers
<1>2. CASE CreateWidget \/ CreateWidgetForNewWindow \/ InitWidget \/ WasShown \/ WasHidden \/ SetView
  <2>1. UNCHANGED <<frames, commits>> /\ rectAcks' \in {0, rectAcks}
    BY <1>2, Zenon DEF CreateWidget, CreateWidgetForNewWindow, InitWidget, WasShown, WasHidden, SetView
  <2>2. QED
    BY <2>1
<1>3. CASE RendererReceives
  BY <1>3, ReceiveStep DEF RendererReceives
<1>4. CASE RendererActs
  BY <1>4 DEF RendererActs, RendererDraws, RendererCommitsNavigation, RendererDies
<1>5. CASE RendererExited \/ ShutdownAndDestroyWidget \/ DetachDelegate
  BY <1>5 DEF RendererExited, ShutdownAndDestroyWidget, DetachDelegate
<1>6. CASE Quiet
  BY <1>6 DEF Quiet
<1>7. QED
  BY <1>1, <1>2, <1>3, <1>4, <1>5, <1>6, Cases, QuietSteps

\* What leaves the events in flight, the locks or the bound alone.
LEMMA Untouched ==
    ASSUME [Next]_vars
    PROVE  /\ HangSteps \/ CreateWidget \/ WasShown \/ WasHidden \/ UNCHANGED hang
           /\ \/ MouseSteps \/ WasHidden \/ RendererExited \/ ShutdownAndDestroyWidget \/ SetPageFocus
              \/ UNCHANGED mouse
           /\ KeySteps \/ RendererExited \/ ShutdownAndDestroyWidget \/ UNCHANGED keys
           /\ Change \/ UNCHANGED changes
           /\ ForwardGestureEvent \/ UNCHANGED scroll
<1>1. CASE GeometryHandlers
  BY <1>1 DEF GeometryHandlers, ViewChanges, NotifyScreenInfoChanged, OnUpdateScreenRectsAck,
              OnLocalSurfaceIdChanged, DidNavigate
<1>2. CASE CreateWidget \/ CreateWidgetForNewWindow \/ InitWidget \/ WasShown \/ WasHidden \/ SetView
  BY <1>2 DEF CreateWidget, CreateWidgetForNewWindow, InitWidget, WasShown, WasHidden, SetView
<1>3. CASE RendererReceives \/ RendererActs
  BY <1>3 DEF RendererReceives, RendererActs, RendererDraws, RendererCommitsNavigation, RendererDies
<1>4. CASE RendererExited \/ ShutdownAndDestroyWidget \/ DetachDelegate
  BY <1>4 DEF RendererExited, ShutdownAndDestroyWidget, DetachDelegate
<1>5. CASE HangSteps
  BY <1>5 DEF HangSteps, IncrementInFlightEventCount, DecrementInFlightEventCount,
              OnInputEventAckTimeout, RestartHangMonitor, RenderProcessBlockedStateChanged
<1>6. CASE MouseSteps
  BY <1>6 DEF MouseSteps, RequestMouseLock, GotResponseToLockMouseRequest, UnlockMouse, LostMouseLock
<1>7. CASE KeySteps
  BY <1>7 DEF KeySteps, SetPageFocus, RequestKeyboardLock, GotResponseToKeyboardLockRequest,
              CancelKeyboardLockRequest
<1>8. CASE ForwardGestureEvent \/ UNCHANGED vars
  BY <1>8 DEF ForwardGestureEvent, vars
<1>9. QED
  BY <1>1, <1>2, <1>3, <1>4, <1>5, <1>6, <1>7, <1>8, Cases

-----------------------------------------------------------------------------
(* Every step keeps every part of the invariant.                           *)

\* What becomes of the life of the widget, one step at a time.
LEMMA LifeStep ==
    ASSUME TypeOK, Life, NewWindowIsFresh, [Next]_vars
    PROVE  Life'
<1> USE Types
<1>1. CASE GeometryHandlers
  <2>1. Alike(w, w')
    BY <1>1, GeometrySteps DEF GeometryHandlers
  <2>2. UNCHANGED r
    BY <1>1 DEF GeometryHandlers, ViewChanges, NotifyScreenInfoChanged, OnUpdateScreenRectsAck,
                OnLocalSurfaceIdChanged, DidNavigate
  <2>3. QED
    BY <2>1, <2>2 DEF Alike, Life
<1>2. CASE CreateWidget
  BY <1>2, CreateStep DEF Life
<1>3. CASE CreateWidgetForNewWindow
  BY <1>3, CreateNewWindowStep DEF Life
<1>4. CASE InitWidget
  <2>1. UNCHANGED r
    BY <1>4 DEF InitWidget
  <2>2. QED
    BY <1>4, <2>1, InitStep DEF Life, InitWidget
<1>5. CASE WasShown
  <2>1. UNCHANGED r /\ w.created
    BY <1>5 DEF WasShown
  <2>2. QED
    BY <1>5, <2>1, ShownStep DEF Life
<1>6. CASE WasHidden
  <2>1. UNCHANGED r /\ w.created
    BY <1>6 DEF WasHidden
  <2>2. QED
    BY <1>6, <2>1, HiddenStep DEF Life
<1>7. CASE RendererReceives
  <2>1. r.alive
    BY <1>7 DEF RendererReceives
  <2>2. QED
    BY <1>7, <2>1, ReceiveStep DEF Life, Alike
<1>8. CASE RendererActs
  BY <1>8 DEF RendererActs, RendererDraws, RendererCommitsNavigation, RendererDies, NoWidget, Renderers, Life
<1>9. CASE SetView
  BY <1>9 DEF SetView, Widgets, Life
<1>10. CASE RendererExited
  BY <1>10 DEF RendererExited, Widgets, Life
<1>11. CASE ShutdownAndDestroyWidget
  BY <1>11 DEF ShutdownAndDestroyWidget, NoWidget, Widgets, Life
<1>12. CASE DetachDelegate
  BY <1>12 DEF DetachDelegate, Widgets, Life
<1>13. CASE Quiet
  BY <1>13 DEF Quiet, Life
<1>14. QED
  BY <1>1, <1>2, <1>3, <1>4, <1>5, <1>6, <1>7, <1>8, <1>9, <1>10, <1>11, <1>12, <1>13, Cases, QuietSteps

\* A widget that is not created waits for Init() only if it did before.
LEMMA WaitingStep ==
    ASSUME TypeOK, Life, NewWindowIsFresh, [Next]_vars,
           ~w'.created, w'.waitingForInit, ~w'.destroyed
    PROVE  /\ ~w.created /\ w.waitingForInit /\ ~w.destroyed
           /\ GeometryHandlers \/ DetachDelegate \/ RendererActs \/ Quiet
<1> USE Types
<1>1. CASE GeometryHandlers
  <2>1. Alike(w, w')
    BY <1>1, GeometrySteps DEF GeometryHandlers
  <2>2. QED
    BY <1>1, <2>1 DEF Alike
<1>2. CASE CreateWidget \/ CreateWidgetForNewWindow \/ InitWidget
  BY <1>2, CreateStep, CreateNewWindowStep, InitStep
<1>3. CASE WasShown \/ WasHidden
  BY <1>3, ShownStep, HiddenStep
<1>4. CASE RendererReceives
  <2>1. r.alive
    BY <1>4 DEF RendererReceives
  <2>2. QED
    BY <1>4, <2>1, ReceiveStep DEF Alike, Life
<1>5. CASE RendererActs
  BY <1>5 DEF RendererActs, RendererDraws, RendererCommitsNavigation, RendererDies
<1>6. CASE SetView
  BY <1>6 DEF SetView, Widgets
<1>7. CASE RendererExited
  BY <1>7 DEF RendererExited, Widgets
<1>8. CASE ShutdownAndDestroyWidget
  BY <1>8 DEF ShutdownAndDestroyWidget, Widgets
<1>9. CASE DetachDelegate
  BY <1>9 DEF DetachDelegate, Widgets
<1>10. CASE Quiet
  BY <1>10 DEF Quiet
<1>11. QED
  BY <1>1, <1>2, <1>3, <1>4, <1>5, <1>6, <1>7, <1>8, <1>9, <1>10, Cases, QuietSteps

LEMMA FreshStep ==
    ASSUME TypeOK, Life, NewWindowIsFresh, [Next]_vars
    PROVE  NewWindowIsFresh'
<1> USE Types
<1> SUFFICES ASSUME ~w'.created, w'.waitingForInit, ~w'.destroyed
             PROVE  /\ hang'.inFlight = 0 /\ ~hang'.timer /\ ~hang'.unresponsive
                    /\ ~w'.rectAck /\ ~w'.ackPending /\ ~w'.pendingShow
                    /\ w'.out = <<>> /\ w'.old = None
  BY DEF NewWindowIsFresh
<1>1. ~w.created /\ w.waitingForInit /\ ~w.destroyed
      /\ (GeometryHandlers \/ DetachDelegate \/ RendererActs \/ Quiet)
  BY WaitingStep
<1>2. /\ hang.inFlight = 0 /\ ~hang.timer /\ ~hang.unresponsive
      /\ ~w.rectAck /\ ~w.ackPending /\ ~w.pendingShow
      /\ w.out = <<>> /\ w.old = None
  BY <1>1 DEF NewWindowIsFresh
<1>3. ~w'.rectAck /\ ~w'.ackPending /\ ~w'.pendingShow /\ w'.out = <<>> /\ w'.old = None
  <2>1. CASE GeometryHandlers
    BY <1>1, <1>2, <2>1, GeometrySteps DEF GeometryHandlers, Alike
  <2>2. CASE DetachDelegate
    BY <1>2, <2>2 DEF DetachDelegate, Widgets
  <2>3. CASE RendererActs
    BY <1>2, <2>3 DEF RendererActs, RendererDraws, RendererCommitsNavigation, RendererDies
  <2>4. CASE Quiet
    BY <1>2, <2>4 DEF Quiet
  <2>5. QED
    BY <1>1, <2>1, <2>2, <2>3, <2>4
<1>4. hang'.inFlight = 0 /\ ~hang'.timer /\ ~hang'.unresponsive
  <2>1. CASE CreateWidget \/ WasShown \/ WasHidden
    BY <1>1, <2>1 DEF CreateWidget, WasShown, WasHidden
  <2>2. CASE HangSteps
    <3>1. CASE RenderProcessBlockedStateChanged
      BY <1>2, <3>1 DEF RenderProcessBlockedStateChanged, StopInputEventAckTimeout,
         RestartInputEventAckTimeoutIfNecessary, Hangs
    <3>2. QED
      BY <1>1, <1>2, <2>2, <3>1
         DEF HangSteps, IncrementInFlightEventCount, DecrementInFlightEventCount,
             OnInputEventAckTimeout, RestartHangMonitor
  <2>3. CASE UNCHANGED hang
    BY <1>2, <2>3
  <2>4. QED
    BY <2>1, <2>2, <2>3, Untouched
<1>5. QED
  BY <1>3, <1>4

\* The locks, where they may be given or taken.
LEMMA LocksStep ==
    ASSUME TypeOK, Life, LocksAreHeld, KeysAreAskedFor, NewWindowIsFresh, [Next]_vars
    PROVE  LocksAreHeld' /\ KeysAreAskedFor'
<1> USE Types
<1> USE DEF LocksAreHeld, KeysAreAskedFor, ViewUnlocksMouse, RejectMouseLockOrUnlockIfNecessary,
        LockKeyboard, UnlockKeyboard, CancelKeyboardLock, Mice, Keys
<1>1. CASE MouseSteps
  <2>1. UNCHANGED <<w, keys>>
    BY <1>1 DEF MouseSteps, RequestMouseLock, GotResponseToLockMouseRequest, UnlockMouse, LostMouseLock
  <2>2. CASE RequestMouseLock
    BY <2>1, <2>2 DEF RequestMouseLock, Widgets
  <2>3. CASE GotResponseToLockMouseRequest
    BY <2>1, <2>3 DEF GotResponseToLockMouseRequest, Widgets
  <2>4. CASE UnlockMouse
    BY <2>1, <2>4 DEF UnlockMouse
  <2>5. CASE LostMouseLock
    BY <2>1, <2>5 DEF LostMouseLock
  <2>6. QED
    BY <1>1, <2>2, <2>3, <2>4, <2>5 DEF MouseSteps
<1>2. CASE KeySteps
  <2>1. CASE SetPageFocus
    BY <2>1 DEF SetPageFocus, Widgets
  <2>2. CASE RequestKeyboardLock
    BY <2>2 DEF RequestKeyboardLock, Widgets
  <2>3. CASE GotResponseToKeyboardLockRequest
    BY <2>3 DEF GotResponseToKeyboardLockRequest, Widgets
  <2>4. CASE CancelKeyboardLockRequest
    BY <2>4 DEF CancelKeyboardLockRequest, Widgets
  <2>5. QED
    BY <1>2, <2>1, <2>2, <2>3, <2>4 DEF KeySteps
<1>3. CASE WasHidden
  <2>1. w'.view = w.view /\ w'.delegate = w.delegate
    BY <1>3, HiddenStep
  <2>2. QED
    BY <1>3, <2>1 DEF WasHidden
<1>4. CASE RendererExited
  <2>1. w'.delegate = w.delegate
    BY <1>4 DEF RendererExited, Widgets
  <2>2. QED
    BY <1>4, <2>1 DEF RendererExited, ViewDestroyed
<1>5. CASE ShutdownAndDestroyWidget
  <2>1. w'.delegate = w.delegate
    BY <1>5 DEF ShutdownAndDestroyWidget, Widgets
  <2>2. QED
    BY <1>5, <2>1 DEF ShutdownAndDestroyWidget
<1>6. ASSUME UNCHANGED <<mouse, keys>>, w.view => w'.view, w'.delegate => w.delegate
      PROVE  LocksAreHeld' /\ KeysAreAskedFor'
  BY <1>6
<1>7. CASE UNCHANGED <<mouse, keys>> /\ ~RendererExited /\ ~ShutdownAndDestroyWidget /\ ~WasHidden
  <2>1. CASE GeometryHandlers
    BY <1>6, <1>7, <2>1, GeometrySteps DEF GeometryHandlers, Alike
  <2>2. CASE CreateWidget
    <3>1. ~w.view
      BY <2>2 DEF CreateWidget, Life
    <3>2. QED
      BY <1>6, <1>7, <2>2, <3>1, CreateStep
  <2>3. CASE CreateWidgetForNewWindow
    <3>1. ~w.view
      BY <2>3 DEF CreateWidgetForNewWindow, Life
    <3>2. QED
      BY <1>6, <1>7, <2>3, <3>1, CreateNewWindowStep
  <2>4. CASE InitWidget
    BY <1>6, <1>7, <2>4, InitStep
  <2>5. CASE WasShown
    BY <1>6, <1>7, <2>5, ShownStep
  <2>6. CASE RendererReceives
    BY <1>6, <1>7, <2>6, ReceiveStep DEF Alike
  <2>7. CASE SetView
    BY <1>6, <1>7, <2>7 DEF SetView, Widgets
  <2>8. CASE DetachDelegate
    BY <1>6, <1>7, <2>8 DEF DetachDelegate, Widgets
  <2>9. CASE RendererActs \/ Quiet
    BY <1>6, <1>7, <2>9 DEF RendererActs, RendererDraws, RendererCommitsNavigation, RendererDies, Quiet
  <2>10. QED
    BY <1>7, <2>1, <2>2, <2>3, <2>4, <2>5, <2>6, <2>7, <2>8, <2>9, Cases, QuietSteps
<1>8. QED
  <2>1. SetPageFocus => KeySteps
    BY DEF KeySteps
  <2>2. QED
    BY <1>1, <1>2, <1>3, <1>4, <1>5, <1>7, <2>1, Untouched

\* The events in flight: who starts the timer, who stops it.
LEMMA WatchedStep ==
    ASSUME TypeOK, Life, Watched, NewWindowIsFresh, [Next]_vars
    PROVE  Watched'
<1> USE Types
<1> USE DEF Watched, StopInputEventAckTimeout, StartInputEventAckTimeout,
        RestartInputEventAckTimeoutIfNecessary, SetupInputRouter, Hangs
<1>1. CASE CreateWidget
  BY <1>1 DEF CreateWidget
<1>2. CASE WasShown
  <2>1. w.created /\ w.hidden /\ ~w.destroyed
    BY <1>2 DEF WasShown, Life
  <2>2. ~hang.timer /\ ~hang.unresponsive /\ hang' = RestartInputEventAckTimeoutIfNecessary(hang, FALSE)
    BY <1>2, <2>1 DEF WasShown
  <2>3. w'.created /\ ~w'.hidden /\ w'.destroyed = w.destroyed
    BY <1>2, ShownStep
  <2>4. QED
    BY <2>2, <2>3
<1>3. CASE WasHidden
  <2>1. w'.hidden
    BY <1>3, HiddenStep
  <2>2. QED
    BY <1>3, <2>1 DEF WasHidden
<1>4. CASE HangSteps
  <2>1. UNCHANGED w
    BY <1>4, QuietSteps DEF Quiet
  <2>2. CASE IncrementInFlightEventCount
    BY <2>1, <2>2 DEF IncrementInFlightEventCount
  <2>3. CASE DecrementInFlightEventCount
    BY <2>1, <2>3 DEF DecrementInFlightEventCount
  <2>4. CASE OnInputEventAckTimeout
    BY <2>1, <2>4 DEF OnInputEventAckTimeout
  <2>5. CASE RestartHangMonitor
    BY <2>1, <2>5 DEF RestartHangMonitor
  <2>6. CASE RenderProcessBlockedStateChanged
    BY <2>1, <2>6 DEF RenderProcessBlockedStateChanged
  <2>7. QED
    BY <1>4, <2>2, <2>3, <2>4, <2>5, <2>6 DEF HangSteps
<1>5. ASSUME UNCHANGED hang,
             \/ w'.created = w.created /\ w'.hidden = w.hidden /\ w'.destroyed = w.destroyed
             \/ ~w'.created /\ (~w'.destroyed => ~w.destroyed)
      PROVE  Watched'
  BY <1>5
<1>6. CASE UNCHANGED hang /\ ~CreateWidget /\ ~WasShown /\ ~WasHidden
  <2>1. CASE GeometryHandlers
    BY <1>5, <1>6, <2>1, GeometrySteps DEF GeometryHandlers, Alike
  <2>2. CASE CreateWidgetForNewWindow
    <3>1. hang.inFlight = 0 /\ ~hang.timer /\ ~hang.unresponsive
      BY <2>2 DEF CreateWidgetForNewWindow, NewWindowIsFresh
    <3>2. QED
      BY <1>6, <3>1
  <2>3. CASE InitWidget
    <3>1. w.created
      BY <2>3 DEF InitWidget
    <3>2. QED
      BY <1>5, <1>6, <2>3, <3>1, InitStep
  <2>4. CASE RendererReceives
    BY <1>5, <1>6, <2>4, ReceiveStep DEF Alike
  <2>5. CASE SetView
    BY <1>5, <1>6, <2>5 DEF SetView, Widgets
  <2>6. CASE RendererExited
    BY <1>5, <1>6, <2>6 DEF RendererExited, Widgets
  <2>7. CASE ShutdownAndDestroyWidget
    BY <1>5, <1>6, <2>7 DEF ShutdownAndDestroyWidget, Widgets
  <2>8. CASE DetachDelegate
    BY <1>5, <1>6, <2>8 DEF DetachDelegate, Widgets
  <2>9. CASE RendererActs \/ Quiet
    BY <1>5, <1>6, <2>9 DEF RendererActs, RendererDraws, RendererCommitsNavigation, RendererDies, Quiet
  <2>10. QED
    BY <1>6, <2>1, <2>2, <2>3, <2>4, <2>5, <2>6, <2>7, <2>8, <2>9, Cases, QuietSteps
<1>7. QED
  BY <1>1, <1>2, <1>3, <1>4, <1>6, Untouched

\* The answers the host waits for: who sends an update, who takes it, who answers.
LEMMA ComingStep ==
    ASSUME TypeOK, Life, AnswersCome, NewWindowIsFresh, [Next]_vars
    PROVE  AnswersCome'
<1> USE Types
<1>1. AnswersCome' = (w'.created /\ r'.alive => PipeOK(w', r', rectAcks', Coming'))
  BY DEF AnswersCome, Coming
<1>2. AnswersCome = (w.created /\ r.alive => PipeOK(w, r, rectAcks, Coming))
  BY DEF AnswersCome, Coming
<1>3. CASE GeometryHandlers
  <2>1. UNCHANGED r
    BY <1>3 DEF GeometryHandlers, ViewChanges, NotifyScreenInfoChanged, OnUpdateScreenRectsAck,
                OnLocalSurfaceIdChanged, DidNavigate
  <2>2. Alike(w, w') /\ (PipeOK(w, r, rectAcks, Coming) => PipeOK(w', r, rectAcks', Coming'))
    BY <1>3, GeometrySteps DEF GeometryHandlers
  <2>3. QED
    BY <1>1, <1>2, <2>1, <2>2 DEF Alike
<1>4. CASE CreateWidget \/ CreateWidgetForNewWindow
  BY <1>1, <1>4, CreateStep, CreateNewWindowStep
<1>5. CASE InitWidget
  <2>1. UNCHANGED r /\ w.created
    BY <1>5 DEF InitWidget
  <2>2. QED
    BY <1>1, <1>2, <1>5, <2>1, InitStep
<1>6. CASE WasShown
  <2>1. UNCHANGED r /\ w.created
    BY <1>6 DEF WasShown
  <2>2. QED
    BY <1>1, <1>2, <1>6, <2>1, ShownStep
<1>7. CASE WasHidden
  <2>1. UNCHANGED r /\ w.created
    BY <1>7 DEF WasHidden
  <2>2. QED
    BY <1>1, <1>2, <1>7, <2>1, HiddenStep
<1>8. CASE RendererReceives
  <2>1. r.alive /\ w.created
    BY <1>8 DEF RendererReceives, Life
  <2>2. QED
    BY <1>1, <1>2, <1>8, <2>1, ReceiveStep
<1>9. CASE RendererDraws \/ RendererCommitsNavigation
  <2>1. UNCHANGED <<w, rectAcks>> /\ r' = [r EXCEPT !.dirty = FALSE] /\ r.alive /\ Coming'
    BY <1>9 DEF RendererDraws, RendererCommitsNavigation, Coming
  <2>2. r'.props = r.props
    BY <2>1 DEF Renderers
  <2>3. QED
    BY <1>1, <1>2, <2>1, <2>2 DEF PipeOK
<1>10. CASE RendererDies \/ RendererExited \/ ShutdownAndDestroyWidget
  <2>1. ~r'.alive \/ ~w'.created
    BY <1>10 DEF RendererDies, RendererExited, ShutdownAndDestroyWidget, NoWidget, Widgets
  <2>2. QED
    BY <1>1, <2>1
<1>11. CASE SetView \/ DetachDelegate
  <2>1. UNCHANGED <<r, frames, commits, rectAcks>>
    BY <1>11 DEF SetView, DetachDelegate
  <2>2. /\ w'.created = w.created /\ w'.out = w.out /\ w'.old = w.old
        /\ w'.ackPending = w.ackPending /\ w'.rectAck = w.rectAck
    BY <1>11 DEF SetView, DetachDelegate, Widgets
  <2>3. QED
    BY <2>1, <2>2 DEF AnswersCome, PipeOK
<1>12. CASE Quiet
  BY <1>12 DEF Quiet, AnswersCome
<1>13. QED
  BY <1>3, <1>4, <1>5, <1>6, <1>7, <1>8, <1>9, <1>10, <1>11, <1>12, Cases, QuietSteps DEF RendererActs

LEMMA HangTypes ==
    ASSUME NEW h \in Hangs, NEW hidden \in BOOLEAN
    PROVE  /\ StopInputEventAckTimeout(h) \in Hangs /\ StartInputEventAckTimeout(h) \in Hangs
           /\ RestartInputEventAckTimeoutIfNecessary(h, hidden) \in Hangs
           /\ SetupInputRouter(h) \in Hangs
<1>1. 0 \in 0..MaxInFlight
  BY RenderWidgetHostAssumption
<1>2. [h EXCEPT !.inFlight = 0] \in Hangs
  BY <1>1 DEF Hangs
<1>3. \A g \in Hangs : StopInputEventAckTimeout(g) \in Hangs
  BY DEF StopInputEventAckTimeout, Hangs
<1>4. [h EXCEPT !.timer = TRUE] \in Hangs
  BY DEF Hangs
<1>5. QED
  BY <1>2, <1>3, <1>4
     DEF StartInputEventAckTimeout, RestartInputEventAckTimeoutIfNecessary, SetupInputRouter

LEMMA MouseTypes ==
    ASSUME NEW m \in Mice
    PROVE  ViewUnlocksMouse(m) \in Mice /\ RejectMouseLockOrUnlockIfNecessary(m) \in Mice
<1>1. [m EXCEPT !.locked = FALSE, !.context = m.context /\ ~w.delegate] \in Mice
  BY DEF Mice
<1>2. [m EXCEPT !.pending = FALSE, !.callback = FALSE] \in Mice
  BY DEF Mice
<1>3. QED
  BY <1>1, <1>2 DEF ViewUnlocksMouse, RejectMouseLockOrUnlockIfNecessary

LEMMA KeyTypes ==
    ASSUME NEW k \in Keys, w.view \in BOOLEAN
    PROVE  LockKeyboard(k) \in Keys /\ UnlockKeyboard(k) \in Keys /\ CancelKeyboardLock(k) \in Keys
<1>1. [k EXCEPT !.locked = k.allowed /\ k.focused /\ w.view] \in Keys
  BY DEF Keys
<1>2. [k EXCEPT !.locked = FALSE] \in Keys
  BY DEF Keys
<1>3. \A j \in Keys : [j EXCEPT !.asked = j.asked /\ ~w.delegate, !.allowed = FALSE, !.requested = FALSE] \in Keys
  BY DEF Keys
<1>4. QED
  BY <1>1, <1>2, <1>3 DEF LockKeyboard, UnlockKeyboard, CancelKeyboardLock

LEMMA TypeStep ==
    ASSUME TypeOK, NewWindowIsFresh, [Next]_vars
    PROVE  TypeOK'
<1> USE Types
<1>1. w' \in Widgets /\ r' \in Renderers /\ frames' \in Nat /\ rectAcks' \in Nat /\ commits' \in Nat
  BY WidgetStep, RendererStep, AnswersStep
<1>2. w.hidden \in BOOLEAN /\ w.view \in BOOLEAN /\ w.delegate \in BOOLEAN
  BY DEF Widgets
<1>3. hang' \in Hangs
  <2>1. CASE CreateWidget \/ WasShown \/ WasHidden
    BY <2>1, HangTypes DEF CreateWidget, WasShown, WasHidden
  <2>2. CASE IncrementInFlightEventCount
    <3>1. hang.inFlight + 1 \in 0..MaxInFlight
      BY <2>2, RenderWidgetHostAssumption DEF IncrementInFlightEventCount, Hangs
    <3>2. [hang EXCEPT !.inFlight = hang.inFlight + 1] \in Hangs
      BY <3>1 DEF Hangs
    <3>3. QED
      BY <1>2, <2>2, <3>2, HangTypes DEF IncrementInFlightEventCount
  <2>3. CASE DecrementInFlightEventCount
    <3>1. hang.inFlight - 1 \in 0..MaxInFlight
      BY <2>3, RenderWidgetHostAssumption DEF DecrementInFlightEventCount, Hangs
    <3>2. [hang EXCEPT !.inFlight = hang.inFlight - 1] \in Hangs
      BY <3>1 DEF Hangs
    <3>3. QED
      BY <1>2, <2>3, <3>2, HangTypes DEF DecrementInFlightEventCount
  <2>4. CASE OnInputEventAckTimeout
    BY <2>4 DEF OnInputEventAckTimeout, Hangs
  <2>5. CASE RestartHangMonitor
    BY <1>2, <2>5, HangTypes DEF RestartHangMonitor
  <2>6. CASE RenderProcessBlockedStateChanged
    <3>1. [hang EXCEPT !.blocked = ~hang.blocked] \in Hangs
      BY DEF Hangs
    <3>2. QED
      BY <1>2, <2>6, <3>1, HangTypes DEF RenderProcessBlockedStateChanged
  <2>7. QED
    BY <2>1, <2>2, <2>3, <2>4, <2>5, <2>6, Untouched DEF HangSteps
<1>4. mouse' \in Mice
  <2>1. CASE RequestMouseLock
    BY <1>2, <2>1 DEF RequestMouseLock, Mice
  <2>2. CASE GotResponseToLockMouseRequest
    <3>1. PICK granted \in BOOLEAN, locks \in BOOLEAN :
              LET heard    == [mouse EXCEPT !.asked = FALSE]
                  answered == [heard EXCEPT !.pending = FALSE, !.callback = FALSE]
              IN  mouse' =
                    IF ~granted THEN RejectMouseLockOrUnlockIfNecessary(heard)
                    ELSE IF ~heard.pending THEN heard
                    ELSE [answered EXCEPT !.locked = w.view /\ locks, !.context = w.view /\ locks]
      BY <2>2 DEF GotResponseToLockMouseRequest
    <3> DEFINE heard    == [mouse EXCEPT !.asked = FALSE]
               answered == [heard EXCEPT !.pending = FALSE, !.callback = FALSE]
    <3>2. heard \in Mice /\ answered \in Mice
      BY DEF Mice
    <3>3. [answered EXCEPT !.locked = w.view /\ locks, !.context = w.view /\ locks] \in Mice
      BY <1>2, <3>2 DEF Mice
    <3>4. QED
      BY <3>1, <3>2, <3>3, MouseTypes
  <2>3. CASE UnlockMouse \/ LostMouseLock
    BY <2>3, MouseTypes DEF UnlockMouse, LostMouseLock
  <2>4. CASE WasHidden \/ RendererExited \/ ShutdownAndDestroyWidget \/ SetPageFocus
    BY <2>4, MouseTypes DEF WasHidden, RendererExited, ViewDestroyed, ShutdownAndDestroyWidget, SetPageFocus
  <2>5. QED
    BY <2>1, <2>2, <2>3, <2>4, Untouched DEF MouseSteps
<1>5. keys' \in Keys
  <2>1. CASE SetPageFocus
    <3>1. [keys EXCEPT !.focused = ~keys.focused] \in Keys
      BY DEF Keys
    <3>2. QED
      BY <1>2, <2>1, <3>1, KeyTypes DEF SetPageFocus
  <2>2. CASE RequestKeyboardLock
    <3>1. [keys EXCEPT !.requested = TRUE, !.asked = TRUE] \in Keys
      BY DEF Keys
    <3>2. QED
      BY <1>2, <2>2, <3>1, KeyTypes DEF RequestKeyboardLock
  <2>3. CASE GotResponseToKeyboardLockRequest
    <3>1. PICK allowed \in BOOLEAN :
              LET now == [keys EXCEPT !.allowed = allowed]
              IN  keys' = IF allowed THEN LockKeyboard(now) ELSE UnlockKeyboard(now)
      BY <2>3 DEF GotResponseToKeyboardLockRequest
    <3>2. [keys EXCEPT !.allowed = allowed] \in Keys
      BY DEF Keys
    <3>3. QED
      BY <1>2, <3>1, <3>2, KeyTypes
  <2>4. CASE CancelKeyboardLockRequest \/ RendererExited \/ ShutdownAndDestroyWidget
    BY <1>2, <2>4, KeyTypes
       DEF CancelKeyboardLockRequest, RendererExited, ViewDestroyed, ShutdownAndDestroyWidget
  <2>5. QED
    BY <2>1, <2>2, <2>3, <2>4, Untouched DEF KeySteps
<1>6. scroll' \in [host: BOOLEAN, stream: BOOLEAN]
  <2>1. scroll \in [host: BOOLEAN, stream: BOOLEAN]
    BY DEF TypeOK
  <2>2. CASE ForwardGestureEvent
    <3>1. scroll.host \in BOOLEAN /\ (~scroll.stream) \in BOOLEAN
      BY <2>1
    <3>2. QED
      BY <2>2, <3>1 DEF ForwardGestureEvent
  <2>3. QED
    BY <2>1, <2>2, Untouched
<1>7. changes' \in 0..MaxChanges
  BY Untouched, RenderWidgetHostAssumption DEF Change, TypeOK
<1>8. QED
  BY <1>1, <1>3, <1>4, <1>5, <1>6, <1>7 DEF TypeOK, Widgets, Renderers, Hangs, Mice, Keys

\* What the pipe will have told of the visibility.
LEMMA VisibilityStep ==
    ASSUME TypeOK, Life, NewWindowIsFresh, VisibilityIsTold, [Next]_vars
    PROVE  VisibilityIsTold'
<1> USE Types
<1>1. CASE GeometryHandlers
  <2>1. UNCHANGED r
    BY <1>1 DEF GeometryHandlers, ViewChanges, NotifyScreenInfoChanged, OnUpdateScreenRectsAck,
                OnLocalSurfaceIdChanged, DidNavigate
  <2>2. /\ Alike(w, w')
        /\ w.waitingForInit => w'.out = w.out
        /\ \A shown, b \in BOOLEAN : ShownAfter(w.out, shown, b) => ShownAfter(w'.out, shown, b)
    BY <1>1, GeometrySteps DEF GeometryHandlers
  <2>3. r.shown \in BOOLEAN /\ (~w.hidden) \in BOOLEAN
    BY DEF Renderers, Widgets
  <2>4. QED
    BY <2>1, <2>2, <2>3 DEF Alike, VisibilityIsTold, HideIsLost
<1>2. CASE CreateWidget
  <2>1. w.hidden /\ (w.pendingShow => w.staleShow)
    BY <1>2 DEF CreateWidget, Life, VisibilityIsTold
  <2>2. /\ w'.hidden = w.hidden /\ ~w'.waitingForInit /\ w'.pendingShow = w.pendingShow
        /\ w'.staleShow = w.staleShow
        /\ ShownAfter(w'.out, r'.shown, FALSE)
    BY <1>2, CreateStep
  <2>3. (~w'.hidden) = FALSE
    BY <2>1, <2>2
  <2>4. QED
    BY <2>1, <2>2, <2>3 DEF VisibilityIsTold
<1>3. CASE CreateWidgetForNewWindow
  <2>1. w.hidden
    BY <1>3 DEF CreateWidgetForNewWindow, Life
  <2>2. QED
    BY <1>3, <2>1, CreateNewWindowStep DEF VisibilityIsTold
<1>4. CASE InitWidget
  <2>1. /\ UNCHANGED r /\ ~r.shown /\ w.out = <<>> /\ (w.pendingShow <=> ~w.hidden)
    BY <1>4 DEF InitWidget, VisibilityIsTold
  <2>2. /\ w'.hidden = w.hidden /\ ~w'.waitingForInit /\ ~w'.pendingShow
        /\ w.pendingShow => \A shown \in BOOLEAN : ShownAfter(w'.out, shown, TRUE)
        /\ ~w.pendingShow => \A shown, b \in BOOLEAN :
                                ShownAfter(w.out, shown, b) => ShownAfter(w'.out, shown, b)
    BY <1>4, InitStep
  <2>3. r.shown \in BOOLEAN /\ w.hidden \in BOOLEAN /\ r.shown = FALSE
    BY <2>1 DEF Renderers, Widgets
  <2>4. ShownAfter(w'.out, r'.shown, ~w'.hidden)
    <3>1. CASE w.hidden
      <4>1. DOMAIN <<>> = 1..0
        OBVIOUS
      <4>2. ShownAfter(w.out, FALSE, FALSE)
        BY <2>1, <4>1 DEF ShownAfter
      <4>3. ShownAfter(w'.out, FALSE, FALSE)
        BY <2>1, <2>2, <3>1, <4>2
      <4>4. (~w'.hidden) = FALSE
        BY <2>2, <3>1
      <4>5. QED
        BY <2>1, <2>3, <4>3, <4>4
    <3>2. CASE ~w.hidden
      <4>1. (~w'.hidden) = TRUE
        BY <2>2, <3>2
      <4>2. QED
        BY <2>1, <2>2, <2>3, <3>2, <4>1
    <3>3. QED
      BY <3>1, <3>2
  <2>5. QED
    BY <2>2, <2>4 DEF VisibilityIsTold
<1>5. CASE WasShown
  <2>1. w.created /\ UNCHANGED r
    BY <1>5 DEF WasShown
  <2>2. /\ ~w'.hidden /\ w'.waitingForInit = w.waitingForInit /\ w'.destroyed = w.destroyed
        /\ w.waitingForInit => w'.out = w.out /\ w'.pendingShow
        /\ ~w.waitingForInit => w'.pendingShow = w.pendingShow
        /\ w'.staleShow = (w.staleShow /\ w.pendingShow)
        /\ ~w.waitingForInit => \A shown \in BOOLEAN : ShownAfter(w'.out, shown, TRUE)
    BY <1>5, ShownStep
  <2>3. r.shown \in BOOLEAN /\ (~w'.hidden) = TRUE
    BY <2>2 DEF Renderers
  <2>4. ~w'.waitingForInit => ShownAfter(w'.out, r'.shown, ~w'.hidden)
    BY <2>1, <2>2, <2>3
  <2>5. QED
    BY <2>1, <2>2, <2>4 DEF VisibilityIsTold
<1>6. CASE WasHidden
  <2>1. w.created /\ ~w.hidden /\ UNCHANGED r /\ ~w.destroyed
    BY <1>6 DEF WasHidden, Life
  <2>2. /\ w'.hidden /\ w'.waitingForInit = w.waitingForInit /\ w'.destroyed = w.destroyed
        /\ w'.pendingShow => w.pendingShow
        /\ w'.staleShow = w.staleShow
        /\ w.pendingShow => w'.out = w.out /\ ~w'.pendingShow
        /\ ~w.pendingShow => \A shown \in BOOLEAN : ShownAfter(w'.out, shown, FALSE)
    BY <1>6, HiddenStep
  <2>3. r.shown \in BOOLEAN /\ (~w'.hidden) = FALSE
    BY <2>2 DEF Renderers
  <2>4. /\ w.waitingForInit => ~r.shown /\ w.out = <<>> /\ w.pendingShow
        /\ ~w.waitingForInit /\ w.pendingShow => w.staleShow
    BY <2>1 DEF VisibilityIsTold
  <2>5. ~w'.waitingForInit => ShownAfter(w'.out, r'.shown, ~w'.hidden) \/ HideIsLost'
    BY <2>1, <2>2, <2>3, <2>4 DEF HideIsLost
  <2>6. QED
    BY <2>1, <2>2, <2>4, <2>5 DEF VisibilityIsTold
<1>7. CASE RendererReceives
  <2>1. /\ Alike(w, w') /\ r'.alive /\ w.out # <<>>
        /\ \A b \in BOOLEAN : ShownAfter(w.out, r.shown, b) => ShownAfter(w'.out, r'.shown, b)
    BY <1>7, ReceiveStep
  <2>2. r.alive /\ w.created /\ ~w.waitingForInit
    BY <1>7, <2>1 DEF RendererReceives, Life, VisibilityIsTold
  <2>3. (~w.hidden) \in BOOLEAN
    BY DEF Widgets
  <2>4. QED
    BY <2>1, <2>2, <2>3 DEF Alike, VisibilityIsTold, HideIsLost
<1>8. CASE RendererDraws \/ RendererCommitsNavigation
  <2>1. UNCHANGED w /\ r' = [r EXCEPT !.dirty = FALSE]
    BY <1>8 DEF RendererDraws, RendererCommitsNavigation
  <2>2. r'.alive = r.alive /\ r'.shown = r.shown
    BY <2>1 DEF Renderers
  <2>3. QED
    BY <2>1, <2>2 DEF VisibilityIsTold, HideIsLost
<1>9. CASE RendererDies
  BY <1>9 DEF RendererDies, NoWidget, VisibilityIsTold, HideIsLost
<1>10. CASE RendererExited
  <2>1. ~w'.created /\ w'.staleShow = w.pendingShow /\ w'.pendingShow = w.pendingShow
    BY <1>10 DEF RendererExited, Widgets
  <2>2. QED
    BY <2>1 DEF VisibilityIsTold
<1>11. CASE ShutdownAndDestroyWidget
  BY <1>11 DEF ShutdownAndDestroyWidget, Widgets, VisibilityIsTold
<1>12. CASE SetView \/ DetachDelegate
  <2>1. UNCHANGED r
    BY <1>12 DEF SetView, DetachDelegate
  <2>2. /\ w'.created = w.created /\ w'.out = w.out /\ w'.waitingForInit = w.waitingForInit
        /\ w'.hidden = w.hidden /\ w'.destroyed = w.destroyed /\ w'.pendingShow = w.pendingShow
        /\ w'.staleShow = w.staleShow
    BY <1>12 DEF SetView, DetachDelegate, Widgets
  <2>3. QED
    BY <2>1, <2>2 DEF VisibilityIsTold, HideIsLost
<1>13. CASE Quiet
  BY <1>13 DEF Quiet, VisibilityIsTold, HideIsLost
<1>14. QED
  BY <1>1, <1>2, <1>3, <1>4, <1>5, <1>6, <1>7, <1>8, <1>9, <1>10, <1>11, <1>12, <1>13, Cases, QuietSteps
     DEF RendererActs

-----------------------------------------------------------------------------
(* The theorems.                                                           *)

LEMMA WidgetInit ==
    ASSUME Init
    PROVE  WidgetInv /\ VisibilityIsTold
<1>1. PICK p \in Props, b \in Rects, init \in BOOLEAN :
          w = [created |-> FALSE, waitingForInit |-> init, hidden |-> TRUE, view |-> FALSE,
               destroyed |-> FALSE, delegate |-> TRUE, pendingShow |-> FALSE,
               staleShow |-> FALSE,
               props |-> p, old |-> None, ackPending |-> FALSE,
               bounds |-> b, lastRect |-> None, rectAck |-> FALSE, out |-> <<>>]
  BY DEF Init
<1>2. <<>> \in Seq(Messages)
  OBVIOUS
<1>3. w \in Widgets
  BY <1>1, <1>2 DEF Widgets
<1>4. r \in Renderers /\ frames \in Nat /\ rectAcks \in Nat /\ commits \in Nat
  BY DEF Init, NoWidget, Renderers
<1>5. hang \in Hangs /\ mouse \in Mice /\ keys \in Keys
  BY RenderWidgetHostAssumption DEF Init, Hangs, Mice, Keys
<1>6. scroll \in [host: BOOLEAN, stream: BOOLEAN] /\ changes \in 0..MaxChanges
  BY RenderWidgetHostAssumption DEF Init
<1>7. TypeOK
  BY <1>3, <1>4, <1>5, <1>6 DEF TypeOK, Widgets, Renderers, Hangs, Mice, Keys
<1>8. Life /\ AnswersCome /\ VisibilityIsTold
  BY <1>1 DEF Init, NoWidget, Life, AnswersCome, VisibilityIsTold
<1>9. NewWindowIsFresh /\ Watched
  BY <1>1 DEF Init, NewWindowIsFresh, Watched
<1>10. LocksAreHeld /\ KeysAreAskedFor
  BY DEF Init, LocksAreHeld, KeysAreAskedFor
<1>11. QED
  BY <1>7, <1>8, <1>9, <1>10 DEF WidgetInv

\* The invariant holds in every state.
LEMMA WidgetInvCorrect == Spec => []WidgetInv
<1>1. Init => WidgetInv
  BY WidgetInit
<1>2. WidgetInv /\ [Next]_vars => WidgetInv'
  BY TypeStep, LifeStep, FreshStep, LocksStep, WatchedStep, ComingStep DEF WidgetInv
<1>3. QED
  BY <1>1, <1>2, PTL DEF Spec

(* For every set of sizes, scales and places and every bound: the events   *)
(* in flight of a shown widget are watched or reported, and no hang is     *)
(* reported of a widget with nothing in flight, nor of a hidden one whose  *)
(* renderer lives; and every member of the state has its type.             *)
THEOREM HangCorrect == Spec => []HangIsWatched
<1>1. WidgetInv => HangIsWatched
  BY DEF WidgetInv, Watched, HangIsWatched
<1>2. QED
  BY <1>1, WidgetInvCorrect, PTL

(* The mouse and the keyboard are locked only for a view, a context and a  *)
(* page that asked for it, has the focus and is still allowed to; a        *)
(* request for the mouse has its callback as long as it is pending.        *)
THEOREM LocksCorrect == Spec => []LocksAreHeld
<1>1. WidgetInv => LocksAreHeld
  BY DEF WidgetInv
<1>2. QED
  BY <1>1, WidgetInvCorrect, PTL

(* What the host waits for will come, through hiding, navigations, new     *)
(* renderers and any number of changes and messages in the pipe.           *)
THEOREM ThrottlesCorrect == Spec => []ThrottlesOpen
<1>1. WidgetInv => ThrottlesOpen
  <2> SUFFICES ASSUME WidgetInv, w.created, r.alive
               PROVE  /\ w.ackPending => frames > 0 \/ r.dirty \/ commits > 0 \/ InPipe("props")
                      /\ w.rectAck => rectAcks > 0 \/ InPipe("rects")
    BY DEF ThrottlesOpen
  <2>1. PipeOK(w, r, rectAcks, frames > 0 \/ commits > 0)
    BY DEF WidgetInv, AnswersCome
  <2>2. DOMAIN w.out = 1..Len(w.out)
    BY DEF WidgetInv, TypeOK
  <2>3. WillDraw(w.out, r.props) => InPipe("props")
    BY <2>2 DEF WillDraw, InPipe
  <2>4. HasKind(w.out, "rects") => InPipe("rects")
    BY <2>2 DEF HasKind, InPipe
  <2>5. QED
    BY <2>1, <2>3, <2>4 DEF PipeOK
<1>2. QED
  BY <1>1, WidgetInvCorrect, PTL

(* And what the host believes to have said was heard: a renderer that has  *)
(* taken all its messages knows whether its widget is shown, whenever its  *)
(* predecessors exited, but for the hide that a stale show swallows.       *)
THEOREM StepsCorrect == Spec => []RendererIsInStep
<1>1. Init => WidgetInv /\ VisibilityIsTold
  BY WidgetInit
<1>2. WidgetInv /\ VisibilityIsTold /\ [Next]_vars => VisibilityIsTold'
  BY VisibilityStep DEF WidgetInv
<1>3. WidgetInv /\ VisibilityIsTold => RendererKnowsVisibility
  <2> SUFFICES ASSUME WidgetInv, VisibilityIsTold,
                      w.created, r.alive, w.out = <<>>, ~w.waitingForInit
               PROVE  (r.shown <=> ~w.hidden) \/ (w.hidden /\ w.staleShow)
    BY DEF RendererKnowsVisibility, HasHeardAll
  <2>1. ShownAfter(<<>>, r.shown, ~w.hidden) \/ HideIsLost
    BY DEF VisibilityIsTold
  <2>2. DOMAIN <<>> = {}
    OBVIOUS
  <2>3. QED
    BY <2>1, <2>2 DEF ShownAfter, HideIsLost
<1>4. ThrottlesOpen /\ RendererKnowsVisibility => RendererIsInStep
  BY DEF RendererIsInStep
<1>5. QED
  BY <1>1, <1>2, <1>3, <1>4, WidgetInvCorrect, ThrottlesCorrect, PTL DEF Spec

=============================================================================
