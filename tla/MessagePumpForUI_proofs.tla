----------------------- MODULE MessagePumpForUI_proofs -----------------------
(***************************************************************************)
(* Machine-checked proofs about MessagePumpForUI, for every number of       *)
(* threads, size of the queue, depth of nesting and value of the bounds.   *)
(***************************************************************************)
EXTENDS MessagePumpForUI, SequenceTheorems, TLAPS

\* The activations of a call stack s that owe the pump a kMsgHaveWork.
HoldersOf(s) == {i \in DOMAIN s : Holding(s[i])}
HoldsAt(fn, l) == Holding(Frame(fn, l))

-----------------------------------------------------------------------------
(* What the operations on the call stack do to its type and to its holders. *)

LEMMA Update ==
    ASSUME NEW s \in Seq(Frames), NEW k, NEW e,
           k \in 1..Len(s) => e \in Frames
    PROVE  /\ [s EXCEPT ![k] = e] \in Seq(Frames)
           /\ Len([s EXCEPT ![k] = e]) = Len(s)
           /\ DOMAIN [s EXCEPT ![k] = e] = DOMAIN s
           /\ \A i \in DOMAIN s : [s EXCEPT ![k] = e][i] = IF i = k THEN e ELSE s[i]
<1> DEFINE r == [s EXCEPT ![k] = e]
<1>1. s \in [1..Len(s) -> Frames] /\ Len(s) \in Nat /\ DOMAIN s = 1..Len(s)
  BY LenProperties
<1>2. /\ r \in [1..Len(s) -> Frames]
      /\ \A i \in DOMAIN s : r[i] = IF i = k THEN e ELSE s[i]
  BY <1>1
<1>3. r \in Seq(Frames)
  BY <1>1, <1>2, SeqDef
<1>4. Len(r) = Len(s)
  BY <1>1, <1>2, <1>3, LenProperties
<1> QED
  BY <1>1, <1>2, <1>3, <1>4

\* Goto(l) changes the label of the innermost frame.
LEMMA GotoStack ==
    ASSUME NEW s \in Seq(Frames), s # <<>>, NEW l \in Labels
    PROVE  LET r == [s EXCEPT ![Len(s)].at = l]
           IN  /\ r \in Seq(Frames)
               /\ Len(r) = Len(s)
               /\ HoldersOf(r) = {i \in HoldersOf(s) : i # Len(s)}
                                 \cup {i \in {Len(s)} : HoldsAt(s[Len(s)].fn, l)}
<1> DEFINE n == Len(s)
           e == [s[n] EXCEPT !.at = l]
           r == [s EXCEPT ![n] = e]
<1>1. n \in Nat \ {0} /\ DOMAIN s = 1..n /\ \A i \in 1..n : s[i] \in Frames
  BY LenProperties, EmptySeq, ElementOfSeq
<1>2. e \in Frames /\ e.fn = s[n].fn /\ e.at = l
  BY <1>1 DEF Frames
<1>3. /\ r \in Seq(Frames) /\ Len(r) = n /\ DOMAIN r = DOMAIN s
      /\ \A i \in DOMAIN s : r[i] = IF i = n THEN e ELSE s[i]
  BY <1>2, Update
<1> QED
  BY <1>1, <1>2, <1>3 DEF HoldersOf, HoldsAt, Holding, Frame

\* Appending a frame f leaves the others as they are.
LEMMA PushStack ==
    ASSUME NEW s \in Seq(Frames), NEW f \in Frames
    PROVE  /\ Append(s, f) \in Seq(Frames)
           /\ HoldersOf(Append(s, f)) =
                  HoldersOf(s) \cup {i \in {Len(s) + 1} : Holding(f)}
<1> DEFINE r == Append(s, f)
<1>1. /\ r \in Seq(Frames) /\ Len(r) = Len(s) + 1 /\ r[Len(s) + 1] = f
      /\ \A i \in 1..Len(s) : r[i] = s[i]
  BY AppendProperties
<1>2. Len(s) \in Nat /\ DOMAIN s = 1..Len(s) /\ DOMAIN r = 1..Len(r)
  BY <1>1, LenProperties
<1> QED
  BY <1>1, <1>2 DEF HoldersOf

\* Call(f, l): the caller goes on at l, the callee f is on top of it.
LEMMA CallStack ==
    ASSUME NEW s \in Seq(Frames), s # <<>>, NEW l \in Labels, NEW f \in Frames
    PROVE  LET r == Append([s EXCEPT ![Len(s)].at = l], f)
           IN  /\ r \in Seq(Frames)
               /\ HoldersOf(r) = {i \in HoldersOf(s) : i # Len(s)}
                                 \cup {i \in {Len(s)} : HoldsAt(s[Len(s)].fn, l)}
                                 \cup {i \in {Len(s) + 1} : Holding(f)}
<1> DEFINE g == [s EXCEPT ![Len(s)].at = l]
<1>1. /\ g \in Seq(Frames) /\ Len(g) = Len(s)
      /\ HoldersOf(g) = {i \in HoldersOf(s) : i # Len(s)}
                        \cup {i \in {Len(s)} : HoldsAt(s[Len(s)].fn, l)}
  BY GotoStack
<1> HIDE DEF g
<1>2. /\ Append(g, f) \in Seq(Frames)
      /\ HoldersOf(Append(g, f)) = HoldersOf(g) \cup {i \in {Len(s) + 1} : Holding(f)}
  BY <1>1, PushStack
<1>3. /\ Append(g, f) \in Seq(Frames)
      /\ HoldersOf(Append(g, f)) = {i \in HoldersOf(s) : i # Len(s)}
                                   \cup {i \in {Len(s)} : HoldsAt(s[Len(s)].fn, l)}
                                   \cup {i \in {Len(s) + 1} : Holding(f)}
  BY <1>1, <1>2
<1> QED
  BY <1>3 DEF g

\* Popping the innermost frame leaves the others as they are.
LEMMA PopStack ==
    ASSUME NEW s \in Seq(Frames), s # <<>>
    PROVE  LET r == SubSeq(s, 1, Len(s) - 1)
           IN  /\ r \in Seq(Frames)
               /\ Len(r) = Len(s) - 1
               /\ HoldersOf(r) = {i \in HoldersOf(s) : i # Len(s)}
<1> DEFINE n == Len(s)
           r == SubSeq(s, 1, n - 1)
<1>1. n \in Nat \ {0} /\ DOMAIN s = 1..n /\ \A i \in 1..n : s[i] \in Frames
  BY LenProperties, EmptySeq, ElementOfSeq
<1>2. \A i \in 1..(n - 1) : s[i] \in Frames
  BY <1>1
<1>3. /\ r \in Seq(Frames)
      /\ Len(r) = IF 1 <= n - 1 THEN (n - 1) - 1 + 1 ELSE 0
      /\ \A i \in 1..((n - 1) - 1 + 1) : r[i] = s[1 + i - 1]
  <2>1. 1 \in Int /\ n - 1 \in Int
    BY <1>1
  <2> HIDE DEF n
  <2> QED
    BY <1>2, <2>1, SubSeqProperties
<1>4. Len(r) = n - 1 /\ DOMAIN r = 1..(n - 1) /\ \A i \in 1..(n - 1) : r[i] = s[i]
  BY <1>1, <1>3, LenProperties
<1> QED
  BY <1>1, <1>3, <1>4 DEF HoldersOf

\* So does returning a value that the caller keeps in its field more or info.
LEMMA ReturnStack ==
    ASSUME NEW s \in Seq(Frames), s # <<>>, NEW r,
           LET p == SubSeq(s, 1, Len(s) - 1)
               k == Len(s) - 1
           IN  \/ r = p
               \/ \E b \in BOOLEAN : r = [p EXCEPT ![k].more = @ \/ b]
               \/ \E n \in RunTimes : r = [p EXCEPT ![k].info = n]
    PROVE  /\ r \in Seq(Frames)
           /\ HoldersOf(r) = {i \in HoldersOf(s) : i # Len(s)}
<1> DEFINE p == SubSeq(s, 1, Len(s) - 1)
           k == Len(s) - 1
<1>1. p \in Seq(Frames) /\ HoldersOf(p) = {i \in HoldersOf(s) : i # Len(s)}
  BY PopStack
<1>2. DOMAIN p = 1..Len(p) /\ \A i \in DOMAIN p : p[i] \in Frames
  BY <1>1, LenProperties, ElementOfSeq
<1> HIDE DEF p, k
<1>3. ASSUME NEW e, r = [p EXCEPT ![k] = e],
             k \in DOMAIN p => e \in Frames /\ e.fn = p[k].fn /\ e.at = p[k].at
      PROVE  r \in Seq(Frames) /\ HoldersOf(r) = HoldersOf(p)
  <2>1. /\ r \in Seq(Frames) /\ DOMAIN r = DOMAIN p
        /\ \A i \in DOMAIN p : r[i] = IF i = k THEN e ELSE p[i]
    BY <1>1, <1>2, <1>3, Update
  <2>2. \A i \in DOMAIN p : Holding(r[i]) = Holding(p[i])
    BY <1>3, <2>1 DEF Holding
  <2> QED
    BY <2>1, <2>2 DEF HoldersOf
<1>4. CASE r = p
  BY <1>1, <1>4
<1>5. ASSUME NEW b \in BOOLEAN, r = [p EXCEPT ![k].more = @ \/ b]
      PROVE  r \in Seq(Frames) /\ HoldersOf(r) = HoldersOf(p)
  <2> DEFINE e == [p[k] EXCEPT !.more = @ \/ b]
  <2>1. r = [p EXCEPT ![k] = e]
    BY <1>5
  <2>2. k \in DOMAIN p => e \in Frames /\ e.fn = p[k].fn /\ e.at = p[k].at
    BY <1>2 DEF Frames
  <2> HIDE DEF e
  <2> QED
    BY <1>3, <2>1, <2>2
<1>6. ASSUME NEW n \in RunTimes, r = [p EXCEPT ![k].info = n]
      PROVE  r \in Seq(Frames) /\ HoldersOf(r) = HoldersOf(p)
  <2> DEFINE e == [p[k] EXCEPT !.info = n]
  <2>1. r = [p EXCEPT ![k] = e]
    BY <1>6
  <2>2. k \in DOMAIN p => e \in Frames /\ e.fn = p[k].fn /\ e.at = p[k].at
    BY <1>2 DEF Frames
  <2> HIDE DEF e
  <2> QED
    BY <1>3, <2>1, <2>2
<1> QED
  BY <1>1, <1>4, <1>5, <1>6 DEF p, k

LEMMA FrameType ==
    ASSUME NEW fn \in Functions, NEW l \in Labels
    PROVE  Frame(fn, l) \in Frames
BY BoundAssumption DEF Frame, Frames, Messages, RunTimes, Never, Immediate

\* The same facts about the actions' operators.
LEMMA StackSteps ==
    ASSUME TypeOK, stack # <<>>
    PROVE  /\ \A l \in Labels :
                 Goto(l) => /\ stack' \in Seq(Frames)
                            /\ HoldersOf(stack') =
                                   {i \in HoldersOf(stack) : i # Len(stack)}
                                   \cup {i \in {Len(stack)} : HoldsAt(Top.fn, l)}
           /\ \A l \in Labels, f \in Frames :
                 Call(f, l) => /\ stack' \in Seq(Frames)
                               /\ HoldersOf(stack') =
                                      {i \in HoldersOf(stack) : i # Len(stack)}
                                      \cup {i \in {Len(stack)} : HoldsAt(Top.fn, l)}
                                      \cup {i \in {Len(stack) + 1} : Holding(f)}
           /\ Return \/ (\E b \in BOOLEAN : ReturnMore(b)) \/ (\E n \in RunTimes : ReturnInfo(n))
                 => /\ stack' \in Seq(Frames)
                    /\ HoldersOf(stack') = {i \in HoldersOf(stack) : i # Len(stack)}
<1>0. stack \in Seq(Frames)
  BY DEF TypeOK
<1>1. ASSUME NEW l \in Labels, Goto(l)
      PROVE  /\ stack' \in Seq(Frames)
             /\ HoldersOf(stack') = {i \in HoldersOf(stack) : i # Len(stack)}
                                    \cup {i \in {Len(stack)} : HoldsAt(Top.fn, l)}
  BY <1>0, <1>1, GotoStack DEF Goto, Top
<1>2. ASSUME NEW l \in Labels, NEW f \in Frames, Call(f, l)
      PROVE  /\ stack' \in Seq(Frames)
             /\ HoldersOf(stack') = {i \in HoldersOf(stack) : i # Len(stack)}
                                    \cup {i \in {Len(stack)} : HoldsAt(Top.fn, l)}
                                    \cup {i \in {Len(stack) + 1} : Holding(f)}
  BY <1>0, <1>2, CallStack DEF Call, Top
<1>3. ASSUME Return \/ (\E b \in BOOLEAN : ReturnMore(b)) \/ (\E n \in RunTimes : ReturnInfo(n))
      PROVE  /\ stack' \in Seq(Frames)
             /\ HoldersOf(stack') = {i \in HoldersOf(stack) : i # Len(stack)}
  BY <1>0, <1>3, ReturnStack DEF Return, ReturnMore, ReturnInfo, Popped
<1> QED
  BY <1>1, <1>2, <1>3

\* The message queue: what PeekMessage() returns and what it leaves.
LEMMA QueueSteps ==
    ASSUME TypeOK
    PROVE  /\ NextMessage \in Messages
           /\ RemoveMessage => /\ posted' \in Seq({"HaveWork", "Native"})
                               /\ wm_quit' \in BOOLEAN
                               /\ wm_timer' \in BOOLEAN
                               /\ sent' = sent
           /\ \A m \in {"HaveWork", "Native"} :
                  Append(posted, m) \in Seq({"HaveWork", "Native"})
<1>1. posted # <<>> => /\ Head(posted) \in {"HaveWork", "Native"}
                       /\ Tail(posted) \in Seq({"HaveWork", "Native"})
  BY HeadTailProperties DEF TypeOK
<1>2. <<>> \in Seq({"HaveWork", "Native"})
  BY EmptySeq
<1>3. \A m \in {"HaveWork", "Native"} : Append(posted, m) \in Seq({"HaveWork", "Native"})
  BY AppendProperties DEF TypeOK
<1> QED
  BY <1>1, <1>2, <1>3 DEF TypeOK, NextMessage, RemoveMessage, Messages

\* Replacing any frame by e.
LEMMA ReplaceFrame ==
    ASSUME NEW s \in Seq(Frames), NEW k, NEW e, k \in DOMAIN s => e \in Frames
    PROVE  /\ [s EXCEPT ![k] = e] \in Seq(Frames)
           /\ Len([s EXCEPT ![k] = e]) = Len(s)
           /\ HoldersOf([s EXCEPT ![k] = e]) =
                  {i \in HoldersOf(s) : i # k} \cup {i \in {k} : k \in DOMAIN s /\ Holding(e)}
<1> DEFINE r == [s EXCEPT ![k] = e]
<1>1. DOMAIN s = 1..Len(s)
  BY LenProperties
<1>2. /\ r \in Seq(Frames) /\ Len(r) = Len(s) /\ DOMAIN r = DOMAIN s
      /\ \A i \in DOMAIN s : r[i] = IF i = k THEN e ELSE s[i]
  BY <1>1, Update
<1> HIDE DEF r
<1>3. HoldersOf(r) = {i \in HoldersOf(s) : i # k} \cup {i \in {k} : k \in DOMAIN s /\ Holding(e)}
  BY <1>2 DEF HoldersOf
<1> QED
  BY <1>2, <1>3 DEF r

\* LoopStatus, LoopPeek and ReplacePeek change two fields of the innermost frame.
LEMMA TopStep ==
    ASSUME TypeOK, stack # <<>>, NEW l \in Labels, NEW b \in BOOLEAN, NEW m \in Messages
    PROVE  LET n == Len(stack)
               more == [stack EXCEPT ![n].at = l, ![n].more = b]
               plausible == [stack EXCEPT ![n].at = l, ![n].more = @ \/ b]
               msg  == [stack EXCEPT ![n].at = l, ![n].msg = m]
           IN  \A r \in {more, plausible, msg} :
                   /\ r \in Seq(Frames)
                   /\ Len(r) = n
                   /\ HoldersOf(r) = {i \in HoldersOf(stack) : i # n}
                                     \cup {i \in {n} : HoldsAt(Top.fn, l)}
<1> DEFINE n == Len(stack)
<1>1. n \in Nat \ {0} /\ n \in DOMAIN stack /\ stack[n] \in Frames
  BY LenProperties, EmptySeq, ElementOfSeq DEF TypeOK
<1>2. ASSUME NEW e \in Frames, e.fn = stack[n].fn, e.at = l
      PROVE  /\ [stack EXCEPT ![n] = e] \in Seq(Frames)
             /\ Len([stack EXCEPT ![n] = e]) = n
             /\ HoldersOf([stack EXCEPT ![n] = e]) = {i \in HoldersOf(stack) : i # n}
                                     \cup {i \in {n} : HoldsAt(Top.fn, l)}
  <2>1. Holding(e) = HoldsAt(Top.fn, l)
    BY <1>2 DEF Holding, HoldsAt, Top, Frame
  <2> QED
    BY <1>1, <2>1, ReplaceFrame DEF TypeOK
<1> DEFINE e1 == [[stack[n] EXCEPT !.at = l] EXCEPT !.more = b]
           e2 == [[stack[n] EXCEPT !.at = l] EXCEPT !.more = @ \/ b]
           e3 == [[stack[n] EXCEPT !.at = l] EXCEPT !.msg = m]
<1>3. \A e \in {e1, e2, e3} : e \in Frames /\ e.fn = stack[n].fn /\ e.at = l
  BY <1>1 DEF Frames
<1>4. /\ [stack EXCEPT ![n].at = l, ![n].more = b] = [stack EXCEPT ![n] = e1]
      /\ [stack EXCEPT ![n].at = l, ![n].more = @ \/ b] = [stack EXCEPT ![n] = e2]
      /\ [stack EXCEPT ![n].at = l, ![n].msg = m] = [stack EXCEPT ![n] = e3]
  BY <1>1
<1> HIDE DEF e1, e2, e3
<1>5. \A e \in {e1, e2, e3} :
          /\ [stack EXCEPT ![n] = e] \in Seq(Frames)
          /\ Len([stack EXCEPT ![n] = e]) = n
          /\ HoldersOf([stack EXCEPT ![n] = e]) = {i \in HoldersOf(stack) : i # n}
                                     \cup {i \in {n} : HoldsAt(Top.fn, l)}
  BY <1>2, <1>3
<1> QED
  BY <1>4, <1>5
-----------------------------------------------------------------------------
(* Type correctness. *)

\* DispatchSent() runs the handler of a sent message.
LEMMA DispatchSentType ==
    ASSUME TypeOK, stack # <<>>, NEW l \in Labels, DispatchSent(l)
    PROVE  TypeOK'
<1>1. Frame("Handler", "Start") \in Frames
  BY FrameType DEF Functions, Labels
<1>2. stack' \in Seq(Frames)
  BY <1>1, StackSteps DEF DispatchSent
<1> QED
  BY <1>2, BoundAssumption DEF DispatchSent, TypeOK, pumpVars, timerVars, histVars

\* ScheduleWork() and ScheduleNativeTimer(), called on the bound thread.
LEMMA CallType ==
    ASSUME TypeOK, stack # <<>>, NEW l \in Labels
    PROVE  /\ CallScheduleWork(l) => work_scheduled' \in BOOLEAN /\ stack' \in Seq(Frames)
           /\ \A t \in RunTimes :
                  CallScheduleNativeTimer(t, l) =>
                      /\ work_scheduled' \in BOOLEAN
                      /\ stack' \in Seq(Frames)
                      /\ installed_native_timer' \in Off..MaxTime
<1>1. Frame("ScheduleWork", "Post") \in Frames
  BY FrameType DEF Functions, Labels
<1>2. CallScheduleWork(l) => work_scheduled' \in BOOLEAN /\ stack' \in Seq(Frames)
  BY <1>1, StackSteps DEF CallScheduleWork
<1>3. ASSUME NEW t \in RunTimes, CallScheduleNativeTimer(t, l)
      PROVE  /\ work_scheduled' \in BOOLEAN
             /\ stack' \in Seq(Frames)
             /\ installed_native_timer' \in Off..MaxTime
  <2>1. stack' \in Seq(Frames) /\ work_scheduled' \in BOOLEAN
    BY <1>2, <1>3, StackSteps DEF CallScheduleNativeTimer, TypeOK
  <2>2. \/ installed_native_timer' = installed_native_timer
        \/ t # Never /\ t > now /\ installed_native_timer' = t
    BY <1>3 DEF CallScheduleNativeTimer
  <2>3. installed_native_timer' \in Off..MaxTime
    BY <2>2, BoundAssumption DEF TypeOK, RunTimes, Never, Immediate, Off
  <2> QED
    BY <2>1, <2>3
<1> QED
  BY <1>2, <1>3

\* TypeOK holds initially and every step keeps it.
LEMMA TypeInit == Init => TypeOK
<1> SUFFICES ASSUME Init PROVE TypeOK
  OBVIOUS
<1>1. stack \in Seq(Frames) /\ posted \in Seq({"HaveWork", "Native"})
  BY EmptySeq DEF Init
<1>2. /\ installed_native_timer \in Off..MaxTime
      /\ sent \in 0..MaxSent /\ now \in 0..MaxTime /\ budget \in 0..Budget
      /\ due \in RunTimes
  BY BoundAssumption DEF Init, RunTimes, Never, Immediate, Off
<1>3. pc \in [Threads -> {"Idle", "Post", "Failed"}]
  BY DEF Init
<1> QED
  BY <1>1, <1>2, <1>3 DEF Init, TypeOK

LEMMA TypeStep == TypeOK /\ [Next]_vars => TypeOK'
<1> SUFFICES ASSUME TypeOK, [Next]_vars PROVE TypeOK'
  OBVIOUS
<1> USE DEF TypeOK, pumpVars, timerVars, queueVars, histVars, At, Spend
<1>f. /\ \A fn \in Functions, l \in Labels : Frame(fn, l) \in Frames
      /\ Frame("DoWork", "Start") \in Frames
      /\ Frame("Handler", "Start") \in Frames
      /\ Frame("HandleTimer", "Start") \in Frames
      /\ Frame("HandleWork", "Start") \in Frames
      /\ Frame("Replace", "Peek") \in Frames
      /\ Frame("DoRunLoop", "Status") \in Frames
      /\ Frame("NativeLoop", "Peek") \in Frames
  BY FrameType DEF Functions, Labels
<1>l. /\ {"Status", "Peek", "Dispatched", "Worked", "Idle", "Wait", "WaitPeek", "WaitNew",
           "Start", "Clear", "Reschedule", "Done", "Post", "Failed"} = Labels
  BY DEF Labels
<1>g. stack # <<>> =>
          /\ \A l \in Labels : Goto(l) => stack' \in Seq(Frames)
          /\ \A l \in Labels, f \in Frames : Call(f, l) => stack' \in Seq(Frames)
          /\ Return => stack' \in Seq(Frames)
          /\ \A b \in BOOLEAN : ReturnMore(b) => stack' \in Seq(Frames)
          /\ \A n \in RunTimes : ReturnInfo(n) => stack' \in Seq(Frames)
  BY StackSteps
<1>t. Never \in RunTimes /\ Immediate \in RunTimes /\ RunTimes \subseteq Nat
  BY BoundAssumption DEF RunTimes, Never, Immediate
<1>b. Spend => budget' \in 0..Budget
  BY BoundAssumption
<1>o. Off \in Off..MaxTime
  BY BoundAssumption DEF Off
<1>i. stack # <<>> => Top \in Frames
  BY LenProperties, EmptySeq, ElementOfSeq DEF Top
<1>p1. CASE ScheduleWorkPost
  BY <1>p1, <1>f, <1>l, <1>g, <1>t, <1>o, <1>i, QueueSteps DEF ScheduleWorkPost
<1>p2. CASE ScheduleWorkFailed
  BY <1>p2, <1>f, <1>l, <1>g, <1>t, <1>o, <1>i DEF ScheduleWorkFailed
<1>p3. CASE LoopStatus
  <2>1. stack # <<>> /\ (sent > 0) \in BOOLEAN
    BY <1>p3 DEF LoopStatus
  <2>2. stack' \in Seq(Frames)
    BY <1>p3, <1>l, <2>1, TopStep DEF LoopStatus, Messages
  <2> QED
    BY <1>p3, <2>2 DEF LoopStatus
<1>p4. CASE LoopPeek
  <2>1. stack # <<>>
    BY <1>p4 DEF LoopPeek
  <2>2. CASE DispatchSent("Peek")
    BY <1>l, <2>1, <2>2, DispatchSentType
  <2>3. CASE ~DispatchSent("Peek")
    <3> DEFINE plausible(b) == [stack EXCEPT ![Len(stack)].at = "Dispatched",
                                             ![Len(stack)].more = @ \/ b]
    <3>1. \A b \in BOOLEAN : plausible(b) \in Seq(Frames)
      BY <1>l, <2>1, TopStep DEF Messages
    <3>2. \A b \in BOOLEAN, f \in Frames : Append(plausible(b), f) \in Seq(Frames)
      BY <3>1, PushStack
    <3> DEFINE callee == CASE NextMessage = "HaveWork" -> Frame("Replace", "Peek")
                           [] NextMessage = "Native" -> Frame("Handler", "Start")
                           [] OTHER -> Frame("HandleTimer", "Start")
    <3>3. \/ \E b \in BOOLEAN : stack' = plausible(b)
          \/ \E b \in BOOLEAN, f \in Frames : stack' = Append(plausible(b), f)
      <4>1. CASE NextMessage = "HaveWork"
        BY <1>p4, <1>f, <2>3, <4>1 DEF LoopPeek
      <4>2. CASE NextMessage = "Native"
        BY <1>p4, <1>f, <2>3, <4>2 DEF LoopPeek
      <4>3. CASE NextMessage = "Timer"
        BY <1>p4, <1>f, <2>3, <4>3 DEF LoopPeek
      <4>4. CASE NextMessage \notin {"HaveWork", "Native", "Timer"}
        BY <1>p4, <2>3, <4>4 DEF LoopPeek
      <4> QED
        BY <4>1, <4>2, <4>3, <4>4
    <3>4. stack' \in Seq(Frames)
      BY <3>1, <3>2, <3>3
    <3> QED
      BY <1>p4, <2>3, <3>4, QueueSteps DEF LoopPeek
  <2> QED
    BY <2>2, <2>3
<1>p5. CASE LoopDispatched
  BY <1>p5, <1>f, <1>l, <1>g, <1>t, <1>o, <1>i DEF LoopDispatched, BeginDoWork
<1>p6. CASE LoopWorked
  BY <1>p6, <1>f, <1>l, <1>g, <1>t, <1>o, <1>i DEF LoopWorked
<1>p7. CASE LoopIdle
  BY <1>p7, <1>b, <1>l, <1>g, CallType DEF LoopIdle
<1>p8. CASE LoopWait
  BY <1>p8, <1>f, <1>l, <1>g, <1>t, <1>o, <1>i DEF LoopWait
<1>p9. CASE LoopWaitPeek
  BY <1>p9, <1>l, <1>g, DispatchSentType DEF LoopWaitPeek
<1>p10. CASE ReplacePeek
  <2>1. stack # <<>>
    BY <1>p10 DEF ReplacePeek
  <2>2. CASE DispatchSent("Peek")
    BY <1>l, <2>1, <2>2, DispatchSentType
  <2>3. CASE ~DispatchSent("Peek")
    <3>0. /\ NextMessage \in Messages
          /\ stack' = [stack EXCEPT ![Len(stack)].at = "Clear",
                                   ![Len(stack)].msg = NextMessage]
      BY <1>p10, <2>3, QueueSteps DEF ReplacePeek
    <3>1. stack' \in Seq(Frames)
      BY <1>l, <2>1, <3>0, TopStep
    <3> QED
      BY <1>p10, <2>3, <3>1, QueueSteps DEF ReplacePeek
  <2> QED
    BY <2>2, <2>3
<1>p11. CASE ReplaceClear
  BY <1>p11, <1>f, <1>l, <1>g, <1>t, <1>o, <1>i DEF ReplaceClear
<1>p12. CASE ReplaceReschedule
  BY <1>p12, <1>b, <1>l, <1>g, CallType DEF ReplaceReschedule
<1>p13. CASE ReplaceDispatch
  BY <1>p13, <1>f, <1>l, <1>g, <1>t, <1>o, <1>i DEF ReplaceDispatch
<1>p14. CASE HandleWorkStart
  BY <1>p14, <1>f, <1>l, <1>g, <1>t, <1>o, <1>i DEF HandleWorkStart
<1>p15. CASE HandleWorkDoWork
  BY <1>p15, <1>f, <1>l, <1>g, <1>t, <1>o, <1>i DEF HandleWorkDoWork, BeginDoWork
<1>p16. CASE HandleTimerStart
  BY <1>p16, <1>f, <1>l, <1>g, <1>t, <1>o, <1>i DEF HandleTimerStart, BeginDoWork
<1>p17. CASE HandlerWorked
  <2>1. stack # <<>> /\ Top.info \in RunTimes
    BY <1>p17, <1>i DEF HandlerWorked, Frames
  <2> QED
    BY <1>p17, <1>l, <2>1, CallType DEF HandlerWorked
<1>p18. CASE HandlerDone
  BY <1>p18, <1>f, <1>l, <1>g, <1>t, <1>o, <1>i DEF HandlerDone
<1>p19. CASE NativeGet
  <2>1. stack # <<>>
    BY <1>p19 DEF NativeGet
  <2>2. CASE DispatchSent("Peek")
    BY <1>l, <2>1, <2>2, DispatchSentType
  <2>3. CASE ~DispatchSent("Peek")
    <3>1. stack' \in Seq(Frames)
      BY <1>p19, <1>f, <1>l, <1>g, <2>1, <2>3 DEF NativeGet
    <3> QED
      BY <1>p19, <2>3, <3>1, QueueSteps DEF NativeGet
  <2> QED
    BY <2>2, <2>3
<1>a1. CASE AppScheduleWork
  BY <1>a1, <1>b, <1>l, CallType DEF AppScheduleWork, InAppCode
<1>a2. CASE AppQuit
  <2> DEFINE e == [stack[RunState] EXCEPT !.quit = TRUE]
  <2>0. ASSUME RunState \in DOMAIN stack PROVE stack[RunState] \in Frames
    <3> DEFINE k == RunState
    <3> HIDE DEF k
    <3>1. k \in DOMAIN stack => stack[k] \in Frames
      BY LenProperties, ElementOfSeq
    <3> QED
      BY <2>0, <3>1 DEF k
  <2>1. RunState \in DOMAIN stack => e \in Frames
    BY <2>0 DEF Frames
  <2>2. stack' = [stack EXCEPT ![RunState] = e]
    BY <1>a2 DEF AppQuit
  <2> HIDE DEF e
  <2>3. stack' \in Seq(Frames)
    BY <2>1, <2>2, ReplaceFrame
  <2> QED
    BY <1>a2, <1>b, <2>3 DEF AppQuit
<1>a3. CASE EnterRun
  <2>1. \A f \in Frames : <<f>> \in Seq(Frames)
    BY EmptySeq, AppendProperties
  <2> QED
    BY <1>a3, <1>b, <1>f, <1>l, <1>g, <2>1 DEF EnterRun, InAppCode
<1>a4. CASE EnterNativeLoop
  <2>1. \A f \in Frames : <<f>> \in Seq(Frames)
    BY EmptySeq, AppendProperties
  <2> QED
    BY <1>a4, <1>b, <1>f, <1>l, <1>g, <2>1 DEF EnterNativeLoop, InAppCode
<1>a5. CASE NativeExit
  BY <1>a5, <1>g DEF NativeExit
<1>a6. CASE HandlerReturn
  BY <1>a6, <1>g DEF HandlerReturn
<1>a7. CASE PostNative
  BY <1>a7, QueueSteps, BoundAssumption DEF PostNative
<1>a8. CASE PostQuit
  BY <1>a8, BoundAssumption DEF PostQuit
<1>a9. CASE SendNative
  BY <1>a9, BoundAssumption DEF SendNative
<1>a10. CASE TimerElapses
  BY <1>a10, BoundAssumption DEF TimerElapses
<1>a11. CASE Tick
  BY <1>a11, BoundAssumption DEF Tick
<1>n. ASSUME NEW n \in RunTimes, DoWorkReturn(n) PROVE TypeOK'
  BY <1>n, <1>b, <1>g DEF DoWorkReturn
<1>d. ASSUME NEW t \in RunTimes \ {Immediate, Never}, AppScheduleDelayedWork(t) PROVE TypeOK'
  BY <1>d, <1>b, <1>l, CallType DEF AppScheduleDelayedWork
<1>w. ASSUME NEW t \in Threads, ThreadScheduleWork(t) PROVE TypeOK'
  BY <1>w, <1>b DEF ThreadScheduleWork
<1>x. ASSUME NEW t \in Threads, ThreadPost(t) PROVE TypeOK'
  BY <1>x, QueueSteps DEF ThreadPost
<1>y. ASSUME NEW t \in Threads, ThreadPostFailed(t) PROVE TypeOK'
  BY <1>y DEF ThreadPostFailed
<1>u. CASE UNCHANGED vars
  BY <1>u DEF vars
<1> QED
  BY <1>p1, <1>p2, <1>p3, <1>p4, <1>p5, <1>p6, <1>p7, <1>p8, <1>p9, <1>p10, <1>p11,
     <1>p12, <1>p13, <1>p14, <1>p15, <1>p16, <1>p17, <1>p18, <1>p19, <1>a1, <1>a2,
     <1>a3, <1>a4, <1>a5, <1>a6, <1>a7, <1>a8, <1>a9, <1>a10, <1>a11,
     <1>n, <1>d, <1>w, <1>x, <1>y, <1>u
  DEF Next, PumpStep, AppReturn, AppCall, ThreadStep, Environment

\* TypeOK, for every number of threads, capacity of the queue and depth of nesting.
THEOREM TypeCorrect == Spec => []TypeOK
  BY TypeInit, TypeStep, PTL DEF Spec

-----------------------------------------------------------------------------
(***************************************************************************)
(* The work token.  SingleWorkToken is inductive together with TypeOK: a   *)
(* step either leaves the queue, the stack's holders, the threads and the  *)
(* flag alone, or it creates, moves or destroys the one token.             *)
(***************************************************************************)
LEMMA Holders ==
    /\ \A fn, l :
           HoldsAt(fn, l) <=> \/ fn = "ScheduleWork" /\ l \in {"Post", "Failed"}
                              \/ fn = "HandleWork" /\ l = "Start"
                              \/ fn = "Replace" /\ l \in {"Peek", "Clear"}
    /\ ~Holding(Frame("Handler", "Start")) /\ ~Holding(Frame("DoWork", "Start"))
    /\ ~Holding(Frame("HandleTimer", "Start")) /\ ~Holding(Frame("DoRunLoop", "Status"))
    /\ ~Holding(Frame("NativeLoop", "Peek"))
    /\ Holding(Frame("Replace", "Peek")) /\ Holding(Frame("HandleWork", "Start"))
    /\ Holding(Frame("ScheduleWork", "Post"))
BY DEF HoldsAt, Holding, Frame

LEMMA TopHolds ==
    ASSUME TypeOK, stack # <<>>
    PROVE  Len(stack) \in HoldersOf(stack) <=> HoldsAt(Top.fn, Top.at)
<1>1. Len(stack) \in DOMAIN stack
  BY LenProperties, EmptySeq, ElementOfSeq DEF TypeOK, Top
<1> QED
  BY <1>1 DEF HoldersOf, HoldsAt, Holding, Frame, Top

\* When the innermost activation holds no token, only a callee can come to hold one.
LEMMA Keeps ==
    ASSUME TypeOK, stack # <<>>, ~HoldsAt(Top.fn, Top.at)
    PROVE  /\ \A l \in Labels :
                  Goto(l) /\ ~HoldsAt(Top.fn, l) => HoldersOf(stack') = HoldersOf(stack)
           /\ \A l \in Labels, f \in Frames :
                  Call(f, l) /\ ~HoldsAt(Top.fn, l) /\ ~Holding(f) =>
                      HoldersOf(stack') = HoldersOf(stack)
           /\ \A l \in Labels, f \in Frames :
                  Call(f, l) /\ ~HoldsAt(Top.fn, l) /\ Holding(f) =>
                      HoldersOf(stack') = HoldersOf(stack) \cup {Len(stack) + 1}
           /\ Return => HoldersOf(stack') = HoldersOf(stack)
           /\ \A b \in BOOLEAN : ReturnMore(b) => HoldersOf(stack') = HoldersOf(stack)
           /\ \A n \in RunTimes : ReturnInfo(n) => HoldersOf(stack') = HoldersOf(stack)
<1>1. HoldersOf(stack) = {i \in HoldersOf(stack) : i # Len(stack)}
  BY TopHolds
<1>2. ASSUME NEW l \in Labels, Goto(l), ~HoldsAt(Top.fn, l)
      PROVE  HoldersOf(stack') = HoldersOf(stack)
  <2>1. HoldersOf(stack') = {i \in HoldersOf(stack) : i # Len(stack)}
                            \cup {i \in {Len(stack)} : HoldsAt(Top.fn, l)}
    BY <1>2, StackSteps
  <2> QED
    BY <1>1, <1>2, <2>1
<1>3. ASSUME NEW l \in Labels, NEW f \in Frames, Call(f, l), ~HoldsAt(Top.fn, l)
      PROVE  HoldersOf(stack') = HoldersOf(stack) \cup {i \in {Len(stack) + 1} : Holding(f)}
  <2>1. HoldersOf(stack') = {i \in HoldersOf(stack) : i # Len(stack)}
                            \cup {i \in {Len(stack)} : HoldsAt(Top.fn, l)}
                            \cup {i \in {Len(stack) + 1} : Holding(f)}
    BY <1>3, StackSteps
  <2> QED
    BY <1>1, <1>3, <2>1
<1>4. ASSUME Return \/ (\E b \in BOOLEAN : ReturnMore(b)) \/ (\E n \in RunTimes : ReturnInfo(n))
      PROVE  HoldersOf(stack') = HoldersOf(stack)
  BY <1>1, <1>4, StackSteps
<1> QED
  BY <1>2, <1>3, <1>4

\* Changing other fields of a frame.
LEMMA SameHolder ==
    ASSUME NEW s \in Seq(Frames), NEW k, NEW e, NEW r, r = [s EXCEPT ![k] = e],
           k \in DOMAIN s => e \in Frames /\ (Holding(e) <=> Holding(s[k]))
    PROVE  r \in Seq(Frames) /\ Len(r) = Len(s) /\ HoldersOf(r) = HoldersOf(s)
<1>1. DOMAIN s = 1..Len(s)
  BY LenProperties
<1>2. /\ r \in Seq(Frames) /\ Len(r) = Len(s) /\ DOMAIN r = DOMAIN s
      /\ \A i \in DOMAIN s : r[i] = IF i = k THEN e ELSE s[i]
  BY <1>1, Update
<1> HIDE DEF HoldersOf
<1>3. HoldersOf(r) = HoldersOf(s)
  BY <1>2 DEF HoldersOf
<1> QED
  BY <1>2, <1>3

\* A step that changes the label and a field of the innermost frame.
LEMMA TopKeeps ==
    ASSUME TypeOK, stack # <<>>, NEW l \in Labels,
           HoldsAt(Top.fn, l) <=> HoldsAt(Top.fn, Top.at), NEW r,
           \/ \E b \in BOOLEAN :
                  r = [stack EXCEPT ![Len(stack)].at = l, ![Len(stack)].more = b]
           \/ \E b \in BOOLEAN :
                  r = [stack EXCEPT ![Len(stack)].at = l, ![Len(stack)].more = @ \/ b]
           \/ \E m \in Messages :
                  r = [stack EXCEPT ![Len(stack)].at = l, ![Len(stack)].msg = m]
    PROVE  r \in Seq(Frames) /\ Len(r) = Len(stack) /\ HoldersOf(r) = HoldersOf(stack)
<1> DEFINE n == Len(stack)
<1>1. n \in DOMAIN stack /\ stack[n] \in Frames /\ stack \in Seq(Frames)
  BY LenProperties, EmptySeq, ElementOfSeq DEF TypeOK
<1>2. ASSUME NEW e \in Frames, e.fn = stack[n].fn, e.at = l, r = [stack EXCEPT ![n] = e]
      PROVE  r \in Seq(Frames) /\ Len(r) = Len(stack) /\ HoldersOf(r) = HoldersOf(stack)
  <2>1. Holding(e) <=> Holding(stack[n])
    BY <1>2 DEF Holding, HoldsAt, Frame, Top
  <2> HIDE DEF n
  <2> QED
    BY <1>1, <1>2, <2>1, SameHolder
<1>3. ASSUME NEW b \in BOOLEAN, r = [stack EXCEPT ![n].at = l, ![n].more = b]
      PROVE  \E e \in Frames : /\ e.fn = stack[n].fn /\ e.at = l
                               /\ r = [stack EXCEPT ![n] = e]
  <2>1. r = [stack EXCEPT ![n] = [stack[n] EXCEPT !.at = l, !.more = b]]
    BY <1>1, <1>3
  <2> QED
    BY <1>1, <2>1 DEF Frames
<1>4. ASSUME NEW b \in BOOLEAN, r = [stack EXCEPT ![n].at = l, ![n].more = @ \/ b]
      PROVE  \E e \in Frames : /\ e.fn = stack[n].fn /\ e.at = l
                               /\ r = [stack EXCEPT ![n] = e]
  <2>1. r = [stack EXCEPT ![n] = [stack[n] EXCEPT !.at = l, !.more = @ \/ b]]
    BY <1>1, <1>4
  <2> QED
    BY <1>1, <2>1 DEF Frames
<1>5. ASSUME NEW m \in Messages, r = [stack EXCEPT ![n].at = l, ![n].msg = m]
      PROVE  \E e \in Frames : /\ e.fn = stack[n].fn /\ e.at = l
                               /\ r = [stack EXCEPT ![n] = e]
  <2>1. r = [stack EXCEPT ![n] = [stack[n] EXCEPT !.at = l, !.msg = m]]
    BY <1>1, <1>5
  <2> QED
    BY <1>1, <2>1 DEF Frames
<1> QED
  BY <1>2, <1>3, <1>4, <1>5

\* When it does hold the token, which is the only one, it keeps it, hands it to its
\* callee or disposes of it.
LEMMA Moves ==
    ASSUME TypeOK, SingleWorkToken, stack # <<>>, HoldsAt(Top.fn, Top.at)
    PROVE  /\ OnStack = {Len(stack)}
           /\ \A l \in Labels : Goto(l) /\ HoldsAt(Top.fn, l) => OnStack' = OnStack
           /\ \A l \in Labels : Goto(l) /\ ~HoldsAt(Top.fn, l) => OnStack' = {}
           /\ \A l \in Labels, f \in Frames :
                  Call(f, l) /\ ~HoldsAt(Top.fn, l) /\ ~Holding(f) => OnStack' = {}
           /\ \A l \in Labels, f \in Frames :
                  Call(f, l) /\ ~HoldsAt(Top.fn, l) /\ Holding(f) =>
                      OnStack' = {Len(stack) + 1}
           /\ Return => OnStack' = {}
           /\ \A b \in BOOLEAN : ReturnMore(b) => OnStack' = {}
<1>1. OnStack = HoldersOf(stack) /\ OnStack' = HoldersOf(stack')
  BY DEF OnStack, HoldersOf
<1>2. OnStack = {Len(stack)}
  BY <1>1, TopHolds DEF SingleWorkToken
<1>3. {i \in HoldersOf(stack) : i # Len(stack)} = {}
  BY <1>1, <1>2
<1>4. ASSUME NEW l \in Labels, Goto(l)
      PROVE  OnStack' = {i \in {Len(stack)} : HoldsAt(Top.fn, l)}
  BY <1>1, <1>3, <1>4, StackSteps
<1>5. ASSUME NEW l \in Labels, NEW f \in Frames, Call(f, l)
      PROVE  OnStack' = {i \in {Len(stack)} : HoldsAt(Top.fn, l)}
                        \cup {i \in {Len(stack) + 1} : Holding(f)}
  BY <1>1, <1>3, <1>5, StackSteps
<1>6. Return \/ (\E b \in BOOLEAN : ReturnMore(b)) => OnStack' = {}
  BY <1>1, <1>3, StackSteps
<1> QED
  BY <1>2, <1>4, <1>5, <1>6

\* What the operations on the Windows queue do to the kMsgHaveWork in it.
LEMMA QueueTokens ==
    ASSUME TypeOK, \A i, j \in InQueue : i = j
    PROVE  /\ RemoveMessage =>
                  IF NextMessage = "HaveWork"
                  THEN InQueue # {} /\ InQueue' = {}
                  ELSE /\ \A i, j \in InQueue' : i = j
                       /\ InQueue' = {} <=> InQueue = {}
           /\ posted' = Append(posted, "HaveWork") /\ InQueue = {} =>
                  InQueue' = {Len(posted) + 1}
           /\ posted' = Append(posted, "Native") => InQueue' = InQueue
           /\ posted' = posted => InQueue' = InQueue
<1>1. Len(posted) \in Nat /\ DOMAIN posted = 1..Len(posted)
  BY LenProperties DEF TypeOK
<1>2. ASSUME NEW m \in {"HaveWork", "Native"}, posted' = Append(posted, m)
      PROVE  InQueue' = InQueue \cup {i \in {Len(posted) + 1} : m = "HaveWork"}
  <2>1. /\ Append(posted, m) \in Seq({"HaveWork", "Native"})
        /\ Len(Append(posted, m)) = Len(posted) + 1
        /\ Append(posted, m)[Len(posted) + 1] = m
        /\ \A i \in 1..Len(posted) : Append(posted, m)[i] = posted[i]
    BY AppendProperties DEF TypeOK
  <2>2. DOMAIN Append(posted, m) = 1..(Len(posted) + 1)
    BY <2>1, LenProperties
  <2> QED
    BY <1>1, <1>2, <2>1, <2>2 DEF InQueue
<1>3. ASSUME RemoveMessage, posted = <<>>
      PROVE  InQueue' = {} /\ InQueue = {} /\ NextMessage # "HaveWork"
  <2>1. DOMAIN posted = {} /\ posted' = posted
    BY <1>1, <1>3, EmptySeq DEF RemoveMessage
  <2> QED
    BY <1>3, <2>1 DEF InQueue, NextMessage
<1>4. ASSUME RemoveMessage, posted # <<>>
      PROVE  /\ NextMessage = "HaveWork" <=> 1 \in InQueue
             /\ \A i : i \in InQueue' <=> i \in Nat \ {0} /\ i + 1 \in InQueue
  <2>1. /\ Len(Tail(posted)) = Len(posted) - 1
        /\ \A i \in 1..Len(Tail(posted)) : Tail(posted)[i] = posted[i + 1]
        /\ Tail(posted) \in Seq({"HaveWork", "Native"})
        /\ Head(posted) = posted[1]
    BY <1>4, HeadTailProperties DEF TypeOK
  <2>2. Len(posted) > 0 /\ DOMAIN Tail(posted) = 1..(Len(posted) - 1)
    BY <1>1, <1>4, <2>1, EmptySeq, LenProperties DEF TypeOK
  <2>3. posted' = Tail(posted)
    BY <1>4 DEF RemoveMessage
  <2>4. NextMessage = "HaveWork" <=> posted[1] = "HaveWork"
    BY <1>4, <2>1 DEF NextMessage
  <2> QED
    BY <1>1, <2>1, <2>2, <2>3, <2>4 DEF InQueue
<1>5. InQueue \subseteq Nat \ {0}
  BY <1>1 DEF InQueue
<1>6. RemoveMessage =>
          IF NextMessage = "HaveWork"
          THEN InQueue # {} /\ InQueue' = {}
          ELSE /\ \A i, j \in InQueue' : i = j
               /\ InQueue' = {} <=> InQueue = {}
  <2>1. CASE posted = <<>>
    BY <1>3, <2>1
  <2>2. CASE posted # <<>>
    <3>1. ASSUME RemoveMessage, NextMessage = "HaveWork"
          PROVE  InQueue # {} /\ InQueue' = {}
      BY <1>4, <1>5, <2>2, <3>1
    <3>2. ASSUME RemoveMessage, NextMessage # "HaveWork"
          PROVE  /\ \A i, j \in InQueue' : i = j
                 /\ InQueue' = {} <=> InQueue = {}
      <4>1. \A i \in InQueue : i \in Nat \ {0, 1} /\ i - 1 \in InQueue'
        BY <1>4, <1>5, <2>2, <3>2
      <4>2. \A i \in InQueue' : i \in Nat /\ i + 1 \in InQueue
        BY <1>4, <2>2, <3>2
      <4>3. ASSUME NEW i \in InQueue', NEW j \in InQueue' PROVE i = j
        BY <4>2
      <4> QED
        BY <4>1, <4>2, <4>3
    <3> QED
      BY <3>1, <3>2
  <2> QED
    BY <2>1, <2>2
<1> QED
  BY <1>2, <1>6 DEF InQueue

\* DispatchSent() leaves the token where it is.
LEMMA SentToken ==
    ASSUME TypeOK, SingleWorkToken, stack # <<>>, Top.at \in Labels, DispatchSent(Top.at)
    PROVE  SingleWorkToken'
<1>1. HoldersOf(stack') = HoldersOf(stack)
  <2>1. Frame("Handler", "Start") \in Frames
    BY FrameType DEF Functions, Labels
  <2>2. HoldersOf(stack') = {i \in HoldersOf(stack) : i # Len(stack)}
                            \cup {i \in {Len(stack)} : HoldsAt(Top.fn, Top.at)}
                            \cup {i \in {Len(stack) + 1} : Holding(Frame("Handler", "Start"))}
    BY <2>1, StackSteps DEF DispatchSent, Frames
  <2> QED
    BY <2>2, Holders, TopHolds
<1>2. OnStack' = OnStack
  BY <1>1 DEF OnStack, HoldersOf
<1> QED
  BY <1>2 DEF DispatchSent, SingleWorkToken, InQueue, InThread, pumpVars

\* ScheduleWork(), called by an activation that holds no token, creates one or finds one.
LEMMA ScheduleToken ==
    ASSUME TypeOK, SingleWorkToken, stack # <<>>, ~HoldsAt(Top.fn, Top.at),
           NEW l \in Labels, ~HoldsAt(Top.fn, l), CallScheduleWork(l),
           UNCHANGED <<posted, pc>>
    PROVE  SingleWorkToken'
<1>1. Frame("ScheduleWork", "Post") \in Frames
  BY FrameType DEF Functions, Labels
<1>2. IF work_scheduled THEN OnStack' = OnStack
                        ELSE OnStack' = OnStack \cup {Len(stack) + 1}
  <2>1. IF work_scheduled THEN HoldersOf(stack') = HoldersOf(stack)
                          ELSE HoldersOf(stack') = HoldersOf(stack) \cup {Len(stack) + 1}
    BY <1>1, Holders, Keeps DEF CallScheduleWork
  <2> QED
    BY <2>1 DEF OnStack, HoldersOf
<1> QED
  BY <1>2 DEF CallScheduleWork, SingleWorkToken, InQueue, InThread

\* So does ScheduleNativeTimer().
LEMMA TimerToken ==
    ASSUME TypeOK, SingleWorkToken, stack # <<>>, ~HoldsAt(Top.fn, Top.at),
           NEW t, NEW l \in Labels, ~HoldsAt(Top.fn, l), CallScheduleNativeTimer(t, l),
           UNCHANGED <<posted, pc>>
    PROVE  SingleWorkToken'
<1>1. CASE CallScheduleWork(l)
  BY <1>1, ScheduleToken
<1>2. CASE Goto(l) /\ UNCHANGED work_scheduled
  <2>1. OnStack' = OnStack
    BY <1>2, Keeps DEF OnStack, HoldersOf
  <2> QED
    BY <1>2, <2>1 DEF SingleWorkToken, InQueue, InThread
<1> QED
  BY <1>1, <1>2 DEF CallScheduleNativeTimer

LEMMA TokenStep == TypeOK /\ SingleWorkToken /\ [Next]_vars => SingleWorkToken'
<1> SUFFICES ASSUME TypeOK, SingleWorkToken, [Next]_vars PROVE SingleWorkToken'
  OBVIOUS
<1> USE DEF pumpVars, timerVars, queueVars, histVars, At
<1>f. /\ Frame("DoWork", "Start") \in Frames
      /\ Frame("Handler", "Start") \in Frames
      /\ Frame("HandleTimer", "Start") \in Frames
      /\ Frame("HandleWork", "Start") \in Frames
      /\ Frame("Replace", "Peek") \in Frames
      /\ Frame("DoRunLoop", "Status") \in Frames
      /\ Frame("NativeLoop", "Peek") \in Frames
  BY FrameType DEF Functions, Labels
<1>l. {"Status", "Peek", "Dispatched", "Worked", "Idle", "Wait", "WaitPeek", "WaitNew",
       "Start", "Clear", "Reschedule", "Done", "Post", "Failed"} = Labels
  BY DEF Labels
<1>r. /\ ReturnMore(TRUE) \/ ReturnMore(FALSE) => \E b \in BOOLEAN : ReturnMore(b)
      /\ TRUE \in BOOLEAN /\ FALSE \in BOOLEAN
  OBVIOUS
<1>k. ASSUME HoldersOf(stack') = HoldersOf(stack), UNCHANGED <<work_scheduled, pc>>,
             posted' = posted \/ posted' = Append(posted, "Native")
      PROVE  SingleWorkToken'
  <2>1. OnStack' = OnStack /\ InThread' = InThread
    BY <1>k DEF OnStack, HoldersOf, InThread
  <2>2. InQueue' = InQueue
    BY <1>k, QueueTokens DEF SingleWorkToken
  <2> QED
    BY <1>k, <2>1, <2>2 DEF SingleWorkToken
<1>1. CASE LoopStatus
  <2>1. HoldersOf(stack') = HoldersOf(stack)
    <3>1. (sent > 0) \in BOOLEAN /\ "None" \in Messages
      BY DEF Messages
    <3>2. /\ stack # <<>> /\ (HoldsAt(Top.fn, "Peek") <=> HoldsAt(Top.fn, Top.at))
          /\ "Peek" \in Labels
      BY <1>1, <1>l, Holders DEF LoopStatus
    <3>3. \E b \in BOOLEAN :
              stack' = [stack EXCEPT ![Len(stack)].at = "Peek", ![Len(stack)].more = b]
      BY <1>1, <3>1 DEF LoopStatus
    <3> QED
      BY <3>1, <3>2, <3>3, TopKeeps
  <2> QED
    BY <1>1, <1>k, <2>1 DEF LoopStatus
<1>2. CASE LoopDispatched
  <2>1. HoldersOf(stack') = HoldersOf(stack)
    BY <1>2, <1>f, <1>l, Holders, Keeps DEF LoopDispatched, BeginDoWork
  <2> QED
    BY <1>2, <1>k, <2>1 DEF LoopDispatched
<1>3. CASE LoopWorked
  <2>1. HoldersOf(stack') = HoldersOf(stack)
    BY <1>3, <1>l, Holders, Keeps DEF LoopWorked
  <2> QED
    BY <1>3, <1>k, <2>1 DEF LoopWorked
<1>4. CASE LoopWait
  <2>1. HoldersOf(stack') = HoldersOf(stack)
    BY <1>4, <1>l, Holders, Keeps DEF LoopWait
  <2> QED
    BY <1>4, <1>k, <2>1 DEF LoopWait
<1>5. CASE ReplaceDispatch
  <2>1. HoldersOf(stack') = HoldersOf(stack)
    BY <1>5, <1>f, <1>l, <1>r, Holders, Keeps DEF ReplaceDispatch
  <2> QED
    BY <1>5, <1>k, <2>1 DEF ReplaceDispatch
<1>6. CASE HandleWorkDoWork
  <2>1. HoldersOf(stack') = HoldersOf(stack)
    BY <1>6, <1>f, <1>l, Holders, Keeps DEF HandleWorkDoWork, BeginDoWork
  <2> QED
    BY <1>6, <1>k, <2>1 DEF HandleWorkDoWork
<1>7. CASE HandleTimerStart
  <2>1. HoldersOf(stack') = HoldersOf(stack)
    BY <1>7, <1>f, <1>l, Holders, Keeps DEF HandleTimerStart, BeginDoWork
  <2> QED
    BY <1>7, <1>k, <2>1 DEF HandleTimerStart
<1>8. CASE HandlerDone
  <2>1. HoldersOf(stack') = HoldersOf(stack)
    BY <1>8, Holders, Keeps DEF HandlerDone
  <2> QED
    BY <1>8, <1>k, <2>1 DEF HandlerDone
<1>9. CASE NativeExit
  <2>1. HoldersOf(stack') = HoldersOf(stack)
    BY <1>9, Holders, Keeps DEF NativeExit
  <2> QED
    BY <1>9, <1>k, <2>1 DEF NativeExit
<1>10. CASE HandlerReturn
  <2>1. HoldersOf(stack') = HoldersOf(stack)
    BY <1>10, Holders, Keeps DEF HandlerReturn
  <2> QED
    BY <1>10, <1>k, <2>1 DEF HandlerReturn
<1>11. CASE EnterRun
  <2>1. HoldersOf(stack') = HoldersOf(stack)
    <3>1. CASE InAppCode
      BY <1>11, <1>f, <1>l, <3>1, Holders, Keeps DEF EnterRun, InAppCode
    <3>2. CASE stack = <<>> /\ stack' = <<Frame("DoRunLoop", "Status")>>
      <4>1. HoldersOf(stack) = {}
        BY <3>2, EmptySeq DEF HoldersOf
      <4>2. DOMAIN <<Frame("DoRunLoop", "Status")>> = {1} /\ <<Frame("DoRunLoop", "Status")>>[1] = Frame("DoRunLoop", "Status")
        OBVIOUS
      <4> QED
        BY <3>2, <4>1, <4>2, Holders DEF HoldersOf
    <3> QED
      BY <1>11, <3>1, <3>2 DEF EnterRun
  <2> QED
    BY <1>11, <1>k, <2>1 DEF EnterRun
<1>12. CASE EnterNativeLoop
  <2>1. HoldersOf(stack') = HoldersOf(stack)
    <3>1. CASE InAppCode
      BY <1>12, <1>f, <1>l, <3>1, Holders, Keeps DEF EnterNativeLoop, InAppCode
    <3>2. CASE stack = <<>> /\ stack' = <<Frame("NativeLoop", "Peek")>>
      <4>1. HoldersOf(stack) = {}
        BY <3>2, EmptySeq DEF HoldersOf
      <4>2. DOMAIN <<Frame("NativeLoop", "Peek")>> = {1} /\ <<Frame("NativeLoop", "Peek")>>[1] = Frame("NativeLoop", "Peek")
        OBVIOUS
      <4> QED
        BY <3>2, <4>1, <4>2, Holders DEF HoldersOf
    <3> QED
      BY <1>12, <3>1, <3>2 DEF EnterNativeLoop
  <2> QED
    BY <1>12, <1>k, <2>1 DEF EnterNativeLoop
<1>13. CASE AppQuit
  <2> DEFINE k == RunState
  <2>1. stack' = [stack EXCEPT ![k].quit = TRUE]
    BY <1>13 DEF AppQuit
  <2> HIDE DEF k
  <2>t. stack \in Seq(Frames)
    BY DEF TypeOK
  <2> DEFINE e == [stack[k] EXCEPT !.quit = TRUE]
  <2>2. stack' = [stack EXCEPT ![k] = e]
    BY <2>1
  <2>3. k \in DOMAIN stack => e \in Frames /\ (Holding(e) <=> Holding(stack[k]))
    <3>1. k \in DOMAIN stack => stack[k] \in Frames
      BY LenProperties, ElementOfSeq DEF TypeOK
    <3> QED
      BY <3>1 DEF Frames, Holding
  <2> HIDE DEF e
  <2>4. HoldersOf(stack') = HoldersOf(stack)
    BY <2>t, <2>2, <2>3, SameHolder
  <2> QED
    BY <1>13, <1>k, <2>4 DEF AppQuit
<1>14. CASE PostNative
  BY <1>14, <1>k DEF PostNative
<1>15. CASE PostQuit
  BY <1>15, <1>k DEF PostQuit
<1>16. CASE SendNative
  BY <1>16, <1>k DEF SendNative
<1>17. CASE TimerElapses
  BY <1>17, <1>k DEF TimerElapses
<1>18. CASE Tick
  BY <1>18, <1>k DEF Tick
<1>19. CASE LoopIdle
  <2>1. CASE CallScheduleWork("Wait")
    BY <1>19, <1>l, <2>1, Holders, ScheduleToken DEF LoopIdle
  <2>2. CASE UNCHANGED work_scheduled /\ (Goto("Wait") \/ Goto("Status") \/ Return)
    <3>1. HoldersOf(stack') = HoldersOf(stack)
      BY <1>19, <1>l, <2>2, Holders, Keeps DEF LoopIdle
    <3> QED
      BY <1>19, <1>k, <2>2, <3>1 DEF LoopIdle
  <2> QED
    BY <1>19, <2>1, <2>2 DEF LoopIdle
<1>20. CASE ReplaceReschedule
  BY <1>20, <1>l, Holders, ScheduleToken DEF ReplaceReschedule
<1>21. CASE AppScheduleWork
  BY <1>21, <1>l, Holders, ScheduleToken DEF AppScheduleWork, InAppCode
<1>22. CASE HandlerWorked
  <2>1. /\ stack # <<>> /\ ~HoldsAt(Top.fn, Top.at) /\ ~HoldsAt(Top.fn, "Done")
        /\ "Done" \in Labels /\ UNCHANGED <<posted, pc>>
    BY <1>22, <1>l, Holders DEF HandlerWorked
  <2>2. CASE CallScheduleWork("Done")
    BY <2>1, <2>2, ScheduleToken
  <2>3. CASE CallScheduleNativeTimer(Top.info, "Done")
    BY <2>1, <2>3, TimerToken
  <2> QED
    BY <1>22, <2>2, <2>3 DEF HandlerWorked
<1>23. CASE LoopPeek
  <2>1. stack # <<>> /\ Top.at = "Peek" /\ Top.at \in Labels /\ ~HoldsAt(Top.fn, "Peek")
            /\ ~HoldsAt(Top.fn, "Dispatched")
    BY <1>23, <1>l, Holders DEF LoopPeek
  <2>2. CASE DispatchSent("Peek")
    BY <2>1, <2>2, SentToken
  <2>3. CASE ~DispatchSent("Peek")
    <3> DEFINE plausible(b) == [stack EXCEPT ![Len(stack)].at = "Dispatched",
                                             ![Len(stack)].more = @ \/ b]
    <3>1. \A b \in BOOLEAN : /\ plausible(b) \in Seq(Frames)
                             /\ Len(plausible(b)) = Len(stack)
                             /\ HoldersOf(plausible(b)) = HoldersOf(stack)
      <4>1. "None" \in Messages /\ "Dispatched" \in Labels
        BY DEF Messages, Labels
      <4>2. ASSUME NEW b \in BOOLEAN, NEW r, r = plausible(b)
            PROVE  /\ r \in Seq(Frames)
                   /\ Len(r) = Len(stack)
                   /\ HoldersOf(r) = HoldersOf(stack)
        BY <2>1, <4>1, <4>2, TopKeeps
      <4> HIDE DEF plausible
      <4> QED
        BY <4>2
    <3>2. \A b \in BOOLEAN, f \in Frames :
              HoldersOf(Append(plausible(b), f)) =
                  HoldersOf(stack) \cup {i \in {Len(stack) + 1} : Holding(f)}
      BY <3>1, PushStack
    <3>3. RemoveMessage /\ UNCHANGED <<work_scheduled, pc>>
      BY <1>23, <2>3 DEF LoopPeek
    <3>4. IF NextMessage = "HaveWork"
          THEN OnStack' = OnStack \cup {Len(stack) + 1}
          ELSE OnStack' = OnStack
      <4>0. OnStack = HoldersOf(stack) /\ OnStack' = HoldersOf(stack')
        BY DEF OnStack, HoldersOf
      <4>1. CASE NextMessage = "HaveWork"
        <5>1. \E b \in BOOLEAN : stack' = Append(plausible(b), Frame("Replace", "Peek"))
          BY <1>23, <1>r, <2>3, <4>1 DEF LoopPeek, TypeOK
        <5> QED
          <6>1. Holding(Frame("Replace", "Peek"))
            BY Holders
          <6>2. \A b \in BOOLEAN : HoldersOf(Append(plausible(b), Frame("Replace", "Peek")))
                                     = HoldersOf(stack) \cup {Len(stack) + 1}
            BY <1>f, <3>2, <6>1
          <6> HIDE DEF plausible
          <6> QED
            BY <4>0, <4>1, <5>1, <6>2
      <4>2. CASE NextMessage = "Native"
        <5>1. \E b \in BOOLEAN : stack' = Append(plausible(b), Frame("Handler", "Start"))
          BY <1>23, <2>3, <4>2 DEF LoopPeek
        <5> QED
          BY <1>f, <3>2, <4>0, <4>2, <5>1, Holders
      <4>3. CASE NextMessage = "Timer"
        <5>1. stack' = Append(plausible(TRUE), Frame("HandleTimer", "Start"))
          BY <1>23, <2>3, <4>3 DEF LoopPeek
        <5> QED
          BY <1>f, <3>2, <4>0, <4>3, <5>1, Holders
      <4>4. CASE NextMessage \notin {"HaveWork", "Native", "Timer"}
        <5>1. \E b \in BOOLEAN : stack' = plausible(b)
          BY <1>23, <1>r, <2>3, <4>4 DEF LoopPeek, TypeOK
        <5> QED
          BY <3>1, <4>0, <4>4, <5>1
      <4> QED
        BY <4>1, <4>2, <4>3, <4>4
    <3> QED
      BY <3>3, <3>4, QueueTokens DEF SingleWorkToken, InThread
  <2> QED
    BY <2>2, <2>3
<1>24. CASE LoopWaitPeek
  <2>1. stack # <<>> /\ Top.at = "WaitPeek" /\ Top.at \in Labels
    BY <1>24, <1>l DEF LoopWaitPeek
  <2>2. CASE DispatchSent("WaitPeek")
    BY <2>1, <2>2, SentToken
  <2>3. CASE ~DispatchSent("WaitPeek")
    <3>1. HoldersOf(stack') = HoldersOf(stack)
      BY <1>24, <1>l, <2>3, Holders, Keeps DEF LoopWaitPeek
    <3> QED
      BY <1>24, <1>k, <2>3, <3>1 DEF LoopWaitPeek
  <2> QED
    BY <2>2, <2>3
<1>25. CASE ReplacePeek
  <2>1. stack # <<>> /\ Top.at = "Peek" /\ Top.at \in Labels /\ HoldsAt(Top.fn, "Peek")
            /\ HoldsAt(Top.fn, "Clear")
    BY <1>25, <1>l, Holders DEF ReplacePeek
  <2>2. CASE DispatchSent("Peek")
    BY <2>1, <2>2, SentToken
  <2>3. CASE ~DispatchSent("Peek")
    <3>0. /\ NextMessage \in Messages
          /\ stack' = [stack EXCEPT ![Len(stack)].at = "Clear",
                                   ![Len(stack)].msg = NextMessage]
          /\ RemoveMessage /\ UNCHANGED <<work_scheduled, pc>>
      BY <1>25, <2>3, QueueSteps DEF ReplacePeek
    <3>1. HoldersOf(stack') = HoldersOf(stack)
      <4>1. "Clear" \in Labels /\ FALSE \in BOOLEAN
        BY <1>l
      <4> QED
        BY <2>1, <3>0, <4>1, TopKeeps
    <3>2. OnStack' = OnStack /\ OnStack # {}
      BY <2>1, <3>1, TopHolds DEF OnStack, HoldersOf
    <3> QED
      BY <3>0, <3>2, QueueTokens DEF SingleWorkToken, InThread
  <2> QED
    BY <2>2, <2>3
<1>26. CASE NativeGet
  <2>1. stack # <<>> /\ Top.at = "Peek" /\ Top.at \in Labels /\ ~HoldsAt(Top.fn, "Peek")
    BY <1>26, <1>l, Holders DEF NativeGet
  <2>2. CASE DispatchSent("Peek")
    BY <2>1, <2>2, SentToken
  <2>3. CASE ~DispatchSent("Peek")
    <3>1. RemoveMessage /\ UNCHANGED <<work_scheduled, pc>>
      BY <1>26, <2>3 DEF NativeGet
    <3>2. IF NextMessage = "HaveWork"
          THEN OnStack' = OnStack \cup {Len(stack) + 1}
          ELSE OnStack' = OnStack
      BY <1>26, <1>f, <1>l, <2>1, <2>3, Holders, Keeps DEF NativeGet, OnStack, HoldersOf
    <3> QED
      BY <3>1, <3>2, QueueTokens DEF SingleWorkToken, InThread
  <2> QED
    BY <2>2, <2>3
<1>27. CASE ScheduleWorkPost
  <2>1. stack # <<>> /\ HoldsAt(Top.fn, Top.at) /\ OnStack = {Len(stack)}
    BY <1>27, Holders, Moves DEF ScheduleWorkPost
  <2>2. CASE posted' = Append(posted, "HaveWork") /\ Return
    <3>1. OnStack' = {}
      BY <2>1, <2>2, Moves, Holders
    <3> QED
      BY <1>27, <2>1, <2>2, <3>1, QueueTokens DEF ScheduleWorkPost, SingleWorkToken,
     InThread
  <2>3. CASE UNCHANGED posted /\ Goto("Failed")
    <3>1. OnStack' = OnStack
      BY <1>27, <1>l, <2>1, <2>3, Holders, Moves DEF ScheduleWorkPost
    <3> QED
      BY <1>27, <1>k, <2>3, <3>1 DEF ScheduleWorkPost, OnStack, HoldersOf
  <2> QED
    BY <1>27, <2>2, <2>3 DEF ScheduleWorkPost
<1>28. CASE ScheduleWorkFailed
  <2>1. stack # <<>> /\ HoldsAt(Top.fn, Top.at) /\ OnStack = {Len(stack)}
    BY <1>28, Holders, Moves DEF ScheduleWorkFailed
  <2>2. OnStack' = {}
    BY <1>28, <2>1, Moves, Holders DEF ScheduleWorkFailed
  <2> QED
    BY <1>28, <2>1, <2>2 DEF ScheduleWorkFailed, SingleWorkToken, InThread, InQueue
<1>29. CASE ReplaceClear
  <2>1. stack # <<>> /\ HoldsAt(Top.fn, Top.at) /\ OnStack = {Len(stack)}
    BY <1>29, Holders, Moves DEF ReplaceClear
  <2>2. /\ ~HoldsAt(Top.fn, "Done") /\ ~HoldsAt(Top.fn, "Reschedule")
        /\ ~Holding(Frame("HandleTimer", "Start"))
    BY <1>29, Holders DEF ReplaceClear
  <2>3. OnStack' = {}
    <3>1. CASE Top.msg = "None"
      BY <1>29, <1>r, <2>1, <3>1, Moves DEF ReplaceClear
    <3>2. CASE Top.msg = "Quit"
      BY <1>29, <1>r, <2>1, <3>2, Moves DEF ReplaceClear
    <3>3. CASE Top.msg = "Timer"
      <4>1. Call(Frame("HandleTimer", "Start"), "Done")
        BY <1>29, <3>3 DEF ReplaceClear
      <4> QED
        BY <1>f, <1>l, <2>1, <2>2, <4>1, Moves
    <3>4. CASE Top.msg \notin {"None", "Quit", "Timer"}
      <4>1. Goto("Reschedule")
        BY <1>29, <3>4 DEF ReplaceClear
      <4> QED
        BY <1>l, <2>1, <2>2, <4>1, Moves
    <3> QED
      BY <3>1, <3>2, <3>3, <3>4
  <2> QED
    BY <1>29, <2>1, <2>3 DEF ReplaceClear, SingleWorkToken, InThread, InQueue
<1>30. CASE HandleWorkStart
  <2>1. stack # <<>> /\ HoldsAt(Top.fn, Top.at) /\ OnStack = {Len(stack)}
    BY <1>30, Holders, Moves DEF HandleWorkStart
  <2>3. CASE work_scheduled' = FALSE /\ Return
    <3>1. OnStack' = {}
      BY <2>1, <2>3, Moves
    <3> QED
      BY <1>30, <2>1, <2>3, <3>1 DEF HandleWorkStart, SingleWorkToken, InThread, InQueue
  <2>4. CASE UNCHANGED work_scheduled /\ Call(Frame("Replace", "Peek"), "Dispatched")
    <3>1. OnStack' = {Len(stack) + 1}
      <4>1. Holding(Frame("Replace", "Peek")) /\ ~HoldsAt(Top.fn, "Dispatched")
        BY <1>30, Holders DEF HandleWorkStart
      <4> QED
        BY <1>f, <1>l, <2>1, <2>4, <4>1, Moves
    <3> QED
      BY <1>30, <2>1, <2>4, <3>1 DEF HandleWorkStart, SingleWorkToken, InThread, InQueue
  <2> QED
    BY <1>30, <2>3, <2>4 DEF HandleWorkStart
<1>n. ASSUME NEW n \in RunTimes, DoWorkReturn(n) PROVE SingleWorkToken'
  <2>1. HoldersOf(stack') = HoldersOf(stack)
    BY <1>n, <1>l, Holders, Keeps DEF DoWorkReturn
  <2> QED
    BY <1>n, <1>k, <2>1 DEF DoWorkReturn
<1>d. ASSUME NEW t \in RunTimes \ {Immediate, Never}, AppScheduleDelayedWork(t)
      PROVE  SingleWorkToken'
  <2>1. /\ stack # <<>> /\ ~HoldsAt(Top.fn, Top.at) /\ ~HoldsAt(Top.fn, "Start")
        /\ "Start" \in Labels /\ UNCHANGED <<posted, pc>>
    BY <1>d, <1>l, Holders DEF AppScheduleDelayedWork
  <2>2. CASE CallScheduleNativeTimer(t, "Start")
    BY <2>1, <2>2, TimerToken
  <2>3. CASE UNCHANGED <<stack, work_scheduled>>
    BY <1>k, <2>1, <2>3
  <2> QED
    BY <1>d, <2>2, <2>3 DEF AppScheduleDelayedWork
<1>w. ASSUME NEW t \in Threads, ThreadScheduleWork(t) PROVE SingleWorkToken'
  <2>1. OnStack' = OnStack /\ InQueue' = InQueue
    BY <1>w DEF ThreadScheduleWork, OnStack, InQueue
  <2>2. InThread' = IF work_scheduled THEN InThread ELSE InThread \cup {t}
    BY <1>w DEF ThreadScheduleWork, InThread, TypeOK
  <2> QED
    BY <1>w, <2>1, <2>2 DEF ThreadScheduleWork, SingleWorkToken
<1>x. ASSUME NEW t \in Threads, ThreadPost(t) PROVE SingleWorkToken'
  <2>1. OnStack' = OnStack /\ t \in InThread /\ UNCHANGED work_scheduled
    BY <1>x DEF ThreadPost, OnStack, InThread
  <2>2. CASE posted' = Append(posted, "HaveWork") /\ pc' = [pc EXCEPT ![t] = "Idle"]
    <3>1. InThread' = InThread \ {t}
      BY <2>2 DEF InThread, TypeOK
    <3>2. InThread' = {} /\ InQueue = {} /\ InQueue' # {} /\ \A i, j \in InQueue' : i = j
      BY <2>1, <2>2, <3>1, QueueTokens DEF SingleWorkToken
    <3> QED
      BY <2>1, <3>2 DEF SingleWorkToken
  <2>3. CASE UNCHANGED posted /\ pc' = [pc EXCEPT ![t] = "Failed"]
    <3>1. InThread' = InThread /\ InQueue' = InQueue
      BY <2>1, <2>3 DEF InThread, InQueue, TypeOK
    <3> QED
      BY <2>1, <3>1 DEF SingleWorkToken
  <2> QED
    BY <1>x, <2>2, <2>3 DEF ThreadPost
<1>y. ASSUME NEW t \in Threads, ThreadPostFailed(t) PROVE SingleWorkToken'
  <2>1. OnStack' = OnStack /\ InQueue' = InQueue /\ t \in InThread
    BY <1>y DEF ThreadPostFailed, OnStack, InQueue, InThread
  <2>2. InThread' = InThread \ {t}
    BY <1>y DEF ThreadPostFailed, InThread, TypeOK
  <2> QED
    BY <1>y, <2>1, <2>2 DEF ThreadPostFailed, SingleWorkToken
<1>u. CASE UNCHANGED vars
  BY <1>u, <1>k DEF vars
<1> QED
  BY <1>1, <1>2, <1>3, <1>4, <1>5, <1>6, <1>7, <1>8, <1>9, <1>10, <1>11, <1>12,
     <1>13, <1>14, <1>15, <1>16, <1>17, <1>18, <1>19, <1>20, <1>21, <1>22, <1>23,
     <1>24, <1>25, <1>26, <1>27, <1>28, <1>29, <1>30, <1>n, <1>d, <1>w, <1>x, <1>y, <1>u
  DEF Next, PumpStep, AppReturn, AppCall, ThreadStep, Environment

\* The flag is set exactly while one kMsgHaveWork is owed, for any number of threads.
THEOREM TokenCorrect == Spec => []SingleWorkToken
<1>1. Init => SingleWorkToken
  <2> SUFFICES ASSUME Init PROVE SingleWorkToken
    OBVIOUS
  <2>1. InQueue = {} /\ OnStack = {} /\ InThread = {}
    BY EmptySeq DEF Init, InQueue, OnStack, InThread
  <2> QED
    BY <2>1 DEF Init, SingleWorkToken
<1> QED
  BY <1>1, TokenStep, TypeCorrect, PTL DEF Spec

-----------------------------------------------------------------------------
(***************************************************************************)
(* The DCHECKs of ProcessPumpReplacementMessage().  The flag is set because *)
(* the activation holds the token; its message is no kMsgHaveWork because  *)
(* the queue had none while the activation, holding the token, peeked.     *)
(***************************************************************************)
Fine(f) == f.fn = "Replace" /\ f.at = "Clear" => f.msg # "HaveWork"
AllFine(s) == \A i \in DOMAIN s : Fine(s[i])
StackFine == AllFine(stack)

LEMMA FineUpdate ==
    ASSUME NEW s \in Seq(Frames), AllFine(s), NEW k, NEW e, NEW r, r = [s EXCEPT ![k] = e],
           k \in DOMAIN s => e \in Frames /\ Fine(e)
    PROVE  r \in Seq(Frames) /\ Len(r) = Len(s) /\ AllFine(r)
<1>1. DOMAIN s = 1..Len(s)
  BY LenProperties
<1>2. /\ r \in Seq(Frames) /\ Len(r) = Len(s) /\ DOMAIN r = DOMAIN s
      /\ \A i \in DOMAIN s : r[i] = IF i = k THEN e ELSE s[i]
  BY <1>1, Update
<1> QED
  BY <1>2 DEF AllFine

LEMMA FinePush ==
    ASSUME NEW s \in Seq(Frames), AllFine(s), NEW f \in Frames, Fine(f)
    PROVE  AllFine(Append(s, f))
<1> DEFINE r == Append(s, f)
<1>1. /\ r \in Seq(Frames) /\ Len(r) = Len(s) + 1 /\ r[Len(s) + 1] = f
      /\ \A i \in 1..Len(s) : r[i] = s[i]
  BY AppendProperties
<1>2. Len(s) \in Nat /\ DOMAIN s = 1..Len(s) /\ DOMAIN r = 1..Len(r)
  BY <1>1, LenProperties
<1> QED
  BY <1>1, <1>2 DEF AllFine

LEMMA FinePop ==
    ASSUME NEW s \in Seq(Frames), s # <<>>, AllFine(s)
    PROVE  SubSeq(s, 1, Len(s) - 1) \in Seq(Frames) /\ AllFine(SubSeq(s, 1, Len(s) - 1))
<1> DEFINE n == Len(s)
           r == SubSeq(s, 1, n - 1)
<1>1. n \in Nat \ {0} /\ DOMAIN s = 1..n /\ \A i \in 1..n : s[i] \in Frames
  BY LenProperties, EmptySeq, ElementOfSeq
<1>2. /\ r \in Seq(Frames)
      /\ Len(r) = IF 1 <= n - 1 THEN (n - 1) - 1 + 1 ELSE 0
      /\ \A i \in 1..((n - 1) - 1 + 1) : r[i] = s[1 + i - 1]
  <2>1. 1 \in Int /\ n - 1 \in Int /\ \A i \in 1..(n - 1) : s[i] \in Frames
    BY <1>1
  <2> HIDE DEF n
  <2> QED
    BY <2>1, SubSeqProperties
<1>3. DOMAIN r = 1..(n - 1) /\ \A i \in 1..(n - 1) : r[i] = s[i]
  BY <1>1, <1>2, LenProperties
<1> QED
  BY <1>1, <1>2, <1>3 DEF AllFine

LEMMA FineTop ==
    ASSUME NEW s \in Seq(Frames), s # <<>>, AllFine(s), NEW l \in Labels, l # "Clear", NEW r,
           \/ r = [s EXCEPT ![Len(s)].at = l]
           \/ \E b \in BOOLEAN : r = [s EXCEPT ![Len(s)].at = l, ![Len(s)].more = b]
           \/ \E b \in BOOLEAN : r = [s EXCEPT ![Len(s)].at = l, ![Len(s)].more = @ \/ b]
    PROVE  r \in Seq(Frames) /\ AllFine(r)
<1> DEFINE n == Len(s)
<1>1. n \in DOMAIN s /\ s[n] \in Frames
  BY LenProperties, EmptySeq, ElementOfSeq
<1>2. ASSUME NEW e \in Frames, e.at = l, r = [s EXCEPT ![n] = e]
      PROVE  r \in Seq(Frames) /\ AllFine(r)
  <2>1. Fine(e)
    BY <1>2 DEF Fine
  <2> HIDE DEF n
  <2> QED
    BY <1>2, <2>1, FineUpdate
<1>3. CASE r = [s EXCEPT ![n].at = l]
  <2>1. r = [s EXCEPT ![n] = [s[n] EXCEPT !.at = l]]
    BY <1>1, <1>3
  <2>2. \E e \in Frames : e.at = l /\ r = [s EXCEPT ![n] = e]
    BY <1>1, <2>1 DEF Frames
  <2> QED
    BY <1>2, <2>2
<1>4. ASSUME NEW b \in BOOLEAN, r = [s EXCEPT ![n].at = l, ![n].more = b]
      PROVE  \E e \in Frames : e.at = l /\ r = [s EXCEPT ![n] = e]
  <2>1. r = [s EXCEPT ![n] = [s[n] EXCEPT !.at = l, !.more = b]]
    BY <1>1, <1>4
  <2> QED
    BY <1>1, <2>1 DEF Frames
<1>5. ASSUME NEW b \in BOOLEAN, r = [s EXCEPT ![n].at = l, ![n].more = @ \/ b]
      PROVE  \E e \in Frames : e.at = l /\ r = [s EXCEPT ![n] = e]
  <2>1. r = [s EXCEPT ![n] = [s[n] EXCEPT !.at = l, !.more = @ \/ b]]
    BY <1>1, <1>5
  <2> QED
    BY <1>1, <2>1 DEF Frames
<1> QED
  BY <1>2, <1>3, <1>4, <1>5

LEMMA FineReturn ==
    ASSUME NEW s \in Seq(Frames), s # <<>>, AllFine(s), NEW r,
           LET p == SubSeq(s, 1, Len(s) - 1)
               k == Len(s) - 1
           IN  \/ r = p
               \/ \E b \in BOOLEAN : r = [p EXCEPT ![k].more = @ \/ b]
               \/ \E n \in RunTimes : r = [p EXCEPT ![k].info = n]
    PROVE  AllFine(r)
<1> DEFINE p == SubSeq(s, 1, Len(s) - 1)
           k == Len(s) - 1
<1>1. p \in Seq(Frames) /\ AllFine(p)
  BY FinePop
<1>2. \A i \in DOMAIN p : p[i] \in Frames /\ Fine(p[i])
  <2>1. DOMAIN p = 1..Len(p) /\ \A i \in 1..Len(p) : p[i] \in Frames
    BY <1>1, LenProperties, ElementOfSeq
  <2> QED
    BY <1>1, <2>1 DEF AllFine
<1> HIDE DEF p, k
<1>3. ASSUME NEW e, r = [p EXCEPT ![k] = e], k \in DOMAIN p => e \in Frames /\ Fine(e)
      PROVE  AllFine(r)
  BY <1>1, <1>3, FineUpdate
<1>4. ASSUME NEW b \in BOOLEAN, r = [p EXCEPT ![k].more = @ \/ b]
      PROVE  AllFine(r)
  <2> DEFINE e == [p[k] EXCEPT !.more = @ \/ b]
  <2>1. r = [p EXCEPT ![k] = e]
    BY <1>4
  <2>2. k \in DOMAIN p => e \in Frames /\ Fine(e)
    BY <1>2 DEF Frames, Fine
  <2> HIDE DEF e
  <2> QED
    BY <1>3, <2>1, <2>2
<1>5. ASSUME NEW n \in RunTimes, r = [p EXCEPT ![k].info = n]
      PROVE  AllFine(r)
  <2> DEFINE e == [p[k] EXCEPT !.info = n]
  <2>1. r = [p EXCEPT ![k] = e]
    BY <1>5
  <2>2. k \in DOMAIN p => e \in Frames /\ Fine(e)
    BY <1>2 DEF Frames, Fine
  <2> HIDE DEF e
  <2> QED
    BY <1>3, <2>1, <2>2
<1> QED
  BY <1>1, <1>4, <1>5 DEF p, k

LEMMA FineFrame ==
    /\ \A fn, l : l # "Clear" => Fine(Frame(fn, l))
    /\ {"Status", "Peek", "Dispatched", "Worked", "Idle", "Wait", "WaitPeek", "WaitNew",
        "Start", "Reschedule", "Done", "Post", "Failed"} = Labels \ {"Clear"}
    /\ {Frame("DoWork", "Start"), Frame("Handler", "Start"), Frame("HandleTimer", "Start"),
        Frame("HandleWork", "Start"), Frame("Replace", "Peek"), Frame("ScheduleWork", "Post"),
        Frame("DoRunLoop", "Status"), Frame("NativeLoop", "Peek")}
           \subseteq {f \in Frames : Fine(f)}
<1>1. \A fn, l : l # "Clear" => Fine(Frame(fn, l))
  BY DEF Fine, Frame
<1>2. {"Status", "Peek", "Dispatched", "Worked", "Idle", "Wait", "WaitPeek", "WaitNew",
        "Start", "Reschedule", "Done", "Post", "Failed"} = Labels \ {"Clear"}
  BY DEF Labels
<1>3. \A f \in {Frame("DoWork", "Start"), Frame("Handler", "Start"),
                Frame("HandleTimer", "Start"), Frame("HandleWork", "Start"),
                Frame("Replace", "Peek"), Frame("ScheduleWork", "Post"),
                Frame("DoRunLoop", "Status"), Frame("NativeLoop", "Peek")} :
          f \in Frames /\ Fine(f)
  BY <1>1, FrameType DEF Functions, Labels
<1> QED
  BY <1>1, <1>2, <1>3

LEMMA FineSteps ==
    ASSUME TypeOK, stack # <<>>, AllFine(stack)
    PROVE  /\ \A l \in Labels \ {"Clear"} : Goto(l) => AllFine(stack')
           /\ \A l \in Labels \ {"Clear"}, f \in Frames :
                  Call(f, l) /\ Fine(f) => AllFine(stack')
           /\ \A l \in Labels \ {"Clear"} : CallScheduleWork(l) => AllFine(stack')
           /\ \A t : \A l \in Labels \ {"Clear"} :
                  CallScheduleNativeTimer(t, l) => AllFine(stack')
           /\ \A l \in Labels \ {"Clear"} : DispatchSent(l) => AllFine(stack')
           /\ Return => AllFine(stack')
           /\ \A b \in BOOLEAN : ReturnMore(b) => AllFine(stack')
           /\ \A n \in RunTimes : ReturnInfo(n) => AllFine(stack')
<1>0. stack \in Seq(Frames)
  BY DEF TypeOK
<1>1. ASSUME NEW l \in Labels \ {"Clear"}, Goto(l) PROVE AllFine(stack')
  BY <1>0, <1>1, FineTop DEF Goto
<1>2. ASSUME NEW l \in Labels \ {"Clear"}, NEW f \in Frames, Call(f, l), Fine(f)
      PROVE  AllFine(stack')
  <2> DEFINE g == [stack EXCEPT ![Len(stack)].at = l]
  <2>1. g \in Seq(Frames) /\ AllFine(g)
    BY <1>0, FineTop
  <2>2. stack' = Append(g, f)
    BY <1>2 DEF Call
  <2> HIDE DEF g
  <2> QED
    BY <1>2, <2>1, <2>2, FinePush
<1>3. ASSUME NEW l \in Labels \ {"Clear"}, CallScheduleWork(l) PROVE AllFine(stack')
  BY <1>1, <1>2, <1>3, FineFrame DEF CallScheduleWork
<1>4. ASSUME NEW l \in Labels \ {"Clear"}, NEW t, CallScheduleNativeTimer(t, l)
      PROVE  AllFine(stack')
  BY <1>1, <1>3, <1>4 DEF CallScheduleNativeTimer
<1>5. ASSUME NEW l \in Labels \ {"Clear"}, DispatchSent(l) PROVE AllFine(stack')
  BY <1>2, <1>5, FineFrame DEF DispatchSent
<1>6. ASSUME Return \/ (\E b \in BOOLEAN : ReturnMore(b)) \/ (\E n \in RunTimes : ReturnInfo(n))
      PROVE  AllFine(stack')
  BY <1>0, <1>6, FineReturn DEF Return, ReturnMore, ReturnInfo, Popped
<1> QED
  BY <1>1, <1>2, <1>3, <1>4, <1>5, <1>6

LEMMA FineStep == TypeOK /\ SingleWorkToken /\ StackFine /\ [Next]_vars => StackFine'
<1> SUFFICES ASSUME TypeOK, SingleWorkToken, AllFine(stack), [Next]_vars
             PROVE  AllFine(stack')
  BY DEF StackFine
<1> USE DEF At
<1>l. /\ {"Status", "Peek", "Dispatched", "Worked", "Idle", "Wait", "WaitPeek",
          "WaitNew", "Start", "Reschedule", "Done", "Post", "Failed"} = Labels \ {"Clear"}
      /\ TRUE \in BOOLEAN /\ FALSE \in BOOLEAN
  BY FineFrame
<1>f. /\ Frame("DoWork", "Start") \in Frames /\ Fine(Frame("DoWork", "Start"))
      /\ Frame("Handler", "Start") \in Frames /\ Fine(Frame("Handler", "Start"))
      /\ Frame("HandleTimer", "Start") \in Frames /\ Fine(Frame("HandleTimer", "Start"))
      /\ Frame("HandleWork", "Start") \in Frames /\ Fine(Frame("HandleWork", "Start"))
      /\ Frame("Replace", "Peek") \in Frames /\ Fine(Frame("Replace", "Peek"))
      /\ Frame("DoRunLoop", "Status") \in Frames /\ Fine(Frame("DoRunLoop", "Status"))
      /\ Frame("NativeLoop", "Peek") \in Frames /\ Fine(Frame("NativeLoop", "Peek"))
  BY FineFrame
<1>s. stack' = stack => AllFine(stack')
  OBVIOUS
<1>1. CASE ScheduleWorkPost
  BY <1>1, <1>f, <1>l, FineSteps DEF ScheduleWorkPost
<1>2. CASE ScheduleWorkFailed
  BY <1>2, <1>f, <1>l, FineSteps DEF ScheduleWorkFailed
<1>3. CASE LoopStatus
  <2>1. \E b \in BOOLEAN :
            stack' = [stack EXCEPT ![Len(stack)].at = "Peek", ![Len(stack)].more = b]
    <3>1. (sent > 0) \in BOOLEAN
      OBVIOUS
    <3> QED
      BY <1>3, <3>1 DEF LoopStatus
  <2>2. stack # <<>> /\ stack \in Seq(Frames) /\ "Peek" \in Labels \ {"Clear"}
    BY <1>3, <1>l DEF LoopStatus, TypeOK
  <2> QED
    BY <2>1, <2>2, FineTop
<1>4. CASE LoopPeek
  <2>1. stack # <<>> /\ stack \in Seq(Frames) /\ "Dispatched" \in Labels \ {"Clear"}
    BY <1>4, <1>l DEF LoopPeek, TypeOK
  <2>2. CASE DispatchSent("Peek")
    BY <1>4, <1>l, <2>1, <2>2, FineSteps
  <2>3. CASE ~DispatchSent("Peek")
    <3> DEFINE plausible(b) == [stack EXCEPT ![Len(stack)].at = "Dispatched",
                                             ![Len(stack)].more = @ \/ b]
    <3>1. ASSUME NEW b \in BOOLEAN, NEW r, r = plausible(b)
          PROVE  r \in Seq(Frames) /\ AllFine(r)
      BY <2>1, <3>1, FineTop
    <3>2. \/ \E b \in BOOLEAN : stack' = plausible(b)
          \/ \E b \in BOOLEAN, f \in Frames : Fine(f) /\ stack' = Append(plausible(b), f)
      <4>1. CASE NextMessage = "HaveWork"
        BY <1>4, <1>f, <2>3, <4>1 DEF LoopPeek, TypeOK
      <4>2. CASE NextMessage = "Native"
        BY <1>4, <1>f, <2>3, <4>2 DEF LoopPeek, TypeOK
      <4>3. CASE NextMessage = "Timer"
        BY <1>4, <1>f, <2>3, <4>3 DEF LoopPeek, TypeOK
      <4>4. CASE NextMessage \notin {"HaveWork", "Native", "Timer"}
        BY <1>4, <2>3, <4>4 DEF LoopPeek, TypeOK
      <4> QED
        BY <4>1, <4>2, <4>3, <4>4
    <3> HIDE DEF plausible
    <3> QED
      BY <3>1, <3>2, FinePush
  <2> QED
    BY <2>2, <2>3
<1>5. CASE LoopDispatched
  BY <1>5, <1>f, <1>l, FineSteps DEF LoopDispatched, BeginDoWork
<1>6. CASE LoopWorked
  BY <1>6, <1>f, <1>l, FineSteps DEF LoopWorked
<1>7. CASE LoopIdle
  BY <1>7, <1>f, <1>l, FineSteps DEF LoopIdle
<1>8. CASE LoopWait
  BY <1>8, <1>f, <1>l, FineSteps DEF LoopWait
<1>9. CASE LoopWaitPeek
  BY <1>9, <1>f, <1>l, FineSteps DEF LoopWaitPeek
<1>10. CASE ReplacePeek
  <2>1. stack # <<>> /\ stack \in Seq(Frames) /\ HoldsAt(Top.fn, Top.at)
    BY <1>10, Holders DEF ReplacePeek, TypeOK
  <2>2. CASE DispatchSent("Peek")
    BY <1>10, <1>l, <2>1, <2>2, FineSteps
  <2>3. CASE ~DispatchSent("Peek")
    <3> DEFINE n == Len(stack)
               e == [stack[n] EXCEPT !.at = "Clear", !.msg = NextMessage]
    <3>1. RemoveMessage /\ NextMessage \in Messages
      BY <1>10, <2>3, QueueSteps DEF ReplacePeek
    <3>2. NextMessage # "HaveWork"
      BY <2>1, <3>1, Moves, QueueTokens DEF SingleWorkToken
    <3>3. n \in DOMAIN stack /\ stack[n] \in Frames
      BY <2>1, LenProperties, EmptySeq, ElementOfSeq
    <3>4. e \in Frames /\ Fine(e)
      BY <3>1, <3>2, <3>3 DEF Frames, Labels, Fine
    <3>5. stack' = [stack EXCEPT ![n] = e]
      BY <1>10, <2>3, <3>3 DEF ReplacePeek
    <3> HIDE DEF n, e
    <3> QED
      BY <2>1, <3>4, <3>5, FineUpdate
  <2> QED
    BY <2>2, <2>3
<1>11. CASE ReplaceClear
  BY <1>11, <1>f, <1>l, FineSteps DEF ReplaceClear
<1>12. CASE ReplaceReschedule
  BY <1>12, <1>f, <1>l, FineSteps DEF ReplaceReschedule
<1>13. CASE ReplaceDispatch
  BY <1>13, <1>f, <1>l, FineSteps DEF ReplaceDispatch
<1>14. CASE HandleWorkStart
  BY <1>14, <1>f, <1>l, FineSteps DEF HandleWorkStart
<1>15. CASE HandleWorkDoWork
  BY <1>15, <1>f, <1>l, FineSteps DEF HandleWorkDoWork, BeginDoWork
<1>16. CASE HandleTimerStart
  BY <1>16, <1>f, <1>l, FineSteps DEF HandleTimerStart, BeginDoWork
<1>17. CASE HandlerWorked
  BY <1>17, <1>f, <1>l, FineSteps DEF HandlerWorked
<1>18. CASE HandlerDone
  BY <1>18, <1>f, <1>l, FineSteps DEF HandlerDone
<1>19. CASE NativeGet
  BY <1>19, <1>f, <1>l, FineSteps DEF NativeGet
<1>20. CASE NativeExit
  BY <1>20, <1>f, <1>l, FineSteps DEF NativeExit
<1>21. CASE HandlerReturn
  BY <1>21, <1>f, <1>l, FineSteps DEF HandlerReturn
<1>22. CASE AppScheduleWork
  BY <1>22, <1>f, <1>l, FineSteps DEF AppScheduleWork, InAppCode
<1>23. CASE AppQuit
  <2> DEFINE k == RunState
  <2>1. stack' = [stack EXCEPT ![k].quit = TRUE]
    BY <1>23 DEF AppQuit
  <2> HIDE DEF k
  <2> DEFINE e == [stack[k] EXCEPT !.quit = TRUE]
  <2>2. stack' = [stack EXCEPT ![k] = e] /\ stack \in Seq(Frames)
    BY <2>1 DEF TypeOK
  <2>3. k \in DOMAIN stack => e \in Frames /\ Fine(e)
    <3>1. k \in DOMAIN stack => stack[k] \in Frames /\ Fine(stack[k])
      BY <2>2, LenProperties, ElementOfSeq DEF AllFine
    <3> QED
      BY <3>1 DEF Frames, Fine
  <2> HIDE DEF e
  <2> QED
    BY <2>2, <2>3, FineUpdate
<1>24. CASE EnterRun
  <2>1. CASE InAppCode
    BY <1>24, <1>f, <1>l, <2>1, FineSteps DEF EnterRun, InAppCode
  <2>2. CASE stack' = <<Frame("DoRunLoop", "Status")>>
    BY <1>f, <2>2 DEF AllFine
  <2> QED
    BY <1>24, <2>1, <2>2 DEF EnterRun
<1>25. CASE EnterNativeLoop
  <2>1. CASE InAppCode
    BY <1>25, <1>f, <1>l, <2>1, FineSteps DEF EnterNativeLoop, InAppCode
  <2>2. CASE stack' = <<Frame("NativeLoop", "Peek")>>
    BY <1>f, <2>2 DEF AllFine
  <2> QED
    BY <1>25, <2>1, <2>2 DEF EnterNativeLoop
<1>26. CASE PostNative
  BY <1>26, <1>s DEF PostNative
<1>27. CASE PostQuit
  BY <1>27, <1>s DEF PostQuit
<1>28. CASE SendNative
  BY <1>28, <1>s DEF SendNative
<1>29. CASE TimerElapses
  BY <1>29, <1>s DEF TimerElapses
<1>30. CASE Tick
  BY <1>30, <1>s DEF Tick
<1>n. ASSUME NEW n \in RunTimes, DoWorkReturn(n) PROVE AllFine(stack')
  BY <1>n, FineSteps DEF DoWorkReturn
<1>d. ASSUME NEW t \in RunTimes \ {Immediate, Never}, AppScheduleDelayedWork(t)
      PROVE  AllFine(stack')
  BY <1>d, <1>l, <1>s, FineSteps DEF AppScheduleDelayedWork
<1>w. ASSUME NEW t \in Threads,
     ThreadScheduleWork(t) \/ ThreadPost(t) \/ ThreadPostFailed(t)
      PROVE  AllFine(stack')
  BY <1>w, <1>s DEF ThreadScheduleWork, ThreadPost, ThreadPostFailed
<1>u. CASE UNCHANGED vars
  BY <1>u, <1>s DEF vars
<1> QED
  BY <1>1, <1>2, <1>3, <1>4, <1>5, <1>6, <1>7, <1>8, <1>9, <1>10, <1>11, <1>12,
     <1>13, <1>14, <1>15, <1>16, <1>17, <1>18, <1>19, <1>20, <1>21, <1>22, <1>23,
     <1>24, <1>25, <1>26, <1>27, <1>28, <1>29, <1>30, <1>n, <1>d, <1>w, <1>u
  DEF Next, PumpStep, AppReturn, AppCall, ThreadStep, Environment

\* The two DCHECKs never fail, whatever sent messages and nested loops do to the peek.
THEOREM ReplacementCorrect == Spec => []ReplacementDChecks
<1>1. Init => StackFine
  BY EmptySeq DEF Init, AllFine, StackFine
<1>2. TypeOK /\ SingleWorkToken /\ StackFine => ReplacementDChecks
  BY DEF StackFine, ReplacementDChecks, SingleWorkToken, AllFine, Fine, OnStack, Holding
<1> QED
  BY <1>1, <1>2, FineStep, TypeCorrect, TokenCorrect, PTL DEF Spec

-----------------------------------------------------------------------------
(***************************************************************************)
(* The contract of message_pump.h.  DoWork() is called in Run() only: a     *)
(* handler that goes on to DoWork() has seen a run loop below it on the     *)
(* stack, and the frames below an activation stay until it returns.         *)
(***************************************************************************)
LoopsOf(s) == {i \in DOMAIN s : s[i].fn = "DoRunLoop"}
NeedsLoop(f) == f.fn = "DoWork" \/ (f.fn = "HandleWork" /\ f.at # "Start")
InLoop(s) == \A i \in DOMAIN s : NeedsLoop(s[i]) => \E j \in LoopsOf(s) : j < i
StackInLoop == InLoop(stack)

\* An activation changes its fields, not its function.
LEMMA LoopUpdate ==
    ASSUME NEW s \in Seq(Frames), InLoop(s), NEW k, NEW e, NEW r, r = [s EXCEPT ![k] = e],
           k \in DOMAIN s => /\ e \in Frames /\ e.fn = s[k].fn
                             /\ NeedsLoop(e) => \E j \in LoopsOf(s) : j < k
    PROVE  r \in Seq(Frames) /\ Len(r) = Len(s) /\ InLoop(r) /\ LoopsOf(r) = LoopsOf(s)
<1>1. DOMAIN s = 1..Len(s)
  BY LenProperties
<1>2. /\ r \in Seq(Frames) /\ Len(r) = Len(s) /\ DOMAIN r = DOMAIN s
      /\ \A i \in DOMAIN s : r[i] = IF i = k THEN e ELSE s[i]
  BY <1>1, Update
<1>3. LoopsOf(r) = LoopsOf(s)
  BY <1>2 DEF LoopsOf
<1>4. InLoop(r)
  BY <1>2, <1>3 DEF InLoop
<1> QED
  BY <1>2, <1>3, <1>4

LEMMA LoopPush ==
    ASSUME NEW s \in Seq(Frames), InLoop(s), NEW f \in Frames, NeedsLoop(f) => LoopsOf(s) # {}
    PROVE  /\ InLoop(Append(s, f))
           /\ LoopsOf(Append(s, f)) =
                  LoopsOf(s) \cup {i \in {Len(s) + 1} : f.fn = "DoRunLoop"}
<1> DEFINE r == Append(s, f)
<1>1. /\ r \in Seq(Frames) /\ Len(r) = Len(s) + 1 /\ r[Len(s) + 1] = f
      /\ \A i \in 1..Len(s) : r[i] = s[i]
  BY AppendProperties
<1>2. Len(s) \in Nat /\ DOMAIN s = 1..Len(s) /\ DOMAIN r = 1..Len(r)
  BY <1>1, LenProperties
<1> HIDE DEF r
<1>3. LoopsOf(r) = LoopsOf(s) \cup {i \in {Len(s) + 1} : f.fn = "DoRunLoop"}
  BY <1>1, <1>2 DEF LoopsOf
<1>4. ASSUME NEW i \in DOMAIN r, NeedsLoop(r[i])
      PROVE  \E j \in LoopsOf(r) : j < i
  <2>1. CASE i \in DOMAIN s
    BY <1>1, <1>2, <1>3, <1>4, <2>1 DEF InLoop
  <2>2. CASE i = Len(s) + 1
    <3>1. PICK j \in LoopsOf(s) : TRUE
      BY <1>1, <1>4, <2>2
    <3>2. j \in LoopsOf(r) /\ j \in 1..Len(s)
      BY <1>2, <1>3, <3>1 DEF LoopsOf
    <3> QED
      BY <1>2, <2>2, <3>2
  <2> QED
    BY <1>1, <1>2, <2>1, <2>2
<1> QED
  BY <1>3, <1>4 DEF InLoop, r

LEMMA LoopPop ==
    ASSUME NEW s \in Seq(Frames), s # <<>>, InLoop(s)
    PROVE  LET r == SubSeq(s, 1, Len(s) - 1)
           IN  r \in Seq(Frames) /\ InLoop(r) /\ LoopsOf(r) = LoopsOf(s) \ {Len(s)}
<1> DEFINE n == Len(s)
           r == SubSeq(s, 1, n - 1)
<1>1. n \in Nat \ {0} /\ DOMAIN s = 1..n /\ \A i \in 1..n : s[i] \in Frames
  BY LenProperties, EmptySeq, ElementOfSeq
<1>2. /\ r \in Seq(Frames)
      /\ Len(r) = IF 1 <= n - 1 THEN (n - 1) - 1 + 1 ELSE 0
      /\ \A i \in 1..((n - 1) - 1 + 1) : r[i] = s[1 + i - 1]
  <2>1. 1 \in Int /\ n - 1 \in Int /\ \A i \in 1..(n - 1) : s[i] \in Frames
    BY <1>1
  <2> HIDE DEF n
  <2> QED
    BY <2>1, SubSeqProperties
<1>3. DOMAIN r = 1..(n - 1) /\ \A i \in 1..(n - 1) : r[i] = s[i]
  BY <1>1, <1>2, LenProperties
<1> HIDE DEF r
<1>4. LoopsOf(r) = LoopsOf(s) \ {n}
  BY <1>1, <1>3 DEF LoopsOf
<1>5. ASSUME NEW i \in DOMAIN r, NeedsLoop(r[i])
      PROVE  \E j \in LoopsOf(r) : j < i
  <2>1. PICK j \in LoopsOf(s) : j < i
    BY <1>1, <1>3, <1>5 DEF InLoop
  <2>2. j \in DOMAIN s /\ j # n
    BY <1>1, <1>3, <1>5, <2>1 DEF LoopsOf
  <2> QED
    BY <1>4, <2>1, <2>2
<1> QED
  BY <1>2, <1>4, <1>5 DEF InLoop, r

\* The innermost frame changes; a handler passes its start only in a run loop.
LEMMA LoopTop ==
    ASSUME NEW s \in Seq(Frames), s # <<>>, InLoop(s), NEW l \in Labels, NEW r,
           s[Len(s)].fn = "HandleWork" /\ s[Len(s)].at = "Start" => LoopsOf(s) # {},
           \/ r = [s EXCEPT ![Len(s)].at = l]
           \/ \E b \in BOOLEAN : r = [s EXCEPT ![Len(s)].at = l, ![Len(s)].more = b]
           \/ \E b \in BOOLEAN : r = [s EXCEPT ![Len(s)].at = l, ![Len(s)].more = @ \/ b]
           \/ \E m \in Messages : r = [s EXCEPT ![Len(s)].at = l, ![Len(s)].msg = m]
    PROVE  r \in Seq(Frames) /\ Len(r) = Len(s) /\ InLoop(r) /\ LoopsOf(r) = LoopsOf(s)
<1> DEFINE n == Len(s)
<1>1. n \in Nat \ {0} /\ DOMAIN s = 1..n /\ n \in DOMAIN s /\ s[n] \in Frames
  BY LenProperties, EmptySeq, ElementOfSeq
<1>2. ASSUME NEW e \in Frames, e.fn = s[n].fn, e.at = l, r = [s EXCEPT ![n] = e]
      PROVE  r \in Seq(Frames) /\ Len(r) = Len(s) /\ InLoop(r) /\ LoopsOf(r) = LoopsOf(s)
  <2>1. ASSUME NeedsLoop(e)
        PROVE  \E j \in LoopsOf(s) : j < n
    <3>1. CASE NeedsLoop(s[n])
      BY <1>1, <3>1 DEF InLoop
    <3>2. CASE ~NeedsLoop(s[n])
      <4>1. s[n].fn = "HandleWork" /\ s[n].at = "Start"
        BY ONLY <1>2, <2>1, <3>2 DEF NeedsLoop
      <4>4. LoopsOf(s) # {}
        BY <4>1
      <4>2. PICK j \in LoopsOf(s) : TRUE
        BY <4>4
      <4>3. j \in 1..n /\ j # n
        BY <1>1, <4>1, <4>2 DEF LoopsOf
      <4> QED
        BY <1>1, <4>3
    <3> QED
      BY <3>1, <3>2
  <2>2. n \in DOMAIN s => /\ e \in Frames /\ e.fn = s[n].fn
                          /\ NeedsLoop(e) => \E j \in LoopsOf(s) : j < n
    BY <1>2, <2>1
  <2>3. r = [s EXCEPT ![n] = e] /\ s \in Seq(Frames) /\ InLoop(s)
    BY <1>2
  <2> HIDE DEF n
  <2> QED
    BY ONLY <2>2, <2>3, LoopUpdate
<1>3. ASSUME r = [s EXCEPT ![n].at = l]
      PROVE  \E e \in Frames : e.fn = s[n].fn /\ e.at = l /\ r = [s EXCEPT ![n] = e]
  <2>1. r = [s EXCEPT ![n] = [s[n] EXCEPT !.at = l]]
    BY <1>1, <1>3
  <2> QED
    BY <1>1, <2>1 DEF Frames
<1>4. ASSUME NEW b \in BOOLEAN, r = [s EXCEPT ![n].at = l, ![n].more = b]
      PROVE  \E e \in Frames : e.fn = s[n].fn /\ e.at = l /\ r = [s EXCEPT ![n] = e]
  <2>1. r = [s EXCEPT ![n] = [s[n] EXCEPT !.at = l, !.more = b]]
    BY <1>1, <1>4
  <2> QED
    BY <1>1, <2>1 DEF Frames
<1>5. ASSUME NEW b \in BOOLEAN, r = [s EXCEPT ![n].at = l, ![n].more = @ \/ b]
      PROVE  \E e \in Frames : e.fn = s[n].fn /\ e.at = l /\ r = [s EXCEPT ![n] = e]
  <2>1. r = [s EXCEPT ![n] = [s[n] EXCEPT !.at = l, !.more = @ \/ b]]
    BY <1>1, <1>5
  <2> QED
    BY <1>1, <2>1 DEF Frames
<1>6. ASSUME NEW m \in Messages, r = [s EXCEPT ![n].at = l, ![n].msg = m]
      PROVE  \E e \in Frames : e.fn = s[n].fn /\ e.at = l /\ r = [s EXCEPT ![n] = e]
  <2>1. r = [s EXCEPT ![n] = [s[n] EXCEPT !.at = l, !.msg = m]]
    BY <1>1, <1>6
  <2> QED
    BY <1>1, <2>1 DEF Frames
<1> QED
  BY <1>2, <1>3, <1>4, <1>5, <1>6

LEMMA LoopReturn ==
    ASSUME NEW s \in Seq(Frames), s # <<>>, InLoop(s), NEW r,
           LET p == SubSeq(s, 1, Len(s) - 1)
               k == Len(s) - 1
           IN  \/ r = p
               \/ \E b \in BOOLEAN : r = [p EXCEPT ![k].more = @ \/ b]
               \/ \E n \in RunTimes : r = [p EXCEPT ![k].info = n]
    PROVE  InLoop(r) /\ LoopsOf(r) = LoopsOf(s) \ {Len(s)}
<1> DEFINE p == SubSeq(s, 1, Len(s) - 1)
           k == Len(s) - 1
<1>1. p \in Seq(Frames) /\ InLoop(p) /\ LoopsOf(p) = LoopsOf(s) \ {Len(s)}
  BY LoopPop
<1>2. DOMAIN p = 1..Len(p) /\ \A i \in DOMAIN p : p[i] \in Frames
  BY <1>1, LenProperties, ElementOfSeq
<1> HIDE DEF p, k
<1>3. ASSUME NEW e, r = [p EXCEPT ![k] = e],
             k \in DOMAIN p => e \in Frames /\ e.fn = p[k].fn /\ e.at = p[k].at
      PROVE  InLoop(r) /\ LoopsOf(r) = LoopsOf(p)
  <2>1. k \in DOMAIN p => /\ e \in Frames /\ e.fn = p[k].fn
                          /\ NeedsLoop(e) => \E j \in LoopsOf(p) : j < k
    BY <1>1, <1>3 DEF InLoop, NeedsLoop
  <2> QED
    BY <1>1, <1>3, <2>1, LoopUpdate
<1>4. ASSUME NEW b \in BOOLEAN, r = [p EXCEPT ![k].more = @ \/ b]
      PROVE  InLoop(r) /\ LoopsOf(r) = LoopsOf(p)
  <2> DEFINE e == [p[k] EXCEPT !.more = @ \/ b]
  <2>1. r = [p EXCEPT ![k] = e]
    BY <1>4
  <2>2. k \in DOMAIN p => e \in Frames /\ e.fn = p[k].fn /\ e.at = p[k].at
    BY <1>2 DEF Frames
  <2> HIDE DEF e
  <2> QED
    BY <1>3, <2>1, <2>2
<1>5. ASSUME NEW n \in RunTimes, r = [p EXCEPT ![k].info = n]
      PROVE  InLoop(r) /\ LoopsOf(r) = LoopsOf(p)
  <2> DEFINE e == [p[k] EXCEPT !.info = n]
  <2>1. r = [p EXCEPT ![k] = e]
    BY <1>5
  <2>2. k \in DOMAIN p => e \in Frames /\ e.fn = p[k].fn /\ e.at = p[k].at
    BY <1>2 DEF Frames
  <2> HIDE DEF e
  <2> QED
    BY <1>3, <2>1, <2>2
<1> QED
  BY <1>1, <1>4, <1>5 DEF p, k

\* The run loops are those that were there, and DoWork() stays inside of one.
LoopsKept == InLoop(stack') /\ LoopsOf(stack') = LoopsOf(stack)

LEMMA LoopFrame ==
    /\ {"Status", "Peek", "Dispatched", "Worked", "Idle", "Wait", "WaitPeek", "WaitNew",
        "Start", "Clear", "Reschedule", "Done", "Post", "Failed"} = Labels
    /\ \A f \in {Frame("Handler", "Start"), Frame("HandleTimer", "Start"),
                 Frame("HandleWork", "Start"), Frame("Replace", "Peek"),
                 Frame("ScheduleWork", "Post"), Frame("NativeLoop", "Peek")} :
           f \in Frames /\ f.fn # "DoRunLoop" /\ ~NeedsLoop(f)
    /\ Frame("DoWork", "Start") \in Frames /\ Frame("DoWork", "Start").fn # "DoRunLoop"
    /\ Frame("DoRunLoop", "Status") \in Frames /\ ~NeedsLoop(Frame("DoRunLoop", "Status"))
<1>1. \A fn \in Functions, l \in Labels :
          Frame(fn, l) \in Frames /\ Frame(fn, l).fn = fn /\ Frame(fn, l).at = l
  BY FrameType DEF Frame
<1> QED
  BY <1>1 DEF Functions, Labels, NeedsLoop

LEMMA LoopSteps ==
    ASSUME TypeOK, stack # <<>>, StackInLoop,
           Top.fn = "HandleWork" /\ Top.at = "Start" => RunLoops # {}
    PROVE  /\ \A l \in Labels : Goto(l) => LoopsKept
           /\ \A l \in Labels, f \in Frames :
                  Call(f, l) /\ f.fn # "DoRunLoop" /\ (NeedsLoop(f) => RunLoops # {})
                      => LoopsKept
           /\ \A l \in Labels : CallScheduleWork(l) => LoopsKept
           /\ \A t : \A l \in Labels : CallScheduleNativeTimer(t, l) => LoopsKept
           /\ \A l \in Labels : DispatchSent(l) => LoopsKept
<1>0. stack \in Seq(Frames) /\ InLoop(stack) /\ RunLoops = LoopsOf(stack)
  BY DEF TypeOK, StackInLoop, RunLoops, LoopsOf
<1>1. ASSUME NEW l \in Labels, Goto(l) PROVE LoopsKept
  BY <1>0, <1>1, LoopTop DEF Goto, Top, LoopsKept
<1>2. ASSUME NEW l \in Labels, NEW f \in Frames, Call(f, l),
             f.fn # "DoRunLoop", NeedsLoop(f) => RunLoops # {}
      PROVE  LoopsKept
  <2> DEFINE g == [stack EXCEPT ![Len(stack)].at = l]
  <2>1. g \in Seq(Frames) /\ InLoop(g) /\ LoopsOf(g) = LoopsOf(stack)
    BY <1>0, LoopTop DEF Top
  <2>2. stack' = Append(g, f)
    BY <1>2 DEF Call
  <2> HIDE DEF g
  <2>3. /\ InLoop(Append(g, f))
        /\ LoopsOf(Append(g, f)) = LoopsOf(g) \cup {i \in {Len(g) + 1} : f.fn = "DoRunLoop"}
    BY <1>0, <1>2, <2>1, LoopPush
  <2> QED
    BY <1>2, <2>1, <2>2, <2>3 DEF LoopsKept
<1>3. ASSUME NEW l \in Labels, CallScheduleWork(l) PROVE LoopsKept
  BY <1>1, <1>2, <1>3, LoopFrame DEF CallScheduleWork
<1>4. ASSUME NEW l \in Labels, NEW t, CallScheduleNativeTimer(t, l) PROVE LoopsKept
  BY <1>1, <1>3, <1>4 DEF CallScheduleNativeTimer
<1>5. ASSUME NEW l \in Labels, DispatchSent(l) PROVE LoopsKept
  BY <1>2, <1>5, LoopFrame DEF DispatchSent
<1> QED
  BY <1>1, <1>2, <1>3, <1>4, <1>5

LEMMA LoopReturns ==
    ASSUME TypeOK, stack # <<>>, StackInLoop,
           Return \/ (\E b \in BOOLEAN : ReturnMore(b)) \/ (\E n \in RunTimes : ReturnInfo(n))
    PROVE  InLoop(stack') /\ (Top.fn # "DoRunLoop" => LoopsKept)
<1>1. stack \in Seq(Frames) /\ InLoop(stack)
  BY DEF TypeOK, StackInLoop
<1>2. InLoop(stack') /\ LoopsOf(stack') = LoopsOf(stack) \ {Len(stack)}
  BY <1>1, LoopReturn DEF Return, ReturnMore, ReturnInfo, Popped
<1>3. Top.fn # "DoRunLoop" => Len(stack) \notin LoopsOf(stack)
  BY DEF LoopsOf, Top
<1> QED
  BY <1>2, <1>3 DEF LoopsKept

\* What an action may do: keep DoWork() in its loop, and take a step of the contract.
Allowed == InLoop(stack') /\ [Contract!Next]_(Contract!vars)

LEMMA AllowedQuiet ==
    ASSUME InLoop(stack'), UNCHANGED <<requested, due, now>>
    PROVE  Allowed
<1>1. (RunLoops # {})' \in BOOLEAN
  OBVIOUS
<1> QED
  BY <1>1 DEF Allowed, Contract!Next, Contract!EnterOrLeave

LEMMA AllowedAsk ==
    ASSUME LoopsKept, requested' = TRUE, UNCHANGED <<due, now>>
    PROVE  Allowed
<1>1. (RunLoops # {})' = (RunLoops # {})
  BY DEF LoopsKept, RunLoops, LoopsOf
<1> QED
  BY <1>1 DEF Allowed, LoopsKept, Contract!Next, Contract!ScheduleWork

LEMMA AllowedWork ==
    ASSUME LoopsKept, RunLoops # {}, requested' = FALSE, due' = Never, UNCHANGED now
    PROVE  Allowed
<1>1. (RunLoops # {})' = (RunLoops # {})
  BY DEF LoopsKept, RunLoops, LoopsOf
<1> QED
  BY <1>1 DEF Allowed, LoopsKept, Contract!Next, Contract!DoWork, Contract!Never, Never

LEMMA AllowedStep == TypeOK /\ StackInLoop /\ [Next]_vars => Allowed
<1> SUFFICES ASSUME TypeOK, StackInLoop, [Next]_vars
             PROVE  Allowed
  OBVIOUS
<1> USE DEF At, histVars
<1>l. {"Status", "Peek", "Dispatched", "Worked", "Idle", "Wait", "WaitPeek", "WaitNew",
       "Start", "Clear", "Reschedule", "Done", "Post", "Failed"} = Labels
  BY LoopFrame
<1>f. \A f \in {Frame("Handler", "Start"), Frame("HandleTimer", "Start"),
               Frame("HandleWork", "Start"), Frame("Replace", "Peek"),
               Frame("ScheduleWork", "Post"), Frame("NativeLoop", "Peek")} :
          f \in Frames /\ f.fn # "DoRunLoop" /\ ~NeedsLoop(f)
  BY LoopFrame
<1>w. Frame("DoWork", "Start") \in Frames /\ Frame("DoWork", "Start").fn # "DoRunLoop"
  BY LoopFrame
<1>s. stack' = stack => LoopsKept
  BY DEF LoopsKept, StackInLoop
<1>k. LoopsKept => InLoop(stack')
  BY DEF LoopsKept
<1>t. stack # <<>> /\ (Top.fn = "DoRunLoop" \/ NeedsLoop(Top)) => RunLoops # {}
  <2>1. stack # <<>> => Len(stack) \in DOMAIN stack
    BY LenProperties, EmptySeq DEF TypeOK
  <2> QED
    BY <2>1 DEF Top, RunLoops, LoopsOf, StackInLoop, InLoop
<1>1. CASE ScheduleWorkPost
  <2>1. InLoop(stack')
    BY <1>1, <1>f, <1>k, <1>l, <1>s, LoopSteps, LoopReturns DEF ScheduleWorkPost
  <2> QED
    BY <1>1, <2>1, AllowedQuiet DEF ScheduleWorkPost
<1>2. CASE ScheduleWorkFailed
  <2>1. InLoop(stack')
    BY <1>2, <1>f, <1>k, <1>l, <1>s, LoopSteps, LoopReturns DEF ScheduleWorkFailed
  <2> QED
    BY <1>2, <2>1, AllowedQuiet DEF ScheduleWorkFailed
<1>3. CASE LoopStatus
  <2>1. \E b \in BOOLEAN :
            stack' = [stack EXCEPT ![Len(stack)].at = "Peek", ![Len(stack)].more = b]
    <3>1. (sent > 0) \in BOOLEAN
      OBVIOUS
    <3> QED
      BY <1>3, <3>1 DEF LoopStatus
  <2>2. stack # <<>> /\ stack \in Seq(Frames) /\ "Peek" \in Labels /\ Top.fn = "DoRunLoop"
    BY <1>3, <1>l DEF LoopStatus, TypeOK
  <2>3. InLoop(stack')
    BY <2>1, <2>2, LoopTop DEF StackInLoop, Top
  <2> QED
    BY <1>3, <2>3, AllowedQuiet DEF LoopStatus
<1>4. CASE LoopPeek
  <2>1. /\ stack # <<>> /\ stack \in Seq(Frames) /\ "Dispatched" \in Labels /\ Top.fn = "DoRunLoop"
        /\ UNCHANGED <<requested, due, now>>
    BY <1>4, <1>l DEF LoopPeek, TypeOK, DispatchSent
  <2>2. CASE DispatchSent("Peek")
    BY <1>k, <1>l, <2>1, <2>2, LoopSteps, AllowedQuiet
  <2>3. CASE ~DispatchSent("Peek")
    <3> DEFINE plausible(b) == [stack EXCEPT ![Len(stack)].at = "Dispatched",
                                             ![Len(stack)].more = @ \/ b]
    <3>1. ASSUME NEW b \in BOOLEAN, NEW r, r = plausible(b)
          PROVE  r \in Seq(Frames) /\ InLoop(r)
      <4>1. stack[Len(stack)].fn # "HandleWork" /\ InLoop(stack)
        BY <2>1 DEF StackInLoop, Top
      <4>2. r = [stack EXCEPT ![Len(stack)].at = "Dispatched", ![Len(stack)].more = @ \/ b]
        BY <3>1
      <4> QED
        BY <2>1, <3>1, <4>1, <4>2, LoopTop
    <3>2. \/ \E b \in BOOLEAN : stack' = plausible(b)
          \/ \E b \in BOOLEAN, f \in Frames : ~NeedsLoop(f) /\ stack' = Append(plausible(b), f)
      <4>1. CASE NextMessage = "HaveWork"
        BY <1>4, <1>f, <2>3, <4>1 DEF LoopPeek, TypeOK
      <4>2. CASE NextMessage = "Native"
        BY <1>4, <1>f, <2>3, <4>2 DEF LoopPeek, TypeOK
      <4>3. CASE NextMessage = "Timer"
        BY <1>4, <1>f, <2>3, <4>3 DEF LoopPeek, TypeOK
      <4>4. CASE NextMessage \notin {"HaveWork", "Native", "Timer"}
        BY <1>4, <2>3, <4>4 DEF LoopPeek, TypeOK
      <4> QED
        BY <4>1, <4>2, <4>3, <4>4
    <3> HIDE DEF plausible
    <3>3. InLoop(stack')
      BY <3>1, <3>2, LoopPush
    <3> QED
      BY <2>1, <3>3, AllowedQuiet
  <2> QED
    BY <2>2, <2>3
<1>5. CASE LoopDispatched
  <2>1. stack # <<>> /\ Top.fn = "DoRunLoop" /\ RunLoops # {} /\ UNCHANGED now
    BY <1>5, <1>t DEF LoopDispatched
  <2>2. CASE Top.quit
    <3>1. InLoop(stack')
      BY <1>5, <2>1, <2>2, LoopReturns DEF LoopDispatched
    <3> QED
      BY <1>5, <2>1, <2>2, <3>1, AllowedQuiet DEF LoopDispatched
  <2>3. CASE ~Top.quit
    <3>1. LoopsKept
      BY <1>5, <1>l, <1>w, <2>1, <2>3, LoopSteps DEF LoopDispatched, BeginDoWork
    <3> QED
      BY <1>5, <2>1, <2>3, <3>1, AllowedWork DEF LoopDispatched, BeginDoWork
  <2> QED
    BY <2>2, <2>3
<1>6. CASE LoopWorked
  <2>1. InLoop(stack')
    BY <1>6, <1>f, <1>k, <1>l, <1>s, LoopSteps, LoopReturns DEF LoopWorked
  <2> QED
    BY <1>6, <2>1, AllowedQuiet DEF LoopWorked
<1>7. CASE LoopIdle
  <2>1. stack # <<>> /\ Top.fn = "DoRunLoop" /\ UNCHANGED <<due, now>>
    BY <1>7 DEF LoopIdle
  <2>2. CASE CallScheduleWork("Wait") /\ requested' = TRUE
    <3>1. LoopsKept
      BY <1>l, <2>1, <2>2, LoopSteps
    <3> QED
      BY <2>1, <2>2, <3>1, AllowedAsk
  <2>3. CASE (Goto("Wait") \/ Goto("Status") \/ Return) /\ UNCHANGED requested
    <3>1. InLoop(stack')
      BY <1>k, <1>l, <2>1, <2>3, LoopSteps, LoopReturns
    <3> QED
      BY <2>1, <2>3, <3>1, AllowedQuiet
  <2> QED
    BY <1>7, <2>2, <2>3 DEF LoopIdle
<1>8. CASE LoopWait
  <2>1. InLoop(stack')
    BY <1>8, <1>f, <1>k, <1>l, <1>s, LoopSteps, LoopReturns DEF LoopWait
  <2> QED
    BY <1>8, <2>1, AllowedQuiet DEF LoopWait
<1>9. CASE LoopWaitPeek
  <2>1. InLoop(stack')
    BY <1>9, <1>f, <1>k, <1>l, <1>s, LoopSteps, LoopReturns DEF LoopWaitPeek, DispatchSent
  <2> QED
    BY <1>9, <2>1, AllowedQuiet DEF LoopWaitPeek, DispatchSent
<1>10. CASE ReplacePeek
  <2>1. /\ stack # <<>> /\ stack \in Seq(Frames) /\ "Clear" \in Labels /\ Top.fn = "Replace"
        /\ UNCHANGED <<requested, due, now>>
    BY <1>10, <1>l DEF ReplacePeek, TypeOK, DispatchSent
  <2>2. CASE DispatchSent("Peek")
    BY <1>k, <1>l, <2>1, <2>2, LoopSteps, AllowedQuiet
  <2>3. CASE ~DispatchSent("Peek")
    <3>1. NextMessage \in Messages
      BY QueueSteps
    <3>2. stack' = [stack EXCEPT ![Len(stack)].at = "Clear", ![Len(stack)].msg = NextMessage]
      BY <1>10, <2>3 DEF ReplacePeek
    <3>3. InLoop(stack')
      <4>1. stack[Len(stack)].fn # "HandleWork" /\ InLoop(stack)
        BY <2>1 DEF StackInLoop, Top
      <4> QED
        BY <2>1, <3>1, <3>2, <4>1, LoopTop
    <3> QED
      BY <2>1, <3>3, AllowedQuiet
  <2> QED
    BY <2>2, <2>3
<1>11. CASE ReplaceClear
  <2>1. InLoop(stack')
    BY <1>11, <1>f, <1>k, <1>l, <1>s, LoopSteps, LoopReturns DEF ReplaceClear
  <2> QED
    BY <1>11, <2>1, AllowedQuiet DEF ReplaceClear
<1>12. CASE ReplaceReschedule
  <2>1. InLoop(stack')
    BY <1>12, <1>f, <1>k, <1>l, <1>s, LoopSteps, LoopReturns DEF ReplaceReschedule
  <2> QED
    BY <1>12, <2>1, AllowedQuiet DEF ReplaceReschedule
<1>13. CASE ReplaceDispatch
  <2>1. InLoop(stack')
    BY <1>13, <1>f, <1>k, <1>l, <1>s, LoopSteps, LoopReturns DEF ReplaceDispatch
  <2> QED
    BY <1>13, <2>1, AllowedQuiet DEF ReplaceDispatch
<1>14. CASE HandleWorkStart
  <2>1. InLoop(stack')
    BY <1>14, <1>f, <1>k, <1>l, <1>s, LoopSteps, LoopReturns DEF HandleWorkStart
  <2> QED
    BY <1>14, <2>1, AllowedQuiet DEF HandleWorkStart
<1>15. CASE HandleWorkDoWork
  <2>1. stack # <<>> /\ Top.fn = "HandleWork" /\ Top.at = "Dispatched" /\ RunLoops # {}
    BY <1>15, <1>t DEF HandleWorkDoWork, NeedsLoop
  <2>2. LoopsKept
    BY <1>15, <1>l, <1>w, <2>1, LoopSteps DEF HandleWorkDoWork, BeginDoWork
  <2> QED
    BY <1>15, <2>1, <2>2, AllowedWork DEF HandleWorkDoWork, BeginDoWork
<1>16. CASE HandleTimerStart
  <2>1. stack # <<>> /\ Top.fn = "HandleTimer" /\ UNCHANGED now
    BY <1>16 DEF HandleTimerStart
  <2>2. CASE installed_native_timer = Off \/ RunLoops = {}
    <3>1. InLoop(stack')
      BY <1>16, <2>1, <2>2, LoopReturns DEF HandleTimerStart
    <3> QED
      BY <1>16, <2>1, <2>2, <3>1, AllowedQuiet DEF HandleTimerStart
  <2>3. CASE ~(installed_native_timer = Off \/ RunLoops = {})
    <3>1. LoopsKept
      BY <1>16, <1>l, <1>w, <2>1, <2>3, LoopSteps DEF HandleTimerStart, BeginDoWork
    <3> QED
      BY <1>16, <2>1, <2>3, <3>1, AllowedWork DEF HandleTimerStart, BeginDoWork
  <2> QED
    BY <2>2, <2>3
<1>17. CASE HandlerWorked
  <2>1. InLoop(stack')
    BY <1>17, <1>f, <1>k, <1>l, <1>s, LoopSteps, LoopReturns DEF HandlerWorked
  <2> QED
    BY <1>17, <2>1, AllowedQuiet DEF HandlerWorked
<1>18. CASE HandlerDone
  <2>1. InLoop(stack')
    BY <1>18, <1>f, <1>k, <1>l, <1>s, LoopSteps, LoopReturns DEF HandlerDone
  <2> QED
    BY <1>18, <2>1, AllowedQuiet DEF HandlerDone
<1>19. CASE NativeGet
  <2>1. InLoop(stack')
    BY <1>19, <1>f, <1>k, <1>l, <1>s, LoopSteps, LoopReturns DEF NativeGet, DispatchSent
  <2> QED
    BY <1>19, <2>1, AllowedQuiet DEF NativeGet, DispatchSent
<1>20. CASE NativeExit
  <2>1. InLoop(stack')
    BY <1>20, <1>f, <1>k, <1>l, <1>s, LoopSteps, LoopReturns DEF NativeExit
  <2> QED
    BY <1>20, <2>1, AllowedQuiet DEF NativeExit
<1>21. CASE HandlerReturn
  <2>1. InLoop(stack')
    BY <1>21, <1>f, <1>k, <1>l, <1>s, LoopSteps, LoopReturns DEF HandlerReturn
  <2> QED
    BY <1>21, <2>1, AllowedQuiet DEF HandlerReturn
<1>22. CASE AppScheduleWork
  <2>1. LoopsKept
    BY <1>22, <1>l, LoopSteps DEF AppScheduleWork, InAppCode
  <2> QED
    BY <1>22, <2>1, AllowedAsk DEF AppScheduleWork
<1>23. CASE AppQuit
  <2> DEFINE k == RunState
  <2>1. stack' = [stack EXCEPT ![k].quit = TRUE]
    BY <1>23 DEF AppQuit
  <2> HIDE DEF k
  <2> DEFINE e == [stack[k] EXCEPT !.quit = TRUE]
  <2>2. stack' = [stack EXCEPT ![k] = e] /\ stack \in Seq(Frames) /\ InLoop(stack)
    BY <2>1 DEF TypeOK, StackInLoop
  <2>3. k \in DOMAIN stack => /\ e \in Frames /\ e.fn = stack[k].fn
                              /\ NeedsLoop(e) => \E j \in LoopsOf(stack) : j < k
    <3>1. k \in DOMAIN stack => stack[k] \in Frames
      BY <2>2, LenProperties, ElementOfSeq
    <3>2. k \in DOMAIN stack => e \in Frames /\ e.fn = stack[k].fn /\ e.at = stack[k].at
      BY <3>1 DEF Frames
    <3> QED
      BY <2>2, <3>2 DEF InLoop, NeedsLoop
  <2> HIDE DEF e
  <2>4. InLoop(stack')
    BY <2>2, <2>3, LoopUpdate
  <2> QED
    BY <1>23, <2>4, AllowedQuiet DEF AppQuit
<1>24. CASE EnterRun
  <2>1. Frame("DoRunLoop", "Status") \in Frames /\ ~NeedsLoop(Frame("DoRunLoop", "Status"))
    BY LoopFrame
  <2>2. CASE InAppCode /\ Call(Frame("DoRunLoop", "Status"), "Start")
    <3> DEFINE g == [stack EXCEPT ![Len(stack)].at = "Start"]
    <3>1. stack # <<>> /\ stack \in Seq(Frames) /\ Top.fn # "HandleWork" /\ "Start" \in Labels
      BY <1>l, <2>2 DEF InAppCode, TypeOK
    <3>2. g \in Seq(Frames) /\ InLoop(g)
      BY <3>1, LoopTop DEF Top, StackInLoop
    <3>3. stack' = Append(g, Frame("DoRunLoop", "Status"))
      BY <2>2 DEF Call
    <3> HIDE DEF g
    <3>4. InLoop(stack')
      BY <2>1, <3>2, <3>3, LoopPush
    <3> QED
      BY <1>24, <3>4, AllowedQuiet DEF EnterRun
  <2>3. CASE stack' = <<Frame("DoRunLoop", "Status")>>
    <3>1. InLoop(stack')
      BY <2>1, <2>3 DEF InLoop
    <3> QED
      BY <1>24, <3>1, AllowedQuiet DEF EnterRun
  <2> QED
    BY <1>24, <2>2, <2>3 DEF EnterRun
<1>25. CASE EnterNativeLoop
  <2>1. Frame("NativeLoop", "Peek") \in Frames /\ ~NeedsLoop(Frame("NativeLoop", "Peek"))
    BY LoopFrame
  <2>2. CASE InAppCode /\ Call(Frame("NativeLoop", "Peek"), "Start")
    <3> DEFINE g == [stack EXCEPT ![Len(stack)].at = "Start"]
    <3>1. stack # <<>> /\ stack \in Seq(Frames) /\ Top.fn # "HandleWork" /\ "Start" \in Labels
      BY <1>l, <2>2 DEF InAppCode, TypeOK
    <3>2. g \in Seq(Frames) /\ InLoop(g)
      BY <3>1, LoopTop DEF Top, StackInLoop
    <3>3. stack' = Append(g, Frame("NativeLoop", "Peek"))
      BY <2>2 DEF Call
    <3> HIDE DEF g
    <3>4. InLoop(stack')
      BY <2>1, <3>2, <3>3, LoopPush
    <3> QED
      BY <1>25, <3>4, AllowedQuiet DEF EnterNativeLoop
  <2>3. CASE stack' = <<Frame("NativeLoop", "Peek")>>
    <3>1. InLoop(stack')
      BY <2>1, <2>3 DEF InLoop
    <3> QED
      BY <1>25, <3>1, AllowedQuiet DEF EnterNativeLoop
  <2> QED
    BY <1>25, <2>2, <2>3 DEF EnterNativeLoop
<1>26. CASE PostNative
  BY <1>26, <1>k, <1>s, AllowedQuiet DEF PostNative
<1>27. CASE PostQuit
  BY <1>27, <1>k, <1>s, AllowedQuiet DEF PostQuit
<1>28. CASE SendNative
  BY <1>28, <1>k, <1>s, AllowedQuiet DEF SendNative
<1>29. CASE TimerElapses
  BY <1>29, <1>k, <1>s, AllowedQuiet DEF TimerElapses
<1>30. CASE Tick
  <2>1. (RunLoops # {})' = (RunLoops # {})
    BY <1>30 DEF Tick, RunLoops
  <2> QED
    BY <1>30, <1>k, <1>s, <2>1 DEF Tick, Allowed, Contract!Next, Contract!Tick
<1>31. ASSUME NEW n \in RunTimes, DoWorkReturn(n)
      PROVE  Allowed
  <2>1. stack # <<>> /\ Top.fn = "DoWork" /\ RunLoops # {}
    BY <1>31, <1>t DEF DoWorkReturn, NeedsLoop
  <2>2. LoopsKept
    BY <1>31, <2>1, LoopReturns DEF DoWorkReturn
  <2>3. (RunLoops # {})' = (RunLoops # {})
    BY <2>2 DEF LoopsKept, RunLoops, LoopsOf
  <2>4. Contract!DoWorkReturn(n)
    BY <1>31, <2>1, <2>3 DEF DoWorkReturn, Contract!DoWorkReturn
  <2> QED
    BY <2>2, <2>4 DEF Allowed, LoopsKept, Contract!Next, RunTimes, Never, Immediate, Contract!Never
<1>32. ASSUME NEW t \in RunTimes \ {Immediate, Never}, AppScheduleDelayedWork(t)
      PROVE  Allowed
  <2>1. LoopsKept
    BY <1>32, <1>l, <1>s, LoopSteps DEF AppScheduleDelayedWork
  <2>2. (RunLoops # {})' = (RunLoops # {})
    BY <2>1 DEF LoopsKept, RunLoops, LoopsOf
  <2>3. Contract!ScheduleDelayedWork(t)
    BY <1>32, <2>2 DEF AppScheduleDelayedWork, Contract!ScheduleDelayedWork
  <2>4. t \in 1..Contract!Never
    BY BoundAssumption DEF RunTimes, Never, Immediate, Contract!Never
  <2> QED
    BY <2>1, <2>3, <2>4 DEF Allowed, LoopsKept, Contract!Next
<1>33. ASSUME NEW t \in Threads, ThreadScheduleWork(t)
      PROVE  Allowed
  BY <1>33, <1>s, AllowedAsk DEF ThreadScheduleWork
<1>34. ASSUME NEW t \in Threads, ThreadStep(t)
      PROVE  Allowed
  BY <1>34, <1>k, <1>s, AllowedQuiet DEF ThreadStep, ThreadPost, ThreadPostFailed
<1>35. CASE UNCHANGED vars
  BY <1>35, <1>k, <1>s, AllowedQuiet DEF vars
<1> QED
  BY <1>1, <1>2, <1>3, <1>4, <1>5, <1>6, <1>7, <1>8, <1>9, <1>10, <1>11, <1>12, <1>13,
     <1>14, <1>15, <1>16, <1>17, <1>18, <1>19, <1>20, <1>21, <1>22, <1>23, <1>24, <1>25,
     <1>26, <1>27, <1>28, <1>29, <1>30, <1>31, <1>32, <1>33, <1>34, <1>35
  DEF Next, PumpStep, AppReturn, AppCall, ThreadStep, Environment

\* The pump implements the safety of its contract: in any nest of run loops and native
\* loops DoWork() is called in Run() only, and no request is forgotten but by a DoWork()
\* that begins after it.
THEOREM ContractCorrect == Spec => ImplementsContract
<1>1. Init => StackInLoop /\ Contract!Init
  BY EmptySeq DEF Init, StackInLoop, InLoop, Contract!Init, RunLoops, Never, Contract!Never
<1>2. TypeOK /\ StackInLoop /\ [Next]_vars => StackInLoop' /\ [Contract!Next]_(Contract!vars)
  BY AllowedStep DEF Allowed, StackInLoop
<1>3. Spec => Contract!Init /\ [][Contract!Next]_(Contract!vars)
  BY <1>1, <1>2, TypeCorrect, PTL DEF Spec
<1> QED
  BY <1>3 DEF ImplementsContract, Contract!Safe

-----------------------------------------------------------------------------
(***************************************************************************)
(* The native timer.  The invariant knows which activation may have called *)
(* which, and where a caller is when its callee returns: the timer may be   *)
(* missing only between two statements that no native loop can come        *)
(* between.                                                                *)
(***************************************************************************)

\* An activation f of the stack has called g, the next one.
Calls(f, g) ==
    \/ g.fn = "Handler" /\ f.fn = "DoRunLoop" /\ f.at \in {"Peek", "Dispatched", "WaitPeek"}
    \/ g.fn = "Handler" /\ f.fn = "Replace" /\ f.at \in {"Peek", "Done"}
    \/ g.fn \in {"Handler", "HandleTimer", "HandleWork"} /\ f.fn = "NativeLoop"
    \/ g.fn = "HandleTimer" /\ f.fn = "DoRunLoop" /\ f.at = "Dispatched"
    \/ g.fn = "HandleTimer" /\ f.fn = "Replace" /\ f.at = "Done"
    \/ g.fn = "Replace" /\ f.fn \in {"DoRunLoop", "HandleWork"} /\ f.at = "Dispatched"
    \/ g.fn = "DoWork" /\ f.fn \in {"DoRunLoop", "HandleWork", "HandleTimer"} /\ f.at = "Worked"
    \/ g.fn = "ScheduleWork" /\ f.fn = "DoRunLoop" /\ f.at = "Wait"
    \/ g.fn = "ScheduleWork" /\ f.fn = "Replace" /\ f.at = "Start"
    \/ g.fn = "ScheduleWork" /\ f.fn \in {"HandleWork", "HandleTimer"} /\ f.at = "Done"
    \/ g.fn \in {"ScheduleWork", "DoRunLoop", "NativeLoop"} /\ f.fn \in {"Handler", "DoWork"}

WellCalled(s) ==
    /\ s # <<>> => s[1].fn \in {"DoRunLoop", "NativeLoop"}
    /\ \A i \in 1..(Len(s) - 1) : Calls(s[i], s[i + 1])
    /\ \A i \in 1..Len(s) : s[i].at # "Failed"

LEMMA NotEmpty ==
    ASSUME NEW s \in Seq(Frames), s # <<>>
    PROVE  /\ Len(s) \in Nat \ {0} /\ DOMAIN s = 1..Len(s)
           /\ Len(s) \in DOMAIN s /\ s[Len(s)] \in Frames
BY LenProperties, EmptySeq, ElementOfSeq

\* r is s but for frame k, which is e: it may have moved on if it is the innermost.
MayBecome(s, k, e) ==
    k \in 1..Len(s) => /\ e \in Frames /\ e.fn = s[k].fn /\ e.at # "Failed"
                       /\ k = Len(s) \/ e.at = s[k].at
Updated(s, k, e, r) ==
    /\ r \in Seq(Frames) /\ Len(r) = Len(s) /\ WellCalled(r)
    /\ LoopsOf(r) = LoopsOf(s)
    /\ \A i \in 1..Len(s) : r[i] = IF i = k THEN e ELSE s[i]

LEMMA CallsUpdate ==
    ASSUME NEW s \in Seq(Frames), WellCalled(s), NEW k, NEW e, MayBecome(s, k, e),
           NEW r, r = [s EXCEPT ![k] = e]
    PROVE  Updated(s, k, e, r)
<1>1. Len(s) \in Nat /\ DOMAIN s = 1..Len(s) /\ (s # <<>> => Len(s) # 0)
  BY LenProperties, EmptySeq
<1>2. /\ r \in Seq(Frames) /\ Len(r) = Len(s) /\ DOMAIN r = DOMAIN s
      /\ \A i \in 1..Len(s) : r[i] = IF i = k THEN e ELSE s[i]
  BY <1>1, Update DEF MayBecome
<1>3. LoopsOf(r) = LoopsOf(s)
  BY <1>1, <1>2 DEF LoopsOf, MayBecome
<1>4. r # <<>> => s # <<>>
  BY <1>1, <1>2, EmptySeq
<1>5. r # <<>> => r[1].fn \in {"DoRunLoop", "NativeLoop"}
  BY <1>1, <1>2, <1>4 DEF WellCalled, MayBecome
<1>6. ASSUME NEW i \in 1..(Len(r) - 1) PROVE Calls(r[i], r[i + 1])
  <2> DEFINE n == Len(s)
  <2>0. n \in Nat /\ i \in 1..(n - 1)
    BY <1>1, <1>2
  <2> HIDE DEF n
  <2>01. i \in 1..n /\ i + 1 \in 1..n /\ i # n
    BY ONLY <2>0
  <2>1. i \in 1..Len(s) /\ i + 1 \in 1..Len(s) /\ i # Len(s)
    BY ONLY <2>01 DEF n
  <2>2. Calls(s[i], s[i + 1])
    BY <1>2 DEF WellCalled
  <2>3. r[i].fn = s[i].fn /\ r[i].at = s[i].at /\ r[i + 1].fn = s[i + 1].fn
    BY <1>2, <2>1 DEF MayBecome
  <2> QED
    BY ONLY <2>2, <2>3 DEF Calls
<1>7. \A i \in 1..Len(r) : r[i].at # "Failed"
  BY <1>2 DEF WellCalled, MayBecome
<1> QED
  BY <1>2, <1>3, <1>5, <1>6, <1>7 DEF WellCalled, Updated

Pushed(s, f, r) ==
    /\ r \in Seq(Frames) /\ WellCalled(r)
    /\ r # <<>> /\ Len(r) = Len(s) + 1 /\ r[Len(r)] = f /\ r[Len(s)] = s[Len(s)]
    /\ LoopsOf(r) # {} => LoopsOf(s) # {} \/ f.fn = "DoRunLoop"

LEMMA CallsPush ==
    ASSUME NEW s \in Seq(Frames), s # <<>>, WellCalled(s), NEW f \in Frames,
           f.at # "Failed", Calls(s[Len(s)], f), NEW r, r = Append(s, f)
    PROVE  Pushed(s, f, r)
<1>1. /\ r \in Seq(Frames) /\ Len(r) = Len(s) + 1 /\ r[Len(s) + 1] = f
      /\ \A i \in 1..Len(s) : r[i] = s[i]
  BY AppendProperties
<1>2. /\ Len(s) \in Nat \ {0} /\ DOMAIN s = 1..Len(s) /\ DOMAIN r = 1..Len(r)
  BY <1>1, LenProperties, EmptySeq
<1>3. r # <<>> /\ r[1] = s[1] /\ s[1].fn \in {"DoRunLoop", "NativeLoop"}
  BY <1>1, <1>2, EmptySeq DEF WellCalled
<1>4. ASSUME NEW i \in 1..(Len(r) - 1) PROVE Calls(r[i], r[i + 1])
  <2>1. CASE i = Len(s)
    BY <1>1, <1>2, <2>1
  <2>2. CASE i # Len(s)
    <3> DEFINE n == Len(s)
               m == Len(r)
    <3>0. n \in Nat \ {0} /\ m = n + 1 /\ i \in 1..(m - 1) /\ i # n
      BY <1>1, <1>2, <2>2
    <3> HIDE DEF n, m
    <3>01. i \in 1..(n - 1) /\ i \in 1..n /\ i + 1 \in 1..n
      BY ONLY <3>0
    <3>1. i \in 1..(Len(s) - 1) /\ i \in 1..Len(s) /\ i + 1 \in 1..Len(s)
      BY ONLY <3>01 DEF n
    <3> QED
      BY <1>1, <3>1 DEF WellCalled
  <2> QED
    BY <2>1, <2>2
<1>5. \A i \in 1..Len(r) : r[i].at # "Failed"
  BY <1>1, <1>2 DEF WellCalled
<1>6. LoopsOf(r) # {} => LoopsOf(s) # {} \/ f.fn = "DoRunLoop"
  BY <1>1, <1>2 DEF LoopsOf
<1>7. WellCalled(r)
  BY <1>3, <1>4, <1>5 DEF WellCalled
<1>8. r[Len(r)] = f /\ r[Len(s)] = s[Len(s)]
  <2>1. Len(s) \in 1..Len(s)
    BY <1>2
  <2> QED
    BY <1>1, <2>1
<1> QED
  BY <1>1, <1>3, <1>6, <1>7, <1>8 DEF Pushed

LEMMA CallsPop ==
    ASSUME NEW s \in Seq(Frames), s # <<>>, WellCalled(s),
           NEW r, r = SubSeq(s, 1, Len(s) - 1)
    PROVE  /\ r \in Seq(Frames) /\ WellCalled(r) /\ LoopsOf(r) \subseteq LoopsOf(s)
           /\ Len(r) = Len(s) - 1
           /\ r # <<>> => r[Len(r)] = s[Len(s) - 1] /\ Calls(r[Len(r)], s[Len(s)])
           /\ r = <<>> => s[Len(s)].fn \in {"DoRunLoop", "NativeLoop"}
<1> DEFINE n == Len(s)
<1>1. n \in Nat \ {0} /\ DOMAIN s = 1..n /\ \A i \in 1..n : s[i] \in Frames
  BY LenProperties, EmptySeq, ElementOfSeq
<1>2. /\ r \in Seq(Frames)
      /\ Len(r) = IF 1 <= n - 1 THEN (n - 1) - 1 + 1 ELSE 0
      /\ \A i \in 1..((n - 1) - 1 + 1) : r[i] = s[1 + i - 1]
  <2>1. 1 \in Int /\ n - 1 \in Int /\ \A i \in 1..(n - 1) : s[i] \in Frames
    BY <1>1
  <2> HIDE DEF n
  <2> QED
    BY <2>1, SubSeqProperties DEF n
<1>3. Len(r) = n - 1 /\ DOMAIN r = 1..(n - 1) /\ \A i \in 1..(n - 1) : r[i] = s[i]
  BY <1>1, <1>2, LenProperties
<1>4. LoopsOf(r) \subseteq LoopsOf(s)
  BY <1>1, <1>3 DEF LoopsOf
<1>5. r # <<>> <=> n # 1
  <2>1. r # <<>> <=> Len(r) # 0
    BY <1>2, EmptySeq, LenProperties
  <2> HIDE DEF n
  <2> QED
    BY <1>1, <1>3, <2>1
<1>6. WellCalled(r)
  <2>1. r # <<>> => r[1].fn \in {"DoRunLoop", "NativeLoop"}
    BY <1>1, <1>3, <1>5 DEF WellCalled
  <2>2. ASSUME NEW i \in 1..(Len(r) - 1) PROVE Calls(r[i], r[i + 1])
    <3>1. i \in 1..(n - 1) /\ i + 1 \in 1..(n - 1)
      BY <1>1, <1>3
    <3> QED
      BY <1>3, <3>1 DEF WellCalled
  <2>3. \A i \in 1..Len(r) : r[i].at # "Failed"
    BY <1>1, <1>3 DEF WellCalled
  <2> QED
    BY <2>1, <2>2, <2>3 DEF WellCalled
<1>7. r # <<>> => r[Len(r)] = s[n - 1] /\ Calls(r[Len(r)], s[n])
  <2> SUFFICES ASSUME r # <<>> PROVE r[Len(r)] = s[n - 1] /\ Calls(r[Len(r)], s[n])
    OBVIOUS
  <2>1. n - 1 \in 1..(n - 1) /\ (n - 1) + 1 = n
    BY <1>1, <1>5
  <2>2. Calls(s[n - 1], s[(n - 1) + 1])
    BY <2>1 DEF WellCalled
  <2> QED
    BY <1>3, <2>1, <2>2
<1>8. r = <<>> => s[n].fn \in {"DoRunLoop", "NativeLoop"}
  BY <1>1, <1>5 DEF WellCalled
<1> QED
  BY <1>2, <1>3, <1>4, <1>6, <1>7, <1>8

\* What the step leaves on the stack: no run loop that was not there, and the
\* innermost activation, of function fn at label l.
NoNewLoop == RunLoops' # {} => RunLoops # {}
TopIs(fn, l) == stack' # <<>> /\ Top'.fn = fn /\ Top'.at = l

\* Returning to the caller.
Returns == Return \/ (\E b \in BOOLEAN : ReturnMore(b)) \/ (\E n \in RunTimes : ReturnInfo(n))
Returned ==
    /\ WellCalled(stack') /\ NoNewLoop
    /\ stack' # <<>> => Calls(Top', Top)
    /\ stack' = <<>> => Top.fn \in {"DoRunLoop", "NativeLoop"}

\* Only the innermost activation has changed: it is at l.
AtLabel(l, r) ==
    /\ r \in Seq(Frames) /\ Len(r) = Len(stack) /\ r # <<>> /\ WellCalled(r)
    /\ LoopsOf(r) = LoopsOf(stack)
    /\ r[Len(r)].fn = Top.fn /\ r[Len(r)].at = l

LEMMA CallsTop ==
    ASSUME TypeOK, stack # <<>>, WellCalled(stack), NEW l \in Labels \ {"Failed"}, NEW r,
           \/ r = [stack EXCEPT ![Len(stack)].at = l]
           \/ \E b \in BOOLEAN : r = [stack EXCEPT ![Len(stack)].at = l, ![Len(stack)].more = b]
           \/ \E b \in BOOLEAN : r = [stack EXCEPT ![Len(stack)].at = l, ![Len(stack)].more = @ \/ b]
           \/ \E m \in Messages : r = [stack EXCEPT ![Len(stack)].at = l, ![Len(stack)].msg = m]
    PROVE  AtLabel(l, r)
<1> DEFINE n == Len(stack)
<1>1. /\ n \in Nat \ {0} /\ DOMAIN stack = 1..n /\ n \in DOMAIN stack /\ stack[n] \in Frames
      /\ stack \in Seq(Frames) /\ Top = stack[n] /\ WellCalled(stack)
  BY LenProperties, EmptySeq, ElementOfSeq DEF TypeOK, Top
<1>2. ASSUME NEW e \in Frames, e.fn = stack[n].fn, e.at = l, r = [stack EXCEPT ![n] = e]
      PROVE  AtLabel(l, r)
  <2>1. MayBecome(stack, n, e)
    BY <1>2 DEF MayBecome
  <2>2. /\ r \in Seq(Frames) /\ Len(r) = n /\ WellCalled(r) /\ LoopsOf(r) = LoopsOf(stack)
        /\ r[n] = e
    <3> HIDE DEF n
    <3>1. Updated(stack, n, e, r)
      BY ONLY <1>1, <1>2, <2>1, CallsUpdate
    <3>2. n \in 1..Len(stack) /\ Len(stack) = n
      BY <1>1 DEF n
    <3> QED
      BY <3>1, <3>2 DEF Updated
  <2>3. r # <<>>
    BY <1>1, <2>2, EmptySeq
  <2> QED
    BY <1>1, <1>2, <2>2, <2>3 DEF AtLabel
<1>3. ASSUME r = [stack EXCEPT ![n].at = l]
      PROVE  \E e \in Frames : e.fn = stack[n].fn /\ e.at = l /\ r = [stack EXCEPT ![n] = e]
  <2>1. r = [stack EXCEPT ![n] = [stack[n] EXCEPT !.at = l]]
    BY <1>1, <1>3
  <2> QED
    BY <1>1, <2>1 DEF Frames
<1>4. ASSUME NEW b \in BOOLEAN, r = [stack EXCEPT ![n].at = l, ![n].more = b]
      PROVE  \E e \in Frames : e.fn = stack[n].fn /\ e.at = l /\ r = [stack EXCEPT ![n] = e]
  <2>1. r = [stack EXCEPT ![n] = [stack[n] EXCEPT !.at = l, !.more = b]]
    BY <1>1, <1>4
  <2> QED
    BY <1>1, <2>1 DEF Frames
<1>5. ASSUME NEW b \in BOOLEAN, r = [stack EXCEPT ![n].at = l, ![n].more = @ \/ b]
      PROVE  \E e \in Frames : e.fn = stack[n].fn /\ e.at = l /\ r = [stack EXCEPT ![n] = e]
  <2>1. r = [stack EXCEPT ![n] = [stack[n] EXCEPT !.at = l, !.more = @ \/ b]]
    BY <1>1, <1>5
  <2> QED
    BY <1>1, <2>1 DEF Frames
<1>6. ASSUME NEW m \in Messages, r = [stack EXCEPT ![n].at = l, ![n].msg = m]
      PROVE  \E e \in Frames : e.fn = stack[n].fn /\ e.at = l /\ r = [stack EXCEPT ![n] = e]
  <2>1. r = [stack EXCEPT ![n] = [stack[n] EXCEPT !.at = l, !.msg = m]]
    BY <1>1, <1>6
  <2> QED
    BY <1>1, <2>1 DEF Frames
<1> QED
  BY <1>2, <1>3, <1>4, <1>5, <1>6

LEMMA CallsGoto ==
    ASSUME TypeOK, stack # <<>>, WellCalled(stack), NEW l \in Labels \ {"Failed"}, Goto(l)
    PROVE  WellCalled(stack') /\ NoNewLoop /\ TopIs(Top.fn, l)
<1>1. stack' = [stack EXCEPT ![Len(stack)].at = l]
  BY DEF Goto
<1>2. TypeOK /\ stack # <<>> /\ WellCalled(stack) /\ l \in Labels \ {"Failed"}
  OBVIOUS
<1>3. AtLabel(l, stack')
  BY ONLY <1>1, <1>2, CallsTop
<1> QED
  BY <1>3 DEF AtLabel, NoNewLoop, RunLoops, LoopsOf, TopIs, Top

\* The caller goes on at l.
Calling(fn, l, g) == \E f \in Frames : f.fn = fn /\ f.at = l /\ Calls(f, g)

\* g is the stack with its innermost activation at l.
Marked(l, g) ==
    \/ g = [stack EXCEPT ![Len(stack)].at = l]
    \/ \E b \in BOOLEAN : g = [stack EXCEPT ![Len(stack)].at = l, ![Len(stack)].more = @ \/ b]
Grown(f, r) ==
    /\ WellCalled(r) /\ r # <<>> /\ r[Len(r)] = f
    /\ Len(r) > 1 /\ r[Len(r) - 1].fn = Top.fn
    /\ LoopsOf(r) # {} => LoopsOf(stack) # {} \/ f.fn = "DoRunLoop"

LEMMA CallsCall ==
    ASSUME TypeOK, stack # <<>>, WellCalled(stack), NEW l \in Labels \ {"Failed"},
           NEW f \in Frames, f.at # "Failed", NEW g, Marked(l, g),
           Calling(Top.fn, l, f)
    PROVE  Grown(f, Append(g, f))
<1>1. /\ g \in Seq(Frames) /\ Len(g) = Len(stack) /\ g # <<>> /\ WellCalled(g)
      /\ LoopsOf(g) = LoopsOf(stack) /\ g[Len(g)].fn = Top.fn /\ g[Len(g)].at = l
  BY CallsTop DEF AtLabel, Marked
<1> DEFINE r == Append(g, f)
<1>2. Calls(g[Len(g)], f)
  <2>1. PICK h \in Frames : h.fn = Top.fn /\ h.at = l /\ Calls(h, f)
    BY DEF Calling
  <2> QED
    BY <1>1, <2>1 DEF Calls
<1>3. /\ WellCalled(r) /\ r # <<>> /\ Len(r) = Len(g) + 1 /\ r[Len(r)] = f
      /\ r[Len(g)] = g[Len(g)]
      /\ LoopsOf(r) # {} => LoopsOf(g) # {} \/ f.fn = "DoRunLoop"
  <2>1. r = Append(g, f) /\ f \in Frames /\ f.at # "Failed"
    OBVIOUS
  <2>2. Pushed(g, f, r)
    BY ONLY <1>1, <1>2, <2>1, CallsPush
  <2> QED
    BY <2>2 DEF Pushed
<1>4. Len(g) \in Nat \ {0}
  BY <1>1, LenProperties, EmptySeq
<1> QED
  BY <1>1, <1>3, <1>4 DEF Grown

LEMMA CallsReturn ==
    ASSUME TypeOK, stack # <<>>, WellCalled(stack), Returns
    PROVE  /\ Returned
           /\ \A n \in RunTimes : ReturnInfo(n) /\ stack' # <<>> => Top'.info = n
<1> DEFINE p == SubSeq(stack, 1, Len(stack) - 1)
           k == Len(stack) - 1
<1>0. stack \in Seq(Frames)
  BY DEF TypeOK
<1>1. /\ p \in Seq(Frames) /\ WellCalled(p) /\ LoopsOf(p) \subseteq LoopsOf(stack) /\ Len(p) = k
      /\ p # <<>> => Calls(p[Len(p)], Top)
      /\ p = <<>> => Top.fn \in {"DoRunLoop", "NativeLoop"}
  BY <1>0, CallsPop DEF Top
<1>2. /\ DOMAIN p = 1..Len(p) /\ Len(p) \in Nat /\ (p # <<>> <=> Len(p) # 0)
      /\ \A i \in DOMAIN p : p[i] \in Frames
  BY <1>1, LenProperties, ElementOfSeq, EmptySeq
<1> HIDE DEF p, k
<1>3. ASSUME NEW e, stack' = [p EXCEPT ![k] = e],
             k \in DOMAIN p => e \in Frames /\ e.fn = p[k].fn /\ e.at = p[k].at
      PROVE  Returned /\ (stack' # <<>> => Top' = e)
  <2>1. MayBecome(p, k, e)
    BY <1>1, <1>2, <1>3 DEF WellCalled, MayBecome
  <2>2. /\ stack' \in Seq(Frames) /\ Len(stack') = Len(p) /\ WellCalled(stack')
        /\ LoopsOf(stack') = LoopsOf(p)
        /\ \A i \in 1..Len(p) : stack'[i] = IF i = k THEN e ELSE p[i]
    <3>1. Updated(p, k, e, stack')
      BY ONLY <1>1, <1>3, <2>1, CallsUpdate
    <3> QED
      BY <3>1 DEF Updated
  <2>3. stack' # <<>> <=> p # <<>>
    BY <1>2, <2>2, EmptySeq, LenProperties
  <2>4. p # <<>> => k \in 1..Len(p) /\ stack'[Len(stack')] = e /\ p[Len(p)] = p[k]
    BY <1>1, <1>2, <2>2
  <2>5. p # <<>> => e.fn = p[Len(p)].fn /\ e.at = p[Len(p)].at
    BY <1>2, <1>3, <2>4
  <2>6. stack' # <<>> => Calls(Top', Top) /\ Top' = e
    <3> SUFFICES ASSUME p # <<>> PROVE Calls(stack'[Len(stack')], Top) /\ stack'[Len(stack')] = e
      BY <2>3 DEF Top
    <3>1. Calls(p[Len(p)], Top)
      BY <1>1
    <3> QED
      BY ONLY <2>4, <2>5, <3>1, p # <<>> DEF Calls
  <2>7. NoNewLoop
    BY <1>1, <2>2 DEF NoNewLoop, RunLoops, LoopsOf
  <2> QED
    BY <1>1, <2>2, <2>3, <2>6, <2>7 DEF Returned
<1>4. ASSUME stack' = p PROVE Returned
  <2>1. NoNewLoop
    BY <1>1, <1>4 DEF NoNewLoop, RunLoops, LoopsOf
  <2> QED
    BY <1>1, <1>4, <2>1 DEF Returned, Top
<1>5. ASSUME NEW b \in BOOLEAN, stack' = [p EXCEPT ![k].more = @ \/ b]
      PROVE  Returned
  <2> DEFINE e == [p[k] EXCEPT !.more = @ \/ b]
  <2>1. stack' = [p EXCEPT ![k] = e]
    BY <1>5
  <2>2. k \in DOMAIN p => e \in Frames /\ e.fn = p[k].fn /\ e.at = p[k].at
    BY <1>2 DEF Frames
  <2> HIDE DEF e
  <2> QED
    BY <1>3, <2>1, <2>2
<1>6. ASSUME NEW n \in RunTimes, stack' = [p EXCEPT ![k].info = n]
      PROVE  Returned /\ (stack' # <<>> => Top'.info = n)
  <2> DEFINE e == [p[k] EXCEPT !.info = n]
  <2>1. stack' = [p EXCEPT ![k] = e]
    BY <1>6
  <2>2. k \in DOMAIN p => e \in Frames /\ e.fn = p[k].fn /\ e.at = p[k].at /\ e.info = n
    BY <1>2 DEF Frames
  <2>3. stack' # <<>> => k \in DOMAIN p
    <3>1. stack' \in Seq(Frames) /\ DOMAIN stack' = DOMAIN p
      <4>1. Returns /\ TypeOK /\ stack # <<>>
        OBVIOUS
      <4> QED
        BY <1>6, <4>1, StackSteps DEF Returns
    <3>2. stack' # <<>> => Len(stack') \in DOMAIN stack'
      BY ONLY <3>1, NotEmpty
    <3> QED
      BY <1>1, <1>2, <3>1, <3>2
  <2> HIDE DEF e
  <2> QED
    BY <1>3, <2>1, <2>2, <2>3
<1>7. /\ Return => stack' = p
      /\ \A b \in BOOLEAN : ReturnMore(b) => stack' = [p EXCEPT ![k].more = @ \/ b]
      /\ \A n \in RunTimes : ReturnInfo(n) => stack' = [p EXCEPT ![k].info = n]
  BY DEF Return, ReturnMore, ReturnInfo, Popped, p, k
<1>8. Returned
  BY <1>4, <1>5, <1>6, <1>7 DEF Returns
<1>9. ASSUME NEW n \in RunTimes, ReturnInfo(n), stack' # <<>>
      PROVE  Top'.info = n
  BY <1>6, <1>7, <1>9
<1> QED
  BY <1>8, <1>9

\* The innermost activation has moved on to l; or it has called fn, which starts at l.
Going(l) == WellCalled(stack') /\ NoNewLoop /\ TopIs(Top.fn, l)
Called(fn, l) ==
    /\ WellCalled(stack') /\ TopIs(fn, l)
    /\ Len(stack') > 1 /\ stack'[Len(stack') - 1].fn = Top.fn
    /\ fn # "DoRunLoop" => NoNewLoop

LEMMA CallLabels ==
    /\ {"Status", "Peek", "Dispatched", "Worked", "Idle", "Wait", "WaitPeek", "WaitNew",
        "Start", "Clear", "Reschedule", "Done", "Post"} = Labels \ {"Failed"}
    /\ \A fn \in Functions, l \in Labels \ {"Failed"} :
           /\ Frame(fn, l) \in Frames /\ Frame(fn, l).fn = fn /\ Frame(fn, l).at = l
           /\ Frame(fn, l).at # "Failed"
    /\ {"DoRunLoop", "NativeLoop", "HandleWork", "HandleTimer", "Replace", "ScheduleWork",
        "DoWork", "Handler"} = Functions
<1>1. \A fn \in Functions, l \in Labels \ {"Failed"} :
          /\ Frame(fn, l) \in Frames /\ Frame(fn, l).fn = fn /\ Frame(fn, l).at = l
          /\ Frame(fn, l).at # "Failed"
  BY FrameType DEF Frame
<1>2. {"Status", "Peek", "Dispatched", "Worked", "Idle", "Wait", "WaitPeek", "WaitNew",
       "Start", "Clear", "Reschedule", "Done", "Post"} = Labels \ {"Failed"}
  BY DEF Labels
<1> QED
  BY <1>1, <1>2 DEF Functions

LEMMA CallsCalled ==
    ASSUME TypeOK, stack # <<>>, WellCalled(stack), NEW l \in Labels \ {"Failed"},
           NEW fn \in Functions, NEW at \in Labels \ {"Failed"},
           Calls(Frame(Top.fn, l), Frame(fn, at)),
           \/ Call(Frame(fn, at), l)
           \/ \E b \in BOOLEAN :
                  stack' = Append([stack EXCEPT ![Len(stack)].at = l,
                                                ![Len(stack)].more = @ \/ b], Frame(fn, at))
    PROVE  Called(fn, at)
<1> DEFINE f == Frame(fn, at)
<1>1. f \in Frames /\ f.fn = fn /\ f.at = at /\ f.at # "Failed"
  BY CallLabels
<1>2. Top \in Frames
  BY NotEmpty DEF TypeOK, Top
<1>3. Calling(Top.fn, l, f)
  <2>1. Frame(Top.fn, l) \in Frames /\ Frame(Top.fn, l).fn = Top.fn /\ Frame(Top.fn, l).at = l
    BY <1>2, CallLabels DEF Frames
  <2> QED
    BY <2>1 DEF Calling
<1> HIDE DEF f
<1>4. PICK g : Marked(l, g) /\ stack' = Append(g, f)
  <2>1. \E g : Marked(l, g) /\ stack' = Append(g, f)
    BY DEF Call, Marked, f
  <2> QED
    BY <2>1
<1>5. TypeOK /\ stack # <<>> /\ WellCalled(stack) /\ l \in Labels \ {"Failed"}
  OBVIOUS
<1>6. Grown(f, stack')
  <2>1. Grown(f, Append(g, f))
    BY ONLY <1>1, <1>3, <1>4, <1>5, CallsCall
  <2> QED
    BY <1>4, <2>1
<1> QED
  BY <1>1, <1>6 DEF Grown, Called, TopIs, Top, NoNewLoop, RunLoops, LoopsOf

\* ScheduleWork() and ScheduleNativeTimer(), called on the bound thread.
LEMMA CallsAsk ==
    ASSUME TypeOK, stack # <<>>, WellCalled(stack), NEW l \in Labels \ {"Failed"},
           Calls(Frame(Top.fn, l), Frame("ScheduleWork", "Post"))
    PROVE  /\ CallScheduleWork(l) => /\ work_scheduled' = TRUE
                                     /\ WellCalled(stack') /\ NoNewLoop
                                     /\ TopIs(Top.fn, l) \/ TopIs("ScheduleWork", "Post")
           /\ \A t \in RunTimes : CallScheduleNativeTimer(t, l) =>
                 /\ WellCalled(stack') /\ NoNewLoop
                 /\ TopIs(Top.fn, l) \/ TopIs("ScheduleWork", "Post")
                 /\ \/ work_scheduled' = TRUE
                    \/ t \in {Never, installed_native_timer} /\ UNCHANGED installed_native_timer
                    \/ t > now /\ installed_native_timer' = t
                    \/ Len(posted) = QueueCapacity
<1>1. CallScheduleWork(l) => /\ work_scheduled' = TRUE
                             /\ WellCalled(stack') /\ NoNewLoop
                             /\ TopIs(Top.fn, l) \/ TopIs("ScheduleWork", "Post")
  <2>1. Goto(l) => Going(l)
    BY CallsGoto DEF Going
  <2>2. Call(Frame("ScheduleWork", "Post"), l) => Called("ScheduleWork", "Post")
    BY CallsCalled, CallLabels
  <2> QED
    BY <2>1, <2>2 DEF CallScheduleWork, Going, Called
<1>2. ASSUME NEW t \in RunTimes, CallScheduleNativeTimer(t, l)
      PROVE  /\ WellCalled(stack') /\ NoNewLoop
             /\ TopIs(Top.fn, l) \/ TopIs("ScheduleWork", "Post")
             /\ \/ work_scheduled' = TRUE
                \/ t \in {Never, installed_native_timer} /\ UNCHANGED installed_native_timer
                \/ t > now /\ installed_native_timer' = t
                \/ Len(posted) = QueueCapacity
  <2>1. Goto(l) => Going(l)
    BY CallsGoto DEF Going
  <2>2. Goto(l) \/ CallScheduleWork(l)
    BY <1>2 DEF CallScheduleNativeTimer
  <2>3. \/ CallScheduleWork(l)
        \/ t \in {Never, installed_native_timer} /\ UNCHANGED installed_native_timer
        \/ t > now /\ installed_native_timer' = t
        \/ Len(posted) = QueueCapacity
    BY <1>2 DEF CallScheduleNativeTimer
  <2> QED
    BY <1>1, <2>1, <2>2, <2>3 DEF Going
<1> QED
  BY <1>1, <1>2

(***************************************************************************)
(* Between: the innermost activation is about to start a DoWork(), to ask  *)
(* for another, to set the timer, or to leave the native loop's reach.     *)
(* Everywhere else the timer covers the delegate's next delayed task.       *)
(***************************************************************************)
Between ==
    /\ stack # <<>>
    /\ \/ Top.fn = "DoRunLoop" /\ Top.at \in {"Status", "Dispatched", "Worked"}
       \/ Top.fn = "Replace" /\ Top.at \in {"Reschedule", "Done"}
       \/ Top.fn = "HandleWork" /\ Top.at \in {"Dispatched", "Worked"}
       \/ Top.fn = "HandleTimer" /\ Top.at = "Worked"
       \/ /\ Top.fn = "HandleTimer" /\ Top.at = "Start"
          /\ Len(stack) > 1 /\ stack[Len(stack) - 1].fn = "Replace"

Covered ==
    in_native_loop /\ ~work_scheduled /\ RunLoops # {}
        => due = Never \/ installed_native_timer \in 1..due

\* What a handler knows of its DoWork() is what the delegate wants.
AtHandlerWorked == stack # <<>> /\ Top.fn \in {"HandleWork", "HandleTimer"} /\ Top.at = "Worked"
Informed == AtHandlerWorked => due = Top.info

TimerKnown ==
    /\ WellCalled(stack)
    /\ \A t \in Threads : pc[t] # "Failed"
    /\ Informed
    /\ Between \/ Covered

\* The environment of the theorem: the Windows queue always has room for one more.
QueueHasRoom == Len(posted) < QueueCapacity

LEMMA StillCovered ==
    /\ Covered /\ NoNewLoop /\ (in_native_loop' => in_native_loop)
       /\ (work_scheduled => work_scheduled') /\ due' = due
       /\ installed_native_timer' = installed_native_timer => Covered'
    /\ work_scheduled' => Covered'
    /\ ~in_native_loop' => Covered'
    /\ due' = Never => Covered'
    /\ RunLoops' = {} => Covered'
BY DEF Covered, NoNewLoop, Never

\* Neither a statement nor a return but DoWork()'s leads to where a handler is informed.
LEMMA NotInformed ==
    /\ \A fn, l : TopIs(fn, l) /\ l # "Worked" => Informed'
    /\ Returned /\ Top.fn # "DoWork" => Informed'
    /\ stack' = <<>> => Informed'
<1>1. ASSUME NEW fn, NEW l, TopIs(fn, l), l # "Worked" PROVE Informed'
  BY <1>1 DEF TopIs, Informed, AtHandlerWorked
<1>2. ASSUME Returned, Top.fn # "DoWork", stack' # <<>> PROVE Informed'
  <2>1. Calls(Top', Top)
    BY <1>2 DEF Returned
  <2>2. Top'.at = "Worked" => Top'.fn \notin {"HandleWork", "HandleTimer"}
    BY ONLY <1>2, <2>1 DEF Calls
  <2> QED
    BY <2>2 DEF Informed, AtHandlerWorked
<1>3. stack' = <<>> => Informed'
  BY DEF Informed, AtHandlerWorked
<1> QED
  BY <1>1, <1>2, <1>3

LEMMA TimerStep ==
    TypeOK /\ SingleWorkToken /\ QueueHasRoom /\ TimerKnown /\ [Next]_vars => TimerKnown'
<1> SUFFICES ASSUME TypeOK, SingleWorkToken, QueueHasRoom, TimerKnown, [Next]_vars
             PROVE  TimerKnown'
  OBVIOUS
<1> USE DEF At
<1>i. WellCalled(stack) /\ Informed /\ \A t \in Threads : pc[t] # "Failed"
  BY DEF TimerKnown
<1>c. ~Between => Covered
  BY DEF TimerKnown
<1>r. Len(posted) < QueueCapacity /\ Len(posted) # QueueCapacity
  <2>1. Len(posted) \in Nat
    BY LenProperties DEF TypeOK
  <2> QED
    BY <2>1, CapacityAssumption DEF QueueHasRoom
<1>k. WellCalled(stack') /\ Informed' /\ (Between' \/ Covered')
          /\ (pc' = pc \/ \A t \in Threads : pc'[t] # "Failed")
        => TimerKnown'
  <2>1. pc' = pc => \A t \in Threads : pc'[t] # "Failed"
    BY <1>i
  <2> QED
    BY <2>1 DEF TimerKnown
<1>h. stack # <<>> /\ Holding(Top) => work_scheduled
  <2>1. stack # <<>> => Len(stack) \in DOMAIN stack
    BY NotEmpty DEF TypeOK
  <2> QED
    BY <2>1 DEF SingleWorkToken, OnStack, Top
<1>s. stack' = stack /\ due' = due =>
          /\ WellCalled(stack') /\ NoNewLoop /\ Informed' /\ (Between => Between')
  BY <1>i DEF NoNewLoop, RunLoops, Informed, AtHandlerWorked, Between, Top
<1>q. ASSUME stack' = stack, due' = due, in_native_loop' => in_native_loop,
             work_scheduled => work_scheduled', installed_native_timer' = installed_native_timer,
             pc' = pc \/ \A t \in Threads : pc'[t] # "Failed"
      PROVE  TimerKnown'
  <2>1. Covered => Covered'
    BY <1>q, <1>s, StillCovered
  <2> QED
    BY <1>q, <1>s, <1>c, <1>k, <2>1
<1>g. ASSUME stack # <<>>, NEW l \in Labels \ {"Failed"}, l # "Worked", Goto(l)
      PROVE  WellCalled(stack') /\ NoNewLoop /\ TopIs(Top.fn, l) /\ Informed'
  BY <1>g, <1>i, CallsGoto, NotInformed
<1>d. ASSUME stack # <<>>, NEW fn \in Functions, NEW l \in Labels \ {"Failed"},
             NEW at \in Labels \ {"Failed"}, at # "Worked",
             Calls(Frame(Top.fn, l), Frame(fn, at)), Call(Frame(fn, at), l)
      PROVE  Called(fn, at) /\ Informed'
  <2>1. Called(fn, at)
    BY <1>d, <1>i, CallsCalled
  <2> QED
    BY <1>d, <2>1, NotInformed DEF Called
<1>e. ASSUME stack # <<>>, Returns
      PROVE  Returned /\ (Top.fn # "DoWork" => Informed')
  BY <1>e, <1>i, CallsReturn, NotInformed
<1>v. Return => Returns
  BY DEF Returns
<1>a. ASSUME stack # <<>>, NEW l \in Labels \ {"Failed"}, l # "Worked",
             Calls(Frame(Top.fn, l), Frame("ScheduleWork", "Post")), CallScheduleWork(l)
      PROVE  work_scheduled' /\ WellCalled(stack') /\ NoNewLoop /\ Informed'
  <2>1. /\ work_scheduled' = TRUE /\ WellCalled(stack') /\ NoNewLoop
        /\ TopIs(Top.fn, l) \/ TopIs("ScheduleWork", "Post")
    BY <1>a, <1>i, CallsAsk
  <2> QED
    BY <1>a, <2>1, NotInformed
<1>n. ASSUME stack # <<>>, NEW l \in Labels \ {"Failed"}, l # "Worked", NEW t \in RunTimes,
             Calls(Frame(Top.fn, l), Frame("ScheduleWork", "Post")),
             CallScheduleNativeTimer(t, l), due' = t
      PROVE  WellCalled(stack') /\ Informed' /\ (t # Immediate => Covered')
  <2>1. /\ WellCalled(stack') /\ NoNewLoop
        /\ TopIs(Top.fn, l) \/ TopIs("ScheduleWork", "Post")
        /\ \/ work_scheduled' = TRUE
           \/ t \in {Never, installed_native_timer} /\ UNCHANGED installed_native_timer
           \/ t > now /\ installed_native_timer' = t
           \/ Len(posted) = QueueCapacity
    BY <1>n, <1>i, CallsAsk
  <2>2. Informed'
    BY <1>n, <2>1, NotInformed
  <2>3. ASSUME t # Immediate PROVE Covered'
    <3>1. t \in 1..t
      BY <2>3, BoundAssumption DEF RunTimes, Immediate, Never
    <3> QED
      BY ONLY <1>n, <1>r, <2>1, <3>1 DEF Covered, Never
  <2> QED
    BY <2>1, <2>2, <2>3
<1>l. /\ {"Status", "Peek", "Dispatched", "Worked", "Idle", "Wait", "WaitPeek", "WaitNew",
           "Start", "Clear", "Reschedule", "Done", "Post"} = Labels \ {"Failed"}
      /\ {"DoRunLoop", "NativeLoop", "HandleWork", "HandleTimer", "Replace", "ScheduleWork",
           "DoWork", "Handler"} = Functions
  BY CallLabels
<1>1. CASE ScheduleWorkPost
  <2>1. stack # <<>> /\ Top.fn = "ScheduleWork" /\ Top.at = "Post" /\ Return /\ pc' = pc
    BY <1>1, <1>r DEF ScheduleWorkPost
  <2>2. work_scheduled'
    BY <1>1, <1>h, <2>1 DEF ScheduleWorkPost, Holding, pumpVars
  <2>3. WellCalled(stack') /\ Informed'
    BY <1>e, <1>v, <2>1 DEF Returned
  <2> QED
    BY <1>k, <2>1, <2>2, <2>3, StillCovered
<1>2. CASE ScheduleWorkFailed
  <2>1. stack # <<>> /\ Top.at = "Failed"
    BY <1>2 DEF ScheduleWorkFailed
  <2>2. Len(stack) \in 1..Len(stack)
    BY <2>1, NotEmpty DEF TypeOK
  <2> QED
    BY <1>i, <2>1, <2>2 DEF WellCalled, Top
<1>3. CASE LoopStatus
  <2>1. /\ stack # <<>> /\ "Peek" \in Labels \ {"Failed"} /\ ~in_native_loop' /\ pc' = pc
        /\ \E b \in BOOLEAN :
               stack' = [stack EXCEPT ![Len(stack)].at = "Peek", ![Len(stack)].more = b]
    <3>1. (sent > 0) \in BOOLEAN
      OBVIOUS
    <3> QED
      BY <1>3, <1>l, <3>1 DEF LoopStatus
  <2>2. AtLabel("Peek", stack')
    BY <1>i, <2>1, CallsTop
  <2>3. WellCalled(stack') /\ TopIs(Top.fn, "Peek")
    BY <2>2 DEF AtLabel, TopIs, Top
  <2> QED
    BY <1>k, <2>1, <2>3, StillCovered, NotInformed
<1>4. CASE LoopPeek
  <2>1. /\ stack # <<>> /\ Top.fn = "DoRunLoop" /\ Top.at = "Peek" /\ pc' = pc
        /\ UNCHANGED <<in_native_loop, work_scheduled, due, installed_native_timer>>
    BY <1>4 DEF LoopPeek, DispatchSent, pumpVars, timerVars, histVars
  <2>2. Covered
    BY <1>c, <2>1 DEF Between
  <2>3. WellCalled(stack') /\ NoNewLoop /\ Informed'
    <3>1. CASE DispatchSent("Peek")
      <4>1. Call(Frame("Handler", "Start"), "Peek")
        BY <3>1 DEF DispatchSent
      <4>2. Calls(Frame(Top.fn, "Peek"), Frame("Handler", "Start"))
        BY <2>1 DEF Calls, Frame
      <4>3. Called("Handler", "Start") /\ Informed'
        BY <1>d, <1>l, <2>1, <4>1, <4>2
      <4> QED
        BY <4>3 DEF Called
    <3>2. CASE ~DispatchSent("Peek")
      <4> DEFINE plausible(b) == [stack EXCEPT ![Len(stack)].at = "Dispatched",
                                               ![Len(stack)].more = @ \/ b]
      <4>1. \/ \E b \in BOOLEAN : stack' = plausible(b)
            \/ \E b \in BOOLEAN : stack' = Append(plausible(b), Frame("Replace", "Peek"))
            \/ \E b \in BOOLEAN : stack' = Append(plausible(b), Frame("Handler", "Start"))
            \/ \E b \in BOOLEAN : stack' = Append(plausible(b), Frame("HandleTimer", "Start"))
        <5>1. CASE NextMessage = "HaveWork"
          BY <1>4, <3>2, <5>1 DEF LoopPeek
        <5>2. CASE NextMessage = "Native"
          BY <1>4, <3>2, <5>2 DEF LoopPeek
        <5>3. CASE NextMessage = "Timer"
          BY <1>4, <3>2, <5>3 DEF LoopPeek
        <5>4. CASE NextMessage \notin {"HaveWork", "Native", "Timer"}
          BY <1>4, <3>2, <5>4 DEF LoopPeek
        <5> QED
          BY <5>1, <5>2, <5>3, <5>4
      <4>2. ASSUME NEW b \in BOOLEAN, stack' = plausible(b)
            PROVE  WellCalled(stack') /\ NoNewLoop /\ TopIs(Top.fn, "Dispatched")
        <5>1. AtLabel("Dispatched", stack')
          BY <1>i, <1>l, <2>1, <4>2, CallsTop
        <5> QED
          BY <5>1 DEF AtLabel, TopIs, Top, NoNewLoop, RunLoops, LoopsOf
      <4>3. \A fn \in {"Handler", "HandleTimer"} :
                Calls(Frame(Top.fn, "Dispatched"), Frame(fn, "Start"))
        BY <2>1 DEF Calls, Frame
      <4>4. Calls(Frame(Top.fn, "Dispatched"), Frame("Replace", "Peek"))
        BY <2>1 DEF Calls, Frame
      <4>5. ASSUME NEW b \in BOOLEAN, NEW fn \in {"Handler", "HandleTimer"},
                   stack' = Append(plausible(b), Frame(fn, "Start"))
            PROVE  Called(fn, "Start")
        BY <1>i, <1>l, <2>1, <4>3, <4>5, CallsCalled
      <4>6. ASSUME NEW b \in BOOLEAN, stack' = Append(plausible(b), Frame("Replace", "Peek"))
            PROVE  Called("Replace", "Peek")
        BY <1>i, <1>l, <2>1, <4>4, <4>6, CallsCalled
      <4> HIDE DEF plausible
      <4>7. \/ WellCalled(stack') /\ NoNewLoop /\ TopIs(Top.fn, "Dispatched")
            \/ Called("Replace", "Peek") \/ Called("Handler", "Start")
            \/ Called("HandleTimer", "Start")
        BY <4>1, <4>2, <4>5, <4>6
      <4> QED
        BY <4>7, NotInformed DEF Called
    <3> QED
      BY <3>1, <3>2
  <2> QED
    BY <1>k, <2>1, <2>2, <2>3, StillCovered
<1>5. CASE LoopDispatched
  <2>1. stack # <<>> /\ Top.fn = "DoRunLoop" /\ ~in_native_loop' /\ pc' = pc
    BY <1>5 DEF LoopDispatched
  <2>2. Return \/ Call(Frame("DoWork", "Start"), "Worked")
    BY <1>5 DEF LoopDispatched, BeginDoWork
  <2>3. Calls(Frame(Top.fn, "Worked"), Frame("DoWork", "Start"))
    BY <2>1 DEF Calls, Frame
  <2>4. WellCalled(stack') /\ Informed'
    BY <1>d, <1>e, <1>l, <1>v, <2>1, <2>2, <2>3 DEF Returned, Called
  <2> QED
    BY <1>k, <2>1, <2>4, StillCovered
<1>6. CASE LoopWorked
  <2>1. /\ stack # <<>> /\ Top.fn = "DoRunLoop" /\ ~in_native_loop' /\ pc' = pc
        /\ Return \/ Goto("Status") \/ Goto("Idle")
    BY <1>6 DEF LoopWorked
  <2>2. WellCalled(stack') /\ Informed'
    BY <1>e, <1>g, <1>l, <1>v, <2>1 DEF Returned
  <2> QED
    BY <1>k, <2>1, <2>2, StillCovered
<1>7. CASE LoopIdle
  <2>1. /\ stack # <<>> /\ Top.fn = "DoRunLoop" /\ Top.at = "Idle" /\ pc' = pc
        /\ UNCHANGED <<in_native_loop, due, installed_native_timer>>
    BY <1>7 DEF LoopIdle, timerVars
  <2>2. Covered
    BY <1>c, <2>1 DEF Between
  <2>3. Calls(Frame(Top.fn, "Wait"), Frame("ScheduleWork", "Post"))
    BY <2>1 DEF Calls, Frame
  <2>4. CASE CallScheduleWork("Wait")
    <3>1. work_scheduled' /\ WellCalled(stack') /\ Informed'
      BY <1>a, <1>l, <2>1, <2>3, <2>4
    <3> QED
      BY <1>k, <2>1, <3>1, StillCovered
  <2>5. CASE (Goto("Wait") \/ Goto("Status") \/ Return) /\ UNCHANGED work_scheduled
    <3>1. WellCalled(stack') /\ NoNewLoop /\ Informed'
      BY <1>e, <1>g, <1>l, <1>v, <2>1, <2>5 DEF Returned
    <3> QED
      BY <1>k, <2>1, <2>2, <2>5, <3>1, StillCovered
  <2> QED
    BY <1>7, <2>4, <2>5 DEF LoopIdle
<1>8. CASE LoopWait
  <2>1. /\ stack # <<>> /\ Top.fn = "DoRunLoop" /\ Top.at \in {"Wait", "WaitNew"} /\ pc' = pc
        /\ UNCHANGED <<in_native_loop, work_scheduled, due, installed_native_timer>>
    BY <1>8 DEF LoopWait, pumpVars, timerVars, histVars
  <2>2. Covered
    BY <1>c, <2>1 DEF Between
  <2>3. Goto("Status") \/ Goto("WaitPeek")
    BY <1>8 DEF LoopWait
  <2>4. WellCalled(stack') /\ NoNewLoop /\ Informed'
    BY <1>g, <1>l, <2>1, <2>3
  <2> QED
    BY <1>k, <2>1, <2>2, <2>4, StillCovered
<1>9. CASE LoopWaitPeek
  <2>1. /\ stack # <<>> /\ Top.fn = "DoRunLoop" /\ Top.at = "WaitPeek" /\ pc' = pc
        /\ UNCHANGED <<in_native_loop, work_scheduled, due, installed_native_timer>>
    BY <1>9 DEF LoopWaitPeek, DispatchSent, pumpVars, timerVars, histVars
  <2>2. Covered
    BY <1>c, <2>1 DEF Between
  <2>3. Goto("Status") \/ Goto("WaitNew") \/ Call(Frame("Handler", "Start"), "WaitPeek")
    BY <1>9 DEF LoopWaitPeek, DispatchSent
  <2>4. Calls(Frame(Top.fn, "WaitPeek"), Frame("Handler", "Start"))
    BY <2>1 DEF Calls, Frame
  <2>5. WellCalled(stack') /\ NoNewLoop /\ Informed'
    <3>1. CASE Goto("Status") \/ Goto("WaitNew")
      BY <1>g, <1>l, <2>1, <3>1
    <3>2. CASE Call(Frame("Handler", "Start"), "WaitPeek")
      <4>1. Called("Handler", "Start") /\ Informed'
        BY <1>d, <1>l, <2>1, <2>4, <3>2
      <4> QED
        BY <4>1 DEF Called
    <3> QED
      BY <2>3, <3>1, <3>2
  <2> QED
    BY <1>k, <2>1, <2>2, <2>5, StillCovered
<1>10. CASE ReplacePeek
  <2>1. /\ stack # <<>> /\ Top.fn = "Replace" /\ Top.at = "Peek" /\ pc' = pc
        /\ work_scheduled' = work_scheduled
    BY <1>10 DEF ReplacePeek, DispatchSent, pumpVars
  <2>2. work_scheduled'
    BY <1>h, <2>1 DEF Holding
  <2>3. CASE DispatchSent("Peek")
    <3>1. Call(Frame("Handler", "Start"), "Peek")
      BY <2>3 DEF DispatchSent
    <3>2. Calls(Frame(Top.fn, "Peek"), Frame("Handler", "Start"))
      BY <2>1 DEF Calls, Frame
    <3>3. Called("Handler", "Start") /\ Informed'
      BY <1>d, <1>l, <2>1, <3>1, <3>2
    <3> QED
      BY <1>k, <2>1, <2>2, <3>3, StillCovered DEF Called
  <2>4. CASE ~DispatchSent("Peek")
    <3>1. NextMessage \in Messages
      BY QueueSteps
    <3>2. stack' = [stack EXCEPT ![Len(stack)].at = "Clear", ![Len(stack)].msg = NextMessage]
      BY <1>10, <2>4 DEF ReplacePeek
    <3>3. AtLabel("Clear", stack')
      BY <1>i, <1>l, <2>1, <3>1, <3>2, CallsTop
    <3>4. WellCalled(stack') /\ TopIs(Top.fn, "Clear")
      BY <3>3 DEF AtLabel, TopIs, Top
    <3> QED
      BY <1>k, <2>1, <2>2, <3>4, StillCovered, NotInformed
  <2> QED
    BY <2>3, <2>4
<1>11. CASE ReplaceClear
  <2>1. stack # <<>> /\ Top.fn = "Replace" /\ pc' = pc
    BY <1>11 DEF ReplaceClear
  <2>2. CASE ReturnMore(TRUE) \/ ReturnMore(FALSE)
    <3>1. Returned /\ Informed'
      BY <1>e, <2>1, <2>2 DEF Returns
    <3>2. stack' # <<>> /\ Calls(Top', Top)
      BY <2>1, <3>1 DEF Returned
    <3>3. Top'.fn \in {"DoRunLoop", "HandleWork"} /\ Top'.at = "Dispatched"
      BY ONLY <2>1, <3>2 DEF Calls
    <3>4. Between'
      BY <3>2, <3>3 DEF Between
    <3> QED
      BY <1>k, <2>1, <3>1, <3>4 DEF Returned
  <2>3. CASE Call(Frame("HandleTimer", "Start"), "Done")
    <3>1. Calls(Frame(Top.fn, "Done"), Frame("HandleTimer", "Start"))
      BY <2>1 DEF Calls, Frame
    <3>2. Called("HandleTimer", "Start") /\ Informed'
      BY <1>d, <1>l, <2>1, <2>3, <3>1
    <3>3. Between'
      BY <2>1, <3>2 DEF Between, Called, TopIs
    <3> QED
      BY <1>k, <2>1, <3>2, <3>3 DEF Called
  <2>4. CASE Goto("Reschedule")
    <3>1. WellCalled(stack') /\ TopIs(Top.fn, "Reschedule") /\ Informed'
      BY <1>g, <1>l, <2>1, <2>4
    <3>2. Between'
      BY <2>1, <3>1 DEF Between, TopIs
    <3> QED
      BY <1>k, <2>1, <3>1, <3>2
  <2> QED
    BY <1>11, <2>2, <2>3, <2>4 DEF ReplaceClear
<1>12. CASE ReplaceReschedule
  <2>1. /\ stack # <<>> /\ Top.fn = "Replace" /\ pc' = pc /\ CallScheduleWork("Start")
    BY <1>12 DEF ReplaceReschedule
  <2>2. Calls(Frame(Top.fn, "Start"), Frame("ScheduleWork", "Post"))
    BY <2>1 DEF Calls, Frame
  <2>3. work_scheduled' /\ WellCalled(stack') /\ Informed'
    BY <1>a, <1>l, <2>1, <2>2
  <2> QED
    BY <1>k, <2>1, <2>3, StillCovered
<1>13. CASE ReplaceDispatch
  <2>1. /\ stack # <<>> /\ Top.fn = "Replace" /\ pc' = pc
        /\ UNCHANGED <<in_native_loop, work_scheduled, due, installed_native_timer>>
    BY <1>13 DEF ReplaceDispatch, pumpVars, timerVars, histVars
  <2>2. CASE Top.at = "Start" /\ Call(Frame("Handler", "Start"), "Done")
    <3>1. Covered
      BY <1>c, <2>1, <2>2 DEF Between
    <3>2. Calls(Frame(Top.fn, "Done"), Frame("Handler", "Start"))
      BY <2>1 DEF Calls, Frame
    <3>3. Called("Handler", "Start") /\ Informed'
      BY <1>d, <1>l, <2>1, <2>2, <3>2
    <3>4. WellCalled(stack') /\ NoNewLoop
      BY <3>3 DEF Called
    <3> QED
      BY <1>k, <2>1, <3>1, <3>3, <3>4, StillCovered
  <2>3. CASE ReturnMore(TRUE)
    <3>1. Returned /\ Informed'
      BY <1>e, <2>1, <2>3 DEF Returns
    <3>2. stack' # <<>> /\ Calls(Top', Top)
      BY <2>1, <3>1 DEF Returned
    <3>3. Top'.fn \in {"DoRunLoop", "HandleWork"} /\ Top'.at = "Dispatched"
      BY ONLY <2>1, <3>2 DEF Calls
    <3>4. Between'
      BY <3>2, <3>3 DEF Between
    <3> QED
      BY <1>k, <2>1, <3>1, <3>4 DEF Returned
  <2> QED
    BY <1>13, <2>2, <2>3 DEF ReplaceDispatch
<1>14. CASE HandleWorkStart
  <2>1. /\ stack # <<>> /\ Top.fn = "HandleWork" /\ Top.at = "Start" /\ pc' = pc
    BY <1>14 DEF HandleWorkStart
  <2>2. CASE RunLoops = {}
    <3>1. Returned /\ Informed'
      BY <1>14, <1>e, <1>v, <2>1, <2>2 DEF HandleWorkStart
    <3>2. Covered'
      BY <2>2, <3>1, StillCovered DEF Returned, NoNewLoop
    <3> QED
      BY <1>k, <2>1, <3>1, <3>2 DEF Returned
  <2>3. CASE RunLoops # {}
    <3>1. work_scheduled' = work_scheduled /\ Call(Frame("Replace", "Peek"), "Dispatched")
      BY <1>14, <2>3 DEF HandleWorkStart
    <3>2. work_scheduled'
      BY <1>h, <2>1, <3>1 DEF Holding
    <3>3. Calls(Frame(Top.fn, "Dispatched"), Frame("Replace", "Peek"))
      BY <2>1 DEF Calls, Frame
    <3>4. Called("Replace", "Peek") /\ Informed'
      BY <1>d, <1>l, <2>1, <3>1, <3>3
    <3> QED
      BY <1>k, <2>1, <3>2, <3>4, StillCovered DEF Called
  <2> QED
    BY <2>2, <2>3
<1>15. CASE HandleWorkDoWork
  <2>1. /\ stack # <<>> /\ Top.fn = "HandleWork" /\ pc' = pc /\ due' = Never
        /\ Call(Frame("DoWork", "Start"), "Worked")
    BY <1>15 DEF HandleWorkDoWork, BeginDoWork
  <2>2. Calls(Frame(Top.fn, "Worked"), Frame("DoWork", "Start"))
    BY <2>1 DEF Calls, Frame
  <2>3. Called("DoWork", "Start") /\ Informed'
    BY <1>d, <1>l, <2>1, <2>2
  <2> QED
    BY <1>k, <2>1, <2>3, StillCovered DEF Called
<1>16. CASE HandleTimerStart
  <2>1. stack # <<>> /\ Top.fn = "HandleTimer" /\ Top.at = "Start" /\ pc' = pc
    BY <1>16 DEF HandleTimerStart
  <2>2. CASE installed_native_timer = Off \/ RunLoops = {}
    <3>1. /\ Return /\ UNCHANGED <<in_native_loop, work_scheduled, due>>
          /\ installed_native_timer' = Off
      BY <1>16, <2>2 DEF HandleTimerStart, histVars
    <3>2. Returned /\ Informed'
      BY <1>e, <1>v, <2>1, <3>1
    <3>3. CASE RunLoops = {}
      <4>1. Covered'
        BY <3>2, <3>3, StillCovered DEF Returned, NoNewLoop
      <4> QED
        BY <1>k, <2>1, <3>2, <4>1 DEF Returned
    <3>4. CASE installed_native_timer = Off /\ Covered
      <4>1. Covered'
        BY <3>1, <3>2, <3>4, StillCovered DEF Returned
      <4> QED
        BY <1>k, <2>1, <3>2, <4>1 DEF Returned
    <3>5. CASE Between
      <4>1. Len(stack) > 1 /\ stack[Len(stack) - 1].fn = "Replace"
        BY <2>1, <3>5 DEF Between
      <4>2. stack' = SubSeq(stack, 1, Len(stack) - 1) /\ stack \in Seq(Frames)
        BY <3>1 DEF Return, Popped, TypeOK
      <4>3. /\ Len(stack') = Len(stack) - 1
            /\ stack' # <<>> => stack'[Len(stack')] = stack[Len(stack) - 1]
        BY <1>i, <2>1, <4>2, CallsPop
      <4>4. stack' # <<>> /\ Calls(Top', Top)
        BY <2>1, <3>2 DEF Returned
      <4>5. Top'.fn = "Replace"
        BY <4>1, <4>3, <4>4 DEF Top
      <4>6. Top'.at = "Done"
        BY ONLY <2>1, <4>4, <4>5 DEF Calls
      <4>7. Between'
        BY <4>4, <4>5, <4>6 DEF Between
      <4> QED
        BY <1>k, <2>1, <3>2, <4>7 DEF Returned
    <3> QED
      BY <1>c, <2>2, <3>3, <3>4, <3>5
  <2>3. CASE ~(installed_native_timer = Off \/ RunLoops = {})
    <3>1. due' = Never /\ Call(Frame("DoWork", "Start"), "Worked")
      BY <1>16, <2>3 DEF HandleTimerStart, BeginDoWork
    <3>2. Calls(Frame(Top.fn, "Worked"), Frame("DoWork", "Start"))
      BY <2>1 DEF Calls, Frame
    <3>3. Called("DoWork", "Start") /\ Informed'
      BY <1>d, <1>l, <2>1, <3>1, <3>2
    <3> QED
      BY <1>k, <2>1, <3>1, <3>3, StillCovered DEF Called
  <2> QED
    BY <2>2, <2>3
<1>17. CASE HandlerWorked
  <2>1. /\ stack # <<>> /\ Top.fn \in {"HandleWork", "HandleTimer"} /\ Top.at = "Worked"
        /\ pc' = pc /\ due' = due
    BY <1>17 DEF HandlerWorked, histVars
  <2>2. due = Top.info
    BY <1>i, <2>1 DEF Informed, AtHandlerWorked
  <2>3. Calls(Frame(Top.fn, "Done"), Frame("ScheduleWork", "Post"))
    BY <2>1 DEF Calls, Frame
  <2>4. CASE Top.info = Immediate
    <3>1. CallScheduleWork("Done")
      BY <1>17, <2>4 DEF HandlerWorked
    <3>2. work_scheduled' /\ WellCalled(stack') /\ Informed'
      BY <1>a, <1>l, <2>1, <2>3, <3>1
    <3> QED
      BY <1>k, <2>1, <3>2, StillCovered
  <2>5. CASE Top.info # Immediate
    <3>1. CallScheduleNativeTimer(Top.info, "Done")
      BY <1>17, <2>5 DEF HandlerWorked
    <3>2. Top.info \in RunTimes /\ due' = Top.info
      BY <2>1, <2>2 DEF TypeOK
    <3>3. WellCalled(stack') /\ Informed' /\ Covered'
      BY <1>n, <1>l, <2>1, <2>3, <2>5, <3>1, <3>2
    <3> QED
      BY <1>k, <2>1, <3>3
  <2> QED
    BY <2>4, <2>5
<1>18. CASE HandlerDone
  <2>1. /\ stack # <<>> /\ Top.fn \in {"HandleWork", "HandleTimer"} /\ Top.at = "Done" /\ pc' = pc /\ Return
        /\ UNCHANGED <<in_native_loop, work_scheduled, due, installed_native_timer>>
    BY <1>18 DEF HandlerDone, pumpVars, timerVars, histVars
  <2>2. Covered
    BY <1>c, <2>1 DEF Between
  <2>3. WellCalled(stack') /\ NoNewLoop /\ Informed'
    BY <1>e, <1>v, <2>1 DEF Returned
  <2> QED
    BY <1>k, <2>1, <2>2, <2>3, StillCovered
<1>19. CASE NativeGet
  <2>1. /\ stack # <<>> /\ Top.fn = "NativeLoop" /\ Top.at = "Peek" /\ pc' = pc
        /\ UNCHANGED <<in_native_loop, work_scheduled, due, installed_native_timer>>
    BY <1>19 DEF NativeGet, DispatchSent, pumpVars, timerVars, histVars
  <2>2. Covered
    BY <1>c, <2>1 DEF Between
  <2>3. Return \/ \E fn \in {"Handler", "HandleWork", "HandleTimer"} :
                      Call(Frame(fn, "Start"), "Peek")
    <3>1. CASE DispatchSent("Peek")
      BY <3>1 DEF DispatchSent
    <3>2. CASE ~DispatchSent("Peek")
      <4>1. CASE NextMessage = "HaveWork"
        BY <1>19, <3>2, <4>1 DEF NativeGet
      <4>2. CASE NextMessage = "Timer"
        BY <1>19, <3>2, <4>2 DEF NativeGet
      <4>3. CASE NextMessage = "Native"
        BY <1>19, <3>2, <4>3 DEF NativeGet
      <4>4. CASE NextMessage \notin {"HaveWork", "Timer", "Native"}
        BY <1>19, <3>2, <4>4 DEF NativeGet
      <4> QED
        BY <4>1, <4>2, <4>3, <4>4
    <3> QED
      BY <3>1, <3>2
  <2>4. \A fn \in {"Handler", "HandleWork", "HandleTimer"} :
            Calls(Frame(Top.fn, "Peek"), Frame(fn, "Start"))
    BY <2>1 DEF Calls, Frame
  <2>5. WellCalled(stack') /\ NoNewLoop /\ Informed'
    <3>1. CASE Return
      BY <1>e, <1>v, <2>1, <3>1 DEF Returned
    <3>2. ASSUME NEW fn \in {"Handler", "HandleWork", "HandleTimer"},
                 Call(Frame(fn, "Start"), "Peek")
          PROVE  WellCalled(stack') /\ NoNewLoop /\ Informed'
      <4>1. Called(fn, "Start") /\ Informed'
        BY <1>d, <1>l, <2>1, <2>4, <3>2
      <4> QED
        BY <4>1 DEF Called
    <3> QED
      BY <2>3, <3>1, <3>2
  <2> QED
    BY <1>k, <2>1, <2>2, <2>5, StillCovered
<1>20. CASE NativeExit
  <2>1. /\ stack # <<>> /\ Top.fn = "NativeLoop" /\ Top.at = "Peek" /\ pc' = pc /\ Return
        /\ UNCHANGED <<in_native_loop, work_scheduled, due, installed_native_timer>>
    BY <1>20 DEF NativeExit, pumpVars, timerVars, histVars
  <2>2. Covered
    BY <1>c, <2>1 DEF Between
  <2>3. WellCalled(stack') /\ NoNewLoop /\ Informed'
    BY <1>e, <1>v, <2>1 DEF Returned
  <2> QED
    BY <1>k, <2>1, <2>2, <2>3, StillCovered
<1>21. CASE HandlerReturn
  <2>1. /\ stack # <<>> /\ Top.fn = "Handler" /\ Top.at = "Start" /\ pc' = pc /\ Return
        /\ UNCHANGED <<in_native_loop, work_scheduled, due, installed_native_timer>>
    BY <1>21 DEF HandlerReturn, pumpVars, timerVars, histVars
  <2>2. Covered
    BY <1>c, <2>1 DEF Between
  <2>3. WellCalled(stack') /\ NoNewLoop /\ Informed'
    BY <1>e, <1>v, <2>1 DEF Returned
  <2> QED
    BY <1>k, <2>1, <2>2, <2>3, StillCovered
<1>22. CASE AppScheduleWork
  <2>1. /\ stack # <<>> /\ Top.fn \in {"Handler", "DoWork"} /\ pc' = pc
        /\ CallScheduleWork("Start")
    BY <1>22 DEF AppScheduleWork, InAppCode
  <2>2. Calls(Frame(Top.fn, "Start"), Frame("ScheduleWork", "Post"))
    BY <2>1 DEF Calls, Frame
  <2>3. work_scheduled' /\ WellCalled(stack') /\ Informed'
    BY <1>a, <1>l, <2>1, <2>2
  <2> QED
    BY <1>k, <2>1, <2>3, StillCovered
<1>23. CASE AppQuit
  <2> DEFINE k == RunState
  <2>1. /\ stack' = [stack EXCEPT ![k].quit = TRUE] /\ pc' = pc
        /\ stack # <<>> /\ Top.fn \in {"Handler", "DoWork"} /\ Top.at = "Start"
        /\ UNCHANGED <<in_native_loop, work_scheduled, due, installed_native_timer>>
    BY <1>23 DEF AppQuit, InAppCode, pumpVars, timerVars, histVars
  <2>2. Covered
    BY <1>c, <2>1 DEF Between
  <2> HIDE DEF k
  <2> DEFINE e == [stack[k] EXCEPT !.quit = TRUE]
  <2>3. stack' = [stack EXCEPT ![k] = e] /\ stack \in Seq(Frames) /\ WellCalled(stack)
    BY <1>i, <2>1 DEF TypeOK
  <2>4. MayBecome(stack, k, e)
    <3>1. k \in 1..Len(stack) => stack[k] \in Frames /\ stack[k].at # "Failed"
      BY <1>i, <2>3, LenProperties, ElementOfSeq DEF WellCalled
    <3>2. k \in 1..Len(stack) => e \in Frames /\ e.fn = stack[k].fn /\ e.at = stack[k].at
      BY <3>1 DEF Frames
    <3> QED
      BY <3>1, <3>2 DEF MayBecome
  <2> HIDE DEF e
  <2>5. Updated(stack, k, e, stack')
    BY ONLY <2>3, <2>4, CallsUpdate
  <2>6. WellCalled(stack') /\ NoNewLoop
    BY <2>5 DEF Updated, NoNewLoop, RunLoops, LoopsOf
  <2>7. Informed'
    <3>1. Len(stack) \in 1..Len(stack) /\ Len(stack') = Len(stack)
      BY <2>1, <2>3, <2>5, NotEmpty DEF Updated
    <3>2. stack'[Len(stack)].at = "Start"
      BY <2>1, <2>4, <2>5, <3>1 DEF Updated, MayBecome, Top
    <3> QED
      BY <3>1, <3>2 DEF Informed, AtHandlerWorked, Top
  <2> QED
    BY <1>k, <2>1, <2>2, <2>6, <2>7, StillCovered
<1>24. CASE EnterRun
  <2>1. Calls(Frame("Handler", "Start"), Frame("DoRunLoop", "Status"))
        /\ Calls(Frame("DoWork", "Start"), Frame("DoRunLoop", "Status"))
    BY DEF Calls, Frame
  <2>2. CASE InAppCode /\ Call(Frame("DoRunLoop", "Status"), "Start")
    <3>1. /\ stack # <<>> /\ Top.fn \in {"Handler", "DoWork"} /\ Top.at = "Start" /\ pc' = pc
          /\ UNCHANGED <<in_native_loop, work_scheduled, due, installed_native_timer>>
      BY <1>24, <2>2 DEF EnterRun, InAppCode, pumpVars, timerVars, histVars
    <3>2. Called("DoRunLoop", "Status") /\ Informed'
      BY <1>d, <1>l, <2>1, <2>2, <3>1
    <3>3. Between'
      BY <3>2 DEF Between, Called, TopIs
    <3> QED
      BY <1>k, <3>1, <3>2, <3>3 DEF Called
  <2>3. CASE stack = <<>> /\ stack' = <<Frame("DoRunLoop", "Status")>>
    <3>1. stack'[1] = Frame("DoRunLoop", "Status") /\ Len(stack') = 1 /\ stack' # <<>> /\ pc' = pc
      BY <1>24, <2>3 DEF EnterRun
    <3>2. WellCalled(stack') /\ TopIs("DoRunLoop", "Status")
      BY <3>1 DEF WellCalled, TopIs, Top, Frame
    <3>3. Between'
      BY <3>2 DEF Between, TopIs
    <3> QED
      BY <1>k, <3>1, <3>2, <3>3, NotInformed
  <2> QED
    BY <1>24, <2>2, <2>3 DEF EnterRun
<1>25. CASE EnterNativeLoop
  <2>1. Calls(Frame("Handler", "Start"), Frame("NativeLoop", "Peek"))
        /\ Calls(Frame("DoWork", "Start"), Frame("NativeLoop", "Peek"))
    BY DEF Calls, Frame
  <2>2. CASE InAppCode /\ Call(Frame("NativeLoop", "Peek"), "Start")
    <3>1. /\ stack # <<>> /\ Top.fn \in {"Handler", "DoWork"} /\ Top.at = "Start" /\ pc' = pc
          /\ UNCHANGED <<in_native_loop, work_scheduled, due, installed_native_timer>>
      BY <1>25, <2>2 DEF EnterNativeLoop, InAppCode, pumpVars, timerVars, histVars
    <3>2. Called("NativeLoop", "Peek") /\ Informed'
      BY <1>d, <1>l, <2>1, <2>2, <3>1
    <3>3. Covered
      BY <1>c, <3>1 DEF Between
    <3>4. WellCalled(stack') /\ NoNewLoop
      BY <3>2 DEF Called
    <3> QED
      BY <1>k, <3>1, <3>2, <3>3, <3>4, StillCovered
  <2>3. CASE stack = <<>> /\ stack' = <<Frame("NativeLoop", "Peek")>>
    <3>1. stack'[1] = Frame("NativeLoop", "Peek") /\ Len(stack') = 1 /\ stack' # <<>> /\ pc' = pc
      BY <1>25, <2>3 DEF EnterNativeLoop
    <3>2. WellCalled(stack') /\ TopIs("NativeLoop", "Peek")
      BY <3>1 DEF WellCalled, TopIs, Top, Frame
    <3>3. Covered'
      <4>1. RunLoops' = {}
        BY <2>3 DEF RunLoops, Frame
      <4> QED
        BY <4>1, StillCovered
    <3> QED
      BY <1>k, <3>1, <3>2, <3>3, NotInformed
  <2> QED
    BY <1>25, <2>2, <2>3 DEF EnterNativeLoop
<1>26. CASE PostNative
  BY <1>26, <1>q DEF PostNative, pumpVars, timerVars, histVars
<1>27. CASE PostQuit
  BY <1>27, <1>q DEF PostQuit, pumpVars, timerVars, histVars
<1>28. CASE SendNative
  BY <1>28, <1>q DEF SendNative, pumpVars, timerVars, histVars
<1>29. CASE TimerElapses
  BY <1>29, <1>q DEF TimerElapses, pumpVars, timerVars, histVars
<1>30. CASE Tick
  BY <1>30, <1>q DEF Tick, pumpVars, timerVars, histVars
<1>31. ASSUME NEW n \in RunTimes, DoWorkReturn(n)
      PROVE  TimerKnown'
  <2>1. stack # <<>> /\ Top.fn = "DoWork" /\ ReturnInfo(n) /\ due' = n /\ pc' = pc
    BY <1>31 DEF DoWorkReturn
  <2>2. Returns
    BY <2>1 DEF Returns
  <2>3. Returned /\ (stack' # <<>> => Top'.info = n)
    BY <1>i, <2>1, <2>2, CallsReturn
  <2>4. stack' # <<>> /\ Calls(Top', Top)
    BY <2>1, <2>3 DEF Returned
  <2>5. Top'.fn \in {"DoRunLoop", "HandleWork", "HandleTimer"} /\ Top'.at = "Worked"
    BY ONLY <2>1, <2>4 DEF Calls
  <2>6. Between'
    BY <2>4, <2>5 DEF Between
  <2>7. Informed'
    BY <2>1, <2>3 DEF Informed, AtHandlerWorked
  <2> QED
    BY <1>k, <2>1, <2>3, <2>6, <2>7 DEF Returned
<1>32. ASSUME NEW t \in RunTimes \ {Immediate, Never}, AppScheduleDelayedWork(t)
      PROVE  TimerKnown'
  <2>1. /\ stack # <<>> /\ Top.fn = "Handler" /\ Top.at = "Start" /\ pc' = pc
        /\ due' = t /\ in_native_loop' = in_native_loop
    BY <1>32 DEF AppScheduleDelayedWork
  <2>2. CASE in_native_loop /\ ~work_scheduled
    <3>1. CallScheduleNativeTimer(t, "Start")
      BY <1>32, <2>2 DEF AppScheduleDelayedWork
    <3>2. Calls(Frame(Top.fn, "Start"), Frame("ScheduleWork", "Post"))
      BY <2>1 DEF Calls, Frame
    <3>3. WellCalled(stack') /\ Informed' /\ Covered'
      BY <1>n, <1>l, <2>1, <3>1, <3>2
    <3> QED
      BY <1>k, <2>1, <3>3
  <2>3. CASE ~(in_native_loop /\ ~work_scheduled)
    <3>1. stack' = stack /\ work_scheduled' = work_scheduled
      BY <1>32, <2>3 DEF AppScheduleDelayedWork
    <3>2. Covered'
      BY <2>1, <2>3, <3>1, StillCovered
    <3>3. Informed'
      BY <2>1, <3>1 DEF Informed, AtHandlerWorked, Top
    <3> QED
      BY <1>i, <1>k, <2>1, <3>1, <3>2, <3>3
  <2> QED
    BY <2>2, <2>3
<1>33. ASSUME NEW t \in Threads, ThreadScheduleWork(t)
      PROVE  TimerKnown'
  <2>1. /\ stack' = stack /\ due' = due /\ work_scheduled' = TRUE
        /\ UNCHANGED <<in_native_loop, installed_native_timer>>
    BY <1>33 DEF ThreadScheduleWork, timerVars
  <2>2. \A u \in Threads : pc'[u] # "Failed"
    BY <1>33, <1>i DEF ThreadScheduleWork, TypeOK
  <2> QED
    BY <1>q, <2>1, <2>2
<1>34. ASSUME NEW t \in Threads, ThreadPost(t)
      PROVE  TimerKnown'
  <2>1. /\ stack' = stack /\ due' = due
        /\ UNCHANGED <<in_native_loop, work_scheduled, installed_native_timer>>
    BY <1>34 DEF ThreadPost, pumpVars, timerVars, histVars
  <2>2. \A u \in Threads : pc'[u] # "Failed"
    BY <1>34, <1>i, <1>r DEF ThreadPost, TypeOK
  <2> QED
    BY <1>q, <2>1, <2>2
<1>35. ASSUME NEW t \in Threads, ThreadPostFailed(t)
      PROVE  TimerKnown'
  BY <1>35, <1>i DEF ThreadPostFailed
<1>36. CASE UNCHANGED vars
  BY <1>36, <1>q DEF vars, pumpVars, timerVars, histVars
<1> QED
  BY <1>1, <1>2, <1>3, <1>4, <1>5, <1>6, <1>7, <1>8, <1>9, <1>10, <1>11, <1>12, <1>13,
     <1>14, <1>15, <1>16, <1>17, <1>18, <1>19, <1>20, <1>21, <1>22, <1>23, <1>24, <1>25,
     <1>26, <1>27, <1>28, <1>29, <1>30, <1>31, <1>32, <1>33, <1>34, <1>35, <1>36
  DEF Next, PumpStep, AppReturn, AppCall, ThreadStep, Environment

\* A native loop that took our last message is left with a timer no later than the
\* delegate's next delayed task, in every nest of loops, as long as the Windows queue
\* has room whenever SetTimer() and PostMessage() are called.
THEOREM TimerCovers == Spec /\ []QueueHasRoom => []NativeTimerCoversDelay
<1>1. Init => TimerKnown
  <2> SUFFICES ASSUME Init PROVE TimerKnown
    OBVIOUS
  <2>1. stack = <<>> /\ RunLoops = {} /\ \A t \in Threads : pc[t] # "Failed"
    BY DEF Init, RunLoops
  <2> QED
    BY <2>1 DEF TimerKnown, WellCalled, Informed, AtHandlerWorked, Covered
<1>2. TimerKnown => NativeTimerCoversDelay
  <2> SUFFICES ASSUME TimerKnown, At("NativeLoop", "Peek") PROVE Covered => NativeTimerCoversDelay
    BY DEF TimerKnown, Between, At, NativeTimerCoversDelay
  <2> QED
    BY DEF Covered, NativeTimerCoversDelay
<1>3. Spec /\ []QueueHasRoom => []TimerKnown
  BY <1>1, TimerStep, TypeCorrect, TokenCorrect, PTL DEF Spec
<1> QED
  BY <1>2, <1>3, PTL
=============================================================================
