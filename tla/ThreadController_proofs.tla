---------------------- MODULE ThreadController_proofs ----------------------
(***************************************************************************)
(* Machine-checked proofs about ThreadController, for every set of threads  *)
(* and of tasks, size of the batch, depth of nesting and value of the       *)
(* bounds: where tasks may run, when a batch stops, and that the loop does  *)
(* not go to sleep on a task.                                               *)
(***************************************************************************)
EXTENDS ThreadController, SequenceTheorems, WellFoundedInduction, TLAPS

Labels == {"Body", "Top", "Worked", "Idle", "Wait", "Start", "Select", "Wake", "Did"}

-----------------------------------------------------------------------------
(* The call stack: what a step does to it. *)

\* The innermost frame becomes e.
Turned(e) ==
    /\ e \in Frames /\ stack' \in Seq(Frames) /\ Len(stack') = Len(stack)
    /\ \A i \in 1..Len(stack) : stack'[i] = IF i = Len(stack) THEN e ELSE stack[i]

\* The innermost frame becomes e and calls f.
Pushed(e, f) ==
    /\ e \in Frames /\ f \in Frames /\ stack' \in Seq(Frames) /\ Len(stack') = Len(stack) + 1
    /\ \A i \in 1..Len(stack) + 1 :
          stack'[i] = IF i = Len(stack) + 1 THEN f ELSE IF i = Len(stack) THEN e ELSE stack[i]

\* The innermost frame returns to its caller, which becomes e.
Popped(e) ==
    /\ e \in Frames /\ stack' \in Seq(Frames) /\ Len(stack') = Len(stack) - 1
    /\ \A i \in 1..Len(stack) - 1 : stack'[i] = IF i = Len(stack) - 1 THEN e ELSE stack[i]

LEMMA StackType ==
    ASSUME NEW s \in Seq(Frames) \ {<<>>}
    PROVE  /\ Len(s) \in Nat \ {0} /\ DOMAIN s = 1..Len(s)
           /\ \A i \in 1..Len(s) : s[i] \in Frames
BY LenProperties, EmptySeq, ElementOfSeq

LEMMA Update ==
    ASSUME NEW s \in Seq(Frames), NEW k, NEW e \in Frames
    PROVE  /\ [s EXCEPT ![k] = e] \in Seq(Frames)
           /\ Len([s EXCEPT ![k] = e]) = Len(s)
           /\ \A i \in 1..Len(s) : [s EXCEPT ![k] = e][i] = IF i = k THEN e ELSE s[i]
<1> DEFINE r == [s EXCEPT ![k] = e]
<1>1. s \in [1..Len(s) -> Frames] /\ Len(s) \in Nat /\ DOMAIN s = 1..Len(s)
  BY LenProperties
<1>2. /\ r \in [1..Len(s) -> Frames]
      /\ \A i \in DOMAIN s : r[i] = IF i = k THEN e ELSE s[i]
  BY <1>1
<1>3. r \in Seq(Frames)
  BY <1>1, <1>2, SeqDef
<1>4. Len(r) = Len(s)
  BY <1>1, <1>2, <1>3, LenProperties
<1> QED
  BY <1>1, <1>2, <1>3, <1>4

LEMMA ReplaceTurns ==
    ASSUME stack \in Seq(Frames) \ {<<>>}, NEW e \in Frames,
           stack' = [stack EXCEPT ![Len(stack)] = e]
    PROVE  Turned(e)
BY Update DEF Turned

LEMMA GotoTurns ==
    ASSUME stack \in Seq(Frames) \ {<<>>}, NEW l \in Labels, Goto(l)
    PROVE  Turned([Top EXCEPT !.at = l])
<1> DEFINE e == [Top EXCEPT !.at = l]
<1>1. Top \in Frames
  BY StackType DEF Top
<1>2. e \in Frames
  BY <1>1 DEF Frames, Labels
<1>3. stack' = [stack EXCEPT ![Len(stack)] = e]
  BY DEF Goto, Top
<1> HIDE DEF e
<1> QED
  BY <1>2, <1>3, ReplaceTurns DEF e

LEMMA CallPushes ==
    ASSUME stack \in Seq(Frames) \ {<<>>}, NEW l \in Labels, NEW f \in Frames, Call(f, l)
    PROVE  Pushed([Top EXCEPT !.at = l], f)
<1> DEFINE e == [Top EXCEPT !.at = l]
           s == [stack EXCEPT ![Len(stack)] = e]
<1>1. Top \in Frames
  BY StackType DEF Top
<1>2. e \in Frames
  BY <1>1 DEF Frames, Labels
<1>3. stack' = Append(s, f)
  BY DEF Call, Top
<1>4. /\ s \in Seq(Frames) /\ Len(s) = Len(stack)
      /\ \A i \in 1..Len(stack) : s[i] = IF i = Len(stack) THEN e ELSE stack[i]
  <2> HIDE DEF e
  <2> QED
    BY <1>2, Update
<1> HIDE DEF e, s
<1>5. /\ Append(s, f) \in Seq(Frames) /\ Len(Append(s, f)) = Len(s) + 1
      /\ Append(s, f)[Len(s) + 1] = f /\ \A i \in 1..Len(s) : Append(s, f)[i] = s[i]
  BY <1>4, AppendProperties
<1>6. Len(stack) \in Nat \ {0}
  BY StackType
<1>7. Pushed(e, f)
  BY <1>2, <1>3, <1>4, <1>5, <1>6 DEF Pushed
<1> QED
  BY <1>7 DEF e

\* A prefix one shorter, of a stack with a caller.
LEMMA Prefix ==
    ASSUME stack \in Seq(Frames) \ {<<>>}
    PROVE  LET p == SubSeq(stack, 1, Len(stack) - 1) IN
           /\ p \in Seq(Frames) /\ Len(p) = Len(stack) - 1
           /\ \A i \in 1..Len(stack) - 1 : p[i] = stack[i]
<1> DEFINE n == Len(stack)
           p == SubSeq(stack, 1, n - 1)
<1>1. n \in Nat \ {0} /\ \A i \in 1..n : stack[i] \in Frames
  BY StackType
<1>2. \A i \in 1..(n - 1) : stack[i] \in Frames
  BY <1>1
<1>3. /\ p \in Seq(Frames)
      /\ Len(p) = IF 1 <= n - 1 THEN (n - 1) - 1 + 1 ELSE 0
      /\ \A i \in 1..((n - 1) - 1 + 1) : p[i] = stack[1 + i - 1]
  <2>1. 1 \in Int /\ n - 1 \in Int
    BY <1>1
  <2> HIDE DEF n
  <2> QED
    BY <1>2, <2>1, SubSeqProperties
<1>4. p \in Seq(Frames) /\ Len(p) = n - 1 /\ \A i \in 1..(n - 1) : p[i] = stack[i]
  <2> HIDE DEF n, p
  <2> QED
    BY <1>1, <1>3
<1> QED
  BY <1>4

LEMMA ReturnPops ==
    ASSUME stack \in Seq(Frames) \ {<<>>}, Len(stack) > 1, Return
    PROVE  Popped(stack[Len(stack) - 1])
<1>1. Len(stack) \in Nat \ {0} /\ \A i \in 1..Len(stack) : stack[i] \in Frames
  BY StackType
<1>2. stack[Len(stack) - 1] \in Frames
  BY <1>1
<1>3. stack' = SubSeq(stack, 1, Len(stack) - 1)
  BY DEF Return
<1> QED
  BY <1>1, <1>2, <1>3, Prefix DEF Popped

LEMMA ReturnValuePops ==
    ASSUME stack \in Seq(Frames) \ {<<>>}, Len(stack) > 1, NEW e \in Frames,
           stack' = [SubSeq(stack, 1, Len(stack) - 1) EXCEPT ![Len(stack) - 1] = e]
    PROVE  Popped(e)
<1> DEFINE p == SubSeq(stack, 1, Len(stack) - 1)
<1>1. Len(stack) \in Nat \ {0}
  BY StackType
<1>2. /\ p \in Seq(Frames) /\ Len(p) = Len(stack) - 1
      /\ \A i \in 1..Len(stack) - 1 : p[i] = stack[i]
  BY Prefix
<1>3. stack' = [p EXCEPT ![Len(stack) - 1] = e]
  OBVIOUS
<1> HIDE DEF p
<1>4. /\ stack' \in Seq(Frames) /\ Len(stack') = Len(p)
      /\ \A i \in 1..Len(p) : stack'[i] = IF i = Len(stack) - 1 THEN e ELSE p[i]
  BY <1>2, <1>3, Update
<1> QED
  BY <1>1, <1>2, <1>4 DEF Popped

-----------------------------------------------------------------------------
(* Types. *)

\* A set of times has an earliest one.
\* A set of times has an earliest one.
LEMMA EarliestIsTime ==
    ASSUME NEW times \in SUBSET RunTimes
    PROVE  Earliest(times) \in RunTimes /\ \A t \in times : Earliest(times) <= t
<1>1. Never \in RunTimes /\ RunTimes \subseteq Nat
  BY BoundAssumption DEF RunTimes, Never, Immediate
<1>2. CASE times = {}
  BY <1>1, <1>2 DEF Earliest
<1>3. CASE times # {}
  <2> DEFINE R == OpToRel(<, Nat)
  <2>1. IsWellFoundedOn(R, Nat)
    BY NatLessThanWellFounded
  <2>2. times \subseteq Nat
    BY <1>1
  <2>3. PICK t \in times : \A u \in times : ~(<<u, t>> \in R)
    <3> HIDE DEF R
    <3> QED
      BY <1>3, <2>1, <2>2, WFMin
  <2>6. R = {p \in Nat \X Nat : p[1] < p[2]}
    BY Zenon DEF OpToRel
  <2>4. \A u \in times : t <= u
    <3> HIDE DEF R
    <3>1. ASSUME NEW u \in times PROVE ~(u < t)
      BY <2>2, <2>3, <2>6, <3>1
    <3> QED
      BY <2>2, <3>1
  <2>5. /\ Earliest(times) \in times /\ \A u \in times : Earliest(times) <= u
    BY <1>3, <2>4 DEF Earliest
  <2> QED
    BY <2>5
<1> QED
  BY <1>2, <1>3
LEMMA FrameType ==
    ASSUME NEW fn \in {"Main", "Run", "DoWork", "Task", "Handler", "Native"}, NEW l \in Labels
    PROVE  Frame(fn, l) \in Frames
BY BoundAssumption, BatchAssumption DEF Frame, Frames, Labels, RunTimes, Never, Immediate

LEMMA Times ==
    /\ Never \in RunTimes /\ Immediate \in RunTimes /\ RunTimes \subseteq Nat
    /\ 1..MaxTime \subseteq RunTimes /\ 1..Never \subseteq RunTimes
    /\ 0..MaxTime \subseteq Nat /\ \A t \in RunTimes : t <= Never
BY BoundAssumption DEF RunTimes, Never, Immediate

LEMMA WakeUpType ==
    ASSUME TypeOK
    PROVE  /\ PendingWakeUp \in RunTimes
           /\ \A w \in RunTimes : NextRunTime(w) \in RunTimes /\ NextWorkInfo(w) \in RunTimes
           /\ \A S \in SUBSET Tasks : Earliest({wake[j] : j \in S}) \in RunTimes
<1>1. \A S \in SUBSET Tasks : Earliest({wake[j] : j \in S}) \in RunTimes
  <2>1. ASSUME NEW S \in SUBSET Tasks
        PROVE  Earliest({wake[j] : j \in S}) \in RunTimes
    <3>1. {wake[j] : j \in S} \in SUBSET RunTimes
      BY DEF TypeOK
    <3> QED
      BY <3>1, EarliestIsTime
  <2> QED
    BY <2>1
<1>2. In("Delayed") \in SUBSET Tasks
  BY DEF In
<1>3. PendingWakeUp \in RunTimes
  BY <1>1, <1>2, Times DEF PendingWakeUp
<1>4. \A w \in RunTimes : NextRunTime(w) \in RunTimes
  BY DEF NextRunTime, TypeOK
<1>5. \A w \in RunTimes : NextWorkInfo(w) \in RunTimes
  BY <1>4, Times DEF NextWorkInfo
<1> QED
  BY <1>1, <1>3, <1>4, <1>5

-----------------------------------------------------------------------------
(* The shape of the call stack. *)

\* Who may call whom, and where the caller waits meanwhile.
MayCall(c, f) ==
    /\ f.fn = "DoWork" => \/ c.fn = "Run" /\ c.at = "Worked"
                          \/ c.fn = "Native" /\ c.at = "Body"
    /\ f.fn = "Task" => c.fn = "DoWork" /\ c.at = "Select" /\ c.n < WorkBatchSize
    /\ f.fn = "Handler" => \/ c.fn = "Run" /\ c.at = "Top"
                           \/ c.fn = "Native" /\ c.at = "Body"
    /\ f.fn \in {"Run", "Native"} => c.fn \in {"Main", "Task", "Handler"}
    /\ f.fn # "Main"

CallsAreRight ==
    /\ stack[1].fn = "Main"
    /\ \A i \in 2..Len(stack) : MayCall(stack[i - 1], stack[i])

StackInv == TypeOK /\ CallsAreRight

Caller == stack[Len(stack) - 1]

LEMMA CallerFacts ==
    ASSUME StackInv
    PROVE  /\ Top \in Frames /\ Len(stack) \in Nat \ {0}
           /\ \A i \in 1..Len(stack) : stack[i] \in Frames
           /\ Top.fn # "Main" => Len(stack) > 1 /\ Caller \in Frames /\ MayCall(Caller, Top)
<1>1. /\ Len(stack) \in Nat \ {0}
      /\ \A i \in 1..Len(stack) : stack[i] \in Frames
  BY StackType DEF StackInv, TypeOK
<1>2. Top.fn # "Main" => Len(stack) > 1
  BY <1>1 DEF StackInv, CallsAreRight, Top
<1> QED
  BY <1>1, <1>2 DEF StackInv, CallsAreRight, Top, Caller

\* What each action does to the stack.
LEMMA TurnSteps ==
    ASSUME StackInv
    PROVE  /\ DoWorkStart => Turned(IF task_execution_allowed THEN [Top EXCEPT !.at = "Select"]
                                    ELSE [Top EXCEPT !.at = "Did", !.info = quit_runloop_after])
           /\ BatchEnds => Turned([Top EXCEPT !.at = IF quit_pending THEN "Did" ELSE "Wake"])
           /\ GetWakeUp => Turned([Top EXCEPT !.at = "Did", !.info = PendingWakeUp])
           /\ PumpGoesOn => Turned([Top EXCEPT !.at = IF Top.info = Immediate THEN "Top" ELSE "Idle"])
           /\ DoIdleWork => \/ Turned([Top EXCEPT !.at = "Wait"]) /\ quit_pending' = quit_pending
                                /\ requested'
                            \/ LET quit == quit_runloop_after <= now \/ Top.idle IN
                               /\ Turned([Top EXCEPT !.at = "Wait", !.quit = quit])
                               /\ quit_pending' = (quit_pending \/ quit)
                               /\ requested' = requested
           /\ PumpWaits \/ SpuriousWakeUp => Turned([Top EXCEPT !.at = "Top"])
<1>1. /\ stack \in Seq(Frames) \ {<<>>} /\ Top \in Frames /\ Len(stack) \in Nat \ {0}
      /\ quit_pending \in BOOLEAN /\ task_execution_allowed \in BOOLEAN
      /\ quit_runloop_after \in RunTimes /\ PendingWakeUp \in RunTimes
      /\ (quit_runloop_after <= now) \in BOOLEAN
  BY CallerFacts, WakeUpType DEF StackInv, TypeOK
<1>2. ASSUME DoWorkStart
      PROVE  Turned(IF task_execution_allowed THEN [Top EXCEPT !.at = "Select"]
                    ELSE [Top EXCEPT !.at = "Did", !.info = quit_runloop_after])
  <2>1. CASE task_execution_allowed
    BY <1>1, <1>2, <2>1, GotoTurns DEF DoWorkStart, Labels
  <2>2. CASE ~task_execution_allowed
    <3> DEFINE e == [Top EXCEPT !.at = "Did", !.info = quit_runloop_after]
    <3>1. stack' = [stack EXCEPT ![Len(stack)] = e]
      BY <1>2, <2>2 DEF DoWorkStart, Top
    <3>2. e \in Frames
      BY <1>1 DEF Frames
    <3> HIDE DEF e
    <3>3. Turned(e)
      BY <1>1, <3>1, <3>2, ReplaceTurns
    <3> QED
      BY <2>2, <3>3 DEF e
  <2> QED
    BY <2>1, <2>2
<1>3. ASSUME BatchEnds
      PROVE  Turned([Top EXCEPT !.at = IF quit_pending THEN "Did" ELSE "Wake"])
  BY <1>1, <1>3, GotoTurns DEF BatchEnds, Labels
<1>4. ASSUME GetWakeUp
      PROVE  Turned([Top EXCEPT !.at = "Did", !.info = PendingWakeUp])
  <2> DEFINE e == [Top EXCEPT !.at = "Did", !.info = PendingWakeUp]
  <2>1. stack' = [stack EXCEPT ![Len(stack)] = e]
    BY <1>4 DEF GetWakeUp, Top
  <2>2. e \in Frames
    BY <1>1 DEF Frames
  <2> HIDE DEF e
  <2>3. Turned(e)
    BY <1>1, <2>1, <2>2, ReplaceTurns
  <2> QED
    BY <2>3 DEF e
<1>5. ASSUME PumpGoesOn
      PROVE  Turned([Top EXCEPT !.at = IF Top.info = Immediate THEN "Top" ELSE "Idle"])
  BY <1>1, <1>5, GotoTurns DEF PumpGoesOn, Labels
<1>6. ASSUME PumpWaits \/ SpuriousWakeUp
      PROVE  Turned([Top EXCEPT !.at = "Top"])
  BY <1>1, <1>6, GotoTurns DEF PumpWaits, SpuriousWakeUp, Labels
<1>7. ASSUME DoIdleWork
      PROVE  \/ Turned([Top EXCEPT !.at = "Wait"]) /\ quit_pending' = quit_pending /\ requested'
             \/ LET quit == quit_runloop_after <= now \/ Top.idle IN
                /\ Turned([Top EXCEPT !.at = "Wait", !.quit = quit])
                /\ quit_pending' = (quit_pending \/ quit)
                /\ requested' = requested
  <2>1. CASE requested' = TRUE /\ Goto("Wait") /\ UNCHANGED quit_pending
    BY <1>1, <2>1, GotoTurns DEF Labels
  <2>2. CASE /\ LET quit == quit_runloop_after <= now \/ Top.idle
                IN  /\ stack' = [stack EXCEPT ![Len(stack)].at = "Wait",
                                              ![Len(stack)].quit = quit]
                    /\ quit_pending' = (quit_pending \/ quit)
             /\ UNCHANGED <<requested, budget>>
    <3> DEFINE quit == quit_runloop_after <= now \/ Top.idle
               e == [Top EXCEPT !.at = "Wait", !.quit = quit]
    <3>1. stack' = [stack EXCEPT ![Len(stack)] = e]
      BY <2>2 DEF Top
    <3>2. e \in Frames
      BY <1>1 DEF Frames
    <3> HIDE DEF e
    <3>3. Turned(e)
      BY <1>1, <3>1, <3>2, ReplaceTurns
    <3> QED
      BY <2>2, <3>3 DEF e
  <2> QED
    BY <1>7, <2>1, <2>2 DEF DoIdleWork
<1> QED
  BY <1>2, <1>3, <1>4, <1>5, <1>6, <1>7
LEMMA PushSteps ==
    ASSUME StackInv
    PROVE  /\ \A l \in Labels : CallDoWork(l) => Pushed([Top EXCEPT !.at = l], Frame("DoWork", "Start"))
           /\ \A k \in Tasks : RunTask(k) => Pushed([Top EXCEPT !.at = "Select"], Frame("Task", "Body"))
           /\ \A a, b \in BOOLEAN, t \in 1..Never :
                 Run(a, b, t) => Pushed([Top EXCEPT !.at = "Body"],
                                        [Frame("Run", "Top") EXCEPT
                                            !.flip = a /\ ~task_execution_allowed, !.idle = b,
                                            !.saved = quit_runloop_after])
           /\ \A a \in BOOLEAN :
                 EnterNativeLoop(a) => Pushed([Top EXCEPT !.at = "Body"],
                                              [Frame("Native", "Body") EXCEPT !.flip = a])
           /\ NativeMessage => Pushed([Top EXCEPT !.at = IF Top.fn = "Run" THEN "Top" ELSE "Body"],
                                      Frame("Handler", "Body"))
<1>1. /\ stack \in Seq(Frames) \ {<<>>} /\ task_execution_allowed \in BOOLEAN
      /\ quit_runloop_after \in RunTimes
  BY DEF StackInv, TypeOK
<1>2. \A fn \in {"Main", "Run", "DoWork", "Task", "Handler", "Native"} : \A l \in Labels :
          Frame(fn, l) \in Frames
  BY FrameType
<1>3. ASSUME NEW l \in Labels, CallDoWork(l)
      PROVE  Pushed([Top EXCEPT !.at = l], Frame("DoWork", "Start"))
  BY <1>1, <1>2, <1>3, CallPushes DEF CallDoWork, Labels
<1>4. ASSUME NEW k \in Tasks, RunTask(k)
      PROVE  Pushed([Top EXCEPT !.at = "Select"], Frame("Task", "Body"))
  BY <1>1, <1>2, <1>4, CallPushes DEF RunTask, Labels
<1>5. ASSUME NEW a \in BOOLEAN, NEW b \in BOOLEAN, NEW t \in 1..Never, Run(a, b, t)
      PROVE  Pushed([Top EXCEPT !.at = "Body"],
                    [Frame("Run", "Top") EXCEPT !.flip = a /\ ~task_execution_allowed, !.idle = b,
                                                !.saved = quit_runloop_after])
  <2> DEFINE f == [Frame("Run", "Top") EXCEPT !.flip = a /\ ~task_execution_allowed, !.idle = b,
                                              !.saved = quit_runloop_after]
  <2>1. Call(f, "Body")
    BY <1>5 DEF Run
  <2>2. f \in Frames
    <3>1. Frame("Run", "Top") \in Frames /\ (a /\ ~task_execution_allowed) \in BOOLEAN
      BY <1>2 DEF Labels
    <3> QED
      BY <1>1, <3>1 DEF Frames
  <2> HIDE DEF f
  <2>3. Pushed([Top EXCEPT !.at = "Body"], f)
    BY <1>1, <2>1, <2>2, CallPushes DEF Labels
  <2> QED
    BY <2>3 DEF f
<1>6. ASSUME NEW a \in BOOLEAN, EnterNativeLoop(a)
      PROVE  Pushed([Top EXCEPT !.at = "Body"], [Frame("Native", "Body") EXCEPT !.flip = a])
  <2> DEFINE f == [Frame("Native", "Body") EXCEPT !.flip = a]
  <2>1. Call(f, "Body")
    BY <1>6 DEF EnterNativeLoop
  <2>2. f \in Frames
    <3>1. Frame("Native", "Body") \in Frames
      BY <1>2 DEF Labels
    <3> QED
      BY <3>1 DEF Frames
  <2> HIDE DEF f
  <2>3. Pushed([Top EXCEPT !.at = "Body"], f)
    BY <1>1, <2>1, <2>2, CallPushes DEF Labels
  <2> QED
    BY <2>3 DEF f
<1>7. ASSUME NativeMessage
      PROVE  Pushed([Top EXCEPT !.at = IF Top.fn = "Run" THEN "Top" ELSE "Body"],
                    Frame("Handler", "Body"))
  <2>1. \/ Top.fn = "Run" /\ Call(Frame("Handler", "Body"), "Top")
        \/ Top.fn = "Native" /\ Call(Frame("Handler", "Body"), "Body")
    BY <1>7 DEF NativeMessage, At
  <2>2. Frame("Handler", "Body") \in Frames
    BY <1>2 DEF Labels
  <2> QED
    BY <1>1, <2>1, <2>2, CallPushes DEF Labels
<1> QED
  BY <1>3, <1>4, <1>5, <1>6, <1>7

LEMMA PopSteps ==
    ASSUME StackInv
    PROVE  /\ RunReturns \/ NativeLoopReturns \/ HandlerReturns => Popped(Caller)
           /\ TaskReturns => Popped([Caller EXCEPT !.n = IF quit_pending THEN WorkBatchSize
                                                                         ELSE Caller.n + 1])
           /\ DoWorkReturns =>
                  LET info == IF pending \/ Top.info = Immediate THEN Immediate
                              ELSE NextWorkInfo(Top.info) IN
                  /\ Popped([Caller EXCEPT !.info = info])
                  /\ due' = info /\ info \in RunTimes
<1>1. /\ stack \in Seq(Frames) \ {<<>>} /\ Top \in Frames
      /\ Top.fn # "Main" => Len(stack) > 1 /\ Caller \in Frames /\ MayCall(Caller, Top)
      /\ Len(stack) \in Nat \ {0}
      /\ Top.info \in RunTimes
  BY CallerFacts DEF StackInv, TypeOK, Frames
<1>2. ASSUME RunReturns \/ NativeLoopReturns \/ HandlerReturns
      PROVE  Popped(Caller)
  <2>1. Return /\ Top.fn # "Main"
    BY <1>2 DEF RunReturns, NativeLoopReturns, HandlerReturns, At
  <2> QED
    BY <1>1, <2>1, ReturnPops DEF Caller
<1>3. \A i \in 1..Len(stack) - 1 : SubSeq(stack, 1, Len(stack) - 1)[i] = stack[i]
  BY <1>1, Prefix
<1>4. ASSUME TaskReturns
      PROVE  Popped([Caller EXCEPT !.n = IF quit_pending THEN WorkBatchSize ELSE Caller.n + 1])
  <2> DEFINE e == [Caller EXCEPT !.n = IF quit_pending THEN WorkBatchSize ELSE Caller.n + 1]
             i == Len(stack) - 1
  <2>1. Top.fn = "Task"
    BY <1>4 DEF TaskReturns, At
  <2>2. Len(stack) > 1 /\ Caller \in Frames /\ Caller.n < WorkBatchSize
    BY <1>1, <2>1 DEF MayCall
  <2>3. e \in Frames
    <3>1. (IF quit_pending THEN WorkBatchSize ELSE Caller.n + 1) \in 0..WorkBatchSize
      BY <2>2, BatchAssumption DEF Frames
    <3> QED
      BY <2>2, <3>1 DEF Frames
  <2>4. SubSeq(stack, 1, i)[i] = Caller
    BY <1>1, <1>3, <2>2 DEF Caller
  <2>5. stack' = [SubSeq(stack, 1, i) EXCEPT ![i].n = IF quit_pending THEN WorkBatchSize ELSE @ + 1]
    BY <1>4 DEF TaskReturns
  <2>6. stack' = [SubSeq(stack, 1, i) EXCEPT ![i] = e]
    BY <2>4, <2>5
  <2> HIDE DEF e
  <2>7. Popped(e)
    BY <1>1, <2>2, <2>3, <2>6, ReturnValuePops
  <2> QED
    BY <2>7 DEF e
<1>5. ASSUME NEW info \in RunTimes, ReturnWorkInfo(info), Top.fn # "Main"
      PROVE  Popped([Caller EXCEPT !.info = info])
  <2> DEFINE e == [Caller EXCEPT !.info = info]
             i == Len(stack) - 1
  <2>1. Len(stack) > 1 /\ Caller \in Frames
    BY <1>1, <1>5
  <2>2. e \in Frames
    BY <2>1 DEF Frames
  <2>3. SubSeq(stack, 1, i)[i] = Caller
    BY <1>1, <1>3, <2>1 DEF Caller
  <2>4. stack' = [SubSeq(stack, 1, i) EXCEPT ![i].info = info]
    BY <1>5 DEF ReturnWorkInfo
  <2>5. stack' = [SubSeq(stack, 1, i) EXCEPT ![i] = e]
    BY <2>3, <2>4
  <2> HIDE DEF e
  <2>6. Popped(e)
    BY <1>1, <2>1, <2>2, <2>5, ReturnValuePops
  <2> QED
    BY <2>6 DEF e
<1>6. ASSUME DoWorkReturns
      PROVE  LET info == IF pending \/ Top.info = Immediate THEN Immediate
                         ELSE NextWorkInfo(Top.info) IN
             /\ Popped([Caller EXCEPT !.info = info])
             /\ due' = info /\ info \in RunTimes
  <2> DEFINE info == IF pending \/ Top.info = Immediate THEN Immediate ELSE NextWorkInfo(Top.info)
  <2>1. info \in RunTimes
    BY <1>1, WakeUpType, Times DEF StackInv
  <2>2. ReturnWorkInfo(info)
    <3>1. CASE pending \/ Top.info = Immediate
      BY <1>6, <3>1 DEF DoWorkReturns
    <3>2. CASE ~(pending \/ Top.info = Immediate)
      BY <1>6, <3>2 DEF DoWorkReturns
    <3> QED
      BY <3>1, <3>2
  <2>3. Top.fn # "Main"
    BY <1>6 DEF DoWorkReturns, At
  <2> HIDE DEF info
  <2>4. Popped([Caller EXCEPT !.info = info]) /\ due' = info
    BY <1>5, <2>1, <2>2, <2>3 DEF ReturnWorkInfo
  <2> QED
    BY <2>1, <2>4 DEF info
<1> QED
  BY <1>2, <1>4, <1>6

\* Quit(i) tells one run loop.
Told(i) ==
    /\ stack' \in Seq(Frames) /\ Len(stack') = Len(stack)
    /\ \A j \in 1..Len(stack) : stack'[j] = IF j = i THEN [stack[i] EXCEPT !.quit = TRUE] ELSE stack[j]

LEMMA QuitStep ==
    ASSUME StackInv, NEW i, Quit(i)
    PROVE  Told(i) /\ i \in 1..Len(stack)
<1> DEFINE e == [stack[i] EXCEPT !.quit = TRUE]
<1>1. stack \in Seq(Frames) \ {<<>>}
  BY DEF StackInv, TypeOK
<1>2. i \in 1..Len(stack) /\ stack[i] \in Frames
  BY <1>1, StackType DEF Quit, RunLoops
<1>3. stack' = [stack EXCEPT ![i] = e]
  BY DEF Quit
<1>4. e \in Frames
  BY <1>2 DEF Frames
<1> HIDE DEF e
<1>5. /\ stack' \in Seq(Frames) /\ Len(stack') = Len(stack)
      /\ \A j \in 1..Len(stack) : stack'[j] = IF j = i THEN e ELSE stack[j]
  BY <1>1, <1>3, <1>4, Update
<1> QED
  BY <1>2, <1>5 DEF Told, e
\* The shape survives each kind of change.
LEMMA TurnShape ==
    ASSUME StackInv, NEW e, Turned(e), e.fn = Top.fn
    PROVE  stack' \in Seq(Frames) \ {<<>>} /\ CallsAreRight'
<1>1. /\ Len(stack) \in Nat \ {0} /\ Len(stack') = Len(stack) /\ stack' \in Seq(Frames)
      /\ \A i \in 1..Len(stack) : stack'[i] = IF i = Len(stack) THEN e ELSE stack[i]
      /\ stack[Len(stack)].fn = e.fn
  BY CallerFacts DEF Turned, Top
<1>2. stack' # <<>>
  BY <1>1, EmptySeq
<1>3. stack'[1].fn = "Main"
  BY <1>1 DEF StackInv, CallsAreRight
<1>4. ASSUME NEW i \in 2..Len(stack')
      PROVE  MayCall(stack'[i - 1], stack'[i])
  <2>1. MayCall(stack[i - 1], stack[i])
    BY <1>1, <1>4 DEF StackInv, CallsAreRight
  <2>2. stack'[i - 1] = stack[i - 1] /\ stack'[i].fn = stack[i].fn
    BY <1>1, <1>4
  <2> QED
    BY <2>1, <2>2 DEF MayCall
<1> QED
  BY <1>1, <1>2, <1>3, <1>4 DEF CallsAreRight

LEMMA PushShape ==
    ASSUME StackInv, NEW e, NEW f, Pushed(e, f), e.fn = Top.fn, MayCall(e, f)
    PROVE  stack' \in Seq(Frames) \ {<<>>} /\ CallsAreRight'
<1> DEFINE n == Len(stack)
<1>1. /\ n \in Nat \ {0} /\ Len(stack') = n + 1 /\ stack' \in Seq(Frames)
      /\ \A i \in 1..n + 1 : stack'[i] = IF i = n + 1 THEN f ELSE IF i = n THEN e ELSE stack[i]
      /\ stack[n].fn = e.fn
  BY CallerFacts DEF Pushed, Top
<1>2. stack' # <<>>
  BY <1>1, EmptySeq
<1>5. stack[1].fn = "Main" /\ \A i \in 2..n : MayCall(stack[i - 1], stack[i])
  BY DEF StackInv, CallsAreRight
<1> HIDE DEF n
<1>3. stack'[1].fn = "Main"
  BY <1>1, <1>5
<1>4. ASSUME NEW i \in 2..Len(stack')
      PROVE  MayCall(stack'[i - 1], stack'[i])
  <2>1. CASE i = n + 1
    <3>1. stack'[i] = f /\ stack'[i - 1] = e
      BY <1>1, <2>1
    <3> QED
      BY <3>1
  <2>2. CASE i # n + 1
    <3>0. i \in 2..n
      BY <1>1, <1>4, <2>2
    <3>1. MayCall(stack[i - 1], stack[i])
      BY <1>5, <3>0
    <3>2. stack'[i - 1] = stack[i - 1] /\ stack'[i].fn = stack[i].fn
      BY <1>1, <1>4, <2>2
    <3> QED
      BY <3>1, <3>2 DEF MayCall
  <2> QED
    BY <2>1, <2>2
<1> QED
  BY <1>1, <1>2, <1>3, <1>4 DEF CallsAreRight

LEMMA PopShape ==
    ASSUME StackInv, NEW e, Popped(e), Top.fn # "Main", e.fn = Caller.fn
    PROVE  stack' \in Seq(Frames) \ {<<>>} /\ CallsAreRight'
<1> DEFINE n == Len(stack)
<1>1. /\ n \in Nat /\ n > 1 /\ Len(stack') = n - 1 /\ stack' \in Seq(Frames)
      /\ \A i \in 1..n - 1 : stack'[i] = IF i = n - 1 THEN e ELSE stack[i]
      /\ stack[n - 1].fn = e.fn
  BY CallerFacts DEF Popped, Caller
<1>2. stack' # <<>>
  BY <1>1, EmptySeq
<1>5. stack[1].fn = "Main" /\ \A i \in 2..n : MayCall(stack[i - 1], stack[i])
  BY DEF StackInv, CallsAreRight
<1> HIDE DEF n
<1>3. stack'[1].fn = "Main"
  BY <1>1, <1>5
<1>4. ASSUME NEW i \in 2..Len(stack')
      PROVE  MayCall(stack'[i - 1], stack'[i])
  <2>1. MayCall(stack[i - 1], stack[i])
    BY <1>1, <1>4, <1>5
  <2>2. stack'[i - 1] = stack[i - 1] /\ stack'[i].fn = stack[i].fn
    BY <1>1, <1>4
  <2> QED
    BY <2>1, <2>2 DEF MayCall
<1> QED
  BY <1>1, <1>2, <1>3, <1>4 DEF CallsAreRight

LEMMA ToldShape ==
    ASSUME StackInv, NEW i \in 1..Len(stack), Told(i)
    PROVE  stack' \in Seq(Frames) \ {<<>>} /\ CallsAreRight'
<1>1. /\ Len(stack) \in Nat \ {0} /\ Len(stack') = Len(stack) /\ stack' \in Seq(Frames)
      /\ \A j \in 1..Len(stack) : stack[j] \in Frames
  BY CallerFacts DEF Told
<1>2. stack' # <<>>
  BY <1>1, EmptySeq
<1>3. \A j \in 1..Len(stack) : /\ stack'[j].fn = stack[j].fn /\ stack'[j].at = stack[j].at
                               /\ stack'[j].n = stack[j].n
  <2>1. LET e == [stack[i] EXCEPT !.quit = TRUE] IN
        e.fn = stack[i].fn /\ e.at = stack[i].at /\ e.n = stack[i].n
    BY <1>1 DEF Frames
  <2>2. \A j \in 1..Len(stack) :
            stack'[j] = IF j = i THEN [stack[i] EXCEPT !.quit = TRUE] ELSE stack[j]
    BY DEF Told
  <2> QED
    BY <2>1, <2>2
<1>4. stack'[1].fn = "Main"
  BY <1>1, <1>3 DEF StackInv, CallsAreRight
<1>5. ASSUME NEW j \in 2..Len(stack')
      PROVE  MayCall(stack'[j - 1], stack'[j])
  <2>1. MayCall(stack[j - 1], stack[j]) /\ j \in 1..Len(stack) /\ j - 1 \in 1..Len(stack)
    BY <1>1, <1>5 DEF StackInv, CallsAreRight
  <2> QED
    BY <1>3, <2>1 DEF MayCall
<1> QED
  BY <1>1, <1>2, <1>4, <1>5 DEF CallsAreRight

LEMMA StackInit == Init => StackInv
<1> SUFFICES ASSUME Init PROVE StackInv
  OBVIOUS
<1>1. Frame("Main", "Body") \in Frames /\ Frame("Main", "Body").fn = "Main"
  BY FrameType DEF Labels, Frame
<1>2. stack \in Seq(Frames) \ {<<>>} /\ Len(stack) = 1 /\ stack[1] = Frame("Main", "Body")
  BY <1>1 DEF Init
<1>3. TypeOK
  <2>1. now \in 0..MaxTime /\ budget \in 0..Budget
    BY BoundAssumption DEF Init
  <2>2. wake \in [Tasks -> RunTimes] /\ due \in RunTimes /\ next_delayed_do_work \in RunTimes
        /\ quit_runloop_after \in RunTimes
    BY Times DEF Init
  <2>3. /\ is_bound \in BOOLEAN /\ pending \in BOOLEAN /\ in_do_work \in BOOLEAN
        /\ task_execution_allowed \in BOOLEAN /\ quit_pending \in BOOLEAN
        /\ suspended \in BOOLEAN /\ requested \in BOOLEAN
        /\ pc \in [Callers -> {"Idle", "Request", "Pump"}]
        /\ state \in [Tasks -> {"New", "Incoming", "Ready", "Delayed", "Ripe", "Done"}]
    BY DEF Init
  <2> QED
    BY <1>2, <2>1, <2>2, <2>3 DEF TypeOK
<1> QED
  BY <1>1, <1>2, <1>3 DEF StackInv, CallsAreRight

LEMMA StackStep == StackInv /\ [Next]_vars => StackInv'
<1> SUFFICES ASSUME StackInv, [Next]_vars PROVE StackInv'
  OBVIOUS
<1>0. /\ Top \in Frames /\ Len(stack) \in Nat \ {0} /\ Top.info \in RunTimes /\ Top.saved \in RunTimes
      /\ Top.fn # "Main" => Len(stack) > 1 /\ Caller \in Frames /\ MayCall(Caller, Top)
  BY CallerFacts DEF Frames
<1>a. TypeOK /\ CallsAreRight
  BY DEF StackInv
<1>b. /\ \A t : SetNextDelayedDoWork(t) /\ t \in RunTimes =>
             next_delayed_do_work' \in RunTimes /\ due' \in RunTimes
      /\ MoveReadyDelayedTasks => next_delayed_do_work' \in RunTimes /\ due' \in RunTimes
      /\ Spend => budget' \in 0..Budget
  <2>1. ASSUME NEW t \in RunTimes, SetNextDelayedDoWork(t)
        PROVE  next_delayed_do_work' \in RunTimes /\ due' \in RunTimes
    BY <1>a, <2>1 DEF SetNextDelayedDoWork, TypeOK
  <2>2. ASSUME MoveReadyDelayedTasks
        PROVE  next_delayed_do_work' \in RunTimes /\ due' \in RunTimes
    <3>1. CASE Overdue = {}
      BY <1>a, <2>2, <3>1 DEF MoveReadyDelayedTasks, TypeOK
    <3>2. CASE Overdue # {}
      <4>1. Earliest({wake[j] : j \in In("Delayed") \ Overdue}) \in RunTimes
        BY <1>a, WakeUpType DEF In
      <4> QED
        BY <2>1, <2>2, <3>2, <4>1 DEF MoveReadyDelayedTasks
    <3> QED
      BY <3>1, <3>2
  <2>3. Spend => budget' \in 0..Budget
    BY <1>a, BoundAssumption DEF Spend, TypeOK
  <2> QED
    BY <2>1, <2>2, <2>3
<1>1. CASE UNCHANGED vars
  BY <1>1, <1>a DEF StackInv, TypeOK, CallsAreRight, MayCall, vars, dedupVars, loopVars, pumpVars,
                   sourceVars
<1>2. ASSUME NEW l \in {"Worked", "Body"}, CallDoWork(l),
             (Top.fn = "Run" /\ l = "Worked") \/ (Top.fn = "Native" /\ l = "Body")
      PROVE  StackInv'
  <2> DEFINE e == [Top EXCEPT !.at = l]
             f == Frame("DoWork", "Start")
  <2>1. Pushed(e, f) /\ e.fn = Top.fn /\ MayCall(e, f)
    BY <1>0, <1>2, PushSteps DEF Labels, MayCall, Frame, Frames
  <2> HIDE DEF e, f
  <2>2. stack' \in Seq(Frames) \ {<<>>} /\ CallsAreRight'
    BY <2>1, PushShape
  <2> QED
    BY <1>a, <1>2, <2>2, Times DEF StackInv, TypeOK, CallDoWork, dedupVars, loopVars, sourceVars
<1>3. CASE PumpCallsDoWork \/ PumpTimerFires
  BY <1>2, <1>3 DEF PumpCallsDoWork, PumpTimerFires, At
<1>4. CASE DoWorkStart
  <2> DEFINE e == IF task_execution_allowed THEN [Top EXCEPT !.at = "Select"]
                  ELSE [Top EXCEPT !.at = "Did", !.info = quit_runloop_after]
  <2>1. Turned(e) /\ e.fn = Top.fn
    BY <1>0, <1>4, TurnSteps DEF Frames
  <2> HIDE DEF e
  <2>2. stack' \in Seq(Frames) \ {<<>>} /\ CallsAreRight'
    BY <2>1, TurnShape
  <2> QED
    BY <1>a, <1>4, <2>2 DEF StackInv, TypeOK, DoWorkStart, loopVars, sourceVars, pumpVars
<1>5. CASE BatchEnds
  <2> DEFINE e == [Top EXCEPT !.at = IF quit_pending THEN "Did" ELSE "Wake"]
  <2>1. Turned(e) /\ e.fn = Top.fn
    BY <1>0, <1>5, TurnSteps DEF Frames
  <2> HIDE DEF e
  <2>2. stack' \in Seq(Frames) \ {<<>>} /\ CallsAreRight'
    BY <2>1, TurnShape
  <2>3. state' \in [Tasks -> {"New", "Incoming", "Ready", "Delayed", "Ripe", "Done"}]
    BY <1>a, <1>5 DEF TypeOK, BatchEnds, Reloaded
  <2>4. next_delayed_do_work' \in RunTimes /\ due' \in RunTimes
    BY <1>a, <1>b, <1>5 DEF BatchEnds, TypeOK
  <2>5. pending' \in BOOLEAN /\ in_do_work' \in BOOLEAN
    BY <1>a, <1>5 DEF BatchEnds, TypeOK
  <2> QED
    BY <1>a, <1>5, <2>2, <2>3, <2>4, <2>5 DEF StackInv, TypeOK, BatchEnds, loopVars
<1>6. CASE GetWakeUp
  <2> DEFINE e == [Top EXCEPT !.at = "Did", !.info = PendingWakeUp]
  <2>1. Turned(e) /\ e.fn = Top.fn
    BY <1>0, <1>6, TurnSteps DEF Frames
  <2> HIDE DEF e
  <2>2. stack' \in Seq(Frames) \ {<<>>} /\ CallsAreRight'
    BY <2>1, TurnShape
  <2>3. state' \in [Tasks -> {"New", "Incoming", "Ready", "Delayed", "Ripe", "Done"}]
    BY <1>a, <1>6 DEF TypeOK, GetWakeUp
  <2> QED
    BY <1>a, <1>6, <2>2, <2>3 DEF StackInv, TypeOK, GetWakeUp, dedupVars, loopVars, pumpVars
<1>7. CASE DoWorkReturns
  <2> DEFINE info == IF pending \/ Top.info = Immediate THEN Immediate ELSE NextWorkInfo(Top.info)
             e == [Caller EXCEPT !.info = info]
  <2>1. Popped(e) /\ due' = info /\ info \in RunTimes
    BY <1>7, PopSteps
  <2>2. Top.fn # "Main"
    BY <1>7 DEF DoWorkReturns, At
  <2>3. e.fn = Caller.fn
    BY <1>0, <2>2 DEF Frames
  <2>4. next_delayed_do_work' \in RunTimes
    <3>1. NextRunTime(Top.info) \in RunTimes /\ Never \in RunTimes /\ next_delayed_do_work \in RunTimes
      BY <1>a, <1>0, WakeUpType, Times DEF TypeOK
    <3>2. \/ next_delayed_do_work' = next_delayed_do_work \/ next_delayed_do_work' = Never
          \/ next_delayed_do_work' = NextRunTime(Top.info)
      BY <1>7 DEF DoWorkReturns
    <3> QED
      BY <3>1, <3>2
  <2>5. pending' \in BOOLEAN /\ in_do_work' \in BOOLEAN
    BY <1>a, <1>7 DEF DoWorkReturns, TypeOK
  <2> HIDE DEF e, info
  <2>6. stack' \in Seq(Frames) \ {<<>>} /\ CallsAreRight'
    BY <2>1, <2>2, <2>3, PopShape
  <2> QED
    BY <1>a, <1>7, <2>1, <2>4, <2>5, <2>6 DEF StackInv, TypeOK, DoWorkReturns, loopVars, sourceVars
<1>8. CASE PumpGoesOn
  <2> DEFINE e == [Top EXCEPT !.at = IF Top.info = Immediate THEN "Top" ELSE "Idle"]
  <2>1. Turned(e) /\ e.fn = Top.fn
    BY <1>0, <1>8, TurnSteps DEF Frames
  <2> HIDE DEF e
  <2>2. stack' \in Seq(Frames) \ {<<>>} /\ CallsAreRight'
    BY <2>1, TurnShape
  <2> QED
    BY <1>a, <1>8, <2>2 DEF StackInv, TypeOK, PumpGoesOn, dedupVars, loopVars, sourceVars, pumpVars
<1>9. CASE DoIdleWork
  <2>1. \E e : Turned(e) /\ e.fn = Top.fn
    <3> DEFINE quit == quit_runloop_after <= now \/ Top.idle
               e1 == [Top EXCEPT !.at = "Wait"]
               e2 == [Top EXCEPT !.at = "Wait", !.quit = quit]
    <3>1. Turned(e1) \/ Turned(e2)
      BY <1>9, TurnSteps
    <3>2. e1.fn = Top.fn /\ e2.fn = Top.fn
      BY <1>0 DEF Frames
    <3> HIDE DEF e1, e2
    <3> QED
      BY <3>1, <3>2
  <2>2. stack' \in Seq(Frames) \ {<<>>} /\ CallsAreRight'
    BY <2>1, TurnShape
  <2>3. requested' \in BOOLEAN /\ quit_pending' \in BOOLEAN /\ budget' \in 0..Budget
    <3>1. CASE Spend /\ requested' = TRUE /\ UNCHANGED quit_pending
      BY <1>a, <1>b, <3>1 DEF TypeOK
    <3>2. CASE quit_pending' = (quit_pending \/ (quit_runloop_after <= now \/ Top.idle)) /\ UNCHANGED <<requested, budget>>
      BY <1>a, <3>2 DEF TypeOK
    <3> QED
      BY <1>9, <3>1, <3>2 DEF DoIdleWork
  <2> QED
    BY <1>a, <1>9, <2>2, <2>3 DEF StackInv, TypeOK, DoIdleWork, dedupVars, sourceVars
<1>10. CASE PumpWaits \/ SpuriousWakeUp
  <2> DEFINE e == [Top EXCEPT !.at = "Top"]
  <2>1. Turned(e) /\ e.fn = Top.fn
    BY <1>0, <1>10, TurnSteps DEF Frames
  <2> HIDE DEF e
  <2>2. stack' \in Seq(Frames) \ {<<>>} /\ CallsAreRight'
    BY <2>1, TurnShape
  <2>3. budget' \in 0..Budget
    BY <1>a, <1>b, <1>10 DEF PumpWaits, SpuriousWakeUp, TypeOK
  <2> QED
    BY <1>a, <1>10, <2>2, <2>3 DEF StackInv, TypeOK, PumpWaits, SpuriousWakeUp, dedupVars, loopVars,
                                   sourceVars, pumpVars
<1>11. ASSUME RunReturns \/ NativeLoopReturns \/ HandlerReturns
       PROVE  stack' \in Seq(Frames) \ {<<>>} /\ CallsAreRight'
  <2>1. Popped(Caller) /\ Top.fn # "Main"
    BY <1>11, PopSteps DEF RunReturns, NativeLoopReturns, HandlerReturns, At
  <2> QED
    BY <2>1, PopShape
<1>12. CASE RunReturns
  <2>1. quit_pending' \in BOOLEAN /\ task_execution_allowed' \in BOOLEAN
    BY <1>12 DEF RunReturns, QuitWasDeferred
  <2>2. quit_runloop_after' \in RunTimes
    BY <1>0, <1>12 DEF RunReturns
  <2> QED
    BY <1>a, <1>11, <1>12, <2>1, <2>2 DEF StackInv, TypeOK, RunReturns, dedupVars, sourceVars, pumpVars
<1>13. CASE NativeLoopReturns
  <2>1. task_execution_allowed' \in BOOLEAN /\ pending' \in BOOLEAN /\ in_do_work' \in BOOLEAN
    BY <1>a, <1>13 DEF NativeLoopReturns, TypeOK
  <2> QED
    BY <1>a, <1>11, <1>13, <2>1 DEF StackInv, TypeOK, NativeLoopReturns, loopVars, sourceVars, pumpVars
<1>14. CASE HandlerReturns
  BY <1>a, <1>11, <1>14 DEF StackInv, TypeOK, HandlerReturns, dedupVars, loopVars, sourceVars, pumpVars
<1>15. CASE TaskReturns
  <2> DEFINE e == [Caller EXCEPT !.n = IF quit_pending THEN WorkBatchSize ELSE Caller.n + 1]
  <2>1. Top.fn # "Main" /\ Popped(e)
    BY <1>15, PopSteps DEF TaskReturns, At
  <2>2. e.fn = Caller.fn
    BY <1>0, <2>1 DEF Frames
  <2> HIDE DEF e
  <2>3. stack' \in Seq(Frames) \ {<<>>} /\ CallsAreRight'
    BY <2>1, <2>2, PopShape
  <2> QED
    BY <1>a, <1>15, <2>3 DEF StackInv, TypeOK, TaskReturns, dedupVars, loopVars, sourceVars, pumpVars
<1>16. ASSUME NEW k \in Tasks, RunTask(k)
       PROVE  StackInv'
  <2> DEFINE e == [Top EXCEPT !.at = "Select"]
             f == Frame("Task", "Body")
  <2>1. Pushed(e, f) /\ e.fn = Top.fn /\ MayCall(e, f)
    BY <1>0, <1>16, PushSteps DEF Labels, MayCall, Frame, Frames, RunTask, At
  <2> HIDE DEF e, f
  <2>2. stack' \in Seq(Frames) \ {<<>>} /\ CallsAreRight'
    BY <2>1, PushShape
  <2>3. state' \in [Tasks -> {"New", "Incoming", "Ready", "Delayed", "Ripe", "Done"}]
    BY <1>a, <1>16 DEF TypeOK, RunTask, Reloaded
  <2>4. next_delayed_do_work' \in RunTimes /\ due' \in RunTimes
    BY <1>b, <1>16 DEF RunTask
  <2> QED
    BY <1>a, <1>16, <2>2, <2>3, <2>4 DEF StackInv, TypeOK, RunTask, dedupVars, loopVars
<1>17. CASE BindToCurrentThread
  <2>1. requested' \in BOOLEAN
    BY <1>17 DEF BindToCurrentThread
  <2> QED
    BY <1>a, <1>17, <2>1 DEF StackInv, TypeOK, CallsAreRight, MayCall, BindToCurrentThread, loopVars,
                             sourceVars
<1>18. CASE PowerStateChange
  <2>1. suspended' \in BOOLEAN /\ budget' \in 0..Budget
    BY <1>b, <1>18 DEF PowerStateChange
  <2> QED
    BY <1>a, <1>18, <2>1 DEF StackInv, TypeOK, CallsAreRight, MayCall, PowerStateChange, dedupVars,
                             loopVars, sourceVars, pumpVars
<1>19. ASSUME NEW i \in RunLoops, Quit(i)
       PROVE  StackInv'
  <2>1. stack' \in Seq(Frames) \ {<<>>} /\ CallsAreRight'
    BY <1>19, QuitStep, ToldShape
  <2>2. quit_pending' \in BOOLEAN /\ budget' \in 0..Budget
    BY <1>b, <1>19 DEF Quit
  <2> QED
    BY <1>a, <1>19, <2>1, <2>2 DEF StackInv, TypeOK, Quit, dedupVars, sourceVars, pumpVars
<1>20. ASSUME NEW k \in Tasks, NEW t \in 1..MaxTime, PostDelayedTask(k, t)
       PROVE  StackInv'
  <2>0. t \in RunTimes
    BY Times
  <2>1. state' \in [Tasks -> {"New", "Incoming", "Ready", "Delayed", "Ripe", "Done"}]
        /\ wake' \in [Tasks -> RunTimes]
    BY <1>a, <1>20, <2>0 DEF TypeOK, PostDelayedTask
  <2>2. next_delayed_do_work' \in RunTimes /\ due' \in RunTimes
    BY <1>a, <1>b, <1>20, <2>0 DEF PostDelayedTask, TypeOK
  <2>3. budget' \in 0..Budget
    BY <1>b, <1>20 DEF PostDelayedTask
  <2> QED
    BY <1>a, <1>20, <2>1, <2>2, <2>3 DEF StackInv, TypeOK, CallsAreRight, MayCall, PostDelayedTask,
                                         dedupVars, loopVars
<1>21. ASSUME NEW a \in BOOLEAN, NEW b \in BOOLEAN, NEW t \in 1..Never, Run(a, b, t)
       PROVE  StackInv'
  <2> DEFINE e == [Top EXCEPT !.at = "Body"]
             f == [Frame("Run", "Top") EXCEPT !.flip = a /\ ~task_execution_allowed, !.idle = b,
                                              !.saved = quit_runloop_after]
  <2>1. Pushed(e, f)
    BY <1>21, PushSteps
  <2>2. e.fn = Top.fn /\ f.fn = "Run" /\ Top.fn \in {"Main", "Task", "Handler"}
    BY <1>0, <1>21 DEF Frame, Frames, Run, InAppCode, At
  <2> HIDE DEF e, f
  <2>3. stack' \in Seq(Frames) \ {<<>>} /\ CallsAreRight'
    BY <2>1, <2>2, PushShape DEF MayCall
  <2>4. quit_runloop_after' \in RunTimes /\ budget' \in 0..Budget /\ task_execution_allowed' \in BOOLEAN
    BY <1>b, <1>21, Times DEF Run
  <2> QED
    BY <1>a, <1>21, <2>3, <2>4 DEF StackInv, TypeOK, Run, dedupVars, sourceVars, pumpVars
<1>22. ASSUME NEW a \in BOOLEAN, EnterNativeLoop(a)
       PROVE  StackInv'
  <2> DEFINE e == [Top EXCEPT !.at = "Body"]
             f == [Frame("Native", "Body") EXCEPT !.flip = a]
  <2>1. Pushed(e, f)
    BY <1>22, PushSteps
  <2>2. e.fn = Top.fn /\ f.fn = "Native" /\ Top.fn \in {"Main", "Task", "Handler"}
    BY <1>0, <1>22 DEF Frame, Frames, EnterNativeLoop, InAppCode, At
  <2> HIDE DEF e, f
  <2>3. stack' \in Seq(Frames) \ {<<>>} /\ CallsAreRight'
    BY <2>1, <2>2, PushShape DEF MayCall
  <2>4. /\ pending' \in BOOLEAN /\ budget' \in 0..Budget /\ task_execution_allowed' \in BOOLEAN
        /\ requested' \in BOOLEAN
    BY <1>b, <1>22 DEF EnterNativeLoop
  <2> QED
    BY <1>a, <1>22, <2>3, <2>4 DEF StackInv, TypeOK, EnterNativeLoop, loopVars, sourceVars
<1>23. CASE NativeMessage
  <2> DEFINE e == [Top EXCEPT !.at = IF Top.fn = "Run" THEN "Top" ELSE "Body"]
             f == Frame("Handler", "Body")
  <2>1. Pushed(e, f)
    BY <1>23, PushSteps
  <2>2. e.fn = Top.fn /\ MayCall(e, f)
    BY <1>0, <1>23 DEF MayCall, Frame, Frames, NativeMessage, At
  <2> HIDE DEF e, f
  <2>3. stack' \in Seq(Frames) \ {<<>>} /\ CallsAreRight'
    BY <2>1, <2>2, PushShape
  <2> QED
    BY <1>a, <1>b, <1>23, <2>3 DEF StackInv, TypeOK, NativeMessage, dedupVars, loopVars, sourceVars,
                                   pumpVars
<1>24. ASSUME NEW t \in Callers, PostStep(t) \/ (\E k \in Tasks : PostTask(t, k))
       PROVE  StackInv'
  <2>1. ASSUME NEW k \in Tasks, PostTask(t, k)
        PROVE  StackInv'
    <3>1. state' \in [Tasks -> {"New", "Incoming", "Ready", "Delayed", "Ripe", "Done"}]
          /\ pc' \in [Callers -> {"Idle", "Request", "Pump"}]
      BY <1>a, <2>1 DEF TypeOK, PostTask
    <3> QED
      BY <1>a, <2>1, <3>1 DEF StackInv, TypeOK, CallsAreRight, MayCall, PostTask, dedupVars, loopVars,
                              pumpVars
  <2>2. CASE PostStep(t)
    <3>1. /\ pc' \in [Callers -> {"Idle", "Request", "Pump"}]
          /\ pending' \in BOOLEAN /\ requested' \in BOOLEAN
      BY <1>a, <2>2 DEF TypeOK, PostStep, RequestWork, PumpScheduleWork, dedupVars, pumpVars
    <3> QED
      BY <1>a, <2>2, <3>1 DEF StackInv, TypeOK, CallsAreRight, MayCall, PostStep, RequestWork,
                              PumpScheduleWork, dedupVars, loopVars, pumpVars, sourceVars
  <2> QED
    BY <1>24, <2>1, <2>2
<1>25. CASE Tick
  <2>1. now' \in 0..MaxTime
    BY <1>a, <1>25, BoundAssumption DEF TypeOK, Tick
  <2> QED
    BY <1>a, <1>25, <2>1 DEF StackInv, TypeOK, CallsAreRight, MayCall, Tick, dedupVars, loopVars,
                             pumpVars, sourceVars
<1> QED
  BY <1>1, <1>3, <1>4, <1>5, <1>6, <1>7, <1>8, <1>9, <1>10, <1>12, <1>13, <1>14, <1>15, <1>16,
     <1>17, <1>18, <1>19, <1>20, <1>21, <1>22, <1>23, <1>24, <1>25
     DEF Next, BoundStep, AppStep

-----------------------------------------------------------------------------
(* Permission to run tasks. *)

\* One of the first n frames of s is a task that no loop above it lets others into.
Barred(s, n) ==
    \E i \in 1..n : s[i].fn = "Task" /\ \A j \in i+1..n : ~s[j].flip

FlipsAreOfLoops == \A i \in 1..Len(stack) : stack[i].flip => stack[i].fn \in {"Run", "Native"}

\* The flag says what the stack says; a loop that gave the permission took it back from a
\* task, and tasks are selected where they are permitted.
PermissionFollowsStack ==
    /\ task_execution_allowed <=> ~Barred(stack, Len(stack))
    /\ \A i \in 1..Len(stack) : stack[i].flip => Barred(stack, i - 1)
    /\ \A i \in 1..Len(stack) :
          stack[i].fn = "Task" \/ (stack[i].fn = "DoWork" /\ stack[i].at = "Select")
             => ~Barred(stack, i - 1)

PermissionInv == FlipsAreOfLoops /\ PermissionFollowsStack

LEMMA BarredNext ==
    ASSUME NEW s, NEW n \in Nat
    PROVE  Barred(s, n + 1) <=> s[n + 1].fn = "Task" \/ (Barred(s, n) /\ ~s[n + 1].flip)
<1>1. ASSUME Barred(s, n + 1), s[n + 1].fn # "Task"
      PROVE  Barred(s, n) /\ ~s[n + 1].flip
  <2>1. PICK i \in 1..n + 1 : s[i].fn = "Task" /\ \A j \in i+1..n + 1 : ~s[j].flip
    BY <1>1 DEF Barred
  <2>2. i \in 1..n /\ n + 1 \in i+1..n+1 /\ i+1..n \subseteq i+1..n+1
    BY <1>1, <2>1
  <2> QED
    BY <2>1, <2>2 DEF Barred
<1>2. ASSUME s[n + 1].fn = "Task"
      PROVE  Barred(s, n + 1)
  <2>1. n + 1 \in 1..n + 1 /\ (n + 1) + 1..n + 1 = {}
    OBVIOUS
  <2> QED
    BY <1>2, <2>1 DEF Barred
<1>3. ASSUME Barred(s, n), ~s[n + 1].flip
      PROVE  Barred(s, n + 1)
  <2>1. PICK i \in 1..n : s[i].fn = "Task" /\ \A j \in i+1..n : ~s[j].flip
    BY <1>3 DEF Barred
  <2>2. i \in 1..n + 1 /\ \A j \in i+1..n+1 : j = n + 1 \/ j \in i+1..n
    OBVIOUS
  <2> QED
    BY <1>3, <2>1, <2>2 DEF Barred
<1> QED
  BY <1>1, <1>2, <1>3

LEMMA SamePrefix ==
    ASSUME NEW s, NEW r, NEW n \in Nat,
           \A i \in 1..n : r[i].fn = s[i].fn /\ r[i].flip = s[i].flip
    PROVE  \A m \in 0..n : Barred(r, m) <=> Barred(s, m)
<1> TAKE m \in 0..n
<1>1. 1..m \subseteq 1..n /\ \A i \in 1..m : i+1..m \subseteq 1..n
  OBVIOUS
<1> QED
  BY <1>1 DEF Barred

LEMMA BarredTop ==
    ASSUME StackInv, PermissionInv
    PROVE  /\ Len(stack) - 1 \in Nat /\ Len(stack) \in 1..Len(stack)
           /\ ~task_execution_allowed <=>
                 Top.fn = "Task" \/ (Barred(stack, Len(stack) - 1) /\ ~Top.flip)
<1>1. Len(stack) \in Nat \ {0}
  BY CallerFacts
<1>2. Len(stack) - 1 \in Nat /\ (Len(stack) - 1) + 1 = Len(stack)
  BY <1>1
<1>3. Barred(stack, Len(stack)) <=> Top.fn = "Task" \/ (Barred(stack, Len(stack) - 1) /\ ~Top.flip)
  BY <1>2, BarredNext DEF Top
<1>4. ~task_execution_allowed <=> Barred(stack, Len(stack))
  BY DEF PermissionInv, PermissionFollowsStack
<1> QED
  BY <1>1, <1>2, <1>3, <1>4

\* The permission survives each kind of change.
LEMMA KeptPermission ==
    ASSUME StackInv, PermissionInv, Len(stack') = Len(stack),
           task_execution_allowed' = task_execution_allowed,
           \A i \in 1..Len(stack) :
              /\ stack'[i].fn = stack[i].fn /\ stack'[i].flip = stack[i].flip
              /\ \/ stack'[i].at = stack[i].at \/ stack[i].fn # "DoWork"
                 \/ stack'[i].at # "Select"
                 \/ i = Len(stack) /\ task_execution_allowed
    PROVE  PermissionInv'
<1> DEFINE n == Len(stack)
<1>1. n \in Nat \ {0}
  BY CallerFacts
<1>2. \A i \in 0..n : Barred(stack', i) <=> Barred(stack, i)
  BY <1>1, SamePrefix
<1>3. FlipsAreOfLoops'
  BY DEF PermissionInv, FlipsAreOfLoops
<1>4. (task_execution_allowed <=> ~Barred(stack, Len(stack)))'
  BY <1>1, <1>2 DEF PermissionInv, PermissionFollowsStack
<1>5. ASSUME NEW i \in 1..n
      PROVE  /\ stack'[i].flip => Barred(stack', i - 1)
             /\ stack'[i].fn = "Task" \/ (stack'[i].fn = "DoWork" /\ stack'[i].at = "Select")
                   => ~Barred(stack', i - 1)
  <2>1. /\ stack[i].flip => Barred(stack, i - 1)
        /\ stack[i].fn = "Task" \/ (stack[i].fn = "DoWork" /\ stack[i].at = "Select")
              => ~Barred(stack, i - 1)
    BY DEF PermissionInv, PermissionFollowsStack
  <2>2. Barred(stack', i - 1) <=> Barred(stack, i - 1)
    BY <1>1, <1>2
  <2>3. ASSUME i = n, task_execution_allowed, stack[i].fn = "DoWork"
        PROVE  ~Barred(stack, i - 1)
    <3>1. ~Top.flip
      BY <2>3, <1>1 DEF PermissionInv, FlipsAreOfLoops, Top
    <3> QED
      BY <2>3, <3>1, BarredTop
  <2> QED
    BY <2>1, <2>2, <2>3
<1> QED
  BY <1>3, <1>4, <1>5 DEF PermissionInv, PermissionFollowsStack

LEMMA TurnPermission ==
    ASSUME StackInv, PermissionInv, NEW e, Turned(e), e.fn = Top.fn, e.flip = Top.flip,
           task_execution_allowed' = task_execution_allowed,
           Top.fn = "DoWork" /\ e.at = "Select" => task_execution_allowed
    PROVE  PermissionInv'
BY KeptPermission, CallerFacts DEF Turned, Top

LEMMA ToldPermission ==
    ASSUME StackInv, PermissionInv, NEW i \in 1..Len(stack), Told(i),
           task_execution_allowed' = task_execution_allowed
    PROVE  PermissionInv'
<1>1. LET e == [stack[i] EXCEPT !.quit = TRUE] IN
      e.fn = stack[i].fn /\ e.at = stack[i].at /\ e.flip = stack[i].flip
  BY CallerFacts DEF Frames
<1>2. \A j \in 1..Len(stack) :
          stack'[j] = IF j = i THEN [stack[i] EXCEPT !.quit = TRUE] ELSE stack[j]
  BY DEF Told
<1> QED
  BY <1>1, <1>2, KeptPermission DEF Told

LEMMA PushPermission ==
    ASSUME StackInv, PermissionInv, NEW e, NEW f, Pushed(e, f),
           e.fn = Top.fn, e.flip = Top.flip, Top.fn = "DoWork" => e.at = Top.at,
           f.flip => f.fn \in {"Run", "Native"} /\ ~task_execution_allowed,
           f.fn = "Task" => task_execution_allowed,
           f.fn = "DoWork" => f.at # "Select",
           task_execution_allowed' <=> f.fn # "Task" /\ (task_execution_allowed \/ f.flip)
    PROVE  PermissionInv'
<1> DEFINE n == Len(stack)
<1>1. /\ n \in Nat \ {0} /\ Len(stack') = n + 1 /\ stack'[n + 1] = f
      /\ \A i \in 1..n : /\ stack'[i].fn = stack[i].fn /\ stack'[i].flip = stack[i].flip
                         /\ stack[i].fn = "DoWork" => stack'[i].at = stack[i].at
  BY CallerFacts DEF Pushed, Top
<1>2. \A i \in 0..n : Barred(stack', i) <=> Barred(stack, i)
  BY <1>1, SamePrefix
<1>3. FlipsAreOfLoops'
  BY <1>1 DEF PermissionInv, FlipsAreOfLoops
<1>4. Barred(stack', n + 1) <=> f.fn = "Task" \/ (Barred(stack', n) /\ ~f.flip)
  BY <1>1, BarredNext
<1>5. ~task_execution_allowed <=> Barred(stack, n)
  BY DEF PermissionInv, PermissionFollowsStack
<1>6. Barred(stack', n) <=> Barred(stack, n)
  BY <1>1, <1>2
<1>7. (task_execution_allowed <=> ~Barred(stack, Len(stack)))'
  BY <1>1, <1>4, <1>5, <1>6
<1>8. ASSUME NEW i \in 1..n + 1
      PROVE  /\ stack'[i].flip => Barred(stack', i - 1)
             /\ stack'[i].fn = "Task" \/ (stack'[i].fn = "DoWork" /\ stack'[i].at = "Select")
                   => ~Barred(stack', i - 1)
  <2>1. CASE i = n + 1
    <3>1. i - 1 = n /\ stack'[i] = f
      BY <1>1, <2>1
    <3> QED
      BY <1>5, <1>6, <3>1
  <2>2. CASE i # n + 1
    <3>0. i \in 1..n /\ i - 1 \in 0..n
      BY <1>1, <2>2
    <3>1. /\ stack[i].flip => Barred(stack, i - 1)
          /\ stack[i].fn = "Task" \/ (stack[i].fn = "DoWork" /\ stack[i].at = "Select")
                => ~Barred(stack, i - 1)
      BY <3>0 DEF PermissionInv, PermissionFollowsStack
    <3>2. Barred(stack', i - 1) <=> Barred(stack, i - 1)
      BY <1>2, <3>0
    <3> QED
      BY <1>1, <3>0, <3>1, <3>2
  <2> QED
    BY <2>1, <2>2
<1> QED
  BY <1>1, <1>3, <1>7, <1>8 DEF PermissionInv, PermissionFollowsStack

LEMMA PopPermission ==
    ASSUME StackInv, PermissionInv, NEW e, Popped(e), Top.fn # "Main",
           e.fn = Caller.fn, e.flip = Caller.flip, e.at = Caller.at,
           task_execution_allowed' <=>
               Top.fn = "Task" \/ (task_execution_allowed /\ ~Top.flip)
    PROVE  PermissionInv'
<1> DEFINE n == Len(stack)
<1>1. /\ n \in Nat /\ n > 1 /\ Len(stack') = n - 1
      /\ \A i \in 1..n - 1 : /\ stack'[i].fn = stack[i].fn /\ stack'[i].flip = stack[i].flip
                             /\ stack'[i].at = stack[i].at
  BY CallerFacts DEF Popped, Caller
<1>2. \A i \in 0..n - 1 : Barred(stack', i) <=> Barred(stack, i)
  <2>1. n - 1 \in Nat
    BY <1>1
  <2> QED
    BY <1>1, <2>1, SamePrefix
<1>3. FlipsAreOfLoops'
  BY <1>1 DEF PermissionInv, FlipsAreOfLoops
<1>4. (task_execution_allowed <=> ~Barred(stack, Len(stack)))'
  <2>1. Barred(stack', n - 1) <=> Barred(stack, n - 1)
    BY <1>1, <1>2
  <2>2. ~task_execution_allowed <=> Top.fn = "Task" \/ (Barred(stack, n - 1) /\ ~Top.flip)
    BY BarredTop
  <2>3. /\ Top.flip => Barred(stack, n - 1)
        /\ Top.fn = "Task" => ~Barred(stack, n - 1)
    BY <1>1 DEF PermissionInv, PermissionFollowsStack, Top
  <2> QED
    BY <1>1, <2>1, <2>2, <2>3
<1>5. ASSUME NEW i \in 1..n - 1
      PROVE  /\ stack'[i].flip => Barred(stack', i - 1)
             /\ stack'[i].fn = "Task" \/ (stack'[i].fn = "DoWork" /\ stack'[i].at = "Select")
                   => ~Barred(stack', i - 1)
  <2>0. i \in 1..n /\ i - 1 \in 0..n - 1
    BY <1>1
  <2>1. /\ stack[i].flip => Barred(stack, i - 1)
        /\ stack[i].fn = "Task" \/ (stack[i].fn = "DoWork" /\ stack[i].at = "Select")
              => ~Barred(stack, i - 1)
    BY <2>0 DEF PermissionInv, PermissionFollowsStack
  <2>2. Barred(stack', i - 1) <=> Barred(stack, i - 1)
    BY <1>2, <2>0
  <2> QED
    BY <1>1, <2>1, <2>2
<1> QED
  BY <1>1, <1>3, <1>4, <1>5 DEF PermissionInv, PermissionFollowsStack

LEMMA PermissionInit == Init => PermissionInv
<1> SUFFICES ASSUME Init PROVE PermissionInv
  OBVIOUS
<1>1. /\ Len(stack) = 1 /\ stack[1].fn = "Main" /\ stack[1].flip = FALSE
      /\ task_execution_allowed = TRUE
  BY DEF Init, Frame
<1>2. ~Barred(stack, 1)
  BY <1>1 DEF Barred
<1> QED
  BY <1>1, <1>2 DEF PermissionInv, FlipsAreOfLoops, PermissionFollowsStack

LEMMA PermissionStep == StackInv /\ PermissionInv /\ [Next]_vars => PermissionInv'
<1> SUFFICES ASSUME StackInv, PermissionInv, [Next]_vars PROVE PermissionInv'
  OBVIOUS
<1>0. /\ Top \in Frames /\ Len(stack) \in Nat \ {0} /\ task_execution_allowed \in BOOLEAN
      /\ Top.fn # "Main" => Len(stack) > 1 /\ Caller \in Frames /\ MayCall(Caller, Top)
      /\ Len(stack) \in 1..Len(stack)
  BY CallerFacts DEF StackInv, TypeOK
<1>f. Top.flip => Top.fn \in {"Run", "Native"}
  BY <1>0 DEF PermissionInv, FlipsAreOfLoops, Top
<1>s. ASSUME UNCHANGED <<stack, task_execution_allowed>>
      PROVE  PermissionInv'
  BY <1>s DEF PermissionInv, FlipsAreOfLoops, PermissionFollowsStack
<1>1. CASE UNCHANGED vars
  BY <1>1, <1>s DEF vars
<1>2. ASSUME NEW l \in {"Worked", "Body"}, CallDoWork(l), Top.fn # "DoWork"
      PROVE  PermissionInv'
  <2> DEFINE e == [Top EXCEPT !.at = l]
             f == Frame("DoWork", "Start")
  <2>1. /\ Pushed(e, f) /\ e.fn = Top.fn /\ e.flip = Top.flip
        /\ f.fn = "DoWork" /\ f.at = "Start" /\ f.flip = FALSE
    BY <1>0, <1>2, PushSteps DEF Labels, Frame, Frames
  <2>2. task_execution_allowed' = task_execution_allowed
    BY <1>2 DEF CallDoWork
  <2> HIDE DEF e, f
  <2> QED
    BY <1>0, <1>2, <2>1, <2>2, PushPermission
<1>3. CASE PumpCallsDoWork \/ PumpTimerFires
  BY <1>2, <1>3 DEF PumpCallsDoWork, PumpTimerFires, At
<1>4. CASE DoWorkStart
  <2> DEFINE e == IF task_execution_allowed THEN [Top EXCEPT !.at = "Select"]
                  ELSE [Top EXCEPT !.at = "Did", !.info = quit_runloop_after]
  <2>1. /\ Turned(e) /\ e.fn = Top.fn /\ e.flip = Top.flip
        /\ e.at = "Select" => task_execution_allowed
    BY <1>0, <1>4, TurnSteps DEF Frames
  <2>2. task_execution_allowed' = task_execution_allowed
    BY <1>4 DEF DoWorkStart
  <2> HIDE DEF e
  <2> QED
    BY <2>1, <2>2, TurnPermission
<1>5. CASE BatchEnds
  <2> DEFINE e == [Top EXCEPT !.at = IF quit_pending THEN "Did" ELSE "Wake"]
  <2>1. /\ Turned(e) /\ e.fn = Top.fn /\ e.flip = Top.flip /\ e.at # "Select"
    BY <1>0, <1>5, TurnSteps DEF Frames
  <2>2. task_execution_allowed' = task_execution_allowed
    BY <1>5 DEF BatchEnds
  <2> HIDE DEF e
  <2> QED
    BY <2>1, <2>2, TurnPermission
<1>6. CASE GetWakeUp
  <2> DEFINE e == [Top EXCEPT !.at = "Did", !.info = PendingWakeUp]
  <2>1. /\ Turned(e) /\ e.fn = Top.fn /\ e.flip = Top.flip /\ e.at # "Select"
    BY <1>0, <1>6, TurnSteps DEF Frames
  <2>2. task_execution_allowed' = task_execution_allowed
    BY <1>6 DEF GetWakeUp
  <2> HIDE DEF e
  <2> QED
    BY <2>1, <2>2, TurnPermission
<1>7. CASE DoWorkReturns
  <2> DEFINE info == IF pending \/ Top.info = Immediate THEN Immediate ELSE NextWorkInfo(Top.info)
             e == [Caller EXCEPT !.info = info]
  <2>1. Popped(e)
    BY <1>7, PopSteps
  <2>2. Top.fn = "DoWork" /\ task_execution_allowed' = task_execution_allowed
    BY <1>7 DEF DoWorkReturns, At
  <2>3. e.fn = Caller.fn /\ e.flip = Caller.flip /\ e.at = Caller.at
    BY <1>0, <2>2 DEF Frames
  <2> HIDE DEF e
  <2> QED
    BY <1>0, <1>f, <2>1, <2>2, <2>3, PopPermission
<1>8. CASE PumpGoesOn
  <2> DEFINE e == [Top EXCEPT !.at = IF Top.info = Immediate THEN "Top" ELSE "Idle"]
  <2>1. /\ Turned(e) /\ e.fn = Top.fn /\ e.flip = Top.flip /\ e.at # "Select"
    BY <1>0, <1>8, TurnSteps DEF Frames
  <2>2. task_execution_allowed' = task_execution_allowed
    BY <1>8 DEF PumpGoesOn
  <2> HIDE DEF e
  <2> QED
    BY <2>1, <2>2, TurnPermission
<1>9. CASE DoIdleWork
  <2>1. \E e : Turned(e) /\ e.fn = Top.fn /\ e.flip = Top.flip /\ e.at = "Wait"
    <3> DEFINE quit == quit_runloop_after <= now \/ Top.idle
               e1 == [Top EXCEPT !.at = "Wait"]
               e2 == [Top EXCEPT !.at = "Wait", !.quit = quit]
    <3>1. Turned(e1) \/ Turned(e2)
      BY <1>9, TurnSteps
    <3>2. /\ e1.fn = Top.fn /\ e1.flip = Top.flip /\ e1.at = "Wait"
          /\ e2.fn = Top.fn /\ e2.flip = Top.flip /\ e2.at = "Wait"
      BY <1>0 DEF Frames
    <3> HIDE DEF e1, e2
    <3> QED
      BY <3>1, <3>2
  <2>2. task_execution_allowed' = task_execution_allowed
    BY <1>9 DEF DoIdleWork
  <2> QED
    BY <2>1, <2>2, TurnPermission
<1>10. CASE PumpWaits \/ SpuriousWakeUp
  <2> DEFINE e == [Top EXCEPT !.at = "Top"]
  <2>1. /\ Turned(e) /\ e.fn = Top.fn /\ e.flip = Top.flip /\ e.at # "Select"
    BY <1>0, <1>10, TurnSteps DEF Frames
  <2>2. task_execution_allowed' = task_execution_allowed
    BY <1>10 DEF PumpWaits, SpuriousWakeUp
  <2> HIDE DEF e
  <2> QED
    BY <2>1, <2>2, TurnPermission
<1>11. CASE RunReturns \/ NativeLoopReturns \/ HandlerReturns
  <2>1. Popped(Caller) /\ Top.fn \in {"Run", "Native", "Handler"}
    BY <1>11, PopSteps DEF RunReturns, NativeLoopReturns, HandlerReturns, At
  <2>2. task_execution_allowed' <=> task_execution_allowed /\ ~Top.flip
    <3>1. CASE RunReturns
      BY <1>0, <3>1 DEF RunReturns
    <3>2. CASE NativeLoopReturns
      BY <1>0, <3>2 DEF NativeLoopReturns
    <3>3. CASE HandlerReturns
      BY <1>0, <1>f, <3>3 DEF HandlerReturns, At
    <3> QED
      BY <1>11, <3>1, <3>2, <3>3
  <2> QED
    BY <2>1, <2>2, PopPermission
<1>15. CASE TaskReturns
  <2> DEFINE e == [Caller EXCEPT !.n = IF quit_pending THEN WorkBatchSize ELSE Caller.n + 1]
  <2>1. Top.fn = "Task" /\ Popped(e) /\ task_execution_allowed' = TRUE
    BY <1>15, PopSteps DEF TaskReturns, At
  <2>2. e.fn = Caller.fn /\ e.flip = Caller.flip /\ e.at = Caller.at
    BY <1>0, <2>1 DEF Frames
  <2> HIDE DEF e
  <2> QED
    BY <2>1, <2>2, PopPermission
<1>16. ASSUME NEW k \in Tasks, RunTask(k)
       PROVE  PermissionInv'
  <2> DEFINE e == [Top EXCEPT !.at = "Select"]
             f == Frame("Task", "Body")
  <2>1. /\ Pushed(e, f) /\ e.fn = Top.fn /\ e.flip = Top.flip /\ e.at = Top.at
        /\ f.fn = "Task" /\ f.flip = FALSE
    BY <1>0, <1>16, PushSteps DEF Labels, Frame, Frames, RunTask, At
  <2>2. Top.fn = "DoWork" /\ Top.at = "Select" /\ task_execution_allowed' = FALSE
    BY <1>16 DEF RunTask, At
  <2>3. task_execution_allowed
    <3>1. ~Barred(stack, Len(stack) - 1)
      BY <1>0, <2>2 DEF PermissionInv, PermissionFollowsStack, Top
    <3> QED
      BY <2>2, <3>1, BarredTop
  <2> HIDE DEF e, f
  <2> QED
    BY <2>1, <2>2, <2>3, PushPermission
<1>19. ASSUME NEW i \in RunLoops, Quit(i)
       PROVE  PermissionInv'
  BY <1>19, QuitStep, ToldPermission DEF Quit
<1>21. ASSUME NEW a \in BOOLEAN, NEW b \in BOOLEAN, NEW t \in 1..Never, Run(a, b, t)
       PROVE  PermissionInv'
  <2> DEFINE e == [Top EXCEPT !.at = "Body"]
             f == [Frame("Run", "Top") EXCEPT !.flip = a /\ ~task_execution_allowed, !.idle = b,
                                              !.saved = quit_runloop_after]
  <2>1. Pushed(e, f)
    BY <1>21, PushSteps
  <2>2. /\ e.fn = Top.fn /\ e.flip = Top.flip /\ Top.fn # "DoWork"
        /\ f.fn = "Run" /\ f.flip = (a /\ ~task_execution_allowed)
    BY <1>0, <1>21 DEF Frame, Frames, Run, InAppCode, At
  <2>3. task_execution_allowed' <=> task_execution_allowed \/ a
    BY <1>21 DEF Run
  <2> HIDE DEF e, f
  <2> QED
    BY <2>1, <2>2, <2>3, PushPermission
<1>22. ASSUME NEW a \in BOOLEAN, EnterNativeLoop(a)
       PROVE  PermissionInv'
  <2> DEFINE e == [Top EXCEPT !.at = "Body"]
             f == [Frame("Native", "Body") EXCEPT !.flip = a]
  <2>1. Pushed(e, f)
    BY <1>22, PushSteps
  <2>2. /\ e.fn = Top.fn /\ e.flip = Top.flip /\ Top.fn # "DoWork"
        /\ f.fn = "Native" /\ f.flip = a
    BY <1>0, <1>22 DEF Frame, Frames, EnterNativeLoop, InAppCode, At
  <2>3. /\ task_execution_allowed' <=> task_execution_allowed \/ a
        /\ a => ~task_execution_allowed
    BY <1>22 DEF EnterNativeLoop
  <2> HIDE DEF e, f
  <2> QED
    BY <2>1, <2>2, <2>3, PushPermission
<1>23. CASE NativeMessage
  <2> DEFINE e == [Top EXCEPT !.at = IF Top.fn = "Run" THEN "Top" ELSE "Body"]
             f == Frame("Handler", "Body")
  <2>1. Pushed(e, f)
    BY <1>23, PushSteps
  <2>2. /\ e.fn = Top.fn /\ e.flip = Top.flip /\ Top.fn # "DoWork"
        /\ f.fn = "Handler" /\ f.flip = FALSE
    BY <1>0, <1>23 DEF Frame, Frames, NativeMessage, At
  <2>3. task_execution_allowed' = task_execution_allowed
    BY <1>23 DEF NativeMessage
  <2> HIDE DEF e, f
  <2> QED
    BY <2>1, <2>2, <2>3, PushPermission
<1>24. CASE \/ BindToCurrentThread \/ PowerStateChange \/ Tick
            \/ \E t \in Callers : PostStep(t) \/ \E k \in Tasks : PostTask(t, k)
            \/ \E k \in Tasks, t \in 1..MaxTime : PostDelayedTask(k, t)
  BY <1>24, <1>s DEF BindToCurrentThread, PowerStateChange, Tick, PostStep, RequestWork,
                     PumpScheduleWork, PostTask, PostDelayedTask
<1> QED
  BY <1>1, <1>3, <1>4, <1>5, <1>6, <1>7, <1>8, <1>9, <1>10, <1>11, <1>15, <1>16, <1>19, <1>21,
     <1>22, <1>23, <1>24 DEF Next, BoundStep, AppStep

LEMMA PermissionInvariant == Spec => [](StackInv /\ PermissionInv)
<1>1. Init => StackInv /\ PermissionInv
  BY StackInit, PermissionInit
<1>2. StackInv /\ PermissionInv /\ [Next]_vars => (StackInv /\ PermissionInv)'
  BY StackStep, PermissionStep
<1> QED
  BY <1>1, <1>2, PTL DEF Spec

\* A task runs inside another one only if a loop in between has explicitly allowed it, and
\* outside of tasks the permission is always given (DoWorkImpl(), Run(),
\* SetTaskExecutionAllowed()).
THEOREM PermissionCorrect == Spec => []PermissionIsRight
<1>1. StackInv /\ PermissionInv => PermissionIsRight
  <2> SUFFICES ASSUME StackInv, PermissionInv PROVE PermissionIsRight
    OBVIOUS
  <2>1. DOMAIN stack = 1..Len(stack) /\ Len(stack) \in Nat
    BY StackType DEF StackInv, TypeOK
  <2>2. TypeOK
    BY DEF StackInv
  <2>3. TasksDoNotReenter
    <3> SUFFICES ASSUME NEW i \in 1..Len(stack), NEW j \in 1..Len(stack), i < j,
                        stack[i].fn = "Task", stack[j].fn = "Task"
                 PROVE  \E m \in i..j : stack[m].flip
      BY <2>1 DEF TasksDoNotReenter
    <3>1. ~Barred(stack, j - 1)
      BY DEF PermissionInv, PermissionFollowsStack
    <3>2. PICK m \in i+1..j-1 : stack[m].flip
      BY <3>1, <2>1 DEF Barred
    <3> QED
      BY <3>2, <2>1
  <2>4. AllowedOutsideTasks
    <3>1. CASE ~task_execution_allowed
      <4>1. Barred(stack, Len(stack))
        BY <3>1 DEF PermissionInv, PermissionFollowsStack
      <4> QED
        BY <2>1, <4>1 DEF AllowedOutsideTasks, Barred
    <3> QED
      BY <3>1 DEF AllowedOutsideTasks
  <2> QED
    BY <2>2, <2>3, <2>4 DEF PermissionIsRight
<1> QED
  BY <1>1, PermissionInvariant, PTL

-----------------------------------------------------------------------------
(* Quitting a run loop. *)

\* Frame i is the innermost run loop of s.
Innermost(s, i) ==
    i \in 1..Len(s) /\ s[i].fn = "Run" /\ \A j \in i+1..Len(s) : s[j].fn # "Run"

DoWorkIsOfRun ==
    \A i \in 1..Len(stack) : stack[i].fn = "DoWork" => \E j \in 1..i - 1 : stack[j].fn = "Run"

BatchBegins ==
    \A i \in 1..Len(stack) : stack[i].fn = "DoWork" /\ stack[i].at = "Start" => stack[i].n = 0

IdleGoesOn ==
    \A i \in 1..Len(stack) : stack[i].fn = "Run" /\ stack[i].at = "Idle" => ~stack[i].quit

\* quit_pending is that of the innermost run loop.
QuitIsKnown ==
    \A i \in 1..Len(stack) : Innermost(stack, i) => (stack[i].quit <=> quit_pending)

\* A batch that has begun and goes on was not told to stop.
BatchIsOver ==
    Top.fn = "DoWork" /\ Top.at = "Select" /\ Top.n > 0 /\ Top.n < WorkBatchSize => ~quit_pending

QuitInv == DoWorkIsOfRun /\ BatchBegins /\ IdleGoesOn /\ QuitIsKnown /\ BatchIsOver

LEMMA InnermostRun ==
    ASSUME StackInv, NEW r \in 1..Len(stack), stack[r].fn = "Run"
    PROVE  RunState \in 1..Len(stack) /\ Innermost(stack, RunState)
<1> DEFINE n == Len(stack)
           R == OpToRel(<, Nat)
           S == {n - i : i \in {k \in 1..n : stack[k].fn = "Run"}}
<1>1. n \in Nat \ {0} /\ DOMAIN stack = 1..n
  BY StackType DEF StackInv, TypeOK
<1>2. S \subseteq Nat /\ n - r \in S
  BY <1>1
<1>3. IsWellFoundedOn(R, Nat)
  BY NatLessThanWellFounded
<1>4. R = {p \in Nat \X Nat : p[1] < p[2]}
  BY Zenon DEF OpToRel
<1>5. PICK m \in S : \A u \in S : ~(<<u, m>> \in R)
  <2> HIDE DEF R, S
  <2> QED
    BY <1>2, <1>3, WFMin
<1>6. PICK i \in 1..n : stack[i].fn = "Run" /\ m = n - i
  OBVIOUS
<1>7. ASSUME NEW j \in 1..n, stack[j].fn = "Run" PROVE j <= i
  <2>1. n - j \in S /\ n - j \in Nat /\ m \in Nat
    BY <1>1, <1>2, <1>7
  <2>2. ~(n - j < m)
    <3> HIDE DEF S, R
    <3> QED
      BY <1>4, <1>5, <2>1
  <2> QED
    BY <1>1, <1>6, <2>2
<1>8. RunState = i
  BY <1>1, <1>6, <1>7 DEF RunState, RunLoops
<1> QED
  BY <1>1, <1>6, <1>7, <1>8 DEF Innermost

LEMMA TurnQuit ==
    ASSUME StackInv, QuitInv, NEW e, Turned(e), e.fn = Top.fn,
           e.fn = "DoWork" => e.at # "Start",
           e.fn = "Run" /\ e.at = "Idle" => ~e.quit,
           e.fn = "Run" => (e.quit <=> quit_pending'),
           e.fn # "Run" => quit_pending' = quit_pending,
           e.fn = "DoWork" /\ e.at = "Select" => e.n = 0
    PROVE  QuitInv'
<1> DEFINE n == Len(stack)
<1>1. /\ n \in Nat \ {0} /\ Len(stack') = n
      /\ \A i \in 1..n : /\ stack'[i] = IF i = n THEN e ELSE stack[i]
                         /\ stack'[i].fn = stack[i].fn
  BY CallerFacts DEF Turned, Top
<1>2. DoWorkIsOfRun'
  BY <1>1 DEF QuitInv, DoWorkIsOfRun
<1>3. BatchBegins'
  BY <1>1 DEF QuitInv, BatchBegins
<1>4. IdleGoesOn'
  BY <1>1 DEF QuitInv, IdleGoesOn
<1>5. QuitIsKnown'
  <2> SUFFICES ASSUME NEW i \in 1..n, Innermost(stack', i)
               PROVE  stack'[i].quit <=> quit_pending'
    BY <1>1 DEF QuitIsKnown
  <2>1. Innermost(stack, i) /\ (i # n => stack[n].fn # "Run")
    BY <1>1 DEF Innermost
  <2>2. stack[i].quit <=> quit_pending
    BY <2>1 DEF QuitInv, QuitIsKnown
  <2>3. stack[i].fn = "Run"
    BY <2>1 DEF Innermost
  <2> QED
    BY <1>1, <2>1, <2>2, <2>3 DEF Top
<1>6. BatchIsOver'
  <2>1. stack'[Len(stack')] = e
    BY <1>1
  <2> QED
    BY <2>1 DEF BatchIsOver, Top
<1> QED
  BY <1>2, <1>3, <1>4, <1>5, <1>6 DEF QuitInv

LEMMA PushQuit ==
    ASSUME StackInv, QuitInv, NEW e, NEW f, Pushed(e, f), e.fn = Top.fn, e.quit = Top.quit,
           e.fn = "DoWork" => e.at # "Start",
           e.fn = "Run" => e.at # "Idle",
           f.fn = "DoWork" => \E j \in 1..Len(stack) : stack[j].fn = "Run",
           f.fn = "DoWork" => f.at = "Start" /\ f.n = 0,
           f.fn = "Run" => f.at = "Top" /\ f.quit = FALSE /\ quit_pending' = FALSE,
           f.fn # "Run" => quit_pending' = quit_pending
    PROVE  QuitInv'
<1> DEFINE n == Len(stack)
<1>1. /\ n \in Nat \ {0} /\ Len(stack') = n + 1 /\ stack'[n + 1] = f
      /\ \A i \in 1..n : /\ stack'[i] = IF i = n THEN e ELSE stack[i]
                         /\ stack'[i].fn = stack[i].fn /\ stack'[i].quit = stack[i].quit
  BY CallerFacts DEF Pushed, Top
<1>a. \A i \in 1..n + 1 : i = n + 1 \/ i \in 1..n
  BY <1>1
<1>b. \A i \in 1..n : 1..i - 1 \subseteq 1..n
  BY <1>1
<1>2. DoWorkIsOfRun'
  <2> SUFFICES ASSUME NEW i \in 1..n + 1, stack'[i].fn = "DoWork"
               PROVE  \E j \in 1..i - 1 : stack'[j].fn = "Run"
    BY <1>1 DEF DoWorkIsOfRun
  <2>1. CASE i = n + 1
    <3>1. PICK j \in 1..n : stack[j].fn = "Run"
      BY <1>1, <2>1
    <3> QED
      BY <1>1, <2>1, <3>1
  <2>2. CASE i \in 1..n
    <3>1. PICK j \in 1..i - 1 : stack[j].fn = "Run"
      BY <1>1, <2>2 DEF QuitInv, DoWorkIsOfRun
    <3> QED
      BY <1>1, <1>b, <2>2, <3>1
  <2> QED
    BY <1>a, <2>1, <2>2
<1>3. BatchBegins'
  BY <1>1, <1>a DEF QuitInv, BatchBegins
<1>4. IdleGoesOn'
  BY <1>1, <1>a DEF QuitInv, IdleGoesOn
<1>5. QuitIsKnown'
  <2> SUFFICES ASSUME NEW i \in 1..n + 1, Innermost(stack', i)
               PROVE  stack'[i].quit <=> quit_pending'
    BY <1>1 DEF QuitIsKnown
  <2>1. CASE i = n + 1
    BY <1>1, <2>1 DEF Innermost
  <2>2. CASE i \in 1..n
    <3>1. Innermost(stack, i) /\ f.fn # "Run"
      BY <1>1, <2>2 DEF Innermost
    <3>2. stack[i].quit <=> quit_pending
      BY <2>2, <3>1 DEF QuitInv, QuitIsKnown
    <3> QED
      BY <1>1, <2>2, <3>1, <3>2
  <2> QED
    BY <1>a, <2>1, <2>2
<1>6. BatchIsOver'
  <2>1. stack'[Len(stack')] = f
    BY <1>1
  <2> QED
    BY <2>1 DEF BatchIsOver, Top
<1> QED
  BY <1>2, <1>3, <1>4, <1>5, <1>6 DEF QuitInv

LEMMA PopQuit ==
    ASSUME StackInv, QuitInv, NEW e, Popped(e), Top.fn # "Main",
           e.fn = Caller.fn, e.at = Caller.at, e.quit = Caller.quit,
           e.n = Caller.n \/ Top.fn = "Task",
           Top.fn = "Run" => (quit_pending' <=> QuitWasDeferred(Len(stack))),
           Top.fn # "Run" => quit_pending' = quit_pending,
           Top.fn = "Task" /\ e.n > 0 /\ e.n < WorkBatchSize => ~quit_pending
    PROVE  QuitInv'
<1> DEFINE n == Len(stack)
<1>1. /\ n \in Nat /\ n > 1 /\ Len(stack') = n - 1 /\ MayCall(Caller, Top)
      /\ DOMAIN stack = 1..n
      /\ \A i \in 1..n - 1 : /\ stack'[i] = IF i = n - 1 THEN e ELSE stack[i]
                             /\ stack'[i].fn = stack[i].fn /\ stack'[i].quit = stack[i].quit
                             /\ stack'[i].at = stack[i].at
  BY CallerFacts, StackType DEF Popped, Caller, StackInv, TypeOK
<1>a. \A i \in 1..n - 1 : i \in 1..n /\ 1..i - 1 \subseteq 1..n - 1
  BY <1>1
<1>b. Caller = stack[n - 1] /\ n - 1 \in 1..n
  BY <1>1 DEF Caller
<1>2. DoWorkIsOfRun'
  <2> SUFFICES ASSUME NEW i \in 1..n - 1, stack'[i].fn = "DoWork"
               PROVE  \E j \in 1..i - 1 : stack'[j].fn = "Run"
    BY <1>1 DEF DoWorkIsOfRun
  <2>1. PICK j \in 1..i - 1 : stack[j].fn = "Run"
    BY <1>1, <1>a DEF QuitInv, DoWorkIsOfRun
  <2> QED
    BY <1>1, <1>a, <2>1
<1>3. BatchBegins'
  <2> SUFFICES ASSUME NEW i \in 1..n - 1, stack'[i].fn = "DoWork", stack'[i].at = "Start"
               PROVE  stack'[i].n = 0
    BY <1>1 DEF BatchBegins
  <2>1. stack[i].n = 0 /\ stack[i].fn = "DoWork" /\ stack[i].at = "Start"
    BY <1>1, <1>a DEF QuitInv, BatchBegins
  <2>2. i = n - 1 => Top.fn # "Task"
    BY <1>1, <1>b, <2>1 DEF MayCall
  <2> QED
    BY <1>1, <1>b, <2>1, <2>2
<1>4. IdleGoesOn'
  BY <1>1, <1>a DEF QuitInv, IdleGoesOn
<1>5. QuitIsKnown'
  <2> SUFFICES ASSUME NEW i \in 1..n - 1, Innermost(stack', i)
               PROVE  stack'[i].quit <=> quit_pending'
    BY <1>1 DEF QuitIsKnown
  <2>1. stack[i].fn = "Run" /\ \A j \in i + 1..n - 1 : stack[j].fn # "Run"
    BY <1>1 DEF Innermost
  <2>2. CASE Top.fn # "Run"
    <3>1. \A j \in i + 1..n : j = n \/ j \in i + 1..n - 1
      <4>1. n \in Nat /\ i \in Nat
        BY <1>1
      <4> HIDE DEF n
      <4> QED
        BY ONLY <4>1
    <3>2. Innermost(stack, i)
      BY <1>a, <2>1, <2>2, <3>1 DEF Innermost, Top
    <3>3. stack[i].quit <=> quit_pending
      BY <1>a, <3>2 DEF QuitInv, QuitIsKnown
    <3> QED
      BY <1>1, <2>2, <3>3
  <2>3. CASE Top.fn = "Run"
    <3>1. RunLoops = {j \in 1..n : stack[j].fn = "Run"}
      BY <1>1 DEF RunLoops
    <3>2. i \in RunLoops /\ i < n
      BY <1>1, <2>1, <3>1
    <3>3. \A k \in RunLoops : k <= i \/ k >= n
      BY <1>1, <2>1, <3>1
    <3>4. ASSUME NEW j \in RunLoops, j < n, \A k \in RunLoops : k <= j \/ k >= n
          PROVE  j = i
      BY <1>1, <3>1, <3>2, <3>3, <3>4
    <3>5. QuitWasDeferred(n) <=> stack[i].quit
      BY <3>2, <3>3, <3>4 DEF QuitWasDeferred
    <3> QED
      BY <1>1, <2>3, <3>5
  <2> QED
    BY <2>2, <2>3
<1>6. BatchIsOver'
  <2>1. stack'[Len(stack')] = e
    BY <1>1
  <2>2. Top.fn # "Task" => Caller.fn # "DoWork"
    BY <1>1, CallerFacts DEF MayCall, Frames
  <2> QED
    BY <2>1, <2>2 DEF BatchIsOver, Top
<1> QED
  BY <1>2, <1>3, <1>4, <1>5, <1>6 DEF QuitInv

\* Quit(i), from app code.
LEMMA ToldQuit ==
    ASSUME StackInv, QuitInv, NEW i \in 1..Len(stack), stack[i].fn = "Run", Told(i),
           quit_pending' <=> quit_pending \/ i = RunState,
           Top.fn \in {"Main", "Task", "Handler"}
    PROVE  QuitInv'
<1> DEFINE n == Len(stack)
<1>0. LET e == [stack[i] EXCEPT !.quit = TRUE] IN
      e.fn = stack[i].fn /\ e.at = stack[i].at /\ e.n = stack[i].n /\ e.quit = TRUE
  BY CallerFacts DEF Frames
<1>1. /\ n \in Nat \ {0} /\ Len(stack') = n
      /\ \A j \in 1..n : /\ stack'[j].fn = stack[j].fn /\ stack'[j].at = stack[j].at
                         /\ stack'[j].n = stack[j].n
                         /\ j # i => stack'[j].quit = stack[j].quit
      /\ stack'[i].quit = TRUE
  BY <1>0, CallerFacts DEF Told
<1>2. DoWorkIsOfRun'
  BY <1>1 DEF QuitInv, DoWorkIsOfRun
<1>3. BatchBegins'
  BY <1>1 DEF QuitInv, BatchBegins
<1>4. IdleGoesOn'
  <2>1. i # n
    BY DEF Top
  <2>2. MayCall(stack[i], stack[i + 1]) /\ stack[i + 1] \in Frames
    <3>1. i + 1 \in 2..n /\ i + 1 \in 1..n /\ (i + 1) - 1 = i
      BY <1>1, <2>1
    <3>2. MayCall(stack[(i + 1) - 1], stack[i + 1])
      BY <3>1 DEF StackInv, CallsAreRight
    <3> QED
      BY <3>1, <3>2, CallerFacts
  <2>3. stack[i].at # "Idle"
    BY <2>2 DEF MayCall, Frames
  <2> QED
    BY <1>1, <2>3 DEF QuitInv, IdleGoesOn
<1>5. QuitIsKnown'
  <2> SUFFICES ASSUME NEW j \in 1..n, Innermost(stack', j)
               PROVE  stack'[j].quit <=> quit_pending'
    BY <1>1 DEF QuitIsKnown
  <2>1. Innermost(stack, j)
    BY <1>1 DEF Innermost
  <2>2. RunState = j
    <3>1. RunState \in 1..n /\ Innermost(stack, RunState)
      BY InnermostRun
    <3> QED
      BY <1>1, <2>1, <3>1 DEF Innermost
  <2>3. stack[j].quit <=> quit_pending
    BY <2>1 DEF QuitInv, QuitIsKnown
  <2> QED
    BY <1>1, <2>2, <2>3
<1>6. BatchIsOver'
  <2>1. Len(stack) \in 1..Len(stack) /\ stack'[Len(stack')].fn = Top.fn
    BY <1>1 DEF Top
  <2> QED
    BY <2>1 DEF BatchIsOver, Top
<1> QED
  BY <1>2, <1>3, <1>4, <1>5, <1>6 DEF QuitInv

LEMMA QuitInit == Init => QuitInv
<1> SUFFICES ASSUME Init PROVE QuitInv
  OBVIOUS
<1>1. Len(stack) = 1 /\ stack[1].fn = "Main" /\ stack[1].at = "Body"
  BY DEF Init, Frame
<1> QED
  BY <1>1 DEF QuitInv, DoWorkIsOfRun, BatchBegins, IdleGoesOn, QuitIsKnown, BatchIsOver, Innermost, Top

LEMMA QuitsStep == StackInv /\ QuitInv /\ [Next]_vars => QuitInv'
<1> SUFFICES ASSUME StackInv, QuitInv, [Next]_vars PROVE QuitInv'
  OBVIOUS
<1>0. /\ Top \in Frames /\ Len(stack) \in Nat \ {0} /\ quit_pending \in BOOLEAN
      /\ Top.fn # "Main" => Len(stack) > 1 /\ Caller \in Frames /\ MayCall(Caller, Top)
      /\ Len(stack) \in 1..Len(stack) /\ DOMAIN stack = 1..Len(stack)
  BY CallerFacts, StackType DEF StackInv, TypeOK
<1>q. Top.fn = "Run" => (Top.quit <=> quit_pending)
  BY <1>0 DEF QuitInv, QuitIsKnown, Innermost, Top
<1>s. ASSUME UNCHANGED <<stack, quit_pending>>
      PROVE  QuitInv'
  BY <1>s DEF QuitInv, DoWorkIsOfRun, BatchBegins, IdleGoesOn, QuitIsKnown, BatchIsOver, Top
<1>1. CASE UNCHANGED vars
  BY <1>1, <1>s DEF vars, loopVars
<1>2. ASSUME NEW l \in {"Worked", "Body"}, CallDoWork(l), Top.fn \in {"Run", "Native"}, RunLoops # {}
      PROVE  QuitInv'
  <2> DEFINE e == [Top EXCEPT !.at = l]
             f == Frame("DoWork", "Start")
  <2>1. /\ Pushed(e, f) /\ e.fn = Top.fn /\ e.quit = Top.quit /\ e.at = l
        /\ f.fn = "DoWork" /\ f.at = "Start" /\ f.n = 0
    BY <1>0, <1>2, PushSteps DEF Labels, Frame, Frames
  <2>2. quit_pending' = quit_pending
    BY <1>2 DEF CallDoWork, loopVars
  <2>3. \E j \in 1..Len(stack) : stack[j].fn = "Run"
    BY <1>0, <1>2 DEF RunLoops
  <2> HIDE DEF e, f
  <2> QED
    BY <1>2, <2>1, <2>2, <2>3, PushQuit
<1>3. CASE PumpCallsDoWork \/ PumpTimerFires
  <2>1. Top.fn = "Run" => RunLoops # {}
    BY <1>0 DEF RunLoops, Top
  <2> QED
    BY <1>2, <1>3, <2>1 DEF PumpCallsDoWork, PumpTimerFires, At
<1>4. CASE DoWorkStart
  <2> DEFINE e == IF task_execution_allowed THEN [Top EXCEPT !.at = "Select"]
                  ELSE [Top EXCEPT !.at = "Did", !.info = quit_runloop_after]
  <2>1. Top.fn = "DoWork" /\ quit_pending' = quit_pending /\ Top.n = 0
    BY <1>0, <1>4 DEF DoWorkStart, At, loopVars, QuitInv, BatchBegins, Top
  <2>2. Turned(e) /\ e.fn = Top.fn /\ e.at # "Start" /\ e.n = 0
    BY <1>0, <1>4, <2>1, TurnSteps DEF Frames
  <2> HIDE DEF e
  <2> QED
    BY <2>1, <2>2, TurnQuit
<1>5. CASE BatchEnds
  <2> DEFINE e == [Top EXCEPT !.at = IF quit_pending THEN "Did" ELSE "Wake"]
  <2>1. Top.fn = "DoWork" /\ quit_pending' = quit_pending
    BY <1>5 DEF BatchEnds, At, loopVars
  <2>2. Turned(e) /\ e.fn = Top.fn /\ e.at \in {"Did", "Wake"}
    BY <1>0, <1>5, TurnSteps DEF Frames
  <2> HIDE DEF e
  <2> QED
    BY <2>1, <2>2, TurnQuit
<1>6. CASE GetWakeUp
  <2> DEFINE e == [Top EXCEPT !.at = "Did", !.info = PendingWakeUp]
  <2>1. Top.fn = "DoWork" /\ quit_pending' = quit_pending
    BY <1>6 DEF GetWakeUp, At, loopVars
  <2>2. Turned(e) /\ e.fn = Top.fn /\ e.at = "Did"
    BY <1>0, <1>6, TurnSteps DEF Frames
  <2> HIDE DEF e
  <2> QED
    BY <2>1, <2>2, TurnQuit
<1>7. CASE DoWorkReturns
  <2> DEFINE info == IF pending \/ Top.info = Immediate THEN Immediate ELSE NextWorkInfo(Top.info)
             e == [Caller EXCEPT !.info = info]
  <2>1. Popped(e)
    BY <1>7, PopSteps
  <2>2. Top.fn = "DoWork" /\ quit_pending' = quit_pending
    BY <1>7 DEF DoWorkReturns, At, loopVars
  <2>3. e.fn = Caller.fn /\ e.quit = Caller.quit /\ e.at = Caller.at /\ e.n = Caller.n
    BY <1>0, <2>2 DEF Frames
  <2> HIDE DEF e
  <2> QED
    BY <2>1, <2>2, <2>3, PopQuit
<1>8. CASE PumpGoesOn
  <2> DEFINE e == [Top EXCEPT !.at = IF Top.info = Immediate THEN "Top" ELSE "Idle"]
  <2>1. Top.fn = "Run" /\ quit_pending' = quit_pending /\ ~Top.quit
    BY <1>8 DEF PumpGoesOn, At, loopVars
  <2>2. Turned(e) /\ e.fn = Top.fn /\ e.quit = Top.quit
    BY <1>0, <1>8, TurnSteps DEF Frames
  <2> HIDE DEF e
  <2> QED
    BY <1>q, <2>1, <2>2, TurnQuit
<1>9. CASE DoIdleWork
  <2> DEFINE quit == quit_runloop_after <= now \/ Top.idle
             e1 == [Top EXCEPT !.at = "Wait"]
             e2 == [Top EXCEPT !.at = "Wait", !.quit = quit]
  <2>1. \/ Turned(e1) /\ quit_pending' = quit_pending
        \/ Turned(e2) /\ quit_pending' = (quit_pending \/ quit)
    BY <1>9, TurnSteps
  <2>2. Top.fn = "Run" /\ ~Top.quit
    BY <1>0, <1>9 DEF DoIdleWork, At, QuitInv, IdleGoesOn, Top
  <2>3. /\ e1.fn = "Run" /\ e1.at = "Wait" /\ e1.quit = Top.quit
        /\ e2.fn = "Run" /\ e2.at = "Wait" /\ e2.quit = quit
    BY <1>0, <2>2 DEF Frames
  <2> HIDE DEF e1, e2, quit
  <2>4. CASE Turned(e1) /\ quit_pending' = quit_pending
    BY <1>q, <2>2, <2>3, <2>4, TurnQuit
  <2>5. CASE Turned(e2) /\ quit_pending' = (quit_pending \/ quit)
    <3>1. e2.quit <=> quit_pending'
      BY <1>q, <2>2, <2>3, <2>5
    <3> QED
      BY <2>2, <2>3, <2>5, <3>1, TurnQuit
  <2> QED
    BY <2>1, <2>4, <2>5
<1>10. CASE PumpWaits \/ SpuriousWakeUp
  <2> DEFINE e == [Top EXCEPT !.at = "Top"]
  <2>1. Top.fn = "Run" /\ quit_pending' = quit_pending
    BY <1>10 DEF PumpWaits, SpuriousWakeUp, At, loopVars
  <2>2. Turned(e) /\ e.fn = Top.fn /\ e.quit = Top.quit /\ e.at = "Top"
    BY <1>0, <1>10, TurnSteps DEF Frames
  <2> HIDE DEF e
  <2> QED
    BY <1>q, <2>1, <2>2, TurnQuit
<1>11. CASE RunReturns \/ NativeLoopReturns \/ HandlerReturns
  <2>1. Popped(Caller) /\ Top.fn \in {"Run", "Native", "Handler"}
    BY <1>11, PopSteps DEF RunReturns, NativeLoopReturns, HandlerReturns, At
  <2>2. /\ Top.fn = "Run" => quit_pending' = QuitWasDeferred(Len(stack))
        /\ Top.fn # "Run" => quit_pending' = quit_pending
    BY <1>11 DEF RunReturns, NativeLoopReturns, HandlerReturns, At, loopVars
  <2> QED
    BY <2>1, <2>2, PopQuit
<1>15. CASE TaskReturns
  <2> DEFINE e == [Caller EXCEPT !.n = IF quit_pending THEN WorkBatchSize ELSE Caller.n + 1]
  <2>1. Top.fn = "Task" /\ Popped(e) /\ quit_pending' = quit_pending
    BY <1>15, PopSteps DEF TaskReturns, At, loopVars
  <2>2. /\ e.fn = Caller.fn /\ e.quit = Caller.quit /\ e.at = Caller.at
        /\ quit_pending => e.n = WorkBatchSize
    BY <1>0, <2>1 DEF Frames
  <2>3. e.n > 0 /\ e.n < WorkBatchSize => ~quit_pending
    BY <2>2, BatchAssumption
  <2> HIDE DEF e
  <2> QED
    BY <2>1, <2>2, <2>3, PopQuit
<1>16. ASSUME NEW k \in Tasks, RunTask(k)
       PROVE  QuitInv'
  <2> DEFINE e == [Top EXCEPT !.at = "Select"]
             f == Frame("Task", "Body")
  <2>1. /\ Pushed(e, f) /\ e.fn = Top.fn /\ e.quit = Top.quit /\ e.at = "Select"
        /\ f.fn = "Task"
    BY <1>0, <1>16, PushSteps DEF Frame, Frames
  <2>2. quit_pending' = quit_pending
    BY <1>16 DEF RunTask, loopVars
  <2> HIDE DEF e, f
  <2> QED
    BY <2>1, <2>2, PushQuit
<1>19. ASSUME NEW i \in RunLoops, Quit(i)
       PROVE  QuitInv'
  <2>1. /\ quit_pending' <=> quit_pending \/ i = RunState
        /\ Top.fn \in {"Main", "Task", "Handler"}
    BY <1>19 DEF Quit, InAppCode, At
  <2>2. stack[i].fn = "Run"
    BY DEF RunLoops
  <2> QED
    BY <1>19, <2>1, <2>2, QuitStep, ToldQuit
<1>21. ASSUME NEW a \in BOOLEAN, NEW b \in BOOLEAN, NEW t \in 1..Never, Run(a, b, t)
       PROVE  QuitInv'
  <2> DEFINE e == [Top EXCEPT !.at = "Body"]
             f == [Frame("Run", "Top") EXCEPT !.flip = a /\ ~task_execution_allowed, !.idle = b,
                                              !.saved = quit_runloop_after]
  <2>1. Pushed(e, f)
    BY <1>21, PushSteps
  <2>2. /\ e.fn = Top.fn /\ e.quit = Top.quit /\ e.at = "Body" /\ quit_pending' = FALSE
        /\ f.fn = "Run" /\ f.at = "Top" /\ f.quit = FALSE
    BY <1>0, <1>21 DEF Frame, Frames, Run
  <2> HIDE DEF e, f
  <2> QED
    BY <2>1, <2>2, PushQuit
<1>22. ASSUME NEW a \in BOOLEAN, EnterNativeLoop(a)
       PROVE  QuitInv'
  <2> DEFINE e == [Top EXCEPT !.at = "Body"]
             f == [Frame("Native", "Body") EXCEPT !.flip = a]
  <2>1. Pushed(e, f)
    BY <1>22, PushSteps
  <2>2. /\ e.fn = Top.fn /\ e.quit = Top.quit /\ e.at = "Body" /\ quit_pending' = quit_pending
        /\ f.fn = "Native"
    BY <1>0, <1>22 DEF Frame, Frames, EnterNativeLoop, loopVars
  <2> HIDE DEF e, f
  <2> QED
    BY <2>1, <2>2, PushQuit
<1>23. CASE NativeMessage
  <2> DEFINE e == [Top EXCEPT !.at = IF Top.fn = "Run" THEN "Top" ELSE "Body"]
             f == Frame("Handler", "Body")
  <2>1. Pushed(e, f)
    BY <1>23, PushSteps
  <2>2. /\ e.fn = Top.fn /\ e.quit = Top.quit /\ e.at \in {"Top", "Body"} /\ f.fn = "Handler"
        /\ quit_pending' = quit_pending
    BY <1>0, <1>23 DEF Frame, Frames, NativeMessage, loopVars
  <2> HIDE DEF e, f
  <2> QED
    BY <2>1, <2>2, PushQuit
<1>24. CASE \/ BindToCurrentThread \/ PowerStateChange \/ Tick
            \/ \E t \in Callers : PostStep(t) \/ \E k \in Tasks : PostTask(t, k)
            \/ \E k \in Tasks, t \in 1..MaxTime : PostDelayedTask(k, t)
  BY <1>24, <1>s DEF BindToCurrentThread, PowerStateChange, Tick, PostStep, RequestWork,
                     PumpScheduleWork, PostTask, PostDelayedTask, loopVars
<1> QED
  BY <1>1, <1>3, <1>4, <1>5, <1>6, <1>7, <1>8, <1>9, <1>10, <1>11, <1>15, <1>16, <1>19, <1>21,
     <1>22, <1>23, <1>24 DEF Next, BoundStep, AppStep

\* No further task of a batch runs once the innermost run loop was told to quit (Quit(), Run(),
\* DoWork()): a nested Run(), which resets quit_pending, leaves the answer where it was.
THEOREM BatchCorrect == Spec => BatchStopsOnQuit
<1> DEFINE Stops == \A k \in Tasks : Top.n > 0 /\ RunTask(k) => ~stack[RunState].quit
<1>1. Init => StackInv /\ QuitInv
  BY StackInit, QuitInit
<1>2. StackInv /\ QuitInv /\ [Next]_vars => (StackInv /\ QuitInv)'
  BY StackStep, QuitsStep
<1>3. StackInv /\ QuitInv => Stops
  <2> SUFFICES ASSUME StackInv, QuitInv, NEW k \in Tasks, Top.n > 0, RunTask(k)
               PROVE  ~stack[RunState].quit
    OBVIOUS
  <2>1. Top.fn = "DoWork" /\ Top.at = "Select" /\ Top.n < WorkBatchSize
    BY DEF RunTask, At
  <2>2. ~quit_pending
    BY <2>1 DEF QuitInv, BatchIsOver
  <2>3. \E r \in 1..Len(stack) : stack[r].fn = "Run"
    BY <2>1, CallerFacts DEF QuitInv, DoWorkIsOfRun, Top
  <2>4. RunState \in 1..Len(stack) /\ Innermost(stack, RunState)
    BY <2>3, InnermostRun
  <2> QED
    BY <2>2, <2>4 DEF QuitInv, QuitIsKnown
<1>4. StackInv /\ QuitInv => [Stops]_vars
  BY <1>3
<1> QED
  BY <1>1, <1>2, <1>4, PTL DEF Spec, BatchStopsOnQuit

-----------------------------------------------------------------------------
(* Going to sleep. *)

RunIsBound == \A i \in 1..Len(stack) : stack[i].fn = "Run" => is_bound

\* A thread is about to tell the deduplicator of the incoming tasks, or the pump of work.
Announced == In("Incoming") = {} \/ \E t \in Callers : pc[t] = "Request"
Asked == requested \/ \E t \in Callers : pc[t] = "Pump"

\* DoWork() looks for the next wake-up.
WakeIsWork == Top.fn = "DoWork" /\ Top.at = "Wake" => in_do_work /\ ~quit_pending

\* DoWork() is about to return: what it has not seen was announced while it worked.
DidIsDone ==
    /\ Top.fn = "DoWork" /\ Top.at = "Did"
    /\ task_execution_allowed /\ ~quit_pending /\ ~pending /\ Top.info # Immediate
    => /\ Announced
       /\ In("Ready") = {}
       /\ suspended \/ In("Ripe") = {}
       /\ suspended \/ \A k \in In("Delayed") : Top.info <= wake[k]

\* The pump is on its way to sleep, or asleep.
Quiet ==
    /\ Top.fn = "Run"
    /\ Top.at \in {"Idle", "Wait"} \/ (Top.at = "Worked" /\ Top.info # Immediate)

QuietIsHeard == Quiet => ~in_do_work /\ (pending => Asked)

QuietIsDone ==
    Quiet /\ task_execution_allowed /\ ~Top.quit
    => /\ Announced \/ Asked
       /\ In("Ready") = {}
       /\ suspended \/ In("Ripe") = {}
       /\ \/ suspended \/ requested
          \/ Top.at # "Wait" /\ quit_runloop_after <= now
          \/ \A k \in In("Delayed") : due <= wake[k]

RestInv == RunIsBound /\ WakeIsWork /\ DidIsDone /\ QuietIsHeard /\ QuietIsDone

\* Where the stack leads.
LEMMA TopAfter ==
    ASSUME StackInv
    PROVE  /\ \A e : Turned(e) => Top' = e
           /\ \A e, f : Pushed(e, f) => Top' = f
           /\ \A e : Popped(e) /\ Top.fn # "Main" => Top' = e
           /\ \A i \in 1..Len(stack) : Told(i) /\ i # Len(stack) => Top' = Top
BY CallerFacts DEF Turned, Pushed, Popped, Told, Top

\* Only Run() adds a run loop.
LEMMA BoundAfter ==
    ASSUME StackInv, RunIsBound, is_bound => is_bound'
    PROVE  /\ \A e : Turned(e) /\ e.fn = Top.fn => RunIsBound'
           /\ \A e, f : Pushed(e, f) /\ e.fn = Top.fn /\ (f.fn = "Run" => is_bound) => RunIsBound'
           /\ \A e : Popped(e) /\ Top.fn # "Main" /\ e.fn = Caller.fn => RunIsBound'
           /\ \A i \in 1..Len(stack) : Told(i) => RunIsBound'
           /\ UNCHANGED stack => RunIsBound'
<1> DEFINE n == Len(stack)
<1>1. n \in Nat \ {0} /\ (Top.fn # "Main" => n > 1)
  BY CallerFacts
<1>2. ASSUME NEW e, Turned(e), e.fn = Top.fn PROVE RunIsBound'
  BY <1>1, <1>2 DEF Turned, Top, RunIsBound
<1>3. ASSUME NEW e, NEW f, Pushed(e, f), e.fn = Top.fn, f.fn = "Run" => is_bound PROVE RunIsBound'
  <2>1. Len(stack') = n + 1 /\ \A i \in 1..n + 1 : i = n + 1 \/ i \in 1..n
    BY <1>1, <1>3 DEF Pushed
  <2>2. stack'[n + 1] = f /\ \A i \in 1..n : stack'[i].fn = stack[i].fn
    BY <1>1, <1>3 DEF Pushed, Top
  <2> QED
    BY <1>3, <2>1, <2>2 DEF RunIsBound
<1>4. ASSUME NEW e, Popped(e), Top.fn # "Main", e.fn = Caller.fn PROVE RunIsBound'
  BY <1>1, <1>4 DEF Popped, Caller, RunIsBound
<1>5. ASSUME NEW i \in 1..n, Told(i) PROVE RunIsBound'
  <2>1. stack[i] \in Frames
    BY CallerFacts
  <2>2. [stack[i] EXCEPT !.quit = TRUE].fn = stack[i].fn
    BY <2>1 DEF Frames
  <2> QED
    BY <1>1, <1>5, <2>2 DEF Told, RunIsBound
<1>6. UNCHANGED stack => RunIsBound'
  BY DEF RunIsBound
<1> QED
  BY <1>2, <1>3, <1>4, <1>5, <1>6

\* Elsewhere there is nothing to say.
LEMMA Elsewhere ==
    ASSUME RunIsBound',
           Top'.fn = "DoWork" => Top'.at \notin {"Wake", "Did"},
           Top'.fn = "Run" => Top'.at = "Top"
    PROVE  RestInv'
BY DEF RestInv, WakeIsWork, DidIsDone, Quiet, QuietIsHeard, QuietIsDone

LEMMA RestInit == Init => RestInv
<1> SUFFICES ASSUME Init PROVE RestInv
  OBVIOUS
<1>1. Len(stack) = 1 /\ stack[1].fn = "Main"
  BY DEF Init, Frame
<1> QED
  BY <1>1 DEF RestInv, RunIsBound, WakeIsWork, DidIsDone, Quiet, QuietIsHeard, QuietIsDone, Top

\* Another thread posts a task, or time passes.
LEMMA RestOthers ==
    ASSUME StackInv, RestInv,
           Tick \/ \E t \in Callers : PostStep(t) \/ \E k \in Tasks : PostTask(t, k)
    PROVE  RestInv'
<1>1. UNCHANGED <<stack, task_execution_allowed, quit_pending, quit_runloop_after, is_bound, in_do_work,
                  suspended, wake, due>>
  BY DEF Tick, PostStep, RequestWork, PumpScheduleWork, PostTask, dedupVars, loopVars, pumpVars,
         sourceVars
<1>2. Top' = Top /\ Quiet' = Quiet
  BY <1>1 DEF Top, Quiet, Never, Immediate
<1>3. RunIsBound' /\ WakeIsWork'
  BY <1>1, <1>2 DEF RestInv, RunIsBound, WakeIsWork
<1>r. RunIsBound /\ WakeIsWork /\ DidIsDone /\ QuietIsHeard /\ QuietIsDone
  BY DEF RestInv
<1>4. CASE Tick
  <2>1. UNCHANGED <<pending, pc, state, requested>> /\ now' = now + 1
    BY <1>4 DEF Tick, dedupVars, pumpVars, sourceVars
  <2>2. UNCHANGED <<In("Incoming"), In("Ready"), In("Ripe"), In("Delayed"), Announced, Asked>>
    BY <2>1 DEF In, Announced, Asked
  <2>3. quit_runloop_after <= now => quit_runloop_after' <= now'
    BY <1>1, <2>1, Times DEF StackInv, TypeOK
  <2>4. DidIsDone'
    BY <1>1, <1>2, <1>r, <2>1, <2>2 DEF DidIsDone
  <2>5. QuietIsHeard' /\ QuietIsDone'
    BY <1>1, <1>2, <1>r, <2>1, <2>2, <2>3 DEF QuietIsHeard, QuietIsDone
  <2> QED
    BY <1>3, <2>4, <2>5 DEF RestInv
<1>5. ASSUME NEW t \in Callers, NEW k \in Tasks, PostTask(t, k)
      PROVE  RestInv'
  <2>1. UNCHANGED <<pending, requested, now>> /\ pc \in [Callers -> {"Idle", "Request", "Pump"}]
        /\ state \in [Tasks -> {"New", "Incoming", "Ready", "Delayed", "Ripe", "Done"}]
    BY <1>5 DEF PostTask, dedupVars, pumpVars, StackInv, TypeOK
  <2>2. UNCHANGED <<In("Ready"), In("Ripe"), In("Delayed")>>
    BY <1>5, <2>1 DEF In, PostTask
  <2>3. Announced => Announced'
    <3>1. CASE In("Incoming") = {}
      BY <1>5, <2>1, <3>1 DEF Announced, PostTask
    <3>2. ASSUME NEW u \in Callers, pc[u] = "Request"
          PROVE  pc'[u] = "Request"
      BY <1>5, <2>1, <3>2 DEF PostTask
    <3> QED
      BY <3>1, <3>2 DEF Announced
  <2>4. Asked => Asked'
    <3>1. ASSUME NEW u \in Callers, pc[u] = "Pump"
          PROVE  pc'[u] = "Pump"
      BY <1>5, <2>1, <3>1 DEF PostTask
    <3> QED
      BY <2>1, <3>1 DEF Asked
  <2>5. DidIsDone'
    BY <1>1, <1>2, <1>r, <2>1, <2>2, <2>3 DEF DidIsDone
  <2>6. QuietIsHeard' /\ QuietIsDone'
    BY <1>1, <1>2, <1>r, <2>1, <2>2, <2>3, <2>4 DEF QuietIsHeard, QuietIsDone
  <2> QED
    BY <1>3, <2>5, <2>6 DEF RestInv
<1>6. ASSUME NEW t \in Callers, RequestWork(t)
      PROVE  RestInv'
  <2>1. UNCHANGED <<requested, now, state>> /\ pc \in [Callers -> {"Idle", "Request", "Pump"}]
        /\ pending' = TRUE
    BY <1>6 DEF RequestWork, pumpVars, sourceVars, StackInv, TypeOK
  <2>2. UNCHANGED <<In("Ready"), In("Ripe"), In("Delayed")>>
    BY <2>1 DEF In
  <2>3. Quiet => Asked'
    <3>1. ASSUME Quiet PROVE is_bound /\ ~in_do_work
      <4>1. Len(stack) \in 1..Len(stack) /\ Top.fn = "Run"
        BY <3>1, CallerFacts DEF Quiet
      <4> QED
        BY <1>r, <3>1, <4>1 DEF RunIsBound, QuietIsHeard, Top
    <3>2. ASSUME Quiet, ~pending PROVE pc'[t] = "Pump"
      BY <1>6, <2>1, <3>1, <3>2 DEF RequestWork
    <3>3. ASSUME NEW u \in Callers, pc[u] = "Pump" PROVE pc'[u] = "Pump"
      BY <1>6, <2>1, <3>3 DEF RequestWork
    <3> QED
      BY <1>r, <2>1, <3>2, <3>3 DEF Asked, QuietIsHeard
  <2>4. DidIsDone'
    BY <2>1 DEF DidIsDone
  <2>5. QuietIsHeard' /\ QuietIsDone'
    BY <1>1, <1>2, <1>r, <2>1, <2>2, <2>3 DEF QuietIsHeard, QuietIsDone
  <2> QED
    BY <1>3, <2>4, <2>5 DEF RestInv
<1>7. ASSUME NEW t \in Callers, PumpScheduleWork(t)
      PROVE  RestInv'
  <2>1. UNCHANGED <<pending, now, state>> /\ pc \in [Callers -> {"Idle", "Request", "Pump"}]
        /\ requested' = TRUE
    BY <1>7 DEF PumpScheduleWork, dedupVars, sourceVars, StackInv, TypeOK
  <2>2. UNCHANGED <<In("Incoming"), In("Ready"), In("Ripe"), In("Delayed")>> /\ Asked'
    BY <2>1 DEF In, Asked
  <2>3. Announced => Announced'
    <3>1. ASSUME NEW u \in Callers, pc[u] = "Request" PROVE pc'[u] = "Request"
      BY <1>7, <2>1, <3>1 DEF PumpScheduleWork
    <3> QED
      BY <2>2, <3>1 DEF Announced
  <2>4. DidIsDone'
    BY <1>1, <1>2, <1>r, <2>1, <2>2, <2>3 DEF DidIsDone
  <2>5. QuietIsHeard' /\ QuietIsDone'
    BY <1>1, <1>2, <1>r, <2>1, <2>2 DEF QuietIsHeard, QuietIsDone
  <2> QED
    BY <1>3, <2>4, <2>5 DEF RestInv
<1> QED
  BY <1>4, <1>5, <1>6, <1>7 DEF PostStep

\* What GetWakeUp() finds is no later than any delayed task.
LEMMA WakeUpFound ==
    ASSUME TypeOK, PendingWakeUp # Immediate
    PROVE  /\ In("Ready") = {} /\ In("Incoming") = {}
           /\ suspended \/ In("Ripe") = {}
           /\ suspended \/ \A k \in In("Delayed") : PendingWakeUp <= wake[k]
<1>1. Selectable = {}
  BY DEF PendingWakeUp
<1>2. suspended \/ PendingWakeUp = Earliest({wake[k] : k \in In("Delayed")})
  BY <1>1 DEF PendingWakeUp
<1>3. {wake[k] : k \in In("Delayed")} \in SUBSET RunTimes
  BY DEF In, TypeOK
<1>4. \A t \in {wake[k] : k \in In("Delayed")} : Earliest({wake[k] : k \in In("Delayed")}) <= t
  BY <1>3, EarliestIsTime
<1> QED
  BY <1>1, <1>2, <1>4 DEF Selectable

\* The run time the pump is told of is that wake-up, unless the loop is to be quit before.
LEMMA RunTimeTold ==
    ASSUME TypeOK, NEW w \in RunTimes
    PROVE  NextWorkInfo(w) <= w \/ quit_runloop_after <= now
BY Times DEF NextWorkInfo, NextRunTime, TypeOK

LEMMA RestWakeUp ==
    ASSUME StackInv, RestInv, GetWakeUp
    PROVE  RestInv'
<1> DEFINE e == [Top EXCEPT !.at = "Did", !.info = PendingWakeUp]
<1>1. Turned(e) /\ e.fn = "DoWork" /\ e.at = "Did" /\ e.info = PendingWakeUp /\ Top.fn = "DoWork"
  BY CallerFacts, TurnSteps DEF Frames, GetWakeUp, At
<1> HIDE DEF e
<1>2. Top' = e
  BY <1>1, TopAfter
<1>3. UNCHANGED <<is_bound, pending, in_do_work, task_execution_allowed, quit_pending, suspended, wake>>
  BY DEF GetWakeUp, dedupVars, loopVars
<1>4. RunIsBound'
  BY <1>1, <1>3, BoundAfter DEF RestInv
<1>5. DidIsDone'
  <2> SUFFICES ASSUME PendingWakeUp # Immediate
               PROVE  /\ Announced'
                      /\ In("Ready")' = {}
                      /\ suspended \/ In("Ripe")' = {}
                      /\ suspended \/ \A k \in In("Delayed")' : PendingWakeUp <= wake[k]
    BY <1>1, <1>2, <1>3 DEF DidIsDone, Immediate
  <2>1. state' = [j \in Tasks |-> IF state[j] = "Incoming" THEN "Ready" ELSE state[j]]
    BY DEF GetWakeUp
  <2>2. /\ In("Ready") = {} /\ In("Incoming") = {}
        /\ suspended \/ In("Ripe") = {}
        /\ suspended \/ \A k \in In("Delayed") : PendingWakeUp <= wake[k]
    BY WakeUpFound DEF StackInv
  <2>3. \A s \in {"Incoming", "Ready", "Ripe", "Delayed"} : In(s)' = In(s)
    BY <2>1, <2>2 DEF In
  <2> QED
    BY <2>2, <2>3 DEF Announced
<1> QED
  BY <1>1, <1>2, <1>4, <1>5 DEF RestInv, WakeIsWork, Quiet, QuietIsHeard, QuietIsDone

LEMMA RestReturns ==
    ASSUME StackInv, QuitInv, RestInv, DoWorkReturns
    PROVE  RestInv'
<1> DEFINE info == IF pending \/ Top.info = Immediate THEN Immediate ELSE NextWorkInfo(Top.info)
           e == [Caller EXCEPT !.info = info]
<1>1. /\ Top.fn = "DoWork" /\ Top.at = "Did" /\ in_do_work' = FALSE
      /\ pending' = (pending \/ Top.info = Immediate)
      /\ UNCHANGED <<is_bound, task_execution_allowed, quit_pending, quit_runloop_after, suspended, pc,
                     state, wake, requested, now>>
  BY DEF DoWorkReturns, At, loopVars, sourceVars
<1>2. /\ Len(stack) \in Nat /\ Len(stack) > 1 /\ Caller \in Frames /\ MayCall(Caller, Top)
      /\ Top.info \in RunTimes
  BY <1>1, CallerFacts DEF Frames
<1>3. Popped(e) /\ due' = info
  BY PopSteps
<1>4. /\ e.fn = Caller.fn /\ e.at = Caller.at /\ e.quit = Caller.quit /\ e.info = info
      /\ (Caller.fn = "Run" /\ Caller.at = "Worked") \/ Caller.fn = "Native"
  BY <1>1, <1>2, PopSteps DEF MayCall, Frames
<1> HIDE DEF e
<1>5. Top' = e
  BY <1>1, <1>3, TopAfter
<1>6. RunIsBound'
  BY <1>1, <1>3, <1>4, BoundAfter DEF RestInv
<1>7. CASE Caller.fn = "Native"
  BY <1>4, <1>5, <1>6, <1>7, Elsewhere
<1>8. CASE Caller.fn = "Run"
  <2>1. Quiet' => ~pending /\ Top.info # Immediate /\ info = NextWorkInfo(Top.info)
    BY <1>4, <1>5 DEF Quiet, Immediate
  <2>2. QuietIsHeard'
    BY <1>1, <2>1 DEF QuietIsHeard
  <2>3. QuietIsDone'
    <3> SUFFICES ASSUME ~pending, Top.info # Immediate, info = NextWorkInfo(Top.info),
                        task_execution_allowed, ~Caller.quit
                 PROVE  /\ Announced'
                        /\ In("Ready")' = {}
                        /\ suspended \/ In("Ripe")' = {}
                        /\ \/ suspended
                           \/ quit_runloop_after <= now
                           \/ \A k \in In("Delayed")' : due' <= wake[k]
      BY <1>1, <1>4, <1>5, <1>8, <2>1 DEF QuietIsDone
    <3>1. ~quit_pending
      <4>1. Innermost(stack, Len(stack) - 1)
        BY <1>1, <1>2, <1>8 DEF Innermost, Caller, Top
      <4> QED
        BY <1>2, <4>1 DEF QuitInv, QuitIsKnown, Caller
    <3>2. /\ Announced
          /\ In("Ready") = {}
          /\ suspended \/ In("Ripe") = {}
          /\ suspended \/ \A k \in In("Delayed") : Top.info <= wake[k]
      BY <1>1, <3>1 DEF RestInv, DidIsDone
    <3>3. /\ Announced => Announced'
          /\ In("Ready")' = In("Ready") /\ In("Ripe")' = In("Ripe")
          /\ In("Delayed")' = In("Delayed")
      BY <1>1 DEF In, Announced
    <3>4. \/ suspended \/ quit_runloop_after <= now
          \/ \A k \in In("Delayed") : due' <= wake[k]
      <4>1. CASE suspended \/ quit_runloop_after <= now
        BY <4>1
      <4>2. CASE ~(suspended \/ quit_runloop_after <= now)
        <5>1. due' <= Top.info /\ due' \in RunTimes
          BY <1>2, <1>3, <4>2, RunTimeTold, WakeUpType DEF StackInv
        <5>2. ASSUME NEW k \in In("Delayed") PROVE due' <= wake[k]
          <6>1. wake[k] \in RunTimes /\ Top.info <= wake[k]
            BY <3>2, <4>2 DEF In, StackInv, TypeOK
          <6>2. wake[k] \in Nat /\ Top.info \in Nat /\ due' \in Nat
            BY <1>2, <5>1, <6>1, Times
          <6> QED
            BY ONLY <5>1, <6>1, <6>2
        <5> QED
          BY <5>2
      <4> QED
        BY <4>1, <4>2
    <3>5. \/ suspended \/ quit_runloop_after <= now
          \/ \A k \in In("Delayed")' : due' <= wake[k]
      BY ONLY <3>3, <3>4
    <3> QED
      BY ONLY <3>2, <3>3, <3>5
  <2> QED
    BY <1>4, <1>5, <1>6, <1>8, <2>2, <2>3 DEF RestInv, WakeIsWork, DidIsDone
<1> QED
  BY <1>4, <1>7, <1>8

LEMMA RestPump ==
    ASSUME StackInv, QuitInv, RestInv, PumpGoesOn \/ DoIdleWork
    PROVE  RestInv'
<1>0. Top \in Frames /\ RunIsBound /\ QuietIsHeard /\ QuietIsDone
  BY CallerFacts DEF RestInv
<1>1. CASE PumpGoesOn
  <2> DEFINE e == [Top EXCEPT !.at = IF Top.info = Immediate THEN "Top" ELSE "Idle"]
  <2>1. /\ Top.fn = "Run" /\ Top.at = "Worked"
        /\ UNCHANGED <<is_bound, pending, in_do_work, task_execution_allowed, quit_pending,
                       quit_runloop_after, suspended, pc, state, wake, requested, due, now>>
    BY <1>1 DEF PumpGoesOn, At, dedupVars, loopVars, sourceVars, pumpVars
  <2>2. /\ Turned(e) /\ e.fn = Top.fn /\ e.quit = Top.quit
        /\ e.at = IF Top.info = Immediate THEN "Top" ELSE "Idle"
    BY <1>0, <1>1, TurnSteps DEF Frames
  <2> HIDE DEF e
  <2>3. Top' = e /\ RunIsBound'
    BY <1>0, <2>1, <2>2, TopAfter, BoundAfter
  <2>4. CASE Top.info = Immediate
    BY <2>1, <2>2, <2>3, <2>4, Elsewhere
  <2>5. CASE Top.info # Immediate
    <3>1. Quiet
      BY <2>1, <2>5 DEF Quiet
    <3>2. UNCHANGED <<Announced, Asked, In("Ready"), In("Ripe"), In("Delayed")>>
      BY <2>1 DEF In, Announced, Asked
    <3>3. QuietIsHeard' /\ QuietIsDone'
      BY <1>0, <2>1, <2>2, <2>3, <2>5, <3>1, <3>2 DEF QuietIsHeard, QuietIsDone
    <3> QED
      BY <2>1, <2>2, <2>3, <3>3 DEF RestInv, WakeIsWork, DidIsDone
  <2> QED
    BY <2>4, <2>5
<1>2. CASE DoIdleWork
  <2> DEFINE quit == quit_runloop_after <= now \/ Top.idle
             e1 == [Top EXCEPT !.at = "Wait"]
             e2 == [Top EXCEPT !.at = "Wait", !.quit = quit]
  <2>1. /\ Top.fn = "Run" /\ Top.at = "Idle"
        /\ UNCHANGED <<is_bound, pending, in_do_work, task_execution_allowed,
                       quit_runloop_after, suspended, pc, state, wake, due, now>>
    BY <1>2 DEF DoIdleWork, At, dedupVars, sourceVars
  <2>2. \/ Turned(e1) /\ requested'
        \/ Turned(e2) /\ requested' = requested
    BY <1>2, TurnSteps
  <2>3. /\ e1.fn = "Run" /\ e1.at = "Wait" /\ e1.quit = Top.quit
        /\ e2.fn = "Run" /\ e2.at = "Wait" /\ e2.quit = quit
    BY <1>0, <2>1 DEF Frames
  <2>4. Quiet /\ ~Top.quit
    <3>1. Len(stack) \in 1..Len(stack)
      BY CallerFacts
    <3> QED
      BY <2>1, <3>1 DEF Quiet, QuitInv, IdleGoesOn, Top
  <2>5. RunIsBound' /\ (Top' = e1 \/ Top' = e2)
    BY <1>0, <2>1, <2>2, <2>3, TopAfter, BoundAfter
  <2>6. UNCHANGED <<Announced, In("Ready"), In("Ripe"), In("Delayed")>> /\ (Asked => Asked')
    BY <2>1, <2>2 DEF In, Announced, Asked
  <2>7. Top'.fn = "Run" /\ Top'.at = "Wait"
    BY <2>3, <2>5
  <2>8. QuietIsHeard'
    BY <1>0, <2>1, <2>4, <2>6 DEF QuietIsHeard
  <2>9. QuietIsDone'
    <3>1. CASE Turned(e1) /\ requested'
      BY <1>0, <2>1, <2>4, <2>6, <3>1 DEF QuietIsDone
    <3>2. CASE Turned(e2) /\ requested' = requested
      <4>1. Top'.quit = quit
        BY <2>3, <3>2, TopAfter
      <4>2. ~Top'.quit => ~(quit_runloop_after <= now)
        BY <4>1
      <4> HIDE DEF quit
      <4> QED
        BY <1>0, <2>1, <2>4, <2>6, <3>2, <4>2 DEF QuietIsDone
    <3> QED
      BY <2>2, <3>1, <3>2
  <2> QED
    BY <2>5, <2>7, <2>8, <2>9 DEF RestInv, WakeIsWork, DidIsDone
<1> QED
  BY <1>1, <1>2

LEMMA RestStep == StackInv /\ QuitInv /\ RestInv /\ [Next]_vars => RestInv'
<1> SUFFICES ASSUME StackInv, QuitInv, RestInv, [Next]_vars PROVE RestInv'
  OBVIOUS
<1>0. /\ Top \in Frames /\ RunIsBound
      /\ Top.fn # "Main" => Len(stack) > 1 /\ Caller \in Frames /\ MayCall(Caller, Top)
      /\ Len(stack) \in 1..Len(stack)
  BY CallerFacts DEF RestInv
<1>1. CASE UNCHANGED vars
  <2>1. UNCHANGED <<RunIsBound, WakeIsWork, DidIsDone, QuietIsHeard, QuietIsDone>>
    BY <1>1 DEF vars, dedupVars, loopVars, sourceVars, pumpVars, RunIsBound, WakeIsWork, DidIsDone,
                QuietIsHeard, QuietIsDone, Quiet, Announced, Asked, Top, In, Immediate
  <2> QED
    BY <2>1 DEF RestInv
<1>2. ASSUME NEW l \in {"Worked", "Body"}, CallDoWork(l)
      PROVE  RestInv'
  <2> DEFINE e == [Top EXCEPT !.at = l]
             f == Frame("DoWork", "Start")
  <2>1. /\ Pushed(e, f) /\ e.fn = Top.fn /\ f.fn = "DoWork" /\ f.at = "Start"
        /\ is_bound' = is_bound
    BY <1>0, <1>2, PushSteps DEF Labels, Frame, Frames, CallDoWork, dedupVars
  <2> HIDE DEF e, f
  <2>2. Top' = f /\ RunIsBound'
    BY <1>0, <2>1, TopAfter, BoundAfter
  <2> QED
    BY <2>1, <2>2, Elsewhere
<1>3. CASE PumpCallsDoWork \/ PumpTimerFires
  BY <1>2, <1>3 DEF PumpCallsDoWork, PumpTimerFires
<1>4. CASE DoWorkStart
  <2> DEFINE e == IF task_execution_allowed THEN [Top EXCEPT !.at = "Select"]
                  ELSE [Top EXCEPT !.at = "Did", !.info = quit_runloop_after]
  <2>1. /\ Turned(e) /\ e.fn = Top.fn /\ Top.fn = "DoWork"
        /\ e.at = IF task_execution_allowed THEN "Select" ELSE "Did"
        /\ is_bound' = is_bound /\ task_execution_allowed' = task_execution_allowed
    BY <1>0, <1>4, TurnSteps DEF Frames, DoWorkStart, At
  <2> HIDE DEF e
  <2>2. Top' = e /\ RunIsBound'
    BY <1>0, <2>1, TopAfter, BoundAfter
  <2> QED
    BY <2>1, <2>2 DEF RestInv, WakeIsWork, DidIsDone, Quiet, QuietIsHeard, QuietIsDone
<1>5. CASE BatchEnds
  <2> DEFINE e == [Top EXCEPT !.at = IF quit_pending THEN "Did" ELSE "Wake"]
  <2>1. /\ Turned(e) /\ e.fn = Top.fn /\ Top.fn = "DoWork"
        /\ e.at = IF quit_pending THEN "Did" ELSE "Wake"
        /\ is_bound' = is_bound /\ quit_pending' = quit_pending
        /\ ~quit_pending => in_do_work'
    BY <1>0, <1>5, TurnSteps DEF Frames, BatchEnds, At, loopVars
  <2> HIDE DEF e
  <2>2. Top' = e /\ RunIsBound'
    BY <1>0, <2>1, TopAfter, BoundAfter
  <2> QED
    BY <2>1, <2>2 DEF RestInv, WakeIsWork, DidIsDone, Quiet, QuietIsHeard, QuietIsDone
<1>10. CASE PumpWaits \/ SpuriousWakeUp
  <2> DEFINE e == [Top EXCEPT !.at = "Top"]
  <2>1. /\ Turned(e) /\ e.fn = Top.fn /\ Top.fn = "Run" /\ e.at = "Top" /\ is_bound' = is_bound
    BY <1>0, <1>10, TurnSteps DEF Frames, PumpWaits, SpuriousWakeUp, At, dedupVars
  <2> HIDE DEF e
  <2>2. Top' = e /\ RunIsBound'
    BY <1>0, <2>1, TopAfter, BoundAfter
  <2> QED
    BY <2>1, <2>2, Elsewhere
<1>11. CASE RunReturns \/ NativeLoopReturns \/ HandlerReturns
  <2>1. /\ Popped(Caller) /\ Top.fn \in {"Run", "Native", "Handler"} /\ is_bound' = is_bound
    BY <1>11, PopSteps DEF RunReturns, NativeLoopReturns, HandlerReturns, At, dedupVars
  <2>2. Top' = Caller /\ RunIsBound'
    BY <1>0, <2>1, TopAfter, BoundAfter
  <2>3. /\ Caller.fn # "DoWork"
        /\ Caller.fn = "Run" => Caller.at = "Top"
    BY <1>0, <2>1 DEF MayCall
  <2> QED
    BY <2>2, <2>3, Elsewhere
<1>15. CASE TaskReturns
  <2> DEFINE e == [Caller EXCEPT !.n = IF quit_pending THEN WorkBatchSize ELSE Caller.n + 1]
  <2>1. Top.fn = "Task" /\ Popped(e) /\ is_bound' = is_bound
    BY <1>15, PopSteps DEF TaskReturns, At, dedupVars
  <2>2. e.fn = Caller.fn /\ e.at = Caller.at /\ Caller.fn = "DoWork" /\ Caller.at = "Select"
    BY <1>0, <2>1 DEF Frames, MayCall
  <2> HIDE DEF e
  <2>3. Top' = e /\ RunIsBound'
    BY <1>0, <2>1, <2>2, TopAfter, BoundAfter
  <2> QED
    BY <2>2, <2>3, Elsewhere
<1>16. ASSUME NEW k \in Tasks, RunTask(k)
       PROVE  RestInv'
  <2> DEFINE e == [Top EXCEPT !.at = "Select"]
             f == Frame("Task", "Body")
  <2>1. Pushed(e, f) /\ e.fn = Top.fn /\ f.fn = "Task" /\ is_bound' = is_bound
    BY <1>0, <1>16, PushSteps DEF Frame, Frames, RunTask, dedupVars
  <2> HIDE DEF e, f
  <2>2. Top' = f /\ RunIsBound'
    BY <1>0, <2>1, TopAfter, BoundAfter
  <2> QED
    BY <2>1, <2>2, Elsewhere
<1>19. ASSUME NEW i \in RunLoops, Quit(i)
       PROVE  RestInv'
  <2>1. /\ Told(i) /\ i \in 1..Len(stack) /\ is_bound' = is_bound
        /\ Top.fn \in {"Main", "Task", "Handler"} /\ stack[i].fn = "Run"
    BY <1>19, QuitStep DEF Quit, InAppCode, At, RunLoops, dedupVars
  <2>2. i # Len(stack)
    BY <2>1 DEF Top
  <2>3. Top' = Top /\ RunIsBound'
    BY <1>0, <2>1, <2>2, TopAfter, BoundAfter
  <2> QED
    BY <2>1, <2>3, Elsewhere
<1>21. ASSUME NEW a \in BOOLEAN, NEW b \in BOOLEAN, NEW t \in 1..Never, Run(a, b, t)
       PROVE  RestInv'
  <2> DEFINE e == [Top EXCEPT !.at = "Body"]
             f == [Frame("Run", "Top") EXCEPT !.flip = a /\ ~task_execution_allowed, !.idle = b,
                                              !.saved = quit_runloop_after]
  <2>1. Pushed(e, f)
    BY <1>21, PushSteps
  <2>2. /\ e.fn = Top.fn /\ f.fn = "Run" /\ f.at = "Top" /\ is_bound /\ is_bound' = is_bound
    BY <1>0, <1>21 DEF Frame, Frames, Run, dedupVars
  <2> HIDE DEF e, f
  <2>3. Top' = f /\ RunIsBound'
    BY <1>0, <2>1, <2>2, TopAfter, BoundAfter
  <2> QED
    BY <2>2, <2>3, Elsewhere
<1>22. ASSUME NEW a \in BOOLEAN, EnterNativeLoop(a)
       PROVE  RestInv'
  <2> DEFINE e == [Top EXCEPT !.at = "Body"]
             f == [Frame("Native", "Body") EXCEPT !.flip = a]
  <2>1. Pushed(e, f)
    BY <1>22, PushSteps
  <2>2. /\ e.fn = Top.fn /\ f.fn = "Native" /\ is_bound' = is_bound
    BY <1>0, <1>22 DEF Frame, Frames, EnterNativeLoop
  <2> HIDE DEF e, f
  <2>3. Top' = f /\ RunIsBound'
    BY <1>0, <2>1, <2>2, TopAfter, BoundAfter
  <2> QED
    BY <2>2, <2>3, Elsewhere
<1>23. CASE NativeMessage
  <2> DEFINE e == [Top EXCEPT !.at = IF Top.fn = "Run" THEN "Top" ELSE "Body"]
             f == Frame("Handler", "Body")
  <2>1. Pushed(e, f)
    BY <1>23, PushSteps
  <2>2. /\ e.fn = Top.fn /\ f.fn = "Handler" /\ is_bound' = is_bound
    BY <1>0, <1>23 DEF Frame, Frames, NativeMessage, dedupVars
  <2> HIDE DEF e, f
  <2>3. Top' = f /\ RunIsBound'
    BY <1>0, <2>1, <2>2, TopAfter, BoundAfter
  <2> QED
    BY <2>2, <2>3, Elsewhere
<1>24. CASE \/ BindToCurrentThread \/ PowerStateChange
            \/ \E k \in Tasks, t \in 1..MaxTime : PostDelayedTask(k, t)
  <2>1. /\ UNCHANGED stack /\ Top.fn \in {"Main", "Task", "Handler"}
        /\ is_bound => is_bound'
    <3>1. CASE BindToCurrentThread
      BY <3>1 DEF BindToCurrentThread, At
    <3>2. CASE PowerStateChange
      BY <3>2 DEF PowerStateChange, At, dedupVars
    <3>3. ASSUME NEW k \in Tasks, NEW t \in 1..MaxTime, PostDelayedTask(k, t)
          PROVE  /\ UNCHANGED stack /\ Top.fn \in {"Main", "Task", "Handler"}
                 /\ is_bound => is_bound'
      BY <3>3 DEF PostDelayedTask, InAppCode, At, dedupVars
    <3> QED
      BY <1>24, <3>1, <3>2, <3>3
  <2>2. Top' = Top /\ RunIsBound'
    BY <1>0, <2>1, BoundAfter DEF Top
  <2> QED
    BY <2>1, <2>2, Elsewhere
<1> QED
  BY <1>1, <1>3, <1>4, <1>5, <1>10, <1>11, <1>15, <1>16, <1>19, <1>21, <1>22, <1>23, <1>24,
     RestOthers, RestWakeUp, RestReturns, RestPump DEF Next, BoundStep, AppStep

\* The loop does not go to sleep on a task that it may run: whatever other threads, nested
\* loops, native loops and the power monitor do, a posted task has somebody on the way to wake
\* the pump, and the pump's delay is no later than the earliest delayed task (DoWork(),
\* WorkDeduplicator, GetPendingWakeUp()).
THEOREM SleepCorrect == Spec => []SleepsOnNothing
<1>1. Init => StackInv /\ QuitInv /\ RestInv
  BY StackInit, QuitInit, RestInit
<1>2. StackInv /\ QuitInv /\ RestInv /\ [Next]_vars => (StackInv /\ QuitInv /\ RestInv)'
  BY StackStep, QuitsStep, RestStep
<1>3. RestInv => SleepsOnNothing
  <2> SUFFICES ASSUME RestInv, At("Run", "Wait"), ~Top.quit, task_execution_allowed, ~requested,
                      \A t \in Callers : pc[t] = "Idle"
               PROVE  /\ In("Incoming") \cup In("Ready") = {}
                      /\ suspended \/ \A k \in In("Delayed") : due <= wake[k]
                      /\ suspended \/ In("Ripe") = {}
    BY DEF SleepsOnNothing
  <2>1. Quiet /\ Top.at = "Wait"
    BY DEF Quiet, At
  <2>2. ~Asked /\ (Announced => In("Incoming") = {})
    BY DEF Asked, Announced
  <2> QED
    BY <2>1, <2>2 DEF RestInv, QuietIsDone
<1> QED
  BY <1>1, <1>2, <1>3, PTL DEF Spec
=============================================================================
