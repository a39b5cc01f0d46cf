-------------------------- MODULE MessagePumpForUI --------------------------
(***************************************************************************)
(* base::MessagePumpForUI: the pump that interleaves Windows messages with *)
(* the work of a MessagePump::Delegate on one thread (bound_thread_) while *)
(* any thread may ask for work with ScheduleWork().                        *)
(*                                                                         *)
(* The bound thread is its call stack: a native handler or a DoWork() may  *)
(* enter a nested run loop, or a native modal loop of Windows that knows   *)
(* nothing of the pump.  Each frame of the stack is one activation of a    *)
(* function of message_pump_win.cc, "at" the next statement it executes.   *)
(* A step ends wherever another thread, or a re-entrant call, can observe  *)
(* the state.                                                              *)
(***************************************************************************)
EXTENDS Naturals, Sequences

CONSTANTS
    Threads,        \* the threads, other than bound_thread_, that call ScheduleWork
    WebRT,          \* m_pWebRTDelegate is set: DoRunLoop() takes TangramTeam's branch
    QueueCapacity,  \* posted messages the Windows queue has room for
    MaxSent,        \* bound: sent messages that wait at once
    MaxTime,        \* bound: the clock stops here
    Budget          \* bound: inputs from the environment and callouts of app code

ASSUME VariantAssumption == WebRT \in BOOLEAN
ASSUME CapacityAssumption == QueueCapacity \in Nat \ {0}
ASSUME BoundAssumption == MaxSent \in Nat /\ MaxTime \in Nat /\ Budget \in Nat

VARIABLES
    work_scheduled,         \* std::atomic_bool work_scheduled_
    in_native_loop,         \* bool in_native_loop_
    installed_native_timer, \* installed_native_timer_, Off when it is nullopt
    more_work_is_plausible, \* member that replaces DoRunLoop()'s local when WebRT
    stack,                  \* call stack of bound_thread_, innermost frame last
    pc,                     \* where each other thread is in ScheduleWork()
    posted,                 \* posted messages of the Windows queue, in order
    wm_quit,                \* a WM_QUIT waits in the queue
    wm_timer,               \* a WM_TIMER of the native timer waits in the queue
    sent,                   \* messages other threads sent and wait for
    now,                    \* TimeTicks::Now()
    requested,              \* history: ScheduleWork() called since DoWork() began
    due,                    \* history: when the delegate wants its next DoWork()
    budget                  \* inputs and callouts left

timerVars == <<in_native_loop, installed_native_timer>>
pumpVars  == <<work_scheduled, timerVars, more_work_is_plausible>>
queueVars == <<posted, wm_quit, wm_timer, sent>>
histVars  == <<requested, due>>
vars == <<pumpVars, queueVars, histVars, stack, pc, now, budget>>

-----------------------------------------------------------------------------
\* delayed_run_time: is_null(), a time, or is_max()
Immediate == 0
Never     == MaxTime + 1
RunTimes  == Immediate..Never
Off       == 0

Functions == {"DoRunLoop", "NativeLoop", "HandleWork", "HandleTimer", "Replace",
              "ScheduleWork", "DoWork", "Handler"}
Labels    == {"Status", "Peek", "Dispatched", "Worked", "Idle", "Wait", "WaitPeek",
              "WaitNew", "Start", "Clear", "Reschedule", "Done", "Post", "Failed"}
Messages  == {"HaveWork", "Native", "Quit", "Timer", "None"}

(***************************************************************************)
(* more: the pass of the run loop found more work plausible.  quit:        *)
(* RunState::should_quit.  msg: the MSG a PeekMessage() returned.  info:   *)
(* delayed_run_time of the NextWorkInfo its DoWork() returned.             *)
(***************************************************************************)
Frames == [fn : Functions, at : Labels, more : BOOLEAN, quit : BOOLEAN,
           msg : Messages, info : RunTimes]

Frame(fn, at) == [fn |-> fn, at |-> at, more |-> FALSE, quit |-> FALSE,
                  msg |-> "None", info |-> Never]

Top == stack[Len(stack)]

\* The bound thread executes function fn, at label l.
At(fn, l) == stack # <<>> /\ Top.fn = fn /\ Top.at = l

Goto(l)       == stack' = [stack EXCEPT ![Len(stack)].at = l]
Call(f, l)    == stack' = Append([stack EXCEPT ![Len(stack)].at = l], f)
Popped        == SubSeq(stack, 1, Len(stack) - 1)
Return        == stack' = Popped
ReturnMore(b) == stack' = [Popped EXCEPT ![Len(stack) - 1].more = @ \/ b]
ReturnInfo(n) == stack' = [Popped EXCEPT ![Len(stack) - 1].info = n]

\* run_state_ is the state of the innermost DoRunLoop; null outside of Run().
RunLoops  == {i \in DOMAIN stack : stack[i].fn = "DoRunLoop"}
RunState  == CHOOSE i \in RunLoops : \A j \in RunLoops : j <= i

Init ==
    /\ work_scheduled = FALSE
    /\ in_native_loop = FALSE
    /\ installed_native_timer = Off
    /\ stack = <<>>
    /\ more_work_is_plausible = FALSE
    /\ pc = [t \in Threads |-> "Idle"]
    /\ posted = <<>>
    /\ wm_quit = FALSE
    /\ wm_timer = FALSE
    /\ sent = 0
    /\ now = 0
    /\ requested = FALSE
    /\ due = Never
    /\ budget = Budget

Spend == budget > 0 /\ budget' = budget - 1

-----------------------------------------------------------------------------
\* The Windows message queue, as PeekMessage() and GetMessage() serve it: posted
\* messages in order, then WM_QUIT, then WM_TIMER.
NextMessage ==
    IF posted # <<>> THEN Head(posted)
    ELSE IF wm_quit  THEN "Quit"
    ELSE IF wm_timer THEN "Timer"
    ELSE "None"

RemoveMessage ==
    /\ posted'   = IF posted = <<>> THEN <<>> ELSE Tail(posted)
    /\ wm_quit'  = (wm_quit /\ posted # <<>>)
    /\ wm_timer' = (wm_timer /\ (posted # <<>> \/ wm_quit))
    /\ UNCHANGED sent

\* PeekMessage() first runs the handlers of the messages other threads have sent.
DispatchSent(l) ==
    /\ sent > 0
    /\ sent' = sent - 1
    /\ Call(Frame("Handler", "Start"), l)
    /\ UNCHANGED <<pumpVars, histVars, posted, wm_quit, wm_timer, pc, now, budget>>

-----------------------------------------------------------------------------
\* Mutant: the flag is set with a plain store, its old value is not looked at.
ThreadScheduleWorkStore(t) ==
    /\ pc[t] = "Idle"
    /\ Spend
    /\ requested' = TRUE
    /\ work_scheduled' = TRUE
    /\ pc' = [pc EXCEPT ![t] = "Post"]
    /\ UNCHANGED <<timerVars, more_work_is_plausible, queueVars, due, stack, now>>

\* MessagePumpForUI::ScheduleWork(), on another thread: compare_exchange, then
\* PostMessage(), then the recovery when the queue had no room.
ThreadScheduleWork(t) ==
    /\ pc[t] = "Idle"
    /\ Spend
    /\ requested' = TRUE
    /\ work_scheduled' = TRUE
    /\ pc' = [pc EXCEPT ![t] = IF work_scheduled THEN "Idle" ELSE "Post"]
    /\ UNCHANGED <<timerVars, more_work_is_plausible, queueVars, due, stack, now>>

ThreadPost(t) ==
    /\ pc[t] = "Post"
    /\ IF Len(posted) < QueueCapacity
       THEN posted' = Append(posted, "HaveWork") /\ pc' = [pc EXCEPT ![t] = "Idle"]
       ELSE UNCHANGED posted /\ pc' = [pc EXCEPT ![t] = "Failed"]
    /\ UNCHANGED <<pumpVars, histVars, wm_quit, wm_timer, sent, stack, now, budget>>

ThreadPostFailed(t) ==
    /\ pc[t] = "Failed"
    /\ work_scheduled' = FALSE
    /\ pc' = [pc EXCEPT ![t] = "Idle"]
    /\ UNCHANGED <<timerVars, more_work_is_plausible, queueVars, histVars, stack, now,
                   budget>>

\* The same function called on the bound thread, whose caller goes on at l.
CallScheduleWork(l) ==
    /\ work_scheduled' = TRUE
    /\ IF work_scheduled THEN Goto(l) ELSE Call(Frame("ScheduleWork", "Post"), l)

ScheduleWorkPost ==
    /\ At("ScheduleWork", "Post")
    /\ IF Len(posted) < QueueCapacity
       THEN posted' = Append(posted, "HaveWork") /\ Return
       ELSE UNCHANGED posted /\ Goto("Failed")
    /\ UNCHANGED <<pumpVars, histVars, wm_quit, wm_timer, sent, pc, now, budget>>

ScheduleWorkFailed ==
    /\ At("ScheduleWork", "Failed")
    /\ work_scheduled' = FALSE
    /\ Return
    /\ UNCHANGED <<timerVars, more_work_is_plausible, queueVars, histVars, pc, now,
                   budget>>

\* Mutant: is_max() is not checked before SetTimer().
CallScheduleNativeTimerForever(t, l) ==
    /\ IF t # installed_native_timer /\ t <= now
       THEN CallScheduleWork(l) /\ UNCHANGED installed_native_timer
       ELSE installed_native_timer' = t /\ Goto(l) /\ UNCHANGED work_scheduled

(***************************************************************************)
(* ScheduleNativeTimer(t), whose caller goes on at l.  SetTimer() can fail *)
(* when the queue is full.                                                 *)
(***************************************************************************)
CallScheduleNativeTimer(t, l) ==
    \/ /\ t # Never /\ t # installed_native_timer /\ t <= now
       /\ CallScheduleWork(l)
       /\ UNCHANGED installed_native_timer
    \/ /\ t # Never /\ t # installed_native_timer /\ t > now
       /\ \/ installed_native_timer' = t
          \/ Len(posted) = QueueCapacity /\ UNCHANGED installed_native_timer
       /\ Goto(l)
       /\ UNCHANGED work_scheduled
    \/ /\ t = Never \/ t = installed_native_timer
       /\ Goto(l)
       /\ UNCHANGED <<work_scheduled, installed_native_timer>>

-----------------------------------------------------------------------------
\* DoRunLoop(): ProcessNextWindowsMessage().
LoopStatus ==
    /\ At("DoRunLoop", "Status")
    /\ in_native_loop' = FALSE
    /\ stack' = [stack EXCEPT ![Len(stack)].at = "Peek", ![Len(stack)].more = sent > 0]
    /\ UNCHANGED <<work_scheduled, installed_native_timer, more_work_is_plausible,
                   queueVars, histVars, pc, now, budget>>

\* PeekMessage(PM_REMOVE) and, through ProcessMessageHelper(), the dispatch: our
\* kMsgHaveWork is discarded for a replacement, our WM_TIMER reaches
\* HandleTimerMessage(), WM_QUIT is dropped.
LoopPeek ==
    /\ At("DoRunLoop", "Peek")
    /\ \/ DispatchSent("Peek")
       \/ /\ sent = 0
          /\ RemoveMessage
          /\ LET plausible(b) == [stack EXCEPT ![Len(stack)].at = "Dispatched",
                                               ![Len(stack)].more = @ \/ b]
             IN  CASE NextMessage = "HaveWork" ->
                        stack' = Append(plausible(FALSE), Frame("Replace", "Peek"))
                   [] NextMessage = "Native" ->
                        stack' = Append(plausible(TRUE), Frame("Handler", "Start"))
                   [] NextMessage = "Timer" ->
                        stack' = Append(plausible(TRUE), Frame("HandleTimer", "Start"))
                   [] OTHER -> stack' = plausible(NextMessage = "Quit")
          /\ UNCHANGED <<pumpVars, histVars, pc, now, budget>>

\* The delegate's DoWork() begins: what was asked for until now is honoured.
BeginDoWork(l) ==
    /\ Call(Frame("DoWork", "Start"), l)
    /\ requested' = FALSE
    /\ due' = Never

LoopDispatched ==
    /\ At("DoRunLoop", "Dispatched")
    /\ in_native_loop' = FALSE
    /\ more_work_is_plausible' = (WebRT /\ Top.more)
    /\ IF Top.quit THEN Return /\ UNCHANGED histVars ELSE BeginDoWork("Worked")
    /\ UNCHANGED <<work_scheduled, installed_native_timer, queueVars, pc, now, budget>>

LoopWorked ==
    /\ At("DoRunLoop", "Worked")
    /\ in_native_loop' = FALSE
    /\ LET more == \/ IF WebRT THEN more_work_is_plausible ELSE Top.more
                   \/ Top.info = Immediate
       IN  /\ more_work_is_plausible' = (WebRT /\ more)
           /\ IF Top.quit
              THEN Return /\ UNCHANGED installed_native_timer
              ELSE /\ Goto(IF more THEN "Status" ELSE "Idle")
                   /\ installed_native_timer' = Off
    /\ UNCHANGED <<work_scheduled, queueVars, histVars, pc, now, budget>>

\* DoIdleWork(), which may ask for work (OnSystemIdle) or quit (ShouldQuitWhenIdle);
\* with a WebRT delegate the loop also quits once the application has no main window,
\* and peeks again instead of waiting while the WebRT delegate has idle work.
LoopIdle ==
    /\ At("DoRunLoop", "Idle")
    /\ \/ /\ Goto("Wait")
          /\ UNCHANGED <<work_scheduled, more_work_is_plausible, requested, budget>>
       \/ /\ CallScheduleWork("Wait")
          /\ requested' = TRUE
          /\ Spend
          /\ UNCHANGED more_work_is_plausible
       \/ /\ Goto("Status") \/ Return
          /\ more_work_is_plausible' \in IF WebRT THEN BOOLEAN ELSE {FALSE}
          /\ Spend
          /\ UNCHANGED <<work_scheduled, requested>>
    /\ UNCHANGED <<timerVars, queueVars, due, pc, now>>

\* WaitForWork(): MsgWaitForMultipleObjectsEx() returns on a message, on the delay, or
\* (MWMO_INPUTAVAILABLE) on input attached from a child window, which no PeekMessage()
\* of this thread returns.  After such a vain wake-up only a new message counts; there
\* was none when it went back to wait, so any message is a new one.
Available == sent > 0 \/ NextMessage # "None"

LoopWait ==
    /\ \/ /\ At("DoRunLoop", "Wait") \/ At("DoRunLoop", "WaitNew")
          /\ Top.info <= now
          /\ Goto("Status")
       \/ /\ At("DoRunLoop", "Wait")
          /\ Goto(IF sent > 0 THEN "Status" ELSE "WaitPeek")
       \/ /\ At("DoRunLoop", "WaitNew")
          /\ Available
          /\ Goto(IF sent > 0 THEN "Status" ELSE "WaitPeek")
    /\ UNCHANGED <<pumpVars, queueVars, histVars, pc, now, budget>>

LoopWaitPeek ==
    /\ At("DoRunLoop", "WaitPeek")
    /\ \/ DispatchSent("WaitPeek")
       \/ /\ sent = 0
          /\ Goto(IF NextMessage # "None" THEN "Status" ELSE "WaitNew")
          /\ UNCHANGED <<pumpVars, queueVars, histVars, pc, now, budget>>

-----------------------------------------------------------------------------
\* ProcessPumpReplacementMessage(): peek a message in the place of the kMsgHaveWork
\* just consumed, and only then let the next kMsgHaveWork be posted.
ReplacePeek ==
    /\ At("Replace", "Peek")
    /\ \/ DispatchSent("Peek")
       \/ /\ sent = 0
          /\ RemoveMessage
          /\ stack' = [stack EXCEPT ![Len(stack)].at = "Clear",
                                    ![Len(stack)].msg = NextMessage]
          /\ UNCHANGED <<pumpVars, histVars, pc, now, budget>>

ReplaceClear ==
    /\ At("Replace", "Clear")
    /\ work_scheduled' = FALSE
    /\ CASE Top.msg = "None"  -> ReturnMore(FALSE) /\ UNCHANGED wm_quit
         [] Top.msg = "Quit"  -> ReturnMore(TRUE) /\ wm_quit' = TRUE
         [] Top.msg = "Timer" -> /\ Call(Frame("HandleTimer", "Start"), "Done")
                                 /\ UNCHANGED wm_quit
         [] OTHER             -> Goto("Reschedule") /\ UNCHANGED wm_quit
    /\ UNCHANGED <<timerVars, more_work_is_plausible, posted, wm_timer, sent, histVars,
                   pc, now, budget>>

\* Mutant: the message is dispatched without asking for another time slice.
ReplaceRescheduleNot ==
    /\ At("Replace", "Reschedule")
    /\ Goto("Start")
    /\ UNCHANGED <<pumpVars, queueVars, histVars, pc, now, budget>>

\* Another time slice is asked for before the handler can enter a native loop.
ReplaceReschedule ==
    /\ At("Replace", "Reschedule")
    /\ CallScheduleWork("Start")
    /\ UNCHANGED <<timerVars, more_work_is_plausible, queueVars, histVars, pc, now,
                   budget>>

ReplaceDispatch ==
    /\ \/ At("Replace", "Start") /\ Call(Frame("Handler", "Start"), "Done")
       \/ At("Replace", "Done") /\ ReturnMore(TRUE)
    /\ UNCHANGED <<pumpVars, queueVars, histVars, pc, now, budget>>

\* Mutant: outside of Run() the message is dropped and the flag stays set.
HandleWorkStartKeepsFlag ==
    /\ At("HandleWork", "Start")
    /\ in_native_loop' = TRUE
    /\ IF RunLoops = {} THEN Return ELSE Call(Frame("Replace", "Peek"), "Dispatched")
    /\ UNCHANGED <<work_scheduled, installed_native_timer, more_work_is_plausible,
                   queueVars, histVars, pc, now, budget>>

\* HandleWorkMessage(): a native loop dispatched our kMsgHaveWork.
HandleWorkStart ==
    /\ At("HandleWork", "Start")
    /\ in_native_loop' = TRUE
    /\ IF RunLoops = {}
       THEN work_scheduled' = FALSE /\ Return
       ELSE UNCHANGED work_scheduled /\ Call(Frame("Replace", "Peek"), "Dispatched")
    /\ UNCHANGED <<installed_native_timer, more_work_is_plausible, queueVars, histVars,
                   pc, now, budget>>

HandleWorkDoWork ==
    /\ At("HandleWork", "Dispatched")
    /\ BeginDoWork("Worked")
    /\ UNCHANGED <<pumpVars, queueVars, pc, now, budget>>

\* Mutant: DoWork() is called although no Run() is on the stack.
HandleTimerOutsideRun ==
    /\ At("HandleTimer", "Start")
    /\ installed_native_timer' = Off
    /\ IF installed_native_timer = Off
       THEN Return /\ UNCHANGED histVars
       ELSE BeginDoWork("Worked")
    /\ UNCHANGED <<work_scheduled, in_native_loop, more_work_is_plausible, queueVars,
                   pc, now, budget>>

\* HandleTimerMessage(): the native timer fired, unless it was killed since.
HandleTimerStart ==
    /\ At("HandleTimer", "Start")
    /\ installed_native_timer' = Off
    /\ IF installed_native_timer = Off \/ RunLoops = {}
       THEN Return /\ UNCHANGED histVars
       ELSE BeginDoWork("Worked")
    /\ UNCHANGED <<work_scheduled, in_native_loop, more_work_is_plausible, queueVars,
                   pc, now, budget>>

\* Mutant: the handlers set no timer, as the pump's own loop does not.
HandlerWorkedNoTimer ==
    /\ At("HandleWork", "Worked") \/ At("HandleTimer", "Worked")
    /\ IF Top.info = Immediate
       THEN CallScheduleWork("Done")
       ELSE Goto("Done") /\ UNCHANGED work_scheduled
    /\ UNCHANGED <<timerVars, more_work_is_plausible, queueVars, histVars, pc, now,
                   budget>>

\* What both handlers do with the NextWorkInfo of their DoWork().
HandlerWorked ==
    /\ At("HandleWork", "Worked") \/ At("HandleTimer", "Worked")
    /\ IF Top.info = Immediate
       THEN CallScheduleWork("Done") /\ UNCHANGED installed_native_timer
       ELSE CallScheduleNativeTimer(Top.info, "Done")
    /\ UNCHANGED <<in_native_loop, more_work_is_plausible, queueVars, histVars, pc,
                   now, budget>>

HandlerDone ==
    /\ At("HandleWork", "Done") \/ At("HandleTimer", "Done")
    /\ Return
    /\ UNCHANGED <<pumpVars, queueVars, histVars, pc, now, budget>>

-----------------------------------------------------------------------------
\* A native modal loop: GetMessage() and DispatchMessage(), until it gets WM_QUIT.
NativeGet ==
    /\ At("NativeLoop", "Peek")
    /\ \/ DispatchSent("Peek")
       \/ /\ sent = 0
          /\ NextMessage # "None"
          /\ RemoveMessage
          /\ CASE NextMessage = "HaveWork" -> Call(Frame("HandleWork", "Start"), "Peek")
               [] NextMessage = "Timer" -> Call(Frame("HandleTimer", "Start"), "Peek")
               [] NextMessage = "Native" -> Call(Frame("Handler", "Start"), "Peek")
               [] OTHER -> Return
          /\ UNCHANGED <<pumpVars, histVars, pc, now, budget>>

\* The user closes the dialog.
NativeExit ==
    /\ At("NativeLoop", "Peek")
    /\ Return
    /\ UNCHANGED <<pumpVars, queueVars, histVars, pc, now, budget>>

(***************************************************************************)
(* Application code on the bound thread: a Windows message handler, or the *)
(* delegate's DoWork().  It may ask the pump for work now or later, quit   *)
(* the innermost run loop, or enter a loop, and finally returns.           *)
(***************************************************************************)
InAppCode == At("Handler", "Start") \/ At("DoWork", "Start")

AppScheduleWork ==
    /\ InAppCode
    /\ Spend
    /\ CallScheduleWork("Start")
    /\ requested' = TRUE
    /\ UNCHANGED <<timerVars, more_work_is_plausible, queueVars, due, pc, now>>

\* ScheduleDelayedWork(): a delayed task is posted from outside of DoWork().
AppScheduleDelayedWork(t) ==
    /\ At("Handler", "Start")
    /\ t > now
    /\ Spend
    /\ due' = t
    /\ IF in_native_loop /\ ~work_scheduled
       THEN CallScheduleNativeTimer(t, "Start")
       ELSE UNCHANGED <<stack, work_scheduled, installed_native_timer>>
    /\ UNCHANGED <<in_native_loop, more_work_is_plausible, queueVars, requested, pc,
                   now>>

AppQuit ==
    /\ InAppCode
    /\ RunLoops # {}
    /\ ~stack[RunState].quit
    /\ Spend
    /\ stack' = [stack EXCEPT ![RunState].quit = TRUE]
    /\ UNCHANGED <<pumpVars, queueVars, histVars, pc, now>>

\* MessagePumpWin::Run(), from app code or from the thread's main function.
EnterRun ==
    /\ Spend
    /\ \/ InAppCode /\ Call(Frame("DoRunLoop", "Status"), "Start")
       \/ stack = <<>> /\ stack' = <<Frame("DoRunLoop", "Status")>>
    /\ UNCHANGED <<pumpVars, queueVars, histVars, pc, now>>

EnterNativeLoop ==
    /\ Spend
    /\ \/ InAppCode /\ Call(Frame("NativeLoop", "Peek"), "Start")
       \/ stack = <<>> /\ stack' = <<Frame("NativeLoop", "Peek")>>
    /\ UNCHANGED <<pumpVars, queueVars, histVars, pc, now>>

HandlerReturn ==
    /\ At("Handler", "Start")
    /\ Return
    /\ UNCHANGED <<pumpVars, queueVars, histVars, pc, now, budget>>

\* DoWork() returns: more work at once, at a later time, or none.
DoWorkReturn(n) ==
    /\ At("DoWork", "Start")
    /\ n = Immediate \/ n > now
    /\ IF n = Immediate THEN Spend ELSE UNCHANGED budget
    /\ due' = n
    /\ ReturnInfo(n)
    /\ UNCHANGED <<pumpVars, queueVars, requested, pc, now>>

-----------------------------------------------------------------------------
\* The rest of the system: other messages arrive, the native timer elapses, time passes.
PostNative ==
    /\ Len(posted) < QueueCapacity
    /\ Spend
    /\ posted' = Append(posted, "Native")
    /\ UNCHANGED <<pumpVars, histVars, wm_quit, wm_timer, sent, stack, pc, now>>

PostQuit ==
    /\ ~wm_quit
    /\ Spend
    /\ wm_quit' = TRUE
    /\ UNCHANGED <<pumpVars, histVars, posted, wm_timer, sent, stack, pc, now>>

SendNative ==
    /\ sent < MaxSent
    /\ Spend
    /\ sent' = sent + 1
    /\ UNCHANGED <<pumpVars, histVars, posted, wm_quit, wm_timer, stack, pc, now>>

TimerElapses ==
    /\ installed_native_timer # Off
    /\ installed_native_timer <= now
    /\ ~wm_timer
    /\ wm_timer' = TRUE
    /\ UNCHANGED <<pumpVars, histVars, posted, wm_quit, sent, stack, pc, now, budget>>

Tick ==
    /\ now < MaxTime
    /\ now' = now + 1
    /\ UNCHANGED <<pumpVars, queueVars, histVars, stack, pc, budget>>

-----------------------------------------------------------------------------
\* Steps of the pump's own code and of Windows' loops, which never just stop.
PumpStep ==
    \/ ScheduleWorkPost \/ ScheduleWorkFailed
    \/ LoopStatus \/ LoopPeek \/ LoopDispatched \/ LoopWorked \/ LoopIdle
    \/ LoopWait \/ LoopWaitPeek
    \/ ReplacePeek \/ ReplaceClear \/ ReplaceReschedule \/ ReplaceDispatch
    \/ HandleWorkStart \/ HandleWorkDoWork \/ HandleTimerStart
    \/ HandlerWorked \/ HandlerDone \/ NativeGet

AppReturn == HandlerReturn \/ \E n \in RunTimes : DoWorkReturn(n)

AppCall ==
    \/ AppScheduleWork \/ AppQuit \/ EnterRun \/ EnterNativeLoop \/ NativeExit
    \/ \E t \in RunTimes \ {Immediate, Never} : AppScheduleDelayedWork(t)

ThreadStep(t) == ThreadPost(t) \/ ThreadPostFailed(t)

Environment == PostNative \/ PostQuit \/ SendNative

Next ==
    \/ PumpStep \/ AppReturn \/ AppCall
    \/ \E t \in Threads : ThreadScheduleWork(t) \/ ThreadStep(t)
    \/ Environment \/ TimerElapses \/ Tick

Spec == Init /\ [][Next]_vars

(***************************************************************************)
(* Fairness: Windows runs every thread and the clock, app code returns.    *)
(* Nothing obliges the user to close a dialog, nor a thread to ask for     *)
(* work.                                                                   *)
(***************************************************************************)
Fairness ==
    /\ WF_vars(PumpStep \/ AppReturn)
    /\ \A t \in Threads : WF_vars(ThreadStep(t))
    /\ WF_vars(TimerElapses)
    /\ WF_vars(Tick)

FairSpec == Spec /\ Fairness

-----------------------------------------------------------------------------
TypeOK ==
    /\ work_scheduled \in BOOLEAN
    /\ in_native_loop \in BOOLEAN
    /\ installed_native_timer \in Off..MaxTime
    /\ more_work_is_plausible \in BOOLEAN
    /\ stack \in Seq(Frames)
    /\ pc \in [Threads -> {"Idle", "Post", "Failed"}]
    /\ posted \in Seq({"HaveWork", "Native"})
    /\ wm_quit \in BOOLEAN
    /\ wm_timer \in BOOLEAN
    /\ sent \in 0..MaxSent
    /\ now \in 0..MaxTime
    /\ requested \in BOOLEAN
    /\ due \in RunTimes
    /\ budget \in 0..Budget

-----------------------------------------------------------------------------
(***************************************************************************)
(* Who owes the pump a kMsgHaveWork that is posted or not yet replaced: the *)
(* message in the queue, a thread about to post it, or an activation on     *)
(* the stack that took it out of the queue and has not cleared the flag.    *)
(***************************************************************************)
Holding(f) ==
    \/ f.fn = "ScheduleWork" /\ f.at \in {"Post", "Failed"}
    \/ f.fn = "HandleWork" /\ f.at = "Start"
    \/ f.fn = "Replace" /\ f.at \in {"Peek", "Clear"}

InQueue  == {i \in DOMAIN posted : posted[i] = "HaveWork"}
OnStack  == {i \in DOMAIN stack : Holding(stack[i])}
InThread == {t \in Threads : pc[t] # "Idle"}

\* work_scheduled_ is set exactly while somebody owes a kMsgHaveWork, and never do
\* two: the message is neither lost with the flag set (which would swallow every
\* later ScheduleWork()) nor ever pending twice (message_pump_win.h:131).
SingleWorkToken ==
    /\ \A i, j \in InQueue : i = j
    /\ \A i, j \in OnStack : i = j
    /\ \A t, u \in InThread : t = u
    /\ InQueue # {} => OnStack = {} /\ InThread = {}
    /\ OnStack # {} => InThread = {}
    /\ work_scheduled <=> InQueue # {} \/ OnStack # {} \/ InThread # {}

\* The DCHECKs of ProcessPumpReplacementMessage() (message_pump_win.cc:779 and :783):
\* the replacement is never another kMsgHaveWork, and the flag to clear is set, though
\* any thread may schedule work, and sent messages may nest loops, during the peek.
ReplacementDChecks ==
    \A i \in DOMAIN stack :
        stack[i].fn = "Replace" /\ stack[i].at = "Clear" =>
            stack[i].msg # "HaveWork" /\ work_scheduled

\* A native loop that took our last message, and will get no other, is left with a
\* timer no later than the delegate's next delayed task (why ScheduleNativeTimer()
\* exists), as long as SetTimer() can not have failed on a full queue.
NativeTimerCoversDelay ==
    /\ At("NativeLoop", "Peek")
    /\ RunLoops # {}
    /\ in_native_loop
    /\ ~work_scheduled
    => due = Never \/ installed_native_timer \in 1..due

\* Every step of the pump is one that the contract of message_pump.h allows.
Contract == INSTANCE PumpContract WITH running <- RunLoops # {}
ImplementsContract == Contract!Safe

NativeLoopIn(from) == \E i \in DOMAIN stack : i > from /\ stack[i].fn = "NativeLoop"

\* ScheduleWork() is answered by a DoWork() that starts after it, whatever native
\* loops the bound thread is in, as long as it is in Run() (message_pump.h:213).
ScheduledWorkIsDone == requested ~> (~requested \/ RunLoops = {})

\* Outside of native loops, DoWork() is called once the delayed_run_time it returned,
\* or that ScheduleDelayedWork() announced, has come.
DelayedWorkIsDone == due <= now ~> (due > now \/ RunLoops = {} \/ NativeLoopIn(0))

\* The innermost run loop that was told to quit returns, unless a native loop it
\* entered goes on.
QuitPending == RunLoops # {} /\ stack[RunState].quit /\ ~NativeLoopIn(RunState)
QuitIsHonoured == QuitPending ~> ~QuitPending

\* All three: whatever is asked of the pump, by any thread, in any nest of loops, is done.
RequestsAreServed == ScheduledWorkIsDone /\ DelayedWorkIsDone /\ QuitIsHonoured

-----------------------------------------------------------------------------
(* What the comments and assertions of the code promise and it does not keep. *)

\* message_pump_win.cc:577, DCHECK(in_native_loop_) in ScheduleNativeTimer(), called
\* when the DoWork() of a handler returned and is out of immediate work.
NativeTimerDCheck ==
    At("HandleWork", "Worked") \/ At("HandleTimer", "Worked") =>
        Top.info = Immediate \/ in_native_loop

\* message_pump.h:165: the loop goes on without DoIdleWork() after native work.
IdleAfterQuietPass == At("DoRunLoop", "Idle") => ~Top.more
=============================================================================
