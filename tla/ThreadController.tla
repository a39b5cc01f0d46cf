--------------------------- MODULE ThreadController ---------------------------
(***************************************************************************)
(* ThreadControllerWithMessagePumpImpl: the MessagePump::Delegate that runs *)
(* the tasks of a sequence.  Any thread posts tasks; a WorkDeduplicator     *)
(* keeps all but the necessary posts from waking the pump; tasks may enter  *)
(* nested run loops or native loops, in which other tasks run only if that  *)
(* was explicitly allowed.                                                 *)
(*                                                                         *)
(* The pump is the one PumpContract describes.  The task source and the     *)
(* deduplicator are modelled from the calls made to them.                  *)
(***************************************************************************)
EXTENDS Naturals, Sequences, FiniteSets

CONSTANTS
    Threads,        \* the threads, other than the associated one, that post tasks
    Bound,          \* the associated thread
    Tasks,          \* the tasks posted during the run
    WorkBatchSize,  \* work_batch_size
    MaxTime,        \* bound: the clock stops here
    Budget          \* bound: callouts of app code and surprises of the environment

ASSUME ThreadAssumption == Bound \notin Threads
ASSUME BatchAssumption == WorkBatchSize \in Nat \ {0}
ASSUME BoundAssumption == MaxTime \in Nat /\ Budget \in Nat

VARIABLES
    is_bound,                \* BindToCurrentThread() has run
    pending,                 \* work_deduplicator_: a DoWork is pending
    in_do_work,              \* work_deduplicator_: in DoWork
    task_execution_allowed,
    quit_pending,
    quit_runloop_after,
    next_delayed_do_work,
    suspended,               \* power_monitor_.IsProcessInPowerSuspendState()
    stack,                   \* call stack of the associated thread, innermost last
    pc,                      \* where each thread is in a PostTask()
    state,                   \* of each task, in the task source
    wake,                    \* when a delayed task is to run
    requested,               \* the pump was asked for work since DoWork() began
    due,                     \* when the pump is to call DoWork() next
    now,
    budget

dedupVars  == <<is_bound, pending, in_do_work>>
loopVars   == <<quit_pending, quit_runloop_after>>
pumpVars   == <<requested, due>>
sourceVars == <<state, wake>>
vars == <<dedupVars, task_execution_allowed, loopVars, next_delayed_do_work, suspended,
          stack, pc, sourceVars, pumpVars, now, budget>>

-----------------------------------------------------------------------------
Immediate == 0
Never     == MaxTime + 1   \* TimeTicks::Max()
RunTimes  == Immediate..Never
Callers   == Threads \cup {Bound}

(***************************************************************************)
(* quit: the pump was told to leave this Run().  idle: ShouldQuitWhenIdle() *)
(* of this Run().  flip: task_execution_allowed was set on the way in and   *)
(* is cleared on the way out.  info: what the latest DoWork() returned, or  *)
(* the wake-up a DoWork() found.  saved: quit_runloop_after of the caller.  *)
(* n: num_tasks_executed.                                                  *)
(***************************************************************************)
Frames == [fn : {"Main", "Run", "DoWork", "Task", "Handler", "Native"},
           at : {"Body", "Top", "Worked", "Idle", "Wait", "Start", "Select", "Wake",
                 "Did"},
           quit : BOOLEAN, idle : BOOLEAN, flip : BOOLEAN, info : RunTimes,
           saved : RunTimes, n : 0..WorkBatchSize]

Frame(fn, at) == [fn |-> fn, at |-> at, quit |-> FALSE, idle |-> FALSE, flip |-> FALSE,
                  info |-> Never, saved |-> Never, n |-> 0]

Top == stack[Len(stack)]

\* The associated thread executes function fn at label l, not a PostTask() it called.
At(fn, l) == Top.fn = fn /\ Top.at = l /\ pc[Bound] = "Idle"

Goto(l)    == stack' = [stack EXCEPT ![Len(stack)].at = l]
Call(f, l) == stack' = Append([stack EXCEPT ![Len(stack)].at = l], f)
Return     == stack' = SubSeq(stack, 1, Len(stack) - 1)

RunLoops == {i \in DOMAIN stack : stack[i].fn = "Run"}
RunState == CHOOSE i \in RunLoops : \A j \in RunLoops : j <= i

InAppCode == At("Main", "Body") \/ At("Task", "Body") \/ At("Handler", "Body")

Spend == budget > 0 /\ budget' = budget - 1

Init ==
    /\ is_bound = FALSE /\ pending = FALSE /\ in_do_work = FALSE
    /\ task_execution_allowed = TRUE
    /\ quit_pending = FALSE
    /\ quit_runloop_after = Never
    /\ next_delayed_do_work = Never
    /\ suspended = FALSE
    /\ stack = <<Frame("Main", "Body")>>
    /\ pc = [t \in Callers |-> "Idle"]
    /\ state = [k \in Tasks |-> "New"]
    /\ wake = [k \in Tasks |-> Never]
    /\ requested = FALSE
    /\ due = Never
    /\ now = 0
    /\ budget = Budget

-----------------------------------------------------------------------------
(* The task source: incoming tasks of any thread, work queues, delayed tasks. *)

In(s) == {k \in Tasks : state[k] = s}

\* SelectNextTask() first reloads the work queues and moves overdue tasks to them.
Overdue     == {k \in In("Delayed") : wake[k] <= now}
Reloaded(k) == IF state[k] = "Incoming" THEN "Ready"
               ELSE IF k \in Overdue THEN "Ripe" ELSE state[k]

\* In power suspend state, kSkipDelayedTask is the option.
Selectable == In("Incoming") \cup In("Ready")
              \cup IF suspended THEN {} ELSE In("Ripe") \cup Overdue

Earliest(times) == IF times = {} THEN Never
                   ELSE CHOOSE t \in times : \A u \in times : t <= u

\* GetPendingWakeUp()
PendingWakeUp ==
    IF Selectable # {} THEN Immediate
    ELSE IF suspended THEN Never
    ELSE Earliest({wake[k] : k \in In("Delayed")})

-----------------------------------------------------------------------------
(***************************************************************************)
(* PostTask(): the task goes to the incoming queue; if that was empty, the  *)
(* task source calls ScheduleWork(), which asks the deduplicator and then,  *)
(* if need be, the pump.                                                   *)
(***************************************************************************)
PostTask(t, k) ==
    /\ pc[t] = "Idle"
    /\ t = Bound => InAppCode
    /\ state[k] = "New"
    /\ state' = [state EXCEPT ![k] = "Incoming"]
    /\ pc' = [pc EXCEPT ![t] = IF In("Incoming") = {} THEN "Request" ELSE "Idle"]
    /\ UNCHANGED <<dedupVars, task_execution_allowed, loopVars, next_delayed_do_work,
                   suspended, stack, wake, pumpVars, now, budget>>

\* ScheduleWork() and EnsureWorkScheduled(): OnWorkRequested().
RequestWork(t) ==
    /\ pc[t] = "Request"
    /\ pending' = TRUE
    /\ pc' = [pc EXCEPT ![t] = IF is_bound /\ ~pending /\ ~in_do_work THEN "Pump"
                                                                      ELSE "Idle"]
    /\ UNCHANGED <<is_bound, in_do_work, task_execution_allowed, loopVars,
                   next_delayed_do_work, suspended, stack, sourceVars, pumpVars, now,
                   budget>>

PumpScheduleWork(t) ==
    /\ pc[t] = "Pump"
    /\ requested' = TRUE
    /\ pc' = [pc EXCEPT ![t] = "Idle"]
    /\ UNCHANGED <<dedupVars, task_execution_allowed, loopVars, next_delayed_do_work,
                   suspended, stack, sourceVars, due, now, budget>>

\* SetNextDelayedDoWork(t): the pump is told, unless a DoWork() will tell it.
SetNextDelayedDoWork(t) ==
    /\ next_delayed_do_work' = t
    /\ due' = IF t # next_delayed_do_work /\ is_bound /\ ~pending /\ ~in_do_work
              THEN t ELSE due

\* The task source calls it when a delayed task becomes the earliest.
PostDelayedTask(k, t) ==
    /\ InAppCode
    /\ is_bound
    /\ state[k] = "New"
    /\ t > now
    /\ Spend
    /\ state' = [state EXCEPT ![k] = "Delayed"]
    /\ wake' = [wake EXCEPT ![k] = t]
    /\ IF t < Earliest({wake[j] : j \in In("Delayed")})
       THEN SetNextDelayedDoWork(t)
       ELSE UNCHANGED <<next_delayed_do_work, due>>
    /\ UNCHANGED <<dedupVars, task_execution_allowed, loopVars, suspended, stack, pc,
                   requested, now>>

BindToCurrentThread ==
    /\ At("Main", "Body")
    /\ ~is_bound
    /\ is_bound' = TRUE
    /\ requested' = (requested \/ pending)
    /\ UNCHANGED <<pending, in_do_work, task_execution_allowed, loopVars,
                   next_delayed_do_work, suspended, stack, pc, sourceVars, due, now,
                   budget>>

-----------------------------------------------------------------------------
\* The pump calls DoWork(), forgetting what it was asked for before.
CallDoWork(l) ==
    /\ Call(Frame("DoWork", "Start"), l)
    /\ requested' = FALSE
    /\ due' = Never
    /\ UNCHANGED <<dedupVars, task_execution_allowed, loopVars, next_delayed_do_work,
                   suspended, pc, sourceVars, now, budget>>

\* It does so at the top of each pass of Run(), and when asked to in a native loop
\* that app code in Run() has entered.
PumpCallsDoWork ==
    \/ At("Run", "Top") /\ ~Top.quit /\ CallDoWork("Worked")
    \/ /\ At("Native", "Body")
       /\ RunLoops # {}
       /\ requested \/ due = Immediate
       /\ CallDoWork("Body")

\* A native timer may also serve the delay there.
PumpTimerFires ==
    /\ At("Native", "Body")
    /\ RunLoops # {}
    /\ due <= now
    /\ CallDoWork("Body")

\* DoWork(): OnWorkStarted(), and DoWorkImpl() when tasks are not allowed.
DoWorkStart ==
    /\ At("DoWork", "Start")
    /\ pending' = FALSE
    /\ in_do_work' = TRUE
    /\ IF task_execution_allowed
       THEN Goto("Select")
       ELSE stack' = [stack EXCEPT ![Len(stack)].at = "Did",
                                   ![Len(stack)].info = quit_runloop_after]
    /\ UNCHANGED <<is_bound, task_execution_allowed, loopVars, next_delayed_do_work,
                   suspended, pc, sourceVars, pumpVars, now, budget>>

\* What moving the overdue tasks changes: the task source announces the next wake-up.
MoveReadyDelayedTasks ==
    IF Overdue = {}
    THEN UNCHANGED <<next_delayed_do_work, due>>
    ELSE SetNextDelayedDoWork(Earliest({wake[j] : j \in In("Delayed") \ Overdue}))

\* DoWorkImpl() selects a task and runs it; no other may run meanwhile.
RunTask(k) ==
    /\ At("DoWork", "Select")
    /\ Top.n < WorkBatchSize
    /\ k \in Selectable
    /\ state' = [j \in Tasks |-> IF j = k THEN "Done" ELSE Reloaded(j)]
    /\ task_execution_allowed' = FALSE
    /\ Call(Frame("Task", "Body"), "Select")
    /\ MoveReadyDelayedTasks
    /\ UNCHANGED <<dedupVars, loopVars, suspended, pc, wake, requested, now, budget>>

\* The task returns to DoWorkImpl().  quit_pending ends the batch.
TaskReturns ==
    /\ At("Task", "Body")
    /\ LET i == Len(stack) - 1
       IN  stack' = [SubSeq(stack, 1, i) EXCEPT
                         ![i].n = IF quit_pending THEN WorkBatchSize ELSE @ + 1]
    /\ task_execution_allowed' = TRUE
    /\ UNCHANGED <<dedupVars, loopVars, next_delayed_do_work, suspended, pc, sourceVars,
                   pumpVars, now, budget>>

\* The batch is over: WillCheckForMoreWork() clears the flag, then the source is asked.
BatchEnds ==
    /\ At("DoWork", "Select")
    /\ \/ /\ Top.n = WorkBatchSize
          /\ UNCHANGED <<state, next_delayed_do_work, due>>
       \/ /\ Top.n < WorkBatchSize
          /\ Selectable = {}
          /\ state' = [j \in Tasks |-> Reloaded(j)]
          /\ MoveReadyDelayedTasks
    /\ IF quit_pending
       THEN Goto("Did") /\ UNCHANGED <<pending, in_do_work>>
       ELSE Goto("Wake") /\ pending' = FALSE /\ in_do_work' = TRUE
    /\ UNCHANGED <<is_bound, task_execution_allowed, loopVars, suspended, pc, wake,
                   requested, now, budget>>

GetWakeUp ==
    /\ At("DoWork", "Wake")
    /\ state' = [j \in Tasks |-> IF state[j] = "Incoming" THEN "Ready" ELSE state[j]]
    /\ stack' = [stack EXCEPT ![Len(stack)].at = "Did",
                              ![Len(stack)].info = PendingWakeUp]
    /\ UNCHANGED <<dedupVars, task_execution_allowed, loopVars, next_delayed_do_work,
                   suspended, pc, wake, pumpVars, now, budget>>

\* Mutant: the later of the two is taken.
NextRunTimeLater(w) == IF w > quit_runloop_after THEN w ELSE quit_runloop_after

\* The NextWorkInfo for a wake-up w: no later than quit_runloop_after, and none at all
\* once that has passed.
NextRunTime(w) == IF w > quit_runloop_after THEN quit_runloop_after ELSE w
NextWorkInfo(w) ==
    IF w > quit_runloop_after /\ w # Never /\ now >= quit_runloop_after THEN Never
    ELSE IF w = Never THEN Never ELSE NextRunTime(w)

\* What DidCheckForMoreWork() and the rest of DoWork() make of the wake-up found.
ReturnWorkInfo(info) ==
    /\ LET i == Len(stack) - 1
       IN  stack' = [SubSeq(stack, 1, i) EXCEPT ![i].info = info]
    /\ due' = info

\* Mutant: a request made since the queues were looked at is not honoured.
DoWorkReturnsDeaf ==
    /\ At("DoWork", "Did")
    /\ in_do_work' = FALSE
    /\ pending' = (Top.info = Immediate)
    /\ IF Top.info = Immediate
       THEN ReturnWorkInfo(Immediate) /\ UNCHANGED next_delayed_do_work
       ELSE /\ ReturnWorkInfo(NextWorkInfo(Top.info))
            /\ next_delayed_do_work' = IF Top.info = Never THEN Never
                                       ELSE NextRunTime(Top.info)
    /\ UNCHANGED <<is_bound, task_execution_allowed, loopVars, suspended, pc,
                   sourceVars, requested, now, budget>>

DoWorkReturns ==
    /\ At("DoWork", "Did")
    /\ in_do_work' = FALSE
    /\ pending' = (pending \/ Top.info = Immediate)
    /\ IF pending'
       THEN ReturnWorkInfo(Immediate) /\ UNCHANGED next_delayed_do_work
       ELSE /\ ReturnWorkInfo(NextWorkInfo(Top.info))
            /\ next_delayed_do_work' = IF Top.info = Never THEN Never
                                       ELSE NextRunTime(Top.info)
    /\ UNCHANGED <<is_bound, task_execution_allowed, loopVars, suspended, pc,
                   sourceVars, requested, now, budget>>

-----------------------------------------------------------------------------
\* The pump's loop after DoWork(), when it was not told to quit.
PumpGoesOn ==
    /\ At("Run", "Worked")
    /\ ~Top.quit
    /\ Goto(IF Top.info = Immediate THEN "Top" ELSE "Idle")
    /\ UNCHANGED <<dedupVars, task_execution_allowed, loopVars, next_delayed_do_work,
                   suspended, pc, sourceVars, pumpVars, now, budget>>

\* DoIdleWork(): OnSystemIdle() may find work; a timeout or an idle loop quits.
DoIdleWork ==
    /\ At("Run", "Idle")
    /\ \/ /\ Spend
          /\ requested' = TRUE
          /\ Goto("Wait")
          /\ UNCHANGED quit_pending
       \/ /\ LET quit == quit_runloop_after <= now \/ Top.idle
             IN  /\ stack' = [stack EXCEPT ![Len(stack)].at = "Wait",
                                           ![Len(stack)].quit = quit]
                 /\ quit_pending' = (quit_pending \/ quit)
          /\ UNCHANGED <<requested, budget>>
    /\ UNCHANGED <<dedupVars, task_execution_allowed, quit_runloop_after,
                   next_delayed_do_work, suspended, pc, sourceVars, due, now>>

PumpWaits ==
    /\ At("Run", "Wait")
    /\ ~Top.quit
    /\ requested \/ due <= now
    /\ Goto("Top")
    /\ UNCHANGED <<dedupVars, task_execution_allowed, loopVars, next_delayed_do_work,
                   suspended, pc, sourceVars, pumpVars, now, budget>>

\* Leaving Run() number i, RunLoop executes the deferred Quit() of the loop around it.
QuitWasDeferred(i) ==
    \E j \in RunLoops : j < i /\ stack[j].quit /\ \A k \in RunLoops : k <= j \/ k >= i

\* Mutant: task_execution_allowed is not cleared on the way out.
RunReturnsAllowed ==
    /\ At("Run", "Top") \/ At("Run", "Worked") \/ At("Run", "Wait")
    /\ Top.quit
    /\ Return
    /\ quit_pending' = QuitWasDeferred(Len(stack))
    /\ quit_runloop_after' = Top.saved
    /\ UNCHANGED <<dedupVars, task_execution_allowed, next_delayed_do_work, suspended,
                   pc, sourceVars, pumpVars, now, budget>>

\* The pump leaves its loop and Run() restores what it had changed.
RunReturns ==
    /\ At("Run", "Top") \/ At("Run", "Worked") \/ At("Run", "Wait")
    /\ Top.quit
    /\ Return
    /\ quit_pending' = QuitWasDeferred(Len(stack))
    /\ quit_runloop_after' = Top.saved
    /\ task_execution_allowed' = (task_execution_allowed /\ ~Top.flip)
    /\ UNCHANGED <<dedupVars, next_delayed_do_work, suspended, pc, sourceVars, pumpVars,
                   now, budget>>

\* Run(), from app code.
Run(application_tasks_allowed, when_idle, timeout) ==
    /\ InAppCode
    /\ is_bound
    /\ timeout > now
    /\ Spend
    /\ Call([Frame("Run", "Top") EXCEPT
                 !.flip = application_tasks_allowed /\ ~task_execution_allowed,
                 !.idle = when_idle, !.saved = quit_runloop_after], "Body")
    /\ quit_runloop_after' = timeout
    /\ quit_pending' = FALSE
    /\ task_execution_allowed' = (task_execution_allowed \/ application_tasks_allowed)
    /\ UNCHANGED <<dedupVars, next_delayed_do_work, suspended, pc, sourceVars, pumpVars,
                   now>>

\* Mutant: the batch of work is not interrupted.
QuitLetsBatchGoOn(i) ==
    /\ InAppCode
    /\ i \in RunLoops
    /\ ~stack[i].quit
    /\ Spend
    /\ quit_pending' = quit_pending
    /\ stack' = [stack EXCEPT ![i].quit = TRUE]
    /\ UNCHANGED <<dedupVars, task_execution_allowed, quit_runloop_after,
                   next_delayed_do_work, suspended, pc, sourceVars, pumpVars, now>>

\* App code quits a run loop: Quit() for the innermost one, while RunLoop defers it for
\* the others.
Quit(i) ==
    /\ InAppCode
    /\ i \in RunLoops
    /\ ~stack[i].quit
    /\ Spend
    /\ quit_pending' = (quit_pending \/ i = RunState)
    /\ stack' = [stack EXCEPT ![i].quit = TRUE]
    /\ UNCHANGED <<dedupVars, task_execution_allowed, quit_runloop_after,
                   next_delayed_do_work, suspended, pc, sourceVars, pumpVars, now>>

-----------------------------------------------------------------------------
\* App code enters a native loop, having called SetTaskExecutionAllowed(true) if it is
\* a task that wants others to run meanwhile.
EnterNativeLoop(allow) ==
    /\ InAppCode
    /\ is_bound
    /\ allow => ~task_execution_allowed
    /\ Spend
    /\ Call([Frame("Native", "Body") EXCEPT !.flip = allow], "Body")
    /\ task_execution_allowed' = (task_execution_allowed \/ allow)
    /\ pending' = (pending \/ allow)
    /\ requested' = (requested \/ allow)
    /\ UNCHANGED <<is_bound, in_do_work, loopVars, next_delayed_do_work, suspended, pc,
                   sourceVars, due, now>>

\* The user closes it; SetTaskExecutionAllowed(false).
NativeLoopReturns ==
    /\ At("Native", "Body")
    /\ Return
    /\ IF Top.flip
       THEN task_execution_allowed' = FALSE /\ pending' = FALSE /\ in_do_work' = TRUE
       ELSE UNCHANGED <<task_execution_allowed, pending, in_do_work>>
    /\ UNCHANGED <<is_bound, loopVars, next_delayed_do_work, suspended, pc, sourceVars,
                   pumpVars, now, budget>>

\* A native message is dispatched to app code.
NativeMessage ==
    /\ \/ At("Run", "Top") /\ ~Top.quit /\ Call(Frame("Handler", "Body"), "Top")
       \/ At("Native", "Body") /\ Call(Frame("Handler", "Body"), "Body")
    /\ Spend
    /\ UNCHANGED <<dedupVars, task_execution_allowed, loopVars, next_delayed_do_work,
                   suspended, pc, sourceVars, pumpVars, now>>

HandlerReturns ==
    /\ At("Handler", "Body")
    /\ Return
    /\ UNCHANGED <<dedupVars, task_execution_allowed, loopVars, next_delayed_do_work,
                   suspended, pc, sourceVars, pumpVars, now, budget>>

\* The pump is woken by a native message.
SpuriousWakeUp ==
    /\ At("Run", "Wait")
    /\ ~Top.quit
    /\ Spend
    /\ Goto("Top")
    /\ UNCHANGED <<dedupVars, task_execution_allowed, loopVars, next_delayed_do_work,
                   suspended, pc, sourceVars, pumpVars, now>>

\* The task that executes is a notification of the power monitor.
PowerStateChange ==
    /\ At("Task", "Body")
    /\ Spend
    /\ suspended' = ~suspended
    /\ UNCHANGED <<dedupVars, task_execution_allowed, loopVars, next_delayed_do_work,
                   stack, pc, sourceVars, pumpVars, now>>

Tick ==
    /\ now < MaxTime
    /\ now' = now + 1
    /\ UNCHANGED <<dedupVars, task_execution_allowed, loopVars, next_delayed_do_work,
                   suspended, stack, pc, sourceVars, pumpVars, budget>>

-----------------------------------------------------------------------------
PostStep(t) == RequestWork(t) \/ PumpScheduleWork(t)

\* Steps of the controller and its pump, and the return of app code.
BoundStep ==
    \/ PumpCallsDoWork \/ DoWorkStart \/ BatchEnds \/ GetWakeUp \/ DoWorkReturns
    \/ PumpGoesOn \/ DoIdleWork \/ PumpWaits \/ RunReturns
    \/ TaskReturns \/ HandlerReturns
    \/ \E k \in Tasks : RunTask(k)

AppStep ==
    \/ BindToCurrentThread \/ NativeLoopReturns \/ PowerStateChange
    \/ \E i \in RunLoops : Quit(i)
    \/ \E k \in Tasks, t \in 1..MaxTime : PostDelayedTask(k, t)
    \/ \E b, i \in BOOLEAN, t \in 1..Never : Run(b, i, t)
    \/ \E b \in BOOLEAN : EnterNativeLoop(b)

Next ==
    \/ BoundStep \/ AppStep \/ PumpTimerFires
    \/ \E t \in Callers : PostStep(t) \/ \E k \in Tasks : PostTask(t, k)
    \/ NativeMessage \/ SpuriousWakeUp \/ Tick

Spec == Init /\ [][Next]_vars

\* The system runs every thread and the clock; app code returns.  Nobody has to post,
\* to close a native loop, or to dispatch a native message.
Fairness ==
    /\ WF_vars(BoundStep)
    /\ \A t \in Callers : WF_vars(PostStep(t))
    /\ WF_vars(Tick)

FairSpec == Spec /\ Fairness

-----------------------------------------------------------------------------
TypeOK ==
    /\ is_bound \in BOOLEAN /\ pending \in BOOLEAN /\ in_do_work \in BOOLEAN
    /\ task_execution_allowed \in BOOLEAN
    /\ quit_pending \in BOOLEAN
    /\ quit_runloop_after \in RunTimes
    /\ next_delayed_do_work \in RunTimes
    /\ suspended \in BOOLEAN
    /\ stack \in Seq(Frames) \ {<<>>}
    /\ pc \in [Callers -> {"Idle", "Request", "Pump"}]
    /\ state \in [Tasks -> {"New", "Incoming", "Ready", "Delayed", "Ripe", "Done"}]
    /\ wake \in [Tasks -> RunTimes]
    /\ requested \in BOOLEAN
    /\ due \in RunTimes
    /\ now \in 0..MaxTime
    /\ budget \in 0..Budget

\* A task runs inside another one only if that one entered a loop that explicitly
\* allowed it ("assume the worst: it is probably not reentrant").
TasksDoNotReenter ==
    \A i, j \in DOMAIN stack :
        i < j /\ stack[i].fn = "Task" /\ stack[j].fn = "Task" =>
            \E m \in i..j : stack[m].flip

\* Outside of tasks, tasks are allowed, however loops and tasks were nested before.
AllowedOutsideTasks ==
    task_execution_allowed \/ \E i \in DOMAIN stack : stack[i].fn = "Task"

\* The permission to run tasks is given and taken where it should be, in states of their type.
PermissionIsRight == TypeOK /\ TasksDoNotReenter /\ AllowedOutsideTasks

\* The loop does not go to sleep on a task: somebody is about to wake the pump for a
\* posted one, and the pump's delay is no later than the earliest delayed one.
SleepsOnNothing ==
    At("Run", "Wait") /\ ~Top.quit /\ task_execution_allowed /\ ~requested
    /\ (\A t \in Callers : pc[t] = "Idle") =>
        /\ In("Incoming") \cup In("Ready") = {}
        /\ suspended \/ \A k \in In("Delayed") : due <= wake[k]
        /\ suspended \/ In("Ripe") = {}

\* "When Quit() is called we must stop running the batch": no further task of the batch
\* runs once its run loop was told to quit, and no nested Run(), which resets
\* quit_pending, makes the controller forget it.
BatchStopsOnQuit ==
    [][\A k \in Tasks : Top.n > 0 /\ RunTask(k) => ~stack[RunState].quit]_vars

\* The thread sits in a loop that may not run tasks, or in none.
Blocked ==
    \/ RunLoops = {}
    \/ Top.fn \in {"Run", "DoWork", "Native"} /\ ~task_execution_allowed
    \/ quit_pending

InNativeLoop == \E i \in DOMAIN stack : stack[i].fn = "Native"

\* Every task that any thread posts runs, unless a loop is entered that may not run it,
\* whatever the other threads, nested loops and the power monitor do.
PostedTasksRun ==
    \A k \in Tasks : state[k] \in {"Incoming", "Ready"} ~> state[k] = "Done" \/ Blocked

\* So does every delayed task once its time has come (native loops serve no delays).
DelayedTasksRun ==
    \A k \in Tasks :
        state[k] \in {"Delayed", "Ripe"} /\ wake[k] <= now ~>
            state[k] = "Done" \/ Blocked \/ suspended \/ InNativeLoop

\* Every task runs, posted or delayed.
TasksRun == PostedTasksRun /\ DelayedTasksRun

-----------------------------------------------------------------------------
(* What a comment of the code promises and it does not keep. *)

\* thread_controller_with_message_pump_impl.cc:565: "Check if any runloop timeout has
\* expired": a Run() with a timeout returns when that is over.
TimedOut == RunLoops # {} /\ Top.fn = "Run" /\ quit_runloop_after <= now
TimeoutIsHonoured == TimedOut ~> ~TimedOut
=============================================================================
