-------------------------- MODULE MessagePumpForIO --------------------------
(***************************************************************************)
(* base::MessagePumpForIO: the pump of a thread that waits on an I/O        *)
(* completion port.  Its wake-up message is a dummy completion item.  It    *)
(* does not nest.                                                          *)
(***************************************************************************)
EXTENDS Naturals, Sequences

CONSTANTS
    Threads,       \* the threads, other than bound_thread_, that call ScheduleWork
    Bound,         \* bound_thread_
    Operations,    \* asynchronous I/O operations registered handlers may start
    PortCapacity,  \* completion items the port has room for
    MaxTime,       \* bound: the clock stops here
    Budget         \* bound: callouts of app code and requests of other threads

ASSUME ThreadAssumption == Bound \notin Threads
ASSUME CapacityAssumption == PortCapacity \in Nat \ {0}
ASSUME BoundAssumption == MaxTime \in Nat /\ Budget \in Nat
ASSUME OperationAssumption == "Internal" \notin Operations

VARIABLES
    work_scheduled,  \* std::atomic_bool work_scheduled_
    should_quit,     \* run_state_->should_quit
    at,              \* where the bound thread is in DoRunLoop()
    after,           \* where it goes on once WaitForIOCompletion() returns
    more,            \* more_work_is_plausible
    info,            \* delayed_run_time the latest DoWork() returned
    pc,              \* where each thread is in ScheduleWork()
    port,            \* items queued at the completion port, in order
    operation,       \* the state of each I/O operation
    now,             \* TimeTicks::Now()
    requested,       \* history: ScheduleWork() called since DoWork() began
    due,             \* history: when the delegate wants its next DoWork()
    post_failed,     \* history: PostQueuedCompletionStatus() has failed
    budget           \* inputs and callouts left

loopVars == <<should_quit, at, after, more, info>>
histVars == <<requested, due, post_failed>>
ioPumpVars == <<work_scheduled, loopVars, pc, port, operation, now, histVars, budget>>

Immediate == 0
Never     == MaxTime + 1
RunTimes  == Immediate..Never
Callers   == Threads \cup {Bound}

Running == at # "Out"

IOPumpInit ==
    /\ work_scheduled = FALSE
    /\ should_quit = FALSE
    /\ at = "Out"
    /\ after = "Polled"
    /\ more = FALSE
    /\ info = Never
    /\ pc = [t \in Callers |-> "Idle"]
    /\ port = <<>>
    /\ operation = [o \in Operations |-> "Idle"]
    /\ now = 0
    /\ requested = FALSE
    /\ due = Never
    /\ post_failed = FALSE
    /\ budget = Budget

Spend == budget > 0 /\ budget' = budget - 1

\* The bound thread executes its loop at label l, not a ScheduleWork() it called.
At(l) == at = l /\ pc[Bound] = "Idle"

InAppCode == At("DoWork") \/ At("Handler")

-----------------------------------------------------------------------------
\* Mutant: the flag is set with a plain store, its old value is not looked at.
ScheduleWorkStore(t) ==
    /\ pc[t] = "Idle"
    /\ t = Bound => InAppCode
    /\ Spend
    /\ requested' = TRUE
    /\ work_scheduled' = TRUE
    /\ pc' = [pc EXCEPT ![t] = "Post"]
    /\ UNCHANGED <<loopVars, port, operation, now, due,
                   post_failed>>

\* ScheduleWork(), on any thread; on the bound thread, from app code.
ScheduleWork(t) ==
    /\ pc[t] = "Idle"
    /\ t = Bound => InAppCode
    /\ Spend
    /\ requested' = TRUE
    /\ work_scheduled' = TRUE
    /\ pc' = [pc EXCEPT ![t] = IF work_scheduled THEN "Idle" ELSE "Post"]
    /\ UNCHANGED <<loopVars, port, operation, now, due,
                   post_failed>>

\* PostQueuedCompletionStatus()
Post(t) ==
    /\ pc[t] = "Post"
    /\ IF Len(port) < PortCapacity
       THEN /\ port' = Append(port, "Internal")
            /\ pc' = [pc EXCEPT ![t] = "Idle"]
            /\ UNCHANGED post_failed
       ELSE /\ pc' = [pc EXCEPT ![t] = "Failed"]
            /\ post_failed' = TRUE
            /\ UNCHANGED port
    /\ UNCHANGED <<work_scheduled, loopVars, operation, now, requested, due, budget>>

PostFailed(t) ==
    /\ pc[t] = "Failed"
    /\ work_scheduled' = FALSE
    /\ pc' = [pc EXCEPT ![t] = "Idle"]
    /\ UNCHANGED <<loopVars, port, operation, now, histVars, budget>>

-----------------------------------------------------------------------------
Run ==
    /\ At("Out")
    /\ Spend
    /\ should_quit' = FALSE
    /\ at' = "Top"
    /\ UNCHANGED <<work_scheduled, after, more, info, pc, port, operation, now,
                   histVars>>

\* Each pass of DoRunLoop() begins with DoWork(), whatever the pass before ended with.
BeginDoWork ==
    /\ At("Top")
    /\ at' = "DoWork"
    /\ requested' = FALSE
    /\ due' = Never
    /\ UNCHANGED <<work_scheduled, should_quit, after, more, info, pc, port, operation,
                   now, post_failed, budget>>

\* DoWork() returns: more work at once, at a later time, or none.
DoWorkReturn(n) ==
    /\ At("DoWork")
    /\ n = Immediate \/ n > now
    /\ IF n = Immediate THEN Spend ELSE UNCHANGED budget
    /\ info' = n
    /\ due' = n
    /\ more' = (n = Immediate)
    /\ at' = "Worked"
    /\ UNCHANGED <<work_scheduled, should_quit, after, pc, port, operation, now,
                   requested, post_failed>>

Worked ==
    /\ At("Worked")
    /\ at' = IF should_quit THEN "Out" ELSE "Poll"
    /\ UNCHANGED <<work_scheduled, should_quit, after, more, info, pc, port, operation,
                   now, histVars, budget>>

\* Mutant: an operation that completed with an error counts as an empty queue.
GetIOItemDropsErrors(l) ==
    /\ port # <<>>
    /\ port' = Tail(port)
    /\ after' = l
    /\ IF Head(port) = "Internal"
       THEN at' = "Internal" /\ more' = TRUE /\ UNCHANGED operation
       ELSE \/ at' = l /\ UNCHANGED <<more, operation>>
            \/ /\ at' = "Handler"
               /\ more' = TRUE
               /\ operation' = [operation EXCEPT ![Head(port)] = "Handled"]
    /\ UNCHANGED <<work_scheduled, should_quit, info, pc, now, histVars, budget>>

(***************************************************************************)
(* WaitForIOCompletion() takes one item of the port.  The caller goes on   *)
(* at l.                                                                   *)
(***************************************************************************)
GetIOItem(l) ==
    /\ port # <<>>
    /\ port' = Tail(port)
    /\ after' = l
    /\ more' = TRUE
    /\ IF Head(port) = "Internal"
       THEN at' = "Internal" /\ UNCHANGED operation
       ELSE at' = "Handler" /\ operation' = [operation EXCEPT ![Head(port)] = "Handled"]
    /\ UNCHANGED <<work_scheduled, should_quit, info, pc, now, histVars, budget>>

\* Mutant: the flag stays set.
InternalItemKeepsFlag ==
    /\ At("Internal")
    /\ at' = after
    /\ UNCHANGED <<work_scheduled, should_quit, after, more, info, pc, port, operation,
                   now, histVars, budget>>

\* ProcessInternalIOItem(): our own item clears the flag.
InternalItem ==
    /\ At("Internal")
    /\ work_scheduled' = FALSE
    /\ at' = after
    /\ UNCHANGED <<should_quit, after, more, info, pc, port, operation, now, histVars,
                   budget>>

\* WaitForIOCompletion(0)
Poll ==
    /\ At("Poll")
    /\ \/ GetIOItem("Polled")
       \/ /\ port = <<>>
          /\ at' = "Polled"
          /\ UNCHANGED <<work_scheduled, should_quit, after, more, info, pc, port,
                         operation, now, histVars, budget>>

Polled ==
    /\ At("Polled")
    /\ at' = IF should_quit THEN "Out" ELSE IF more THEN "Top" ELSE "Idle"
    /\ UNCHANGED <<work_scheduled, should_quit, after, more, info, pc, port, operation,
                   now, histVars, budget>>

\* DoIdleWork(), which may ask for work (OnSystemIdle), report idle work, or quit.
Idle ==
    /\ At("Idle")
    /\ \/ /\ at' = "Wait"
          /\ UNCHANGED <<work_scheduled, requested, pc, budget>>
       \/ /\ Spend
          /\ at' = "Wait"
          /\ requested' = TRUE
          /\ work_scheduled' = TRUE
          /\ pc' = [pc EXCEPT ![Bound] = IF work_scheduled THEN "Idle" ELSE "Post"]
       \/ /\ Spend
          /\ at' \in {"Top", "Out"}
          /\ UNCHANGED <<work_scheduled, requested, pc>>
    /\ UNCHANGED <<should_quit, after, more, info, port, operation, now, due,
                   post_failed>>

\* WaitForWork(): an item, or the delay; should_quit is not looked at on the way back
\* to DoWork().
Wait ==
    /\ At("Wait")
    /\ \/ GetIOItem("Top")
       \/ /\ port = <<>>
          /\ info <= now
          /\ at' = "Top"
          /\ UNCHANGED <<work_scheduled, should_quit, after, more, info, pc, port,
                         operation, now, histVars, budget>>

-----------------------------------------------------------------------------
\* App code on the bound thread.
Quit ==
    /\ InAppCode
    /\ ~should_quit
    /\ Spend
    /\ should_quit' = TRUE
    /\ UNCHANGED <<work_scheduled, at, after, more, info, pc, port, operation, now,
                   histVars>>

StartOperation(o) ==
    /\ InAppCode
    /\ operation[o] = "Idle"
    /\ operation' = [operation EXCEPT ![o] = "Pending"]
    /\ UNCHANGED <<work_scheduled, loopVars, pc, port, now, histVars, budget>>

\* OnIOCompleted() returns.
HandlerReturn ==
    /\ At("Handler")
    /\ at' = after
    /\ UNCHANGED <<work_scheduled, should_quit, after, more, info, pc, port, operation,
                   now, histVars, budget>>

\* The system completes an operation; room for its item was reserved.
Complete(o) ==
    /\ operation[o] = "Pending"
    /\ operation' = [operation EXCEPT ![o] = "Completed"]
    /\ port' = Append(port, o)
    /\ UNCHANGED <<work_scheduled, loopVars, pc, now, histVars, budget>>

Tick ==
    /\ now < MaxTime
    /\ now' = now + 1
    /\ UNCHANGED <<work_scheduled, loopVars, pc, port, operation, histVars, budget>>

-----------------------------------------------------------------------------
BoundStep ==
    \/ BeginDoWork \/ Worked \/ Poll \/ InternalItem \/ HandlerReturn
    \/ Polled \/ Idle \/ Wait
    \/ \E n \in RunTimes : DoWorkReturn(n)

ThreadStep(t) == Post(t) \/ PostFailed(t)

IOPumpNext ==
    \/ Run \/ Quit \/ BoundStep \/ Tick
    \/ \E t \in Callers : ScheduleWork(t) \/ ThreadStep(t)
    \/ \E o \in Operations : StartOperation(o) \/ Complete(o)

IOPumpSpec == IOPumpInit /\ [][IOPumpNext]_ioPumpVars

\* The system runs every thread and the clock; app code returns.
Fairness ==
    /\ WF_ioPumpVars(BoundStep)
    /\ \A t \in Callers : WF_ioPumpVars(ThreadStep(t))
    /\ WF_ioPumpVars(Tick)

FairIOPumpSpec == IOPumpSpec /\ Fairness

-----------------------------------------------------------------------------
IOPumpTypeOK ==
    /\ work_scheduled \in BOOLEAN
    /\ should_quit \in BOOLEAN
    /\ at \in {"Out", "DoWork", "Worked", "Poll", "Internal", "Handler", "Polled",
               "Idle", "Wait", "Top"}
    /\ after \in {"Polled", "Top"}
    /\ more \in BOOLEAN
    /\ info \in RunTimes
    /\ pc \in [Callers -> {"Idle", "Post", "Failed"}]
    /\ port \in Seq(Operations \cup {"Internal"})
    /\ operation \in [Operations -> {"Idle", "Pending", "Completed", "Handled"}]
    /\ now \in 0..MaxTime
    /\ requested \in BOOLEAN
    /\ due \in RunTimes
    /\ post_failed \in BOOLEAN
    /\ budget \in 0..Budget

InQueue  == {i \in DOMAIN port : port[i] = "Internal"}
InThread == {t \in Callers : pc[t] # "Idle"}

\* work_scheduled_ is set exactly while one dummy item is queued, about to be queued
\* or just taken (message_pump_win.h:95), so that no ScheduleWork() is swallowed and
\* no second item is queued.
SingleWorkToken ==
    /\ \A i, j \in InQueue : i = j
    /\ \A t, u \in InThread : t = u
    /\ InQueue # {} => InThread = {} /\ at # "Internal"
    /\ InThread # {} => at # "Internal"
    /\ work_scheduled <=> InQueue # {} \/ InThread # {} \/ at = "Internal"

\* A completed operation has exactly one item in the port until its handler is called,
\* and no other operation has any: OnIOCompleted() is called once for each.
CompletionsAreQueuedOnce ==
    \A o \in Operations :
        LET items == {i \in DOMAIN port : port[i] = o}
        IN  IF operation[o] = "Completed"
            THEN \E i \in items : items = {i}
            ELSE items = {}

\* The port, the flag and the operations agree: no wake-up and no completion is lost or doubled.
PortIsConsistent == IOPumpTypeOK /\ SingleWorkToken /\ CompletionsAreQueuedOnce

Contract == INSTANCE PumpContract WITH running <- Running

\* Every step is one the contract of message_pump.h allows: no DoWork() outside of
\* Run(), no request forgotten but by a DoWork() that begins after it.
ImplementsContract == Contract!Safe

\* The rest of the contract: every ScheduleWork() and every delay is followed by its
\* DoWork() as long as the port takes our items.  (After a failed post the flag is set
\* until PostFailed, and the ScheduleWork() of another thread is swallowed.)
ContractIsServed == []~post_failed => Contract!Served /\ Contract!OnTime

\* The whole contract of message_pump.h, its safety and its liveness.
ServesContract == ImplementsContract /\ ContractIsServed

\* OnIOCompleted() of every operation that completes is called, however many wake-ups
\* are in the port, as long as the thread runs.
CompletionsAreHandled ==
    \A o \in Operations :
        operation[o] = "Completed" ~> operation[o] = "Handled" \/ ~Running

\* A run loop that was told to quit returns.
QuitIsHonoured == should_quit /\ Running ~> ~Running

\* The loop starves nothing: neither the handlers of completed operations nor Quit().
LoopMakesProgress == CompletionsAreHandled /\ QuitIsHonoured
=============================================================================
