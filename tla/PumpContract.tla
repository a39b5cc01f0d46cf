---------------------------- MODULE PumpContract ----------------------------
(***************************************************************************)
(* What base::MessagePump promises its Delegate (message_pump.h): the       *)
(* abstract specification that MessagePumpForUI and MessagePumpForIO        *)
(* implement and that ThreadController relies on.  A request is open until  *)
(* a DoWork() begins after it.                                             *)
(***************************************************************************)
EXTENDS Naturals

CONSTANT MaxTime  \* bound, a natural number: the clock stops here

VARIABLES
    running,    \* the thread is in Run()
    requested,  \* ScheduleWork() was called since the latest DoWork() began
    due,        \* delayed_run_time the delegate asked for last
    now

vars == <<running, requested, due, now>>

Immediate == 0
Never     == MaxTime + 1

Init == ~running /\ ~requested /\ due = Never /\ now = 0

\* Run() is entered or left.
EnterOrLeave == running' \in BOOLEAN /\ UNCHANGED <<requested, due, now>>

\* ScheduleWork(), on any thread.
ScheduleWork == requested' = TRUE /\ UNCHANGED <<running, due, now>>

\* ScheduleDelayedWork(t), on the thread of the pump, replaces what was asked before.
ScheduleDelayedWork(t) ==
    /\ t > now
    /\ due' = t
    /\ UNCHANGED <<running, requested, now>>

\* The pump calls DoWork(), in Run() and never outside of it.
DoWork ==
    /\ running
    /\ requested' = FALSE
    /\ due' = Never
    /\ UNCHANGED <<running, now>>

\* DoWork() returns a NextWorkInfo; its time may have come meanwhile.
DoWorkReturn(n) ==
    /\ running
    /\ due' = n
    /\ UNCHANGED <<running, requested, now>>

Tick ==
    /\ now < MaxTime
    /\ now' = now + 1
    /\ UNCHANGED <<running, requested, due>>

Next ==
    \/ EnterOrLeave \/ ScheduleWork \/ DoWork \/ Tick
    \/ \E t \in 1..Never : ScheduleDelayedWork(t)
    \/ \E n \in 0..Never : DoWorkReturn(n)

\* "DoWork() must be invoked at |NextWorkInfo::delayed_run_time| or when
\* ScheduleWork() is invoked, whichever comes first."
Served == requested ~> ~requested \/ ~running
OnTime == due <= now ~> due > now \/ ~running

Safe == Init /\ [][Next]_vars
Spec == Safe /\ Served /\ OnTime
=============================================================================
