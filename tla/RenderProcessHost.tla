--------------------------- MODULE RenderProcessHost ---------------------------
(***************************************************************************)
(* One RenderProcessHostImpl: the browser's handle on a renderer process.   *)
(* It launches the process, connects a channel to it, tells its observers  *)
(* of the process's death, may be initialised again for another process,   *)
(* and deletes itself when no listener and no count refers to it.          *)
(*                                                                         *)
(* All of it runs on the UI thread.  What is hard is that launch results,  *)
(* channel events and delayed tasks come in any order, and that observers  *)
(* call back into the host in the middle of ProcessDied().                 *)
(***************************************************************************)
EXTENDS Naturals, Sequences, FiniteSets

CONSTANTS
    Frames,     \* the routes of RenderFrameHosts
    Guests,     \* those of an inner WebContents, which keep the process
    Views,      \* the routes of other listeners
    Observers,  \* the RenderProcessHostObservers, SpareManager aside
    Group,      \* the observer that tells a frame of its process's death
    SpareManager,
    AllowExit,  \* ShouldAllowNoLongerUsedProcessToExit()
    Budget      \* bound: calls of clients and surprises of the environment

ASSUME RouteAssumption == Guests \subseteq Frames /\ Frames \cap Views = {}
ASSUME ObserverAssumption == /\ SpareManager \notin Observers
                             /\ Group \in [Frames -> Observers]
ASSUME BoundAssumption == AllowExit \in BOOLEAN /\ Budget \in Nat

VARIABLES
    is_initialized, is_dead,
    launcher,               \* child_process_launcher_
    channel,                \* channel_
    invitation,             \* mojo_invitation_: held, or moved to the launcher
    channel_connected,
    sent_render_process_ready,
    fast_shutdown_started,
    deleting_soon,
    within_process_died_observer,
    delayed_cleanup_needed,
    keep_alive_ref_count, worker_ref_count, shutdown_delay_ref_count,
    are_ref_counts_disabled,
    shutdown_delays,        \* posted CancelProcessShutdownDelay() with a valid WeakPtr
    listeners,
    registered,             \* render_frame_host_id_set_
    created,                \* the frames with is_render_frame_created()
    destructing,            \* the nested destructors of frames, before their RemoveRoute()
    interrupted,            \* those that called the Cleanup() whose ProcessDied() now runs
    spare,                  \* SpareManager holds this host and observes it
    stack,                  \* call stack of the UI thread, innermost last
    inits,                  \* history: processes this host was initialised for
    exits,                  \* history: RenderProcessExited() each observer was sent
    destroyed,              \* history: RenderProcessHostDestroyed() each was sent
    referenced,             \* history: some client has referred to this host
    budget

processVars == <<is_initialized, is_dead, launcher>>
channelVars == <<channel, invitation, channel_connected, sent_render_process_ready>>
countVars   == <<keep_alive_ref_count, worker_ref_count, shutdown_delay_ref_count,
                 are_ref_counts_disabled>>
destructors == <<registered, destructing, interrupted>>
frameVars   == <<created, destructors>>
endVars     == <<fast_shutdown_started, deleting_soon, within_process_died_observer,
                 delayed_cleanup_needed>>
historyVars == <<inits, exits, destroyed, referenced>>
vars == <<processVars, channelVars, countVars, shutdown_delays, listeners, frameVars,
          endVars, spare, stack, historyVars, budget>>

Routes    == Frames \cup Views
Watchers  == Observers \cup {SpareManager}

\* todo: the observers an ObserverList iteration has still to reach.
Activations == [fn : {"Cleanup", "ProcessDied"},
                at : {"Start", "Exited", "Called", "Destroyed"},
                todo : SUBSET Watchers]

Frame(fn) == [fn |-> fn, at |-> "Start", todo |-> {}]
Top       == stack[Len(stack)]
Call(fn)  == stack' = Append(stack, Frame(fn))
Return    == stack' = SubSeq(stack, 1, Len(stack) - 1)
Become(f) == stack' = [stack EXCEPT ![Len(stack)] = f]

\* The running activation, further on, with the observers it has still to reach.
Further(at, todo) == [fn |-> Top.fn, at |-> at, todo |-> todo]
BecomeAndCall(f, fn) == stack' = Append([stack EXCEPT ![Len(stack)] = f], Frame(fn))
Goto(at, todo)       == Become(Further(at, todo))

Running(fn, at) == stack # <<>> /\ Top.fn = fn /\ Top.at = at

\* A task of the UI thread may start.
Idle == stack = <<>> /\ destructing = <<>>

\* Client code runs: a task of its own, or an observer's RenderProcessExited().
ClientRuns == IF stack = <<>> THEN TRUE ELSE Top.at = "Called"

\* Clients reach the host through the registry, or by the reference they hold.  A frame's
\* destructor lets others leave: child frames, proxies, what its document keeps alive.
MayLeave == ClientRuns /\ ~deleting_soon /\ ~spare
MayUse   == MayLeave /\ destructing = <<>>

Spend == budget > 0 /\ budget' = budget - 1

-----------------------------------------------------------------------------
IsInitializedAndNotDead == is_initialized /\ ~is_dead

\* GetProcess() is the "no process" sentinel while the launcher is starting.
IsReady == launcher = "Running" /\ channel_connected

AreAllRefCountsZero ==
    keep_alive_ref_count = 0 /\ worker_ref_count = 0 /\ shutdown_delay_ref_count = 0

IsRenderFrameLive(f) == IsInitializedAndNotDead /\ f \in created

\* FromID() does not find a frame host whose destructor has begun.
NotFound == {destructing[i] : i \in DOMAIN destructing}
            \cup {interrupted[i] : i \in DOMAIN interrupted}

\* The destructor that runs; it leaves the set of ids before it removes its route.
Innermost     == destructing[Len(destructing)]
HasUnregistered == destructing # <<>> /\ Innermost \notin registered

\* Mutant: frame hosts in their destructor are forgotten.
OnlyFoundFramesCount ==
    /\ registered # {}
    /\ \A f \in registered \ NotFound : ~IsRenderFrameLive(f) /\ f \notin Guests

HasOnlyNonLiveRenderFrameHosts ==
    /\ registered # {}
    /\ \A f \in registered : ~IsRenderFrameLive(f) /\ f \notin Guests
    /\ registered \cap NotFound = {}

MayExit == AllowExit /\ HasOnlyNonLiveRenderFrameHosts

\* The chain of early returns of Cleanup().
\* Mutant: workers do not keep the host.
IsOwnedButByWorkers ==
    \/ listeners # {} /\ ~MayExit
    \/ keep_alive_ref_count # 0
    \/ shutdown_delay_ref_count # 0

IsOwned == (listeners # {} /\ ~MayExit) \/ ~AreAllRefCountsZero

WatchersNow == Observers \cup (IF spare THEN {SpareManager} ELSE {})

\* An observer that was removed is not reached.
LeftToTell == IF spare THEN Top.todo ELSE Top.todo \ {SpareManager}

-----------------------------------------------------------------------------
Init ==
    /\ is_initialized = FALSE /\ is_dead = FALSE
    /\ launcher = "None"
    /\ channel = "Paused" /\ invitation = "Held"
    /\ channel_connected = FALSE /\ sent_render_process_ready = FALSE
    /\ fast_shutdown_started = FALSE /\ deleting_soon = FALSE
    /\ within_process_died_observer = FALSE /\ delayed_cleanup_needed = FALSE
    /\ keep_alive_ref_count = 0 /\ worker_ref_count = 0 /\ shutdown_delay_ref_count = 0
    /\ are_ref_counts_disabled = FALSE
    /\ shutdown_delays = 0
    /\ listeners = {} /\ registered = {} /\ created = {}
    /\ destructing = <<>> /\ interrupted = <<>>
    /\ spare = FALSE
    /\ stack = <<>>
    /\ inits = 0
    /\ exits = [o \in Observers |-> 0] /\ destroyed = [o \in Observers |-> 0]
    /\ referenced = FALSE
    /\ budget = Budget

ConnectedAfterReset == channel_connected /\ channel = "None"

ResetChannelProxy == channel' = "None" /\ channel_connected' = ConnectedAfterReset

InitializeChannelProxy ==
    channel' = "Paused" /\ invitation' = "Held" /\ channel_connected' = ConnectedAfterReset

\* Mutant: the channel an observer's Init() has created is replaced.
EnableSendQueueAgain == InitializeChannelProxy

EnableSendQueue ==
    IF channel = "None" THEN InitializeChannelProxy
    ELSE UNCHANGED <<channel, invitation, channel_connected>>

\* Invalidates the WeakPtrs of the posted shutdown delays as well.
ResetIPC == ResetChannelProxy /\ shutdown_delays' = 0 /\ UNCHANGED invitation

\* RenderProcessHostImpl::Init().  The launch is asynchronous.
Launch ==
    /\ is_initialized' = TRUE /\ is_dead' = FALSE
    /\ sent_render_process_ready' = FALSE
    /\ launcher' = "Starting"
    /\ channel' = "Paused" /\ invitation' = "Moved" /\ UNCHANGED channel_connected
    /\ fast_shutdown_started' = FALSE
    /\ inits' = inits + 1

InitHost ==
    /\ MayUse /\ ~IsInitializedAndNotDead
    /\ Spend
    /\ Launch
    /\ UNCHANGED <<countVars, shutdown_delays, listeners, frameVars, deleting_soon,
                   within_process_died_observer, delayed_cleanup_needed, spare, stack,
                   exits, destroyed, referenced>>

OnProcessLaunched ==
    /\ Idle /\ launcher = "Starting"
    /\ launcher' = "Running"
    /\ IF deleting_soon
       THEN UNCHANGED <<channel, sent_render_process_ready>>
       ELSE /\ channel' = "Open"
            /\ sent_render_process_ready' = (sent_render_process_ready \/ channel_connected)
    /\ UNCHANGED <<is_initialized, is_dead, invitation, channel_connected, countVars,
                   shutdown_delays, listeners, frameVars, endVars, spare, stack,
                   historyVars, budget>>

\* Mutant: a launch failure kills a host that is being deleted.
LaunchFailedAlwaysKills ==
    /\ Idle /\ launcher = "Starting"
    /\ Spend
    /\ launcher' = "Failed"
    /\ Call("ProcessDied")
    /\ UNCHANGED <<is_initialized, is_dead, channelVars, countVars, shutdown_delays,
                   listeners, frameVars, endVars, spare, historyVars>>

OnProcessLaunchFailed ==
    /\ Idle /\ launcher = "Starting"
    /\ Spend
    /\ launcher' = "Failed"
    /\ IF deleting_soon THEN UNCHANGED stack ELSE Call("ProcessDied")
    /\ UNCHANGED <<is_initialized, is_dead, channelVars, countVars, shutdown_delays,
                   listeners, frameVars, endVars, spare, historyVars>>

\* The process has started, whether or not the browser has seen the launch result.
ChannelInUse == channel # "None" /\ invitation = "Moved"

OnChannelConnected ==
    /\ Idle /\ ChannelInUse /\ ~channel_connected
    /\ channel_connected' = TRUE
    /\ sent_render_process_ready' = (sent_render_process_ready \/ launcher = "Running")
    /\ UNCHANGED <<processVars, channel, invitation, countVars, shutdown_delays, listeners,
                   frameVars, endVars, spare, stack, historyVars, budget>>

OnChannelError ==
    /\ Idle /\ ChannelInUse
    /\ Spend
    /\ Call("ProcessDied")
    /\ UNCHANGED <<processVars, channelVars, countVars, shutdown_delays, listeners,
                   frameVars, endVars, spare, historyVars>>

\* Its first guard compares view counts of the caller's; it may refuse for that.
FastShutdownIfPossible ==
    /\ Idle /\ ~deleting_soon
    /\ Spend
    /\ launcher # "None" /\ AreAllRefCountsZero
    /\ fast_shutdown_started' = TRUE
    /\ Call("ProcessDied")
    /\ UNCHANGED <<processVars, channelVars, countVars, shutdown_delays, listeners,
                   frameVars, deleting_soon, within_process_died_observer,
                   delayed_cleanup_needed, spare, historyVars>>

-----------------------------------------------------------------------------
ProcessDiedStart ==
    /\ Running("ProcessDied", "Start")
    /\ launcher' = "None" /\ is_dead' = TRUE
    /\ ResetIPC
    /\ within_process_died_observer' = TRUE
    /\ Goto("Exited", WatchersNow)
    /\ UNCHANGED <<is_initialized, sent_render_process_ready, countVars, listeners,
                   frameVars, fast_shutdown_started, deleting_soon,
                   delayed_cleanup_needed, spare, historyVars, budget>>

\* SpareManager's RenderProcessExited(): CleanupSpareRenderProcessHost() removes it from
\* the observers and calls Cleanup() on the host.
SpareManagerIsTold(back) ==
    /\ SpareManager \in LeftToTell
    /\ spare' = FALSE
    /\ LET told == Further(back, Top.todo \ {SpareManager})
       IN IF are_ref_counts_disabled THEN Become(told) ELSE BecomeAndCall(told, "Cleanup")
    /\ UNCHANGED <<created, exits>>

\* Frame hosts hear of it from their observer and mark their frames as not created.
ObserverIsTold(o, back) ==
    /\ exits' = [exits EXCEPT ![o] = @ + 1]
    /\ created' = {f \in created : Group[f] # o}
    /\ Goto(back, Top.todo \ {o})
    /\ UNCHANGED spare

TellExited(fn, back) ==
    /\ Running(fn, "Exited")
    /\ \/ \E o \in Top.todo \cap Observers : ObserverIsTold(o, back)
       \/ SpareManagerIsTold("Exited")
    /\ UNCHANGED <<processVars, channelVars, countVars, shutdown_delays, listeners,
                   destructors, endVars, inits, destroyed, referenced, budget>>

ProcessDiedTells == TellExited("ProcessDied", "Called")

ObserverReturns ==
    /\ Running("ProcessDied", "Called") /\ destructing = <<>>
    /\ Goto("Exited", Top.todo)
    /\ UNCHANGED <<processVars, channelVars, countVars, shutdown_delays, listeners,
                   frameVars, endVars, spare, historyVars, budget>>

\* Mutant: a cleanup that was delayed is forgotten.
ProcessDiedForgetsCleanup ==
    /\ Running("ProcessDied", "Exited") /\ LeftToTell = {}
    /\ within_process_died_observer' = FALSE
    /\ EnableSendQueue
    /\ Return
    /\ destructing' = interrupted /\ interrupted' = <<>>
    /\ UNCHANGED <<processVars, sent_render_process_ready, countVars, shutdown_delays,
                   listeners, registered, created, fast_shutdown_started, deleting_soon,
                   delayed_cleanup_needed, spare, historyVars, budget>>

ProcessDiedReturns ==
    /\ Running("ProcessDied", "Exited") /\ LeftToTell = {}
    /\ within_process_died_observer' = FALSE
    /\ EnableSendQueue
    /\ IF delayed_cleanup_needed THEN Become(Frame("Cleanup")) ELSE Return
    /\ destructing' = interrupted /\ interrupted' = <<>>
    /\ UNCHANGED <<processVars, sent_render_process_ready, countVars, shutdown_delays,
                   listeners, registered, created, fast_shutdown_started, deleting_soon,
                   delayed_cleanup_needed, spare, historyVars, budget>>

CleanupLater ==
    /\ Running("Cleanup", "Start") /\ within_process_died_observer
    /\ delayed_cleanup_needed' = TRUE
    /\ Return
    /\ UNCHANGED <<processVars, channelVars, countVars, shutdown_delays, listeners,
                   frameVars, fast_shutdown_started, deleting_soon,
                   within_process_died_observer, spare, historyVars, budget>>

\* What the process or the host is still needed for; or the process to end is gone.
CleanupNot ==
    /\ Running("Cleanup", "Start") /\ ~within_process_died_observer
    /\ IsOwned \/ (MayExit /\ ~IsInitializedAndNotDead)
    /\ delayed_cleanup_needed' = FALSE
    /\ Return
    /\ UNCHANGED <<processVars, channelVars, countVars, shutdown_delays, listeners,
                   frameVars, fast_shutdown_started, deleting_soon,
                   within_process_died_observer, spare, historyVars, budget>>

\* Only listeners without live frames remain: the process goes, the host stays.
CleanupEndsProcess ==
    /\ Running("Cleanup", "Start") /\ ~within_process_died_observer
    /\ ~IsOwned /\ MayExit /\ IsInitializedAndNotDead
    /\ delayed_cleanup_needed' = FALSE
    /\ fast_shutdown_started' = TRUE
    /\ Become(Frame("ProcessDied"))
    /\ interrupted' = destructing /\ destructing' = <<>>
    /\ UNCHANGED <<processVars, channelVars, countVars, shutdown_delays, listeners,
                   registered, created, deleting_soon, within_process_died_observer, spare,
                   historyVars, budget>>

\* Mutant: a process that is dead already is told of once more.
CleanupTellsAgain ==
    /\ Running("Cleanup", "Start") /\ ~within_process_died_observer
    /\ ~IsOwned /\ ~MayExit
    /\ delayed_cleanup_needed' = FALSE
    /\ Goto("Exited", WatchersNow)
    /\ UNCHANGED <<processVars, channelVars, countVars, shutdown_delays, listeners,
                   frameVars, fast_shutdown_started, deleting_soon,
                   within_process_died_observer, spare, historyVars, budget>>

CleanupStarts ==
    /\ Running("Cleanup", "Start") /\ ~within_process_died_observer
    /\ ~IsOwned /\ ~MayExit
    /\ delayed_cleanup_needed' = FALSE
    /\ Goto(IF IsInitializedAndNotDead THEN "Exited" ELSE "Destroyed", WatchersNow)
    /\ UNCHANGED <<processVars, channelVars, countVars, shutdown_delays, listeners,
                   frameVars, fast_shutdown_started, deleting_soon,
                   within_process_died_observer, spare, historyVars, budget>>

CleanupTells == TellExited("Cleanup", "Exited")

CleanupToldAll ==
    /\ Running("Cleanup", "Exited") /\ LeftToTell = {}
    /\ Goto("Destroyed", WatchersNow)
    /\ UNCHANGED <<processVars, channelVars, countVars, shutdown_delays, listeners,
                   frameVars, endVars, spare, historyVars, budget>>

\* SpareManager's RenderProcessHostDestroyed() releases the host.
CleanupDestroys ==
    /\ Running("Cleanup", "Destroyed")
    /\ \E o \in LeftToTell :
         /\ destroyed' = IF o = SpareManager THEN destroyed
                         ELSE [destroyed EXCEPT ![o] = @ + 1]
         /\ spare' = (spare /\ o # SpareManager)
         /\ Goto("Destroyed", Top.todo \ {o})
    /\ UNCHANGED <<processVars, channelVars, countVars, shutdown_delays, listeners,
                   frameVars, endVars, inits, exits, referenced, budget>>

\* DeleteSoon(), the channel goes, the host leaves the registry.
CleanupReturns ==
    /\ Running("Cleanup", "Destroyed") /\ LeftToTell = {}
    /\ deleting_soon' = TRUE
    /\ ResetIPC
    /\ Return
    /\ UNCHANGED <<processVars, sent_render_process_ready, countVars, listeners, frameVars,
                   fast_shutdown_started, within_process_died_observer,
                   delayed_cleanup_needed, spare, historyVars, budget>>

\* ~RenderProcessHostImpl().
Delete ==
    /\ Idle /\ deleting_soon /\ launcher # "None"
    /\ launcher' = "None" /\ is_dead' = TRUE
    /\ UNCHANGED <<is_initialized, channelVars, countVars, shutdown_delays, listeners,
                   frameVars, endVars, spare, stack, historyVars, budget>>

-----------------------------------------------------------------------------
\* What the remaining code leaves alone when a client only takes or drops a reference.
Elsewhere == UNCHANGED <<processVars, channelVars, endVars, inits, exits, destroyed>>

\* A RenderFrameHostImpl adds its route and registers in its constructor.
AddRoute(r) ==
    /\ MayUse /\ r \notin listeners
    /\ Spend
    /\ listeners' = listeners \cup {r} /\ referenced' = TRUE
    /\ registered' = registered \cup ({r} \cap Frames)
    /\ Elsewhere /\ UNCHANGED <<countVars, shutdown_delays, created, destructing, interrupted,
                               spare, stack>>

CreateRenderFrame(f) ==
    /\ MayUse /\ f \in registered \ created /\ IsInitializedAndNotDead
    /\ Spend
    /\ created' = created \cup {f}
    /\ Elsewhere /\ UNCHANGED <<countVars, shutdown_delays, listeners, destructors, spare,
                               stack, referenced>>

RemoveRoute(r) == listeners' = listeners \ {r} /\ Call("Cleanup")

\* A proxy or a view leaves: in a task, or with the child frames that a frame's destructor
\* deletes, or with the last active frame of its SiteInstanceGroup.
ViewLeaves(v) ==
    /\ MayLeave /\ v \in listeners
    /\ Spend
    /\ RemoveRoute(v)
    /\ Elsewhere /\ UNCHANGED <<countVars, shutdown_delays, frameVars, spare, referenced>>

\* ~RenderFrameHostImpl() leaves the id map, then deletes its children.
FrameDestructs(f) ==
    /\ ClientRuns /\ f \in registered \ NotFound /\ ~HasUnregistered
    /\ Spend
    /\ destructing' = Append(destructing, f)
    /\ Elsewhere /\ UNCHANGED <<countVars, shutdown_delays, listeners, created, registered,
                               interrupted, spare, stack, referenced>>

\* Its children are gone; the process does not count it any more.
FrameUnregisters ==
    /\ ClientRuns /\ destructing # <<>> /\ ~HasUnregistered
    /\ registered' = registered \ {Innermost}
    /\ created' = created \ {Innermost}
    /\ Elsewhere /\ UNCHANGED <<countVars, shutdown_delays, listeners, destructing, interrupted,
                               spare, stack, referenced, budget>>

FrameLeaves ==
    /\ ClientRuns /\ HasUnregistered
    /\ destructing' = SubSeq(destructing, 1, Len(destructing) - 1)
    /\ RemoveRoute(Innermost)
    /\ Elsewhere /\ UNCHANGED <<countVars, shutdown_delays, created, registered, interrupted,
                               spare, referenced, budget>>

IncrementKeepAliveRefCount ==
    /\ MayUse /\ ~are_ref_counts_disabled
    /\ Spend
    /\ keep_alive_ref_count' = keep_alive_ref_count + 1 /\ referenced' = TRUE
    /\ Elsewhere /\ UNCHANGED <<worker_ref_count, shutdown_delay_ref_count,
                               are_ref_counts_disabled, shutdown_delays, listeners,
                               frameVars, spare, stack>>

IncrementWorkerRefCount ==
    /\ MayUse /\ ~are_ref_counts_disabled
    /\ Spend
    /\ worker_ref_count' = worker_ref_count + 1 /\ referenced' = TRUE
    /\ Elsewhere /\ UNCHANGED <<keep_alive_ref_count, shutdown_delay_ref_count,
                               are_ref_counts_disabled, shutdown_delays, listeners,
                               frameVars, spare, stack>>

CleanupIfAllZero == IF AreAllRefCountsZero' THEN Call("Cleanup") ELSE UNCHANGED stack

DecrementKeepAliveRefCount ==
    /\ MayLeave /\ ~are_ref_counts_disabled /\ keep_alive_ref_count > 0
    /\ keep_alive_ref_count' = keep_alive_ref_count - 1
    /\ UNCHANGED <<worker_ref_count, shutdown_delay_ref_count, are_ref_counts_disabled>>
    /\ CleanupIfAllZero
    /\ Elsewhere /\ UNCHANGED <<shutdown_delays, listeners, frameVars, spare, referenced,
                               budget>>

DecrementWorkerRefCount ==
    /\ MayLeave /\ ~are_ref_counts_disabled /\ worker_ref_count > 0
    /\ worker_ref_count' = worker_ref_count - 1
    /\ UNCHANGED <<keep_alive_ref_count, shutdown_delay_ref_count, are_ref_counts_disabled>>
    /\ CleanupIfAllZero
    /\ Elsewhere /\ UNCHANGED <<shutdown_delays, listeners, frameVars, spare, referenced,
                               budget>>

\* Called by a live subframe that is deleted.
DelayProcessShutdown ==
    /\ MayUse /\ \E f \in registered : IsRenderFrameLive(f)
    /\ ~are_ref_counts_disabled /\ ~fast_shutdown_started
    /\ Spend
    /\ shutdown_delay_ref_count' = shutdown_delay_ref_count + 1
    /\ shutdown_delays' = shutdown_delays + 1
    /\ Elsewhere /\ UNCHANGED <<keep_alive_ref_count, worker_ref_count,
                               are_ref_counts_disabled, listeners, frameVars, spare, stack,
                               referenced>>

\* Mutant: a delay expires after the counts were disabled.
CancelDisabledDelay ==
    /\ Idle /\ shutdown_delays > 0
    /\ shutdown_delays' = shutdown_delays - 1
    /\ shutdown_delay_ref_count' = shutdown_delay_ref_count - 1
    /\ UNCHANGED <<keep_alive_ref_count, worker_ref_count, are_ref_counts_disabled>>
    /\ CleanupIfAllZero
    /\ Elsewhere /\ UNCHANGED <<listeners, frameVars, spare, referenced, budget>>

CancelProcessShutdownDelay ==
    /\ Idle /\ shutdown_delays > 0
    /\ shutdown_delays' = shutdown_delays - 1
    /\ UNCHANGED <<keep_alive_ref_count, worker_ref_count, are_ref_counts_disabled>>
    /\ IF are_ref_counts_disabled
       THEN UNCHANGED <<shutdown_delay_ref_count, stack>>
       ELSE /\ shutdown_delay_ref_count' = shutdown_delay_ref_count - 1
            /\ CleanupIfAllZero
    /\ Elsewhere /\ UNCHANGED <<listeners, frameVars, spare, referenced, budget>>

\* The browser context shuts down.
DisableRefCounts ==
    /\ Idle /\ ~deleting_soon /\ ~are_ref_counts_disabled
    /\ Spend
    /\ are_ref_counts_disabled' = TRUE
    /\ keep_alive_ref_count' = 0 /\ worker_ref_count' = 0 /\ shutdown_delay_ref_count' = 0
    /\ Call("Cleanup")
    /\ Elsewhere /\ UNCHANGED <<shutdown_delays, listeners, frameVars, spare, referenced>>

\* A fresh host becomes the spare.
WarmupSpareRenderProcessHost ==
    /\ Idle /\ inits = 0 /\ ~referenced /\ ~are_ref_counts_disabled /\ ~deleting_soon
    /\ Spend
    /\ spare' = TRUE
    /\ Launch
    /\ UNCHANGED <<countVars, shutdown_delays, listeners, frameVars, deleting_soon,
                   within_process_died_observer, delayed_cleanup_needed, stack, exits,
                   destroyed, referenced>>

MaybeTakeSpareRenderProcessHost ==
    /\ Idle /\ spare
    /\ spare' = FALSE
    /\ Elsewhere /\ UNCHANGED <<countVars, shutdown_delays, listeners, frameVars, stack,
                               referenced, budget>>

CleanupSpareRenderProcessHost ==
    /\ Idle /\ spare
    /\ Spend
    /\ spare' = FALSE
    /\ IF are_ref_counts_disabled THEN UNCHANGED stack ELSE Call("Cleanup")
    /\ Elsewhere /\ UNCHANGED <<countVars, shutdown_delays, listeners, frameVars,
                               referenced>>

-----------------------------------------------------------------------------
Process == \/ OnProcessLaunched \/ OnProcessLaunchFailed
           \/ OnChannelConnected \/ OnChannelError

Death == \/ ProcessDiedStart \/ ProcessDiedTells \/ ObserverReturns \/ ProcessDiedReturns

Ending == \/ CleanupLater \/ CleanupNot \/ CleanupEndsProcess \/ CleanupStarts
          \/ CleanupTells \/ CleanupToldAll \/ CleanupDestroys \/ CleanupReturns
          \/ Delete

Client == \/ InitHost \/ FastShutdownIfPossible
          \/ \E r \in Routes : AddRoute(r)
          \/ \E v \in Views : ViewLeaves(v)
          \/ \E f \in Frames : CreateRenderFrame(f) \/ FrameDestructs(f)
          \/ FrameUnregisters \/ FrameLeaves
          \/ IncrementKeepAliveRefCount \/ DecrementKeepAliveRefCount
          \/ IncrementWorkerRefCount \/ DecrementWorkerRefCount
          \/ DelayProcessShutdown \/ CancelProcessShutdownDelay
          \/ DisableRefCounts

SpareSteps == \/ WarmupSpareRenderProcessHost \/ MaybeTakeSpareRenderProcessHost
              \/ CleanupSpareRenderProcessHost

Next == Process \/ Death \/ Ending \/ Client \/ SpareSteps

Spec == Init /\ [][Next]_vars

-----------------------------------------------------------------------------
(***************************************************************************)
(* Properties.                                                             *)
(***************************************************************************)

\* Types of the variables; counts never go below zero.
TypeOK ==
    /\ is_initialized \in BOOLEAN /\ is_dead \in BOOLEAN
    /\ launcher \in {"None", "Starting", "Running", "Failed"}
    /\ channel \in {"None", "Paused", "Open"} /\ invitation \in {"Held", "Moved"}
    /\ channel_connected \in BOOLEAN /\ sent_render_process_ready \in BOOLEAN
    /\ fast_shutdown_started \in BOOLEAN /\ deleting_soon \in BOOLEAN
    /\ within_process_died_observer \in BOOLEAN /\ delayed_cleanup_needed \in BOOLEAN
    /\ keep_alive_ref_count \in Nat /\ worker_ref_count \in Nat
    /\ shutdown_delay_ref_count \in Nat
    /\ are_ref_counts_disabled \in BOOLEAN
    /\ shutdown_delays \in Nat
    /\ listeners \subseteq Routes /\ registered \subseteq Frames /\ created \subseteq Frames
    /\ destructing \in Seq(Frames) /\ interrupted \in Seq(Frames)
    /\ spare \in BOOLEAN
    /\ stack \in Seq(Activations)
    /\ inits \in Nat
    /\ exits \in [Observers -> Nat] /\ destroyed \in [Observers -> Nat]
    /\ referenced \in BOOLEAN
    /\ budget \in 0..Budget

\* Each observer hears of each process's death once: of every process but the one that
\* still lives, and of that one too when Cleanup() has ended it.
DeathIsToldOnce ==
    stack = <<>> =>
        \A o \in Observers :
            exits[o] = inits - (IF IsInitializedAndNotDead /\ ~deleting_soon THEN 1 ELSE 0)

\* "guarantee that the RenderProcessHostDestroyed observer callback is always the last
\* callback fired" (Cleanup()), and it is fired once.
DestroyedIsLast ==
    [][\A o \in Observers : destroyed[o] > 0 => /\ destroyed'[o] = destroyed[o]
                                                /\ exits'[o] = exits[o]]_vars

\* The DCHECKs of ProcessDied() and GetChildTerminationInfo() and the CHECK of Cleanup(): a
\* death comes when there is a process, not while another death is told, not while a frame
\* host that the process counts is half destroyed, and no teardown follows a teardown.
DeathAndTeardownChecks ==
    /\ Running("ProcessDied", "Start") =>
          /\ launcher # "None"
          /\ ~within_process_died_observer /\ ~deleting_soon
          /\ registered \cap NotFound = {}
    /\ stack # <<>> /\ Top.fn = "Cleanup" => ~deleting_soon

\* "If we didn't find all the known RenderFrameHosts via FromID (because some are in their
\* destructor), consider them live until they finish destructing"
\* (render_process_host_impl.cc:3823).  The code violates it: a frame host leaves the set
\* of ids a hundred lines before its destructor ends, and in between the proxies go.
LiveUntilDestructed == Running("ProcessDied", "Start") => NotFound = {}

\* A host that clients have used and that nothing refers to any more is being deleted:
\* no order of deaths, delayed cleanups and dropped references leaks it.
NoOrphan ==
    Idle /\ referenced /\ listeners = {} /\ AreAllRefCountsZero => deleting_soon

\* From the first callback of a teardown on, nothing refers to the host, and no frame that
\* has yet to remove its route is in its destructor.
TeardownIsUnreferenced ==
    deleting_soon \/ Running("Cleanup", "Exited") \/ Running("Cleanup", "Destroyed") =>
        listeners = {} /\ AreAllRefCountsZero /\ NotFound = {}

\* The channel the browser holds is the one whose other end the process was given, it is
\* open once the launch is known, and a host that is not torn down can always queue messages.
ChannelServesProcess ==
    Idle /\ ~deleting_soon =>
        /\ channel # "None"
        /\ launcher \in {"Starting", "Running"} <=> invitation = "Moved"
        /\ launcher = "Running" <=> channel = "Open"

\* RenderProcessReady() was sent for this process if and only if it is launched and
\* connected, in whichever order that came.
ReadyIsSent ==
    Idle /\ IsInitializedAndNotDead /\ ~deleting_soon =>
        (sent_render_process_ready <=> IsReady)

\* A host that serves a process does not still ignore messages and shutdown delays as
\* the fast shutdown of an earlier process made it do.
NewProcessIsHeard == Idle /\ IsInitializedAndNotDead /\ ~deleting_soon => ~fast_shutdown_started

\* What the host holds is for the process it has: channel, readiness and shutdown flag are
\* those of this process, not of one that died.
ServesItsProcess == ChannelServesProcess /\ ReadyIsSent /\ NewProcessIsHeard

\* The CHECKs of MaybeTakeSpareRenderProcessHost(): the spare is alive and unused.
SpareIsTakeable ==
    Idle /\ spare => /\ IsInitializedAndNotDead /\ ~deleting_soon
                     /\ listeners = {} /\ AreAllRefCountsZero

\* A host is deleted when it is needed no more, and not while it is kept as the spare.
LivesAsLongAsNeeded == NoOrphan /\ SpareIsTakeable

\* "if it was incremented by a shutdown delay, it will be decremented when the delay
\* expires" (render_process_host_impl.h:573): each delay that counts has its task.
DelayHasItsTask == shutdown_delay_ref_count <= shutdown_delays
=============================================================================
