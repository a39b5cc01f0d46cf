---------------------------- MODULE WindowOcclusion ----------------------------
(***************************************************************************)
(* aura::NativeWindowOcclusionTrackerWin and its WindowOcclusionCalculator *)
(* (ui/aura/native_window_occlusion_tracker_win.cc).  The tracker lives on *)
(* the UI thread and knows the root windows.  The calculator lives on a    *)
(* thread of its own: it hooks the window events of the system, and some   *)
(* time after one of them it looks at all windows, decides which of the    *)
(* root windows are covered, and posts the result to the tracker.          *)
(*                                                                         *)
(* Not under src/ and modelled from the calls made to them: the windows of *)
(* the system, its event hooks and session notices, and aura's windows.    *)
(* Regions are reduced to "this window is wholly under that one".  The     *)
(* tracker is deleted by tests only.                                       *)
(***************************************************************************)
EXTENDS Naturals, Sequences, FiniteSets

CONSTANTS
    Windows,      \* the handles a root window may have
    Open,         \* the root windows open at the start, where the calculator is at rest
    Other,        \* the window of another application
    Popup,        \* a popup of some application
    Thumbnail,    \* the window of the alt-tab view or of the task list
    None,
    Kinds,        \* the kinds of changes this instance has
    Rare,         \* those of them that count twice
    MaxChanges    \* bound: changes made by the user and the system

ASSUME WindowOcclusionAssumption ==
    /\ Other \notin Windows /\ Popup \notin Windows /\ Thumbnail \notin Windows
    /\ None \notin Windows /\ None # Other /\ None # Popup /\ None # Thumbnail
    /\ Cardinality({Other, Popup, Thumbnail}) = 3
    /\ Open \subseteq Windows /\ MaxChanges \in Nat
    /\ Rare \subseteq Kinds
    /\ Kinds \subseteq {"move", "show", "desktop", "session", "display", "suspend", "popup",
                        "thumbnail", "destroy"}

VARIABLES
    system,     \* the windows as the system has them
    rootWindows,\* hwnd_root_window_map_, as the set of its handles
    hosts,      \* what the hosts of the root windows were told
    screen,     \* screen_locked_, display_on_
    calc,       \* the calculator
    hooks,      \* live location hooks of the system, by process
    events,     \* window events on their way to the calculator's thread
    calcTasks,  \* tasks posted to the calculator's thread
    uiTasks,    \* tasks posted to the UI thread
    changes     \* changes made so far

vars == <<system, rootWindows, hosts, screen, calc, hooks, events, calcTasks, uiTasks, changes>>

Occluders == Windows \cup {Other}
OcclusionStates == {"unknown", "hidden", "occluded", "visible"}
NoState == [x \in {} |-> None]
Processes == {"browser", "other"}
ProcessOf(o) == IF o = Other THEN "other" ELSE "browser"

Init ==
    LET pids == IF Open = {} THEN {} ELSE Processes IN
    /\ system = [show |-> [o \in Occluders |-> IF o \in Open \cup {Other} THEN "normal" ELSE "none"],
                 desktop |-> [w \in Windows |-> TRUE],
                 under |-> [o \in Occluders |-> None],
                 dragged |-> None, thumbnails |-> FALSE]
    /\ rootWindows = Open
    /\ hosts = [w \in Windows |-> [shown |-> w \in Open, state |-> "unknown",
                                  workspace |-> IF w \in Open THEN TRUE ELSE None]]
    /\ screen = [locked |-> FALSE, on |-> TRUE]
    /\ calc = [states |-> [w \in Open |-> [state |-> "visible", workspace |-> TRUE]],
               globalHooks |-> Open # {}, processHooks |-> pids, pids |-> pids,
               moving |-> None, thumbnails |-> FALSE, timer |-> FALSE, computing |-> "no",
               timerLost |-> FALSE]
    /\ hooks = [p \in Processes |-> IF p \in pids THEN 1 ELSE 0]
    /\ events = <<>> /\ calcTasks = <<>> /\ uiTasks = <<>>
    /\ changes = 0

Change(kind) ==
    /\ kind \in Kinds
    /\ changes' = changes + (IF kind \in Rare THEN 2 ELSE 1)
    /\ changes' <= MaxChanges

-----------------------------------------------------------------------------
(* What the calculator reads of the system. *)

IsIconic(w) == system.show[w] = "iconic"

\* IsWindowVisibleAndFullyOpaque() and not cloaked.
CanOcclude(o) ==
    /\ system.show[o] = "normal"
    /\ o \in Windows => system.desktop[o]

IsCovered(w, moving) ==
    \E o \in Occluders \ {moving} : system.under[o] = w /\ CanOcclude(o)

VisiblePids == {ProcessOf(o) : o \in {x \in Occluders : CanOcclude(x)}}

\* What an undisturbed look at the windows finds.
Truth(w) ==
    IF IsIconic(w) THEN "hidden"
    ELSE IF ~system.desktop[w] \/ IsCovered(w, None) THEN "occluded"
    ELSE "visible"

\* The system queues an event for the calculator's thread when a hook asks for it: location
\* changes are hooked process by process, everything else globally.
Notify(event, o) ==
    events' =
      IF \/ event = "location" /\ hooks[ProcessOf(o)] > 0
         \/ event # "location" /\ calc.globalHooks
      THEN Append(events, [event |-> event, hwnd |-> o]) ELSE events

-----------------------------------------------------------------------------
(* The calculator's hooks and timer, as functions of its state c. *)

RegisterEventHookForProcess(c, live, pids) ==
    [calc |-> [c EXCEPT !.pids = @ \cup pids, !.processHooks = @ \cup pids],
     hooks |-> [p \in Processes |-> IF p \in pids THEN live[p] + 1 ELSE live[p]]]

\* RegisterEventHooks(): the global hooks, and one for each process with visible windows.
RegisterEventHooks(c, live) ==
    RegisterEventHookForProcess([c EXCEPT !.globalHooks = TRUE, !.pids = {}], live, VisiblePids)

\* MaybeRegisterEventHooks()
MaybeRegisterEventHooks(c, live) ==
    IF c.globalHooks THEN [calc |-> c, hooks |-> live] ELSE RegisterEventHooks(c, live)

\* UnregisterEventHooks(); moving_window_ and showing_thumbnails_ stay as they are.
UnregisterEventHooks(c, live) ==
    [calc |-> [c EXCEPT !.globalHooks = FALSE, !.processHooks = {}, !.pids = {}],
     hooks |-> [p \in Processes |-> IF p \in c.pids THEN live[p] - 1 ELSE live[p]]]

ScheduleOcclusionCalculationIfNeeded(c) == [c EXCEPT !.timer = TRUE]

Update(hooked) == calc' = hooked.calc /\ hooks' = hooked.hooks

Scheduled(hooked) ==
    [hooked EXCEPT !.calc = ScheduleOcclusionCalculationIfNeeded(hooked.calc)]

\* A removed hook may leave its undelivered events behind, or take them along.
LeftEvents == events' = events \/ events' = <<>>

PostUpdate(states, showAll) ==
    uiTasks' = Append(uiTasks, [states |-> states, showAll |-> showAll])

-----------------------------------------------------------------------------
(* The UI thread: root windows come and go, are shown and hidden. *)

\* Enable() for a window that has just got its handle.
Enable(w) ==
    /\ system.show[w] = "none"
    /\ Change("show")
    /\ system' = [system EXCEPT !.show[w] = "hidden", !.under[w] = None]
    /\ hosts' = [hosts EXCEPT ![w] = [shown |-> FALSE, state |-> "unknown", workspace |-> None]]
    /\ rootWindows' = rootWindows \cup {w}
    /\ calcTasks' = Append(calcTasks, [task |-> "enable", hwnd |-> w])
    /\ UNCHANGED <<screen, calc, hooks, events, uiTasks>>

\* OnWindowDestroying() and Disable(); the handle is free for another window, and the
\* foreground goes to another one.
Disable(w) ==
    /\ w \in rootWindows
    /\ Change("destroy")
    /\ Notify("foreground", Other)
    /\ system' = [system EXCEPT !.show[w] = "none",
                               !.under = [o \in Occluders |->
                                   IF o = w \/ @[o] = w THEN None ELSE @[o]],
                               !.dragged = IF @ = w THEN None ELSE @]
    /\ rootWindows' = rootWindows \ {w}
    /\ calcTasks' = Append(calcTasks, [task |-> "disable", hwnd |-> w])
    /\ UNCHANGED <<hosts, screen, calc, hooks, uiTasks>>

\* OnWindowVisibilityChanged(), when the UI thread follows its native window.
OnWindowVisibilityChanged(w) ==
    /\ w \in rootWindows
    /\ hosts[w].shown # (system.show[w] = "normal")
    /\ hosts' = [hosts EXCEPT ![w].shown = ~@,
                             ![w].state = IF hosts[w].shown THEN "hidden" ELSE "unknown"]
    /\ calcTasks' = Append(calcTasks, [task |-> "visibility", visible |-> ~hosts[w].shown])
    /\ UNCHANGED <<system, rootWindows, screen, calc, hooks, events, uiTasks, changes>>

\* MarkNonIconicWindowsOccluded()
MarkNonIconicWindowsOccluded ==
    hosts' = [w \in Windows |->
                IF w \in rootWindows
                THEN [hosts[w] EXCEPT !.state = IF IsIconic(w) THEN "hidden" ELSE "occluded"]
                ELSE hosts[w]]

ForceRecalculationTask == calcTasks' = Append(calcTasks, [task |-> "force"])

\* OnSessionChange(): the notice may be of another session, or of no known one.
OnSessionChange(code, session) ==
    /\ Change("session")
    /\ session # "another"
    /\ \/ /\ code = "unlock"
          /\ screen' = [screen EXCEPT !.locked = FALSE]
          /\ ForceRecalculationTask
          /\ UNCHANGED hosts
       \/ /\ code = "lock" /\ session = "current"
          /\ screen' = [screen EXCEPT !.locked = TRUE]
          /\ MarkNonIconicWindowsOccluded
          /\ UNCHANGED calcTasks
    /\ UNCHANGED <<system, rootWindows, calc, hooks, events, uiTasks>>

OnDisplayStateChanged(on) ==
    /\ Change("display")
    /\ on # screen.on
    /\ screen' = [screen EXCEPT !.on = on]
    /\ IF on THEN ForceRecalculationTask /\ UNCHANGED hosts
             ELSE MarkNonIconicWindowsOccluded /\ UNCHANGED calcTasks
    /\ UNCHANGED <<system, rootWindows, calc, hooks, events, uiTasks>>

\* OnSuspend() and OnResume()
OnSuspendOrResume ==
    /\ Change("suspend")
    /\ calcTasks' = Append(calcTasks, [task |-> "power"])
    /\ UNCHANGED <<system, rootWindows, hosts, screen, calc, hooks, events, uiTasks>>

\* UpdateOcclusionState(): the state it has found for a visible window is not handed to the
\* window's host.
UpdateOcclusionState ==
    /\ uiTasks # <<>>
    /\ LET states == Head(uiTasks).states IN
       hosts' = [w \in Windows |->
                   IF w \in rootWindows \cap DOMAIN states
                   THEN [hosts[w] EXCEPT !.workspace = states[w].workspace,
                                         !.state = IF hosts[w].shown THEN @ ELSE "hidden"]
                   ELSE hosts[w]]
    /\ uiTasks' = Tail(uiTasks)
    /\ UNCHANGED <<system, rootWindows, screen, calc, hooks, events, calcTasks, changes>>

-----------------------------------------------------------------------------
(* The calculator's thread. *)

\* EnableOcclusionTrackingForWindow()
EnableTracking(w) ==
    LET states == [x \in DOMAIN calc.states \cup {w} |->
                      IF x = w THEN [state |-> "unknown", workspace |-> None] ELSE calc.states[x]]
        c == [calc EXCEPT !.states = states] IN
    Update(Scheduled(MaybeRegisterEventHooks(c, hooks))) /\ UNCHANGED events

\* DisableOcclusionTrackingForWindow()
DisableTracking(w) ==
    LET rest == [x \in DOMAIN calc.states \ {w} |-> calc.states[x]]
        c == [calc EXCEPT !.states = rest, !.moving = IF @ = w THEN None ELSE @] IN
    IF rest # NoState THEN calc' = c /\ UNCHANGED <<hooks, events>>
    ELSE Update(UnregisterEventHooks([c EXCEPT !.timer = FALSE], hooks)) /\ LeftEvents

\* Mutant: a window that comes back does not bring the event hooks back.
VisibilityKeepsHooks(visible) ==
    /\ IF visible THEN calc' = ScheduleOcclusionCalculationIfNeeded(calc) ELSE UNCHANGED calc
    /\ UNCHANGED <<hooks, events>>

HandleVisibilityChanged(visible) ==
    /\ IF visible THEN Update(Scheduled(MaybeRegisterEventHooks(calc, hooks)))
                  ELSE UNCHANGED <<calc, hooks>>
    /\ UNCHANGED events

ForceRecalculation ==
    Update(Scheduled(MaybeRegisterEventHooks(calc, hooks))) /\ UNCHANGED events

\* HandleResumeSuspend(); timerLost records that a calculation was called off.
HandleResumeSuspend ==
    /\ calc' = [calc EXCEPT !.timer = FALSE, !.timerLost = @ \/ calc.timer]
    /\ UNCHANGED <<hooks, events>>

RunTask ==
    /\ calc.computing = "no"
    /\ calcTasks # <<>>
    /\ LET t == Head(calcTasks) IN
       \/ t.task = "enable" /\ EnableTracking(t.hwnd)
       \/ t.task = "disable" /\ DisableTracking(t.hwnd)
       \/ t.task = "visibility" /\ HandleVisibilityChanged(t.visible)
       \/ t.task = "force" /\ ForceRecalculation
       \/ t.task = "power" /\ HandleResumeSuspend
       \/ /\ t.task = "schedule"
          /\ calc' = ScheduleOcclusionCalculationIfNeeded(calc)
          /\ UNCHANGED <<hooks, events>>
    /\ calcTasks' = Tail(calcTasks)
    /\ UNCHANGED <<system, rootWindows, hosts, screen, uiTasks, changes>>

\* The window whose move hides the events of others, after an event: the end of a move, or an
\* event that is neither a location nor a state change, ends it.
MovingAfter(e) ==
    IF e.event = "moveStart" THEN e.hwnd
    ELSE IF e.event = "location" THEN calc.moving
    ELSE None

\* Whether the event asks for a calculation.
Recalculates(e) ==
    /\ e.hwnd # Popup
    /\ ~(calc.moving # None /\ e.event = "location" /\ e.hwnd \notin DOMAIN calc.states)

\* ProcessEventHookCallback()
ProcessEventHookCallback ==
    /\ calc.computing = "no"
    /\ events # <<>>
    /\ LET e == Head(events) IN
       \/ /\ e.event = "show" /\ e.hwnd = Thumbnail /\ ~calc.thumbnails
          /\ calc' = [calc EXCEPT !.thumbnails = TRUE]
          /\ PostUpdate(calc.states, TRUE)
          /\ UNCHANGED calcTasks
       \/ /\ e.event = "hide" /\ e.hwnd = Thumbnail /\ calc.thumbnails
          /\ calc' = [calc EXCEPT !.thumbnails = FALSE]
          /\ calcTasks' = Append(calcTasks, [task |-> "schedule"])
          /\ UNCHANGED uiTasks
       \/ /\ \/ e.event = "show" /\ (calc.thumbnails \/ e.hwnd # Thumbnail)
             \/ e.event = "hide" /\ ~(calc.thumbnails /\ e.hwnd = Thumbnail)
          /\ UNCHANGED <<calc, calcTasks, uiTasks>>
       \/ /\ e.event \notin {"show", "hide"}
          /\ calc' = [calc EXCEPT !.moving = MovingAfter(e)]
          /\ calcTasks' = IF Recalculates(e) THEN Append(calcTasks, [task |-> "schedule"])
                          ELSE calcTasks
          /\ UNCHANGED uiTasks
    /\ events' = Tail(events)
    /\ UNCHANGED <<system, rootWindows, hosts, screen, hooks, changes>>

-----------------------------------------------------------------------------
(* ComputeNativeWindowOcclusionStatus(), in two steps: other threads and the user go on   *)
(* between the look at the root windows and the look at all windows.                      *)

\* The clean state of a root window, before all windows are looked at.
RootState(w) ==
    [workspace |-> system.desktop[w],
     state |-> IF IsIconic(w) THEN "hidden"
               ELSE IF ~system.desktop[w] THEN "occluded"
               ELSE "unknown"]

\* The timer fires.
LookAtRootWindows ==
    /\ calc.computing = "no" /\ calc.timer
    /\ IF calc.states = NoState THEN calc' = [calc EXCEPT !.timer = FALSE]
       ELSE LET states == [w \in DOMAIN calc.states |-> RootState(w)] IN
            calc' = [calc EXCEPT !.timer = FALSE, !.timerLost = FALSE, !.states = states,
                                 !.computing = IF \A w \in DOMAIN states : IsIconic(w)
                                               THEN "unregister" ELSE "windows"]
    /\ UNCHANGED <<system, rootWindows, hosts, screen, hooks, events, calcTasks, uiTasks, changes>>

\* ProcessComputeNativeWindowOcclusionStatusCallback() of each root window: a window that is
\* gone is not enumerated; the window being moved is left out and covers nothing.
SeenStates(states) ==
    [w \in DOMAIN states |->
        IF states[w].state # "unknown" \/ system.show[w] = "none" \/ w = calc.moving
        THEN states[w]
        ELSE [states[w] EXCEPT !.state = IF IsCovered(w, calc.moving) THEN "occluded"
                                                                     ELSE "visible"]]

\* Mutant: the removed hooks of processes without visible windows stay in the map.
FollowProcessesRemembers(c, live) ==
    LET seen == VisiblePids
        found == RegisterEventHookForProcess(c, live, seen \ c.processHooks)
        gone == found.calc.pids \ seen IN
    [calc |-> [found.calc EXCEPT !.pids = @ \ gone],
     hooks |-> [p \in Processes |-> IF p \in gone THEN found.hooks[p] - 1 ELSE found.hooks[p]]]

\* Mutant: a process that shows its first window is not hooked.
FollowProcessesHooksNone(c, live) ==
    LET gone == c.pids \ VisiblePids IN
    [calc |-> [c EXCEPT !.pids = @ \ gone, !.processHooks = @ \ gone],
     hooks |-> [p \in Processes |-> IF p \in gone THEN live[p] - 1 ELSE live[p]]]

\* Location hooks follow the processes that have windows to be seen.
FollowProcesses(c, live) ==
    LET seen == VisiblePids
        found == RegisterEventHookForProcess(c, live, seen \ c.processHooks)
        gone == found.calc.pids \ seen IN
    [calc |-> [found.calc EXCEPT !.pids = @ \ gone, !.processHooks = @ \ gone],
     hooks |-> [p \in Processes |-> IF p \in gone THEN found.hooks[p] - 1 ELSE found.hooks[p]]]

LookAtAllWindows ==
    /\ calc.computing # "no"
    /\ LET c == [calc EXCEPT !.computing = "no"] IN
       \/ /\ calc.computing = "unregister"
          /\ Update(UnregisterEventHooks(c, hooks))
          /\ LeftEvents
          /\ PostUpdate(c.states, c.thumbnails)
       \/ /\ calc.computing = "windows"
          /\ LET states == SeenStates(c.states) IN
             /\ Update(FollowProcesses([c EXCEPT !.states = states], hooks))
             /\ PostUpdate(states, c.thumbnails)
          /\ UNCHANGED events
    /\ UNCHANGED <<system, rootWindows, hosts, screen, calcTasks, changes>>

-----------------------------------------------------------------------------
(* The user and the system: windows that change, and the events they raise. *)

OnlySystem == UNCHANGED <<rootWindows, hosts, screen, calc, hooks, calcTasks, uiTasks>>

\* A window is shown, hidden, minimized or restored; the UI thread has to follow its own
\* windows before they change again.
SetShow(o, show) ==
    /\ Change("show")
    /\ system.show[o] \notin {show, "none"} /\ o # system.dragged
    /\ o \in Windows => hosts[o].shown = (system.show[o] = "normal")
    /\ system' = [system EXCEPT !.show[o] = show]
    /\ Notify(IF "iconic" \in {show, system.show[o]} THEN "minimize" ELSE "foreground", Other)
    /\ OnlySystem

\* A window is put over another one, by the user who drags it or by its program.
Move(o, target) ==
    /\ Change("move")
    /\ system.show[o] = "normal" /\ system.dragged \in {None, o}
    /\ target # o /\ target # system.under[o]
    /\ target \in Windows => system.show[target] # "none" /\ system.under[target] # o
    /\ system' = [system EXCEPT !.under[o] = target]
    /\ Notify("location", o)
    /\ OnlySystem

DragStart(o) ==
    /\ Change("move")
    /\ system.show[o] = "normal" /\ system.dragged = None
    /\ system' = [system EXCEPT !.dragged = o]
    /\ Notify("moveStart", o)
    /\ OnlySystem

DragEnd ==
    /\ system.dragged # None
    /\ system' = [system EXCEPT !.dragged = None]
    /\ Notify("moveEnd", system.dragged)
    /\ OnlySystem /\ UNCHANGED changes

\* A window comes to the foreground.
Raise(w) ==
    /\ Change("move")
    /\ system.show[w] = "normal" /\ \E o \in Occluders : system.under[o] = w
    /\ system' = [system EXCEPT !.under = [o \in Occluders |-> IF @[o] = w THEN None ELSE @[o]]]
    /\ Notify("foreground", w)
    /\ OnlySystem

\* A window goes to another virtual desktop, or comes back: it is cloaked or uncloaked.
SwitchDesktop(w) ==
    /\ Change("desktop")
    /\ system.show[w] # "none"
    /\ system' = [system EXCEPT !.desktop[w] = ~@]
    /\ Notify("cloak", w)
    /\ OnlySystem

PopupEvent ==
    /\ Change("popup")
    /\ Notify("foreground", Popup) /\ events' # events
    /\ UNCHANGED system /\ OnlySystem

ThumbnailEvent ==
    /\ Change("thumbnail")
    /\ system' = [system EXCEPT !.thumbnails = ~@]
    /\ Notify(IF system.thumbnails THEN "hide" ELSE "show", Thumbnail)
    /\ OnlySystem

-----------------------------------------------------------------------------
TrackerStep == UpdateOcclusionState \/ \E w \in Windows : OnWindowVisibilityChanged(w)

CalculatorStep ==
    RunTask \/ ProcessEventHookCallback \/ LookAtRootWindows \/ LookAtAllWindows

Next ==
    \/ TrackerStep
    \/ CalculatorStep
    \/ \E w \in Windows : Enable(w) \/ Disable(w) \/ Raise(w) \/ SwitchDesktop(w)
    \/ \E code \in {"lock", "unlock"}, session \in {"current", "another", "unknown"} :
          OnSessionChange(code, session)
    \/ \E on \in BOOLEAN : OnDisplayStateChanged(on)
    \/ OnSuspendOrResume
    \/ \E o \in Occluders : DragStart(o) \/ \E show \in {"normal", "iconic", "hidden"} : SetShow(o, show)
    \/ \E o \in Occluders, target \in Windows \cup {None} : Move(o, target)
    \/ DragEnd
    \/ PopupEvent
    \/ ThumbnailEvent

Spec == Init /\ [][Next]_vars

\* Both threads go on, and the user lets go of a window.
FairSpec ==
    /\ Spec
    /\ WF_vars(TrackerStep) /\ WF_vars(CalculatorStep) /\ WF_vars(DragEnd)

-----------------------------------------------------------------------------
(* Properties. *)

RootStates == [state: OcclusionStates, workspace: BOOLEAN \cup {None}]

\* The state has its type, and every process the calculator believes it listens to is hooked:
\* its windows' moves are heard (RegisterEventHookForProcess, UnregisterEventHooks, and the
\* removal of hooks in ComputeNativeWindowOcclusionStatus, :618-643).
HooksAreHeld ==
    /\ rootWindows \subseteq Windows
    /\ hosts \in [Windows -> [shown: BOOLEAN, state: OcclusionStates,
                              workspace: BOOLEAN \cup {None}]]
    /\ screen \in [locked: BOOLEAN, on: BOOLEAN]
    /\ DOMAIN calc.states \subseteq Windows
    /\ \A w \in DOMAIN calc.states : calc.states[w] \in RootStates
    /\ calc.moving \in Occluders \cup {None}
    /\ calc.pids \subseteq calc.processHooks
    /\ \A p \in calc.processHooks : hooks[p] > 0

\* No process is hooked twice: "if we don't unregister the event hook, a process that toggles
\* between having visible windows and not having visible windows could cause duplicate event
\* hooks to get registered for the process" (:627-630).  A calculation that runs while the
\* global hooks are gone hooks processes, and RegisterEventHooks forgets those hooks.
HooksAreUnique == \A p \in Processes : hooks[p] <= 1

PendingTask(kinds) ==
    \E i \in DOMAIN calcTasks :
        /\ calcTasks[i].task \in kinds
        /\ calcTasks[i].task = "visibility" => calcTasks[i].visible

\* While a root window is shown, the calculator listens to window events, or something is under
\* way that makes it listen again: hooks are removed when all windows are minimized, and a
\* window that is restored meanwhile is seen by the UI thread only
\* (ComputeNativeWindowOcclusionStatus :608, HandleVisibilityChanged :488).
NeededHooksComeBack ==
    \A w \in rootWindows :
        system.show[w] = "normal" =>
            \/ calc.globalHooks /\ calc.computing # "unregister"
            \/ ~hosts[w].shown
            \/ PendingTask({"enable", "visibility", "force"})

\* The drag the calculator believes in is over and it has not been told.
MissedMoveEnd == calc.moving # None

\* Once the windows rest, the calculator has right each one that is shown, however
\* the changes fell between its looks at them: unless a suspend or a resume called its last calculation off
\* (HandleResumeSuspend), or the end of a move went by while no hook was there to hear of it
\* (UnregisterEventHooks keeps moving_window_).
OcclusionSettles ==
    <>[](\A w \in DOMAIN calc.states :
            \/ calc.timerLost \/ MissedMoveEnd \/ system.show[w] # "normal"
            \/ calc.states[w].state = Truth(w))

\* Once everything rests and the screen is on and unlocked, the hosts of the root windows have
\* been told of their workspace, and the hidden ones of that: results of a calculation that
\* come late, or for a handle that has a new window, are put right (UpdateOcclusionState).
HostsSettle ==
    <>[](\A w \in rootWindows :
            \/ calc.timerLost \/ screen.locked \/ ~screen.on
            \/ /\ system.show[w] # "normal" \/ hosts[w].workspace = system.desktop[w]
               /\ hosts[w].shown \/ hosts[w].state = "hidden")

\* Once the windows rest, the calculator is right, and the hosts about their workspace and about
\* being hidden.  The state of a host that is shown is not told to it any more (:342).
EverythingSettles == OcclusionSettles /\ HostsSettle

\* After an unlock the windows that are not covered are given their state back: "We may not get
\* a foreground event when unlocking the device so kick off occlusion recalculation now."
\* (OnSessionChange, :356).  The calculation takes place, its result goes nowhere.
UnlockUncovers ==
    \A w \in Windows :
        (w \in rootWindows /\ hosts[w].state = "occluded" /\ ~screen.locked /\ screen.on)
            ~> (hosts[w].state # "occluded" \/ screen.locked \/ ~screen.on \/ Truth(w) # "visible")
=============================================================================
