--------------------------- MODULE RenderWidgetHost ---------------------------
(***************************************************************************)
(* content::RenderWidgetHostImpl: the browser's end of one renderer        *)
(* widget.  It tells the renderer the geometry and the visibility of its   *)
(* view, throttled to the renderer's answers; it watches that input events *)
(* are answered; and it arbitrates the mouse lock and the keyboard lock.   *)
(*                                                                         *)
(* The widget, its view and its pipe to the renderer are the record w, the *)
(* renderer's widget r.  Not under src/ and modelled from the calls made   *)
(* to them: the view (a view that goes away calls ViewDestroyed), the      *)
(* delegate, the input router and the renderer's widget.                   *)
(***************************************************************************)
EXTENDS Naturals, Sequences

CONSTANTS
    Sizes,           \* the sizes of the view; 0 is the empty size
    Scales,          \* everything else the visual properties carry
    Rects,           \* the places of the view on the screen
    None,            \* nothing sent or received yet
    MaxChanges,      \* bound: what the user, the view, the delegate and the renderer start
    MaxInFlight      \* bound: input events the renderer has not answered

ASSUME RenderWidgetHostAssumption ==
    /\ Sizes \subseteq Nat /\ None \notin Rects /\ None \notin [size: Sizes, scale: Scales]
    /\ MaxChanges \in Nat /\ MaxInFlight \in Nat

VARIABLES
    w,         \* the host with its view and the pipe to the renderer; staleShow is history
    r,         \* the widget in the renderer
    frames,    \* frames with a new surface id, on their way to the browser
    rectAcks,  \* answers to UpdateScreenRects, on their way
    commits,   \* DidCommitNavigation of a new document, on its way
    hang,      \* the input events in flight and the hang monitor
    mouse,     \* the mouse lock
    keys,      \* the keyboard lock and the focus
    scroll,    \* the gesture scroll: as the host and as the events have it
    changes    \* changes made so far

vars == <<w, r, frames, rectAcks, commits, hang, mouse, keys, scroll, changes>>

Props == [size: Sizes, scale: Scales]

Messages == [kind: {"props"}, props: Props] \cup [kind: {"rects"}, rect: Rects]
                \cup [kind: {"shown", "hidden"}]

NoWidget == [alive |-> FALSE, shown |-> FALSE, dirty |-> FALSE, props |-> None, rect |-> None]

Init ==
    /\ \E p \in Props, b \in Rects, init \in BOOLEAN :
          w = [created |-> FALSE, waitingForInit |-> init, hidden |-> TRUE, view |-> FALSE,
               destroyed |-> FALSE, delegate |-> TRUE, pendingShow |-> FALSE,
               staleShow |-> FALSE,
               props |-> p, old |-> None, ackPending |-> FALSE,
               bounds |-> b, lastRect |-> None, rectAck |-> FALSE, out |-> <<>>]
    /\ r = NoWidget
    /\ frames = 0 /\ rectAcks = 0 /\ commits = 0
    /\ hang = [inFlight |-> 0, timer |-> FALSE, unresponsive |-> FALSE, blocked |-> FALSE]
    /\ mouse = [pending |-> FALSE, callback |-> FALSE, locked |-> FALSE, context |-> FALSE,
                asked |-> FALSE]
    /\ keys = [requested |-> FALSE, allowed |-> FALSE, locked |-> FALSE, focused |-> FALSE,
               asked |-> FALSE]
    /\ scroll = [host |-> FALSE, stream |-> FALSE]
    /\ changes = 0

Change == changes < MaxChanges /\ changes' = changes + 1

-----------------------------------------------------------------------------
(* What is sent to the renderer.                                           *)

Send(s, m) == [s EXCEPT !.out = Append(@, m)]

\* One update of the screen rects at a time, and none while hidden.
SendScreenRects(s) ==
    IF /\ s.created /\ ~s.waitingForInit
       /\ s.view /\ ~s.rectAck /\ ~s.hidden
       /\ s.lastRect # s.bounds
    THEN [Send(s, [kind |-> "rects", rect |-> s.bounds])
            EXCEPT !.lastRect = s.bounds, !.rectAck = TRUE]
    ELSE s

\* A commit of the renderer is expected for a new, nonempty size only.
DoesVisualPropertiesNeedAck(old, new) ==
    /\ new.size # 0
    /\ old = None \/ old.size # new.size

StoredVisualPropertiesNeedsUpdate(old, new) == old # new

MaySynchronize(s) ==
    /\ s.created /\ ~s.waitingForInit
    /\ s.view /\ ~s.ackPending
    /\ s.props.size # 0 /\ s.delegate

SynchronizeVisualProperties(s) ==
    IF MaySynchronize(s) /\ StoredVisualPropertiesNeedsUpdate(s.old, s.props)
    THEN [Send(s, [kind |-> "props", props |-> s.props])
            EXCEPT !.ackPending = DoesVisualPropertiesNeedAck(s.old, s.props),
                   !.old = s.props]
    ELSE s

SynchronizeVisualPropertiesIgnoringPendingAck(s) ==
    SynchronizeVisualProperties([s EXCEPT !.ackPending = FALSE])

-----------------------------------------------------------------------------
(* The hang monitor and the locks: what the handlers below call.           *)

StopInputEventAckTimeout(h) == [h EXCEPT !.timer = FALSE, !.unresponsive = FALSE]

StartInputEventAckTimeout(h) == [h EXCEPT !.timer = TRUE]

RestartInputEventAckTimeoutIfNecessary(h, hidden) ==
    IF ~h.blocked /\ h.inFlight > 0 /\ ~hidden THEN [h EXCEPT !.timer = TRUE] ELSE h

SetupInputRouter(h) == StopInputEventAckTimeout([h EXCEPT !.inFlight = 0])

\* The view unlocks the mouse and tells the delegate, which drops the context.
ViewUnlocksMouse(m) == [m EXCEPT !.locked = FALSE, !.context = @ /\ ~w.delegate]

RejectMouseLockOrUnlockIfNecessary(m) ==
    IF m.pending
    THEN [m EXCEPT !.pending = FALSE, !.callback = FALSE]
    ELSE IF m.locked THEN ViewUnlocksMouse(m) ELSE m

LockKeyboard(k) == [k EXCEPT !.locked = k.allowed /\ k.focused /\ w.view]

UnlockKeyboard(k) == [k EXCEPT !.locked = FALSE]

CancelKeyboardLock(k) ==
    [UnlockKeyboard(k) EXCEPT !.asked = @ /\ ~w.delegate, !.allowed = FALSE, !.requested = FALSE]

-----------------------------------------------------------------------------
(* Life of the widget and of its view.                                     *)

SetView ==
    /\ ~w.view /\ ~w.destroyed /\ w.created
    /\ w' = [w EXCEPT !.view = TRUE]
    /\ UNCHANGED <<r, frames, rectAcks, commits, hang, mouse, keys, scroll, changes>>

\* Messages that wait in the old pipe are dropped with it.
ResetStateForCreatedRenderWidget(s) ==
    [s EXCEPT !.rectAck = FALSE, !.lastRect = None, !.out = <<>>,
              !.ackPending = DoesVisualPropertiesNeedAck(None, s.props), !.old = s.props]

RendererWidgetCreated(s) ==
    SynchronizeVisualProperties(SendScreenRects([s EXCEPT !.created = TRUE]))

\* The renderer draws a frame with a new surface id for a new size.
DrawsFor(had, gets) == gets.size # 0 /\ (had = None \/ had.size # gets.size)

\* The browser creates the widget, with a new view and the initial properties.
CreateWidget ==
    /\ ~w.created /\ ~w.waitingForInit /\ ~w.destroyed
    /\ w' = RendererWidgetCreated(ResetStateForCreatedRenderWidget([w EXCEPT !.view = TRUE]))
    /\ r' = [NoWidget EXCEPT !.alive = TRUE, !.props = w.props, !.dirty = DrawsFor(None, w.props)]
    /\ hang' = SetupInputRouter(hang)
    /\ rectAcks' = 0
    /\ UNCHANGED <<frames, commits, mouse, keys, scroll, changes>>

\* The renderer asked for the window: its widget knows no geometry yet and waits for Init().
CreateWidgetForNewWindow ==
    /\ ~w.created /\ w.waitingForInit /\ ~w.destroyed
    /\ \E view \in BOOLEAN : w' = RendererWidgetCreated([w EXCEPT !.view = view])
    /\ r' = [NoWidget EXCEPT !.alive = TRUE]
    /\ UNCHANGED <<frames, rectAcks, commits, hang, mouse, keys, scroll, changes>>

\* The renderer shows the new window.
InitWidget ==
    /\ w.created /\ w.waitingForInit /\ r.alive
    /\ LET ready == SynchronizeVisualProperties(
                        SendScreenRects([w EXCEPT !.waitingForInit = FALSE]))
       IN  w' = IF w.pendingShow
                THEN [Send(ready, [kind |-> "shown"]) EXCEPT !.pendingShow = FALSE]
                ELSE ready
    /\ UNCHANGED <<r, frames, rectAcks, commits, hang, mouse, keys, scroll, changes>>

WasShown ==
    /\ Change
    /\ w.hidden /\ w.view /\ w.created
    /\ LET seen == SynchronizeVisualProperties(SendScreenRects(
                       [w EXCEPT !.hidden = FALSE, !.staleShow = @ /\ w.pendingShow]))
           told == IF w.waitingForInit
                   THEN [seen EXCEPT !.pendingShow = TRUE]
                   ELSE Send(seen, [kind |-> "shown"])
       IN  w' = SynchronizeVisualProperties(told)
    /\ hang' = RestartInputEventAckTimeoutIfNecessary(hang, FALSE)
    /\ UNCHANGED <<r, frames, rectAcks, commits, mouse, keys, scroll>>

\* Mutant: the show that waits for Init() is kept although the widget is hidden again.
WasHiddenKeepsPendingShow ==
    /\ Change
    /\ ~w.hidden /\ w.view /\ w.created
    /\ w' = IF w.pendingShow
            THEN [w EXCEPT !.hidden = TRUE, !.ackPending = FALSE]
            ELSE Send([w EXCEPT !.hidden = TRUE, !.ackPending = FALSE], [kind |-> "hidden"])
    /\ mouse' = RejectMouseLockOrUnlockIfNecessary(mouse)
    /\ hang' = StopInputEventAckTimeout(hang)
    /\ UNCHANGED <<r, frames, rectAcks, commits, keys, scroll>>

WasHidden ==
    /\ Change
    /\ ~w.hidden /\ w.view /\ w.created
    /\ LET unseen == [w EXCEPT !.hidden = TRUE, !.ackPending = FALSE]
       IN  w' = IF w.pendingShow
                THEN [unseen EXCEPT !.pendingShow = FALSE]
                ELSE Send(unseen, [kind |-> "hidden"])
    /\ mouse' = RejectMouseLockOrUnlockIfNecessary(mouse)
    /\ hang' = StopInputEventAckTimeout(hang)
    /\ UNCHANGED <<r, frames, rectAcks, commits, keys, scroll>>

\* Mutant: the view goes away without CancelKeyboardLock().
ViewDestroyedKeepsKeyboard ==
    /\ keys' = keys
    /\ mouse' = IF w.view THEN RejectMouseLockOrUnlockIfNecessary(mouse) ELSE mouse

\* The view's last call before it goes away.
ViewDestroyed ==
    /\ keys' = IF w.view THEN CancelKeyboardLock(keys) ELSE keys
    /\ mouse' = IF w.view THEN RejectMouseLockOrUnlockIfNecessary(mouse) ELSE mouse

\* The pipe is dropped with its answers; frames come through another one.  A show that waited
\* for Init() is kept: it is stale from here on, until a hide takes it for one not sent yet.
RendererExited ==
    /\ w.created /\ ~r.alive
    /\ w' = [w EXCEPT !.created = FALSE, !.waitingForInit = FALSE, !.hidden = TRUE,
                      !.view = FALSE, !.out = <<>>, !.staleShow = w.pendingShow]
    /\ ViewDestroyed
    /\ rectAcks' = 0
    /\ commits' = 0
    /\ frames' \in {0, frames}
    /\ UNCHANGED <<r, hang, scroll, changes>>

ShutdownAndDestroyWidget ==
    /\ Change
    /\ ~w.destroyed
    /\ keys' = CancelKeyboardLock(keys)
    /\ mouse' = RejectMouseLockOrUnlockIfNecessary(mouse)
    /\ w' = [w EXCEPT !.destroyed = TRUE, !.view = FALSE, !.created = FALSE, !.out = <<>>]
    /\ r' = NoWidget
    /\ rectAcks' = 0 /\ commits' = 0 /\ frames' = 0
    /\ UNCHANGED <<hang, scroll>>

DetachDelegate ==
    /\ Change
    /\ w.delegate
    /\ w' = [w EXCEPT !.delegate = FALSE]
    /\ UNCHANGED <<r, frames, rectAcks, commits, hang, mouse, keys, scroll>>

-----------------------------------------------------------------------------
(* Geometry, and the answers of the renderer.                              *)

\* The view is resized, moved or rescaled and reports it.
ViewChanges ==
    /\ Change
    /\ w.view
    /\ \E p \in Props, b \in Rects :
          /\ <<p, b>> # <<w.props, w.bounds>>
          /\ w' = SynchronizeVisualProperties(
                      SendScreenRects([w EXCEPT !.props = p, !.bounds = b]))
    /\ UNCHANGED <<r, frames, rectAcks, commits, hang, mouse, keys, scroll>>

\* Another screen: sent although the last update is not answered.
NotifyScreenInfoChanged ==
    /\ Change
    /\ w.view
    /\ \E c \in Scales \ {w.props.scale} :
          w' = SynchronizeVisualPropertiesIgnoringPendingAck([w EXCEPT !.props.scale = c])
    /\ UNCHANGED <<r, frames, rectAcks, commits, hang, mouse, keys, scroll>>

OnUpdateScreenRectsAck ==
    /\ rectAcks > 0
    /\ rectAcks' = rectAcks - 1
    /\ LET acked == [w EXCEPT !.rectAck = FALSE]
       IN  w' = SendScreenRects(acked)
    /\ UNCHANGED <<r, frames, commits, hang, mouse, keys, scroll, changes>>

\* Mutant: OnLocalSurfaceIdChanged() synchronizes while the allocation is still suppressed.
SurfaceIdChangedSuppressed ==
    /\ frames > 0
    /\ frames' = frames - 1
    /\ w' = [w EXCEPT !.ackPending = FALSE]
    /\ UNCHANGED <<r, rectAcks, commits, hang, mouse, keys, scroll, changes>>

\* The view synchronizes again when the scoped allocator it returned is released, which is
\* after the allocation of surface ids is allowed again.
OnLocalSurfaceIdChanged ==
    /\ frames > 0
    /\ frames' = frames - 1
    /\ w' = SynchronizeVisualPropertiesIgnoringPendingAck(w)
    /\ UNCHANGED <<r, rectAcks, commits, hang, mouse, keys, scroll, changes>>

\* Resizes before the navigation are not answered; a shown view reports its geometry.
DidNavigate ==
    /\ commits > 0
    /\ commits' = commits - 1
    /\ LET unthrottled == [w EXCEPT !.ackPending = FALSE]
       IN  w' = IF w.hidden THEN unthrottled ELSE SynchronizeVisualProperties(unthrottled)
    /\ UNCHANGED <<r, frames, rectAcks, hang, mouse, keys, scroll, changes>>

\* The renderer takes the next message of the pipe.
RendererReceives ==
    /\ r.alive /\ w.out # <<>>
    /\ w' = [w EXCEPT !.out = Tail(@)]
    /\ LET m == Head(w.out)
       IN  /\ r' = CASE m.kind = "props" ->
                         [r EXCEPT !.props = m.props,
                                   !.dirty = @ \/ DrawsFor(r.props, m.props)]
                     [] m.kind = "rects"  -> [r EXCEPT !.rect = m.rect]
                     [] m.kind = "shown"  -> [r EXCEPT !.shown = TRUE]
                     [] m.kind = "hidden" -> [r EXCEPT !.shown = FALSE]
           /\ rectAcks' = rectAcks + (IF m.kind = "rects" THEN 1 ELSE 0)
    /\ UNCHANGED <<frames, commits, hang, mouse, keys, scroll, changes>>

\* A hidden widget draws nothing.
RendererDraws ==
    /\ r.alive /\ r.shown /\ r.dirty
    /\ r' = [r EXCEPT !.dirty = FALSE]
    /\ frames' = frames + 1
    /\ UNCHANGED <<w, rectAcks, commits, hang, mouse, keys, scroll, changes>>

RendererCommitsNavigation ==
    /\ Change
    /\ r.alive /\ ~w.waitingForInit
    /\ r' = [r EXCEPT !.dirty = FALSE]
    /\ commits' = commits + 1
    /\ UNCHANGED <<w, frames, rectAcks, hang, mouse, keys, scroll>>

RendererDies ==
    /\ Change
    /\ r.alive
    /\ r' = NoWidget
    /\ UNCHANGED <<w, frames, rectAcks, commits, hang, mouse, keys, scroll>>

-----------------------------------------------------------------------------
(* Input events and the hang monitor.                                      *)

\* An event goes to the renderer.  Touch cancels go although input is ignored.
IncrementInFlightEventCount ==
    /\ Change
    /\ w.created /\ hang.inFlight < MaxInFlight
    /\ LET sent == [hang EXCEPT !.inFlight = @ + 1]
       IN  hang' = IF w.hidden THEN sent ELSE StartInputEventAckTimeout(sent)
    /\ UNCHANGED <<w, r, frames, rectAcks, commits, mouse, keys, scroll>>

DecrementInFlightEventCount ==
    /\ w.created /\ r.alive /\ hang.inFlight > 0
    /\ \E fromMainThread \in BOOLEAN :
          LET left == [hang EXCEPT !.inFlight = @ - 1]
          IN  hang' = IF left.inFlight <= 0
                      THEN StopInputEventAckTimeout(left)
                      ELSE IF fromMainThread
                           THEN RestartInputEventAckTimeoutIfNecessary(left, w.hidden)
                           ELSE left
    /\ UNCHANGED <<w, r, frames, rectAcks, commits, mouse, keys, scroll, changes>>

OnInputEventAckTimeout ==
    /\ hang.timer /\ ~w.destroyed
    /\ hang' = [hang EXCEPT !.timer = FALSE, !.unresponsive = TRUE]
    /\ UNCHANGED <<w, r, frames, rectAcks, commits, mouse, keys, scroll, changes>>

\* The user lets the delegate wait on: it runs the closure it was given.
RestartHangMonitor ==
    /\ hang.unresponsive /\ ~w.destroyed
    /\ hang' = RestartInputEventAckTimeoutIfNecessary(hang, w.hidden)
    /\ UNCHANGED <<w, r, frames, rectAcks, commits, mouse, keys, scroll, changes>>

\* Mutant: unblocking does not restart the timer of the events in flight.
StopOnAnyBlockChange ==
    /\ Change
    /\ ~w.destroyed
    /\ hang' = StopInputEventAckTimeout([hang EXCEPT !.blocked = ~@])
    /\ UNCHANGED <<w, r, frames, rectAcks, commits, mouse, keys, scroll>>

RenderProcessBlockedStateChanged ==
    /\ Change
    /\ ~w.destroyed
    /\ LET now == [hang EXCEPT !.blocked = ~@]
       IN  hang' = IF now.blocked
                   THEN StopInputEventAckTimeout(now)
                   ELSE RestartInputEventAckTimeoutIfNecessary(now, w.hidden)
    /\ UNCHANGED <<w, r, frames, rectAcks, commits, mouse, keys, scroll>>

IsIgnoringInputEvents == hang.blocked \/ ~w.delegate

\* The scroll begin or end that comes next in the stream of gesture events.
ForwardGestureEvent ==
    /\ Change
    /\ w.created
    /\ scroll' = [stream |-> ~scroll.stream,
                  host |-> IF IsIgnoringInputEvents THEN scroll.host ELSE ~scroll.stream]
    /\ UNCHANGED <<w, r, frames, rectAcks, commits, hang, mouse, keys>>

-----------------------------------------------------------------------------
(* The mouse lock.                                                         *)

\* A request is refused at once, or the delegate is asked.
RequestMouseLock ==
    /\ Change
    /\ ~w.destroyed /\ r.alive
    /\ ~mouse.pending /\ ~mouse.locked /\ w.view
    /\ mouse' = [mouse EXCEPT !.pending = w.delegate, !.callback = w.delegate, !.asked = w.delegate]
    /\ UNCHANGED <<w, r, frames, rectAcks, commits, hang, keys, scroll>>

\* The delegate's answer may come after the request was withdrawn.
GotResponseToLockMouseRequest ==
    /\ mouse.asked /\ w.delegate /\ ~w.destroyed
    /\ \E granted, locks \in BOOLEAN :
          LET heard    == [mouse EXCEPT !.asked = FALSE]
              answered == [heard EXCEPT !.pending = FALSE, !.callback = FALSE]
          IN  mouse' =
                IF ~granted THEN RejectMouseLockOrUnlockIfNecessary(heard)
                ELSE IF ~heard.pending THEN heard
                ELSE [answered EXCEPT !.locked = w.view /\ locks, !.context = w.view /\ locks]
    /\ UNCHANGED <<w, r, frames, rectAcks, commits, hang, keys, scroll, changes>>

\* From the renderer, or because it dropped the context.
UnlockMouse ==
    /\ Change
    /\ ~w.destroyed
    /\ mouse' = RejectMouseLockOrUnlockIfNecessary(mouse)
    /\ UNCHANGED <<w, r, frames, rectAcks, commits, hang, keys, scroll>>

\* The window loses the capture: the view unlocks on its own.
LostMouseLock ==
    /\ mouse.locked /\ w.view
    /\ mouse' = ViewUnlocksMouse(mouse)
    /\ UNCHANGED <<w, r, frames, rectAcks, commits, hang, keys, scroll, changes>>

-----------------------------------------------------------------------------
(* The focus and the keyboard lock.                                        *)

SetPageFocus ==
    /\ Change
    /\ ~w.destroyed
    /\ LET now == [keys EXCEPT !.focused = ~@]
       IN  keys' = IF ~now.focused THEN UnlockKeyboard(now)
                   ELSE IF now.allowed THEN LockKeyboard(now) ELSE now
    /\ mouse' = IF keys.focused /\ mouse.locked THEN ViewUnlocksMouse(mouse) ELSE mouse
    /\ UNCHANGED <<w, r, frames, rectAcks, commits, hang, scroll>>

RequestKeyboardLock ==
    /\ Change
    /\ ~w.destroyed
    /\ \E accepted \in BOOLEAN :
          keys' = IF w.delegate /\ accepted
                  THEN [keys EXCEPT !.requested = TRUE, !.asked = TRUE]
                  ELSE CancelKeyboardLock(keys)
    /\ UNCHANGED <<w, r, frames, rectAcks, commits, hang, mouse, scroll>>

\* The delegate may answer again while the request stands (full screen comes and goes).
GotResponseToKeyboardLockRequest ==
    /\ keys.asked /\ w.delegate /\ ~w.destroyed
    /\ \E allowed \in BOOLEAN :
          LET now == [keys EXCEPT !.allowed = allowed]
          IN  keys' = IF allowed THEN LockKeyboard(now) ELSE UnlockKeyboard(now)
    /\ UNCHANGED <<w, r, frames, rectAcks, commits, hang, mouse, scroll, changes>>

CancelKeyboardLockRequest ==
    /\ Change
    /\ ~w.destroyed
    /\ keys' = CancelKeyboardLock(keys)
    /\ UNCHANGED <<w, r, frames, rectAcks, commits, hang, mouse, scroll>>

-----------------------------------------------------------------------------
Geometry ==
    \/ SetView \/ CreateWidget \/ CreateWidgetForNewWindow \/ InitWidget
    \/ WasShown \/ WasHidden \/ RendererExited
    \/ ViewChanges \/ NotifyScreenInfoChanged
    \/ OnUpdateScreenRectsAck \/ OnLocalSurfaceIdChanged \/ DidNavigate
    \/ RendererReceives \/ RendererDraws \/ RendererCommitsNavigation \/ RendererDies

InputAndLocks ==
    \/ ShutdownAndDestroyWidget \/ DetachDelegate
    \/ IncrementInFlightEventCount \/ DecrementInFlightEventCount
    \/ OnInputEventAckTimeout \/ RestartHangMonitor \/ RenderProcessBlockedStateChanged
    \/ ForwardGestureEvent
    \/ RequestMouseLock \/ GotResponseToLockMouseRequest \/ UnlockMouse \/ LostMouseLock
    \/ SetPageFocus \/ RequestKeyboardLock \/ GotResponseToKeyboardLockRequest
    \/ CancelKeyboardLockRequest

Next == Geometry \/ InputAndLocks

\* The pipes deliver, a living renderer takes its messages and draws, and its exit is reported.
Fairness ==
    /\ WF_vars(RendererReceives) /\ WF_vars(RendererDraws)
    /\ WF_vars(OnUpdateScreenRectsAck) /\ WF_vars(OnLocalSurfaceIdChanged)
    /\ WF_vars(DidNavigate) /\ WF_vars(RendererExited)

Spec == Init /\ [][Next]_vars

FairSpec == Spec /\ Fairness

-----------------------------------------------------------------------------
TypeOK ==
    /\ w \in [created: BOOLEAN, waitingForInit: BOOLEAN, hidden: BOOLEAN, view: BOOLEAN,
              destroyed: BOOLEAN, delegate: BOOLEAN, pendingShow: BOOLEAN,
              staleShow: BOOLEAN, props: Props, old: Props \cup {None}, ackPending: BOOLEAN,
              bounds: Rects, lastRect: Rects \cup {None}, rectAck: BOOLEAN,
              out: Seq(Messages)]
    /\ r \in [alive: BOOLEAN, shown: BOOLEAN, dirty: BOOLEAN,
              props: Props \cup {None}, rect: Rects \cup {None}]
    /\ frames \in Nat /\ rectAcks \in Nat /\ commits \in Nat
    /\ hang \in [inFlight: 0..MaxInFlight, timer: BOOLEAN, unresponsive: BOOLEAN, blocked: BOOLEAN]
    /\ mouse \in [pending: BOOLEAN, callback: BOOLEAN, locked: BOOLEAN, context: BOOLEAN,
                  asked: BOOLEAN]
    /\ keys \in [requested: BOOLEAN, allowed: BOOLEAN, locked: BOOLEAN, focused: BOOLEAN,
                 asked: BOOLEAN]
    /\ scroll \in [host: BOOLEAN, stream: BOOLEAN]
    /\ changes \in 0..MaxChanges

InPipe(kind) == \E i \in 1..Len(w.out) : w.out[i].kind = kind

(* A throttle is only closed while the answer that opens it is on its way: *)
(* the host never waits for the answer to an update the renderer does not  *)
(* have or will not answer, through hiding, navigations and new renderers. *)
ThrottlesOpen ==
    w.created /\ r.alive =>
        /\ w.ackPending => frames > 0 \/ r.dirty \/ commits > 0 \/ InPipe("props")
        /\ w.rectAck => rectAcks > 0 \/ InPipe("rects")

(* Once nothing changes any more, the renderer of a shown widget has the   *)
(* geometry its view has, although updates in between were swallowed by    *)
(* the throttles.                                                          *)
RendererHasGeometry ==
    <>[](w.created /\ r.alive /\ w.delegate /\ ~w.hidden /\ ~w.waitingForInit /\ w.props.size # 0
            => r.props = w.props /\ r.rect = w.bounds)

HasHeardAll == w.created /\ r.alive /\ w.out = <<>> /\ ~w.waitingForInit

(* A renderer that has taken all its messages knows whether its widget is  *)
(* shown, although shows and hides before Init() are kept back and the     *)
(* renderer may exit at any time.  One hide may be left out: that of a     *)
(* widget whose former renderer exited before Init(), when RendererExited()*)
(* kept the show that was pending (staleShow).                             *)
RendererKnowsVisibility ==
    HasHeardAll => (r.shown <=> ~w.hidden) \/ (w.hidden /\ w.staleShow)

(* "so that the renderer will have correct visibility set when respawned"  *)
(* (RendererExited(), render_widget_host_impl.cc:2272).  The code violates *)
(* it: pending_show_params_ outlives a renderer that exits before Init(),  *)
(* WasShown() for the next one expects none (DCHECK at :898), and its      *)
(* WasHidden() drops them where it should tell that renderer.              *)
RespawnedKnowsVisibility == HasHeardAll => (r.shown <=> ~w.hidden)

(* The host's picture of its renderer is right: what it waits for will     *)
(* come, and what it believes to have said was heard.                      *)
RendererIsInStep == ThrottlesOpen /\ RendererKnowsVisibility

(* Unanswered events of a shown widget are watched or reported, whatever   *)
(* was hidden, blocked, shown and unblocked meanwhile, and a hang is not   *)
(* reported of a widget with nothing in flight, nor of a hidden one whose  *)
(* renderer lives.                                                         *)
HangIsWatched ==
    /\ TypeOK
    /\ w.created /\ ~w.hidden /\ ~hang.blocked /\ hang.inFlight > 0
          => hang.timer \/ hang.unresponsive
    /\ (hang.timer \/ hang.unresponsive) /\ ~w.destroyed
          => hang.inFlight > 0 /\ (w.created => ~w.hidden)

(* The callback of a mouse lock request is there exactly while the request *)
(* is pending, never while the mouse is locked; each lock is held by a     *)
(* view; and the keyboard is locked only for a page that has the focus,    *)
(* asked for it, and is still allowed to.                                  *)
LocksAreHeld ==
    /\ mouse.pending <=> mouse.callback
    /\ ~(mouse.pending /\ mouse.locked)
    /\ mouse.locked => w.view /\ mouse.context
    /\ keys.locked => w.view /\ keys.focused /\ keys.requested /\ keys.allowed

(* ForwardGestureEventWithLatencyInfo() expects a scroll to begin when     *)
(* none is in progress and to end when one is (DCHECKs).                   *)
ScrollBeginsAndEnds == ~IsIgnoringInputEvents => (scroll.host <=> scroll.stream)

=============================================================================
