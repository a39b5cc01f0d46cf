-------------------------------- MODULE TabDrag --------------------------------
(***************************************************************************)
(* Dragging tabs with the mouse between tab strips, out into a window of   *)
(* their own, and back.  The TabDragController is owned by the tab strip   *)
(* the tabs are attached to and changes owner with them.  A dragged window *)
(* is moved by a nested native loop, inside which mouse moves, keys, tabs  *)
(* closed by their pages and capture changes still reach the controller,   *)
(* and many calls it makes may end the drag, and with it the controller.   *)
(* The tab strip model and the windows are modelled by what this code      *)
(* asks of them.                                                           *)
(***************************************************************************)
EXTENDS Integers, Sequences, SequencesExt, FiniteSets

CONSTANTS
    Browsers,    \* the windows there can be, each with one tab strip
    Strips,     \* the tabs of each window at the start; none: not created yet
    Tabs,       \* all tabs, those that are opened later included
    Child,      \* windows a host application embeds (WS_CHILD)
    MaxEvents,  \* bound: tabs opened and closed, and presses, which count two
    Null

ASSUME StripsAssumption ==
    /\ Strips \in [Browsers -> Seq(Tabs)] /\ IsFiniteSet(Tabs)
    /\ \A w \in Browsers : IsInjective(Strips[w])  \* a tab is in one place
    /\ \A w, x \in Browsers : w # x => ToSet(Strips[w]) \cap ToSet(Strips[x]) = {}
    /\ Child \subseteq Browsers /\ Null \notin Browsers \cup Tabs
    /\ MaxEvents \in Nat

VARIABLES
    strip,     \* the tabs of every window, in order
    window,    \* unborn, open, hidden, closing (deletion posted) or gone
    views,     \* the tabs whose view is dragged, and those of them that animate back
    drag,      \* the TabDragController
    capture,   \* the window that has mouse capture
    button,    \* the mouse button
    stack,     \* activations of the controller that have called out
    history,   \* for the properties: the strips when the drag began, what happened since
    failed     \* the checks of the code that have failed
tabDragVars == <<strip, window, views, drag, capture, button, stack, history, failed>>

States == {"NotStarted", "DraggingTabs", "DraggingWindow", "WaitingToDragTabs", "Stopped"}
NoDrag == [alive |-> FALSE, state |-> "NotStarted", owner |-> Null, source |-> Null,
           attached |-> Null, data |-> <<>>, newBrowser |-> FALSE, inLoop |-> FALSE,
           target |-> Null, tracked |-> Null, observed |-> Null]

State == [strip |-> strip, window |-> window, views |-> views, drag |-> drag,
          capture |-> capture, button |-> button, stack |-> stack, history |-> history,
          failed |-> failed]
Becomes(s) == \E r \in {s} :
    /\ strip' = r.strip /\ window' = r.window /\ views' = r.views /\ drag' = r.drag
    /\ capture' = r.capture /\ button' = r.button /\ stack' = r.stack
    /\ history' = r.history /\ failed' = r.failed
Check(s, holds, name) == IF holds THEN s ELSE [s EXCEPT !.failed = @ \cup {name}]

Top(s) == Last(s.stack)
At(s) == IF s.stack = <<>> THEN "EventLoop" ELSE Top(s).at
Push(s, at) == [s EXCEPT !.stack = Append(@, [at |-> at, ending |-> FALSE, result |-> "done"])]
Pop(s) == [s EXCEPT !.stack = Front(@)]

Dragged(s) == {s.drag.data[i].tab : i \in DOMAIN s.drag.data} \ {Null}
Place(seq, t) == CHOOSE i \in DOMAIN seq : seq[i] = t
Only(seq, ts) ==
    LET kept[n \in 0 .. Len(seq)] ==
            IF n = 0 THEN <<>>
            ELSE IF seq[n] \in ts THEN Append(kept[n - 1], seq[n]) ELSE kept[n - 1]
    IN kept[Len(seq)]
Without(seq, ts) == Only(seq, ToSet(seq) \ ts)
InsertBlock(seq, p, block) == SubSeq(seq, 1, p) \o block \o SubSeq(seq, p + 1, Len(seq))
\* TabStripModel keeps an index it is given inside the strip.
InsertTab(seq, i, t) == LET n == IF i > Len(seq) + 1 THEN Len(seq) + 1 ELSE i
                        IN InsertBlock(seq, n - 1, <<t>>)

--------------------------------------------------------------------------------
\* Mutant: the source strip is not forgotten when it becomes empty
AfterRemovalKeepsSource(s, w, removing_last) ==
    IF s.strip[w] # <<>> \/ (s.drag.alive /\ s.drag.owner = w /\ ~removing_last) THEN s
    ELSE [s EXCEPT !.window[w] = "closing", !.capture = IF @ = w THEN Null ELSE @]
\* A strip that has lost its last tab closes its window, unless a drag session that is
\* not moving this tab back is active there (TabStripEmpty, IsTabStripCloseable).
AfterRemoval(s, w, removing_last) ==
    IF s.strip[w] # <<>> THEN s
    ELSE LET emptied == IF s.drag.source = w THEN [s EXCEPT !.drag.source = Null] ELSE s
         IN IF s.drag.alive /\ s.drag.owner = w /\ ~removing_last THEN emptied
            ELSE [emptied EXCEPT !.window[w] = "closing",
                                 !.capture = IF @ = w THEN Null ELSE @]

MatchingViews(s, w) ==
    IF \A i \in DOMAIN s.drag.data : s.drag.data[i].tab \in ToSet(s.strip[w])
    THEN Dragged(s) ELSE {}

StoppedDragging(s, tabs) == [s EXCEPT !.views.animating = @ \cup tabs]

\* The dragged tabs come first in the strip, unless they are in it.
Inserted(s, w) ==
    IF MatchingViews(s, w) # {} THEN s
    ELSE [s EXCEPT !.strip[w] = [i \in DOMAIN s.drag.data |-> s.drag.data[i].tab] \o @]

\* The container's CompleteAnimationAndLayout() leaves no dragged tab animating.
StartedDragging(s, w) ==
    LET still == Check(s, s.views.dragged \cap ToSet(s.strip[w]) = {},
                       "No tabs should be dragging")
    IN [still EXCEPT !.views.dragged = @ \cup Dragged(s), !.views.animating = @ \ Dragged(s)]

\* Mutant: the new strip's window does not take capture
AttachWithoutCapture(s, w, controller) ==
    [StartedDragging(Inserted([s EXCEPT !.drag.attached = w], w), w)
        EXCEPT !.drag.owner = w, !.drag.tracked = w]
\* controller: the caller holds the controller, Attach() gives it to the new strip.
Attach(s, w, controller) ==
    LET free == Check(s, s.drag.attached = Null /\
                         s.drag.owner = (IF controller THEN Null ELSE w), "Attach()")
    IN [StartedDragging(Inserted([free EXCEPT !.drag.attached = w], w), w)
           EXCEPT !.capture = w, !.drag.owner = w, !.drag.tracked = w]

\* The strip gives up the controller and loses the dragged tabs.
TakenOut(s, w, release_capture) ==
    [s EXCEPT !.drag.owner = Null, !.drag.tracked = Null, !.drag.observed = Null,
              !.capture = IF release_capture /\ @ = w THEN Null ELSE @,
              !.strip[w] = Without(@, Dragged(s)),
              !.views.dragged = @ \ Dragged(s),
              !.views.animating = @ \ Dragged(s)]

Detach(s, release_capture) ==
    LET w == s.drag.attached
        held == Check(s, s.drag.owner = w /\ Dragged(s) \subseteq ToSet(s.strip[w]), "Detach()")
    IN [AfterRemoval(TakenOut(held, w, release_capture), w, FALSE) EXCEPT !.drag.attached = Null]

DetachAndAttachToNewContext(s, release_capture, w) == Attach(Detach(s, release_capture), w, TRUE)

\* MoveSelectedTabsTo(): the dragged tabs become a block with p other tabs before it.
MoveAttached(s, p) ==
    LET w == s.drag.attached
        others == Without(s.strip[w], Dragged(s))
        at == IF p > Len(others) THEN Len(others) ELSE p
    IN [Check(s, w # Null /\ s.drag.state = "DraggingTabs", "MoveAttached()")
          EXCEPT !.strip[w] = InsertBlock(others, at, Only(s.strip[w], Dragged(s)))]

--------------------------------------------------------------------------------
\* Mutant: the tabs that are still to be reverted are not stepped over
RevertIndexOnly(s, i) == s.drag.data[i].index
\* Where the tab was: when that is to its right, other tabs still to be reverted lie
\* before it and will go behind it.
RevertIndex(s, i) ==
    LET w == s.drag.source
        target == s.drag.data[i].index
        later == {j \in i + 1 .. Len(s.drag.data) : s.drag.data[j].tab # Null}
    IN IF s.drag.attached = w /\ target > Place(s.strip[w], s.drag.data[i].tab)
       THEN target + Cardinality(later) ELSE target

\* Mutant: is_removing_last_tab_for_revert_ is never set
NeverRemovingLastTab(s) == FALSE
IsRemovingLastTabForRevert(s) == Len(s.strip[s.drag.attached]) = 1

RevertDragAt(s, i) ==
    LET w == s.drag.attached
        t == s.drag.data[i].tab
        taken == [s EXCEPT !.strip[w] = Without(@, {t})]
        left == IF w = s.drag.source THEN taken
                ELSE AfterRemoval([taken EXCEPT !.views.dragged = @ \ {t}], w,
                                  IsRemovingLastTabForRevert(s))
    IN IF t = Null THEN s
       ELSE [left EXCEPT !.strip[s.drag.source] = InsertTab(@, RevertIndex(s, i), t)]

RevertDrag(s) ==
    LET reverted[n \in 0 .. Len(s.drag.data)] ==
            IF n = 0 THEN Check(s, s.drag.source # Null, "RevertDragAt()")
            ELSE RevertDragAt(reverted[n - 1], n)
        back == reverted[Len(s.drag.data)]
    IN IF s.drag.attached = s.drag.source THEN StoppedDragging(back, Dragged(s)) ELSE back

CompleteDrag(s) == StoppedDragging(s, MatchingViews(s, s.drag.attached))

\* The controller is destroyed through the strip it believes it belongs to.
EndDragImpl(s, canceled) ==
    LET started == s.drag.state # "NotStarted"
        stopped == [s EXCEPT !.drag.state = "Stopped", !.drag.tracked = Null]
        done == IF ~started THEN stopped
                ELSE IF canceled THEN RevertDrag(stopped) ELSE CompleteDrag(stopped)
        owning == IF done.drag.attached # Null THEN done.drag.attached ELSE done.drag.source
        ended == [done EXCEPT !.drag.data = <<>>,
                              !.history.ended = IF ~started THEN "none"
                                                ELSE IF canceled THEN "reverted" ELSE "completed"]
    IN IF owning = ended.drag.owner THEN [ended EXCEPT !.drag = NoDrag]
       ELSE Check(ended, FALSE, "DestroyDragController()")

EndMoveLoop(s) ==
    [s EXCEPT !.stack = [i \in DOMAIN @ |-> IF @[i].at = "Loop" THEN [@[i] EXCEPT !.ending = TRUE]
                                            ELSE @[i]]]

EndDrag(s, reason) ==
    IF reason = "capture lost" /\ s.drag.state = "DraggingWindow" THEN s
    ELSE EndDragImpl(IF s.drag.state = "DraggingWindow" /\ s.drag.inLoop THEN EndMoveLoop(s)
                     ELSE s,
                     reason # "complete" /\ s.drag.source # Null)

\* A strip passes events on to the controller it owns, if it owns one.
ContextEndDrag(s, w, reason) ==
    IF s.drag.alive /\ s.drag.owner = w THEN EndDrag(s, reason) ELSE s

--------------------------------------------------------------------------------
\* Capture is released while the strip does not own the controller, so that losing it
\* does not end the drag.
RunMoveLoop(s) ==
    LET nested == Check(s, ~s.drag.inLoop, "CHECK(!in_move_loop_)")
    IN Push([nested EXCEPT !.drag.state = "DraggingWindow", !.drag.inLoop = TRUE,
                           !.drag.observed = s.drag.attached, !.capture = Null], "Loop")

NewWindows(s) == {w \in Browsers : s.window[w] = "unborn"}

\* All tabs of the window: the window itself is dragged.  Else they get a new one, and
\* Activate() of it may end the drag before its loop starts.
DetachIntoNewBrowserAndRunMoveLoop(s, n) ==
    IF Len(s.strip[s.drag.attached]) = Len(s.drag.data) THEN RunMoveLoop(s)
    ELSE Push(DetachAndAttachToNewContext(
                  [s EXCEPT !.window[n] = "open", !.drag.newBrowser = TRUE], TRUE, n), "Show")

DragBrowserToNewTabStrip(s, target, n, p) ==
    IF target = Null THEN DetachIntoNewBrowserAndRunMoveLoop(s, n)
    ELSE IF s.drag.state = "DraggingWindow"
    THEN EndMoveLoop([s EXCEPT !.window[s.drag.attached] = "hidden", !.drag.target = target,
                               !.drag.state = "WaitingToDragTabs"])
    ELSE MoveAttached(DetachAndAttachToNewContext(s, FALSE, target), p)

\* found: the window of this process under the mouse that takes tabs and whose strip
\* contains the point; a dragged window is not looked for itself.
ContinueDragging(s, found, n, p) ==
    LET target == IF found = Null /\ s.drag.state = "DraggingWindow" THEN s.drag.attached
                  ELSE found
    IN IF target # s.drag.attached
       THEN DragBrowserToNewTabStrip([s EXCEPT !.drag.newBrowser = FALSE], target, n, p)
       ELSE IF s.drag.state = "DraggingTabs" THEN MoveAttached(s, p) ELSE s

\* Drag() once the mouse has moved far enough: SaveFocus() may end the drag.
Drag(s) ==
    IF s.drag.state \in {"WaitingToDragTabs", "Stopped"} THEN s
    ELSE Push(s, IF s.drag.state = "NotStarted" THEN "SaveFocus" ELSE "Finder")

StartDrag(s) ==
    LET attached == Attach([s EXCEPT !.drag.state = "DraggingTabs"], s.drag.source, FALSE)
    IN IF Len(s.drag.data) = Len(s.strip[s.drag.source]) THEN RunMoveLoop(attached)
       ELSE Push(attached, "Finder")

\* The loop has returned: the tabs move into the strip the window was dragged to, or the
\* drag ends.
AfterMoveLoop(s, result, p) ==
    LET out == [s EXCEPT !.drag.inLoop = FALSE, !.drag.observed = Null]
    IN IF s.drag.state = "WaitingToDragTabs"
       THEN LET there == DetachAndAttachToNewContext(out, FALSE, s.drag.target)
            IN Push(MoveAttached([there EXCEPT !.drag.state = "DraggingTabs"], p), "AfterLoop")
       ELSE IF s.drag.state = "DraggingWindow"
       THEN EndDrag(out, IF result = "canceled" THEN "cancel" ELSE "complete")
       ELSE out

--------------------------------------------------------------------------------
TabDragInit ==
    /\ strip = Strips
    /\ window = [w \in Browsers |-> IF Strips[w] = <<>> THEN "unborn" ELSE "open"]
    /\ views = [dragged |-> {}, animating |-> {}]
    /\ drag = NoDrag
    /\ capture = Null /\ button = "up" /\ stack = <<>>
    /\ history = [before |-> Strips, disturbed |-> FALSE, ended |-> "none", quick |-> FALSE,
                  drags |-> 0, changes |-> 0]
    /\ failed = {}

\* Events are dispatched by the thread's own loop or by the native loop of a dragged
\* window, which takes no more of them once it has been told to end.
Dispatching == At(State) = "EventLoop" \/ (At(State) = "Loop" /\ ~Top(State).ending)
Live == UNION {ToSet(strip[w]) : w \in Browsers}
Events == 2 * history.drags + history.changes

\* MaybeStartDrag() and Init(): the press takes capture.  Tabs of an earlier drag may still
\* animate to their place: MaybeStartDrag() asks the tab container, which is external, and
\* whether that counts animations of the drag context is left open.
Press ==
    \E w \in Browsers, dragged \in (SUBSET Live) \ {{}} :
        /\ At(State) = "EventLoop" /\ button = "up" /\ capture = Null /\ ~drag.alive
        /\ window[w] = "open" /\ dragged \subseteq ToSet(strip[w])
        /\ drag' = [NoDrag EXCEPT !.alive = TRUE, !.owner = w, !.source = w,
                        !.data = [i \in 1 .. Cardinality(dragged) |->
                            LET t == Only(strip[w], dragged)[i]
                            IN [tab |-> t, index |-> Place(strip[w], t)]]]
        /\ capture' = w /\ button' = "down"
        /\ Events + 2 <= MaxEvents
        /\ history' = [history EXCEPT !.before = strip, !.disturbed = FALSE, !.ended = "none",
                                      !.quick = @ \/ views.dragged # {}, !.drags = @ + 1]
        /\ UNCHANGED <<strip, window, views, stack, failed>>

\* A mouse event of the capturing window, or a change of the bounds of the window the
\* native loop moves.  A window of a host application is not dragged.
MouseMove ==
    /\ button = "down" /\ drag.alive
    /\ \/ At(State) = "EventLoop" /\ capture = drag.owner
       \/ At(State) = "Loop" /\ ~Top(State).ending /\ drag.observed # Null
    /\ drag.state = "NotStarted" => drag.source \notin Child
    /\ Becomes(Drag(State))

AfterSaveFocus ==
    /\ At(State) = "SaveFocus"
    /\ Becomes(IF drag.alive THEN StartDrag(Pop(State)) ELSE Pop(State))

\* GetLocalProcessWindow() has looked for the window, which may have ended the drag.
AfterFinder ==
    /\ At(State) = "Finder"
    /\ \/ ~drag.alive /\ Becomes(Pop(State))
       \/ /\ drag.alive
          /\ \E found \in {w \in Browsers : window[w] = "open"} \cup {Null},
                n \in NewWindows(State) \cup {Null}, p \in 0 .. Cardinality(Live) :
                /\ drag.state = "DraggingWindow" => found # drag.attached
                /\ (found = Null /\ drag.state = "DraggingTabs") =>
                       (n # Null \/ Len(strip[drag.attached]) = Len(drag.data))
                /\ p <= Len(strip[IF found = Null THEN drag.attached ELSE found])
                /\ Becomes(ContinueDragging(Pop(State), found, n, p))

AfterShow ==
    /\ At(State) = "Show"
    /\ Becomes(IF drag.alive THEN RunMoveLoop(Pop(State)) ELSE Pop(State))

LoopReturns ==
    /\ At(State) = "Loop" /\ Top(State).ending
    /\ \E p \in 0 .. Cardinality(Live) :
           Becomes(IF drag.alive THEN AfterMoveLoop(Pop(State), Top(State).result, p)
                   ELSE Pop(State))

AfterLoopActivates ==
    /\ At(State) = "AfterLoop"
    /\ Becomes(IF drag.alive THEN [Pop(State) EXCEPT !.drag.target = Null] ELSE Pop(State))

--------------------------------------------------------------------------------
ReleaseButton ==
    /\ button = "down" /\ button' = "up"
    /\ UNCHANGED <<strip, window, views, drag, capture, stack, history, failed>>

\* The release is a message of the window that has capture, or ends the native loop.
ReleaseIsHandled ==
    /\ button = "up"
    /\ \/ /\ At(State) = "EventLoop" /\ capture # Null
          /\ Becomes([ContextEndDrag(State, capture, "complete") EXCEPT !.capture = Null])
       \/ /\ At(State) = "Loop" /\ ~Top(State).ending
          /\ Becomes(EndMoveLoop(State))

\* The native loop handles Esc itself, and ends when the system cancels it.
LoopIsCanceled ==
    /\ At(State) = "Loop" /\ ~Top(State).ending
    /\ Becomes([State EXCEPT !.stack[Len(stack)].ending = TRUE,
                             !.stack[Len(stack)].result = "canceled"])

\* Another window or application takes capture, also because of a focus change inside
\* SaveFocus(), Activate() or the search for a window.
CaptureIsLost ==
    /\ capture # Null
    /\ Becomes(ContextEndDrag([State EXCEPT !.capture = Null], capture, "capture lost"))

KeyPressed ==
    /\ Dispatching /\ drag.alive
    /\ \E reason \in {"complete", "cancel"} : Becomes(EndDrag(State, reason))

\* A page or the user opens a tab, at the end of a strip and in the background.
OpenTab ==
    \E w \in Browsers, t \in Tabs \ Live :
        /\ Dispatching /\ window[w] = "open" /\ Events < MaxEvents
        /\ LET added == [State EXCEPT !.strip[w] = Append(@, t), !.history.disturbed = TRUE,
                                      !.history.changes = @ + 1]
           IN Becomes(IF drag.state = "DraggingWindow"
                      THEN ContextEndDrag(added, w, "complete") ELSE added)

\* A tab that is dragged ends the drag before it is removed.
RemoveTab(s, w, t) ==
    LET ended == IF t \in Dragged(s) THEN ContextEndDrag(s, w, "complete") ELSE s
        data == [i \in DOMAIN ended.drag.data |->
                    IF ended.drag.tracked = w /\ ended.drag.data[i].tab = t
                    THEN [ended.drag.data[i] EXCEPT !.tab = Null] ELSE ended.drag.data[i]]
    IN AfterRemoval([ended EXCEPT !.strip[w] = Without(@, {t}), !.drag.data = data,
                                  !.views.dragged = @ \ {t}, !.views.animating = @ \ {t},
                                  !.history.disturbed = TRUE, !.history.changes = @ + 1],
                    w, FALSE)
CloseTab ==
    \E w \in Browsers, t \in Live :
        /\ Dispatching /\ Events < MaxEvents /\ t \in ToSet(strip[w])
        /\ Becomes(RemoveTab(State, w, t))

\* The posted deletion of a closed window: its tab strip destroys a controller it owns.
DeleteWindow ==
    \E w \in Browsers :
        /\ Dispatching /\ window[w] = "closing"
        /\ Becomes(Check([State EXCEPT !.window[w] = "gone",
                              !.drag = IF drag.alive /\ drag.owner = w THEN NoDrag ELSE @],
                         drag.alive => drag.owner # w, "deleted with its strip"))

AnimationEnds ==
    /\ Dispatching /\ views.animating # {}
    /\ views' = [dragged |-> views.dragged \ views.animating, animating |-> {}]
    /\ UNCHANGED <<strip, window, drag, capture, button, stack, history, failed>>

Returns == AfterSaveFocus \/ AfterFinder \/ AfterShow \/ LoopReturns \/ AfterLoopActivates
TabDragNext ==
    \/ Press \/ MouseMove \/ Returns \/ ReleaseButton \/ ReleaseIsHandled \/ LoopIsCanceled
    \/ CaptureIsLost \/ KeyPressed \/ OpenTab \/ CloseTab \/ DeleteWindow \/ AnimationEnds

TabDragSpec == TabDragInit /\ [][TabDragNext]_tabDragVars
\* Callouts and loops that have been told to end return, the release is dispatched and
\* animations end: the states each of these steps leaves do not last (weak fairness, written
\* without ENABLED because every one of these steps disables itself).
CallsOut == At(State) \in {"SaveFocus", "Finder", "Show", "AfterLoop"} \/
            (At(State) = "Loop" /\ Top(State).ending)
ReleaseWaits == button = "up" /\ (IF At(State) = "EventLoop" THEN capture # Null ELSE
                                 At(State) = "Loop" /\ ~Top(State).ending)
FairTabDragSpec ==
    TabDragSpec /\ []<>~CallsOut /\ []<>~ReleaseWaits /\ []<>(views.animating = {})

--------------------------------------------------------------------------------
TabDragTypeOK ==
    /\ strip \in [Browsers -> Seq(Tabs)]
    /\ window \in [Browsers -> {"unborn", "open", "hidden", "closing", "gone"}]
    /\ views.dragged \subseteq Tabs /\ views.animating \subseteq views.dragged
    /\ drag.state \in States /\ drag.alive \in BOOLEAN /\ drag.inLoop \in BOOLEAN
    /\ {drag.owner, drag.source, drag.attached, drag.target, capture} \subseteq
           Browsers \cup {Null}
    /\ button \in {"up", "down"}

(* No check of the code fails, however the callbacks interleave: move loops do not nest,
   the controller is where Attach() and Detach() expect it, a drag is only reverted while
   its source strip is there, and the strip the controller asks to destroy it owns it.  One
   may fail, and only once a button was pressed while tabs of the last drag still animated,
   which Press allows: StartedDragging() may then find tabs dragging (tab_strip.cc:552). *)
ChecksHold ==
    /\ TabDragTypeOK
    /\ failed \subseteq {"No tabs should be dragging"}
    /\ ~history.quick => failed = {}

(* Between events the controller belongs to the strip its tabs are in, that strip's window
   still exists, and nothing the controller points at has been deleted: closing tabs and
   windows during a drag never leaves it with a stale context. *)
OwnerHoldsTheDrag ==
    drag.alive =>
        /\ drag.owner = (IF drag.attached # Null THEN drag.attached ELSE drag.source)
        /\ drag.attached # Null => Dragged(State) \subseteq ToSet(strip[drag.attached])
        /\ drag.owner # Null
        /\ \A w \in {drag.owner, drag.source, drag.target} \ {Null} :
               window[w] \in {"open", "hidden"}
        /\ drag.state = "DraggingWindow" => ToSet(strip[drag.attached]) = Dragged(State)

(* Both: no callback finds the controller, its strips and their windows out of step. *)
DragIsConsistent == ChecksHold /\ OwnerHoldsTheDrag

(* No tab is lost or doubled by detaching, attaching and reverting; once the drag is over
   no window is left open without tabs and none with tabs stays hidden. *)
TabsAreKept ==
    /\ \A w, x \in Browsers, i, j \in 1 .. Cardinality(Tabs) :
           (i \in DOMAIN strip[w] /\ j \in DOMAIN strip[x] /\ strip[w][i] = strip[x][j])
               => w = x /\ i = j
    /\ \A w \in Browsers :
           /\ strip[w] # <<>> => window[w] \in {"open", "hidden"}
           /\ stack = <<>> => window[w] # "hidden" /\ (window[w] = "open" => strip[w] # <<>>)

(* A drag that is cancelled puts every tab back: all strips are as they were when the
   button was pressed, whatever strips and windows the tabs went through, unless tabs were
   opened or closed meanwhile. *)
CancelRestores ==
    (history.ended = "reverted" /\ ~history.disturbed) => strip = history.before

(* Once the button is released the drag ends: the release always reaches the controller,
   through capture or through the native loop, and the views stop being dragged. *)
ReleaseEndsDrag ==
    button = "up" ~> (button = "down" \/ (~drag.alive /\ views.dragged = {}))
================================================================================
