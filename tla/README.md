# A verification development of WebRT / Chromium

The repository holds the parts of Chromium that TangramTeam changed to build the WebRT
runtime, under `src/ChromiumSRC/src/` (paths below are relative to it): about 120 000
lines, of which the files that were changed are complete and the ones they call are
mostly absent.  This directory models the parts that carry control of their own in TLA+,
model-checks them with TLC and proves theorems about them with TLAPS.

`PROJECT.json` is the index: components, runs, mutants (small bugs that make a checked
property fail), the map from definitions to source lines, findings, hazards, theorems.

## 1. Inventory

### Message pumps and thread controller (modelled)

| Part | State | Operations | Interacts with |
|---|---|---|---|
| `base/message_loop/message_pump_win.cc`, `MessagePumpForUI` | `work_scheduled_` (atomic), `in_native_loop_`, `installed_native_timer_`, `run_state_` of each nested `Run()`, the WebRT member `more_work_is_plausible` | `ScheduleWork` (any thread), `ScheduleDelayedWork`, `Run`/`DoRunLoop`, `Quit`, `WaitForWork`, `HandleWorkMessage`, `HandleTimerMessage`, `ProcessPumpReplacementMessage` | the Windows message queue, the delegate, native modal loops, other threads' sent messages, the WebRT delegate |
| the same file, `MessagePumpForIO` | `work_scheduled_`, `run_state_`, the completion port | `ScheduleWork`, `DoRunLoop`, `WaitForWork`, `GetIOItem`, `ProcessInternalIOItem` | the port, I/O handlers, the delegate |
| `base/message_loop/message_pump.h` | none: the contract between a pump and its delegate | `Run`, `Quit`, `ScheduleWork`, `ScheduleDelayedWork`, `DoWork`, `DoIdleWork` | |
| `base/task/sequence_manager/thread_controller_with_message_pump_impl.cc` | `task_execution_allowed`, `quit_pending`, `quit_runloop_after`, `next_delayed_do_work`, the work deduplicator | `ScheduleWork`, `SetNextDelayedDoWork`, `DoWork`, `DoIdleWork`, `Run`, `Quit`, `SetTaskExecutionAllowed` | a pump, the task source, posting threads, power monitor |

Hard here: any thread races with the bound thread over one flag; handlers and tasks
re-enter the pump through nested run loops and through native modal loops the pump does
not control; the queue may be full; a timer message outlives its timer; a flag that is
wrong once loses every later wake-up.  Correct means: no wake-up is lost or doubled, every
request is answered, delays are honoured, a quit is honoured, tasks do not reenter.

### Renderer process host (modelled)

`content/browser/renderer_host/render_process_host_impl.cc`: a renderer process and its IPC
channel.  State: `is_initialized_`, `is_dead_`, the launcher, the channel and its invitation,
`channel_connected_`, `deleting_soon_`, `fast_shutdown_started_`,
`within_process_died_observer_`, `delayed_cleanup_needed_`, the keep-alive, worker and
shutdown-delay counts, listeners, observers, the spare host.  Operations: `Init`,
`OnProcessLaunched`, `OnProcessLaunchFailed`, `OnChannelConnected`, `OnChannelError`,
`ProcessDied`, `Cleanup`, `FastShutdownIfPossible`, `EnableSendQueue`, `AddRoute`,
`RemoveRoute`, the counts.  It is used by frame hosts (routes, the flag of a created frame, their
destructors), by other listeners, by workers and by the spare host manager.  Hard: launch
results, channel errors and deletions arrive asynchronously, observers re-enter during a
death, a dead host may be initialised again.  Correct means: each death is told once and the
destruction last, the host is deleted exactly when nothing refers to it, and channel and flags
belong to the process it serves.

### Render frame host and frame (three protocols modelled)

`content/browser/renderer_host/render_frame_host_impl.cc` and
`content/renderer/render_frame_impl.cc`: the two ends of a frame, in the browser and in a
renderer, which talk over one ordered channel and start things at the same time.

| Protocol | State | Operations | Interacts with |
|---|---|---|---|
| beforeunload | `is_waiting_for_beforeunload_completion_`, `beforeunload_pending_replies_`, the shared timer, `unload_ack_is_for_navigation_`, `has_shown_beforeunload_dialog_` of each frame | `DispatchBeforeUnload`, `ProcessBeforeUnloadCompleted`, `SimulateBeforeUnloadCompleted`, `RunBeforeUnloadConfirm`, `JavaScriptDialogClosed`, `ResetWaitingState`, the timeout | renderers of several processes, the user's dialogs, the navigator, the render manager |
| life and deletion | `lifecycle_state_`, `is_waiting_for_unload_ack_`, the unload monitor and the deletion timer, children | `AddChild`, `RemoveChild`, `Unload`, `DeleteRenderFrame`, `StartPendingDeletionOnSubtree`, `PendingDeletionCheckCompleted`, `OnUnloadACK`, `Detach`, `DetachFromProxy`, crash | the render manager, renderers, the back-forward cache |
| navigation | `navigation_requests_`, `same_document_navigation_requests_`, `is_loading_`; in the renderer `navigation_client_impl_`, the provisional frame, the MHTML body loader | `BeginNavigation`, `CommitNavigation`, `FailedNavigation`, `DidCommitNavigation`, the same-document pair, `SwapIn`, `Unload`, `UndoCommitNavigation`, `Delete`, `DidStopLoading`, crash | Navigator, Blink |

Hard: both sides navigate at once, answers arrive for rounds, requests and hosts that are
gone, timers race answers, a subtree spans processes, any process dies.  Correct means: nobody is told to go on
before everyone was heard, every wait ends, no host outlives its frame, the two sides agree on
the document, and the tab stops loading.

### Render widget host (modelled in part)

`render_widget_host_impl.cc`: the browser's end of a widget.  State: visibility, the visual
properties and screen rects sent last with their pending acknowledgements, events in flight and
the hang timer, mouse and keyboard lock, the pending show.  Hard: updates are throttled to
answers that navigations, crashes and hiding take away.  Correct means: no throttle stays
closed, the renderer ends with the view's geometry and visibility, a hang is watched, locks
belong to a view that may hold them.

### Windows, tabs and input

* `chrome/browser/ui/views/tabs/tab_drag_controller.cc` (modelled): a drag session owned by
  the tab strip its tabs are in, with a native move loop nested in it; anything may happen in
  that loop, the end of the session included.  Correct means: no stale context, no tab lost, a
  cancelled drag undone, a release that always ends the session.
* `ui/aura/native_window_occlusion_tracker_win.cc` (modelled): a tracker on the UI thread and a
  calculator on a thread of its own that follows the window events of the system.  Correct
  means: hooks are there when windows are shown, and what hosts are told settles on the truth.
* `chrome/browser/ui/browser.cc`: the closing protocol, whose controller
  (`unload_controller.cc`) is not in the repository; `chrome/browser/devtools/
  devtools_window.cc`: load/show stages and intercepted close.
* `components/omnibox/browser/omnibox_edit_model.cc`: input in progress, keyword mode.
* `legacy_render_widget_host_win.cc`, and views without state that outlives a call
  (`browser_view*.cc`, `glass_browser_*.cc`, `tab_strip.cc` apart from the drag context,
  `tab.cc`, layout): not modelled.

### Operating system services (on the plan where concurrent)

* `sandbox/win/src/broker_services.cc`, `target_process.cc`: the target events thread,
  jobs and process tracking.  `interception.cc`: sequential image patching, not modelled.
* `base/win/scoped_handle_verifier.cc`, `base/at_exit.cc`: handle tracking and exit
  callbacks.
* `content/common/child_process_host_impl.cc`: channels of other child processes.

### Web runtime (planned in part)

`third_party/webruntime/blink/core/cosmos*.cc`: script-visible objects that exchange
messages with the host application.  `Universe.h`, `CommonUniverse.h`, `jniforchrome.h` are
interfaces, `Markup.cpp` and `TangramXmlParse.cpp` a vendored XML parser: not modelled.

### Not modelled at all

Start-up, loaders, installer, build files, IPC macros, Blink bindings, statistics:
`PROJECT.json` lists each with its reason.

## 2. Plan

Done in this order, the most important first:

1. `PumpContract` (abstract), `MessagePumpForUI`, `MessagePumpForIO`: both implement it. **Done.**
2. `MessagePumpForUI_proofs`, `IOPumpAndOcclusion_proofs`: types, the wake-up token, the DCHECKs, that both
   implement the contract's safety part. **Done.**
3. `ThreadController` on a pump that keeps the contract; `ThreadController_proofs`: all its safety
   properties. **Done.**
4. `RenderProcessHost`: launch, connection, death, revival, counts and deletion. **Model done**;
   to add: an abstract specification of what one observer sees (launches and deaths
   alternate, the destruction comes last) which it implements.
   `RenderProcessHost_proofs`: all its safety properties. **Done.**
5. `FrameBeforeUnload`, `FrameDeletion`, `FrameNavigation`: the frame host's three protocols. **Models done.**
   `FrameNavigation_proofs`: all its safety properties but the three the code breaks. **Done.**
   `FrameBeforeUnload_proofs`: all its safety properties. **Done.**
6. `RenderWidgetHost`. **Model done**; to add: drag and drop, the new-content timer.
   `RenderWidgetHost_proofs`: all its safety properties. **Done.**
7. `WindowOcclusion`, `TabDrag`. **Models done.**  `IOPumpAndOcclusion_proofs`: the hooks. **Done.**
   `TabDrag_proofs`: all its safety properties. **Done.**
8. `DevToolsWindow`, `Omnibox`, `TargetTracker` (sandbox broker), `HandleVerifier`, `AtExit`: small
   state machines, in this order.
9. Compositions: `FrameDeletion` with `RenderProcessHost` (a crash is one event for both),
   `FrameNavigation` with `FrameBeforeUnload` (who may begin a navigation).

Theorems to add: `PendingSubtrees` and `ChecksHold` of `FrameDeletion`.

## 3. Modules

### `PumpContract`

The promise of `message_pump.h` (lines 44-80 and 142-234) with four variables: `running`,
`requested` (a `ScheduleWork()` no `DoWork()` began after), `due` (the delay the delegate
asked for last) and `now`.  `Safe` allows a `DoWork()` in `Run()` only and forgets a request
by a `DoWork()` only; `Served` and `OnTime` are "DoWork() must be invoked at
delayed_run_time or when ScheduleWork() is invoked, whichever comes first".

### `MessagePumpForUI`

One frame of `stack` is one activation of a function of `message_pump_win.cc` on the bound
thread; `at` names the next statement.  A step ends wherever another thread or a re-entrant
call can see the state.  `Handler` and `DoWork` frames are app code: they may schedule work,
ask for delayed work, quit, enter `Run()` again or enter a native loop.  A `NativeLoop` frame
takes messages with no knowledge of the pump.  `ThreadScheduleWork`/`ThreadPost`/
`ThreadPostFailed` are the three steps of `ScheduleWork()` on another thread (exchange, post,
undo).  The Windows queue serves posted messages in order, then `WM_QUIT`, then `WM_TIMER`,
and dispatches sent messages inside every peek.  `WebRT` selects the branch TangramTeam
added to `DoRunLoop()`, whose `more_work_is_plausible` is a member.

`requested` and `due` are history variables that only the refinement and the liveness
properties read.

### `MessagePumpForIO`

The same for the completion port.  It does not nest, so the bound thread is a program
counter (`at`, and `after` for the return from `WaitForIOCompletion`).  Completion items and the
dummy item share `port`; posting the dummy fails when the port is full, a completion never
does because the system reserved its item.

### `ThreadController`

The delegate.  The pump is reduced to what the contract says of it: it calls `DoWork()` at the
top of each pass, then `DoIdleWork()`, then waits until `requested` or `due`; native loops call
`DoWork()` when asked or when their timer fires, or do not.  `pending` and `in_do_work` are the
two flags of the work deduplicator.  The task source and the deduplicator are not in the
repository: they are modelled from the calls made to them and marked external.  A task is
`Incoming` (posted), `Ready` (reloaded into a work queue), `Delayed`, `Ripe` (its time came) or
`Done` (it has started).  `RunLoop` executes a deferred `Quit()` of an outer loop when an inner
one returns (`QuitWasDeferred`, external).

Abstracted: tracing, hang watching, high resolution timers, wake-up alignment, the cap at
one day (it only shortens a wait), and yielding by time (a batch is bounded by
`WorkBatchSize`, the case `batch_duration.is_zero()`).

### `RenderProcessHost`

One host in multi-process mode.  Everything runs on the UI thread: `stack` holds the activations
of `ProcessDied()` and `Cleanup()`, `todo` the observers the current iteration has still to reach.
Clients act in a task of their own (`stack` empty) or inside an observer's
`RenderProcessExited()` called by `ProcessDied()` (`at = "Called"`), where they may add and remove
routes, take and drop counts and call `Init()`.  In the callbacks of `Cleanup()` itself only the
spare manager calls back: nothing there holds a route or a count (listed as a
hazard no property covers).  Launch results, channel events, delayed tasks and the final
deletion are tasks and come in any order the code permits.

A frame host's destructor is three steps: it takes its host out of the id map and deletes its
children (`FrameDestructs`), leaves the process's set of ids (`registered`, `FrameUnregisters`), lets the proxies of its
group and what its document holds go, and removes its route (`FrameLeaves`).  `destructing` is the chain of
destructors that are half way.  Routes and counts may be dropped in between, so that `Cleanup()` runs inside
a destructor: before it leaves the set `HasOnlyNonLiveRenderFrameHosts()` counts the host but does not find it, and the process
stays; after it, the process may end there (`interrupted` keeps the destructors while `ProcessDied()`
runs).  `Group` says which
observer marks a frame as not created; until it is told, a frame of a process that died and was
initialised again still counts as created.  The spare host manager observes its host; its
callbacks call `Cleanup()`.

`inits`, `exits`, `destroyed` and `referenced` are history variables for the properties.

Abstracted: exit codes and reasons, `Shutdown()` (it kills the process; the channel error that
follows is modelled), priorities, pending views, the view counts `FastShutdownIfPossible()`
compares (it may refuse for them), which host serves which site.  `GetChildPath()` succeeds.

### `FrameBeforeUnload`

The rounds of beforeunload over a tree of frames in several processes.  `round[f]` holds the
members of the host of `f`; `runs[f]` the requests the renderer of a local root has not answered,
in order; `dialogs` the open dialogs with the local root whose handler waits for them; `tasks` what
was posted (the simulated completions of `kAvoidUnnecessaryBeforeUnloadCheckSync` = `LegacyMode`, and those
of destructors).  `DispatchBeforeUnload` checks and starts a round or joins one, `Answer` is a
renderer, `BeforeUnloadTimeout`, `JavaScriptDialogClosed`, `RemoveChild`, `RenderProcessGone` and
`DidCommitNavigation` cross it.  An answer is matched, as in the code, to the nearest frame above the
sender that waits at that time.  `outcome` is what the navigator or the render manager was told
last; `closing`, `clean` and `orphaned` are history.

### `FrameDeletion`

Hosts of a page by the list of the `RenderFrameHostManager` that owns them (`role`) and by
`lifecycle_state_` (`life`).  A recursion of the code over a subtree is a fold over the hosts in order.
`failed` collects the DCHECKs, CHECKs and NOTREACHEDs that did not hold, so that the behaviour after
one can still be looked at.  `Site` gives each host a process; a crash is one event for all hosts of it.
External: the render manager, and Blink, which detaches the local frames below a frame before
the frame itself.  Prerendering is not modelled.

### `FrameNavigation`

A main frame: `host` is the browser's side, `frame` the renderers', `down` and `up` the channel between
them, in order because every interface used is associated.  A navigation is a number; `dsn` and
`pos` are those that committed the document and the position in it.  `BrowserNavigates`,
`BeginNavigationInternal`, `CommitNavigation`, `FailedNavigation`, `CommitSameDocumentNavigation`, `CancelNavigation`,
`CreateRenderFrame` start things; each message has the action of its handler.  The renderer's `Commit`
has the branch TangramTeam added (a reload of a page with WebRT galaxies returns early), the empty
document's synchronous commit, and the MHTML archive whose body is read first.  A navigation within the
document is to a fragment or through the history; only the second is compared with the document of the
frame (`PrepareForHistoryNavigationCommit()`).  `bad` collects the checks that fail on either side.

Assumptions: main frame, no back-forward cache, prerendering or page activation; a provisional
frame's commit installs a new global; after a crash a navigation takes a speculative host; a
synchronous about:blank is the first navigation of a frame that a renderer created, and documents
the browser creates run no script before their first navigation; the navigation controller decides
from the last committed entry what is same-document, in the history too, whether or not another commit is on
its way; Blink may refuse any navigation within the document; the URL reported of one may differ from the one asked for,
for any document; a client that closes while the window waits to
be shown (`waiting_for_init_`) is noticed before the navigation commits.  A "reload" in the instance
stands for any document: the frame may hold galaxies or not.

### `RenderWidgetHost`

The record `w` is the host with its view and the messages in the pipe, `r` the renderer's widget;
`frames`, `rectAcks` and `commits` count what the renderer has sent; `hang`, `mouse`, `keys`, `scroll` are the
parts of the host that do not touch the geometry.  `Props` has a size, which is acknowledged by a frame, and
a `scale` that stands for all the other properties, which are not.  `Send` keeps a message until the renderer
takes it; a pipe that is dropped takes its messages along.  Every event that a user, view,
delegate or renderer starts spends one of `MaxChanges`; what follows is free.

Assumptions: a view calls `ViewDestroyed()` when it goes away and synchronizes again when it
releases the scoped allocator; a hidden renderer draws nothing; a widget starts hidden.

### `WindowOcclusion`

`system` holds the windows: shown or not, desktop, under which other window, dragged.  The tracker's
methods run on the UI thread (`uiTasks`), the calculator's on its own (`calcTasks`, `events`), and a
calculation takes two steps, the look at the root windows and the enumeration of all windows, between which the
system may change.  `hooks` counts the live location hooks of each process, `calc.processHooks` and
`calc.pids` are the calculator's own books.  Regions are reduced to one window wholly under another.

Assumptions: hiding, destroying or showing a window gives another the foreground; the UI thread follows a
native window before it changes again; a removed hook keeps or drops what it had queued; the
screen power listener is on; a user ends a drag.

### `TabDrag`

`drag` is the `TabDragController`, `stack` the activations of it that have called out: to save the
focus, to look for the window under the mouse, to show a window, to run the move loop.  While one is there, everything
the callout may run is an action: moves, keys, lost capture, tabs opened and closed, windows
deleted, the end of the loop, and the end of the controller itself, which the code detects with a
weak pointer.  `strip` and `window` are the tab strips and their browser windows.  `failed` collects checks.

Assumptions: mouse and the Windows branches only; tabs open in the background at the end; no
pinned tabs and no header drags; the native loop dispatches nothing between `EndMoveLoop()`
and its return, as the comments at `tab_drag_controller.cc:796` and `:1125` say; one drag at a time, the next after it.

## 4. Runs

| Run | Instance | Shows |
|---|---|---|
| `ui_safety` | 2 threads, WebRT branch, queue of 2, 1 sent message, clock 0..1, 5 inputs | types, one wake-up token, the replacement DCHECKs, `PumpContract!Safe` |
| `ui_liveness` | 1 thread, original branch, queue of 5, no sent message, clock 0..2, 4 inputs | requests and delays are served, quits are honoured, a waiting native loop has its timer |
| `io_pump` | 2 threads, 2 operations, port of 2, clock 0..2, 4 inputs | token, each completion once, the whole contract, quits |
| `controller` | 1 posting thread, 2 tasks, batch of 2, clock 0..1, 3 inputs | no reentrancy, permission restored, no sleep on a task, batch stops on quit, all tasks run |
| `process_host` | 3 frames (one of a guest), 1 view, 2 observers, 9 inputs | deaths and destruction told once and in order, no leak, no teardown while referenced, channel and flags of the right process |
| `before_unload` | frames A1(B2(A3)) in 2 processes, legacy completions posted, 3 inputs | everyone is heard, a close stays a close, every round is timed |
| `frame_deletion` | a main frame with 2 hosts, 3 frames below it, 7 hosts in 2 processes | life-cycle checks, subtrees go as a whole, deletions end |
| `frame_navigation` | 2 hosts, 3 navigations or crashes, archives, galaxies | no failed check but three the code breaks, requests are in flight, both sides agree, loading stops |
| `navigation_refused` | the same | a refused same-document navigation whose request was reset (section 5) |
| `widget` | 3 sizes (one empty), 2 scales, 2 places, 2 events in flight, 4 changes | throttles, geometry, visibility, hang monitor, locks |
| `occlusion` | 2 handles for root windows, another application, 3 changes (rare ones count 2) | hooks held and brought back, calculator and hosts settle |
| `tab_drag` | windows of 3 and 1 tabs, a new window, a tab to open; 1 drag with 2 tabs opened or closed, or 2 drags | checks, living owner, tabs kept, cancel restores, release ends |

Each run's properties that belong together are one conjunction (`PermissionIsRight`,
`ServesItsProcess`, ...); the parts have names and comments of their own in the modules.

Bounds.  `Budget` counts the inputs of the environment and the callouts of app code that
change something: nested loops, native loops, quits, requests, messages.  Every way the
source lets two of these interact needs at most three (a loop inside a handler inside a
loop, plus one racing thread); 4 or 5 leave room for the interaction to happen after a first
complete round.  A queue of two is the smallest that can be full while holding both a
`kMsgHaveWork` and a native message; two threads are the smallest number that can race with
each other as well as with the bound thread.  Two clock ticks separate a delay that is
replaced by an earlier one; `ui_safety` has one because its invariants do not read the clock, and
`controller` one because a third input (a loop in a loop, quit) tells more than a second tick:
with two inputs the same properties hold for a clock 0..2.
`ui_liveness` has a queue that cannot fill: after a failed post the code takes the flag back and
a caller that saw it set in between is not told, so no liveness holds.  Deadlock is not
checked: with the budget and the clock used up and the loop asleep, the system may stop.

`process_host` has nine inputs because its long histories are the interesting ones:
initialise, add a route, create a frame, take a count, die, be initialised again inside the
death, destroy the frame, drop the count, die again.  A host outlives no more than a few
processes that way, and each of its flags is set or reset by the second.  Three frames are a destructor inside
another and a frame host that is left when both have gone.

`before_unload` has the smallest tree where a frame of the initiator's process hangs below another's,
so that answers cross; three inputs are a round, a second one that joins or replaces it, and one
event against both.  `frame_deletion` is not bounded in steps: every host lives once, and the
instance has a swap above, beside and below a deletion.  In `frame_navigation` the second host stands for
every other host; three navigations are one committed, one under way and one that replaces it, and a
crash takes the place of one.  `widget`: a throttle is closed by one change, passed by a second, and disturbed by a
third (hide, navigation, exit); the fourth is what follows.  `occlusion`: two root windows cover each
other or share the desktop with a third; a look, a change during it, and one after.  `tab_drag`: the strip the
drag leaves keeps tabs, or is emptied, or the new window is; each change is a tab that appears or disappears
in the middle of it.  `MaxEvents` pays for one drag and two
such tabs, or for two drags, so that the second begins in the strips the first left, with and without its tabs still
animating, and whatever way the first ended.

Symmetry: the two threads of `ui_safety`; no run with liveness uses it.

Fairness.  `WF` of the bound thread's steps and of each thread inside `ScheduleWork()` or
`PostTask()`: Windows schedules every runnable thread.  `WF` of returning from app code:
handlers and tasks end; a bounded budget means they cannot re-enter forever.  `WF` of `Tick` and
of the timer.  Nothing obliges a user to close a native loop, a thread to post, or Windows to
deliver a message, so properties exclude "a native loop goes on forever" where the code
needs it to end (`NativeLoopIn`, `InNativeLoop`) and say so.  A pump that runs its loop forever
because `DoWork()` always returns immediate work is excluded by the budget.

In `FrameDeletion` only timers are fair (`[]<>~monitor`, `[]<>~timer`: a running timer fires or is stopped); no
renderer ever has to answer.  In `RenderWidgetHost` the pipes deliver and a living renderer takes its messages and
draws; its death is reported.  In `WindowOcclusion` both threads run their tasks, and the user lets
go of a window.  In `TabDrag` callouts return, a loop that was told to end returns, a release is dispatched and
animations end; these are written as `[]<>~P` because each such step disables itself.
`FrameBeforeUnload` and `FrameNavigation` state no fairness: their invariants say instead that what will end a
wait exists.

## 5. Where the code does not do what it says

With a run:

* `RefusalsHaveRequests` (`render_frame_host_impl.cc:12006`): `OnSameDocumentCommitProcessed()` asserts that only a
  success is reported without a request; the refusal by a frame whose host was swapped out meanwhile, and had
  its requests reset (`:4691`), breaks it.

Known from the models, without a run of their own (the definition named first is in the module;
a configuration that checks it, alone, with the values given finds the behaviour):

* `CommittedRequestsAreMoved` (`render_frame_host_impl.cc:12019`; values of `frame_navigation.cfg`): `OnSameDocumentCommitProcessed()`
  asserts `Aborted` where it finds a request, because "if the commit was successful, the NavigationRequest is moved".  The request is put back when the reported URL is another one (`:11534`), as
  it is for a document loaded with a base URL, which always reports its data: URL (`render_frame_impl.cc:413`); the reply is `Ok` then.
* `HistoryFindsItsDocument` (`render_frame_impl.cc:4964`; values of `frame_navigation.cfg`): the frame asserts that it
  has the document a same-document history navigation is for, "The browser shouldn't let this happen" (`:4958`).  The browser decides by the last commit it heard of, and the
  commit of another document may be on its way to the frame, or its report on the way back.
* `LiveUntilDestructed` (`render_frame_host_impl.cc:1713`; values of `process_host.cfg`): `HasOnlyNonLiveRenderFrameHosts()`
  means to treat frame hosts in their destructor as live "until they finish destructing" (`render_process_host_impl.cc:3823`), but knows them by
  an id they give up half way; the proxies deleted at `:1738` then end the process inside the destructor.
* `RespawnedKnowsVisibility` (`render_widget_host_impl.cc:2262`; values of `widget.cfg`): `RendererExited()` hides the widget
  "so that the renderer will have correct visibility set when respawned" (`:2272`), but keeps `pending_show_params_` of a renderer that exits
  before `Init()`.  `WasShown()` for the next renderer then fails its DCHECK (`:898`), and the `WasHidden()` after that drops the show
  (`:841`) instead of telling the renderer.
* `NativeTimerDCheck` (`message_pump_win.cc:577`; original branch, queue of 2): a native loop's `WM_TIMER` may be dispatched by a
  run loop nested in it, with `in_native_loop_` cleared; `ScheduleNativeTimer()` asserts it.
* `IdleAfterQuietPass` (`message_pump_win.cc:356`; `WebRT = TRUE`): in the WebRT branch a nested loop overwrites
  the outer pass's `more_work_is_plausible`, so the outer loop goes idle too early.
* `MessagePumpForUI!QuitIsHonoured` with `MaxSent = 1` (`message_pump_win.cc:498`): the peek of `WaitForWork()` runs a
  handler that quits, and the wait continues.  `ScheduledWorkIsDone` and `DelayedWorkIsDone` fail as well: app code inside the
  peek of `ProcessPumpReplacementMessage()` opens a native loop while `work_scheduled_` is set and
  no message is queued, and a delay asked for inside the peek of `WaitForWork()` is not seen.
* `DelayedWorkIsDone` fails without its exclusion of native loops: a handler that `DoRunLoop()`
  dispatches and that opens a native loop leaves the last `NextWorkInfo` unserved when neither
  `kMsgHaveWork` nor a timer is pending (`message_pump.h:200` promises it).
* `HandleWorkMessage()` and the I/O pump's `WaitForWork()` lead to one more `DoWork()` after the loop
  was told to quit (`message_pump.h:191`: "No further work is done once the quit flag is set").
* `OnProcessNextWindowsMessage()` reads `run_state_` after `DoRunLoop()` has returned to the host
  application's loop; that caller is not in the repository.
* `TimeoutIsHonoured` (`thread_controller_with_message_pump_impl.cc:344`; `FairSpec`): a `Run()` with a timeout
  sleeps past it when no task is pending.
* `DelayHasItsTask` (`render_process_host_impl.cc:4805`): a death cancels the posted task that ends a
  shutdown delay, and the count stays above zero until `DisableRefCounts()`
  (`render_process_host_impl.h:573`: "it will be decremented when the delay expires").
* `ProcessDied()` prefers `shutdown_exit_code_` (`render_process_host_impl.cc:4756`), which nothing
  resets: after `Shutdown()` and a new `Init()` a crash reports the old code.
* `OnProcessLaunched()` uses `channel_` after it called creation observers
  (`render_process_host_impl.cc:5096`), and in the callbacks of `Cleanup()` (`:3979`) an observer that took and dropped
  a reference would start a second teardown; no client in the repository does either.
* `FrameBeforeUnload`: `JavaScriptDialogClosed()` is bound to a weak pointer (`render_frame_host_impl.cc:5282`,
  `:8733` "Restart any timers that were stopped"): when the frame that showed the dialog is removed first,
  nobody starts its ancestors' timers again (`orphaned`, excluded from `WaitingIsTimed`).
* `FrameBeforeUnload`: the destructor answers the nearest initiator only (`:1832`), and the set
  `beforeunload_pending_replies_` of an initiator above it keeps a dangling pointer.
* `FrameDeletion`: `ResetChildren()` (`:4268`) tells current hosts only; that no speculative host of a frame
  below is in `kPendingCommit` then is up to the render manager.
* `FrameNavigation`: `RestartCrossDocument` leaves an entry without request in
  `same_document_navigation_requests_`, so `HasPendingCommitNavigation()` stays true
  (`render_frame_host_impl.h:1024`).  The
  early return of a reload with galaxies contradicts `render_frame_impl.h:1478`, and a renderer-initiated reload
  of such a page never stops loading; the request of one that the browser began waits for as long as the frame keeps its
  client (`swallowed` is excluded from `LoadingSettles` and from `RequestsAreInFlight`).
* `RenderWidgetHost`: `ScrollBeginsAndEnds`: `ForwardGestureEventWithLatencyInfo()` (`:1622`) drops a scroll begin or end
  while input is ignored, before it records it, and the next one fails the DCHECK at `:1632` or `:1642`.
  `RendererExited()` (`:2254`) hides the widget without stopping the hang timer, unlike `WasHidden()` (`:836`).
  The first synchronization of `WasShown()` may be swallowed by the throttle of an update sent while hidden (`:832`).
* `WindowOcclusion`: `UnlockUncovers`: `UpdateOcclusionState()` no longer hands the state of a visible window to its host
  (`:342`, commented out), while locking still marks every window occluded; `:356` says that the recalculation after an
  unlock is there for that.  `HooksAreUnique`: a calculation that runs while the global hooks are gone hooks processes
  (`:756`), and `RegisterEventHooks()` hooks them again and forgets the first hooks (`:627`).
  `HandleResumeSuspend()` stops the timer and nothing starts it (`timerLost`); `UnregisterEventHooks()` resets
  `window_is_moving_` but neither `moving_window_` nor `showing_thumbnails_`; `MarkNonIconicWindowsOccluded()` asks `IsIconic()`
  where its comment says "not visible"; a result may be applied to a new window with an old handle.
* `TabDrag`: a press while tabs of the last drag still animate back leads to the DCHECK of `StartedDragging()`
  (`tab_strip.cc:552`) unless the tab container's `IsAnimating()`, which `MaybeStartDrag()` asks (`:1610`), counts
  the animations of the drag context (`IsAnimatingDragEnd()`, `:422`).  The container is not in the repository, so this is
  no finding; the model lets the press happen, `history.quick` remembers it, and `DragIsConsistent` excepts that one check then.

## 6. Proofs

`MessagePumpForUI_proofs` proves, for every set of threads, queue capacity, number of sent
messages, clock, budget and depth of nesting, with or without WebRT, from the named
assumptions of `MessagePumpForUI` (`VariantAssumption`, `CapacityAssumption`, `BoundAssumption`):

* `TypeCorrect`: `Spec => []TypeOK`.
* `TokenCorrect`: `Spec => []SingleWorkToken`.  `SingleWorkToken` is inductive relative to `TypeOK`: at
  most one among queue, call stack and threads holds the wake-up, and `work_scheduled` is set
  iff one does.
* `ReplacementCorrect`: `Spec => []ReplacementDChecks`.  This needs the strengthening `StackFine`: the
  frame of `ProcessPumpReplacementMessage()` that is past its peek stays the only holder of the
  token while app code nested in that peek runs, so that the queue holds no `kMsgHaveWork`.

The argument.  The call stack is unbounded, so the holders of the token are a set of
indices, `HoldersOf(stack)`.  Lemmas about sequences (`GotoStack`, `PushStack`, `PopStack`, ...) say
what each operation on the stack does to its type and its holders; `StackSteps`, `QueueSteps`
and `TopStep` lift them to steps; `Keeps`, `Moves`, `SentToken`, `TimerToken` say which steps keep the
token where it is and which hand it on; `TypeStep`, `TokenStep` and `FineStep` go through `Next`
action by action.  PTL combines them with `Init`.

* `ContractCorrect`: `Spec => ImplementsContract`, the property of `ui_safety` that every step maps to a
  step of `PumpContract!Safe` or a stutter.  What is hard is that a `DoWork()` runs in `Run()` only:
  `HandleWorkMessage()` looks for a run loop and then calls the delegate, with other activations in
  between.  `StackInLoop` is the invariant: an activation of `DoWork()`, or of a handler past that look, has
  a `DoRunLoop()` below it, and the frames below an activation stay until it returns.

* `TimerCovers`: `Spec /\ []QueueHasRoom => []NativeTimerCoversDelay`.  `SetTimer()` and `PostMessage()` fail when the
  queue is full, and then no native timer is there; the theorem is about the behaviours whose queue never fills, as in
  `ui_liveness`, whose queue holds more than its budget can post.  The inductive invariant is `TimerKnown`.  `WellCalled` says
  which activation may have called which, and at which statement the caller waits.  `Between` lists the statements at
  which the timer may be missing: before a `DoWork()`, before `ScheduleWork()` or the timer is set, or where the run loop clears
  `in_native_loop_`; no native loop runs on top of any of them, and everywhere else a delayed task is covered.  `Informed`
  says that the `NextWorkInfo` of a handler is what the delegate wants.  TLC found `TimerKnown` invariant before it was proved.

`IOPumpAndOcclusion_proofs` has the theorems of two small models, which share no variable and no fact.  Its first part
proves the same of the other pump, for every set of threads and operations, every
port capacity, clock and budget:

* `PortCorrect`: `IOPumpSpec => []PortIsConsistent`.  The inductive invariant `PumpInv` is `IOPumpTypeOK`, `OneToken` and
  `CompletedAreQueued`: no item is twice in the port; the dummy item is in it, or owed by one thread, or taken and not yet
  acknowledged, and exactly then `work_scheduled` is set; an operation's item is in the port iff it has completed.
* `PumpImplementsContract`: `IOPumpSpec => ImplementsContract`, the safety part of `ServesContract`.

`ThreadController_proofs` proves, for every set of threads and tasks, batch size, clock and budget:

* `PermissionCorrect`: `Spec => []PermissionIsRight`.  The invariant `PermissionFollowsStack` computes the
  permission from the call stack: it is refused iff a task has no loop above it that gave it
  (`Barred`), and a loop that gave it stands on a barred stack, so that taking it back is right.
* `BatchCorrect`: `Spec => BatchStopsOnQuit`, an action property.  `QuitInv` says that `quit_pending` is that of the innermost
  run loop whichever loop was entered or left last, and that a batch that goes on was not told to stop.
* `SleepCorrect`: `Spec => []SleepsOnNothing`.  `RestInv` follows what the pump was told from the moment
  `DoWork()` looks for the next wake-up: a task that comes later is announced by its thread, or pending in the
  deduplicator, or has asked the pump already.

The stack is unbounded here too.  `CallsAreRight` says who may call whom and where the caller waits; a step turns the
innermost frame, pushes one, pops one or tells one to quit (`Turned`, `Pushed`, `Popped`, `Told`), and each
part of the invariant is proved once per kind.  The innermost run loop exists by well-founded induction on
the indices, the earliest delayed task by that on times.

`RenderProcessHost_proofs` proves, for every set of frames, guests, views and observers, every
grouping of frames, with or without `AllowExit`, and every budget, from the named assumptions of
`RenderProcessHost`:

* `HostTypeCorrect`: `Spec => []TypeOK`; no count goes below zero.
* `TeardownCorrect`: `Spec => []TeardownIsUnreferenced`.
* `ChecksHold`: `Spec => []DeathAndTeardownChecks`.
* `DestroyedLast`: `Spec => DestroyedIsLast`, an action property.

The argument.  None of the four is inductive; `HostInv` is.  `StackShape` bounds the call stack:
`Cleanup()` nests only in the callbacks of `ProcessDied()` and returns at once there, because
`within_process_died_observer_` is set exactly during those callbacks.  That needs `SpareUnused`
(an unused spare host has no route or count, so that a teardown reaches it only through
`DisableRefCounts()`, after which its manager calls no `Cleanup()`).  `DelaysCount` gives a posted
`CancelProcessShutdownDelay()` a count to take back.  `DestructorsKeepRoutes` says that a
frame host in its destructor still has its route, so that a `Cleanup()` there never tears the host down; it may end
the process, and the check of `HasOnlyNonLiveRenderFrameHosts()` for hosts it does not find is what
restricts that to destructors that have left the set of ids; `ProcessHasLauncher` that a channel in use belongs to a launched process.
`DeletingIsOutOfReach` and `DestroyedOnTheWayOut` say how far the teardown is.  Lemmas describe
what each kind of move does to the stack (`CallEffect`, `DeathEffect`, `EndingEffect`); each part
then has a lemma with one step per action.  TLC finds `HostInv` invariant on the instance of
`process_host`.

On top of `HostInv`, `LifeInv` gives the other three:

* `DeathsCorrect`: `Spec => []DeathIsToldOnce`.  While an iteration over the observers runs, those in its `todo`
  are one death behind (`DeathsAreTold`).
* `ServiceCorrect`: `Spec => []ServesItsProcess`.  `ServiceInv` ties launcher, channel, announced readiness and the fast
  shutdown flag to the process, also in the middle of a death, where an observer may initialise the host again.
* `LifetimeCorrect`: `Spec => []LivesAsLongAsNeeded`.  `NoLeak`: a host that was referenced and is no more has a
  `Cleanup()` that runs, waits for `ProcessDied()` to end, or is put off to the end of a death.

`RenderWidgetHost_proofs` proves, for every set of sizes, scales and places, every number of events in flight and
every bound:

* `HangCorrect` and `LocksCorrect`: `Spec => []HangIsWatched`, `Spec => []LocksAreHeld`.
* `ThrottlesCorrect`: `Spec => []ThrottlesOpen`, and `StepsCorrect`: `Spec => []RendererIsInStep`.  The second covers
  renderers that exit at any time.  Its `RendererKnowsVisibility` names the one hide that may be lost, after a renderer that exited
  before `Init()` with its show pending (`staleShow`, section 5); that a shown widget is known to be shown has no exception.

The inductive invariant `WidgetInv` reads the pipe as the renderer will: `HasAfter(q, n, p, v)` says that a renderer with the
properties `p` has `v` once it has taken `n` messages of `q`, `WillDraw` that the last properties on their way make it
draw, `ShownAfter` what it will know of its visibility.  An answer the host waits for is then on its way back, or will be given
to a message on its way there (`AnswersCome`).  `NewWindowIsFresh` is needed because a window that the renderer asked for
exists before its host is created.

The second part of `IOPumpAndOcclusion_proofs` proves, for every set of windows, all kinds of changes and every bound on them:

* `HooksCorrect`: `Spec => []HooksAreHeld`.  Inductive with the types: no operation of the calculator removes a hook
  twice (`RegisterHeld`, `MaybeHeld`, `UnregisterHeld`, `FollowHeld`, one lemma per operation).
* `HooksComeBack`: `Spec => []NeededHooksComeBack`.  It needs `RootsAreTracked`: a root window is known to the calculator and no
  task on its way makes it forget the window, or a task on its way makes it known and none after it makes it forgotten.  All hooks
  are removed when the windows the calculator knows are all minimized, or when it forgets the last one; a root window that is
  shown then has a task on its way that brings them back, or its host is yet to learn that it is shown.


`FrameNavigation_proofs` proves, for every set of hosts, every bound on the navigations and crashes, and whatever the
kinds of the navigations are:

* `ChecksAlwaysHold` and `RequestsAlwaysInFlight`: `Spec => []ChecksHold`, `Spec => []RequestsAreInFlight`.  `ChecksHold` leaves out
  the three checks of `BrokenChecks`, all of same-document navigations, which the code breaks (section 5).
* `DocumentsAlwaysAgree` and `LoadingAlwaysSettles`: `Spec => []DocumentsAgree`, `Spec => []LoadingSettles`.

The channels are unbounded.  They are read through four questions: is there a message of a class (`Holds`), is one before
another (`Then`), is the first or the last of a class in another one (`FirstIs`, `LastIs`); the first lemmas answer them for
a channel that is written (`Adding`), read (`Popping`) or joined (`Concat`), and no later proof counts messages.

The inductive invariant is `Core`.  A navigation has one client, and `Tokens` says where it is: with the frame, in the bind on
its way there, with an archive that loads, or closed and its end, or the report of the commit, on the way back; a request is
in `navigation_requests_` accordingly.  `EarlyOnce` and `EarlyIsUnsent` say that a navigation that was not yet asked to
commit is in one place and that nobody but the frame that began it has its client: otherwise it could be asked for twice.
`OngoingIsAwaited` says that the frame that began the `FrameTreeNode`'s request still waits for it, or has closed the client and
will be heard to have, so that the request never outlives its host.  `Lives` says which messages a host may have sent or be
sent, in which order: the request of a navigation within the document never follows an unload, a host that was not shown yet
hears a commit before anything else its frame does, and only a host that is to go is told to unload.  `InitialLives` is
what the check on the interface provider needs: a frame that still has its initial empty document is that of the first
host, and the `FrameTreeNode` knows no other document.

`AllTold` holds where `Core` does (`EverybodyIsTold`): the last reports on the way to a host are of what its frame has, and the last word
about a load is that it stopped, unless the frame is busy, that is, loads or has an answer to give.  The hard step is
`CommitIn`, which shows that the host loads: the client its request was begun with may have been closed by the frame, and then it
is the end of that client, still on its way, and the stop behind it that count.  TLC found `Core` invariant on two
hosts before it was proved.  The three properties of the broken checks stay with TLC, which refutes them.

`FrameBeforeUnload_proofs` proves, for every tree of frames, every distribution of its frames over processes,
every `LegacyMode` and budget, with and without a debugger, from `TreeAssumption` (`Order` lists every frame once, after its
parent):

* `CompletionCorrect`: `Spec => []CompletionIsRight`.
* `TimingCorrect`: `Spec => []RoundsAreTimed`.

The inductive invariant of both is `RoundInv`.  `Hears` is what an open round that is clean knows: it still waits for every frame
below its initiator that has a request to answer, each has that one only, no other round is open above or below, and if the
initiator answers itself from a task there is nobody else to answer.  So an answer always belongs to the round it
is counted for, and when the last one arrives everybody was heard.  `AllCovered` says what will end each open round.  A step is a
function from states to states, as in the model, and `Kept` is what completions, removals and answers have in common:
the state stays sound and no open round loses what will end it.

Two kinds of recursion had to be proved about without an induction theorem.  `Ancestors` is a recursive function on the tree:
`AncestorsExist` constructs it on ever longer prefixes of `Order`, by a least counterexample, and `Downwards` is the induction over
the tree, with sets in place of predicates.  `RemoveHosts` and `CheckOrDispatchBeforeUnloadForSubtree` go through the frames one
by one; `RemovalIs` and `AskedIs` give their equations, and `RemovedKept` and `AskedFound` what they keep, again by a least
counterexample.

`TabDrag_proofs` proves, for all windows, tabs and strips, any number of presses and of tabs opened and closed, from
`StripsAssumption` (at first a tab is in one place, and there are finitely many tabs):

* `DragCorrect`: `TabDragSpec => []DragIsConsistent`.  The only check that may fail is the one on tabs that are still
  dragging, and only after a press while tabs still animated (`history.quick`, section 5); this is in the invariant
  (`Unfailing`), not an assumption.
* `TabsCorrect`: `TabDragSpec => []TabsAreKept`.
* `CancelCorrect`: `TabDragSpec => []CancelRestores`.

The run has one or two drags; here the number is any, so that a strip may have been through many.  None of the three is inductive, `DragInv` is.
`Body` is what holds of the strips, the windows and the controller at every step: `Laid` (a tab is in one strip, once), `Settled` (the
windows), `Owned` (the owner, the source and the target are there), `Seen` (whose views are dragged), `Whole` (a window that is
dragged has no other tabs).  `Turns` is what the controller knows while it has called out, which handlers may
find it there, and that capture is gone while the loop runs.

`CancelRestores` needs `Undone`, which says what a drag has changed so far: the indices in the drag data are those the tabs had when the button
was pressed, in their order (`Known`); every strip has its old tabs, without the dragged ones or with them, in their old order
apart from the dragged ones (`Like`); and these are still where they were, or together in one strip (`Block`).  Each of
`Attach()`, `Detach()`, `MoveAttached()` keeps that, because `InsertBlock` and `Without` keep the order of what they do
not move (`InsertKeeps`, `WithoutKeeps`).

`RevertDrag()` goes through the tabs one by one, from the first to the last.  After `n` of them a strip within which they were
moved is `Gathered`: the tabs already back and those that were never dragged are in their old order, and the later ones are one
block in it somewhere.  `RevertBeside` is the step from `n` to `n + 1`: whether the place to fill is left or right of the block decides
whether the rest of the block still counts, which is the correction `RevertDragAt()` makes to the index.  Tabs that come from another strip find the
tabs of theirs in the old order (`CarriedBack`, `Behind`), where the index itself is right.  The loop is a recursive function;
`RevertingExists` unrolls it and `RevertedWithin` and `RevertedAcross` carry its invariant through, by a least
counterexample.  When no tab is left the strip has its old tabs in their old order, and two sequences without repetition that agree
in both are equal (`SameOrder`).

A step is a function from states to states, as in the model, and `Becomes` takes an action to such a function.  Each operation has
a lemma on what it keeps, and each action one on top of those of the operations it calls.

Only model-checked: all liveness (TLAPS proves none under fairness), that of the refinements of `PumpContract`
included, and the two invariants of `FrameDeletion`; the properties of section 5, which the code breaks, are refuted.
The invariants of `FrameDeletion` are about cascades: a removal checks the parent, which may remove that, inside a loop over a subtree
that is itself inside a removal.  Their proof needs an invariant of the states within these cascades, one for each depth of
nesting, and has not been attempted; TLC checks them on the tree of section 4.

## 7. Running

    tlc -workers 2 -config ui_safety.cfg MCMessagePumpForUI
    tlc -workers 2 -config ui_liveness.cfg MCMessagePumpForUI
    tlc -workers 2 -config io_pump.cfg MCMessagePumpForIO
    tlc -workers 2 -config controller.cfg MCThreadController
    tlc -workers 2 -config process_host.cfg MCRenderProcessHost
    tlc -workers 2 -config before_unload.cfg MCFrameBeforeUnload
    tlc -workers 2 -config frame_deletion.cfg MCFrameDeletion
    tlc -workers 2 -config frame_navigation.cfg MCFrameNavigation
    tlc -workers 2 -config navigation_refused.cfg MCFrameNavigation
    tlc -workers 2 -config widget.cfg MCRenderWidgetHost
    tlc -workers 2 -config occlusion.cfg MCWindowOcclusion
    tlc -workers 2 -config tab_drag.cfg MCTabDrag
    tlapm MessagePumpForUI_proofs.tla
    tlapm IOPumpAndOcclusion_proofs.tla
    tlapm ThreadController_proofs.tla
    tlapm RenderProcessHost_proofs.tla
    tlapm FrameBeforeUnload_proofs.tla
    tlapm FrameNavigation_proofs.tla
    tlapm RenderWidgetHost_proofs.tla
    tlapm TabDrag_proofs.tla

The mutants in `PROJECT.json` name an operator (`as`) that replaces the body of the mapped
definition (`of`); the property then fails under the run's own configuration.
