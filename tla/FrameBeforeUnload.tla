--------------------------- MODULE FrameBeforeUnload ---------------------------
(***************************************************************************)
(* How RenderFrameHostImpl runs the beforeunload handlers of a frame and   *)
(* of its descendants before the frame navigates or the tab closes.        *)
(* The frame that asks is the initiator of a round: it sends BeforeUnload  *)
(* to the local roots below it that have a handler, and tells the          *)
(* navigator, or the render manager when the tab closes, once all have     *)
(* answered, one has refused, or the timer of the round has fired.         *)
(* Renderers are modelled by the handlers they were asked to run, in       *)
(* order; the user by the dialogs; the navigator by what it was told.      *)
(***************************************************************************)
EXTENDS Integers, Sequences, SequencesExt

CONSTANTS
    Order,       \* the frames of the page, breadth first; the first is the main frame
    Parent,      \* the parent of every frame, None for the main frame
    Site,        \* the SiteInstance of every frame, with a process of its own
    None,
    LegacyMode,  \* "ipc", "task" or "skip": kAvoidUnnecessaryBeforeUnloadCheck*
    Debugging,   \* ShouldIgnoreUnresponsiveRenderer()
    Budget       \* bounds the inputs: dispatches, dialogs, removals, crashes, commits

Frames == ToSet(Order)
Main == Order[1]
Ancestors[f \in Frames] == IF Parent[f] = None THEN {f} ELSE {f} \cup Ancestors[Parent[f]]
Subtree(f) == {g \in Frames : f \in Ancestors[g]}

ASSUME TreeAssumption ==
    /\ Order \in Seq(Frames) /\ Order # <<>> /\ IsInjective(Order)
    /\ \A i, j \in DOMAIN Order : Parent[Order[j]] = Order[i] => i < j
    /\ Parent \in [Frames -> Frames \cup {None}] /\ None \notin Frames
    /\ \A f \in Frames : Parent[f] = None <=> f = Main
    /\ LegacyMode \in {"ipc", "task", "skip"} /\ Debugging \in BOOLEAN /\ Budget \in Nat

VARIABLES
    alive,      \* the RenderFrameHosts that exist
    live,       \* those whose RenderFrame exists (IsRenderFrameLive())
    handler,    \* those with has_before_unload_handler_
    round,      \* the beforeunload members of each host
    runs,       \* per local root, the BeforeUnload requests its renderer has not answered
    dialogs,    \* open dialogs: <<frame, local root that runs the handler>>
    tasks,      \* tasks posted to the UI thread
    outcome,    \* what the navigator or render manager was told last
    budget

vars == <<alive, live, handler, round, runs, dialogs, tasks, outcome, budget>>

Types == {"BROWSER_INITIATED_NAVIGATION", "RENDERER_INITIATED_NAVIGATION", "TAB_CLOSE",
          "DISCARD", "INNER_DELEGATE_ATTACH"}
ForNavigation(type) == type \in {"BROWSER_INITIATED_NAVIGATION", "RENDERER_INITIATED_NAVIGATION"}

\* The last three fields are history: whether a close was asked for in this round,
\* whether nothing of another round could be mistaken for an answer to it, and
\* whether a dialog that stopped its timer outlived its frame.
Idle == [waiting |-> FALSE, forNavigation |-> FALSE, cancels |-> FALSE, replies |-> {},
         shown |-> FALSE, timer |-> FALSE, closing |-> FALSE, clean |-> FALSE,
         orphaned |-> FALSE]

Init ==
    /\ alive = Frames /\ live = Frames
    /\ handler \in SUBSET Frames
    /\ round = [f \in Frames |-> Idle]
    /\ runs = [f \in Frames |-> <<>>]
    /\ dialogs = {} /\ tasks = <<>>
    /\ outcome = [kind |-> "none"]
    /\ budget = Budget

Spend == budget > 0 /\ budget' = budget - 1

--------------------------------------------------------------------------------
\* The part of the state that the completion of a frame works on.
Now == [round |-> round, runs |-> runs, tasks |-> tasks, outcome |-> outcome]
Becomes(s) == round' = s.round /\ runs' = s.runs /\ tasks' = s.tasks /\ outcome' = s.outcome

Nearest(S, f) ==  \* the closest member of S on the way from f to the main frame
    LET up == S \cap Ancestors[f]
    IN IF up = {} THEN None ELSE CHOOSE a \in up : \A b \in up : b \in Ancestors[a]

GetBeforeUnloadInitiator(s, f) == Nearest({g \in Frames : s.round[g].waiting}, f)

\* f has answered, or is counted as having answered, the round of initiator i.
CompletedWithLeft(s, i, proceed, final, destroyed, left) ==
    LET r == s.round[i]
        told == [kind |-> "told", frame |-> i, proceed |-> proceed,
                 forNavigation |-> r.forNavigation, closing |-> r.closing,
                 unheard |-> IF r.clean /\ proceed /\ ~final
                             THEN {g \in Subtree(i) : s.runs[g] # <<>>} ELSE {}]
    IN IF left # {}
       THEN [s EXCEPT !.round[i].replies = left]
       ELSE [s EXCEPT !.round[i] = [r EXCEPT !.waiting = FALSE, !.shown = FALSE,
                                             !.timer = FALSE, !.replies = {}],
                      !.tasks = IF destroyed THEN Append(@, told) ELSE @,
                      !.outcome = IF destroyed THEN @ ELSE told]

\* Mutant: the answer of one frame is taken for the answers of the frames below it.
CompletedWithSubtree(s, i, f, proceed, final, destroyed) ==
    CompletedWithLeft(s, i, proceed, final, destroyed,
                      IF ~proceed \/ final THEN {} ELSE s.round[i].replies \ Subtree(f))

ProcessBeforeUnloadCompletedFromFrame(s, i, f, proceed, final, destroyed) ==
    CompletedWithLeft(s, i, proceed, final, destroyed,
                      IF ~proceed \/ final THEN {} ELSE s.round[i].replies \ {f})

ProcessBeforeUnloadCompleted(s, f, proceed, final) ==
    LET i == GetBeforeUnloadInitiator(s, f)
    IN IF i = None THEN s
       ELSE ProcessBeforeUnloadCompletedFromFrame(s, i, f, proceed, final, FALSE)

\* ~RenderFrameHostImpl(): another frame that waits for this one is answered.
Destroyed(s, f) ==
    LET i == GetBeforeUnloadInitiator(s, f)
        silent == [s EXCEPT !.runs[f] = <<>>]
        told == IF i \in {None, f} THEN silent
                ELSE ProcessBeforeUnloadCompletedFromFrame(silent, i, f, TRUE, FALSE, TRUE)
    IN [told EXCEPT !.round[f] = Idle]

\* The hosts of S go away, children first; a dialog stays until the user closes it.
RemoveHosts(s, S) ==
    LET n == Len(Order)
        without[k \in 0..n] ==  \* the last k frames of Order have been looked at
            IF k = 0 THEN s
            ELSE IF Order[n + 1 - k] \in S THEN Destroyed(without[k - 1], Order[n + 1 - k])
            ELSE without[k - 1]
    IN without[n]

--------------------------------------------------------------------------------
\* Which local roots a round of f asks.  "legacy" means that nobody has a handler
\* and that f answers itself from a task.
IsLocalRoot(f) == Parent[f] = None \/ Site[Parent[f]] # Site[f]

CheckOrDispatchBeforeUnloadForFrame(f, subframesOnly, acc, g) ==
    LET simulated == g = f /\ g \notin handler /\ LegacyMode # "skip"
        root == Nearest({f} \cup {a \in Subtree(f) : IsLocalRoot(a)}, g)
        covered == \E a \in acc.replies : a \in Ancestors[root] /\ Site[a] = Site[root]
    IN IF \/ g \notin Subtree(f) \cap live
          \/ subframesOnly /\ Site[g] = Site[f]
          \/ g \notin handler /\ ~simulated
       THEN acc
       ELSE IF covered THEN [acc EXCEPT !.found = TRUE]
       ELSE IF simulated /\ LegacyMode = "task" THEN [acc EXCEPT !.found = TRUE, !.legacy = TRUE]
       ELSE [found |-> TRUE, legacy |-> FALSE, replies |-> acc.replies \cup {root}]

CheckOrDispatchBeforeUnloadForSubtree(f, subframesOnly) ==
    LET asked[k \in 0..Len(Order)] ==
            IF k = 0 THEN [found |-> FALSE, legacy |-> FALSE, replies |-> {}]
            ELSE CheckOrDispatchBeforeUnloadForFrame(f, subframesOnly, asked[k - 1], Order[k])
    IN asked[Len(Order)]

Simulated(f, proceed) == [kind |-> "simulate", frame |-> f, proceed |-> proceed]

\* The hosts on whose path another round may take the answers meant for f's round.
Related(f) == (Subtree(f) \cup Ancestors[f]) \ {f}

StartRound(f, type, asked) ==
    LET fresh == /\ \A g \in Subtree(f) : runs[g] = <<>>
                 /\ \A g \in Related(f) : ~round[g].waiting
                 /\ \A k \in DOMAIN tasks : tasks[k].kind = "told"
        showing == dialogs # {}
        new == [Idle EXCEPT !.waiting = TRUE, !.forNavigation = ForNavigation(type),
                            !.closing = ~ForNavigation(type), !.clean = fresh,
                            !.timer = ~showing, !.cancels = ~showing /\ type = "DISCARD",
                            !.replies = IF showing THEN {}
                                        ELSE IF asked.legacy THEN {f} ELSE asked.replies]
    IN /\ round' = [g \in Frames |-> CASE g = f -> new
                                       [] g \in Related(f) -> [round[g] EXCEPT !.clean = FALSE]
                                       [] OTHER -> round[g]]
       /\ runs' = IF showing THEN runs
                  ELSE [g \in Frames |-> IF g \in asked.replies THEN Append(runs[g], "run")
                                         ELSE runs[g]]
       /\ tasks' = CASE showing -> Append(tasks, Simulated(f, type # "DISCARD"))
                     [] ~showing /\ asked.legacy -> Append(tasks, [kind |-> "legacy", frame |-> f])
                     [] OTHER -> tasks

DispatchBeforeUnload(f, type) ==
    LET asked == CheckOrDispatchBeforeUnloadForSubtree(f, type = "RENDERER_INITIATED_NAVIGATION")
    IN /\ Spend /\ f \in alive
       /\ type \in {"TAB_CLOSE", "DISCARD"} => f = Main
       /\ ForNavigation(type) => asked.found  \* its callers look first
       /\ \/ /\ ~asked.found
             /\ tasks' = Append(tasks, [kind |-> "told", frame |-> f, proceed |-> TRUE,
                                        forNavigation |-> FALSE, closing |-> TRUE, unheard |-> {}])
             /\ UNCHANGED <<round, runs>>
          \/ /\ asked.found /\ round[f].waiting
             /\ round' = [round EXCEPT ![f].forNavigation = @ /\ ForNavigation(type),
                                       ![f].closing = @ \/ ~ForNavigation(type)]
             /\ UNCHANGED <<runs, tasks>>
          \/ asked.found /\ ~round[f].waiting /\ StartRound(f, type, asked)
       /\ UNCHANGED <<alive, live, handler, dialogs, outcome>>

--------------------------------------------------------------------------------
\* The renderer of local root r answers its oldest request.
Answer(r) ==
    /\ runs[r] # <<>>
    /\ \A d \in dialogs : Site[d[1]] # Site[r]  \* a dialog blocks its renderer
    /\ \E proceed \in IF Head(runs[r]) = "no" THEN {FALSE} ELSE BOOLEAN :
          Becomes(ProcessBeforeUnloadCompleted([Now EXCEPT !.runs[r] = Tail(@)], r, proceed, FALSE))
    /\ UNCHANGED <<alive, live, handler, dialogs, budget>>

RunTask ==
    /\ tasks # <<>>
    /\ LET t == Head(tasks)
           s == [Now EXCEPT !.tasks = Tail(tasks)]
       IN Becomes(IF t.frame \notin alive THEN s
                  ELSE CASE t.kind = "told" -> [s EXCEPT !.outcome = t]
                         [] t.kind = "legacy" ->
                              ProcessBeforeUnloadCompleted(s, t.frame, TRUE, FALSE)
                         [] t.kind = "simulate" ->
                              ProcessBeforeUnloadCompleted(s, t.frame, t.proceed, TRUE))
    /\ UNCHANGED <<alive, live, handler, dialogs, budget>>

BeforeUnloadTimeout(f) ==
    /\ round[f].timer
    /\ round' = [round EXCEPT ![f].timer = FALSE]
    /\ tasks' = IF Debugging THEN tasks ELSE Append(tasks, Simulated(f, TRUE))
    /\ UNCHANGED <<alive, live, handler, runs, dialogs, outcome, budget>>

\* The handler of x, run for local root r, asks whether to leave the page.
RunBeforeUnloadConfirm(x, r) ==
    LET i == GetBeforeUnloadInitiator(Now, x)
        stopped == [f \in Frames |-> IF f \in Ancestors[x] THEN [round[f] EXCEPT !.timer = FALSE]
                                     ELSE round[f]]
    IN /\ Spend
       /\ x \in handler \cap live /\ r \in Ancestors[x] /\ Site[r] = Site[x]
       /\ runs[r] # <<>> /\ Head(runs[r]) = "run"
       /\ \A d \in dialogs : Site[d[1]] # Site[x]
       /\ \/ /\ i # None /\ round[i].cancels
             /\ runs' = [runs EXCEPT ![r][1] = "no"]
             /\ UNCHANGED <<round, dialogs>>
          \/ /\ i # None => ~round[i].cancels /\ ~round[i].shown
             /\ round' = IF i = None THEN stopped ELSE [stopped EXCEPT ![i].shown = TRUE]
             /\ dialogs' = dialogs \cup {<<x, r>>}
             /\ UNCHANGED runs
       /\ UNCHANGED <<alive, live, handler, tasks, outcome>>

\* Mutant: only the frame that showed the dialog gets its timer back.
OwnTimerRestarts(d, success) ==
    /\ d \in dialogs
    /\ dialogs' = dialogs \ {d}
    /\ runs' = IF success \/ runs[d[2]] = <<>> THEN runs ELSE [runs EXCEPT ![d[2]][1] = "no"]
    /\ round' = [round EXCEPT ![d[1]].timer = @ \/ round[d[1]].waiting,
                              ![d[1]].orphaned = @ \/ d[1] \notin alive]
    /\ UNCHANGED <<alive, live, handler, tasks, outcome, budget>>

JavaScriptDialogClosed(d, success) ==
    /\ d \in dialogs
    /\ dialogs' = dialogs \ {d}
    /\ runs' = IF success \/ runs[d[2]] = <<>> THEN runs ELSE [runs EXCEPT ![d[2]][1] = "no"]
    /\ round' = [f \in Frames |->
                    IF f \in Ancestors[d[1]] /\ round[f].waiting
                    THEN IF d[1] \in alive THEN [round[f] EXCEPT !.timer = TRUE]
                         ELSE [round[f] EXCEPT !.orphaned = TRUE]
                    ELSE round[f]]
    /\ UNCHANGED <<alive, live, handler, tasks, outcome, budget>>

--------------------------------------------------------------------------------
\* A subtree is removed from the page.
RemoveChild(f) ==
    /\ Spend /\ f \in alive \ {Main}
    /\ Becomes(RemoveHosts(Now, Subtree(f)))
    /\ alive' = alive \ Subtree(f) /\ live' = live \ Subtree(f) /\ handler' = handler \ Subtree(f)
    /\ UNCHANGED dialogs

\* The process of site p is gone; answers it owed never come.
RenderProcessGone(p) ==
    LET dead == {f \in alive : Site[f] = p}
        below == UNION {Subtree(f) \ {f} : f \in dead}
        s == RemoveHosts(Now, below)
    IN /\ Spend /\ dead \cap live # {}
       /\ Becomes([s EXCEPT !.runs = [f \in Frames |-> IF f \in dead THEN <<>> ELSE s.runs[f]]])
       /\ alive' = alive \ below
       /\ live' = live \ (dead \cup below) /\ handler' = handler \ (dead \cup below)
       /\ UNCHANGED dialogs

\* A document of f commits that was under way before the round: for the main frame
\* an implicit answer.  The children of the old document go.
DidCommitNavigation(f) ==
    LET below == Subtree(f) \ {f}
        s == IF f = Main /\ round[f].waiting /\ round[f].forNavigation
             THEN ProcessBeforeUnloadCompleted(Now, f, TRUE, TRUE) ELSE Now
    IN /\ Spend /\ f \in live
       /\ Becomes(RemoveHosts(s, below))
       /\ alive' = alive \ below /\ live' = live \ below /\ handler' = handler \ (below \cup {f})
       /\ UNCHANGED dialogs

\* CommitNavigation() and FailedNavigation() forget a round that is still open.
ResetWaitingState(f) ==
    /\ Spend /\ f \in alive /\ round[f].waiting
    /\ round' = [round EXCEPT ![f] = [@ EXCEPT !.waiting = FALSE, !.timer = FALSE, !.shown = FALSE,
                                               !.replies = {}]]
    /\ UNCHANGED <<alive, live, handler, runs, dialogs, tasks, outcome>>

Next ==
    \/ \E f \in Frames, type \in Types : DispatchBeforeUnload(f, type)
    \/ \E r \in Frames : Answer(r)
    \/ RunTask
    \/ \E f \in Frames : BeforeUnloadTimeout(f)
    \/ \E x, r \in Frames : RunBeforeUnloadConfirm(x, r)
    \/ \E d \in dialogs, success \in BOOLEAN : JavaScriptDialogClosed(d, success)
    \/ \E f \in Frames : RemoveChild(f)
    \/ \E f \in Frames : RenderProcessGone(Site[f])
    \/ \E f \in Frames : DidCommitNavigation(f)
    \/ \E f \in Frames : ResetWaitingState(f)

Spec == Init /\ [][Next]_vars

--------------------------------------------------------------------------------
\* Types; the timer of a round runs only while the round is open.
TypeOK ==
    /\ live \subseteq alive /\ alive \subseteq Frames /\ handler \subseteq live
    /\ round \in [Frames -> [waiting : BOOLEAN, forNavigation : BOOLEAN, cancels : BOOLEAN,
                             replies : SUBSET Frames, shown : BOOLEAN, timer : BOOLEAN,
                             closing : BOOLEAN, clean : BOOLEAN, orphaned : BOOLEAN]]
    /\ runs \in [Frames -> Seq({"run", "no"})]
    /\ dialogs \subseteq Frames \X Frames
    /\ \A f \in Frames : round[f].timer => round[f].waiting
    /\ budget \in 0..Budget

\* A round that nothing of another round could answer is told to go on without its
\* timer only after every renderer below the initiator answered or went away:
\* beforeunload_pending_replies_ covers all the handlers that were started.
AllHeard == outcome.kind = "told" => outcome.unheard = {}

\* Once the tab was asked to close during a round, the completion goes to the
\* render manager, never to the navigator, whatever else was asked before or after.
CloseSticks == outcome.kind = "told" => ~(outcome.closing /\ outcome.forNavigation)

\* A completed round tells the right client, and only after everyone was heard.
CompletionIsRight == AllHeard /\ CloseSticks

\* An open round always has something that will end it without the renderer: its
\* timer, a final completion already posted, or a dialog that the user must close.
\* The exception is a round whose dialog outlived its frame: JavaScriptDialogClosed()
\* is bound to a weak pointer, and nobody starts the timer of an ancestor again.
HasFinalTask(f) ==
    \E k \in DOMAIN tasks : tasks[k].kind = "simulate" /\ tasks[k].frame = f
RoundIsTimed(f) ==
    \/ round[f].timer \/ HasFinalTask(f) \/ Debugging
    \/ \E d \in dialogs : f \in Ancestors[d[1]]
WaitingIsTimed == \A f \in Frames : round[f].waiting => RoundIsTimed(f) \/ round[f].orphaned

\* No round waits for a renderer alone, and no timer outlives its round.
RoundsAreTimed == TypeOK /\ WaitingIsTimed
================================================================================
