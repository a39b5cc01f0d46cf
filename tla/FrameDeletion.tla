----------------------------- MODULE FrameDeletion -----------------------------
(***************************************************************************)
(* The life of the RenderFrameHosts of a page: children are added,         *)
(* navigations bring a second host to a frame, the old one unloads, frames *)
(* are detached by their own renderer, by their parent's or by a timer, a  *)
(* page waits in the back-forward cache, processes die.  A host that is    *)
(* pending deletion waits for its own unload handlers and for those of all *)
(* the frames below it.                                                    *)
(* The RenderFrameHostManager, which owns the hosts of a frame, is         *)
(* modelled by what this code asks of it.                                  *)
(***************************************************************************)
EXTENDS Integers, Sequences, SequencesExt

CONSTANTS
    Order,   \* all hosts, parents before children
    Parent,  \* the host of the parent document, None for the main frame
    Node,    \* the frame a host is for
    First,   \* the host each frame has when it is added to the tree
    Site,    \* the SiteInstance of every host, with a process of its own
    None

Hosts == ToSet(Order)

ASSUME HostsAssumption ==
    /\ Parent \in [Hosts -> Hosts \cup {None}] /\ None \notin Hosts
    /\ \A h, g \in Hosts : Node[h] = Node[g] => Parent[h] = Parent[g]
    /\ First \subseteq Hosts

VARIABLES
    host,    \* the state of every host
    failed   \* the checks of the code that have failed
vars == <<host, failed>>

Roles == {"none", "current", "speculative", "unloading", "cached", "gone"}
LifecycleStates == {"Speculative", "PendingCommit", "Active", "InBackForwardCache",
                    "RunningUnloadHandlers", "ReadyToBeDeleted"}

\* role is the list of the RenderFrameHostManager that owns the host; frame says
\* whether the renderer still has the frame, unload whether it runs unload handlers.
NoHost == [role |-> "none", life |-> "Speculative", live |-> FALSE, frame |-> FALSE,
           unload |-> FALSE, update |-> FALSE, waiting |-> FALSE, monitor |-> FALSE,
           timer |-> FALSE]
NewHost(role, life) ==
    [NoHost EXCEPT !.role = role, !.life = life, !.live = TRUE, !.frame = TRUE]

State == [host |-> host, failed |-> failed]
Becomes(s) == \E r \in {s} : host' = r.host /\ failed' = r.failed
Check(s, holds, name) == IF holds THEN s ELSE [s EXCEPT !.failed = @ \cup {name}]

Exists(s, h) == s.host[h].role \notin {"none", "gone"}
IsPendingDeletion(s, h) ==
    Exists(s, h) /\ s.host[h].life \in {"RunningUnloadHandlers", "ReadyToBeDeleted"}
IsActive(s, h) == s.host[h].life = "Active" /\ ~s.host[h].update
Children(s, h) == {c \in Hosts : Parent[c] = h /\ s.host[c].role = "current"}
CurrentHost(s, n) == CHOOSE h \in Hosts : Node[h] = n /\ s.host[h].role = "current"

Ancestors[h \in Hosts] == IF Parent[h] = None THEN {h} ELSE {h} \cup Ancestors[Parent[h]]
\* The current hosts of the frames below h (SubtreeNodes() of its children).
Descendants(s, h) == {d \in Hosts : /\ h \in Ancestors[d] \ {d}
                                    /\ \A a \in Ancestors[d] : h \in Ancestors[a] \ {a} =>
                                           s.host[a].role = "current"}

--------------------------------------------------------------------------------
AllowedTransitions ==
    {<<"Speculative", "Active">>, <<"Speculative", "PendingCommit">>,
     <<"PendingCommit", "Active">>, <<"PendingCommit", "ReadyToBeDeleted">>,
     <<"Active", "InBackForwardCache">>, <<"Active", "RunningUnloadHandlers">>,
     <<"Active", "ReadyToBeDeleted">>, <<"InBackForwardCache", "Active">>,
     <<"InBackForwardCache", "ReadyToBeDeleted">>,
     <<"RunningUnloadHandlers", "ReadyToBeDeleted">>}

SetLifecycleState(s, h, new) ==
    LET old == s.host[h]
        allowed == Check(s, <<old.life, new>> \in AllowedTransitions, "transition")
        childless == Check(allowed, new \in {"Active", "PendingCommit"} /\
                                    old.life \in {"Speculative", "PendingCommit"}
                                    => Children(s, h) = {}, "children of a new document")
        updated == Check(childless, old.update => new \in {"InBackForwardCache",
                                     "RunningUnloadHandlers", "ReadyToBeDeleted"}, "update")
    IN [updated EXCEPT !.host[h].life = new, !.host[h].update = FALSE]

ShouldWaitForUnloadHandlers(s, h) == s.host[h].unload /\ s.host[h].life # "InBackForwardCache"

\* Tells the renderer to delete the frame, and waits for it if it has unload handlers.
DeleteAndWait(s, h, timer) ==
    LET timed == [s EXCEPT !.host[h].timer = @ \/ timer]
    IN CASE IsPendingDeletion(s, h) -> s
         [] s.host[h].life = "Speculative" -> timed
         [] OTHER -> SetLifecycleState(timed, h, IF ShouldWaitForUnloadHandlers(s, h)
                                                 THEN "RunningUnloadHandlers"
                                                 ELSE "ReadyToBeDeleted")

\* Mutant: nothing forces the removal of a frame that takes too long to unload.
DeleteUntimed(s, h) == DeleteAndWait(s, h, FALSE)

DeleteRenderFrame(s, h) ==
    DeleteAndWait(s, h, s.host[h].live /\ Parent[h] # None /\ IsActive(s, h))

\* Op for the hosts of S, one after the other.  The fold carries the state in a set:
\* an element of a set is evaluated once.
ForAll(s, Op(_, _), S) ==
    LET done[i \in 0..Len(Order)] ==
            IF i = 0 THEN {s}
            ELSE IF Order[i] \in S THEN {Op(a, Order[i]) : a \in done[i - 1]} ELSE done[i - 1]
    IN CHOOSE r \in done[Len(Order)] : TRUE

\* ~RenderFrameHostImpl().  Its check excepts a main frame, which goes with its view.
Destroyed(s, h) ==
    LET dying == s.host[h]
        checked == Check(s, dying.live /\ Parent[h] # None =>
                            \/ IsPendingDeletion(s, h)
                            \/ dying.life \in {"InBackForwardCache", "Speculative"}, "cleanup sent")
    IN [checked EXCEPT !.host[h] = [NoHost EXCEPT !.role = "gone"]]

\* ResetChildren(), in the destructor or before it, for all the frames below S.
Below(s, S) == {d \in Hosts : Exists(s, d) /\ (Ancestors[d] \ {d}) \cap S # {}}

\* Mutant: the frames below are destroyed, their renderers are not told.
ResetSilently(s, S) == ForAll(s, Destroyed, Below(s, S))

ResetChildren(s, S) ==
    LET below == Below(s, S)
    IN ForAll(ForAll(ForAll(s, DeleteRenderFrame, {d \in below : s.host[d].role = "current"}),
                     LAMBDA acc, d : SetLifecycleState(acc, d, "ReadyToBeDeleted"),
                     {d \in below : s.host[d].life = "PendingCommit"}),
              Destroyed, below)
Destroy(s, S) == ForAll(ResetChildren(s, S), Destroyed, S)

--------------------------------------------------------------------------------
\* One step of PendingDeletionCheckCompleted(): RemoveChild() on the parent checks
\* the parent in turn, which is the host "due" next.
RemoveFrame(s, h) ==
    LET n == {g \in Hosts : Node[g] = Node[h] /\ Exists(s, g)}
        told == ForAll(s, DeleteRenderFrame,
                       {g \in n : \/ s.host[g].role = "current"
                                  \/ s.host[g].life = "PendingCommit"})
    IN Destroy(told, n)

CheckDue(acc, h) ==
    LET s == acc.s
    IN IF h # acc.due THEN acc
       ELSE IF ~Exists(s, h) \/ s.host[h].life # "ReadyToBeDeleted" \/ Children(s, h) # {}
       THEN [acc EXCEPT !.due = None]
       ELSE IF s.host[h].waiting THEN [s |-> Destroy(s, {h}), due |-> None]
       ELSE IF Parent[h] = None THEN [s |-> Check(s, FALSE, "parent"), due |-> None]
       ELSE [s |-> RemoveFrame(s, h), due |-> Parent[h]]

PendingDeletionCheckCompleted(s, h) ==
    (CHOOSE r \in FoldRight(LAMBDA g, acc : {CheckDue(a, g) : a \in acc}, Order,
                            {[s |-> s, due |-> h]}) : TRUE).s

RemoveChild(s, h) ==
    LET removed == RemoveFrame(s, h)
    IN IF Parent[h] = None THEN Check(s, FALSE, "parent")
       ELSE PendingDeletionCheckCompleted(removed, Parent[h])

\* The frames below that wait for nothing go first; each may take its parents along.
PendingDeletionCheckCompletedOnSubtree(s, h) ==
    ForAll(s, PendingDeletionCheckCompleted,
           {d \in Descendants(s, h) \cup {h} : Children(s, d) = {}})

\* CleanUpNavigation() of the frames in S.
ResetNavigations(s, S) ==
    LET nodes == {Node[h] : h \in S}
        spec == {g \in Hosts : Node[g] \in nodes /\ s.host[g].role = "speculative"}
        undone == ForAll(s, LAMBDA acc, g : SetLifecycleState(acc, g, "ReadyToBeDeleted"),
                         {g \in spec : s.host[g].life = "PendingCommit"})
    IN ForAll(undone, Destroyed, spec)

StartPendingDeletionOnSubtree(s, h) ==
    LET Start(acc, d) ==
            LET above == {a \in Ancestors[d] : h \in Ancestors[a] /\ Site[a] = Site[d]}
                top == CHOOSE a \in above : \A b \in above : a \in Ancestors[b]
                deleted == DeleteRenderFrame(acc, top)
            IN IF IsPendingDeletion(acc, d) THEN acc
               ELSE IF top = d THEN deleted
               ELSE SetLifecycleState(deleted, d, IF ShouldWaitForUnloadHandlers(acc, d)
                                                  THEN "RunningUnloadHandlers"
                                                  ELSE "ReadyToBeDeleted")
        below == Descendants(s, h)
    IN ForAll(ResetNavigations(Check(s, IsPendingDeletion(s, h), "pending"), below \cup {h}),
              Start, below)

\* The end of Unload(), Detach() and DetachFromProxy().
DeleteSubtree(s, h) ==
    PendingDeletionCheckCompletedOnSubtree(StartPendingDeletionOnSubtree(s, h), h)

Unload(s, h) ==
    LET swapped == \E g \in Hosts : /\ Node[g] = Node[h] /\ s.host[g].role = "current"
                                    /\ Site[g] = Site[h]  \* local to local: no proxy
        started == [Check(s, ~IsPendingDeletion(s, h), "unload twice")
                        EXCEPT !.host[h].monitor = TRUE, !.host[h].waiting = TRUE]
    IN DeleteSubtree(SetLifecycleState(started, h, IF swapped THEN "ReadyToBeDeleted"
                                                   ELSE "RunningUnloadHandlers"), h)

--------------------------------------------------------------------------------
Init ==
    /\ host = [h \in Hosts |-> IF Parent[h] = None /\ h \in First
                               THEN NewHost("current", "Active") ELSE NoHost]
    /\ failed = {}

\* OnCreateChildFrame() and AddChild(), for a parent in one of these states.
AddChildIf(h, states) ==
    LET p == Parent[h]
    IN /\ h \in First /\ p # None
       /\ \A g \in Hosts : Node[g] = Node[h] => host[g].role = "none"
       /\ Exists(State, p) /\ host[p].live /\ host[p].frame /\ host[p].life \in states
       /\ host' = [host EXCEPT ![h] = NewHost("current", "Active")]
       /\ UNCHANGED failed

\* Mutant: an inactive parent gets its child.
AddChildAnyway(h) == AddChildIf(h, LifecycleStates)

AddChild(h) == AddChildIf(h, {"Active"})

\* A navigation wants another host.
CreateSpeculative(h) ==
    /\ host[h].role = "none" /\ h \notin First
    /\ \E g \in Hosts : /\ Node[g] = Node[h] /\ host[g].role = "current"
                        /\ host[g].life = "Active"
    /\ \A g \in Hosts : Node[g] = Node[h] => host[g].role # "speculative"
    /\ host' = [host EXCEPT ![h] = NewHost("speculative", "Speculative")]
    /\ UNCHANGED failed

CommitNavigation(h) ==
    /\ host[h].role = "speculative" /\ host[h].life = "Speculative"
    /\ Becomes(SetLifecycleState(State, h, "PendingCommit"))

DiscardSpeculative(h) ==
    /\ host[h].role = "speculative"
    /\ Becomes(ResetNavigations(State, {h}))

Page(s, h) == {h} \cup Descendants(s, h)

\* The host next takes the place of the current one, which is cached or unloads.
Swapped(next, life) ==
    LET old == CurrentHost(State, Node[next])
        main == Parent[old] = None
        s == [State EXCEPT !.host = [h \in Hosts |->
                 CASE h = next -> [host[h] EXCEPT !.role = "current"]
                   [] h = old -> [host[h] EXCEPT !.role = "unloading", !.update = main]
                   [] h \in Descendants(State, old) -> [host[h] EXCEPT !.update = @ \/ main]
                   [] OTHER -> host[h]]]
        committed == SetLifecycleState(s, next, life)
    IN \/ ~host[old].live /\ Becomes(Destroy(committed, {old}))
       \/ host[old].live /\ Becomes(Unload(committed, old))
       \/ /\ main  \* a page is cached with no navigation and no deletion under way
          /\ \A h \in Page(State, old) :
                 /\ host[h].life = "Active" /\ host[h].live
                 /\ \A g \in Hosts \ {next} : Node[g] = Node[h] =>
                        host[g].role \notin {"speculative", "unloading"}
          /\ Becomes(ForAll([committed EXCEPT !.host[old].role = "cached"],
                            LAMBDA acc, h : SetLifecycleState(acc, h, "InBackForwardCache"),
                            Page(State, old)))

DidCommitNavigation(h) ==
    /\ host[h].role = "speculative" /\ host[h].life = "PendingCommit" /\ host[h].frame
    /\ Swapped(h, "Active")

\* Another document commits in the host that is there: EnsureDescendantsAreUnloading()
\* removes every child of the old document that is not pending deletion.
DidCommitSameHost(h) ==
    /\ host[h].role = "current" /\ host[h].life = "Active" /\ host[h].live /\ host[h].frame
    /\ LET RemoveUnlessPending(s, d) ==
               IF \A a \in Ancestors[d] \ Ancestors[h] : IsPendingDeletion(s, a) THEN s
               ELSE IF Exists(s, d) /\ \A a \in Ancestors[Parent[d]] \ Ancestors[h] :
                                            IsPendingDeletion(s, a)
                    THEN RemoveChild(s, d) ELSE s
       IN Becomes(ForAll([State EXCEPT !.host[h].unload = FALSE], RemoveUnlessPending,
                         Descendants(State, h)))

RestoreFromBackForwardCache(h) ==
    /\ host[h].role = "cached"
    /\ LET restored == ForAll(State, LAMBDA s, d : SetLifecycleState(s, d, "Active"),
                              Descendants(State, h))
           old == CurrentHost(State, Node[h])
       IN /\ host[old].live
          /\ Becomes(Unload(SetLifecycleState(
                 [restored EXCEPT !.host[h].role = "current", !.host[old].role = "unloading"],
                 h, "Active"), old))

EvictFromBackForwardCache(h) ==
    /\ host[h].role = "cached"
    /\ Becomes(Destroy(State, {h}))

--------------------------------------------------------------------------------
\* SuddenTerminationDisablerChanged()
UnloadHandlersChanged(h) ==
    /\ Exists(State, h) /\ host[h].frame /\ host[h].life = "Active"
    /\ host' = [host EXCEPT ![h].unload = ~@]
    /\ UNCHANGED failed

\* A renderer detaches the frames below a frame first, those below remote frames too.
IsLocalLeaf(h) == \A d \in Hosts :
    Exists(State, d) /\ host[d].frame /\ h \in Ancestors[d] /\ Site[d] = Site[h] => d = h

\* The renderer has swapped the frame out, as Unload() asked.
OnUnloadACK(h) ==
    /\ IsLocalLeaf(h) /\ host[h].waiting /\ host[h].frame /\ host[h].life = "RunningUnloadHandlers"
    /\ LET s == [State EXCEPT !.host[h].frame = FALSE]
       IN Becomes(PendingDeletionCheckCompleted(SetLifecycleState(s, h, "ReadyToBeDeleted"), h))

\* The renderer has detached the frame, asked by the browser or not.
Detach(h) ==
    /\ Exists(State, h) /\ host[h].frame /\ IsLocalLeaf(h) /\ Parent[h] # None
    /\ LET s == [State EXCEPT !.host[h].frame = FALSE]
           ready == IF host[h].life = "ReadyToBeDeleted" THEN s
                    ELSE SetLifecycleState(s, h, "ReadyToBeDeleted")
       IN Becomes(IF host[h].life \in {"Speculative", "PendingCommit"} THEN s
                  ELSE IF host[h].waiting THEN RemoveChild(s, h)
                  ELSE IF IsPendingDeletion(State, h)
                  THEN PendingDeletionCheckCompleted(ready, h)
                  ELSE DeleteSubtree(ready, h))

\* The renderer of the parent document has removed the frame of another process.
DetachFromProxy(h) ==
    /\ host[h].role = "current" /\ Parent[h] # None /\ Site[Parent[h]] # Site[h]
    /\ host[Parent[h]].frame
    /\ ~IsPendingDeletion(State, h)
    /\ Becomes(DeleteSubtree(DeleteRenderFrame(State, h), h))

\* The two timers: Unload() starts the first, DeleteRenderFrame() the second.
OnUnloaded(h) ==
    /\ host[h].monitor
    /\ Becomes(Destroy(Check(State, host[h].waiting, "waiting for unload"), {h}))
OnUnloadTimeout(h) ==
    /\ host[h].timer
    /\ Becomes(RemoveChild(Check([State EXCEPT !.host[h].timer = FALSE],
                                 IsPendingDeletion(State, h), "pending"), h))

\* RenderProcessGone() of every host of site p.
RenderProcessGone(p) ==
    LET Gone(s, h) ==
            LET reset == ResetChildren(s, {h})
                dead == [reset EXCEPT !.host[h].live = FALSE, !.host[h].frame = FALSE,
                                      !.host[h].unload = FALSE]
                ready == IF dead.host[h].life = "ReadyToBeDeleted" THEN dead
                         ELSE SetLifecycleState(dead, h, "ReadyToBeDeleted")
            IN IF ~Exists(s, h) THEN s
               ELSE IF IsPendingDeletion(s, h) THEN PendingDeletionCheckCompleted(ready, h)
               ELSE IF s.host[h].role = "speculative" THEN ResetNavigations(dead, {h})
               ELSE dead
        there == {h \in Hosts : Exists(State, h) /\ Site[h] = p}
        evicted == {h \in Hosts : host[h].role = "cached" /\ Page(State, h) \cap there # {}}
    IN /\ \E h \in there : host[h].live
       /\ Becomes(Destroy(ForAll(State, Gone, there), evicted))

Next == \E h \in Hosts :
    \/ AddChild(h)
    \/ CreateSpeculative(h)
    \/ CommitNavigation(h)
    \/ DiscardSpeculative(h)
    \/ DidCommitNavigation(h)
    \/ DidCommitSameHost(h)
    \/ RestoreFromBackForwardCache(h)
    \/ EvictFromBackForwardCache(h)
    \/ UnloadHandlersChanged(h)
    \/ OnUnloadACK(h)
    \/ Detach(h)
    \/ DetachFromProxy(h)
    \/ OnUnloaded(h)
    \/ OnUnloadTimeout(h)
    \/ RenderProcessGone(Site[h])

\* TimeoutMonitor and OneShotTimer fire unless they are stopped: weak fairness of
\* OnUnloaded(h) and OnUnloadTimeout(h), which are enabled as long as they did not
\* happen, said without ENABLED.
Fairness == \A h \in Hosts : []<>~host[h].monitor /\ []<>~host[h].timer
Spec == Init /\ [][Next]_vars /\ Fairness

--------------------------------------------------------------------------------
HostType == [role : Roles, life : LifecycleStates, live : BOOLEAN, frame : BOOLEAN,
             unload : BOOLEAN, update : BOOLEAN, waiting : BOOLEAN, monitor : BOOLEAN,
             timer : BOOLEAN]

\* Types, and who owns what: a frame has one current host, a host that waits for its
\* unload is in the list of those that unload, with its timer running, and no host of
\* a frame outlives the current one, or the parent document.
TypeOK ==
    /\ host \in [Hosts -> HostType]
    /\ \A h \in Hosts :
           /\ host[h].waiting <=> host[h].role = "unloading"
           /\ host[h].monitor <=> host[h].waiting
           /\ host[h].timer => IsPendingDeletion(State, h)
           /\ Exists(State, h) /\ Parent[h] # None => Exists(State, Parent[h])
           /\ Exists(State, h) =>
                  \E g \in Hosts : Node[g] = Node[h] /\ host[g].role = "current"
           /\ \A g \in Hosts \ {h} : Node[g] = Node[h] =>
                  "current" \notin {host[g].role} \cap {host[h].role}

\* The DCHECKs, CHECKs and NOTREACHEDs on these paths hold: only allowed transitions
\* of the life cycle, no host destroyed before its renderer was told, no acknowledged
\* or timed-out unload of a host that does not unload, no host without parent removed
\* from its parent.
ChecksHold == TypeOK /\ failed = {}

\* A host that is ready to be deleted and has no frame below it is gone, and below a
\* host that is pending deletion everything is: nothing waits that nobody will check.
NoZombie == \A h \in Hosts :
    Exists(State, h) /\ host[h].life = "ReadyToBeDeleted" => Children(State, h) # {}
SubtreeIsPending == \A h \in Hosts : IsPendingDeletion(State, h) =>
    \A d \in Descendants(State, h) : IsPendingDeletion(State, d)
PendingSubtrees == NoZombie /\ SubtreeIsPending

\* A host that is pending deletion goes, even when renderers never answer: every wait
\* is covered by the timer of the host, of one above it or of all those below it.
PendingDeletionEnds == \A h \in Hosts : IsPendingDeletion(State, h) ~> ~Exists(State, h)
================================================================================
