---------------------------- MODULE FrameNavigation ----------------------------
(***************************************************************************)
(* The navigations of a main frame: its RenderFrameHosts in the browser    *)
(* process, the RenderFrame of each in a renderer process of its own, and  *)
(* the two channels between them.  Both sides start navigations; the       *)
(* browser decides which host commits one and asks its frame to; the frame *)
(* commits, refuses or cancels, and reports what it did.                   *)
(* All the interfaces used here are associated with one channel: what one  *)
(* side sends arrives in that order.  NavigationRequest, Navigator,        *)
(* RenderFrameHostManager and Blink are modelled by what this code asks of *)
(* them and what it is told by them.                                       *)
(***************************************************************************)
EXTENDS Integers, Sequences, FiniteSets, SequencesExt

CONSTANTS
    Hosts,       \* the hosts the frame may have, each in a process of its own
    First,       \* the host the frame is created with
    Kinds,       \* per navigation to a document, its kinds: "cross", "mhtml", "reload"
    Galaxies,    \* may pages hold WebRT galaxies?
    MaxNavs,     \* bounds the navigations started and processes that die, together
    None         \* no host

ASSUME NavigationAssumption ==
    /\ First \in Hosts /\ None \notin Hosts
    /\ MaxNavs \in Nat
    /\ Kinds \in [1..MaxNavs -> SUBSET {"cross", "mhtml", "reload"}]

VARIABLES
    nav,      \* every navigation: its kind and the host whose frame began it
    next,     \* the number of the next navigation
    ongoing,  \* the FrameTreeNode's request, 0 if it has none
    current,  \* the host the FrameTreeNode shows
    initial,  \* is_on_initial_empty_document() of the FrameTreeNode
    host,     \* the browser's side: the state of every RenderFrameHostImpl
    frame,    \* the renderers' side: the state of every RenderFrameImpl
    down, up, \* the messages to and from every renderer
    crashes,
    swallowed,\* the navigations a frame was asked to commit and forgot
    bad       \* the checks that failed and the bad messages that were received
vars == <<nav, next, ongoing, current, initial, host, frame, down, up, crashes, swallowed, bad>>
browserOnly == <<nav, next, ongoing, current, initial, host, crashes>>

Navs == 1..MaxNavs
HostStates == {"none", "Speculative", "PendingCommit", "Active", "PendingDeletion", "deleted"}
FrameStates == {"none", "provisional", "attached", "gone"}

\* requests is navigation_requests_, same the entries of
\* same_document_navigation_requests_ that hold a request and empty those that hold
\* none; dsn and pos are the navigations that committed the document and its position.
NoHost == [life |-> "none", live |-> FALSE, waiting |-> FALSE, pend |-> 0, closed |-> FALSE,
           requests |-> {}, same |-> {}, empty |-> {}, loading |-> FALSE, dsn |-> 0, pos |-> 0]
\* client is navigation_client_impl_, nav the navigation Blink waits for, docLoading
\* whether Blink loads the document; script tells the frames scripts can reach.
NoFrame == [life |-> "none", client |-> 0, mhtml |-> 0, nav |-> 0, docLoading |-> FALSE,
            started |-> FALSE, initial |-> TRUE, script |-> FALSE, dsn |-> 0, pos |-> 0]

Gone == [NoFrame EXCEPT !.life = "gone"]

Msg(t, n) == [type |-> t, n |-> n, arg |-> "", dsn |-> 0]
Send(channel, h, msgs) == [channel EXCEPT ![h] = @ \o msgs]
Next1(channel, h, t) == channel[h] # <<>> /\ Head(channel[h]).type = t
Popped(channel, h) == [channel EXCEPT ![h] = Tail(@)]
OneIf(cond, m) == IF cond THEN <<m>> ELSE <<>>

Speculative == {h \in Hosts : host[h].life \in {"Speculative", "PendingCommit"}}
IsLoading(f) == f.docLoading \/ f.nav # 0

\* A NavigationRequest that ends closes its client, which its frame may still hold.
Dropped(channel, n) ==
    IF n = 0 \/ nav[n].from = None THEN channel
    ELSE IF frame[nav[n].from].life # "attached" THEN channel
    ELSE Send(channel, nav[n].from, <<Msg("dropped", n)>>)
DroppedAll(channel, ns) ==
    [h \in Hosts |-> channel[h] \o
        (IF frame[h].life # "attached" THEN <<>>
         ELSE [i \in 1..Cardinality({n \in ns : nav[n].from = h}) |->
                 Msg("dropped", SetToSeq({n \in ns : nav[n].from = h})[i])])]

--------------------------------------------------------------------------------
(* The browser process.                                                    *)

NewNavigation(from, kinds) ==
    /\ next + crashes <= MaxNavs
    /\ next' = next + 1
    /\ \E k \in kinds : nav' = [nav EXCEPT ![next] = [from |-> from, kind |-> k]]

\* The user navigates: the frame's own navigation, if any, is replaced.
BrowserNavigates ==
    /\ ~host[current].waiting
    /\ NewNavigation(None, Kinds[next])
    /\ ongoing' = next
    /\ down' = Dropped(down, ongoing)
    /\ UNCHANGED <<current, initial, host, frame, up, crashes, swallowed, bad>>

\* SetNavigationRequest(), CommitNavigation(): a navigation within the document the
\* browser knows to be the frame's, to a fragment or back or forward in its history.
CommitSameDocumentNavigation ==
    /\ host[current].live /\ ~host[current].waiting /\ host[current].dsn # 0
    /\ NewNavigation(None, {"same"})
    /\ ongoing' = 0
    /\ host' = [host EXCEPT ![current].same = @ \cup {next}, ![current].loading = TRUE]
    /\ \E type \in {"fragment", "history"} :
          down' = Send(Dropped(down, ongoing), current,
                       <<[type |-> "same", n |-> next, arg |-> type, dsn |-> host[current].dsn]>>)
    /\ UNCHANGED <<current, initial, frame, up, crashes, swallowed, bad>>

\* The RenderFrameHostManager prepares a host of another process.
CreateRenderFrame ==
    /\ ongoing # 0 /\ Speculative = {}
    /\ \E h \in Hosts :
        /\ host[h].life = "none"
        /\ host' = [host EXCEPT ![h] = [NoHost EXCEPT !.life = "Speculative", !.live = TRUE]]
        /\ frame' = [frame EXCEPT ![h] = [NoFrame EXCEPT !.life = "provisional"]]
    /\ UNCHANGED <<nav, next, ongoing, current, initial, down, up, crashes, swallowed, bad>>

\* CommitNavigation(), FailedNavigation(): the request is ready to commit in h.  The
\* client the frame began with is used again, any other host's frame binds one.
CommitIn(h, kind) ==
    /\ ongoing # 0 /\ host[h].live
    /\ h = current \/ h \in Speculative
    /\ ongoing' = 0
    /\ host' = [host EXCEPT ![h].requests = @ \cup {ongoing}, ![h].loading = TRUE,
                            ![h].life = IF @ = "Speculative" THEN "PendingCommit" ELSE @]
    /\ down' = Send(down, h, OneIf(nav[ongoing].from # h, Msg("bind", ongoing))
                             \o <<[Msg("commit", ongoing) EXCEPT !.arg = kind]>>)
    /\ UNCHANGED <<nav, next, current, initial, frame, up, crashes, swallowed, bad>>
CommitNavigation == \E h \in Hosts : ongoing # 0 /\ CommitIn(h, nav[ongoing].kind)
FailedNavigation == \E h \in Hosts : CommitIn(h, "error")

\* The navigation is stopped, or ends without a document.
CancelNavigation ==
    /\ ongoing # 0
    /\ ongoing' = 0
    /\ down' = Dropped(down, ongoing)
    /\ UNCHANGED <<nav, next, current, initial, host, frame, up, crashes, swallowed, bad>>

\* DeleteRenderFrame(), UndoCommitNavigation(): the other host is not needed any more.
\* Mutant: a host that was asked to commit is deleted like any other.
AlwaysDeleted(life) == "delete"

HowDiscarded(life) == IF life = "Speculative" THEN "delete" ELSE "undo"
DiscardSpeculative(h) ==
    /\ h \in Speculative
    /\ host' = [host EXCEPT ![h] = [NoHost EXCEPT !.life = "deleted"]]
    /\ down' = Send(DroppedAll(down, host[h].requests), h,
                    <<Msg(HowDiscarded(host[h].life), 0)>>)
    /\ up' = [up EXCEPT ![h] = <<>>]
    /\ UNCHANGED <<nav, next, ongoing, current, initial, frame, crashes, swallowed, bad>>

\* IsInactiveAndDisallowActivation(): only an active host takes what its frame starts;
\* one that was never shown should not be asked.
Inactive(h) == host[h].life \in {"PendingDeletion", "deleted"}
NotShown(h, what) == bad' = IF h \in Speculative THEN bad \cup {what} ELSE bad

BeginNavigation(h) ==
    LET n == Head(up[h]).n IN
    /\ Next1(up, h, "begin")
    /\ up' = Popped(up, h)
    /\ NotShown(h, "begin in a host not shown")
    /\ \/ /\ Inactive(h)
          /\ UNCHANGED <<ongoing, host, down>>
       \/ /\ ~Inactive(h) /\ host[h].waiting
          /\ host' = [host EXCEPT ![h].pend = n, ![h].closed = FALSE]
          /\ UNCHANGED <<ongoing, down>>
       \/ /\ ~Inactive(h) /\ ~host[h].waiting
          /\ ongoing' = n
          /\ down' = Dropped(down, ongoing)
          /\ UNCHANGED host
       \/ /\ ~Inactive(h) /\ ~host[h].waiting   \* the user's navigation wins
          /\ ongoing # 0 /\ nav[ongoing].from = None
          /\ down' = Dropped(down, n)
          /\ UNCHANGED <<ongoing, host>>
    /\ UNCHANGED <<nav, next, current, initial, frame, crashes, swallowed>>

\* Init(): the window the renderer opened is shown.  A client that was closed in the
\* meantime ends its navigation before anything commits.
InitHost(h) ==
    /\ host[h].waiting
    /\ host' = [host EXCEPT ![h].waiting = FALSE, ![h].pend = 0, ![h].closed = FALSE]
    /\ ongoing' = IF host[h].pend # 0 /\ ~host[h].closed THEN host[h].pend ELSE ongoing
    /\ UNCHANGED <<nav, next, current, initial, frame, down, up, crashes, swallowed, bad>>

\* The host of a committed navigation replaces the one that was shown, which unloads:
\* every navigation of the frame is reset.
SwappedHosts(h, shown) ==
    [shown EXCEPT ![current] = [NoHost EXCEPT
        !.life = IF host[current].live THEN "PendingDeletion" ELSE "deleted"]]
SwapTo(h, shown) ==
    /\ host' = SwappedHosts(h, shown)
    /\ ongoing' = 0
    /\ down' = Send(Dropped(DroppedAll(down, host[current].requests), ongoing), current,
                    OneIf(host[current].live, Msg("unload", 0)))
    /\ current' = h

DidCommitNavigation(h) ==
    LET m == Head(up[h])
        committed == [host EXCEPT ![h].requests = @ \ {m.n}, ![h].loading = TRUE,
                                  ![h].life = "Active", ![h].dsn = m.n, ![h].pos = m.n]
    IN
    /\ Next1(up, h, "didCommit")
    /\ up' = Popped(up, h)
    /\ IF Inactive(h) \/ m.n \notin host[h].requests \cup {0}
       THEN UNCHANGED <<ongoing, current, initial, host, down, bad>>
       ELSE /\ bad' = bad \cup (IF m.arg = "same global" /\ ~initial
                                THEN {"interface provider missing"} ELSE {})
                          \cup (IF m.n = 0 /\ ~initial THEN {"no request"} ELSE {})
            /\ initial' = (initial /\ m.n = 0)
            /\ IF h = current
               THEN host' = committed /\ UNCHANGED <<ongoing, current, down>>
               ELSE SwapTo(h, committed)
    /\ UNCHANGED <<nav, next, frame, crashes, swallowed>>

\* The request is taken from the map, and put back when the frame reports another URL than
\* it was asked to commit, as one does whose document was loaded with a base URL.
StillWaiting(h, m) == IF m.arg = "other url" THEN host[h].same ELSE host[h].same \ {m.n}

\* Mutant: only what the browser asked for is recorded.
OnlyRequestedPositions(h) ==
    LET m == Head(up[h]) IN
    /\ Next1(up, h, "didCommitSame")
    /\ up' = Popped(up, h)
    /\ NotShown(h, "same document in a host not shown")
    /\ host' = IF Inactive(h) \/ m.n \notin host[h].same THEN host
               ELSE [host EXCEPT ![h].same = StillWaiting(h, m), ![h].loading = TRUE, ![h].pos = m.n]
    /\ UNCHANGED <<nav, next, ongoing, current, initial, frame, down, crashes, swallowed>>

DidCommitSameDocumentNavigation(h) ==
    LET m == Head(up[h]) IN
    /\ Next1(up, h, "didCommitSame")
    /\ up' = Popped(up, h)
    /\ NotShown(h, "same document in a host not shown")
    /\ host' = IF Inactive(h) THEN host
               ELSE [host EXCEPT ![h].same = StillWaiting(h, m), ![h].loading = TRUE, ![h].pos = m.n]
    /\ UNCHANGED <<nav, next, ongoing, current, initial, frame, down, crashes, swallowed>>

\* A navigation that could not stay in the document starts again as one to a document;
\* its entry stays, without the request that was moved out of it.
OnSameDocumentCommitProcessed(h) ==
    LET m == Head(up[h])
        found == m.n \in host[h].same
        restart == found /\ m.arg = "RestartCrossDocument"
    IN
    /\ Next1(up, h, "processed")
    /\ up' = Popped(up, h)
    /\ host' = [host EXCEPT ![h].same = @ \ {m.n},
                            ![h].empty = IF restart THEN @ \cup {m.n} ELSE @]
    /\ ongoing' = IF restart THEN m.n ELSE ongoing
    /\ nav' = IF restart THEN [nav EXCEPT ![m.n].kind = "cross"] ELSE nav
    /\ down' = IF restart THEN Dropped(down, ongoing) ELSE down
    /\ bad' = bad \cup (IF ~found /\ m.arg # "Ok" /\ host[h].life # "deleted"
                        THEN {"refused without a request"} ELSE {})
                  \cup (IF found /\ m.arg = "Ok" THEN {"carried out but waiting"} ELSE {})
    /\ UNCHANGED <<next, current, initial, frame, crashes, swallowed>>

\* Mutant: a request that was to commit is forgotten by nobody.
CancelledIsKept(h) ==
    LET n == Head(up[h]).n IN
    /\ Next1(up, h, "disconnected")
    /\ up' = Popped(up, h)
    /\ ongoing' = IF ongoing = n /\ nav[n].from = h THEN 0 ELSE ongoing
    /\ host' = [host EXCEPT ![h].closed = @ \/ host[h].pend = n]
    /\ UNCHANGED <<nav, next, current, initial, frame, down, crashes, swallowed, bad>>

\* The frame closed the client of a navigation: NavigationRequestCancelled() if it was
\* to commit there, otherwise it is the FrameTreeNode's to cancel.
NavigationRequestCancelled(h) ==
    LET n == Head(up[h]).n IN
    /\ Next1(up, h, "disconnected")
    /\ up' = Popped(up, h)
    /\ ongoing' = IF ongoing = n /\ nav[n].from = h THEN 0 ELSE ongoing
    /\ host' = [host EXCEPT ![h].requests = @ \ {n},
                            ![h].closed = @ \/ host[h].pend = n]
    /\ UNCHANGED <<nav, next, current, initial, frame, down, crashes, swallowed, bad>>

DidStopLoading(h) ==
    /\ Next1(up, h, "stopped")
    /\ up' = Popped(up, h)
    /\ host' = [host EXCEPT ![h].loading = FALSE]
    /\ UNCHANGED <<nav, next, ongoing, current, initial, frame, down, crashes, swallowed, bad>>

OnUnloadACK(h) ==
    /\ Next1(up, h, "unloaded")
    /\ up' = Popped(up, h)
    /\ host' = [host EXCEPT ![h] = [NoHost EXCEPT !.life = "deleted"]]
    /\ UNCHANGED <<nav, next, ongoing, current, initial, frame, down, crashes, swallowed, bad>>

\* The process of h dies: so do its frame and all that was under way.
RenderProcessGone(h) ==
    /\ next + crashes <= MaxNavs /\ crashes' = crashes + 1
    /\ frame[h].life \in {"provisional", "attached"}
    /\ frame' = [frame EXCEPT ![h] = Gone]
    /\ host' = [host EXCEPT ![h] =
                  IF @.life = "Active"
                  THEN [@ EXCEPT !.live = FALSE, !.requests = {}, !.same = {}, !.empty = {},
                                 !.loading = FALSE, !.closed = host[h].pend # 0]
                  ELSE [NoHost EXCEPT !.life = "deleted"]]
    /\ ongoing' = IF ongoing # 0 /\ nav[ongoing].from = h THEN 0 ELSE ongoing
    /\ down' = [DroppedAll(down, {n \in host[h].requests : nav[n].from # h}) EXCEPT ![h] = <<>>]
    /\ up' = [up EXCEPT ![h] = <<>>]
    /\ UNCHANGED <<nav, next, current, initial, swallowed, bad>>

--------------------------------------------------------------------------------
(* The renderer processes.                                                 *)

Attached(h) == frame[h].life = "attached"
Report(h, f, msgs) == frame' = [frame EXCEPT ![h] = f] /\ up' = Send(up, h, msgs)
Closed(n) == OneIf(n # 0, Msg("disconnected", n))
Stopped(f) == OneIf(~IsLoading(f), Msg("stopped", 0))
rendererOnly == <<nav, next, ongoing, current, initial, host, crashes>>

Receive(h, t) == Next1(down, h, t) /\ down' = Popped(down, h)

\* BindNavigationClient(): one client at a time, the one it had is closed.
Bind(h) ==
    LET n == Head(down[h]).n IN
    /\ Receive(h, "bind")
    /\ Report(h, [frame[h] EXCEPT !.client = n], Closed(frame[h].client))
    /\ UNCHANGED <<rendererOnly, swallowed, bad>>

\* The document of navigation n replaces the frame's; a provisional frame is swapped in.
Committed(h, n) ==
    [frame[h] EXCEPT !.life = "attached", !.client = 0, !.mhtml = 0, !.nav = 0,
                     !.docLoading = TRUE, !.initial = FALSE, !.dsn = n, !.pos = n]
DidCommitArgs(h) == {""} \cup (IF Attached(h) /\ frame[h].initial THEN {"same global"} ELSE {})

Commit(h) ==
    LET m == Head(down[h])
        f == frame[h]
        here == f.client = m.n
    IN
    /\ Receive(h, "commit")
    /\ \/ /\ ~here  \* sent to a client that was closed
          /\ UNCHANGED <<frame, up, swallowed>>
       \/ /\ here /\ m.arg = "reload" /\ Galaxies /\ Attached(h)
          /\ swallowed' = swallowed \cup {m.n}
          /\ Report(h, f, Stopped(f))
       \/ /\ here /\ m.arg = "mhtml"  \* commits when the archive has been read
          /\ Report(h, [f EXCEPT !.client = 0, !.mhtml = m.n], Closed(f.mhtml))
          /\ UNCHANGED swallowed
       \/ /\ here /\ m.arg # "mhtml"
          /\ \E a \in DidCommitArgs(h) :
                Report(h, Committed(h, m.n),
                       Closed(f.mhtml) \o <<[Msg("didCommit", m.n) EXCEPT !.arg = a]>>)
          /\ UNCHANGED swallowed
    /\ UNCHANGED <<rendererOnly, bad>>

BodyLoadingFinished(h) ==
    LET n == frame[h].mhtml IN
    /\ n # 0
    /\ \E a \in DidCommitArgs(h) :
          Report(h, [Committed(h, n) EXCEPT !.client = frame[h].client],
                 <<[Msg("didCommit", n) EXCEPT !.arg = a]>>)
    /\ UNCHANGED <<rendererOnly, down, swallowed, bad>>

\* Mutant: the browser is not told that nothing loads after all.
RefusedQuietly(f, n, how) == <<[Msg("processed", n) EXCEPT !.arg = how]>>
Refused(f, n, how) == <<[Msg("processed", n) EXCEPT !.arg = how]>> \o Stopped(f)

\* CommitSameDocumentNavigation(): a history item of another document is refused, and Blink
\* may refuse any navigation.  The navigation that is committed reports the frame's URL,
\* which need not be the one it was asked for.
CommitSameDocument(h) ==
    LET m == Head(down[h])
        f == [frame[h] EXCEPT !.mhtml = 0]
        another == m.arg = "history" /\ m.dsn # f.dsn
    IN
    /\ Receive(h, "same")
    /\ \/ \E url \in {"", "other url"} :
          /\ ~another
          /\ Report(h, [f EXCEPT !.pos = m.n],
                    Closed(frame[h].mhtml) \o <<[Msg("didCommitSame", m.n) EXCEPT !.arg = url]>>
                    \o Stopped(f) \o <<[Msg("processed", m.n) EXCEPT !.arg = "Ok"]>>)
       \/ \E how \in {"Aborted", "RestartCrossDocument"} :
          /\ another => how = "RestartCrossDocument"
          /\ Report(h, f, Closed(frame[h].mhtml) \o Refused(f, m.n, how))
    /\ bad' = bad \cup (IF Attached(h) THEN {} ELSE {"same document outside the tree"})
                  \cup (IF m.arg = "history" /\ f.initial THEN {"no history item"} ELSE {})
                  \cup (IF another THEN {"history of another document"} ELSE {})
    /\ UNCHANGED <<rendererOnly, swallowed>>

\* A script or a user of the page navigates.  The first navigation of a frame that a
\* script created may be to about:blank, which commits at once.
BeginNavigationInternal(h) ==
    /\ Attached(h) /\ (frame[h].initial => frame[h].script)
    /\ NewNavigation(h, Kinds[next])
    /\ Report(h, [frame[h] EXCEPT !.client = next, !.nav = next, !.mhtml = 0, !.started = TRUE],
              Closed(frame[h].client) \o Closed(frame[h].mhtml) \o <<Msg("begin", next)>>)
    /\ UNCHANGED <<ongoing, current, initial, host, down, crashes, swallowed, bad>>

SynchronouslyCommitAboutBlankForBug778318(h) ==
    /\ Attached(h) /\ frame[h].initial /\ frame[h].script /\ ~frame[h].started
    /\ Report(h, [frame[h] EXCEPT !.started = TRUE, !.dsn = 0, !.pos = 0],
              <<[Msg("didCommit", 0) EXCEPT !.arg = "same global"], Msg("stopped", 0)>>)
    /\ UNCHANGED <<rendererOnly, down, swallowed, bad>>

AbortClientNavigation(h) ==
    LET f == [frame[h] EXCEPT !.client = 0, !.mhtml = 0, !.nav = 0] IN
    /\ Attached(h) /\ frame[h].nav # 0
    /\ Report(h, f, Closed(frame[h].mhtml) \o Closed(frame[h].client) \o Stopped(f))
    /\ UNCHANGED <<rendererOnly, down, swallowed, bad>>

\* OnDroppedNavigation(): the browser closed the client the frame waits on.
OnDroppedNavigation(h) ==
    LET n == Head(down[h]).n
        f == [frame[h] EXCEPT !.client = 0, !.nav = 0]
    IN
    /\ Receive(h, "dropped")
    /\ IF frame[h].client = n THEN Report(h, f, Stopped(f)) ELSE UNCHANGED <<frame, up>>
    /\ UNCHANGED <<rendererOnly, swallowed, bad>>

\* pushState() and the like: committed at once, and reported.
DidFinishSameDocumentNavigation(h) ==
    /\ Attached(h) /\ (frame[h].initial => frame[h].script)
    /\ NewNavigation(h, {"same"})
    /\ Report(h, [frame[h] EXCEPT !.pos = next],
              <<Msg("didCommitSame", next)>> \o Stopped(frame[h]))
    /\ UNCHANGED <<ongoing, current, initial, host, down, crashes, swallowed, bad>>

DidStopLoadingDocument(h) ==
    LET f == [frame[h] EXCEPT !.docLoading = FALSE] IN
    /\ Attached(h) /\ frame[h].docLoading
    /\ Report(h, f, Stopped(f))
    /\ UNCHANGED <<rendererOnly, down, swallowed, bad>>

Unload(h) ==
    /\ Receive(h, "unload")
    /\ Report(h, Gone, <<Msg("unloaded", 0)>>)
    /\ UNCHANGED <<rendererOnly, swallowed, bad>>

UndoCommitNavigation(h) ==
    /\ Receive(h, "undo")
    /\ Report(h, Gone, <<>>)
    /\ UNCHANGED <<rendererOnly, swallowed, bad>>

\* Delete(): a provisional main frame that was swapped in cannot be deleted any more.
Delete(h) ==
    /\ Receive(h, "delete")
    /\ Report(h, Gone, <<>>)
    /\ bad' = IF Attached(h) THEN bad \cup {"deleted in the tree"} ELSE bad
    /\ UNCHANGED <<rendererOnly, swallowed>>

--------------------------------------------------------------------------------
Init ==
    /\ nav = [n \in Navs |-> [from |-> None, kind |-> "none"]]
    /\ next = 1 /\ ongoing = 0 /\ current = First /\ initial = TRUE /\ crashes = 0
    /\ \E waiting \in BOOLEAN :  \* a window that a renderer opened waits to be shown
        /\ host = [h \in Hosts |->
                     IF h = First THEN [NoHost EXCEPT !.life = "Active", !.live = TRUE,
                                                      !.waiting = waiting]
                     ELSE NoHost]
        /\ frame = [h \in Hosts |->
                      IF h = First THEN [NoFrame EXCEPT !.life = "attached", !.script = waiting]
                      ELSE NoFrame]
    /\ down = [h \in Hosts |-> <<>>] /\ up = [h \in Hosts |-> <<>>]
    /\ swallowed = {} /\ bad = {}

Browser(h) ==
    \/ DiscardSpeculative(h) \/ BeginNavigation(h) \/ InitHost(h)
    \/ DidCommitNavigation(h) \/ DidCommitSameDocumentNavigation(h)
    \/ OnSameDocumentCommitProcessed(h) \/ NavigationRequestCancelled(h)
    \/ DidStopLoading(h) \/ OnUnloadACK(h) \/ RenderProcessGone(h)

Renderer(h) ==
    \/ Bind(h) \/ Commit(h) \/ BodyLoadingFinished(h) \/ CommitSameDocument(h)
    \/ BeginNavigationInternal(h) \/ SynchronouslyCommitAboutBlankForBug778318(h)
    \/ AbortClientNavigation(h) \/ OnDroppedNavigation(h)
    \/ DidFinishSameDocumentNavigation(h) \/ DidStopLoadingDocument(h)
    \/ Unload(h) \/ UndoCommitNavigation(h) \/ Delete(h)

Next ==
    \/ BrowserNavigates \/ CommitSameDocumentNavigation \/ CreateRenderFrame
    \/ CommitNavigation \/ FailedNavigation \/ CancelNavigation
    \/ \E h \in Hosts : Browser(h) \/ Renderer(h)

Spec == Init /\ [][Next]_vars

--------------------------------------------------------------------------------
Has(channel, h, types, n) ==
    \E i \in DOMAIN channel[h] : channel[h][i].type \in types /\ channel[h][i].n = n

\* Types; the shown host is one that is active, or whose process died.
TypeOK ==
    /\ next \in 1..(MaxNavs + 1) /\ ongoing \in 0..MaxNavs /\ current \in Hosts
    /\ host[current].life = "Active"
    /\ \A h \in Hosts :
        /\ host[h].life \in HostStates /\ frame[h].life \in FrameStates
        /\ host[h].requests \cup host[h].same \cup host[h].empty \subseteq Navs
        /\ host[h].life = "Active" => h = current
    /\ Cardinality(Speculative) <= 1

\* Whatever the two sides send at the same time, no check of either fails and no
\* renderer is killed for a message it was right to send, but for three checks of
\* same-document navigations, which the code breaks: see the last three properties.
BrokenChecks == {"refused without a request", "carried out but waiting",
                 "history of another document"}
ChecksHold == TypeOK /\ bad \subseteq BrokenChecks

\* What navigation_requests_ and same_document_navigation_requests_ hold is still to be
\* answered: the request is on its way, the frame reads its archive, its answer or the
\* end of its client is on the way back, or the frame swallowed it (a reload of a page
\* that holds galaxies) and keeps its client.
RequestsAreInFlight ==
    \A h \in Hosts : host[h].live =>
        /\ \A n \in host[h].requests :
            \/ Has(down, h, {"commit"}, n) \/ Has(up, h, {"didCommit", "disconnected"}, n)
            \/ frame[h].mhtml = n
            \/ frame[h].client = n /\ n \in swallowed
        /\ \A n \in host[h].same :
            Has(down, h, {"same"}, n) \/ Has(up, h, {"processed"}, n)

\* When no report is on its way, the browser shows the document and the position that
\* the frame of the shown host has.
DocumentsAgree ==
    host[current].live =>
        \/ \E i \in DOMAIN up[current] : up[current][i].type \in {"didCommit", "didCommitSame"}
        \/ /\ frame[current].life = "attached"
           /\ host[current].dsn = frame[current].dsn /\ host[current].pos = frame[current].pos

\* The tab stops spinning: a host that waits for no message, whose frame loads nothing
\* and waits for nothing, is not loading.
Quiet(h) ==
    /\ down[h] = <<>> /\ up[h] = <<>> /\ host[h].requests \subseteq swallowed
    /\ ~IsLoading(frame[h]) /\ frame[h].mhtml = 0
LoadingSettles == host[current].live /\ Quiet(current) => ~host[current].loading

\* "OnSameDocumentCommitProcessed will be called after DidCommitNavigation on successfull
\* same-document commits, so `request` should already be deleted by the time we got here"
\* (:12003): only a navigation that was carried out is reported without a request.
RefusalsHaveRequests == "refused without a request" \notin bad

\* "if the commit was successful, the NavigationRequest is moved in
\* DidCommitSameDocumentNavigation" (:12020, below a DCHECK that the result is Aborted): a
\* request that still waits when its commit was processed was not carried out.
CommittedRequestsAreMoved == "carried out but waiting" \notin bad

\* "it is possible that this renderer has committed a different document [...] The browser
\* shouldn't let this happen" (render_frame_impl.cc:4956, above a DCHECK_EQ): it asks for a
\* history navigation within the document only of a frame that has that document.
HistoryFindsItsDocument == "history of another document" \notin bad
================================================================================
