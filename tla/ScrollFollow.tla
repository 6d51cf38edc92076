---------------------------- MODULE ScrollFollow ----------------------------
(***************************************************************************)
(* Where a tab's transcript is scrolled to (src/client/app/): the store    *)
(* and machine of scrollFollowStore.ts, scrollMachine.ts and               *)
(* scrollDetection.ts, the effects of useScrollRestore.ts,                 *)
(* useScrollAutoFollow.ts and useScrollReflowPin.ts, useChatNavigator.ts,  *)
(* and what useTranscriptLifecycle.ts keeps of a chat that is left.        *)
(*                                                                         *)
(* The view is at the tail or above it: the 20 px in which the observer    *)
(* sees the sentinel and the band of 2 % of isWithinBottomFollowBand are   *)
(* taken to be one.  React commits a render in the order: cleanups of      *)
(* layout effects, layout effects, cleanups of passive effects, passive    *)
(* effects; a state set by a passive effect is rendered later.  The tab    *)
(* stays on the chat page, and no resume refreshes it.                     *)
(***************************************************************************)
EXTENDS Naturals

CONSTANTS
    ScrollChats,    \* the chats there are
    NoPosition,     \* no chat left yet, nothing kept of it, nothing left to render
    MaxUnits,       \* bounds the units of a chat
    MaxGuards       \* bounds the guards that are held, and the smooth scrolls asked for

ASSUME ScrollConstants == {MaxUnits, MaxGuards} \subseteq Nat \ {0}

VARIABLES
    pane,       \* the chat, its rendered units, cachedScrollState, and a render that is due
    follow,     \* the store: mode, programmaticDepth, pendingSmoothResolve and its timers
    anchor,     \* phaseRef, and the post-paint effect with its interval and timeout
    effects,    \* the auto-follow effect, and the navigator's timers
    scroll,     \* where the view is, and whether the observer last saw the sentinel
    shelf,      \* chatCache: the units and the position of the chats left
    units,      \* the units the hub has of each chat
    reading     \* the user has scrolled up and asked for nothing since

scrollVars == <<pane, follow, anchor, effects, scroll, shelf, units, reading>>

Modes    == {"following", "detached", "anchoring"}
Phases   == {"idle", "pre-paint-done", "stabilizing", "complete"}
Places   == {"tail", "up"}
Position == [mode: Modes \ {"anchoring"}, place: Places]

\* The tab was opened on a chat whose units are still to come.
ScrollInit ==
    /\ \E c \in ScrollChats :
          pane = [chat |-> c, shown |-> 0, kept |-> NoPosition, due |-> NoPosition]
    /\ follow = [mode |-> "anchoring", depth |-> 0, pending |-> FALSE, timer |-> FALSE, stale |-> 0]
    /\ anchor = [phase |-> "idle", effect |-> "none"]
    /\ effects = [follower |-> "none", guards |-> 0]
    /\ scroll = [place |-> "tail", seen |-> TRUE]
    /\ shelf = [c \in ScrollChats |-> NoPosition]
    /\ units = [c \in ScrollChats |-> 1]
    /\ reading = FALSE

-----------------------------------------------------------------------------
(* The machine and the guards *)

\* nextScrollMode, by event.
OnIntersection(mode, seen, programmatic) ==
    CASE programmatic                -> mode
      [] ~programmatic /\ ~seen      -> "detached"
      [] ~programmatic /\ seen       -> IF mode = "anchoring" THEN mode ELSE "following"

OnScrollToBottom(mode) == IF mode = "anchoring" THEN mode ELSE "following"

OnInitialScrollDone(mode, at) ==
    IF mode # "anchoring" THEN mode ELSE IF at = "tail" THEN "following" ELSE "detached"

\* endProgrammaticScroll, n times.
Released(f, n) == [f EXCEPT !.depth = IF @ >= n THEN @ - n ELSE 0]

Guarded(f) == [f EXCEPT !.depth = @ + 1]

ClearSmoothGuard(f) ==
    IF f.pending THEN Released([f EXCEPT !.pending = FALSE, !.timer = FALSE], 1) ELSE f

\* reobserve(): the observer reports where the sentinel is, seen before or not.
Reobserved(place) == place # "tail"

-----------------------------------------------------------------------------
(* The effects of a render *)

\* A cleanup ends the guard of its effect, also one that has ended already.
AfterCleanup(f, effect) == IF effect = "none" THEN f ELSE Released(f, 1)

\* useScrollAutoFollow, in phase p with the guard f: what it leaves of both.
\* Fault seeded in Follows: a view that the user has moved is scrolled as well.
FollowsAnyMode(f, p) == p = "complete"

Follows(f, p) == p = "complete" /\ f.mode = "following"
AutoFollow(f, p) == IF Follows(f, p) THEN Guarded(f) ELSE f
Follower(f, p)   == IF Follows(f, p) THEN "framed" ELSE "none"

\* The post-paint effect of useScrollRestore: it runs once for each pre-paint.
Stabilizes(p, shown) == p = "pre-paint-done" /\ shown > 0
PostPaint(f, p, shown) == IF Stabilizes(p, shown) THEN Guarded(f) ELSE f
PostPaintOf(p, shown) ==
    IF Stabilizes(p, shown) THEN [phase |-> "stabilizing", effect |-> "running"]
    ELSE [phase |-> p, effect |-> "none"]

\* The number of units changes: both effects are cleaned up and run again.
UnitsRendered(n, place) ==
    LET followed == AfterCleanup(follow, effects.follower)
        atTail   == Follows(followed, anchor.phase)
    IN /\ effects' = [effects EXCEPT !.follower = Follower(followed, anchor.phase)]
       /\ follow' = PostPaint(AfterCleanup(AutoFollow(followed, anchor.phase), anchor.effect), anchor.phase, n)
       /\ anchor' = PostPaintOf(anchor.phase, n)
       /\ scroll' = [scroll EXCEPT !.place = IF atTail THEN "tail" ELSE place]
       \* content that shrinks may put the reader at the tail
       /\ reading' = (reading /\ n >= pane.shown)

\* A snapshot or a fetched window: what it adds may or may not leave the screen.
UnitsArrive ==
    /\ pane.due = NoPosition /\ pane.shown # units[pane.chat]
    /\ pane' = [pane EXCEPT !.shown = units[pane.chat]]
    /\ \E place \in {scroll.place, "up"} : UnitsRendered(units[pane.chat], place)
    /\ UNCHANGED <<shelf, units>>

\* What the passive effects of the switch have set is rendered.
Rerender ==
    /\ pane.due # NoPosition
    /\ pane' = [pane EXCEPT !.shown = pane.due.shown, !.kept = pane.due.kept, !.due = NoPosition]
    /\ IF pane.due.shown # pane.shown
       THEN \E place \in IF pane.due.shown = 0 THEN {"tail"} ELSE Places : UnitsRendered(pane.due.shown, place)
       ELSE UNCHANGED <<follow, anchor, effects, scroll, reading>>
    /\ UNCHANGED <<shelf, units>>

\* The status or the height of the composer changes: only auto-follow runs again.
StatusRendered ==
    /\ LET followed == AfterCleanup(follow, effects.follower)
       IN /\ follow' = AutoFollow(followed, anchor.phase)
          /\ effects' = [effects EXCEPT !.follower = Follower(followed, anchor.phase)]
          /\ scroll' = [scroll EXCEPT !.place = IF Follows(followed, anchor.phase) THEN "tail" ELSE @]
    /\ UNCHANGED <<pane, anchor, shelf, units, reading>>

-----------------------------------------------------------------------------
(* Another chat *)

\* The pre-paint effect still sees the units and the position of the chat left.
PrePaint ==
    IF pane.kept # NoPosition /\ pane.kept.mode = "detached"
    THEN [phase |-> "complete", mode |-> OnInitialScrollDone("anchoring", "block"), place |-> pane.kept.place,
          seen |-> Reobserved(pane.kept.place)]
    ELSE IF pane.shown > 0
    THEN [phase |-> "pre-paint-done", mode |-> "anchoring", place |-> "tail", seen |-> scroll.seen]
    ELSE [phase |-> "idle", mode |-> "anchoring", place |-> scroll.place, seen |-> scroll.seen]

\* getScrollState as the cleanup of useTranscriptLifecycle calls it, after PrePaint.
Departed(at) ==
    [shown |-> pane.shown,
     position |-> [mode |-> IF at.mode = "detached" THEN "detached" ELSE "following", place |-> at.place]]

\* A chat is opened: the runtime's status may or may not differ.
SwitchChat(c) ==
    /\ c # pane.chat /\ pane.due = NoPosition
    /\ LET at   == PrePaint
           kept == IF pane.shown > 0 THEN [shelf EXCEPT ![pane.chat] = Departed(at)] ELSE shelf
           f    == AfterCleanup([follow EXCEPT !.mode = at.mode], anchor.effect)
       IN /\ shelf' = kept
          /\ \E statusDiffers \in BOOLEAN :
                LET g == IF statusDiffers THEN AfterCleanup(f, effects.follower) ELSE f
                IN /\ follow' = PostPaint(g, at.phase, pane.shown)
                   /\ effects' = IF statusDiffers THEN [effects EXCEPT !.follower = "none"] ELSE effects
          /\ anchor' = PostPaintOf(at.phase, pane.shown)
          /\ scroll' = [place |-> at.place, seen |-> at.seen]
          /\ pane' = [pane EXCEPT
                !.chat = c,
                !.due = IF kept[c] = NoPosition THEN [shown |-> 0, kept |-> NoPosition]
                        ELSE [shown |-> kept[c].shown, kept |-> kept[c].position]]
    /\ reading' = FALSE
    /\ UNCHANGED units

UnitStored(c) ==
    /\ units[c] < MaxUnits
    /\ units' = [units EXCEPT ![c] = @ + 1]
    /\ UNCHANGED <<pane, follow, anchor, effects, scroll, shelf, reading>>

-----------------------------------------------------------------------------
(* Observers and timers *)

\* No initial scroll is under way and no other chat's units are still shown.
Rests == anchor.effect # "running" /\ pane.due = NoPosition

\* The intersection observer: the sentinel came into the view, or left it.
Reported ==
    /\ scroll.seen # (scroll.place = "tail")
    /\ scroll' = [scroll EXCEPT !.seen = ~@]
    /\ LET f == IF scroll'.seen THEN ClearSmoothGuard(follow) ELSE follow
           mode == OnIntersection(f.mode, scroll'.seen, f.depth > 0)
       IN /\ follow' = [f EXCEPT !.mode = mode]
          /\ reading' = (reading \/ (mode = "detached" /\ ~scroll'.seen /\ Rests))
    /\ UNCHANGED <<pane, anchor, effects, shelf, units>>

\* The interval of the post-paint effect scrolls; the height has not settled.
Unsettled ==
    /\ anchor.effect = "running"
    /\ scroll' = [scroll EXCEPT !.place = "tail"]
    /\ UNCHANGED <<pane, follow, anchor, effects, shelf, units, reading>>

\* Its height has settled at the tail, or its 2000 ms are over.
InitialScrollSettles(place) ==
    /\ anchor.effect = "running"
    /\ anchor' = [phase |-> "complete", effect |-> "ended"]
    /\ follow' = Released([follow EXCEPT !.mode = OnInitialScrollDone(@, "tail")], 1)
    /\ scroll' = [place |-> place, seen |-> Reobserved(place)]
    /\ UNCHANGED <<pane, effects, shelf, units, reading>>

\* The animation frame of the auto-follow effect.
FrameEnds ==
    /\ effects.follower = "framed"
    /\ effects' = [effects EXCEPT !.follower = "ended"]
    /\ follow' = Released(follow, 1)
    /\ UNCHANGED <<pane, anchor, scroll, shelf, units, reading>>

\* The last smooth scroll's timeout, or one that a later smooth scroll took the place of.
SmoothTimeout ==
    /\ follow.timer \/ follow.stale > 0
    /\ \/ follow.timer /\ follow' = ClearSmoothGuard(follow)
       \/ follow.stale > 0 /\ follow' = ClearSmoothGuard([follow EXCEPT !.stale = @ - 1])
    /\ UNCHANGED <<pane, anchor, effects, scroll, shelf, units, reading>>

GuardTimeout ==
    /\ effects.guards > 0
    /\ effects' = [effects EXCEPT !.guards = @ - 1]
    /\ follow' = Released(follow, 1)
    /\ UNCHANGED <<pane, anchor, scroll, shelf, units, reading>>

\* The transcript's height changes under the view, once its rows are measured: what grows
\* may leave it above the tail, what shrinks may put it there, a reader's as well.
Resized ==
    /\ pane.shown > 0
    /\ \E place \in Places :
          LET pinned == anchor.phase = "complete" /\ follow.mode = "following"
              shouldReconcile == anchor.phase = "complete" /\ follow.mode = "detached" /\ place = "tail"
          IN /\ scroll' = [scroll EXCEPT !.place = IF pinned THEN "tail" ELSE place]
             /\ follow' = IF shouldReconcile THEN [follow EXCEPT !.mode = OnScrollToBottom(@)] ELSE follow
             /\ reading' = (reading /\ place = "up")
    /\ UNCHANGED <<pane, anchor, effects, shelf, units>>

-----------------------------------------------------------------------------
(* The user *)

UserScrolls ==
    /\ pane.shown > 0
    /\ scroll' = [scroll EXCEPT !.place = IF @ = "tail" THEN "up" ELSE "tail"]
    /\ reading' = (reading /\ scroll'.place = "up")
    /\ UNCHANGED <<pane, follow, anchor, effects, shelf, units>>

ShowScrollButton == follow.mode = "detached" /\ pane.shown > 0

\* scrollToBottom("smooth"), by the button or by goNext past the last waypoint.
ScrollToBottom ==
    /\ ShowScrollButton /\ follow.depth < MaxGuards /\ follow.stale < MaxGuards
    /\ follow' = [Guarded(follow) EXCEPT
            !.mode = OnScrollToBottom(@), !.pending = TRUE, !.timer = TRUE,
            !.stale = IF follow.timer THEN @ + 1 ELSE @]
    /\ scroll' = [scroll EXCEPT !.place = "tail"] /\ reading' = FALSE
    /\ UNCHANGED <<pane, anchor, effects, shelf, units>>

\* goPrev and goNext, to a prompt or to the top.
GoToWaypoint(place) ==
    /\ ShowScrollButton /\ follow.depth < MaxGuards /\ effects.guards < MaxGuards
    /\ follow' = Guarded(follow)
    /\ effects' = [effects EXCEPT !.guards = @ + 1]
    /\ scroll' = [scroll EXCEPT !.place = place] /\ reading' = FALSE
    /\ UNCHANGED <<pane, anchor, shelf, units>>

\* A submit scrolls down at once; one that is queued does so only from near the tail.
SubmitScrolls ==
    /\ follow' = [follow EXCEPT !.mode = OnScrollToBottom(@)]
    /\ scroll' = [scroll EXCEPT !.place = "tail"] /\ reading' = FALSE
    /\ UNCHANGED <<pane, anchor, effects, shelf, units>>

-----------------------------------------------------------------------------
ScrollStep ==
    \/ UnitsArrive \/ Rerender \/ StatusRendered
    \/ \E c \in ScrollChats : SwitchChat(c) \/ UnitStored(c)
    \/ Reported \/ Unsettled \/ FrameEnds \/ SmoothTimeout \/ GuardTimeout \/ Resized
    \/ UserScrolls \/ ScrollToBottom \/ SubmitScrolls
    \/ \E place \in Places : GoToWaypoint(place) \/ InitialScrollSettles(place)

\* React renders what is due, the hub's units arrive, and timers and observers fire.
ScrollSpec ==
    /\ ScrollInit /\ [][ScrollStep]_scrollVars
    /\ WF_scrollVars(Rerender) /\ WF_scrollVars(UnitsArrive) /\ WF_scrollVars(Reported)
    /\ WF_scrollVars(\E place \in Places : InitialScrollSettles(place))

-----------------------------------------------------------------------------
(* Properties *)

\* The pane, the store, the effects and what is kept of the chats left.
ScrollTypeOK ==
    LET Kept == Position \cup {NoPosition}
        Count == 0..MaxUnits
    IN /\ pane \in [chat: ScrollChats, shown: Count, kept: Kept,
                    due: [shown: Count, kept: Kept] \cup {NoPosition}]
       /\ follow \in [mode: Modes, depth: 0..(MaxGuards + 2), pending: BOOLEAN, timer: BOOLEAN, stale: 0..MaxGuards]
       /\ anchor \in [phase: Phases, effect: {"none", "running", "ended"}]
       /\ effects \in [follower: {"none", "framed", "ended"}, guards: 0..MaxGuards]
       /\ scroll \in [place: Places, seen: BOOLEAN]
       /\ shelf \in [ScrollChats -> [shown: Count, position: Position] \cup {NoPosition}]
       /\ units \in [ScrollChats -> Count]
       /\ reading \in BOOLEAN

\* A reader the tab knows to be above the tail is not moved: by new units, by a
\* status, by rows that are measured, or by a timer of what was before.  Whom content
\* that shrinks has put at the tail is no such reader any more.
ReaderIsLeftAlone == reading => scroll.place = "up"

\* What useScrollRestore.test.ts calls the intended progression, idle to complete:
\* the initial scroll of a chat that is opened comes to its end.
InitialScrollEnds ==
    \A c \in ScrollChats : pane.chat = c ~> anchor.phase = "complete" \/ pane.chat # c
=============================================================================
