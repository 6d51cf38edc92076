---------------------------- MODULE ClientProofs ----------------------------
(***************************************************************************)
(* Proofs about the web client: a tab's scrolling, for any chats, units    *)
(* and guards; the composer with its models, for any chats, choices and    *)
(* submits; and the cards of questions, for any questions, texts and tabs. *)
(***************************************************************************)
EXTENDS ScrollFollow, SessionModels, QuestionForm, SequenceTheorems, FiniteSetTheorems, TLAPS

-----------------------------------------------------------------------------
(* Scrolling *)

\* What the variables of a tab are, the counter of the guards but a number.
ScrollTyped ==
    LET Kept == Position \cup {NoPosition}
        Count == 0..MaxUnits
    IN /\ pane \in [chat: ScrollChats, shown: Count, kept: Kept,
                    due: [shown: Count, kept: Kept] \cup {NoPosition}]
       /\ follow \in [mode: Modes, depth: Nat, pending: BOOLEAN, timer: BOOLEAN, stale: 0..MaxGuards]
       /\ anchor \in [phase: Phases, effect: {"none", "running", "ended"}]
       /\ effects \in [follower: {"none", "framed", "ended"}, guards: 0..MaxGuards]
       /\ scroll \in [place: Places, seen: BOOLEAN]
       /\ shelf \in [ScrollChats -> [shown: Count, position: Position] \cup {NoPosition}]
       /\ units \in [ScrollChats -> Count]
       /\ reading \in BOOLEAN

\* Each effect that runs holds one guard, and all but theirs are bounded by what asks for them.
Held == (IF effects.follower = "framed" THEN 1 ELSE 0) + (IF anchor.effect = "running" THEN 1 ELSE 0)

\* The reader is up and nothing that would scroll is on its way.
ReaderInv ==
    /\ anchor.phase # "pre-paint-done"
    /\ reading => /\ scroll.place = "up" /\ follow.mode = "detached"
                  /\ anchor.effect # "running" /\ pane.due = NoPosition

\* The inductive invariant.
ScrollInv == ScrollTyped /\ follow.depth <= MaxGuards + Held /\ ReaderInv

\* The store, its counter any number.
Store == [mode: Modes, depth: Nat, pending: BOOLEAN, timer: BOOLEAN, stale: 0..MaxGuards]

\* The operations of the store keep its mode, and count the guards exactly.
LEMMA ReleasedStore ==
    ASSUME NEW f \in Store, NEW n \in {0, 1}
    PROVE  /\ Released(f, n) \in Store /\ Released(f, n).mode = f.mode
           /\ Released(f, n).depth = IF f.depth >= n THEN f.depth - n ELSE 0
BY DEF Store, Released

\* One guard more.
LEMMA GuardedStore ==
    ASSUME NEW f \in Store
    PROVE  /\ Guarded(f) \in Store /\ Guarded(f).mode = f.mode
           /\ Guarded(f).depth = f.depth + 1
BY DEF Store, Guarded

\* A pending smooth scroll gives its guard back.
LEMMA ClearedStore ==
    ASSUME NEW f \in Store
    PROVE  /\ ClearSmoothGuard(f) \in Store /\ ClearSmoothGuard(f).mode = f.mode
           /\ ClearSmoothGuard(f).depth <= f.depth
<1>1. CASE ~f.pending
  BY <1>1 DEF ClearSmoothGuard, Store
<1>2. CASE f.pending
  <2> DEFINE g == [f EXCEPT !.pending = FALSE, !.timer = FALSE]
  <2>1. g \in Store /\ g.mode = f.mode /\ g.depth = f.depth
    BY DEF Store
  <2>2. ClearSmoothGuard(f) = Released(g, 1)
    BY <1>2 DEF ClearSmoothGuard
  <2> HIDE DEF g
  <2>3. /\ Released(g, 1) \in Store /\ Released(g, 1).mode = g.mode
        /\ Released(g, 1).depth = IF g.depth >= 1 THEN g.depth - 1 ELSE 0
    BY <2>1, ReleasedStore
  <2>4. f.depth \in Nat
    BY DEF Store
  <2> QED BY <2>1, <2>2, <2>3, <2>4
<1> QED BY <1>1, <1>2

\* The cleanup of an effect that holds a guard ends it.
LEMMA CleanedStore ==
    ASSUME NEW f \in Store, NEW e \in {"none", "running", "framed", "ended"}
    PROVE  /\ AfterCleanup(f, e) \in Store /\ AfterCleanup(f, e).mode = f.mode
           /\ AfterCleanup(f, e).depth <= f.depth
           /\ e \in {"framed", "running"} => AfterCleanup(f, e).depth <= f.depth - 1 \/ AfterCleanup(f, e).depth = 0
<1>1. e # "none" => AfterCleanup(f, e) = Released(f, 1)
  BY DEF AfterCleanup
<1>2. e = "none" => AfterCleanup(f, e) = f
  BY DEF AfterCleanup
<1>3. /\ Released(f, 1) \in Store /\ Released(f, 1).mode = f.mode
      /\ Released(f, 1).depth = IF f.depth >= 1 THEN f.depth - 1 ELSE 0
  BY ReleasedStore
<1>4. f.depth \in Nat
  BY DEF Store
<1> QED BY <1>1, <1>2, <1>3, <1>4

\* Auto-follow takes a guard where it scrolls, which is in a store that follows.
LEMMA FollowedStore ==
    ASSUME NEW f \in Store, NEW p \in Phases
    PROVE  /\ AutoFollow(f, p) \in Store /\ AutoFollow(f, p).mode = f.mode
           /\ AutoFollow(f, p).depth = f.depth + IF Follower(f, p) = "framed" THEN 1 ELSE 0
           /\ Follower(f, p) \in {"none", "framed"}
           /\ Follows(f, p) => f.mode = "following"
BY GuardedStore DEF AutoFollow, Follower, Follows, Store

\* The initial scroll is guarded while it runs, and no phase is left before the paint.
LEMMA PaintedStore ==
    ASSUME NEW f \in Store, NEW p \in Phases, NEW n \in Nat
    PROVE  /\ PostPaint(f, p, n) \in Store /\ PostPaint(f, p, n).mode = f.mode
           /\ PostPaintOf(p, n) \in [phase: Phases, effect: {"none", "running", "ended"}]
           /\ PostPaint(f, p, n).depth = f.depth + IF PostPaintOf(p, n).effect = "running" THEN 1 ELSE 0
           /\ p # "pre-paint-done" => PostPaintOf(p, n) = [phase |-> p, effect |-> "none"]
           /\ n > 0 => PostPaintOf(p, n).phase # "pre-paint-done"
BY GuardedStore DEF PostPaint, PostPaintOf, Stabilizes, Phases, Store

\* What a render leaves of the store: the guards of the effects that run now.
LEMMA RenderKeepsInv ==
    ASSUME ScrollInv, NEW n \in 0..MaxUnits, NEW place \in Places, UnitsRendered(n, place)
    PROVE  /\ follow' \in Store /\ follow'.mode = follow.mode /\ follow'.depth <= MaxGuards + Held'
           /\ anchor' = [phase |-> anchor.phase, effect |-> "none"]
           /\ effects' \in [follower: {"none", "framed", "ended"}, guards: 0..MaxGuards]
           /\ scroll' \in [place: Places, seen: BOOLEAN]
           /\ follow.mode # "following" => scroll'.place = place
           /\ reading' \in BOOLEAN /\ (reading' => reading)
<1> DEFINE followed == AfterCleanup(follow, effects.follower)
           f1 == AutoFollow(followed, anchor.phase)
           f2 == AfterCleanup(f1, anchor.effect)
<1>1. /\ follow \in Store /\ follow.depth \in Nat /\ follow.depth <= MaxGuards + Held
      /\ anchor \in [phase: Phases, effect: {"none", "running", "ended"}]
      /\ effects \in [follower: {"none", "framed", "ended"}, guards: 0..MaxGuards]
      /\ scroll \in [place: Places, seen: BOOLEAN] /\ reading \in BOOLEAN
      /\ anchor.phase # "pre-paint-done" /\ n \in Nat
      /\ MaxGuards \in Nat
  BY ScrollConstants DEF ScrollInv, ScrollTyped, Store, ReaderInv
<1>2. anchor.phase \in Phases /\ anchor.effect \in {"none", "running", "ended"}
      /\ effects.follower \in {"none", "framed", "ended"}
  BY <1>1
<1>3. /\ followed \in Store /\ followed.mode = follow.mode /\ followed.depth \in Nat
      /\ followed.depth <= follow.depth
      /\ effects.follower = "framed" => followed.depth <= follow.depth - 1 \/ followed.depth = 0
  BY <1>1, <1>2, CleanedStore DEF Store
<1> HIDE DEF followed
<1>4. /\ f1 \in Store /\ f1.mode = follow.mode /\ f1.depth \in Nat
      /\ f1.depth = followed.depth + IF Follower(followed, anchor.phase) = "framed" THEN 1 ELSE 0
      /\ Follower(followed, anchor.phase) \in {"none", "framed"}
      /\ Follows(followed, anchor.phase) => followed.mode = "following"
  BY <1>3, <1>2, FollowedStore DEF Store
<1> HIDE DEF f1
<1>5. /\ f2 \in Store /\ f2.mode = follow.mode /\ f2.depth \in Nat
      /\ f2.depth <= f1.depth
      /\ anchor.effect = "running" => f2.depth <= f1.depth - 1 \/ f2.depth = 0
  BY <1>4, <1>2, CleanedStore DEF Store
<1> HIDE DEF f2
<1>6. /\ PostPaint(f2, anchor.phase, n) \in Store /\ PostPaint(f2, anchor.phase, n).mode = f2.mode
      /\ PostPaintOf(anchor.phase, n) = [phase |-> anchor.phase, effect |-> "none"]
      /\ PostPaint(f2, anchor.phase, n).depth = f2.depth
  <2>1. /\ PostPaint(f2, anchor.phase, n) \in Store /\ PostPaint(f2, anchor.phase, n).mode = f2.mode
        /\ PostPaint(f2, anchor.phase, n).depth = f2.depth + IF PostPaintOf(anchor.phase, n).effect = "running" THEN 1 ELSE 0
        /\ PostPaintOf(anchor.phase, n) = [phase |-> anchor.phase, effect |-> "none"]
    BY <1>1, <1>2, <1>5, PaintedStore
  <2> QED BY <2>1, <1>5
<1>7. /\ follow' = PostPaint(f2, anchor.phase, n)
      /\ anchor' = PostPaintOf(anchor.phase, n)
      /\ effects' = [effects EXCEPT !.follower = Follower(followed, anchor.phase)]
      /\ scroll' = [scroll EXCEPT !.place = IF Follows(followed, anchor.phase) THEN "tail" ELSE place]
      /\ reading' = (reading /\ n >= pane.shown)
  BY DEF UnitsRendered, followed, f1, f2
<1>8. effects'.follower = Follower(followed, anchor.phase) /\ anchor'.effect = "none"
  BY <1>1, <1>6, <1>7
<1>9. follow'.depth <= MaxGuards + Held'
  BY <1>1, <1>2, <1>3, <1>4, <1>5, <1>6, <1>7, <1>8 DEF Held
<1> QED BY <1>1, <1>3, <1>4, <1>5, <1>6, <1>7, <1>9 DEF Places

\* Every step keeps the invariant.
LEMMA ScrollStepKeepsInv ==
    ASSUME ScrollInv, [ScrollStep]_scrollVars
    PROVE  ScrollInv'
<1> DEFINE Kept == Position \cup {NoPosition}
           Count == 0..MaxUnits
<1>i. ScrollTyped /\ ReaderInv /\ follow.depth <= MaxGuards + Held /\ MaxGuards \in Nat /\ MaxUnits \in Nat
  BY ScrollConstants DEF ScrollInv
<1>p. /\ pane \in [chat: ScrollChats, shown: Count, kept: Kept,
                   due: [shown: Count, kept: Kept] \cup {NoPosition}]
      /\ shelf \in [ScrollChats -> [shown: Count, position: Position] \cup {NoPosition}]
      /\ units \in [ScrollChats -> Count]
  BY <1>i DEF ScrollTyped
<1>s. /\ follow \in Store /\ follow.depth \in Nat
      /\ anchor \in [phase: Phases, effect: {"none", "running", "ended"}]
      /\ effects \in [follower: {"none", "framed", "ended"}, guards: 0..MaxGuards]
      /\ scroll \in [place: Places, seen: BOOLEAN]
      /\ reading \in BOOLEAN
  BY <1>i DEF ScrollTyped, Store
<1>r. /\ anchor.phase # "pre-paint-done"
      /\ reading => /\ scroll.place = "up" /\ follow.mode = "detached"
                    /\ anchor.effect # "running" /\ pane.due = NoPosition
  BY <1>i DEF ReaderInv
<1> DEFINE PaneOK ==
             /\ pane' \in [chat: ScrollChats, shown: Count, kept: Kept,
                           due: [shown: Count, kept: Kept] \cup {NoPosition}]
             /\ shelf' \in [ScrollChats -> [shown: Count, position: Position] \cup {NoPosition}]
             /\ units' \in [ScrollChats -> Count]
           StoreOK ==
             /\ follow' \in Store /\ follow'.depth <= MaxGuards + Held'
             /\ anchor' \in [phase: Phases, effect: {"none", "running", "ended"}]
             /\ effects' \in [follower: {"none", "framed", "ended"}, guards: 0..MaxGuards]
             /\ scroll' \in [place: Places, seen: BOOLEAN]
             /\ reading' \in BOOLEAN
           ReaderOK ==
             /\ anchor'.phase # "pre-paint-done"
             /\ reading' => /\ scroll'.place = "up" /\ follow'.mode = "detached"
                            /\ anchor'.effect # "running" /\ pane'.due = NoPosition
<1>q. PaneOK /\ StoreOK /\ ReaderOK => ScrollInv'
  BY DEF ScrollInv, ScrollTyped, Store, ReaderInv
<1>c. UNCHANGED <<pane, shelf, units>> => PaneOK
  BY <1>p
<1>1. CASE UnitsArrive
  <2>1. PICK place \in {scroll.place, "up"} : UnitsRendered(units[pane.chat], place)
    BY <1>1 DEF UnitsArrive
  <2>2. place \in Places /\ units[pane.chat] \in 0..MaxUnits /\ anchor.phase \in Phases
    BY <1>s, <1>p DEF Places
  <2>3. PaneOK /\ pane'.due = NoPosition
    BY <1>1, <1>p, <2>2 DEF UnitsArrive
  <2>4. /\ follow' \in Store /\ follow'.mode = follow.mode /\ follow'.depth <= MaxGuards + Held'
        /\ anchor' = [phase |-> anchor.phase, effect |-> "none"]
        /\ effects' \in [follower: {"none", "framed", "ended"}, guards: 0..MaxGuards]
        /\ scroll' \in [place: Places, seen: BOOLEAN]
        /\ follow.mode # "following" => scroll'.place = place
        /\ reading' \in BOOLEAN /\ (reading' => reading)
    BY <2>1, <2>2, RenderKeepsInv
  <2>5. StoreOK /\ ReaderOK
    BY <2>1, <2>2, <2>3, <2>4, <1>r
  <2> QED BY <2>3, <2>5, <1>q
<1>2. CASE Rerender
  <2>1. pane.due \in [shown: Count, kept: Kept] /\ UNCHANGED <<shelf, units>>
        /\ pane' = [pane EXCEPT !.shown = pane.due.shown, !.kept = pane.due.kept, !.due = NoPosition]
    BY <1>2, <1>p DEF Rerender
  <2>2. PaneOK
    BY <2>1, <1>p
  <2>3. CASE pane.due.shown # pane.shown
    <3>1. PICK place \in IF pane.due.shown = 0 THEN {"tail"} ELSE Places : UnitsRendered(pane.due.shown, place)
      BY <1>2, <2>3 DEF Rerender
    <3>2. place \in Places /\ pane.due.shown \in 0..MaxUnits /\ anchor.phase \in Phases
      BY <3>1, <2>1, <1>s DEF Places
    <3>3. /\ follow' \in Store /\ follow'.mode = follow.mode /\ follow'.depth <= MaxGuards + Held'
          /\ anchor' = [phase |-> anchor.phase, effect |-> "none"]
          /\ effects' \in [follower: {"none", "framed", "ended"}, guards: 0..MaxGuards]
          /\ scroll' \in [place: Places, seen: BOOLEAN]
          /\ reading' \in BOOLEAN /\ (reading' => reading)
      BY <3>1, <3>2, RenderKeepsInv
    <3>4. ~reading
      BY <1>r, <1>2 DEF Rerender
    <3> QED BY <3>2, <3>3, <3>4, <1>r, <2>2, <1>q
  <2>4. CASE pane.due.shown = pane.shown
    BY <1>2, <2>4, <1>r, <1>s, <1>i, <2>2, <1>q DEF Rerender, Held
  <2> QED BY <2>3, <2>4
<1>3. CASE StatusRendered
  <2> DEFINE followed == AfterCleanup(follow, effects.follower)
  <2>0. /\ UNCHANGED <<pane, anchor, shelf, units, reading>>
        /\ follow' = AutoFollow(followed, anchor.phase)
        /\ effects' = [effects EXCEPT !.follower = Follower(followed, anchor.phase)]
        /\ scroll' = [scroll EXCEPT !.place = IF Follows(followed, anchor.phase) THEN "tail" ELSE @]
    BY <1>3 DEF StatusRendered
  <2>1. anchor.phase \in Phases /\ effects.follower \in {"none", "framed", "ended"}
    BY <1>s
  <2>2. /\ followed \in Store /\ followed.mode = follow.mode /\ followed.depth \in Nat
        /\ followed.depth <= follow.depth
        /\ effects.follower = "framed" => followed.depth <= follow.depth - 1 \/ followed.depth = 0
    BY <1>s, <2>1, CleanedStore DEF Store
  <2> HIDE DEF followed
  <2>3. /\ follow' \in Store /\ follow'.mode = follow.mode /\ follow'.depth \in Nat
        /\ follow'.depth = followed.depth + IF Follower(followed, anchor.phase) = "framed" THEN 1 ELSE 0
        /\ Follower(followed, anchor.phase) \in {"none", "framed"}
        /\ Follows(followed, anchor.phase) => followed.mode = "following"
    BY <2>0, <2>1, <2>2, FollowedStore DEF Store
  <2>4. effects'.follower = Follower(followed, anchor.phase)
    BY <2>0, <1>s
  <2>5. follow'.depth <= MaxGuards + Held'
    BY <1>i, <1>s, <2>0, <2>2, <2>3, <2>4 DEF Held
  <2>6. StoreOK
    BY <2>0, <2>3, <2>5, <1>s DEF Places
  <2>7. ReaderOK
    BY <2>0, <2>2, <2>3, <1>r, <1>s
  <2> QED BY <2>0, <2>6, <2>7, <1>c, <1>q
<1>4. ASSUME NEW c \in ScrollChats, SwitchChat(c) PROVE ScrollInv'
  <2> DEFINE at == PrePaint
             kept == IF pane.shown > 0 THEN [shelf EXCEPT ![pane.chat] = Departed(at)] ELSE shelf
             f == AfterCleanup([follow EXCEPT !.mode = at.mode], anchor.effect)
  <2>0. PICK statusDiffers \in BOOLEAN :
          /\ follow' = PostPaint(IF statusDiffers THEN AfterCleanup(f, effects.follower) ELSE f, at.phase, pane.shown)
          /\ effects' = IF statusDiffers THEN [effects EXCEPT !.follower = "none"] ELSE effects
    BY <1>4, Zenon DEF SwitchChat
  <2>00. /\ shelf' = kept
         /\ anchor' = PostPaintOf(at.phase, pane.shown)
         /\ scroll' = [place |-> at.place, seen |-> at.seen]
         /\ pane' = [pane EXCEPT
                !.chat = c,
                !.due = IF kept[c] = NoPosition THEN [shown |-> 0, kept |-> NoPosition]
                        ELSE [shown |-> kept[c].shown, kept |-> kept[c].position]]
         /\ reading' = FALSE /\ units' = units
    BY <1>4 DEF SwitchChat
  <2>1. pane.shown \in Nat /\ pane.shown \in Count /\ pane.kept \in Kept /\ pane.chat \in ScrollChats
    BY <1>p
  <2>2. /\ at.phase \in Phases /\ at.mode \in Modes /\ at.place \in Places /\ at.seen \in BOOLEAN
        /\ at.phase = "pre-paint-done" => pane.shown > 0
    BY <2>1, <1>s DEF PrePaint, Phases, Modes, Places, Position, OnInitialScrollDone, Reobserved
  <2> HIDE DEF at
  <2>3. Departed(at) \in [shown: Count, position: Position]
    BY <2>1, <2>2 DEF Departed, Position, Modes
  <2>4. kept \in [ScrollChats -> [shown: Count, position: Position] \cup {NoPosition}]
    BY <2>3, <1>p
  <2> HIDE DEF kept
  <2>5. PaneOK
    <3> DEFINE due == IF kept[c] = NoPosition THEN [shown |-> 0, kept |-> NoPosition]
                      ELSE [shown |-> kept[c].shown, kept |-> kept[c].position]
    <3>0. pane' = [pane EXCEPT !.chat = c, !.due = due]
      BY <2>00
    <3>1. ASSUME kept[c] = NoPosition PROVE due \in [shown: Count, kept: Kept]
      BY <1>i, <3>1
    <3>2. ASSUME kept[c] # NoPosition PROVE due \in [shown: Count, kept: Kept]
      BY <3>2, <2>4
    <3>3. due \in [shown: Count, kept: Kept]
      BY <3>1, <3>2
    <3> HIDE DEF due
    <3> QED BY <3>0, <3>3, <2>00, <2>4, <1>p
  <2> DEFINE f0 == [follow EXCEPT !.mode = at.mode]
  <2>6. f0 \in Store /\ f0.depth = follow.depth
    BY <1>s, <2>2 DEF Store
  <2>7. anchor.effect \in {"none", "running", "ended"} /\ effects.follower \in {"none", "framed", "ended"}
    BY <1>s
  <2>8. /\ f \in Store /\ f.depth \in Nat
        /\ f.depth <= follow.depth
        /\ anchor.effect = "running" => f.depth <= follow.depth - 1 \/ f.depth = 0
    <3> HIDE DEF f0
    <3>1. /\ AfterCleanup(f0, anchor.effect) \in Store
          /\ AfterCleanup(f0, anchor.effect).depth <= f0.depth
          /\ anchor.effect = "running" => \/ AfterCleanup(f0, anchor.effect).depth <= f0.depth - 1
                                          \/ AfterCleanup(f0, anchor.effect).depth = 0
      BY <2>6, <2>7, CleanedStore
    <3>2. f = AfterCleanup(f0, anchor.effect)
      BY DEF f0
    <3> QED BY <3>1, <3>2, <2>6 DEF Store
  <2> HIDE DEF f
  <2> DEFINE g == IF statusDiffers THEN AfterCleanup(f, effects.follower) ELSE f
  <2>9. /\ g \in Store /\ g.depth \in Nat
        /\ g.depth <= f.depth
        /\ statusDiffers /\ effects.follower = "framed" => g.depth <= f.depth - 1 \/ g.depth = 0
    <3>1. CASE ~statusDiffers
      BY <3>1, <2>8
    <3>2. CASE statusDiffers
      BY <2>7, <2>8, CleanedStore, <3>2 DEF Store
    <3> QED BY <3>1, <3>2
  <2> HIDE DEF g
  <2>10. /\ PostPaint(g, at.phase, pane.shown) \in Store
         /\ PostPaintOf(at.phase, pane.shown) \in [phase: Phases, effect: {"none", "running", "ended"}]
         /\ PostPaint(g, at.phase, pane.shown).depth = g.depth + IF PostPaintOf(at.phase, pane.shown).effect = "running" THEN 1 ELSE 0
         /\ at.phase # "pre-paint-done" => PostPaintOf(at.phase, pane.shown) = [phase |-> at.phase, effect |-> "none"]
         /\ pane.shown > 0 => PostPaintOf(at.phase, pane.shown).phase # "pre-paint-done"
    <3>1. g \in Store /\ at.phase \in Phases /\ pane.shown \in Nat
      BY <2>1, <2>2, <2>9
    <3>2. \A h \in Store, p \in Phases, n \in Nat :
            /\ PostPaint(h, p, n) \in Store
            /\ PostPaintOf(p, n) \in [phase: Phases, effect: {"none", "running", "ended"}]
            /\ PostPaint(h, p, n).depth = h.depth + IF PostPaintOf(p, n).effect = "running" THEN 1 ELSE 0
            /\ p # "pre-paint-done" => PostPaintOf(p, n) = [phase |-> p, effect |-> "none"]
            /\ n > 0 => PostPaintOf(p, n).phase # "pre-paint-done"
      BY PaintedStore
    <3> QED BY ZenonT(30), <3>1, <3>2
  <2>11. follow' = PostPaint(g, at.phase, pane.shown)
    BY <2>0 DEF g
  <2>12. /\ effects' \in [follower: {"none", "framed", "ended"}, guards: 0..MaxGuards]
         /\ statusDiffers => effects'.follower = "none"
         /\ ~statusDiffers => effects' = effects
    BY <2>0, <1>s
  <2>13. follow'.depth <= MaxGuards + Held'
    BY <2>00, <2>11, <2>10, <2>9, <2>8, <2>12, <1>i, <1>s DEF Held
  <2>14. StoreOK
    BY <2>00, <2>2, <2>10, <2>11, <2>12, <2>13
  <2>15. ReaderOK
    BY <2>00, <2>2, <2>10
  <2> QED BY <2>5, <2>14, <2>15, <1>q
<1>5. ASSUME NEW c \in ScrollChats, UnitStored(c) PROVE ScrollInv'
  BY <1>5, <1>i, <1>p, <1>s, <1>r, <1>q DEF UnitStored, Held
<1>6. CASE Reported
  <2> DEFINE f == IF scroll'.seen THEN ClearSmoothGuard(follow) ELSE follow
             mode == OnIntersection(f.mode, scroll'.seen, f.depth > 0)
  <2>1. /\ scroll.seen # (scroll.place = "tail")
        /\ scroll' = [scroll EXCEPT !.seen = ~@]
        /\ follow' = [f EXCEPT !.mode = mode]
        /\ reading' = (reading \/ (mode = "detached" /\ ~scroll'.seen /\ Rests))
        /\ UNCHANGED <<pane, anchor, effects, shelf, units>>
    BY <1>6 DEF Reported
  <2>2. scroll' \in [place: Places, seen: BOOLEAN] /\ scroll'.place = scroll.place /\ scroll'.seen = ~scroll.seen
        /\ (scroll'.seen <=> scroll.place = "tail")
    BY <2>1, <1>s
  <2>3. f \in Store /\ f.mode = follow.mode /\ f.depth <= follow.depth /\ f.depth \in Nat
    BY <1>s, ClearedStore DEF Store
  <2> HIDE DEF f
  <2>4. /\ mode \in Modes
        /\ follow.mode = "detached" /\ ~scroll'.seen => mode = "detached"
    BY <2>3, <2>2, <1>s DEF OnIntersection, Modes, Store
  <2> HIDE DEF mode
  <2>5. follow' \in Store /\ follow'.depth = f.depth /\ follow'.mode = mode
    BY <2>1, <2>3, <2>4 DEF Store
  <2>6. StoreOK
    BY <2>1, <2>2, <2>3, <2>5, <1>s, <1>i DEF Held
  <2>7. ReaderOK
    BY <2>1, <2>2, <2>4, <2>5, <1>r, <1>s DEF Rests, Places
  <2> QED BY <2>1, <2>6, <2>7, <1>c, <1>q
<1>7. CASE Unsettled
  BY <1>7, <1>s, <1>i, <1>r, <1>c, <1>q DEF Unsettled, Held, Places
<1>8. CASE FrameEnds
  BY <1>s, ReleasedStore, <1>8, <1>i, <1>r, <1>c, <1>q DEF FrameEnds, Held
<1>9. CASE SmoothTimeout
  <2>1. PICK f \in Store : f.mode = follow.mode /\ f.depth = follow.depth /\ follow' = ClearSmoothGuard(f)
    <3>1. CASE follow.timer /\ follow' = ClearSmoothGuard(follow)
      BY <3>1, <1>s
    <3>2. CASE follow.stale > 0 /\ follow' = ClearSmoothGuard([follow EXCEPT !.stale = @ - 1])
      <4>1. [follow EXCEPT !.stale = @ - 1] \in Store
        BY <3>2, <1>i, <1>s DEF Store
      <4>2. [follow EXCEPT !.stale = @ - 1].mode = follow.mode /\ [follow EXCEPT !.stale = @ - 1].depth = follow.depth
        BY <1>s DEF Store
      <4> QED BY <3>2, <4>1, <4>2
    <3> QED BY <1>9, <3>1, <3>2 DEF SmoothTimeout
  <2>2. follow' \in Store /\ follow'.mode = follow.mode /\ follow'.depth <= follow.depth /\ follow'.depth \in Nat
    BY <2>1, ClearedStore DEF Store
  <2>3. StoreOK /\ ReaderOK
    BY <1>9, <2>2, <1>s, <1>i, <1>r DEF SmoothTimeout, Held
  <2> QED BY <1>9, <2>3, <1>c, <1>q DEF SmoothTimeout
<1>10. CASE GuardTimeout
  BY <1>s, ReleasedStore, <1>10, <1>i, <1>r, <1>c, <1>q DEF GuardTimeout, Held
<1>11. CASE Resized
  <2>1. PICK place \in Places :
          /\ reading' = (reading /\ place = "up")
          /\ scroll' = [scroll EXCEPT !.place =
                IF anchor.phase = "complete" /\ follow.mode = "following" THEN "tail" ELSE place]
          /\ follow' = IF anchor.phase = "complete" /\ follow.mode = "detached" /\ place = "tail"
                       THEN [follow EXCEPT !.mode = OnScrollToBottom(@)] ELSE follow
    BY <1>11 DEF Resized
  <2>2. UNCHANGED <<pane, anchor, effects, shelf, units>>
    BY <1>11 DEF Resized
  <2>3. scroll' \in [place: Places, seen: BOOLEAN]
    BY <2>1, <1>s DEF Places
  <2>4. follow' \in Store /\ follow'.depth = follow.depth
    BY <2>1, <1>s DEF Store, OnScrollToBottom, Modes
  <2>5. reading' \in BOOLEAN /\ (reading' => reading /\ place = "up")
    BY <2>1
  <2>6. StoreOK
    BY <2>2, <2>3, <2>4, <2>5, <1>s, <1>i DEF Held
  <2>7. ReaderOK
    BY <2>1, <2>2, <2>5, <1>s, <1>r
  <2> QED BY <2>2, <2>6, <2>7, <1>c, <1>q
<1>12. CASE UserScrolls
  BY <1>12, <1>s, <1>i, <1>r, <1>c, <1>q DEF UserScrolls, Held, Places
<1>13. CASE ScrollToBottom
  <2>1. Guarded(follow) \in Store /\ Guarded(follow).depth = follow.depth + 1
        /\ follow.depth < MaxGuards /\ follow.stale \in 0..MaxGuards /\ follow.stale < MaxGuards
    BY <1>13, <1>s, GuardedStore DEF ScrollToBottom, Store
  <2> DEFINE g == Guarded(follow)
             stale == IF follow.timer THEN g.stale + 1 ELSE g.stale
  <2>2. follow' = [g EXCEPT !.mode = OnScrollToBottom(g.mode), !.pending = TRUE, !.timer = TRUE, !.stale = stale]
    BY <1>13 DEF ScrollToBottom
  <2>3. stale \in 0..MaxGuards
    BY <2>1, <1>s, <1>i DEF Guarded, Store
  <2>4. OnScrollToBottom(g.mode) \in Modes
    BY <2>1 DEF OnScrollToBottom, Store, Modes
  <2> HIDE DEF g, stale
  <2>5. g \in Store /\ g.depth = follow.depth + 1
    BY <2>1 DEF g
  <2>6. follow' \in Store /\ follow'.depth = g.depth
    BY <2>2, <2>3, <2>4, <2>5 DEF Store
  <2>7. follow'.depth <= MaxGuards + Held'
    BY <2>5, <2>6, <2>1, <1>i, <1>s DEF Held
  <2>8. scroll' \in [place: Places, seen: BOOLEAN] /\ reading' = FALSE
        /\ UNCHANGED <<pane, anchor, effects, shelf, units>>
    BY <1>13, <1>s DEF ScrollToBottom, Places
  <2> QED BY <2>6, <2>7, <2>8, <1>s, <1>r, <1>c, <1>q
<1>14. ASSUME NEW place \in Places, GoToWaypoint(place) PROVE ScrollInv'
  <2>1. follow' \in Store /\ follow'.depth = follow.depth + 1 /\ follow.depth < MaxGuards
    BY <1>14, <1>s, GuardedStore DEF GoToWaypoint
  <2>2. effects' \in [follower: {"none", "framed", "ended"}, guards: 0..MaxGuards]
    BY <1>14, <1>s, <1>i DEF GoToWaypoint
  <2>3. scroll' \in [place: Places, seen: BOOLEAN] /\ reading' = FALSE
        /\ UNCHANGED <<pane, anchor, shelf, units>>
    BY <1>14, <1>s DEF GoToWaypoint
  <2>4. follow'.depth <= MaxGuards + Held'
    BY <2>1, <1>i, <1>s DEF Held
  <2> QED BY <2>1, <2>2, <2>3, <2>4, <1>s, <1>r, <1>c, <1>q
<1>15. CASE SubmitScrolls
  BY <1>15, <1>s, <1>i, <1>r, <1>c, <1>q DEF SubmitScrolls, Store, OnScrollToBottom, Modes, Places, Held
<1>16. ASSUME NEW place \in Places, InitialScrollSettles(place) PROVE ScrollInv'
  <2> DEFINE f == [follow EXCEPT !.mode = OnInitialScrollDone(@, "tail")]
  <2>1. f \in Store /\ f.depth = follow.depth
    BY <1>s DEF Store, OnInitialScrollDone, Modes
  <2>2. follow' = Released(f, 1)
    BY <1>16 DEF InitialScrollSettles
  <2> HIDE DEF f
  <2>3. follow' \in Store /\ follow'.depth = IF f.depth >= 1 THEN f.depth - 1 ELSE 0
    BY <2>1, <2>2, ReleasedStore
  <2>4. /\ anchor.effect = "running" /\ anchor' = [phase |-> "complete", effect |-> "ended"]
        /\ scroll' = [place |-> place, seen |-> Reobserved(place)]
        /\ UNCHANGED <<pane, effects, shelf, units, reading>>
    BY <1>16 DEF InitialScrollSettles
  <2>5. follow'.depth <= MaxGuards + Held'
    BY <2>1, <2>3, <2>4, <1>i, <1>s DEF Held
  <2>6. scroll' \in [place: Places, seen: BOOLEAN]
        /\ anchor' \in [phase: Phases, effect: {"none", "running", "ended"}]
    BY <2>4 DEF Reobserved, Phases
  <2>7. ~reading
    BY <2>4, <1>r
  <2> QED BY <2>3, <2>4, <2>5, <2>6, <2>7, <1>s, <1>c, <1>q
<1>17. CASE UNCHANGED scrollVars
  BY <1>17, <1>s, <1>i, <1>r, <1>c, <1>q DEF scrollVars, Held
<1> QED
  BY <1>1, <1>2, <1>3, <1>4, <1>5, <1>6, <1>7, <1>8, <1>9, <1>10, <1>11, <1>12, <1>13, <1>14,
     <1>15, <1>16, <1>17 DEF ScrollStep

\* A tab that opens at a chat has no reader yet.
LEMMA ScrollStarts == ScrollInit => ScrollInv
<1> SUFFICES ASSUME ScrollInit PROVE ScrollInv
  OBVIOUS
<1>0. MaxGuards \in Nat \ {0} /\ MaxUnits \in Nat \ {0}
  BY ScrollConstants
<1>1. PICK c \in ScrollChats :
         pane = [chat |-> c, shown |-> 0, kept |-> NoPosition, due |-> NoPosition]
  BY DEF ScrollInit
<1>2. pane \in [chat: ScrollChats, shown: 0..MaxUnits, kept: Position \cup {NoPosition},
                due: [shown: 0..MaxUnits, kept: Position \cup {NoPosition}] \cup {NoPosition}]
  BY <1>0, <1>1
<1>3. /\ follow \in [mode: Modes, depth: Nat, pending: BOOLEAN, timer: BOOLEAN, stale: 0..MaxGuards]
      /\ anchor \in [phase: Phases, effect: {"none", "running", "ended"}]
  BY <1>0 DEF ScrollInit, Modes, Phases
<1>7. effects \in [follower: {"none", "framed", "ended"}, guards: 0..MaxGuards]
  BY <1>0 DEF ScrollInit
<1>8. scroll \in [place: Places, seen: BOOLEAN] /\ reading \in BOOLEAN
  BY DEF ScrollInit, Places
<1>4. /\ shelf \in [ScrollChats -> [shown: 0..MaxUnits, position: Position] \cup {NoPosition}]
      /\ units \in [ScrollChats -> 0..MaxUnits]
  BY <1>0 DEF ScrollInit
<1>5. ScrollTyped
  BY <1>2, <1>3, <1>4, <1>7, <1>8 DEF ScrollTyped
<1>6. follow.depth <= MaxGuards + Held /\ ReaderInv
  BY <1>0 DEF ScrollInit, Held, ReaderInv
<1> QED BY <1>5, <1>6 DEF ScrollInv

\* The invariant holds of every reachable state.
LEMMA ScrollInvariant == ScrollSpec => []ScrollInv
<1> QED BY ScrollStarts, ScrollStepKeepsInv, PTL DEF ScrollSpec

\* A reader who has scrolled up is left where they are (scrollFollowStore.ts and its
\* effects), whatever arrives, is measured, times out or is rendered late.
THEOREM TheReaderStays == ScrollSpec => []ReaderIsLeftAlone
<1>1. ScrollInv => ReaderIsLeftAlone
  BY DEF ScrollInv, ReaderInv, ReaderIsLeftAlone
<1> QED BY <1>1, ScrollInvariant, PTL

\* At most the two effects that run and the guards asked for hold programmaticDepth up.
LEMMA ScrollTypesGiven == ScrollInv => ScrollTypeOK
<1> SUFFICES ASSUME ScrollInv PROVE ScrollTypeOK
  OBVIOUS
<1>1. ScrollTyped /\ follow.depth <= MaxGuards + Held /\ MaxGuards \in Nat
  BY ScrollConstants DEF ScrollInv
<1>2. Held \in 0..2
  BY DEF Held
<1>3. follow \in [mode: Modes, depth: 0..(MaxGuards + 2), pending: BOOLEAN, timer: BOOLEAN, stale: 0..MaxGuards]
  <2>1. follow \in [mode: Modes, depth: Nat, pending: BOOLEAN, timer: BOOLEAN, stale: 0..MaxGuards]
    BY <1>1 DEF ScrollTyped
  <2>2. PICK held \in 0..2 : held = Held
    BY <1>2
  <2>3. follow.depth \in 0..(MaxGuards + 2)
    BY <1>1, <2>1, <2>2
  <2> QED BY <2>1, <2>3
<1> QED BY <1>1, <1>3 DEF ScrollTyped, ScrollTypeOK

\* Every reachable state of the scrolling (scrollFollowStore.ts) is well typed.
THEOREM ScrollTypeCorrect == ScrollSpec => []ScrollTypeOK
<1> QED BY ScrollTypesGiven, ScrollInvariant, PTL

-----------------------------------------------------------------------------
(* The composer and the models *)

\* The ids there may be; those of the catalogs have one part.
IdParts == {"opus", "sonnet", "haiku", "gpt-5.4", "1m"}
ModelIds == Seq(IdParts)

\* What a composer shows, what it asks for, what the hub records of a chat and of a turn.
Preferences == [provider: Providers, model: ModelIds, effort: {"high", "max"}, window: {"200k", "1m"}, plan: BOOLEAN]
Requests == [provider: Providers, model: ModelIds, window: {"200k", "1m"}, plan: BOOLEAN, shown: Preferences]
ChatRecords == [exists: BOOLEAN, provider: Providers \union {NoModel}, model: ModelIds \union {NoModel},
                token: BOOLEAN, busy: BOOLEAN, queued: Requests \union {NoModel}]
TurnRecords == [shown: Preferences, asked: ModelIds, provider: Providers, model: ModelIds, plan: BOOLEAN]

\* What the variables are.
SessionTyped ==
    /\ prefs \in [default: Providers \union {"last_used"}, composer: Preferences, defaults: [Providers -> Preferences]]
    /\ composer \in [chat: ChatIds \union {NoModel}, overrides: Preferences \union {NoModel}]
    /\ records \in [ChatIds -> ChatRecords]
    /\ forks \in [ChatIds -> Requests \union {NoModel}]
    /\ discovered \subseteq ModelIds
    /\ lastTurn \in TurnRecords \union {NoTurnYet}

\* What the shown options run: their model, with its window for Claude's.
RunsAs(shown) ==
    IF shown.provider = "codex" THEN shown.model
    ELSE ApiModelId(shown.model, NormalizedWindow(shown.model, shown.window))

\* A request asks for what was shown with it; the model of a fork's has the window in its id.
AsksForShown(command) ==
    /\ command.provider = command.shown.provider /\ command.plan = command.shown.plan
    /\ command.window = command.shown.window
    /\ command.model \in {command.shown.model, RunsAs(command.shown)}

\* What waits of a chat is of the chat's provider.
WaitsForIts(c) ==
    /\ records[c].queued # NoModel =>
          AsksForShown(records[c].queued) /\ records[c].queued.provider = records[c].provider
    /\ forks[c] # NoModel => AsksForShown(forks[c]) /\ records[c].provider = NoModel /\ records[c].exists
    /\ records[c].busy => records[c].provider # NoModel
    /\ ~records[c].exists => records[c] = NoRecord

\* The composer shows a chat that exists, and has overrides of it alone.
OverridesAreOfTheChat ==
    /\ composer.overrides # NoModel => composer.chat # NoModel
    /\ composer.chat # NoModel => composer.chat \in ChatIds /\ records[composer.chat].exists

\* The inductive invariant: what is shown is kept as it was shown until it runs.
ModelsInv == SessionTyped /\ (\A c \in ChatIds : WaitsForIts(c)) /\ OverridesAreOfTheChat /\ ShownIsRun

\* To normalize twice is to normalize once, and plan mode has no part in it.
LEMMA NormalizedFits ==
    ASSUME NEW p \in Preferences
    PROVE  /\ Normalized(p) \in Preferences /\ Normalized(Normalized(p)) = Normalized(p)
           /\ Normalized(p).provider = p.provider
           /\ \A plan \in BOOLEAN :
                 /\ [p EXCEPT !.plan = plan] \in Preferences
                 /\ [p EXCEPT !.plan = plan].provider = p.provider
                 /\ p = Normalized(p) => [p EXCEPT !.plan = plan] = Normalized([p EXCEPT !.plan = plan])
<1> USE DEF Normalized, normalizeClaudePreference, NormalizedWindow, Preferences
<1>1. Normalized(p) \in Preferences /\ Normalized(p).provider = p.provider
  OBVIOUS
<1>2. Normalized(Normalized(p)) = Normalized(p)
  OBVIOUS
<1>3. ASSUME NEW plan \in BOOLEAN
      PROVE  /\ [p EXCEPT !.plan = plan] \in Preferences
             /\ [p EXCEPT !.plan = plan].provider = p.provider
  OBVIOUS
<1>4. ASSUME NEW plan \in BOOLEAN, p = Normalized(p)
      PROVE  [p EXCEPT !.plan = plan] = Normalized([p EXCEPT !.plan = plan])
  BY <1>4
<1> QED BY <1>1, <1>2, <1>3, <1>4

\* Another model keeps the provider.
LEMMA WindowFits ==
    ASSUME NEW p \in Preferences, NEW model \in ModelIds
    PROVE  /\ withNormalizedContextWindow(p, model) \in Preferences
           /\ withNormalizedContextWindow(p, model).provider = p.provider
BY DEF withNormalizedContextWindow, NormalizedWindow, Preferences

\* What is run is an id.
LEMMA RunsAsType ==
    ASSUME NEW p \in Preferences
    PROVE  RunsAs(p) \in ModelIds
BY DEF Preferences, ModelIds, IdParts, RunsAs, ApiModelId

\* The composer shows options of its chat's provider.
LEMMA ResolvedFits ==
    ASSUME ModelsInv, Composing
    PROVE  /\ composer.chat \in ChatIds /\ Shown \in ChatRecords
           /\ Resolved \in Preferences /\ (Locked => Resolved.provider = Shown.provider)
           /\ Locked => LockedBase \in Preferences /\ LockedBase.provider = Shown.provider
           /\ composer.overrides # NoModel => Locked
<1>1. /\ composer.chat \in ChatIds /\ Shown \in ChatRecords
      /\ prefs.composer \in Preferences /\ prefs.defaults \in [Providers -> Preferences]
      /\ composer.overrides \in Preferences \union {NoModel}
  BY DEF ModelsInv, SessionTyped, Composing, Shown
<1>2. /\ Shown.provider \in Providers \union {NoModel} /\ Shown.model \in ModelIds \union {NoModel}
  BY <1>1 DEF ChatRecords
<1>3. ASSUME Locked PROVE LockedBase \in Preferences /\ LockedBase.provider = Shown.provider
  BY <1>2, <1>3, <1>1 DEF Locked, ModelsInv, ShownIsRun, PreferencesFit, LockedBase, Preferences
<1>4. ASSUME composer.overrides # NoModel
      PROVE  composer.overrides \in Preferences /\ composer.overrides.provider = Shown.provider /\ Locked
  BY <1>1, <1>4, SessionModelConstants DEF ModelsInv, ShownIsRun, PreferencesFit, Preferences, Locked, Providers
<1> QED BY <1>1, <1>3, <1>4 DEF Resolved

\* What the hub makes of a request for a plain id is what was shown.
LEMMA HubRunsWhatIsShown ==
    ASSUME discovered \subseteq ModelIds, NEW command \in Requests, AsksForShown(command)
    PROVE  /\ HubModel(command.provider, command) \in ModelIds
           /\ command.model \in ModelsOf(command.provider) =>
                 HubModel(command.provider, command) = RunsAs(command.shown)
<1>1. /\ command.provider \in Providers /\ command.model \in ModelIds /\ command.window \in {"200k", "1m"}
      /\ command.shown \in Preferences /\ command.shown.model \in ModelIds
      /\ command.provider = command.shown.provider /\ command.window = command.shown.window
      /\ command.model \in {command.shown.model, RunsAs(command.shown)}
  BY DEF Requests, Preferences, AsksForShown
<1>2. DefaultModel(command.provider) \in ModelIds
  <2>1. <<"opus">> \in ModelIds /\ <<"gpt-5.4">> \in ModelIds
    BY DEF ModelIds, IdParts
  <2> QED BY <2>1 DEF DefaultModel
<1>3. HubModel(command.provider, command) \in ModelIds
  BY <1>1, <1>2 DEF ApiModelId, ModelIds, IdParts, NormalizedWindow, HubModel
<1>4. ASSUME command.model \in ModelsOf(command.provider)
      PROVE  HubModel(command.provider, command) = RunsAs(command.shown)
  <2>1. command.model \in Catalog(command.provider)
    BY <1>4 DEF Catalog
  <2>2. command.model = command.shown.model
    <3>1. CASE command.provider = "codex"
      BY <1>1, <3>1 DEF RunsAs
    <3>2. CASE command.provider = "claude"
      <4>1. Len(command.model) = 1
        BY <1>4, <3>2 DEF ModelsOf
      <4>2. ASSUME command.model = Append(command.shown.model, "1m"), command.shown.model \in Windowed PROVE FALSE
        <5>1. Len(command.shown.model) = 1
          BY <4>2 DEF Windowed
        <5> QED BY <4>1, <4>2, <5>1, <1>1 DEF ModelIds
      <4> QED BY <1>1, <3>2, <4>2 DEF RunsAs, ApiModelId, NormalizedWindow
    <3> QED BY <1>1, <3>1, <3>2 DEF Providers
  <2> QED BY <1>1, <2>1, <2>2 DEF HubModel, RunsAs, Providers
<1> QED BY <1>3, <1>4

\* The fields of what a step changes are still of their types.
LEMMA RequestFits ==
    ASSUME NEW p \in Preferences
    PROVE  /\ Request(p) \in Requests /\ AsksForShown(Request(p)) /\ Request(p).provider = p.provider
           /\ LET fork == [Request(p) EXCEPT !.model = resolveRequestedSessionModel(Request(p))]
              IN fork \in Requests /\ AsksForShown(fork) /\ fork.provider = p.provider
<1>1. /\ p.provider \in Providers /\ p.model \in ModelIds /\ p.window \in {"200k", "1m"} /\ p.plan \in BOOLEAN
  BY DEF Preferences
<1>2. resolveRequestedSessionModel(Request(p)) = RunsAs(p)
  BY <1>1 DEF resolveRequestedSessionModel, Request, RunsAs, Providers
<1>3. RunsAs(p) \in ModelIds
  BY RunsAsType
<1> HIDE DEF RunsAs
<1>4. Request(p) \in Requests /\ AsksForShown(Request(p)) /\ Request(p).provider = p.provider
  BY <1>1 DEF Request, Requests, AsksForShown
<1>5. [Request(p) EXCEPT !.model = resolveRequestedSessionModel(Request(p))] =
         [provider |-> p.provider, model |-> RunsAs(p), window |-> p.window, plan |-> p.plan, shown |-> p]
  BY <1>2 DEF Request
<1>6. LET fork == [provider |-> p.provider, model |-> RunsAs(p), window |-> p.window, plan |-> p.plan, shown |-> p]
      IN fork \in Requests /\ AsksForShown(fork) /\ fork.provider = p.provider
  BY <1>1, <1>3 DEF Requests, AsksForShown
<1> QED BY <1>4, <1>5, <1>6

\* The preferences and the composer may change, the hub's records stay.
LEMMA PreferencesKeep ==
    ASSUME ModelsInv, UNCHANGED <<records, forks, discovered, lastTurn>>,
           prefs' \in [default: Providers \union {"last_used"}, composer: Preferences, defaults: [Providers -> Preferences]],
           prefs'.defaults = prefs.defaults, prefs'.composer = Normalized(prefs'.composer),
           composer' \in [chat: ChatIds \union {NoModel}, overrides: Preferences \union {NoModel}],
           composer'.overrides # NoModel =>
              composer'.chat # NoModel /\ composer'.overrides.provider = records[composer'.chat].provider,
           composer'.chat # NoModel => composer'.chat \in ChatIds /\ records[composer'.chat].exists
    PROVE  ModelsInv'
<1>1. SessionTyped'
  BY DEF ModelsInv, SessionTyped
<1>2. \A c \in ChatIds : WaitsForIts(c)'
  BY DEF ModelsInv, WaitsForIts
<1>3. OverridesAreOfTheChat'
  BY DEF OverridesAreOfTheChat
<1>4. PreferencesFit'
  BY DEF ModelsInv, ShownIsRun, PreferencesFit, Shown
<1>5. TurnsRunWhatIsShown'
  BY DEF ModelsInv, ShownIsRun, TurnsRunWhatIsShown
<1> QED BY <1>1, <1>2, <1>3, <1>4, <1>5 DEF ModelsInv, ShownIsRun

\* A choice of the composer's controls.
LEMMA ChoiceKeeps ==
    ASSUME ModelsInv, Composing, NEW locked, NEW unlocked, Choose(locked, unlocked),
           Locked => locked \in Preferences /\ locked.provider = Shown.provider,
           ~Locked => unlocked \in Preferences /\ unlocked = Normalized(unlocked)
    PROVE  ModelsInv'
<1>1. /\ prefs \in [default: Providers \union {"last_used"}, composer: Preferences, defaults: [Providers -> Preferences]]
      /\ composer \in [chat: ChatIds \union {NoModel}, overrides: Preferences \union {NoModel}]
      /\ prefs.composer = Normalized(prefs.composer)
      /\ composer.overrides # NoModel => composer.overrides.provider = records[composer.chat].provider
      /\ composer.chat \in ChatIds /\ composer.chat # NoModel /\ records[composer.chat].exists
  BY DEF ModelsInv, SessionTyped, ShownIsRun, PreferencesFit, OverridesAreOfTheChat, Shown, Composing
<1>2. CASE Locked
  <2>1. composer' = [composer EXCEPT !.overrides = locked] /\ prefs' = prefs
        /\ UNCHANGED <<records, forks, discovered, lastTurn>>
    BY <1>2 DEF Choose
  <2>2. /\ composer' \in [chat: ChatIds \union {NoModel}, overrides: Preferences \union {NoModel}]
        /\ composer'.chat = composer.chat /\ composer'.overrides = locked
    BY <1>1, <1>2, <2>1
  <2> QED BY <1>1, <1>2, <2>1, <2>2, PreferencesKeep DEF Shown
<1>3. CASE ~Locked
  <2>1. prefs' = [prefs EXCEPT !.composer = unlocked] /\ composer' = composer
        /\ UNCHANGED <<records, forks, discovered, lastTurn>>
    BY <1>3 DEF Choose
  <2>2. /\ prefs' \in [default: Providers \union {"last_used"}, composer: Preferences, defaults: [Providers -> Preferences]]
        /\ prefs'.defaults = prefs.defaults /\ prefs'.composer = unlocked
    BY <1>1, <1>3, <2>1
  <2> QED BY <1>1, <1>3, <2>1, <2>2, PreferencesKeep
<1> QED BY <1>2, <1>3

\* A message is sent for a chat of its provider, or of none yet, and nothing else waits
\* of a chat that has none.
LEMMA SendKeeps ==
    ASSUME ModelsInv, NEW c \in ChatIds, NEW command \in Requests, AsksForShown(command), NEW ok \in BOOLEAN,
           NEW left \in Requests \union {NoModel}, left \in {records[c].queued, NoModel},
           records[c].provider \in {NoModel, command.provider}, records[c].exists,
           records' = Send([records EXCEPT ![c].queued = left], c, command, ok).records,
           lastTurn' = Send([records EXCEPT ![c].queued = left], c, command, ok).lastTurn,
           UNCHANGED <<prefs, composer, discovered>>,
           forks' = [forks EXCEPT ![c] = NoModel]
    PROVE  ModelsInv'
<1>t. /\ records \in [ChatIds -> ChatRecords] /\ forks \in [ChatIds -> Requests \union {NoModel}]
      /\ discovered \subseteq ModelIds /\ lastTurn \in TurnRecords \union {NoTurnYet}
      /\ command.provider \in Providers /\ command.provider # NoModel
      /\ command.shown \in Preferences /\ command.model \in ModelIds /\ command.plan \in BOOLEAN
      /\ command.provider = command.shown.provider /\ command.plan = command.shown.plan
  BY SessionModelConstants DEF ModelsInv, SessionTyped, Requests, AsksForShown, Providers
<1> DEFINE model == HubModel(command.provider, command)
           record == [records[c] EXCEPT !.queued = left, !.provider = command.provider, !.model = model, !.busy = ok]
<1>m. /\ model \in ModelIds
      /\ command.model \in ModelsOf(command.provider) => model = RunsAs(command.shown)
  BY <1>t, HubRunsWhatIsShown
<1>1. /\ records' = [records EXCEPT ![c] = record]
      /\ lastTurn' = IF ok THEN [shown |-> command.shown, asked |-> command.model, provider |-> command.provider,
                                 model |-> model, plan |-> command.plan]
                     ELSE lastTurn
  <2> DEFINE rs == [records EXCEPT ![c].queued = left]
             sent == [rs[c] EXCEPT !.provider = command.provider, !.model = model, !.busy = ok]
  <2> HIDE DEF model
  <2>1. rs[c] = [records[c] EXCEPT !.queued = left] /\ rs[c].provider = records[c].provider
        /\ rs = [records EXCEPT ![c] = rs[c]]
    BY <1>t DEF ChatRecords
  <2>2. (IF rs[c].provider # NoModel THEN rs[c].provider ELSE command.provider) = command.provider
    BY <2>1
  <2>3. sent = record
    BY <1>t, <2>1 DEF ChatRecords
  <2> HIDE DEF rs
  <2>4. /\ records' = [rs EXCEPT ![c] = sent]
        /\ lastTurn' = IF ok THEN [shown |-> command.shown, asked |-> command.model, provider |-> command.provider,
                                   model |-> sent.model, plan |-> command.plan]
                       ELSE lastTurn
    BY <2>2 DEF Send, rs, model
  <2>5. sent.model = model
    BY <2>3, <1>t DEF ChatRecords
  <2>6. [rs EXCEPT ![c] = sent] = [records EXCEPT ![c] = sent]
    BY <2>1, <1>t
  <2> QED BY <2>3, <2>4, <2>5, <2>6
<1> HIDE DEF model
<1>2. /\ record \in ChatRecords /\ record.exists /\ record.provider = command.provider /\ record.queued = left
  BY <1>t, <1>m DEF ChatRecords
<1> HIDE DEF record
<1>3. records' \in [ChatIds -> ChatRecords] /\ records'[c] = record /\ \A d \in ChatIds \ {c} : records'[d] = records[d]
  BY <1>1, <1>2, <1>t
<1>4. forks' \in [ChatIds -> Requests \union {NoModel}] /\ forks'[c] = NoModel /\ \A d \in ChatIds \ {c} : forks'[d] = forks[d]
  BY <1>t
<1>5. lastTurn' \in TurnRecords \union {NoTurnYet}
  BY <1>1, <1>t, <1>m DEF TurnRecords
<1>6. SessionTyped'
  BY <1>3, <1>4, <1>5 DEF ModelsInv, SessionTyped
<1>7. ASSUME NEW d \in ChatIds PROVE WaitsForIts(d)'
  <2>1. CASE d = c
    <3>1. left # NoModel => AsksForShown(left) /\ left.provider = command.provider
      BY SessionModelConstants DEF ModelsInv, WaitsForIts, Requests, Providers
    <3>2. /\ records'[c].queued = left /\ records'[c].exists /\ records'[c].provider = command.provider
          /\ forks'[c] = NoModel
      BY <1>2, <1>3, <1>4
    <3>3. AsksForShown(left)' <=> AsksForShown(left)
      OBVIOUS
    <3> QED BY <2>1, <3>1, <3>2, <3>3, <1>t DEF WaitsForIts
  <2>2. CASE d # c
    <3>1. records'[d] = records[d] /\ forks'[d] = forks[d] /\ WaitsForIts(d)
      BY <2>2, <1>3, <1>4 DEF ModelsInv
    <3> QED BY <3>1 DEF WaitsForIts, AsksForShown
  <2> QED BY <2>1, <2>2
<1>8. OverridesAreOfTheChat'
  BY <1>2, <1>3 DEF ModelsInv, OverridesAreOfTheChat
<1>9. PreferencesFit'
  <2>1. ASSUME composer.overrides # NoModel
        PROVE  records'[composer.chat].provider = records[composer.chat].provider
    <3>1. /\ composer.chat \in ChatIds /\ composer.overrides.provider = records[composer.chat].provider
          /\ composer.overrides \in Preferences
      BY <2>1 DEF ModelsInv, OverridesAreOfTheChat, ShownIsRun, PreferencesFit, Shown, SessionTyped
    <3>2. records[composer.chat].provider # NoModel
      BY <3>1, SessionModelConstants DEF Preferences, Providers
    <3> QED BY <3>1, <3>2, <1>2, <1>3
  <2> QED BY <2>1 DEF ModelsInv, ShownIsRun, PreferencesFit, Shown
<1>10. TurnsRunWhatIsShown'
  <2>1. CASE ok
    <3>1. /\ lastTurn'.shown = command.shown /\ lastTurn'.asked = command.model
          /\ lastTurn'.provider = command.provider /\ lastTurn'.plan = command.plan /\ lastTurn'.model = model
      <4>1. lastTurn' = [shown |-> command.shown, asked |-> command.model, provider |-> command.provider,
                         model |-> model, plan |-> command.plan]
        BY <2>1, <1>1, Zenon
      <4>2. ASSUME NEW one, NEW two, NEW three, NEW four, NEW five,
                   lastTurn' = [shown |-> one, asked |-> two, provider |-> three, model |-> four, plan |-> five]
            PROVE  /\ lastTurn'.shown = one /\ lastTurn'.asked = two /\ lastTurn'.provider = three
                   /\ lastTurn'.plan = five /\ lastTurn'.model = four
        BY <4>2
      <4> QED BY <4>1, <4>2
    <3>2. command.model \in ModelsOf(command.provider) => model = RunsAs(command.shown)
      BY <1>m
    <3> QED BY <3>1, <3>2, <1>t DEF TurnsRunWhatIsShown, RunsAs
  <2>2. CASE ~ok
    BY <2>2, <1>1 DEF ModelsInv, ShownIsRun, TurnsRunWhatIsShown
  <2> QED BY <2>1, <2>2
<1> QED BY <1>6, <1>7, <1>8, <1>9, <1>10 DEF ModelsInv, ShownIsRun

\* A record that exists may change but for its provider, and what waits of it.
LEMMA RecordsKeep ==
    ASSUME ModelsInv, NEW c \in ChatIds, UNCHANGED <<prefs, composer, forks, discovered, lastTurn>>,
           records' \in [ChatIds -> ChatRecords],
           \A d \in ChatIds \ {c} : records'[d] = records[d],
           records'[c].provider = records[c].provider, records[c].exists, records'[c].exists,
           records'[c].queued # NoModel =>
              AsksForShown(records'[c].queued) /\ records'[c].queued.provider = records[c].provider,
           records'[c].busy => records[c].provider # NoModel
    PROVE  ModelsInv'
<1>1. SessionTyped'
  BY DEF ModelsInv, SessionTyped
<1>2. \A d \in ChatIds : WaitsForIts(d)'
  <2> TAKE d \in ChatIds
  <2>1. WaitsForIts(d)
    BY DEF ModelsInv
  <2>2. CASE d = c
    BY <2>1, <2>2 DEF WaitsForIts, AsksForShown
  <2>3. CASE d # c
    BY <2>1, <2>3 DEF WaitsForIts, AsksForShown
  <2> QED BY <2>2, <2>3
<1>3. OverridesAreOfTheChat'
  BY DEF ModelsInv, OverridesAreOfTheChat
<1>4. PreferencesFit'
  BY DEF ModelsInv, OverridesAreOfTheChat, ShownIsRun, PreferencesFit, Shown
<1>5. TurnsRunWhatIsShown'
  BY DEF ModelsInv, ShownIsRun, TurnsRunWhatIsShown
<1> QED BY <1>1, <1>2, <1>3, <1>4, <1>5 DEF ModelsInv, ShownIsRun

\* Nothing but the models that are known changes.
LEMMA QuietKeeps ==
    ASSUME ModelsInv, discovered' \subseteq ModelIds, UNCHANGED <<prefs, composer, records, forks, lastTurn>>
    PROVE  ModelsInv'
<1>1. SessionTyped'
  BY DEF ModelsInv, SessionTyped
<1>2. (\A c \in ChatIds : WaitsForIts(c)') /\ OverridesAreOfTheChat'
  BY Zenon DEF ModelsInv, WaitsForIts, AsksForShown, OverridesAreOfTheChat
<1>3. PreferencesFit' /\ TurnsRunWhatIsShown'
  BY DEF ModelsInv, ShownIsRun, PreferencesFit, Shown, TurnsRunWhatIsShown
<1> QED BY <1>1, <1>2, <1>3 DEF ModelsInv, ShownIsRun

\* A tab is opened with preferences that fit and chats that run nothing.
LEMMA ModelsInit == SessionInit => ModelsInv
<1> SUFFICES ASSUME SessionInit PROVE ModelsInv
  OBVIOUS
<1>1. \A provider \in Providers, model \in ModelIds, effort \in {"high", "max"}, window \in {"200k", "1m"}, plan \in BOOLEAN :
         /\ Preference(provider, model, effort, window, plan) \in Preferences
         /\ Preference(provider, model, effort, window, plan).provider = provider
  BY DEF Preference, Preferences
<1>2. {<<"haiku">>, <<"sonnet">>, <<"gpt-5.4">>} \subseteq ModelIds
  BY DEF ModelIds, IdParts
<1> DEFINE c1 == Preference("claude", <<"haiku">>, "max", "1m", FALSE)
           c2 == Preference("claude", <<"sonnet">>, "high", "1m", TRUE)
           c3 == Preference("codex", <<"gpt-5.4">>, "high", "200k", FALSE)
           d1 == Preference("claude", <<"sonnet">>, "max", "1m", FALSE)
           d2 == Preference("codex", <<"gpt-5.4">>, "high", "200k", TRUE)
           defaults == [provider \in Providers |-> IF provider = "claude" THEN Normalized(d1) ELSE d2]
<1>3. {c1, c2, c3, d1, d2} \subseteq Preferences /\ d1.provider = "claude" /\ d2.provider = "codex"
  BY ZenonT(30), <1>1, <1>2 DEF Providers
<1>4. PICK default \in Providers \union {"last_used"}, p \in {c1, c2, c3} :
         prefs = [default |-> default, composer |-> Normalized(p), defaults |-> defaults]
  BY DEF SessionInit
<1> HIDE DEF c1, c2, c3, d1, d2
<1>5. /\ Normalized(p) \in Preferences /\ Normalized(Normalized(p)) = Normalized(p)
      /\ Normalized(d1) \in Preferences /\ Normalized(Normalized(d1)) = Normalized(d1) /\ Normalized(d1).provider = "claude"
  BY <1>3, NormalizedFits
<1>6. d2 = Normalized(d2)
  BY <1>3 DEF Normalized
<1>7. \A provider \in Providers : /\ defaults[provider] \in Preferences /\ defaults[provider].provider = provider
                                  /\ defaults[provider] = Normalized(defaults[provider])
  BY <1>3, <1>5, <1>6 DEF Providers
<1>8. defaults \in [Providers -> Preferences]
  BY <1>7
<1> HIDE DEF defaults
<1>9. /\ prefs \in [default: Providers \union {"last_used"}, composer: Preferences, defaults: [Providers -> Preferences]]
      /\ prefs.composer = Normalized(p) /\ prefs.defaults = defaults
  BY <1>4, <1>5, <1>8
<1>10. /\ composer = [chat |-> NoModel, overrides |-> NoModel] /\ records = [c \in ChatIds |-> NoRecord]
       /\ forks = [c \in ChatIds |-> NoModel] /\ discovered = {} /\ lastTurn = NoTurnYet
  BY DEF SessionInit
<1>11. NoRecord \in ChatRecords
  BY DEF NoRecord, ChatRecords
<1>12. SessionTyped
  BY <1>9, <1>10, <1>11 DEF SessionTyped
<1>13. \A c \in ChatIds : WaitsForIts(c)
  BY <1>10 DEF WaitsForIts, NoRecord
<1>14. OverridesAreOfTheChat
  BY <1>10 DEF OverridesAreOfTheChat
<1>15. PreferencesFit
  BY <1>5, <1>7, <1>9, <1>10 DEF PreferencesFit
<1>16. TurnsRunWhatIsShown
  BY <1>10 DEF TurnsRunWhatIsShown
<1> QED BY <1>12, <1>13, <1>14, <1>15, <1>16 DEF ModelsInv, ShownIsRun

\* Every step keeps the invariant.
LEMMA ModelsStep == ModelsInv /\ [SessionStep]_sessionVars => ModelsInv'
<1> SUFFICES ASSUME ModelsInv, [SessionStep]_sessionVars PROVE ModelsInv'
  OBVIOUS
<1>t. /\ prefs \in [default: Providers \union {"last_used"}, composer: Preferences, defaults: [Providers -> Preferences]]
      /\ composer \in [chat: ChatIds \union {NoModel}, overrides: Preferences \union {NoModel}]
      /\ records \in [ChatIds -> ChatRecords]
      /\ forks \in [ChatIds -> Requests \union {NoModel}]
      /\ discovered \subseteq ModelIds
      /\ prefs.composer = Normalized(prefs.composer)
      /\ \A provider \in Providers : /\ prefs.defaults[provider] \in Preferences
                                     /\ prefs.defaults[provider] = Normalized(prefs.defaults[provider])
      /\ composer.overrides # NoModel =>
            composer.chat # NoModel /\ composer.overrides.provider = records[composer.chat].provider
      /\ composer.chat # NoModel => composer.chat \in ChatIds /\ records[composer.chat].exists
  BY DEF ModelsInv, SessionTyped, ShownIsRun, PreferencesFit, OverridesAreOfTheChat, Shown
<1>n. NoModel \notin Providers
  BY SessionModelConstants DEF Providers
<1>m. \A c \in ChatIds : Mounted(c) \in [chat: ChatIds \union {NoModel}, overrides: Preferences \union {NoModel}]
                         /\ Mounted(c).overrides = NoModel /\ Mounted(c).chat = c
  BY DEF Mounted
<1>1. ASSUME NEW default \in Providers \union {"last_used"}, setDefaultProvider(default)
      PROVE  ModelsInv'
  BY <1>1, <1>t, PreferencesKeep DEF setDefaultProvider
<1>2. ASSUME NEW c \in ChatIds, NewChat(c) PROVE ModelsInv'
  <2>1. /\ records' = [records EXCEPT ![c].exists = TRUE] /\ composer' = Mounted(c)
        /\ UNCHANGED <<forks, discovered, lastTurn>> /\ ~records[c].exists
        /\ prefs' = IF prefs.default = "last_used" THEN prefs
                    ELSE [prefs EXCEPT !.composer = prefs.defaults[prefs.default]]
    BY <1>2 DEF NewChat
  <2>2. /\ prefs' \in [default: Providers \union {"last_used"}, composer: Preferences, defaults: [Providers -> Preferences]]
        /\ prefs'.defaults = prefs.defaults /\ prefs'.composer = Normalized(prefs'.composer)
    <3>1. CASE prefs.default = "last_used"
      BY <3>1, <2>1, <1>t
    <3>2. CASE prefs.default # "last_used"
      <4>1. prefs.default \in Providers
        BY <3>2, <1>t
      <4> DEFINE p == prefs.defaults[prefs.default]
      <4>2. p \in Preferences /\ p = Normalized(p)
        BY <4>1, <1>t
      <4> HIDE DEF p
      <4>3. prefs' = [prefs EXCEPT !.composer = p]
        BY <3>2, <2>1 DEF p
      <4>4. /\ prefs' \in [default: Providers \union {"last_used"}, composer: Preferences, defaults: [Providers -> Preferences]]
            /\ prefs'.defaults = prefs.defaults /\ prefs'.composer = p
        BY <1>t, <4>2, <4>3
      <4> QED BY <4>2, <4>4
    <3> QED BY <3>1, <3>2
  <2>3. /\ records' \in [ChatIds -> ChatRecords]
        /\ \A d \in ChatIds : /\ records'[d].queued = records[d].queued /\ records'[d].provider = records[d].provider
                              /\ records'[d].busy = records[d].busy
                              /\ records[d].exists => records'[d].exists
                              /\ ~records'[d].exists => records'[d] = records[d] /\ ~records[d].exists
    <3> DEFINE record == [records[c] EXCEPT !.exists = TRUE]
    <3>1. /\ record \in ChatRecords /\ record.queued = records[c].queued
          /\ record.provider = records[c].provider /\ record.busy = records[c].busy /\ record.exists
      <4>1. records[c] \in ChatRecords
        BY <1>t
      <4>2. record \in ChatRecords
        BY <4>1 DEF ChatRecords
      <4>3. /\ record.queued = records[c].queued /\ record.exists
            /\ record.provider = records[c].provider /\ record.busy = records[c].busy
        BY <4>1 DEF ChatRecords
      <4> QED BY <4>2, <4>3
    <3>2. records' = [records EXCEPT ![c] = record]
      BY <2>1
    <3> HIDE DEF record
    <3> QED BY <3>1, <3>2, <1>t
  <2>4. SessionTyped'
    BY <2>1, <2>2, <2>3, <1>t, <1>m DEF ModelsInv, SessionTyped
  <2>5. \A d \in ChatIds : WaitsForIts(d)'
    <3> TAKE d \in ChatIds
    <3>1. WaitsForIts(d)
      BY DEF ModelsInv
    <3> QED BY <3>1, <2>1, <2>3 DEF WaitsForIts, AsksForShown
  <2>6. OverridesAreOfTheChat' /\ PreferencesFit'
    BY <2>1, <2>2, <1>m, <1>t DEF ModelsInv, OverridesAreOfTheChat, PreferencesFit, ShownIsRun
  <2>7. TurnsRunWhatIsShown'
    BY <2>1 DEF ModelsInv, ShownIsRun, TurnsRunWhatIsShown
  <2> QED BY <2>4, <2>5, <2>6, <2>7 DEF ModelsInv, ShownIsRun
<1>3. ASSUME NEW c \in ChatIds, ShowChat(c) PROVE ModelsInv'
  BY <1>3, <1>t, <1>m, PreferencesKeep DEF ShowChat
<1>4. ASSUME NEW c \in ChatIds, PlanApproved(c) PROVE ModelsInv'
  <2> DEFINE p == [prefs.composer EXCEPT !.plan = FALSE]
  <2>1. p \in Preferences /\ p = Normalized(p)
    BY <1>t, NormalizedFits
  <2>2. prefs' = [prefs EXCEPT !.composer = p] /\ UNCHANGED <<composer, records, forks, discovered, lastTurn>>
    BY <1>4, <1>t DEF PlanApproved
  <2> HIDE DEF p
  <2>3. /\ prefs' \in [default: Providers \union {"last_used"}, composer: Preferences, defaults: [Providers -> Preferences]]
        /\ prefs'.defaults = prefs.defaults /\ prefs'.composer = p
    BY <1>t, <2>1, <2>2
  <2> QED BY <2>1, <2>2, <2>3, <1>t, PreferencesKeep
<1>5. ASSUME NEW c \in ChatIds, SubmitForked(c) PROVE ModelsInv'
  <2> DEFINE p == Resolved
             fork == [Request(p) EXCEPT !.model = resolveRequestedSessionModel(Request(p))]
  <2>1. p \in Preferences
    BY <1>5, ResolvedFits DEF SubmitForked
  <2> HIDE DEF p
  <2>2. fork \in Requests /\ AsksForShown(fork)
    BY <2>1, RequestFits
  <2>3. /\ records' = [records EXCEPT ![c].exists = TRUE] /\ composer' = Mounted(c)
        /\ forks' = [forks EXCEPT ![c] = fork] /\ ~records[c].exists
        /\ UNCHANGED <<prefs, discovered, lastTurn>>
    BY <1>5 DEF SubmitForked, p
  <2> HIDE DEF fork
  <2>4. /\ records' \in [ChatIds -> ChatRecords]
        /\ records'[c].exists /\ \A d \in ChatIds \ {c} : records'[d] = records[d]
        /\ records'[c].queued = records[c].queued /\ records'[c].provider = records[c].provider
        /\ records'[c].busy = records[c].busy
    BY ZenonT(30), <2>3, <1>t DEF ChatRecords
  <2>5. /\ forks' \in [ChatIds -> Requests \union {NoModel}]
        /\ forks'[c] = fork /\ \A d \in ChatIds \ {c} : forks'[d] = forks[d]
    BY <2>2, <2>3, <1>t
  <2>6. SessionTyped'
    BY <2>3, <2>4, <2>5, <1>m DEF ModelsInv, SessionTyped
  <2>7. \A d \in ChatIds : WaitsForIts(d)'
    <3> TAKE d \in ChatIds
    <3>0. WaitsForIts(d)
      BY DEF ModelsInv
    <3>1. CASE d # c
      BY <3>0, <3>1, <2>4, <2>5 DEF WaitsForIts, AsksForShown
    <3>2. CASE d = c
      BY <3>0, <3>2, <2>3, <2>4, <2>2, <2>5 DEF WaitsForIts, NoRecord, AsksForShown
    <3> QED BY <3>1, <3>2
  <2>8. OverridesAreOfTheChat' /\ PreferencesFit'
    BY <2>3, <2>4, <1>m DEF ModelsInv, OverridesAreOfTheChat, PreferencesFit, ShownIsRun
  <2>9. TurnsRunWhatIsShown'
    BY <2>3 DEF ModelsInv, ShownIsRun, TurnsRunWhatIsShown
  <2> QED BY <2>6, <2>7, <2>8, <2>9 DEF ModelsInv, ShownIsRun
<1>6. ASSUME NEW c \in ChatIds, NEW ok \in BOOLEAN, ForkSends(c, ok) PROVE ModelsInv'
  <2>1. /\ forks[c] \in Requests /\ AsksForShown(forks[c]) /\ records[c].provider = NoModel /\ records[c].exists
    BY <1>6, <1>t DEF ForkSends, ModelsInv, WaitsForIts
  <2>2. /\ records' = Send(records, c, forks[c], ok).records /\ lastTurn' = Send(records, c, forks[c], ok).lastTurn
        /\ forks' = [forks EXCEPT ![c] = NoModel] /\ UNCHANGED <<prefs, composer, discovered>>
    BY <1>6 DEF ForkSends, SentAs
  <2>3. [records EXCEPT ![c].queued = records[c].queued] = records /\ records[c].queued \in Requests \union {NoModel}
    BY <1>t DEF ChatRecords
  <2> QED BY <2>1, <2>2, <2>3, SendKeeps
<1>7. ASSUME NEW c \in ChatIds, NEW token \in BOOLEAN, TurnOver(c, token) PROVE ModelsInv'
  <2>1. /\ records' = [records EXCEPT ![c].busy = FALSE, ![c].token = @ \/ token] /\ records[c].busy
        /\ UNCHANGED <<prefs, composer, forks, discovered, lastTurn>>
    BY <1>7 DEF TurnOver
  <2>2. /\ records' \in [ChatIds -> ChatRecords]
        /\ \A d \in ChatIds \ {c} : records'[d] = records[d]
        /\ records'[c].queued = records[c].queued /\ records'[c].provider = records[c].provider
        /\ records'[c].exists = records[c].exists /\ ~records'[c].busy
    <3>1. records[c].token \in BOOLEAN /\ records[c] \in ChatRecords
      BY <1>t DEF ChatRecords
    <3> DEFINE known == records[c].token \/ token
               record == [records[c] EXCEPT !.busy = FALSE, !.token = known]
    <3>2. records' = [records EXCEPT ![c] = record]
      BY <2>1, <1>t, <3>1 DEF ChatRecords
    <3>3. known \in BOOLEAN
      OBVIOUS
    <3> HIDE DEF known
    <3>4. /\ record \in ChatRecords /\ record.queued = records[c].queued /\ record.provider = records[c].provider
          /\ record.exists = records[c].exists /\ record.busy = FALSE
      BY <3>1, <3>3 DEF ChatRecords
    <3> HIDE DEF record
    <3> QED BY <3>2, <3>4, <1>t
  <2>3. records[c].exists /\ WaitsForIts(c)
    BY <2>1 DEF ModelsInv, WaitsForIts, NoRecord
  <2>4. records'[c].queued # NoModel =>
              AsksForShown(records'[c].queued) /\ records'[c].queued.provider = records[c].provider
    BY <2>2, <2>3 DEF WaitsForIts
  <2>5. records'[c].exists /\ ~records'[c].busy
    BY <2>2, <2>3
  <2> QED BY <2>1, <2>2, <2>3, <2>4, <2>5, RecordsKeep
<1>8. ASSUME NEW c \in ChatIds, NEW ok \in BOOLEAN, QueueDrained(c, ok) PROVE ModelsInv'
  <2> DEFINE q == records[c].queued
             left == IF ok THEN NoModel ELSE q
  <2>1. /\ q # NoModel /\ q \in Requests /\ AsksForShown(q) /\ q.provider = records[c].provider
        /\ records[c].exists
    BY <1>8, <1>t DEF QueueDrained, ModelsInv, WaitsForIts, ChatRecords, NoRecord
  <2>2. records[c].provider # NoModel
    BY <2>1, <1>n DEF Requests
  <2>3. forks[c] = NoModel /\ [forks EXCEPT ![c] = NoModel] = forks
    BY <2>2, <1>t DEF ModelsInv, WaitsForIts
  <2>4. [records EXCEPT ![c].queued = IF ok THEN NoModel ELSE @] = [records EXCEPT ![c].queued = left]
    BY <1>t DEF ChatRecords
  <2>5. /\ records' = Send([records EXCEPT ![c].queued = left], c, q, ok).records
        /\ lastTurn' = Send([records EXCEPT ![c].queued = left], c, q, ok).lastTurn
        /\ UNCHANGED <<prefs, composer, forks, discovered>>
    BY <1>8, <2>4 DEF QueueDrained
  <2>6. left \in {records[c].queued, NoModel} /\ left \in Requests \union {NoModel}
    BY <2>1
  <2> HIDE DEF left, q
  <2>7. records[c].provider \in {NoModel, q.provider} /\ forks' = [forks EXCEPT ![c] = NoModel]
    BY <2>1, <2>3, <2>5
  <2> QED BY <2>1, <2>5, <2>6, <2>7, SendKeeps
<1>9. ASSUME NEW provider \in Providers, ChooseProvider(provider) PROVE ModelsInv'
  <2> DEFINE p == prefs.defaults[provider]
  <2>1. p \in Preferences /\ p = Normalized(p)
    BY <1>t
  <2>2. prefs' = [prefs EXCEPT !.composer = p] /\ UNCHANGED <<composer, records, forks, discovered, lastTurn>>
    BY <1>9 DEF ChooseProvider
  <2> HIDE DEF p
  <2>3. /\ prefs' \in [default: Providers \union {"last_used"}, composer: Preferences, defaults: [Providers -> Preferences]]
        /\ prefs'.defaults = prefs.defaults /\ prefs'.composer = p
    BY <1>t, <2>1, <2>2
  <2> QED BY <2>1, <2>2, <2>3, <1>t, PreferencesKeep
<1>10. ASSUME NEW provider \in Providers, NEW model \in Catalog(provider), ChooseModel(model) PROVE ModelsInv'
  <2>1. model \in ModelIds
    <3>1. \A part \in IdParts : <<part>> \in ModelIds
      BY DEF ModelIds
    <3>2. ModelsOf(provider) \subseteq {<<part>> : part \in IdParts}
      BY DEF ModelsOf, IdParts
    <3>3. \A id \in discovered : id \in ModelIds
      BY <1>t
    <3>4. model \in ModelsOf(provider) \union discovered
      BY DEF Catalog
    <3> QED BY <3>1, <3>2, <3>3, <3>4
  <2> DEFINE p == Resolved
  <2>2. Composing /\ p \in Preferences /\ (Locked => p.provider = Shown.provider)
    BY <1>10, ResolvedFits DEF ChooseModel
  <2>3. Choose(withNormalizedContextWindow(p, model), Normalized([p EXCEPT !.model = model]))
    BY <1>10 DEF ChooseModel
  <2> HIDE DEF p
  <2>4. [p EXCEPT !.model = model] \in Preferences
    BY <2>1, <2>2 DEF Preferences
  <2> QED BY <2>1, <2>2, <2>3, <2>4, NormalizedFits, WindowFits, ChoiceKeeps
<1>11. ASSUME NEW window \in {"200k", "1m"}, ChooseWindow(window) PROVE ModelsInv'
  <2> DEFINE r == Resolved
             p == [r EXCEPT !.window = window]
  <2>1. Composing /\ r \in Preferences /\ (Locked => r.provider = Shown.provider)
    BY <1>11, ResolvedFits DEF ChooseWindow
  <2>2. Choose(withNormalizedContextWindow(p, p.model), Normalized(p))
    BY <1>11 DEF ChooseWindow
  <2> HIDE DEF r
  <2>3. p \in Preferences /\ p.provider = r.provider /\ p.model \in ModelIds
    BY <2>1 DEF Preferences
  <2> HIDE DEF p
  <2> QED BY <2>1, <2>2, <2>3, NormalizedFits, WindowFits, ChoiceKeeps
<1>12. ASSUME NEW effort \in {"high", "max"}, ChooseEffort(effort) PROVE ModelsInv'
  <2> DEFINE r == Resolved
             p == [r EXCEPT !.effort = effort]
  <2>1. Composing /\ r \in Preferences /\ (Locked => r.provider = Shown.provider)
    BY <1>12, ResolvedFits DEF ChooseEffort
  <2>2. Choose(p, Normalized(p))
    BY <1>12 DEF ChooseEffort
  <2> HIDE DEF r
  <2>3. p \in Preferences /\ p.provider = r.provider
    BY <2>1 DEF Preferences
  <2> HIDE DEF p
  <2> QED BY <2>1, <2>2, <2>3, NormalizedFits, ChoiceKeeps
<1>13. ASSUME NEW plan \in BOOLEAN, ChoosePlan(plan) PROVE ModelsInv'
  <2> DEFINE unseen == [LockedBase EXCEPT !.model =
                IF prefs.composer.provider = Shown.provider THEN prefs.composer.model
                ELSE prefs.defaults[Shown.provider].model]
             base == IF composer.overrides # NoModel THEN composer.overrides ELSE unseen
             locked == [base EXCEPT !.plan = plan]
             unlocked == [prefs.composer EXCEPT !.plan = plan]
  <2>1. Composing /\ Choose(locked, unlocked)
    BY <1>13 DEF ChoosePlan
  <2>2. unlocked \in Preferences /\ unlocked = Normalized(unlocked)
    BY <1>t, NormalizedFits
  <2>3. ASSUME Locked PROVE base \in Preferences /\ base.provider = Shown.provider
    <3>1. LockedBase \in Preferences /\ LockedBase.provider = Shown.provider /\ Shown.provider \in Providers
          /\ composer.chat \in ChatIds
      BY <2>1, <2>3, ResolvedFits DEF Locked, ChatRecords
    <3>2. prefs.composer.model \in ModelIds /\ prefs.defaults[Shown.provider].model \in ModelIds
      BY <1>t, <3>1 DEF Preferences
    <3>3. unseen \in Preferences /\ unseen.provider = Shown.provider
      BY <3>1, <3>2 DEF Preferences
    <3> HIDE DEF unseen
    <3> QED BY <3>1, <3>3, <1>t DEF Shown
  <2> HIDE DEF unlocked, base
  <2>4. Locked => locked \in Preferences /\ locked.provider = Shown.provider
    BY <2>3, NormalizedFits
  <2> HIDE DEF locked
  <2> QED BY <2>1, <2>2, <2>4, ChoiceKeeps
<1>14. CASE SubmitQueued
  <2> DEFINE p == Resolved
             c == composer.chat
  <2>1. /\ Composing /\ p \in Preferences /\ Shown.busy /\ c \in ChatIds
        /\ (Locked => p.provider = Shown.provider)
    BY <1>14, ResolvedFits DEF SubmitQueued
  <2>2. /\ records' = [records EXCEPT ![c].queued = Request(p)]
        /\ UNCHANGED <<prefs, composer, forks, discovered, lastTurn>>
    BY <1>14 DEF SubmitQueued
  <2>3. records[c].busy /\ records[c].provider # NoModel /\ p.provider = records[c].provider /\ records[c].exists
    BY <2>1 DEF Shown, Locked, ModelsInv, WaitsForIts, NoRecord
  <2> HIDE DEF p, c
  <2>4. Request(p) \in Requests /\ AsksForShown(Request(p)) /\ Request(p).provider = records[c].provider
    BY <2>1, <2>3, RequestFits
  <2>5. /\ records' \in [ChatIds -> ChatRecords]
        /\ \A d \in ChatIds \ {c} : records'[d] = records[d]
        /\ records'[c].queued = Request(p) /\ records'[c].provider = records[c].provider
        /\ records'[c].exists = records[c].exists
    BY <2>1, <2>2, <2>4, <1>t DEF ChatRecords
  <2> QED BY <2>1, <2>2, <2>3, <2>4, <2>5, RecordsKeep
<1>15. ASSUME NEW ok \in BOOLEAN, SubmitSent(ok) PROVE ModelsInv'
  <2> DEFINE p == Resolved
             c == composer.chat
  <2>1. /\ Composing /\ p \in Preferences /\ c \in ChatIds /\ forks[c] = NoModel
        /\ (Locked => p.provider = Shown.provider)
    BY <1>15, ResolvedFits DEF SubmitSent, Composing
  <2>2. /\ records' = Send(records, c, Request(p), ok).records /\ lastTurn' = Send(records, c, Request(p), ok).lastTurn
        /\ UNCHANGED <<prefs, composer, forks, discovered>>
    BY <1>15 DEF SubmitSent, SentAs
  <2>3. records[c].provider \in {NoModel, p.provider}
    BY <2>1 DEF Shown, Locked
  <2>e. records[c].exists
    BY <2>1, <1>t DEF Composing
  <2> HIDE DEF p, c
  <2>4. Request(p) \in Requests /\ AsksForShown(Request(p)) /\ Request(p).provider = p.provider
    BY <2>1, RequestFits
  <2>5. [records EXCEPT ![c].queued = records[c].queued] = records /\ records[c].queued \in Requests \union {NoModel}
    BY <1>t, <2>1 DEF ChatRecords
  <2>6. forks' = [forks EXCEPT ![c] = NoModel]
    BY <2>1, <2>2, <1>t
  <2> QED BY <2>1, <2>2, <2>3, <2>e, <2>4, <2>5, <2>6, SendKeeps
<1>16. CASE CapabilitiesProbed
  BY <1>16, QuietKeeps DEF CapabilitiesProbed, ModelIds, IdParts
<1>17. CASE UNCHANGED sessionVars
  BY <1>17, <1>t, QuietKeeps DEF sessionVars
<1> QED
  BY <1>1, <1>2, <1>3, <1>4, <1>5, <1>6, <1>7, <1>8, <1>9, <1>10, <1>11, <1>12, <1>13, <1>14,
     <1>15, <1>16, <1>17 DEF SessionStep

\* The preferences always fit their models, and a turn runs the provider, the plan mode
\* and, where a plain id was asked for, the model and window that its user was shown when
\* they submitted it (chatPreferencesStore.ts, useChatCommands.ts and RunnerProxy's send
\* and queue), through queues, forks, switches of chat and discoveries.
THEOREM ComposerShowsWhatRuns == SessionModelSpec => []ShownIsRun
<1>1. ModelsInv => ShownIsRun
  BY DEF ModelsInv
<1> QED
  BY <1>1, ModelsInit, ModelsStep, PTL DEF SessionModelSpec

\* The models there are: what a chat's record names is in a catalog, or is one of its models
\* with a window, and no more is submitted than the bound.
ModelsKnown ==
    /\ discovered \subseteq {<<"sonnet", "1m">>} /\ submits \in 0..MaxSubmits
    /\ \A c \in ChatIds : records[c].model \in Models \union {NoModel}

\* What is appended to one piece makes two.
LEMMA TwoPieces == ASSUME NEW S, NEW a \in S, NEW b \in S PROVE Append(<<a>>, b) = <<a, b>>
<1> DEFINE one == Append(<<a>>, b)  two == <<a, b>>
<1>1. DOMAIN one = 1..2 /\ DOMAIN two = 1..2
  OBVIOUS
<1>2. \A i \in 1..2 : one[i] = two[i]
  OBVIOUS
<1>3. one = [i \in 1..2 |-> one[i]] /\ two = [i \in 1..2 |-> two[i]]
  OBVIOUS
<1> QED BY <1>1, <1>2, <1>3

\* What a turn is run with is known.
LEMMA HubModelKnown ==
    ASSUME discovered \subseteq {<<"sonnet", "1m">>}, NEW provider \in Providers, NEW command \in Requests
    PROVE  HubModel(provider, command) \in Models
<1>1. PICK model : /\ model \in ModelsOf(provider) \union {<<"sonnet", "1m">>}
                   /\ provider = "codex" => model \in ModelsOf("codex")
                   /\ HubModel(provider, command) =
                         IF provider = "claude" THEN ApiModelId(model, NormalizedWindow(model, command.window)) ELSE model
  BY DEF HubModel, Catalog, DefaultModel, ModelsOf, Providers
<1>2. CASE provider = "codex"
  BY <1>1, <1>2 DEF Models
<1>3. CASE provider = "claude"
  <2>1. model \in Windowed \union {<<"haiku">>, <<"sonnet", "1m">>}
    BY <1>1, <1>3 DEF ModelsOf, Windowed
  <2>2. CASE model \in Windowed
    <3>1. Append(<<"opus">>, "1m") = <<"opus", "1m">> /\ Append(<<"sonnet">>, "1m") = <<"sonnet", "1m">>
      <4>1. "opus" \in {"opus", "sonnet", "1m"} /\ "sonnet" \in {"opus", "sonnet", "1m"} /\ "1m" \in {"opus", "sonnet", "1m"}
        OBVIOUS
      <4> QED BY <4>1, TwoPieces
    <3>2. model \in ModelsOf("claude") /\ Append(model, "1m") \in {<<"sonnet", "1m">>, <<"opus", "1m">>}
      BY <2>2, <3>1 DEF ModelsOf, Windowed
    <3> QED BY <1>1, <1>3, <3>2 DEF Models, ApiModelId
  <2>3. CASE model \notin Windowed
    BY <1>1, <1>3, <2>3, <2>1 DEF ApiModelId, NormalizedWindow, Models, ModelsOf
  <2> QED BY <2>2, <2>3
<1> QED BY <1>2, <1>3 DEF Providers

\* None is known at first.
LEMMA ModelsKnownFirst == SessionInit => ModelsKnown
  BY SessionModelConstants DEF SessionInit, ModelsKnown, NoRecord

\* A record is given a model when something is sent, and the probe finds the one there is.
LEMMA ModelsStayKnown ==
    ASSUME ModelsInv, ModelsKnown, [SessionStep]_sessionVars
    PROVE  ModelsKnown'
<1>1. ASSUME NEW c \in ChatIds, NEW rs \in [ChatIds -> ChatRecords], NEW command \in Requests, NEW ok \in BOOLEAN,
             \A d \in ChatIds : rs[d].model \in Models \union {NoModel}
      PROVE  \A d \in ChatIds : Send(rs, c, command, ok).records[d].model \in Models \union {NoModel}
  <2>1. (IF rs[c].provider # NoModel THEN rs[c].provider ELSE command.provider) \in Providers
    BY DEF ChatRecords, Requests
  <2>2. PICK provider \in Providers :
           provider = IF rs[c].provider # NoModel THEN rs[c].provider ELSE command.provider
    BY <2>1
  <2>3. HubModel(provider, command) \in Models
    BY HubModelKnown DEF ModelsKnown
  <2>4. Send(rs, c, command, ok).records =
           [rs EXCEPT ![c] = [rs[c] EXCEPT !.provider = provider, !.model = HubModel(provider, command), !.busy = ok]]
    BY <2>2 DEF Send
  <2>5. [rs[c] EXCEPT !.provider = provider, !.model = HubModel(provider, command), !.busy = ok].model
           = HubModel(provider, command)
    BY DEF ChatRecords
  <2> QED BY <1>1, <2>3, <2>4, <2>5
<1>2. ASSUME \A c \in ChatIds : records'[c].model = records[c].model, UNCHANGED <<discovered, submits>>
      PROVE  ModelsKnown'
  BY <1>2 DEF ModelsKnown
<1>3. records \in [ChatIds -> ChatRecords] /\ \A c \in ChatIds : DOMAIN records[c] = {"exists", "provider", "model", "token", "busy", "queued"}
  BY DEF ModelsInv, SessionTyped, ChatRecords
<1>4. ASSUME Composing
      PROVE  Request(Resolved) \in Requests /\ composer.chat \in ChatIds
  BY <1>4, ResolvedFits DEF Request, Requests, Preferences
<1>5. MaxSubmits \in Nat
  BY SessionModelConstants
<1>6. CASE UNCHANGED <<records, discovered, submits>>
  BY <1>2, <1>6
<1>7. ASSUME NEW c \in ChatIds, NewChat(c) PROVE ModelsKnown'
  BY <1>2, <1>3, <1>7 DEF NewChat
<1>8. ASSUME NEW c \in ChatIds, SubmitForked(c) PROVE ModelsKnown'
  BY <1>3, <1>5, <1>8 DEF SubmitForked, ModelsKnown
<1>9. ASSUME NEW c \in ChatIds, NEW ok \in BOOLEAN, ForkSends(c, ok) PROVE ModelsKnown'
  BY <1>9, <1>1, <1>3 DEF ForkSends, ModelsInv, SessionTyped, SentAs, ModelsKnown
<1>10. ASSUME NEW c \in ChatIds, NEW token \in BOOLEAN, TurnOver(c, token) PROVE ModelsKnown'
  BY <1>2, <1>3, <1>10 DEF TurnOver
<1>11. ASSUME NEW c \in ChatIds, NEW ok \in BOOLEAN, QueueDrained(c, ok) PROVE ModelsKnown'
  <2> DEFINE rs == [records EXCEPT ![c].queued = IF ok THEN NoModel ELSE @]
  <2>1. records[c].queued \in Requests
    BY <1>3, <1>11 DEF QueueDrained, ChatRecords
  <2>2. rs \in [ChatIds -> ChatRecords] /\ \A d \in ChatIds : rs[d].model = records[d].model
    BY <1>3 DEF ChatRecords
  <2>3. records' = Send(rs, c, records[c].queued, ok).records /\ UNCHANGED <<discovered, submits>>
    BY <1>11 DEF QueueDrained
  <2> HIDE DEF rs
  <2> QED BY <1>1, <2>1, <2>2, <2>3 DEF ModelsKnown
<1>12. CASE SubmitQueued
  BY <1>3, <1>5, <1>12 DEF SubmitQueued, ModelsKnown
<1>13. ASSUME NEW ok \in BOOLEAN, SubmitSent(ok) PROVE ModelsKnown'
  BY <1>13, <1>1, <1>3, <1>4, <1>5 DEF SubmitSent, SentAs, ModelsKnown
<1>14. CASE CapabilitiesProbed
  BY <1>14 DEF CapabilitiesProbed, ModelsKnown
<1>15. ASSUME NEW c \in ChatIds, ShowChat(c) \/ PlanApproved(c) PROVE UNCHANGED <<records, discovered, submits>>
  BY <1>15 DEF ShowChat, PlanApproved
<1>16. ASSUME NEW x, \/ setDefaultProvider(x) \/ ChooseProvider(x) \/ ChooseModel(x) \/ ChooseWindow(x)
                     \/ ChooseEffort(x) \/ ChoosePlan(x)
       PROVE  UNCHANGED <<records, discovered, submits>>
  BY <1>16 DEF setDefaultProvider, ChooseProvider, ChooseModel, ChooseWindow, ChooseEffort, ChoosePlan, Choose
<1> QED
  BY <1>6, <1>7, <1>8, <1>9, <1>10, <1>11, <1>12, <1>13, <1>14, <1>15, <1>16 DEF SessionStep, sessionVars

\* Records are of chats there are, requests of models there are (chatPreferencesStore.ts,
\* useChatCommands.ts), and only a chat that was made is recorded as anything.
THEOREM ModelsTypeCorrect == SessionModelSpec => []SessionModelTypeOK
<1>1. ModelsInv /\ ModelsKnown => SessionModelTypeOK
  BY DEF ModelsInv, SessionTyped, ChatRecords, ModelsKnown, WaitsForIts, Models, SessionModelTypeOK
<1> QED BY <1>1, ModelsInit, ModelsStep, ModelsKnownFirst, ModelsStayKnown, PTL DEF SessionModelSpec

-----------------------------------------------------------------------------
(* The cards of questions and plans *)

\* What holds of 0 and goes on from each number to the next holds of all.
LEMMA NumberByNumber ==
    ASSUME NEW S, 0 \in S, \A n \in Nat : n \in S => n + 1 \in S
    PROVE  \A n \in Nat : n \in S
<1> SUFFICES ASSUME NEW k \in Nat, k \notin S PROVE FALSE
  OBVIOUS
<1> DEFINE U == {0 .. n : n \in {m \in Nat : m \notin S}}
<1>1. \A n \in Nat : 0 .. n \in FiniteSubsetsOf(Nat)
  BY FS_Interval DEF FiniteSubsetsOf
<1>2. U \subseteq FiniteSubsetsOf(Nat) /\ U # {}
  BY <1>1
<1>3. PICK T \in U : \A V \in U : <<V, T>> \notin StrictSubsetOrdering(Nat)
  <2>1. IsWellFoundedOn(StrictSubsetOrdering(Nat), FiniteSubsetsOf(Nat))
    BY FS_StrictSubsetOrderingWellFounded
  <2> HIDE DEF U
  <2> QED BY <1>2, <2>1, WFMin
<1>4. PICK x \in Nat : x \notin S /\ T = 0 .. x
  OBVIOUS
<1>5. x - 1 \in Nat /\ x - 1 \notin S
  BY <1>4
<1>6. <<0 .. x - 1, 0 .. x>> \in StrictSubsetOrdering(Nat)
  BY <1>5 DEF StrictSubsetOrdering
<1> QED BY <1>3, <1>4, <1>5, <1>6

\* What a piece does to those that are kept.
Kept(sofar, piece, label) == IF <<piece>> = label THEN sofar ELSE Append(sofar, piece)

\* f is what Keeping is defined as.
KeepsOf(f, text, label) == f = [n \in 0..Len(text) |-> IF n = 0 THEN <<>> ELSE Kept(f[n - 1], text[n], label)]

\* The equation that defines what is kept has a solution.
LEMMA KeepingExists ==
    ASSUME NEW text, NEW label, Len(text) \in Nat
    PROVE  \E f : KeepsOf(f, text, label)
<1> DEFINE Upto(f, m) == f = [n \in 0..m |-> IF n = 0 THEN <<>> ELSE Kept(f[n - 1], text[n], label)]
           S == {m \in Nat : \E f : Upto(f, m)}
<1>1. 0 \in S
  <2>1. Upto([n \in 0..0 |-> <<>>], 0)
    OBVIOUS
  <2> QED BY <2>1
<1>2. ASSUME NEW m \in Nat, m \in S PROVE m + 1 \in S
  <2>1. PICK f : Upto(f, m)
    BY <1>2
  <2> DEFINE g == [n \in 0..m + 1 |-> IF n = m + 1 THEN Kept(f[m], text[n], label) ELSE f[n]]
  <2>2. \A n \in 0..m : f[n] = IF n = 0 THEN <<>> ELSE Kept(f[n - 1], text[n], label)
    BY <2>1
  <2>3. \A n \in 0..m + 1 : g[n] = IF n = 0 THEN <<>> ELSE Kept(g[n - 1], text[n], label)
    <3> SUFFICES ASSUME NEW n \in 0..m + 1 PROVE g[n] = IF n = 0 THEN <<>> ELSE Kept(g[n - 1], text[n], label)
      OBVIOUS
    <3>1. CASE n = m + 1
      BY <3>1
    <3>2. CASE n # m + 1
      BY <3>2, <2>2
    <3> QED BY <3>1, <3>2
  <2>4. Upto(g, m + 1)
    <3>1. g = [n \in 0..m + 1 |-> g[n]]
      OBVIOUS
    <3> HIDE DEF g
    <3> QED BY <2>3, <3>1
  <2>5. \E h : Upto(h, m + 1)
    <3> HIDE DEF g, Upto
    <3> QED BY <2>4
  <2> QED BY <2>5
<1>3. Len(text) \in S
  <2> HIDE DEF S
  <2> QED BY <1>1, <1>2, NumberByNumber
<1>4. \E f : Upto(f, Len(text))
  <2> HIDE DEF Upto
  <2> QED BY <1>3
<1> QED BY <1>4, Zenon DEF KeepsOf

\* Taking a label out of a text leaves pieces of the text.
LEMMA WithoutLabel ==
    ASSUME NEW S, NEW text \in Seq(S), NEW label
    PROVE  /\ Without(text, label) \in Seq(S)
           /\ \A i \in 1..Len(Without(text, label)) : \E j \in 1..Len(text) : Without(text, label)[i] = text[j]
<1> DEFINE f == Keeping(text, label)
           P == {text[j] : j \in 1..Len(text)}
           T == {n \in Nat : n <= Len(text) => f[n] \in Seq(P)}
<1>1. f = CHOOSE g : KeepsOf(g, text, label)
  BY Zenon DEF Keeping, Kept, KeepsOf
<1>2. \E g : KeepsOf(g, text, label)
  <2>1. Len(text) \in Nat
    OBVIOUS
  <2> QED BY <2>1, KeepingExists
<1>3. KeepsOf(f, text, label)
  <2> HIDE DEF f
  <2> QED BY <1>1, <1>2
<1>4. \A n \in 0..Len(text) : f[n] = IF n = 0 THEN <<>> ELSE Kept(f[n - 1], text[n], label)
  <2> HIDE DEF f
  <2> QED BY <1>3 DEF KeepsOf
<1> HIDE DEF f
<1>5. 0 \in T
  <2>1. f[0] = <<>>
    BY <1>4
  <2>2. <<>> \in Seq(P)
    BY EmptySeq
  <2> QED BY <2>1, <2>2
<1>6. ASSUME NEW n \in Nat, n \in T PROVE n + 1 \in T
  <2> SUFFICES ASSUME n + 1 <= Len(text) PROVE f[n + 1] \in Seq(P)
    OBVIOUS
  <2>1. f[n] \in Seq(P) /\ text[n + 1] \in P /\ f[n + 1] = Kept(f[n], text[n + 1], label)
    BY <1>4, <1>6
  <2> HIDE DEF P
  <2> QED BY <2>1 DEF Kept
<1>7. Len(text) \in T
  <2> HIDE DEF T
  <2> QED BY <1>5, <1>6, NumberByNumber
<1>8. Without(text, label) \in Seq(P) /\ P \subseteq S
  BY <1>7 DEF Without, f
<1> HIDE DEF P
<1>9. \A i \in 1..Len(Without(text, label)) : Without(text, label)[i] \in P
  BY <1>8
<1>10. Without(text, label) \in Seq(S)
  BY <1>8
<1> QED BY <1>9, <1>10 DEF P

TypedText == Seq(Pieces)
ReplyOf(verdicts) == [verdict: verdicts, answers: [Questions -> Seq(TypedText)]]
Answer == ReplyOf(Verdicts \cup {"answered"})
AnyReply == ReplyOf(Verdicts \cup {"none", "answered", "discarded", "unread"})
Told == ReplyOf(Verdicts \cup {"none", "answered", "discarded"})
Result == ReplyOf(Verdicts \cup {"answered", "discarded", "unread"})
RequestRecord == [asks: {"questions", "plan"}, provider: {"claude", "codex"}, pending: BOOLEAN]
FormRecord ==
    [row: BOOLEAN, seen: Nat, index: Questions, answers: [Questions -> TypedText],
     custom: [Questions -> TypedText], sent: AnyReply, submitted: BOOLEAN]

\* What the variables are.
QuestionTyped ==
    /\ request \in RequestRecord /\ told \in Told /\ results \in Seq(Result)
    /\ forms \in [FormTabs -> FormRecord] /\ advances \in [FormTabs -> SUBSET Questions]
    /\ responses \in [FormTabs -> Seq(Answer)] /\ clicks \in 0..MaxClicks

\* The first result tells what the agent was told, or that it was told nothing.
ResultsInv ==
    /\ Len(results) <= 2
    /\ request.pending <=> results = <<>>
    /\ request.pending => told = NoReply
    /\ ~request.pending => \/ results[1] = told
                           \/ results[1].verdict = "discarded" /\ told = NoReply

\* A single choice is one of the options, and given up for what is typed; of several
\* that are of one piece each is an option.
Ticked(form, q) ==
    /\ q \notin MultiSelect => \/ form.answers[q] = NoText
                               \/ form.answers[q] \in Options[q] /\ form.custom[q] = NoText
    /\ q \in MultiSelect /\ (\A label \in Options[q] : Len(label) = 1) =>
          \A i \in 1..Len(form.answers[q]) : <<form.answers[q][i]>> \in Options[q]

\* A card that is done without a result has sent its answers.
FormsInv ==
    \A tab \in FormTabs :
        /\ forms[tab].seen <= Len(results)
        /\ forms[tab].submitted /\ forms[tab].seen = 0 => request.asks = "questions" /\ forms[tab].sent # NoReply
        /\ \A q \in Questions : Ticked(forms[tab], q)

\* The inductive invariant.
QuestionInv == QuestionTyped /\ ResultsInv /\ FormsInv

\* FormTexts are sequences of pieces.
LEMMA TextsTyped ==
    /\ Typed \subseteq TypedText /\ NoText \in TypedText
    /\ \A q \in Questions : Options[q] \subseteq TypedText /\ NoText \notin Options[q]
    /\ 1 \in Questions /\ Questions \subseteq Nat
BY QuestionConstants DEF TypedText, FormTexts

\* The replies there are.
LEMMA RepliesTyped ==
    /\ NoReply \in Told /\ NoReply.verdict = "none" /\ NoAnswers \in [Questions -> Seq(TypedText)]
    /\ AskReply("discarded", NoAnswers) \in Told \cap Result /\ AskReply("unread", NoAnswers) \in Result
    /\ \A verdict \in Verdicts : AskReply(verdict, NoAnswers) \in Answer
    /\ Answer \subseteq Told \cap Result /\ Told \cup Result \subseteq AnyReply
    /\ \A answer \in Answer : answer # NoReply
    /\ AskReply("discarded", NoAnswers).verdict = "discarded"
<1>1. NoAnswers \in [Questions -> Seq(TypedText)]
  BY EmptySeq DEF NoAnswers
<1>2. NoReply.verdict = "none" /\ \A answer \in Answer : answer.verdict # "none"
  BY DEF NoReply, AskReply, Answer, ReplyOf, Verdicts
<1> HIDE DEF NoAnswers
<1>3. /\ NoReply \in Told
      /\ AskReply("discarded", NoAnswers) \in Told \cap Result /\ AskReply("unread", NoAnswers) \in Result
      /\ \A verdict \in Verdicts : AskReply(verdict, NoAnswers) \in Answer
      /\ AskReply("discarded", NoAnswers).verdict = "discarded"
  BY <1>1 DEF NoReply, AskReply, Answer, Told, Result, ReplyOf
<1>4. Answer \subseteq Told \cap Result /\ Told \cup Result \subseteq AnyReply
  BY DEF Answer, Told, Result, AnyReply, ReplyOf
<1> QED BY <1>1, <1>2, <1>3, <1>4

\* What is sent of a form is texts.
LEMMA EffectiveTyped ==
    ASSUME NEW form \in FormRecord, NEW q \in Questions
    PROVE  EffectiveAnswers(form, q) \in Seq(TypedText)
<1>1. form.answers[q] \in TypedText /\ Trimmed(form, q) \in TypedText
  BY TextsTyped DEF FormRecord, Trimmed
<1>2. \A text \in TypedText : Split(text) \in Seq(TypedText) /\ <<text>> \in Seq(TypedText)
  <2> SUFFICES ASSUME NEW text \in TypedText PROVE Split(text) \in Seq(TypedText) /\ <<text>> \in Seq(TypedText)
    OBVIOUS
  <2>1. \A i \in 1..Len(text) : <<text[i]>> \in TypedText
    BY DEF TypedText
  <2>2. Split(text) = [i \in 1..Len(text) |-> <<text[i]>>]
    BY DEF Split, TypedText
  <2>3. Len(text) \in Nat
    BY DEF TypedText
  <2> HIDE DEF TypedText
  <2> QED BY <2>1, <2>2, <2>3
<1>3. form.answers[q] \o Trimmed(form, q) \in TypedText
  BY <1>1 DEF TypedText
<1>4. <<>> \in Seq(TypedText)
  BY EmptySeq
<1> QED BY <1>1, <1>2, <1>3, <1>4 DEF EffectiveAnswers

\* A new card.
LEMMA FreshTyped ==
    ASSUME NEW n \in Nat, NEW sent \in AnyReply
    PROVE  /\ FreshForm(n, sent) \in FormRecord
           /\ \A q \in Questions : Ticked(FreshForm(n, sent), q)
           /\ FreshForm(n, sent).seen = n /\ (n = 0 => ~FreshForm(n, sent).submitted)
<1>1. FreshForm(n, sent) \in FormRecord
  BY TextsTyped DEF FreshForm, FormRecord
<1>2. \A q \in Questions : FreshForm(n, sent).answers[q] = NoText /\ Len(NoText) = 0
  BY DEF FreshForm, NoText
<1>3. FreshForm(n, sent).seen = n /\ (n = 0 => ~FreshForm(n, sent).submitted)
  <2>1. FreshForm(n, sent).seen = n /\ FreshForm(n, sent).submitted = (n > 0)
    BY DEF FreshForm
  <2>2. n = 0 => (n > 0) = FALSE
    OBVIOUS
  <2> QED BY <2>1, <2>2, Zenon
<1>4. \A q \in Questions : Ticked(FreshForm(n, sent), q)
  BY <1>2 DEF Ticked
<1> QED BY <1>1, <1>3, <1>4

\* One card of a tab changes, and neither what it has seen nor sent.
LEMMA FormStep ==
    ASSUME QuestionInv, NEW tab \in FormTabs, NEW form \in FormRecord,
           Change(tab, form), UNCHANGED <<request, told, results>>,
           form.seen <= Len(results),
           form.submitted /\ form.seen = 0 => request.asks = "questions" /\ form.sent # NoReply,
           \A q \in Questions : Ticked(form, q)
    PROVE  forms' \in [FormTabs -> FormRecord] /\ ResultsInv' /\ FormsInv'
<1>1. forms' \in [FormTabs -> FormRecord] /\ forms'[tab] = form
      /\ \A other \in FormTabs \ {tab} : forms'[other] = forms[other]
  BY DEF QuestionInv, QuestionTyped, Change
<1>2. ResultsInv'
  BY DEF QuestionInv, ResultsInv
<1>3. FormsInv'
  <2> SUFFICES ASSUME NEW other \in FormTabs
               PROVE  /\ forms'[other].seen <= Len(results)
                      /\ forms'[other].submitted /\ forms'[other].seen = 0 =>
                            request.asks = "questions" /\ forms'[other].sent # NoReply
                      /\ \A q \in Questions : Ticked(forms'[other], q)
    BY DEF FormsInv
  <2> QED BY <1>1 DEF QuestionInv, FormsInv
<1> QED BY <1>1, <1>2, <1>3

\* Two sequences joined.
LEMMA Concatenated ==
    ASSUME NEW S, NEW s \in Seq(S), NEW t \in Seq(S),
           NEW st, st = s \o t
    PROVE  /\ st \in Seq(S)
           /\ \A i \in 1..Len(st) : (\E j \in 1..Len(s) : st[i] = s[j]) \/ \E j \in 1..Len(t) : st[i] = t[j]
           /\ \A j \in 1..Len(s) : j \in 1..Len(st) /\ st[j] = s[j]
           /\ \A j \in 1..Len(t) : j + Len(s) \in 1..Len(st) /\ st[j + Len(s)] = t[j]
<1>1. /\ st \in Seq(S) /\ Len(st) = Len(s) + Len(t) /\ Len(s) \in Nat /\ Len(t) \in Nat
      /\ \A i \in 1..Len(st) : st[i] = IF i <= Len(s) THEN s[i] ELSE t[i - Len(s)]
  OBVIOUS
<1>2. ASSUME NEW i \in 1..Len(st)
      PROVE  (\E j \in 1..Len(s) : st[i] = s[j]) \/ (\E j \in 1..Len(t) : st[i] = t[j])
  <2>1. CASE i <= Len(s)
    BY <1>1, <2>1
  <2>2. CASE i > Len(s)
    <3>1. i - Len(s) \in 1..Len(t) /\ st[i] = t[i - Len(s)]
      BY <1>1, <2>2
    <3> QED BY <3>1
  <2> QED BY <1>1, <2>1, <2>2
<1>3. \A j \in 1..Len(s) : j \in 1..Len(st) /\ st[j] = s[j]
  BY <1>1
<1>4. \A j \in 1..Len(t) : j + Len(s) \in 1..Len(st) /\ st[j + Len(s)] = t[j]
  BY <1>1
<1> QED BY <1>1, <1>2, <1>3, <1>4

\* A label of one piece has that piece.
LEMMA OnePiece ==
    ASSUME NEW label \in TypedText, Len(label) = 1
    PROVE  label = <<label[1]>>
BY DEF TypedText

\* An option of several is ticked or no longer ticked.
LEMMA Toggled ==
    ASSUME NEW text \in TypedText, NEW q \in Questions, NEW label \in Options[q],
           NEW toggled, toggled \in {Without(text, label), Without(text, label) \o label},
           (\A other \in Options[q] : Len(other) = 1) => \A i \in 1..Len(text) : <<text[i]>> \in Options[q]
    PROVE  /\ toggled \in TypedText
           /\ (\A other \in Options[q] : Len(other) = 1) => \A i \in 1..Len(toggled) : <<toggled[i]>> \in Options[q]
<1> DEFINE others == Without(text, label)
           more == others \o label
<1>1. /\ others \in TypedText
      /\ \A i \in 1..Len(others) : \E j \in 1..Len(text) : others[i] = text[j]
  BY WithoutLabel DEF TypedText
<1> HIDE DEF others
<1>2. label \in TypedText
  BY TextsTyped
<1>a. more = others \o label
  OBVIOUS
<1> HIDE DEF more
<1>3. /\ more \in TypedText
      /\ \A i \in 1..Len(more) : (\E j \in 1..Len(others) : more[i] = others[j]) \/ \E j \in 1..Len(label) : more[i] = label[j]
  <2>1. others \in Seq(Pieces) /\ label \in Seq(Pieces)
    BY <1>1, <1>2 DEF TypedText
  <2> QED BY <2>1, <1>a, Concatenated DEF TypedText
<1>4. ASSUME \A other \in Options[q] : Len(other) = 1
      PROVE  \A i \in 1..Len(toggled) : <<toggled[i]>> \in Options[q]
  <2>1. \A i \in 1..Len(others) : <<others[i]>> \in Options[q]
    BY <1>1, <1>4
  <2>2. Len(label) = 1 /\ <<label[1]>> \in Options[q]
    BY <1>2, <1>4, OnePiece
  <2>3. CASE toggled = others
    BY <2>1, <2>3
  <2>4. CASE toggled = more
    BY <2>4, <2>1, <2>2, <1>3
  <2> QED BY <2>3, <2>4 DEF others, more
<1> QED BY <1>1, <1>3, <1>4 DEF others, more

\* A card with one question filled in is as it should be, if the question is.
LEMMA FilledStep ==
    ASSUME QuestionInv, NEW tab \in FormTabs, NEW q \in Questions, NEW answer \in TypedText, NEW typed \in TypedText,
           Change(tab, [forms[tab] EXCEPT !.answers[q] = answer, !.custom[q] = typed]),
           UNCHANGED <<request, told, results>>,
           q \notin MultiSelect => answer = NoText \/ (answer \in Options[q] /\ typed = NoText),
           q \in MultiSelect /\ (\A label \in Options[q] : Len(label) = 1) =>
              \A i \in 1..Len(answer) : <<answer[i]>> \in Options[q]
    PROVE  forms' \in [FormTabs -> FormRecord] /\ ResultsInv' /\ FormsInv'
<1> DEFINE form == forms[tab]
           new == [form EXCEPT !.answers[q] = answer, !.custom[q] = typed]
<1>1. form \in FormRecord /\ form.seen <= Len(results)
      /\ (form.submitted /\ form.seen = 0 => request.asks = "questions" /\ form.sent # NoReply)
      /\ \A other \in Questions : Ticked(form, other)
  BY DEF QuestionInv, QuestionTyped, FormsInv
<1>2. new = [form EXCEPT !.answers[q] = answer, !.custom[q] = typed]
  OBVIOUS
<1>3. Change(tab, new)
  OBVIOUS
<1> HIDE DEF form, new
<1>4. /\ new \in FormRecord /\ new.seen = form.seen /\ new.submitted = form.submitted /\ new.sent = form.sent
      /\ new.answers[q] = answer /\ new.custom[q] = typed
      /\ \A other \in Questions \ {q} : /\ new.answers[other] = form.answers[other]
                                        /\ new.custom[other] = form.custom[other]
  BY <1>1, <1>2 DEF FormRecord
<1>5. \A other \in Questions : Ticked(new, other)
  BY <1>1, <1>4 DEF Ticked
<1> QED BY <1>1, <1>3, <1>4, <1>5, FormStep

\* An option is chosen.
LEMMA OptionStep ==
    ASSUME QuestionInv, NEW tab \in FormTabs, NEW label, OptionSelected(tab, label)
    PROVE  QuestionInv'
<1> DEFINE q == Asked(tab)
           form == forms[tab]
           others == Without(form.answers[q], label)
           toggled == IF Len(others) < Len(form.answers[q]) THEN others ELSE others \o label
<1>1. /\ form \in FormRecord /\ q \in Questions /\ form.answers[q] \in TypedText /\ form.custom[q] \in TypedText
      /\ Ticked(form, q) /\ label \in Options[q] /\ label \in TypedText /\ NoText \in TypedText
  BY TextsTyped DEF QuestionInv, QuestionTyped, FormsInv, FormRecord, Asked, OptionSelected
<1>2. UNCHANGED <<request, told, results, responses>> /\ clicks' \in 0..MaxClicks
  BY QuestionConstants DEF OptionSelected, Click, QuestionInv, QuestionTyped
<1>3. CASE q \in MultiSelect
  <2>1. Change(tab, [form EXCEPT !.answers[q] = toggled]) /\ UNCHANGED advances
    BY <1>3 DEF OptionSelected
  <2>2. toggled \in {others, others \o label}
    OBVIOUS
  <2>3. /\ toggled \in TypedText
        /\ (\A other \in Options[q] : Len(other) = 1) => \A i \in 1..Len(toggled) : <<toggled[i]>> \in Options[q]
    <3> HIDE DEF toggled
    <3> QED BY <1>1, <1>3, <2>2, Toggled DEF Ticked
  <2> HIDE DEF toggled, q
  <2>4. [form EXCEPT !.answers[q] = toggled] = [form EXCEPT !.answers[q] = toggled, !.custom[q] = form.custom[q]]
    BY <1>1 DEF FormRecord
  <2>5. forms' \in [FormTabs -> FormRecord] /\ ResultsInv' /\ FormsInv'
    BY ZenonT(30), <1>1, <1>2, <1>3, <2>1, <2>3, <2>4, FilledStep
  <2> QED BY <1>2, <2>1, <2>5 DEF QuestionInv, QuestionTyped
<1>4. CASE q \notin MultiSelect
  <2>1. /\ Change(tab, [form EXCEPT !.answers[q] = label, !.custom[q] = NoText])
        /\ advances' = IF q = Len(Options) THEN advances ELSE [advances EXCEPT ![tab] = @ \cup {q + 1}]
    BY <1>4 DEF OptionSelected
  <2>2. forms' \in [FormTabs -> FormRecord] /\ ResultsInv' /\ FormsInv'
    <3> HIDE DEF q
    <3> QED BY <1>1, <1>2, <1>4, <2>1, FilledStep
  <2>3. advances' \in [FormTabs -> SUBSET Questions]
    <3>1. q # Len(Options) => q + 1 \in Questions
      BY <1>1, QuestionConstants
    <3> HIDE DEF q
    <3> QED BY <2>1, <3>1 DEF QuestionInv, QuestionTyped
  <2> QED BY <1>2, <2>2, <2>3 DEF QuestionInv, QuestionTyped
<1> QED BY <1>3, <1>4

\* Something is typed.
LEMMA TypedStep ==
    ASSUME QuestionInv, NEW tab \in FormTabs, NEW text \in Typed, CustomTyped(tab, text)
    PROVE  QuestionInv'
<1> DEFINE q == Asked(tab)
           form == forms[tab]
           answer == IF text # NoText /\ q \notin MultiSelect THEN NoText ELSE form.answers[q]
<1>1. /\ form \in FormRecord /\ q \in Questions /\ form.answers[q] \in TypedText /\ text \in TypedText
      /\ Ticked(form, q) /\ NoText \in TypedText
  BY TextsTyped DEF QuestionInv, QuestionTyped, FormsInv, FormRecord, Asked
<1>2. UNCHANGED <<request, told, results, advances, responses>> /\ clicks' \in 0..MaxClicks
  BY QuestionConstants DEF CustomTyped, Click, QuestionInv, QuestionTyped
<1>3. Change(tab, [form EXCEPT !.answers[q] = answer, !.custom[q] = text])
  <2>1. Change(tab, IF text # NoText /\ q \notin MultiSelect
                    THEN [[form EXCEPT !.custom[q] = text] EXCEPT !.answers[q] = NoText]
                    ELSE [form EXCEPT !.custom[q] = text])
    BY DEF CustomTyped
  <2> HIDE DEF q
  <2>2. [[form EXCEPT !.custom[q] = text] EXCEPT !.answers[q] = NoText]
            = [form EXCEPT !.answers[q] = NoText, !.custom[q] = text]
    BY <1>1 DEF FormRecord
  <2>3. [form EXCEPT !.custom[q] = text] = [form EXCEPT !.answers[q] = form.answers[q], !.custom[q] = text]
    BY <1>1 DEF FormRecord
  <2> QED BY <2>1, <2>2, <2>3
<1>4. /\ answer \in TypedText
      /\ q \notin MultiSelect => answer = NoText \/ (answer \in Options[q] /\ text = NoText)
      /\ q \in MultiSelect => answer = form.answers[q]
  BY <1>1 DEF Ticked
<1> HIDE DEF q, answer
<1>5. forms' \in [FormTabs -> FormRecord] /\ ResultsInv' /\ FormsInv'
  BY <1>1, <1>2, <1>3, <1>4, FilledStep DEF Ticked
<1> QED BY <1>2, <1>5 DEF QuestionInv, QuestionTyped

\* The form of a tab as it is.
LEMMA FormOf ==
    ASSUME QuestionInv, NEW tab \in FormTabs
    PROVE  /\ forms[tab] \in FormRecord /\ forms[tab].seen \in Nat /\ forms[tab].seen <= Len(results)
           /\ forms[tab].submitted /\ forms[tab].seen = 0 => request.asks = "questions" /\ forms[tab].sent # NoReply
           /\ \A q \in Questions : Ticked(forms[tab], q)
BY DEF QuestionInv, QuestionTyped, FormsInv, FormRecord

\* The card goes to another question.
LEMMA IndexMoved ==
    ASSUME QuestionInv, NEW tab \in FormTabs, NEW next \in Questions,
           Change(tab, [forms[tab] EXCEPT !.index = next]), UNCHANGED <<request, told, results>>
    PROVE  forms' \in [FormTabs -> FormRecord] /\ ResultsInv' /\ FormsInv'
<1> DEFINE form == forms[tab]
           new == [form EXCEPT !.index = next]
<1>1. /\ form \in FormRecord /\ form.seen <= Len(results)
      /\ form.submitted /\ form.seen = 0 => request.asks = "questions" /\ form.sent # NoReply
      /\ \A q \in Questions : Ticked(form, q)
  BY FormOf
<1>2. new = [form EXCEPT !.index = next]
  OBVIOUS
<1>3. Change(tab, new)
  OBVIOUS
<1> HIDE DEF form, new
<1>4. /\ new \in FormRecord /\ new.seen = form.seen /\ new.submitted = form.submitted /\ new.sent = form.sent
      /\ new.answers = form.answers /\ new.custom = form.custom
  BY <1>1, <1>2 DEF FormRecord
<1>5. \A q \in Questions : Ticked(new, q)
  BY <1>1, <1>4 DEF Ticked
<1> QED BY <1>1, <1>3, <1>4, <1>5, FormStep

\* A timer goes on to the next question.
LEMMA AdvancedStep ==
    ASSUME QuestionInv, NEW tab \in FormTabs, Advanced(tab)
    PROVE  QuestionInv'
BY IndexMoved DEF Advanced, QuestionInv, QuestionTyped

\* The user goes on or back.
LEMMA MovedStep ==
    ASSUME QuestionInv, NEW tab \in FormTabs, QuestionMoved(tab)
    PROVE  QuestionInv'
BY IndexMoved DEF QuestionMoved, QuestionInv, QuestionTyped

\* One command more of a tab, or one less.
LEMMA ResponsesTyped ==
    ASSUME QuestionInv, NEW tab \in FormTabs, NEW reply \in Answer,
           \/ responses' = [responses EXCEPT ![tab] = Append(@, reply)]
           \/ responses[tab] # <<>> /\ responses' = [responses EXCEPT ![tab] = Tail(@)]
    PROVE  responses' \in [FormTabs -> Seq(Answer)]
<1>1. responses \in [FormTabs -> Seq(Answer)] /\ responses[tab] \in Seq(Answer)
  BY DEF QuestionInv, QuestionTyped
<1> HIDE DEF Answer
<1>2. Append(responses[tab], reply) \in Seq(Answer) /\ (responses[tab] # <<>> => Tail(responses[tab]) \in Seq(Answer))
  BY <1>1
<1> QED BY <1>1, <1>2

\* The answers are sent.
LEMMA SubmittedStep ==
    ASSUME QuestionInv, NEW tab \in FormTabs, Submitted(tab)
    PROVE  QuestionInv'
<1> DEFINE form == forms[tab]
           reply == AskReply("answered", [q \in Questions |-> EffectiveAnswers(form, q)])
           new == [form EXCEPT !.sent = reply, !.submitted = TRUE]
<1>1. /\ form \in FormRecord /\ form.seen <= Len(results)
      /\ \A q \in Questions : Ticked(form, q)
  BY FormOf
<1>2. reply \in Answer
  <2>1. \A q \in Questions : EffectiveAnswers(form, q) \in Seq(TypedText)
    BY <1>1, EffectiveTyped
  <2> HIDE DEF form
  <2> QED BY <2>1 DEF AskReply, Answer, ReplyOf
<1>3. /\ Change(tab, new) /\ request.asks = "questions"
      /\ responses' = [responses EXCEPT ![tab] = Append(@, reply)]
      /\ UNCHANGED <<request, told, results, advances, clicks>>
  BY DEF Submitted
<1>4. new = [form EXCEPT !.sent = reply, !.submitted = TRUE]
  OBVIOUS
<1> HIDE DEF form, reply, new
<1>5. reply # NoReply /\ reply \in AnyReply
  BY <1>2, RepliesTyped
<1>6. /\ new \in FormRecord /\ new.seen = form.seen /\ new.sent = reply
      /\ new.answers = form.answers /\ new.custom = form.custom
  BY <1>1, <1>4, <1>5 DEF FormRecord
<1>7. \A q \in Questions : Ticked(new, q)
  BY <1>1, <1>6 DEF Ticked
<1>8. forms' \in [FormTabs -> FormRecord] /\ ResultsInv' /\ FormsInv'
  BY <1>1, <1>3, <1>5, <1>6, <1>7, FormStep
<1>9. responses' \in [FormTabs -> Seq(Answer)]
  BY <1>2, <1>3, ResponsesTyped
<1> QED BY <1>3, <1>8, <1>9 DEF QuestionInv, QuestionTyped

\* A verdict about a plan is sent.
LEMMA PlanStep ==
    ASSUME QuestionInv, NEW tab \in FormTabs, NEW verdict \in Verdicts, PlanConfirmed(tab, verdict)
    PROVE  QuestionInv'
<1>1. UNCHANGED <<request, told, results, forms, advances>> /\ clicks' \in 0..MaxClicks
  BY QuestionConstants DEF PlanConfirmed, Click, QuestionInv, QuestionTyped
<1>2. responses' \in [FormTabs -> Seq(Answer)]
  BY RepliesTyped, ResponsesTyped DEF PlanConfirmed, QuestionInv, QuestionTyped
<1> QED BY <1>1, <1>2 DEF QuestionInv, QuestionTyped, ResultsInv, FormsInv

\* A card is scrolled away, or comes back anew.
LEMMA ScrolledStep ==
    ASSUME QuestionInv, NEW tab \in FormTabs, RowScrolled(tab)
    PROVE  QuestionInv'
<1> DEFINE form == forms[tab]
           new == IF form.row THEN [form EXCEPT !.row = FALSE]
                  ELSE FreshForm(form.seen, HydratedResult(form.seen))
<1>1. /\ form \in FormRecord /\ form.seen \in Nat /\ form.seen <= Len(results)
      /\ form.submitted /\ form.seen = 0 => request.asks = "questions" /\ form.sent # NoReply
      /\ \A q \in Questions : Ticked(form, q)
  BY FormOf
<1>2. /\ Change(tab, new) /\ advances' = [advances EXCEPT ![tab] = {}]
      /\ UNCHANGED <<request, told, results, responses, clicks>>
  BY DEF RowScrolled
<1>3. new = IF form.row THEN [form EXCEPT !.row = FALSE] ELSE FreshForm(form.seen, HydratedResult(form.seen))
  OBVIOUS
<1>4. HydratedResult(form.seen) \in AnyReply
  <2>1. NoReply \in AnyReply /\ Result \subseteq AnyReply /\ results \in Seq(Result)
    BY RepliesTyped DEF QuestionInv, QuestionTyped
  <2> HIDE DEF form
  <2>2. form.seen # 0 => results[1] \in Result
    BY <1>1, <2>1
  <2> QED BY <2>1, <2>2 DEF HydratedResult
<1> HIDE DEF form, new
<1>5. /\ new \in FormRecord /\ new.seen = form.seen
      /\ new.submitted /\ new.seen = 0 => request.asks = "questions" /\ new.sent # NoReply
      /\ \A q \in Questions : Ticked(new, q)
  <2>1. CASE form.row
    BY <1>1, <1>3, <2>1 DEF FormRecord, Ticked
  <2>2. CASE ~form.row
    <3> DEFINE saved == HydratedResult(form.seen)
    <3>1. saved \in AnyReply /\ new = FreshForm(form.seen, saved)
      BY <1>3, <1>4, <2>2
    <3> HIDE DEF saved
    <3>2. /\ FreshForm(form.seen, saved) \in FormRecord /\ FreshForm(form.seen, saved).seen = form.seen
          /\ form.seen = 0 => ~FreshForm(form.seen, saved).submitted
      BY <1>1, <3>1, FreshTyped
    <3>3. \A q \in Questions : Ticked(FreshForm(form.seen, saved), q)
      BY <1>1, <3>1, FreshTyped
    <3>4. \A q \in Questions : Ticked(new, q)
      BY <3>1, <3>3
    <3>5. new \in FormRecord /\ new.seen = form.seen /\ (form.seen = 0 => ~new.submitted)
      BY <3>1, <3>2
    <3> QED BY <1>1, <3>4, <3>5
  <2> QED BY <2>1, <2>2
<1>6. forms' \in [FormTabs -> FormRecord] /\ ResultsInv' /\ FormsInv'
  BY <1>1, <1>2, <1>5, FormStep
<1>7. advances' \in [FormTabs -> SUBSET Questions]
  BY <1>2 DEF QuestionInv, QuestionTyped
<1> QED BY <1>2, <1>6, <1>7 DEF QuestionInv, QuestionTyped

\* A tab is told of a result.
LEMMA SeenStep ==
    ASSUME QuestionInv, NEW tab \in FormTabs, ResultSeen(tab)
    PROVE  QuestionInv'
<1> DEFINE form == forms[tab]
           new == [form EXCEPT !.seen = @ + 1]
<1>1. /\ form \in FormRecord /\ form.seen \in Nat /\ form.seen < Len(results)
      /\ \A q \in Questions : Ticked(form, q)
  BY FormOf DEF ResultSeen
<1>2. Change(tab, new) /\ UNCHANGED <<request, told, results, advances, responses, clicks>>
  BY DEF ResultSeen
<1>3. new = [form EXCEPT !.seen = @ + 1] /\ Len(results) \in Nat
  BY DEF QuestionInv, QuestionTyped
<1> HIDE DEF form, new
<1>4. /\ new \in FormRecord /\ new.seen = form.seen + 1
      /\ new.answers = form.answers /\ new.custom = form.custom
  BY <1>1, <1>3 DEF FormRecord
<1>5. \A q \in Questions : Ticked(new, q)
  BY <1>1, <1>4 DEF Ticked
<1>6. new.seen <= Len(results) /\ new.seen # 0
  BY <1>1, <1>3, <1>4
<1>7. forms' \in [FormTabs -> FormRecord] /\ ResultsInv' /\ FormsInv'
  BY <1>2, <1>4, <1>5, <1>6, FormStep
<1> QED BY <1>2, <1>7 DEF QuestionInv, QuestionTyped

\* The pending request gets its result, of which the agent is told.
LEMMA SettledStep ==
    ASSUME QuestionInv, NEW result \in Result, NEW reply \in Told,
           request.pending, request' = [request EXCEPT !.pending = FALSE],
           results' = Append(results, result), told' = reply,
           reply = result \/ (result.verdict = "discarded" /\ reply = NoReply),
           UNCHANGED forms
    PROVE  /\ request' \in RequestRecord /\ results' \in Seq(Result) /\ told' \in Told
           /\ ResultsInv' /\ FormsInv'
<1>1. results = <<>> /\ request \in RequestRecord
  BY DEF QuestionInv, QuestionTyped, ResultsInv
<1>2. results' = <<result>>
  BY <1>1
<1>3. results' \in Seq(Result) /\ Len(results') = 1 /\ results'[1] = result
  BY <1>2
<1>4. request' \in RequestRecord /\ ~request'.pending /\ request'.asks = request.asks
  BY <1>1 DEF RequestRecord
<1>5. ResultsInv'
  BY <1>3, <1>4 DEF ResultsInv
<1>6. ASSUME NEW tab \in FormTabs
      PROVE  /\ forms[tab].seen <= Len(results')
             /\ forms[tab].submitted /\ forms[tab].seen = 0 => request'.asks = "questions" /\ forms[tab].sent # NoReply
             /\ \A q \in Questions : Ticked(forms[tab], q)
  BY <1>1, <1>3, <1>4, FormOf
<1>7. FormsInv'
  BY <1>6 DEF FormsInv
<1> QED BY <1>3, <1>4, <1>5, <1>7

\* A reply reaches the runner.
LEMMA RespondedStep ==
    ASSUME QuestionInv, NEW tab \in FormTabs, Responded(tab)
    PROVE  QuestionInv'
<1> DEFINE reply == Head(responses[tab])
<1>1. reply \in Answer
  <2>1. responses[tab] \in Seq(Answer) /\ responses[tab] # <<>>
    BY DEF Responded, QuestionInv, QuestionTyped
  <2> HIDE DEF Answer
  <2> QED BY <2>1
<1>2. /\ responses[tab] # <<>> /\ responses' = [responses EXCEPT ![tab] = Tail(@)]
      /\ UNCHANGED <<forms, advances, clicks>>
  BY DEF Responded
<1>3. responses' \in [FormTabs -> Seq(Answer)]
  BY <1>1, <1>2, ResponsesTyped
<1>4. CASE request.pending
  <2>1. request' = [request EXCEPT !.pending = FALSE] /\ results' = Append(results, reply) /\ told' = reply
    BY <1>4 DEF Responded
  <2> HIDE DEF reply
  <2>2. reply \in Result /\ reply \in Told
    BY <1>1, RepliesTyped
  <2>3. /\ request' \in RequestRecord /\ results' \in Seq(Result) /\ told' \in Told
        /\ ResultsInv' /\ FormsInv'
    BY <1>2, <1>4, <2>1, <2>2, SettledStep
  <2> QED BY <1>2, <1>3, <2>3 DEF QuestionInv, QuestionTyped
<1>5. CASE ~request.pending
  BY <1>5, <1>2, <1>3 DEF Responded, QuestionInv, QuestionTyped, ResultsInv, FormsInv
<1> QED BY <1>4, <1>5

\* A reply is lost.
LEMMA FailedStep ==
    ASSUME QuestionInv, NEW tab \in FormTabs, ResponseFailed(tab)
    PROVE  QuestionInv'
BY RepliesTyped, ResponsesTyped DEF Verdicts, ResponseFailed, QuestionInv, QuestionTyped, ResultsInv, FormsInv

\* The turn is cancelled.
LEMMA CancelledStep ==
    ASSUME QuestionInv, RequestCancelled
    PROVE  QuestionInv'
<1> DEFINE discarded == AskReply("discarded", NoAnswers)
           reply == IF request.provider = "codex" /\ request.asks = "plan" THEN discarded ELSE told
<1>1. discarded \in Result /\ discarded \in Told /\ discarded.verdict = "discarded"
  BY RepliesTyped
<1>2. /\ request.pending /\ request' = [request EXCEPT !.pending = FALSE]
      /\ results' = Append(results, discarded) /\ told' = reply
      /\ UNCHANGED <<forms, advances, responses, clicks>>
  BY DEF RequestCancelled
<1> HIDE DEF discarded
<1>3. told = NoReply /\ told \in Told
  BY <1>2 DEF QuestionInv, QuestionTyped, ResultsInv
<1>4. reply \in Told /\ (reply = discarded \/ reply = NoReply)
  BY <1>1, <1>3
<1> HIDE DEF reply
<1>5. /\ request' \in RequestRecord /\ results' \in Seq(Result) /\ told' \in Told
      /\ ResultsInv' /\ FormsInv'
  BY <1>1, <1>2, <1>4, SettledStep
<1> QED BY <1>2, <1>5 DEF QuestionInv, QuestionTyped

\* Claude's own result follows the runner's.
LEMMA EchoedStep ==
    ASSUME QuestionInv, Echoed
    PROVE  QuestionInv'
<1> DEFINE echo == AskReply("unread", NoAnswers)
<1>1. echo \in Result
  BY RepliesTyped
<1>2. /\ results' = Append(results, echo) /\ Len(results) = 1 /\ results \in Seq(Result)
      /\ UNCHANGED <<request, told, forms, advances, responses, clicks>>
  BY DEF Echoed, QuestionInv, QuestionTyped
<1> HIDE DEF echo, Result
<1>3. /\ results' \in Seq(Result) /\ Len(results') = 2 /\ results'[1] = results[1]
      /\ results # <<>> /\ results' # <<>>
  BY <1>1, <1>2
<1>4. ResultsInv'
  BY <1>2, <1>3 DEF QuestionInv, ResultsInv
<1>5. ASSUME NEW tab \in FormTabs
      PROVE  /\ forms[tab].seen <= Len(results')
             /\ forms[tab].submitted /\ forms[tab].seen = 0 => request.asks = "questions" /\ forms[tab].sent # NoReply
             /\ \A q \in Questions : Ticked(forms[tab], q)
  BY <1>2, <1>3, FormOf
<1>6. FormsInv'
  BY <1>2, <1>5 DEF FormsInv
<1> QED BY <1>2, <1>3, <1>4, <1>6 DEF QuestionInv, QuestionTyped

\* A new question satisfies the invariant.
LEMMA QuestionInvInit == QuestionInit => QuestionInv
<1> SUFFICES ASSUME QuestionInit PROVE QuestionInv
  OBVIOUS
<1>1. NoReply \in Told /\ NoReply \in AnyReply
  BY RepliesTyped
<1>2. request \in RequestRecord /\ request.pending
  BY DEF QuestionInit, RequestRecord
<1>3. told = NoReply /\ results = <<>> /\ clicks \in 0..MaxClicks
  BY QuestionConstants DEF QuestionInit
<1>4. results \in Seq(Result) /\ Len(results) = 0
  BY <1>3
<1>5. advances \in [FormTabs -> SUBSET Questions] /\ responses \in [FormTabs -> Seq(Answer)]
  BY DEF QuestionInit
<1>6. forms = [tab \in FormTabs |-> FreshForm(0, NoReply)]
  BY DEF QuestionInit
<1>7. /\ FreshForm(0, NoReply) \in FormRecord /\ FreshForm(0, NoReply).seen = 0 /\ ~FreshForm(0, NoReply).submitted
      /\ \A q \in Questions : Ticked(FreshForm(0, NoReply), q)
  <2> DEFINE new == FreshForm(0, NoReply)
  <2>1. new \in FormRecord /\ new.seen = 0 /\ ~new.submitted
    BY <1>1, FreshTyped
  <2>2. \A q \in Questions : Ticked(new, q)
    BY <1>1, FreshTyped
  <2> QED BY <2>1, <2>2
<1>8. forms \in [FormTabs -> FormRecord]
  BY <1>6, <1>7
<1>9. ResultsInv
  BY <1>2, <1>3, <1>4 DEF ResultsInv
<1>10. FormsInv
  BY <1>4, <1>6, <1>7 DEF FormsInv
<1> QED BY <1>1, <1>2, <1>3, <1>4, <1>5, <1>8, <1>9, <1>10 DEF QuestionInv, QuestionTyped

\* Every step preserves the invariant.
LEMMA QuestionInvStep == QuestionInv /\ [QuestionStep]_questionVars => QuestionInv'
<1> SUFFICES ASSUME QuestionInv, [QuestionStep]_questionVars PROVE QuestionInv'
  OBVIOUS
<1>1. CASE UNCHANGED questionVars
  BY <1>1 DEF questionVars, QuestionInv, QuestionTyped, ResultsInv, FormsInv
<1>2. ASSUME NEW tab \in FormTabs, NEW label, OptionSelected(tab, label) PROVE QuestionInv'
  BY <1>2, OptionStep
<1>3. ASSUME NEW tab \in FormTabs, NEW text \in Typed, CustomTyped(tab, text) PROVE QuestionInv'
  BY <1>3, TypedStep
<1>4. ASSUME NEW tab \in FormTabs, NEW verdict \in Verdicts, PlanConfirmed(tab, verdict) PROVE QuestionInv'
  BY <1>4, PlanStep
<1>5. ASSUME NEW tab \in FormTabs, Advanced(tab) \/ QuestionMoved(tab) \/ Submitted(tab) \/ RowScrolled(tab)
      PROVE  QuestionInv'
  BY <1>5, AdvancedStep, MovedStep, SubmittedStep, ScrolledStep
<1>6. ASSUME NEW tab \in FormTabs, Responded(tab) \/ ResponseFailed(tab) \/ ResultSeen(tab)
      PROVE  QuestionInv'
  BY <1>6, RespondedStep, FailedStep, SeenStep
<1>7. CASE RequestCancelled \/ Echoed
  BY <1>7, CancelledStep, EchoedStep
<1> QED BY <1>1, <1>2, <1>3, <1>4, <1>5, <1>6, <1>7 DEF QuestionStep

\* What a form sends of one choice is what it shows.
LEMMA OneMeant ==
    ASSUME NEW form \in FormRecord, NEW q \in Questions, q \notin MultiSelect, Ticked(form, q)
    PROVE  LET box == IF Trimmed(form, q) = NoText THEN {} ELSE {Trimmed(form, q)}
               answer == EffectiveAnswers(form, q)
           IN  {answer[i] : i \in DOMAIN answer} = SelectedOptions(form, q) \cup box
<1> DEFINE chosen == form.answers[q]
           box == IF Trimmed(form, q) = NoText THEN {} ELSE {Trimmed(form, q)}
           answer == EffectiveAnswers(form, q)
<1>1. chosen = NoText \/ (chosen \in Options[q] /\ Trimmed(form, q) = NoText)
  BY DEF Ticked, Trimmed
<1>2. NoText \notin Options[q]
  BY TextsTyped
<1>3. answer = IF Trimmed(form, q) # NoText THEN <<Trimmed(form, q)>>
               ELSE IF chosen = NoText THEN <<>> ELSE <<chosen>>
  BY DEF EffectiveAnswers, NoText
<1>4. SelectedOptions(form, q) = {label \in Options[q] : chosen = label}
  BY DEF SelectedOptions
<1> HIDE DEF answer, chosen
<1>5. {answer[i] : i \in DOMAIN answer} = IF Trimmed(form, q) # NoText THEN {Trimmed(form, q)}
                                          ELSE IF chosen = NoText THEN {} ELSE {chosen}
  BY <1>3
<1> QED BY <1>1, <1>2, <1>4, <1>5 DEF answer

\* What a form sends of several is the pieces of what it shows.
LEMMA ManyMeant ==
    ASSUME NEW form \in FormRecord, NEW q \in MultiSelect, Ticked(form, q),
           \A label \in Options[q] : Len(label) = 1
    PROVE  LET box == IF Trimmed(form, q) = NoText THEN {} ELSE {Trimmed(form, q)}
               answer == EffectiveAnswers(form, q)
               shown == SelectedOptions(form, q) \cup box
           IN  {answer[i] : i \in DOMAIN answer} = UNION {{<<text[i]>> : i \in DOMAIN text} : text \in shown}
<1> DEFINE chosen == form.answers[q]
           typed == Trimmed(form, q)
           both == chosen \o typed
           box == IF typed = NoText THEN {} ELSE {typed}
           answer == EffectiveAnswers(form, q)
           shown == SelectedOptions(form, q) \cup box
           sent == {answer[i] : i \in DOMAIN answer}
           meant == UNION {{<<text[i]>> : i \in DOMAIN text} : text \in shown}
<1>1. /\ q \in Questions /\ chosen \in Seq(Pieces) /\ typed \in Seq(Pieces)
      /\ \A i \in 1..Len(chosen) : <<chosen[i]>> \in Options[q]
      /\ \A label \in Options[q] : label \in Seq(Pieces) /\ Len(label) = 1
  BY TextsTyped, QuestionConstants DEF FormRecord, Ticked, TypedText, Trimmed
<1>2. answer = [i \in DOMAIN both |-> <<both[i]>>]
  BY DEF EffectiveAnswers, Split
<1>3. \A label : label \in SelectedOptions(form, q) <=> label \in Options[q] /\ \E i \in DOMAIN chosen : <<chosen[i]>> = label
  BY DEF SelectedOptions, Split
<1>4. both = chosen \o typed
  OBVIOUS
<1> HIDE DEF answer, both, chosen, typed
<1>5. /\ both \in Seq(Pieces)
      /\ \A i \in 1..Len(both) : (\E j \in 1..Len(chosen) : both[i] = chosen[j]) \/ \E j \in 1..Len(typed) : both[i] = typed[j]
      /\ \A j \in 1..Len(chosen) : \E i \in 1..Len(both) : both[i] = chosen[j]
      /\ \A j \in 1..Len(typed) : \E i \in 1..Len(both) : both[i] = typed[j]
  <2>1. both \in Seq(Pieces)
    BY <1>1, <1>4, Concatenated
  <2>2. \A i \in 1..Len(both) : (\E j \in 1..Len(chosen) : both[i] = chosen[j]) \/ \E j \in 1..Len(typed) : both[i] = typed[j]
    BY <1>1, <1>4, Concatenated
  <2>3. \A j \in 1..Len(chosen) : j \in 1..Len(both) /\ both[j] = chosen[j]
    BY <1>1, <1>4, Concatenated
  <2>4. \A j \in 1..Len(typed) : j + Len(chosen) \in 1..Len(both) /\ both[j + Len(chosen)] = typed[j]
    BY <1>1, <1>4, Concatenated
  <2> QED BY <2>1, <2>2, <2>3, <2>4
<1>6. DOMAIN both = 1..Len(both) /\ DOMAIN chosen = 1..Len(chosen) /\ DOMAIN typed = 1..Len(typed)
  BY <1>1, <1>5
<1>7. \A piece : piece \in sent <=> \E i \in 1..Len(both) : piece = <<both[i]>>
  BY <1>2, <1>6
<1>8. \A piece : piece \in meant <=> \E text \in shown : \E i \in DOMAIN text : piece = <<text[i]>>
  OBVIOUS
<1>9. typed # NoText <=> Len(typed) > 0
  BY <1>1 DEF NoText
<1>10. ASSUME NEW piece, piece \in sent PROVE piece \in meant
  <2>1. PICK i \in 1..Len(both) : piece = <<both[i]>>
    BY <1>7, <1>10
  <2>2. CASE \E j \in 1..Len(chosen) : both[i] = chosen[j]
    <3>1. PICK j \in 1..Len(chosen) : piece = <<chosen[j]>>
      BY <2>1, <2>2
    <3>2. piece \in SelectedOptions(form, q)
      BY <1>1, <1>3, <1>6, <3>1
    <3>3. 1 \in DOMAIN piece /\ piece = <<piece[1]>>
      BY <3>1
    <3>4. \E text \in shown : \E k \in DOMAIN text : piece = <<text[k]>>
      BY <3>2, <3>3
    <3> HIDE DEF meant, shown
    <3> QED BY <1>8, <3>4
  <2>3. CASE \E j \in 1..Len(typed) : both[i] = typed[j]
    <3>1. PICK j \in 1..Len(typed) : piece = <<typed[j]>>
      BY <2>1, <2>3
    <3>2. typed \in shown
      BY <1>1, <1>9, <3>1
    <3>3. \E text \in shown : \E k \in DOMAIN text : piece = <<text[k]>>
      BY <1>6, <3>1, <3>2
    <3> HIDE DEF meant, shown
    <3> QED BY <1>8, <3>3
  <2> QED BY <1>5, <2>2, <2>3
<1>11. ASSUME NEW piece, piece \in meant PROVE piece \in sent
  <2>0. PICK text \in shown : \E k \in DOMAIN text : piece = <<text[k]>>
    <3> HIDE DEF meant, shown
    <3> QED BY <1>8, <1>11
  <2>1. PICK k \in DOMAIN text : piece = <<text[k]>>
    BY <2>0
  <2>2. CASE text \in SelectedOptions(form, q)
    <3>1. PICK j \in 1..Len(chosen) : text = <<chosen[j]>>
      BY <1>3, <1>6, <2>2
    <3>2. k = 1 /\ text[1] = chosen[j]
      BY <2>1, <3>1
    <3> HIDE DEF sent
    <3> QED BY <1>5, <1>7, <2>1, <3>2
  <2>3. CASE text \in box
    <3>1. text = typed
      BY <2>3
    <3> HIDE DEF sent
    <3> QED BY <1>5, <1>6, <1>7, <2>1, <3>1
  <2> QED BY <2>1, <2>2, <2>3
<1>12. sent = meant
  <2> HIDE DEF sent, meant
  <2> QED BY <1>10, <1>11
<1> QED BY <1>12 DEF answer, typed

\* What the invariant says of the cards.
LEMMA CardsTell == QuestionInv => CardsTellWhatWasTold
<1> SUFFICES ASSUME QuestionInv, NEW tab \in FormTabs,
                    forms[tab].row, forms[tab].submitted \/ IsComplete(tab),
                    ~(request.asks = "questions" /\ forms[tab].sent \notin {NoReply, told})
             PROVE  CardTells(tab) = told \/ (CardTells(tab).verdict = "discarded" /\ told = NoReply)
  BY DEF CardsTellWhatWasTold
<1>1. CASE request.asks = "questions" /\ forms[tab].sent # NoReply
  BY <1>1 DEF CardTells
<1>2. CASE ~(request.asks = "questions" /\ forms[tab].sent # NoReply)
  <2>1. forms[tab].seen # 0 /\ forms[tab].seen <= Len(results) /\ forms[tab].seen \in Nat
    BY <1>2, FormOf DEF IsComplete
  <2>2. results # <<>>
    <3>1. results = <<>> => Len(results) = 0
      OBVIOUS
    <3> QED BY <2>1, <3>1
  <2>3. CardTells(tab) = results[1]
    BY <1>2, <2>1 DEF CardTells, HydratedResult
  <2> QED BY <2>2, <2>3 DEF QuestionInv, ResultsInv
<1> QED BY <1>1, <1>2

\* What the invariant says of the forms.
LEMMA FormsMean == QuestionInv => FormsMeanWhatTheyShow
<1> SUFFICES ASSUME QuestionInv, NEW tab \in FormTabs, NEW q \in Questions
             PROVE  LET form == forms[tab]
                        box == IF Trimmed(form, q) = NoText THEN {} ELSE {Trimmed(form, q)}
                        answer == EffectiveAnswers(form, q)
                        shown == SelectedOptions(form, q) \cup box
                    IN  IF q \notin MultiSelect THEN {answer[i] : i \in DOMAIN answer} = shown
                        ELSE (\A label \in Options[q] : Len(label) = 1)
                             => {answer[i] : i \in DOMAIN answer} = UNION {{<<text[i]>> : i \in DOMAIN text} : text \in shown}
  BY DEF FormsMeanWhatTheyShow
<1>1. forms[tab] \in FormRecord /\ Ticked(forms[tab], q)
  BY FormOf
<1>2. CASE q \notin MultiSelect
  BY <1>1, <1>2, OneMeant
<1>3. CASE q \in MultiSelect
  BY <1>1, <1>3, ManyMeant
<1> QED BY <1>2, <1>3

\* The invariant has the types.
LEMMA QuestionTypes == QuestionInv => QuestionTypeOK
<1> SUFFICES ASSUME QuestionInv PROVE QuestionTypeOK
  OBVIOUS
<1>1. request \in [asks: {"questions", "plan"}, provider: {"claude", "codex"}, pending: BOOLEAN]
      /\ told.verdict \in Verdicts \cup {"none", "answered", "discarded"}
      /\ Len(results) <= 2 /\ clicks \in 0..MaxClicks
  BY DEF QuestionInv, QuestionTyped, ResultsInv, RequestRecord, Told, ReplyOf
<1>2. ASSUME NEW tab \in FormTabs
      PROVE  /\ forms[tab].index \in Questions /\ forms[tab].seen \in 0..Len(results)
             /\ advances[tab] \subseteq Questions
  <2>1. Len(results) \in Nat
    BY DEF QuestionInv, QuestionTyped
  <2> QED BY <2>1, FormOf DEF QuestionInv, QuestionTyped, FormRecord
<1> QED BY <1>1, <1>2 DEF QuestionTypeOK

\* AnswersArrive: a card sends what it shows as chosen, and tells what the agent was
\* told, whatever tabs answer, cancel, scroll and are told in whatever order.
THEOREM AnswersAreTold == QuestionSpec => [](QuestionTypeOK /\ AnswersArrive)
<1>1. QuestionInv => QuestionTypeOK /\ AnswersArrive
  BY QuestionTypes, CardsTell, FormsMean DEF AnswersArrive
<1> QED BY QuestionInvInit, QuestionInvStep, <1>1, PTL DEF QuestionSpec

=============================================================================
