------------------------------- MODULE Scrolling -------------------------------
(***************************************************************************)
(* Scrolling an element: the search for the element inside it that really  *)
(* scrolls, and the scroll itself with its ways of sending it and their    *)
(* fallback, for the Selenium and the Playwright backend.                  *)
(*                                                                         *)
(* A page is the tree of the elements inside the given one, numbered in    *)
(* document order from 1, the given one: up is the parent of each (0 for   *)
(* element 1), box what its layout is, start how far it is scrolled.  A    *)
(* box is over its frame by so many units along each axis, lets that       *)
(* overflow or not, and has an outer and an inner size.  Distances are     *)
(* units too; a key moves one.                                             *)
(***************************************************************************)
EXTENDS Integers, Sequences, FiniteSetsExt

CONSTANTS Layouts, Directions, Distances, Searches, Ways

Inside(page) == DOMAIN page.up
Boxes ==
    [over : [{"x", "y"} -> Nat], overflow : {"visible", "hidden", "auto"}, outer : Nat, inner : Nat]
IsPage(page) ==
    /\ page.up \in Seq(Nat) /\ page.up # <<>>
    /\ \A n \in Inside(page) \ {1} : page.up[n] \in 1 .. n - 1
    /\ page.box \in [Inside(page) -> Boxes]
    /\ page.start \in [Inside(page) -> [{"x", "y"} -> Nat]]
    /\ \A n \in Inside(page), a \in {"x", "y"} : page.start[n][a] <= page.box[n].over[a]

ASSUME ScrollAssumption ==
    /\ \A page \in Layouts : IsPage(page)
    /\ Directions \subseteq {"Up", "Down", "Left", "Right"}
    /\ Searches \subseteq {"off", "first_scrollable", "first_largest_scrollable", "deepest_scrollable",
                           "largest_scrollable", "largest_scrollable_early_stop"}
    /\ Ways \subseteq {"javascript", "action_chains_from_origin", "action_chains_focus_first", "keystrokes"}
    /\ Distances \subseteq Nat \ {0}

VARIABLES
    layout,     \* the page
    position,   \* how far each element is scrolled along each axis
    gliding,    \* how far the browser has still to move each element, in the call's direction
    centering,  \* the browser has still to bring the element into view
    scroll      \* the call: pc, engine, direction, distance, search, way, target, keys to send

scrollVars == <<layout, position, gliding, centering, scroll>>

Axis(direction) == IF direction \in {"Up", "Down"} THEN "y" ELSE "x"
Axes(direction) == IF direction = "any" THEN {"x", "y"} ELSE {Axis(direction)}

(* Mutant of ScrollsAlong: whatever the direction.                         *)
ScrollsAnyway(box, axes) == box.overflow # "visible" /\ \E a \in {"x", "y"} : box.over[a] > 0

(* get_element_dimension_info, get_element_scrollability: a scroll         *)
(* container whose content is larger than its frame, hidden included.      *)
ScrollsAlong(box, axes) == box.overflow # "visible" /\ \E a \in axes : box.over[a] > 0
Scrollable(page, direction) == {n \in Inside(page) : ScrollsAlong(page.box[n], Axes(direction))}

-----------------------------------------------------------------------------
(* The search strategies over the set can of candidates.                   *)

Depth(page) ==
    LET d[n \in Inside(page)] == IF n = 1 THEN 0 ELSE d[page.up[n]] + 1 IN d
AtDepth(page, can, k) == {n \in can : Depth(page)[n] = k}
Depths(page, can) == {Depth(page)[n] : n \in can}
LargestOf(set, size) == Min({n \in set : \A k \in set : size[k] <= size[n]})

FirstScrollable(page, can) == Min(AtDepth(page, can, Min(Depths(page, can))))
FirstLargest(page, can, size) == LargestOf(AtDepth(page, can, Min(Depths(page, can))), size)
Deepest(page, can) == Min(AtDepth(page, can, Max(Depths(page, can))))

LargestArea(page, can) == LargestOf(can, [n \in Inside(page) |-> page.box[n].over["x"] + page.box[n].over["y"]])

(* The first level whose largest candidate is larger than those below it.  *)
EarlyStop(page, can, size) ==
    LET Outgrown(k) == \E n \in AtDepth(page, can, k + 1) :
                          size[n] >= size[LargestOf(AtDepth(page, can, k), size)]
    IN  LargestOf(AtDepth(page, can, Min({k \in Depths(page, can) : ~Outgrown(k)})), size)

Pick(page, strategy, can, size) ==
    IF can = {} THEN 1
    ELSE CASE strategy = "first_scrollable"              -> FirstScrollable(page, can)
           [] strategy = "first_largest_scrollable"      -> FirstLargest(page, can, size)
           [] strategy = "deepest_scrollable"            -> Deepest(page, can)
           [] strategy = "largest_scrollable"            -> LargestArea(page, can)
           [] strategy = "largest_scrollable_early_stop" -> EarlyStop(page, can, size)

(* The built-in search measures outer sizes; the one in JavaScript inner   *)
(* sizes, and it takes content that visibly overflows for scrollable.      *)
BuiltinFinds(page, strategy, direction) ==
    Pick(page, strategy, Scrollable(page, direction), [n \in Inside(page) |-> page.box[n].outer])

JavascriptFinds(page, strategy, direction) ==
    Pick(page, strategy, {n \in Inside(page) : \E a \in Axes(direction) : page.box[n].over[a] > 0},
         [n \in Inside(page) |-> page.box[n].inner])

SeleniumSolves(page, strategy, implementation, direction) ==
    IF 1 \in Scrollable(page, direction) THEN 1
    ELSE IF implementation = "builtin" THEN BuiltinFinds(page, strategy, direction)
    ELSE JavascriptFinds(page, strategy, direction)

(* Playwright calls the script with the element as its only argument; the  *)
(* script takes that apart as a list, which raises, and the element itself *)
(* is returned.                                                            *)
PlaywrightSolves(page, strategy, direction) == 1

-----------------------------------------------------------------------------
(* Moving an element: a scroll stops at the ends and leaves an element     *)
(* that is no scroll container where it is.  It is asked for at once and   *)
(* done smoothly, in steps that go on whatever the call does meanwhile.    *)

Room(n, direction) ==
    IF layout.box[n].overflow = "visible" THEN 0
    ELSE IF direction \in {"Up", "Left"} THEN position[n][Axis(direction)]
    ELSE layout.box[n].over[Axis(direction)] - position[n][Axis(direction)]

Stretch(n, direction, amount) == Min({amount, Room(n, direction)})
Moved(n, direction, amount) ==
    [position EXCEPT ![n][Axis(direction)] =
        IF direction \in {"Up", "Left"} THEN @ - Stretch(n, direction, amount) ELSE @ + Stretch(n, direction, amount)]

Glide ==
    /\ scroll.pc # "idle"
    /\ \E n \in Inside(layout) :
          /\ gliding[n] > 0
          /\ gliding' = [gliding EXCEPT ![n] = @ - 1]
          /\ position' = Moved(n, scroll.direction, 1)
    /\ UNCHANGED <<layout, centering, scroll>>

(* scrollBy puts an end to what the element was doing.                     *)
ScrollBy(n, amount) == gliding' = [gliding EXCEPT ![n] = amount]

(* A wheel or a key moves the nearest element around n that a user can     *)
(* scroll that way, if there is one on the page, further.                  *)
Around(n) ==
    LET a[k \in Inside(layout)] == IF k = 1 THEN {1} ELSE {k} \cup a[layout.up[k]] IN a[n]
UserScrolls(n, direction, amount) ==
    LET takers == {k \in Around(n) : layout.box[k].overflow = "auto" /\ Room(k, direction) > 0}
    IN  IF takers = {} THEN gliding ELSE [gliding EXCEPT ![Max(takers)] = @ + amount]

ScrollInit ==
    /\ layout = <<>> /\ position = <<>> /\ gliding = <<>> /\ centering = FALSE
    /\ scroll = [pc |-> "idle"]

Shows(page) ==
    /\ layout' = page /\ position' = page.start
    /\ gliding' = [n \in Inside(page) |-> 0] /\ centering' = FALSE

(* solve_scrollable_child of either backend, asked for by itself.          *)
Solve(page, strategy, implementation, direction) ==
    /\ Shows(page)
    /\ scroll' = [pc |-> "solved", engine |-> "selenium", direction |-> direction, search |-> implementation,
                  target |-> SeleniumSolves(page, strategy, implementation, direction)]

(* scroll_element, up to the first thing it sends to the page.  Selenium   *)
(* centers the element unless it will click it; Playwright brings it into  *)
(* view when it will turn the wheel.                                       *)
Centers(engine, way) ==
    IF engine = "selenium" THEN way \in {"javascript", "action_chains_from_origin"} ELSE way # "javascript"

ScrollElement(page, engine, direction, distance, search, way) ==
    /\ Shows(page)
    /\ scroll' = [pc |-> IF Centers(engine, way) THEN "center" ELSE "send",
                  engine |-> engine, direction |-> direction, distance |-> distance, search |-> search, way |-> way,
                  keys |-> IF way = "keystrokes" THEN distance ELSE 0,
                  target |-> IF search = "off" THEN 1
                             ELSE IF engine = "selenium" THEN SeleniumSolves(page, search, "builtin", direction)
                             ELSE PlaywrightSolves(page, search, "any")]

CenterElementInView ==
    /\ scroll.pc = "center" /\ centering' = TRUE
    /\ scroll' = [scroll EXCEPT !.pc = "send"] /\ UNCHANGED <<layout, position, gliding>>

(* The browser scrolls the containers around the element for that, either  *)
(* way and along both axes; it may do so when the code has gone on.        *)
ContainersMove ==
    /\ centering /\ centering' = FALSE
    /\ \E moved \in SUBSET (Around(scroll.target) \ {scroll.target}), far \in BOOLEAN :
          position' = [n \in Inside(layout) |->
                          IF n \notin moved \/ layout.box[n].overflow = "visible" THEN position[n]
                          ELSE [a \in {"x", "y"} |-> IF far THEN layout.box[n].over[a] ELSE 0]]
    /\ UNCHANGED <<layout, gliding, scroll>>

Sending(engine, way) == scroll.pc = "send" /\ scroll.engine = engine /\ scroll.way = way
Returns == scroll' = [scroll EXCEPT !.pc = "done"]

(* scrollBy in the page, the direct way and the fallback of the others.    *)
ScrollWithJavascript ==
    /\ Sending("selenium", "javascript")
    /\ ScrollBy(scroll.target, scroll.distance)
    /\ Returns /\ UNCHANGED <<layout, position, centering>>

(* From the element's origin the wheel turns over the element; after a     *)
(* focus it turns over the corner of the viewport, whatever is there.      *)
ScrollWithActionChains ==
    /\ \/ /\ Sending("selenium", "action_chains_from_origin")
          /\ gliding' = UserScrolls(scroll.target, scroll.direction, scroll.distance)
       \/ /\ Sending("selenium", "action_chains_focus_first")
          /\ \/ \E n \in Inside(layout) : gliding' = UserScrolls(n, scroll.direction, scroll.distance)
             \/ gliding' = gliding
    /\ Returns /\ UNCHANGED <<layout, position, centering>>

ScrollWithKeystrokes ==
    /\ Sending("selenium", "keystrokes")
    /\ IF scroll.keys > 0
       THEN /\ gliding' = UserScrolls(scroll.target, scroll.direction, 1)
            /\ scroll' = [scroll EXCEPT !.keys = @ - 1]
       ELSE Returns /\ UNCHANGED gliding
    /\ UNCHANGED <<layout, position, centering>>

(* Anything sent can raise, a wheel also when it has turned.  JavaScript   *)
(* takes over with the whole distance; its own exception is swallowed when *)
(* it was the way asked for, and ends the call when it was the fallback.   *)
ScrollRaises ==
    /\ scroll.pc = "send" /\ scroll.engine = "selenium"
    /\ scroll' = IF scroll.way = "javascript" THEN [scroll EXCEPT !.pc = "failed"]
                 ELSE [scroll EXCEPT !.way = "javascript"]
    /\ \/ UNCHANGED gliding
       \/ /\ scroll.way \notin {"javascript", "keystrokes"}
          /\ gliding' = UserScrolls(scroll.target, scroll.direction, scroll.distance)
    /\ UNCHANGED <<layout, position, centering>>

(* Playwright: scrollBy (smooth when the page's style says so), or the     *)
(* wheel over the middle of the element; an exception ends the call.       *)
PlaywrightScroll ==
    /\ scroll.pc = "send" /\ scroll.engine = "playwright"
    /\ \/ /\ IF scroll.way = "javascript" THEN ScrollBy(scroll.target, scroll.distance)
             ELSE gliding' = UserScrolls(scroll.target, scroll.direction, scroll.distance)
          /\ Returns
       \/ scroll' = [scroll EXCEPT !.pc = "failed"] /\ UNCHANGED gliding
    /\ UNCHANGED <<layout, position, centering>>

Calls ==
    \/ \E p \in Layouts, s \in Searches \ {"off"}, d \in Directions \cup {"any"}, i \in {"builtin", "javascript"} :
          Solve(p, s, i, d)
    \/ \E p \in Layouts, e \in {"selenium", "playwright"}, d \in Directions, k \in Distances, s \in Searches, w \in Ways :
          ScrollElement(p, e, d, k, s, w)

ScrollNext ==
    \/ scroll.pc = "idle" /\ Calls
    \/ CenterElementInView \/ ScrollWithJavascript \/ ScrollWithActionChains \/ ScrollWithKeystrokes
    \/ ScrollRaises \/ PlaywrightScroll \/ ContainersMove \/ Glide

ScrollSpec == ScrollInit /\ [][ScrollNext]_scrollVars

-----------------------------------------------------------------------------
(* Whatever the strategy, the built-in search gives an element that can be *)
(* scrolled in the asked direction when there is one (first part).  From   *)
(* the return of scroll_element on its element is never found moved        *)
(* against the direction or along the other axis, and it has gone all the  *)
(* way when JavaScript sent the scroll and the browser has come to rest,   *)
(* also after keys and wheel turns that were sent before something raised  *)
(* (second part).  The call itself only waits for half a second, and may   *)
(* return before that.                                                     *)
ScrollsWhatScrolls ==
    /\ scroll.pc \notin {"idle", "failed"} /\ scroll.engine = "selenium" /\ scroll.search \notin {"off", "javascript"} =>
          LET moves == {n \in Inside(layout) : layout.box[n].overflow # "visible"
                                               /\ \E a \in Axes(scroll.direction) : layout.box[n].over[a] > 0}
          IN  scroll.target \in moves \/ moves = {}
    /\ scroll.pc = "done" =>
          LET before == layout.start[scroll.target]
              now == position[scroll.target]
              a == Axis(scroll.direction)
              gone == IF scroll.direction \in {"Down", "Right"} THEN now[a] - before[a] ELSE before[a] - now[a]
          IN  /\ \A b \in {"x", "y"} \ {a} : now[b] = before[b]
              /\ gone >= 0
              /\ scroll.way = "javascript" /\ gliding[scroll.target] = 0 =>
                    gone >= scroll.distance \/ Room(scroll.target, scroll.direction) = 0
=============================================================================
