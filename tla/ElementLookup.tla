------------------------------ MODULE ElementLookup ------------------------------
(***************************************************************************)
(* From an element the agent was shown back to the element of the live     *)
(* page: by the index that add_unique_index_to_elements gave it, or by its *)
(* html (find_element_by_html), while the page goes on changing between    *)
(* the snapshot, the model's answer and the actions of a sequence.  A node *)
(* keeps its number, so the numbers say which element is which.            *)
(***************************************************************************)
EXTENDS HtmlTree

CONSTANTS
    LivePages,      \* pages, with spare nodes that are not on them yet
    LiveNames,      \* attributes answered from the state of the element, not from the markup
    LiveAnswers,    \* what such an attribute may be answered: {} is no answer, {w} the words w
    MaxPageChanges  \* how often a page changes in one behaviour

ASSUME LookupAssumption ==
    /\ MaxPageChanges \in Nat
    /\ LiveNames \cap {"__id__", "href"} = {}
    /\ \A p \in LivePages :
         /\ DOMAIN p = {"kids", "tag", "words", "attrs"}
         /\ DOMAIN p.attrs = Nodes(p)
         /\ \A n \in Nodes(p) : /\ IsFiniteSet(DOMAIN p.attrs[n])
                                /\ \A a \in DOMAIN p.attrs[n] : p.attrs[n][a] \in Seq(ToSet(p.attrs[n][a]))

VARIABLES
    lookPc,     \* "idle", "loaded", "shown", "found" or "not_found"
    live,       \* the page in the browser
    props,      \* and its state: what an <<element, attribute>> answers other than the markup says
    shot,       \* the page as it was shown last
    way,        \* the lookup: "index" or "html"
    asked,      \* the element that was looked for, and
    found,      \*   the one that was found
    doubled,    \* elements whose index the page has put on another one as well
    changes     \* how often the page has changed
lookVars == <<lookPc, live, props, shot, way, asked, found, doubled, changes>>

LookupInit ==
    /\ lookPc = "idle" /\ live = EmptyPage /\ props = <<>> /\ shot = EmptyPage
    /\ asked = 0 /\ way = "none" /\ found = 0 /\ doubled = {} /\ changes = 0

IdentifyingAttributes == <<"id", "aria-label", "class">>

OnPage(p, n) == n \in ToSet(Below(p, 0))
AllElements(p) == {n \in Nodes(p) : n \in ToSet(FindAll(p))}
Place(p, n) == CHOOSE i \in DOMAIN FindAll(p) : FindAll(p)[i] = n
First(p, nodes) == CHOOSE n \in nodes : \A m \in nodes \ {n} : Place(p, n) < Place(p, m)
Index(p, n) == IF Has(p, n, "__id__") THEN p.attrs[n]["__id__"] ELSE <<>>

LoadPage(p) ==
    /\ lookPc = "idle" /\ lookPc' = "loaded" /\ live' = p
    /\ UNCHANGED <<props, shot, way, asked, found, doubled, changes>>

(* Every element gets its place as index, whatever it had.                 *)
AddUniqueIndex(p) ==
    [p EXCEPT !.attrs = [n \in DOMAIN @ |->
        IF n \notin AllElements(p) THEN @[n]
        ELSE [a \in DOMAIN @[n] \cup {"__id__"} |-> IF a = "__id__" THEN <<Place(p, n)>> ELSE @[n][a]]]]

(* The end of WebDriver.__call__, outside a sequence.                      *)
IndexAndShow ==
    /\ lookPc \in {"loaded", "found", "not_found"} /\ lookPc' = "shown"
    /\ live' = AddUniqueIndex(live) /\ shot' = AddUniqueIndex(live)
    /\ asked' = 0 /\ found' = 0 /\ way' = "none" /\ doubled' = {}
    /\ UNCHANGED <<props, changes>>

(* Mutant of ContinueSequence: the index is renewed after every action.    *)
ReindexesInSequence ==
    /\ lookPc = "found" /\ lookPc' = "shown" /\ live' = AddUniqueIndex(live)
    /\ asked' = 0 /\ found' = 0 /\ way' = "none"
    /\ UNCHANGED <<props, shot, doubled, changes>>

(* The next action of the sequence comes from the same answer of the model *)
(* (ongoing_sequence_actions), so its targets are those shown before.      *)
ContinueSequence ==
    /\ lookPc = "found" /\ lookPc' = "shown"
    /\ asked' = 0 /\ found' = 0 /\ way' = "none"
    /\ UNCHANGED <<live, props, shot, doubled, changes>>

(* An element that was off the page during the last indexing comes with    *)
(* the index it had before, and so does everything in it.                  *)
PageChanges(p) ==
    /\ lookPc = "shown" /\ changes < MaxPageChanges
    /\ live' = p /\ changes' = changes + 1
    /\ LET came == AllElements(p) \ AllElements(live)
       IN doubled' = doubled \cup
            {m \in Nodes(shot) : \E k \in came \ {m} : Index(p, k) # <<>> /\ Index(p, k) = Index(shot, m)}
    /\ UNCHANGED <<lookPc, props, shot, way, asked, found>>

(* A box is checked, a field is filled in: no markup changes.  (What no    *)
(* element shows is never asked for.)                                      *)
StateChanges(n, name, answer) ==
    /\ lookPc = "shown" /\ n \in AllElements(live) /\ changes < MaxPageChanges
    /\ \E m \in AllElements(shot) : Has(shot, m, name)
    /\ props' = [e \in DOMAIN props \cup {<<n, name>>} |-> IF e = <<n, name>> THEN answer ELSE props[e]]
    /\ changes' = changes + 1
    /\ UNCHANGED <<lookPc, live, shot, way, asked, found, doubled>>

Insert(p, n, first) ==
    LET top == FindAll(p)[1]
    IN [p EXCEPT !.kids[top] = IF first THEN <<n>> \o @ ELSE @ \o <<n>>]
CopyTo(p, k, n) ==
    [kids |-> p.kids, words |-> p.words, tag |-> [p.tag EXCEPT ![k] = p.tag[n]],
     attrs |-> [p.attrs EXCEPT ![k] = p.attrs[n]]]

PageAdds(n, first) == ~OnPage(live, n) /\ PageChanges(Insert(Extract(live, n), n, first))
PageRemoves(n) == OnPage(live, n) /\ n # FindAll(live)[1] /\ PageChanges(Extract(live, n))
PageCopies(n, k, first) ==
    /\ n \in AllElements(live) /\ k \in Nodes(live) \ AllElements(live) /\ ~IsString(live, k)
    /\ PageChanges(Insert(Extract(CopyTo(live, k, n), k), k, first))

-----------------------------------------------------------------------------
(* Lookups *)

ByIndex(n) == {m \in AllElements(live) : Index(live, m) = Index(shot, n)}

(* get_attribute gives the property where there is one: a relative link    *)
(* comes back resolved, a box that is not checked answers nothing.       *)
GetAttribute(m, name) ==
    IF name \in LiveNames /\ <<m, name>> \in DOMAIN props THEN props[<<m, name>>]
    ELSE IF ~Has(live, m, name) THEN {}
    ELSE IF name = "href" THEN {<<"resolved">>}
    ELSE {live.attrs[m][name]}

FindElementsByXPath(tag, words) ==
    {m \in AllElements(live) : live.tag[m] = tag /\ words \subseteq ToSet(GetText(live, m))}

(* One attribute of the target narrows the elements, word by word, until   *)
(* at most one is left.  A word nobody has ends the search when the        *)
(* attribute is an identifying one and is passed over otherwise.           *)
AtMostOne(nodes) == \A m, n \in nodes : m = n
Narrow(nodes, name, words) ==
    LET Having(k) == {m \in nodes : \E said \in GetAttribute(m, name) : \A i \in 1 .. k : words[i] \in ToSet(said)}
        enough == {k \in 0 .. Len(words) : AtMostOne(Having(k))}
        narrowed == Having(IF enough = {} THEN Len(words) ELSE Min(enough))
    IN IF narrowed = {} /\ name \notin ToSet(IdentifyingAttributes) THEN Having(0) ELSE narrowed

(* The identifying attributes first, the others in any order.              *)
OtherAttributes(n) == DOMAIN shot.attrs[n] \ ToSet(IdentifyingAttributes)
InAnyOrder(names) == {s \in [1 .. Cardinality(names) -> names] : ToSet(s) = names}

FindElementByHtml(n, order) ==
    LET byText == FindElementsByXPath(shot.tag[n], ToSet(GetText(shot, n)))
        names == IdentifyingAttributes \o order
        left[i \in 0 .. Len(names)] ==
            IF i = 0 THEN IF byText # {} THEN byText ELSE FindElementsByXPath(shot.tag[n], {})
            ELSE IF AtMostOne(left[i - 1]) \/ ~Has(shot, n, names[i]) THEN left[i - 1]
            ELSE Narrow(left[i - 1], names[i], shot.attrs[n][names[i]])
    IN left[Len(names)]

(* The first one, in the order of the page.                                *)
Look(n, name, nodes) ==
    /\ lookPc = "shown" /\ n \in AllElements(shot)
    /\ asked' = n /\ way' = name
    /\ IF nodes = {} THEN lookPc' = "not_found" /\ found' = 0 ELSE lookPc' = "found" /\ found' = First(live, nodes)
    /\ UNCHANGED <<live, props, shot, doubled, changes>>

FindByIndex(n) == Look(n, "index", ByIndex(n))
FindByHtml(n) ==
    lookPc = "shown" /\ n \in AllElements(shot) /\ \E order \in InAnyOrder(OtherAttributes(n)) : Look(n, "html", FindElementByHtml(n, order))

LookupNext ==
    \/ \E p \in LivePages : LoadPage(p)
    \/ IndexAndShow \/ ContinueSequence
    \/ lookPc = "shown" /\ \E n \in Nodes(live) :
          \/ \E first \in BOOLEAN : PageAdds(n, first) \/ \E k \in Nodes(live) : PageCopies(n, k, first)
          \/ \E name \in LiveNames, answer \in LiveAnswers : StateChanges(n, name, answer)
          \/ PageRemoves(n) \/ FindByIndex(n) \/ FindByHtml(n)

LookupSpec == LookupInit /\ [][LookupNext]_lookVars

-----------------------------------------------------------------------------
(* An action lands on the element the agent was shown, or fails: however   *)
(* many actions of the same answer came before and whatever the page adds, *)
(* moves and removes meanwhile, an index never means another element,      *)
(* unless the page itself has put the index on two of them, by a copy or   *)
(* by bringing back what was indexed earlier.  By its html an element is   *)
(* found on the page it was cut from, among any look-alikes and whatever   *)
(* their state, unless its own state has made one of the attributes it was *)
(* shown with answer something else.                                       *)
AsShown(n) == \A name \in LiveNames : Has(shot, n, name) => <<n, name>> \notin DOMAIN props
ActsOnShownElement ==
    lookPc = "found" /\ asked \notin doubled /\ (way = "index" \/ (live = shot /\ AsShown(asked))) => found = asked
=============================================================================
