------------------------------ MODULE HtmlChanges ------------------------------
(***************************************************************************)
(* extract_incremental_html_change (html_utils/element_identification.py): *)
(* what of a page was not on the page before an action.  The agent is      *)
(* shown that part only, so an element missing from it does not exist for  *)
(* the agent.                                                              *)
(***************************************************************************)
EXTENDS HtmlTree

CONSTANTS
    ComparedPages,  \* the pairs <<page before, page after>>
    ChangeOptions   \* the arguments of the extraction

ElementKids(p, n) == {k \in ToSet(p.kids[n]) : ~IsString(p, k)}
ASSUME ChangesAssumption ==
    \A pages \in ComparedPages, i \in {1, 2} : IsParsed(pages[i]) /\ ElementKids(pages[i], 0) # {}

VARIABLES
    changePc,   \* "idle", "signatures", "elements", "thresholds", "done" or "value_error"
    before,     \* the page before, and
    after,      \*   after the action
    how,        \* the arguments
    seen,       \* the signatures of the page before
    kept        \* the nodes of the page after that are in the incremental tree
changeVars == <<changePc, before, after, how, seen, kept>>

ChangeInit ==
    changePc = "idle" /\ before = EmptyPage /\ after = EmptyPage /\ how = <<>> /\ seen = {} /\ kept = {}

(* Only the first element of a text is compared: parse_html_string.        *)
Root(p) == p.kids[0][Min({i \in DOMAIN p.kids[0] : ~IsString(p, p.kids[0][i])})]
ElementsOf(p) == {n \in {Root(p)} \cup Descendants(p, Root(p)) : ~IsString(p, n)}

(* get_element_signature without the children.                             *)
Signature(p, n, o) ==
    <<p.tag[n], SortedAttributes(p, n, o.ignore), IF o.text THEN GetImmediateText(p, n) ELSE <<>>>>

Percent == 0 .. 100
StartExtraction(pages, o) ==
    /\ before' = pages[1] /\ after' = pages[2] /\ how' = o
    /\ changePc' = IF {o.maxRelative, o.minRelative} \subseteq Percent /\ {o.maxAbsolute, o.minAbsolute} \subseteq Nat
                   THEN "signatures" ELSE "value_error"
    /\ UNCHANGED <<seen, kept>>

CollectSignatures ==
    /\ changePc = "signatures" /\ changePc' = "elements"
    /\ seen' = {Signature(before, n, how) : n \in ElementsOf(before)}
    /\ UNCHANGED <<before, after, how, kept>>

IsUnseen(p, n) == Signature(p, n, how) \notin seen

(* Mutant of Incremental: only the children of an element are looked at.   *)
ChildrenOnly(p, n) ==
    UNION {{n, k} \cup Descendants(p, k) : k \in {k \in {n} \cup ElementKids(p, n) : IsUnseen(p, k)}}

(* find_new_elements_recursive: a new element is kept with all below it,   *)
(* another one when something below it is and it has an element below it:  *)
(* its own text is enough for that, whether or not anything is new.        *)
Incremental(p, n) ==
    LET inc[m \in Nodes(p)] ==
            LET strings == {k \in ToSet(p.kids[m]) : p.tag[k] \in {"#text", "#comment"} /\ how.keepText}
                below == UNION {inc[k] : k \in ElementKids(p, m)}
            IN IF IsUnseen(p, m) THEN {m} \cup Descendants(p, m)
               ELSE IF strings \cup below # {} /\ ElementKids(p, m) # {} THEN {m} \cup strings \cup below
               ELSE {}
    IN inc[n]

FindIncrementalElements ==
    /\ changePc = "elements" /\ changePc' = "thresholds"
    /\ kept' = Incremental(after, Root(after))
    /\ UNCHANGED <<before, after, how, seen>>

(* The snippet, with the kept nodes: copies of the strings of unchanged    *)
(* elements are plain strings, a comment among them too.                   *)
Unchanged(p, n) == ~IsString(p, n) /\ ~IsUnseen(p, n)
Snippet ==
    [after EXCEPT !.kids = [m \in DOMAIN @ |-> SelectSeq(@[m], LAMBDA k : k \in kept)],
                  !.tag = [n \in DOMAIN @ |->
                      IF @[n] = "#comment" /\ \A m \in Ancestors(after, n) \ {0} : Unchanged(after, m)
                      THEN "#text" ELSE @[n]]]

(* The length of a text, in words, an element counting for two.            *)
Size(p, n) == LET all == Below(p, n) IN FoldLeft(LAMBDA s, k : s + Len(p.words[k]) + 2, 2, all)

(* The thresholds: one that is zero is off.  The whole page is the answer  *)
(* when nothing is kept or a threshold is missed.                          *)
WithinThresholds(part, whole) ==
    /\ how.maxRelative # 0 => part * 100 < how.maxRelative * whole
    /\ how.minRelative # 0 => part * 100 >= how.minRelative * whole
    /\ how.maxAbsolute # 0 => part < how.maxAbsolute
    /\ how.minAbsolute # 0 => part >= how.minAbsolute

ApplyThresholds ==
    /\ changePc = "thresholds" /\ changePc' = "done"
    /\ kept' = IF kept # {} /\ WithinThresholds(Size(Snippet, Root(after)), Size(after, 0)) THEN kept ELSE Nodes(after)
    /\ UNCHANGED <<before, after, how, seen>>

ChangesNext ==
    \/ changePc = "idle" /\ \E pages \in ComparedPages, o \in ChangeOptions : StartExtraction(pages, o)
    \/ CollectSignatures \/ FindIncrementalElements \/ ApplyThresholds

ChangesSpec == ChangeInit /\ [][ChangesNext]_changeVars

-----------------------------------------------------------------------------
(* No element that the action brought is withheld from the agent: one that *)
(* differs from every element of the page before in name, attributes (ids  *)
(* and the order of a class's words aside) or own text is shown, with all  *)
(* that is below it, and so are the elements it is in, whatever the        *)
(* thresholds say.                                                         *)
IsNew(n) ==
    \A m \in ElementsOf(before) :
        \/ before.tag[m] # after.tag[n]
        \/ \E a \in (DOMAIN before.attrs[m] \cup DOMAIN after.attrs[n]) \ how.ignore :
              ~Has(before, m, a) \/ ~Has(after, n, a) \/ Value(before, m, a) # Value(after, n, a)
        \/ how.text /\ GetImmediateText(before, m) # GetImmediateText(after, n)

NothingNewWithheld ==
    changePc \in {"thresholds", "done"} =>
        \A n \in ElementsOf(after) :
            IsNew(n) => {n} \cup Descendants(after, n) \cup (Ancestors(after, n) \ {0}) \subseteq kept
=============================================================================
