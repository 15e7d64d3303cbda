------------------------------ MODULE HtmlCleaning ------------------------------
(***************************************************************************)
(* clean_html (html_utils/sanitization.py) and collapse_repeated_tags: the *)
(* passes over a parsed page, in their order, each one over the list of    *)
(* elements it took at its start.                                          *)
(***************************************************************************)
EXTENDS HtmlTree

CONSTANTS
    CleanPages,     \* the pages to clean
    CleanOptions    \* the arguments to clean them with

VARIABLES
    cleanPc,    \* "idle", the passes, "done" or "value_error"
    input,      \* the page as it was parsed
    page,       \* the page now
    opts        \* the arguments
cleanVars == <<cleanPc, input, page, opts>>

CleanInit == cleanPc = "idle" /\ input = EmptyPage /\ page = EmptyPage /\ opts = <<>>

Rules(o) == ActiveRules(o.rules, o.trigger, o.flags)
Global(sets) == ActiveRules(sets, "", {})

StartCleaning(p, o) ==
    /\ input' = p /\ page' = p /\ opts' = o
    /\ cleanPc' = IF RuleSetsOK(o.rules, o.trigger) /\ RuleSetsOK(o.hidden, "") /\ RuleSetsOK(o.disabled, "")
                  THEN "remove" ELSE "value_error"

Pass(from, to, result) ==
    /\ cleanPc = from /\ cleanPc' = to /\ page' = result /\ UNCHANGED <<input, opts>>

DecomposeAll(p, nodes) == FoldLeft(LAMBDA q, n : Decompose(q, n), p, nodes)

RemoveTags == Pass("remove", "hidden", DecomposeAll(page, Find(page, {n \in Nodes(page) : page.tag[n] \in opts.remove})))

(* Without active rules of its own the hidden check is still made, the     *)
(* disabled check is not.                                                  *)
HiddenOrDisabled(p, n) ==
    \/ opts.checkHidden /\ ByRules(p, n, Global(opts.hidden), IsHidden(p, n))
    \/ Global(opts.disabled) # <<>> /\ ByRules(p, n, Global(opts.disabled), IsDisabled(p, n))

RemoveHiddenOrDisabled ==
    Pass("hidden", "marks", DecomposeAll(page, Find(page, {n \in Nodes(page) : HiddenOrDisabled(page, n)})))

(* A tag with marks becomes one string: what was below it is lost, links   *)
(* and buttons included.                                                   *)
Marked(p, n) == <<"mark">> \o GetText(p, n) \o <<"mark">>
ReplaceTag(p, t) ==
    FoldLeft(LAMBDA q, n : ReplaceByString(q, n, Marked(q, n)), p, Find(p, {n \in Nodes(p) : p.tag[n] = t}))

ReplaceByMarks == Pass("marks", "clean", FoldLeft(ReplaceTag, page, opts.marks))

(* Mutant of CleanElement: keep_elements_with_immediate_text, inverted.    *)
KeepTextInverted(p, n) ==
    IF p.tag[n] \in opts.keepTags THEN KeepAttributes(p, n, opts.attrs)
    ELSE IF HasImmediateText(p, n) /\ ~opts.keepText THEN KeepAttributes(p, n, opts.attrs)
    ELSE IF HasImmediateText(p, n) THEN Unwrap(RemoveImmediateText(p, n), n)
    ELSE Unwrap(p, n)

(* One element of the list taken before the pass.  An element below one    *)
(* that a rule removed has been emptied with it: unwrap raises.            *)
CleanElement(p, n) ==
    LET action == IF Rules(opts) = <<>> THEN "none" ELSE MatchingRule(p, n, Rules(opts))
        keeps == action = "keep" \/ p.tag[n] \in opts.keepTags \/ (HasImmediateText(p, n) /\ opts.keepText)
    IN  IF action = "remove" THEN Decompose(p, n)
        ELSE IF keeps THEN KeepAttributes(p, n, opts.attrs)
        ELSE Unwrap(IF HasImmediateText(p, n) THEN RemoveImmediateText(p, n) ELSE p, n)

CleanElements ==
    /\ LET result == FoldLeft(CleanElement, page, FindAll(page))
           emptied == {n \in ToSet(FindAll(page)) : /\ \E m \in Ancestors(page, n) \ {0} : result.tag[m] = "#gone"
                                                    /\ MatchingRule(result, n, Rules(opts)) # "remove"}
       IN Pass("clean", IF emptied = {} THEN "comments" ELSE "value_error", result)

RemoveComments ==
    Pass("comments", IF opts.collapse = {} THEN "done" ELSE "collapse",
         IF ~opts.comments THEN page
         ELSE FoldSet(LAMBDA n, p : Extract(p, n), page, {n \in Nodes(page) : page.tag[n] = "#comment"}))

-----------------------------------------------------------------------------
(* collapse_repeated_tags, bottom-up.  replaced_map is a dict whose keys   *)
(* are tags: they hash by the text they had when they were stored, and     *)
(* equal tags are one key.                                                 *)

EntryOf(c, n) ==
    {e \in c.map : e.hash = Shape(c.page, n) /\ (e.key = n \/ Shape(c.page, e.key) = Shape(c.page, n))}

Replacement(c, n) == IF EntryOf(c, n) = {} THEN n ELSE (CHOOSE e \in EntryOf(c, n) : TRUE).value

Store(c, n, value) ==
    [c EXCEPT !.map = IF EntryOf(c, n) = {} THEN @ \cup {[key |-> n, hash |-> Shape(c.page, n), value |-> value]}
                      ELSE {IF e \in EntryOf(c, n) THEN [e EXCEPT !.value = value] ELSE e : e \in @}]

(* The children of n, each replaced, are appended to the emptied n.        *)
ReplaceChildren(c, n) ==
    LET new == [i \in DOMAIN c.page.kids[n] |->
                   IF IsString(c.page, c.page.kids[n][i]) THEN c.page.kids[n][i] ELSE Replacement(c, c.page.kids[n][i])]
    IN IF TagKids(c.page, n) = <<>> THEN c
       ELSE [c EXCEPT !.page = FoldLeft(LAMBDA p, k : AppendTo(p, n, k), [@ EXCEPT !.kids[n] = <<>>], new)]

Collapses(p, n) ==
    /\ n # 0 /\ p.tag[n] \in opts.collapse
    /\ Len(TagKids(p, n)) = 1 /\ p.tag[TagKids(p, n)[1]] \in opts.collapse
    /\ GetImmediateText(p, n) = <<>>

CollapseNode(c, n) ==
    LET d == ReplaceChildren(c, n)
        child == TagKids(d.page, n)[1]
    IN IF n # 0 /\ IsString(c.page, n) THEN c
       ELSE IF n = 0 THEN d
       ELSE IF ~Collapses(d.page, n) THEN Store(d, n, n)
       ELSE Store([d EXCEPT !.page = MergeAttributes(@, n, child, opts.exclude)], n, child)

CollapseRepeatedTags ==
    Pass("collapse", "done", FoldLeft(CollapseNode, [page |-> page, map |-> {}], PostOrder(page, 0)).page)

CleanNext ==
    \/ cleanPc = "idle" /\ \E p \in CleanPages, o \in CleanOptions : StartCleaning(p, o)
    \/ RemoveTags \/ RemoveHiddenOrDisabled \/ ReplaceByMarks \/ CleanElements
    \/ RemoveComments \/ CollapseRepeatedTags

-----------------------------------------------------------------------------
(* What the passes are asked to take out: an element, with all below it.   *)
InMarks(n) == \E m \in Ancestors(input, n) \ {0} : input.tag[m] \in ToSet(opts.marks)
TakenOut(n) ==
    \E m \in (Ancestors(input, n) \cup {n}) \ {0} :
        \/ input.tag[m] \in opts.remove
        \/ ~IsString(input, m) /\ HiddenOrDisabled(input, m)
        \/ ~IsString(input, m) /\ ~InMarks(m) /\ input.tag[m] \notin ToSet(opts.marks)
              /\ MatchingRule(input, m, Rules(opts)) = "remove"

AskedText == WordsOf(input, SelectSeq(Below(input, 0), LAMBDA n : ~TakenOut(n)))
CleanedText == SelectSeq(GetText(page, 0), LAMBDA w : w # "mark")
NoWordTwice(s) == \A i, j \in DOMAIN s : s[i] = s[j] => i = j

(* No pass loses or doubles a visible word or changes the order of the     *)
(* text, whatever is unwrapped, replaced and collapsed.  Two elements that *)
(* print alike are one key for the collapsing, which drops or moves one of *)
(* them, so a text that is on the page twice may be there once afterwards. *)
CleaningKeepsText ==
    cleanPc = "done" /\ opts.keepText =>
        /\ ToSet(CleanedText) = ToSet(AskedText)
        /\ NoWordTwice(AskedText) => CleanedText = AskedText
=============================================================================
