-------------------------------- MODULE HtmlTree --------------------------------
(***************************************************************************)
(* A parsed page (a BeautifulSoup tree) and the helpers of html_utils that *)
(* read and change it.  A page is a record of functions over its nodes:    *)
(*   kids   node -> its contents, 0 being the document                     *)
(*   tag    node -> its name, "#text", "#blank" (only whitespace),         *)
(*          "#comment", or "#gone" once it was decomposed                  *)
(*   words  node -> the words of a string                                  *)
(*   attrs  node -> attribute name -> the words of the value               *)
(* A node keeps its number when it moves: BeautifulSoup moves objects.     *)
(***************************************************************************)
EXTENDS Naturals, Sequences, SequencesExt, FiniteSets, FiniteSetsExt, Functions

NoAttrs == [a \in {} |-> <<>>]
EmptyPage == [kids |-> [n \in {0} |-> <<>>], tag |-> [n \in {} |-> ""],
              words |-> [n \in {} |-> <<>>], attrs |-> [n \in {} |-> NoAttrs]]
Strings == {"#text", "#blank", "#comment"}
Nodes(p) == DOMAIN p.tag
IsString(p, n) == p.tag[n] \in Strings
TagsIn(tag, nodes) == SelectSeq(nodes, LAMBDA k : tag[k] \notin Strings)
TagKids(p, n) == TagsIn(p.tag, p.kids[n])

(* What is below an element: as a set, in document order, and the list of  *)
(* an element and what is below it, an element after what is below it.     *)
Descendants(p, n) ==
    LET below[m \in DOMAIN p.kids] == UNION {{k} \cup below[k] : k \in ToSet(p.kids[m])}
    IN below[n]
Under(kids, n) ==
    LET below[m \in DOMAIN kids] == FlattenSeq([i \in DOMAIN kids[m] |-> <<kids[m][i]>> \o below[kids[m][i]]])
    IN below[n]
Below(p, n) == Under(p.kids, n)
PostOrder(p, n) ==
    LET order[m \in DOMAIN p.kids] == FlattenSeq([i \in DOMAIN p.kids[m] |-> order[p.kids[m][i]]]) \o <<m>>
    IN order[n]

FindAll(p) == TagsIn(p.tag, Below(p, 0))
Find(p, wanted) == SelectSeq(FindAll(p), LAMBDA k : k \in wanted)
Parents(p, n) == {m \in DOMAIN p.kids : n \in ToSet(p.kids[m])}
Ancestors(p, n) == {m \in DOMAIN p.kids : n \in Descendants(p, m)}

(* What the parser makes: nodes with one parent, which comes before them,  *)
(* strings with nothing below them.                                        *)
IsParsed(p) ==
    /\ DOMAIN p = {"kids", "tag", "words", "attrs"}
    /\ IsFiniteSet(Nodes(p)) /\ Nodes(p) = 1 .. Cardinality(Nodes(p))
    /\ DOMAIN p.attrs = Nodes(p) /\ DOMAIN p.words = Nodes(p) /\ DOMAIN p.kids = {0} \cup Nodes(p)
    /\ \A n \in DOMAIN p.kids : p.kids[n] \in Seq(Nodes(p)) /\ \A k \in ToSet(p.kids[n]) : n < k
    /\ \A m, n \in DOMAIN p.kids : ToSet(p.kids[m]) \cap ToSet(p.kids[n]) # {} => m = n
    /\ \A n \in Nodes(p) : IsString(p, n) => p.kids[n] = <<>>

(* get_text: the strings below an element that are not comments.           *)
WordsOf(p, nodes) == FlattenSeq([i \in DOMAIN nodes |-> IF p.tag[nodes[i]] = "#text" THEN p.words[nodes[i]] ELSE <<>>])
GetText(p, n) == WordsOf(p, Below(p, n))

-----------------------------------------------------------------------------
(* Moving nodes *)

Extract(p, n) ==
    [p EXCEPT !.kids = [m \in DOMAIN @ |-> IF n \in ToSet(@[m]) THEN SelectSeq(@[m], LAMBDA k : k # n) ELSE @[m]]]

AppendTo(p, m, n) == [Extract(p, n) EXCEPT !.kids[m] = Append(@, n)]

(* decompose: the element and everything below it are emptied.             *)
Decompose(p, n) ==
    LET lost == {n} \cup ToSet(Below(p, n))
        q == Extract(p, n)
    IN [q EXCEPT !.kids = [m \in DOMAIN @ |-> IF m \in lost THEN <<>> ELSE @[m]],
                 !.tag = [m \in DOMAIN @ |-> IF m \in lost THEN "#gone" ELSE @[m]],
                 !.attrs = [m \in DOMAIN @ |-> IF m \in lost THEN NoAttrs ELSE @[m]]]

Unwrap(p, n) ==
    [p EXCEPT !.kids = [m \in DOMAIN @ |->
        IF m = n THEN <<>>
        ELSE FlattenSeq([i \in DOMAIN @[m] |-> IF @[m][i] = n THEN p.kids[n] ELSE <<@[m][i]>>])]]

ReplaceByString(p, n, ws) ==
    [p EXCEPT !.tag[n] = "#text", !.words[n] = ws, !.kids[n] = <<>>]

-----------------------------------------------------------------------------
(* Text and attributes of one element *)

(* A comment is a string like any other here.                              *)
HasImmediateText(p, n) == \E k \in ToSet(p.kids[n]) : p.tag[k] \in {"#text", "#comment"}

GetImmediateText(p, n) ==
    FlattenSeq([i \in DOMAIN p.kids[n] |-> IF IsString(p, p.kids[n][i]) THEN p.words[p.kids[n][i]] ELSE <<>>])

(* The strings are taken out while the list is being walked, so the one    *)
(* that follows a removed string is stepped over.                          *)
RemovedStrings(p, kids) ==
    LET removed[i \in 1 .. Len(kids) + 2] ==
            IF i > Len(kids) THEN {}
            ELSE IF IsString(p, kids[i]) THEN {kids[i]} \cup removed[i + 2]
            ELSE removed[i + 1]
    IN removed[1]

RemoveImmediateText(p, n) == FoldSet(LAMBDA k, q : Extract(q, k), p, RemovedStrings(p, p.kids[n]))

NamesExcluding(p, n, kept) == DOMAIN p.attrs[n] \ kept
KeepAttributes(p, n, kept) == [p EXCEPT !.attrs[n] = Restrict(@, DOMAIN @ \ NamesExcluding(p, n, kept))]

HasValue(p, n, name, word) == name \in DOMAIN p.attrs[n] /\ word \in ToSet(p.attrs[n][name])
Has(p, n, name) == name \in DOMAIN p.attrs[n]

IsHidden(p, n) ==
    \/ Has(p, n, "hidden")
    \/ HasValue(p, n, "aria-hidden", "true")
    \/ HasValue(p, n, "style", "none")             \* display:none, visibility:hidden
    \/ HasValue(p, n, "class", "hidden")

IsDisabled(p, n) ==
    IF Has(p, n, "disabled") THEN ~HasValue(p, n, "disabled", "false")
    ELSE \/ HasValue(p, n, "aria-disabled", "true")
         \/ Has(p, n, "readonly")
         \/ HasValue(p, n, "aria-readonly", "true")

(* merge_attribute_values: by words for the list-like attributes, by       *)
(* containment and concatenation for the others.                           *)
ListLike == {"class", "rel"}
MergeValues(name, outer, inner) ==
    IF name \in ListLike THEN SelectSeq(outer, LAMBDA w : w \notin ToSet(inner)) \o inner
    ELSE IF ToSet(outer) \subseteq ToSet(inner) THEN inner
    ELSE IF ToSet(inner) \subseteq ToSet(outer) THEN outer
    ELSE outer \o inner

(* merge_attributes: those of the outer element go to the inner one.       *)
MergeAttributes(p, outer, inner, excluded) ==
    [p EXCEPT !.attrs[inner] =
        [a \in DOMAIN @ \cup (DOMAIN p.attrs[outer] \ excluded) |->
            IF a \notin DOMAIN p.attrs[outer] \ excluded THEN @[a]
            ELSE IF a \notin DOMAIN @ THEN p.attrs[outer][a]
            ELSE MergeValues(a, p.attrs[outer][a], @[a])]]

-----------------------------------------------------------------------------
(* Rules: partial records of "returns", "tags", "attributes", "pattern",   *)
(* "flags".  A pattern stands for the set of words it finds.               *)

Wildcard(r) == "*" \in r.tags
Field(r, f) == f \in DOMAIN r

ValidRule(r) ==
    /\ {"returns", "tags"} \subseteq DOMAIN r /\ r.returns # "" /\ r.tags # {}
    /\ ~Wildcard(r) => {"attributes", "pattern"} \subseteq DOMAIN r
    /\ Field(r, "pattern") => r.pattern # {}

ValidRuleSet(rules) == rules # <<>> /\ \A i \in DOMAIN rules : ValidRule(rules[i])

ActiveIn(rules, flags) == SelectSeq(rules, LAMBDA r : Field(r, "flags") => r.flags \cap flags # {})

(* get_active_rules: the global rules, then those of the set to trigger;   *)
(* a ValueError when that set is missing or one of the two is not valid.   *)
UsedSets(sets, trigger) == ({"__global__"} \cap DOMAIN sets) \cup (IF trigger = "" THEN {} ELSE {trigger})
RuleSetsOK(sets, trigger) ==
    DOMAIN sets # {} =>
        \A name \in UsedSets(sets, trigger) : name \in DOMAIN sets /\ ValidRuleSet(sets[name])

ActiveRules(sets, trigger, flags) ==
    LET From(name) == IF name \in UsedSets(sets, trigger) THEN ActiveIn(sets[name], flags) ELSE <<>>
    IN IF DOMAIN sets = {} THEN <<>>
       ELSE From("__global__") \o (IF trigger = "__global__" THEN <<>> ELSE From(trigger))

RuleMatches(p, n, r) ==
    /\ Wildcard(r) \/ p.tag[n] \in r.tags
    /\ \/ ~Field(r, "attributes") \/ r.attributes = {}
       \/ \E a \in DOMAIN p.attrs[n] \cap r.attributes : ToSet(p.attrs[n][a]) \cap r.pattern # {}

(* is_element_matching_rule_set: the first rule that matches decides.      *)
MatchingRule(p, n, rules) ==
    LET m == {i \in DOMAIN rules : RuleMatches(p, n, rules[i])}
    IN IF m = {} THEN "none" ELSE rules[Min(m)].returns

(* is_element_hidden_, is_element_disabled_: a rule first, then the check. *)
ByRules(p, n, rules, otherwise) ==
    CASE MatchingRule(p, n, rules) = "keep" -> FALSE
      [] MatchingRule(p, n, rules) = "remove" -> TRUE
      [] OTHER -> otherwise

(* compare_elements: the whole text of both counts.                        *)
SameButChildren(p, n, q, m, ignore) ==
    /\ p.tag[n] = q.tag[m] /\ GetText(p, n) = GetText(q, m)
    /\ Restrict(p.attrs[n], DOMAIN p.attrs[n] \ ignore) = Restrict(q.attrs[m], DOMAIN q.attrs[m] \ ignore)

SameElement(p, n, q, m, ignore, children) ==
    LET Kids(r, a) == SelectSeq(r.kids[a], LAMBDA k : r.tag[k] # "#blank")
        same[pair \in Nodes(p) \X Nodes(q)] ==
            LET a == Kids(p, pair[1])
                b == Kids(q, pair[2])
            IN /\ SameButChildren(p, pair[1], q, pair[2], ignore)
               /\ Len(a) = Len(b)
               /\ \A i \in DOMAIN a :
                    IF IsString(p, a[i]) \/ IsString(q, b[i])
                    THEN IsString(p, a[i]) /\ IsString(q, b[i]) /\ p.words[a[i]] = q.words[b[i]]
                    ELSE same[<<a[i], b[i]>>]
    IN SameButChildren(p, n, q, m, ignore) /\ (children => same[<<n, m>>])

(* The attributes as get_element_signature has them: the words of a class  *)
(* are sorted, so it matters only how often each is there.                 *)
Sorted(ws) == [w \in ToSet(ws) |-> Cardinality({i \in DOMAIN ws : ws[i] = w})]
Value(p, n, a) == IF a \in ListLike THEN Sorted(p.attrs[n][a]) ELSE p.attrs[n][a]
SortedAttributes(p, n, ignore) == [a \in DOMAIN p.attrs[n] \ ignore |-> Value(p, n, a)]

(* Two tags are equal, and hash alike, when they print alike.              *)
Shape(p, n) ==
    LET shape[m \in Nodes(p)] ==
            <<p.tag[m], p.attrs[m], p.words[m], [i \in DOMAIN p.kids[m] |-> shape[p.kids[m][i]]]>>
    IN shape[n]
=============================================================================
