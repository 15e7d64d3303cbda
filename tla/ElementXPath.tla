------------------------------ MODULE ElementXPath ------------------------------
(***************************************************************************)
(* elements_to_xpath (html_utils/element_identification.py): an XPath for  *)
(* elements of a page, tried on the page before it is handed out.          *)
(*                                                                         *)
(* An XPath is a sequence of steps, each one a test of an element, joined  *)
(* by "//" ("/" when "child"), or one position of the matches of another   *)
(* XPath ("(...)[i]"), or a union.  Which attribute makes the most         *)
(* readable XPath is the scoring's choice: a ranking of attribute names,   *)
(* "text" and "class" among them.                                          *)
(***************************************************************************)
EXTENDS HtmlTree

CONSTANTS
    XPathPages,     \* the pages
    Rankings,       \* the rankings: sequences of attribute names
    ResolutionModes,          \* the resolution modes in use
    MaxDepth,       \* max_depth: how many ancestors an XPath may name
    TextLimit,      \* how many words of a text identify an element without an id
    HashLike,       \* attribute words that look generated
    Generic         \* classes that say nothing of an element

ASSUME XPathAssumption ==
    /\ \A p \in XPathPages : IsParsed(p) /\ Below(p, 0) = [n \in Nodes(p) |-> n]
    /\ ResolutionModes \subseteq {"unique_only", "first_match", "match_by_text", "match_by_html", "match_by_signature"}
    /\ MaxDepth \in Nat /\ TextLimit \in Nat

VARIABLES
    xpathPc,    \* "idle", "one", "several", "union", "done" or "value_error"
    context,    \* the page
    wanted,     \* the elements, in the caller's order
    ranking,    \* how the scoring ranks what it finds on this page
    mode,       \* the resolution mode
    xpath       \* the answer
xpathVars == <<xpathPc, context, wanted, ranking, mode, xpath>>

XPathInit ==
    xpathPc = "idle" /\ context = EmptyPage /\ wanted = <<>> /\ ranking = <<>> /\ mode = "none" /\ xpath = <<>>

-----------------------------------------------------------------------------
(* Steps and what they select *)

Step(tag, name, value) == [tag |-> tag, name |-> name, value |-> value, child |-> FALSE]
AnyOf(tag) == Step(tag, "any", <<>>)

StepMatches(p, n, s) ==
    /\ s.tag \in {"*", p.tag[n]} /\ ~IsString(p, n)
    /\ CASE s.name = "any" -> TRUE
         [] s.name = "text" ->      \* the first text decides, a blank one too
              LET texts == SelectSeq(p.kids[n], LAMBDA k : p.tag[k] \in {"#text", "#blank"})
              IN texts # <<>> /\ p.words[texts[1]] = s.value
         [] s.name = "class" -> Has(p, n, "class") /\ ToSet(s.value) \subseteq ToSet(p.attrs[n]["class"])
         [] s.name = "classes" -> Has(p, n, "class") /\ p.attrs[n]["class"] = s.value
         [] s.name = "type+value" -> Has(p, n, "type") /\ Has(p, n, "value") /\ p.attrs[n]["type"] \o p.attrs[n]["value"] = s.value
         [] OTHER -> Has(p, n, s.name) /\ p.attrs[n][s.name] = s.value

(* What a path reaches from the document, step by step.                    *)
Tags(p) == {n \in Nodes(p) : ~IsString(p, n)}
Matches(p, steps) ==
    LET reached[i \in 0 .. Len(steps)] ==
            IF i = 0 THEN {0}
            ELSE {n \in Tags(p) : /\ StepMatches(p, n, steps[i])
                                  /\ reached[i - 1] \cap (IF steps[i].child THEN Parents(p, n) ELSE Ancestors(p, n)) # {}}
    IN Tags(p) \cap reached[Len(steps)]

(* The numbers are the document order.                                     *)
Rank(nodes, n) == Cardinality({m \in nodes : m <= n})
SelectOne(p, x) ==
    IF x.kind = "path" THEN Matches(p, x.steps)
    ELSE {n \in Matches(p, x.steps) : Rank(Matches(p, x.steps), n) = x.index}
Select(p, x) == IF x.kind = "union" THEN UNION {SelectOne(p, y) : y \in x.of} ELSE SelectOne(p, x)
Path(steps) == [kind |-> "path", steps |-> steps]
Position(steps, i) == [kind |-> "position", steps |-> steps, index |-> i]

-----------------------------------------------------------------------------
(* Candidates *)

IsHashLikeValue(value) == ToSet(value) \cap HashLike # {}
GetElementText(p, n) ==
    LET texts == SelectSeq(Below(p, n), LAMBDA k : p.tag[k] = "#text")
    IN IF texts = <<>> \/ Len(p.words[texts[1]]) > TextLimit THEN <<>> ELSE p.words[texts[1]]

(* _generate_base_xpath: the best first, the bare tag last.  Ids given by  *)
(* the indexing are not used.                                              *)
Named(p, n, name) ==
    CASE name = "text" -> IF GetElementText(p, n) = <<>> THEN <<>> ELSE <<<<Step(p.tag[n], "text", GetElementText(p, n))>>>>
      [] name = "class" ->
            LET said == SelectSeq(IF Has(p, n, "class") THEN p.attrs[n]["class"] ELSE <<>>, LAMBDA c : c \notin Generic)
            IN [i \in 1 .. Min({2, Len(said)}) |-> <<Step(p.tag[n], "class", <<said[i]>>)>>]
      [] name = "type+value" ->
            IF Has(p, n, "type") /\ Has(p, n, "value")
            THEN <<<<Step(p.tag[n], name, p.attrs[n]["type"] \o p.attrs[n]["value"])>>>> ELSE <<>>
      [] OTHER -> IF ~Has(p, n, name) \/ p.attrs[n][name] = <<>> \/ IsHashLikeValue(p.attrs[n][name]) THEN <<>>
                  ELSE <<<<Step(p.tag[n], name, p.attrs[n][name])>>>>

GenerateBaseXPath(p, n) ==
    FlattenSeq([i \in DOMAIN ranking |-> Named(p, n, ranking[i])]) \o <<<<AnyOf(p.tag[n])>>>>

(* _add_parent_context: the best candidate of each of the ancestors, an    *)
(* ancestor having a smaller number.                                       *)
AddParentContext(p, n, steps, depth) ==
    LET above == Ancestors(p, n) \ {0}
        Up(d) == CHOOSE m \in above : Cardinality({k \in above : k >= m}) = d
    IN IF Cardinality(above) < depth THEN <<>>
       ELSE FlattenSeq([i \in 1 .. depth |-> GenerateBaseXPath(p, Up(depth - i + 1))[1]]) \o steps

(* _validate_xpath: as many elements as are wanted, and told apart in the  *)
(* same way: by the indexing's id, or else by name and start of the text.  *)
TextStart(p, n) == SubSeq(GetText(p, n), 1, Min({TextLimit, Len(GetText(p, n))}))
Identifier(p, n) ==
    IF Has(p, n, "__id__") THEN <<"__id__", p.attrs[n]["__id__"]>> ELSE <<"tag_text", p.tag[n], TextStart(p, n)>>

(* Mutant of ValidateXPath: it is enough that the number is right.         *)
CountsOnly(p, x, nodes) == Cardinality(Select(p, x)) = Len(nodes)

ValidateXPath(p, x, nodes) ==
    /\ Cardinality(Select(p, x)) = Len(nodes)
    /\ {Identifier(p, n) : n \in Select(p, x)} = {Identifier(p, n) : n \in ToSet(nodes)}

(* _find_matching_element_position: the first match that looks the same.   *)
LooksSame(p, n, m) ==
    CASE mode = "match_by_text" -> GetText(p, n) = GetText(p, m)
      [] mode = "match_by_html" -> SameElement(p, n, p, m, {}, FALSE)
      [] mode = "match_by_signature" ->
            /\ p.tag[n] = p.tag[m] /\ GetText(p, n) = GetText(p, m)
            /\ SortedAttributes(p, n, {}) = SortedAttributes(p, m, {})

FindMatchingElementPosition(p, steps, n) ==
    LET same == {m \in Matches(p, steps) : LooksSame(p, n, m)}
    IN IF same = {} THEN <<>> ELSE <<Position(steps, Rank(Matches(p, steps), Min(same)))>>

-----------------------------------------------------------------------------
(* One element: the candidates, with ever more ancestors; then the place   *)
(* among the matches of the best one, by id; then the resolution mode.     *)

(* The first answer of Try, which gives none or one, over candidates.      *)
FirstOf(Try(_), candidates) ==
    LET good == {i \in 1 .. Len(candidates) : Try(candidates[i]) # <<>>}
    IN IF good = {} THEN <<>> ELSE Try(candidates[Min(good)])

Valid(p, x, nodes) == IF ValidateXPath(p, x, nodes) THEN <<x>> ELSE <<>>

WithAncestors(p, n, depth) ==
    LET Try(steps) ==
            LET long == AddParentContext(p, n, steps, depth)
            IN IF long = <<>> THEN <<>> ELSE Valid(p, Path(long), <<n>>)
    IN FirstOf(Try, GenerateBaseXPath(p, n))
ByDepth(p, n) == FirstOf(LAMBDA d : WithAncestors(p, n, d - 1), [d \in 1 .. MaxDepth + 1 |-> d])

ByPosition(p, n) ==
    LET best == GenerateBaseXPath(p, n)[1]
        at == {m \in Matches(p, best) : Has(p, m, "__id__") /\ p.attrs[m]["__id__"] = p.attrs[n]["__id__"]}
    IN IF ~Has(p, n, "__id__") \/ at = {} THEN <<>>
       ELSE Valid(p, Position(best, Rank(Matches(p, best), Min(at))), <<n>>)

ByMode(p, n) ==
    CASE mode = "unique_only" -> <<>>
      [] mode = "first_match" -> <<Position(GenerateBaseXPath(p, n)[1], 1)>>
      [] OTHER -> FirstOf(LAMBDA steps : FindMatchingElementPosition(p, steps, n), GenerateBaseXPath(p, n))

SingleXPath(p, n) ==
    LET deep == ByDepth(p, n)
        placed == ByPosition(p, n)
    IN IF deep # <<>> THEN deep ELSE IF placed # <<>> THEN placed ELSE ByMode(p, n)

StartXPath(p, nodes, r, md) ==
    /\ xpathPc' = CASE nodes = <<>> -> "value_error" [] Len(nodes) = 1 -> "one" [] OTHER -> "several"
    /\ context' = p /\ wanted' = nodes /\ ranking' = r /\ mode' = md /\ UNCHANGED xpath

Answer(found, otherwise) ==
    /\ xpathPc' = IF found = <<>> THEN otherwise ELSE "done"
    /\ xpath' = IF found = <<>> THEN xpath ELSE <<found[1]>>
    /\ UNCHANGED <<context, wanted, ranking, mode>>

OneElement == xpathPc = "one" /\ Answer(SingleXPath(context, wanted[1]), "value_error")

-----------------------------------------------------------------------------
(* Several elements: one XPath below their common ancestor, or by an       *)
(* attribute they share; then the union of an XPath each.                  *)

FindCommonAncestor(p, nodes) ==
    LET common == {m \in Ancestors(p, nodes[1]) \ {0} : \A i \in DOMAIN nodes : m \in Ancestors(p, nodes[i])}
    IN {m \in common : common \subseteq {m} \cup Ancestors(p, m)}

GenerateMultiXPath(p, nodes) ==
    LET tags == {p.tag[nodes[i]] : i \in DOMAIN nodes}
        tag == IF Cardinality(tags) = 1 THEN p.tag[nodes[1]] ELSE "*"
        above == FindCommonAncestor(p, nodes)
        prefixes == IF above = {} THEN <<>> ELSE GenerateBaseXPath(p, Min(above))
        Shared(name) == \A i \in DOMAIN nodes : Has(p, nodes[i], name) /\ p.attrs[nodes[i]][name] = p.attrs[nodes[1]][name]
    IN FlattenSeq([i \in 1 .. Min({3, Len(prefixes)}) |->
            <<Append(prefixes[i], [AnyOf(tag) EXCEPT !.child = TRUE]), Append(prefixes[i], AnyOf(tag))>>])
       \o FlattenSeq([i \in 1 .. 3 |->
            LET name == <<"name", "type", "class">>[i]
                tested == IF name = "class" THEN "classes" ELSE name
            IN IF Shared(name) THEN <<<<Step(tag, tested, p.attrs[nodes[1]][name])>>>> ELSE <<>>])
       \o (IF above = {} THEN <<>> ELSE <<<<AnyOf(p.tag[Min(above)]), AnyOf(tag)>>>>)

SeveralElements ==
    /\ xpathPc = "several"
    /\ Answer(FirstOf(LAMBDA steps : Valid(context, Path(steps), wanted), GenerateMultiXPath(context, wanted)), "union")

UnionOfElements ==
    /\ xpathPc = "union"
    /\ LET each == UNION {ToSet(SingleXPath(context, n)) : n \in ToSet(wanted)}
       IN Answer(IF each = {} THEN <<>> ELSE Valid(context, [kind |-> "union", of |-> each], wanted), "value_error")

XPathNext ==
    \/ xpathPc = "idle" /\ \E p \in XPathPages, r \in Rankings, md \in ResolutionModes :
          \E nodes \in {<<>>} \cup {<<n>> : n \in Tags(p)} \cup {<<n, m>> : n, m \in Tags(p)} :
             (Len(nodes) = 2 => nodes[1] # nodes[2]) /\ StartXPath(p, nodes, r, md)
    \/ OneElement \/ SeveralElements \/ UnionOfElements

XPathSpec == XPathInit /\ [][XPathNext]_xpathVars

-----------------------------------------------------------------------------
(* An XPath that is handed out without choosing a match selects the wanted *)
(* elements and no other on an indexed page, whatever the scoring prefers  *)
(* and however alike the elements are; on a page without ids it may be a   *)
(* look-alike, of the same name and with a text that starts the same.      *)
(* Matching by html or signature finds an element that looks the same.     *)
(* Two elements of the same id cannot be told apart.                       *)
Alike(p, n, m) == p.tag[n] = p.tag[m] /\ TextStart(p, n) = TextStart(p, m)
Indexed(p) == \A n \in Tags(p) : Has(p, n, "__id__")
IdsTellApart(p) ==
    \A n, m \in Tags(p) :
        Has(p, n, "__id__") /\ Has(p, m, "__id__") /\ p.attrs[n]["__id__"] = p.attrs[m]["__id__"] => n = m

XPathSelectsTarget ==
    xpathPc = "done" /\ mode \notin {"first_match", "match_by_text"} =>
        LET got == Select(context, xpath[1])
        IN /\ mode = "unique_only" /\ Indexed(context) /\ IdsTellApart(context) => got = ToSet(wanted)
           /\ Cardinality(got) = Len(wanted)
           /\ IdsTellApart(context) => \A n \in ToSet(wanted) : \E m \in got : Alike(context, n, m)
=============================================================================
