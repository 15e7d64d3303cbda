------------------------------ MODULE MCAutomation ------------------------------
(***************************************************************************)
(* What an agent does on pages by itself, and the evaluation of its runs,  *)
(* side by side: a behaviour is one of the parts.  The one that watches    *)
(* tabs is chosen with its monitors, another by its first step.            *)
(***************************************************************************)
EXTENDS TabMonitor, NewTabClick, TextInput, ActionMemory, HtmlCleaning, HtmlChanges, ElementXPath, ElementLookup,
    EvaluationRuns, Scrolling, TLC

CONSTANTS m1, m2

VARIABLE part   \* "none" or the part this behaviour is of

Init ==
    /\ part \in {"none", "monitor"} /\ MonitorInit
    /\ part = "none" => engine = "selenium" /\ config = CHOOSE c \in Configs : TRUE
    /\ ClickInit /\ InputInit /\ MemoryInit /\ CleanInit /\ ChangeInit /\ XPathInit /\ LookupInit /\ EvalInit /\ ScrollInit

Only(name, Move) == part \in {"none", name} /\ part' = name /\ Move

Next ==
    \/ part = "monitor" /\ part' = part /\ MonitorNext /\ UNCHANGED <<clickVars, inputVars, memoryVars, cleanVars, changeVars, xpathVars, lookVars, evalVars, scrollVars>>
    \/ Only("click", ClickNext) /\ UNCHANGED <<watchVars, inputVars, memoryVars, cleanVars, changeVars, xpathVars, lookVars, evalVars, scrollVars>>
    \/ Only("input", InputNext) /\ UNCHANGED <<watchVars, clickVars, memoryVars, cleanVars, changeVars, xpathVars, lookVars, evalVars, scrollVars>>
    \/ Only("memory", MemoryNext) /\ UNCHANGED <<watchVars, clickVars, inputVars, cleanVars, changeVars, xpathVars, lookVars, evalVars, scrollVars>>
    \/ Only("cleaning", CleanNext) /\ UNCHANGED <<watchVars, clickVars, inputVars, memoryVars, changeVars, xpathVars, lookVars, evalVars, scrollVars>>
    \/ Only("changes", ChangesNext) /\ UNCHANGED <<watchVars, clickVars, inputVars, memoryVars, cleanVars, xpathVars, lookVars, evalVars, scrollVars>>
    \/ Only("xpath", XPathNext) /\ UNCHANGED <<watchVars, clickVars, inputVars, memoryVars, cleanVars, changeVars, lookVars, evalVars, scrollVars>>
    \/ Only("lookup", LookupNext) /\ UNCHANGED <<watchVars, clickVars, inputVars, memoryVars, cleanVars, changeVars, xpathVars, evalVars, scrollVars>>
    \/ Only("evaluation", EvalNext) /\ UNCHANGED <<watchVars, clickVars, inputVars, memoryVars, cleanVars, changeVars, xpathVars, lookVars, scrollVars>>
    \/ Only("scroll", ScrollNext) /\ UNCHANGED <<watchVars, clickVars, inputVars, memoryVars, cleanVars, changeVars, xpathVars, lookVars, evalVars>>

Spec == Init /\ [][Next]_<<part, watchVars, clickVars, inputVars, memoryVars, cleanVars, changeVars, xpathVars, lookVars, evalVars, scrollVars>>

-----------------------------------------------------------------------------
(* monitors *)
Watches(k, t, c, s) == [kind |-> k, confirm |-> t, continuous |-> c, strategies |-> s]
MCConfigs ==
    {m1 :> Watches("value_changed", 1, TRUE, 1) @@ m2 :> Watches("element_present", 0, FALSE, 1)}
    \cup {m1 :> Watches(k, 2, c, 2) : k \in {"element_present", "element_absent", "text_contains",
                                           "attribute_changed", "value_changed"}, c \in BOOLEAN}
Symmetry == Permutations(Handles)

-----------------------------------------------------------------------------
(* Pages: up[n] is the parent of node n, kinds[n] what it is; a node whose *)
(* parent is 99 is spare.                                                  *)

Kind ==
    [div |-> [tag |-> "div", attrs |-> "class" :> <<"box">>], bare |-> [tag |-> "div", attrs |-> NoAttrs],
     list |-> [tag |-> "div", attrs |-> "class" :> <<"list">>], hid |-> [tag |-> "div", attrs |-> "style" :> <<"none">>],
     old |-> [tag |-> "div", attrs |-> "class" :> <<"box">> @@ "__id__" :> <<"1">>],
     new |-> [tag |-> "div", attrs |-> "class" :> <<"box">> @@ "__id__" :> <<"2">>],
     hash |-> [tag |-> "div", attrs |-> "class" :> <<"btn", "box-a">> @@ "id" :> <<"a8f3Qz">>],
     span |-> [tag |-> "span", attrs |-> "class" :> <<"box", "in">> @@ "id" :> <<"s">>],
     plain |-> [tag |-> "span", attrs |-> NoAttrs],
     a |-> [tag |-> "a", attrs |-> "href" :> <<"u">> @@ "onclick" :> <<"f">>],
     link |-> [tag |-> "a", attrs |-> "href" :> <<"u">>], link2 |-> [tag |-> "a", attrs |-> "href" :> <<"u">> @@ "class" :> <<"box-a", "big">>],
     swapped |-> [tag |-> "a", attrs |-> "href" :> <<"u">> @@ "class" :> <<"big", "box-a">>],
     link3 |-> [tag |-> "a", attrs |-> "href" :> <<"v">> @@ "class" :> <<"box-a">>], named |-> [tag |-> "a", attrs |-> "id" :> <<"d">>],
     p |-> [tag |-> "p", attrs |-> NoAttrs], js |-> [tag |-> "script", attrs |-> NoAttrs],
     inp |-> [tag |-> "input", attrs |-> "disabled" :> <<"">>], off |-> [tag |-> "input", attrs |-> "disabled" :> <<"false">>],
     box |-> [tag |-> "input", attrs |-> "value" :> <<"v">> @@ "checked" :> <<"yes">>],
     field |-> [tag |-> "input", attrs |-> "type" :> <<"text">> @@ "value" :> <<"v">> @@ "name" :> <<"q">>],
     x |-> [tag |-> "#text", attrs |-> NoAttrs], y |-> [tag |-> "#text", attrs |-> NoAttrs],
     xyz |-> [tag |-> "#text", attrs |-> NoAttrs], c |-> [tag |-> "#comment", attrs |-> NoAttrs],
     ws |-> [tag |-> "#blank", attrs |-> NoAttrs]]
StringKinds == {"x", "y", "xyz", "c", "ws"}
WordsOfKind(k) == IF k = "xyz" THEN <<"x", "y", "z">> ELSE IF k \in {"x", "y", "c"} THEN <<k>> ELSE <<>>

Page(up, kinds) ==
    [kids |-> [n \in 0 .. Len(up) |-> SelectSeq([i \in 1 .. Len(up) |-> i], LAMBDA i : up[i] = n)],
     tag |-> [n \in 1 .. Len(up) |-> Kind[kinds[n]].tag], attrs |-> [n \in 1 .. Len(up) |-> Kind[kinds[n]].attrs],
     words |-> [n \in 1 .. Len(up) |-> WordsOfKind(kinds[n])]]
PagesOf(ups, kinds) ==
    {Page(u, k) : <<u, k>> \in {<<u, k>> \in ups \X kinds : \A i \in DOMAIN u : u[i] # 0 => k[u[i]] \notin StringKinds}}
StartingWith(first, k, kinds) == {<<first>> \o s : s \in [1 .. k -> kinds]}

(* cleaning *)
MCCleanPages ==
    PagesOf({<<0, 1, 2, 3>>, <<0, 1, 1, 3>>, <<0, 1, 2, 1>>, <<0, 1, 2, 2>>},
            StartingWith("div", 3, {"div", "span", "a", "x", "p", "c"}) \cup StartingWith("a", 3, {"div", "x"}))
    \cup PagesOf({<<0, 0, 0>>, <<0, 0, 2>>, <<0, 1, 0>>, <<0, 1, 1>>, <<0, 1, 2>>},
                 [1 .. 3 -> {"hid", "inp", "off", "js", "x", "list"}])
    \cup {Page(<<0, 1, 2, 1, 4, 5>>, <<"div", "div", "x", "span", "div", "x">>),
          Page(<<0, 1, 2, 1, 4>>, <<"div", "a", "x", "a", "x">>),
          Page(<<0, 1, 2, 1, 4, 5>>, <<"div", "a", "x", "div", "a", "x">>),
          Page(<<0, 1, 1, 3, 1>>, <<"div", "x", "p", "y", "x">>)}
Rule(returns, tags) == [returns |-> returns, tags |-> tags]
Usual ==
    [remove |-> {"script"}, checkHidden |-> TRUE, hidden |-> NoAttrs, marks |-> <<"strong", "p">>,
     disabled |-> "__global__" :> <<Rule("remove", {"input"}) @@ [attributes |-> {"disabled"}, pattern |-> {""}], Rule("keep", {"*"})>>,
     keepTags |-> {"a", "input"}, attrs |-> {"class", "href", "disabled"}, keepText |-> TRUE,
     comments |-> TRUE, collapse |-> {"div", "span", "p"}, exclude |-> {"id"},
     rules |-> "__global__" :> <<Rule("keep", {"div"}) @@ [attributes |-> {"class"}, pattern |-> {"list"}, flags |-> {"preserve"}]>>,
     trigger |-> "", flags |-> {"preserve"}]
Site == <<Rule("remove", {"div", "a"}) @@ [attributes |-> {"class", "href"}, pattern |-> {"box", "u"}]>>
MCCleanOptions ==
    {Usual, [Usual EXCEPT !.collapse = {}, !.keepText = FALSE, !.checkHidden = FALSE, !.disabled = NoAttrs, !.flags = {}],
     [Usual EXCEPT !.rules = "site" :> Site, !.trigger = "site", !.marks = <<>>, !.comments = FALSE],
     [Usual EXCEPT !.trigger = "unknown"], [Usual EXCEPT !.marks = <<>>, !.exclude = {}]}

(* changes *)
MCComparedPages ==
    PagesOf({<<0, 1, 2, 3>>, <<0, 1, 2, 1>>}, StartingWith("old", 3, {"new", "link", "x"}))
      \X (PagesOf({<<0, 1, 2, 3>>, <<0, 1, 1, 3>>}, StartingWith("old", 3, {"new", "link", "x", "y"}))
            \cup PagesOf({<<0, 1, 2, 1>>}, StartingWith("old", 3, {"plain", "c", "ws", "x"})))
    \cup {<<Page(<<0, 1>>, <<"old", "link2">>), Page(<<0, 1, 1>>, <<"new", "swapped", "x">>)>>}
Change == [text |-> TRUE, ignore |-> {"__id__"}, keepText |-> TRUE,
           maxRelative |-> 90, minRelative |-> 0, maxAbsolute |-> 0, minAbsolute |-> 0]
MCChangeOptions ==
    {Change, [Change EXCEPT !.text = FALSE, !.maxRelative = 0], [Change EXCEPT !.maxRelative = 120],
     [Change EXCEPT !.keepText = FALSE, !.minRelative = 20, !.maxAbsolute = 6, !.minAbsolute = 2]}

(* xpath *)
WithIndex(p) == [p EXCEPT !.attrs = [n \in DOMAIN @ |-> IF IsString(p, n) THEN @[n] ELSE @[n] @@ "__id__" :> <<ToString(n)>>]]
Plain == {Page(<<0, 1, 2, 1, 4, 1, 6>>, <<"bare", "link", "x", "link", "x", "link", "xyz">>),
          Page(<<0, 1, 2, 3, 1, 5, 6>>, <<"bare", "hash", "link", "x", "bare", "link", "x">>),
          Page(<<0, 1, 2, 1, 1, 5, 5>>, <<"bare", "hash", "field", "field", "link", "ws", "x">>),
          Page(<<0, 1, 2, 1, 4, 1>>, <<"bare", "link2", "x", "link2", "y", "link">>),
          Page(<<0, 1, 2, 3, 1>>, <<"span", "bare", "link", "x", "link">>)}
MCXPathPages ==
    Plain \cup {WithIndex(p) : p \in Plain} \cup {Page(<<0, 1, 2, 1, 4>>, <<"old", "new", "x", "new", "y">>)}
MCRankings == {<<"href", "id", "text", "class", "type+value">>, <<"class", "name", "text", "href">>}

(* lookup *)
MCLivePages ==
    {Page(<<0, 1, 2, 1, 99>>, <<"bare", "link", "x", "link", "link">>),
     Page(<<0, 1, 1, 1, 99>>, <<"bare", "link2", "link3", "named", "link3">>),
     Page(<<0, 1, 2, 1, 4, 99>>, <<"bare", "link2", "x", "link2", "x", "named">>),
     Page(<<0, 1, 2, 1, 1>>, <<"bare", "bare", "link", "link", "link">>),
     Page(<<0, 1, 1, 99>>, <<"bare", "box", "box", "box">>)}
MCLiveAnswers == {{}, {<<"yes">>}, {<<"v", "w">>}}

(* scrolling *)
Box(x, y, overflow, outer, inner) == [over |-> [x |-> x, y |-> y], overflow |-> overflow, outer |-> outer, inner |-> inner]
MCBoxes ==
         {Box(0, 0, "visible", 2, 2), Box(0, 1, "visible", 3, 3), Box(0, 2, "auto", 1, 1), Box(2, 0, "auto", 2, 1),
          Box(1, 2, "hidden", 2, 2)}
ScrolledHalfway(u, b) ==
    [up |-> u, box |-> b, start |-> [n \in DOMAIN u |-> [x |-> b[n].over.x \div 2, y |-> b[n].over.y \div 2]]]
MCLayouts ==
    {ScrolledHalfway(u, <<f>> \o b) :
        u \in {<<0, 1, 1, 2>>, <<0, 1, 2, 3>>}, f \in {Box(0, 0, "visible", 2, 2), Box(2, 0, "auto", 2, 1)}, b \in [1 .. 3 -> MCBoxes]}

(* click, input, memory *)
MCOrders == {<<"url_extract", "target_blank", "modifier_key", "cdp", "middle_click">>, <<"modifier_key", "target_blank">>}
MCOldValue == <<"old", "a">>
MCInputTexts ==
    {<<>>, <<"a">>, <<NonBmp>>, <<"a", "newline", "return", "a">>, <<"blank", "a", "blank", "blank">>,
     <<"a", "control", NonBmp, "blank", "a">>, <<"return", "newline", "a">>}
Action(kind, base, change, after1, followUp) ==
    [kind |-> kind, base |-> base, change |-> change, after |-> after1, followUp |-> followUp]
MCActionConfigs ==
    [load |-> Action("element", "full", "full", TRUE, TRUE), list |-> Action("element", "target", "target", FALSE, TRUE),
     plain |-> Action("element", "none", "none", FALSE, FALSE), odd |-> Action("element", "full", "none", TRUE, TRUE),
     rest |-> Action("wait", "none", "none", FALSE, TRUE)]
=============================================================================
