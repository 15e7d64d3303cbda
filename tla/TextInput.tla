------------------------------- MODULE TextInput -------------------------------
(***************************************************************************)
(* One input_text call of the two backends, after the shared text          *)
(* sanitization.  A text is a sequence of letters and classes of           *)
(* characters: one outside the BMP, the two line ends, a blank, a control  *)
(* character, the placeholder and the spelt-out name of a replaced one.    *)
(* The page may rewrite the field while it is being typed into.            *)
(***************************************************************************)
EXTENDS Naturals, Sequences, FiniteSets, SequencesExt

CONSTANTS
    InputTexts,     \* the texts to type
    OldValue,       \* what the field holds before
    Threshold       \* fast_threshold

ASSUME InputAssumption ==
    /\ \A text \in InputTexts \cup {OldValue} : text \in Seq(ToSet(text))
    /\ Threshold \in Nat

VARIABLES
    inputPc,    \* "idle", "focus", "clear", "type", "verify", or the outcome
    request,    \* the arguments, with the implementation chosen
    left,       \* what is still to be typed
    field,      \* the element's value
    caret,      \* the number of its characters before the caret
    selected,   \* the whole value is selected
    warned,     \* a warning was logged
    meddled     \* the page has rewritten the field
inputVars == <<inputPc, request, left, field, caret, selected, warned, meddled>>

NonBmp == "nonbmp"
LineEnds == {"newline", "return"}
Blanks == {"blank", "return"}          \* [^\S\n]

(* The characters of text at some positions.                               *)
KeepAt(text, positions) ==
    LET Rank(i) == Cardinality({j \in positions : j <= i})
    IN [n \in 1 .. Cardinality(positions) |-> text[CHOOSE i \in positions : Rank(i) = n]]

Without(text, chars) == KeepAt(text, {i \in DOMAIN text : text[i] \notin chars})

Replace(text, char, with) == [i \in DOMAIN text |-> IF text[i] = char THEN with ELSE text[i]]

(* Every run of characters of chars becomes one blank.                     *)
CollapseRuns(text, chars) ==
    KeepAt([i \in DOMAIN text |-> IF text[i] \in chars THEN "blank" ELSE text[i]],
         {i \in DOMAIN text : text[i] \in chars => i = 1 \/ text[i - 1] \notin chars})

HandleNonBmp(text, how) ==
    CASE how = "remove" -> Without(text, {NonBmp})
      [] how = "replace" -> Replace(text, NonBmp, "placeholder")
      [] how = "transliterate" -> Replace(text, NonBmp, "name")
      [] how \in {"keep", "raise"} -> text

EndsInNewline(text, i) == text[i] = "return" /\ i < Len(text) /\ text[i + 1] = "newline"

HandleNewlines(text, how) ==
    CASE how = "keep" -> text
      [] how = "space" -> CollapseRuns(text, LineEnds)
      [] how = "remove" -> Without(text, LineEnds)
      [] how = "normalize" ->
            KeepAt(Replace(text, "return", "newline"), {i \in DOMAIN text : ~EndsInNewline(text, i)})

Strip(text) ==
    LET kept == {i \in DOMAIN text : text[i] \notin Blanks \cup LineEnds}
    IN KeepAt(text, {i \in DOMAIN text : \E first, last \in kept : first <= i /\ i <= last})

HandleWhitespace(text, how) ==
    CASE how = "keep" -> text
      [] how = "normalize" -> CollapseRuns(text, Blanks)
      [] how = "strip" -> Strip(text)
      [] how = "full" -> Strip(CollapseRuns(text, Blanks))

RemoveControl(text) == Without(text, {"control"})

Sanitize(text, how) ==
    HandleWhitespace(HandleNewlines(RemoveControl(HandleNonBmp(text, how.nonbmp)), how.newline), how.space)

How(n, l, s) == [nonbmp |-> n, newline |-> l, space |-> s]
Strict == How("remove", "space", "full")
PreserveFormatting == How("remove", "normalize", "keep")
Manual == [strict |-> Strict, preserve |-> PreserveFormatting, refuse |-> How("raise", "keep", "strip"),
           spell |-> How("transliterate", "remove", "keep"), mark |-> How("replace", "keep", "normalize")]

(* Implementation-aware sanitization: only Selenium's send_keys has to     *)
(* lose the characters outside the BMP.                                    *)
Automatic(engine, impl) ==
    IF impl \in {"send_keys", "send_keys_fast"}
    THEN How(IF engine = "selenium" THEN "remove" ELSE "keep", "space", "normalize")
    ELSE How("keep", "keep", "keep")

ChosenImplementation(impl, text) ==
    IF impl # "auto" THEN impl ELSE IF Len(text) <= Threshold THEN "send_keys" ELSE "send_keys_fast"

SanitizedText(engine, impl, text, sanitizer) ==
    CASE sanitizer = "off" -> text
      [] sanitizer = "auto" -> Sanitize(text, Automatic(engine, impl))
      [] OTHER -> Sanitize(text, Manual[sanitizer])

InputInit ==
    /\ inputPc = "idle" /\ request = <<>> /\ left = <<>> /\ field = OldValue /\ caret = 0
    /\ selected = FALSE /\ warned = FALSE /\ meddled = FALSE

Sanitizers == {"off", "auto"} \cup DOMAIN Manual

StartInput(engine, text, implementation, clear, method, sanitizer) ==
    LET impl == ChosenImplementation(implementation, text)
        clean == SanitizedText(engine, impl, text, sanitizer)
        refused == sanitizer = "refuse" /\ NonBmp \in ToSet(text)
    IN /\ inputPc = "idle"
       /\ request' = [engine |-> engine, impl |-> impl, clear |-> clear, method |-> method, text |-> clean]
       /\ left' = clean
       /\ caret' \in 0 .. Len(field)      \* where the user has left it
       /\ inputPc' = IF refused \/ impl = "unknown" THEN "value_error"
                     ELSE IF engine = "selenium" THEN "focus" ELSE "clear"
       /\ UNCHANGED <<field, selected, warned, meddled>>

(* Selenium clicks first, which puts the caret anywhere; a click that no   *)
(* implementation can make ends the call with a warning.                   *)
FocusClick ==
    /\ inputPc = "focus"
    /\ \/ /\ inputPc' = IF request.impl = "javascript" THEN "type" ELSE "clear"
          /\ caret' \in 0 .. Len(field)
          /\ UNCHANGED warned
       \/ inputPc' = "skipped" /\ warned' = TRUE /\ UNCHANGED caret
    /\ UNCHANGED <<request, left, field, selected, meddled>>

(* SELECT_ALL leaves the clearing to the first character typed; clear()    *)
(* may fail silently on inputs a framework controls.                       *)
ClearContent ==
    /\ inputPc = "clear" /\ inputPc' = "type"
    /\ IF ~request.clear \/ (request.engine = "playwright" /\ request.impl = "javascript")
       THEN UNCHANGED <<field, caret, selected>>
       ELSE IF request.engine = "selenium" /\ request.method = "select_all"
       THEN selected' = TRUE /\ UNCHANGED <<field, caret>>
       ELSE /\ field' \in {<<>>} \cup (IF request.engine = "selenium" THEN {field} ELSE {})
            /\ caret' = Len(field')
            /\ UNCHANGED selected
    /\ UNCHANGED <<request, left, warned, meddled>>

(* Keys replace the selection, or go in at the caret.                      *)
Types(keys) ==
    LET kept == IF selected THEN <<>> ELSE field
        at == IF selected THEN 0 ELSE caret
    IN IF keys = <<>> THEN UNCHANGED <<field, caret, selected>>
       ELSE /\ field' = SubSeq(kept, 1, at) \o keys \o SubSeq(kept, at + 1, Len(kept))
            /\ caret' = at + Len(keys)
            /\ selected' = FALSE

TypeKeys ==
    /\ inputPc = "type" /\ request.impl # "javascript"
    /\ LET n == IF request.impl = "send_keys" /\ left # <<>> THEN 1 ELSE Len(left)
       IN /\ Types(SubSeq(left, 1, n))
          /\ left' = SubSeq(left, n + 1, Len(left))
          /\ inputPc' = IF left' # <<>> THEN "type" ELSE IF request.engine = "selenium" THEN "verify" ELSE "done"
    /\ UNCHANGED <<request, warned, meddled>>

(* Selenium's script assigns the value in either case; Playwright's fill   *)
(* gets the current value put in front of the text.                        *)
SetValue ==
    /\ inputPc = "type" /\ request.impl = "javascript"
    /\ field' = IF request.engine = "selenium" \/ request.clear THEN request.text ELSE field \o request.text
    /\ left' = <<>>
    /\ caret' = Len(field')
    /\ inputPc' = IF request.engine = "selenium" THEN "verify" ELSE "done"
    /\ UNCHANGED <<request, selected, warned, meddled>>

(* Mutant of VerifyInputValue: the end is enough after clearing, too.      *)
VerifiesSuffix ==
    /\ inputPc = "verify" /\ inputPc' = "done"
    /\ warned' = ~IsSuffix(request.text, field)
    /\ UNCHANGED <<request, left, field, caret, selected, meddled>>

(* _verify_input_value, which only warns, and is silent about an element   *)
(* that has no value or is gone.                                           *)
VerifyInputValue ==
    /\ inputPc = "verify"
    /\ \/ /\ inputPc' = "done"
          /\ warned' = IF request.clear THEN field # request.text ELSE ~IsSuffix(request.text, field)
       \/ inputPc' = "unread" /\ UNCHANGED warned
    /\ UNCHANGED <<request, left, field, caret, selected, meddled>>

PageRewrites ==
    /\ inputPc \in {"type", "verify"} /\ ~meddled /\ meddled' = TRUE
    /\ \/ field' = Append(field, "formatted")
       \/ field' = <<>>
    /\ caret' = Len(field')
    /\ selected' = FALSE
    /\ UNCHANGED <<inputPc, request, left, warned>>

InputNext ==
    \/ \E g \in {"selenium", "playwright"}, t \in InputTexts, c \in BOOLEAN, k \in {"select_all", "element_clear"},
         i \in {"auto", "send_keys", "send_keys_fast", "javascript", "unknown"}, s \in Sanitizers :
            StartInput(g, t, i, c, k, s)
    \/ FocusClick \/ ClearContent \/ TypeKeys \/ SetValue \/ VerifyInputValue \/ PageRewrites

InputSpec == InputInit /\ [][InputNext]_inputVars

(* The old value with text put in somewhere.                               *)
InsertedIn(old, text) ==
    {SubSeq(old, 1, k) \o text \o SubSeq(old, k + 1, Len(old)) : k \in 0 .. Len(old)}

(* When Selenium's input_text has read the field and ends without a        *)
(* warning, the field holds what was asked for: the sanitized text alone   *)
(* after clearing; else it ends with the text, all of it was typed in one  *)
(* place, and nothing of the old value is lost, unless the page meddled.   *)
(* The one case the verification misses is javascript without clearing,    *)
(* whose script assigns over the old value.                                *)
SilentMeansTyped ==
    inputPc = "done" /\ request.engine = "selenium" /\ ~warned =>
        IF request.clear THEN field = request.text
        ELSE \/ /\ IsSuffix(request.text, field)
                /\ meddled \/ field \in InsertedIn(OldValue, request.text)
             \/ request.impl = "javascript"
=============================================================================
