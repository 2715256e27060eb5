--------------------------- MODULE HumanDescription ---------------------------
(***************************************************************************)
(* HumanDescriptionApi.parseMessages and the process() closures it builds  *)
(* (src/datasources/human-description-api/human-description-api.service.  *)
(* ts).                                                                    *)
(*                                                                         *)
(* Every template's process() runs the same TEMPLATE_REGEX, a /g RegExp    *)
(* held by the service: exec scans from its lastIndex, moves lastIndex to  *)
(* the end of the match, and resets it to 0 only when it finds no match.   *)
(* A loop that ends by a throw (parseParam's default case) leaves          *)
(* lastIndex where it was, and the next process() call, of any template,   *)
(* starts there.  Templates are character sequences; the regex            *)
(* /{{(.*?)\s(\$.*?)}}|(\S+)/g is evaluated by what it matches on them.   *)
(* A template is given as its tokens (words and {{Type $i}} expressions)   *)
(* joined by single spaces.                                                *)
(***************************************************************************)
EXTENDS Naturals, Sequences, FiniteSets

CONSTANTS
    Descriptions,   \* ContractDescriptions: call signature -> tokens
    ValueTypes,     \* the members of the ValueType enum (as char sequences)
    ParamTypes,     \* the ValueTypes parseParam has a case for
    WordType,       \* ValueType.Word
    ParamLists,     \* the params arrays process() may be called with
    Undefined       \* JavaScript undefined

ASSUME TypesAssumption == WordType \in ParamTypes /\ ParamTypes \subseteq ValueTypes

VARIABLES
    lastIndex,      \* TEMPLATE_REGEX.lastIndex
    result          \* per call signature: how its last process() call ended

vars == <<lastIndex, result>>

Signatures == DOMAIN Descriptions

(* The template string of a token: a word, or "{{" type " $" index "}}".  *)
TokenText(tok) ==
    IF tok.kind = "word" THEN tok.text
    ELSE <<"{", "{">> \o tok.type \o <<" ", "$">> \o tok.index \o <<"}", "}">>

(* The tokens joined by single spaces.                                     *)
Render(toks) ==
    LET joined[n \in 0 .. Len(toks)] ==
          IF n = 0 THEN <<>>
          ELSE IF n = 1 THEN TokenText(toks[1])
          ELSE joined[n - 1] \o <<" ">> \o TokenText(toks[n])
    IN joined[Len(toks)]

Template(sig) == Render(Descriptions[sig])

MinOf(S) == CHOOSE x \in S : \A y \in S : x <= y

(* The first alternative, {{(.*?)\s(\$.*?)}}, tried at position p: the     *)
(* lazy groups take the first k1 (then the first k2) for which the rest    *)
(* of the pattern matches.                                                 *)
Alt1Ends(s, p, k1) ==
    {k2 \in k1 + 2 .. Len(s) - 1 : s[k2] = "}" /\ s[k2 + 1] = "}"}

Alt1Splits(s, p) ==
    IF p + 1 <= Len(s) /\ s[p] = "{" /\ s[p + 1] = "{"
    THEN {k1 \in p + 2 .. Len(s) - 1 :
              s[k1] = " " /\ s[k1 + 1] = "$" /\ Alt1Ends(s, p, k1) # {}}
    ELSE {}

(* TEMPLATE_REGEX.exec(s) from lastIndex li: the match (its end is the new *)
(* lastIndex), or none, which resets lastIndex to 0.  Both alternatives    *)
(* start at a non-space character, so the match starts at the first one at *)
(* or after li; the first alternative is preferred there.                  *)
Exec(s, li) ==
    LET starts == {p \in li + 1 .. Len(s) : s[p] # " "} IN
    IF starts = {} THEN [found |-> FALSE, end |-> 0]
    ELSE
      LET p == MinOf(starts) IN
      IF Alt1Splits(s, p) # {}
      THEN LET k1 == MinOf(Alt1Splits(s, p))
               k2 == MinOf(Alt1Ends(s, p, k1))
           IN [found |-> TRUE, expr |-> TRUE, end |-> k2 + 1,
               valueType |-> SubSeq(s, p + 2, k1 - 1),
               valueIndexPrefixed |-> SubSeq(s, k1 + 1, k2 - 1)]
      ELSE LET stop == {k \in p .. Len(s) : s[k] = " "}
               e == IF stop = {} THEN Len(s) ELSE MinOf(stop) - 1
           IN [found |-> TRUE, expr |-> FALSE, end |-> e,
               fullMatch |-> SubSeq(s, p, e)]

(* Number(valueIndex) of a one-digit (or empty) index; NaN otherwise.      *)
NumberOf(digits) ==
    CASE digits = <<>> -> 0
      [] digits = <<"0">> -> 0
      [] digits = <<"1">> -> 1
      [] OTHER -> "NaN"

(* params[valueIndex]: undefined past the end of the array (or for NaN).   *)
ParamAt(params, n) ==
    IF n \in 0 .. Len(params) - 1 THEN params[n + 1] ELSE Undefined

(* isValueType: Object.values(ValueType).includes(type).                  *)
IsValueType(type) == type \in ValueTypes

(* parseExpression: the fragment of a parsed {{type $i}}.                  *)
ParseExpression(valueType, valueIndex, params) ==
    [type |-> valueType, value |-> ParamAt(params, valueIndex)]

(* Mutant: an expression of an unknown type ends the loop (break instead  *)
(* of continue).                                                           *)
RECURSIVE ProcessLoopBreak(_, _, _, _)
ProcessLoopBreak(s, li, frags, params) ==
    LET m == Exec(s, li) IN
    IF ~m.found THEN [frags |-> frags, lastIndex |-> 0, threw |-> FALSE]
    ELSE IF ~m.expr
    THEN ProcessLoopBreak(s, m.end, Append(frags, [type |-> WordType, value |-> m.fullMatch]), params)
    ELSE IF ~IsValueType(m.valueType)
    THEN [frags |-> frags, lastIndex |-> m.end, threw |-> FALSE]
    ELSE IF m.valueType \in ParamTypes
    THEN ProcessLoopBreak(s, m.end,
            Append(frags, ParseExpression(m.valueType, NumberOf(Tail(m.valueIndexPrefixed)), params)),
            params)
    ELSE [frags |-> frags, lastIndex |-> m.end, threw |-> TRUE]

(* The while loop of process(): each exec match is skipped (a {{..}} whose *)
(* type is not a ValueType), pushed as a Word, or parsed by parseParam,    *)
(* whose default case throws out of the loop.                              *)
RECURSIVE ProcessLoop(_, _, _, _)
ProcessLoop(s, li, frags, params) ==
    LET m == Exec(s, li) IN
    IF ~m.found THEN [frags |-> frags, lastIndex |-> 0, threw |-> FALSE]
    ELSE IF ~m.expr
    THEN ProcessLoop(s, m.end, Append(frags, [type |-> WordType, value |-> m.fullMatch]), params)
    ELSE IF ~IsValueType(m.valueType)
    THEN ProcessLoop(s, m.end, frags, params)
    ELSE IF m.valueType \in ParamTypes
    THEN ProcessLoop(s, m.end,
            Append(frags, ParseExpression(m.valueType, NumberOf(Tail(m.valueIndexPrefixed)), params)),
            params)
    ELSE [frags |-> frags, lastIndex |-> m.end, threw |-> TRUE]

Init ==
    /\ lastIndex = 0
    /\ result = [sig \in Signatures |-> [status |-> "none", frags |-> <<>>, params |-> <<>>]]

(* getParsedMessages()[sig].process(to, params): a synchronous call that   *)
(* returns the fragments or throws.                                        *)
Process(sig, params) ==
    LET r == ProcessLoop(Template(sig), lastIndex, <<>>, params) IN
    /\ lastIndex' = r.lastIndex
    /\ result' = [result EXCEPT ![sig] =
                    [status |-> IF r.threw THEN "threw" ELSE "returned",
                     frags |-> IF r.threw THEN <<>> ELSE r.frags,
                     params |-> params]]

Next == \E sig \in Signatures, params \in ParamLists : Process(sig, params)

Spec == Init /\ [][Next]_vars

-----------------------------------------------------------------------------
(* PROPERTIES                                                              *)

(* Reference: the fragments a template stands for, token by token: a word *)
(* is a Word fragment, an expression of a ValueType is that type with its  *)
(* parameter, an expression of any other type is dropped.            *)
RefFragments(toks, params) ==
    LET kept == SelectSeq(toks, LAMBDA t : t.kind = "word" \/ t.type \in ValueTypes)
    IN [n \in DOMAIN kept |->
          IF kept[n].kind = "word" THEN [type |-> WordType, value |-> kept[n].text]
          ELSE [type |-> kept[n].type, value |-> ParamAt(params, NumberOf(kept[n].index))]]

(* process() describes its own template: whatever other templates were     *)
(* processed before (and however they ended), a call that returns gives    *)
(* exactly the fragments of its template.                                  *)
ProcessDescribesTemplate ==
    \A sig \in Signatures :
        result[sig].status = "returned" => result[sig].frags = RefFragments(Descriptions[sig], result[sig].params)

=============================================================================
