------------------------- MODULE MCHumanDescription -------------------------
EXTENDS HumanDescription, TLC

CONSTANTS s1, s2, s3, s4, v1, v2

Word(chars) == [kind |-> "word", text |-> chars]
Expr(type, index) == [kind |-> "expr", type |-> type, index |-> index]

(* Value types: A (an address), W (a word), and Q, a name that is not a    *)
(* ValueType member.                                                       *)
MCParamTypes == {<<"A">>, <<"W">>}

MCWordType == <<"W">>

(* An enum member X without a case in parseParam. *)
MCValueTypesUnhandled == MCParamTypes \cup {<<"X">>}

(* Templates whose words and expressions end at different offsets, so that *)
(* a stale lastIndex of one falls inside a token of another.               *)
MCDescriptions ==
    (s1 :> << Word(<<"a", "b">>), Expr(<<"A">>, <<"0">>) >>)
    @@ (s2 :> << Expr(<<"Q">>, <<"1">>), Word(<<"a">>), Expr(<<"W">>, <<"1">>) >>)
    @@ (s3 :> << Expr(<<"X">>, <<"0">>), Word(<<"b", "a", "b">>), Word(<<"a">>) >>)
    @@ (s4 :> << Word(<<"b">>), Expr(<<"W">>, <<"0">>), Expr(<<"A">>, <<"1">>) >>)

(* params arrays of one and two values.                                    *)
MCParamLists == {<<v1>>, <<v1, v2>>, <<v2, v1>>}
==============================================================================
