---------------------------- MODULE MCSimpleLexer ----------------------------
(* One character of each class and the letter c; each token and operator      *)
(* degree; statements that declare, assign, call and return, with names used  *)
(* twice, a parenthesis that a statement before it takes for a call, and      *)
(* numbers at the edge of a four-bit int.                                     *)
EXTENDS SimpleLexer

MCAlphabet == {"a", "c", "1", "+", "(", "{", ",", " ", "#"}

KindOf(v) ==
    CASE v \in {"+", "-", "*", "/", "="} -> "sign"
      [] v \in {"(", ")"} -> "parenthesis"
      [] v = "{" -> "curlybracket"
      [] v = "}" -> "endofblock"
      [] v = "," -> "symbol"
      [] v \in {"1", "2", "7"} -> "digit"
      [] OTHER -> "ident"

Words(vs) == [k \in DOMAIN vs |-> P!Token(KindOf(vs[k]), vs[k])]

MCVocabulary ==
    {P!Token(KindOf(v), v) :
        v \in {"a", "1", "=", "+", "-", "*", "/", "(", ")", ",", "{", "}", "function", "return"}}

MCStatements == {
    Words(<<"a", "=", "1">>),
    Words(<<"b", "=", "-", "a", "*", "7">>),
    Words(<<"function", "f", "(", "a", ",", "b", ")", "{", "}">>),
    Words(<<"f", "(", "b", ",", "a", ")">>),
    Words(<<"function", "a", "(", ")", "{", "}">>),
    Words(<<"function", "g", "(", "a", ")", "{", "function", "b", "(", ")", "{", "}",
            "return", "a", "+", "a", "}">>),
    Words(<<"b", "=", "g", "(", "2", ")">>),
    Words(<<"(", "a", "/", "b", ")">>),
    Words(<<"return", "a">>) }

MCNumerals == [v \in {"1", "2", "7"} |-> CASE v = "1" -> 1 [] v = "2" -> 2 [] v = "7" -> 7]
=============================================================================
