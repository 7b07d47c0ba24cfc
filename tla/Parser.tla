------------------------------- MODULE Parser --------------------------------
(***************************************************************************)
(* parser/SimpleLexer/SimpleLexer/Parser.cs: an operator precedence parser. *)
(* The index of the code is an argument and part of each result; where the  *)
(* code throws, ok is FALSE and at is the token it refused.  A tree has the *)
(* tokens Left, Right, Ident and Params of the code as its kids and the     *)
(* statements of a function as its block.                                   *)
(***************************************************************************)
EXTENDS Naturals, Sequences, SequencesExt

Token(kind, value) == [kind |-> kind, value |-> value]
endOfToken == Token("endofblock", "(__endofblock__)")

\* Mutant: the table has no degree for a product.
degreesWithoutTimes ==
    ("(" :> 80) @@ ("/" :> 60) @@ ("+" :> 50) @@ ("-" :> 50) @@ ("=" :> 10)

degrees == ("(" :> 80) @@ ("*" :> 60) @@ ("/" :> 60) @@ ("+" :> 50) @@ ("-" :> 50)
           @@ ("=" :> 10)
unaryDegree == 70
factorKinds == {"digit", "ident"}
rightAssociates == {"="}
unaryOperators == {"+", "-"}
reserved == {"function", "return"}

Degree(token) == IF token.value \in DOMAIN degrees THEN degrees[token.value] ELSE 0

Node(kind, value, kids, block) ==
    [kind |-> kind, value |-> value, kids |-> kids, block |-> block]
Leaf(token) == Node(token.kind, token.value, <<>>, <<>>)

At(tree, i) == [ok |-> TRUE, tree |-> tree, at |-> i]
Fail(i) == [ok |-> FALSE, tree |-> <<>>, at |-> i]

\* The result of Op on r, unless r threw.
Then(r, Op(_)) == IF r.ok THEN Op(r) ELSE r

\* The tree of r once the token there, of the value v, is passed.
Consume(t, r, v) ==
    IF ~r.ok THEN r
    ELSE IF t[r.at].value = v THEN At(r.tree, r.at + 1) ELSE Fail(r.at)

Ident(t, i) ==
    IF t[i].kind = "ident" /\ t[i].value \notin reserved
    THEN At(Leaf(t[i]), i + 1) ELSE Fail(i)

RECURSIVE Express(_, _, _), Lead(_, _), Binds(_, _, _), Block(_, _)
RECURSIVE Items(_, _, _), Rest(_, _, _, _)

Item(t, i, what) == IF what = "param" THEN Ident(t, i) ELSE Express(t, i, 0)

\* Parameters or arguments up to the closing parenthesis, which is passed.
Items(t, i, what) ==
    IF t[i].value = ")" THEN At(<<>>, i + 1)
    ELSE Then(Item(t, i, what), LAMBDA x : Rest(t, x.at, <<x.tree>>, what))

Rest(t, i, items, what) ==
    IF t[i].value = ")" THEN At(items, i + 1)
    ELSE Then(Consume(t, At(<<>>, i), ","), LAMBDA c :
         Then(Item(t, c.at, what), LAMBDA x :
         Rest(t, x.at, Append(items, x.tree), what)))

\* function name(params) { block }, after the word function.
Function(t, i) ==
    Then(Ident(t, i), LAMBDA name :
    Then(Consume(t, name, "("), LAMBDA open :
    Then(Items(t, open.at, "param"), LAMBDA params :
    Then(Consume(t, params, "{"), LAMBDA body :
    Then(Block(t, body.at), LAMBDA block :
    Consume(t, At(Node("function", "function", <<name.tree>> \o params.tree,
                       block.tree), block.at), "}"))))))

Return(t, i) ==
    IF t[i].kind = "endofblock" THEN At(Node("return", "return", <<>>, <<>>), i)
    ELSE Then(Express(t, i, 0), LAMBDA x :
              At(Node("return", "return", <<x.tree>>, <<>>), x.at))

\* What may start an expression.
Lead(t, i) ==
    LET token == t[i]
    IN  IF token.kind = "ident" /\ token.value = "function" THEN Function(t, i + 1)
        ELSE IF token.kind = "ident" /\ token.value = "return" THEN Return(t, i + 1)
        ELSE IF token.kind \in factorKinds THEN At(Leaf(token), i + 1)
        ELSE IF token.value \in unaryOperators
             THEN Then(Express(t, i + 1, unaryDegree), LAMBDA x :
                       At(Node("unary", token.value, <<x.tree>>, <<>>), x.at))
        ELSE IF token = Token("parenthesis", "(")
             THEN Consume(t, Express(t, i + 1, 0), ")")
        ELSE Fail(i)

\* The degree that binds the right side of op.
LeftDegree(op) == IF op.value \in rightAssociates THEN Degree(op) - 1 ELSE Degree(op)

\* left becomes the left side of the operator after it.
Bind(t, left) ==
    LET op == t[left.at]
    IN  IF op.kind = "sign"
        THEN Then(Express(t, left.at + 1, LeftDegree(op)), LAMBDA right :
                  At(Node("sign", op.value, <<left.tree, right.tree>>, <<>>), right.at))
        ELSE IF op = Token("parenthesis", "(")
        THEN Then(Items(t, left.at + 1, "argument"), LAMBDA args :
                  At(Node("parenthesis", "(", <<left.tree>> \o args.tree, <<>>), args.at))
        ELSE Fail(left.at)

Binds(t, left, leftDegree) ==
    IF leftDegree < Degree(t[left.at])
    THEN Then(Bind(t, left), LAMBDA bound : Binds(t, bound, leftDegree))
    ELSE left

Express(t, i, leftDegree) ==
    Then(Lead(t, i), LAMBDA left : Binds(t, left, leftDegree))

\* Mutant: a statement that follows a return is not kept.
DropsAfterReturn(t, i) ==
    IF t[i].kind = "endofblock" THEN At(<<>>, i)
    ELSE Then(Express(t, i, 0), LAMBDA x :
         Then(Block(t, x.at), LAMBDA rest :
         At(IF x.tree.kind = "return" THEN <<x.tree>> ELSE <<x.tree>> \o rest.tree,
            rest.at)))

Block(t, i) ==
    IF t[i].kind = "endofblock" THEN At(<<>>, i)
    ELSE Then(Express(t, i, 0), LAMBDA x :
         Then(Block(t, x.at), LAMBDA rest : At(<<x.tree>> \o rest.tree, rest.at)))

Set(tokens) == Append(tokens, endOfToken)

Parse(tokens) == Block(Set(tokens), 1)

\* The parser has refused none of the tokens: the list is a program or may
\* become one.  It reads from left to right, so that a list it accepts has
\* only such lists as its beginnings.
Viable(tokens) == Parse(tokens).ok \/ Parse(tokens).at > Len(tokens)

-----------------------------------------------------------------------------
(* The language the parser is for: a grammar, and the trees it gives       *)

\*   assign  ::= sum | sum "=" assign          call    ::= primary | call "(" args ")"
\*   sum     ::= product | sum ("+"|"-") product
\*   product ::= unary | product ("*"|"/") unary
\*   unary   ::= call | ("+"|"-") unary        primary ::= digit | ident | "(" assign ")"
RECURSIVE Trees(_, _), ArgumentLists(_)

\* The trees of t as a left side of level l, an operator of ops, and a right
\* side of level r.
Binary(t, l, ops, r) ==
    UNION {{Node("sign", t[k].value, <<x, y>>, <<>>) :
               x \in Trees(l, SubSeq(t, 1, k - 1)),
               y \in Trees(r, SubSeq(t, k + 1, Len(t)))}
           : k \in {k \in 2 .. Len(t) - 1 : t[k].value \in ops}}

ArgumentLists(t) ==
    IF t = <<>> THEN {<<>>}
    ELSE {<<x>> : x \in Trees("assign", t)} \cup
         UNION {{<<x>> \o rest : x \in Trees("assign", SubSeq(t, 1, k - 1)),
                                 rest \in ArgumentLists(SubSeq(t, k + 1, Len(t))) \ {<<>>}}
                : k \in {k \in DOMAIN t : t[k].value = ","}}

Calls(t) ==
    IF t = <<>> \/ Last(t).value # ")" THEN {}
    ELSE UNION {{Node("parenthesis", "(", <<f>> \o args, <<>>) :
                    f \in Trees("call", SubSeq(t, 1, k - 1)),
                    args \in ArgumentLists(SubSeq(t, k + 1, Len(t) - 1))}
                : k \in {k \in 2 .. Len(t) - 1 : t[k].value = "("}}

Trees(level, t) ==
    CASE t = <<>> -> {}
      [] level = "assign" /\ t # <<>> ->
            Trees("sum", t) \cup Binary(t, "sum", {"="}, "assign")
      [] level = "sum" /\ t # <<>> ->
            Trees("product", t) \cup Binary(t, "sum", {"+", "-"}, "product")
      [] level = "product" /\ t # <<>> ->
            Trees("unary", t) \cup Binary(t, "product", {"*", "/"}, "unary")
      [] level = "unary" /\ t # <<>> ->
            Trees("call", t) \cup
            (IF Head(t).value \in {"+", "-"}
             THEN {Node("unary", Head(t).value, <<x>>, <<>>) : x \in Trees("unary", Tail(t))}
             ELSE {})
      [] level = "call" /\ t # <<>> -> Trees("primary", t) \cup Calls(t)
      [] level = "primary" /\ t # <<>> ->
            IF Len(t) = 1 THEN {Leaf(x) : x \in {x \in {t[1]} : x.kind \in {"digit", "ident"}}}
            ELSE IF Head(t).value = "(" /\ Last(t).value = ")"
            THEN Trees("assign", SubSeq(t, 2, Len(t) - 1)) ELSE {}

\* The parser reads the tokens t, which have no word function or return and
\* no brace, as one expression exactly when the grammar derives them, and its
\* tree is the only one the grammar gives.
FollowsGrammar(t) ==
    LET r == Express(Set(t), 1, 0)
    IN  Trees("assign", t) = IF r.ok /\ r.at = Len(t) + 1 THEN {r.tree} ELSE {}

\* The words and numbers of a tree, and of a block, from left to right.
RECURSIVE Yield(_), YieldAll(_)
YieldAll(trees) ==
    IF trees = <<>> THEN <<>> ELSE Yield(Head(trees)) \o YieldAll(Tail(trees))
Yield(n) ==
    CASE n.kind = "sign" -> Yield(n.kids[1]) \o <<n.value>> \o Yield(n.kids[2])
      [] n.kind = "parenthesis" -> YieldAll(n.kids)
      [] OTHER -> <<n.value>> \o YieldAll(n.kids) \o YieldAll(n.block)

Words(t) == SelectSeq([k \in DOMAIN t |-> t[k].value],
                      LAMBDA v : v \notin {"(", ")", "{", "}", ","})

\* The statements of a program hold every word, number and operator up to
\* where the parser stopped, in order: none is lost, moved or read twice.
KeepsWords(t) ==
    Parse(t).ok => YieldAll(Parse(t).tree) = Words(SubSeq(t, 1, Parse(t).at - 1))
=============================================================================
