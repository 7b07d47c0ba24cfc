----------------------------- MODULE Interpreter -----------------------------
(***************************************************************************)
(* parser/SimpleLexer/SimpleLexer/Interpreter.cs: runs the trees of Parser. *)
(* An environment env holds the two dictionaries of the code.  Evaluation   *)
(* returns the environment it leaves, the value, and ok, which is FALSE     *)
(* when the code throws.  Every variable is global, parameters included.    *)
(***************************************************************************)
EXTENDS Integers, Sequences, SequencesExt

CONSTANTS Width,     \* the bits of an int: 32 in the code
          MaxDepth,  \* bound: the calls on the stack, where the process dies
          Numerals   \* the number each digit token stands for

MaxInt == 2 ^ (Width - 1) - 1
MinInt == -(2 ^ (Width - 1))

\* The int that unchecked arithmetic makes of n.
Wrap(n) == ((n - MinInt) % (2 ^ Width)) + MinInt

\* Division truncates towards zero.
Quotient(a, b) ==
    LET Abs(n) == IF n < 0 THEN -n ELSE n
        q == Abs(a) \div Abs(b)
    IN  IF (a < 0) = (b < 0) THEN q ELSE -q

Number(n) == [type |-> "int", of |-> "", n |-> n]
Variable(name) == [type |-> "variable", of |-> name, n |-> 0]
FunctionBase(name) == [type |-> "function", of |-> name, n |-> 0]
NoValue == [type |-> "null", of |-> "", n |-> 0]

Result(env, v) == [ok |-> TRUE, env |-> env, v |-> v]
Throws(env) == [ok |-> FALSE, env |-> env, v |-> NoValue]
Then(r, Op(_)) == IF r.ok THEN Op(r) ELSE r

\* int.Parse refuses what does not fit.
Digit(env, value) ==
    IF Numerals[value] > MaxInt THEN Throws(env) ELSE Result(env, Number(Numerals[value]))

\* println takes any number of arguments and returns nothing.
Empty == [functions |-> "println" :> [params |-> <<>>, block |-> <<>>],
          variables |-> <<>>]

SetVariable(env, name, n) == [env EXCEPT !.variables = (name :> n) @@ @]

\* The object of a name; an unknown name becomes a variable.
Ident(env, name) ==
    IF name \in DOMAIN env.functions THEN Result(env, FunctionBase(name))
    ELSE IF name \in DOMAIN env.variables THEN Result(env, Variable(name))
    ELSE Result(SetVariable(env, name, 0), Variable(name))

\* The result r as a variable, and as a number: a Variable is read only here.
GetVariable(r) == IF r.ok /\ r.v.type # "variable" THEN Throws(r.env) ELSE r
GetValue(r) ==
    IF ~r.ok \/ r.v.type = "int" THEN r
    ELSE IF r.v.type = "variable" THEN Result(r.env, Number(r.env.variables[r.v.of]))
    ELSE Throws(r.env)

\* Mutant: only the functions are searched for the name.
DeclareOver(env, tree) ==
    LET name == tree.kids[1].value
        params == [k \in 1 .. Len(tree.kids) - 1 |-> tree.kids[k + 1].value]
    IN  IF name \in DOMAIN env.functions \/ ~IsInjective(params) THEN Throws(env)
        ELSE Result([env EXCEPT !.functions =
                       (name :> [params |-> params, block |-> tree.block]) @@ @], NoValue)

\* A declaration: the name is of no function or variable, the parameters differ.
Function(env, tree) ==
    LET name == tree.kids[1].value
        params == [k \in 1 .. Len(tree.kids) - 1 |-> tree.kids[k + 1].value]
    IN  IF \/ name \in DOMAIN env.functions \cup DOMAIN env.variables
           \/ ~IsInjective(params)
        THEN Throws(env)
        ELSE Result([env EXCEPT !.functions =
                       (name :> [params |-> params, block |-> tree.block]) @@ @], NoValue)

Calculate(env, op, a, b) ==
    CASE op = "+" -> Result(env, Number(Wrap(a + b)))
      [] op = "-" -> Result(env, Number(Wrap(a - b)))
      [] op = "*" -> Result(env, Number(Wrap(a * b)))
      [] op = "/" -> IF b = 0 \/ (a = MinInt /\ b = -1) THEN Throws(env)
                     ELSE Result(env, Number(Quotient(a, b)))

RECURSIVE Express(_, _, _), Body(_, _, _), Values(_, _, _, _), Invoke(_, _, _)
RECURSIVE BindParams(_, _, _, _), InvokeByName(_, _, _)

\* The values of args from the k-th on, each read before the next is evaluated.
Values(env, args, k, depth) ==
    IF k > Len(args) THEN [ok |-> TRUE, env |-> env, v |-> <<>>]
    ELSE Then(GetValue(Express(env, args[k], depth)), LAMBDA x :
         Then(Values(x.env, args, k + 1, depth), LAMBDA rest :
         [rest EXCEPT !.v = <<x.v.n>> \o @]))

\* The parameters from the k-th on become variables; a missing argument is 0.
BindParams(env, params, values, k) ==
    IF k > Len(params) THEN Result(env, NoValue)
    ELSE Then(GetVariable(Ident(env, params[k])), LAMBDA x :
         BindParams(SetVariable(x.env, params[k],
                                IF k <= Len(values) THEN values[k] ELSE 0),
                    params, values, k + 1))

\* Mutant: each parameter is bound before the next argument is evaluated.
InvokeByName(env, tree, depth) ==
    Then(Express(env, tree.kids[1], depth), LAMBDA f :
    IF f.v.type # "function" \/ depth = 0 THEN Throws(f.env)
    ELSE LET called == f.env.functions[f.v.of]
             Bind[k \in 0 .. Len(called.params)] ==
                 IF k = 0 THEN Result(f.env, NoValue)
                 ELSE Then(Bind[k - 1], LAMBDA b :
                      Then(GetValue(Express(b.env, tree.kids[k + 1], depth)), LAMBDA x :
                      BindParams(x.env, <<called.params[k]>>, <<x.v.n>>, 1)))
         IN  IF Len(tree.kids) # Len(called.params) + 1 THEN Throws(f.env)
             ELSE Then(Bind[Len(called.params)], LAMBDA b :
                  Body(b.env, called.block, depth - 1)))

Invoke(env, tree, depth) ==
    Then(Express(env, tree.kids[1], depth), LAMBDA f :
    IF f.v.type # "function" THEN Throws(f.env)
    ELSE Then(Values(f.env, Tail(tree.kids), 1, depth), LAMBDA args :
         LET called == args.env.functions[f.v.of]
         IN  IF depth = 0 THEN Throws(args.env)
             ELSE Then(BindParams(args.env, called.params, args.v, 1), LAMBDA bound :
                  Body(bound.env, called.block, depth - 1))))

Assign(env, tree, depth) ==
    Then(GetVariable(Express(env, tree.kids[1], depth)), LAMBDA left :
    Then(GetValue(Express(left.env, tree.kids[2], depth)), LAMBDA right :
    Result(SetVariable(right.env, left.v.of, right.v.n), left.v)))

Express(env, tree, depth) ==
    CASE tree.kind = "digit" -> Digit(env, tree.value)
      [] tree.kind = "ident" -> Ident(env, tree.value)
      [] tree.kind = "function" -> Function(env, tree)
      [] tree.kind = "parenthesis" -> Invoke(env, tree, depth)
      [] tree.kind = "sign" /\ tree.value = "=" -> Assign(env, tree, depth)
      [] tree.kind = "unary" ->
            Then(GetValue(Express(env, tree.kids[1], depth)), LAMBDA x :
            Result(x.env, Number(IF tree.value = "-" THEN Wrap(-x.v.n) ELSE x.v.n)))
      [] tree.kind = "sign" /\ tree.value # "=" ->
            Then(GetValue(Express(env, tree.kids[1], depth)), LAMBDA x :
            Then(GetValue(Express(x.env, tree.kids[2], depth)), LAMBDA y :
            Calculate(y.env, tree.value, x.v.n, y.v.n)))
      [] tree.kind = "return" -> Throws(env)

\* The statements of a function's body, up to a return; of the program, at
\* depth MaxDepth, where a return is refused.
Body(env, block, depth) ==
    IF block = <<>> THEN Result(env, NoValue)
    ELSE IF Head(block).kind # "return"
    THEN Then(Express(env, Head(block), depth), LAMBDA x : Body(x.env, Tail(block), depth))
    ELSE IF depth = MaxDepth THEN Throws(env)
    ELSE IF Head(block).kids = <<>> THEN Result(env, NoValue)
    ELSE Express(env, Head(block).kids[1], depth)

Execute(block) == Body(Empty, block, MaxDepth)

-----------------------------------------------------------------------------
(* What running a program promises                                         *)

\* No name is at once of a function and of a variable, whether the program
\* ran to its end or threw: which of the two a name means never depends on
\* the order in which the dictionaries are searched.
NamesApart(env) == DOMAIN env.functions \cap DOMAIN env.variables = {}

Call(f, args) ==
    [kind |-> "parenthesis", value |-> "(", block |-> <<>>,
     kids |-> [k \in 1 .. Len(args) + 1 |->
                 [kind |-> "ident", value |-> (<<f>> \o args)[k],
                  kids |-> <<>>, block |-> <<>>]]]

\* A call passes values although parameters are global: a function of two
\* parameters called with the two exchanged gets them exchanged.
PassesValues(env) ==
    \A f \in DOMAIN env.functions :
        LET p == env.functions[f].params
            r == Express(env, Call(f, <<p[2], p[1]>>), 1)
        IN  /\ Len(p) = 2 /\ env.functions[f].block = <<>>
            /\ {p[1], p[2]} \subseteq DOMAIN env.variables
            => /\ r.ok
               /\ r.env.variables[p[1]] = env.variables[p[2]]
               /\ r.env.variables[p[2]] = env.variables[p[1]]
=============================================================================
