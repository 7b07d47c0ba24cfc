----------------------------- MODULE SimpleLexer -----------------------------
(***************************************************************************)
(* The three stages of parser/SimpleLexer on every input up to a bound: a   *)
(* text grows by one character and is cut into tokens, a token list grows   *)
(* by one token, and a program by one statement, which is parsed and        *)
(* interpreted with those before it.  One of the three grows at a time.     *)
(***************************************************************************)
EXTENDS Lexer

CONSTANTS Vocabulary,  \* the tokens of the token lists
          Statements,  \* the statements of the programs, as token lists
          MaxText, MaxTokens, MaxProgram,   \* bounds: the lengths of the three
          Width, MaxDepth, Numerals         \* see Interpreter

ASSUME SimpleLexerConstants ==
    /\ MaxText \in Nat /\ MaxTokens \in Nat /\ MaxProgram \in Nat
    /\ Width \in Nat \ {0} /\ MaxDepth \in Nat

P == INSTANCE Parser
I == INSTANCE Interpreter

VARIABLES input,    \* the tokens given to the parser
          program   \* the statements given to parser and interpreter

vars == <<lexerVars, input, program>>

Init == LexerInit /\ input = <<>> /\ program = <<>>

AddCharacter ==
    /\ input = <<>> /\ program = <<>> /\ Len(text) < MaxText
    /\ \E ch \in Alphabet : Type(ch)
    /\ UNCHANGED <<input, program>>

\* Tokenize goes on with the text there is.
Tokenize ==
    /\ text # <<>>
    /\ NextToken
    /\ UNCHANGED <<input, program>>

\* The tokens an expression is made of.
InExpressions(token) ==
    /\ token.kind \in {"digit", "ident", "sign", "symbol", "parenthesis"}
    /\ token.value \notin P!reserved

\* Any list of such tokens, whatever the parser makes of it or of its parts.
\* Of the lists with a word or a brace, about which a property speaks only
\* when the parser accepts them, those of which it has not refused a token.
AddToken ==
    /\ text = <<>> /\ program = <<>> /\ Len(input) < MaxTokens
    /\ \E token \in Vocabulary : input' = Append(input, token)
    /\ (\A k \in DOMAIN input' : InExpressions(input'[k])) \/ P!Viable(input')
    /\ UNCHANGED <<lexerVars, program>>

AddStatement ==
    /\ text = <<>> /\ input = <<>> /\ Len(program) < MaxProgram
    /\ \E s \in Statements : program' = Append(program, s)
    /\ UNCHANGED <<lexerVars, input>>

Next == AddCharacter \/ Tokenize \/ AddToken \/ AddStatement

Spec == Init /\ [][Next]_vars

\* What is left in the dictionaries when the program has run or thrown.
Ran == I!Execute(P!Parse(FlattenSeq(program)).tree).env

-----------------------------------------------------------------------------
(* Properties of the parser and the interpreter                            *)

\* Parser: of all lists of tokens, the degrees and the loops of Express and
\* Bind read as one expression exactly those the grammar derives, with its
\* precedence and associativity.
ExpressionsFollowGrammar ==
    (\A k \in DOMAIN input : InExpressions(input[k])) => P!FollowsGrammar(input)

\* Parser: no word, number or operator of a program is lost or moved.
ProgramsKeepWords == P!KeepsWords(input)

\* Interpreter: no name is both a function's and a variable's.
FunctionsAndVariablesApart == I!NamesApart(Ran)

\* Interpreter: arguments are passed by value although parameters are global.
ArgumentsByValue == I!PassesValues(Ran)
=============================================================================
