-------------------------------- MODULE Lexer --------------------------------
(***************************************************************************)
(* parser/SimpleLexer/SimpleLexer/Lexer.cs: cuts a text into tokens.  A     *)
(* text is a sequence of characters, a character a string of length one.    *)
(* A step is one call of NextToken by the loop of Tokenize; before the      *)
(* first the text is made, character by character.  Indices begin with 1.   *)
(***************************************************************************)
EXTENDS Naturals, Sequences, SequencesExt

CONSTANTS Alphabet,  \* the characters of the texts
          Letters,   \* some characters that char.IsLetter accepts
          Digits,    \* some characters that char.IsDigit accepts
          Spaces     \* some characters that char.IsWhiteSpace accepts

Signs == {"=", "+", "-", "*", "/"}
Marks == Signs \cup {"(", ")", "{", "}", ","}

\* The classes of Unicode have no character in common.
ASSUME LexerConstants ==
    /\ "c" \in Letters
    /\ Letters \cap Digits = {}
    /\ (Letters \cup Digits) \cap Spaces = {}
    /\ (Letters \cup Digits \cup Spaces) \cap Marks = {}

VARIABLES
    text,      \* the text to be cut
    index,     \* the next character to be read
    tokens,    \* the tokens made so far
    outcome    \* of Tokenize: "none" yet, "returned" or "thrown"

lexerVars == <<text, index, tokens, outcome>>

LexerInit == text = <<>> /\ index = 1 /\ tokens = <<>> /\ outcome = "none"

\* The text goes on with ch, as long as Tokenize has not begun.
Type(ch) ==
    /\ index = 1 /\ outcome = "none"
    /\ text' = Append(text, ch)
    /\ UNCHANGED <<index, tokens, outcome>>

-----------------------------------------------------------------------------
(* Characters                                                              *)

\* The comparisons of the code: one of them is with the letter c.
IsSigneStart(ch) == ch \in Signs \cup {"c"}
IsParenthisStart(ch) == ch \in {"(", ")"}
IsCurlyBracketStart(ch) == ch \in {"{", "}"}

\* Mutant: another symbol.
IsColon(ch) == ch = ":"

IsSymbolStart(ch) == ch = ","

\* The loops that advance while the character is in S: from i to the first
\* index whose character is not, or to the end of the text.
Skip(t, i, S) ==
    CHOOSE j \in i .. Len(t) + 1 :
        /\ \A k \in i .. j - 1 : t[k] \in S
        /\ j <= Len(t) => t[j] \notin S

\* SkipSpace: where the next token starts, if there is one.
start == Skip(text, index, Spaces)

-----------------------------------------------------------------------------
(* NextToken                                                               *)

\* There is a character left that the method asked takes for its start.
StartsWith(taken) ==
    /\ outcome = "none"
    /\ start <= Len(text)
    /\ taken

\* The token of the characters up to j, exclusive.
Cut(kind, j) ==
    [kind |-> kind, value |-> SubSeq(text, start, j - 1), from |-> start, to |-> j]

\* NextToken returns the token, which goes to the list of Tokenize.
Return(token) ==
    /\ tokens' = Append(tokens, token)
    /\ index' = token.to
    /\ UNCHANGED <<text, outcome>>

\* It throws at j, and the list of Tokenize is lost.
Throw(j) ==
    /\ outcome' = "thrown"
    /\ index' = j
    /\ UNCHANGED <<text, tokens>>

Sign == StartsWith(IsSigneStart(text[start])) /\ Return(Cut("sign", start + 1))

IsDigitStart(ch) == ch \in Digits

\* Mutants of Digit: one digit is a token; the first digit is dropped.
OneDigit == StartsWith(IsDigitStart(text[start])) /\ Return(Cut("digit", start + 1))
LosesDigit ==
    /\ StartsWith(IsDigitStart(text[start]))
    /\ Return([Cut("digit", Skip(text, start, Digits)) EXCEPT !.value = Tail(@)])

Digit == StartsWith(IsDigitStart(text[start])) /\ Return(Cut("digit", Skip(text, start, Digits)))

\* NextToken asks for a sign before it asks for a letter.
IsIdentStart(ch) == ~IsSigneStart(ch) /\ ch \in Letters

\* After the last character the loop asks for one more, and throws.
Ident ==
    /\ StartsWith(IsIdentStart(text[start]))
    /\ LET j == Skip(text, start, Letters \cup Digits)
       IN  IF j > Len(text) THEN Throw(j) ELSE Return(Cut("ident", j))

Parenthesis == StartsWith(IsParenthisStart(text[start])) /\ Return(Cut("parenthesis", start + 1))

CurlyBracket ==
    /\ StartsWith(IsCurlyBracketStart(text[start]))
    /\ Return(Cut(IF text[start] = "{" THEN "curlybracket" ELSE "endofblock", start + 1))

Symbol == StartsWith(IsSymbolStart(text[start])) /\ Return(Cut("symbol", start + 1))

IsNoStart(ch) ==
    /\ ~IsSigneStart(ch) /\ ~IsDigitStart(ch) /\ ~IsIdentStart(ch)
    /\ ~IsParenthisStart(ch) /\ ~IsCurlyBracketStart(ch) /\ ~IsSymbolStart(ch)

\* Not a character for tokens.
Refuse == StartsWith(IsNoStart(text[start])) /\ Throw(start)

\* NextToken returns null, and Tokenize the list.
EndOfToken ==
    /\ outcome = "none"
    /\ start > Len(text)
    /\ index' = start
    /\ outcome' = "returned"
    /\ UNCHANGED <<text, tokens>>

NextToken ==
    \/ Sign \/ Digit \/ Ident \/ Parenthesis \/ CurlyBracket \/ Symbol
    \/ Refuse \/ EndOfToken

LexerNext == (\E ch \in Alphabet : Type(ch)) \/ NextToken

LexerSpec == LexerInit /\ [][LexerNext]_lexerVars

-----------------------------------------------------------------------------
(* Properties                                                              *)

\* Unless Tokenize throws, every character before the index that is not a space
\* is in one token, with the others of that token and in order; no space is in
\* any.  When Tokenize returns, no character is left.
KeepsEveryCharacter ==
    /\ outcome # "thrown" => \A i \in 1 .. index - 1 :
           text[i] \notin Spaces <=>
               \E k \in DOMAIN tokens : i \in tokens[k].from .. tokens[k].to - 1
    /\ \A k \in DOMAIN tokens :
           /\ tokens[k].value = SubSeq(text, tokens[k].from, tokens[k].to - 1)
           /\ \A l \in 1 .. k - 1 : tokens[l].to <= tokens[k].from
    /\ outcome = "returned" => index = Len(text) + 1

IsNumber(v) == v # <<>> /\ ToSet(v) \subseteq Digits
IsName(v) == v # <<>> /\ Head(v) \in Letters /\ ToSet(v) \subseteq Letters \cup Digits

\* A number or a name is cut where it cannot go on, and not before.
LongestTokens ==
    \A k \in DOMAIN tokens :
        LET token == tokens[k]
        IN  /\ token.kind = "digit" => IsNumber(token.value)
            /\ token.kind = "ident" => IsName(token.value)
            /\ token.kind \in {"digit", "ident"} /\ token.to <= Len(text) =>
                  LET longer == Append(token.value, text[token.to])
                  IN  ~IsNumber(longer) /\ ~IsName(longer)

Known == Letters \cup Digits \cup Spaces \cup Marks

\* The text ends inside a name: its last characters are a letter that no sign
\* can be made of, and letters or digits.
NameAtTheEnd ==
    \E i \in DOMAIN text :
        /\ text[i] \in Letters \ {"c"}
        /\ \A k \in i .. Len(text) : text[k] \in Letters \cup Digits

\* A text is refused for a character that is in no token or for ending in a
\* name, and for nothing else.
RefusesNothingElse ==
    LET accepted == ToSet(text) \subseteq Known /\ ~NameAtTheEnd
    IN  /\ outcome = "returned" => accepted
        /\ outcome = "thrown" => ~accepted

\* The summary of the class Lexer says "1. variable (must start with ascii
\* char)": a letter and the letters and digits after it are one variable.
VariableIsOneToken ==
    IsName(text) /\ outcome # "none" =>
        outcome = "returned" /\ Len(tokens) = 1 /\ tokens[1].kind = "ident"
=============================================================================
