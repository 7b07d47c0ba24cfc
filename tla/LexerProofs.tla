----------------------------- MODULE LexerProofs -----------------------------
(***************************************************************************)
(* Proofs about the lexer, for every alphabet, every choice of letters,     *)
(* digits and spaces that have no character in common, and every text.      *)
(* Where each token lies in the text and what stands around it (WellCut)    *)
(* carries them; that Skip stops at the first character it does not accept  *)
(* (SkipStops) replaces an induction on the loops.                          *)
(***************************************************************************)
EXTENDS Lexer, SequenceTheorems, WellFoundedInduction, TLAPS

-----------------------------------------------------------------------------
(* The invariant                                                           *)

Kinds == {"sign", "digit", "ident", "parenthesis", "curlybracket", "endofblock", "symbol"}

Token == [kind : Kinds, value : Seq(Alphabet), from : Nat, to : Nat]

LexerTypeOK ==
    /\ text \in Seq(Alphabet)
    /\ index \in 1 .. Len(text) + 1
    /\ tokens \in Seq(Token)
    /\ outcome \in {"none", "returned", "thrown"}

\* The characters of a token of the text t, and the one behind it, are such that
\* it has its kind and could not be longer.
WellCut(t, token) ==
    /\ token.from \in 1 .. Len(t)
    /\ token.to \in token.from + 1 .. Len(t) + 1
    /\ token.value = SubSeq(t, token.from, token.to - 1)
    /\ token.kind = "digit" =>
           /\ \A i \in token.from .. token.to - 1 : t[i] \in Digits
           /\ token.to <= Len(t) => t[token.to] \notin Digits
    /\ token.kind = "ident" =>
           /\ t[token.from] \in Letters \ {"c"}
           /\ \A i \in token.from .. token.to - 1 : t[i] \in Letters \cup Digits
           /\ token.to <= Len(t)
           /\ t[token.to] \notin Letters \cup Digits
    /\ token.kind \notin {"digit", "ident"} =>
           /\ token.to = token.from + 1
           /\ t[token.from] \in Marks \cup {"c"}

\* The tokens lie one behind the other before the index.
InOrder ==
    \A k \in DOMAIN tokens :
        /\ WellCut(text, tokens[k])
        /\ tokens[k].to <= index
        /\ \A l \in 1 .. k - 1 : tokens[l].to <= tokens[k].from

\* Between them there are spaces only.
NothingSkipped ==
    outcome # "thrown" => \A i \in 1 .. index - 1 :
        \/ text[i] \in Spaces
        \/ \E k \in DOMAIN tokens : i \in tokens[k].from .. tokens[k].to - 1

\* What Tokenize ends with.
EndsRight ==
    /\ outcome = "returned" => index = Len(text) + 1
    /\ outcome = "thrown" => (\E i \in 1 .. Len(text) : text[i] \notin Known) \/ NameAtTheEnd

LexerInv == LexerTypeOK /\ InOrder /\ NothingSkipped /\ EndsRight

-----------------------------------------------------------------------------
(* Skip                                                                    *)

LEMMA Between ==
    ASSUME NEW n \in Nat, NEW i \in 1 .. n + 1, NEW x \in i .. n + 1, NEW k \in i .. x - 1
    PROVE  k \in i .. n + 1 /\ k < x /\ k <= n
OBVIOUS

\* Skip, which chooses an index, has one to choose: the first character from i
\* on that is not in S is where it stops, and the end of the text otherwise.
LEMMA SkipStops ==
    ASSUME NEW T, NEW t \in Seq(T), NEW i \in 1 .. Len(t) + 1, NEW S
    PROVE  /\ Skip(t, i, S) \in i .. Len(t) + 1
           /\ \A k \in i .. Skip(t, i, S) - 1 : t[k] \in S
           /\ Skip(t, i, S) <= Len(t) => t[Skip(t, i, S)] \notin S
<1> DEFINE stops == {j \in i .. Len(t) + 1 : j <= Len(t) => t[j] \notin S}
<1>1. Len(t) \in Nat BY LenProperties
<1>2. stops \subseteq Nat /\ Len(t) + 1 \in stops BY <1>1
<1>3. \E x \in stops : \A y \in stops : ~(<<y, x>> \in OpToRel(<, Nat))
      BY <1>2, NatLessThanWellFounded, WFMin
<1>4. PICK x \in stops : \A y \in stops : ~(<<y, x>> \in OpToRel(<, Nat))
      BY <1>3
<1>5. \A y \in stops : ~(y < x) BY <1>2, <1>4 DEF OpToRel
<1>6. ASSUME NEW k \in i .. x - 1 PROVE t[k] \in S
  <2>1. i \in 1 .. Len(t) + 1 /\ x \in i .. Len(t) + 1 /\ k \in i .. x - 1 BY <1>4
  <2>2. k \in i .. Len(t) + 1 /\ k < x /\ k <= Len(t) BY <1>1, <2>1, Between
  <2>3. k \notin stops BY <1>5, <2>2
  <2> QED BY <2>2, <2>3
<1>7. \E j \in i .. Len(t) + 1 :
          /\ \A k \in i .. j - 1 : t[k] \in S
          /\ j <= Len(t) => t[j] \notin S
      BY <1>4, <1>6
<1> QED BY <1>7 DEF Skip

\* It passes at least the character at i when that is in S.
LEMMA SkipAdvances ==
    ASSUME NEW T, NEW t \in Seq(T), NEW i \in 1 .. Len(t), NEW S, t[i] \in S
    PROVE  Skip(t, i, S) \in i + 1 .. Len(t) + 1
<1>1. Len(t) \in Nat BY LenProperties
<1>2. i \in 1 .. Len(t) + 1 BY <1>1
<1>3. /\ Skip(t, i, S) \in i .. Len(t) + 1
      /\ Skip(t, i, S) <= Len(t) => t[Skip(t, i, S)] \notin S
      BY <1>2, SkipStops
<1>4. Skip(t, i, S) # i BY <1>1, <1>3
<1> QED BY <1>1, <1>3, <1>4

\* The next token starts at the first character that is not a space.
LEMMA Starts ==
    ASSUME LexerTypeOK
    PROVE  /\ Len(text) \in Nat
           /\ start \in index .. Len(text) + 1
           /\ start \in 1 .. Len(text) + 1
           /\ \A i \in index .. start - 1 : text[i] \in Spaces
           /\ start <= Len(text) => text[start] \notin Spaces
<1>1. text \in Seq(Alphabet) /\ index \in 1 .. Len(text) + 1 BY DEF LexerTypeOK
<1>2. Len(text) \in Nat BY <1>1, LenProperties
<1>3. /\ start \in index .. Len(text) + 1
      /\ \A i \in index .. start - 1 : text[i] \in Spaces
      /\ start <= Len(text) => text[start] \notin Spaces
      BY <1>1, SkipStops DEF start
<1> QED BY <1>1, <1>2, <1>3

-----------------------------------------------------------------------------
(* The steps of the lexer                                                  *)

THEOREM InitLexerInv == LexerInit => LexerInv
<1> SUFFICES ASSUME LexerInit PROVE LexerInv OBVIOUS
<1>1. /\ text = <<>> /\ index = 1 /\ tokens = <<>> /\ outcome = "none"
      /\ Len(text) = 0 /\ DOMAIN tokens = {}
      BY DEF LexerInit
<1>2. LexerTypeOK BY <1>1, EmptySeq DEF LexerTypeOK
<1>3. InOrder /\ NothingSkipped /\ EndsRight
      BY <1>1 DEF InOrder, NothingSkipped, EndsRight
<1> QED BY <1>2, <1>3 DEF LexerInv

\* While the text grows there is no token in it yet.
LEMMA NoTokenAtFirst ==
    ASSUME LexerInv, index = 1
    PROVE  tokens = <<>>
<1>1. tokens \in Seq(Token) BY DEF LexerInv, LexerTypeOK
<1>2. SUFFICES ASSUME tokens # <<>> PROVE FALSE OBVIOUS
<1>3. 1 \in DOMAIN tokens BY <1>1, <1>2, EmptySeq, LenProperties
<1>4. WellCut(text, tokens[1]) /\ tokens[1].to <= index
      BY <1>3 DEF LexerInv, InOrder
<1>5. tokens[1].from \in Nat /\ tokens[1].from >= 1 /\ tokens[1].to > tokens[1].from
      BY <1>4 DEF WellCut
<1>6. tokens[1].to \in Nat BY <1>4, <1>5 DEF WellCut
<1> QED BY <1>4, <1>5, <1>6

LEMMA TypeKeeps ==
    ASSUME LexerInv, NEW ch \in Alphabet, Type(ch)
    PROVE  LexerInv'
<1>1. tokens = <<>> BY NoTokenAtFirst DEF Type
<1>2. /\ text' \in Seq(Alphabet) /\ Len(text') = Len(text) + 1 /\ Len(text) \in Nat
      /\ index' = 1 /\ tokens' = <<>> /\ outcome' = "none"
      BY <1>1, AppendProperties, LenProperties DEF Type, LexerInv, LexerTypeOK
<1>3. LexerTypeOK' BY <1>2, EmptySeq DEF LexerTypeOK
<1>4. DOMAIN tokens' = {} BY <1>2
<1>5. InOrder' BY <1>4 DEF InOrder
<1>6. NothingSkipped' BY <1>2 DEF NothingSkipped
<1>7. EndsRight' BY <1>2 DEF EndsRight
<1> QED BY <1>3, <1>5, <1>6, <1>7 DEF LexerInv

\* A token that is well cut where NextToken starts keeps the invariant.
LEMMA ReturnKeeps ==
    ASSUME LexerInv, outcome = "none", NEW token \in Token, Return(token),
           token.from = start, WellCut(text, token)
    PROVE  LexerInv'
<1>1. LexerTypeOK /\ InOrder /\ NothingSkipped BY DEF LexerInv
<1>2. /\ text \in Seq(Alphabet) /\ Len(text) \in Nat
      /\ index \in 1 .. Len(text) + 1
      /\ tokens \in Seq(Token) /\ Len(tokens) \in Nat
      BY <1>1, LenProperties DEF LexerTypeOK
<1>3. /\ start \in index .. Len(text) + 1
      /\ \A i \in index .. start - 1 : text[i] \in Spaces
      BY <1>1, Starts
<1>4. start \in Nat /\ index \in Nat /\ index <= start BY <1>2, <1>3
<1>5. /\ token.to \in Nat /\ start < token.to /\ token.to <= Len(text) + 1
  <2>1. token.to \in start + 1 .. Len(text) + 1 BY DEF WellCut
  <2> QED BY <1>2, <1>4, <2>1
<1>6. text' = text /\ index' = token.to /\ outcome' = "none" BY DEF Return
<1>7. /\ tokens' \in Seq(Token)
      /\ Len(tokens') = Len(tokens) + 1
      /\ \A k \in 1 .. Len(tokens) : tokens'[k] = tokens[k]
      /\ tokens'[Len(tokens) + 1] = token
      BY <1>2, AppendProperties DEF Return
<1>8. DOMAIN tokens = 1 .. Len(tokens) /\ DOMAIN tokens' = 1 .. Len(tokens) + 1
      BY <1>2, <1>7, LenProperties
<1>9. LexerTypeOK'
  <2>1. token.to \in 1 .. Len(text) + 1 BY <1>2, <1>4, <1>5
  <2> QED BY <1>2, <1>6, <1>7, <2>1 DEF LexerTypeOK
<1>10. \A k \in 1 .. Len(tokens) : tokens[k].to \in Nat /\ tokens[k].to <= index
  <2>1. \A k \in 1 .. Len(tokens) : tokens[k] \in Token BY <1>2, ElementOfSeq
  <2> QED BY <1>1, <1>8, <2>1 DEF InOrder, Token
<1>11. InOrder'
  <2>1. SUFFICES ASSUME NEW k \in 1 .. Len(tokens) + 1
                 PROVE  /\ WellCut(text, tokens'[k])
                        /\ tokens'[k].to <= token.to
                        /\ \A l \in 1 .. k - 1 : tokens'[l].to <= tokens'[k].from
        BY <1>6, <1>8 DEF InOrder
  <2>2. CASE k \in 1 .. Len(tokens)
    <3>1. tokens'[k] = tokens[k] BY <1>7, <2>2
    <3>2. \A l \in 1 .. k - 1 : l \in 1 .. Len(tokens) BY <1>2, <2>2
    <3>3. \A l \in 1 .. k - 1 : tokens'[l] = tokens[l] BY <1>7, <3>2
    <3>4. /\ WellCut(text, tokens[k])
          /\ \A l \in 1 .. k - 1 : tokens[l].to <= tokens[k].from
          BY <1>1, <1>8, <2>2 DEF InOrder
    <3>5. tokens[k].to <= token.to BY <1>4, <1>5, <1>10, <2>2
    <3> QED BY <3>1, <3>3, <3>4, <3>5
  <2>3. CASE k = Len(tokens) + 1
    <3>1. tokens'[k] = token BY <1>7, <2>3
    <3>2. \A l \in 1 .. k - 1 : l \in 1 .. Len(tokens) BY <1>2, <2>3
    <3>3. \A l \in 1 .. k - 1 : tokens'[l] = tokens[l] BY <1>7, <3>2
    <3>4. \A l \in 1 .. k - 1 : tokens[l].to <= start BY <1>4, <1>10, <3>2
    <3>5. token.to <= token.to BY <1>5
    <3> QED BY <3>1, <3>3, <3>4, <3>5
  <2> QED BY <1>2, <2>2, <2>3
<1>12. NothingSkipped'
  <2>1. SUFFICES ASSUME NEW i \in 1 .. token.to - 1, text[i] \notin Spaces
                 PROVE  \E k \in DOMAIN tokens' : i \in tokens'[k].from .. tokens'[k].to - 1
        BY <1>6 DEF NothingSkipped
  <2>2. i \in 1 .. index - 1 \/ i \in index .. start - 1 \/ i \in start .. token.to - 1
        BY <1>4, <1>5
  <2>3. CASE i \in 1 .. index - 1
    <3>1. PICK k \in 1 .. Len(tokens) : i \in tokens[k].from .. tokens[k].to - 1
          BY <1>1, <1>8, <2>1, <2>3 DEF NothingSkipped
    <3> QED BY <1>2, <1>7, <1>8, <3>1
  <2>4. CASE i \in start .. token.to - 1
    <3>1. Len(tokens) + 1 \in DOMAIN tokens' BY <1>2, <1>8
    <3> QED BY <1>7, <2>4, <3>1
  <2> QED BY <1>3, <2>1, <2>2, <2>3, <2>4
<1>13. EndsRight' BY <1>6 DEF EndsRight
<1> QED BY <1>9, <1>11, <1>12, <1>13 DEF LexerInv

LEMMA CutIsToken ==
    ASSUME LexerInv, start <= Len(text),
           NEW kind \in Kinds, NEW j \in start + 1 .. Len(text) + 1
    PROVE  /\ Cut(kind, j) \in Token
           /\ Cut(kind, j).kind = kind
           /\ Cut(kind, j).from = start
           /\ Cut(kind, j).to = j
           /\ Cut(kind, j).value = SubSeq(text, start, j - 1)
           /\ start \in 1 .. Len(text)
<1>1. text \in Seq(Alphabet) BY DEF LexerInv, LexerTypeOK
<1>2. Len(text) \in Nat /\ start \in 1 .. Len(text) + 1 BY Starts DEF LexerInv
<1>3. start \in 1 .. Len(text) /\ j \in Nat /\ j - 1 \in start .. Len(text) /\ j - 1 \in Int
      BY <1>2
<1>4. \A i \in start .. j - 1 : i \in 1 .. Len(text) BY <1>2, <1>3
<1>5. \A i \in start .. j - 1 : text[i] \in Alphabet BY <1>1, <1>4, ElementOfSeq
<1>6. SubSeq(text, start, j - 1) \in Seq(Alphabet)
      BY <1>2, <1>3, <1>5, SubSeqProperties
<1>7. Cut(kind, j) = [kind |-> kind, value |-> SubSeq(text, start, j - 1),
                      from |-> start, to |-> j]
      BY DEF Cut
<1> QED BY <1>2, <1>3, <1>6, <1>7 DEF Token

\* The tokens stay in order when the index moves on.
LEMMA IndexMoves ==
    ASSUME LexerTypeOK, InOrder, UNCHANGED <<text, tokens>>,
           index' \in index .. Len(text) + 1
    PROVE  InOrder'
<1>1. index \in 1 .. Len(text) + 1 /\ tokens \in Seq(Token) BY DEF LexerTypeOK
<1>2. Len(text) \in Nat BY Starts
<1>3. index \in Nat /\ index' \in Nat /\ index <= index' BY <1>1, <1>2
<1>4. \A k \in DOMAIN tokens : tokens[k] \in Token BY <1>1, LenProperties, ElementOfSeq
<1>5. \A k \in DOMAIN tokens : tokens[k].to \in Nat BY <1>4 DEF Token
<1>6. \A k \in DOMAIN tokens : tokens[k].to <= index' BY <1>3, <1>5 DEF InOrder
<1> QED BY <1>6 DEF InOrder

LEMMA ThrowKeeps ==
    ASSUME LexerInv, outcome' = "thrown", UNCHANGED <<text, tokens>>,
           index' \in index .. Len(text) + 1, EndsRight'
    PROVE  LexerInv'
<1>1. index \in 1 .. Len(text) + 1 BY DEF LexerInv, LexerTypeOK
<1>2. Len(text) \in Nat BY Starts DEF LexerInv
<1>3. index' \in 1 .. Len(text) + 1 BY <1>1, <1>2
<1>4. LexerTypeOK' BY <1>3 DEF LexerInv, LexerTypeOK
<1>5. InOrder' BY IndexMoves DEF LexerInv
<1>6. NothingSkipped' BY DEF NothingSkipped
<1> QED BY <1>4, <1>5, <1>6 DEF LexerInv

\* A token of one character: a sign, a bracket or a comma.
LEMMA OneCharacter ==
    ASSUME LexerInv, outcome = "none", start <= Len(text),
           NEW kind \in Kinds \ {"digit", "ident"}, Return(Cut(kind, start + 1)),
           text[start] \in Marks \cup {"c"}
    PROVE  LexerInv'
<1>1. Len(text) \in Nat /\ start \in 1 .. Len(text) + 1 BY Starts DEF LexerInv
<1>2. start + 1 \in start + 1 .. Len(text) + 1 BY <1>1
<1>3. /\ Cut(kind, start + 1) \in Token
      /\ Cut(kind, start + 1).kind = kind
      /\ Cut(kind, start + 1).from = start
      /\ Cut(kind, start + 1).to = start + 1
      /\ Cut(kind, start + 1).value = SubSeq(text, start, start + 1 - 1)
      /\ start \in 1 .. Len(text)
      BY <1>2, CutIsToken
<1>4. WellCut(text, Cut(kind, start + 1))
  <2> DEFINE token == Cut(kind, start + 1)
  <2>1. token.kind \notin {"digit", "ident"} BY <1>3
  <2>2. token.to - 1 = start + 1 - 1 BY <1>3
  <2> QED BY <1>2, <1>3, <2>1, <2>2 DEF WellCut
<1> QED BY <1>3, <1>4, ReturnKeeps

LEMMA DigitKeeps ==
    ASSUME LexerInv, Digit
    PROVE  LexerInv'
<1> DEFINE j == Skip(text, start, Digits)
<1>1. outcome = "none" /\ start <= Len(text) /\ text[start] \in Digits
      BY DEF Digit, StartsWith, IsDigitStart
<1>2. text \in Seq(Alphabet) BY DEF LexerInv, LexerTypeOK
<1>3. Len(text) \in Nat /\ start \in 1 .. Len(text) + 1 BY Starts DEF LexerInv
<1>4. start \in 1 .. Len(text) BY <1>1, <1>3
<1>5. j \in start + 1 .. Len(text) + 1 BY <1>1, <1>2, <1>4, SkipAdvances
<1>6. /\ \A k \in start .. j - 1 : text[k] \in Digits
      /\ j <= Len(text) => text[j] \notin Digits
      BY <1>2, <1>3, SkipStops
<1> HIDE DEF j
<1>7. "digit" \in Kinds BY DEF Kinds
<1>8. /\ Cut("digit", j) \in Token
      /\ Cut("digit", j).kind = "digit"
      /\ Cut("digit", j).from = start
      /\ Cut("digit", j).to = j
      /\ Cut("digit", j).value = SubSeq(text, start, j - 1)
      BY <1>1, <1>5, <1>7, CutIsToken
<1>9. WellCut(text, Cut("digit", j)) BY <1>4, <1>5, <1>6, <1>8 DEF WellCut
<1>10. Return(Cut("digit", j)) BY DEF Digit, j
<1> QED BY <1>1, <1>8, <1>9, <1>10, ReturnKeeps

LEMMA IdentKeeps ==
    ASSUME LexerInv, Ident
    PROVE  LexerInv'
<1> DEFINE j == Skip(text, start, Letters \cup Digits)
<1>1. /\ outcome = "none" /\ start <= Len(text)
      /\ text[start] \in Letters \ {"c"}
      BY DEF Ident, StartsWith, IsIdentStart, IsSigneStart
<1>2. text \in Seq(Alphabet) BY DEF LexerInv, LexerTypeOK
<1>3. Len(text) \in Nat /\ start \in 1 .. Len(text) + 1 BY Starts DEF LexerInv
<1>4. start \in 1 .. Len(text) BY <1>1, <1>3
<1>5. j \in start + 1 .. Len(text) + 1 BY <1>1, <1>2, <1>4, SkipAdvances
<1>6. /\ \A k \in start .. j - 1 : text[k] \in Letters \cup Digits
      /\ j <= Len(text) => text[j] \notin Letters \cup Digits
      BY <1>2, <1>3, SkipStops
<1>7. IF j > Len(text) THEN Throw(j) ELSE Return(Cut("ident", j)) BY DEF Ident
<1> HIDE DEF j
<1>8. CASE j > Len(text)
  <2>1. j = Len(text) + 1 BY <1>3, <1>4, <1>5, <1>8
  <2>2. Throw(j) BY <1>7, <1>8
  <2>3. /\ text' = text /\ tokens' = tokens /\ outcome' = "thrown"
        /\ index' = Len(text) + 1
        BY <2>1, <2>2 DEF Throw
  <2>4. \A k \in start .. Len(text) : text[k] \in Letters \cup Digits
        BY <1>3, <1>6, <2>1
  <2>5. DOMAIN text = 1 .. Len(text) BY <1>2, LenProperties
  <2>6. NameAtTheEnd BY <1>1, <1>4, <2>4, <2>5 DEF NameAtTheEnd
  <2>7. NameAtTheEnd' BY <2>3, <2>6 DEF NameAtTheEnd
  <2>8. EndsRight' BY <2>3, <2>7 DEF EndsRight
  <2>9. index \in 1 .. Len(text) + 1 BY DEF LexerInv, LexerTypeOK
  <2>10. index' \in index .. Len(text) + 1 BY <1>3, <2>3, <2>9
  <2> QED BY <2>3, <2>8, <2>10, ThrowKeeps
<1>9. CASE ~(j > Len(text))
  <2>1. "ident" \in Kinds BY DEF Kinds
  <2>2. j <= Len(text) BY <1>3, <1>4, <1>5, <1>9
  <2>3. /\ Cut("ident", j) \in Token
        /\ Cut("ident", j).kind = "ident"
        /\ Cut("ident", j).from = start
        /\ Cut("ident", j).to = j
        /\ Cut("ident", j).value = SubSeq(text, start, j - 1)
        BY <1>1, <1>5, <2>1, CutIsToken
  <2>4. WellCut(text, Cut("ident", j))
        BY <1>1, <1>4, <1>5, <1>6, <2>2, <2>3 DEF WellCut
  <2>5. Return(Cut("ident", j)) BY <1>7, <1>9
  <2> QED BY <1>1, <2>3, <2>4, <2>5, ReturnKeeps
<1> QED BY <1>8, <1>9

LEMMA RefuseKeeps ==
    ASSUME LexerInv, Refuse
    PROVE  LexerInv'
<1>1. /\ outcome = "none" /\ start <= Len(text) /\ IsNoStart(text[start])
      /\ text' = text /\ tokens' = tokens /\ outcome' = "thrown" /\ index' = start
      BY DEF Refuse, StartsWith, Throw
<1>2. Len(text) \in Nat /\ start \in index .. Len(text) + 1 /\ start \in 1 .. Len(text) + 1
      /\ text[start] \notin Spaces
      BY <1>1, Starts DEF LexerInv
<1>3. start \in 1 .. Len(text) BY <1>1, <1>2
<1>4. text[start] \notin Known
      BY <1>1, <1>2 DEF IsNoStart, Known, Marks, Signs, IsSigneStart, IsDigitStart,
                        IsIdentStart, IsParenthisStart, IsCurlyBracketStart, IsSymbolStart
<1>5. EndsRight' BY <1>1, <1>3, <1>4 DEF EndsRight
<1> QED BY <1>1, <1>2, <1>5, ThrowKeeps

LEMMA EndOfTokenKeeps ==
    ASSUME LexerInv, EndOfToken
    PROVE  LexerInv'
<1>1. /\ outcome = "none" /\ start > Len(text)
      /\ text' = text /\ tokens' = tokens /\ outcome' = "returned" /\ index' = start
      BY DEF EndOfToken
<1>2. /\ Len(text) \in Nat /\ start \in 1 .. Len(text) + 1
      /\ start \in index .. Len(text) + 1
      /\ \A i \in index .. start - 1 : text[i] \in Spaces
      BY Starts DEF LexerInv
<1>3. index \in 1 .. Len(text) + 1 BY DEF LexerInv, LexerTypeOK
<1>4. start = Len(text) + 1 BY <1>1, <1>2
<1>5. LexerTypeOK' BY <1>1, <1>2 DEF LexerInv, LexerTypeOK
<1>6. InOrder' BY <1>1, <1>2, <1>3, IndexMoves DEF LexerInv
<1>7. NothingSkipped'
  <2>1. SUFFICES ASSUME NEW i \in 1 .. start - 1
                 PROVE  \/ text[i] \in Spaces
                        \/ \E k \in DOMAIN tokens : i \in tokens[k].from .. tokens[k].to - 1
        BY <1>1 DEF NothingSkipped
  <2>2. i \in 1 .. index - 1 \/ i \in index .. start - 1 BY <1>2, <1>3
  <2> QED BY <1>1, <1>2, <2>2 DEF LexerInv, NothingSkipped
<1>8. EndsRight' BY <1>1, <1>4 DEF EndsRight
<1> QED BY <1>5, <1>6, <1>7, <1>8 DEF LexerInv

LEMMA NextTokenKeeps ==
    ASSUME LexerInv, NextToken
    PROVE  LexerInv'
<1>1. ASSUME Sign PROVE LexerInv'
  <2>1. /\ outcome = "none" /\ start <= Len(text)
        /\ text[start] \in Marks \cup {"c"}
        /\ Return(Cut("sign", start + 1))
        BY <1>1 DEF Sign, StartsWith, IsSigneStart, Marks
  <2> QED BY <2>1, OneCharacter DEF Kinds
<1>2. ASSUME Parenthesis PROVE LexerInv'
  <2>1. /\ outcome = "none" /\ start <= Len(text)
        /\ text[start] \in Marks \cup {"c"}
        /\ Return(Cut("parenthesis", start + 1))
        BY <1>2 DEF Parenthesis, StartsWith, IsParenthisStart, Marks
  <2> QED BY <2>1, OneCharacter DEF Kinds
<1>3. ASSUME CurlyBracket PROVE LexerInv'
  <2> DEFINE kind == IF text[start] = "{" THEN "curlybracket" ELSE "endofblock"
  <2>1. /\ outcome = "none" /\ start <= Len(text)
        /\ text[start] \in Marks \cup {"c"}
        /\ Return(Cut(kind, start + 1))
        BY <1>3 DEF CurlyBracket, StartsWith, IsCurlyBracketStart, Marks
  <2>2. kind \in Kinds \ {"digit", "ident"} BY DEF Kinds
  <2> HIDE DEF kind
  <2> QED BY <2>1, <2>2, OneCharacter
<1>4. ASSUME Symbol PROVE LexerInv'
  <2>1. /\ outcome = "none" /\ start <= Len(text)
        /\ text[start] \in Marks \cup {"c"}
        /\ Return(Cut("symbol", start + 1))
        BY <1>4 DEF Symbol, StartsWith, IsSymbolStart, Marks
  <2> QED BY <2>1, OneCharacter DEF Kinds
<1> QED BY <1>1, <1>2, <1>3, <1>4, DigitKeeps, IdentKeeps, RefuseKeeps, EndOfTokenKeeps
        DEF NextToken

\* Tokenize, on any text, keeps the invariant of the lexer.
THEOREM LexerInvariant == LexerSpec => []LexerInv
<1>1. ASSUME LexerInv, [LexerNext]_lexerVars PROVE LexerInv'
  <2>1. ASSUME NEW ch \in Alphabet, Type(ch) PROVE LexerInv' BY <1>1, <2>1, TypeKeeps
  <2>2. ASSUME NextToken PROVE LexerInv' BY <1>1, <2>2, NextTokenKeeps
  <2>3. ASSUME UNCHANGED lexerVars PROVE LexerInv'
        BY <1>1, <2>3 DEF lexerVars, LexerInv, LexerTypeOK, InOrder, NothingSkipped,
                          EndsRight, NameAtTheEnd
  <2> QED BY <1>1, <2>1, <2>2, <2>3 DEF LexerNext
<1> QED BY <1>1, InitLexerInv, PTL DEF LexerSpec

\* Text, index, tokens and outcome of the lexer have their types.
THEOREM LexerTypeCorrect == LexerSpec => []LexerTypeOK
<1>1. LexerInv => LexerTypeOK BY DEF LexerInv
<1> QED BY <1>1, LexerInvariant, PTL

-----------------------------------------------------------------------------
(* The properties of the lexer                                             *)

\* What is in a token is no space, and a character the lexer knows.
LEMMA TokenCharacters ==
    ASSUME LexerInv, NEW k \in DOMAIN tokens,
           NEW i \in tokens[k].from .. tokens[k].to - 1
    PROVE  /\ i \in 1 .. Len(text)
           /\ text[i] \in Known
           /\ text[i] \notin Spaces
<1> DEFINE token == tokens[k]
<1>1. WellCut(text, token) BY DEF LexerInv, InOrder
<1> HIDE DEF token
<1>2. Len(text) \in Nat BY Starts DEF LexerInv
<1>3. /\ token.from \in 1 .. Len(text)
      /\ token.to \in token.from + 1 .. Len(text) + 1
      /\ i \in token.from .. token.to - 1
      BY <1>1 DEF WellCut, token
<1>4. i \in 1 .. Len(text) BY <1>2, <1>3
<1>5. text[i] \in Letters \cup Digits \cup Marks
  <2>1. CASE token.kind \in {"digit", "ident"} BY <1>1, <1>3, <2>1 DEF WellCut
  <2>2. CASE token.kind \notin {"digit", "ident"}
    <3>1. i = token.from BY <1>1, <1>3, <2>2 DEF WellCut
    <3> QED BY <1>1, <2>2, <3>1, LexerConstants DEF WellCut
  <2> QED BY <2>1, <2>2
<1> QED BY <1>4, <1>5, LexerConstants DEF Known

\* Every character that is not a space is in exactly one token, in order.
THEOREM EveryCharacterKept == LexerSpec => []KeepsEveryCharacter
<1>1. ASSUME LexerInv PROVE KeepsEveryCharacter
  <2>1. ASSUME outcome # "thrown", NEW i \in 1 .. index - 1
        PROVE  text[i] \notin Spaces <=>
                   \E k \in DOMAIN tokens : i \in tokens[k].from .. tokens[k].to - 1
        BY <1>1, <2>1, TokenCharacters DEF LexerInv, NothingSkipped
  <2>2. \A k \in DOMAIN tokens :
            /\ tokens[k].value = SubSeq(text, tokens[k].from, tokens[k].to - 1)
            /\ \A l \in 1 .. k - 1 : tokens[l].to <= tokens[k].from
        BY <1>1 DEF LexerInv, InOrder, WellCut
  <2>3. outcome = "returned" => index = Len(text) + 1
        BY <1>1 DEF LexerInv, EndsRight
  <2> QED BY <2>1, <2>2, <2>3 DEF KeepsEveryCharacter
<1> QED BY <1>1, LexerInvariant, PTL

\* The value of a token, character by character.
LEMMA ValueCharacters ==
    ASSUME LexerInv, NEW k \in DOMAIN tokens
    PROVE  LET token == tokens[k]
           IN  /\ token.from \in 1 .. Len(text)
               /\ token.to - token.from \in Nat \ {0}
               /\ token.value \in Seq(Alphabet)
               /\ Len(token.value) = token.to - token.from
               /\ token.value[1] = text[token.from]
               /\ \A i \in 1 .. token.to - token.from :
                      /\ token.value[i] = text[token.from + i - 1]
                      /\ token.from + i - 1 \in token.from .. token.to - 1
<1> DEFINE token == tokens[k]
<1>1. WellCut(text, token) BY DEF LexerInv, InOrder
<1>2. token \in Token BY LenProperties, ElementOfSeq DEF LexerInv, LexerTypeOK
<1> HIDE DEF token
<1>3. Len(text) \in Nat BY Starts DEF LexerInv
<1>4. /\ token.from \in 1 .. Len(text)
      /\ token.to \in token.from + 1 .. Len(text) + 1
      /\ token.value = SubSeq(text, token.from, token.to - 1)
      BY <1>1 DEF WellCut
<1>5. /\ token.from \in Nat /\ token.to \in Nat
      /\ token.to - 1 \in Int /\ token.from <= token.to - 1
      /\ token.to - token.from \in Nat \ {0}
      /\ (token.to - 1) - token.from + 1 = token.to - token.from
      BY <1>3, <1>4
<1>6. \A i \in token.from .. token.to - 1 : i \in 1 .. Len(text) BY <1>3, <1>4, <1>5
<1>7. \A i \in token.from .. token.to - 1 : text[i] \in Alphabet
      BY <1>6, ElementOfSeq DEF LexerInv, LexerTypeOK
<1>8. /\ token.value \in Seq(Alphabet)
      /\ Len(token.value) = token.to - token.from
      /\ \A i \in 1 .. token.to - token.from : token.value[i] = text[token.from + i - 1]
  <2> DEFINE m == token.from
             n == token.to - 1
  <2>1. /\ m \in Int /\ n \in Int /\ m <= n
        /\ \A i \in m .. n : text[i] \in Alphabet
        /\ token.value = SubSeq(text, m, n)
        /\ n - m + 1 = token.to - token.from
        BY <1>4, <1>5, <1>7
  <2> HIDE DEF m, n
  <2>2. /\ SubSeq(text, m, n) \in Seq(Alphabet)
        /\ Len(SubSeq(text, m, n)) = n - m + 1
        /\ \A i \in 1 .. n - m + 1 : SubSeq(text, m, n)[i] = text[m + i - 1]
        BY ONLY <2>1, SubSeqProperties, SMTT(30)
  <2> QED BY ONLY <2>1, <2>2 DEF m, Zenon
<1>9. \A i \in 1 .. token.to - token.from : token.from + i - 1 \in token.from .. token.to - 1
      BY <1>5
<1>10. 1 \in 1 .. token.to - token.from /\ token.from + 1 - 1 = token.from BY <1>5
<1>11. token.value[1] = text[token.from] BY <1>8, <1>10
<1> QED BY <1>4, <1>5, <1>8, <1>9, <1>11 DEF token

\* Numbers and names are cut where they cannot go on, and not before.
THEOREM TokensLongest == LexerSpec => []LongestTokens
<1>1. ASSUME LexerInv PROVE LongestTokens
  <2>1. SUFFICES ASSUME NEW k \in DOMAIN tokens
                 PROVE  LET token == tokens[k]
                        IN  /\ token.kind = "digit" => IsNumber(token.value)
                            /\ token.kind = "ident" => IsName(token.value)
                            /\ token.kind \in {"digit", "ident"} /\ token.to <= Len(text) =>
                                  LET longer == Append(token.value, text[token.to])
                                  IN  ~IsNumber(longer) /\ ~IsName(longer)
        BY DEF LongestTokens
  <2> DEFINE token == tokens[k]
             v == token.value
             next == text[token.to]
             longer == Append(v, next)
  <2>2. /\ token.from \in 1 .. Len(text)
        /\ token.to - token.from \in Nat \ {0}
        /\ v \in Seq(Alphabet)
        /\ Len(v) = token.to - token.from
        /\ v[1] = text[token.from]
        /\ \A i \in 1 .. token.to - token.from :
               /\ v[i] = text[token.from + i - 1]
               /\ token.from + i - 1 \in token.from .. token.to - 1
        BY <1>1, ValueCharacters
  <2>3. WellCut(text, token) BY <1>1 DEF LexerInv, InOrder
  <2>4. Len(text) \in Nat BY <1>1, Starts DEF LexerInv
  <2> HIDE DEF token
  <2>5. /\ DOMAIN v = 1 .. Len(v) /\ 1 \in DOMAIN v /\ v # <<>>
        BY <2>2, LenProperties, EmptySeq
  <2>6. Head(v) = v[1] BY <2>2, <2>5
  <2>7. ASSUME token.to <= Len(text)
        PROVE  /\ longer # <<>> /\ Head(longer) = v[1]
               /\ next \in ToSet(longer) /\ v[1] \in ToSet(longer)
    <3>1. token.to \in 1 .. Len(text) BY <2>3, <2>4, <2>7 DEF WellCut
    <3>2. next \in Alphabet BY <1>1, <3>1, ElementOfSeq DEF LexerInv, LexerTypeOK
    <3> HIDE DEF v, next
    <3>3. /\ longer \in Seq(Alphabet) /\ longer # <<>> /\ Len(longer) = Len(v) + 1
          /\ longer[Len(v) + 1] = next
          /\ \A i \in 1 .. Len(v) : longer[i] = v[i]
          BY <2>2, <3>2, AppendProperties
    <3>4. DOMAIN longer = 1 .. Len(v) + 1 BY <3>3, LenProperties
    <3>5. 1 \in 1 .. Len(v) /\ Len(v) + 1 \in 1 .. Len(v) + 1 /\ 1 \in 1 .. Len(v) + 1
          BY <2>2
    <3>6. longer[1] = v[1] BY <3>3, <3>5
    <3> HIDE DEF longer
    <3>7. Head(longer) = longer[1] BY <3>3
    <3> QED BY <3>3, <3>4, <3>5, <3>6, <3>7 DEF ToSet
  <2>8. ASSUME token.kind = "digit"
        PROVE  /\ IsNumber(v)
               /\ token.to <= Len(text) => ~IsNumber(longer) /\ ~IsName(longer)
    <3>1. \A i \in token.from .. token.to - 1 : text[i] \in Digits
          BY <2>3, <2>8 DEF WellCut
    <3>2. \A i \in DOMAIN v : v[i] \in Digits BY <2>2, <2>5, <3>1
    <3>3. IsNumber(v) BY <2>5, <3>2 DEF IsNumber, ToSet
    <3>4. ASSUME token.to <= Len(text) PROVE ~IsNumber(longer) /\ ~IsName(longer)
      <4>1. next \notin Digits BY <2>3, <2>8, <3>4 DEF WellCut
      <4>2. v[1] \notin Letters BY <2>5, <3>2, LexerConstants
      <4> HIDE DEF longer, next, v
      <4> QED BY <2>7, <3>4, <4>1, <4>2 DEF IsNumber, IsName
    <3> QED BY <3>3, <3>4
  <2>9. ASSUME token.kind = "ident"
        PROVE  /\ IsName(v)
               /\ token.to <= Len(text) => ~IsNumber(longer) /\ ~IsName(longer)
    <3>1. /\ \A i \in token.from .. token.to - 1 : text[i] \in Letters \cup Digits
          /\ text[token.from] \in Letters /\ next \notin Letters \cup Digits
          BY <2>3, <2>9 DEF WellCut
    <3>2. \A i \in DOMAIN v : v[i] \in Letters \cup Digits BY <2>2, <2>5, <3>1
    <3>3. ToSet(v) \subseteq Letters \cup Digits BY <3>2 DEF ToSet
    <3>4. v[1] \in Letters BY <2>2, <3>1
    <3>5. IsName(v) BY <2>5, <2>6, <3>3, <3>4 DEF IsName
    <3>6. ASSUME token.to <= Len(text) PROVE ~IsNumber(longer) /\ ~IsName(longer)
      <4>1. v[1] \notin Digits BY <3>4, LexerConstants
      <4> HIDE DEF longer, next, v
      <4> QED BY <2>7, <3>1, <3>6, <4>1 DEF IsNumber, IsName
    <3> QED BY <3>5, <3>6
  <2> QED BY <2>8, <2>9 DEF token
<1> QED BY <1>1, LexerInvariant, PTL

\* When Tokenize returns, the text does not end in a name: the first letter of
\* such a name would be in a token that goes on beyond the text.
LEMMA NoNameAtTheEnd ==
    ASSUME LexerInv, outcome = "returned"
    PROVE  ~NameAtTheEnd
<1>1. text \in Seq(Alphabet) /\ Len(text) \in Nat /\ DOMAIN text = 1 .. Len(text)
      BY LenProperties DEF LexerInv, LexerTypeOK
<1>2. SUFFICES ASSUME NEW i \in 1 .. Len(text), text[i] \in Letters \ {"c"},
                      \A m \in i .. Len(text) : text[m] \in Letters \cup Digits
               PROVE  FALSE
      BY <1>1 DEF NameAtTheEnd
<1>3. i \in 1 .. index - 1 BY <1>1 DEF LexerInv, EndsRight
<1>4. text[i] \notin Spaces BY <1>2, LexerConstants
<1>5. PICK k \in DOMAIN tokens : i \in tokens[k].from .. tokens[k].to - 1
      BY <1>3, <1>4 DEF LexerInv, NothingSkipped
<1> DEFINE token == tokens[k]
<1>6. WellCut(text, token) BY DEF LexerInv, InOrder
<1> HIDE DEF token
<1>7. /\ token.from \in 1 .. Len(text)
      /\ token.to \in token.from + 1 .. Len(text) + 1
      /\ i \in token.from .. token.to - 1
      BY <1>5, <1>6 DEF WellCut, token
<1>8. token.kind # "digit" BY <1>2, <1>6, <1>7, LexerConstants DEF WellCut
<1>9. token.kind # "ident"
  <2>1. SUFFICES ASSUME token.kind = "ident" PROVE FALSE OBVIOUS
  <2>2. token.to <= Len(text) /\ text[token.to] \notin Letters \cup Digits
        BY <1>6, <2>1 DEF WellCut
  <2>3. token.to \in i .. Len(text) BY <1>1, <1>7, <2>2
  <2> QED BY <1>2, <2>2, <2>3
<1>10. token.to = token.from + 1 /\ text[token.from] \in Marks \cup {"c"}
       BY <1>6, <1>8, <1>9 DEF WellCut
<1>11. i = token.from BY <1>1, <1>7, <1>10
<1> QED BY <1>2, <1>10, <1>11, LexerConstants

\* A text is refused for an unknown character or for ending in a name, and for
\* nothing else.
THEOREM NothingElseRefused == LexerSpec => []RefusesNothingElse
<1>1. ASSUME LexerInv PROVE RefusesNothingElse
  <2>1. text \in Seq(Alphabet) /\ Len(text) \in Nat /\ DOMAIN text = 1 .. Len(text)
        BY <1>1, LenProperties DEF LexerInv, LexerTypeOK
  <2>2. ASSUME outcome = "returned" PROVE ToSet(text) \subseteq Known /\ ~NameAtTheEnd
    <3>1. index = Len(text) + 1 BY <1>1, <2>2 DEF LexerInv, EndsRight
    <3>2. ASSUME NEW i \in 1 .. Len(text) PROVE text[i] \in Known
      <4>1. i \in 1 .. index - 1 BY <2>1, <3>1
      <4>2. \/ text[i] \in Spaces
            \/ \E k \in DOMAIN tokens : i \in tokens[k].from .. tokens[k].to - 1
            BY <1>1, <2>2, <4>1 DEF LexerInv, NothingSkipped
      <4> QED BY <1>1, <4>2, TokenCharacters DEF Known
    <3>3. ToSet(text) \subseteq Known BY <2>1, <3>2 DEF ToSet
    <3> QED BY <1>1, <2>2, <3>3, NoNameAtTheEnd
  <2>3. ASSUME outcome = "thrown" PROVE ~(ToSet(text) \subseteq Known /\ ~NameAtTheEnd)
    <3>1. (\E i \in 1 .. Len(text) : text[i] \notin Known) \/ NameAtTheEnd
          BY <1>1, <2>3 DEF LexerInv, EndsRight
    <3> QED BY <2>1, <3>1 DEF ToSet
  <2> QED BY <2>2, <2>3 DEF RefusesNothingElse
<1> QED BY <1>1, LexerInvariant, PTL

\* No text that is a variable is cut into that variable: a token of it would end
\* the text, and Ident throws there.  What VariableIsOneToken says fails always,
\* and not only for the texts of a run.
THEOREM NoVariableIsOneToken ==
    LexerSpec => [](IsName(text) /\ outcome = "returned" =>
                       \A k \in DOMAIN tokens : tokens[k].kind # "ident")
<1>1. ASSUME LexerInv, IsName(text), outcome = "returned",
             NEW k \in DOMAIN tokens, tokens[k].kind = "ident"
      PROVE  FALSE
  <2>1. text \in Seq(Alphabet) /\ Len(text) \in Nat /\ DOMAIN text = 1 .. Len(text)
        BY <1>1, LenProperties DEF LexerInv, LexerTypeOK
  <2>2. WellCut(text, tokens[k]) BY <1>1 DEF LexerInv, InOrder
  <2>3. /\ tokens[k].from \in 1 .. Len(text)
        /\ text[tokens[k].from] \in Letters \ {"c"}
        BY <1>1, <2>2 DEF WellCut
  <2>4. \A m \in 1 .. Len(text) : text[m] \in Letters \cup Digits
        BY <1>1, <2>1 DEF IsName, ToSet
  <2>5. \A m \in tokens[k].from .. Len(text) : m \in 1 .. Len(text) BY <2>1, <2>3
  <2>6. NameAtTheEnd BY <2>1, <2>3, <2>4, <2>5 DEF NameAtTheEnd
  <2> QED BY <1>1, <2>6, NoNameAtTheEnd
<1>2. LexerInv => (IsName(text) /\ outcome = "returned" =>
                      \A k \in DOMAIN tokens : tokens[k].kind # "ident")
      BY <1>1
<1> QED BY <1>2, LexerInvariant, PTL

-----------------------------------------------------------------------------
(* Tokenize ends                                                           *)

\* A call of NextToken reads a character at least, and none beyond the text, or
\* is the last.
Advances ==
    NextToken =>
        /\ text' = text
        /\ index' \in index + 1 .. Len(text) + 1 \/ outcome' # "none"

\* The loop of Tokenize calls NextToken once more than the text has characters
\* at most.
THEOREM TokenizeAdvances == LexerSpec => [][Advances]_lexerVars
<1>1. ASSUME LexerInv, NextToken PROVE Advances
  <2>1. /\ Len(text) \in Nat /\ index \in 1 .. Len(text) + 1
        /\ start \in index .. Len(text) + 1
        BY <1>1, Starts DEF LexerInv, LexerTypeOK
  <2>2. text \in Seq(Alphabet) BY <1>1 DEF LexerInv, LexerTypeOK
  <2>3. ASSUME NEW kind, NEW j \in start + 1 .. Len(text) + 1, Return(Cut(kind, j))
        PROVE  Advances
    <3>1. text' = text /\ index' = j BY <2>3 DEF Return, Cut
    <3>2. j \in index + 1 .. Len(text) + 1 BY <2>1
    <3> QED BY <3>1, <3>2 DEF Advances
  <2>4. ASSUME start <= Len(text) PROVE start + 1 \in start + 1 .. Len(text) + 1
        BY <2>1, <2>4
  <2>5. ASSUME NEW S, start <= Len(text), text[start] \in S
        PROVE  Skip(text, start, S) \in start + 1 .. Len(text) + 1
    <3>1. start \in 1 .. Len(text) BY <2>1, <2>5
    <3> QED BY <2>2, <2>5, <3>1, SkipAdvances
  <2>6. CASE Sign BY <2>3, <2>4, <2>6 DEF Sign, StartsWith
  <2>7. CASE Digit BY <2>3, <2>5, <2>7 DEF Digit, StartsWith, IsDigitStart
  <2>8. CASE Ident
    <3>1. start <= Len(text) /\ text[start] \in Letters \cup Digits
          BY <2>8 DEF Ident, StartsWith, IsIdentStart
    <3>2. Skip(text, start, Letters \cup Digits) \in start + 1 .. Len(text) + 1
          BY <2>5, <3>1
    <3>3. ASSUME NEW j, Throw(j) PROVE Advances BY <3>3 DEF Throw, Advances
    <3> QED BY <2>3, <2>8, <3>2, <3>3 DEF Ident
  <2>9. CASE Parenthesis BY <2>3, <2>4, <2>9 DEF Parenthesis, StartsWith
  <2>10. CASE CurlyBracket BY <2>3, <2>4, <2>10 DEF CurlyBracket, StartsWith
  <2>11. CASE Symbol BY <2>3, <2>4, <2>11 DEF Symbol, StartsWith
  <2>12. CASE Refuse BY <2>12 DEF Refuse, Throw, Advances
  <2>13. CASE EndOfToken BY <2>13 DEF EndOfToken, Advances
  <2> QED BY <1>1, <2>6, <2>7, <2>8, <2>9, <2>10, <2>11, <2>12, <2>13 DEF NextToken
<1>2. LexerInv /\ [LexerNext]_lexerVars => [Advances]_lexerVars
      BY <1>1 DEF Advances
<1> QED BY <1>2, LexerInvariant, PTL DEF LexerSpec
=============================================================================
