SPECIFICATION Spec
CHECK_DEADLOCK FALSE
CONSTANTS
  Letters = {"a", "c"}
  Digits = {"1"}
  Spaces = {" "}
  Alphabet <- MCAlphabet
  Vocabulary <- MCVocabulary
  Statements <- MCStatements
  Numerals <- MCNumerals
  MaxText = 5
  MaxTokens = 6
  MaxProgram = 4
  Width = 4
  MaxDepth = 3
INVARIANTS KeepsEveryCharacter LongestTokens RefusesNothingElse
  ExpressionsFollowGrammar ProgramsKeepWords FunctionsAndVariablesApart ArgumentsByValue
