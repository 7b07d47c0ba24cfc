SPECIFICATION Spec
CHECK_DEADLOCK FALSE
CONSTANTS
  Letters = {"a", "c"}
  Digits = {"1"}
  Spaces = {" "}
  Alphabet <- MCAlphabet
  Vocabulary <- MCVocabulary
  Statements <- MCStatements
  Numerals <- MCNumerals
  MaxText = 3
  MaxTokens = 0
  MaxProgram = 0
  Width = 4
  MaxDepth = 3
INVARIANTS VariableIsOneToken
