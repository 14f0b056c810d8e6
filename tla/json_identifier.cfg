CONSTANTS
  Keys <- MCKeys
  Texts <- MCTexts
  Numbers <- MCNumbers
  Truths <- MCTruths
  MaxDocuments = 2
SPECIFICATION Spec
INVARIANT IdentifiersUnique
CHECK_DEADLOCK FALSE
