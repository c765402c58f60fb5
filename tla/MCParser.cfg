\* Every line of up to 6 characters; any character stands for those that do what it does.
SPECIFICATION Spec
CONSTANTS
  Digits = {"0", "1"}
  OutOfRange <- MCOutOfRange
  Alphabet = {"c", "0", "1", ".", ":", "|", "cr"}
  MaxLength = 6
INVARIANTS
  CountsDocumentedPrefix
  ResultAsStated
  IncrementIsOfThisLine
PROPERTIES
  CountIsFinal
  FailureConsumesNothing
  ParseEnds
