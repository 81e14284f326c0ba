CONSTANT
  MaxTokens = 14
SPECIFICATION Spec
INVARIANTS Recognised Translated Owned
