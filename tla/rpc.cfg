CONSTANTS
  Unset = Unset
  None = None
  Texts = {"", "a"}
  Integers32 = {0, 1}
  MaxEntries = 2
  MaxAnswers = 2
SPECIFICATION Spec
INVARIANT TypeOK
INVARIANT RequestArrives
INVARIANT ResponseArrives
INVARIANT NothingDropped
