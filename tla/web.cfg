SPECIFICATION Spec
CONSTANTS
  Extensions = {x1, x2}
  Calls = {k1, k2}
  Streams = {s1, s2}
  MaxLeft = 1
  Undefined = Undefined
SYMMETRY Symmetry
INVARIANT TypeOK
INVARIANT FormMatchesPage
INVARIANT DialogAnswersItsOwner
INVARIANT PageIsFed
INVARIANT FreshListing
INVARIANT ListedOnce
