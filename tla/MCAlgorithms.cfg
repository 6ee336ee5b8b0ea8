CONSTANT Widths = {1, 2, 4, 8, 16, 32}
CONSTANT Lengths = {0, 1, 63, 64, 16383, 16384, 63999000, 64000000, 1073741823, 1073741824}
CONSTANT MaxChanged = 100
CONSTANT MaxLeaves = 5
CONSTANT MaxConcurrencies = {0, 1, 2, 3}
CONSTANT BatchSizes = {0, 1, 2}
SPECIFICATION Spec
INVARIANT AgreesWithBits
INVARIANT PathsFitTheTree
INVARIANT DecodesWhatWasEncoded
INVARIANT VerdictIsTheTrees
\* the loops end
CHECK_DEADLOCK FALSE
