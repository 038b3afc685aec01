SPECIFICATION Spec
CONSTANTS
  Names = {a, b}
  WINDOW_SIZE = 2
  MaxRows = 4
INVARIANTS BagsCounted WindowsLearnt
PROPERTIES OnlyWindowsLearnt
SYMMETRY Symmetry
