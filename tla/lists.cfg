SPECIFICATION Spec
CONSTANTS
  List = {v1, v2}
  Item = {a, b, c, d}
  Null = null
SYMMETRY ListSymmetry
INVARIANTS
  RingsAreClosed
  SweepSeesAll
  ListsAreDisjoint
PROPERTIES
  ActsAsSequences
