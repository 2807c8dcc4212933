SPECIFICATION Spec
INVARIANTS
  CutTiles
  CutShallowTail
