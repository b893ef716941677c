SPECIFICATION Spec
INVARIANT
  SelectionIsClosest
  PopMatchesReference
