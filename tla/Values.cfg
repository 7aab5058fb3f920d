SPECIFICATION Spec
CONSTANTS
  Vars = {"x"}
  Keys = {key_a, key_b}
  Arity <- MCArity
  HasDel = {"C", "P"}
  HasCopyinit = {"C"}
  ExplicitDestroy = {"L"}
  MaxObjects = 4
  MaxValues = 3
  MaxNodes = 5
SYMMETRY Symmetric
CHECK_DEADLOCK FALSE
INVARIANTS OwnedOnce
PROPERTIES TransfersLoseNothing DestructionOrder
