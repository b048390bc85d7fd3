SPECIFICATION Spec
CONSTANTS
  Agent = {a1, a2, a3, a4}
  File = {f1}
SYMMETRY Symmetry
INVARIANTS ExclusiveWriter NoLostWakeup
PROPERTIES FifoGrant
