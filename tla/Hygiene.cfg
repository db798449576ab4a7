\* Finite: no constants, no bounds.
SPECIFICATION Spec
INVARIANTS
  UsesLeaveNoCopy
  RefusalsLeaveNothing
PROPERTIES
  PassingSecretsGo
