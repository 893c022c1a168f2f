SPECIFICATION Spec
CONSTANTS
  Undefined = Undefined
  AnyVersion = AnyVersion
  f1 = f1
  f2 = f2
  Fields = {f1, f2}
  Values = {x, y}
  Entities = {e1}
  Builders = {b1, b2}
  ETags = TRUE
  BuildOptions <- MCBuildOptions
  ChangesDuringUpdate = FALSE
  MaxAttempts = 2
  MaxVersion = 3
SYMMETRY Symmetry
INVARIANTS TypeOK RemoteStateIsKnown AppliedAtMostOnce
PROPERTIES NoLostUpdate
