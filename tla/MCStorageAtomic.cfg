\* The documented atomicity of a save, without any failure.
CONSTANTS
  Saver = {s1}
  Reader = {r1}
  Suffix = {n1}
  NoSuffix = NoSuffix
  MaxSaves = 2
  Fault = {}
  MaxFaults = 0
SPECIFICATION Spec
INVARIANT
  AlwaysUnderItsName
