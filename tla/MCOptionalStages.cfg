\* Mesh pipelines with and without task and fragment shader; the other parts do not move.
SPECIFICATION Spec
CONSTANTS
  Parts = {"arguments"}
  Objects = {o1, o2}
  Addresses = {a1, a2}
  Labels = {l1, l2}
  NoObject = NoObject
  MaxRenames = 2
  MaxDisables = 1
  MaxWrites = 4
  CopyThreads = {t1, t2, t3}
  Buffers = {b1, b2, b3}
  Nobody = Nobody
  Cases <- MCCases
  Calls = 2
  i1 = i1
  i2 = i2
  Images = {i1, i2}
  KindCases <- MCKindCases
  MaxStrayed = 0
  MaxMapped = 1
  Devices = {d1, d2}
  Backends <- AllBackends
  MaxCommands = 3
  MaxRecorded = 3
  BufferCases <- MCBufferCases
  Size = 8
  Regions <- MCRegions
  PatternSizes = {1, 2, 3, 4}
  MaxCalls = 2
  EncodeCases <- DirectMeshCases
  NoFunction = NoFunction
  Recorders = {r1, r2}
  Primaries = {p1}
  Secondaries = {s1}
  NoCmdBuffer = NoCmdBuffer
  FunctionEntries = {"kernel", "vertex", "fragment"}
  WithConstants = {"kernel", "vertex"}
  Instances = {1, 2}
  Kernels <- MCKernels
  Draws <- MCDraws
  MaxLeaseCalls = 3
INVARIANTS
  StagesAreOptional
CHECK_DEADLOCK FALSE
