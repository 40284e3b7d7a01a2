SPECIFICATION Spec
CONSTANTS
  WordBytes = 2
  SizeCount = 32
  ChunkWords = 2
  StdioBytes = 2
  PipeBytes = 3
  Sizes <- MCSizes
  StreamLines <- MCStreamLines
  BatteryLines <- MCBatteryLines
  Backends = {"scalar", "avx2"}
  Best = "avx2"
  Environment = {"unset", "scalar"}
  Appetites = {0, 3, 6, 12}
INVARIANTS
  OutputIsStream
  LimitIsKept
  PinIsHonoured
PROPERTIES
  ToolExits
