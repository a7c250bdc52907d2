CONSTANTS
  Size = 3
  Byte = {"a", "b"}
  MaxChunk = 4
  Stoppers = {s1, s2}
SPECIFICATION Spec
INVARIANTS Inv CaptureIsLatest
PROPERTIES SessionEnds ImplementsLife
