SPECIFICATION Spec
CONSTANTS
  BufferSize = 3
  SizeMod = 8
  Main = main
  Others = {}
  MaxBytes = 4
INVARIANTS OnlyWrittenBytes
