SPECIFICATION Spec
CONSTANTS
  BufferSize = 3
  SizeMod = 8
  Main = main
  Others = {wifi}
  MaxBytes = 4
INVARIANTS NothingSkipped
