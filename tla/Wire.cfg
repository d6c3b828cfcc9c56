SPECIFICATION MCSpec
CONSTANTS
  c1 = c1  c2 = c2
  Tag = {"b", "i"}  MaxOpen = 4
  Conn = {c1, c2}  ChunkSize = 2  Esc = 2  Grab = 1  MaxWritten = 3  MaxChunks = 3
  Lengths = {0, 1, 2}  Texts <- MCTexts
  MaxLine = 4
  MaxParam = 9
  MaxData = 4
  Forms <- MCForms
SYMMETRY Symmetry
INVARIANTS Delivered Complete Buffered WellNested SentAsWritten
CHECK_DEADLOCK FALSE
