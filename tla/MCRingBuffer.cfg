SPECIFICATION Spec
CONSTANTS
  Byte = {0, 1}
  TXBUF_SIZE = 4
  MaxChunk = 3
INVARIANTS TypeOK IndicesAgree
PROPERTY IsBoundedFifo
