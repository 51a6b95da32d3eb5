\* read_lines() with a 3-byte buffer: lines of up to 2 bytes and their
\* newline fit, and a read can end inside a line or fill the buffer.
CONSTANTS
  a = a
  b = b
  nl = nl
  Byte <- MCByte
  NL = nl
  BufSize = 3
  MaxLine = 2
  MaxSent = 6
SPECIFICATION Spec
INVARIANT TypeOK
INVARIANT ReadBytesAccounted
\* The connection ends once the peer closed it and the reader saw the end.
CHECK_DEADLOCK FALSE
