\* The buffer (7 bytes) is larger than all the bytes sent (6), so
\* RL_OVERFLOW cannot happen; what remains is the scanning of each read.
CONSTANTS
  a = a
  b = b
  nl = nl
  Byte <- MCByte
  NL = nl
  BufSize = 7
  MaxLine = 6
  MaxSent = 6
SPECIFICATION FairSpec
PROPERTY LineStreamSpec
CHECK_DEADLOCK FALSE
