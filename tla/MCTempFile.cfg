\* A buffer of 2 bytes, calls that move up to 3, a file that was left with up to 3, and
\* a count that wraps at 8.
CONSTANTS
  TMF_BUFFERSIZE = 2
  UintRange = 8
  MaxLeft = 3
  MaxLen = 3
  MaxFile = 9
  MaxPos = 3
  Bytes = {0, 1}
  Zero = 0
  Junk = Junk
SPECIFICATION Spec
INVARIANTS TypeOK
PROPERTIES CallsReturn FileSpec
