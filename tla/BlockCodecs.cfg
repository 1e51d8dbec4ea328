SPECIFICATION Spec
CONSTANTS
  Inputs <- MCInputs
  Streams <- MCStreams
  MINMATCH = 4
  EXT = 3
  Capacities = {28, 49}
  M2_MAX_LEN = 5
  M2_MAX_OFFSET = 3
  M2_LOW = 4
  M3_MARKER = 12
  M3_MAX_LEN = 5
  M3_MAX_OFFSET = 6
  M4_MARKER = 4
  M4_MAX_LEN = 5
  OFFSET_LOW = 2
  TRAIL = 1
  FIRST = 6
  STRIDE = 1
  WIDE = 3
  SKIP = 7
  MARGIN = 6
  CHUNK = 18
  OUT_DIV = 2
  OUT_PAD = 16
  WILDCOPYLENGTH = 8
  LASTLITERALS = 5
  RUN_MASK = 3
  ML_MASK = 3
  MAX_DISTANCE = 8
  LZ4_BYTE = 3
  ACCELERATION = 1
  TRIGGER = 4
  BOUND_PAD = 16
  Limits = {0, 1, 3, 11, 14, 19}
  kBlockSize = 24
  FAST = 8
  IOVec <- MCIOVec
  kInputMarginBytes = 7
  SKIP_STEP = 4
  FIELD = 16
  SHORT = 12
  NEAR = 10
  SNAPPY_BYTE = 5
  VARINT = 4
  LENGTHS = 64
INVARIANTS RoundTrip StaysInside
CHECK_DEADLOCK FALSE
