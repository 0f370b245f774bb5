CONSTANTS
  f1 = f1
  u1 = u1
  u2 = u2
  u3 = u3
  Files <- MCFiles
  Slots <- MCSlots2
  MaxTaskId = 2
  MAX_PARALLEL_UPLOADS = 1
  START_NEW_UPLOADS_TRESHOLD = 2
  MIN_SIZE_FOR_CHECKSUMS = 1
  Sizes = {1, 2}
  WordBits = 16
  TRANSIENT = FALSE
SPECIFICATION Spec
INVARIANT BytesUploadedWithinTotal
