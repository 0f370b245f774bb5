CONSTANTS
  f1 = f1
  u1 = u1
  u2 = u2
  u3 = u3
  Files <- MCFiles
  Slots <- MCSlots
  MaxTaskId = 3
  MAX_PARALLEL_UPLOADS = 2
  START_NEW_UPLOADS_TRESHOLD = 2
  MIN_SIZE_FOR_CHECKSUMS = 1
  Sizes = {1, 2}
  WordBits = 16
  TRANSIENT = TRUE
SPECIFICATION Spec
INVARIANT UploadIdKept
CHECK_DEADLOCK FALSE
SYMMETRY MCSlotSymmetry
