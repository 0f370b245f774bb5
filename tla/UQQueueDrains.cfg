CONSTANTS
  f1 = f1
  u1 = u1
  u2 = u2
  u3 = u3
  Files <- MCFiles
  Slots <- MCSlots
  MaxTaskId = 2
  MAX_PARALLEL_UPLOADS = 2
  START_NEW_UPLOADS_TRESHOLD = 2
  MIN_SIZE_FOR_CHECKSUMS = 1
  Sizes = {1}
  WordBits = 16
  TRANSIENT = FALSE
SPECIFICATION Spec
PROPERTY QueueDrains
