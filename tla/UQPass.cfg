CONSTANTS
  f1 = f1
  u1 = u1
  u2 = u2
  u3 = u3
  START_NEW_UPLOADS_TRESHOLD = 2
  MIN_SIZE_FOR_CHECKSUMS = 1
  WordBits = 16
  TRANSIENT = TRUE
SPECIFICATION Spec
INVARIANT UqaTypeOK StatusMatchesThreads BigStatusMatchesThreads RemoteOpsAfterUploads OneUploadPerFile
PROPERTY WorkerWaitsEnd
CHECK_DEADLOCK FALSE
