CONSTANTS
    MaxBlockCount = 400
    UpBlockSize = 2
    UpCopyBuf = 8
    UpMaxCopy = 3
    UpMaxSize = 9
    DnCopyBuf = 4
    DnMaxSize = 7
    DnMaxSize2 = 3
    Files = {0, 1}
    NoFile = NoFile
    BlockSizes = {2, 3}
    MaxBlocks = 3
    MinFileSize = 0
    Offsets = {0, 1, 2, 3, 4}
    DevShort <- DevShortOf
    s1 = s1
    s2 = s2
    s3 = s3
    CtAdlerVals = {0, 12, 13, 26}
    CtMaxBlocks = 4
    MAX_ADLER_COLL = 1
    w1 = w1
    SgTimer = SgTimer
    SgAVG = 2
    SgT0 = 1
    SgMaxTime = 3
    SgSpeeds <- MCSgSpeeds
    SgNums = {3}
    SgMaxCalls = 2
    SgINITIAL = 2
    SgINC_PER = 150
    SgDEC_PER = 50
    SgSHAPER_MIN = 1
    W = 8
    BASE = 13
    NMAX = 9
    UNROLL = 3
    INITIAL = 1
    MaxByte = 3
    AdMaxLen = 5
    AdLongLen = 20
    hc1 = hc1
    hc2 = hc2
    HpHosts = {1, 2}
    HpNodes = {1, 2}
    HpMAXIDLE = 1
    HpCONNECT_FAILS = TRUE
    HpPrewarmHosts = {1}
    HpMaxPrewarm = 2
    HpMaxToggles = 1
    HpMaxCalls = 1
SPECIFICATION Spec
INVARIANT AdlerOfBuffer AdlerRollsWindow IgnorePathsParsed TableSizeMinimalPrime PlanReproducesFile PlanCoalesced ScanSound UploadPlanReproducesFile DownloadScanFindsFirst DownloadPlanBuildsRemote ScanListsMatchCatalog RenamesPaired CtTypeOK LookupMatchesTable HpTypeOK OneWaiterPerNode SocketsMatchKeys OneFreeDialPerHost SgTypeOK SpeedIsAverage CapHeld WriteLenValid ProbeBound MatchCoversDuplicates
PROPERTY ContentSetRefined
CHECK_DEADLOCK FALSE
