SPECIFICATION MCSpec
CONSTANTS
  Services = {"loader", "heap", "mmap", "jni", "delivery", "audio", "maps", "ssl", "obb", "install", "tar", "tags",
              "index", "assets", "input", "nav"}
  Threads = {"t1", "t2"}
  NoOne = none
  Partial = partial
  Modules <- MCModules
  Names <- MCNames
  Hashes = {1, 2}
  InitSlots = 3
  Registrar = 2
  Capacity = 2
  HeapPlaces = {"a1", "a2", "a3"}
  Bytes = {1, 2}
  MaxOps = 4
  Blocks = {"a1", "a2", "a3"}
  MmapCalls = 4
  Classes = {"c1", "c2", "c3"}
  Members = {"m1", "m2"}
  MaxClasses = 2
  MaxMethods = 2
  MaxAsks = 4
  Receivers = {"r1", "r2"}
  Actions = {"net", "other"}
  NetworkChange = "net"
  MaxReceivers = 3
  QueueSize = 2
  DirectSize = 1
  MaxSends = 5
  Players = {"p1"}
  Streams = {"s1"}
  OutBufs = {"b1"}
  MaxPlayers = 1
  BufferSlots = 2
  Block = 2
  FrameSizes = {0, 3}
  ResampleStep = 2
  MaxEnqueues = 2
  Texts = {"x", "y"}
  Copies = {1, 2}
  Values = {"v1", "v2"}
  Iterators = {"i1"}
  MaxPuts = 3
  NumCerts = 2
  Statuses = {"trusted", "revoked"}
  Workers = {"t1"}
  MaxContexts = 2
  AssetKeys = {"a", "assets/a", "b", "lawn", "pkg"}
  Entries = {"A", "B", "P"}
  Entry <- MCEntry
  Embedded = "lawn"
  Package = "pkg"
  Size <- MCSize
  HotSlots = 2
  HotBytes = 3
  HotAsset = 2
  MaxReads = 2
  Layouts <- MCLayouts
  Assets = {"asset1", "asset2"}
  Cards = {TRUE, FALSE}
  MaxCuts = 3
  Packages = {"k1", "k2"}
  MaxGeneration = 3
  MaxBoots = 2
  TagCalls = 4
  MaxFaults = 1
  HotNames = {"n1", "n2"}
  MaxChanges = 2
  AssetSlots = {"h1", "h2"}
  ByteCounts = {0, 2}
  AssetCalls = 3
  PadButtons = {"A", "B", "L", "ZL", "Plus", "Dpad"}
  Cells = {"g1"}
  Packets = 2
  MaxHeld = 2
  PadEvents = 16
  Choosers = {"c1", "c2"}
  Boards = {"b1", "b2"}
  Grace = 2
  NavEvents = 6
INVARIANTS
  
  
  IdsStable
  
  
  TrustSound
  ObbSound
  InstallSound
  
  StatHonest
  ClosedStaysHarmless
  PointerSound
PROPERTIES
  MapSound
  NavSound
CHECK_DEADLOCK FALSE
