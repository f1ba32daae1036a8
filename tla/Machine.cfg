SPECIFICATION MSpec
CONSTANTS
  ZSessions = {"z"}
  Fragments = {2}
  CaptureThreshold = 2
  Growth = 2
  MaxTalk = 6
  MaxCompactions = 1
  MaxToggles = 1
  MaxLosses = 2
  OCs = {"o1"}
  Windows = {"w1", "w2"}
  Sids = {"s1", "s2"}
  SidsOf <- MCSidsOf
  Daemons = {"d1", "d2"}
  MaxRetries = 1
  MaxVisits = 1
  Updaters = {"u1", "u2"}
  Files = {"package.json", "index.js"}
  PackageJson = "package.json"
  MaxVersion = 3
  MaxUpdates = 4
  MaxBreaks = 1
  Dreamers = {"p1", "p2"}
  Talks = {"t1", "t2"}
  Enough = 2
  Room = 2
  Cap = 1
  Openers = {"o1"}
  Jobs = {1, 2}
  MaxClock = 3
  MaxDeaths = 1
  MemFiles = {"a.md", "memory.md"}
  Names = {"a", "b"}
  Slug <- MCSlug
  LinkText <- MCLinkText
  MaxEntries = 2
INVARIANTS ProcessedIsArchived SentAgainNeedsCause WindowsServed OneVersion
PROPERTIES PortTakenOver DaemonsLeave MaterialDreamt ResultShown ContractKept
CHECK_DEADLOCK FALSE
