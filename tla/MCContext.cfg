CONSTANTS
  i1 = i1
  i2 = i2
  i3 = i3
  lake = lake
  camp = camp
  tent = tent
  boat = boat
  food = food
  ann = ann
  bob = bob
  s1 = s1
  s2 = s2
  Id = {i1, i2, i3}
  Content = {lake, camp, tent, boat, food}
  User = {ann, bob}
  NoUser = NoUser
  Hash <- MCHash
  Distance <- MCDistance
  Similar <- MCSimilar
  Related = {}
  MemoryType = {"episodic", "factual"}
  AnyType = "any"
  NoSession = NoSession
  NoSpeaker = "none"
  Info <- MCInfo
  SameTopic <- MCSameTopic
  Close <- MCClose
  Within <- MCWithin
  NearText <- MCNearText
  Query <- MCQuery
  Reserved = 2
  Headroom = 1
  MaxWrites = 7
  EvidencePlaces = 1
  RawPlaces = 2
  SpeakerPlaces = 2
  Word = {"Ann", "Bob", "lake", "camp", "tent", "boat", "food", "when", "Timeline", "Upcoming"}
  StopWords = {"when"}
  ShortWords = {}
  NameWords = {"Ann"}
  Joins = {}
  OpenWords = {}
  HopWords = {}
  TemporalWords = {"when"}
  FutureWords = {}
  Months = {}
  Years = {}
  Timeline = "Timeline"
  Openers = {"when"}
  Inner = {}
  Upcoming = "Upcoming"
  Brief <- MCBrief
  Slight <- MCSlight
  Question <- MCQuestion
  Database <- MCDatabase
  Session = {s1, s2}
  TypeSearches <- MCTypeSearches
  SeedType = {"episodic"}
  Places <- MCPlaces
  Strategy <- MCStrategy
  Asked = {3, 4}
  MaxNamed = 2
  Caller = {ann, NoUser}
  Written = {camp, tent}
SPECIFICATION ContextSpec
CHECK_DEADLOCK FALSE
INVARIANTS
  ContextTypeOK
  OncePerContext
  RerankLosesNothing
  ScopedContext
  ReadsAreCurrent
  BlockPartition
  HybridOnce
  DedupedApart
  GraphAgrees
  ClustersApart
