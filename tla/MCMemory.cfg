SPECIFICATION Spec
CONSTANTS
  e1 = e1
  e2 = e2
  p1 = p1
  p2 = p2
  pip = pip
  rex = rex
  s1 = s1
  s2 = s2
  i1 = i1
  i2 = i2
  i3 = i3
  t = t
  u = u
  a = a
  b = b
  NoEntry = NoEntry
  Entries = {e1, e2}
  Topic <- MCTopic
  PeerCopies <- MCCopies
  Prompts = {p1, p2}
  Full = 2
  Fading = 1
  WorkingRefs = 2
  LongRefs = 5
  Overlap = 2
  Pets = {pip, rex}
  Pollers = {rex}
  Sessions = {s1, s2}
  Items = {i1, i2, i3}
  PetOf <- MCPetOf
  ItemsOf <- MCItemsOf
  TopicOf <- MCTopicOf
  Ttl = 0
  FeedTime = 1
  FeedCrashes = 1
  MaxForgets = 1
  NoTime = NoTime
  Seeds = {a, b}
  MaxBoots = 3
  Messages = {1, 2, 3, 4}
  MaxEntries = 3
  MinKeep = 2
  Days = 1
  HistoryCrashes = 1
  Torn = Torn
INVARIANTS
  TypeOK
  NothingLearnedTwice
  
  HistoryIsRecent
PROPERTIES
  LeavesForAReason
  OnlyStaleCopiesUndo
CHECK_DEADLOCK FALSE
