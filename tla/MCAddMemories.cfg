CONSTANTS
  i1 = i1
  i2 = i2
  i3 = i3
  berlin = berlin
  munich = munich
  talk = talk
  home = home
  cl1 = cl1
  cl2 = cl2
  Id = {i1, i2, i3}
  Content = {berlin, munich, talk}
  User = {}
  NoUser = NoUser
  None = None
  Client = {cl1, cl2}
  MaxVersions = 4
  Hash <- MCHash
  Reembedded <- MCReembedded
  Distance <- MCDistance
  Similar <- MCSimilar
  Related <- MCRelated
  Topic = {home}
  Fact <- MCFact
  TopicOf <- MCTopicOf
  Reply <- MCReply
SYMMETRY MCSymmetry
SPECIFICATION BatchSpec
INVARIANTS
  BatchTypeOK
  MentionsCounted
  TripleHasMemory
  DemotedHasRival
  EntriesKept
  NoDuplicateText
