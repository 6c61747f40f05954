CONSTANTS
  i1 = i1
  i2 = i2
  tea = tea
  note = note
  noted = noted
  pot = pot
  alice = alice
  bob = bob
  kitchen = kitchen
  cl1 = cl1
  Id = {i1, i2}
  Content = {tea, note, noted, pot}
  User = {alice, bob}
  NoUser = NoUser
  None = None
  NoArgs = NoArgs
  Client = {cl1}
  MaxVersions = 3
  MaxReminders = 2
  MaxTime = 1
  MaxRounds = 1
  MaxRuns = 2
  Hash <- MCHash
  Reembedded <- MCReembedded
  Distance <- MCDistance
  Similar <- MCSimilar
  Related <- MCRelated
  Remembered <- MCRemembered
  Condition <- MCCondition
  Reply <- MCReply
SPECIFICATION AgentSpec
INVARIANTS
  AgentTypeOK
  RequestsPaired
  ResultsTrue
  RemindersRemembered
  ShownRightly
PROPERTIES
  RunReturns
  RunsRunDown
