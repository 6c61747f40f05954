CONSTANTS
  i1 = i1
  i2 = i2
  left = left
  mid = mid
  right = right
  u1 = u1
  u2 = u2
  cl1 = cl1
  cl2 = cl2
  Id = {i1, i2}
  Content = {left, mid, right}
  User = {u1, u2}
  NoUser = NoUser
  None = None
  Client = {cl1}
  MaxVersions = 4
  Hash <- MCHash
  Reembedded <- MCReembedded
  Distance <- MCDistance
  Similar <- MCSimilar
  Related <- MCRelated
SPECIFICATION Spec
PROPERTY ReplacesOnlySimilar
