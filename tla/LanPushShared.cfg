CONSTANTS
  c1 = c1  c2 = c2  n1 = n1  v1 = v1  v2 = v2
  i1 = i1  i2 = i2  i3 = i3  i4 = i4
  Conn = {c1, c2}
  Name = {n1}
  Version = {v1, v2}
  MaxSize = 2
  SizeOf <- MCSize
  Offers <- SharedOffers
  Inode = {i1, i2, i3, i4}
  NoInode = NoInode
  Hole = Hole
  Loop = TRUE
  ModeMayChange = FALSE
  MaxDisturbances = 2
SPECIFICATION Spec
INVARIANTS LandedVerified
