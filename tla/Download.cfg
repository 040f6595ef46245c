CONSTANTS
  p1 = p1  p2 = p2  d1 = d1  d2 = d2  v1 = v1  v2 = v2  v3 = v3
  Puller = {p1, p2}
  NoPuller = NoPuller
  Dir = {d1, d2}
  DirOf <- OwnDirs
  Version = {v1, v2, v3}
  Original = {v1, v2}
  MaxSize = 2
  SizeOf <- MCSize
  Hole = Hole
  Inode = {1, 2, 3, 4}
  NoInode = NoInode
  MaxSlots = 1
  MaxDisturbances = 1
SPECIFICATION FairSpec
PROPERTIES PlacedIsOffered DeliveryIsAtomic EventuallyPlaced BroadcastReturns
CHECK_DEADLOCK FALSE
