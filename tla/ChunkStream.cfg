CONSTANTS
  new1 = new1  new2 = new2  old = old  oldest = oldest
  key1 = key1  key2 = key2
  Key = {key1, key2}
  Stream = {new1, new2, old, oldest}
  KeyOf <- MCKeyOf
  Format <- MCFormat
  NonceHead <- MCNonceHead
  ChunkSize = 2
  Sizes = {0, 2, 3}
SPECIFICATION Spec
CHECK_DEADLOCK FALSE
INVARIANTS NonceUsedOnce OnlyPrefix DoneIsWhole IntactOpens
