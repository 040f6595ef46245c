CONSTANTS
  p1 = p1  p2 = p2  e1 = e1  e2 = e2
  Process = {p1, p2}
  Entry = {e1, e2}
  Store = {"source_manifest", "list_index", "manifest", "update_check", "identity", "settings", "activity", "trust", "config"}
  NoInode = NoInode
  MaxInode = 4
  MaxFaults = 2
SYMMETRY Symmetry
SPECIFICATION Spec
INVARIANTS Durable
PROPERTIES SavesAreAtomic
