CONSTANTS
  p1 = p1
  p2 = p2
  Pages = {p1, p2}
  Hashes = {"", "h"}
  NoRenderer = NoRenderer
  MaxEntries = 4
  MaxIndex = 4
SPECIFICATION NavigationSpec
PROPERTIES
  LockIsHonoured
CHECK_DEADLOCK FALSE
