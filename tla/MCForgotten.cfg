SPECIFICATION ErasureSpec
CONSTANTS
  UserNotifs = {n1, n2}
  Movers = {a1}
  Absent = Absent
INVARIANTS
  NothingPersonalIsLeft
CHECK_DEADLOCK FALSE
