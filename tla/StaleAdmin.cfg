SPECIFICATION MCSpec
CONSTANTS
  Nil = Nil  None = None  u1 = u1  u2 = u2
  r1 = r1  r2 = r2  b1 = b1  b2 = b2
  s1 = s1  s2 = s2  s3 = s3  c1 = c1  c2 = c2
  Part = {"users"}
  Ban = {1, 2, 3}
  IpRange <- MCRange
  Edits = {"newest"}
  User = {u1, u2}
  Admins = {u1}
  Board <- MCBoard
  MaxRanges = 2
  BoardName = {"a", "b", "c"}  Report = {1, 2}  MaxBoards = 5  Moves = {"end"}
  UserName = {"a", "b"}  Sid <- MCSid  Conn <- MCConn  Timeout = 1  MaxUsers = 2  MaxTime = 3
  Bits = 2  Size <- MCSize  Addr <- MCAddr  BoardId <- MCBoard  FloodLimit = 1
  Duration <- MCDuration  MaxBans = 1  MaxPosts = 3  MaxClock = 2
SYMMETRY Symmetry
CHECK_DEADLOCK FALSE
PROPERTY OnlyAdmins
