SPECIFICATION Spec
CONSTANTS
  Requests = {r1, r2}
  Codes = {c1}
  None = none
  t1 = t1
  t2 = t2
  Tags = {t1, t2}
  TagLists <- MCTagLists
  MaxLists = 4
  Nicknames = {n1, n2}
  MaxParticipants = 2
  Attempts = 2
  MaxRooms = 2
SYMMETRY Symmetry
INVARIANT TypeOK
INVARIANT SomebodyGoesOn
INVARIANT RoomNotOverfull
INVARIANT NicknamesBounded
INVARIANT LateJoinsBounded
INVARIANT StatusRespected
INVARIANT ListsBounded
INVARIANT RoomsHaveQuiz
PROPERTY EditsReplace
CHECK_DEADLOCK FALSE
