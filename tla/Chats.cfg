SPECIFICATION MCSpec
CONSTANTS
  Events = {"poll", "sealed", "mine"}
  Author <- MCAuthor
  Kind <- MCKind
  Voters = {"me", "bob"}
  Answers = {"yes", "no"}
  Strange = "maybe"
  Original = "t0"
  Texts = {"t1"}
  None = None
  Garbage = Garbage
  MaxMessages = 2
  MaxStamp = 2
  MaxStash = 1
  Delays = {0}
  MaxUnread = 2
  Chats <- MCChats
  Peer = Peer
  Room = Room
  Space = Space
  ListStamp = 2
  ListUnread = 1
  MaxPopups = 3
INVARIANTS
  TallyTrue
  LogIsWhole
  ScreenTrue
  ListTrue
  PopupsHeld
SYMMETRY Rooms
CHECK_DEADLOCK FALSE
