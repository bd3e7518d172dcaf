SPECIFICATION MCSpec
CONSTANTS
  Parts = {"rooms", "badges", "calls", "verify", "doors"}
  Plain = {"text", "poll", "unknown", "artefact"}
  Amending = {"vote", "edit", "reaction", "redaction"}
  Sealable = {"text", "edit", "poll", "vote"}
  None = None
  MaxEvents = 4
  MaxMixed = 3
  MaxBatch = 2
  MaxRuns = 2
  Members = {"ann", "ben"}
  MaxCallEvents = 4
  MaxLost = 1
  Devices = {d1, d2}
  MaxLinks = 2
  MaxSessions = 3
  Me = me
  Others = {u1, u2}
  MaxWaiting = 2
  Label <- Namesakes
SYMMETRY Alike
INVARIANTS
  TakenBackIsGone
  BadgesTrue
  EveryMessageHasItsRow
  KeysAgree
  VerificationTrue
  LinesTellWho
  DoorsTrue
CHECK_DEADLOCK FALSE
