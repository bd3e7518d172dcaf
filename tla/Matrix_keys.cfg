SPECIFICATION MCSpec
CONSTANTS
  Parts = {"calls"}
  Plain = {"text", "poll", "unknown", "artefact"}
  Amending = {"vote", "edit", "reaction", "redaction"}
  Sealable = {"text", "edit", "poll", "vote"}
  None = None
  MaxEvents = 4
  MaxMixed = 3
  MaxBatch = 2
  MaxRuns = 2
  Members = {"ann", "ben", "cid"}
  MaxCallEvents = 3
  MaxLost = 0
  Devices = {d1, d2}
  MaxLinks = 2
  MaxSessions = 3
  Me = me
  Others = {u1, u2}
  MaxWaiting = 2
  Label <- Namesakes
SYMMETRY Alike
INVARIANT KeysAgree
CHECK_DEADLOCK FALSE
