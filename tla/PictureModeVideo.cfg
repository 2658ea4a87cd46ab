CONSTANTS
  Hdmi = {}
  Tuner = {}
  VideoHdr = {"PRIMESL"}
  HdmiHdr = {}
  Hints = {"no"}
  Cinema = {FALSE}
  Films = {"on", "off"}
  UserModes = {"USER"}
  NewPictureMode = TRUE
  Memories <- Dirty
  Restarts = {}
SPECIFICATION Spec
INVARIANTS
  StoredExplained
  FilmMakerRecoverable
  HdrTold
