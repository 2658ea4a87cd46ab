CONSTANTS
  Hdmi = {"HDMI1"}
  Tuner = {}
  VideoHdr = {}
  HdmiHdr = {"DOVI"}
  Hints = {"no", "gated"}
  Cinema = {FALSE}
  Films = {}
  UserModes = {"USER"}
  NewPictureMode = TRUE
  Memories <- Zeroed
  Restarts = {}
SPECIFICATION Spec
INVARIANTS
  StoredExplained
  ShownIsStored
  HdrTold
  LastIsChosen
