CONSTANTS
  Hdmi = {"HDMI1"}
  Tuner = {}
  VideoHdr = {}
  HdmiHdr = {}
  Hints = {"no", "gated"}
  Cinema = {TRUE, FALSE}
  Films = {}
  UserModes = {"MONITOR"}
  NewPictureMode = TRUE
  Memories <- Zeroed
  Restarts = {"process"}
SPECIFICATION Spec
INVARIANTS
  TypeOK
  StoredExplained
  ShownIsStored
  GameOffElsewhere
