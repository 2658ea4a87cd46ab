CONSTANTS
  Hdmi = {"HDMI1"}
  Tuner = {}
  VideoHdr = {}
  HdmiHdr = {}
  Hints = {"no", "gated"}
  Cinema = {FALSE}
  Films = {}
  UserModes = {"USER"}
  NewPictureMode = TRUE
  Memories <- Zeroed
  Restarts = {"power"}
SPECIFICATION Spec
INVARIANTS
  RecoveryRemembered
