SPECIFICATION Spec
CONSTANTS
  GroupBits = 3
  MaxLength = 4
  StrLen <- MCStrLen
  IpnNumbers <- MCIpn
  Bundles0 <- MCBundles
  Foreign <- MCForeign
  Texts <- MCTexts
  Data <- MCData
  ClientEid <- B
  MaxEdits = 2
  Modes = {"binary", "send", "plain", "separate", "fragments"}
INVARIANTS ReadIsWritten EndIsFound 
