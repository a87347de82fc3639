SPECIFICATION Spec
CONSTANTS
  NONE = 99
  NoText = NoText
  NoCaps = NoCaps
  Frames <- MCFrames
  Texts <- MCTexts
  Gaps <- MCGaps
  Segments <- MCSegments
  TextSegments <- MCTextSegments
  Period = 2
  Captions = {"", "a"}
  Clocks = {"", "1"}
  Images <- MCImages
  Caps <- MCCaps
  Peers <- MCPeers
  MaxFrames = 2
  MaxTexts = 2
  MaxEvents = 3
INVARIANT WaitsForAReason
PROPERTIES ChosenIsDrawn ShownWhileItLasts AttachedAsAnnounced StopReturns
CONSTRAINT OneOrTheOther
CHECK_DEADLOCK FALSE
