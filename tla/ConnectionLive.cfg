SPECIFICATION LiveSpec
CONSTANTS
  Threads = {t1}
  Frames = {f1, f2}
  NoFrame = NoFrame
  Space = 1
  MaxInput = 1
PROPERTY FrameGoesOut
PROPERTY CloseCompletes
CHECK_DEADLOCK FALSE
