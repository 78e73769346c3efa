SPECIFICATION Spec
CONSTANTS
  Threads = {t1, t2}
  Frames = {f1, f2}
  NoFrame = NoFrame
  Space = 1
  MaxInput = 2
INVARIANTS PostsAreHeard FramesStayWhole NoCallAfterClose NothingStranded
PROPERTIES CloseFlushesFirst
SYMMETRY Symmetry
CHECK_DEADLOCK FALSE
