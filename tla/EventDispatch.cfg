SPECIFICATION Spec
CONSTANTS
  App = {a1}
  Poll = {p1, p2}
  Dispatcher = d
  NoMsg = nomsg
  QueueMax = 2
  MaxPosts = 4
  StaleCount = 1
  HandlersPost = TRUE
INVARIANTS
  NoStaleDispatch
  OneOwner
PROPERTIES
  ImplementsChannel
  ShutdownTerminates
  EveryMessageHandled
\* A listener that posts to the full queue stops every thread, as the code does.
CHECK_DEADLOCK FALSE
