\* One poll thread, the worker and the form.
CONSTANTS
  Pollers = {p1}
  Others = {w}
  Worker = w
  Texts = {"hi"}
  ConversationOf <- MCConversationOf
  Recent = 2
  Window = 0
  MaxMessages = 3
  MaxTime = 0
  MaxRestarts = 1
  QueueMax = 2
  MaxStreak = 2
SPECIFICATION AiSpec
INVARIANTS
  AiTypeOK
  SilenceIsKept
  FailuresStop
  LogIsTrue
PROPERTIES
  ImplementsReplies
CHECK_DEADLOCK FALSE
