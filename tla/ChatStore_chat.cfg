\* Two poll threads and another visitor of the account.
CONSTANTS
  Pollers = {p1, p2}
  Others = {t1}
  Texts = {"hi"}
  ConversationOf <- MCConversationOf
  Recent = 1
  Window = 0
  MaxMessages = 2
  MaxTime = 1
  MaxRestarts = 1
SPECIFICATION ChatSpec
INVARIANTS
  TypeOK
  HandedOnce
PROPERTIES
  OnlyATwinReplaces
  ImplementsInbox
CHECK_DEADLOCK FALSE
