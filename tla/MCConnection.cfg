CONSTANTS
  c1 = c1  c2 = c2  NULL = NULL
  Clients = {c1, c2}
  Sends <- ClientSends
  MaxSent <- ClientMaxSent
  CommandTable <- Table
  InputBuffer = 25
  Slack = 3
CHECK_DEADLOCK FALSE
SPECIFICATION FairSpec
INVARIANTS TypeOK
PROPERTIES OnlyWholeMessagesRun ImplementsService Answered
