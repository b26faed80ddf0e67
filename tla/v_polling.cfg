SPECIFICATION FairSpec
CONSTANTS
  Messages <- MixedMessages
  Mailboxes <- AnyMailbox
  PageSize = 1
  Limits = {1, 2}
  UnreadOnly = TRUE
  MarkRead = TRUE
  MaxEvents = 0
  MaxAttempts = 2
  PermanentErrorRetry = FALSE
PROPERTY
  EveryMessageIsHandled
