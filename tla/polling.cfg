SPECIFICATION FairSpec
CONSTANTS
  Messages <- MCMessages
  Mailboxes <- MCMailboxes
  PageSize = 1
  Limits = {1, 2}
  UnreadOnly = TRUE
  MarkRead = TRUE
  MaxEvents = 2
  MaxAttempts = 2
  PermanentErrorRetry = FALSE
INVARIANTS
  TypeOK
  ListingIsWhole
PROPERTIES
  EveryMessageIsHandled
  GoesQuiet
