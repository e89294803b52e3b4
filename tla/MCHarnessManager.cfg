CONSTANTS
  MaxNotifies = 3
  MaxFailures = 4
  MaxRestarts = 1
  RetryLimit = 2
  MaxHistory = 2
  MaxJournals = 1
SPECIFICATION Spec
INVARIANTS
  NotificationsAccountedFor
  DigestsMeet
PROPERTIES
  NoStartAfterShutdown
  NotificationsAreTold
CHECK_DEADLOCK FALSE
