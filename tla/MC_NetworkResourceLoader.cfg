CONSTANTS
    MaxData <- MCMaxData
    MaxRedirects <- MCMaxRedirects
    MaxToggles <- MCMaxToggles
SPECIFICATION Spec
\* A load ends: finished, failed, aborted, or left deferred.
CHECK_DEADLOCK FALSE
INVARIANT WebMessageOrder
INVARIANT TimerNeedsLoad
INVARIANT DeliveredWithinReceived
INVARIANT SyncReplyOnce
INVARIANT ContinueFindsLoad
PROPERTY LoadEnds
