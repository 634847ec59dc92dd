CONSTANTS
    MaxData <- MCMaxData
    MaxRedirects <- MCMaxRedirects
    MaxToggles <- MCMaxToggles
SPECIFICATION Spec
CHECK_DEADLOCK FALSE
INVARIANT SyncRepliedBeforeCleanup
