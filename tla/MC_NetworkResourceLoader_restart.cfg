CONSTANTS
    MaxData <- MCMaxData
    MaxRedirects <- MCMaxRedirects
    MaxToggles <- MCMaxTogglesRestart
SPECIFICATION Spec
CHECK_DEADLOCK FALSE
INVARIANT SingleNetworkLoad
