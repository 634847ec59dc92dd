---------------------- MODULE MC_NetworkResourceLoader ----------------------
EXTENDS NetworkResourceLoader

\* Two chunks: a flush between them, and data buffered at finish.
MCMaxData == 2
\* One redirect on the network path.
MCMaxRedirects == 1
\* One setDefersLoading: a load created deferred is started, or a running
\* one is deferred.
MCMaxToggles == 1
\* Two: defer then undefer while the first cache retrieve is in flight.
MCMaxTogglesRestart == 2
=============================================================================
