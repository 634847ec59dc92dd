------------------------ MODULE NetworkResourceLoader ------------------------
(***************************************************************************)
(* WebKit::NetworkResourceLoader                                           *)
(* (src/WebKit2/NetworkProcess/NetworkResourceLoader.cpp): one            *)
(* asynchronous resource load in the network process.  All handlers run   *)
(* on the main run loop, one at a time; they interleave with              *)
(*  - the disk cache, whose retrieve() calls back later (the callback     *)
(*    holds a reference to the loader);                                   *)
(*  - the NetworkLoad, which delivers redirect, response, data, finish    *)
(*    and failure callbacks while it exists and is not deferred;          *)
(*  - the buffering timer;                                                *)
(*  - the web process, which may defer or undefer the load, or abort it   *)
(*    (removeLoadIdentifier), and whose IPC connection may close, after   *)
(*    which every send fails and the connection aborts its loaders.       *)
(*                                                                         *)
(* The loader's fields are the record ld; a handler is an operator from   *)
(* one ld to the next, so a handler that sends, aborts on a failed send   *)
(* and goes on is one step, as in the code.  Messages to the web process  *)
(* are kept in ld.log (only those the connection delivered).  A           *)
(* synchronous load (m_synchronousLoadData) instead collects its response *)
(* or error and answers once through the delayed reply; its web process   *)
(* is blocked in the synchronous send, so it neither defers nor removes   *)
(* the load.  A NetworkLoad that reported a redirect, or a main resource's *)
(* response, waits for the web process to answer (continueWillSendRequest, *)
(* continueDidReceiveResponse); ld.webOwes holds the answers the web       *)
(* process will send for the messages it got.  Multipart responses, the Cocoa shareable buffer path and    *)
(* the cache store/remove calls are not modelled.                         *)
(***************************************************************************)
EXTENDS Naturals, Sequences

CONSTANTS
    MaxData,    \* bound on data chunks the network delivers
    MaxToggles, \* bound on setDefersLoading messages from the web process
    MaxRedirects \* bound on redirects the network reports

Msgs == {"WillSendRequest", "Response", "Data", "Resource", "Finish", "Fail"}

\* What the disk cache hands back: nothing, an entry needing validation, or
\* a usable entry (possibly a cached redirect, possibly a shareable handle).
CacheResults ==
    {[kind |-> "miss"], [kind |-> "validate"]} \cup
    [kind : {"hit"}, redirect : BOOLEAN, shareable : BOOLEAN]

VARIABLES
    ld,         \* the loader's fields (see Init)
    conn,       \* the IPC connection to the web process is open
    toggles,    \* setDefersLoading messages sent so far
    netData,    \* data chunks the network has delivered so far
    netRedirects \* redirects the network has reported so far

vars == <<ld, conn, toggles, netData, netRedirects>>

-----------------------------------------------------------------------------
(* Faulty variants of the helpers below, each the way a plausible slip in  *)
(* the C++ would change it; each property must fail under one of them.     *)

\* bufferingTimerFired() forgetting to reset m_bufferedDataEncodedDataLength.
FlushKeepsLength(s) ==
    [s EXCEPT !.buffered = "empty", !.timer = FALSE]

\* cleanup() that leaves the buffering timer running.
CleanupKeepsTimer(s) ==
    [s EXCEPT !.consumed = FALSE, !.netLoad = "none", !.await = "none",
              !.registered = FALSE, !.cleanups = @ + 1]

\* didReceiveResponse() sending the response even while revalidating.
ShouldSendDidReceiveResponseAlways(s) == TRUE

\* startBufferingTimerIfNeeded() without its isSynchronous() early return.
StartBufferingTimerAlways(s) == [s EXCEPT !.timer = TRUE]

\* didReceiveResponse() forgetting that a pending revalidation never sends
\* the response, so the web process will not answer it.
ShouldContinueDidReceiveResponseMainOnly(s) == ~s.main

\* cleanup() without removeNetworkResourceLoader(): the connection keeps
\* routing the web process's messages to the loader.
CleanupKeepsRegistered(s) ==
    [s EXCEPT !.timer = FALSE, !.consumed = FALSE, !.netLoad = "none",
              !.await = "none", !.cleanups = @ + 1]

(* consumeSandboxExtensions() / invalidateSandboxExtensions(): the request *)
(* body and resource extensions and the file references are consumed      *)
(* before the NetworkLoad exists and revoked at cleanup.                   *)
ConsumeSandboxExtensions(s) == [s EXCEPT !.consumed = TRUE]
InvalidateSandboxExtensions(s) == [s EXCEPT !.consumed = FALSE]

(* NetworkResourceLoader::cleanup(): stop the timer, revoke the sandbox    *)
(* extensions, drop the NetworkLoad, and have the connection forget the   *)
(* loader (its last reference outside pending callbacks).                 *)
Cleanup(s) ==
    [InvalidateSandboxExtensions(s) EXCEPT !.timer = FALSE, !.netLoad = "none",
              !.await = "none", !.registered = FALSE, !.cleanups = @ + 1]

(* NetworkResourceLoader::abort(): cancel the NetworkLoad if any, then     *)
(* cleanup().                                                              *)
Abort(s) == Cleanup(s)

(* The answer the web process owes for a message it got: a redirect is    *)
(* always answered, a response only for a main resource                   *)
(* (needsContinueDidReceiveResponseMessage).                               *)
Owed(s, m) ==
    CASE m = "WillSendRequest" -> {"redirect"}
      [] m = "Response" /\ s.main -> {"response"}
      [] OTHER -> {}

(* send(): delivered if the connection is open, dropped otherwise.        *)
Send(s, m, c) ==
    IF c THEN [s EXCEPT !.log = Append(@, m), !.webOwes = @ \cup Owed(s, m)] ELSE s

(* sendAbortingOnFailure(): a failed send aborts the loader.              *)
SendAbortingOnFailure(s, m, c) == IF c THEN Send(s, m, c) ELSE Abort(s)

(* The Data message of a send: its encoded length is accounted as          *)
(* delivered when the message gets through.                               *)
SendData(s, len, c) ==
    IF c THEN [s EXCEPT !.log = Append(@, "Data"), !.delivered = @ + len]
    ELSE Abort(s)

(* startBufferingTimerIfNeeded(): never for a synchronous load; starting  *)
(* an active timer again changes nothing.                                  *)
StartBufferingTimerIfNeeded(s) == IF s.sync THEN s ELSE [s EXCEPT !.timer = TRUE]

(* sendReplyToSynchronousRequest(): send the delayed reply with the        *)
(* response or error collected so far (it asserts one of them is set) and *)
(* drop it.                                                                *)
SendReplyToSynchronousRequest(s) ==
    [s EXCEPT !.replies = @ + 1, !.replyOk = s.syncResponse \/ s.syncError]

(* bufferingTimerFired(): nothing if the buffer is empty; otherwise the    *)
(* buffer and its length are reset and the data sent.                     *)
Flush(s) == [s EXCEPT !.buffered = "empty", !.timer = FALSE, !.bufferedLen = 0]

(* startNetworkLoad(): consume the sandbox extensions, create the buffers  *)
(* and a NetworkLoad that inherits the current deferral.                  *)
StartNetworkLoad(s) ==
    [ConsumeSandboxExtensions(s) EXCEPT !.starts = @ + 1, !.netLoad = "wait",
              !.buffered = IF s.sync \/ s.buffering THEN "empty" ELSE "off"]

(* start(): nothing while deferred; a load the cache cannot serve starts   *)
(* the network at once; otherwise a cache retrieve is issued.             *)
Start(s) ==
    CASE s.defers -> s
      [] ~s.cacheUsable -> StartNetworkLoad(s)
      [] OTHER -> [s EXCEPT !.retrieves = @ + 1]

(* didRetrieveCacheEntry(): an optional synthetic redirect, the response,  *)
(* then the resource handle or the body followed by the finish message,   *)
(* then cleanup().  The results of the first two sends are ignored.  A    *)
(* synchronous load takes the entry's response and replies.                *)
DidRetrieveCacheEntry(s, e, c) ==
    IF s.sync
    THEN Cleanup(SendReplyToSynchronousRequest([s EXCEPT !.syncResponse = TRUE]))
    ELSE
    LET s1 == IF e.redirect THEN SendAbortingOnFailure(s, "WillSendRequest", c) ELSE s
        s2 == SendAbortingOnFailure(s1, "Response", c)
        s3 == [s2 EXCEPT !.dataIn = @ + 1]
    IN IF e.shareable THEN Cleanup(Send(s2, "Resource", c))
       ELSE IF ~c THEN SendData(s3, 1, c)
       ELSE Cleanup(Send(SendData(s3, 1, c), "Finish", c))

(* didReceiveResponse() sends the response unless a revalidation is        *)
(* still pending.                                                          *)
ShouldSendDidReceiveResponse(s) == ~s.cacheEntry

(* The NetworkLoad goes on at once unless the web process was sent a main  *)
(* resource's response, which it answers with continueDidReceiveResponse. *)
ShouldContinueDidReceiveResponse(s) == ~s.main \/ s.cacheEntry

(* validateCacheEntry(): keep the entry and start a network load with the *)
(* entry's validators (the conditional headers are not modelled).         *)
ValidateCacheEntry(s) == StartNetworkLoad([s EXCEPT !.cacheEntry = TRUE])

(* The cache callback finds the loader aborted when the lambda holds its   *)
(* only reference: the connection has dropped it and no other callback is  *)
(* pending.                                                                *)
LoaderWasAborted(s) == ~s.registered /\ s.retrieves = 1

-----------------------------------------------------------------------------
Init ==
    /\ \E d, cu, b, sy, mn \in BOOLEAN :
          \* A synchronous load is never created deferred, and never loads
          \* a main resource.
          /\ sy => ~d /\ ~mn
          /\ ld = [sync |-> sy,           \* a synchronous load (m_synchronousLoadData)
                  main |-> mn,             \* the requester is the main resource loader
                  syncResponse |-> FALSE,  \* m_synchronousLoadData->response is set
                  syncError |-> FALSE,     \* m_synchronousLoadData->error is set
                  replies |-> 0,           \* delayed replies sent
                  replyOk |-> FALSE,       \* the last reply had a response or an error
                  defers |-> d,          \* m_defersLoading (from the parameters)
                  cacheUsable |-> cu,    \* cache enabled, non-ephemeral, HTTP(S)
                  buffering |-> b,       \* maximumBufferingTime > 0
                  retrieves |-> 0,       \* cache retrieve callbacks in flight
                  netLoad |-> "none",    \* m_networkLoad: none, awaiting response, body
                  await |-> "none",      \* what the NetworkLoad waits for: none, redirect, response
                  webOwes |-> {},        \* continue messages the web process will send
                  nullLoad |-> FALSE,    \* a continue dereferenced a null m_networkLoad
                  cacheEntry |-> FALSE,  \* m_cacheEntryForValidation
                  buffered |-> "off",    \* m_bufferedData: off (null), empty, data
                  bufferedLen |-> 0,     \* m_bufferedDataEncodedDataLength
                  timer |-> FALSE,       \* m_bufferingTimer is active
                  consumed |-> FALSE,    \* m_didConsumeSandboxExtensions
                  registered |-> TRUE,   \* the connection holds the loader
                  started |-> FALSE,     \* the connection has called start()
                  starts |-> 0,          \* startNetworkLoad() calls
                  cleanups |-> 0,        \* cleanup() calls
                  dataIn |-> 0,          \* encoded length received (network or cache)
                  delivered |-> 0,       \* encoded length the web process got
                  log |-> <<>>]          \* messages the web process got
    /\ conn = TRUE
    /\ toggles = 0
    /\ netData = 0
    /\ netRedirects = 0

(* The connection calls start() once the loader is created, in the same   *)
(* message handler.                                                       *)
StartLoad ==
    /\ ~ld.started
    /\ ld' = Start([ld EXCEPT !.started = TRUE])
    /\ UNCHANGED <<conn, toggles, netData, netRedirects>>

(* The retrieve() callback: ignore an aborted loader; on a miss start the  *)
(* network; revalidate an entry that needs it (validateCacheEntry); serve  *)
(* a usable entry (didRetrieveCacheEntry).                                 *)
CacheCallback ==
    /\ ld.retrieves > 0
    /\ \E e \in CacheResults :
          LET s == [ld EXCEPT !.retrieves = @ - 1] IN
          ld' = CASE LoaderWasAborted(ld) -> s
                  [] e.kind = "miss" -> StartNetworkLoad(s)
                  [] e.kind = "validate" -> ValidateCacheEntry(s)
                  [] OTHER -> DidRetrieveCacheEntry(s, e, conn)
    /\ UNCHANGED <<conn, toggles, netData, netRedirects>>

(* The NetworkLoad delivers callbacks only while it exists, is not        *)
(* deferred and is not waiting for the web process.                        *)
NetworkRuns == ld.netLoad # "none" /\ ~ld.defers /\ ld.await = "none"

(* The NetworkLoad, unless the handler's failed send aborted it, waits for *)
(* the web process's answer w ("none": it goes on at once).                *)
AwaitContinue(s, w) == IF s.netLoad = "none" THEN s ELSE [s EXCEPT !.await = w]

(* willSendRedirectedRequest(): forward the redirect to the web process.  *)
(* and wait for continueWillSendRequest.  A synchronous load continues     *)
(* itself: a redirect to the same protocol, host and port is followed;    *)
(* another one sets the error and continues with a null request, which is *)
(* not followed further.                                                   *)
NetRedirect ==
    /\ NetworkRuns /\ ld.netLoad = "wait"
    /\ netRedirects < MaxRedirects
    /\ ~ld.syncError
    /\ \E sameOrigin \in BOOLEAN :
          ld' = CASE ~ld.sync ->
                        AwaitContinue(SendAbortingOnFailure(ld, "WillSendRequest", conn), "redirect")
                  [] sameOrigin -> ld
                  [] OTHER -> [ld EXCEPT !.syncError = TRUE]
    /\ netRedirects' = netRedirects + 1
    /\ UNCHANGED <<conn, toggles, netData>>

(* didReceiveResponse(): a 304 keeps a pending revalidation (the entry     *)
(* will be served at finish), any other status drops it; the response is  *)
(* sent unless the revalidation is still pending; a synchronous load keeps *)
(* it for its reply.  A main resource's response is then answered by the  *)
(* web process before the load goes on.                                    *)
NetResponse ==
    /\ NetworkRuns /\ ld.netLoad = "wait"
    /\ \E notModified \in BOOLEAN :
          LET s == [ld EXCEPT !.netLoad = "body",
                              !.cacheEntry = @ /\ notModified]
             sent == CASE ~ShouldSendDidReceiveResponse(s) -> s
                       [] s.sync -> [s EXCEPT !.syncResponse = TRUE]
                       [] OTHER -> SendAbortingOnFailure(s, "Response", conn)
          IN ld' = AwaitContinue(sent, IF ShouldContinueDidReceiveResponse(s)
                                       THEN "none" ELSE "response")
    /\ UNCHANGED <<conn, toggles, netData, netRedirects>>

(* didReceiveBuffer(): buffer the chunk and start the timer, or send it   *)
(* at once (sendBufferMaybeAborting).  A 304 has no body.                 *)
NetData ==
    /\ NetworkRuns /\ ld.netLoad = "body" /\ ~ld.cacheEntry
    /\ netData < MaxData
    /\ LET s == [ld EXCEPT !.dataIn = @ + 1] IN
       ld' = IF s.buffered # "off"
             THEN StartBufferingTimerIfNeeded(
                      [s EXCEPT !.buffered = "data", !.bufferedLen = @ + 1])
             ELSE SendData(s, 1, conn)
    /\ netData' = netData + 1
    /\ UNCHANGED <<conn, toggles, netRedirects>>

(* didFinishLoading(): a finished 304 serves the cached entry; otherwise   *)
(* send what is buffered (its encoded length passed as -1, i.e. unknown,  *)
(* counted as 0 here), stop if that send aborted, send the finish and     *)
(* cleanup().  A synchronous load replies with what it buffered.           *)
NetFinish ==
    /\ NetworkRuns /\ ld.netLoad = "body"
    /\ IF ld.cacheEntry
       THEN \E e \in [kind : {"hit"}, redirect : BOOLEAN, shareable : BOOLEAN] :
               ld' = DidRetrieveCacheEntry([ld EXCEPT !.cacheEntry = FALSE], e, conn)
       ELSE IF ld.sync
       THEN ld' = Cleanup(SendReplyToSynchronousRequest(ld))
       ELSE IF ld.buffered = "data" /\ ~conn
       THEN ld' = SendData(ld, 0, conn)
       ELSE LET s == IF ld.buffered = "data" THEN SendData(ld, 0, conn) ELSE ld
            IN ld' = Cleanup(Send(s, "Finish", conn))
    /\ UNCHANGED <<conn, toggles, netData, netRedirects>>

(* didFailLoading(): drop the revalidation, report the error (a           *)
(* synchronous load sets it and replies), cleanup().                       *)
NetFail ==
    /\ NetworkRuns
    /\ LET s == [ld EXCEPT !.cacheEntry = FALSE] IN
       ld' = Cleanup(IF s.sync
                     THEN SendReplyToSynchronousRequest([s EXCEPT !.syncError = TRUE])
                     ELSE Send(s, "Fail", conn))
    /\ UNCHANGED <<conn, toggles, netData, netRedirects>>

(* bufferingTimerFired(): send what was buffered since the last flush.    *)
TimerFired ==
    /\ ld.timer
    /\ ld' = IF ld.buffered = "empty" THEN [ld EXCEPT !.timer = FALSE]
             ELSE SendData(Flush(ld), ld.bufferedLen, conn)
    /\ UNCHANGED <<conn, toggles, netData, netRedirects>>

(* setDefersLoading(defers): a change is passed to the NetworkLoad if      *)
(* there is one; without one, undeferring calls start() again.            *)
SetDefersLoading ==
    /\ ld.registered /\ ld.started /\ ~ld.sync
    /\ toggles < MaxToggles
    /\ \E d \in BOOLEAN :
          /\ d # ld.defers
          /\ LET s == [ld EXCEPT !.defers = d] IN
             ld' = IF s.netLoad # "none" \/ d THEN s ELSE Start(s)
    /\ toggles' = toggles + 1
    /\ UNCHANGED <<conn, netData, netRedirects>>

(* The web process answers a redirect: the connection hands the message   *)
(* to the loader it still holds, and continueWillSendRequest() passes it  *)
(* on to m_networkLoad without checking it.                                *)
ContinueWillSendRequest ==
    /\ conn /\ "redirect" \in ld.webOwes
    /\ LET s == [ld EXCEPT !.webOwes = @ \ {"redirect"}] IN
       ld' = CASE ~s.registered -> s
               [] s.netLoad = "none" -> [s EXCEPT !.nullLoad = TRUE]
               [] OTHER -> [s EXCEPT !.await = "none"]
    /\ UNCHANGED <<conn, toggles, netData, netRedirects>>

(* The web process answers a main resource's response;                    *)
(* continueDidReceiveResponse() resumes m_networkLoad if there is one.    *)
ContinueDidReceiveResponse ==
    /\ conn /\ "response" \in ld.webOwes
    /\ LET s == [ld EXCEPT !.webOwes = @ \ {"response"}] IN
       ld' = IF s.registered /\ s.netLoad # "none" THEN [s EXCEPT !.await = "none"] ELSE s
    /\ UNCHANGED <<conn, toggles, netData, netRedirects>>

(* The web process removes the load: abort().                              *)
WebAbort ==
    /\ ld.registered /\ ld.started /\ ~ld.sync
    /\ ld' = Abort(ld)
    /\ UNCHANGED <<conn, toggles, netData, netRedirects>>

(* NetworkConnectionToWebProcess::didClose(): abort() every loader the    *)
(* connection still holds.                                                 *)
DidClose(s) == IF s.registered THEN Abort(s) ELSE s

(* The IPC connection closes: from now on every send fails, and in the     *)
(* same task the connection aborts its loaders.  The close is handled     *)
(* after the message that created and started the loader.                  *)
ConnectionCloses ==
    /\ conn /\ ld.started
    /\ conn' = FALSE
    /\ ld' = DidClose(ld)
    /\ UNCHANGED <<toggles, netData, netRedirects>>

Next ==
    \/ StartLoad \/ CacheCallback
    \/ NetRedirect \/ NetResponse \/ NetData \/ NetFinish \/ NetFail
    \/ TimerFired \/ SetDefersLoading \/ WebAbort \/ ConnectionCloses
    \/ ContinueWillSendRequest \/ ContinueDidReceiveResponse

(* The connection calls start(), the disk cache calls back, the network   *)
(* goes on delivering callbacks, the run loop fires the timer, and the web *)
(* process answers what it got.  Deferral, abort and the connection        *)
(* closing are the web process's choice and are not fair.                  *)
Fairness ==
    /\ WF_vars(StartLoad)
    /\ WF_vars(CacheCallback)
    /\ WF_vars(NetRedirect \/ NetResponse \/ NetData \/ NetFinish \/ NetFail)
    /\ WF_vars(TimerFired)
    /\ WF_vars(ContinueWillSendRequest)
    /\ WF_vars(ContinueDidReceiveResponse)

Spec == Init /\ [][Next]_vars /\ Fairness

-----------------------------------------------------------------------------
(* The web process sees a well-formed load: redirects come first, data,    *)
(* resource and finish only after the one response, and finish, failure   *)
(* or a resource handle end the sequence.  This must hold on the network  *)
(* path, the cache path, the 304 revalidation path and under failed sends.*)
WebMessageOrder ==
    LET L == ld.log
        n == Len(L)
    IN /\ \A i \in 1 .. n : L[i] = "WillSendRequest" =>
                                \A j \in 1 .. (i - 1) : L[j] = "WillSendRequest"
       /\ \A i \in 1 .. n : L[i] \in {"Data", "Resource", "Finish"} =>
                                \E j \in 1 .. (i - 1) : L[j] = "Response"
       /\ \A i, j \in 1 .. n : L[i] = "Response" /\ L[j] = "Response" => i = j
       /\ \A i \in 1 .. n : L[i] \in {"Finish", "Fail", "Resource"} => i = n

(* bufferingTimerFired() asserts a buffer and a NetworkLoad: the timer is  *)
(* only ever armed while both exist, across aborts, failed sends and the  *)
(* finish path.                                                            *)
TimerNeedsLoad ==
    ld.timer => ld.netLoad # "none" /\ ld.buffered # "off"

(* The encoded length reported to the web process never exceeds what was  *)
(* received: each flush reports only what was buffered since the last.    *)
DeliveredWithinReceived ==
    ld.delivered <= ld.dataIn

(* startNetworkLoad() runs at most once per loader: consumeSandboxExtensions *)
(* asserts the extensions were not consumed yet, and a second NetworkLoad *)
(* would replace the first.                                               *)
SingleNetworkLoad ==
    ld.starts <= 1

(* A synchronous load answers the web process only through its delayed    *)
(* reply: it sends no asynchronous message (the buffering timer is never  *)
(* armed for it), it replies at most once whichever of finish, failure,   *)
(* cache hit or 304 revalidation ends it, a reply carries a response or   *)
(* an error (sendReplyToSynchronousRequest asserts it).                    *)
SyncReplyOnce ==
    ld.sync =>
        /\ ld.log = <<>>
        /\ ld.replies <= 1
        /\ ld.replies = 1 => ld.replyOk

(* A synchronous load has sent its delayed reply by the time it is cleaned *)
(* up: the destructor asserts the reply is gone.                           *)
SyncRepliedBeforeCleanup ==
    ld.sync /\ ld.cleanups > 0 => ld.replies = 1

(* Every load ends in cleanup() unless the web process leaves it deferred: *)
(* no handler leaves the NetworkLoad waiting for an answer the web process *)
(* was never asked for, on the network, cache, 304 revalidation and        *)
(* synchronous paths, and a closed connection aborts what is left.         *)
LoadEnds ==
    <>(ld.cleanups > 0) \/ <>[](ld.defers)

(* A continue message the connection routes to the loader finds its       *)
(* NetworkLoad: the web process answers a redirect, also a cached one, only *)
(* while the load that asked is still there.                                *)
ContinueFindsLoad ==
    ~ld.nullLoad

=============================================================================
