--------------------------- MODULE IDBClientRequest ---------------------------
(***************************************************************************)
(* The client side of an IndexedDB transaction over one object store:      *)
(* IDBClient::IDBObjectStore's entry points (their argument and state      *)
(* checks, the requests they create, the cache of IDBIndex objects) and    *)
(* the life of each IDBRequest (IDBRequestImpl.cpp): the operation at the  *)
(* server, the completion, the event queued to the script context, its     *)
(* dispatch, and cursors iterated from event handlers.                     *)
(*                                                                         *)
(* IDBTransaction, IDBCursor and the event loop are not under src/; their  *)
(* part is modelled from their contract with this code: the transaction    *)
(* is active during its creating task and while one of its requests'       *)
(* events is dispatched (TransactionActivator), it tracks its requests     *)
(* (addRequest / removeRequest), and a cursor may be continued only after  *)
(* it got a value (IDBCursor's m_gotValue).                                *)
(***************************************************************************)
EXTENDS Naturals, Sequences, SequencesExt

CONSTANTS
    Reqs,            \* the IDBRequest objects the script can create
    IndexNames,      \* index names used in createIndex / index / deleteIndex
    MaxIterations,   \* bound on cursor continue() calls
    MaxIndexObjects  \* bound on IDBIndex objects created

Modes == {"readonly", "readwrite", "versionchange"}
StoreOps == {"get", "put", "add", "delete", "clear", "count", "openCursor"}
IndexArgs == {"ok", "invalidKeyPath", "arrayMultiEntry"}

VARIABLES
    mode,          \* the transaction's mode
    storeDeleted,  \* IDBObjectStore::m_deleted
    info,          \* the index names in m_info
    referenced,    \* m_referencedIndexes: name -> IDBIndex object (0: none)
    idxDeleted,    \* IDBIndex objects marked deleted
    nIdx,          \* IDBIndex objects created so far
    ec,            \* the ExceptionCode of the last object store call
    req,           \* the fields of each IDBRequest
    inTxn,         \* the requests the transaction holds
    inFlight,      \* the requests with an operation at the server
    events,        \* the context's event queue: <<request, type>>
    gotValue,      \* IDBCursor::m_gotValue of each cursor request's cursor
    task,          \* what runs: "init", "other", a request's dispatch, "none"
    active,        \* IDBTransaction::isActive()
    contextAlive,  \* scriptExecutionContext() is not null
    iterations     \* continue() calls made

storeVars == <<mode, storeDeleted, info, referenced, idxDeleted, nIdx>>
reqVars == <<req, inTxn, inFlight, events, gotValue, iterations>>
vars == <<storeVars, ec, reqVars, task, active, contextAlive>>

(* An IDBRequest's fields: m_readyState, m_pendingCursor, m_result,        *)
(* m_domError, m_hasPendingActivity.  "none" is an unused request.         *)
NoRequest == [kind |-> "none", ready |-> "pending", pendingCursor |-> FALSE,
              result |-> "null", domError |-> FALSE, activity |-> TRUE]

(* The first failing check of a call, each <<failed, exception code>>.     *)
FirstFailure(checks) ==
    LET i == SelectInSeq(checks, LAMBDA c : c[1])
    IN IF i = 0 THEN "none" ELSE checks[i][2]

(* The checks of each object store request method, in the code's order;   *)
(* badArg stands for an invalid key range, value or direction, checked    *)
(* where the range overloads check it.  The key overloads of count and    *)
(* delete raise the same DataError before the other checks; that changes  *)
(* only which code a call with several faults gets.                       *)
StoreChecks(op, badArg) ==
    LET inactive == ~active
        readOnly == mode = "readonly"
    IN CASE op = "openCursor" ->
              << <<storeDeleted, "InvalidStateError">>,
                 <<inactive, "TransactionInactiveError">>,
                 <<badArg, "TypeError">> >>
         [] op \in {"get", "count"} ->
              << <<inactive, "TransactionInactiveError">>,
                 <<storeDeleted, "InvalidStateError">>,
                 <<badArg, "DataError">> >>
         [] op \in {"put", "add", "delete"} ->
              << <<readOnly, "ReadOnlyError">>,
                 <<inactive, "TransactionInactiveError">>,
                 <<storeDeleted, "InvalidStateError">>,
                 <<badArg, "DataError">> >>
         [] op = "clear" ->
              << <<readOnly, "ReadOnlyError">>,
                 <<inactive, "TransactionInactiveError">>,
                 <<storeDeleted, "InvalidStateError">> >>

(* Script runs: the creating task, another task, or an event handler.     *)
ScriptRuns == task # "none" /\ contextAlive

(* A request made by IDBTransaction::requestX: an IDBRequest over the      *)
(* object store, or over a new cursor (m_pendingCursor set), added to the  *)
(* transaction and sent to the server.                                     *)
CreateRequest(r, op) ==
    /\ req' = [req EXCEPT ![r] = [NoRequest EXCEPT
                   !.kind = IF op = "openCursor" THEN "cursor" ELSE "op",
                   !.pendingCursor = (op = "openCursor")]]
    /\ inTxn' = inTxn \cup {r}
    /\ inFlight' = inFlight \cup {r}
    /\ UNCHANGED <<events, gotValue, iterations>>

(* get, put/add (putOrAdd), delete, clear, count (doCount), openCursor.    *)
StoreRequest(op, badArg) ==
    /\ ScriptRuns
    /\ LET code == FirstFailure(StoreChecks(op, badArg)) IN
         /\ ec' = code
         /\ IF code = "none"
              THEN \E r \in Reqs : req[r].kind = "none" /\ CreateRequest(r, op)
              ELSE UNCHANGED reqVars
    /\ UNCHANGED <<storeVars, task, active, contextAlive>>

(* createIndex: installs the index in m_info and caches a new IDBIndex.   *)
CreateIndex(n, arg) ==
    /\ ScriptRuns
    /\ nIdx < MaxIndexObjects
    /\ LET code == FirstFailure(<< <<storeDeleted, "InvalidStateError">>,
                                   <<mode # "versionchange", "InvalidStateError">>,
                                   <<~active, "TransactionInactiveError">>,
                                   <<arg = "invalidKeyPath", "SyntaxError">>,
                                   <<n \in info, "ConstraintError">>,
                                   <<arg = "arrayMultiEntry", "InvalidAccessError">> >>)
       IN /\ ec' = code
          /\ IF code = "none"
               THEN /\ info' = info \cup {n}
                    /\ nIdx' = nIdx + 1
                    /\ referenced' = [referenced EXCEPT ![n] = nIdx + 1]
               ELSE UNCHANGED <<info, nIdx, referenced>>
    /\ UNCHANGED <<mode, storeDeleted, idxDeleted, reqVars, task, active, contextAlive>>

(* index(name): the cached IDBIndex, else a new one for an index of        *)
(* m_info, which is cached.                                                 *)
Index(n, emptyName) ==
    /\ ScriptRuns
    /\ LET code == FirstFailure(<< <<emptyName, "NotFoundError">>,
                                   <<storeDeleted, "InvalidStateError">>,
                                   <<~active, "TransactionInactiveError">>,
                                   <<referenced[n] = 0 /\ n \notin info, "NotFoundError">> >>)
       IN /\ ec' = code
          /\ IF code = "none" /\ referenced[n] = 0
               THEN /\ nIdx < MaxIndexObjects
                    /\ nIdx' = nIdx + 1
                    /\ referenced' = [referenced EXCEPT ![n] = nIdx + 1]
               ELSE UNCHANGED <<nIdx, referenced>>
    /\ UNCHANGED <<mode, storeDeleted, info, idxDeleted, reqVars, task, active, contextAlive>>

(* Mutant: the index is looked up in the cache but left there.           *)
TakeReferencedKeeps(ref, n) == ref

(* m_referencedIndexes.take(name): the cache without the name.              *)
TakeReferenced(ref, n) == [ref EXCEPT ![n] = 0]

(* deleteIndex: removes the index from m_info and marks the cached         *)
(* IDBIndex, taken out of the cache, as deleted.                           *)
DeleteIndex(n) ==
    /\ ScriptRuns
    /\ LET code == FirstFailure(<< <<storeDeleted, "InvalidStateError">>,
                                   <<mode # "versionchange", "InvalidStateError">>,
                                   <<~active, "TransactionInactiveError">>,
                                   <<n \notin info, "NotFoundError">> >>)
       IN /\ ec' = code
          /\ IF code = "none"
               THEN /\ info' = info \ {n}
                    /\ idxDeleted' = IF referenced[n] # 0
                                       THEN idxDeleted \cup {referenced[n]}
                                       ELSE idxDeleted
                    /\ referenced' = TakeReferenced(referenced, n)
               ELSE UNCHANGED <<info, idxDeleted, referenced>>
    /\ UNCHANGED <<mode, storeDeleted, nIdx, reqVars, task, active, contextAlive>>

(* markAsDeleted, called when a version change deletes the object store.   *)
MarkAsDeleted ==
    /\ ScriptRuns
    /\ mode = "versionchange" /\ active /\ ~storeDeleted
    /\ storeDeleted' = TRUE
    /\ UNCHANGED <<mode, info, referenced, idxDeleted, nIdx, ec, reqVars,
                   task, active, contextAlive>>


(***************************************************************************)
(* The request's side of completion.                                       *)
(***************************************************************************)

(* requestCompleted: done; an error result sets m_domError (onError).      *)
RequestCompleted(q, err) ==
    [q EXCEPT !.ready = "done", !.domError = IF err THEN TRUE ELSE @]

(* Mutant: the pending cursor is not cleared.                            *)
DidOpenOrIterateCursorKeepsPending(q, err) ==
    RequestCompleted([q EXCEPT !.result = "cursor"], err)

(* didOpenOrIterateCursor: the result is the cursor, the pending cursor    *)
(* is cleared, then requestCompleted.                                      *)
DidOpenOrIterateCursor(q, err) ==
    RequestCompleted([q EXCEPT !.result = "cursor", !.pendingCursor = FALSE], err)

(* enqueueEvent: the event is dropped once the context is gone.            *)
EnqueueEvent(r, type) ==
    IF contextAlive THEN Append(events, <<r, type>>) ELSE events

(* The server answers a request's operation, successfully or with an       *)
(* error; the transaction sets the result of a successful non-cursor       *)
(* operation and completes the request; a cursor operation's success       *)
(* gives the cursor its value (setGetResult).                              *)
ServerReply(r, err) ==
    /\ task = "none"
    /\ r \in inFlight
    /\ inFlight' = inFlight \ {r}
    /\ req' = [req EXCEPT ![r] =
                 IF @.kind = "cursor"
                   THEN DidOpenOrIterateCursor(@, err)
                   ELSE RequestCompleted([@ EXCEPT !.result =
                                            IF err THEN @ ELSE "value"], err)]
    /\ gotValue' = IF req[r].kind = "cursor" /\ ~err
                     THEN [gotValue EXCEPT ![r] = TRUE] ELSE gotValue
    /\ events' = EnqueueEvent(r, IF err THEN "error" ELSE "success")
    /\ UNCHANGED <<storeVars, ec, inTxn, iterations, task, active, contextAlive>>

(* dispatchEvent, up to the handlers: the request is done and the          *)
(* transaction is active while they run (TransactionActivator).            *)
DispatchBegin ==
    /\ task = "none" /\ contextAlive
    /\ events # <<>>
    /\ LET r == Head(events)[1] IN
         /\ req' = [req EXCEPT ![r].ready = "done"]
         /\ task' = r
    /\ events' = Tail(events)
    /\ active' = TRUE
    /\ UNCHANGED <<storeVars, ec, inTxn, inFlight, gotValue, iterations, contextAlive>>

(* Mutant: the request leaves when its result is not a cursor.           *)
RemovedAfterDispatchNoCursor(q) == q.result # "cursor"

(* The condition under which dispatchEvent removes the request.            *)
RemovedAfterDispatch(q) == ~q.pendingCursor

(* dispatchEvent, after the handlers: without a pending cursor the request *)
(* leaves the transaction and has no pending activity.                     *)
DispatchEnd ==
    /\ task \in Reqs
    /\ LET r == task IN
         IF RemovedAfterDispatch(req[r])
           THEN /\ inTxn' = inTxn \ {r}
                /\ req' = [req EXCEPT ![r].activity = FALSE]
           ELSE UNCHANGED <<inTxn, req>>
    /\ task' = "none"
    /\ active' = FALSE
    /\ UNCHANGED <<storeVars, ec, inFlight, events, gotValue, iterations, contextAlive>>

(* IDBCursor::continue, from script: the cursor must have got its value;   *)
(* the request is reset by willIterateCursor and the transaction sends     *)
(* the iteration (IDBTransaction::iterateCursor adds the request back).    *)
CursorContinue(r) ==
    /\ ScriptRuns
    /\ req[r].kind = "cursor"
    /\ iterations < MaxIterations
    /\ LET code == FirstFailure(<< <<~active, "TransactionInactiveError">>,
                                   <<~gotValue[r], "InvalidStateError">> >>)
       IN /\ ec' = code
          /\ IF code = "none"
               THEN /\ gotValue' = [gotValue EXCEPT ![r] = FALSE]
                    /\ req' = [req EXCEPT ![r] = [@ EXCEPT !.pendingCursor = TRUE,
                                  !.result = "null", !.ready = "pending",
                                  !.domError = FALSE]]
                    /\ inTxn' = inTxn \cup {r}
                    /\ inFlight' = inFlight \cup {r}
                    /\ iterations' = iterations + 1
               ELSE UNCHANGED <<gotValue, req, inTxn, inFlight, iterations>>
    /\ UNCHANGED <<storeVars, events, task, active, contextAlive>>

(***************************************************************************)
(* Tasks of the event loop.                                                *)
(***************************************************************************)

(* The task that created the transaction ends; it is no longer active.    *)
EndInitialTask ==
    /\ task = "init"
    /\ task' = "none" /\ active' = FALSE
    /\ UNCHANGED <<storeVars, ec, reqVars, contextAlive>>

(* A task of the page that is not an event of the transaction.            *)
OtherTask ==
    /\ task = "none" /\ contextAlive
    /\ task' = "other"
    /\ UNCHANGED <<storeVars, ec, reqVars, active, contextAlive>>

EndOtherTask ==
    /\ task = "other"
    /\ task' = "none"
    /\ UNCHANGED <<storeVars, ec, reqVars, active, contextAlive>>

(* The document goes away: scriptExecutionContext() becomes null.          *)
ContextDestroyed ==
    /\ task = "none" /\ contextAlive
    /\ contextAlive' = FALSE
    /\ UNCHANGED <<storeVars, ec, reqVars, task, active>>

Init ==
    /\ mode \in Modes
    /\ storeDeleted = FALSE
    /\ info \in SUBSET IndexNames
    /\ referenced = [n \in IndexNames |-> 0]
    /\ idxDeleted = {}
    /\ nIdx = 0
    /\ ec = "none"
    /\ req = [r \in Reqs |-> NoRequest]
    /\ inTxn = {} /\ inFlight = {} /\ events = <<>>
    /\ gotValue = [r \in Reqs |-> FALSE]
    /\ task = "init" /\ active = TRUE
    /\ contextAlive = TRUE
    /\ iterations = 0

Next ==
    \/ \E op \in StoreOps, b \in BOOLEAN : StoreRequest(op, b)
    \/ \E n \in IndexNames, a \in IndexArgs : CreateIndex(n, a)
    \/ \E n \in IndexNames, b \in BOOLEAN : Index(n, b)
    \/ \E n \in IndexNames : DeleteIndex(n)
    \/ MarkAsDeleted
    \/ \E r \in Reqs, e \in BOOLEAN : ServerReply(r, e)
    \/ DispatchBegin
    \/ DispatchEnd
    \/ \E r \in Reqs : CursorContinue(r)
    \/ EndInitialTask \/ OtherTask \/ EndOtherTask \/ ContextDestroyed

(* The server answers, the event loop runs queued tasks in order, and a    *)
(* handler or task returns: a queued reply or event is served even if the *)
(* page keeps scheduling tasks of its own.                                 *)
Fairness ==
    /\ \A r \in Reqs : SF_vars(\E e \in BOOLEAN : ServerReply(r, e))
    /\ SF_vars(DispatchBegin)
    /\ WF_vars(DispatchEnd)
    /\ WF_vars(EndInitialTask)
    /\ WF_vars(EndOtherTask)

Spec == Init /\ [][Next]_vars /\ Fairness


(***************************************************************************)
(* Properties                                                              *)
(***************************************************************************)

(* willIterateCursor asserts that the request is done, has no pending     *)
(* cursor and has the cursor as its result: every continue() that the      *)
(* cursor accepts (it had got its value) finds the request so, whatever    *)
(* the order of replies, dispatches and handlers before it.                *)
IterateFromDoneRequest ==
    [][\A r \in Reqs :
         (gotValue[r] /\ ~gotValue'[r]) =>
             /\ req[r].ready = "done"
             /\ ~req[r].pendingCursor
             /\ req[r].result = "cursor"]_vars

(* dispatchEvent removes the request from its transaction once no cursor  *)
(* iteration is pending: every request the transaction holds eventually  *)
(* leaves it (so the transaction can finish), unless the context dies.    *)
EveryRequestSettles ==
    \A r \in Reqs : (r \in inTxn) ~> (r \notin inTxn \/ ~contextAlive)

(* index(name) hands out the cached IDBIndex: the cache never holds an     *)
(* index that deleteIndex removed from m_info and marked deleted.          *)
IndexCacheLive ==
    \A n \in IndexNames :
        referenced[n] # 0 => n \in info /\ referenced[n] \notin idxDeleted

(* A request whose operation is at the server is still pending: its      *)
(* readyState reads "pending" (willIterateCursor sets Pending, only       *)
(* dispatchEvent sets Done) and hasPendingActivity keeps it alive until   *)
(* the result is dispatched.                                              *)
InFlightRequestPending ==
    \A r \in inFlight : req[r].ready = "pending" /\ req[r].activity

=============================================================================
