--------------------------- MODULE AsyncOperations ---------------------------
(***************************************************************************)
(* The asynchronous calls of the manager (src/core/manager.zig): openAsync,*)
(* executeAsync, openCursorAsync and awaitOperation, over the tables of    *)
(* ConnectionManager.                                                      *)
(*                                                                         *)
(* Each operation is an object on the heap, an entry of the operations map,*)
(* and a thread of its own that makes one locked call.  Client threads     *)
(* create and await operations while any other thread makes synchronous    *)
(* calls.  An action is what a thread does in one critical section of      *)
(* state_lock or of the operation's mutex, or between two of them.         *)
(*                                                                         *)
(* Two things the code asks of its callers without checking them: an id is *)
(* awaited by one thread at a time, and nobody is inside a call when deinit*)
(* begins.  The bindings keep the first (each awaits the id it has just    *)
(* been given, once), and the second is the caller's business.             *)
(***************************************************************************)
EXTENDS ConnectionManager

CONSTANTS
  Client,         \* the threads that create and await operations
  Request,        \* the asynchronous calls they make, with their arguments
  MaxOperations   \* bound on next_operation_id

\* What a call copies of its arguments into the operation, the text left out.
Payload == [call : {"open"}, kind : Kind]
             \cup [call : {"execute", "open_cursor"}, connection_id : Nat]

ASSUME RequestAssumption == Request \subseteq Payload

ASSUME OperationBoundAssumption == MaxOperations \in Nat

VARIABLES
  operations,         \* the keys of the operations map; entry i points to objects[i]
  objects,            \* id -> the AsyncOperation: those allocated and not yet destroyed
  next_operation_id,
  worker,             \* id -> the thread of the operation: where it is, its locals
  client,             \* thread -> where it is in a call, the operation it is at, its local result
  returned,           \* id -> what awaitOperation returned for it
  last_error_message, \* the id of the operation whose message it is, or NoMessage
  teardown            \* how far deinit has come with the operations

asyncVars == <<operations, objects, next_operation_id, worker, client, returned,
               last_error_message, teardown>>
allVars == <<managerVars, asyncVars>>

OperationId == 1..MaxOperations

NoMessage == 0

Final == {"succeeded", "failed"}

Result == [state : Final, value : Nat]

NoResult == [state |-> "pending", value |-> 0]

Idle == [at |-> "idle", operation |-> 0, result |-> NoResult]

\* What reading the id of a freed handle gives, when it does not give the id.
Garbage == 0

-----------------------------------------------------------------------------

AsyncInit ==
  /\ Init
  /\ operations = {}
  /\ objects = [i \in {} |-> {}]
  /\ next_operation_id = 1
  /\ worker = [i \in {} |-> {}]
  /\ client = [t \in Client |-> Idle]
  /\ returned = [i \in {} |-> {}]
  /\ last_error_message = NoMessage
  /\ teardown = "none"

\* A synchronous call of any thread, and the turns of a close under way.
Synchronous ==
  /\ \/ Call /\ teardown = "none"
     \/ Drain
  /\ UNCHANGED asyncVars

Goto(t, where) == client' = [client EXCEPT ![t].at = where]

\* Mutated form of Create: the id is read but not counted up.
CreateReusesId(t, payload) ==
  /\ client[t] = Idle
  /\ teardown = "none"
  /\ Locked
  /\ next_operation_id <= MaxOperations
  /\ operations' = operations \cup {next_operation_id}
  /\ objects' = Put(objects, next_operation_id,
                    [payload |-> payload, state |-> "pending", value |-> 0,
                     has_message |-> FALSE])
  /\ client' = [client EXCEPT ![t].at = "starting", ![t].operation = next_operation_id]
  /\ UNCHANGED <<managerVars, next_operation_id, worker, returned, last_error_message,
                 teardown>>

\* createOperation: the object, an id, the map's entry; the map may be out of memory,
\* which destroys the object and burns the id.
Create(t, payload) ==
  /\ client[t] = Idle
  /\ teardown = "none"
  /\ Locked
  /\ next_operation_id <= MaxOperations
  /\ next_operation_id' = next_operation_id + 1
  /\ \/ /\ operations' = operations \cup {next_operation_id}
        /\ objects' = Put(objects, next_operation_id,
                          [payload |-> payload, state |-> "pending", value |-> 0,
                           has_message |-> FALSE])
        /\ client' = [client EXCEPT ![t].at = "starting", ![t].operation = next_operation_id]
     \/ UNCHANGED <<operations, objects, client>>
  /\ UNCHANGED <<managerVars, worker, returned, last_error_message, teardown>>

OpenAsync(t) == \E payload \in Request : payload.call = "open" /\ Create(t, payload)

ExecuteAsync(t) == \E payload \in Request : payload.call = "execute" /\ Create(t, payload)

OpenCursorAsync(t) ==
  \E payload \in Request : payload.call = "open_cursor" /\ Create(t, payload)

\* startOperation: from the moment of spawn the thread runs by itself.
StartOperation(t) ==
  /\ client[t].at = "starting"
  /\ worker' = Put(worker, client[t].operation, [at |-> "begin", handles |-> {}])
  /\ client' = [client EXCEPT ![t] = Idle]
  /\ UNCHANGED <<managerVars, operations, objects, next_operation_id, returned,
                 last_error_message, teardown>>

\* Mutated form of DestroyOperation: the map keeps its pointer to the destroyed object.
DestroyOperationKeepsEntry(t) ==
  /\ client[t].at = "starting"
  /\ Locked
  /\ objects' = Without(objects, client[t].operation)
  /\ client' = [client EXCEPT ![t] = Idle]
  /\ UNCHANGED <<managerVars, operations, next_operation_id, worker, returned,
                 last_error_message, teardown>>

\* The thread could not be spawned: destroyOperation.
DestroyOperation(t) ==
  /\ client[t].at = "starting"
  /\ Locked
  /\ operations' = operations \ {client[t].operation}
  /\ objects' = Without(objects, client[t].operation)
  /\ client' = [client EXCEPT ![t] = Idle]
  /\ UNCHANGED <<managerVars, next_operation_id, worker, returned, last_error_message,
                 teardown>>

-----------------------------------------------------------------------------
(* The operation's thread: runOpenOperation, runExecuteOperation and            *)
(* runOpenCursorOperation.                                                      *)

\* begin, and the driver's thread-local message cleared.
WorkerBegin(i) ==
  /\ worker[i].at = "begin"
  /\ objects' = [objects EXCEPT ![i].state = "running"]
  /\ worker' = [worker EXCEPT ![i].at = "call"]
  /\ UNCHANGED <<managerVars, operations, next_operation_id, client, returned,
                 last_error_message, teardown>>

\* The call got a handle, which the thread keeps a pointer to, or none.
Got(i, outcome, handle) ==
  worker' = [worker EXCEPT ![i] =
               IF outcome = "stored" THEN [at |-> "succeed", handles |-> {handle}]
                                     ELSE [at |-> "fail", handles |-> {}]]

WorkerOpen(i, outcome) ==
  LET kind == objects[i].payload.kind
  IN  /\ objects[i].payload.call = "open"
      /\ Open(kind, outcome)
      /\ Got(i, outcome,
             NewHandle("connection", next_connection_id, next_connection_id, kind))

\* Mutated form of WorkerExecute: the lock is not taken.
WorkerExecuteUnlocked(i, outcome) ==
  LET c == objects[i].payload.connection_id
      handle == NewHandle("result_set", next_result_set_id, c, connections[c].kind)
  IN  /\ objects[i].payload.call = "execute"
      /\ c \in DOMAIN connections
      /\ next_result_set_id <= MaxResultSets
      /\ Allocate(handle, outcome)
      /\ result_sets' = IF outcome = "stored"
                          THEN Put(result_sets, next_result_set_id,
                                   [kind |-> connections[c].kind, handle |-> handle])
                          ELSE result_sets
      /\ next_result_set_id' = next_result_set_id + 1
      /\ UNCHANGED <<registry, connections, cursors, next_connection_id,
                     next_cursor_id, stage, closing>>
      /\ Got(i, outcome, handle)

WorkerExecute(i, outcome) ==
  LET c == objects[i].payload.connection_id
  IN  /\ objects[i].payload.call = "execute"
      /\ Execute(c, outcome)
      /\ Got(i, outcome,
             NewHandle("result_set", next_result_set_id, c, connections[c].kind))

WorkerOpenCursor(i, outcome) ==
  LET c == objects[i].payload.connection_id
  IN  /\ objects[i].payload.call = "open_cursor"
      /\ \E n \in 0..MaxRows : OpenCursor(c, outcome, n)
      /\ Got(i, outcome, NewHandle("cursor", next_cursor_id, c, connections[c].kind))

\* The call comes as far as the driver.  Otherwise it ends with ConnectionNotFound or
\* DriverNotRegistered; running into the bound of an id counts as that too.
ReachesDriver(payload) ==
  IF payload.call = "open"
    THEN payload.kind \in DOMAIN registry /\ next_connection_id <= MaxConnections
    ELSE /\ payload.connection_id \in DOMAIN connections
         /\ connections[payload.connection_id].kind \in DOMAIN registry
         /\ IF payload.call = "execute" THEN next_result_set_id <= MaxResultSets
                                        ELSE next_cursor_id <= MaxCursors

\* open, execute or openCursor: one critical section of state_lock.
WorkerCall(i) ==
  /\ worker[i].at = "call"
  /\ \/ \E outcome \in Outcome :
          WorkerOpen(i, outcome) \/ WorkerExecute(i, outcome) \/ WorkerOpenCursor(i, outcome)
     \/ /\ Locked
        /\ ~ReachesDriver(objects[i].payload)
        /\ worker' = [worker EXCEPT ![i].at = "fail"]
        /\ UNCHANGED managerVars
  /\ UNCHANGED <<operations, objects, next_operation_id, client, returned,
                 last_error_message, teardown>>

\* Mutated form of WorkerSucceed: the id is taken from the manager's counter.
WorkerSucceedReadsCounter(i) ==
  /\ worker[i].at = "succeed"
  /\ \E handle \in worker[i].handles :
       objects' = [objects EXCEPT ![i].state = "succeeded",
                                  ![i].value = IF handle.table = "result_set"
                                                 THEN next_result_set_id - 1 ELSE handle.id]
  /\ worker' = [worker EXCEPT ![i].at = "return"]
  /\ UNCHANGED <<managerVars, operations, next_operation_id, client, returned,
                 last_error_message, teardown>>

\* succeed(handle.id): the lock has been released, and the id is read through the
\* pointer, which another thread's close may have freed by now.
WorkerSucceed(i) ==
  /\ worker[i].at = "succeed"
  /\ \E handle \in worker[i].handles :
       \E id \in IF handle \in heap THEN {handle.id} ELSE {handle.id, Garbage} :
         objects' = [objects EXCEPT ![i].state = "succeeded", ![i].value = id]
  /\ worker' = [worker EXCEPT ![i].at = "return"]
  /\ UNCHANGED <<managerVars, operations, next_operation_id, client, returned,
                 last_error_message, teardown>>

\* Mutated form of WorkerFail: the error is dropped and the thread ends.
WorkerFailSilently(i) ==
  /\ worker[i].at = "fail"
  /\ worker' = [worker EXCEPT ![i].at = "return"]
  /\ UNCHANGED <<managerVars, operations, objects, next_operation_id, client, returned,
                 last_error_message, teardown>>

\* fail, with the message the driver left, if it left one that could be copied.
WorkerFail(i) ==
  /\ worker[i].at = "fail"
  /\ \E has_message \in BOOLEAN :
       objects' = [objects EXCEPT ![i].state = "failed", ![i].has_message = has_message]
  /\ worker' = [worker EXCEPT ![i].at = "return"]
  /\ UNCHANGED <<managerVars, operations, next_operation_id, client, returned,
                 last_error_message, teardown>>

\* The state is final, but the thread still has the mutex of the object to release.
WorkerExit(i) ==
  /\ worker[i].at = "return"
  /\ worker' = [worker EXCEPT ![i].at = "exited"]
  /\ UNCHANGED <<managerVars, operations, objects, next_operation_id, client, returned,
                 last_error_message, teardown>>

WorkerStep(i) ==
  /\ i \in DOMAIN worker
  /\ \/ WorkerBegin(i) \/ WorkerCall(i) \/ WorkerSucceed(i) \/ WorkerFail(i) \/ WorkerExit(i)

-----------------------------------------------------------------------------
(* awaitOperation *)

\* The lookup.  OperationNotFound changes nothing.
AwaitOperation(t, i) ==
  /\ client[t] = Idle
  /\ teardown = "none"
  /\ Locked
  /\ i \in operations
  /\ \A u \in Client : client[u].operation # i
  /\ client' = [client EXCEPT ![t].at = "waiting", ![t].operation = i]
  /\ UNCHANGED <<managerVars, operations, objects, next_operation_id, worker, returned,
                 last_error_message, teardown>>

\* Mutated form of Wait: only a pending operation is waited for.
WaitWhilePending(t) ==
  /\ client[t].at = "waiting"
  /\ LET object == objects[client[t].operation]
     IN  /\ object.state # "pending"
         /\ client' = [client EXCEPT ![t].at = "joining",
                         ![t].result = [state |-> object.state, value |-> object.value]]
  /\ UNCHANGED <<managerVars, operations, objects, next_operation_id, worker, returned,
                 last_error_message, teardown>>

\* wait: its result is a copy, made under the operation's mutex.
Wait(t) ==
  /\ client[t].at = "waiting"
  /\ LET object == objects[client[t].operation]
     IN  /\ object.state \in Final
         /\ client' = [client EXCEPT ![t].at = "joining",
                         ![t].result = [state |-> object.state, value |-> object.value]]
  /\ UNCHANGED <<managerVars, operations, objects, next_operation_id, worker, returned,
                 last_error_message, teardown>>

\* Mutated form of JoinThread: the thread is detached instead of joined.
DetachThread(t) ==
  /\ client[t].at = "joining"
  /\ Goto(t, "removing")
  /\ UNCHANGED <<managerVars, operations, objects, next_operation_id, worker, returned,
                 last_error_message, teardown>>

JoinThread(t) ==
  /\ client[t].at = "joining"
  /\ worker[client[t].operation].at = "exited"
  /\ Goto(t, "removing")
  /\ UNCHANGED <<managerVars, operations, objects, next_operation_id, worker, returned,
                 last_error_message, teardown>>

Remove(t) ==
  /\ client[t].at = "removing"
  /\ Locked
  /\ operations' = operations \ {client[t].operation}
  /\ Goto(t, "returning")
  /\ UNCHANGED <<managerVars, objects, next_operation_id, worker, returned,
                 last_error_message, teardown>>

\* The message, if there is one, becomes the manager's (a critical section of its
\* own), the object is destroyed and the result returned.
Return(t) ==
  LET i == client[t].operation
  IN  /\ client[t].at = "returning"
      /\ objects[i].has_message => Locked
      /\ last_error_message' = IF objects[i].has_message THEN i ELSE last_error_message
      /\ objects' = Without(objects, i)
      /\ returned' = Put(returned, i, client[t].result)
      /\ client' = [client EXCEPT ![t] = Idle]
      /\ UNCHANGED <<managerVars, operations, next_operation_id, worker, teardown>>

AwaitStep(t) == Wait(t) \/ JoinThread(t) \/ Remove(t) \/ Return(t)

-----------------------------------------------------------------------------
(* deinit *)

\* Nobody is inside a call; the threads of operations may be.
DeinitBegins ==
  /\ teardown = "none"
  /\ Locked
  /\ \A t \in Client : client[t] = Idle
  /\ teardown' = "joining"
  /\ UNCHANGED <<managerVars, operations, objects, next_operation_id, worker, client,
                 returned, last_error_message>>

\* Mutated form of DeinitJoins: deinit does not wait for the threads.
DeinitDoesNotJoin ==
  /\ teardown = "joining"
  /\ Deinit
  /\ teardown' = "draining"
  /\ UNCHANGED <<operations, objects, next_operation_id, worker, client, returned,
                 last_error_message>>

\* Mutated form of DeinitJoins: deinit waits until the map is empty.
DeinitWaitsForAwait ==
  /\ teardown = "joining"
  /\ operations = {}
  /\ Deinit
  /\ teardown' = "draining"
  /\ UNCHANGED <<operations, objects, next_operation_id, worker, client, returned,
                 last_error_message>>

\* Every operation's thread is joined, without the lock; then the tables are drained.
DeinitJoins ==
  /\ teardown = "joining"
  /\ \A i \in operations : worker[i].at = "exited"
  /\ Deinit
  /\ teardown' = "draining"
  /\ UNCHANGED <<operations, objects, next_operation_id, worker, client, returned,
                 last_error_message>>

\* The operations nobody awaited, and the manager's message.
DeinitOperations ==
  /\ teardown = "draining"
  /\ stage = "gone"
  /\ objects' = [i \in DOMAIN objects \ operations |-> objects[i]]
  /\ operations' = {}
  /\ last_error_message' = NoMessage
  /\ teardown' = "done"
  /\ UNCHANGED <<managerVars, next_operation_id, worker, client, returned>>

AsyncNext ==
  \/ Synchronous
  \/ \E t \in Client :
       \/ OpenAsync(t)
       \/ ExecuteAsync(t)
       \/ OpenCursorAsync(t)
       \/ StartOperation(t)
       \/ DestroyOperation(t)
       \/ \E i \in OperationId : AwaitOperation(t, i)
       \/ AwaitStep(t)
  \/ \E i \in OperationId : WorkerStep(i)
  \/ DeinitBegins
  \/ DeinitJoins
  \/ DeinitOperations

AsyncSpec == AsyncInit /\ [][AsyncNext]_allVars

\* A driver's call returns, and a thread that wants state_lock gets it sooner or
\* later although others take it again and again: strong fairness where a step
\* needs the lock.  No fairness makes anybody call the manager.
AsyncFairSpec ==
  /\ AsyncSpec
  /\ WF_allVars(Drain /\ UNCHANGED asyncVars)
  /\ WF_allVars(DeinitJoins \/ DeinitOperations)
  /\ \A i \in OperationId : SF_allVars(WorkerStep(i))
  /\ \A t \in Client : SF_allVars(AwaitStep(t))

-----------------------------------------------------------------------------
(* Properties *)

Object == [payload : Payload, state : {"pending", "running"} \cup Final, value : Nat,
           has_message : BOOLEAN]

Worker == [at : {"begin", "call", "succeed", "fail", "return", "exited"},
           handles : SUBSET Handle]

ClientState == [at : {"idle", "starting", "waiting", "joining", "removing", "returning"},
                operation : {0} \cup OperationId, result : Result \cup {NoResult}]

\* The operations, their threads and the clients keep their types; an id that was
\* never issued has no object, no thread and no result.
AsyncTypeOK ==
  /\ next_operation_id \in 1..(MaxOperations + 1)
  /\ operations \subseteq 1..(next_operation_id - 1)
  /\ DOMAIN objects \subseteq 1..(next_operation_id - 1)
  /\ objects \in [DOMAIN objects -> Object]
  /\ DOMAIN worker \subseteq 1..(next_operation_id - 1)
  /\ worker \in [DOMAIN worker -> Worker]
  /\ client \in [Client -> ClientState]
  /\ returned \in [DOMAIN returned -> Result]
  /\ DOMAIN returned \subseteq 1..(next_operation_id - 1)
  /\ last_error_message \in 0..(next_operation_id - 1)
  /\ teardown \in {"none", "joining", "draining", "done"}

\* Every operation alive is in the map or in the hands of one client, which is about
\* to destroy it; the map never points to a destroyed one; two clients never hold the
\* same one.  So an operation is destroyed once, by destroyOperation, await or deinit.
OperationsOwned ==
  /\ operations \subseteq DOMAIN objects
  /\ \A i \in DOMAIN objects \ operations :
       \E t \in Client : client[t].operation = i /\ client[t].at = "returning"
  /\ \A t, u \in Client :
       t # u /\ client[t] # Idle => client[t].operation # client[u].operation

\* The thread of an operation and the client at it never touch a destroyed object:
\* what await and deinit join for.
ThreadsTouchLiveObjects ==
  /\ \A i \in DOMAIN worker : worker[i].at # "exited" => i \in DOMAIN objects
  /\ \A t \in Client : client[t] # Idle => client[t].operation \in DOMAIN objects

\* An operation that succeeded carries the id of the very handle its own call
\* produced, whatever other threads opened or closed between the release of the lock
\* and the read of the id; the exception is a handle already closed by then.
SucceedsWithOwnHandle ==
  \A i \in DOMAIN objects : objects[i].state = "succeeded" =>
    \A handle \in worker[i].handles :
      objects[i].value = handle.id \/ handle \notin heap

\* After deinit no operation, no handle a table held and no thread is left.
NothingLeftBehind == teardown = "done" =>
  /\ DOMAIN objects = {}
  /\ heap = orphans
  /\ \A i \in DOMAIN worker : worker[i].at = "exited"

\* A locked call is a call: with operations in flight, and threads that create, await
\* and destroy them, the tables go through no step the synchronous manager could not
\* take (Spec of ConnectionManager).
TablesAsIfSynchronous == Spec

FutureOf(i) ==
  IF i >= next_operation_id THEN [status |-> "unused", results |-> {}]
  ELSE IF i \in DOMAIN returned
    THEN [status |-> "delivered", results |-> {returned[i]}]
  ELSE IF i \notin DOMAIN objects THEN [status |-> "abandoned", results |-> {}]
  ELSE IF objects[i].state \in Final
    THEN [status |-> "settled",
          results |-> {[state |-> objects[i].state, value |-> objects[i].value]}]
  ELSE [status |-> "pending", results |-> {}]

Futures == INSTANCE Future WITH
             Id <- OperationId,
             Result <- [state : Final, value : 0..(MaxConnections + MaxResultSets + MaxCursors)],
             future <- [i \in OperationId |-> FutureOf(i)]

\* An operation is a one-shot future: it settles once, await returns exactly what it
\* settled to, to one caller, and an id is never reused.
OperationsAreFutures == Futures!Spec

\* A client that awaits an operation returns: the operation's thread ends, and the
\* locks the way takes are free again and again.
AwaitReturns == \A t \in Client : client[t].at = "waiting" ~> client[t].at = "idle"

\* deinit returns although operations are in flight when it begins.
DeinitReturns == teardown = "joining" ~> teardown = "done"
=============================================================================
