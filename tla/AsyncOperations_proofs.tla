------------------------ MODULE AsyncOperations_proofs ------------------------
(***************************************************************************)
(* Theorems about AsyncOperations, for any clients, requests and bounds:   *)
(* the manager's tables cannot tell operations from synchronous calls, and *)
(* no thread of the library touches a destroyed operation.                 *)
(*                                                                         *)
(* AsyncInv adds to the properties what the protocol between a client and  *)
(* an operation's thread keeps: where a client is says whether its         *)
(* operation is in the map, not spawned yet or already joined, and how far *)
(* deinit has come says which threads have ended. OwnHandleInv and         *)
(* FuturesInv add what the handle a thread has opened and the result it    *)
(* leaves have to do with its place; they give SucceedsWithOwnHandle and   *)
(* the refinement of Future.                                               *)
(***************************************************************************)
EXTENDS AsyncOperations, ConnectionManager_proofs

Busy(t) == client[t].at # "idle"

\* The client that runs through create or await has its operation to itself.
ClientsInv ==
  /\ \A t \in Client :
       /\ ~Busy(t) => client[t] = Idle
       /\ Busy(t) => client[t].operation \in DOMAIN objects
       /\ client[t].at \in {"starting", "waiting", "joining", "removing"}
            => client[t].operation \in operations
       /\ client[t].at = "returning" => client[t].operation \notin operations
       /\ client[t].at = "starting" => client[t].operation \notin DOMAIN worker
       /\ client[t].at \in {"removing", "returning"} =>
            (client[t].operation \in DOMAIN worker
               => worker[client[t].operation].at = "exited")
       /\ client[t].at \in {"joining", "removing", "returning"} => client[t].result \in Result
  /\ \A t, u \in Client :
       t # u /\ Busy(t) /\ Busy(u) => client[t].operation # client[u].operation

ObjectsInv ==
  /\ operations \subseteq DOMAIN objects
  /\ \A i \in DOMAIN objects \ operations :
       \E t \in Client : client[t].operation = i /\ client[t].at = "returning"

WorkersInv == \A i \in DOMAIN worker : worker[i].at # "exited" => i \in DOMAIN objects

TeardownInv ==
  /\ teardown # "none" => \A t \in Client : client[t] = Idle
  /\ teardown \in {"draining", "done"} =>
       \A i \in operations \cap DOMAIN worker : worker[i].at = "exited"
  /\ teardown = "done" => operations = {} /\ stage = "gone"

AsyncInv == AsyncTypeOK /\ ClientsInv /\ ObjectsInv /\ WorkersInv /\ TeardownInv

-----------------------------------------------------------------------------
(* The tables take the steps of ConnectionManager *)

LEMMA WorkerCallIsCall ==
  ASSUME TypeOK, NEW i, WorkerCall(i)
  PROVE  [Next]_managerVars
<1>1. \A c \in DOMAIN connections : c \in CallerId
  BY BoundAssumption DEF TypeOK, IsTable, CallerId
<1>2. ASSUME NEW outcome \in Outcome, WorkerOpen(i, outcome) PROVE Next
  <2>1. Open(objects[i].payload.kind, outcome)
    BY <1>2 DEF WorkerOpen
  <2>2. objects[i].payload.kind \in Kind
    BY <2>1 DEF Open, TypeOK
  <2> QED
    BY <2>1, <2>2 DEF Next, Call
<1>3. ASSUME NEW outcome \in Outcome, WorkerExecute(i, outcome) PROVE Next
  <2>1. Execute(objects[i].payload.connection_id, outcome)
    BY <1>3 DEF WorkerExecute
  <2>2. objects[i].payload.connection_id \in CallerId
    BY <1>1, <2>1 DEF Execute, NewResultSet
  <2> QED
    BY <2>1, <2>2 DEF Next, Call
<1>4. ASSUME NEW outcome \in Outcome, WorkerOpenCursor(i, outcome) PROVE Next
  <2>1. PICK n \in 0..MaxRows : OpenCursor(objects[i].payload.connection_id, outcome, n)
    BY <1>4 DEF WorkerOpenCursor
  <2>2. objects[i].payload.connection_id \in CallerId
    BY <1>1, <2>1 DEF OpenCursor
  <2> QED
    BY <2>1, <2>2 DEF Next, Call
<1> QED
  BY <1>2, <1>3, <1>4 DEF WorkerCall

LEMMA AsyncStepIsStep == TypeOK /\ [AsyncNext]_allVars => [Next]_managerVars
<1> SUFFICES ASSUME TypeOK, [AsyncNext]_allVars PROVE [Next]_managerVars
  OBVIOUS
<1>1. CASE Synchronous
  BY <1>1 DEF Synchronous, Next
<1>2. ASSUME NEW t \in Client,
             \/ OpenAsync(t) \/ ExecuteAsync(t) \/ OpenCursorAsync(t)
             \/ StartOperation(t) \/ DestroyOperation(t)
             \/ \E i \in OperationId : AwaitOperation(t, i)
             \/ AwaitStep(t)
      PROVE  UNCHANGED managerVars
  BY <1>2 DEF OpenAsync, ExecuteAsync, OpenCursorAsync, Create, StartOperation,
              DestroyOperation, AwaitOperation, AwaitStep, Wait, JoinThread, Remove, Return
<1>3. ASSUME NEW i \in OperationId, WorkerStep(i)
      PROVE  [Next]_managerVars
  BY <1>3, WorkerCallIsCall
  DEF WorkerStep, WorkerBegin, WorkerSucceed, WorkerFail, WorkerExit
<1>4. CASE DeinitBegins \/ DeinitOperations
  BY <1>4 DEF DeinitBegins, DeinitOperations
<1>5. CASE DeinitJoins
  BY <1>5 DEF DeinitJoins, Next
<1> QED
  BY <1>1, <1>2, <1>3, <1>4, <1>5 DEF AsyncNext, allVars

LEMMA AsyncKeepsIInv == IInv /\ [AsyncNext]_allVars => IInv'
BY AsyncStepIsStep, NextTables, NextStageInv DEF IInv, TablesInv

\* The invariant of the tables survives the operations.
THEOREM TablesUnderOperations == AsyncSpec => []IInv
<1>1. AsyncInit => IInv
  BY InitIInv DEF AsyncInit
<1> QED
  BY <1>1, AsyncKeepsIInv, PTL DEF AsyncSpec

\* Every behaviour with operations in flight is, as far as the tables and the drivers'
\* heap go, a behaviour of the synchronous manager: openAsync, executeAsync and
\* openCursorAsync add no step to what their threads could have called directly.
THEOREM OperationsRefineManager == AsyncSpec => TablesAsIfSynchronous
<1>1. AsyncInit => Init
  BY DEF AsyncInit
<1>2. IInv /\ [AsyncNext]_allVars => [Next]_managerVars
  BY AsyncStepIsStep DEF IInv, TablesInv
<1> QED
  BY <1>1, <1>2, TablesUnderOperations, PTL DEF AsyncSpec, Spec, TablesAsIfSynchronous

\* So whatever is proved of the synchronous manager holds with operations too.
COROLLARY HandlesAreOwnedUnderOperations == AsyncSpec => []NothingLost
BY OperationsRefineManager, HandlesAreOwned, PTL DEF TablesAsIfSynchronous

-----------------------------------------------------------------------------
(* The invariant of the operations, action by action *)

LEMMA CreateInv ==
  ASSUME AsyncInv, NEW t \in Client, NEW payload \in Request, Create(t, payload)
  PROVE  AsyncInv'
<1> USE DEF AsyncInv
<1> DEFINE id == next_operation_id
<1>1. /\ id \in 1..MaxOperations
      /\ id' = id + 1
      /\ id \notin DOMAIN objects /\ id \notin operations /\ id \notin DOMAIN worker
      /\ \A u \in Client : client[u].operation = id => FALSE
  BY OperationBoundAssumption DEF Create, AsyncTypeOK, ClientsInv, Idle, Busy
<1>a. /\ id' \in 1..(MaxOperations + 1) /\ id \in 1..(id' - 1)
      /\ 1..(id - 1) \subseteq 1..(id' - 1) /\ 0..(id - 1) \subseteq 0..(id' - 1)
  BY <1>1, OperationBoundAssumption
<1>2. CASE UNCHANGED <<operations, objects, client>>
  <2>1. AsyncTypeOK'
    <3> HIDE DEF id
    <3> QED
      BY <1>a, <1>2 DEF AsyncTypeOK, Create, id
  <2>2. ClientsInv' /\ ObjectsInv' /\ WorkersInv' /\ TeardownInv'
    BY <1>2 DEF Create, ClientsInv, ObjectsInv, WorkersInv, TeardownInv, Busy, managerVars
  <2> QED
    BY <2>1, <2>2
<1>3. CASE /\ operations' = operations \cup {id}
           /\ objects' = Put(objects, id,
                             [payload |-> payload, state |-> "pending", value |-> 0,
                              has_message |-> FALSE])
           /\ client' = [client EXCEPT ![t].at = "starting", ![t].operation = id]
  <2>1. /\ DOMAIN objects' = DOMAIN objects \cup {id}
        /\ objects' \in [DOMAIN objects' -> Object]
    BY <1>3, RequestAssumption DEF AsyncTypeOK, Put, Object
  <2>2. /\ client' \in [Client -> ClientState]
        /\ client'[t].at = "starting" /\ client'[t].operation = id
        /\ \A u \in Client \ {t} : client'[u] = client[u]
    BY <1>1, <1>3 DEF AsyncTypeOK, ClientState, OperationId
  <2>3. AsyncTypeOK'
    <3>1. operations' \subseteq 1..(id' - 1) /\ DOMAIN objects' \subseteq 1..(id' - 1)
      BY <1>a, <1>3, <2>1 DEF AsyncTypeOK
    <3>2. UNCHANGED <<worker, returned, last_error_message, teardown>>
      BY DEF Create
    <3> QED
      BY <1>a, <2>1, <2>2, <3>1, <3>2 DEF AsyncTypeOK
  <2>4. ClientsInv'
    BY <1>1, <1>3, <2>1, <2>2 DEF ClientsInv, Busy, Create, Idle
  <2>5. ObjectsInv'
    BY <1>1, <1>3, <2>1, <2>2 DEF ObjectsInv, Create, Idle
  <2>6. WorkersInv' /\ TeardownInv'
    BY <1>1, <2>1 DEF WorkersInv, TeardownInv, Create
  <2> QED
    BY <2>3, <2>4, <2>5, <2>6
<1> QED
  BY <1>2, <1>3 DEF Create

LEMMA StartOperationInv ==
  ASSUME AsyncInv, NEW t \in Client, StartOperation(t)
  PROVE  AsyncInv'
<1> USE DEF AsyncInv, StartOperation
<1> DEFINE id == client[t].operation
<1>1. /\ id \in operations /\ id \in DOMAIN objects /\ id \notin DOMAIN worker
      /\ \A u \in Client \ {t} : Busy(u) => client[u].operation # id
      /\ teardown = "none"
  BY DEF ClientsInv, Busy, TeardownInv, Idle
<1>2. /\ DOMAIN worker' = DOMAIN worker \cup {id}
      /\ worker' \in [DOMAIN worker' -> Worker]
      /\ \A i \in DOMAIN worker : worker'[i] = worker[i]
  BY <1>1 DEF AsyncTypeOK, Put, Worker
<1>3. /\ client' \in [Client -> ClientState]
      /\ client'[t] = Idle /\ \A u \in Client \ {t} : client'[u] = client[u]
  BY DEF AsyncTypeOK, ClientState, Idle
<1>4. AsyncTypeOK'
  BY <1>1, <1>2, <1>3 DEF AsyncTypeOK
<1>5. ClientsInv'
  BY <1>1, <1>2, <1>3 DEF ClientsInv, Busy, Idle
<1>6. ObjectsInv'
  BY <1>1, <1>3 DEF ObjectsInv, Idle
<1>7. WorkersInv' /\ TeardownInv'
  BY <1>1, <1>2 DEF WorkersInv, TeardownInv
<1> QED
  BY <1>4, <1>5, <1>6, <1>7

LEMMA DestroyOperationInv ==
  ASSUME AsyncInv, NEW t \in Client, DestroyOperation(t)
  PROVE  AsyncInv'
<1> USE DEF AsyncInv, DestroyOperation
<1> DEFINE id == client[t].operation
<1>1. /\ id \in operations /\ id \in DOMAIN objects /\ id \notin DOMAIN worker
      /\ \A u \in Client \ {t} : Busy(u) => client[u].operation # id
      /\ teardown = "none"
  BY DEF ClientsInv, Busy, TeardownInv, Idle
<1>2. /\ DOMAIN objects' = DOMAIN objects \ {id}
      /\ objects' \in [DOMAIN objects' -> Object]
  BY <1>1 DEF AsyncTypeOK, Without
<1>3. /\ client' \in [Client -> ClientState]
      /\ client'[t] = Idle /\ \A u \in Client \ {t} : client'[u] = client[u]
  BY DEF AsyncTypeOK, ClientState, Idle
<1>4. AsyncTypeOK'
  BY <1>2, <1>3 DEF AsyncTypeOK
<1>5. ClientsInv'
  BY <1>1, <1>2, <1>3 DEF ClientsInv, Busy, Idle
<1>6. ObjectsInv'
  BY <1>1, <1>2, <1>3 DEF ObjectsInv, Busy, Idle
<1>7. WorkersInv' /\ TeardownInv'
  BY <1>1, <1>2 DEF WorkersInv, TeardownInv
<1> QED
  BY <1>4, <1>5, <1>6, <1>7

LEMMA AwaitOperationInv ==
  ASSUME AsyncInv, NEW t \in Client, NEW i \in OperationId, AwaitOperation(t, i)
  PROVE  AsyncInv'
<1> USE DEF AsyncInv, AwaitOperation
<1>1. /\ client' \in [Client -> ClientState]
      /\ client'[t].at = "waiting" /\ client'[t].operation = i
      /\ \A u \in Client \ {t} : client'[u] = client[u]
  BY DEF AsyncTypeOK, ClientState
<1>2. AsyncTypeOK'
  BY <1>1 DEF AsyncTypeOK
<1>3. ClientsInv'
  BY <1>1 DEF ClientsInv, Busy, Idle, ObjectsInv
<1>4. ObjectsInv' /\ WorkersInv' /\ TeardownInv'
  BY <1>1 DEF ObjectsInv, WorkersInv, TeardownInv, Idle
<1> QED
  BY <1>2, <1>3, <1>4

LEMMA WaitInv ==
  ASSUME AsyncInv, NEW t \in Client, Wait(t)
  PROVE  AsyncInv'
<1> USE DEF AsyncInv, Wait
<1>1. /\ client[t].operation \in DOMAIN objects /\ client[t].operation \in operations
      /\ Busy(t) /\ teardown = "none"
  BY DEF ClientsInv, Busy, TeardownInv, Idle
<1> DEFINE r == [state |-> objects[client[t].operation].state,
                 value |-> objects[client[t].operation].value]
<1>2. r \in Result
  BY <1>1 DEF AsyncTypeOK, Object, Result
<1> HIDE DEF r
<1>3. /\ client' \in [Client -> ClientState]
      /\ client'[t].at = "joining" /\ client'[t].operation = client[t].operation
      /\ client'[t].result \in Result
      /\ \A u \in Client \ {t} : client'[u] = client[u]
  BY <1>2 DEF AsyncTypeOK, ClientState, r
<1>4. AsyncTypeOK'
  BY <1>3 DEF AsyncTypeOK
<1>5. ClientsInv'
  BY <1>1, <1>3 DEF ClientsInv, Busy, Idle
<1>6. ObjectsInv' /\ WorkersInv' /\ TeardownInv'
  BY <1>1, <1>3 DEF ObjectsInv, WorkersInv, TeardownInv
<1> QED
  BY <1>4, <1>5, <1>6

LEMMA JoinThreadInv ==
  ASSUME AsyncInv, NEW t \in Client, JoinThread(t)
  PROVE  AsyncInv'
<1> USE DEF AsyncInv, JoinThread, Goto
<1>1. Busy(t) /\ teardown = "none"
  BY DEF ClientsInv, Busy, TeardownInv, Idle
<1>2. /\ client' \in [Client -> ClientState]
      /\ client'[t].at = "removing" /\ client'[t].operation = client[t].operation
      /\ client'[t].result = client[t].result
      /\ \A u \in Client \ {t} : client'[u] = client[u]
  BY DEF AsyncTypeOK, ClientState
<1>3. AsyncTypeOK'
  BY <1>2 DEF AsyncTypeOK
<1>4. ClientsInv'
  BY <1>1, <1>2 DEF ClientsInv, Busy, Idle
<1>5. ObjectsInv' /\ WorkersInv' /\ TeardownInv'
  BY <1>1, <1>2 DEF ObjectsInv, WorkersInv, TeardownInv
<1> QED
  BY <1>3, <1>4, <1>5

LEMMA RemoveInv ==
  ASSUME AsyncInv, NEW t \in Client, Remove(t)
  PROVE  AsyncInv'
<1> USE DEF AsyncInv, Remove, Goto
<1>1. /\ Busy(t) /\ teardown = "none"
      /\ \A u \in Client \ {t} : Busy(u) => client[u].operation # client[t].operation
  BY DEF ClientsInv, Busy, TeardownInv, Idle
<1>2. /\ client' \in [Client -> ClientState]
      /\ client'[t].at = "returning" /\ client'[t].operation = client[t].operation
      /\ client'[t].result = client[t].result
      /\ \A u \in Client \ {t} : client'[u] = client[u]
  BY DEF AsyncTypeOK, ClientState
<1>3. AsyncTypeOK'
  BY <1>2 DEF AsyncTypeOK
<1>4. ClientsInv'
  BY <1>1, <1>2 DEF ClientsInv, Busy, Idle
<1>5. ObjectsInv'
  BY <1>1, <1>2 DEF ObjectsInv
<1>6. WorkersInv' /\ TeardownInv'
  BY <1>1 DEF WorkersInv, TeardownInv
<1> QED
  BY <1>3, <1>4, <1>5, <1>6

LEMMA ReturnInv ==
  ASSUME AsyncInv, NEW t \in Client, Return(t)
  PROVE  AsyncInv'
<1> USE DEF AsyncInv, Return
<1> DEFINE id == client[t].operation
<1>1. /\ Busy(t) /\ teardown = "none" /\ id \in DOMAIN objects /\ id \notin operations
      /\ id \in DOMAIN worker => worker[id].at = "exited"
      /\ client[t].result \in Result
      /\ \A u \in Client \ {t} : Busy(u) => client[u].operation # id
  BY DEF ClientsInv, Busy, TeardownInv, Idle
<1>2. /\ DOMAIN objects' = DOMAIN objects \ {id}
      /\ objects' \in [DOMAIN objects' -> Object]
  BY <1>1 DEF AsyncTypeOK, Without
<1>3. /\ client' \in [Client -> ClientState]
      /\ client'[t] = Idle /\ \A u \in Client \ {t} : client'[u] = client[u]
  BY DEF AsyncTypeOK, ClientState, Idle
<1>4. /\ DOMAIN returned' = DOMAIN returned \cup {id}
      /\ returned' \in [DOMAIN returned' -> Result]
  BY <1>1 DEF AsyncTypeOK, Put
<1>5. AsyncTypeOK'
  BY <1>1, <1>2, <1>3, <1>4 DEF AsyncTypeOK
<1>6. ClientsInv'
  BY <1>1, <1>2, <1>3 DEF ClientsInv, Busy, Idle
<1>7. ObjectsInv'
  BY <1>1, <1>2, <1>3 DEF ObjectsInv, Busy, Idle
<1>8. WorkersInv' /\ TeardownInv'
  BY <1>1, <1>2 DEF WorkersInv, TeardownInv
<1> QED
  BY <1>5, <1>6, <1>7, <1>8

\* A worker moves on: its own record changes, maybe its object's fields, nothing else.
LEMMA WorkerMoves ==
  ASSUME AsyncInv, NEW i \in DOMAIN worker, worker[i].at # "exited",
         worker' \in [DOMAIN worker -> Worker],
         \A j \in DOMAIN worker \ {i} : worker'[j] = worker[j],
         DOMAIN objects' = DOMAIN objects,
         objects' \in [DOMAIN objects -> Object],
         teardown = "done" => stage' = stage,
         UNCHANGED <<operations, next_operation_id, client, returned, last_error_message,
                     teardown>>
  PROVE  AsyncInv'
<1> USE DEF AsyncInv
<1>1. DOMAIN worker' = DOMAIN worker /\ worker' \in [DOMAIN worker' -> Worker]
  OBVIOUS
<1>2. AsyncTypeOK'
  BY <1>1 DEF AsyncTypeOK
<1>3. \A t \in Client : client[t].at \in {"removing", "returning"} => client[t].operation # i
  BY DEF ClientsInv
<1>4. ClientsInv'
  BY <1>1, <1>3 DEF ClientsInv, Busy
<1>5. ObjectsInv' /\ WorkersInv'
  BY <1>1 DEF ObjectsInv, WorkersInv
<1>6. i \in operations \/ teardown = "none"
  BY DEF WorkersInv, ObjectsInv, TeardownInv, Idle
<1>7. TeardownInv'
  BY <1>1, <1>6 DEF TeardownInv
<1> QED
  BY <1>2, <1>4, <1>5, <1>7

LEMMA NewHandleTyped ==
  ASSUME TypeOK, NEW table \in {"connection", "result_set", "cursor"}, NEW id \in Nat,
         NEW c \in Nat, NEW kind \in DOMAIN registry
  PROVE  NewHandle(table, id, c, kind) \in Handle
BY DEF NewHandle, Handle, TypeOK

LEMMA WorkerCallInv ==
  ASSUME IInv, AsyncInv, NEW i \in DOMAIN worker, WorkerCall(i)
  PROVE  AsyncInv'
<1>1. /\ worker[i].at = "call" /\ worker[i] \in Worker
      /\ UNCHANGED <<operations, objects, next_operation_id, client, returned,
                     last_error_message, teardown>>
      /\ objects \in [DOMAIN objects -> Object]
      /\ i \in DOMAIN objects /\ objects[i] \in Object
  BY DEF WorkerCall, AsyncInv, AsyncTypeOK, WorkersInv
<1>2. TypeOK
  BY DEF IInv, TablesInv
<1>3. teardown # "done"
  BY <1>1 DEF AsyncInv, TeardownInv, WorkersInv, ObjectsInv, Idle
<1>a. worker \in [DOMAIN worker -> Worker]
  BY DEF AsyncInv, AsyncTypeOK
<1>4. ASSUME NEW outcome \in Outcome, NEW handle \in Handle, Got(i, outcome, handle)
      PROVE  AsyncInv'
  <2> DEFINE moved == IF outcome = "stored" THEN [at |-> "succeed", handles |-> {handle}]
                                            ELSE [at |-> "fail", handles |-> {}]
  <2>1. moved \in Worker
    BY DEF Worker
  <2>2. worker' = [worker EXCEPT ![i] = moved]
    BY <1>4 DEF Got
  <2> HIDE DEF moved
  <2>3. /\ worker' \in [DOMAIN worker -> Worker]
        /\ \A j \in DOMAIN worker \ {i} : worker'[j] = worker[j]
    BY <1>a, <2>1, <2>2
  <2> QED
    BY <1>1, <1>3, <2>3, WorkerMoves
<1>5. ASSUME NEW outcome \in Outcome, WorkerOpen(i, outcome) PROVE AsyncInv'
  <2> DEFINE kind == objects[i].payload.kind
  <2>1. kind \in DOMAIN registry /\ next_connection_id \in Nat
    BY <1>2, <1>5 DEF WorkerOpen, Open, TypeOK
  <2>2. Got(i, outcome, NewHandle("connection", next_connection_id, next_connection_id, kind))
    BY <1>5 DEF WorkerOpen
  <2> QED
    BY <1>2, <1>4, <2>1, <2>2, NewHandleTyped
<1>6. ASSUME NEW outcome \in Outcome, WorkerExecute(i, outcome) PROVE AsyncInv'
  <2> DEFINE c == objects[i].payload.connection_id
  <2>1. connections[c].kind \in DOMAIN registry /\ next_result_set_id \in Nat /\ c \in Nat
    BY <1>2, <1>6 DEF WorkerExecute, Execute, NewResultSet, TypeOK, IsTable
  <2>2. Got(i, outcome, NewHandle("result_set", next_result_set_id, c, connections[c].kind))
    BY <1>6 DEF WorkerExecute
  <2> QED
    BY <1>2, <1>4, <2>1, <2>2, NewHandleTyped
<1>7. ASSUME NEW outcome \in Outcome, WorkerOpenCursor(i, outcome) PROVE AsyncInv'
  <2> DEFINE c == objects[i].payload.connection_id
  <2>1. connections[c].kind \in DOMAIN registry /\ next_cursor_id \in Nat /\ c \in Nat
    BY <1>2, <1>7 DEF WorkerOpenCursor, OpenCursor, TypeOK, IsTable
  <2>2. Got(i, outcome, NewHandle("cursor", next_cursor_id, c, connections[c].kind))
    BY <1>7 DEF WorkerOpenCursor
  <2> QED
    BY <1>2, <1>4, <2>1, <2>2, NewHandleTyped
<1>8. ASSUME worker' = [worker EXCEPT ![i].at = "fail"] PROVE AsyncInv'
  <2>1. /\ worker' \in [DOMAIN worker -> Worker]
        /\ \A j \in DOMAIN worker \ {i} : worker'[j] = worker[j]
    BY <1>a, <1>1, <1>8 DEF Worker
  <2> QED
    BY <1>1, <1>3, <2>1, WorkerMoves
<1> QED
  BY <1>5, <1>6, <1>7, <1>8 DEF WorkerCall

LEMMA WorkerInv ==
  ASSUME IInv, AsyncInv, NEW i \in DOMAIN worker, WorkerStep(i)
  PROVE  AsyncInv'
<1>1. /\ worker \in [DOMAIN worker -> Worker] /\ worker[i] \in Worker
      /\ objects \in [DOMAIN objects -> Object]
  BY DEF AsyncInv, AsyncTypeOK
<1>2. worker[i].handles \in SUBSET Handle
  BY <1>1 DEF Worker
<1>3. ASSUME NEW at \in {"call", "return", "exited"}, worker' = [worker EXCEPT ![i].at = at]
      PROVE  /\ worker' \in [DOMAIN worker -> Worker]
             /\ \A j \in DOMAIN worker \ {i} : worker'[j] = worker[j]
  BY <1>1, <1>3 DEF Worker
<1>4. worker[i].at # "exited" => i \in DOMAIN objects /\ objects[i] \in Object
  BY <1>1 DEF AsyncInv, WorkersInv
<1>5. CASE WorkerBegin(i)
  <2>1. DOMAIN objects' = DOMAIN objects /\ objects' \in [DOMAIN objects -> Object]
    BY <1>1, <1>4, <1>5 DEF WorkerBegin, Object
  <2> QED
    BY <1>2, <1>3, <1>5, <2>1, WorkerMoves DEF WorkerBegin, managerVars
<1>6. CASE WorkerCall(i)
  BY <1>6, WorkerCallInv
<1>7. CASE WorkerSucceed(i)
  <2>1. PICK handle \in worker[i].handles :
               \E id \in IF handle \in heap THEN {handle.id} ELSE {handle.id, Garbage} :
                 objects' = [objects EXCEPT ![i].state = "succeeded", ![i].value = id]
    BY <1>7 DEF WorkerSucceed
  <2>2. handle.id \in Nat /\ Garbage \in Nat
    BY <1>2 DEF Handle, Garbage
  <2>3. PICK id \in Nat : objects' = [objects EXCEPT ![i] =
                            [objects[i] EXCEPT !.state = "succeeded", !.value = id]]
    <3>1. PICK id \in (IF handle \in heap THEN {handle.id} ELSE {handle.id, Garbage}) :
                 objects' = [objects EXCEPT ![i].state = "succeeded", ![i].value = id]
      BY <2>1
    <3>2. id \in Nat
      BY <2>2
    <3> QED
      BY <1>1, <1>4, <3>1, <3>2
  <2>4. [objects[i] EXCEPT !.state = "succeeded", !.value = id] \in Object
    BY <1>4, <1>7 DEF WorkerSucceed, Object, Final
  <2>5. DOMAIN objects' = DOMAIN objects /\ objects' \in [DOMAIN objects -> Object]
    BY <1>1, <2>3, <2>4
  <2> QED
    BY <1>2, <1>3, <1>7, <2>5, WorkerMoves DEF WorkerSucceed, managerVars
<1>8. CASE WorkerFail(i)
  <2>1. PICK m \in BOOLEAN : objects' = [objects EXCEPT ![i] =
                               [objects[i] EXCEPT !.state = "failed", !.has_message = m]]
    BY <1>1, <1>4, <1>8 DEF WorkerFail
  <2>2. [objects[i] EXCEPT !.state = "failed", !.has_message = m] \in Object
    BY <1>4, <1>8 DEF WorkerFail, Object, Final
  <2>3. DOMAIN objects' = DOMAIN objects /\ objects' \in [DOMAIN objects -> Object]
    BY <1>1, <2>1, <2>2
  <2> QED
    BY <1>2, <1>3, <1>8, <2>3, WorkerMoves DEF WorkerFail, managerVars
<1>9. CASE WorkerExit(i)
  BY <1>1, <1>2, <1>3, <1>9, WorkerMoves DEF WorkerExit, managerVars
<1> QED
  BY <1>5, <1>6, <1>7, <1>8, <1>9 DEF WorkerStep

LEMMA SynchronousInv ==
  ASSUME AsyncInv, Synchronous \/ UNCHANGED allVars
  PROVE  AsyncInv'
<1>1. UNCHANGED asyncVars
  BY DEF Synchronous, allVars
<1>2. AsyncTypeOK' /\ ClientsInv' /\ ObjectsInv' /\ WorkersInv'
  BY <1>1 DEF AsyncInv, AsyncTypeOK, ClientsInv, Busy, ObjectsInv, WorkersInv, asyncVars
<1>3. teardown = "done" => stage' = "gone"
  <2>1. stage = "gone" => ~Drain
    BY DEF Drain, CloseCursorsForConnection, CloseResultSetsForConnection, CloseConnection,
           DeinitCursors, DeinitResultSets, DeinitConnections, Advance
  <2> QED
    BY <2>1 DEF AsyncInv, TeardownInv, Synchronous, allVars, managerVars
<1>4. TeardownInv'
  BY <1>1, <1>3 DEF AsyncInv, TeardownInv, asyncVars
<1> QED
  BY <1>2, <1>4 DEF AsyncInv

LEMMA DeinitInv ==
  ASSUME AsyncInv, DeinitBegins \/ DeinitJoins \/ DeinitOperations
  PROVE  AsyncInv'
<1> USE DEF AsyncInv
<1>1. CASE DeinitBegins
  BY <1>1 DEF DeinitBegins, AsyncTypeOK, ClientsInv, Busy, ObjectsInv, WorkersInv, TeardownInv
<1>2. CASE DeinitJoins
  <2>1. AsyncTypeOK' /\ ClientsInv' /\ ObjectsInv' /\ WorkersInv'
    BY <1>2 DEF DeinitJoins, AsyncTypeOK, ClientsInv, Busy, ObjectsInv, WorkersInv
  <2>2. TeardownInv'
    BY <1>2 DEF DeinitJoins, TeardownInv
  <2> QED
    BY <2>1, <2>2
<1>3. CASE DeinitOperations
  <2>1. /\ \A t \in Client : client[t] = Idle
        /\ DOMAIN objects = operations
    BY <1>3 DEF DeinitOperations, TeardownInv, ObjectsInv, Idle
  <2>2. DOMAIN objects' = {} /\ operations' = {}
    BY <1>3, <2>1 DEF DeinitOperations
  <2>3. objects' \in [DOMAIN objects' -> Object]
    BY <1>3, <2>1 DEF DeinitOperations
  <2>4. AsyncTypeOK'
    <3>1. last_error_message' \in 0..(next_operation_id - 1)
      BY <1>3, OperationBoundAssumption DEF DeinitOperations, NoMessage, AsyncTypeOK
    <3> QED
      BY <1>3, <2>2, <2>3, <3>1 DEF DeinitOperations, AsyncTypeOK
  <2>5. ClientsInv' /\ ObjectsInv' /\ TeardownInv'
    BY <1>3, <2>1, <2>2
    DEF DeinitOperations, ClientsInv, Busy, ObjectsInv, TeardownInv, Idle, managerVars
  <2>6. WorkersInv'
    BY <1>3, <2>1, <2>2 DEF DeinitOperations, WorkersInv, TeardownInv
  <2> QED
    BY <2>4, <2>5, <2>6
<1> QED
  BY <1>1, <1>2, <1>3

LEMMA AsyncInitInv == AsyncInit => AsyncInv
<1> SUFFICES ASSUME AsyncInit PROVE AsyncInv
  OBVIOUS
<1>1. AsyncTypeOK
  BY OperationBoundAssumption
  DEF AsyncInit, AsyncTypeOK, Idle, NoResult, ClientState, NoMessage
<1>2. ClientsInv /\ ObjectsInv /\ WorkersInv /\ TeardownInv
  BY DEF AsyncInit, ClientsInv, ObjectsInv, WorkersInv, TeardownInv, Busy, Idle
<1> QED
  BY <1>1, <1>2 DEF AsyncInv

LEMMA AsyncNextInv == IInv /\ AsyncInv /\ [AsyncNext]_allVars => AsyncInv'
<1> SUFFICES ASSUME IInv, AsyncInv, [AsyncNext]_allVars PROVE AsyncInv'
  OBVIOUS
<1>1. CASE Synchronous \/ UNCHANGED allVars
  BY <1>1, SynchronousInv
<1>2. ASSUME NEW t \in Client, OpenAsync(t) \/ ExecuteAsync(t) \/ OpenCursorAsync(t)
      PROVE  AsyncInv'
  BY <1>2, CreateInv DEF OpenAsync, ExecuteAsync, OpenCursorAsync
<1>3. ASSUME NEW t \in Client, AwaitStep(t) PROVE AsyncInv'
  BY <1>3, WaitInv, JoinThreadInv, RemoveInv, ReturnInv DEF AwaitStep
<1>4. ASSUME NEW i \in OperationId, WorkerStep(i) PROVE AsyncInv'
  BY <1>4, WorkerInv DEF WorkerStep
<1> QED
  BY <1>1, <1>2, <1>3, <1>4, StartOperationInv, DestroyOperationInv, AwaitOperationInv,
     DeinitInv
  DEF AsyncNext

THEOREM AsyncInductiveInvariant == AsyncSpec => []AsyncInv
BY AsyncInitInv, AsyncNextInv, TablesUnderOperations, PTL DEF AsyncSpec

-----------------------------------------------------------------------------
(* What the invariant gives *)

\* The operations, their threads and the clients keep their types.
THEOREM AsyncTypeCorrect == AsyncSpec => []AsyncTypeOK
<1>1. AsyncInv => AsyncTypeOK
  BY DEF AsyncInv
<1> QED
  BY AsyncInductiveInvariant, <1>1, PTL

\* Every operation alive has one owner: the map, or the client about to destroy it.
THEOREM OperationsHaveOneOwner == AsyncSpec => []OperationsOwned
<1>1. AsyncInv => OperationsOwned
  <2> SUFFICES ASSUME AsyncInv PROVE OperationsOwned
    OBVIOUS
  <2>1. \A t, u \in Client :
          t # u /\ client[t] # Idle => client[t].operation # client[u].operation
    <3> SUFFICES ASSUME NEW t \in Client, NEW u \in Client, t # u, client[t] # Idle
                 PROVE  client[t].operation # client[u].operation
      OBVIOUS
    <3>1. Busy(t) /\ client[t].operation \in DOMAIN objects /\ client[t].operation # 0
      BY DEF AsyncInv, ClientsInv, AsyncTypeOK
    <3> QED
      BY <3>1 DEF AsyncInv, ClientsInv, Busy, Idle
  <2> QED
    BY <2>1 DEF AsyncInv, ObjectsInv, OperationsOwned
<1> QED
  BY AsyncInductiveInvariant, <1>1, PTL

\* No operation's thread and no client inside create or await touches a destroyed
\* operation: the join in awaitOperation and in deinit is enough, for any number of
\* clients and operations.
THEOREM NoOperationUsedAfterFree == AsyncSpec => []ThreadsTouchLiveObjects
<1>1. AsyncInv => ThreadsTouchLiveObjects
  BY DEF AsyncInv, ClientsInv, WorkersInv, Busy, Idle, ThreadsTouchLiveObjects
<1> QED
  BY AsyncInductiveInvariant, <1>1, PTL

\* Whatever was in flight when deinit began, it leaves no operation, no thread and no
\* handle a table held.
THEOREM DeinitLeavesNothing == AsyncSpec => []NothingLeftBehind
<1>1. IInv /\ AsyncInv => NothingLeftBehind
  <2> SUFFICES ASSUME IInv, AsyncInv, teardown = "done"
               PROVE  /\ DOMAIN objects = {}
                      /\ heap = orphans
                      /\ \A i \in DOMAIN worker : worker[i].at = "exited"
    BY DEF NothingLeftBehind
  <2>0. stage = "gone" /\ operations = {} /\ \A t \in Client : client[t] = Idle
    BY DEF AsyncInv, TeardownInv
  <2>1. DOMAIN objects = {}
    <3>1. \A t \in Client : client[t].at # "returning"
      BY <2>0 DEF Idle
    <3>2. ObjectsInv
      BY DEF AsyncInv
    <3>3. ASSUME NEW i \in DOMAIN objects PROVE FALSE
      BY <2>0, <3>1, <3>2 DEF ObjectsInv
    <3> QED
      BY <3>3
  <2>2. heap = orphans
    <3>1. DOMAIN connections = {} /\ DOMAIN result_sets = {} /\ DOMAIN cursors = {}
      BY <2>0 DEF IInv, StageInv
    <3> QED
      BY <3>1 DEF IInv, TablesInv, NothingLost, Stored, StoredIn
  <2> QED
    BY <2>1, <2>2 DEF AsyncInv, WorkersInv
<1> QED
  BY AsyncInductiveInvariant, TablesUnderOperations, <1>1, PTL

-----------------------------------------------------------------------------
(* The id an operation delivers *)

\* The id of a handle has been issued by the counter of its table.
Issued(h) ==
  /\ h.table = "connection" => h.id < next_connection_id
  /\ h.table = "result_set" => h.id < next_result_set_id
  /\ h.table = "cursor" => h.id < next_cursor_id

\* A thread holds one handle at most, whose id has been issued, and an operation succeeds
\* only at the hands of its thread, with the id of that handle.
OwnHandleInv ==
  /\ \A i \in DOMAIN worker :
       /\ \A h \in worker[i].handles : Issued(h)
       /\ \A g, h \in worker[i].handles : g = h
  /\ \A i \in DOMAIN objects : objects[i].state = "succeeded" =>
       /\ i \in DOMAIN worker
       /\ worker[i].at \in {"return", "exited"}
       /\ \A h \in worker[i].handles : objects[i].value = h.id \/ h \notin heap

\* A step of the manager issues ids upwards, and every handle it allocates has a new one.
LEMMA NextIssues ==
  ASSUME TypeOK, [Next]_managerVars
  PROVE  /\ next_connection_id' \in Nat /\ next_connection_id' >= next_connection_id
         /\ next_result_set_id' \in Nat /\ next_result_set_id' >= next_result_set_id
         /\ next_cursor_id' \in Nat /\ next_cursor_id' >= next_cursor_id
         /\ \A h \in heap' \ heap : ~Issued(h)
<1>0. next_connection_id \in Nat /\ next_result_set_id \in Nat /\ next_cursor_id \in Nat
  BY BoundAssumption DEF TypeOK
<1>1. CASE UNCHANGED counters /\ heap' \subseteq heap
  BY <1>0, <1>1 DEF counters
<1>2. CASE \E kind \in Kind, outcome \in Outcome : Open(kind, outcome)
  BY <1>0, <1>2 DEF Open, Allocate, NewHandle, Issued
<1>3. CASE \E c \in CallerId, outcome \in Outcome : NewResultSet(c, outcome)
  BY <1>0, <1>3 DEF NewResultSet, Allocate, NewHandle, Issued
<1>4. CASE \E c \in CallerId, outcome \in Outcome, n \in 0..MaxRows : OpenCursor(c, outcome, n)
  BY <1>0, <1>4 DEF OpenCursor, Allocate, NewHandle, Issued
<1>5. CASE \/ \E i \in DOMAIN cursors : DropCursor(i)
           \/ \E i \in DOMAIN result_sets : DropResultSet(i)
           \/ \E i \in DOMAIN connections : DropConnection(i)
  BY <1>1, <1>5 DEF DropCursor, DropResultSet, DropConnection, Free
<1>6. CASE UNCHANGED <<counters, ledger>>
  BY <1>1, <1>6 DEF ledger
<1>7. CASE \/ \E spec \in Driver : RegisterDriver(spec)
           \/ \E i \in 0..MaxCursors : FetchNext(i)
           \/ \E c \in CallerId : Close(c)
           \/ Deinit
  BY <1>6, <1>7 DEF RegisterDriver, FetchNext, Close, Deinit, Advance
<1>8. CASE Drain
  BY <1>5, <1>6, <1>8
  DEF Drain, CloseCursorsForConnection, CloseResultSetsForConnection, CloseConnection,
      DeinitCursors, DeinitResultSets, DeinitConnections, CursorsOf, ResultSetsOf, Advance
<1> QED
  BY <1>2, <1>3, <1>4, <1>5, <1>6, <1>7, <1>8
  DEF Next, Call, Execute, GetTables, GetCatalogs, GetDatabases, CloseCursor, CloseResultSet,
      managerVars

\* So what is freed stays freed, and what was issued stays issued.
LEMMA IssuedStays ==
  ASSUME TypeOK, [Next]_managerVars, NEW h \in Handle, Issued(h)
  PROVE  Issued(h)' /\ (h \notin heap => h \notin heap')
<1>1. next_connection_id \in Nat /\ next_result_set_id \in Nat /\ next_cursor_id \in Nat
  BY BoundAssumption DEF TypeOK
<1> QED
  BY <1>1, NextIssues DEF Issued, Handle

\* Steps that leave the threads alone, and objects but for new ones and old ones that go.
LEMMA OwnHandleKept ==
  ASSUME TypeOK, AsyncInv, OwnHandleInv, [Next]_managerVars, UNCHANGED worker,
         \A i \in DOMAIN objects' :
           objects'[i].state = "succeeded" => i \in DOMAIN objects /\ objects'[i] = objects[i]
  PROVE  OwnHandleInv'
<1>1. \A i \in DOMAIN worker : worker[i].handles \subseteq Handle
  BY DEF AsyncInv, AsyncTypeOK, Worker
<1>2. \A i \in DOMAIN worker : \A h \in worker[i].handles :
        Issued(h)' /\ (h \notin heap => h \notin heap')
  BY <1>1, IssuedStays DEF OwnHandleInv
<1> QED
  BY <1>2 DEF OwnHandleInv

LEMMA ClientsOwnHandle ==
  ASSUME TypeOK, AsyncInv, OwnHandleInv, NEW t \in Client,
         \/ \E payload \in Request : Create(t, payload)
         \/ StartOperation(t) \/ DestroyOperation(t)
         \/ \E i \in OperationId : AwaitOperation(t, i)
         \/ AwaitStep(t)
  PROVE  OwnHandleInv'
<1>1. CASE \E payload \in Request : Create(t, payload)
  <2>1. PICK payload \in Request : Create(t, payload)
    BY <1>1
  <2>2. \A i \in DOMAIN objects' :
          objects'[i].state = "succeeded" => i \in DOMAIN objects /\ objects'[i] = objects[i]
    BY <2>1 DEF Create, Put
  <2> QED
    BY <2>1, <2>2, OwnHandleKept DEF Create
<1>2. CASE StartOperation(t)
  <2> DEFINE id == client[t].operation
  <2>1. id \notin DOMAIN worker
    BY <1>2 DEF StartOperation, AsyncInv, ClientsInv
  <2>2. /\ DOMAIN worker' = DOMAIN worker \cup {id}
        /\ worker'[id].handles = {}
        /\ \A i \in DOMAIN worker : worker'[i] = worker[i]
        /\ UNCHANGED <<objects, heap, next_connection_id, next_result_set_id, next_cursor_id>>
    BY <1>2, <2>1 DEF StartOperation, Put, managerVars, counters, ledger
  <2> QED
    BY <2>1, <2>2 DEF OwnHandleInv, Issued
<1>3. CASE DestroyOperation(t)
  BY <1>3, OwnHandleKept DEF DestroyOperation, Without
<1>4. CASE \E i \in OperationId : AwaitOperation(t, i)
  BY <1>4, OwnHandleKept DEF AwaitOperation
<1>5. CASE Wait(t) \/ JoinThread(t) \/ Remove(t)
  BY <1>5, OwnHandleKept DEF Wait, JoinThread, Remove
<1>6. CASE Return(t)
  BY <1>6, OwnHandleKept DEF Return, Without
<1> QED
  BY <1>1, <1>2, <1>3, <1>4, <1>5, <1>6 DEF AwaitStep

LEMMA WorkerCallOwnHandle ==
  ASSUME IInv, AsyncInv, OwnHandleInv, NEW i \in DOMAIN worker, WorkerCall(i), IInv'
  PROVE  OwnHandleInv'
<1>1. /\ TypeOK /\ [Next]_managerVars
      /\ worker \in [DOMAIN worker -> Worker]
      /\ worker[i].at = "call" /\ UNCHANGED objects
  BY WorkerCallIsCall DEF IInv, TablesInv, AsyncInv, AsyncTypeOK, WorkerCall
<1>2. \A j \in DOMAIN worker : \A h \in worker[j].handles :
        Issued(h)' /\ (h \notin heap => h \notin heap')
  BY <1>1, IssuedStays DEF OwnHandleInv, Worker
<1>3. i \in DOMAIN objects => objects[i].state # "succeeded"
  BY <1>1 DEF OwnHandleInv
<1>4. ASSUME DOMAIN worker' = DOMAIN worker,
             \A j \in DOMAIN worker \ {i} : worker'[j] = worker[j],
             \A h \in worker'[i].handles : Issued(h)',
             \A g, h \in worker'[i].handles : g = h
      PROVE  OwnHandleInv'
  BY <1>1, <1>2, <1>3, <1>4 DEF OwnHandleInv
<1>5. ASSUME NEW outcome \in Outcome, NEW h, outcome = "stored" => Issued(h)',
             Got(i, outcome, h)
      PROVE  OwnHandleInv'
  <2>1. /\ DOMAIN worker' = DOMAIN worker
        /\ \A j \in DOMAIN worker \ {i} : worker'[j] = worker[j]
        /\ outcome = "stored" => worker'[i].handles = {h}
        /\ outcome # "stored" => worker'[i].handles = {}
    BY <1>1, <1>5 DEF Got
  <2>2. /\ \A g \in worker'[i].handles : Issued(g)'
        /\ \A f, g \in worker'[i].handles : f = g
    BY <1>5, <2>1
  <2> QED
    BY <1>4, <2>1, <2>2
<1>6. \A h \in heap' : Issued(h)'
  BY DEF IInv, TablesInv, HeapIdsIssued, Issued
<1>7. ASSUME NEW outcome \in Outcome, WorkerOpen(i, outcome) PROVE OwnHandleInv'
  BY <1>5, <1>6, <1>7 DEF WorkerOpen, Open, Allocate
<1>8. ASSUME NEW outcome \in Outcome, WorkerExecute(i, outcome) PROVE OwnHandleInv'
  BY <1>5, <1>6, <1>8 DEF WorkerExecute, Execute, NewResultSet, Allocate
<1>9. ASSUME NEW outcome \in Outcome, WorkerOpenCursor(i, outcome) PROVE OwnHandleInv'
  BY <1>5, <1>6, <1>9 DEF WorkerOpenCursor, OpenCursor, Allocate
<1>10. ASSUME worker' = [worker EXCEPT ![i].at = "fail"] PROVE OwnHandleInv'
  <2>1. /\ DOMAIN worker' = DOMAIN worker
        /\ \A j \in DOMAIN worker : worker'[j].handles = worker[j].handles
        /\ \A j \in DOMAIN worker \ {i} : worker'[j] = worker[j]
    BY <1>1, <1>10 DEF Worker
  <2> QED
    BY <1>1, <1>2, <1>3, <2>1 DEF OwnHandleInv
<1> QED
  BY <1>7, <1>8, <1>9, <1>10 DEF WorkerCall

LEMMA WorkerOwnHandle ==
  ASSUME IInv, AsyncInv, OwnHandleInv, NEW i \in DOMAIN worker, WorkerStep(i), IInv'
  PROVE  OwnHandleInv'
<1>1. /\ worker \in [DOMAIN worker -> Worker] /\ objects \in [DOMAIN objects -> Object]
      /\ worker[i].at # "exited" => i \in DOMAIN objects
  BY DEF AsyncInv, AsyncTypeOK, WorkersInv
<1>2. CASE WorkerCall(i)
  BY <1>2, WorkerCallOwnHandle
<1>3. ASSUME DOMAIN worker' = DOMAIN worker,
             \A j \in DOMAIN worker \ {i} : worker'[j] = worker[j],
             worker'[i].handles = worker[i].handles,
             UNCHANGED managerVars,
             DOMAIN objects' = DOMAIN objects,
             \A j \in DOMAIN objects \ {i} : objects'[j] = objects[j],
             i \in DOMAIN objects /\ objects'[i].state = "succeeded" =>
               /\ worker'[i].at \in {"return", "exited"}
               /\ \A h \in worker[i].handles : objects'[i].value = h.id \/ h \notin heap
      PROVE  OwnHandleInv'
  <2>1. heap' = heap /\ \A h : Issued(h)' <=> Issued(h)
    BY <1>3 DEF managerVars, counters, ledger, Issued
  <2> QED
    BY <1>3, <2>1 DEF OwnHandleInv
<1>4. CASE WorkerBegin(i)
  <2>1. /\ DOMAIN objects' = DOMAIN objects
        /\ \A j \in DOMAIN objects \ {i} : objects'[j] = objects[j]
        /\ i \in DOMAIN objects => objects'[i].state # "succeeded"
    BY <1>1, <1>4 DEF WorkerBegin, Object
  <2>2. /\ DOMAIN worker' = DOMAIN worker
        /\ \A j \in DOMAIN worker \ {i} : worker'[j] = worker[j]
        /\ worker'[i].handles = worker[i].handles /\ UNCHANGED managerVars
    BY <1>1, <1>4 DEF WorkerBegin, Worker
  <2> QED
    BY <1>3, <2>1, <2>2
<1>5. CASE WorkerSucceed(i)
  <2>1. PICK handle \in worker[i].handles :
               \E id \in IF handle \in heap THEN {handle.id} ELSE {handle.id, Garbage} :
                 objects' = [objects EXCEPT ![i].state = "succeeded", ![i].value = id]
    BY <1>5 DEF WorkerSucceed
  <2>2. PICK id : /\ id = handle.id \/ handle \notin heap
                  /\ objects' = [objects EXCEPT ![i].state = "succeeded", ![i].value = id]
    BY <2>1
  <2>3. /\ DOMAIN objects' = DOMAIN objects /\ objects'[i].value = id
        /\ \A j \in DOMAIN objects \ {i} : objects'[j] = objects[j]
    BY <1>1, <1>5, <2>2 DEF WorkerSucceed, Object
  <2>4. \A h \in worker[i].handles : h = handle
    BY DEF OwnHandleInv
  <2>5. /\ DOMAIN worker' = DOMAIN worker
        /\ \A j \in DOMAIN worker \ {i} : worker'[j] = worker[j]
        /\ worker'[i].handles = worker[i].handles /\ worker'[i].at = "return"
        /\ UNCHANGED managerVars
    BY <1>1, <1>5 DEF WorkerSucceed, Worker
  <2> QED
    BY <1>3, <2>2, <2>3, <2>4, <2>5
<1>6. CASE WorkerFail(i)
  <2>1. /\ DOMAIN objects' = DOMAIN objects
        /\ \A j \in DOMAIN objects \ {i} : objects'[j] = objects[j]
        /\ i \in DOMAIN objects => objects'[i].state # "succeeded"
    BY <1>1, <1>6 DEF WorkerFail, Object
  <2>2. /\ DOMAIN worker' = DOMAIN worker
        /\ \A j \in DOMAIN worker \ {i} : worker'[j] = worker[j]
        /\ worker'[i].handles = worker[i].handles /\ UNCHANGED managerVars
    BY <1>1, <1>6 DEF WorkerFail, Worker
  <2> QED
    BY <1>3, <2>1, <2>2
<1>7. CASE WorkerExit(i)
  <2>1. /\ DOMAIN worker' = DOMAIN worker /\ UNCHANGED <<objects, managerVars>>
        /\ \A j \in DOMAIN worker \ {i} : worker'[j] = worker[j]
        /\ worker'[i].handles = worker[i].handles /\ worker'[i].at = "exited"
    BY <1>1, <1>7 DEF WorkerExit, Worker
  <2> QED
    BY <1>3, <2>1 DEF OwnHandleInv
<1> QED
  BY <1>2, <1>4, <1>5, <1>6, <1>7 DEF WorkerStep

LEMMA NextOwnHandle ==
  IInv /\ AsyncInv /\ OwnHandleInv /\ [AsyncNext]_allVars => OwnHandleInv'
<1> SUFFICES ASSUME IInv, AsyncInv, OwnHandleInv, [AsyncNext]_allVars PROVE OwnHandleInv'
  OBVIOUS
<1>1. TypeOK /\ IInv' /\ [Next]_managerVars
  BY AsyncKeepsIInv, AsyncStepIsStep DEF IInv, TablesInv
<1>2. CASE Synchronous \/ UNCHANGED allVars
  BY <1>1, <1>2, OwnHandleKept DEF Synchronous, asyncVars, allVars
<1>3. ASSUME NEW t \in Client, OpenAsync(t) \/ ExecuteAsync(t) \/ OpenCursorAsync(t)
      PROVE  OwnHandleInv'
  BY <1>1, <1>3, ClientsOwnHandle DEF OpenAsync, ExecuteAsync, OpenCursorAsync
<1>4. ASSUME NEW i \in OperationId, WorkerStep(i) PROVE OwnHandleInv'
  BY <1>1, <1>4, WorkerOwnHandle DEF WorkerStep
<1>5. CASE DeinitBegins \/ DeinitJoins \/ DeinitOperations
  <2>1. \A i \in DOMAIN objects' :
          objects'[i].state = "succeeded" => i \in DOMAIN objects /\ objects'[i] = objects[i]
    BY <1>5 DEF DeinitBegins, DeinitJoins, DeinitOperations
  <2> QED
    BY <1>1, <1>5, <2>1, OwnHandleKept DEF DeinitBegins, DeinitJoins, DeinitOperations
<1> QED
  BY <1>1, <1>2, <1>3, <1>4, <1>5, ClientsOwnHandle DEF AsyncNext

\* The id is read through a pointer after the lock is gone, and still it is the id of the
\* call's own handle unless that has been closed: ids are issued once, so no handle another
\* thread opens meanwhile can be taken for it.
THEOREM OperationsReturnTheirOwn == AsyncSpec => []SucceedsWithOwnHandle
<1>1. AsyncInit => OwnHandleInv
  BY DEF AsyncInit, OwnHandleInv
<1>2. OwnHandleInv => SucceedsWithOwnHandle
  BY DEF OwnHandleInv, SucceedsWithOwnHandle
<1> QED
  BY <1>1, <1>2, NextOwnHandle, AsyncInductiveInvariant, TablesUnderOperations, PTL
  DEF AsyncSpec

-----------------------------------------------------------------------------
(* Operations are futures *)

Value == 0..(MaxConnections + MaxResultSets + MaxCursors)

CopyOf(object) == [state |-> object.state, value |-> object.value]

\* How far its thread has come says what an operation's state is, the client past the wait
\* has a copy of what the operation settled to, and an operation alive has not been returned.
FuturesInv ==
  /\ \A i \in DOMAIN objects :
       /\ i \notin DOMAIN returned
       /\ objects[i].value \in Value
       /\ i \notin DOMAIN worker => objects[i].state = "pending"
       /\ i \in DOMAIN worker =>
            /\ worker[i].at = "begin" => objects[i].state = "pending"
            /\ worker[i].at \in {"call", "succeed", "fail"} => objects[i].state = "running"
  /\ \A t \in Client : client[t].at \in {"joining", "removing", "returning"} =>
       /\ objects[client[t].operation].state \in Final
       /\ client[t].result = CopyOf(objects[client[t].operation])

futures == [i \in OperationId |-> FutureOf(i)]

\* A step that changes one future.
LEMMA FutureMoves ==
  ASSUME NEW j \in OperationId, NEW f, FutureOf(j)' = f,
         \A i \in OperationId \ {j} : FutureOf(i)' = FutureOf(i)
  PROVE  futures' = [futures EXCEPT ![j] = f]
<1>1. futures' = [i \in OperationId |-> FutureOf(i)']
  BY DEF futures
<1> QED
  BY <1>1 DEF futures

\* A step that leaves objects alone, or moves some that are not final to where they are
\* not final yet.
LEMMA FuturesStand ==
  ASSUME UNCHANGED <<next_operation_id, returned>>, DOMAIN objects' = DOMAIN objects,
         \A i \in DOMAIN objects :
           \/ objects'[i] = objects[i]
           \/ objects[i].state \notin Final /\ objects'[i].state \notin Final
  PROVE  futures' = futures
<1>1. ASSUME NEW i \in OperationId PROVE FutureOf(i)' = FutureOf(i)
  BY DEF FutureOf
<1>2. futures' = [i \in OperationId |-> FutureOf(i)']
  BY DEF futures
<1> QED
  BY <1>1, <1>2 DEF futures

LEMMA IssuedIsValue ==
  ASSUME TypeOK, NEW h \in Handle, Issued(h)
  PROVE  h.id \in Value /\ Garbage \in Value
BY BoundAssumption DEF TypeOK, Handle, Issued, Value, Garbage

\* Steps that change neither the states nor the results of operations, nor end a thread's
\* or a client's stay where the invariant looks.
LEMMA FuturesKept ==
  ASSUME FuturesInv, UNCHANGED <<objects, returned, next_operation_id>>,
         DOMAIN worker' = DOMAIN worker,
         \A i \in DOMAIN worker :
           \/ worker'[i].at = worker[i].at
           \/ worker[i].at = "call" /\ worker'[i].at \in {"succeed", "fail"}
           \/ worker'[i].at = "exited",
         \A t \in Client :
           \/ /\ client'[t].at \in {"joining", "removing", "returning"} =>
                   client[t].at \in {"joining", "removing", "returning"}
              /\ client'[t].operation = client[t].operation
              /\ client'[t].result = client[t].result
           \/ client'[t].at \notin {"joining", "removing", "returning"}
  PROVE  FuturesInv' /\ futures' = futures
<1>1. FuturesInv'
  BY DEF FuturesInv
<1> QED
  BY <1>1, FuturesStand

LEMMA CreateFutures ==
  ASSUME AsyncInv, FuturesInv, NEW t \in Client, NEW payload \in Request, Create(t, payload)
  PROVE  FuturesInv' /\ Futures!Next
<1>1. PICK id \in OperationId : id = next_operation_id
  BY OperationBoundAssumption DEF Create, AsyncInv, AsyncTypeOK, OperationId
<1>2. /\ id \in Nat /\ next_operation_id' = id + 1
      /\ id \notin DOMAIN objects /\ id \notin DOMAIN worker /\ id \notin DOMAIN returned
      /\ UNCHANGED <<worker, returned>>
      /\ \A u \in Client : client[u].operation # id
  BY <1>1, OperationBoundAssumption
  DEF Create, AsyncInv, AsyncTypeOK, ClientsInv, Idle, Busy, OperationId
<1>3. futures[id] = Futures!Unused
  BY <1>1, <1>2 DEF futures, FutureOf, Futures!Unused
<1>4. CASE UNCHANGED <<operations, objects, client>>
  <2>1. FuturesInv'
    BY <1>2, <1>4 DEF FuturesInv
  <2>2. FutureOf(id)' = Futures!Abandoned
    BY <1>2, <1>4 DEF FutureOf, Futures!Abandoned
  <2>3. \A i \in OperationId \ {id} : FutureOf(i)' = FutureOf(i)
    BY <1>1, <1>2, <1>4 DEF FutureOf, OperationId
  <2>4. futures' = [futures EXCEPT ![id] = Futures!Abandoned]
    BY <2>2, <2>3, FutureMoves
  <2>5. futures' = [i \in OperationId |->
                      IF i \in {id} THEN Futures!Abandoned ELSE futures[i]]
    BY <2>4 DEF futures
  <2>6. \A i \in {id} : futures[i].status # "delivered"
    BY <1>3 DEF Futures!Unused
  <2>7. Futures!Abandon({id})
    BY <2>5, <2>6 DEF Futures!Abandon, futures
  <2> QED
    BY <2>1, <2>7 DEF Futures!Next
<1>5. CASE /\ objects' = Put(objects, id, [payload |-> payload, state |-> "pending", value |-> 0,
                                           has_message |-> FALSE])
           /\ client' = [client EXCEPT ![t].at = "starting", ![t].operation = id]
  <2>1. /\ DOMAIN objects' = DOMAIN objects \cup {id}
        /\ objects'[id].state = "pending" /\ objects'[id].value = 0
        /\ \A i \in DOMAIN objects : objects'[i] = objects[i]
    BY <1>2, <1>5 DEF Put
  <2>2. client'[t].at = "starting" /\ \A u \in Client \ {t} : client'[u] = client[u]
    BY <1>5 DEF AsyncInv, AsyncTypeOK, ClientState
  <2>3. FuturesInv'
    <3>1. 0 \in Value
      BY BoundAssumption DEF Value
    <3>2. \A u \in Client : client[u].at \in {"joining", "removing", "returning"} =>
            client[u].operation \in DOMAIN objects
      BY DEF AsyncInv, ClientsInv, Busy
    <3> QED
      BY <1>2, <2>1, <2>2, <3>1, <3>2 DEF FuturesInv
  <2>4. FutureOf(id)' = Futures!Pending
    BY <1>2, <2>1 DEF FutureOf, Futures!Pending, Final
  <2>5. \A i \in OperationId \ {id} : FutureOf(i)' = FutureOf(i)
    <3>1. ASSUME NEW i \in OperationId \ {id} PROVE FutureOf(i)' = FutureOf(i)
      <4>1. i \in Nat /\ (i >= next_operation_id <=> i >= next_operation_id')
        BY <1>1, <1>2 DEF OperationId
      <4>2. (i \in DOMAIN objects <=> i \in DOMAIN objects') /\ returned' = returned
        BY <1>2, <2>1
      <4> QED
        BY <2>1, <4>1, <4>2 DEF FutureOf
    <3> QED
      BY <3>1
  <2>6. futures' = [futures EXCEPT ![id] = Futures!Pending]
    BY <2>4, <2>5, FutureMoves
  <2>7. Futures!Start(id)
    BY <1>3, <2>6 DEF Futures!Start, futures
  <2> QED
    BY <2>3, <2>7 DEF Futures!Next
<1> QED
  BY <1>1, <1>4, <1>5 DEF Create

LEMMA StartOperationFutures ==
  ASSUME AsyncInv, FuturesInv, NEW t \in Client, StartOperation(t)
  PROVE  FuturesInv' /\ futures' = futures
<1> DEFINE id == client[t].operation
<1>1. /\ id \notin DOMAIN worker
      /\ DOMAIN worker' = DOMAIN worker \cup {id} /\ worker'[id].at = "begin"
      /\ \A i \in DOMAIN worker : worker'[i] = worker[i]
      /\ client'[t] = Idle /\ \A u \in Client \ {t} : client'[u] = client[u]
      /\ UNCHANGED <<objects, returned, next_operation_id>>
  BY DEF StartOperation, Put, AsyncInv, AsyncTypeOK, ClientsInv
<1>2. FuturesInv'
  BY <1>1 DEF FuturesInv, Idle
<1> QED
  BY <1>1, <1>2, FuturesStand

LEMMA DestroyOperationFutures ==
  ASSUME AsyncInv, FuturesInv, NEW t \in Client, DestroyOperation(t)
  PROVE  FuturesInv' /\ Futures!Next
<1>1. PICK id \in OperationId : id = client[t].operation
  BY DEF DestroyOperation, AsyncInv, AsyncTypeOK, ClientsInv, ClientState, ObjectsInv,
         OperationId
<1>2. /\ id \in DOMAIN objects /\ id \notin DOMAIN returned
      /\ id \in Nat /\ next_operation_id \in Nat /\ id < next_operation_id
      /\ DOMAIN objects' = DOMAIN objects \ {id}
      /\ \A i \in DOMAIN objects' : objects'[i] = objects[i]
      /\ client'[t] = Idle /\ \A u \in Client \ {t} : client'[u] = client[u]
      /\ \A u \in Client \ {t} : Busy(u) => client[u].operation # id
      /\ UNCHANGED <<worker, returned, next_operation_id>>
  BY <1>1, OperationBoundAssumption
  DEF DestroyOperation, Without, AsyncInv, AsyncTypeOK, ClientsInv, Busy, FuturesInv,
      OperationId
<1>3. FuturesInv'
  <2>1. \A u \in Client : client[u].at \in {"joining", "removing", "returning"} =>
          client[u].operation \in DOMAIN objects
    BY DEF AsyncInv, ClientsInv, Busy
  <2> QED
    BY <1>2, <2>1 DEF FuturesInv, Idle, Busy
<1>4. FutureOf(id)' = Futures!Abandoned
  BY <1>2 DEF FutureOf, Futures!Abandoned, OperationId
<1>5. \A i \in OperationId \ {id} : FutureOf(i)' = FutureOf(i)
  BY <1>2 DEF FutureOf
<1>6. futures' = [i \in OperationId |-> IF i \in {id} THEN Futures!Abandoned ELSE futures[i]]
  BY <1>4, <1>5, FutureMoves DEF futures
<1>7. \A i \in {id} : futures[i].status # "delivered"
  BY <1>2 DEF futures, FutureOf
<1>8. Futures!Abandon({id})
  BY <1>6, <1>7 DEF Futures!Abandon, futures
<1> QED
  BY <1>3, <1>8 DEF Futures!Next

LEMMA WaitFutures ==
  ASSUME AsyncInv, FuturesInv, NEW t \in Client, Wait(t)
  PROVE  FuturesInv' /\ futures' = futures
<1> DEFINE object == objects[client[t].operation]
<1>1. /\ UNCHANGED <<objects, worker, returned, next_operation_id>>
      /\ object.state \in Final
      /\ client'[t].operation = client[t].operation
      /\ client'[t].result = CopyOf(object)
      /\ \A u \in Client \ {t} : client'[u] = client[u]
  BY DEF Wait, CopyOf, AsyncInv, AsyncTypeOK, ClientState
<1>2. FuturesInv'
  BY <1>1 DEF FuturesInv, CopyOf
<1> QED
  BY <1>1, <1>2, FuturesStand

LEMMA ReturnFutures ==
  ASSUME AsyncInv, FuturesInv, NEW t \in Client, Return(t)
  PROVE  FuturesInv' /\ Futures!Next
<1>1. PICK id : id = client[t].operation
  OBVIOUS
<1> DEFINE r == CopyOf(objects[id])
<1>2. /\ id \in DOMAIN objects /\ id \in OperationId /\ id \notin DOMAIN returned
      /\ id \in Nat /\ next_operation_id \in Nat /\ id < next_operation_id
      /\ objects[id].state \in Final /\ client[t].result = r /\ objects[id].value \in Value
      /\ \A u \in Client \ {t} : Busy(u) => client[u].operation # id
      /\ UNCHANGED <<worker, next_operation_id>>
  BY <1>1, OperationBoundAssumption
  DEF Return, AsyncInv, AsyncTypeOK, ClientsInv, Busy, FuturesInv, OperationId
<1>3. /\ DOMAIN objects' = DOMAIN objects \ {id}
      /\ \A i \in DOMAIN objects' : objects'[i] = objects[i]
      /\ client'[t] = Idle /\ \A u \in Client \ {t} : client'[u] = client[u]
      /\ DOMAIN returned' = DOMAIN returned \cup {id}
      /\ returned'[id] = r /\ \A i \in DOMAIN returned : returned'[i] = returned[i]
  BY <1>1, <1>2 DEF Return, Without, Put, AsyncInv, AsyncTypeOK
<1>4. FuturesInv'
  <2>1. \A u \in Client : client[u].at \in {"joining", "removing", "returning"} =>
          client[u].operation \in DOMAIN objects
    BY DEF AsyncInv, ClientsInv, Busy
  <2> QED
    BY <1>2, <1>3, <2>1 DEF FuturesInv, Idle, Busy
<1>5. FutureOf(id)' = [status |-> "delivered", results |-> {r}]
  BY <1>2, <1>3 DEF FutureOf
<1>6. \A i \in OperationId \ {id} : FutureOf(i)' = FutureOf(i)
  BY <1>2, <1>3 DEF FutureOf
<1>7. futures[id] = [status |-> "settled", results |-> {r}]
  BY <1>2 DEF futures, FutureOf, CopyOf
<1> HIDE DEF r
<1>8. r \in [state : Final, value : Value]
  BY <1>2 DEF CopyOf, r
<1>9. futures' = [futures EXCEPT ![id] = [status |-> "delivered", results |-> {r}]]
  BY <1>2, <1>5, <1>6, FutureMoves
<1>10. Futures!Deliver(id, r)
  BY <1>7, <1>9 DEF Futures!Deliver, Futures!Settled, Futures!Delivered, futures
<1> QED
  BY <1>2, <1>4, <1>8, <1>10 DEF Futures!Next, Value

LEMMA SettleFutures ==
  ASSUME AsyncInv, FuturesInv, NEW id \in DOMAIN objects, id \in DOMAIN worker,
         objects[id].state = "running",
         DOMAIN objects' = DOMAIN objects,
         \A i \in DOMAIN objects \ {id} : objects'[i] = objects[i],
         objects'[id].state \in Final, objects'[id].value \in Value,
         DOMAIN worker' = DOMAIN worker, worker'[id].at = "return",
         \A i \in DOMAIN worker \ {id} : worker'[i] = worker[i],
         UNCHANGED <<client, returned, next_operation_id>>
  PROVE  FuturesInv' /\ Futures!Next
<1>1. PICK r : r = CopyOf(objects'[id])
  OBVIOUS
<1>2. /\ id \in OperationId /\ id \notin DOMAIN returned
      /\ id \in Nat /\ next_operation_id \in Nat /\ id < next_operation_id
  BY OperationBoundAssumption DEF AsyncInv, AsyncTypeOK, FuturesInv, OperationId
<1>3. FuturesInv'
  <2>1. \A u \in Client : client[u].at \in {"joining", "removing", "returning"} =>
          client[u].operation \in DOMAIN objects /\ client[u].operation # id
    BY DEF AsyncInv, ClientsInv, Busy, FuturesInv, Final
  <2> QED
    BY <1>2, <2>1 DEF FuturesInv
<1>4. FutureOf(id)' = [status |-> "settled", results |-> {r}]
  BY <1>1, <1>2 DEF FutureOf, CopyOf
<1>5. \A i \in OperationId \ {id} : FutureOf(i)' = FutureOf(i)
  BY <1>2 DEF FutureOf
<1>6. futures[id] = Futures!Pending
  BY <1>2 DEF futures, FutureOf, Final, Futures!Pending
<1>7. r \in [state : Final, value : Value]
  BY <1>1 DEF CopyOf
<1>8. futures' = [futures EXCEPT ![id] = [status |-> "settled", results |-> {r}]]
  BY <1>2, <1>4, <1>5, FutureMoves
<1>9. Futures!Settle(id, r)
  BY <1>6, <1>8 DEF Futures!Settle, Futures!Settled, futures
<1> QED
  BY <1>2, <1>3, <1>7, <1>9 DEF Futures!Next, Value

LEMMA WorkerFutures ==
  ASSUME TypeOK, AsyncInv, OwnHandleInv, FuturesInv, NEW i \in DOMAIN worker, WorkerStep(i)
  PROVE  FuturesInv' /\ (Futures!Next \/ futures' = futures)
<1>1. /\ worker \in [DOMAIN worker -> Worker] /\ objects \in [DOMAIN objects -> Object]
      /\ worker[i].at # "exited" => i \in DOMAIN objects
      /\ UNCHANGED <<client, returned, next_operation_id>>
  BY DEF AsyncInv, AsyncTypeOK, WorkersInv, WorkerStep, WorkerBegin, WorkerCall,
         WorkerSucceed, WorkerFail, WorkerExit
<1>2. CASE WorkerCall(i) \/ WorkerExit(i)
  <2>1. /\ UNCHANGED objects /\ DOMAIN worker' = DOMAIN worker
        /\ \A j \in DOMAIN worker \ {i} : worker'[j] = worker[j]
        /\ \/ worker[i].at = "call" /\ worker'[i].at \in {"succeed", "fail"}
           \/ worker'[i].at = "exited"
    <3>1. CASE WorkerExit(i)
      BY <1>1, <3>1 DEF WorkerExit, Worker
    <3>2. CASE WorkerCall(i)
      <4>1. worker[i].at = "call" /\ UNCHANGED objects
        BY <3>2 DEF WorkerCall
      <4>2. CASE \E outcome \in Outcome : \E h : Got(i, outcome, h)
        BY <1>1, <4>1, <4>2 DEF Got
      <4>3. CASE worker' = [worker EXCEPT ![i].at = "fail"]
        BY <1>1, <4>1, <4>3 DEF Worker
      <4> QED
        BY <3>2, <4>2, <4>3 DEF WorkerCall, WorkerOpen, WorkerExecute, WorkerOpenCursor
    <3> QED
      BY <1>2, <3>1, <3>2
  <2> QED
    BY <1>1, <2>1, FuturesKept
<1>3. CASE WorkerBegin(i)
  <2>1. /\ DOMAIN objects' = DOMAIN objects
        /\ \A j \in DOMAIN objects \ {i} : objects'[j] = objects[j]
        /\ i \in DOMAIN objects
        /\ objects[i].state = "pending"
        /\ objects'[i].state = "running" /\ objects'[i].value = objects[i].value
    BY <1>1, <1>3 DEF WorkerBegin, Object, FuturesInv
  <2>2. /\ DOMAIN worker' = DOMAIN worker /\ worker'[i].at = "call"
        /\ \A j \in DOMAIN worker \ {i} : worker'[j] = worker[j]
    BY <1>1, <1>3 DEF WorkerBegin, Worker
  <2>3. FuturesInv'
    <3>1. \A u \in Client : client[u].at \in {"joining", "removing", "returning"} =>
            client[u].operation \in DOMAIN objects /\ client[u].operation # i
      BY <2>1 DEF AsyncInv, ClientsInv, Busy, FuturesInv, Final
    <3> QED
      BY <1>1, <2>1, <2>2, <3>1 DEF FuturesInv
  <2>4. futures' = futures
    BY <1>1, <2>1, FuturesStand DEF Final
  <2> QED
    BY <2>3, <2>4
<1>4. CASE WorkerSucceed(i)
  <2>1. PICK handle \in worker[i].handles :
               \E id \in IF handle \in heap THEN {handle.id} ELSE {handle.id, Garbage} :
                 objects' = [objects EXCEPT ![i].state = "succeeded", ![i].value = id]
    BY <1>4 DEF WorkerSucceed
  <2>2. handle \in Handle /\ Issued(handle)
    BY <1>1 DEF Worker, OwnHandleInv
  <2>3. PICK id \in Value :
          objects' = [objects EXCEPT ![i].state = "succeeded", ![i].value = id]
    BY <2>1, <2>2, IssuedIsValue
  <2>4. /\ i \in DOMAIN objects /\ objects[i].state = "running"
        /\ DOMAIN objects' = DOMAIN objects /\ objects'[i].value = id
        /\ objects'[i].state = "succeeded"
        /\ \A j \in DOMAIN objects \ {i} : objects'[j] = objects[j]
    BY <1>1, <1>4, <2>3 DEF WorkerSucceed, Object, FuturesInv
  <2>5. /\ DOMAIN worker' = DOMAIN worker /\ worker'[i].at = "return"
        /\ \A j \in DOMAIN worker \ {i} : worker'[j] = worker[j]
    BY <1>1, <1>4 DEF WorkerSucceed, Worker
  <2>6. "succeeded" \in Final
    BY DEF Final
  <2> QED
    BY <1>1, <2>4, <2>5, <2>6, SettleFutures
<1>5. CASE WorkerFail(i)
  <2>1. /\ i \in DOMAIN objects /\ objects[i].state = "running" /\ objects[i].value \in Value
        /\ DOMAIN objects' = DOMAIN objects /\ objects'[i].value = objects[i].value
        /\ objects'[i].state = "failed"
        /\ \A j \in DOMAIN objects \ {i} : objects'[j] = objects[j]
    BY <1>1, <1>5 DEF WorkerFail, Object, FuturesInv
  <2>2. /\ DOMAIN worker' = DOMAIN worker /\ worker'[i].at = "return"
        /\ \A j \in DOMAIN worker \ {i} : worker'[j] = worker[j]
    BY <1>1, <1>5 DEF WorkerFail, Worker
  <2>3. "failed" \in Final
    BY DEF Final
  <2> QED
    BY <1>1, <2>1, <2>2, <2>3, SettleFutures
<1> QED
  BY <1>2, <1>3, <1>4, <1>5 DEF WorkerStep

LEMMA DeinitOperationsFutures ==
  ASSUME AsyncInv, FuturesInv, DeinitOperations
  PROVE  FuturesInv' /\ Futures!Next
<1>1. /\ \A t \in Client : client[t] = Idle
      /\ DOMAIN objects = operations /\ DOMAIN objects' = {}
      /\ operations \subseteq OperationId
      /\ next_operation_id \in Nat /\ \A i \in operations : i \in Nat /\ i < next_operation_id
      /\ UNCHANGED <<worker, client, returned, next_operation_id>>
  <2>1. \A t \in Client : client[t] = Idle
    BY DEF DeinitOperations, AsyncInv, TeardownInv
  <2>2. DOMAIN objects = operations
    <3>1. \A t \in Client : client[t].at # "returning"
      BY <2>1 DEF Idle
    <3> QED
      BY <3>1 DEF AsyncInv, ObjectsInv
  <2> QED
    BY <2>1, <2>2, OperationBoundAssumption
    DEF DeinitOperations, AsyncInv, AsyncTypeOK, OperationId
<1>2. FuturesInv'
  BY <1>1 DEF FuturesInv, Idle
<1>3. \A i \in operations : i \notin DOMAIN returned
  BY <1>1 DEF FuturesInv
<1>4. \A i \in OperationId :
        FutureOf(i)' = IF i \in operations THEN Futures!Abandoned ELSE FutureOf(i)
  BY <1>1, <1>3 DEF FutureOf, Futures!Abandoned
<1>5. futures' = [i \in OperationId |->
                    IF i \in operations THEN Futures!Abandoned ELSE futures[i]]
  BY <1>4 DEF futures
<1>6. \A i \in operations : futures[i].status # "delivered"
  BY <1>1, <1>3 DEF futures, FutureOf
<1>7. Futures!Abandon(operations)
  BY <1>5, <1>6 DEF Futures!Abandon, futures
<1> QED
  BY <1>1, <1>2, <1>7 DEF Futures!Next

LEMMA NextFutures ==
  TypeOK /\ AsyncInv /\ OwnHandleInv /\ FuturesInv /\ [AsyncNext]_allVars =>
    FuturesInv' /\ (Futures!Next \/ futures' = futures)
<1> SUFFICES ASSUME TypeOK, AsyncInv, OwnHandleInv, FuturesInv, [AsyncNext]_allVars
             PROVE  FuturesInv' /\ (Futures!Next \/ futures' = futures)
  OBVIOUS
<1>1. CASE Synchronous \/ UNCHANGED allVars
  BY <1>1, FuturesKept DEF Synchronous, asyncVars, allVars
<1>2. CASE DeinitBegins \/ DeinitJoins
  BY <1>2, FuturesKept DEF DeinitBegins, DeinitJoins
<1>3. ASSUME NEW t \in Client, OpenAsync(t) \/ ExecuteAsync(t) \/ OpenCursorAsync(t)
      PROVE  FuturesInv' /\ Futures!Next
  BY <1>3, CreateFutures DEF OpenAsync, ExecuteAsync, OpenCursorAsync
<1>4. ASSUME NEW t \in Client,
             \/ \E i \in OperationId : AwaitOperation(t, i)
             \/ JoinThread(t) \/ Remove(t)
      PROVE  FuturesInv' /\ futures' = futures
  <2>1. /\ UNCHANGED <<objects, worker, returned, next_operation_id>>
        /\ \A u \in Client \ {t} : client'[u] = client[u]
        /\ \/ client'[t].at = "waiting"
           \/ /\ client[t].at \in {"joining", "removing"}
              /\ client'[t].operation = client[t].operation
              /\ client'[t].result = client[t].result
    BY <1>4 DEF AwaitOperation, JoinThread, Remove, Goto, AsyncInv, AsyncTypeOK, ClientState
  <2> QED
    BY <2>1, FuturesKept
<1>5. ASSUME NEW t \in Client, AwaitStep(t)
      PROVE  FuturesInv' /\ (Futures!Next \/ futures' = futures)
  BY <1>4, <1>5, WaitFutures, ReturnFutures DEF AwaitStep
<1>6. ASSUME NEW i \in OperationId, WorkerStep(i)
      PROVE  FuturesInv' /\ (Futures!Next \/ futures' = futures)
  BY <1>6, WorkerFutures DEF WorkerStep
<1> QED
  BY <1>1, <1>2, <1>3, <1>4, <1>5, <1>6, StartOperationFutures, DestroyOperationFutures,
     DeinitOperationsFutures
  DEF AsyncNext

\* Operations, with their threads, locks, joins and a deinit that cuts in, are one-shot
\* futures: an id is used once, what an operation settled to never changes, and await
\* hands exactly that to one caller.
THEOREM OperationsRefineFutures == AsyncSpec => OperationsAreFutures
<1>1. AsyncInit => FuturesInv
  BY DEF AsyncInit, FuturesInv, Idle
<1>2. AsyncInit => Futures!Init
  <2> SUFFICES ASSUME AsyncInit PROVE Futures!Init
    OBVIOUS
  <2>1. \A i \in OperationId : FutureOf(i) = Futures!Unused
    BY OperationBoundAssumption DEF AsyncInit, FutureOf, Futures!Unused, OperationId
  <2> QED
    BY <2>1 DEF Futures!Init
<1>3. TypeOK /\ AsyncInv /\ OwnHandleInv /\ FuturesInv /\ [AsyncNext]_allVars =>
        FuturesInv' /\ [Futures!Next]_futures
  BY NextFutures
<1>4. IInv => TypeOK
  BY DEF IInv, TablesInv
<1>5. AsyncInit => OwnHandleInv
  BY DEF AsyncInit, OwnHandleInv
<1>6. AsyncSpec => [][Futures!Next]_futures
  BY <1>1, <1>3, <1>4, <1>5, NextOwnHandle, AsyncInductiveInvariant, TablesUnderOperations,
     PTL
  DEF AsyncSpec
<1> QED
  BY <1>2, <1>6, PTL DEF AsyncSpec, OperationsAreFutures, Futures!Spec, futures
=============================================================================
