----------------------------- MODULE NodeBinding -----------------------------
(***************************************************************************)
(* A JavaScript program over the Node binding (bindings/nodejs/src/        *)
(* index.js).  Its methods run on the main thread; the native half of most *)
(* promises runs on a thread of libuv's pool, and the rest of the method   *)
(* on the main thread again.  Native memory passes between the two without *)
(* a lock: the manager, the message of its last error, the names of an     *)
(* inspection (in the scratch of the thread that made it, ffi/c_api.zig),  *)
(* the texts of a result set.                                              *)
(*                                                                         *)
(* The native manager is what ConnectionManager and AsyncOperations say;   *)
(* here it is alive or destroyed, with one result set opened earlier.      *)
(***************************************************************************)
EXTENDS Naturals, Sequences

CONSTANTS
  MaxCalls,   \* calls of methods the program makes
  Thread,     \* threads of the pool
  Main,       \* the thread of the program
  None

VARIABLES
  reference,   \* whether this.manager is a pointer, or NULL
  manager,     \* the native manager: "alive", "destroyed"
  message,     \* the manager's last_error_message: the call it is of, or None
  resultSet,   \* the native result set: "open", "closed"
  call,        \* the calls: what is called, and how far it is
  operation,   \* operations in the manager, by the call that started them
  main,        \* the main thread: "idle", "disposing", or "inside" a method
  errorBuffer, \* the message whose address _lastErrorMessage was given
  queue,       \* work libuv has not yet given to a thread
  worker,      \* what each thread of the pool works on
  scratch,     \* whose names each thread's scratch holds
  overlapped,  \* calls the program ran into something that takes their memory away
  faults       \* calls that touched memory that was not (or no longer) theirs

vars == <<reference, manager, message, resultSet, call, operation, main, errorBuffer, queue,
          worker, scratch, overlapped, faults>>

\* Calls are numbered as the program makes them.
Call == 1..MaxCalls

\* The main thread is none of the pool's.
ASSUME ThreadAssumption ==
  /\ Main \notin Thread
  /\ None \notin Call \cup Thread \cup {Main}

SyncFunctions == {"query", "inspect", "value", "close"}

PoolFunctions == {"query", "inspect", "close", "await"}

\* thread: where the native function runs;  pointer: whether it was given the manager.
NoCall == [fn |-> None, stage |-> "unmade", thread |-> None, pointer |-> FALSE, found |-> FALSE]

Settled == [NoCall EXCEPT !.stage = "settled"]

Makes(c) == main = "idle" /\ call[c] = NoCall /\ \A d \in 1..(c - 1) : call[d] # NoCall

Pending(c) == call[c].stage \in {"queued", "running", "returned", "raising"}

Busy(fn) == {c \in Call : Pending(c) /\ call[c].fn = fn}

\* Calls whose native function has a manager and has not returned.
Underway == {c \in Call : call[c].stage \in {"queued", "running"} /\ call[c].pointer}

Init ==
  /\ reference = TRUE
  /\ manager = "alive"
  /\ message = None
  /\ resultSet = "open"
  /\ call = [c \in Call |-> NoCall]
  /\ operation = [c \in Call |-> "none"]
  /\ main = "idle"
  /\ errorBuffer = None
  /\ queue = <<>>
  /\ worker = [t \in Thread |-> None]
  /\ scratch = [t \in Thread \cup {Main} |-> None]
  /\ overlapped = {}
  /\ faults = {}

-----------------------------------------------------------------------------
(* A native function *)

\* Mutated form of Inspect: one scratch for the whole process.
InspectSharesScratch(c, t, found) ==
  scratch' = [u \in DOMAIN scratch |-> IF found THEN c ELSE None]

\* aq_connection_inspect_namespace_access frees the names in its thread's scratch before it
\* makes others, or fails.
Inspect(c, t, found) ==
  scratch' = [scratch EXCEPT ![t] = IF found THEN c ELSE None]

\* Every function begins with clearManagerError, which frees the message ...
Cleared(pointer) == IF pointer THEN None ELSE message

\* ... and one that fails leaves a message of its own, unless an argument was missing or
\* memory is short; aq_operation_await does so for the operation.
LeaveMessage(c, pointer, found, left) ==
  message' \in {left} \cup (IF pointer /\ ~found THEN {c} ELSE {})

\* What a native function does on thread t; a NULL manager is refused before anything.
Native(c, t, fn, pointer, found) ==
  /\ found => pointer /\ (fn \in {"value", "close"} => resultSet = "open")
  /\ call' = [call EXCEPT ![c] = [fn |-> fn, stage |-> "returned", thread |-> t,
                                  pointer |-> pointer, found |-> found]]
  /\ IF fn = "inspect" /\ pointer THEN Inspect(c, t, found) ELSE UNCHANGED scratch
  /\ resultSet' = IF fn = "close" /\ found THEN "closed" ELSE resultSet
  /\ faults' = IF pointer /\ manager = "destroyed" THEN faults \cup {c} ELSE faults

\* The names of an inspection and the text of a cell are pointers, which the main thread
\* reads when it has come round to it.
TextIsGone(c) ==
  /\ call[c].found
  /\ \/ call[c].fn = "inspect" /\ scratch[call[c].thread] # c
     \/ call[c].fn = "value" /\ resultSet = "closed"

\* The method ends with what was found.
Settle(c) ==
  /\ call[c].found
  /\ call' = [call EXCEPT ![c] = Settled]
  /\ faults' = IF TextIsGone(c) THEN faults \cup {c} ELSE faults
  /\ main' = "idle"
  /\ UNCHANGED <<errorBuffer, overlapped>>

\* _lastErrorMessage: aq_last_error_message on this.manager, if there is one, gives out the
\* address of a message that stays the manager's.
LastErrorMessage(c) ==
  /\ ~call[c].found
  /\ call' = [call EXCEPT ![c].stage = "raising"]
  /\ errorBuffer' = IF reference THEN message ELSE None
  /\ faults' = IF reference /\ manager = "destroyed" THEN faults \cup {c} ELSE faults
  /\ overlapped' = IF errorBuffer' # None /\ Underway # {}
                     THEN overlapped \cup {c} ELSE overlapped
  /\ main' = "inside"

-----------------------------------------------------------------------------
(* The main thread *)

\* A method that calls a native function at once.
CallSync(c) ==
  /\ Makes(c)
  /\ \E fn \in SyncFunctions, found \in BOOLEAN :
       /\ Native(c, Main, fn, reference, found)
       /\ LeaveMessage(c, reference, found, Cleared(reference))
       /\ overlapped' = IF fn = "value" /\ Busy("close") # {}
                          THEN overlapped \cup {c} ELSE overlapped
  /\ main' = "inside"
  /\ UNCHANGED <<reference, manager, operation, errorBuffer, queue, worker>>

ReturnSync(c) ==
  /\ main = "inside"
  /\ call[c].stage = "returned" /\ call[c].thread = Main
  /\ Settle(c) \/ LastErrorMessage(c)
  /\ UNCHANGED <<reference, manager, message, resultSet, operation, queue, worker, scratch>>

Queue(c, fn) ==
  /\ call' = [call EXCEPT ![c] = [NoCall EXCEPT !.fn = fn, !.stage = "queued",
                                                !.pointer = reference]]
  /\ queue' = Append(queue, c)

\* callAsync, with the manager this.manager is now.
CallAsync(c) ==
  /\ Makes(c)
  /\ \E fn \in PoolFunctions \ {"await"} :
       /\ Queue(c, fn)
       /\ overlapped' = IF fn = "inspect" /\ Busy("inspect") # {}
                          THEN overlapped \cup Busy("inspect") \cup {c} ELSE overlapped
  /\ UNCHANGED <<reference, manager, message, resultSet, operation, main, errorBuffer, worker,
                 scratch, faults>>

\* connect, execute and cursor start an operation and have a thread of the pool await it,
\* or raise at once that none could be started.
CallOperation(c) ==
  /\ Makes(c)
  /\ \/ /\ reference
        /\ operation' = [operation EXCEPT ![c] = "running"]
        /\ Queue(c, "await")
        /\ message' = Cleared(reference)
        /\ faults' = IF manager = "destroyed" THEN faults \cup {c} ELSE faults
        /\ UNCHANGED <<resultSet, main, scratch>>
     \/ /\ Native(c, Main, "start", reference, FALSE)
        /\ LeaveMessage(c, reference, FALSE, Cleared(reference))
        /\ main' = "inside"
        /\ UNCHANGED <<operation, queue>>
  /\ UNCHANGED <<reference, manager, errorBuffer, worker, overlapped>>

\* A thread of the pool is done: the promise resolves and its method goes on.
Continue(c) ==
  /\ main = "idle"
  /\ call[c].stage = "returned"
  /\ Settle(c) \/ LastErrorMessage(c)
  /\ UNCHANGED <<reference, manager, message, resultSet, operation, queue, worker, scratch>>

\* readErrorMessage and the throw, in _raiseOnStatus and _throwZeroResult.
RaiseOnStatus(c) ==
  /\ call[c].stage = "raising"
  /\ call' = [call EXCEPT ![c] = Settled]
  /\ errorBuffer' = None
  /\ faults' = IF errorBuffer # None /\ message # errorBuffer THEN faults \cup {c} ELSE faults
  /\ main' = "idle"
  /\ UNCHANGED <<reference, manager, message, resultSet, operation, queue, worker, scratch,
                 overlapped>>

\* dispose and disposeSync; deinit of the manager joins the threads of its operations.
Dispose ==
  /\ main = "idle" /\ reference
  /\ main' = "disposing"
  /\ overlapped' = overlapped \cup {c \in Call : Pending(c)}
  /\ UNCHANGED <<reference, manager, message, resultSet, call, operation, errorBuffer, queue,
                 worker, scratch, faults>>

EndDispose ==
  /\ main = "disposing"
  /\ \A c \in Call : operation[c] # "running"
  /\ main' = "idle"
  /\ manager' = "destroyed"
  /\ message' = None
  /\ reference' = FALSE
  /\ UNCHANGED <<resultSet, call, operation, errorBuffer, queue, worker, scratch, overlapped,
                 faults>>

-----------------------------------------------------------------------------
(* The other threads *)

\* A thread begins with a native function; an inspection first frees the names before it.
Take(t) ==
  /\ worker[t] = None /\ queue # <<>>
  /\ LET c == Head(queue)
     IN  /\ worker' = [worker EXCEPT ![t] = c]
         /\ call' = [call EXCEPT ![c].stage = "running", ![c].thread = t]
         /\ message' = Cleared(call[c].pointer)
         /\ IF call[c].fn = "inspect" /\ call[c].pointer THEN Inspect(c, t, FALSE)
                                                         ELSE UNCHANGED scratch
  /\ queue' = Tail(queue)
  /\ UNCHANGED <<reference, manager, resultSet, operation, main, errorBuffer, overlapped, faults>>

\* The native function returns; aq_operation_await when the operation is done, and if it
\* has a manager to ask.
Finish(t) ==
  LET c == worker[t]
  IN  /\ c # None
      /\ call[c].fn = "await" /\ manager = "alive" => operation[c] = "done"
      /\ \E found \in BOOLEAN :
           /\ Native(c, t, call[c].fn, call[c].pointer, found)
           /\ LeaveMessage(c, call[c].pointer, found, message)
      /\ worker' = [worker EXCEPT ![t] = None]
      /\ UNCHANGED <<reference, manager, operation, main, errorBuffer, queue, overlapped>>

\* Mutated form of RunOperation: an operation runs on a thread of the pool.
RunOperationOnPool(c) ==
  /\ operation[c] = "running"
  /\ \E t \in Thread : worker[t] = None
  /\ operation' = [operation EXCEPT ![c] = "done"]
  /\ UNCHANGED <<reference, manager, message, resultSet, call, main, errorBuffer, queue, worker,
                 scratch, overlapped, faults>>

\* The operation's own thread of the library.
RunOperation(c) ==
  /\ operation[c] = "running"
  /\ operation' = [operation EXCEPT ![c] = "done"]
  /\ UNCHANGED <<reference, manager, message, resultSet, call, main, errorBuffer, queue, worker,
                 scratch, overlapped, faults>>

Next ==
  \/ \E c \in Call : CallSync(c) \/ ReturnSync(c) \/ CallAsync(c) \/ CallOperation(c) \/ Continue(c)
                  \/ RaiseOnStatus(c)
  \/ Dispose \/ EndDispose
  \/ \E t \in Thread : Take(t) \/ Finish(t)
  \/ \E c \in Call : RunOperation(c)

\* The event loop takes what is resolved, the pool what is queued, and native threads run.
Fairness ==
  /\ \A c \in Call : WF_vars(ReturnSync(c)) /\ WF_vars(Continue(c)) /\ WF_vars(RaiseOnStatus(c))
  /\ \A c \in Call : WF_vars(RunOperation(c))
  /\ WF_vars(EndDispose)
  /\ \A t \in Thread : WF_vars(Take(t)) /\ WF_vars(Finish(t))

Spec == Init /\ [][Next]_vars /\ Fairness

-----------------------------------------------------------------------------
(* Properties *)

\* A program that does not dispose of its manager while a promise is pending, nor have two
\* inspections pending, nor read from a result set while a close of it is pending, nor have a
\* call fail while another is under way, never has the binding touch memory that is not its
\* own: every fault is of a call so overlapped.
OnlyOverlapsHurt == faults \subseteq overlapped

\* A promise settles, however few threads the pool has for operations that block them,
\* unless memory is already corrupt.
PromisesSettle == \A c \in Call : Pending(c) ~> (call[c].stage = "settled" \/ faults # {})
=============================================================================
