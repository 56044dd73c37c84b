---------------------------- MODULE ErrorChannel ----------------------------
(***************************************************************************)
(* How an error message travels from a driver to the caller of the C ABI.  *)
(*                                                                         *)
(* A driver's message is first kept in a thread-local of the ADBC backend  *)
(* (last_driver_error_message); when the call fails, setManagerError moves *)
(* it, or a default text, to the manager's one last_error_message, which   *)
(* all threads share; the binding then asks for it with a second call,     *)
(* aq_last_error_message, gets a pointer to it and copies the text with no *)
(* lock held.  Every C call first clears the manager's message.            *)
(*                                                                         *)
(* An action is a critical section of state_lock, or what a thread does    *)
(* between two of them.  A message is known by the call that caused it.    *)
(***************************************************************************)
EXTENDS Integers

CONSTANTS
  Thread,     \* the threads that call the library
  CallKind,   \* the kinds of calls they make
  MaxCalls    \* bound on the number of calls

\* "clearing": open, execute and cursor_open, which clear the thread-local first;
\* "metadata": test, get_tables, get_catalogs, get_databases and
\* inspect_namespace_access, which reach a driver too, and do not;
\* "await": aq_operation_await, whose message comes with the operation.
ASSUME CallKindAssumption == CallKind \subseteq {"clearing", "metadata", "await"}

ASSUME MaxCallsAssumption == MaxCalls \in Nat

VARIABLES
  next_call,                  \* the calls made so far, counted
  thread,                     \* thread -> [at, kind, call, pointer]
  last_driver_error_message,  \* thread -> the call whose driver left the message, or None
  last_error_message,         \* the manager's message: a key of buffers, or None
  buffers,                    \* message allocated and not freed -> the call it is about
  disturbed,                  \* threads that had another call begin since theirs did
  reports                     \* what bindings raised: [call, message, disturbed]

vars == <<next_call, thread, last_driver_error_message, last_error_message, buffers,
          disturbed, reports>>

None == 0

\* What reading a freed message gives.
Garbage == -1

Idle == [at |-> "idle", kind |-> "none", call |-> None, pointer |-> None]

Init ==
  /\ next_call = 1
  /\ thread = [t \in Thread |-> Idle]
  /\ last_driver_error_message = [t \in Thread |-> None]
  /\ last_error_message = None
  /\ buffers = [b \in {} |-> None]
  /\ disturbed = {}
  /\ reports = {}

Goto(t, where) == thread' = [thread EXCEPT ![t].at = where]

\* Mutated form of Replace: the old message is not freed.
ReplaceLeaks(message, about) ==
  /\ last_error_message' = message
  /\ buffers' = [b \in DOMAIN buffers \cup (IF message = None THEN {} ELSE {message}) |->
                   IF b = message THEN about ELSE buffers[b]]

\* clearLastErrorUnlocked and setLastErrorOwned: the old message is freed.
Replace(message, about) ==
  /\ last_error_message' = message
  /\ buffers' = [b \in (DOMAIN buffers \ {last_error_message})
                          \cup (IF message = None THEN {} ELSE {message}) |->
                   IF b = message THEN about ELSE buffers[b]]

Begins(t, kind) ==
  /\ thread[t] = Idle
  /\ kind \in CallKind
  /\ next_call <= MaxCalls
  /\ next_call' = next_call + 1
  /\ disturbed' = (disturbed \ {t}) \cup {u \in Thread \ {t} : thread[u] # Idle}
                    \cup (IF \E u \in Thread \ {t} : thread[u] # Idle THEN {t} ELSE {})
  /\ thread' = [thread EXCEPT ![t] = [at |-> "entered", kind |-> kind,
                                      call |-> next_call, pointer |-> None]]

\* Mutated form of CCall: the manager's message survives into the next call.
CCallKeepsMessage(t, kind) ==
  /\ Begins(t, kind)
  /\ UNCHANGED <<last_driver_error_message, last_error_message, buffers, reports>>

\* The entry of a C call: clearManagerError.
CCall(t, kind) ==
  /\ Begins(t, kind)
  /\ Replace(None, None)
  /\ UNCHANGED <<last_driver_error_message, reports>>

\* A null argument: the call returns aq_invalid_argument, or 0, and sets no message.
InvalidArgument(t) ==
  /\ thread[t].at = "entered"
  /\ Goto(t, "failed")
  /\ UNCHANGED <<next_call, last_driver_error_message, last_error_message, buffers,
                 disturbed, reports>>

\* The manager is called; open, execute and cursor_open clear the thread's message first.
CallManager(t) ==
  /\ thread[t].at = "entered"
  /\ Goto(t, "body")
  /\ last_driver_error_message' =
       IF thread[t].kind = "clearing" THEN [last_driver_error_message EXCEPT ![t] = None]
                                      ELSE last_driver_error_message
  /\ UNCHANGED <<next_call, last_error_message, buffers, disturbed, reports>>

Succeed(t) ==
  /\ thread[t].at = "body"
  /\ thread' = [thread EXCEPT ![t] = Idle]
  /\ UNCHANGED <<next_call, last_driver_error_message, last_error_message, buffers,
                 disturbed, reports>>

\* The manager's call returns an error.  The driver left a message, in the memory of
\* this thread, or the error is the manager's own and there is none, as when
\* awaitOperation, which calls no driver, does not know the operation.
Fail(t) ==
  /\ thread[t].at = "body"
  /\ Goto(t, "set_error")
  /\ \/ UNCHANGED last_driver_error_message
     \/ /\ thread[t].kind # "await"
        /\ last_driver_error_message' = [last_driver_error_message EXCEPT ![t] = thread[t].call]
  /\ UNCHANGED <<next_call, last_error_message, buffers, disturbed, reports>>

\* awaitOperation of an operation that failed: its message, if it has one, becomes
\* the manager's.  The status of the call itself is aq_ok.
OperationFailed(t) ==
  /\ thread[t].at = "body"
  /\ thread[t].kind = "await"
  /\ Goto(t, "failed")
  /\ \/ Replace(thread[t].call, thread[t].call)
     \/ UNCHANGED <<last_error_message, buffers>>
  /\ UNCHANGED <<next_call, last_driver_error_message, disturbed, reports>>

\* Mutated form of SetManagerError: the thread's message is copied and left there.
SetManagerErrorPeeks(t) ==
  LET about == IF last_driver_error_message[t] = None THEN thread[t].call
                                                       ELSE last_driver_error_message[t]
  IN  /\ thread[t].at = "set_error"
      /\ Goto(t, "failed")
      /\ Replace(thread[t].call, about)
      /\ UNCHANGED <<next_call, last_driver_error_message, disturbed, reports>>

\* setManagerError: the thread's message moves to the manager; without one, or when
\* it cannot be copied, the default text of the status does; without memory for that
\* either, the manager keeps what it has.
SetManagerError(t) ==
  /\ thread[t].at = "set_error"
  /\ Goto(t, "failed")
  /\ last_driver_error_message' = [last_driver_error_message EXCEPT ![t] = None]
  /\ \/ /\ last_driver_error_message[t] # None
        /\ Replace(thread[t].call, last_driver_error_message[t])
     \/ Replace(thread[t].call, thread[t].call)
     \/ UNCHANGED <<last_error_message, buffers>>
  /\ UNCHANGED <<next_call, disturbed, reports>>

\* aq_last_error_message: a pointer into the manager leaves the lock.
LastErrorMessage(t) ==
  /\ thread[t].at = "failed"
  /\ thread' = [thread EXCEPT ![t].at = "copying", ![t].pointer = last_error_message]
  /\ UNCHANGED <<next_call, last_driver_error_message, last_error_message, buffers,
                 disturbed, reports>>

Pointee(p) == IF p = None THEN None ELSE IF p \in DOMAIN buffers THEN buffers[p] ELSE Garbage

\* The binding copies the text and raises it.
Raise(t) ==
  /\ thread[t].at = "copying"
  /\ reports' = reports \cup {[call |-> thread[t].call, message |-> Pointee(thread[t].pointer),
                               disturbed |-> t \in disturbed]}
  /\ thread' = [thread EXCEPT ![t] = Idle]
  /\ disturbed' = disturbed \ {t}
  /\ UNCHANGED <<next_call, last_driver_error_message, last_error_message, buffers>>

Next == \E t \in Thread :
  \/ \E kind \in CallKind : CCall(t, kind)
  \/ InvalidArgument(t)
  \/ CallManager(t)
  \/ Succeed(t)
  \/ Fail(t)
  \/ OperationFailed(t)
  \/ SetManagerError(t)
  \/ LastErrorMessage(t)
  \/ Raise(t)

Spec == Init /\ [][Next]_vars

-----------------------------------------------------------------------------
(* Properties *)

CallId == 1..(next_call - 1)

ThreadState == [at : {"idle", "entered", "body", "set_error", "failed", "copying"},
                kind : CallKind \cup {"none"}, call : CallId \cup {None},
                pointer : CallId \cup {None}]

\* Every variable keeps its type; the manager's pointer is null or points to a live
\* message, and no other message is live, so none leaks.
TypeOK ==
  /\ next_call \in 1..(MaxCalls + 1)
  /\ thread \in [Thread -> ThreadState]
  /\ last_driver_error_message \in [Thread -> CallId \cup {None}]
  /\ last_error_message \in CallId \cup {None}
  /\ DOMAIN buffers = {last_error_message} \ {None}
  /\ \A b \in DOMAIN buffers : buffers[b] \in CallId
  /\ disturbed \subseteq Thread
  /\ \A r \in reports : r.call \in CallId /\ r.message \in CallId \cup {None, Garbage}

\* A thread never begins a call with a driver message of an earlier call in its
\* thread-local memory, and the message setManagerError finds there is the one of the
\* failing call: the metadata calls may leave the clearing to the others.
NoStaleDriverMessage ==
  \A t \in Thread :
    IF thread[t].at = "set_error"
      THEN last_driver_error_message[t] \in {None, thread[t].call}
      ELSE last_driver_error_message[t] = None

\* What a binding raises for a failed call is a message about that very call, or
\* nothing, and never freed memory, if no other thread was in a call at the same time.
UndisturbedReportsAreOwn ==
  \A r \in reports : r.disturbed \/ r.message \in {None, r.call}

\* What the test of manager.zig for SQLite asserts: when a metadata call of the manager
\* has failed with a driver's message, last_error_message is there to say why.  The
\* point is right after the manager's return, before the C ABI does anything.
ManagerErrorHasMessage ==
  \A t \in Thread :
    thread[t].at = "set_error" /\ last_driver_error_message[t] # None
      => last_error_message # None
=============================================================================
