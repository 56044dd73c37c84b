------------------------ MODULE ErrorChannel_proofs ------------------------
(***************************************************************************)
(* Proofs about ErrorChannel, for any set of threads and any bound on the  *)
(* number of calls.                                                        *)
(***************************************************************************)
EXTENDS ErrorChannel, TLAPS

\* A thread in a call has its number and its kind.
ThreadsAtWork ==
  \A t \in Thread :
    \/ thread[t] = Idle
    \/ thread[t].at # "idle" /\ thread[t].call \in CallId /\ thread[t].kind \in CallKind

\* A thread in a call that no other call has overlapped is the only one in a call.
Alone ==
  \A t \in Thread : thread[t] # Idle /\ t \notin disturbed =>
    \A u \in Thread \ {t} : thread[u] = Idle

\* Such a thread finds no message but its own, and points at it once it has asked.
OwnMessage ==
  \A t \in Thread : thread[t] # Idle /\ t \notin disturbed =>
    /\ last_error_message # None => buffers[last_error_message] = thread[t].call
    /\ thread[t].at = "copying" => thread[t].pointer = last_error_message

IInv ==
  /\ TypeOK
  /\ ThreadsAtWork
  /\ NoStaleDriverMessage
  /\ Alone
  /\ OwnMessage
  /\ UndisturbedReportsAreOwn

-----------------------------------------------------------------------------
(* Types *)

LEMMA InitHolds == Init => IInv
BY MaxCallsAssumption
DEF Init, IInv, TypeOK, ThreadsAtWork, NoStaleDriverMessage, Alone, OwnMessage,
    UndisturbedReportsAreOwn, CallId, ThreadState, Idle, None

\* What an assignment of Replace leaves: a live message, or none.
LEMMA ReplaceTyped ==
  ASSUME NEW message \in Nat, NEW about \in Nat, DOMAIN buffers = {last_error_message} \ {None},
         Replace(message, about)
  PROVE  /\ last_error_message' = message
         /\ DOMAIN buffers' = {last_error_message'} \ {None}
         /\ \A b \in DOMAIN buffers' : buffers'[b] = about
BY DEF Replace, None

LEMMA TypeStep ==
  TypeOK /\ ThreadsAtWork /\ [Next]_vars => TypeOK' /\ ThreadsAtWork'
<1> SUFFICES ASSUME TypeOK, ThreadsAtWork, [Next]_vars PROVE TypeOK' /\ ThreadsAtWork'
  OBVIOUS
<1> USE DEF TypeOK, ThreadsAtWork, CallId, ThreadState, None, Garbage
<1>1. ASSUME NEW t \in Thread, NEW kind \in CallKind, CCall(t, kind)
      PROVE  TypeOK' /\ ThreadsAtWork'
  <2>1. last_error_message' = None /\ DOMAIN buffers' = {}
    BY <1>1 DEF CCall, Replace
  <2>2. next_call \in Nat /\ next_call' = next_call + 1 /\ next_call' \in 1..(MaxCalls + 1)
    BY <1>1, MaxCallsAssumption DEF CCall, Begins
  <2>3. thread' \in [Thread -> ThreadState'] /\ ThreadsAtWork'
    BY <1>1, <2>2 DEF CCall, Begins, Idle
  <2>4. disturbed' \subseteq Thread
    BY <1>1 DEF CCall, Begins
  <2> QED BY <1>1, <2>1, <2>2, <2>3, <2>4 DEF CCall, Begins
<1>2. ASSUME NEW t \in Thread, InvalidArgument(t) PROVE TypeOK' /\ ThreadsAtWork'
  BY <1>2 DEF InvalidArgument, Goto, Idle
<1>3. ASSUME NEW t \in Thread, CallManager(t) PROVE TypeOK' /\ ThreadsAtWork'
  BY <1>3 DEF CallManager, Goto, Idle
<1>4. ASSUME NEW t \in Thread, Succeed(t) PROVE TypeOK' /\ ThreadsAtWork'
  BY <1>4 DEF Succeed, Idle
<1>5. ASSUME NEW t \in Thread, Fail(t) PROVE TypeOK' /\ ThreadsAtWork'
  <2>1. thread[t].call \in CallId
    BY <1>5 DEF Fail, Idle
  <2> QED BY <1>5, <2>1 DEF Fail, Goto, Idle
<1>6. ASSUME NEW t \in Thread, OperationFailed(t) PROVE TypeOK' /\ ThreadsAtWork'
  <2>1. thread[t].call \in CallId /\ thread[t].call \in Nat
    BY <1>6 DEF OperationFailed, Idle
  <2>2. last_error_message' \in CallId \cup {None}
        /\ DOMAIN buffers' = {last_error_message'} \ {None}
        /\ \A b \in DOMAIN buffers' : buffers'[b] \in CallId
    BY <1>6, <2>1, ReplaceTyped DEF OperationFailed
  <2> QED BY <1>6, <2>1, <2>2 DEF OperationFailed, Goto, Idle
<1>7. ASSUME NEW t \in Thread, SetManagerError(t) PROVE TypeOK' /\ ThreadsAtWork'
  <2>1. thread[t].call \in CallId /\ thread[t].call \in Nat
    BY <1>7 DEF SetManagerError, Idle
  <2>2. last_driver_error_message[t] \in CallId \cup {None}
    OBVIOUS
  <2>3. last_error_message' \in CallId \cup {None}
        /\ DOMAIN buffers' = {last_error_message'} \ {None}
        /\ \A b \in DOMAIN buffers' : buffers'[b] \in CallId
    <3>1. CASE UNCHANGED <<last_error_message, buffers>>
      BY <3>1
    <3>2. CASE Replace(thread[t].call, thread[t].call)
      BY <3>2, <2>1, ReplaceTyped
    <3>3. CASE /\ last_driver_error_message[t] # None
               /\ Replace(thread[t].call, last_driver_error_message[t])
      BY <3>3, <2>1, <2>2, ReplaceTyped
    <3> QED BY <1>7, <3>1, <3>2, <3>3 DEF SetManagerError
  <2> QED BY <1>7, <2>1, <2>3 DEF SetManagerError, Goto, Idle
<1>8. ASSUME NEW t \in Thread, LastErrorMessage(t) PROVE TypeOK' /\ ThreadsAtWork'
  <2> DEFINE asking == [thread EXCEPT ![t].at = "copying"]
  <2>1. thread' \in [Thread -> ThreadState]
    <3>1. asking \in [Thread -> ThreadState]
      OBVIOUS
    <3>2. thread' = [asking EXCEPT ![t].pointer = last_error_message]
      BY <1>8 DEF LastErrorMessage
    <3> HIDE DEF asking
    <3> QED BY <3>1, <3>2
  <2>2. \A u \in Thread \ {t} : thread'[u] = thread[u]
    BY <1>8 DEF LastErrorMessage
  <2>3. /\ thread'[t].at = "copying"
        /\ thread'[t].call = thread[t].call
        /\ thread'[t].kind = thread[t].kind
    BY <1>8 DEF LastErrorMessage
  <2>4. ThreadsAtWork'
    BY <1>8, <2>2, <2>3 DEF LastErrorMessage, Idle
  <2> QED BY <1>8, <2>1, <2>4 DEF LastErrorMessage
<1>9. ASSUME NEW t \in Thread, Raise(t) PROVE TypeOK' /\ ThreadsAtWork'
  <2>1. thread[t].call \in CallId
    BY <1>9 DEF Raise, Idle
  <2>2. Pointee(thread[t].pointer) \in CallId \cup {None, Garbage}
    BY DEF Pointee
  <2> QED BY <1>9, <2>1, <2>2 DEF Raise, Idle
<1>10. CASE UNCHANGED vars
  BY <1>10 DEF vars
<1> QED BY <1>1, <1>2, <1>3, <1>4, <1>5, <1>6, <1>7, <1>8, <1>9, <1>10 DEF Next

-----------------------------------------------------------------------------
(* Messages *)

LEMMA StaleStep ==
  TypeOK /\ NoStaleDriverMessage /\ [Next]_vars => NoStaleDriverMessage'
<1> SUFFICES ASSUME TypeOK, NoStaleDriverMessage, [Next]_vars PROVE NoStaleDriverMessage'
  OBVIOUS
<1> USE DEF TypeOK, NoStaleDriverMessage, ThreadState
<1>1. ASSUME NEW t \in Thread, NEW kind \in CallKind, CCall(t, kind)
      PROVE  NoStaleDriverMessage'
  BY <1>1 DEF CCall, Begins, Idle
<1>2. ASSUME NEW t \in Thread, InvalidArgument(t) PROVE NoStaleDriverMessage'
  BY <1>2 DEF InvalidArgument, Goto
<1>3. ASSUME NEW t \in Thread, CallManager(t) PROVE NoStaleDriverMessage'
  BY <1>3 DEF CallManager, Goto
<1>4. ASSUME NEW t \in Thread, Succeed(t) PROVE NoStaleDriverMessage'
  BY <1>4 DEF Succeed, Idle
<1>5. ASSUME NEW t \in Thread, Fail(t) PROVE NoStaleDriverMessage'
  BY <1>5 DEF Fail, Goto
<1>6. ASSUME NEW t \in Thread, OperationFailed(t) PROVE NoStaleDriverMessage'
  BY <1>6 DEF OperationFailed, Goto
<1>7. ASSUME NEW t \in Thread, SetManagerError(t) PROVE NoStaleDriverMessage'
  BY <1>7 DEF SetManagerError, Goto
<1>8. ASSUME NEW t \in Thread, LastErrorMessage(t) PROVE NoStaleDriverMessage'
  <2>1. /\ thread'[t].at = "copying"
        /\ \A u \in Thread \ {t} : thread'[u] = thread[u]
        /\ UNCHANGED last_driver_error_message
    BY <1>8 DEF LastErrorMessage
  <2>2. thread[t].at = "failed"
    BY <1>8 DEF LastErrorMessage
  <2> QED BY <2>1, <2>2
<1>9. ASSUME NEW t \in Thread, Raise(t) PROVE NoStaleDriverMessage'
  BY <1>9 DEF Raise, Idle
<1>10. CASE UNCHANGED vars
  BY <1>10 DEF vars
<1> QED BY <1>1, <1>2, <1>3, <1>4, <1>5, <1>6, <1>7, <1>8, <1>9, <1>10 DEF Next

\* A step other than the entry of a call is of one thread in a call, which may leave it;
\* it disturbs nobody.
Proceeds(t) ==
  /\ t \in Thread
  /\ thread[t] # Idle
  /\ \A u \in Thread \ {t} : thread'[u] = thread[u]
  /\ disturbed' = disturbed \/ (disturbed' = disturbed \ {t} /\ thread'[t] = Idle)

LEMMA StepsProceed ==
  ASSUME TypeOK, Next, \A t \in Thread, kind \in CallKind : ~CCall(t, kind)
  PROVE  \E t \in Thread : Proceeds(t)
<1> USE DEF TypeOK, Idle, Proceeds, Goto
<1>1. PICK t \in Thread :
        \/ InvalidArgument(t) \/ CallManager(t) \/ Succeed(t) \/ Fail(t) \/ OperationFailed(t)
        \/ SetManagerError(t) \/ LastErrorMessage(t) \/ Raise(t)
  BY DEF Next
<1>2. thread[t].at # "idle"
  BY <1>1
  DEF InvalidArgument, CallManager, Succeed, Fail, OperationFailed, SetManagerError,
      LastErrorMessage, Raise
<1>3. \A u \in Thread \ {t} : thread'[u] = thread[u]
  BY <1>1
  DEF InvalidArgument, CallManager, Succeed, Fail, OperationFailed, SetManagerError,
      LastErrorMessage, Raise
<1>4. disturbed' = disturbed \/ (disturbed' = disturbed \ {t} /\ thread'[t] = Idle)
  BY <1>1
  DEF InvalidArgument, CallManager, Succeed, Fail, OperationFailed, SetManagerError,
      LastErrorMessage, Raise
<1> QED BY <1>2, <1>3, <1>4

LEMMA AloneStep ==
  TypeOK /\ Alone /\ [Next]_vars => Alone'
<1> SUFFICES ASSUME TypeOK, Alone, [Next]_vars PROVE Alone'
  OBVIOUS
<1> USE DEF Alone
<1>1. ASSUME NEW t \in Thread, NEW kind \in CallKind, CCall(t, kind) PROVE Alone'
  <2>1. /\ \A u \in Thread \ {t} : thread'[u] = thread[u]
        /\ \A u \in Thread \ {t} : thread[u] # Idle => u \in disturbed'
        /\ (\E u \in Thread \ {t} : thread[u] # Idle) => t \in disturbed'
    BY <1>1 DEF CCall, Begins, TypeOK
  <2> QED BY <2>1 DEF Idle
<1>2. ASSUME Next, \A t \in Thread, kind \in CallKind : ~CCall(t, kind) PROVE Alone'
  <2>1. PICK t \in Thread : Proceeds(t)
    BY <1>2, StepsProceed
  <2> QED BY <2>1 DEF Proceeds, Idle
<1>3. CASE UNCHANGED vars
  BY <1>3 DEF vars, Idle
<1> QED BY <1>1, <1>2, <1>3

\* What OwnMessage says of one thread.
OwnMessageOf(t) ==
  /\ last_error_message # None => buffers[last_error_message] = thread[t].call
  /\ thread[t].at = "copying" => thread[t].pointer = last_error_message

LEMMA OwnStep ==
  TypeOK /\ ThreadsAtWork /\ NoStaleDriverMessage /\ Alone /\ OwnMessage /\ [Next]_vars
    => OwnMessage'
<1> SUFFICES ASSUME TypeOK, ThreadsAtWork, NoStaleDriverMessage, Alone, OwnMessage,
                    [Next]_vars,
                    NEW t \in Thread, (thread[t] # Idle)', (t \notin disturbed)'
             PROVE  OwnMessageOf(t)'
  BY DEF OwnMessage, OwnMessageOf
<1> USE DEF TypeOK
<1>1. CASE UNCHANGED vars
  BY <1>1 DEF vars, OwnMessage, OwnMessageOf, Idle
<1>2. ASSUME NEW u \in Thread, NEW kind \in CallKind, CCall(u, kind) PROVE OwnMessageOf(t)'
  <2>1. last_error_message' = None
    BY <1>2 DEF CCall, Replace
  <2>2. u = t
    BY <1>2 DEF CCall, Begins, Idle
  <2>3. thread'[t].at = "entered"
    BY <1>2, <2>2 DEF CCall, Begins
  <2> QED BY <2>1, <2>3 DEF OwnMessageOf
<1>3. ASSUME Next, \A u \in Thread, kind \in CallKind : ~CCall(u, kind)
      PROVE  OwnMessageOf(t)'
  \* A thread in a call that no other overlaps takes the step itself.
  <2>1. /\ \A u \in Thread : Proceeds(u) => u = t
        /\ \E u \in Thread : Proceeds(u)
    BY <1>3, StepsProceed DEF Proceeds, Alone, Idle
  <2>2. Proceeds(t)
    BY <2>1
  <2>3. thread[t] # Idle /\ t \notin disturbed
    BY <2>2 DEF Proceeds, Idle
  <2>4. OwnMessageOf(t) /\ thread[t].call \in CallId /\ CallId \subseteq Nat
    BY <2>3 DEF OwnMessage, OwnMessageOf, ThreadsAtWork, CallId
  <2>5. \/ InvalidArgument(t) \/ CallManager(t) \/ Succeed(t) \/ Fail(t) \/ OperationFailed(t)
        \/ SetManagerError(t) \/ LastErrorMessage(t) \/ Raise(t)
    <3>1. ASSUME NEW u \in Thread, u # t,
                 \/ InvalidArgument(u) \/ CallManager(u) \/ Succeed(u) \/ Fail(u)
                 \/ OperationFailed(u) \/ SetManagerError(u) \/ LastErrorMessage(u) \/ Raise(u)
          PROVE  FALSE
      <4>1. thread[u].at # "idle"
        BY <3>1
        DEF InvalidArgument, CallManager, Succeed, Fail, OperationFailed, SetManagerError,
            LastErrorMessage, Raise
      <4>2. thread[u] = Idle
        BY <2>3, <3>1 DEF Alone
      <4> QED BY <4>1, <4>2 DEF Idle
    <3> QED BY <1>3, <3>1 DEF Next
  \* What Replace does with a message about this call.
  <2>6. ASSUME Replace(thread[t].call, thread[t].call)
        PROVE  last_error_message' # None => buffers'[last_error_message'] = thread[t].call
    BY <2>4, <2>6, ReplaceTyped
  <2>7. CASE InvalidArgument(t)
    BY <2>4, <2>7 DEF InvalidArgument, Goto, OwnMessageOf, ThreadState
  <2>8. CASE CallManager(t)
    BY <2>4, <2>8 DEF CallManager, Goto, OwnMessageOf, ThreadState
  <2>9. CASE Succeed(t) \/ Raise(t)
    BY <2>9 DEF Succeed, Raise
  <2>10. CASE Fail(t)
    BY <2>4, <2>10 DEF Fail, Goto, OwnMessageOf, ThreadState
  <2>11. CASE OperationFailed(t)
    <3>1. thread'[t].at = "failed" /\ thread'[t].call = thread[t].call
      BY <2>11 DEF OperationFailed, Goto, ThreadState
    <3>2. last_error_message' # None => buffers'[last_error_message'] = thread[t].call
      BY <2>4, <2>6, <2>11 DEF OperationFailed, OwnMessageOf
    <3> QED BY <3>1, <3>2 DEF OwnMessageOf
  <2>12. CASE SetManagerError(t)
    <3>1. thread'[t].at = "failed" /\ thread'[t].call = thread[t].call
      BY <2>12 DEF SetManagerError, Goto, ThreadState
    <3>2. last_driver_error_message[t] \in {None, thread[t].call}
      BY <2>12 DEF SetManagerError, NoStaleDriverMessage
    <3>3. last_error_message' # None => buffers'[last_error_message'] = thread[t].call
      BY <2>4, <2>6, <2>12, <3>2 DEF SetManagerError, OwnMessageOf
    <3> QED BY <3>1, <3>3 DEF OwnMessageOf
  <2>13. CASE LastErrorMessage(t)
    <3>1. thread'[t].pointer = last_error_message /\ thread'[t].call = thread[t].call
      BY <2>13 DEF LastErrorMessage, ThreadState
    <3> QED BY <2>4, <2>13, <3>1 DEF LastErrorMessage, OwnMessageOf
  <2> QED BY <2>5, <2>7, <2>8, <2>9, <2>10, <2>11, <2>12, <2>13
<1> QED BY <1>1, <1>2, <1>3

LEMMA ReportsStep ==
  TypeOK /\ OwnMessage /\ UndisturbedReportsAreOwn /\ [Next]_vars
    => UndisturbedReportsAreOwn'
<1> SUFFICES ASSUME TypeOK, OwnMessage, UndisturbedReportsAreOwn, [Next]_vars
             PROVE  UndisturbedReportsAreOwn'
  OBVIOUS
<1> USE DEF UndisturbedReportsAreOwn
<1>1. CASE UNCHANGED reports
  BY <1>1
<1>2. ASSUME NEW t \in Thread, Raise(t) PROVE UndisturbedReportsAreOwn'
  <2>1. t \in disturbed \/ Pointee(thread[t].pointer) \in {None, thread[t].call}
    <3>1. thread[t].at = "copying" /\ thread[t] # Idle
      BY <1>2 DEF Raise, Idle
    <3>2. CASE t \in disturbed
      BY <3>2
    <3>3. CASE t \notin disturbed
      <4>1. /\ thread[t].pointer = last_error_message
            /\ last_error_message # None => buffers[last_error_message] = thread[t].call
        BY <3>1, <3>3 DEF OwnMessage
      <4>2. last_error_message # None => last_error_message \in DOMAIN buffers
        BY DEF TypeOK
      <4> QED BY <4>1, <4>2 DEF Pointee
    <3> QED BY <3>2, <3>3
  <2> DEFINE report == [call |-> thread[t].call, message |-> Pointee(thread[t].pointer),
                        disturbed |-> t \in disturbed]
  <2>2. reports' = reports \cup {report}
    BY <1>2 DEF Raise
  <2>3. report.disturbed \/ report.message \in {None, report.call}
    <3>1. /\ report.disturbed = (t \in disturbed)
          /\ report.message = Pointee(thread[t].pointer)
          /\ report.call = thread[t].call
      OBVIOUS
    <3> QED BY <2>1, <3>1, Zenon
  <2> QED BY <2>2, <2>3, Zenon
<1> QED BY <1>1, <1>2
  DEF Next, vars, CCall, InvalidArgument, CallManager, Succeed, Fail, OperationFailed,
      SetManagerError, LastErrorMessage

-----------------------------------------------------------------------------
(* Theorems *)

\* The strengthening of the invariants below holds of every reachable state.
THEOREM InductiveInvariant == Spec => []IInv
<1>1. Init => IInv
  BY InitHolds
<1>2. IInv /\ [Next]_vars => IInv'
  BY TypeStep, StaleStep, AloneStep, OwnStep, ReportsStep DEF IInv
<1> QED BY <1>1, <1>2, PTL DEF Spec

\* The variables keep their types, and at most one message of the manager is alive, the
\* one it points to: setLastErrorOwned and clearLastErrorUnlocked leak none and free
\* none twice.
THEOREM TypeCorrect == Spec => []TypeOK
BY InductiveInvariant, PTL DEF IInv

\* A driver message left in a thread's memory never reaches a later call of the thread,
\* though the metadata calls of the C ABI do not clear it.
THEOREM DriverMessagesAreFresh == Spec => []NoStaleDriverMessage
BY InductiveInvariant, PTL DEF IInv

\* With any number of threads, a binding that no other call overlaps raises the message
\* of its own call or none, and reads no freed memory.
THEOREM ReportsAreOwn == Spec => []UndisturbedReportsAreOwn
BY InductiveInvariant, PTL DEF IInv
=============================================================================
