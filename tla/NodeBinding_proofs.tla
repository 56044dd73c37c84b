-------------------------- MODULE NodeBinding_proofs --------------------------
(***************************************************************************)
(* OnlyOverlapsHurt, for any number of calls and of threads in the pool.   *)
(*                                                                         *)
(* The property speaks of faults, which are steps of the past; NodeInv     *)
(* says of every call still pending what memory it holds and who else may  *)
(* take that memory away, and that such a pair has been noticed as an      *)
(* overlap when the second of the two began.                               *)
(***************************************************************************)
EXTENDS NodeBinding, TLAPS

Function == SyncFunctions \cup PoolFunctions \cup {"start"}

CallRecord == [fn : Function \cup {None},
               stage : {"unmade", "queued", "running", "returned", "raising", "settled"},
               thread : Thread \cup {Main, None}, pointer : BOOLEAN, found : BOOLEAN]

NodeTypeOK ==
  /\ reference \in BOOLEAN
  /\ manager \in {"alive", "destroyed"}
  /\ message \in Call \cup {None}
  /\ call \in [Call -> CallRecord]
  /\ main \in {"idle", "disposing", "inside"}
  /\ errorBuffer \in Call \cup {None}
  /\ queue \in Seq(Call)
  /\ worker \in [Thread -> Call \cup {None}]
  /\ scratch \in [Thread \cup {Main} -> Call \cup {None}]

OnMain(c) == call[c].thread = Main

\* The main thread is inside the method of the call.
Inside(c) == Pending(c) /\ (OnMain(c) \/ call[c].stage = "raising")

\* this.manager is a pointer as long as there is a manager.
ReferenceInv ==
  /\ reference <=> manager = "alive"
  /\ main = "disposing" => reference

\* Each pending call is in one place: the queue, a thread of the pool, the main thread, or
\* with the event loop.
PlaceInv ==
  /\ \A i \in DOMAIN queue : call[queue[i]].stage = "queued"
  /\ \A i, j \in DOMAIN queue : queue[i] = queue[j] => i = j
  /\ \A t \in Thread : worker[t] # None =>
       call[worker[t]].stage = "running" /\ call[worker[t]].thread = t
  /\ \A c \in Call : Pending(c) =>
       /\ Inside(c) => main = "inside" /\ call[c].stage \in {"returned", "raising"}
       /\ call[c].fn = "value" => OnMain(c)
       /\ call[c].stage = "returned" => call[c].thread # None
       /\ call[c].fn \in Function
  /\ \A c, d \in Call : Inside(c) /\ Inside(d) => c = d

\* Who has the pointer of a manager that is going has been run into by its dispose.
PointerInv ==
  ~reference \/ main = "disposing" =>
    \A c \in Call : Pending(c) /\ call[c].pointer => c \in overlapped

\* Two inspections on the pool know of each other, and the names of one that knows of none
\* are still in the scratch of its thread.
ScratchInv ==
  /\ \A c, d \in Call :
       c # d /\ c \in Busy("inspect") /\ d \in Busy("inspect") /\ ~OnMain(c) /\ ~OnMain(d)
         => c \in overlapped
  /\ \A c \in Busy("inspect") :
       call[c].stage = "returned" /\ call[c].found =>
         scratch[call[c].thread] = c \/ c \in overlapped

\* So does a read with the closes that were pending when it began.
TextInv ==
  \A c \in Busy("value") :
    /\ Busy("close") # {} => c \in overlapped
    /\ resultSet = "closed" /\ call[c].found => c \in overlapped

\* While a message is about to be read, the calls that may free it have been noticed, and
\* unless there are any it is still the manager's.
MessageInv ==
  \A c \in Call : call[c].stage = "raising" /\ errorBuffer # None =>
    /\ Underway # {} => c \in overlapped
    /\ message = errorBuffer \/ c \in overlapped

NodeInv ==
  /\ NodeTypeOK
  /\ ReferenceInv
  /\ PlaceInv
  /\ PointerInv
  /\ ScratchInv
  /\ TextInv
  /\ MessageInv
  /\ OnlyOverlapsHurt

-----------------------------------------------------------------------------
(* Calls *)

\* A call that has not been made.
LEMMA NoCallIsRecord == NoCall \in CallRecord
BY DEF NoCall, CallRecord

\* What a native function does to the record of its call, and that it leaves the others.
LEMMA NativeCall ==
  ASSUME NodeTypeOK, NEW c \in Call, NEW t \in Thread \cup {Main},
         NEW fn \in Function, NEW pointer \in BOOLEAN, NEW found \in BOOLEAN,
         Native(c, t, fn, pointer, found)
  PROVE  /\ call' \in [Call -> CallRecord]
         /\ call'[c] = [fn |-> fn, stage |-> "returned", thread |-> t,
                        pointer |-> pointer, found |-> found]
         /\ \A d \in Call \ {c} : call'[d] = call[d]
         /\ scratch' \in [Thread \cup {Main} -> Call \cup {None}]
         /\ \A u \in (Thread \cup {Main}) \ {t} : scratch'[u] = scratch[u]
         /\ fn = "inspect" /\ found => scratch'[t] = c
         /\ fn # "inspect" => scratch' = scratch
         /\ found => pointer
         /\ fn \in {"value", "close"} /\ found => resultSet = "open"
         /\ ~(fn = "close" /\ found) => resultSet' = resultSet
         /\ faults' \subseteq faults \cup {c}
         /\ ~(pointer /\ manager = "destroyed") => faults' = faults
<1>1. [fn |-> fn, stage |-> "returned", thread |-> t, pointer |-> pointer, found |-> found]
        \in CallRecord
  BY DEF CallRecord
<1>2. /\ call' \in [Call -> CallRecord]
      /\ call'[c] = [fn |-> fn, stage |-> "returned", thread |-> t,
                     pointer |-> pointer, found |-> found]
      /\ \A d \in Call \ {c} : call'[d] = call[d]
  BY <1>1 DEF Native, NodeTypeOK
<1>3. /\ scratch' \in [Thread \cup {Main} -> Call \cup {None}]
      /\ \A u \in (Thread \cup {Main}) \ {t} : scratch'[u] = scratch[u]
      /\ fn = "inspect" /\ found => scratch'[t] = c
      /\ fn # "inspect" => scratch' = scratch
  BY DEF Native, Inspect, NodeTypeOK
<1> QED
  BY <1>2, <1>3 DEF Native

-----------------------------------------------------------------------------
(* The steps *)

\* Nothing is pending before the first call.
LEMMA InitNode == Init => NodeInv
<1> SUFFICES ASSUME Init PROVE NodeInv
  OBVIOUS
<1>1. \A c \in Call : ~Pending(c)
  BY DEF Init, NoCall, Pending
<1>2. NodeTypeOK
  BY NoCallIsRecord DEF Init, NodeTypeOK
<1> QED
  BY <1>1, <1>2 DEF Init, NodeInv, ReferenceInv, PlaceInv, Inside, PointerInv, ScratchInv, TextInv,
                     MessageInv, NoCall, Busy, OnlyOverlapsHurt

\* A native function that the main thread calls.
LEMMA SyncKeeps ==
  ASSUME NodeInv, NEW c \in Call, Makes(c), NEW fn \in Function, NEW found \in BOOLEAN,
         Native(c, Main, fn, reference, found),
         LeaveMessage(c, reference, found, Cleared(reference)),
         overlapped \subseteq overlapped',
         fn = "value" /\ Busy("close") # {} => c \in overlapped',
         main' = "inside", UNCHANGED <<reference, manager, errorBuffer, queue, worker>>
  PROVE  NodeInv'
<1> USE ThreadAssumption
<1>1. main = "idle" /\ call[c] = NoCall
  BY DEF Makes
<1>2. reference \in BOOLEAN /\ NodeTypeOK
  BY DEF NodeInv, NodeTypeOK
<1>3. message' \in Call \cup {None}
  BY <1>2 DEF LeaveMessage, Cleared, NodeTypeOK
<1>4. /\ call' \in [Call -> CallRecord]
      /\ call'[c] = [fn |-> fn, stage |-> "returned", thread |-> Main,
                     pointer |-> reference, found |-> found]
      /\ \A d \in Call \ {c} : call'[d] = call[d]
      /\ scratch' \in [Thread \cup {Main} -> Call \cup {None}]
      /\ \A u \in Thread : scratch'[u] = scratch[u]
      /\ fn = "inspect" /\ found => scratch'[Main] = c
      /\ found => reference
      /\ fn \in {"value", "close"} /\ found => resultSet = "open"
      /\ ~(fn = "close" /\ found) => resultSet' = resultSet
      /\ ~(reference /\ manager = "destroyed") => faults' = faults
  <2>1. PICK pointer \in BOOLEAN : pointer = reference /\ Native(c, Main, fn, pointer, found)
    BY <1>2 DEF Native, Inspect
  <2>2. \A u \in Thread : u \in (Thread \cup {Main}) \ {Main}
    OBVIOUS
  <2>3. Main \in Thread \cup {Main}
    OBVIOUS
  <2>4. /\ call' \in [Call -> CallRecord]
        /\ call'[c] = [fn |-> fn, stage |-> "returned", thread |-> Main,
                       pointer |-> pointer, found |-> found]
        /\ \A d \in Call \ {c} : call'[d] = call[d]
        /\ scratch' \in [Thread \cup {Main} -> Call \cup {None}]
    BY <1>2, <2>1, <2>3, NativeCall, SMTT(40)
  <2> QED
    BY <1>2, <2>1, <2>2, <2>3, <2>4, NativeCall
<1>5. ~Pending(c) /\ Pending(c)' /\ OnMain(c)' /\ Inside(c)'
  BY <1>1, <1>4 DEF Pending, NoCall, OnMain, Inside
<1>6. \A d \in Call \ {c} : /\ Pending(d)' <=> Pending(d)
                            /\ OnMain(d)' <=> OnMain(d)
                            /\ Pending(d) => ~OnMain(d)
                            /\ ~Inside(d) /\ ~Inside(d)'
  BY <1>1, <1>4 DEF Pending, OnMain, Inside, NodeInv, PlaceInv
<1>7. NodeTypeOK'
  BY <1>2, <1>3, <1>4 DEF NodeTypeOK
<1>8. ReferenceInv' /\ PointerInv'
  BY <1>1, <1>4, <1>5, <1>6 DEF NodeInv, ReferenceInv, PointerInv
<1>9. PlaceInv'
  <2>1. \A d \in Call : call[d].stage \in {"queued", "running"} => d # c
    BY <1>1 DEF NoCall
  <2>2. \A i \in DOMAIN queue : queue[i] \in Call
    BY <1>2 DEF NodeTypeOK
  <2>3. \A t \in Thread : worker[t] # None => worker[t] \in Call
    BY <1>2 DEF NodeTypeOK
  <2>4. call'[c].fn \in Function
    BY <1>4
  <2> QED
    BY <1>1, <1>4, <1>5, <1>6, <2>1, <2>2, <2>3, <2>4 DEF NodeInv, PlaceInv
<1>10. ScratchInv'
  <2>1. \A d \in Call \ {c} : d \in Busy("inspect")' => d \in Busy("inspect")
    BY <1>4, <1>6 DEF Busy
  <2>2. \A d \in Call \ {c} : Pending(d) /\ call[d].stage = "returned" =>
          call[d].thread \in Thread
    BY <1>2, <1>6 DEF NodeTypeOK, CallRecord, NodeInv, PlaceInv, OnMain
  <2>3. \A d, e \in Call :
          d # e /\ d \in Busy("inspect")' /\ e \in Busy("inspect")' /\ ~OnMain(d)' /\ ~OnMain(e)'
            => d \in overlapped'
    BY <1>5, <1>6, <2>1 DEF NodeInv, ScratchInv
  <2>4. ASSUME NEW d \in Busy("inspect")', call'[d].stage = "returned", call'[d].found
        PROVE  scratch'[call'[d].thread] = d \/ d \in overlapped'
    <3>1. CASE d = c
      BY <1>4, <2>4, <3>1 DEF Busy
    <3>2. CASE d # c
      <4>1. d \in Call \ {c} /\ d \in Busy("inspect") /\ Pending(d)
        BY <2>1, <2>4, <3>2 DEF Busy
      <4> QED
        BY <1>4, <2>2, <2>4, <4>1 DEF NodeInv, ScratchInv
    <3> QED
      BY <3>1, <3>2
  <2> QED
    BY <2>3, <2>4 DEF ScratchInv
<1>11. TextInv'
  <2>1. \A d \in Call \ {c} : d \notin Busy("value")'
    BY <1>4, <1>6 DEF Busy, NodeInv, PlaceInv
  <2>2. c \in Busy("value")' => Busy("close")' = Busy("close")
    BY <1>4, <1>5, <1>6 DEF Busy
  <2> QED
    BY <1>4, <2>1, <2>2 DEF TextInv, Busy
<1>12. MessageInv'
  BY <1>4, <1>6 DEF MessageInv, Inside, Pending
<1>13. OnlyOverlapsHurt'
  BY <1>4 DEF NodeInv, ReferenceInv, OnlyOverlapsHurt
<1> QED
  BY <1>7, <1>8, <1>9, <1>10, <1>11, <1>12, <1>13 DEF NodeInv

\* A call that the main thread makes at once.
LEMMA CallSyncKeeps ==
  ASSUME NodeInv, NEW c \in Call, CallSync(c)
  PROVE  NodeInv'
<1>1. PICK fn \in SyncFunctions, found \in BOOLEAN :
        /\ Native(c, Main, fn, reference, found)
        /\ LeaveMessage(c, reference, found, Cleared(reference))
        /\ overlapped' = IF fn = "value" /\ Busy("close") # {}
                           THEN overlapped \cup {c} ELSE overlapped
  BY DEF CallSync
<1>2. /\ Makes(c) /\ main' = "inside"
      /\ UNCHANGED <<reference, manager, errorBuffer, queue, worker>>
  BY DEF CallSync
<1>3. fn \in Function
  BY DEF Function
<1>4. /\ overlapped \subseteq overlapped'
      /\ fn = "value" /\ Busy("close") # {} => c \in overlapped'
  BY <1>1
<1> QED
  BY <1>1, <1>2, <1>3, <1>4, SyncKeeps

\* The end of a method, on the main thread.
LEMMA EndKeeps ==
  ASSUME NodeInv, NEW c \in Call, call' = [call EXCEPT ![c] = Settled],
         call[c].stage \in {"returned", "raising"}, Inside(c) \/ main = "idle", main' = "idle",
         faults' \subseteq faults \cup {c}, c \in overlapped \/ faults' = faults,
         errorBuffer' \in Call \cup {None},
         UNCHANGED <<reference, manager, message, resultSet, queue, worker, scratch, overlapped>>
  PROVE  NodeInv'
<1> USE ThreadAssumption
<1>1. NodeTypeOK
  BY DEF NodeInv
<1>2. Settled \in CallRecord /\ Settled.stage = "settled"
  BY DEF Settled, NoCall, CallRecord
<1>3. /\ call' \in [Call -> CallRecord]
      /\ call'[c] = Settled
      /\ \A d \in Call \ {c} : call'[d] = call[d]
  BY <1>1, <1>2 DEF NodeTypeOK
<1>4. /\ ~Pending(c)' /\ Pending(c) /\ ~Inside(c)'
      /\ \A d \in Call \ {c} : (Pending(d)' <=> Pending(d)) /\ (OnMain(d)' <=> OnMain(d))
      /\ \A fn : Busy(fn)' = Busy(fn) \ {c}
  BY <1>2, <1>3 DEF Pending, OnMain, Busy, Inside
<1>5. \A d \in Call : ~Inside(d)'
  <2>1. \A d \in Call \ {c} : Inside(d)' <=> Inside(d)
    BY <1>3, <1>4 DEF Inside
  <2>2. \A d \in Call \ {c} : ~Inside(d)
    BY DEF NodeInv, PlaceInv, Inside
  <2> QED
    BY <1>4, <2>1, <2>2
<1>6. NodeTypeOK'
  BY <1>1, <1>3 DEF NodeTypeOK
<1>7. ReferenceInv' /\ PointerInv'
  BY <1>3, <1>4 DEF NodeInv, ReferenceInv, PointerInv
<1>8. PlaceInv'
  <2>1. \A d \in Call : call[d].stage \in {"queued", "running"} => d # c
    OBVIOUS
  <2>2. \A i \in DOMAIN queue : queue[i] \in Call
    BY <1>1 DEF NodeTypeOK
  <2>3. \A t \in Thread : worker[t] # None => worker[t] \in Call
    BY <1>1 DEF NodeTypeOK
  <2> QED
    BY <1>3, <1>4, <1>5, <2>1, <2>2, <2>3 DEF NodeInv, PlaceInv
<1>9. ScratchInv' /\ TextInv'
  BY <1>3, <1>4 DEF NodeInv, ScratchInv, TextInv, Busy
<1>10. MessageInv'
  BY <1>5 DEF MessageInv, Inside, Pending
<1>11. OnlyOverlapsHurt'
  BY DEF NodeInv, OnlyOverlapsHurt
<1> QED
  BY <1>6, <1>7, <1>8, <1>9, <1>10, <1>11 DEF NodeInv

\* A method that ends with what its native function has found.
LEMMA SettleKeeps ==
  ASSUME NodeInv, NEW c \in Call, Settle(c), call[c].stage = "returned",
         OnMain(c) \/ main = "idle",
         UNCHANGED <<reference, manager, message, resultSet, queue, worker, scratch>>
  PROVE  NodeInv'
<1>1. c \in overlapped \/ ~TextIsGone(c)
  BY DEF Pending, TextIsGone, NodeInv, ScratchInv, TextInv, Busy
<1>2. /\ call' = [call EXCEPT ![c] = Settled] /\ main' = "idle"
      /\ faults' \subseteq faults \cup {c} /\ (c \in overlapped \/ faults' = faults)
      /\ UNCHANGED <<errorBuffer, overlapped>>
  BY <1>1 DEF Settle
<1>3. errorBuffer' \in Call \cup {None}
  BY <1>2 DEF NodeInv, NodeTypeOK
<1>4. Inside(c) \/ main = "idle"
  BY DEF Inside, Pending
<1> QED
  BY <1>2, <1>3, <1>4, EndKeeps

\* A method that has asked for a message reads it and throws.
LEMMA RaiseKeeps ==
  ASSUME NodeInv, NEW c \in Call, RaiseOnStatus(c)
  PROVE  NodeInv'
<1>1. c \in overlapped \/ errorBuffer = None \/ message = errorBuffer
  BY DEF RaiseOnStatus, NodeInv, MessageInv
<1>2. /\ call' = [call EXCEPT ![c] = Settled] /\ main' = "idle" /\ call[c].stage = "raising"
      /\ faults' \subseteq faults \cup {c} /\ (c \in overlapped \/ faults' = faults)
      /\ errorBuffer' \in Call \cup {None}
      /\ UNCHANGED <<reference, manager, message, resultSet, queue, worker, scratch, overlapped>>
  BY <1>1 DEF RaiseOnStatus
<1>3. Inside(c)
  BY <1>2 DEF Inside, Pending
<1> QED
  BY <1>2, <1>3, EndKeeps

\* A method that asks for the message of the manager.
LEMMA LastErrorMessageKeeps ==
  ASSUME NodeInv, NEW c \in Call, LastErrorMessage(c), call[c].stage = "returned",
         OnMain(c) \/ main = "idle",
         UNCHANGED <<reference, manager, message, resultSet, queue, worker, scratch>>
  PROVE  NodeInv'
<1> USE ThreadAssumption
<1>1. /\ NodeTypeOK /\ main' = "inside" /\ ~call[c].found
      /\ call' = [call EXCEPT ![c].stage = "raising"]
      /\ errorBuffer' \in {message, None}
      /\ overlapped \subseteq overlapped'
      /\ errorBuffer' # None /\ Underway # {} => c \in overlapped'
      /\ faults' = faults
  BY DEF NodeInv, ReferenceInv, LastErrorMessage
<1>2. /\ call' \in [Call -> CallRecord]
      /\ call'[c] = [call[c] EXCEPT !.stage = "raising"]
      /\ \A d \in Call \ {c} : call'[d] = call[d]
  <2>1. call \in [Call -> CallRecord] /\ call[c] \in CallRecord
    BY <1>1 DEF NodeTypeOK
  <2>2. [call[c] EXCEPT !.stage = "raising"] \in CallRecord
    BY <2>1 DEF CallRecord
  <2>3. call' = [call EXCEPT ![c] = [call[c] EXCEPT !.stage = "raising"]]
    BY <1>1, <2>1
  <2> QED
    BY <2>1, <2>2, <2>3
<1>3. /\ call'[c].fn = call[c].fn /\ call'[c].pointer = call[c].pointer
      /\ call'[c].stage = "raising" /\ call'[c].thread = call[c].thread
      /\ ~call'[c].found
  BY <1>1, <1>2 DEF NodeTypeOK, CallRecord
<1>4. /\ \A d \in Call : (Pending(d)' <=> Pending(d)) /\ (OnMain(d)' <=> OnMain(d))
      /\ \A d \in Call : call'[d].fn = call[d].fn /\ call'[d].pointer = call[d].pointer
  BY <1>2, <1>3 DEF Pending, OnMain
<1>5. \A fn : Busy(fn)' = Busy(fn)
  BY <1>4 DEF Busy
<1>6. \A d \in Call \ {c} : ~Inside(d) /\ ~Inside(d)'
  <2>1. \A d \in Call \ {c} : ~Inside(d)
    BY DEF NodeInv, PlaceInv, Inside, Pending
  <2>2. \A d \in Call \ {c} : Inside(d)' <=> Inside(d)
    BY <1>2, <1>4 DEF Inside
  <2> QED
    BY <2>1, <2>2
<1>7. NodeTypeOK'
  BY <1>1, <1>2 DEF NodeTypeOK
<1>8. ReferenceInv' /\ PointerInv'
  <2>1. main # "disposing"
    BY DEF Inside, Pending, NodeInv, PlaceInv
  <2> QED
    BY <1>1, <1>4, <2>1 DEF NodeInv, ReferenceInv, PointerInv
<1>9. PlaceInv'
  <2>1. \A d \in Call : call[d].stage \in {"queued", "running"} => d # c
    OBVIOUS
  <2>2. \A i \in DOMAIN queue : queue[i] \in Call
    BY <1>1 DEF NodeTypeOK
  <2>3. \A t \in Thread : worker[t] # None => worker[t] \in Call
    BY <1>1 DEF NodeTypeOK
  <2> QED
    BY <1>1, <1>2, <1>3, <1>4, <1>6, <2>1, <2>2, <2>3 DEF NodeInv, PlaceInv
<1>10. ScratchInv' /\ TextInv'
  <2>1. \A d \in Call : call'[d].stage = "returned" =>
          call[d].stage = "returned" /\ call'[d] = call[d]
    BY <1>2, <1>3
  <2>2. \A d \in Call : call'[d].found => call[d].found
    BY <1>2, <1>3
  <2> QED
    BY <1>1, <1>4, <1>5, <2>1, <2>2 DEF NodeInv, ScratchInv, TextInv, Busy
<1>11. MessageInv'
  <2>1. \A d \in Call \ {c} : call'[d].stage # "raising"
    BY <1>6 DEF Inside, Pending
  <2>2. Underway' = Underway
    BY <1>2, <1>3 DEF Underway
  <2> QED
    BY <1>1, <2>1, <2>2 DEF MessageInv
<1>12. OnlyOverlapsHurt'
  BY <1>1 DEF NodeInv, OnlyOverlapsHurt
<1> QED
  BY <1>7, <1>8, <1>9, <1>10, <1>11, <1>12 DEF NodeInv

\* A call enters the queue, with whatever else its method has done.
LEMMA QueueKeeps ==
  ASSUME NodeInv, NEW c \in Call, NEW fn \in PoolFunctions, Makes(c), Queue(c, fn),
         fn = "inspect" => overlapped' = IF Busy("inspect") # {}
                                           THEN overlapped \cup Busy("inspect") \cup {c}
                                           ELSE overlapped,
         overlapped \subseteq overlapped', faults' = faults, message' \in Call \cup {None},
         UNCHANGED <<reference, manager, resultSet, main, errorBuffer, worker, scratch>>
  PROVE  NodeInv'
<1> USE ThreadAssumption
<1>1. /\ NodeTypeOK /\ main = "idle" /\ call[c] = NoCall
      /\ call' = [call EXCEPT ![c] = [NoCall EXCEPT !.fn = fn, !.stage = "queued",
                                                    !.pointer = reference]]
      /\ queue' = Append(queue, c)
  BY DEF NodeInv, Makes, Queue
<1>2. [NoCall EXCEPT !.fn = fn, !.stage = "queued", !.pointer = reference] \in CallRecord
  BY <1>1 DEF NoCall, CallRecord, Function, NodeTypeOK
<1>3. /\ call' \in [Call -> CallRecord]
      /\ call'[c].fn = fn /\ call'[c].stage = "queued" /\ call'[c].thread = None
      /\ call'[c].pointer = reference
      /\ \A d \in Call \ {c} : call'[d] = call[d]
  BY <1>1, <1>2 DEF NodeTypeOK, NoCall
<1>4. /\ ~Pending(c) /\ Pending(c)' /\ ~OnMain(c)'
      /\ \A d \in Call \ {c} : (Pending(d)' <=> Pending(d)) /\ (OnMain(d)' <=> OnMain(d))
      /\ \A f : Busy(f)' = IF f = fn THEN Busy(f) \cup {c} ELSE Busy(f)
      /\ \A d \in Call : ~Inside(d) /\ ~Inside(d)'
      /\ \A d \in Call : Pending(d) => ~OnMain(d)
  BY <1>1, <1>3 DEF Pending, OnMain, Inside, Busy, NoCall, NodeInv, PlaceInv
<1>5. NodeTypeOK'
  BY <1>1, <1>3 DEF NodeTypeOK
<1>6. ReferenceInv' /\ PointerInv'
  BY <1>1, <1>3, <1>4 DEF NodeInv, ReferenceInv, PointerInv
<1>7. PlaceInv'
  <2>1. \A d \in Call : call[d].stage \in {"queued", "running"} => d # c
    BY <1>1 DEF NoCall
  <2>2. /\ \A i \in DOMAIN queue : queue[i] \in Call /\ queue'[i] = queue[i]
        /\ DOMAIN queue' = DOMAIN queue \cup {Len(queue) + 1}
        /\ queue'[Len(queue) + 1] = c
    BY <1>1 DEF NodeTypeOK
  <2>3. \A t \in Thread : worker[t] # None => worker[t] \in Call
    BY <1>1 DEF NodeTypeOK
  <2>4. fn # "value"
    BY DEF PoolFunctions
  <2>5. \A i \in DOMAIN queue' : call'[queue'[i]].stage = "queued"
    BY <1>3, <2>1, <2>2 DEF NodeInv, PlaceInv
  <2>6. \A i, j \in DOMAIN queue' : queue'[i] = queue'[j] => i = j
    BY <2>1, <2>2 DEF NodeInv, PlaceInv
  <2>7. call'[c].fn \in Function
    BY <1>3 DEF Function
  <2> QED
    BY <1>3, <1>4, <2>1, <2>3, <2>4, <2>5, <2>6, <2>7 DEF NodeInv, PlaceInv
<1>8. ScratchInv'
  BY <1>3, <1>4 DEF NodeInv, ScratchInv, Busy
<1>9. TextInv'
  BY <1>3, <1>4 DEF NodeInv, TextInv, PlaceInv, Busy, PoolFunctions
<1>10. MessageInv'
  BY <1>4 DEF MessageInv, Inside, Pending
<1>11. OnlyOverlapsHurt'
  BY DEF NodeInv, OnlyOverlapsHurt
<1> QED
  BY <1>5, <1>6, <1>7, <1>8, <1>9, <1>10, <1>11 DEF NodeInv

\* A call that is queued for the pool.
LEMMA CallAsyncKeeps ==
  ASSUME NodeInv, NEW c \in Call, CallAsync(c)
  PROVE  NodeInv'
<1>1. PICK fn \in PoolFunctions \ {"await"} :
        /\ Queue(c, fn)
        /\ overlapped' = IF fn = "inspect" /\ Busy("inspect") # {}
                           THEN overlapped \cup Busy("inspect") \cup {c} ELSE overlapped
  BY DEF CallAsync
<1>2. /\ Makes(c) /\ faults' = faults /\ message' = message
      /\ UNCHANGED <<reference, manager, resultSet, main, errorBuffer, worker, scratch>>
  BY DEF CallAsync
<1>3. message' \in Call \cup {None}
  BY <1>2 DEF NodeInv, NodeTypeOK
<1> QED
  BY <1>1, <1>2, <1>3, QueueKeeps

\* An operation that is begun on the main thread and awaited on the pool, or not begun.
LEMMA CallOperationKeeps ==
  ASSUME NodeInv, NEW c \in Call, CallOperation(c)
  PROVE  NodeInv'
<1>1. Makes(c) /\ UNCHANGED <<reference, manager, errorBuffer, worker, overlapped>>
  BY DEF CallOperation
<1>2. CASE /\ Queue(c, "await")
           /\ message' = Cleared(reference)
           /\ faults' = IF manager = "destroyed" THEN faults \cup {c} ELSE faults
           /\ reference
           /\ UNCHANGED <<resultSet, main, scratch>>
  <2>1. "await" \in PoolFunctions
    BY DEF PoolFunctions
  <2>2. faults' = faults
    BY <1>2 DEF NodeInv, ReferenceInv
  <2>3. message' \in Call \cup {None}
    BY <1>2 DEF Cleared
  <2> QED
    BY <1>1, <1>2, <2>1, <2>2, <2>3, QueueKeeps
<1>3. CASE /\ Native(c, Main, "start", reference, FALSE)
           /\ LeaveMessage(c, reference, FALSE, Cleared(reference))
           /\ main' = "inside" /\ queue' = queue
  <2>1. "start" \in Function /\ FALSE \in BOOLEAN
    BY DEF Function
  <2> QED
    BY <1>1, <1>3, <2>1, SyncKeeps
<1> QED
  BY <1>2, <1>3 DEF CallOperation

\* Disposing marks what is pending before the manager goes.
LEMMA DisposeKeeps ==
  ASSUME NodeInv, Dispose \/ EndDispose
  PROVE  NodeInv'
<1> USE ThreadAssumption
<1>1. /\ UNCHANGED <<resultSet, call, errorBuffer, queue, worker, scratch, faults>>
      /\ message' \in Call \cup {None}
      /\ main' # "inside" /\ main # "inside" /\ reference
      /\ manager' \in {"alive", "destroyed"} /\ main' \in {"idle", "disposing"}
      /\ overlapped \subseteq overlapped'
      /\ reference' \in BOOLEAN /\ (reference' <=> manager' = "alive")
      /\ main' = "disposing" => reference'
  BY DEF Dispose, EndDispose, NodeInv, ReferenceInv, NodeTypeOK
<1>2. \A c \in Call : Pending(c) /\ call[c].pointer => c \in overlapped'
  BY DEF Dispose, EndDispose, NodeInv, PointerInv
<1>3. \A c \in Call : Pending(c)' <=> Pending(c)
  BY <1>1 DEF Pending
<1>4. \A fn : Busy(fn)' = Busy(fn)
  BY <1>1, <1>3 DEF Busy
<1>5. \A c \in Call : (OnMain(c)' <=> OnMain(c)) /\ ~Inside(c) /\ ~Inside(c)'
  BY <1>1, <1>3 DEF OnMain, Inside, NodeInv, PlaceInv
<1>6. NodeTypeOK' /\ ReferenceInv' /\ PointerInv'
  BY <1>1, <1>2, <1>3 DEF NodeInv, NodeTypeOK, ReferenceInv, PointerInv
<1>7. PlaceInv' /\ ScratchInv' /\ TextInv' /\ OnlyOverlapsHurt'
  BY <1>1, <1>3, <1>4, <1>5 DEF NodeInv, PlaceInv, ScratchInv, TextInv, OnlyOverlapsHurt
<1>8. MessageInv'
  BY <1>5 DEF MessageInv, Inside, Pending
<1> QED
  BY <1>6, <1>7, <1>8 DEF NodeInv

-----------------------------------------------------------------------------
(* The steps of other threads *)

\* A thread of the pool takes the first of the queue.
LEMMA TakeKeeps ==
  ASSUME NodeInv, NEW t \in Thread, Take(t)
  PROVE  NodeInv'
<1> USE ThreadAssumption
<1>0. NodeTypeOK /\ queue \in Seq(Call) /\ queue # <<>> /\ Head(queue) \in Call
  BY DEF NodeInv, NodeTypeOK, Take
<1>1. PICK c \in Call :
        /\ c = Head(queue)
        /\ worker[t] = None
        /\ worker' = [worker EXCEPT ![t] = c]
        /\ call' = [call EXCEPT ![c].stage = "running", ![c].thread = t]
        /\ queue' = Tail(queue)
        /\ message' = Cleared(call[c].pointer)
        /\ UNCHANGED <<reference, manager, resultSet, operation, main, errorBuffer, overlapped,
                       faults>>
  BY <1>0 DEF Take
<1>2. /\ NodeTypeOK /\ c \in Call /\ c = queue[1] /\ 1 \in DOMAIN queue
      /\ queue' \in Seq(Call)
      /\ \A i \in DOMAIN queue' : i + 1 \in DOMAIN queue /\ queue'[i] = queue[i + 1] /\ i \in Nat
      /\ \A i \in DOMAIN queue' : i + 1 # 1
  BY <1>0, <1>1
<1>3. /\ call[c].stage = "queued"
      /\ \A i \in DOMAIN queue' : queue'[i] \in Call /\ queue'[i] # c
      /\ \A i, j \in DOMAIN queue' : queue'[i] = queue'[j] => i = j
  <2>1. call[c].stage = "queued"
    BY <1>2 DEF NodeInv, PlaceInv
  <2>2. \A i \in DOMAIN queue : queue[i] \in Call
    BY <1>2 DEF NodeTypeOK
  <2>3. \A i \in DOMAIN queue' : queue'[i] \in Call /\ queue'[i] # c
    BY <1>2, <2>2 DEF NodeInv, PlaceInv
  <2>4. \A i, j \in DOMAIN queue' : queue'[i] = queue'[j] => i + 1 = j + 1
    BY <1>2 DEF NodeInv, PlaceInv
  <2>5. \A i, j \in DOMAIN queue' : i + 1 = j + 1 => i = j
    BY <1>2
  <2> QED
    BY <2>1, <2>3, <2>4, <2>5
<1>4. /\ call' \in [Call -> CallRecord]
      /\ call'[c] = [call[c] EXCEPT !.stage = "running", !.thread = t]
      /\ \A d \in Call \ {c} : call'[d] = call[d]
  <2>1. call \in [Call -> CallRecord] /\ call[c] \in CallRecord
    BY <1>2 DEF NodeTypeOK
  <2>2. [call[c] EXCEPT !.stage = "running", !.thread = t] \in CallRecord
    BY <2>1 DEF CallRecord
  <2>3. call' = [call EXCEPT ![c] = [call[c] EXCEPT !.stage = "running", !.thread = t]]
    BY <1>1, <1>2, <2>1
  <2> QED
    BY <1>2, <2>1, <2>2, <2>3
<1>5. /\ call'[c].fn = call[c].fn /\ call'[c].pointer = call[c].pointer
      /\ call'[c].stage = "running" /\ call'[c].thread = t
  BY <1>2, <1>4 DEF NodeTypeOK, CallRecord
<1>6. /\ Pending(c) /\ Pending(c)' /\ ~OnMain(c) /\ ~OnMain(c)'
      /\ \A d \in Call \ {c} : (Pending(d)' <=> Pending(d)) /\ (OnMain(d)' <=> OnMain(d))
      /\ \A d \in Call : Inside(d)' <=> Inside(d)
      /\ \A fn : Busy(fn)' = Busy(fn)
  <2>1. Pending(c) /\ Pending(c)' /\ ~OnMain(c) /\ ~OnMain(c)'
    BY <1>2, <1>3, <1>5 DEF Pending, OnMain, Inside, NodeInv, PlaceInv
  <2>2. \A d \in Call \ {c} : (Pending(d)' <=> Pending(d)) /\ (OnMain(d)' <=> OnMain(d))
    BY <1>4 DEF Pending, OnMain
  <2>3. \A d \in Call : call'[d].fn = call[d].fn /\ (Pending(d)' <=> Pending(d))
    BY <1>4, <1>5, <2>1, <2>2
  <2>4. \A fn : Busy(fn)' = Busy(fn)
    BY <2>3 DEF Busy
  <2>5. \A d \in Call : Inside(d)' <=> Inside(d)
    BY <1>3, <1>4, <1>5, <2>1, <2>2 DEF Inside
  <2> QED
    BY <2>1, <2>2, <2>4, <2>5
<1>7. /\ scratch' \in [Thread \cup {Main} -> Call \cup {None}]
      /\ \A u \in (Thread \cup {Main}) \ {t} : scratch'[u] = scratch[u]
      /\ call[c].fn # "inspect" => scratch' = scratch
  BY <1>1, <1>2 DEF Take, Inspect, NodeTypeOK
<1>8. NodeTypeOK'
  BY <1>1, <1>2, <1>4, <1>7 DEF NodeTypeOK, Cleared
<1>9. ReferenceInv' /\ PointerInv'
  BY <1>1, <1>2, <1>4, <1>5, <1>6 DEF NodeInv, ReferenceInv, PointerInv
<1>10. PlaceInv'
  <2>1. \A i \in DOMAIN queue' : call'[queue'[i]].stage = "queued"
    BY <1>2, <1>3, <1>4 DEF NodeInv, PlaceInv
  <2>2. \A u \in Thread : worker'[u] # None =>
          call'[worker'[u]].stage = "running" /\ call'[worker'[u]].thread = u
    <3>1. \A u \in Thread \ {t} : worker'[u] = worker[u] /\ worker[u] \in Call \cup {None}
      BY <1>1, <1>2 DEF NodeTypeOK
    <3>2. worker'[t] = c
      BY <1>1, <1>2 DEF NodeTypeOK
    <3>3. \A u \in Thread \ {t} : worker[u] # None =>
            worker[u] # c /\ call[worker[u]].stage = "running" /\ call[worker[u]].thread = u
      BY <1>3 DEF NodeInv, PlaceInv
    <3>4. \A u \in Thread \ {t} : worker'[u] # None =>
            call'[worker'[u]].stage = "running" /\ call'[worker'[u]].thread = u
      BY <1>4, <3>1, <3>3
    <3> QED
      BY <1>5, <3>2, <3>4
  <2>3. \A d \in Call : Pending(d)' =>
          /\ Inside(d)' => main' = "inside" /\ call'[d].stage \in {"returned", "raising"}
          /\ call'[d].fn = "value" => OnMain(d)'
          /\ call'[d].stage = "returned" => call'[d].thread # None
          /\ call'[d].fn \in Function
    BY <1>1, <1>2, <1>4, <1>5, <1>6 DEF NodeInv, PlaceInv
  <2>4. \A d, e \in Call : Inside(d)' /\ Inside(e)' => d = e
    BY <1>6 DEF NodeInv, PlaceInv
  <2> QED
    BY <1>3, <2>1, <2>2, <2>3, <2>4 DEF PlaceInv
<1>11. ScratchInv'
  <2>1. \A d, e \in Call :
          d # e /\ d \in Busy("inspect")' /\ e \in Busy("inspect")' /\ ~OnMain(d)' /\ ~OnMain(e)'
            => d \in overlapped'
    BY <1>1, <1>6 DEF NodeInv, ScratchInv
  <2>2. ASSUME NEW d \in Busy("inspect")', call'[d].stage = "returned", call'[d].found
        PROVE  scratch'[call'[d].thread] = d \/ d \in overlapped'
    <3>1. d # c /\ d \in Busy("inspect") /\ d \in Call /\ Pending(d) /\ call'[d] = call[d]
      BY <1>4, <1>5, <1>6, <2>2 DEF Busy
    <3>2. call[d].thread \in Thread \cup {Main}
      BY <1>2, <2>2, <3>1 DEF NodeTypeOK, CallRecord, NodeInv, PlaceInv
    <3>3. CASE call[d].thread = t /\ call[c].fn = "inspect"
      <4>1. c \in Busy("inspect") /\ ~OnMain(d)
        BY <1>2, <1>6, <3>3 DEF Busy, OnMain
      <4> QED
        BY <1>1, <1>2, <1>6, <3>1, <4>1 DEF NodeInv, ScratchInv
    <3>4. CASE call[d].thread # t \/ call[c].fn # "inspect"
      BY <1>1, <1>7, <2>2, <3>1, <3>2, <3>4 DEF NodeInv, ScratchInv
    <3> QED
      BY <3>3, <3>4
  <2> QED
    BY <2>1, <2>2 DEF ScratchInv
<1>12. TextInv'
  <2>1. \A d \in Busy("value") : d # c /\ call'[d] = call[d]
    BY <1>4, <1>6 DEF Busy, NodeInv, PlaceInv
  <2> QED
    BY <1>1, <1>6, <2>1 DEF NodeInv, TextInv
<1>13. MessageInv'
  <2>1. ASSUME NEW d \in Call, call'[d].stage = "raising", errorBuffer' # None
        PROVE  /\ Underway' # {} => d \in overlapped'
               /\ message' = errorBuffer' \/ d \in overlapped'
    <3>1. d # c /\ call[d].stage = "raising" /\ errorBuffer # None
      BY <1>1, <1>4, <1>5, <2>1
    <3>2. Underway' = Underway /\ (call[c].pointer => c \in Underway)
      <4>1. \A e \in Call : e \in Underway' <=> e \in Underway
        BY <1>3, <1>4, <1>5 DEF Underway
      <4> QED
        BY <1>2, <1>3, <4>1 DEF Underway
    <3>3. \/ message' = message
          \/ Underway # {}
      BY <1>1, <3>2 DEF Cleared
    <3> QED
      BY <1>1, <3>1, <3>2, <3>3 DEF NodeInv, MessageInv
  <2> QED
    BY <2>1 DEF MessageInv
<1>14. OnlyOverlapsHurt'
  BY <1>1 DEF NodeInv, OnlyOverlapsHurt
<1> QED
  BY <1>8, <1>9, <1>10, <1>11, <1>12, <1>13, <1>14 DEF NodeInv

\* A native function returns on its thread, with a result or without.
LEMMA FinishKeeps ==
  ASSUME NodeInv, NEW t \in Thread, Finish(t)
  PROVE  NodeInv'
<1> USE ThreadAssumption
<1>1. NodeTypeOK /\ worker[t] \in Call
  BY DEF NodeInv, NodeTypeOK, Finish
<1>2. PICK c \in Call : c = worker[t]
  BY <1>1
<1>3. /\ call[c] \in CallRecord /\ call[c].stage = "running" /\ call[c].thread = t
      /\ c # None /\ Pending(c) /\ ~OnMain(c)
  BY <1>1, <1>2 DEF NodeInv, NodeTypeOK, PlaceInv, Pending, OnMain
<1>4. PICK fn \in Function, pointer \in BOOLEAN, found \in BOOLEAN :
        /\ fn = call[c].fn /\ pointer = call[c].pointer
        /\ Native(c, t, fn, pointer, found)
        /\ LeaveMessage(c, pointer, found, message)
  <2>1. PICK found \in BOOLEAN : /\ Native(c, t, call[c].fn, call[c].pointer, found)
                                 /\ LeaveMessage(c, call[c].pointer, found, message)
    BY <1>2 DEF Finish
  <2>2. call[c].fn \in Function /\ call[c].pointer \in BOOLEAN
    BY <1>3 DEF CallRecord, NodeInv, PlaceInv
  <2>3. PICK fn \in Function, pointer \in BOOLEAN : fn = call[c].fn /\ pointer = call[c].pointer
    BY <2>2
  <2>4. Native(c, t, fn, pointer, found) /\ LeaveMessage(c, pointer, found, message)
    BY <2>1, <2>3 DEF Native, Inspect, LeaveMessage
  <2> QED
    BY <2>3, <2>4
<1>5. /\ worker' = [worker EXCEPT ![t] = None]
      /\ UNCHANGED <<reference, manager, operation, main, errorBuffer, queue, overlapped>>
  BY <1>2 DEF Finish
<1>6. /\ call' \in [Call -> CallRecord]
      /\ call'[c] = [fn |-> fn, stage |-> "returned", thread |-> t,
                     pointer |-> pointer, found |-> found]
      /\ \A d \in Call \ {c} : call'[d] = call[d]
      /\ scratch' \in [Thread \cup {Main} -> Call \cup {None}]
      /\ \A u \in (Thread \cup {Main}) \ {t} : scratch'[u] = scratch[u]
      /\ fn = "inspect" /\ found => scratch'[t] = c
      /\ fn # "inspect" => scratch' = scratch
  <2>1. t \in Thread \cup {Main}
    OBVIOUS
  <2>2. /\ call' \in [Call -> CallRecord]
        /\ call'[c] = [fn |-> fn, stage |-> "returned", thread |-> t,
                       pointer |-> pointer, found |-> found]
        /\ \A d \in Call \ {c} : call'[d] = call[d]
    BY <1>1, <1>4, <2>1, NativeCall
  <2>3. /\ scratch' \in [Thread \cup {Main} -> Call \cup {None}]
        /\ \A u \in (Thread \cup {Main}) \ {t} : scratch'[u] = scratch[u]
    BY <1>1, <1>4, <2>1 DEF Native, Inspect, NodeTypeOK
  <2>4. /\ fn = "inspect" /\ found => scratch'[t] = c
        /\ fn # "inspect" => scratch' = scratch
    BY <1>1, <1>4, <2>1 DEF Native, Inspect, NodeTypeOK
  <2> QED
    BY <2>2, <2>3, <2>4
<1>7. /\ ~(fn = "close" /\ found) => resultSet' = resultSet
      /\ faults' \subseteq faults \cup {c}
      /\ ~(pointer /\ manager = "destroyed") => faults' = faults
  BY <1>4 DEF Native
<1>8. /\ Pending(c)' /\ ~OnMain(c)'
      /\ \A d \in Call \ {c} : OnMain(d)' <=> OnMain(d)
      /\ \A d \in Call : Pending(d)' <=> Pending(d)
      /\ \A d \in Call : Inside(d)' <=> Inside(d)
      /\ \A f : Busy(f)' = Busy(f)
  <2>1. Pending(c)' /\ ~OnMain(c)'
    BY <1>6 DEF Pending, OnMain
  <2>2. \A d \in Call \ {c} : (Pending(d)' <=> Pending(d)) /\ (OnMain(d)' <=> OnMain(d))
    BY <1>6 DEF Pending, OnMain
  <2>3. \A d \in Call : call'[d].fn = call[d].fn /\ (Pending(d)' <=> Pending(d))
    BY <1>3, <1>4, <1>6, <2>1, <2>2
  <2>4. \A f : Busy(f)' = Busy(f)
    BY <2>3 DEF Busy
  <2>5. \A d \in Call : Inside(d)' <=> Inside(d)
    BY <1>3, <1>6, <2>1, <2>2 DEF Inside
  <2> QED
    BY <2>1, <2>2, <2>3, <2>4, <2>5
<1>9. NodeTypeOK'
  <2>1. message' \in Call \cup {None}
    BY <1>1, <1>4 DEF LeaveMessage, NodeTypeOK
  <2> QED
    BY <1>1, <1>5, <1>6, <2>1 DEF NodeTypeOK
<1>10. ReferenceInv' /\ PointerInv'
  BY <1>4, <1>5, <1>6, <1>8 DEF NodeInv, ReferenceInv, PointerInv
<1>11. PlaceInv'
  <2>1. \A i \in DOMAIN queue : queue[i] \in Call /\ call[queue[i]].stage = "queued"
    BY <1>1 DEF NodeInv, NodeTypeOK, PlaceInv
  <2>2. \A i \in DOMAIN queue' : call'[queue'[i]].stage = "queued"
    BY <1>3, <1>5, <1>6, <2>1
  <2>3. \A u \in Thread \ {t} : worker[u] # None =>
          /\ worker[u] \in Call \ {c}
          /\ call[worker[u]].stage = "running" /\ call[worker[u]].thread = u
    BY <1>1, <1>3 DEF NodeInv, NodeTypeOK, PlaceInv
  <2>4. worker'[t] = None /\ \A u \in Thread \ {t} : worker'[u] = worker[u]
    BY <1>1, <1>5 DEF NodeTypeOK
  <2>5. \A u \in Thread : worker'[u] # None =>
          call'[worker'[u]].stage = "running" /\ call'[worker'[u]].thread = u
    BY <1>6, <2>3, <2>4
  <2>6. call'[c].fn # "value" /\ call'[c].thread # None /\ call'[c].fn \in Function
    BY <1>3, <1>4, <1>6 DEF NodeInv, PlaceInv
  <2>7. \A d \in Call : Pending(d)' =>
          /\ Inside(d)' => main' = "inside" /\ call'[d].stage \in {"returned", "raising"}
          /\ call'[d].fn = "value" => OnMain(d)'
          /\ call'[d].stage = "returned" => call'[d].thread # None
          /\ call'[d].fn \in Function
    BY <1>5, <1>6, <1>8, <2>6 DEF NodeInv, PlaceInv
  <2>8. \A d, e \in Call : Inside(d)' /\ Inside(e)' => d = e
    BY <1>8 DEF NodeInv, PlaceInv
  <2> QED
    BY <1>5, <2>2, <2>5, <2>7, <2>8 DEF NodeInv, PlaceInv
<1>12. ScratchInv'
  <2>1. \A d, e \in Call :
          d # e /\ d \in Busy("inspect")' /\ e \in Busy("inspect")' /\ ~OnMain(d)' /\ ~OnMain(e)'
            => d \in overlapped'
    BY <1>3, <1>5, <1>8 DEF NodeInv, ScratchInv
  <2>2. ASSUME NEW d \in Busy("inspect")', call'[d].stage = "returned", call'[d].found
        PROVE  scratch'[call'[d].thread] = d \/ d \in overlapped'
    <3>1. CASE d = c
      BY <1>6, <2>2, <3>1 DEF Busy
    <3>2. CASE d # c
      <4>1. d \in Busy("inspect") /\ d \in Call /\ Pending(d) /\ call'[d] = call[d]
        BY <1>6, <1>8, <2>2, <3>2 DEF Busy
      <4>2. call[d].thread \in Thread \cup {Main}
        BY <1>1, <2>2, <4>1 DEF NodeTypeOK, CallRecord, NodeInv, PlaceInv
      <4>3. CASE call[d].thread = t /\ fn = "inspect"
        <5>1. c \in Busy("inspect") /\ ~OnMain(d)
          BY <1>3, <1>4, <4>3 DEF Busy, OnMain
        <5> QED
          BY <1>3, <1>5, <3>2, <4>1, <5>1 DEF NodeInv, ScratchInv
      <4>4. CASE call[d].thread # t \/ fn # "inspect"
        BY <1>5, <1>6, <2>2, <4>1, <4>2, <4>4 DEF NodeInv, ScratchInv
      <4> QED
        BY <4>3, <4>4
    <3> QED
      BY <3>1, <3>2
  <2> QED
    BY <2>1, <2>2 DEF ScratchInv
<1>13. TextInv'
  <2>1. \A d \in Busy("value") : d # c /\ call'[d] = call[d]
    BY <1>3, <1>6 DEF Busy, NodeInv, PlaceInv
  <2>2. fn = "close" => c \in Busy("close")
    BY <1>3, <1>4 DEF Busy
  <2> QED
    BY <1>5, <1>7, <1>8, <2>1, <2>2 DEF NodeInv, TextInv
<1>14. MessageInv'
  <2>1. ASSUME NEW d \in Call, call'[d].stage = "raising", errorBuffer' # None
        PROVE  /\ Underway' # {} => d \in overlapped'
               /\ message' = errorBuffer' \/ d \in overlapped'
    <3>1. d # c /\ call[d].stage = "raising" /\ errorBuffer # None
      BY <1>5, <1>6, <2>1
    <3>2. Underway' \subseteq Underway /\ (pointer => c \in Underway)
      BY <1>3, <1>4, <1>6 DEF Underway
    <3>3. \/ message' = message
          \/ Underway # {}
      BY <1>4, <3>2 DEF LeaveMessage
    <3> QED
      BY <1>5, <3>1, <3>2, <3>3 DEF NodeInv, MessageInv
  <2> QED
    BY <2>1 DEF MessageInv
<1>15. OnlyOverlapsHurt'
  <2>1. pointer /\ manager = "destroyed" => c \in overlapped
    BY <1>3, <1>4 DEF NodeInv, ReferenceInv, PointerInv
  <2> QED
    BY <1>5, <1>7, <2>1 DEF NodeInv, OnlyOverlapsHurt
<1> QED
  BY <1>9, <1>10, <1>11, <1>12, <1>13, <1>14, <1>15 DEF NodeInv

\* Threads of operations change nothing that NodeInv speaks of.
LEMMA OtherStepsKeep ==
  ASSUME NodeInv,
         UNCHANGED <<reference, manager, message, resultSet, call, main, errorBuffer, queue,
                     worker, scratch, overlapped, faults>>
  PROVE  NodeInv'
<1>1. \A c \in Call : (Pending(c)' <=> Pending(c)) /\ (OnMain(c)' <=> OnMain(c))
  BY DEF Pending, OnMain
<1>2. \A c \in Call : Inside(c)' <=> Inside(c)
  BY <1>1 DEF Inside
<1>3. Underway' = Underway
  BY DEF Underway
<1>4. \A fn : Busy(fn)' = Busy(fn)
  BY <1>1 DEF Busy
<1> QED
  BY <1>1, <1>2, <1>3, <1>4
  DEF NodeInv, NodeTypeOK, ReferenceInv, PlaceInv, PointerInv, ScratchInv, TextInv, MessageInv,
      OnlyOverlapsHurt

-----------------------------------------------------------------------------

\* NodeInv is inductive: whatever the event loop, the pool and the library's threads do in
\* whatever order, it holds after every step.
THEOREM NodeInductiveInvariant == Spec => []NodeInv
<1>1. ASSUME NodeInv, [Next]_vars
      PROVE  NodeInv'
  <2>1. ASSUME NEW c \in Call, CallSync(c) PROVE NodeInv'
    BY <1>1, <2>1, CallSyncKeeps
  <2>2. ASSUME NEW c \in Call, ReturnSync(c) PROVE NodeInv'
    <3>1. /\ Settle(c) \/ LastErrorMessage(c)
          /\ call[c].stage = "returned" /\ OnMain(c)
          /\ UNCHANGED <<reference, manager, message, resultSet, queue, worker, scratch>>
      BY <2>2 DEF ReturnSync, OnMain
    <3> QED
      BY <1>1, <3>1, SettleKeeps, LastErrorMessageKeeps
  <2>3. ASSUME NEW c \in Call, CallAsync(c) PROVE NodeInv'
    BY <1>1, <2>3, CallAsyncKeeps
  <2>4. ASSUME NEW c \in Call, CallOperation(c) PROVE NodeInv'
    BY <1>1, <2>4, CallOperationKeeps
  <2>5. ASSUME NEW c \in Call, Continue(c) PROVE NodeInv'
    <3>1. /\ Settle(c) \/ LastErrorMessage(c)
          /\ call[c].stage = "returned" /\ main = "idle"
          /\ UNCHANGED <<reference, manager, message, resultSet, queue, worker, scratch>>
      BY <2>5 DEF Continue
    <3> QED
      BY <1>1, <3>1, SettleKeeps, LastErrorMessageKeeps
  <2>6. ASSUME NEW c \in Call, RaiseOnStatus(c) PROVE NodeInv'
    BY <1>1, <2>6, RaiseKeeps
  <2>7. CASE Dispose \/ EndDispose
    BY <1>1, <2>7, DisposeKeeps
  <2>8. ASSUME NEW t \in Thread, Take(t) PROVE NodeInv'
    BY <1>1, <2>8, TakeKeeps
  <2>9. ASSUME NEW t \in Thread, Finish(t) PROVE NodeInv'
    BY <1>1, <2>9, FinishKeeps
  <2>10. ASSUME NEW c \in Call, RunOperation(c) PROVE NodeInv'
    BY <1>1, <2>10, OtherStepsKeep DEF RunOperation
  <2>11. CASE UNCHANGED vars
    BY <1>1, <2>11, OtherStepsKeep DEF vars
  <2> QED
    BY <1>1, <2>1, <2>2, <2>3, <2>4, <2>5, <2>6, <2>7, <2>8, <2>9, <2>10, <2>11
    DEF Next
<1> QED
  BY InitNode, <1>1, PTL DEF Spec

\* The binding touches memory that is not its own only for a call its program has run into
\* with dispose, a second inspection or a close, or that failed while another was under way:
\* whatever the number of calls and the size of the pool, and whichever thread is given which
\* call.
THEOREM FaultsAreOverlaps == Spec => []OnlyOverlapsHurt
<1>1. NodeInv => OnlyOverlapsHurt
  BY DEF NodeInv
<1> QED
  BY NodeInductiveInvariant, <1>1, PTL
=============================================================================
