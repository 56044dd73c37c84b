-------------------------- MODULE RustBinding_proofs --------------------------
(***************************************************************************)
(* Theorems about RustBinding, for any number of managers, handles and     *)
(* rows: the binding makes only steps the manager has, every native object *)
(* keeps an owner, and the library stays for as long as it is needed.      *)
(*                                                                         *)
(* RustInv adds to the properties where the thread is: which of the        *)
(* library, the Rc and the tables each place of new, close and the drops   *)
(* finds, and that a handle's connection is the one its entry names.       *)
(***************************************************************************)
EXTENDS RustBinding, ConnectionManager_proofs, FiniteSetTheorems

\* The Rc counts the handles, of which there are finitely many.
CountInv ==
  /\ managers \in Nat
  /\ IsFiniteSet(DOMAIN handles)
  /\ strong = managers + Cardinality(DOMAIN handles)

\* Inside new: nothing has been made yet.
Starting ==
  /\ strong = 0 /\ stage = "ready" /\ heap = orphans
  /\ library <=> at # "unloaded"

\* Inside close or a drop.  The Cell is empty; the entry of a connection waits for the
\* driver, the entry of a child has gone with the call.
Closing ==
  /\ library /\ strong > 0
  /\ stage \in {"ready", "close_cursors", "close_result_sets", "close_connection"}
  /\ subject \in DOMAIN handles /\ handles[subject].id = 0
  /\ stage # "ready" => subject = <<"connection", closing>>
  /\ stage = "ready" => subject[2] \notin TableOf(subject)

\* What each place of the thread finds.
PlaceInv ==
  /\ at \in At
  /\ library \in BOOLEAN
  /\ at \in {"unloaded", "resolving", "creating"} => Starting
  /\ at = "idle" => library /\ strong > 0 /\ stage = "ready"
  /\ at \in {"closing", "dropping"} => Closing
  /\ at \notin {"closing", "dropping"} => subject = NoName
  /\ at = "destroying" => library /\ strong = 0 /\ stage = "ready"
  /\ at = "draining" =>
       /\ library /\ strong = 0
       /\ stage \in {"deinit_cursors", "deinit_result_sets", "deinit_connections", "gone"}
  /\ at = "gone" => ~library /\ strong = 0 /\ stage = "gone"

\* A handle goes by an id its table has issued, and was opened on a connection with one.
NamesInv ==
  /\ DOMAIN handles \subseteq Name
  /\ \A n \in DOMAIN handles :
       /\ handles[n] \in [id : {0, n[2]}, connection : Nat]
       /\ n[2] # 0
       /\ handles[n].connection < next_connection_id
       /\ n[1] = "connection" => n[2] < next_connection_id /\ handles[n].connection = n[2]
       /\ n[1] = "result_set" => n[2] < next_result_set_id
       /\ n[1] = "cursor" => n[2] < next_cursor_id

Owned(type, i, connection) ==
  /\ <<type, i>> \in DOMAIN handles
  /\ handles[<<type, i>>].id = i
  /\ handles[<<type, i>>].connection = connection

\* The owner of an entry has it open, and remembers the connection the entry names.
OwnersInv ==
  /\ \A i \in DOMAIN connections : subject # <<"connection", i>> => Owned("connection", i, i)
  /\ \A i \in DOMAIN result_sets :
       Owned("result_set", i, result_sets[i].handle.connection_id)
  /\ \A i \in DOMAIN cursors : Owned("cursor", i, cursors[i].handle.connection_id)

\* An open handle leads to its entry, unless its connection has taken it along.
ReachInv ==
  \A n \in DOMAIN handles :
    handles[n].id # 0 /\ n[2] \notin TableOf(n) =>
      /\ n[1] # "connection"
      /\ handles[n].connection \in DOMAIN connections => handles[n].connection = closing

\* What a call may report: an error that says what is missing says it of its own table.
Reported(a) ==
  /\ a.name \in Name \cup {NoName}
  /\ a.kind \in {"none", "library", "invalid_input", "status", "closed"}
  /\ a.status # "none" => a.kind = "status"
  /\ a.status \in {"ResultSetNotFound", "CursorNotFound"} => a.status = MissingError(a.name)
  /\ a.status # "ConnectionNotFound"

AnswerInv == Reported(answer)

\* Nothing is being closed while the manager takes calls.
ClosingInv == stage = "ready" => closing = 0

HandlesInv == CountInv /\ PlaceInv /\ NamesInv /\ OwnersInv /\ ReachInv

RustInv == IInv /\ ClosingInv /\ HandlesInv /\ AnswerInv

-----------------------------------------------------------------------------
(* The tables take the steps of ConnectionManager *)

\* An open handle of a connection finds its connection, and no id is out of range.
LEMMA ConnectionsInRange ==
  ASSUME TypeOK
  PROVE  /\ \A c \in DOMAIN connections : c \in CallerId
         /\ \A i \in DOMAIN result_sets : i \in 0..MaxResultSets
         /\ \A i \in DOMAIN cursors : i \in 0..MaxCursors
BY BoundAssumption DEF TypeOK, IsTable, CallerId

LEMMA CloseNativeIsStep ==
  ASSUME TypeOK, NamesInv, ReachInv, NEW name \in DOMAIN handles, handles[name].id # 0,
         CloseNative(name, handles[name].id)
  PROVE  [Next]_managerVars
<1> DEFINE id == handles[name].id
<1>1. id = name[2]
  BY DEF NamesInv
<1>2. CASE CloseConnectionNative(name, id)
  <2>1. id \in DOMAIN connections
    BY <1>1, <1>2 DEF CloseConnectionNative, ReachInv, TableOf
  <2>2. id \in CallerId /\ Close(id)
    BY <1>2, <2>1, ConnectionsInRange DEF CloseConnectionNative
  <2> QED
    BY <2>2 DEF Next, Call
<1>3. CASE CloseResultSetNative(name, id)
  <2>1. CASE CloseResultSet(id)
    BY <2>1, ConnectionsInRange DEF CloseResultSet, Next, Call
  <2> QED
    BY <1>3, <2>1 DEF CloseResultSetNative
<1>4. CASE CloseCursorNative(name, id)
  <2>1. CASE CloseCursor(id)
    BY <2>1, ConnectionsInRange DEF CloseCursor, Next, Call
  <2> QED
    BY <1>4, <2>1 DEF CloseCursorNative
<1> QED
  BY <1>2, <1>3, <1>4 DEF CloseNative

LEMMA OnHandleIsStep ==
  ASSUME TypeOK, NamesInv, ReachInv, NEW name \in DOMAIN handles, OnHandle(name)
  PROVE  [Next]_managerVars
<1> DEFINE id == handles[name].id
<1>1. ASSUME NEW outcome \in Outcome,
             \/ \E mode \in Mode : ConnectionExecute(name, outcome, mode)
             \/ ConnectionGetTables(name, outcome)
             \/ ConnectionGetCatalogs(name, outcome)
             \/ ConnectionGetDatabases(name, outcome)
      PROVE  Next
  <2>1. \/ Execute(id, outcome) \/ GetTables(id, outcome)
        \/ GetCatalogs(id, outcome) \/ GetDatabases(id, outcome)
    BY <1>1 DEF ConnectionExecute, ConnectionGetTables, ConnectionGetCatalogs,
                ConnectionGetDatabases
  <2>2. id \in DOMAIN connections
    BY <2>1 DEF Execute, GetTables, GetCatalogs, GetDatabases, NewResultSet
  <2> QED
    BY <2>1, <2>2, ConnectionsInRange DEF Next, Call
<1>2. ASSUME NEW outcome \in Outcome, NEW mode \in Mode, NEW n \in 0..MaxRows,
             ConnectionCursor(name, outcome, n, mode)
      PROVE  Next
  <2>1. OpenCursor(id, outcome, n)
    BY <1>2 DEF ConnectionCursor
  <2>2. id \in DOMAIN connections
    BY <2>1 DEF OpenCursor
  <2> QED
    BY <2>1, <2>2, ConnectionsInRange DEF Next, Call
<1>3. CASE CursorNext(name)
  <2>1. FetchNext(id) /\ id \in DOMAIN cursors
    BY <1>3 DEF CursorNext, FetchNext
  <2> QED
    BY <2>1, ConnectionsInRange DEF Next, Call
<1>4. CASE ReadConnection(name) \/ ReadResultSet(name) \/ ReadCursor(name) \/ Refuse(name)
  BY <1>4 DEF ReadConnection, ReadResultSet, ReadCursor, Read, Refuse
<1>5. CASE CloseHandle(name) \/ DropHandle(name)
  BY <1>5, CloseNativeIsStep DEF CloseHandle, DropHandle, CloseId
<1> QED
  BY <1>1, <1>2, <1>3, <1>4, <1>5 DEF OnHandle

LEMMA RustStepIsStep ==
  TypeOK /\ NamesInv /\ ReachInv /\ [RustNext]_allVars => [Next]_managerVars
<1> SUFFICES ASSUME TypeOK, NamesInv, ReachInv, [RustNext]_allVars PROVE [Next]_managerVars
  OBVIOUS
<1>1. CASE \/ OpenLibrary \/ CloneManager \/ DropManager
           \/ ResolveSymbols \/ CreateManager
           \/ ReturnFromClose \/ ReturnFromDrop \/ UnloadLibrary
  BY <1>1 DEF OpenLibrary, CloneManager, DropManager, ResolveSymbols, CreateManager,
              ReturnFromClose, ReturnFromDrop, UnloadLibrary
<1>2. ASSUME NEW outcome \in Outcome, NEW mode \in Mode, Connect(outcome, mode)
      PROVE  Next
  BY <1>2 DEF Connect, BuiltinDriver, Kind, Next, Call
<1>3. ASSUME NEW name \in DOMAIN handles, OnHandle(name) PROVE [Next]_managerVars
  BY <1>3, OnHandleIsStep
<1>4. CASE DestroyManager
  BY <1>4 DEF DestroyManager, Next
<1>5. CASE Drain
  BY <1>5 DEF Next
<1>6. CASE UNCHANGED allVars
  BY <1>6 DEF allVars
<1> QED
  BY <1>1, <1>2, <1>3, <1>4, <1>5, <1>6 DEF RustNext, Program, Continue

LEMMA NextClosing == ClosingInv /\ [Next]_managerVars => ClosingInv'
<1> SUFFICES ASSUME ClosingInv, [Next]_managerVars PROVE ClosingInv'
  OBVIOUS
<1>1. CASE UNCHANGED <<stage, closing>>
  BY <1>1 DEF ClosingInv
<1>2. CASE Call
  <2>1. CASE \E c \in CallerId : Close(c)
    BY <2>1 DEF Close, ClosingInv
  <2> QED
    BY <1>1, <1>2, <2>1
    DEF Call, RegisterDriver, Open, Execute, GetTables, GetCatalogs, GetDatabases,
        NewResultSet, OpenCursor, FetchNext, CloseCursor, CloseResultSet
<1>3. CASE Deinit
  BY <1>3 DEF Deinit, Advance, ClosingInv
<1>4. CASE CloseCursorsForConnection
  BY <1>4 DEF CloseCursorsForConnection, Advance, ClosingInv
<1>5. CASE CloseResultSetsForConnection
  BY <1>5 DEF CloseResultSetsForConnection, Advance, ClosingInv
<1>6. CASE CloseConnection
  BY <1>6 DEF CloseConnection, ClosingInv
<1>7. CASE DeinitCursors \/ DeinitResultSets \/ DeinitConnections
  BY <1>1, <1>7 DEF DeinitCursors, DeinitResultSets, DeinitConnections, Advance, ClosingInv
<1> QED
  BY <1>1, <1>2, <1>3, <1>4, <1>5, <1>6, <1>7 DEF Next, Drain, managerVars

LEMMA RustKeepsIInv == IInv /\ HandlesInv /\ [RustNext]_allVars => IInv'
BY RustStepIsStep, NextTables, NextStageInv DEF IInv, TablesInv, HandlesInv

-----------------------------------------------------------------------------
(* What calls report *)

LEMMA StatusesAreErrors ==
  /\ \A error \in {"InvalidArgument", "QueryFailed", "RowIndexOutOfBounds",
                     "ColumnIndexOutOfBounds"} :
       StatusFromRaw(MapError(error)) \notin
         {"ConnectionNotFound", "ResultSetNotFound", "CursorNotFound"}
  /\ \A error \in {"ConnectionNotFound", "ResultSetNotFound", "CursorNotFound"} :
       StatusFromRaw(MapError(error)) = error
<1> DEFINE statuses == <<"InvalidArgument", "DriverNotRegistered", "ConnectionNotFound",
                         "ResultSetNotFound", "CursorNotFound", "ColumnIndexOutOfBounds",
                         "RowIndexOutOfBounds", "OperationNotFound">>
<1>1. /\ DOMAIN statuses = 1..8
      /\ statuses[1] = "InvalidArgument" /\ statuses[3] = "ConnectionNotFound"
      /\ statuses[4] = "ResultSetNotFound" /\ statuses[5] = "CursorNotFound"
      /\ statuses[6] = "ColumnIndexOutOfBounds" /\ statuses[7] = "RowIndexOutOfBounds"
  OBVIOUS
<1>2. \A value : StatusFromRaw(value) = IF value \in DOMAIN statuses THEN statuses[value]
                                        ELSE IF value = 255 THEN "InternalError" ELSE "none"
  BY DEF StatusFromRaw
<1>3. /\ MapError("InvalidArgument") = 1 /\ MapError("ConnectionNotFound") = 3
      /\ MapError("ResultSetNotFound") = 4 /\ MapError("CursorNotFound") = 5
      /\ MapError("ColumnIndexOutOfBounds") = 6 /\ MapError("RowIndexOutOfBounds") = 7
      /\ MapError("QueryFailed") = 255
  BY DEF MapError
<1> HIDE DEF statuses
<1>4. /\ StatusFromRaw(1) = "InvalidArgument" /\ StatusFromRaw(3) = "ConnectionNotFound"
      /\ StatusFromRaw(4) = "ResultSetNotFound" /\ StatusFromRaw(5) = "CursorNotFound"
      /\ StatusFromRaw(6) = "ColumnIndexOutOfBounds"
      /\ StatusFromRaw(7) = "RowIndexOutOfBounds"
      /\ StatusFromRaw(255) = "InternalError"
  BY <1>1, <1>2
<1> QED
  BY <1>3, <1>4

LEMMA AnswersAreReported ==
  /\ Reported(Ok)
  /\ Reported(Failed(NoName, "library", "none"))
  /\ \A name \in Name :
       /\ Reported(ZeroResultError(name))
       /\ Reported(Failed(name, "closed", "none"))
       /\ Reported(Failed(name, "invalid_input", "none"))
       /\ \A error \in {"InvalidArgument", "QueryFailed", "RowIndexOutOfBounds",
                         "ColumnIndexOutOfBounds"} : Reported(StatusError(name, error))
       /\ name[1] # "connection" => Reported(StatusError(name, MissingError(name)))
<1>1. /\ Reported(Ok)
      /\ Reported(Failed(NoName, "library", "none"))
      /\ \A name \in Name :
           /\ Reported(ZeroResultError(name))
           /\ Reported(Failed(name, "closed", "none"))
           /\ Reported(Failed(name, "invalid_input", "none"))
  BY DEF Reported, Ok, Failed, ZeroResultError
<1>2. ASSUME NEW name \in Name,
             NEW error \in {"InvalidArgument", "QueryFailed", "RowIndexOutOfBounds",
                            "ColumnIndexOutOfBounds"}
      PROVE  Reported(StatusError(name, error))
  BY <1>2, StatusesAreErrors DEF Reported, StatusError, Failed
<1>3. ASSUME NEW name \in Name, name[1] # "connection"
      PROVE  Reported(StatusError(name, MissingError(name)))
  <2>1. MissingError(name) \in {"ResultSetNotFound", "CursorNotFound"}
    BY <1>3 DEF Name, MissingError
  <2>2. StatusFromRaw(MapError(MissingError(name))) = MissingError(name)
    BY <2>1, StatusesAreErrors
  <2> QED
    BY <2>1, <2>2 DEF Reported, StatusError, Failed
<1> QED
  BY <1>1, <1>2, <1>3

\* A call that finds its handle open finds its connection, so nothing that is missing is
\* ever a connection.
LEMMA MissingIsReported ==
  ASSUME NamesInv, ReachInv, NEW name \in DOMAIN handles, handles[name].id # 0,
         handles[name].id \notin TableOf(name)
  PROVE  Reported(StatusError(name, MissingError(name)))
<1>1. handles[name].id = name[2] /\ name \in Name
  BY DEF NamesInv
<1>2. name[1] # "connection"
  BY <1>1 DEF ReachInv
<1> QED
  BY <1>1, <1>2, AnswersAreReported

LEMMA WrapAnswers ==
  ASSUME NEW new \in Name, NEW connection, NEW outcome, NEW mode,
         Wrap(new, connection, outcome, mode)
  PROVE  AnswerInv'
<1>1. Reported(answer')
  BY AnswersAreReported DEF Wrap, CallErrors
<1> QED
  BY <1>1 DEF AnswerInv, Reported

LEMMA OnHandleAnswers ==
  ASSUME TypeOK, NamesInv, ReachInv, AnswerInv, NEW name \in DOMAIN handles, OnHandle(name)
  PROVE  AnswerInv'
<1>0. name \in Name
  BY DEF NamesInv
<1>1. /\ <<"connection", next_connection_id>> \in Name
      /\ <<"result_set", next_result_set_id>> \in Name
      /\ <<"cursor", next_cursor_id>> \in Name
  BY BoundAssumption DEF TypeOK, Name
<1>2. Reported(answer') => AnswerInv'
  BY DEF AnswerInv, Reported
<1>3. ASSUME NEW outcome \in Outcome, NEW mode \in Mode, NEW n \in 0..MaxRows,
             \/ ConnectionExecute(name, outcome, mode)
             \/ ConnectionCursor(name, outcome, n, mode)
             \/ ConnectionGetTables(name, outcome)
             \/ ConnectionGetCatalogs(name, outcome)
             \/ ConnectionGetDatabases(name, outcome)
      PROVE  AnswerInv'
  BY <1>1, <1>3, WrapAnswers DEF ConnectionExecute, ConnectionCursor, ConnectionGetTables,
                                 ConnectionGetCatalogs, ConnectionGetDatabases
<1>4. ASSUME NEW errors,
             errors \subseteq {"InvalidArgument", "QueryFailed", "RowIndexOutOfBounds",
                               "ColumnIndexOutOfBounds"},
             handles[name].id # 0, Read(name, errors)
      PROVE  Reported(answer')
  BY <1>0, <1>4, AnswersAreReported, MissingIsReported DEF Read
<1>5. CASE ReadConnection(name) \/ ReadResultSet(name) \/ ReadCursor(name)
  BY <1>2, <1>4, <1>5 DEF ReadConnection, ReadResultSet, ReadCursor, IsOpen
<1>6. CASE CursorNext(name) \/ DropHandle(name)
  BY <1>2, <1>6, AnswersAreReported DEF CursorNext, DropHandle
<1>7. CASE Refuse(name)
  BY <1>0, <1>2, <1>7, AnswersAreReported DEF Refuse
<1>8. CASE CloseHandle(name)
  BY <1>2, <1>8, AnswersAreReported, MissingIsReported DEF CloseHandle, CloseId
<1>9. 0 \in 0..MaxRows /\ "sync" \in Mode
  BY BoundAssumption DEF Mode
<1> QED
  BY <1>3, <1>5, <1>6, <1>7, <1>8, <1>9 DEF OnHandle

LEMMA RustAnswers ==
  TypeOK /\ NamesInv /\ ReachInv /\ AnswerInv /\ [RustNext]_allVars => AnswerInv'
<1> SUFFICES ASSUME TypeOK, NamesInv, ReachInv, AnswerInv, [RustNext]_allVars
             PROVE  AnswerInv'
  OBVIOUS
<1>1. Reported(answer') => AnswerInv'
  BY DEF AnswerInv, Reported
<1>2. CASE OpenLibrary \/ ResolveSymbols \/ CreateManager \/ CloneManager \/ DropManager
  <2>1. answer' \in {answer, Ok, Failed(NoName, "library", "none")}
    BY <1>2 DEF OpenLibrary, ResolveSymbols, CreateManager, CloneManager, DropManager
  <2> QED
    BY <1>1, <2>1, AnswersAreReported DEF AnswerInv
<1>3. ASSUME NEW outcome \in Outcome, NEW mode \in Mode, Connect(outcome, mode)
      PROVE  AnswerInv'
  <2>1. <<"connection", next_connection_id>> \in Name
    BY BoundAssumption DEF TypeOK, Name
  <2> QED
    BY <1>3, <2>1, WrapAnswers DEF Connect
<1>4. ASSUME NEW name \in DOMAIN handles, OnHandle(name) PROVE AnswerInv'
  BY <1>4, OnHandleAnswers
<1>5. CASE \/ ReturnFromClose \/ ReturnFromDrop \/ DestroyManager \/ UnloadLibrary
           \/ Drain /\ UNCHANGED rustVars
           \/ UNCHANGED allVars
  <2>1. answer' = answer
    BY <1>5 DEF ReturnFromClose, ReturnFromDrop, DestroyManager, UnloadLibrary, rustVars, allVars
  <2> QED
    BY <1>1, <2>1 DEF AnswerInv
<1> QED
  BY <1>2, <1>3, <1>4, <1>5 DEF RustNext, Program, Continue

-----------------------------------------------------------------------------
(* Counting the handles *)

LEMMA CountPut ==
  ASSUME CountInv, NEW name, NEW value, name \notin DOMAIN handles,
         handles' = Put(handles, name, value), strong' = strong + 1, managers' = managers
  PROVE  CountInv' /\ strong' > 0
<1>1. DOMAIN handles' = DOMAIN handles \cup {name}
  BY DEF Put
<1>2. /\ IsFiniteSet(DOMAIN handles')
      /\ Cardinality(DOMAIN handles') = Cardinality(DOMAIN handles) + 1
      /\ Cardinality(DOMAIN handles) \in Nat
  BY <1>1, FS_AddElement, FS_CardinalityType DEF CountInv
<1> QED
  BY <1>2 DEF CountInv

LEMMA CountWithout ==
  ASSUME CountInv, NEW name \in DOMAIN handles,
         handles' = Without(handles, name), strong' = strong - 1, managers' = managers
  PROVE  CountInv' /\ strong' \in Nat /\ strong \in Nat
<1>1. DOMAIN handles' = DOMAIN handles \ {name}
  BY DEF Without
<1>2. /\ IsFiniteSet(DOMAIN handles')
      /\ Cardinality(DOMAIN handles') = Cardinality(DOMAIN handles) - 1
      /\ Cardinality(DOMAIN handles') \in Nat
      /\ Cardinality(DOMAIN handles) \in Nat
  BY <1>1, FS_RemoveElement, FS_CardinalityType DEF CountInv
<1> QED
  BY <1>2 DEF CountInv

LEMMA CountKept ==
  ASSUME CountInv, DOMAIN handles' = DOMAIN handles,
         \/ strong' = strong /\ managers' = managers
         \/ strong' = strong + 1 /\ managers' = managers + 1
         \/ strong' = strong - 1 /\ managers' = managers - 1 /\ managers > 0
  PROVE  CountInv' /\ strong' \in Nat /\ strong \in Nat
<1>1. Cardinality(DOMAIN handles) \in Nat
  BY FS_CardinalityType DEF CountInv
<1> QED
  BY <1>1 DEF CountInv

\* Nobody holds on to a manager that is not shared.
LEMMA NoneHeld == CountInv /\ strong = 0 => managers = 0 /\ DOMAIN handles = {}
<1> SUFFICES ASSUME CountInv, strong = 0 PROVE managers = 0 /\ DOMAIN handles = {}
  OBVIOUS
<1>1. Cardinality(DOMAIN handles) \in Nat
  BY FS_CardinalityType DEF CountInv
<1>2. managers = 0 /\ Cardinality(DOMAIN handles) = 0
  BY <1>1 DEF CountInv
<1> QED
  BY <1>2, FS_EmptySet DEF CountInv

-----------------------------------------------------------------------------
(* The invariant of the handles, action by action *)

\* What names, owners and reach depend on.
LEMMA HandlesStill ==
  ASSUME NamesInv, OwnersInv, ReachInv, UNCHANGED <<managerVars, handles, subject>>
  PROVE  NamesInv' /\ OwnersInv' /\ ReachInv'
BY DEF NamesInv, OwnersInv, ReachInv, Owned, TableOf, managerVars, tables, counters

LEMMA PlaceStill ==
  ASSUME PlaceInv, UNCHANGED <<managerVars, handles, subject, at, library, strong>>
  PROVE  PlaceInv'
BY DEF PlaceInv, Starting, Closing, TableOf, managerVars, tables, counters, ledger

LEMMA NewInv ==
  ASSUME HandlesInv, OpenLibrary \/ ResolveSymbols \/ CreateManager
  PROVE  HandlesInv'
<1> USE DEF HandlesInv
<1>1. NamesInv' /\ OwnersInv' /\ ReachInv'
  BY HandlesStill DEF OpenLibrary, ResolveSymbols, CreateManager
<1>2. strong = 0 /\ managers = 0
  BY NoneHeld DEF PlaceInv, Starting, OpenLibrary, ResolveSymbols, CreateManager
<1>3. CountInv'
  BY <1>2, CountKept DEF OpenLibrary, ResolveSymbols, CreateManager
<1>4. PlaceInv'
  <2>1. at \in {"unloaded", "resolving", "creating"} /\ Starting /\ subject = NoName
    BY DEF OpenLibrary, ResolveSymbols, CreateManager, PlaceInv
  <2>2. UNCHANGED <<heap, orphans, stage, subject>>
    BY DEF OpenLibrary, ResolveSymbols, CreateManager, managerVars, ledger
  <2>3. \/ at' = "unloaded" /\ library' = FALSE /\ strong' = 0
        \/ at' = "resolving" /\ library' = TRUE /\ strong' = 0
        \/ at' = "creating" /\ library' = TRUE /\ strong' = 0
        \/ at' = "idle" /\ library' = TRUE /\ strong' = 1
    <3>1. library = TRUE \/ library = FALSE
      BY DEF PlaceInv
    <3>2. library = FALSE <=> at = "unloaded"
      BY <2>1, <3>1 DEF Starting
    <3> QED
      BY <1>2, <3>1, <3>2 DEF OpenLibrary, ResolveSymbols, CreateManager
  <2>4. CASE strong' = 0
    <3>0. \/ at' = "unloaded" /\ library' = FALSE
          \/ at' \in {"resolving", "creating"} /\ at' # "unloaded" /\ library' = TRUE
      BY <2>3, <2>4
    <3>1. /\ at' \in {"unloaded", "resolving", "creating"}
          /\ library' \in BOOLEAN /\ (library' <=> at' # "unloaded")
      BY <3>0, Zenon
    <3>2. Starting'
      BY <2>1, <2>2, <2>4, <3>1, Zenon DEF Starting
    <3> QED
      BY <2>1, <2>2, <3>1, <3>2 DEF PlaceInv, At
  <2>5. CASE strong' = 1
    <3>1. at' = "idle" /\ library' = TRUE
      BY <2>3, <2>5
    <3> QED
      BY <2>1, <2>2, <2>5, <3>1 DEF PlaceInv, Starting, At
  <2> QED
    BY <2>3, <2>4, <2>5
<1> QED
  BY <1>1, <1>3, <1>4

LEMMA ManagersInv ==
  ASSUME HandlesInv, CloneManager \/ DropManager
  PROVE  HandlesInv'
<1> USE DEF HandlesInv
<1>1. NamesInv' /\ OwnersInv' /\ ReachInv'
  BY HandlesStill DEF CloneManager, DropManager
<1>2. CountInv' /\ strong' \in Nat /\ strong \in Nat
  BY CountKept DEF CloneManager, DropManager, Release
<1>3. PlaceInv'
  BY <1>2 DEF CloneManager, DropManager, Release, PlaceInv, At, managerVars
<1> QED
  BY <1>1, <1>2, <1>3

LEMMA DestroyInv ==
  ASSUME HandlesInv, DestroyManager \/ UnloadLibrary
  PROVE  HandlesInv'
<1> USE DEF HandlesInv
<1>1. CountInv'
  BY CountKept DEF DestroyManager, UnloadLibrary
<1>2. NamesInv' /\ OwnersInv' /\ ReachInv'
  <2>1. UNCHANGED <<connections, result_sets, cursors, next_connection_id,
                    next_result_set_id, next_cursor_id, closing, handles, subject>>
    BY DEF DestroyManager, UnloadLibrary, Deinit, Advance, managerVars, tables, counters
  <2> QED
    BY <2>1 DEF NamesInv, OwnersInv, ReachInv, Owned, TableOf
<1>3. PlaceInv'
  BY DEF DestroyManager, UnloadLibrary, Deinit, Advance, PlaceInv, At, managerVars
<1> QED
  BY <1>1, <1>2, <1>3

LEMMA ReadInv ==
  ASSUME HandlesInv, UNCHANGED <<managerVars, at, library, strong, managers, handles, subject>>
  PROVE  HandlesInv'
BY HandlesStill, PlaceStill, CountKept DEF HandlesInv

\* A call that allocates: the count and the place of the thread.
LEMMA WrapPlace ==
  ASSUME CountInv, PlaceInv, NEW new, new \notin DOMAIN handles,
         NEW connection, NEW outcome, NEW mode,
         Wrap(new, connection, outcome, mode), at = "idle", stage' = stage
  PROVE  /\ CountInv' /\ PlaceInv'
         /\ outcome = "stored" =>
              /\ DOMAIN handles' = DOMAIN handles \cup {new}
              /\ handles'[new] = [id |-> new[2], connection |-> connection]
              /\ \A n \in DOMAIN handles : handles'[n] = handles[n]
         /\ outcome # "stored" => UNCHANGED handles
         /\ subject = NoName /\ subject' = NoName
<1>1. CASE outcome = "stored"
  <2>1. CountInv' /\ strong' > 0
    BY <1>1, CountPut DEF Wrap
  <2> QED
    BY <1>1, <2>1 DEF Wrap, Put, PlaceInv
<1>2. CASE outcome # "stored"
  <2>1. CountInv'
    BY <1>2, CountKept DEF Wrap
  <2> QED
    BY <1>2, <2>1 DEF Wrap, PlaceInv
<1> QED
  BY <1>1, <1>2

LEMMA ConnectInv ==
  ASSUME TypeOK, HandlesInv, NEW outcome, NEW mode, Connect(outcome, mode)
  PROVE  HandlesInv'
<1> DEFINE id == next_connection_id
           new == <<"connection", id>>
<1> USE DEF HandlesInv
<1>1. /\ id \in Nat /\ id # 0 /\ new \in Name /\ new[1] = "connection" /\ new[2] = id
      /\ new \notin DOMAIN handles /\ id \notin DOMAIN connections
  BY BoundAssumption DEF TypeOK, IsTable, Name, NamesInv
<1>2. /\ id' = id + 1
      /\ UNCHANGED <<result_sets, cursors, next_result_set_id, next_cursor_id, stage, closing>>
      /\ at = "idle" /\ Wrap(new, id, outcome, mode)
      /\ outcome = "stored" =>
           /\ DOMAIN connections' = DOMAIN connections \cup {id}
      /\ outcome # "stored" => connections' = connections
  BY DEF Connect, Open, Put
<1> HIDE DEF id, new
<1>3. /\ CountInv' /\ PlaceInv'
      /\ outcome = "stored" =>
           /\ DOMAIN handles' = DOMAIN handles \cup {new}
           /\ handles'[new] = [id |-> id, connection |-> id]
           /\ \A n \in DOMAIN handles : handles'[n] = handles[n]
      /\ outcome # "stored" => UNCHANGED handles
      /\ subject = NoName /\ subject' = NoName
  BY <1>1, <1>2, WrapPlace
<1>4. NamesInv'
  <2>1. \A n \in DOMAIN handles : handles[n].connection < id'
    BY <1>1, <1>2 DEF NamesInv, id
  <2>2. \A n \in DOMAIN handles : n[1] = "connection" => n[2] < id'
    BY <1>1, <1>2 DEF NamesInv, id, Name
  <2> QED
    BY <1>1, <1>2, <1>3, <2>1, <2>2 DEF NamesInv, id
<1>5. OwnersInv'
  BY <1>1, <1>2, <1>3 DEF OwnersInv, Owned, new
<1>6. ReachInv'
  <2>1. \A n \in DOMAIN handles : handles[n].connection # id
    BY <1>1 DEF NamesInv, id
  <2>2. DOMAIN connections \subseteq DOMAIN connections'
        /\ DOMAIN connections' \subseteq DOMAIN connections \cup {id}
    BY <1>2
  <2>3. ASSUME NEW n \in DOMAIN handles, handles[n].id # 0, n[2] \notin TableOf(n)'
        PROVE  n[1] # "connection"
               /\ (handles[n].connection \in DOMAIN connections' => handles[n].connection = closing)
    <3>1. n[2] \notin TableOf(n)
      BY <1>2, <2>2, <2>3 DEF TableOf, NamesInv, Name
    <3> QED
      BY <2>1, <2>2, <2>3, <3>1 DEF ReachInv
  <2>4. ASSUME NEW n, n = new, outcome = "stored" PROVE n[2] \in TableOf(n)'
    BY <1>1, <1>2, <2>4 DEF TableOf
  <2> QED
    BY <1>1, <1>2, <1>3, <2>3, <2>4 DEF ReachInv
<1> QED
  BY <1>3, <1>4, <1>5, <1>6

LEMMA NewResultSetInv ==
  ASSUME TypeOK, HandlesInv, NEW c \in Nat, NEW outcome, NEW mode, at = "idle",
         NewResultSet(c, outcome), Wrap(<<"result_set", next_result_set_id>>, c, outcome, mode)
  PROVE  HandlesInv'
<1> DEFINE id == next_result_set_id
           new == <<"result_set", id>>
<1> USE DEF HandlesInv
<1>1. /\ id \in Nat /\ id # 0 /\ new \in Name /\ new[1] = "result_set" /\ new[2] = id
      /\ new \notin DOMAIN handles /\ id \notin DOMAIN result_sets
  BY BoundAssumption DEF TypeOK, IsTable, Name, NamesInv
<1>2. /\ id' = id + 1
      /\ UNCHANGED <<connections, cursors, next_connection_id, next_cursor_id, stage, closing>>
      /\ c \in DOMAIN connections /\ c < next_connection_id
      /\ outcome = "stored" =>
           /\ DOMAIN result_sets' = DOMAIN result_sets \cup {id}
           /\ result_sets'[id].handle.connection_id = c
           /\ \A i \in DOMAIN result_sets : result_sets'[i] = result_sets[i]
      /\ outcome # "stored" => result_sets' = result_sets
  BY <1>1, BoundAssumption DEF NewResultSet, NewHandle, Put, TypeOK, IsTable
<1>3. Wrap(new, c, outcome, mode)
  OBVIOUS
<1> HIDE DEF id, new
<1>4. /\ CountInv' /\ PlaceInv'
      /\ outcome = "stored" =>
           /\ DOMAIN handles' = DOMAIN handles \cup {new}
           /\ handles'[new] = [id |-> id, connection |-> c]
           /\ \A n \in DOMAIN handles : handles'[n] = handles[n]
      /\ outcome # "stored" => UNCHANGED handles
      /\ subject = NoName /\ subject' = NoName
  BY <1>1, <1>2, <1>3, WrapPlace
<1>5. NamesInv'
  <2>1. \A n \in DOMAIN handles : n[1] = "result_set" => n[2] < id'
    BY <1>1, <1>2 DEF NamesInv, id, Name
  <2> QED
    BY <1>1, <1>2, <1>4, <2>1 DEF NamesInv, id
<1>6. OwnersInv'
  BY <1>1, <1>2, <1>4 DEF OwnersInv, Owned, new
<1>7. ReachInv'
  <2>1. ASSUME NEW n \in DOMAIN handles, handles[n].id # 0, n[2] \notin TableOf(n)'
        PROVE  n[1] # "connection"
               /\ (handles[n].connection \in DOMAIN connections' => handles[n].connection = closing)
    <3>1. n[2] \notin TableOf(n)
      BY <1>2, <2>1 DEF TableOf, NamesInv, Name
    <3> QED
      BY <1>2, <2>1, <3>1 DEF ReachInv
  <2>2. ASSUME NEW n, n = new, outcome = "stored" PROVE n[2] \in TableOf(n)'
    BY <1>1, <1>2, <2>2 DEF TableOf
  <2> QED
    BY <1>1, <1>2, <1>4, <2>1, <2>2 DEF ReachInv
<1> QED
  BY <1>4, <1>5, <1>6, <1>7

LEMMA OpenCursorInv ==
  ASSUME TypeOK, HandlesInv, NEW c \in Nat, NEW outcome, NEW mode, NEW total_rows, at = "idle",
         OpenCursor(c, outcome, total_rows), Wrap(<<"cursor", next_cursor_id>>, c, outcome, mode)
  PROVE  HandlesInv'
<1> DEFINE id == next_cursor_id
           new == <<"cursor", id>>
<1> USE DEF HandlesInv
<1>1. /\ id \in Nat /\ id # 0 /\ new \in Name /\ new[1] = "cursor" /\ new[2] = id
      /\ new \notin DOMAIN handles /\ id \notin DOMAIN cursors
  BY BoundAssumption DEF TypeOK, IsTable, Name, NamesInv
<1>2. /\ id' = id + 1
      /\ UNCHANGED <<connections, result_sets, next_connection_id, next_result_set_id, stage, closing>>
      /\ c \in DOMAIN connections /\ c < next_connection_id
      /\ outcome = "stored" =>
           /\ DOMAIN cursors' = DOMAIN cursors \cup {id}
           /\ cursors'[id].handle.connection_id = c
           /\ \A i \in DOMAIN cursors : cursors'[i] = cursors[i]
      /\ outcome # "stored" => cursors' = cursors
  BY <1>1, BoundAssumption DEF OpenCursor, NewHandle, Put, TypeOK, IsTable
<1>3. Wrap(new, c, outcome, mode)
  OBVIOUS
<1> HIDE DEF id, new
<1>4. /\ CountInv' /\ PlaceInv'
      /\ outcome = "stored" =>
           /\ DOMAIN handles' = DOMAIN handles \cup {new}
           /\ handles'[new] = [id |-> id, connection |-> c]
           /\ \A n \in DOMAIN handles : handles'[n] = handles[n]
      /\ outcome # "stored" => UNCHANGED handles
      /\ subject = NoName /\ subject' = NoName
  BY <1>1, <1>2, <1>3, WrapPlace
<1>5. NamesInv'
  <2>1. \A n \in DOMAIN handles : n[1] = "cursor" => n[2] < id'
    BY <1>1, <1>2 DEF NamesInv, id, Name
  <2> QED
    BY <1>1, <1>2, <1>4, <2>1 DEF NamesInv, id
<1>6. OwnersInv'
  BY <1>1, <1>2, <1>4 DEF OwnersInv, Owned, new
<1>7. ReachInv'
  <2>1. ASSUME NEW n \in DOMAIN handles, handles[n].id # 0, n[2] \notin TableOf(n)'
        PROVE  n[1] # "connection"
               /\ (handles[n].connection \in DOMAIN connections' => handles[n].connection = closing)
    <3>1. n[2] \notin TableOf(n)
      BY <1>2, <2>1 DEF TableOf, NamesInv, Name
    <3> QED
      BY <1>2, <2>1, <3>1 DEF ReachInv
  <2>2. ASSUME NEW n, n = new, outcome = "stored" PROVE n[2] \in TableOf(n)'
    BY <1>1, <1>2, <2>2 DEF TableOf
  <2> QED
    BY <1>1, <1>2, <1>4, <2>1, <2>2 DEF ReachInv
<1> QED
  BY <1>4, <1>5, <1>6, <1>7

LEMMA CursorNextInv ==
  ASSUME TypeOK, HandlesInv, NEW name \in DOMAIN handles, CursorNext(name)
  PROVE  HandlesInv'
<1> USE DEF HandlesInv
<1>1. /\ UNCHANGED <<connections, result_sets, counters, ledger, stage, closing>>
      /\ DOMAIN cursors' = DOMAIN cursors
      /\ \A i \in DOMAIN cursors : cursors'[i].handle = cursors[i].handle
      /\ UNCHANGED <<at, library, strong, managers, handles, subject>>
  BY DEF CursorNext, FetchNext, TypeOK, CursorEntry
<1>2. CountInv'
  BY <1>1, CountKept
<1>3. PlaceInv'
  BY <1>1 DEF PlaceInv, Starting, Closing, TableOf, ledger
<1>4. NamesInv' /\ OwnersInv' /\ ReachInv'
  BY <1>1 DEF NamesInv, OwnersInv, ReachInv, Owned, TableOf, counters
<1> QED
  BY <1>2, <1>3, <1>4

\* close empties the Cell and makes the native call.
LEMMA CloseIdInv ==
  ASSUME TypeOK, ClosingInv, HandlesInv, NEW name \in DOMAIN handles, CloseId(name),
         at' \in {"closing", "dropping"}
  PROVE  HandlesInv'
<1> DEFINE id == name[2]
<1> USE DEF HandlesInv
<1>1. /\ DOMAIN handles' = DOMAIN handles
      /\ handles'[name].id = 0 /\ handles'[name].connection = handles[name].connection
      /\ handles'[name] \in [id : {0, id}, connection : Nat]
      /\ \A n \in DOMAIN handles : n # name => handles'[n] = handles[n]
  BY DEF CloseId, NamesInv
<1>2. /\ name \in Name /\ handles[name].id = id /\ id # 0 /\ name = <<name[1], id>>
      /\ subject' = name /\ CloseNative(name, id)
      /\ UNCHANGED <<library, strong, managers, counters>>
      /\ at = "idle" /\ library /\ strong > 0 /\ subject = NoName /\ stage = "ready"
      /\ closing = 0 /\ closing \notin DOMAIN connections
  <2>1. name \in Name /\ handles[name].id = id /\ CloseNative(name, id) /\ at = "idle"
    BY DEF CloseId, NamesInv
  <2>2. UNCHANGED counters
    BY <2>1 DEF CloseNative, CloseConnectionNative, Close, CloseResultSetNative,
                CloseResultSet, DropResultSet, CloseCursorNative, CloseCursor, DropCursor,
                managerVars
  <2> QED
    BY <2>1, <2>2 DEF CloseId, NamesInv, Name, PlaceInv, ClosingInv, TypeOK, IsTable
<1>3. CountInv'
  BY <1>1, <1>2, CountKept
<1>4. NamesInv'
  BY <1>1, <1>2 DEF NamesInv, counters
<1> HIDE DEF id
<1>5. CASE CloseConnectionNative(name, id)
  <2>1. /\ name = <<"connection", id>> /\ stage' = "close_cursors" /\ closing' = id
        /\ UNCHANGED <<connections, result_sets, cursors>>
    BY <1>2, <1>5 DEF CloseConnectionNative, Close, tables
  <2>2. PlaceInv'
    BY <1>1, <1>2, <2>1 DEF PlaceInv, Closing, At
  <2>3. OwnersInv'
    BY <1>1, <1>2, <2>1 DEF OwnersInv, Owned, NoName
  <2>4. ReachInv'
    <3>1. \A n \in DOMAIN handles : TableOf(n)' = TableOf(n)
      BY <2>1 DEF TableOf
    <3>2. \A n \in DOMAIN handles :
            handles[n].id # 0 /\ n[2] \notin TableOf(n) =>
              n[1] # "connection" /\ handles[n].connection \notin DOMAIN connections
      BY <1>2 DEF ReachInv
    <3> QED
      BY <1>1, <2>1, <3>1, <3>2 DEF ReachInv
  <2> QED
    BY <1>3, <1>4, <2>2, <2>3, <2>4
<1>6. CASE CloseResultSetNative(name, id)
  <2>1. /\ name = <<"result_set", id>> /\ stage' = "ready" /\ closing' = closing
        /\ UNCHANGED <<connections, cursors>>
        /\ DOMAIN result_sets' = DOMAIN result_sets \ {id}
        /\ \A i \in DOMAIN result_sets' : result_sets'[i] = result_sets[i]
    BY <1>2, <1>6 DEF CloseResultSetNative, CloseResultSet, DropResultSet, Without,
                      managerVars, tables
  <2>2. PlaceInv'
    BY <1>1, <1>2, <2>1 DEF PlaceInv, Closing, At, TableOf
  <2>3. OwnersInv'
    BY <1>1, <1>2, <2>1 DEF OwnersInv, Owned, NoName
  <2>4. ReachInv'
    BY <1>1, <1>2, <2>1 DEF ReachInv, TableOf, NamesInv, Name
  <2> QED
    BY <1>3, <1>4, <2>2, <2>3, <2>4
<1>7. CASE CloseCursorNative(name, id)
  <2>1. /\ name = <<"cursor", id>> /\ stage' = "ready" /\ closing' = closing
        /\ UNCHANGED <<connections, result_sets>>
        /\ DOMAIN cursors' = DOMAIN cursors \ {id}
        /\ \A i \in DOMAIN cursors' : cursors'[i] = cursors[i]
    BY <1>2, <1>7 DEF CloseCursorNative, CloseCursor, DropCursor, Without,
                      managerVars, tables
  <2>2. PlaceInv'
    BY <1>1, <1>2, <2>1 DEF PlaceInv, Closing, At, TableOf
  <2>3. OwnersInv'
    BY <1>1, <1>2, <2>1 DEF OwnersInv, Owned, NoName
  <2>4. ReachInv'
    BY <1>1, <1>2, <2>1 DEF ReachInv, TableOf, NamesInv, Name
  <2> QED
    BY <1>3, <1>4, <2>2, <2>3, <2>4
<1> QED
  BY <1>2, <1>5, <1>6, <1>7 DEF CloseNative

LEMMA ReturnFromCloseInv ==
  ASSUME TypeOK, HandlesInv, ReturnFromClose
  PROVE  HandlesInv'
<1> USE DEF HandlesInv
<1>1. /\ UNCHANGED <<connections, result_sets, cursors, counters, stage, closing,
                     library, strong, managers, handles>>
      /\ at = "closing" /\ at' = "idle" /\ stage = "ready" /\ subject' = NoName
  BY DEF ReturnFromClose, managerVars, tables
<1>2. CountInv'
  BY <1>1, CountKept
<1>3. PlaceInv'
  BY <1>1 DEF PlaceInv, Closing, At
<1>4. NamesInv' /\ ReachInv'
  BY <1>1 DEF NamesInv, ReachInv, TableOf, counters
<1>5. OwnersInv'
  <2>1. \A i \in DOMAIN connections : subject # <<"connection", i>>
    BY <1>1 DEF PlaceInv, Closing, TableOf
  <2> QED
    BY <1>1, <2>1 DEF OwnersInv, Owned
<1> QED
  BY <1>2, <1>3, <1>4, <1>5

\* A handle goes whose Cell is empty, and which owns no entry.
LEMMA DropInv ==
  ASSUME TypeOK, HandlesInv, NEW name \in DOMAIN handles, handles[name].id = 0,
         \A i \in DOMAIN connections : subject = <<"connection", i>> => FALSE,
         handles' = Without(handles, name), Release, subject' = NoName,
         stage = "ready", library, UNCHANGED <<managerVars, library, managers>>
  PROVE  HandlesInv'
<1> USE DEF HandlesInv
<1>1. /\ UNCHANGED <<connections, result_sets, cursors, counters, stage, closing>>
      /\ DOMAIN handles' = DOMAIN handles \ {name}
      /\ \A n \in DOMAIN handles' : handles'[n] = handles[n]
  BY DEF Without, managerVars, tables
<1>2. CountInv' /\ strong' \in Nat /\ strong \in Nat
  BY CountWithout DEF Release
<1>3. PlaceInv'
  BY <1>1, <1>2 DEF Release, PlaceInv, At
<1>4. NamesInv'
  BY <1>1 DEF NamesInv, counters
<1>5. ReachInv'
  <2>1. \A n \in DOMAIN handles : TableOf(n)' = TableOf(n)
    BY <1>1 DEF TableOf
  <2> QED
    BY <1>1, <2>1 DEF ReachInv
<1>6. OwnersInv'
  <2>1. /\ \A i \in DOMAIN connections : Owned("connection", i, i) /\ i # 0
        /\ \A i \in DOMAIN result_sets :
             Owned("result_set", i, result_sets[i].handle.connection_id) /\ i # 0
        /\ \A i \in DOMAIN cursors :
             Owned("cursor", i, cursors[i].handle.connection_id) /\ i # 0
    BY BoundAssumption DEF OwnersInv, TypeOK, IsTable
  <2> QED
    BY <1>1, <2>1 DEF OwnersInv, Owned
<1> QED
  BY <1>2, <1>3, <1>4, <1>5, <1>6

LEMMA CloseHandleInv ==
  ASSUME TypeOK, ClosingInv, HandlesInv, NEW name \in DOMAIN handles,
         CloseHandle(name) \/ DropHandle(name)
  PROVE  HandlesInv'
<1>1. CASE CloseId(name) /\ at' \in {"closing", "dropping"}
  BY <1>1, CloseIdInv
<1>2. CASE UNCHANGED <<managerVars, at, library, strong, managers, handles, subject>>
  BY <1>2, ReadInv
<1>3. CASE /\ at = "idle" /\ handles[name].id = 0
           /\ handles' = Without(handles, name) /\ Release
           /\ UNCHANGED <<managerVars, library, managers, subject>>
  <2>1. stage = "ready" /\ library /\ subject = NoName
    BY <1>3 DEF HandlesInv, PlaceInv
  <2>2. \A i \in DOMAIN connections : subject = <<"connection", i>> => FALSE
    BY <2>1 DEF NoName
  <2> QED
    BY <1>3, <2>1, <2>2, DropInv
<1> QED
  BY <1>1, <1>2, <1>3 DEF CloseHandle, DropHandle

LEMMA ReturnFromDropInv ==
  ASSUME TypeOK, HandlesInv, ReturnFromDrop
  PROVE  HandlesInv'
<1>1. /\ subject \in DOMAIN handles /\ handles[subject].id = 0 /\ library
      /\ \A i \in DOMAIN connections : subject = <<"connection", i>> => FALSE
  BY DEF HandlesInv, ReturnFromDrop, PlaceInv, Closing, TableOf
<1> QED
  BY <1>1, DropInv DEF ReturnFromDrop

-----------------------------------------------------------------------------
(* The manager drains *)

\* What a turn of the loops in close needs of the tables it leaves behind: children go
\* that belong to the connection being closed, and at the end the connection itself.
LEMMA DrainCloseInv ==
  ASSUME HandlesInv, at \in {"closing", "dropping"}, UNCHANGED <<rustVars, counters>>,
         subject = <<"connection", closing>>,
         stage' \in {"ready", "close_cursors", "close_result_sets", "close_connection"},
         stage' # "ready" => closing' = closing,
         stage' = "ready" => closing \notin DOMAIN connections',
         DOMAIN connections' \subseteq DOMAIN connections,
         \A i \in DOMAIN connections \ DOMAIN connections' : i = closing,
         DOMAIN result_sets' \subseteq DOMAIN result_sets,
         \A i \in DOMAIN result_sets' : result_sets'[i] = result_sets[i],
         \A i \in DOMAIN result_sets \ DOMAIN result_sets' :
           result_sets[i].handle.connection_id = closing,
         DOMAIN cursors' \subseteq DOMAIN cursors,
         \A i \in DOMAIN cursors' : cursors'[i] = cursors[i],
         \A i \in DOMAIN cursors \ DOMAIN cursors' : cursors[i].handle.connection_id = closing
  PROVE  HandlesInv'
<1> USE DEF HandlesInv, rustVars
<1>1. CountInv'
  BY CountKept
<1>2. /\ Closing /\ subject \in DOMAIN handles /\ handles[subject].id = 0
  BY DEF PlaceInv, Closing
<1>3. PlaceInv'
  BY <1>2 DEF PlaceInv, Closing, TableOf
<1>4. NamesInv'
  BY DEF NamesInv, counters
<1>5. OwnersInv'
  BY DEF OwnersInv, Owned
<1>6. ReachInv'
  <2> SUFFICES ASSUME NEW n \in DOMAIN handles, handles[n].id # 0, n[2] \notin TableOf(n)'
               PROVE  /\ n[1] # "connection"
                      /\ handles[n].connection \in DOMAIN connections' =>
                           handles[n].connection = closing'
    BY DEF ReachInv
  <2>1. n \in Name /\ n = <<n[1], n[2]>>
    BY DEF NamesInv, Name
  <2>2. CASE n[2] \notin TableOf(n)
    BY <2>2 DEF ReachInv
  <2>3. CASE n[2] \in TableOf(n)
    <3>1. n[1] # "connection"
      BY <1>2, <2>1, <2>3 DEF TableOf
    <3>2. handles[n].connection = closing
      BY <2>1, <2>3, <3>1 DEF TableOf, OwnersInv, Owned, Name
    <3> QED
      BY <3>1, <3>2
  <2> QED
    BY <2>2, <2>3
<1> QED
  BY <1>1, <1>3, <1>4, <1>5, <1>6

LEMMA DrainInv ==
  ASSUME TypeOK, HandlesInv, Drain, UNCHANGED rustVars
  PROVE  HandlesInv'
<1>1. CASE at \in {"closing", "dropping"}
  <2>1. stage \in {"ready", "close_cursors", "close_result_sets", "close_connection"}
        /\ (stage # "ready" => subject = <<"connection", closing>>)
    BY <1>1 DEF HandlesInv, PlaceInv, Closing
  <2>2. CASE CloseCursorsForConnection
    BY <1>1, <2>1, <2>2, DrainCloseInv
    DEF CloseCursorsForConnection, CursorsOf, DropCursor, Without, Advance, tables
  <2>3. CASE CloseResultSetsForConnection
    BY <1>1, <2>1, <2>3, DrainCloseInv
    DEF CloseResultSetsForConnection, ResultSetsOf, DropResultSet, Without, Advance, tables
  <2>4. CASE CloseConnection
    BY <1>1, <2>1, <2>4, DrainCloseInv DEF CloseConnection, DropConnection, Without, tables
  <2> QED
    BY <2>1, <2>2, <2>3, <2>4
    DEF Drain, DeinitCursors, DeinitResultSets, DeinitConnections, Advance
<1>2. CASE at = "draining"
  <2>1. strong = 0 /\ stage \notin {"close_cursors", "close_result_sets", "close_connection"}
        /\ subject = NoName
    BY <1>2 DEF HandlesInv, PlaceInv
  <2>2. DOMAIN handles = {} /\ managers = 0
    BY <2>1, NoneHeld DEF HandlesInv
  <2>3. DOMAIN connections = {} /\ DOMAIN result_sets = {} /\ DOMAIN cursors = {}
    BY <2>1, <2>2 DEF HandlesInv, OwnersInv, Owned, NoName
  <2>4. /\ stage' \in {"deinit_result_sets", "deinit_connections", "gone"}
        /\ UNCHANGED <<connections, result_sets, cursors, counters, closing>>
    BY <2>1, <2>3 DEF Drain, CloseCursorsForConnection, CloseResultSetsForConnection,
                      CloseConnection, DeinitCursors, DeinitResultSets, DeinitConnections,
                      Advance, tables
  <2>5. CountInv'
    BY CountKept DEF HandlesInv, rustVars
  <2>6. PlaceInv'
    BY <1>2, <2>4 DEF HandlesInv, PlaceInv, rustVars
  <2>7. NamesInv' /\ OwnersInv' /\ ReachInv'
    BY <2>4 DEF HandlesInv, NamesInv, OwnersInv, ReachInv, Owned, TableOf, rustVars, counters
  <2> QED
    BY <2>5, <2>6, <2>7 DEF HandlesInv
<1>3. CASE at \notin {"closing", "dropping", "draining"}
  <2>1. stage \in {"ready", "gone"}
    BY <1>3 DEF HandlesInv, PlaceInv, Starting, At
  <2> QED
    BY <2>1 DEF Drain, CloseCursorsForConnection, CloseResultSetsForConnection,
                CloseConnection, DeinitCursors, DeinitResultSets, DeinitConnections, Advance
<1> QED
  BY <1>1, <1>2, <1>3

-----------------------------------------------------------------------------
(* Every step *)

LEMMA OnHandleInv ==
  ASSUME TypeOK, ClosingInv, HandlesInv, NEW name \in DOMAIN handles, OnHandle(name)
  PROVE  HandlesInv'
<1>1. ASSUME IsOpen(name, "connection")
      PROVE  name[2] \in Nat /\ handles[name].id = name[2] /\ at = "idle"
  BY <1>1 DEF IsOpen, HandlesInv, NamesInv, Name
<1>2. ASSUME NEW outcome \in Outcome, NEW mode \in Mode,
             \/ ConnectionExecute(name, outcome, mode)
             \/ ConnectionGetTables(name, outcome)
             \/ ConnectionGetCatalogs(name, outcome)
             \/ ConnectionGetDatabases(name, outcome)
      PROVE  HandlesInv'
  <2>1. /\ IsOpen(name, "connection") /\ NewResultSet(handles[name].id, outcome)
        /\ \E m \in Mode : Wrap(<<"result_set", next_result_set_id>>, name[2], outcome, m)
    BY <1>2 DEF ConnectionExecute, ConnectionGetTables, ConnectionGetCatalogs,
                ConnectionGetDatabases, Execute, GetTables, GetCatalogs, GetDatabases, Mode
  <2> QED
    BY <1>1, <2>1, NewResultSetInv
<1>3. ASSUME NEW outcome \in Outcome, NEW mode \in Mode, NEW n \in 0..MaxRows,
             ConnectionCursor(name, outcome, n, mode)
      PROVE  HandlesInv'
  BY <1>1, <1>3, OpenCursorInv DEF ConnectionCursor
<1>4. CASE ReadConnection(name) \/ ReadResultSet(name) \/ ReadCursor(name) \/ Refuse(name)
  BY <1>4, ReadInv DEF ReadConnection, ReadResultSet, ReadCursor, Read, Refuse
<1>5. "sync" \in Mode
  BY DEF Mode
<1> QED
  BY <1>2, <1>3, <1>4, <1>5, CursorNextInv, CloseHandleInv DEF OnHandle

LEMMA RustKeepsHandlesInv ==
  TypeOK /\ ClosingInv /\ HandlesInv /\ [RustNext]_allVars => HandlesInv'
<1> SUFFICES ASSUME TypeOK, ClosingInv, HandlesInv, [RustNext]_allVars PROVE HandlesInv'
  OBVIOUS
<1>1. CASE UNCHANGED allVars
  BY <1>1, ReadInv DEF allVars, rustVars
<1>2. ASSUME NEW outcome \in Outcome, NEW mode \in Mode, Connect(outcome, mode)
      PROVE  HandlesInv'
  BY <1>2, ConnectInv
<1> QED
  BY <1>1, <1>2, NewInv, ManagersInv, DestroyInv, OnHandleInv, ReturnFromCloseInv,
     ReturnFromDropInv, DrainInv
  DEF RustNext, Program, Continue

LEMMA InitRustInv == RustInit => RustInv
<1> SUFFICES ASSUME RustInit PROVE RustInv
  OBVIOUS
<1> USE DEF RustInit
<1>1. IInv
  BY InitIInv
<1>2. ClosingInv
  BY DEF ClosingInv, Init
<1>3. DOMAIN handles = {}
  OBVIOUS
<1>4. CountInv
  BY <1>3, FS_EmptySet DEF CountInv
<1>5. PlaceInv
  BY DEF PlaceInv, Starting, At, Init
<1>6. NamesInv /\ OwnersInv /\ ReachInv
  BY <1>3 DEF NamesInv, OwnersInv, ReachInv, Init
<1>7. AnswerInv
  BY AnswersAreReported DEF AnswerInv
<1> QED
  BY <1>1, <1>2, <1>4, <1>5, <1>6, <1>7 DEF RustInv, HandlesInv

LEMMA NextRustInv == RustInv /\ [RustNext]_allVars => RustInv'
<1> SUFFICES ASSUME RustInv, [RustNext]_allVars PROVE RustInv'
  OBVIOUS
<1>1. TypeOK /\ NamesInv /\ ReachInv
  BY DEF RustInv, IInv, TablesInv, HandlesInv
<1>2. [Next]_managerVars
  BY <1>1, RustStepIsStep
<1>3. IInv' /\ ClosingInv'
  BY <1>2, RustKeepsIInv, NextClosing DEF RustInv
<1>4. HandlesInv' /\ AnswerInv'
  BY <1>1, RustKeepsHandlesInv, RustAnswers DEF RustInv
<1> QED
  BY <1>3, <1>4 DEF RustInv

THEOREM RustInductiveInvariant == RustSpec => []RustInv
BY InitRustInv, NextRustInv, PTL DEF RustSpec

-----------------------------------------------------------------------------
(* What the invariant gives *)

\* However a program opens, closes, clones and drops, the tables and the drivers' heap
\* take only steps of ConnectionManager: no id out of range, no call while another one
\* drains, and nothing after deinit.
THEOREM RustRefinesManager == RustSpec => ManagerSpec
<1>1. RustInit => Init
  BY DEF RustInit
<1>2. RustInv /\ [RustNext]_allVars => [Next]_managerVars
  BY RustStepIsStep DEF RustInv, IInv, TablesInv, HandlesInv
<1> QED
  BY <1>1, <1>2, RustInductiveInvariant, PTL DEF RustSpec, Spec, ManagerSpec

\* The Rc counts exactly its holders, and a Cell holds its own id or nothing.
THEOREM RustTypeCorrect == RustSpec => []RustTypeOK
<1>1. RustInv => RustTypeOK
  <2> SUFFICES ASSUME RustInv PROVE RustTypeOK
    OBVIOUS
  <2>1. subject \in Name \cup {NoName}
    BY DEF RustInv, HandlesInv, PlaceInv, Closing, NamesInv
  <2>2. /\ at \in At /\ library \in BOOLEAN /\ managers \in Nat
        /\ strong = managers + Cardinality(DOMAIN handles)
        /\ DOMAIN handles \subseteq Name
        /\ \A n \in DOMAIN handles : handles[n] \in [id : {0, n[2]}, connection : Nat]
    BY DEF RustInv, HandlesInv, CountInv, PlaceInv, NamesInv
  <2>3. /\ answer.name \in Name \cup {NoName}
        /\ answer.kind \in {"none", "library", "invalid_input", "status", "closed"}
        /\ answer.status # "none" => answer.kind = "status"
    BY DEF RustInv, AnswerInv, Reported
  <2> QED
    BY <2>1, <2>2, <2>3 DEF RustTypeOK
<1> QED
  BY RustInductiveInvariant, <1>1, PTL

\* No native object is ever without the handle that will close it.
THEOREM OwnersAreKept == RustSpec => []EntriesHaveOwners
<1>1. RustInv => EntriesHaveOwners
  <2> SUFFICES ASSUME OwnersInv, NEW n \in Entries \ {subject}
               PROVE  n \in DOMAIN handles /\ handles[n].id = n[2]
    BY DEF RustInv, HandlesInv, EntriesHaveOwners
  <2>1. CASE n \in {"connection"} \X DOMAIN connections
    BY <2>1 DEF OwnersInv, Owned
  <2>2. CASE n \in {"result_set"} \X DOMAIN result_sets
    BY <2>2 DEF OwnersInv, Owned
  <2>3. CASE n \in {"cursor"} \X DOMAIN cursors
    BY <2>3 DEF OwnersInv, Owned
  <2> QED
    BY <2>1, <2>2, <2>3 DEF Entries
<1> QED
  BY RustInductiveInvariant, <1>1, PTL

\* No handle calls into an unloaded library or a freed manager, and the library goes only
\* when the driver holds nothing but what a failed put had stranded.
THEOREM LibraryStays == RustSpec => []LibraryOutlivesHandles
<1>1. RustInv => LibraryOutlivesHandles
  <2> SUFFICES ASSUME RustInv PROVE LibraryOutlivesHandles
    OBVIOUS
  <2>1. PlaceInv /\ CountInv
    BY DEF RustInv, HandlesInv
  <2>2. ASSUME DOMAIN handles # {} \/ managers > 0
        PROVE  library /\ strong > 0 /\ stage # "gone"
    <3>1. strong # 0
      BY <2>1, <2>2, NoneHeld
    <3> QED
      BY <2>1, <3>1 DEF PlaceInv, Starting, Closing, At
  <2>3. stage \notin {"ready", "gone"} => library
    BY <2>1 DEF PlaceInv, Starting, Closing, At
  <2>4. ASSUME ~library PROVE heap = orphans
    <3>1. Starting \/ stage = "gone"
      BY <2>1, <2>4 DEF PlaceInv, Closing, At
    <3>2. CASE stage = "gone"
      BY <3>2 DEF RustInv, IInv, TablesInv, StageInv, NothingLost, Stored, StoredIn
    <3> QED
      BY <3>1, <3>2 DEF Starting
  <2> QED
    BY <2>2, <2>3, <2>4 DEF LibraryOutlivesHandles
<1> QED
  BY RustInductiveInvariant, <1>1, PTL

\* NotFound is only ever about a child, says which table it is missing from, and comes of
\* the program's own close of the child's connection.
THEOREM NotFoundIsOwnDoing == RustSpec => []NotFoundMeansConnectionClosed
<1>1. RustInv => NotFoundMeansConnectionClosed
  <2> SUFFICES ASSUME RustInv PROVE NotFoundMeansConnectionClosed
    OBVIOUS
  <2>1. ASSUME NEW n \in DOMAIN handles, handles[n].id # 0, n \notin Entries
        PROVE  /\ n[1] # "connection"
               /\ handles[n].connection \in DOMAIN connections => handles[n].connection = closing
    <3>1. n \in Name
      BY DEF RustInv, HandlesInv, NamesInv
    <3>2. n[2] \notin TableOf(n)
      BY <2>1, <3>1 DEF Entries, TableOf, Name
    <3> QED
      BY <2>1, <3>2 DEF RustInv, HandlesInv, ReachInv
  <2>2. Reported(answer)
    BY DEF RustInv, AnswerInv
  <2> QED
    BY <2>1, <2>2 DEF NotFoundMeansConnectionClosed, Reported
<1> QED
  BY RustInductiveInvariant, <1>1, PTL
=============================================================================
