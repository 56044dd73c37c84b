----------------------------- MODULE RustBinding -----------------------------
(***************************************************************************)
(* The handles of the Rust binding (bindings/rust/src/lib.rs) over the     *)
(* tables of ConnectionManager.                                            *)
(*                                                                         *)
(* ManagerInner owns the loaded library and the native manager; an Rc      *)
(* shares it between the clones of ConnectionManager and every Connection, *)
(* ResultSet and Cursor.  A handle keeps the id it stands for in a Cell,   *)
(* which close sets to 0.  Rc and Cell keep all of this on one thread, so  *)
(* a call runs to its end before the next begins; the steps below are the  *)
(* points at which the library, the reference count or a table changes.    *)
(* A program may drop what it holds in any order.                          *)
(*                                                                         *)
(* An asynchronous call is started and awaited within one method: what it  *)
(* does to the tables is what its synchronous form does (AsyncOperations,  *)
(* TablesAsIfSynchronous), and only its errors are others.                 *)
(***************************************************************************)
EXTENDS ConnectionManager, FiniteSets

CONSTANT MaxManagers   \* bound on the clones of ConnectionManager a program keeps

ASSUME ManagersAssumption == MaxManagers \in Nat

VARIABLES
  at,        \* where the thread is: "idle", or inside new, close or a drop
  library,   \* whether the dynamic library is loaded
  strong,    \* the strong count of the Rc<ManagerInner>, 0 when there is none
  managers,  \* how many values of ConnectionManager the program holds
  handles,   \* name -> [id, connection]: the handles the program holds; the
             \* connection is not part of the code's state, it says where one was opened
  subject,   \* the handle that is being closed or dropped
  answer     \* what the last call came to: [name, kind, status]

rustVars == <<at, library, strong, managers, handles, subject, answer>>
allVars == <<managerVars, rustVars>>

\* A handle goes by its type and the id it was made with.
Name == {"connection", "result_set", "cursor"} \X Nat

NoName == <<"none", 0>>

-----------------------------------------------------------------------------
(* Errors *)

\* What the manager says of an id that is in no table.
MissingError(name) ==
  CASE name[1] = "connection" -> "ConnectionNotFound"
    [] name[1] = "result_set" -> "ResultSetNotFound"
    [] name[1] = "cursor" -> "CursorNotFound"

\* The code an error has in the C ABI; what it does not know is internal.
MapError(error) ==
  CASE error = "InvalidArgument" -> 1        [] error = "DriverNotRegistered" -> 2
    [] error = "ConnectionNotFound" -> 3     [] error = "ResultSetNotFound" -> 4
    [] error = "CursorNotFound" -> 5         [] error = "ColumnIndexOutOfBounds" -> 6
    [] error = "RowIndexOutOfBounds" -> 7    [] error = "OperationNotFound" -> 8
    [] OTHER -> 255

\* Mutated form of StatusFromRaw: the code 3 has been left out of the list.
StatusFromRawSkips(value) ==
  LET statuses == <<"InvalidArgument", "DriverNotRegistered", "ResultSetNotFound",
                    "CursorNotFound", "ColumnIndexOutOfBounds",
                    "RowIndexOutOfBounds", "OperationNotFound">>
  IN IF value \in DOMAIN statuses THEN statuses[value]
     ELSE IF value = 255 THEN "InternalError" ELSE "none"

\* The status a code stands for in Rust.
StatusFromRaw(value) ==
  LET statuses == <<"InvalidArgument", "DriverNotRegistered", "ConnectionNotFound",
                    "ResultSetNotFound", "CursorNotFound", "ColumnIndexOutOfBounds",
                    "RowIndexOutOfBounds", "OperationNotFound">>
  IN IF value \in DOMAIN statuses THEN statuses[value]
     ELSE IF value = 255 THEN "InternalError" ELSE "none"

Ok == [name |-> NoName, kind |-> "none", status |-> "none"]

\* An Error of Rust, with the handle it is about.
Failed(name, kind, status) == [name |-> name, kind |-> kind, status |-> status]

StatusError(name, error) == Failed(name, "status", StatusFromRaw(MapError(error)))

\* An id of 0 says that a call failed, and only the message says why.
ZeroResultError(name) == Failed(name, "status", "none")

-----------------------------------------------------------------------------

TableOf(name) == CASE name[1] = "connection" -> DOMAIN connections
                   [] name[1] = "result_set" -> DOMAIN result_sets
                   [] name[1] = "cursor" -> DOMAIN cursors

-----------------------------------------------------------------------------
(* ManagerInner::new and its Drop *)

RustInit ==
  /\ Init
  /\ at = "unloaded"
  /\ library = FALSE
  /\ strong = 0
  /\ managers = 0
  /\ handles = [n \in {} |-> {}]
  /\ subject = NoName
  /\ answer = Ok

\* DynamicLibrary::open, the first thing Api::load does.
OpenLibrary ==
  /\ at = "unloaded"
  /\ \/ at' = "resolving" /\ library' = TRUE /\ answer' = Ok
     \/ answer' = Failed(NoName, "library", "none") /\ UNCHANGED <<at, library>>
  /\ UNCHANGED <<managerVars, strong, managers, handles, subject>>

\* The rest of Api::load.  A symbol that is missing drops the library on the way out.
ResolveSymbols ==
  /\ at = "resolving"
  /\ \/ at' = "creating" /\ UNCHANGED <<library, answer>>
     \/ at' = "unloaded" /\ library' = FALSE /\ answer' = Failed(NoName, "library", "none")
  /\ UNCHANGED <<managerVars, strong, managers, handles, subject>>

\* aq_manager_create; without a manager the Api is dropped, and the library with it.
CreateManager ==
  /\ at = "creating"
  /\ \/ at' = "idle" /\ strong' = 1 /\ managers' = 1 /\ UNCHANGED <<library, answer>>
     \/ /\ at' = "unloaded" /\ library' = FALSE /\ answer' = Failed(NoName, "library", "none")
        /\ UNCHANGED <<strong, managers>>
  /\ UNCHANGED <<managerVars, handles, subject>>

CloneManager ==
  /\ at = "idle"
  /\ managers \in 1..(MaxManagers - 1)
  /\ managers' = managers + 1
  /\ strong' = strong + 1
  /\ answer' = Ok
  /\ UNCHANGED <<managerVars, at, library, handles, subject>>

\* Mutated form of Release: the last Rc is the one before the last.
ReleaseKeepsLast ==
  /\ strong' = strong - 1
  /\ at' = "idle"

\* An Rc goes: the last one drops the ManagerInner.
Release ==
  /\ strong' = strong - 1
  /\ at' = IF strong = 1 THEN "destroying" ELSE "idle"

DropManager ==
  /\ at = "idle"
  /\ managers > 0
  /\ managers' = managers - 1
  /\ Release
  /\ answer' = Ok
  /\ UNCHANGED <<managerVars, library, handles, subject>>

\* Mutated form of DestroyManager: the native manager is freed without its deinit.
DestroyManagerWithoutDeinit ==
  /\ at = "destroying"
  /\ Advance("ready", "gone")
  /\ at' = "draining"
  /\ UNCHANGED <<library, strong, managers, handles, subject, answer>>

\* Mutated form of DestroyManager: the library goes first.
DestroyManagerUnloadsFirst ==
  /\ at = "destroying"
  /\ Deinit
  /\ at' = "draining"
  /\ library' = FALSE
  /\ UNCHANGED <<strong, managers, handles, subject, answer>>

\* Drop of ManagerInner begins: aq_manager_destroy.
DestroyManager ==
  /\ at = "destroying"
  /\ Deinit
  /\ at' = "draining"
  /\ UNCHANGED <<library, strong, managers, handles, subject, answer>>

\* Its fields go after it: the Api, and with it the library.
UnloadLibrary ==
  /\ at = "draining"
  /\ stage = "gone"
  /\ library' = FALSE
  /\ at' = "gone"
  /\ UNCHANGED <<managerVars, strong, managers, handles, subject, answer>>

-----------------------------------------------------------------------------
(* Calls on handles *)

Mode == {"sync", "async"}

\* What a call reports whose driver or put failed.  await_operation has the status of the
\* operation; one that could not be started has the id 0, like a synchronous call.
CallErrors(name, mode) ==
  {ZeroResultError(name)} \cup
  (IF mode = "async" THEN {StatusError(name, error) : error \in {"InvalidArgument", "QueryFailed"}}
   ELSE {})

\* Mutated form of Wrap: the new handle does not hold on to the manager.
WrapWithoutClone(name, connection, outcome, mode) ==
  /\ IF outcome = "stored"
       THEN /\ handles' = Put(handles, name, [id |-> name[2], connection |-> connection])
            /\ answer' = Ok
       ELSE /\ answer' \in CallErrors(name, mode)
            /\ UNCHANGED handles
  /\ UNCHANGED <<at, library, strong, managers, subject>>

\* What the program gets for the id a call returned: a handle that shares the manager,
\* or an error.
Wrap(name, connection, outcome, mode) ==
  /\ IF outcome = "stored"
       THEN /\ handles' = Put(handles, name, [id |-> name[2], connection |-> connection])
            /\ strong' = strong + 1
            /\ answer' = Ok
       ELSE /\ answer' \in CallErrors(name, mode)
            /\ UNCHANGED <<handles, strong>>
  /\ UNCHANGED <<at, library, managers, subject>>

\* connect and connect_async.  DriverKind has one value, and it is registered.
Connect(outcome, mode) ==
  /\ at = "idle"
  /\ managers > 0
  /\ Open(BuiltinDriver.kind, outcome)
  /\ Wrap(<<"connection", next_connection_id>>, next_connection_id, outcome, mode)

\* A handle of the program of this type, whose open_id() gives an id.
IsOpen(name, type) ==
  /\ at = "idle"
  /\ name \in DOMAIN handles
  /\ name[1] = type
  /\ handles[name].id # 0

\* execute and execute_async
ConnectionExecute(name, outcome, mode) ==
  /\ IsOpen(name, "connection")
  /\ Execute(handles[name].id, outcome)
  /\ Wrap(<<"result_set", next_result_set_id>>, name[2], outcome, mode)

ConnectionGetTables(name, outcome) ==
  /\ IsOpen(name, "connection")
  /\ GetTables(handles[name].id, outcome)
  /\ Wrap(<<"result_set", next_result_set_id>>, name[2], outcome, "sync")

ConnectionGetCatalogs(name, outcome) ==
  /\ IsOpen(name, "connection")
  /\ GetCatalogs(handles[name].id, outcome)
  /\ Wrap(<<"result_set", next_result_set_id>>, name[2], outcome, "sync")

\* get_databases and get_database
ConnectionGetDatabases(name, outcome) ==
  /\ IsOpen(name, "connection")
  /\ GetDatabases(handles[name].id, outcome)
  /\ Wrap(<<"result_set", next_result_set_id>>, name[2], outcome, "sync")

\* cursor and cursor_async
ConnectionCursor(name, outcome, total_rows, mode) ==
  /\ IsOpen(name, "connection")
  /\ OpenCursor(handles[name].id, outcome, total_rows)
  /\ Wrap(<<"cursor", next_cursor_id>>, name[2], outcome, mode)

CursorNext(name) ==
  /\ IsOpen(name, "cursor")
  /\ FetchNext(handles[name].id)
  /\ answer' = Ok
  /\ UNCHANGED <<at, library, strong, managers, handles, subject>>

\* A call that leaves every table as it is: `errors` are those it may meet in its handle.
\* The methods that take several native calls take them on one thread, so the first
\* answers for all.
Read(name, errors) ==
  /\ answer' \in IF handles[name].id \in TableOf(name)
                   THEN {Ok} \cup {StatusError(name, error) : error \in errors}
                   ELSE {StatusError(name, MissingError(name))}
  /\ UNCHANGED <<managerVars, at, library, strong, managers, handles, subject>>

\* test and inspect_namespace_access ask the driver.
ReadConnection(name) ==
  /\ IsOpen(name, "connection")
  /\ Read(name, {"InvalidArgument", "QueryFailed"})

\* row_count, affected_rows, columns, value and table_qualified_name
ReadResultSet(name) ==
  /\ IsOpen(name, "result_set")
  /\ Read(name, {"InvalidArgument", "RowIndexOutOfBounds", "ColumnIndexOutOfBounds"})

\* columns, and next at the end
ReadCursor(name) ==
  /\ IsOpen(name, "cursor")
  /\ Read(name, {})

\* Any method but close on a closed handle, or with a text that no C string can hold:
\* make_c_string and open_id() return before a native call is made.
Refuse(name) ==
  /\ at = "idle"
  /\ name \in DOMAIN handles
  /\ \/ handles[name].id = 0 /\ answer' = Failed(name, "closed", "none")
     \/ name[1] = "connection" /\ answer' = Failed(name, "invalid_input", "none")
  /\ UNCHANGED <<managerVars, at, library, strong, managers, handles, subject>>

-----------------------------------------------------------------------------
(* close and Drop *)

\* aq_connection_close drains the children before it looks for the connection.
CloseConnectionNative(name, id) == name[1] = "connection" /\ Close(id)

CloseResultSetNative(name, id) ==
  /\ name[1] = "result_set"
  /\ \/ CloseResultSet(id)
     \/ Locked /\ id \notin DOMAIN result_sets /\ UNCHANGED managerVars

CloseCursorNative(name, id) ==
  /\ name[1] = "cursor"
  /\ \/ CloseCursor(id)
     \/ Locked /\ id \notin DOMAIN cursors /\ UNCHANGED managerVars

CloseNative(name, id) ==
  CloseConnectionNative(name, id) \/ CloseResultSetNative(name, id) \/ CloseCursorNative(name, id)

\* close of a handle that has an id: the Cell is emptied before the native call, whatever
\* that returns.
CloseId(name) ==
  /\ at = "idle"
  /\ name \in DOMAIN handles
  /\ handles[name].id # 0
  /\ handles' = [handles EXCEPT ![name].id = 0]
  /\ CloseNative(name, handles[name].id)
  /\ subject' = name
  /\ UNCHANGED <<library, strong, managers>>

CloseHandle(name) ==
  \/ /\ CloseId(name)
     /\ at' = "closing"
     /\ answer' = IF handles[name].id \in TableOf(name) THEN Ok
                  ELSE StatusError(name, MissingError(name))
  \/ /\ at = "idle"
     /\ name \in DOMAIN handles
     /\ handles[name].id = 0
     /\ answer' = Ok
     /\ UNCHANGED <<managerVars, at, library, strong, managers, handles, subject>>

ReturnFromClose ==
  /\ at = "closing"
  /\ stage = "ready"
  /\ at' = "idle"
  /\ subject' = NoName
  /\ UNCHANGED <<managerVars, library, strong, managers, handles, answer>>

\* Mutated form of DropHandle: the Rc goes before the native close has been made.
DropHandleReleasesFirst(name) ==
  /\ at = "idle"
  /\ name \in DOMAIN handles
  /\ handles' = Without(handles, name)
  /\ Release
  /\ answer' = Ok
  /\ UNCHANGED <<managerVars, library, managers, subject>>

\* Drop closes, ignores what that returns, and then lets go of the Rc.
DropHandle(name) ==
  \/ CloseId(name) /\ at' = "dropping" /\ answer' = Ok
  \/ /\ at = "idle"
     /\ name \in DOMAIN handles
     /\ handles[name].id = 0
     /\ handles' = Without(handles, name)
     /\ Release
     /\ answer' = Ok
     /\ UNCHANGED <<managerVars, library, managers, subject>>

ReturnFromDrop ==
  /\ at = "dropping"
  /\ stage = "ready"
  /\ handles' = Without(handles, subject)
  /\ Release
  /\ subject' = NoName
  /\ UNCHANGED <<managerVars, library, managers, answer>>

-----------------------------------------------------------------------------

\* What the thread does by itself once it is inside new, close or a drop.
Continue ==
  \/ ResolveSymbols \/ CreateManager
  \/ ReturnFromClose \/ ReturnFromDrop
  \/ DestroyManager \/ UnloadLibrary
  \/ Drain /\ UNCHANGED rustVars

OnHandle(name) ==
  \/ \E outcome \in Outcome :
       \/ \E mode \in Mode :
            \/ ConnectionExecute(name, outcome, mode)
            \/ \E n \in 0..MaxRows : ConnectionCursor(name, outcome, n, mode)
       \/ ConnectionGetTables(name, outcome)
       \/ ConnectionGetCatalogs(name, outcome)
       \/ ConnectionGetDatabases(name, outcome)
  \/ ReadConnection(name) \/ ReadResultSet(name) \/ ReadCursor(name)
  \/ CursorNext(name) \/ Refuse(name)
  \/ CloseHandle(name) \/ DropHandle(name)

\* What a program does.
Program ==
  \/ OpenLibrary \/ CloneManager \/ DropManager
  \/ \E outcome \in Outcome, mode \in Mode : Connect(outcome, mode)
  \/ \E name \in DOMAIN handles : OnHandle(name)

RustNext == Program \/ Continue

RustSpec == RustInit /\ [][RustNext]_allVars

\* A call that has begun goes on; what the program does next is its own business.
RustFairSpec == RustSpec /\ WF_allVars(Continue)

-----------------------------------------------------------------------------
(* Properties *)

At == {"unloaded", "resolving", "creating", "idle", "closing", "dropping",
       "destroying", "draining", "gone"}

\* Types; a handle's Cell holds its own id or 0, and the Rc counts its holders.
RustTypeOK ==
  /\ at \in At
  /\ library \in BOOLEAN
  /\ managers \in Nat
  /\ strong = managers + Cardinality(DOMAIN handles)
  /\ DOMAIN handles \subseteq Name
  /\ \A n \in DOMAIN handles :
       handles[n] \in [id : {0, n[2]}, connection : Nat]
  /\ subject \in Name \cup {NoName}
  /\ answer.name \in Name \cup {NoName}
  /\ answer.kind \in {"none", "library", "invalid_input", "status", "closed"}
  /\ answer.status # "none" => answer.kind = "status"

Entries ==
  ({"connection"} \X DOMAIN connections) \cup ({"result_set"} \X DOMAIN result_sets)
    \cup ({"cursor"} \X DOMAIN cursors)

\* Ownership: every object in the native tables is reachable, through the Cell of one
\* handle the program still holds.  However handles are closed and dropped, and whatever
\* a native close returns, none is left for aq_manager_destroy to find.  (While the close
\* of a connection is under way, its own entry waits for the driver's callback.)
EntriesHaveOwners ==
  \A n \in Entries \ {subject} : n \in DOMAIN handles /\ handles[n].id = n[2]

\* The library is loaded and the manager alive for as long as any handle is, and until the
\* driver has been told of everything it holds: a native call never reaches unloaded code
\* or a freed manager.
LibraryOutlivesHandles ==
  /\ DOMAIN handles # {} \/ managers > 0 => library /\ strong > 0 /\ stage # "gone"
  /\ stage \notin {"ready", "gone"} => library
  /\ ~library => heap = orphans

\* A program gets NotFound only for a child whose connection it has closed or dropped
\* itself, with the status that names the child's table: no call fails because some other
\* handle is gone.
NotFoundMeansConnectionClosed ==
  /\ \A n \in DOMAIN handles :
       handles[n].id # 0 /\ n \notin Entries =>
         /\ n[1] # "connection"
         /\ handles[n].connection \in DOMAIN connections => handles[n].connection = closing
  /\ LET missing == {"ConnectionNotFound", "ResultSetNotFound", "CursorNotFound"}
     IN answer.status \in missing => answer.status = MissingError(answer.name)
  /\ answer.status # "ConnectionNotFound"

\* The tables, counters and driver handles change only as ConnectionManager says, deinit
\* at the end included: the binding never calls a manager that is not there.
ManagerSpec == Spec

\* A library nobody holds on to any more is unloaded, however long the driver takes to
\* close what was open; so is one whose loading or whose manager failed.
LastDropUnloads ==
  library /\ managers = 0 /\ DOMAIN handles = {} ~> ~library \/ managers > 0
=============================================================================
