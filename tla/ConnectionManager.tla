-------------------------- MODULE ConnectionManager --------------------------
(***************************************************************************)
(* The tables of the Zig ConnectionManager (src/core/manager.zig) and the  *)
(* driver handles behind them.                                             *)
(*                                                                         *)
(* Every public call of the manager holds state_lock from its first line   *)
(* to its return, so a call is one action here, with two exceptions that   *)
(* run many driver callbacks in a row: close, which drains the children of *)
(* a connection before the connection itself, and deinit, which drains     *)
(* everything.  Each driver callback of those is an action, and `stage`    *)
(* says how far the thread that holds the lock has come.                   *)
(*                                                                         *)
(* Calls that only read the tables (testConnection, inspectNamespaceAccess,*)
(* the result set and cursor accessors, has*, supportedDrivers) change     *)
(* nothing modelled here and are stuttering steps.                         *)
(***************************************************************************)
EXTENDS Integers

CONSTANTS
  Driver,          \* the DriverSpecs a program may register: records with a kind
  MaxConnections,  \* bound on next_connection_id
  MaxResultSets,   \* bound on next_result_set_id
  MaxCursors,      \* bound on next_cursor_id
  MaxRows          \* bound on the rows of a cursor

Kind == {"adbc", "custom"}

\* The one spec registerBuiltins installs.
BuiltinDriver == [kind |-> "adbc", name |-> "adbc"]

ASSUME DriverAssumption ==
  /\ BuiltinDriver \in Driver
  /\ \A d \in Driver : d.kind \in Kind

ASSUME BoundAssumption ==
  /\ MaxConnections \in Nat
  /\ MaxResultSets \in Nat
  /\ MaxCursors \in Nat
  /\ MaxRows \in Nat

VARIABLES
  registry,            \* kind -> the spec registered for it last
  connections,         \* id -> [kind, handle]
  result_sets,         \* id -> [kind, handle]
  cursors,             \* id -> [kind, handle, position, total_rows]
  next_connection_id,
  next_result_set_id,
  next_cursor_id,
  heap,                \* the handles a driver has allocated and not yet freed
  orphans,             \* handles no table got hold of: the put after the allocation failed
  stage,               \* "ready", or what the holder of the lock is draining
  closing              \* the connection id close was called with

tables == <<connections, result_sets, cursors>>
counters == <<next_connection_id, next_result_set_id, next_cursor_id>>
ledger == <<heap, orphans>>
managerVars == <<registry, tables, counters, ledger, stage, closing>>

Handle == [table : {"connection", "result_set", "cursor"},
           id : Nat, connection_id : Nat, driver : Driver]

\* How a call that allocates a handle ends: the driver reports an error, the
\* handle is stored, or the driver succeeds and the table's put runs out of memory.
Outcome == {"driver_failed", "stored", "put_failed"}

-----------------------------------------------------------------------------

Put(map, key, value) ==
  [k \in DOMAIN map \cup {key} |-> IF k = key THEN value ELSE map[k]]

Without(map, key) == [k \in DOMAIN map \ {key} |-> map[k]]

NewHandle(table, id, connection_id, kind) ==
  [table |-> table, id |-> id, connection_id |-> connection_id,
   driver |-> registry[kind]]

\* What an allocating call leaves on the driver's side.  There is no errdefer
\* between spec.open (execute, open_cursor) and put, so a failed put strands the handle.
Allocate(handle, outcome) ==
  /\ heap' = IF outcome = "driver_failed" THEN heap ELSE heap \cup {handle}
  /\ orphans' = IF outcome = "put_failed" THEN orphans \cup {handle} ELSE orphans

\* A close path has taken `handle` out of its table.  Only a kind that resolves
\* gets its callback called; otherwise the handle stays allocated.
Free(handle, kind) ==
  /\ heap' = IF kind \in DOMAIN registry THEN heap \ {handle} ELSE heap
  /\ UNCHANGED orphans

Locked == stage = "ready"

-----------------------------------------------------------------------------

\* init
Init ==
  /\ registry = [k \in {BuiltinDriver.kind} |-> BuiltinDriver]
  /\ connections = [i \in {} |-> {}]
  /\ result_sets = [i \in {} |-> {}]
  /\ cursors = [i \in {} |-> {}]
  /\ next_connection_id = 1
  /\ next_result_set_id = 1
  /\ next_cursor_id = 1
  /\ heap = {}
  /\ orphans = {}
  /\ stage = "ready"
  /\ closing = 0

\* Mutated form of RegisterDriver: the new spec becomes the whole registry.
RegisterDriverAlone(spec) ==
  /\ Locked
  /\ registry' = [k \in {spec.kind} |-> spec]
  /\ UNCHANGED <<tables, counters, ledger, stage, closing>>

\* registerDriver: a spec replaces the one registered for its kind.
RegisterDriver(spec) ==
  /\ Locked
  /\ registry' = Put(registry, spec.kind, spec)
  /\ UNCHANGED <<tables, counters, ledger, stage, closing>>

\* open: the id is consumed before the driver is asked, and stays consumed if it fails.
Open(kind, outcome) ==
  /\ Locked
  /\ kind \in DOMAIN registry
  /\ next_connection_id <= MaxConnections
  /\ LET handle == NewHandle("connection", next_connection_id, next_connection_id, kind)
     IN  /\ Allocate(handle, outcome)
         /\ connections' = IF outcome = "stored"
                             THEN Put(connections, next_connection_id,
                                      [kind |-> kind, handle |-> handle])
                             ELSE connections
  /\ next_connection_id' = next_connection_id + 1
  /\ UNCHANGED <<registry, result_sets, cursors, next_result_set_id,
                 next_cursor_id, stage, closing>>

\* The body execute shares with the three metadata calls: look the connection up,
\* resolve its kind, take an id, ask the driver, store.
NewResultSet(c, outcome) ==
  /\ Locked
  /\ c \in DOMAIN connections
  /\ connections[c].kind \in DOMAIN registry
  /\ next_result_set_id <= MaxResultSets
  /\ LET kind == connections[c].kind
         handle == NewHandle("result_set", next_result_set_id, c, kind)
     IN  /\ Allocate(handle, outcome)
         /\ result_sets' = IF outcome = "stored"
                             THEN Put(result_sets, next_result_set_id,
                                      [kind |-> kind, handle |-> handle])
                             ELSE result_sets
  /\ next_result_set_id' = next_result_set_id + 1
  /\ UNCHANGED <<registry, connections, cursors, next_connection_id,
                 next_cursor_id, stage, closing>>

Execute(c, outcome) == NewResultSet(c, outcome)

GetTables(c, outcome) == NewResultSet(c, outcome)

GetCatalogs(c, outcome) == NewResultSet(c, outcome)

GetDatabases(c, outcome) == NewResultSet(c, outcome)

\* openCursor: the driver runs the statement to its end and keeps the row count.
OpenCursor(c, outcome, total_rows) ==
  /\ Locked
  /\ c \in DOMAIN connections
  /\ connections[c].kind \in DOMAIN registry
  /\ next_cursor_id <= MaxCursors
  /\ LET kind == connections[c].kind
         handle == NewHandle("cursor", next_cursor_id, c, kind)
     IN  /\ Allocate(handle, outcome)
         /\ cursors' = IF outcome = "stored"
                         THEN Put(cursors, next_cursor_id,
                                  [kind |-> kind, handle |-> handle,
                                   position |-> 0, total_rows |-> total_rows])
                         ELSE cursors
  /\ next_cursor_id' = next_cursor_id + 1
  /\ UNCHANGED <<registry, connections, result_sets, next_connection_id,
                 next_result_set_id, stage, closing>>

\* Mutated form of FetchNext: the cursor is advanced before its end is looked at.
FetchNextPastEnd(i) ==
  /\ Locked
  /\ i \in DOMAIN cursors
  /\ cursors[i].kind \in DOMAIN registry
  /\ cursors[i].position <= cursors[i].total_rows
  /\ cursors' = [cursors EXCEPT ![i].position = @ + 1]
  /\ UNCHANGED <<registry, connections, result_sets, counters, ledger, stage, closing>>

\* fetchNext, on a cursor with a row left; at the end it changes nothing.
FetchNext(i) ==
  /\ Locked
  /\ i \in DOMAIN cursors
  /\ cursors[i].kind \in DOMAIN registry
  /\ cursors[i].position < cursors[i].total_rows
  /\ cursors' = [cursors EXCEPT ![i].position = @ + 1]
  /\ UNCHANGED <<registry, connections, result_sets, counters, ledger, stage, closing>>

-----------------------------------------------------------------------------

\* Mutated form of DropResultSet: get instead of fetchRemove.
DropResultSetKeepsEntry(i) ==
  /\ Free(result_sets[i].handle, result_sets[i].kind)
  /\ UNCHANGED <<registry, tables, counters>>

\* Mutated form of DropCursor: the entry goes, the driver is not called.
DropCursorKeepsHandle(i) ==
  /\ cursors' = Without(cursors, i)
  /\ UNCHANGED <<registry, connections, result_sets, counters, ledger>>

\* closeResultSetUnlocked and closeCursorUnlocked: the entry goes first, then the handle.
DropResultSet(i) ==
  /\ result_sets' = Without(result_sets, i)
  /\ Free(result_sets[i].handle, result_sets[i].kind)
  /\ UNCHANGED <<registry, connections, cursors, counters>>

DropCursor(i) ==
  /\ cursors' = Without(cursors, i)
  /\ Free(cursors[i].handle, cursors[i].kind)
  /\ UNCHANGED <<registry, connections, result_sets, counters>>

DropConnection(i) ==
  /\ connections' = Without(connections, i)
  /\ Free(connections[i].handle, connections[i].kind)
  /\ UNCHANGED <<registry, result_sets, cursors, counters>>

CloseResultSet(i) ==
  /\ Locked
  /\ i \in DOMAIN result_sets
  /\ DropResultSet(i)
  /\ UNCHANGED <<stage, closing>>

CloseCursor(i) ==
  /\ Locked
  /\ i \in DOMAIN cursors
  /\ DropCursor(i)
  /\ UNCHANGED <<stage, closing>>

\* Moves the holder of the lock on, with nothing else changed.
Advance(from, to) ==
  /\ stage = from
  /\ stage' = to
  /\ UNCHANGED <<registry, tables, counters, ledger, closing>>

CursorsOf(c) == {i \in DOMAIN cursors : cursors[i].handle.connection_id = c}

ResultSetsOf(c) == {i \in DOMAIN result_sets : result_sets[i].handle.connection_id = c}

\* close(c) takes the lock.  The id is not looked up before the children are drained.
Close(c) ==
  /\ Locked
  /\ stage' = "close_cursors"
  /\ closing' = c
  /\ UNCHANGED <<registry, tables, counters, ledger>>

\* One turn of closeCursorsForConnection; an error of the close breaks the loop.
CloseCursorsForConnection ==
  \/ /\ stage = "close_cursors"
     /\ \E i \in CursorsOf(closing) :
          /\ DropCursor(i)
          /\ stage' = IF cursors[i].kind \in DOMAIN registry
                        THEN stage ELSE "close_result_sets"
     /\ UNCHANGED closing
  \/ /\ CursorsOf(closing) = {}
     /\ Advance("close_cursors", "close_result_sets")

\* Mutated form of CloseResultSetsForConnection: close leaves the result sets alone.
CloseForgetsResultSets == Advance("close_result_sets", "close_connection")

\* One turn of closeResultSetsForConnection.
CloseResultSetsForConnection ==
  \/ /\ stage = "close_result_sets"
     /\ \E i \in ResultSetsOf(closing) :
          /\ DropResultSet(i)
          /\ stage' = IF result_sets[i].kind \in DOMAIN registry
                        THEN stage ELSE "close_connection"
     /\ UNCHANGED closing
  \/ /\ ResultSetsOf(closing) = {}
     /\ Advance("close_result_sets", "close_connection")

\* Mutated form of CloseConnection: the id of the closed connection is handed out again.
CloseConnectionRecyclesId ==
  /\ stage = "close_connection"
  /\ closing \in DOMAIN connections
  /\ connections' = Without(connections, closing)
  /\ Free(connections[closing].handle, connections[closing].kind)
  /\ next_connection_id' = closing
  /\ stage' = "ready"
  /\ closing' = 0
  /\ UNCHANGED <<registry, result_sets, cursors, next_result_set_id, next_cursor_id>>

\* The end of closeUnlocked: fetchRemove and the driver's close, or ConnectionNotFound.
CloseConnection ==
  \/ /\ stage = "close_connection"
     /\ closing \in DOMAIN connections
     /\ DropConnection(closing)
     /\ stage' = "ready"
     /\ closing' = 0
  \/ /\ stage = "close_connection"
     /\ closing \notin DOMAIN connections
     /\ stage' = "ready"
     /\ closing' = 0
     /\ UNCHANGED <<registry, tables, counters, ledger>>

-----------------------------------------------------------------------------

\* Mutated form of Deinit: the connections are drained before what depends on them.
DeinitConnectionsFirst == Advance("ready", "deinit_connections")

\* deinit.  It iterates over each table once and frees the table afterwards, so a
\* visited entry is gone as far as anybody can tell; it leaves the tables in the
\* order cursors, result sets, connections.
Deinit == Advance("ready", "deinit_cursors")

DeinitCursors ==
  \/ /\ stage = "deinit_cursors"
     /\ \E i \in DOMAIN cursors : DropCursor(i)
     /\ UNCHANGED <<stage, closing>>
  \/ /\ DOMAIN cursors = {}
     /\ Advance("deinit_cursors", "deinit_result_sets")

\* Mutated form of DeinitResultSets: the result set table is freed without closing its entries.
DeinitForgetsResultSets == Advance("deinit_result_sets", "deinit_connections")

DeinitResultSets ==
  \/ /\ stage = "deinit_result_sets"
     /\ \E i \in DOMAIN result_sets : DropResultSet(i)
     /\ UNCHANGED <<stage, closing>>
  \/ /\ DOMAIN result_sets = {}
     /\ Advance("deinit_result_sets", "deinit_connections")

DeinitConnections ==
  \/ /\ stage = "deinit_connections"
     /\ \E i \in DOMAIN connections : DropConnection(i)
     /\ UNCHANGED <<stage, closing>>
  \/ /\ DOMAIN connections = {}
     /\ Advance("deinit_connections", "gone")

\* What the thread that holds the lock does next in close or deinit.
Drain ==
  \/ CloseCursorsForConnection
  \/ CloseResultSetsForConnection
  \/ CloseConnection
  \/ DeinitCursors
  \/ DeinitResultSets
  \/ DeinitConnections

\* An id a caller may pass: 0 and ids never issued included.
CallerId == 0..MaxConnections

\* The public calls that change a table.
Call ==
  \/ \E spec \in Driver : RegisterDriver(spec)
  \/ \E kind \in Kind, outcome \in Outcome : Open(kind, outcome)
  \/ \E c \in CallerId, outcome \in Outcome :
       \/ Execute(c, outcome)
       \/ GetTables(c, outcome)
       \/ GetCatalogs(c, outcome)
       \/ GetDatabases(c, outcome)
  \/ \E c \in CallerId, outcome \in Outcome, n \in 0..MaxRows : OpenCursor(c, outcome, n)
  \/ \E i \in 0..MaxCursors : FetchNext(i) \/ CloseCursor(i)
  \/ \E i \in 0..MaxResultSets : CloseResultSet(i)
  \/ \E c \in CallerId : Close(c)

Next == Call \/ Deinit \/ Drain

Spec == Init /\ [][Next]_managerVars

\* A thread inside close or deinit keeps running: the loops wait for nobody.
FairSpec == Spec /\ WF_managerVars(Drain)

-----------------------------------------------------------------------------
(* Properties *)

Entry == [kind : Kind, handle : Handle]

CursorEntry == [kind : Kind, handle : Handle, position : Nat, total_rows : Nat]

Stage == {"ready", "close_cursors", "close_result_sets", "close_connection",
          "deinit_cursors", "deinit_result_sets", "deinit_connections", "gone"}

\* A table: every key is an id already issued, and names the handle stored under it.
IsTable(map, name, next_id) ==
  /\ DOMAIN map \subseteq 1..(next_id - 1)
  /\ \A i \in DOMAIN map : map[i].handle.table = name /\ map[i].handle.id = i

\* The tables hold entries of their own type under issued ids, and no cursor has
\* delivered more rows than it has (the id and position fields of driver.zig).
TypeOK ==
  /\ DOMAIN registry \subseteq Kind
  /\ \A k \in DOMAIN registry : registry[k] \in Driver /\ registry[k].kind = k
  /\ connections \in [DOMAIN connections -> Entry]
  /\ result_sets \in [DOMAIN result_sets -> Entry]
  /\ cursors \in [DOMAIN cursors -> CursorEntry]
  /\ next_connection_id \in 1..(MaxConnections + 1)
  /\ next_result_set_id \in 1..(MaxResultSets + 1)
  /\ next_cursor_id \in 1..(MaxCursors + 1)
  /\ IsTable(connections, "connection", next_connection_id)
  /\ IsTable(result_sets, "result_set", next_result_set_id)
  /\ IsTable(cursors, "cursor", next_cursor_id)
  /\ \A i \in DOMAIN cursors : cursors[i].position <= cursors[i].total_rows
  /\ heap \subseteq Handle
  /\ orphans \subseteq heap
  /\ stage \in Stage
  /\ closing \in Nat

StoredIn(map) == {map[i].handle : i \in DOMAIN map}

Stored == StoredIn(connections) \cup StoredIn(result_sets) \cup StoredIn(cursors)

\* Ownership (docs/architecture.md: "connection lifecycle management plus result-set
\* and cursor ownership"): at every moment the handles alive in the drivers are
\* exactly those the tables hold, plus those a failed put stranded.  A table never
\* holds a freed handle, so no locked call can touch one or free one twice, and no
\* closing path loses one.
NothingLost ==
  /\ heap = Stored \cup orphans
  /\ Stored \cap orphans = {}

BelongsToConnection(entry) ==
  /\ entry.handle.connection_id \in DOMAIN connections
  /\ entry.kind = connections[entry.handle.connection_id].kind

\* A result set or a cursor that a caller can still reach belongs to a connection
\* that is still open, of the same kind, whatever was closed and in whatever order.
ChildrenHaveConnection ==
  /\ \A i \in DOMAIN result_sets : BelongsToConnection(result_sets[i])
  /\ \A i \in DOMAIN cursors : BelongsToConnection(cursors[i])

\* The driver never sees a connection freed under one of its result sets or cursors:
\* close and deinit drain children first.  (A stranded handle is nobody's any more.)
ConnectionOutlivesChildren ==
  \A h \in heap \ orphans :
    \E g \in heap : g.table = "connection" /\ g.id = h.connection_id

\* The kind stored with an entry always resolves, to a spec of the kind that
\* allocated the handle: the DriverNotRegistered exits of the close paths, which
\* would drop the entry and leak the handle, are dead.
KindsResolve ==
  \A map \in {connections, result_sets, cursors} : \A i \in DOMAIN map :
    /\ map[i].kind \in DOMAIN registry
    /\ map[i].handle.driver.kind = map[i].kind

GoneFor(map, next_id, i) == i < next_id /\ i \notin DOMAIN map

\* An id whose object is closed, or was never stored, stays "not found" for ever: a
\* caller that holds a stale id can never reach somebody else's object with it.
StaleIdsStayGone ==
  [][/\ \A i \in 1..MaxConnections :
          GoneFor(connections, next_connection_id, i)
            => GoneFor(connections', next_connection_id', i)
     /\ \A i \in 1..MaxResultSets :
          GoneFor(result_sets, next_result_set_id, i)
            => GoneFor(result_sets', next_result_set_id', i)
     /\ \A i \in 1..MaxCursors :
          GoneFor(cursors, next_cursor_id, i)
            => GoneFor(cursors', next_cursor_id', i)]_managerVars

\* deinit closes everything that was still open: what survives it in a driver is
\* what a failed put had stranded.
DeinitClosesAll == stage = "gone" => heap = orphans

\* A close or deinit that has begun ends, so the lock is released: the loops that
\* search a child, close it and search again terminate.
DrainEnds == stage # "ready" ~> stage \in {"ready", "gone"}
=============================================================================
