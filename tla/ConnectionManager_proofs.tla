----------------------- MODULE ConnectionManager_proofs -----------------------
(***************************************************************************)
(* Theorems about ConnectionManager, for any set of driver specs and any   *)
(* bounds: the tables and the drivers' heap agree for ever, children never *)
(* outlive their connection, and a stale id stays not found.               *)
(*                                                                         *)
(* The inductive invariant IInv adds to those what makes them inductive:   *)
(* a live handle carries an id already issued (so a new one is new), a     *)
(* connection's handle names itself as its connection, and each stage of   *)
(* close and deinit has emptied what the stages before it drain.           *)
(***************************************************************************)
EXTENDS ConnectionManager, TLAPS

\* The id of a live handle is below the counter of its table.
HeapIdsIssued ==
  \A h \in heap :
    /\ h.table = "connection" => h.id < next_connection_id
    /\ h.table = "result_set" => h.id < next_result_set_id
    /\ h.table = "cursor" => h.id < next_cursor_id

ConnectionsNameThemselves ==
  \A i \in DOMAIN connections : connections[i].handle.connection_id = i

\* What the thread that drains has already emptied.
StageInv ==
  /\ stage \in {"close_result_sets", "close_connection"} => CursorsOf(closing) = {}
  /\ stage = "close_connection" => ResultSetsOf(closing) = {}
  /\ stage \in {"deinit_result_sets", "deinit_connections", "gone"} => DOMAIN cursors = {}
  /\ stage \in {"deinit_connections", "gone"} => DOMAIN result_sets = {}
  /\ stage = "gone" => DOMAIN connections = {}

\* The part of IInv that does not look at stage.
TablesInv ==
  /\ TypeOK
  /\ NothingLost
  /\ ChildrenHaveConnection
  /\ KindsResolve
  /\ HeapIdsIssued
  /\ ConnectionsNameThemselves

IInv == TablesInv /\ StageInv

-----------------------------------------------------------------------------
(* Tables as functions *)

LEMMA StoredInPut ==
  ASSUME NEW map, NEW key, NEW value, key \notin DOMAIN map
  PROVE  StoredIn(Put(map, key, value)) = StoredIn(map) \cup {value.handle}
BY DEF StoredIn, Put

LEMMA StoredInWithout ==
  ASSUME NEW map, NEW key \in DOMAIN map, NEW name, NEW next_id, IsTable(map, name, next_id)
  PROVE  StoredIn(Without(map, key)) = StoredIn(map) \ {map[key].handle}
<1>1. \A i \in DOMAIN map : map[i].handle = map[key].handle => i = key
  BY DEF IsTable
<1> QED
  BY <1>1 DEF StoredIn, Without

LEMMA IsTablePut ==
  ASSUME NEW map, NEW key \in Nat \ {0}, NEW value, NEW name,
         IsTable(map, name, key), value.handle.table = name, value.handle.id = key
  PROVE  /\ IsTable(Put(map, key, value), name, key + 1)
         /\ key \notin DOMAIN map
BY DEF IsTable, Put

LEMMA IsTableWithout ==
  ASSUME NEW map, NEW key, NEW name, NEW next_id, IsTable(map, name, next_id)
  PROVE  IsTable(Without(map, key), name, next_id)
BY DEF IsTable, Without

LEMMA TypedPut ==
  ASSUME NEW E, NEW map, map \in [DOMAIN map -> E], NEW key, NEW value \in E
  PROVE  Put(map, key, value) \in [DOMAIN Put(map, key, value) -> E]
BY DEF Put

LEMMA TypedWithout ==
  ASSUME NEW E, NEW map, map \in [DOMAIN map -> E], NEW key
  PROVE  Without(map, key) \in [DOMAIN Without(map, key) -> E]
BY DEF Without

-----------------------------------------------------------------------------
(* The initial state *)

LEMMA InitIInv == Init => IInv
<1> SUFFICES ASSUME Init PROVE IInv
  OBVIOUS
<1> USE DEF Init
<1>1. TypeOK
  BY DriverAssumption, BoundAssumption
  DEF TypeOK, IsTable, Kind, Stage, BuiltinDriver
<1>2. NothingLost
  BY DEF NothingLost, Stored, StoredIn
<1>3. ChildrenHaveConnection /\ KindsResolve
  BY DEF ChildrenHaveConnection, KindsResolve
<1>4. HeapIdsIssued /\ ConnectionsNameThemselves /\ StageInv
  BY DEF HeapIdsIssued, ConnectionsNameThemselves, StageInv
<1> QED
  BY <1>1, <1>2, <1>3, <1>4 DEF IInv, TablesInv

-----------------------------------------------------------------------------
(* The closing steps *)

LEMMA DropCursorTables ==
  ASSUME TablesInv, NEW i \in DOMAIN cursors, DropCursor(i),
         stage' \in Stage, closing' \in Nat
  PROVE  TablesInv'
<1> DEFINE h == cursors[i].handle
<1> USE DEF TablesInv, DropCursor, counters
<1>1. heap' = heap \ {h} /\ orphans' = orphans
  BY DEF Free, KindsResolve
<1>2. /\ StoredIn(cursors') = StoredIn(cursors) \ {h}
      /\ StoredIn(connections') = StoredIn(connections)
      /\ StoredIn(result_sets') = StoredIn(result_sets)
      /\ IsTable(cursors', "cursor", next_cursor_id)
  BY StoredInWithout, IsTableWithout DEF TypeOK
<1>3. /\ h \in Stored
      /\ h \notin StoredIn(connections)
      /\ h \notin StoredIn(result_sets)
  BY DEF TypeOK, IsTable, Stored, StoredIn
<1>4. TypeOK'
  <2>1. cursors' \in [DOMAIN cursors' -> CursorEntry]
    BY TypedWithout DEF TypeOK
  <2>2. h \notin orphans
    BY <1>3 DEF NothingLost
  <2> QED
    BY <1>1, <1>2, <2>1, <2>2 DEF TypeOK, Without
<1>5. ChildrenHaveConnection'
  BY DEF ChildrenHaveConnection, BelongsToConnection, Without
<1>6. NothingLost'
  BY <1>1, <1>2, <1>3 DEF NothingLost, Stored
<1>7. KindsResolve'
  BY DEF KindsResolve, Without
<1>8. HeapIdsIssued' /\ ConnectionsNameThemselves'
  BY <1>1 DEF HeapIdsIssued, ConnectionsNameThemselves, Without
<1> QED
  BY <1>4, <1>5, <1>6, <1>7, <1>8

LEMMA DropResultSetTables ==
  ASSUME TablesInv, NEW i \in DOMAIN result_sets, DropResultSet(i),
         stage' \in Stage, closing' \in Nat
  PROVE  TablesInv'
<1> DEFINE h == result_sets[i].handle
<1> USE DEF TablesInv, DropResultSet, counters
<1>1. heap' = heap \ {h} /\ orphans' = orphans
  BY DEF Free, KindsResolve
<1>2. /\ StoredIn(result_sets') = StoredIn(result_sets) \ {h}
      /\ StoredIn(connections') = StoredIn(connections)
      /\ StoredIn(cursors') = StoredIn(cursors)
      /\ IsTable(result_sets', "result_set", next_result_set_id)
  BY StoredInWithout, IsTableWithout DEF TypeOK
<1>3. /\ h \in Stored
      /\ h \notin StoredIn(connections)
      /\ h \notin StoredIn(cursors)
  BY DEF TypeOK, IsTable, Stored, StoredIn
<1>4. TypeOK'
  <2>1. result_sets' \in [DOMAIN result_sets' -> Entry]
    BY TypedWithout DEF TypeOK
  <2>2. h \notin orphans
    BY <1>3 DEF NothingLost
  <2> QED
    BY <1>1, <1>2, <2>1, <2>2 DEF TypeOK
<1>5. ChildrenHaveConnection'
  BY DEF ChildrenHaveConnection, BelongsToConnection, Without
<1>6. NothingLost'
  BY <1>1, <1>2, <1>3 DEF NothingLost, Stored
<1>7. KindsResolve'
  BY DEF KindsResolve, Without
<1>8. HeapIdsIssued' /\ ConnectionsNameThemselves'
  BY <1>1 DEF HeapIdsIssued, ConnectionsNameThemselves, Without
<1> QED
  BY <1>4, <1>5, <1>6, <1>7, <1>8

LEMMA DropConnectionTables ==
  ASSUME TablesInv, NEW i \in DOMAIN connections, DropConnection(i),
         stage' \in Stage, closing' \in Nat,
         CursorsOf(i) = {}, ResultSetsOf(i) = {}
  PROVE  TablesInv'
<1> DEFINE h == connections[i].handle
<1> USE DEF TablesInv, DropConnection, counters
<1>1. heap' = heap \ {h} /\ orphans' = orphans
  BY DEF Free, KindsResolve
<1>2. /\ StoredIn(connections') = StoredIn(connections) \ {h}
      /\ StoredIn(result_sets') = StoredIn(result_sets)
      /\ StoredIn(cursors') = StoredIn(cursors)
      /\ IsTable(connections', "connection", next_connection_id)
  BY StoredInWithout, IsTableWithout DEF TypeOK
<1>3. /\ h \in Stored
      /\ h \notin StoredIn(result_sets)
      /\ h \notin StoredIn(cursors)
  BY DEF TypeOK, IsTable, Stored, StoredIn
<1>4. TypeOK'
  <2>1. connections' \in [DOMAIN connections' -> Entry]
    BY TypedWithout DEF TypeOK
  <2>2. h \notin orphans
    BY <1>3 DEF NothingLost
  <2> QED
    BY <1>1, <1>2, <2>1, <2>2 DEF TypeOK
<1>5. ChildrenHaveConnection'
  BY DEF ChildrenHaveConnection, BelongsToConnection, Without, CursorsOf, ResultSetsOf
<1>6. NothingLost'
  BY <1>1, <1>2, <1>3 DEF NothingLost, Stored
<1>7. KindsResolve'
  BY DEF KindsResolve, Without
<1>8. HeapIdsIssued' /\ ConnectionsNameThemselves'
  BY <1>1 DEF HeapIdsIssued, ConnectionsNameThemselves, Without
<1> QED
  BY <1>4, <1>5, <1>6, <1>7, <1>8

-----------------------------------------------------------------------------
(* The calls that allocate a handle *)

LEMMA OpenTables ==
  ASSUME TablesInv, NEW kind_arg \in Kind, NEW outcome \in Outcome, Open(kind_arg, outcome)
  PROVE  TablesInv'
<1> DEFINE kind == kind_arg
           h == NewHandle("connection", next_connection_id, next_connection_id, kind)
           value == [kind |-> kind, handle |-> h]
<1> USE DEF TablesInv, Open, counters
<1>1. /\ kind \in Kind
      /\ kind \in DOMAIN registry
      /\ registry[kind] \in Driver
      /\ registry[kind].kind = kind
  BY DEF TypeOK, Entry
<1>2. next_connection_id \in Nat \ {0} /\ next_connection_id <= MaxConnections /\ next_connection_id' = next_connection_id + 1
  BY BoundAssumption DEF TypeOK, IsTable
<1>3. h \in Handle /\ h.table = "connection" /\ h.id = next_connection_id /\ value \in Entry /\ value.handle = h
  BY <1>1, <1>2 DEF Handle, NewHandle, TypeOK, Entry
<1>4. h \notin heap /\ h \notin Stored
  BY <1>2, <1>3 DEF HeapIdsIssued, NothingLost, TypeOK
<1>5. CASE outcome = "stored"
  <2>1. /\ heap' = heap \cup {h}
        /\ orphans' = orphans
        /\ connections' = Put(connections, next_connection_id, value)
    BY <1>5 DEF Allocate
  <2>2. /\ IsTable(connections', "connection", next_connection_id')
        /\ next_connection_id \notin DOMAIN connections
    <3>1. IsTable(connections, "connection", next_connection_id)
      BY DEF TypeOK
    <3> HIDE DEF h, value
    <3> QED
      BY <2>1, <1>2, <1>3, <3>1, IsTablePut
  <2>3. connections' \in [DOMAIN connections' -> Entry]
    <3>1. connections \in [DOMAIN connections -> Entry]
      BY DEF TypeOK
    <3> HIDE DEF h, value, Open, TablesInv
    <3> QED
      BY <2>1, <1>3, <3>1, TypedPut
  <2>4. TypeOK'
    BY <1>2, <1>3, <2>1, <2>2, <2>3, BoundAssumption DEF TypeOK
  <2>5. StoredIn(connections') = StoredIn(connections) \cup {h}
    <3> HIDE DEF h, value
    <3> QED
      BY <1>3, <2>1, <2>2, StoredInPut
  <2>6. NothingLost'
    <3>1. StoredIn(result_sets') = StoredIn(result_sets) /\ StoredIn(cursors') = StoredIn(cursors)
      OBVIOUS
    <3>2. NothingLost
      OBVIOUS
    <3> HIDE DEF h, value, Open, TablesInv
    <3> QED
      BY <2>1, <2>5, <1>4, <3>1, <3>2 DEF NothingLost, Stored
  <2>7. ChildrenHaveConnection'
    BY <1>3, <2>1, <2>2 DEF ChildrenHaveConnection, BelongsToConnection, Put, NewHandle, TypeOK
  <2>8. KindsResolve'
    BY <1>1, <1>3, <2>1 DEF KindsResolve, Put, NewHandle
  <2>9. HeapIdsIssued'
    BY <1>2, <1>3, <2>1 DEF HeapIdsIssued, TypeOK, Handle
  <2>10. ConnectionsNameThemselves'
    BY <2>1 DEF ConnectionsNameThemselves, Put, NewHandle
  <2> QED
    BY <2>4, <2>6, <2>7, <2>8, <2>9, <2>10
<1>6. CASE outcome # "stored"
  <2>1. /\ connections' = connections
        /\ \/ heap' = heap /\ orphans' = orphans
           \/ heap' = heap \cup {h} /\ orphans' = orphans \cup {h}
    BY <1>6 DEF Allocate, Outcome
  <2>2. TypeOK'
    BY <1>2, <1>3, <2>1, BoundAssumption DEF TypeOK, IsTable
  <2>3. NothingLost'
    BY <1>4, <2>1 DEF NothingLost, Stored, StoredIn
  <2>4. ChildrenHaveConnection' /\ KindsResolve' /\ ConnectionsNameThemselves'
    BY <2>1 DEF ChildrenHaveConnection, BelongsToConnection, KindsResolve, ConnectionsNameThemselves
  <2>5. HeapIdsIssued'
    BY <1>2, <1>3, <2>1 DEF HeapIdsIssued, TypeOK, Handle
  <2> QED
    BY <2>2, <2>3, <2>4, <2>5
<1> QED
  BY <1>5, <1>6

LEMMA NewResultSetTables ==
  ASSUME TablesInv, NEW c, NEW outcome \in Outcome, NewResultSet(c, outcome)
  PROVE  TablesInv'
<1> DEFINE kind == connections[c].kind
           h == NewHandle("result_set", next_result_set_id, c, kind)
           value == [kind |-> kind, handle |-> h]
<1> USE DEF TablesInv, NewResultSet, counters
<1>1. /\ kind \in Kind
      /\ kind \in DOMAIN registry
      /\ registry[kind] \in Driver
      /\ registry[kind].kind = kind
  BY DEF TypeOK, Entry
<1>2. c \in Nat /\ next_result_set_id \in Nat \ {0} /\ next_result_set_id <= MaxResultSets /\ next_result_set_id' = next_result_set_id + 1
  BY BoundAssumption DEF TypeOK, IsTable
<1>3. h \in Handle /\ h.table = "result_set" /\ h.id = next_result_set_id /\ value \in Entry /\ value.handle = h
  BY <1>1, <1>2 DEF Handle, NewHandle, TypeOK, Entry
<1>4. h \notin heap /\ h \notin Stored
  BY <1>2, <1>3 DEF HeapIdsIssued, NothingLost, TypeOK
<1>5. CASE outcome = "stored"
  <2>1. /\ heap' = heap \cup {h}
        /\ orphans' = orphans
        /\ result_sets' = Put(result_sets, next_result_set_id, value)
    BY <1>5 DEF Allocate
  <2>2. /\ IsTable(result_sets', "result_set", next_result_set_id')
        /\ next_result_set_id \notin DOMAIN result_sets
    <3>1. IsTable(result_sets, "result_set", next_result_set_id)
      BY DEF TypeOK
    <3> HIDE DEF h, value
    <3> QED
      BY <2>1, <1>2, <1>3, <3>1, IsTablePut
  <2>3. result_sets' \in [DOMAIN result_sets' -> Entry]
    <3>1. result_sets \in [DOMAIN result_sets -> Entry]
      BY DEF TypeOK
    <3> HIDE DEF h, value, NewResultSet, TablesInv
    <3> QED
      BY <2>1, <1>3, <3>1, TypedPut
  <2>4. TypeOK'
    BY <1>2, <1>3, <2>1, <2>2, <2>3, BoundAssumption DEF TypeOK
  <2>5. StoredIn(result_sets') = StoredIn(result_sets) \cup {h}
    <3> HIDE DEF h, value
    <3> QED
      BY <1>3, <2>1, <2>2, StoredInPut
  <2>6. NothingLost'
    <3>1. StoredIn(connections') = StoredIn(connections) /\ StoredIn(cursors') = StoredIn(cursors)
      OBVIOUS
    <3>2. NothingLost
      OBVIOUS
    <3> HIDE DEF h, value, NewResultSet, TablesInv
    <3> QED
      BY <2>1, <2>5, <1>4, <3>1, <3>2 DEF NothingLost, Stored
  <2>7. ChildrenHaveConnection'
    BY <1>3, <2>1, <2>2 DEF ChildrenHaveConnection, BelongsToConnection, Put, NewHandle, TypeOK
  <2>8. KindsResolve'
    BY <1>1, <1>3, <2>1 DEF KindsResolve, Put, NewHandle
  <2>9. HeapIdsIssued'
    BY <1>2, <1>3, <2>1 DEF HeapIdsIssued, TypeOK, Handle
  <2>10. ConnectionsNameThemselves'
    BY <2>1 DEF ConnectionsNameThemselves, Put, NewHandle
  <2> QED
    BY <2>4, <2>6, <2>7, <2>8, <2>9, <2>10
<1>6. CASE outcome # "stored"
  <2>1. /\ result_sets' = result_sets
        /\ \/ heap' = heap /\ orphans' = orphans
           \/ heap' = heap \cup {h} /\ orphans' = orphans \cup {h}
    BY <1>6 DEF Allocate, Outcome
  <2>2. TypeOK'
    BY <1>2, <1>3, <2>1, BoundAssumption DEF TypeOK, IsTable
  <2>3. NothingLost'
    BY <1>4, <2>1 DEF NothingLost, Stored, StoredIn
  <2>4. ChildrenHaveConnection' /\ KindsResolve' /\ ConnectionsNameThemselves'
    BY <2>1 DEF ChildrenHaveConnection, BelongsToConnection, KindsResolve, ConnectionsNameThemselves
  <2>5. HeapIdsIssued'
    BY <1>2, <1>3, <2>1 DEF HeapIdsIssued, TypeOK, Handle
  <2> QED
    BY <2>2, <2>3, <2>4, <2>5
<1> QED
  BY <1>5, <1>6

LEMMA OpenCursorTables ==
  ASSUME TablesInv, NEW c, NEW outcome \in Outcome, NEW n \in 0..MaxRows, OpenCursor(c, outcome, n)
  PROVE  TablesInv'
<1> DEFINE kind == connections[c].kind
           h == NewHandle("cursor", next_cursor_id, c, kind)
           value == [kind |-> kind, handle |-> h, position |-> 0, total_rows |-> n]
<1> USE DEF TablesInv, OpenCursor, counters
<1>1. /\ kind \in Kind
      /\ kind \in DOMAIN registry
      /\ registry[kind] \in Driver
      /\ registry[kind].kind = kind
  BY DEF TypeOK, Entry
<1>2. n \in Nat /\ c \in Nat /\ next_cursor_id \in Nat \ {0} /\ next_cursor_id <= MaxCursors /\ next_cursor_id' = next_cursor_id + 1
  BY BoundAssumption DEF TypeOK, IsTable
<1>3. h \in Handle /\ h.table = "cursor" /\ h.id = next_cursor_id /\ value \in CursorEntry /\ value.handle = h
  BY <1>1, <1>2 DEF Handle, NewHandle, TypeOK, CursorEntry
<1>4. h \notin heap /\ h \notin Stored
  BY <1>2, <1>3 DEF HeapIdsIssued, NothingLost, TypeOK
<1>5. CASE outcome = "stored"
  <2>1. /\ heap' = heap \cup {h}
        /\ orphans' = orphans
        /\ cursors' = Put(cursors, next_cursor_id, value)
    BY <1>5 DEF Allocate
  <2>2. /\ IsTable(cursors', "cursor", next_cursor_id')
        /\ next_cursor_id \notin DOMAIN cursors
    <3>1. IsTable(cursors, "cursor", next_cursor_id)
      BY DEF TypeOK
    <3> HIDE DEF h, value
    <3> QED
      BY <2>1, <1>2, <1>3, <3>1, IsTablePut
  <2>3. cursors' \in [DOMAIN cursors' -> CursorEntry]
    <3>1. cursors \in [DOMAIN cursors -> CursorEntry]
      BY DEF TypeOK
    <3> HIDE DEF h, value, OpenCursor, TablesInv
    <3> QED
      BY <2>1, <1>3, <3>1, TypedPut
  <2>4. TypeOK'
    BY <1>2, <1>3, <2>1, <2>2, <2>3, BoundAssumption DEF TypeOK, Put
  <2>5. StoredIn(cursors') = StoredIn(cursors) \cup {h}
    <3> HIDE DEF h, value
    <3> QED
      BY <1>3, <2>1, <2>2, StoredInPut
  <2>6. NothingLost'
    <3>1. StoredIn(connections') = StoredIn(connections) /\ StoredIn(result_sets') = StoredIn(result_sets)
      OBVIOUS
    <3>2. NothingLost
      OBVIOUS
    <3> HIDE DEF h, value, OpenCursor, TablesInv
    <3> QED
      BY <2>1, <2>5, <1>4, <3>1, <3>2 DEF NothingLost, Stored
  <2>7. ChildrenHaveConnection'
    BY <1>3, <2>1, <2>2 DEF ChildrenHaveConnection, BelongsToConnection, Put, NewHandle, TypeOK
  <2>8. KindsResolve'
    BY <1>1, <1>3, <2>1 DEF KindsResolve, Put, NewHandle
  <2>9. HeapIdsIssued'
    BY <1>2, <1>3, <2>1 DEF HeapIdsIssued, TypeOK, Handle
  <2>10. ConnectionsNameThemselves'
    BY <2>1 DEF ConnectionsNameThemselves, Put, NewHandle
  <2> QED
    BY <2>4, <2>6, <2>7, <2>8, <2>9, <2>10
<1>6. CASE outcome # "stored"
  <2>1. /\ cursors' = cursors
        /\ \/ heap' = heap /\ orphans' = orphans
           \/ heap' = heap \cup {h} /\ orphans' = orphans \cup {h}
    BY <1>6 DEF Allocate, Outcome
  <2>2. TypeOK'
    BY <1>2, <1>3, <2>1, BoundAssumption DEF TypeOK, IsTable
  <2>3. NothingLost'
    BY <1>4, <2>1 DEF NothingLost, Stored, StoredIn
  <2>4. ChildrenHaveConnection' /\ KindsResolve' /\ ConnectionsNameThemselves'
    BY <2>1 DEF ChildrenHaveConnection, BelongsToConnection, KindsResolve, ConnectionsNameThemselves
  <2>5. HeapIdsIssued'
    BY <1>2, <1>3, <2>1 DEF HeapIdsIssued, TypeOK, Handle
  <2> QED
    BY <2>2, <2>3, <2>4, <2>5
<1> QED
  BY <1>5, <1>6

-----------------------------------------------------------------------------
(* The steps that allocate and free nothing *)

LEMMA StageOnlyTables ==
  ASSUME TablesInv, UNCHANGED <<registry, tables, counters, ledger>>,
         stage' \in Stage, closing' \in Nat
  PROVE  TablesInv'
<1> USE DEF TablesInv, tables, counters, ledger
<1>1. TypeOK'
  BY DEF TypeOK, IsTable
<1>2. NothingLost'
  BY DEF NothingLost, Stored, StoredIn
<1>3. ChildrenHaveConnection' /\ KindsResolve'
  BY DEF ChildrenHaveConnection, BelongsToConnection, KindsResolve
<1>4. HeapIdsIssued' /\ ConnectionsNameThemselves'
  BY DEF HeapIdsIssued, ConnectionsNameThemselves
<1> QED
  BY <1>1, <1>2, <1>3, <1>4

LEMMA RegisterDriverTables ==
  ASSUME TablesInv, NEW spec \in Driver, RegisterDriver(spec)
  PROVE  TablesInv'
<1> USE DEF TablesInv, RegisterDriver, tables, counters, ledger
<1>1. /\ DOMAIN registry' = DOMAIN registry \cup {spec.kind}
      /\ \A k \in DOMAIN registry' :
           registry'[k] = IF k = spec.kind THEN spec ELSE registry[k]
  BY DEF Put
<1>2. TypeOK'
  BY <1>1, DriverAssumption DEF TypeOK, IsTable
<1>3. NothingLost'
  BY DEF NothingLost, Stored, StoredIn
<1>4. ChildrenHaveConnection'
  BY DEF ChildrenHaveConnection, BelongsToConnection
<1>5. KindsResolve'
  <2>1. connections' = connections /\ result_sets' = result_sets /\ cursors' = cursors
    OBVIOUS
  <2>2. KindsResolve
    OBVIOUS
  <2>3. DOMAIN registry \subseteq DOMAIN registry'
    BY <1>1
  <2> HIDE DEF RegisterDriver, TablesInv
  <2>4. SUFFICES ASSUME NEW map \in {connections, result_sets, cursors}, NEW i \in DOMAIN map
                 PROVE  map[i].kind \in DOMAIN registry' /\ map[i].handle.driver.kind = map[i].kind
    BY <2>1, Zenon DEF KindsResolve
  <2> QED
    BY <2>2, <2>3 DEF KindsResolve
<1>6. HeapIdsIssued' /\ ConnectionsNameThemselves'
  BY DEF HeapIdsIssued, ConnectionsNameThemselves
<1> QED
  BY <1>2, <1>3, <1>4, <1>5, <1>6

LEMMA FetchNextTables ==
  ASSUME TablesInv, NEW i \in Nat, FetchNext(i)
  PROVE  TablesInv'
<1> USE DEF TablesInv, FetchNext, counters, ledger
<1>1. /\ DOMAIN cursors' = DOMAIN cursors
      /\ \A j \in DOMAIN cursors :
           cursors'[j].handle = cursors[j].handle /\ cursors'[j].kind = cursors[j].kind
  BY DEF TypeOK, CursorEntry
<1>2. cursors' \in [DOMAIN cursors' -> CursorEntry]
  BY DEF TypeOK, CursorEntry
<1>3. \A j \in DOMAIN cursors' : cursors'[j].position <= cursors'[j].total_rows
  BY DEF TypeOK, CursorEntry
<1>4. IsTable(cursors', "cursor", next_cursor_id')
  BY <1>1 DEF TypeOK, IsTable
<1>5. TypeOK'
  BY <1>2, <1>3, <1>4 DEF TypeOK
<1>6. StoredIn(cursors') = StoredIn(cursors)
  BY <1>1 DEF StoredIn
<1>7. NothingLost'
  BY <1>6 DEF NothingLost, Stored, StoredIn
<1>8. ChildrenHaveConnection'
  BY <1>1 DEF ChildrenHaveConnection, BelongsToConnection
<1>9. KindsResolve'
  <2>1. connections' = connections /\ result_sets' = result_sets /\ registry' = registry
    OBVIOUS
  <2>2. KindsResolve
    OBVIOUS
  <2> HIDE DEF FetchNext, TablesInv
  <2> DEFINE Resolves(map) == \A j \in DOMAIN map :
                                /\ map[j].kind \in DOMAIN registry
                                /\ map[j].handle.driver.kind = map[j].kind
  <2>3. Resolves(connections) /\ Resolves(result_sets) /\ Resolves(cursors)
    BY <2>2 DEF KindsResolve
  <2>4. Resolves(cursors')
    BY <1>1, <2>3
  <2>5. \A map \in {connections', result_sets', cursors'} : Resolves(map)
    <3> HIDE DEF Resolves
    <3> QED
      BY <2>1, <2>3, <2>4
  <2> QED
    BY <2>1, <2>5, Zenon DEF KindsResolve
<1>10. HeapIdsIssued' /\ ConnectionsNameThemselves'
  BY DEF HeapIdsIssued, ConnectionsNameThemselves
<1> QED
  BY <1>5, <1>7, <1>8, <1>9, <1>10

-----------------------------------------------------------------------------
(* Every step *)

LEMMA NextTables == IInv /\ [Next]_managerVars => TablesInv'
<1> SUFFICES ASSUME IInv, [Next]_managerVars PROVE TablesInv'
  OBVIOUS
<1>0. TablesInv /\ StageInv /\ stage \in Stage /\ closing \in Nat
  BY DEF IInv, TablesInv, TypeOK
<1>1. ASSUME NEW spec \in Driver, RegisterDriver(spec) PROVE TablesInv'
  BY <1>0, <1>1, RegisterDriverTables
<1>2. ASSUME NEW kind \in Kind, NEW outcome \in Outcome, Open(kind, outcome) PROVE TablesInv'
  BY <1>0, <1>2, OpenTables
<1>3. ASSUME NEW c \in CallerId, NEW outcome \in Outcome,
             \/ Execute(c, outcome) \/ GetTables(c, outcome)
             \/ GetCatalogs(c, outcome) \/ GetDatabases(c, outcome)
      PROVE  TablesInv'
  BY <1>0, <1>3, NewResultSetTables DEF Execute, GetTables, GetCatalogs, GetDatabases
<1>4. ASSUME NEW c \in CallerId, NEW outcome \in Outcome, NEW n \in 0..MaxRows,
             OpenCursor(c, outcome, n)
      PROVE  TablesInv'
  BY <1>0, <1>4, OpenCursorTables
<1>5. ASSUME NEW i \in 0..MaxCursors, FetchNext(i) \/ CloseCursor(i) PROVE TablesInv'
  BY <1>0, <1>5, FetchNextTables, DropCursorTables, BoundAssumption DEF CloseCursor
<1>6. ASSUME NEW i \in 0..MaxResultSets, CloseResultSet(i) PROVE TablesInv'
  BY <1>0, <1>6, DropResultSetTables DEF CloseResultSet
<1>7. ASSUME NEW c \in CallerId, Close(c) PROVE TablesInv'
  BY <1>0, <1>7, StageOnlyTables, BoundAssumption DEF Close, CallerId, Stage
<1>8. CASE Deinit
  BY <1>0, <1>8, StageOnlyTables DEF Deinit, Advance, Stage
<1>9. CASE CloseCursorsForConnection
  BY <1>0, <1>9, DropCursorTables, StageOnlyTables
  DEF CloseCursorsForConnection, CursorsOf, Advance, Stage
<1>10. CASE CloseResultSetsForConnection
  BY <1>0, <1>10, DropResultSetTables, StageOnlyTables
  DEF CloseResultSetsForConnection, ResultSetsOf, Advance, Stage
<1>11. CASE CloseConnection
  BY <1>0, <1>11, DropConnectionTables, StageOnlyTables DEF CloseConnection, StageInv, Stage
<1>12. CASE DeinitCursors
  BY <1>0, <1>12, DropCursorTables, StageOnlyTables DEF DeinitCursors, Advance, Stage
<1>13. CASE DeinitResultSets
  BY <1>0, <1>13, DropResultSetTables, StageOnlyTables DEF DeinitResultSets, Advance, Stage
<1>14. CASE DeinitConnections
  <2>1. ASSUME NEW i \in DOMAIN connections, stage = "deinit_connections"
        PROVE  CursorsOf(i) = {} /\ ResultSetsOf(i) = {}
    BY <1>0, <2>1 DEF StageInv, CursorsOf, ResultSetsOf
  <2> QED
    BY <1>0, <1>14, <2>1, DropConnectionTables, StageOnlyTables
    DEF DeinitConnections, Advance, Stage
<1>15. CASE UNCHANGED managerVars
  BY <1>0, <1>15, StageOnlyTables DEF managerVars
<1> QED
  BY <1>1, <1>2, <1>3, <1>4, <1>5, <1>6, <1>7, <1>8, <1>9, <1>10, <1>11, <1>12,
     <1>13, <1>14, <1>15
  DEF Next, Call, Drain

LEMMA NextStageInv == IInv /\ [Next]_managerVars => StageInv'
<1> SUFFICES ASSUME IInv, [Next]_managerVars PROVE StageInv'
  OBVIOUS
<1> USE DEF IInv, StageInv
<1>1. CASE stage = "ready" /\ stage' = "ready"
  BY <1>1
<1>2. CASE \E c \in CallerId : Close(c)
  BY <1>2 DEF Close
<1>3. CASE Deinit
  BY <1>3 DEF Deinit, Advance
<1>4. CASE CloseCursorsForConnection
  BY <1>4 DEF CloseCursorsForConnection, DropCursor, CursorsOf, Advance, TablesInv,
              KindsResolve, tables
<1>5. CASE CloseResultSetsForConnection
  BY <1>5 DEF CloseResultSetsForConnection, DropResultSet, CursorsOf, ResultSetsOf, Advance,
              TablesInv, KindsResolve, tables
<1>6. CASE CloseConnection
  BY <1>6 DEF CloseConnection
<1>7. CASE DeinitCursors
  BY <1>7 DEF DeinitCursors, DropCursor, Advance, tables
<1>8. CASE DeinitResultSets
  BY <1>8 DEF DeinitResultSets, DropResultSet, Advance, tables, Without
<1>9. CASE DeinitConnections
  BY <1>9 DEF DeinitConnections, DropConnection, Advance, tables, Without
<1>10. CASE UNCHANGED managerVars
  BY <1>10 DEF managerVars, tables, CursorsOf, ResultSetsOf
<1>11. ASSUME \/ \E spec \in Driver : RegisterDriver(spec)
              \/ \E kind \in Kind, outcome \in Outcome : Open(kind, outcome)
              \/ \E c \in CallerId, outcome \in Outcome : NewResultSet(c, outcome)
              \/ \E c \in CallerId, outcome \in Outcome, n \in 0..MaxRows :
                   OpenCursor(c, outcome, n)
              \/ \E i \in 0..MaxCursors : FetchNext(i) \/ CloseCursor(i)
              \/ \E i \in 0..MaxResultSets : CloseResultSet(i)
       PROVE  stage = "ready" /\ stage' = "ready"
  BY <1>11 DEF RegisterDriver, Open, NewResultSet, OpenCursor, FetchNext, CloseCursor,
               CloseResultSet, Locked
<1> QED
  BY <1>1, <1>2, <1>3, <1>4, <1>5, <1>6, <1>7, <1>8, <1>9, <1>10, <1>11
  DEF Next, Call, Drain, Execute, GetTables, GetCatalogs, GetDatabases

THEOREM InductiveInvariant == Spec => []IInv
<1>1. IInv /\ [Next]_managerVars => IInv'
  BY NextTables, NextStageInv DEF IInv
<1> QED
  BY InitIInv, <1>1, PTL DEF Spec

-----------------------------------------------------------------------------
(* What the invariant gives *)

\* The tables keep their types, for every set of specs and every bound.
THEOREM TypeCorrect == Spec => []TypeOK
<1>1. IInv => TypeOK
  BY DEF IInv, TablesInv
<1> QED
  BY InductiveInvariant, <1>1, PTL

\* The live handles are always those the tables hold and those a failed put stranded:
\* no locked call meets a freed handle, frees one twice or loses one.
THEOREM HandlesAreOwned == Spec => []NothingLost
<1>1. IInv => NothingLost
  BY DEF IInv, TablesInv
<1> QED
  BY InductiveInvariant, <1>1, PTL

\* A reachable result set or cursor belongs to an open connection of its kind.
THEOREM ChildrenBelong == Spec => []ChildrenHaveConnection
<1>1. IInv => ChildrenHaveConnection
  BY DEF IInv, TablesInv
<1> QED
  BY InductiveInvariant, <1>1, PTL

\* No driver is asked to free a connection while it still holds a result set or a
\* cursor of it that a table knows, in close and in deinit alike.
THEOREM ChildrenDieFirst == Spec => []ConnectionOutlivesChildren
<1>1. IInv => ConnectionOutlivesChildren
  <2> SUFFICES ASSUME TypeOK, NothingLost, ChildrenHaveConnection, ConnectionsNameThemselves,
                      NEW h \in heap \ orphans
               PROVE  \E g \in heap : g.table = "connection" /\ g.id = h.connection_id
    BY DEF IInv, TablesInv, ConnectionOutlivesChildren
  <2>1. h \in Stored
    BY DEF NothingLost
  <2>2. h.connection_id \in DOMAIN connections
    BY <2>1 DEF Stored, StoredIn, ChildrenHaveConnection, BelongsToConnection,
                ConnectionsNameThemselves
  <2> DEFINE g == connections[h.connection_id].handle
  <2>3. g \in heap /\ g.table = "connection" /\ g.id = h.connection_id
    BY <2>2 DEF NothingLost, Stored, StoredIn, TypeOK, IsTable
  <2> QED
    BY <2>3
<1> QED
  BY InductiveInvariant, <1>1, PTL

\* The DriverNotRegistered exits of the close paths, which would leak, are dead.
THEOREM ClosersResolve == Spec => []KindsResolve
<1>1. IInv => KindsResolve
  BY DEF IInv, TablesInv
<1> QED
  BY InductiveInvariant, <1>1, PTL

\* After deinit a driver holds what a failed put had stranded and nothing else.
THEOREM DeinitIsComplete == Spec => []DeinitClosesAll
<1>1. IInv => DeinitClosesAll
  BY DEF IInv, TablesInv, StageInv, NothingLost, Stored, StoredIn, DeinitClosesAll
<1> QED
  BY InductiveInvariant, <1>1, PTL

\* An id that has become "not found" never leads to an object again.
THEOREM StaleIds == Spec => StaleIdsStayGone
<1> DEFINE P == /\ \A i \in 1..MaxConnections :
                     GoneFor(connections, next_connection_id, i)
                       => GoneFor(connections', next_connection_id', i)
                /\ \A i \in 1..MaxResultSets :
                     GoneFor(result_sets, next_result_set_id, i)
                       => GoneFor(result_sets', next_result_set_id', i)
                /\ \A i \in 1..MaxCursors :
                     GoneFor(cursors, next_cursor_id, i)
                       => GoneFor(cursors', next_cursor_id', i)
<1>1. ASSUME IInv, [Next]_managerVars PROVE P
  <2>0. /\ next_connection_id \in Nat
        /\ next_result_set_id \in Nat
        /\ next_cursor_id \in Nat
    BY <1>1 DEF IInv, TablesInv, TypeOK
  <2>1. /\ \/ next_connection_id' = next_connection_id
              /\ DOMAIN connections' \subseteq DOMAIN connections
           \/ next_connection_id' = next_connection_id + 1
              /\ DOMAIN connections' \subseteq DOMAIN connections \cup {next_connection_id}
        /\ \/ next_result_set_id' = next_result_set_id
              /\ DOMAIN result_sets' \subseteq DOMAIN result_sets
           \/ next_result_set_id' = next_result_set_id + 1
              /\ DOMAIN result_sets' \subseteq DOMAIN result_sets \cup {next_result_set_id}
        /\ \/ next_cursor_id' = next_cursor_id
              /\ DOMAIN cursors' \subseteq DOMAIN cursors
           \/ next_cursor_id' = next_cursor_id + 1
              /\ DOMAIN cursors' \subseteq DOMAIN cursors \cup {next_cursor_id}
    <3> USE DEF tables, counters
    <3>1. CASE \E spec \in Driver : RegisterDriver(spec)
      BY <3>1 DEF RegisterDriver
    <3>2. CASE \E kind \in Kind, outcome \in Outcome : Open(kind, outcome)
      BY <3>2 DEF Open, Put
    <3>3. CASE \E c \in CallerId, outcome \in Outcome : NewResultSet(c, outcome)
      BY <3>3 DEF NewResultSet, Put
    <3>4. CASE \E c \in CallerId, outcome \in Outcome, n \in 0..MaxRows :
                 OpenCursor(c, outcome, n)
      BY <3>4 DEF OpenCursor, Put
    <3>5. CASE \E i \in 0..MaxCursors : FetchNext(i)
      BY <3>5 DEF FetchNext
    <3>6. CASE \E i \in DOMAIN cursors : DropCursor(i)
      BY <3>6 DEF DropCursor, Without
    <3>7. CASE \E i \in DOMAIN result_sets : DropResultSet(i)
      BY <3>7 DEF DropResultSet, Without
    <3>8. CASE \E i \in DOMAIN connections : DropConnection(i)
      BY <3>8 DEF DropConnection, Without
    <3>9. CASE UNCHANGED <<tables, counters>>
      BY <3>9
    <3> QED
      BY <1>1, <3>1, <3>2, <3>3, <3>4, <3>5, <3>6, <3>7, <3>8, <3>9
      DEF Next, Call, Drain, Execute, GetTables, GetCatalogs, GetDatabases, CloseCursor,
          CloseResultSet, Close, Deinit, Advance, CloseCursorsForConnection,
          CloseResultSetsForConnection, CloseConnection, DeinitCursors,
          DeinitResultSets, DeinitConnections, CursorsOf, ResultSetsOf, managerVars
  <2> QED
    BY <2>0, <2>1, BoundAssumption DEF GoneFor
<1>2. IInv /\ [Next]_managerVars => [P]_managerVars
  BY <1>1
<1> QED
  BY InductiveInvariant, <1>2, PTL DEF Spec, StaleIdsStayGone
=============================================================================
