---------------------------- MODULE AdbcBackend ----------------------------
(***************************************************************************)
(* What the calls of the ADBC backend (src/core/adbc_backend.zig) acquire  *)
(* and release, on one connection.                                         *)
(*                                                                         *)
(* The Zig code leaves the releasing to `defer` and `errdefer` blocks,     *)
(* which run in the reverse of their order when a function returns, and    *)
(* errdefer only when it returns an error.  Here a function is a sequence  *)
(* of instructions.  A frame goes forward through it, and, when the        *)
(* function returns, backward, and runs the blocks it has passed.  Errors  *)
(* go through every caller (`try`).                                        *)
(*                                                                         *)
(* The manager calls with state_lock held: there is one call at a time.    *)
(* What a call computes (rows, text, SQL) is left out.                     *)
(***************************************************************************)
EXTENDS Integers, Sequences

CONSTANTS
  MaxCalls,   \* bound on the calls that are not closes
  CanFail     \* whether a driver or an allocation may fail

ASSUME MaxCallsAssumption == MaxCalls \in Nat

ASSUME CanFailAssumption == CanFail \in BOOLEAN

VARIABLES
  held,      \* resources that exist: [what, by, call], made by the call of that name and number
  handles,   \* those of them given to the manager and not closed
  calls,     \* the calls begun so far, counted
  call,      \* the call under way, or Nothing: its name and number, and what it returns
  frames,    \* the functions it is in, the innermost one last
  mode       \* of that one: "running", "returning" a value or "failing" with an error

vars == <<held, handles, calls, call, frames, mode>>

Nothing == [by |-> "none", number |-> 0, returns |-> "none"]

-----------------------------------------------------------------------------
(* Instructions *)

\* An allocation or a driver's call that gives a resource, or fails.
Acquire(what) == [op |-> "acquire", what |-> what]

\* The same, for a resource the call may also do without.
AcquireIfAny(what) == [op |-> "acquire_if_any", what |-> what]

\* A resource that is there without anything that could fail.
Own(what) == [op |-> "own", what |-> what]

\* A step that gives no resource and may fail.
Check == [op |-> "check"]

Free(what) == [op |-> "free", what |-> what]

\* A release the code makes only after looking whether there is anything to release.
FreeIfHeld(what) == [op |-> "free_if_held", what |-> what]

\* What was built under one name takes the place of what was freed under another.
Adopt(new, what) == [op |-> "adopt", what |-> what, new |-> new]

Defer(block) == [op |-> "defer", block |-> block]

ErrDefer(block) == [op |-> "errdefer", block |-> block]

\* A function of this module, and one that is called only if the caller asked for it.
Call(name) == [op |-> "call", name |-> name]

CallIfAsked(name) == [op |-> "call_if_asked", name |-> name]

\* A place where the function may return early.
Leave == [op |-> "leave"]

\* The loop over get_next, and the instructions of one turn of it.
Fetch == [op |-> "fetch", what |-> "array"]

Again == [op |-> "again"]

Turn == 3

-----------------------------------------------------------------------------
(* Functions *)

ReleaseDatabase == <<FreeIfHeld("database")>>

\* releaseConnection and, after it, releaseDatabase
ReleaseConnection == <<FreeIfHeld("connection"), FreeIfHeld("database")>>

\* open
OpenBody ==
  << Own("arena"),               Defer(<<Free("arena")>>),
     Check,                      \* parseDsn, the paths
     Acquire("context"),         ErrDefer(<<Free("context")>>),
     Acquire("manager_lib"),     ErrDefer(<<Free("manager_lib")>>),
     AcquireIfAny("dependency"), ErrDefer(<<FreeIfHeld("dependency")>>),
     Acquire("database"),        ErrDefer(ReleaseDatabase),
     Check,                      \* load flags, search path, options, db_init
     ErrDefer(ReleaseConnection),
     Acquire("connection"),
     Check,                      \* cxn_init
     Acquire("handle"),          ErrDefer(<<Free("handle")>>) >>

\* executeStatement.  The array of a turn is on no deferred block.
ExecuteStatement ==
  << Acquire("statement"), Defer(<<Free("statement")>>),
     Check,                \* the query's text
     Acquire("stream"),    Defer(<<FreeIfHeld("stream")>>),
     Acquire("schema"),    Defer(<<FreeIfHeld("schema")>>),
     Acquire("columns"),   ErrDefer(<<Free("columns")>>),
     Own("rows"),          ErrDefer(<<Free("rows")>>),
     Fetch,
       Check,              \* appendRowsFromArray
       Free("array"),
     Again,
     Check >>              \* toOwnedSlice

\* ConsumedResult.deinit
FreeConsumed == <<Free("rows"), Free("columns")>>

\* Mutated form of ExecuteBody: no errdefer for what executeStatement returned.
ExecuteBodyUnguarded == <<Call("executeStatement"), Acquire("result_set")>>

\* execute
ExecuteBody ==
  <<Call("executeStatement"), ErrDefer(FreeConsumed), Acquire("result_set")>>

\* openCursor: the rows stay behind when it returns.
OpenCursorBody ==
  <<Call("executeStatement"), ErrDefer(FreeConsumed), Acquire("cursor")>>

\* testConnection and queryReturnsRows
QueryBody == <<Call("executeStatement"), Defer(FreeConsumed)>>

\* hasCatalogAccess and hasNamespaceAccess
AccessBody == <<Acquire("sql"), Defer(<<Free("sql")>>), Call("queryReturnsRows")>>

\* inspectNamespaceAccess
InspectBody == <<CallIfAsked("hasCatalogAccess"), CallIfAsked("hasNamespaceAccess")>>

\* getCatalogs and getDatabases; building the SQL fails for a vendor without catalogs.
MetadataBody == <<Acquire("sql"), Defer(<<Free("sql")>>), Call("execute")>>

\* Mutated form of AppendTableQualifiedNames: the old rows are freed before the new
\* ones are complete.
AppendFreesOldRowsFirst ==
  << Leave,
     Acquire("new_columns"), ErrDefer(<<Free("new_columns")>>),
     Free("rows"),
     Acquire("new_rows"), ErrDefer(<<Free("new_rows")>>),
     Check,
     Free("columns"), Adopt("new_rows", "rows"), Adopt("new_columns", "columns") >>

\* appendTableQualifiedNames, which leaves a result without the columns it looks for as it is.
AppendTableQualifiedNames ==
  << Leave,
     Acquire("new_columns"), ErrDefer(<<Free("new_columns")>>),
     Check,                  \* the two names
     Acquire("new_rows"), ErrDefer(<<Free("new_rows")>>),
     Check,                  \* the new cells, row by row
     Free("rows"), Free("columns"),
     Adopt("new_columns", "columns"), Adopt("new_rows", "rows") >>

\* closeResultSet
CloseResultSetBody == <<Free("rows"), Free("columns"), Free("result_set")>>

\* getTables
GetTablesBody ==
  << Acquire("sql"), Defer(<<Free("sql")>>),
     Call("execute"), ErrDefer(CloseResultSetBody),
     Call("appendTableQualifiedNames") >>

\* closeCursor
CloseCursorBody == <<Free("columns"), Free("cursor")>>

\* Mutated form of CloseBody: the driver manager's library goes before what it made.
CloseBodyLibraryFirst ==
  << Free("manager_lib"),
     FreeIfHeld("connection"), FreeIfHeld("database"), FreeIfHeld("dependency"),
     Free("context"), Free("handle") >>

\* close
CloseBody ==
  << FreeIfHeld("connection"), FreeIfHeld("database"), FreeIfHeld("dependency"),
     Free("manager_lib"), Free("context"), Free("handle") >>

Code ==
  [ open |-> OpenBody,
    close |-> CloseBody,
    execute |-> ExecuteBody,
    executeStatement |-> ExecuteStatement,
    closeResultSet |-> CloseResultSetBody,
    openCursor |-> OpenCursorBody,
    closeCursor |-> CloseCursorBody,
    testConnection |-> QueryBody,
    queryReturnsRows |-> QueryBody,
    getTables |-> GetTablesBody,
    appendTableQualifiedNames |-> AppendTableQualifiedNames,
    getCatalogs |-> MetadataBody,
    inspectNamespaceAccess |-> InspectBody,
    hasCatalogAccess |-> AccessBody,
    hasNamespaceAccess |-> AccessBody ]

-----------------------------------------------------------------------------
(* Calls *)

Init ==
  /\ held = {}
  /\ handles = {}
  /\ calls = 0
  /\ call = Nothing
  /\ frames = <<>>
  /\ mode = "running"

Idle == call = Nothing

Connections == {h \in handles : h.what = "handle"}

Frame(name) == [fn |-> name, pc |-> 1, step |-> 0]

Begins(name, returns) ==
  /\ Idle
  /\ calls < MaxCalls
  /\ calls' = calls + 1
  /\ call' = [by |-> name, number |-> calls + 1, returns |-> returns]
  /\ frames' = <<Frame(name)>>
  /\ UNCHANGED <<held, handles, mode>>

Open == Connections = {} /\ Begins("open", "handle")

\* The calls the manager makes on an open connection.
OnConnection(name, returns) == Connections # {} /\ Begins(name, returns)

Execute == OnConnection("execute", "result_set")

OpenCursor == OnConnection("openCursor", "cursor")

TestConnection == OnConnection("testConnection", "none")

GetTables == OnConnection("getTables", "result_set")

GetMetadata == OnConnection("getCatalogs", "result_set")

InspectNamespaceAccess == OnConnection("inspectNamespaceAccess", "none")

CloseOf(what) ==
  CASE what = "result_set" -> "closeResultSet"
    [] what = "cursor" -> "closeCursor"
    [] what = "handle" -> "close"

\* close, closeResultSet and closeCursor; the manager closes a connection last.
Close(handle) ==
  /\ Idle
  /\ handle.what = "handle" => handles = {handle}
  /\ handles' = handles \ {handle}
  /\ call' = [by |-> handle.by, number |-> handle.call, returns |-> "none"]
  /\ frames' = <<Frame(CloseOf(handle.what))>>
  /\ UNCHANGED <<held, calls, mode>>

Mine(what) == [what |-> what, by |-> call.by, call |-> call.number]

Top == frames[Len(frames)]

AtEnd == Top.pc > Len(Code[Top.fn])

Instruction == Code[Top.fn][Top.pc]

At(op) == mode = "running" /\ frames # <<>> /\ ~AtEnd /\ Instruction.op = op

\* The instruction under way is done.
GoesTo(pc, next_held) ==
  /\ held' = next_held
  /\ frames' = [frames EXCEPT ![Len(frames)].pc = pc]
  /\ UNCHANGED <<handles, calls, call, mode>>

Goes(next_held) == GoesTo(Top.pc + 1, next_held)

Acquires ==
  \/ /\ At("acquire") \/ At("own")
     /\ Goes(held \cup {Mine(Instruction.what)})
  \/ /\ At("acquire_if_any")
     /\ \E more \in {{}, {Mine(Instruction.what)}} : Goes(held \cup more)

Frees ==
  \/ /\ At("free") \/ At("free_if_held")
     /\ Goes(held \ {Mine(Instruction.what)})
  \/ /\ At("adopt")
     /\ Goes((held \ {Mine(Instruction.new)}) \cup {Mine(Instruction.what)})

\* A step that succeeds, a place where it stays, and blocks, which run on the way back.
Passes ==
  /\ At("check") \/ At("leave") \/ At("defer") \/ At("errdefer") \/ At("call_if_asked")
  /\ Goes(held)

\* get_next gives the end of the stream or an array, whose rows are appended before it is
\* released.
Fetches ==
  \/ /\ At("fetch")
     /\ \/ GoesTo(Top.pc + Turn + 1, held)
        \/ Goes(held \cup {Mine(Instruction.what)})
  \/ At("again") /\ GoesTo(Top.pc - Turn, held)

Calls ==
  /\ At("call") \/ At("call_if_asked")
  /\ frames' = Append([frames EXCEPT ![Len(frames)].pc = @ + 1], Frame(Instruction.name))
  /\ UNCHANGED <<held, handles, calls, call, mode>>

Fails ==
  /\ CanFail
  /\ At("acquire") \/ At("acquire_if_any") \/ At("check") \/ At("fetch")
  /\ mode' = "failing"
  /\ UNCHANGED <<held, handles, calls, call, frames>>

Returns ==
  /\ mode = "running" /\ frames # <<>>
  /\ AtEnd \/ At("leave")
  /\ mode' = "returning"
  /\ UNCHANGED <<held, handles, calls, call, frames>>

GoesBack == mode \in {"returning", "failing"} /\ frames # <<>>

\* The instruction a frame on its way back comes to, and whether its block has to run.
Last == Code[Top.fn][Top.pc - 1]

Runs(instruction) ==
  instruction.op = "defer" \/ (instruction.op = "errdefer" /\ mode = "failing")

InBlock == Top.pc > 1 /\ Runs(Last) /\ Top.step + 1 \in 1..Len(Last.block)

RunsBlock ==
  /\ GoesBack
  /\ InBlock
  /\ held' = held \ {Mine(Last.block[Top.step + 1].what)}
  /\ frames' = [frames EXCEPT ![Len(frames)].step = @ + 1]
  /\ UNCHANGED <<handles, calls, call, mode>>

StepsBack ==
  /\ GoesBack
  /\ Top.pc > 1 /\ ~InBlock
  /\ frames' = [frames EXCEPT ![Len(frames)] = [fn |-> Top.fn, pc |-> Top.pc - 1, step |-> 0]]
  /\ UNCHANGED <<held, handles, calls, call, mode>>

\* The caller goes on after the call, or fails as well.
GivesBack ==
  /\ GoesBack
  /\ Top.pc = 1
  /\ frames' = SubSeq(frames, 1, Len(frames) - 1)
  /\ mode' = IF mode = "failing" THEN "failing" ELSE "running"
  /\ UNCHANGED <<held, handles, calls, call>>

Ends ==
  /\ ~Idle
  /\ frames = <<>>
  /\ call' = Nothing
  /\ mode' = "running"
  /\ handles' = IF mode = "failing" \/ call.returns = "none" THEN handles
                 ELSE handles \cup {Mine(call.returns)}
  /\ UNCHANGED <<held, calls, frames>>

Next ==
  \/ Open \/ Execute \/ OpenCursor \/ TestConnection \/ GetTables \/ GetMetadata
  \/ InspectNamespaceAccess
  \/ \E handle \in handles : Close(handle)
  \/ Acquires \/ Frees \/ Passes \/ Fetches \/ Calls \/ Fails \/ Returns
  \/ RunsBlock \/ StepsBack \/ GivesBack \/ Ends

Spec == Init /\ [][Next]_vars

-----------------------------------------------------------------------------
(* Properties *)

\* The release that runs next, if any: of a block or of the body.
Releasing ==
  IF At("free") THEN {Instruction}
  ELSE IF GoesBack /\ InBlock THEN {Last.block[Top.step + 1]}
  ELSE {}

\* No call releases what does not exist, so nothing is released twice: on every way out
\* of open, executeStatement, execute and getTables, the releases that do not look first
\* find what they release.
FreesWhatIsHeld == \A i \in Releasing : i.op = "free" => Mine(i.what) \in held

\* What a resource needs as long as it exists, of the same call or of the connection.
Needs(what) ==
  CASE what = "connection" -> {"database", "manager_lib", "context"}
    [] what = "database" -> {"manager_lib", "context"}
    [] what = "dependency" -> {"context"}
    [] what = "manager_lib" -> {"context"}
    [] what = "handle" -> {}
    [] what = "statement" -> {"connection", "manager_lib"}
    [] what = "stream" -> {"statement", "connection"}
    [] OTHER -> {}

\* Nothing is released under what still needs it, and what is held has what it needs:
\* a library stays loaded while an object of its making exists, a database outlives its
\* connection, a connection its statement, on failing and on normal paths alike.
NeedsAreHeld ==
  \A r \in held : \A what \in Needs(r.what) : \E s \in held : s.what = what

\* What a handle in the manager's hands consists of.
Parts(h) ==
  CASE h.what = "handle" -> {"handle", "context", "manager_lib", "dependency", "database",
                             "connection"}
    [] h.what = "result_set" -> {"result_set", "columns", "rows"}
    [] h.what = "cursor" -> {"cursor", "columns"}

\* Between calls the only things that exist are the parts of open handles, complete but
\* for the dependency; whatever failed has left nothing.  Two leaks are known: the array
\* being read when rows cannot be appended, and the rows of a statement run by a cursor.
RestHoldsOnlyHandles ==
  Idle =>
    /\ \A h \in handles : \A what \in Parts(h) \ {"dependency"} :
         [h EXCEPT !.what = what] \in held
    /\ \A r \in held :
         \/ r.what = "array"
         \/ r.what = "rows" /\ r.by = "openCursor"
         \/ \E h \in handles : h.call = r.call /\ r.what \in Parts(h)

\* What the test of manager.zig that opens and closes a cursor over std.testing.allocator
\* asserts: once everything is closed, nothing is allocated any more.
NothingLeaks == Idle /\ handles = {} => held = {}
=============================================================================
