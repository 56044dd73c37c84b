------------------------- MODULE AdbcBackend_proofs -------------------------
(***************************************************************************)
(* What the calls of AdbcBackend release, proved for any number of calls   *)
(* and wherever a driver or an allocation fails.                           *)
(*                                                                         *)
(* The proof goes function by function.  For each function a table gives   *)
(* what it holds before each of its instructions.  Static facts about its  *)
(* code say that each instruction leads from one entry of the table to the *)
(* next, and that wherever the function may return or fail the blocks it   *)
(* has passed release exactly what is not to stay, in an order in which    *)
(* each release finds what it releases and nothing held needs it.  The     *)
(* invariant says that every frame keeps to its table, forward and         *)
(* backward, and that a caller's resources are not touched by what it      *)
(* called.                                                                 *)
(***************************************************************************)
EXTENDS AdbcBackend, TLAPS

-----------------------------------------------------------------------------
(* What the functions hold *)

OpenHolds ==
  << {},
     {"arena"}, {"arena"}, {"arena"},
     {"arena", "context"}, {"arena", "context"},
     {"arena", "context", "manager_lib"}, {"arena", "context", "manager_lib"},
     {"arena", "context", "manager_lib"}, {"arena", "context", "manager_lib"},
     {"arena", "context", "manager_lib", "database"},
     {"arena", "context", "manager_lib", "database"},
     {"arena", "context", "manager_lib", "database"},
     {"arena", "context", "manager_lib", "database"},
     {"arena", "context", "manager_lib", "database", "connection"},
     {"arena", "context", "manager_lib", "database", "connection"},
     {"arena", "context", "manager_lib", "database", "connection", "handle"},
     {"arena", "context", "manager_lib", "database", "connection", "handle"} >>

CloseHolds ==
  << {"context", "manager_lib", "database", "connection", "handle"},
     {"context", "manager_lib", "database", "handle"},
     {"context", "manager_lib", "handle"}, {"context", "manager_lib", "handle"},
     {"context", "handle"}, {"handle"}, {} >>

StatementHolds ==
  << {},
     {"statement"}, {"statement"}, {"statement"},
     {"statement", "stream"}, {"statement", "stream"},
     {"statement", "stream", "schema"}, {"statement", "stream", "schema"},
     {"statement", "stream", "schema", "columns"},
     {"statement", "stream", "schema", "columns"},
     {"statement", "stream", "schema", "columns", "rows"},
     {"statement", "stream", "schema", "columns", "rows"},
     {"statement", "stream", "schema", "columns", "rows", "array"},
     {"statement", "stream", "schema", "columns", "rows", "array"},
     {"statement", "stream", "schema", "columns", "rows"},
     {"statement", "stream", "schema", "columns", "rows"},
     {"statement", "stream", "schema", "columns", "rows"} >>

AppendHolds ==
  << {"rows", "columns"}, {"rows", "columns"},
     {"rows", "columns", "new_columns"}, {"rows", "columns", "new_columns"},
     {"rows", "columns", "new_columns"},
     {"rows", "columns", "new_columns", "new_rows"},
     {"rows", "columns", "new_columns", "new_rows"},
     {"rows", "columns", "new_columns", "new_rows"},
     {"columns", "new_columns", "new_rows"}, {"new_columns", "new_rows"},
     {"columns", "new_rows"}, {"rows", "columns"} >>

QueryHolds == <<{}, {"rows", "columns"}, {"rows", "columns"}>>

AccessHolds == <<{}, {"sql"}, {"sql"}, {"sql"}>>

ExecuteHolds ==
  <<{}, {"rows", "columns"}, {"rows", "columns"}, {"rows", "columns", "result_set"}>>

CloseResultSetHolds ==
  <<{"rows", "columns", "result_set"}, {"columns", "result_set"}, {"result_set"}, {}>>

OpenCursorHolds ==
  <<{}, {"rows", "columns"}, {"rows", "columns"}, {"rows", "columns", "cursor"}>>

CloseCursorHolds == <<{"columns", "cursor"}, {"cursor"}, {}>>

GetTablesHolds ==
  << {}, {"sql"}, {"sql"},
     {"sql", "rows", "columns", "result_set"}, {"sql", "rows", "columns", "result_set"},
     {"sql", "rows", "columns", "result_set"} >>

MetadataHolds == <<{}, {"sql"}, {"sql"}, {"sql", "rows", "columns", "result_set"}>>

InspectHolds == <<{}, {}, {}>>

\* What a function holds before each of its instructions, and when it returns.
Holds ==
  [ open |-> OpenHolds,
    close |-> CloseHolds,
    execute |-> ExecuteHolds,
    executeStatement |-> StatementHolds,
    closeResultSet |-> CloseResultSetHolds,
    openCursor |-> OpenCursorHolds,
    closeCursor |-> CloseCursorHolds,
    testConnection |-> QueryHolds,
    queryReturnsRows |-> QueryHolds,
    getTables |-> GetTablesHolds,
    appendTableQualifiedNames |-> AppendHolds,
    getCatalogs |-> MetadataHolds,
    inspectNamespaceAccess |-> InspectHolds,
    hasCatalogAccess |-> AccessHolds,
    hasNamespaceAccess |-> AccessHolds ]

\* What it may hold besides: a dependency, and the rows a cursor left.
Perhaps(fn, pc) ==
  IF (fn = "open" /\ pc > 8) \/ (fn = "close" /\ pc < 4) THEN {"dependency"}
  ELSE IF fn = "closeCursor" THEN {"rows"} ELSE {}

\* What it takes over from its caller,
Takes(fn) == Holds[fn][1]

\* and what it gives to it if it returns a value.
Gives(fn) ==
  CASE fn = "open" -> {"handle", "connection", "database", "manager_lib", "context"}
    [] fn \in {"executeStatement", "appendTableQualifiedNames"} -> {"rows", "columns"}
    [] fn \in {"execute", "getTables", "getCatalogs"} -> {"rows", "columns", "result_set"}
    [] fn = "openCursor" -> {"rows", "columns", "cursor"}
    [] OTHER -> {}

GivesPerhaps(fn) ==
  IF fn = "open" THEN {"dependency"} ELSE IF fn = "closeCursor" THEN {"rows"} ELSE {}

\* What it and the functions it calls have to do with.
StatementNames == {"statement", "stream", "schema", "columns", "rows", "array"}

Touches(fn) ==
  CASE fn \in {"open", "close"} ->
         {"arena", "context", "manager_lib", "dependency", "database", "connection",
          "handle"} \cup StatementNames
    [] fn \in {"executeStatement", "testConnection", "queryReturnsRows"} -> StatementNames
    [] fn = "execute" -> StatementNames \cup {"result_set"}
    [] fn = "openCursor" -> StatementNames \cup {"cursor"}
    [] fn = "closeResultSet" -> {"rows", "columns", "result_set"}
    [] fn = "closeCursor" -> {"rows", "columns", "cursor"}
    [] fn \in {"hasCatalogAccess", "hasNamespaceAccess", "inspectNamespaceAccess"} ->
         StatementNames \cup {"sql"}
    [] fn = "appendTableQualifiedNames" -> {"rows", "columns", "new_rows", "new_columns"}
    [] fn = "getCatalogs" -> StatementNames \cup {"sql", "result_set"}
    [] fn = "getTables" ->
         StatementNames \cup {"sql", "result_set", "new_rows", "new_columns"}

Fn == DOMAIN Code

End(fn) == Len(Code[fn]) + 1

IsCall(instruction) == instruction.op \in {"call", "call_if_asked"}

\* The releases of instruction k that a way back in a mode runs, by number, and those of
\* them left for it before pc, with step of them done in the block it is in.
RunsIn(m, instruction) ==
  instruction.op = "defer" \/ (instruction.op = "errdefer" /\ m = "failing")

Block(fn, m, k) == IF RunsIn(m, Code[fn][k]) THEN 1..Len(Code[fn][k].block) ELSE {}

Remaining(fn, pc, step, m, k) ==
  {j \in Block(fn, m, k) : k < pc /\ (k = pc - 1 => j > step)}

Release(fn, k, j) == Code[fn][k].block[j]

IsReleased(fn, pc, step, m, x) ==
  \E k \in DOMAIN Code[fn] : \E j \in Remaining(fn, pc, step, m, k) : x = Release(fn, k, j).what

\* The releases left that do not look first find what they release.
AllFound(fn, pc, step, m, names) ==
  \A k \in DOMAIN Code[fn] : \A j \in Remaining(fn, pc, step, m, k) :
    Release(fn, k, j).op = "free" => Release(fn, k, j).what \in names

-----------------------------------------------------------------------------
(* Facts about the program *)

\* What an instruction makes of what the function holds.
ForwardFact(fn, pc) ==
  LET i == Code[fn][pc]
      here == Holds[fn][pc]
  IN  /\ i.op \in {"acquire", "own"} =>
           \A x : x \in Holds[fn][pc + 1] <=> x \in here \/ x = i.what
      /\ i.op \in {"acquire_if_any", "check", "leave", "defer", "errdefer", "call_if_asked"} =>
           \A x : x \in Holds[fn][pc + 1] <=> x \in here
      /\ i.op \in {"free", "free_if_held"} =>
           \A x : x \in Holds[fn][pc + 1] <=> x \in here /\ x # i.what
      /\ i.op = "free" => i.what \in here
      /\ i.op = "adopt" =>
           \A x : x \in Holds[fn][pc + 1] <=> (x \in here /\ x # i.new) \/ x = i.what
      /\ i.op = "fetch" =>
           /\ \A x : x \in Holds[fn][pc + Turn + 1] <=> x \in here
           /\ \A x : x \in Holds[fn][pc + 1] <=> x \in here \/ x = i.what
           /\ pc + Turn + 1 \in 1..End(fn)
      /\ i.op = "again" =>
           /\ \A x : x \in Holds[fn][pc - Turn] <=> x \in here
           /\ pc - Turn \in 1..End(fn)

\* The same for what it perhaps holds.
PerhapsFact(fn, pc) ==
  LET i == Code[fn][pc]
      perhaps == Perhaps(fn, pc)
  IN  /\ i.op = "acquire_if_any" => i.what \in Perhaps(fn, pc + 1)
      /\ i.op = "again" => perhaps \subseteq Perhaps(fn, pc - Turn)
      /\ i.op = "fetch" => perhaps \subseteq Perhaps(fn, pc + Turn + 1)
      /\ i.op # "again" =>
           \A x \in perhaps :
             x \in Perhaps(fn, pc + 1) \/ (i.op = "free_if_held" /\ i.what = x)

\* A call: it gets what it takes over, and what it leaves to the caller to keep is none of
\* its business.
CallFact(fn, pc) ==
  LET callee == Code[fn][pc].name
      keeps == Holds[fn][pc] \ Takes(callee)
  IN  IsCall(Code[fn][pc]) =>
        /\ callee \in Fn \ {"open", "close", "closeResultSet", "closeCursor"}
        /\ fn \notin {"open", "close", "closeResultSet", "closeCursor"}
        /\ Takes(callee) \subseteq Holds[fn][pc]
        /\ Touches(callee) \subseteq Touches(fn)
        /\ keeps \cap Touches(callee) = {}
        /\ \A x : x \in Holds[fn][pc + 1] <=> x \in keeps \/ x \in Gives(callee)
        /\ GivesPerhaps(callee) = {}
        /\ Perhaps(fn, pc) = {}

\* Where a function may fail, and where it may return a value.
Fallible(instruction) ==
  instruction.op \in {"acquire", "acquire_if_any", "check", "fetch", "call", "call_if_asked"}

Leaves(fn, pc) == pc = End(fn) \/ (pc \in DOMAIN Code[fn] /\ Code[fn][pc].op = "leave")

\* There the blocks passed find what they release, and release whatever is not to stay.
WayBack(fn, pc, m, base, more) ==
  /\ base \subseteq Holds[fn][pc]
  /\ AllFound(fn, pc, 0, m, Holds[fn][pc])
  /\ \A x \in Holds[fn][pc] \cup Perhaps(fn, pc) :
       x \in base \cup more \/ IsReleased(fn, pc, 0, m, x)

FailFact(fn, pc) ==
  pc \in DOMAIN Code[fn] /\ Fallible(Code[fn][pc]) =>
    /\ WayBack(fn, pc, "failing", Takes(fn), {"array"})
    /\ fn \notin {"close", "closeResultSet", "closeCursor"}

ReturnFact(fn, pc) ==
  Leaves(fn, pc) => WayBack(fn, pc, "returning", Gives(fn), GivesPerhaps(fn))

\* What a function releases is its own affair and nobody needs it any more.
ReleaseFact(fn, what, stays) ==
  /\ what \in Touches(fn)
  /\ what \in {"context", "manager_lib", "database", "connection"} => fn \in {"open", "close"}
  /\ \A user \in stays : what \notin Needs(user)
  /\ \A user : what \in Needs(user) => user \in Touches(fn)

FreeFact(fn, pc) ==
  LET i == Code[fn][pc]
      stays == Holds[fn][pc + 1] \cup Perhaps(fn, pc + 1)
  IN  /\ i.op \in {"free", "free_if_held"} => ReleaseFact(fn, i.what, stays)
      /\ i.op = "adopt" =>
           /\ i.new \in Touches(fn) /\ \A user : i.new \notin Needs(user)
           /\ i.what \in Touches(fn) /\ Needs(i.what) = {}

\* A release takes nothing from one that follows it.
Undisturbed(release, later) ==
  /\ later.op = "free" => later.what # release.what
  /\ release.what \notin Needs(later.what)

InOrder(fn, k, j, m) ==
  \A k2 \in DOMAIN Code[fn] : \A j2 \in Remaining(fn, k + 1, j, m, k2) :
    Undisturbed(Release(fn, k, j), Release(fn, k2, j2))

\* No block releases what is to stay, nor what another is sure to find.
BlockFact(fn, m, base, more) ==
  \A k \in DOMAIN Code[fn] : \A j \in Block(fn, m, k) :
    /\ Release(fn, k, j).what \notin base
    /\ Release(fn, k, j).op \in {"free", "free_if_held"}
    /\ InOrder(fn, k, j, m)
    /\ ReleaseFact(fn, Release(fn, k, j).what, base \cup more)

\* What is acquired has what it needs, of the function or of the open connection.
AcquireFact(fn, pc) ==
  LET i == Code[fn][pc]
      lent == IF fn = "open" THEN {} ELSE {"connection", "manager_lib"}
  IN  i.op \in {"acquire", "acquire_if_any", "own", "fetch"} =>
        /\ Needs(i.what) \subseteq Holds[fn][pc] \cup lent
        /\ i.what \in Touches(fn)
        /\ fn # "close"

\* The instructions are of the kinds the module has actions for.
OpFact(fn, pc) ==
  Code[fn][pc].op \in
    {"acquire", "own", "acquire_if_any", "check", "leave", "defer", "errdefer", "call",
     "call_if_asked", "free", "free_if_held", "adopt", "fetch", "again"}

FunctionFact(fn) ==
  /\ \A pc \in DOMAIN Code[fn] :
       ForwardFact(fn, pc) /\ PerhapsFact(fn, pc) /\ CallFact(fn, pc) /\ FailFact(fn, pc)
         /\ FreeFact(fn, pc) /\ AcquireFact(fn, pc) /\ OpFact(fn, pc)
  /\ \A pc \in 1..End(fn) : ReturnFact(fn, pc)
  /\ BlockFact(fn, "failing", Takes(fn), {"array"})
  /\ BlockFact(fn, "returning", Gives(fn), GivesPerhaps(fn))

-----------------------------------------------------------------------------
(* The invariant *)

\* A function under way, the instruction it is at and the releases done of its block.
Frames == [fn : Fn, pc : Nat, step : Nat]

\* The call a frame that is not the innermost waits for.
Calling(frame) == Code[frame.fn][frame.pc - 1]

\* What a function keeps while one it called is under way.
Keeps(frame) == Holds[frame.fn][frame.pc - 1] \ Takes(Calling(frame).name)

\* What the call under way has made or, if it closes a handle, what its like made.
Ours == {r \in held : r.call = call.number}

\* Their names.
OwnNames == {r.what : r \in Ours}

\* What all the callers keep.
Kept == UNION {Keeps(frames[i]) : i \in 1..(Len(frames) - 1)}

\* Each caller waits at a call of the function above it, what it keeps exists, and no
\* function above it has to do with any of that.
StackInv ==
  /\ frames \in Seq(Frames)
  /\ \A i \in 1..Len(frames) : frames[i].pc \in 1..End(frames[i].fn)
  /\ \A i \in 1..(Len(frames) - 1) :
       /\ frames[i].pc > 1 /\ frames[i].step = 0
       /\ IsCall(Calling(frames[i])) /\ Calling(frames[i]).name = frames[i + 1].fn
       /\ Keeps(frames[i]) \subseteq OwnNames
  /\ \A j \in 1..Len(frames) : \A i \in 1..(j - 1) :
       Keeps(frames[i]) \cap Touches(frames[j].fn) = {}

\* A running function holds what its table says.
RunningInv ==
  mode = "running" /\ frames # <<>> =>
    /\ Top.step = 0
    /\ Holds[Top.fn][Top.pc] \subseteq OwnNames
    /\ OwnNames \subseteq Holds[Top.fn][Top.pc] \cup Perhaps(Top.fn, Top.pc) \cup Kept

\* The releases of instruction k a frame on its way back has before it.
Left(k) == Remaining(Top.fn, Top.pc, Top.step, mode, k)

\* On its way back a function holds what is to stay, finds what the blocks left release, and
\* holds nothing else but what they release, what perhaps stays and what its callers keep.
Going(base, more) ==
  /\ base \subseteq OwnNames
  /\ \A k \in DOMAIN Code[Top.fn] : \A j \in Left(k) :
       Release(Top.fn, k, j).op = "free" => Release(Top.fn, k, j).what \in OwnNames
  /\ \A x \in OwnNames :
       \/ x \in base \cup more \cup Kept
       \/ \E k \in DOMAIN Code[Top.fn] : \E j \in Left(k) : x = Release(Top.fn, k, j).what

\* A function returns a value with what it gives,
ReturningInv ==
  mode = "returning" => frames # <<>> /\ Going(Gives(Top.fn), GivesPerhaps(Top.fn))

\* and fails with what it took over, and an array at most.
FailingInv ==
  mode = "failing" /\ frames # <<>> => Going(Takes(Top.fn), {"array"})

\* The functions the manager calls, and what they return.
Closes == {"close", "closeResultSet", "closeCursor"}

Entries ==
  {"open", "execute", "openCursor", "testConnection", "getTables", "getCatalogs",
   "inspectNamespaceAccess"} \cup Closes

ReturnsOf(fn) ==
  CASE fn = "open" -> "handle"
    [] fn \in {"execute", "getTables", "getCatalogs"} -> "result_set"
    [] fn = "openCursor" -> "cursor"
    [] OTHER -> "none"

\* The outermost function.
EntryInv ==
  frames # <<>> =>
    /\ frames[1].fn \in Entries
    /\ call.returns = ReturnsOf(frames[1].fn)
    /\ frames[1].fn \in Closes => mode # "failing"
    /\ frames[1].fn \in {"openCursor", "closeCursor"} => call.by = "openCursor"
    /\ IF frames[1].fn \in {"open", "close"} THEN handles = {} ELSE Connections # {}

\* What is left when it has returned.
Complete(what) ==
  CASE what = "handle" -> {"handle", "context", "manager_lib", "database", "connection"}
    [] what = "result_set" -> {"result_set", "columns", "rows"}
    [] what = "cursor" -> {"cursor", "columns"}
    [] OTHER -> {}

\* A call that has run to its end has made its handle whole, or has left nothing.
ResultInv ==
  ~Idle /\ frames = <<>> =>
    IF mode = "failing" THEN OwnNames \subseteq {"array"}
    ELSE /\ Complete(call.returns) \subseteq OwnNames
         /\ OwnNames \subseteq Complete(call.returns)
              \cup (IF call.returns = "handle" THEN {"dependency"} ELSE {})
              \cup (IF call.by = "openCursor" THEN {"rows"} ELSE {})

\* Resources and handles have three fields.
IsRecord(r) == r = [what |-> r.what, by |-> r.by, call |-> r.call]

\* What other calls have left.
OthersInv ==
  /\ calls \in Nat
  /\ \A r \in held \cup handles : IsRecord(r) /\ r.call \in 1..calls
  /\ \A r, s \in held \cup handles : r.call = s.call => r.by = s.by
  /\ \A h, k \in handles : h.call = k.call => h = k
  /\ \A h \in handles :
       /\ h.what \in {"handle", "result_set", "cursor"}
       /\ h.what = "cursor" => h.by = "openCursor"
       /\ \A what \in Complete(h.what) : [h EXCEPT !.what = what] \in held
       /\ \A r \in held : r.call = h.call =>
            r.what \in Parts(h) \/ (h.what = "cursor" /\ r.what = "rows")
  /\ \A r \in held \ Ours :
       \/ r.what = "array" \/ (r.what = "rows" /\ r.by = "openCursor")
       \/ \E h \in handles : h.call = r.call /\ r.what \in Parts(h)
  /\ Connections = {} => handles = {}

\* The call under way has a number of its own, and no handle is open under a connection
\* that is being opened.
CallInv ==
  /\ Idle => frames = <<>> /\ mode = "running"
  /\ ~Idle =>
       /\ call.number \in 1..calls
       /\ call.returns \in {"handle", "result_set", "cursor", "none"}
       /\ call.returns = "handle" => call.by = "open" /\ handles = {}
       /\ call.returns \in {"result_set", "cursor"} => Connections # {}
       /\ call.returns = "cursor" => call.by = "openCursor"
       /\ \A h \in handles : h.call # call.number
       /\ \A r \in Ours : r.by = call.by
  /\ mode \in {"running", "returning", "failing"}

\* The inductive invariant.
BackendInv ==
  /\ OthersInv /\ CallInv /\ StackInv /\ RunningInv /\ ReturningInv /\ FailingInv
  /\ EntryInv /\ ResultInv /\ NeedsAreHeld

\* They are in order if each is with those of earlier blocks and the later ones of its own.
LEMMA InOrderIf ==
  ASSUME NEW fn, DOMAIN Code[fn] \subseteq Int, NEW m,
         NEW k \in DOMAIN Code[fn], NEW j \in Block(fn, m, k),
         \A k2 \in DOMAIN Code[fn] : \A j2 \in Block(fn, m, k2) :
           k2 < k \/ (k2 = k /\ j2 > j) => Undisturbed(Release(fn, k, j), Release(fn, k2, j2))
  PROVE  InOrder(fn, k, j, m)
<1> SUFFICES ASSUME NEW k2 \in DOMAIN Code[fn], NEW j2 \in Remaining(fn, k + 1, j, m, k2)
             PROVE  Undisturbed(Release(fn, k, j), Release(fn, k2, j2))
  BY DEF InOrder
<1>1. j2 \in Block(fn, m, k2) /\ (k2 < k \/ (k2 = k /\ j2 > j))
  BY k \in Int, k2 \in Int DEF Remaining
<1> QED BY <1>1

\* The body of open, and what it holds.
LEMMA OpenIs ==
  /\ "open" \in Fn /\ Code["open"] = OpenBody /\ Holds["open"] = OpenHolds
  /\ DOMAIN Code["open"] = 1..17 /\ Len(Code["open"]) = 17 /\ End("open") = 18
BY DEF Code, Holds, OpenBody, End, Fn

\* open keeps to the facts above.
LEMMA OpenFact ==
  FunctionFact("open")
<1>1. ASSUME NEW m, NEW k \in 1..17, NEW j \in Block("open", m, k)
      PROVE  \/ k = 2 /\ j = 1 /\ Release("open", k, j) = Free("arena")
             \/ k = 5 /\ j = 1 /\ Release("open", k, j) = Free("context") /\ m = "failing"
             \/ k = 7 /\ j = 1 /\ Release("open", k, j) = Free("manager_lib") /\ m = "failing"
             \/ k = 9 /\ j = 1 /\ Release("open", k, j) = FreeIfHeld("dependency")
                  /\ m = "failing"
             \/ k = 11 /\ j = 1 /\ Release("open", k, j) = FreeIfHeld("database")
                  /\ m = "failing"
             \/ k = 13 /\ j = 1 /\ Release("open", k, j) = FreeIfHeld("connection")
                  /\ m = "failing"
             \/ k = 13 /\ j = 2 /\ Release("open", k, j) = FreeIfHeld("database")
                  /\ m = "failing"
             \/ k = 17 /\ j = 1 /\ Release("open", k, j) = Free("handle") /\ m = "failing"
  <2>1. RunsIn(m, Code["open"][k]) /\ j \in 1..Len(Code["open"][k].block)
    BY <1>1 DEF Block
  <2>2. (k = 2) \/ (k \in {5, 7, 9, 11, 13, 17} /\ m = "failing")
    BY SMTT(30), <2>1, OpenIs DEF RunsIn, OpenBody, ReleaseDatabase, ReleaseConnection, Own,
                                  Defer, Free, Check, Acquire, ErrDefer, AcquireIfAny,
                                  FreeIfHeld
  <2>3. CASE k = 2
    <3>1. OpenBody[2] = Defer(<<Free("arena")>>)
      BY DEF OpenBody
    <3>2. Len(Code["open"][2].block) = 1 /\ Release("open", 2, 1) = Free("arena")
      BY <3>1, OpenIs DEF Release, Defer
    <3> QED BY <2>1, <2>2, <2>3, <3>2
  <2>4. CASE k = 5
    <3>1. OpenBody[5] = ErrDefer(<<Free("context")>>)
      BY DEF OpenBody
    <3>2. Len(Code["open"][5].block) = 1 /\ Release("open", 5, 1) = Free("context")
      BY <3>1, OpenIs DEF Release, ErrDefer
    <3> QED BY <2>1, <2>2, <2>4, <3>2
  <2>5. CASE k = 7
    <3>1. OpenBody[7] = ErrDefer(<<Free("manager_lib")>>)
      BY DEF OpenBody
    <3>2. Len(Code["open"][7].block) = 1 /\ Release("open", 7, 1) = Free("manager_lib")
      BY <3>1, OpenIs DEF Release, ErrDefer
    <3> QED BY <2>1, <2>2, <2>5, <3>2
  <2>6. CASE k = 9
    <3>1. OpenBody[9] = ErrDefer(<<FreeIfHeld("dependency")>>)
      BY DEF OpenBody
    <3>2. Len(Code["open"][9].block) = 1 /\ Release("open", 9, 1) = FreeIfHeld("dependency")
      BY <3>1, OpenIs DEF Release, ErrDefer
    <3> QED BY <2>1, <2>2, <2>6, <3>2
  <2>7. CASE k = 11
    <3>1. OpenBody[11] = ErrDefer(ReleaseDatabase)
      BY DEF OpenBody
    <3>2. Len(Code["open"][11].block) = 1 /\ Release("open", 11, 1) = FreeIfHeld("database")
      BY <3>1, OpenIs DEF Release, ErrDefer, ReleaseDatabase
    <3> QED BY <2>1, <2>2, <2>7, <3>2
  <2>8. CASE k = 13
    <3>1. OpenBody[13] = ErrDefer(ReleaseConnection)
      BY DEF OpenBody
    <3>2. Len(Code["open"][13].block) = 2
            /\ Release("open", 13, 1) = FreeIfHeld("connection")
            /\ Release("open", 13, 2) = FreeIfHeld("database")
      BY <3>1, OpenIs DEF Release, ErrDefer, ReleaseConnection
    <3> QED BY <2>1, <2>2, <2>8, <3>2
  <2>9. CASE k = 17
    <3>1. OpenBody[17] = ErrDefer(<<Free("handle")>>)
      BY DEF OpenBody
    <3>2. Len(Code["open"][17].block) = 1 /\ Release("open", 17, 1) = Free("handle")
      BY <3>1, OpenIs DEF Release, ErrDefer
    <3> QED BY <2>1, <2>2, <2>9, <3>2
  <2> QED BY <2>2, <2>3, <2>4, <2>5, <2>6, <2>7, <2>8, <2>9
<1> USE OpenIs DEF OpenBody, ReleaseDatabase, ReleaseConnection, Own, Defer, Free, Check,
                   Acquire, ErrDefer, AcquireIfAny, FreeIfHeld
<1>2. ASSUME NEW pc \in 1..18, NEW m
      PROVE  /\ pc > 2 => IsReleased("open", pc, 0, m, "arena")
             /\ pc > 5 /\ m = "failing" => IsReleased("open", pc, 0, m, "context")
             /\ pc > 7 /\ m = "failing" => IsReleased("open", pc, 0, m, "manager_lib")
             /\ pc > 9 /\ m = "failing" => IsReleased("open", pc, 0, m, "dependency")
             /\ pc > 11 /\ m = "failing" => IsReleased("open", pc, 0, m, "database")
             /\ pc > 13 /\ m = "failing" => IsReleased("open", pc, 0, m, "connection")
             /\ pc > 17 /\ m = "failing" => IsReleased("open", pc, 0, m, "handle")
  <2>1. pc > 2 =>
         /\ 2 \in DOMAIN Code["open"] /\ 1 \in Remaining("open", pc, 0, m, 2)
         /\ Release("open", 2, 1).what = "arena"
    BY SMTT(30) DEF Remaining, Block, RunsIn, Release
  <2>2. pc > 5 /\ m = "failing" =>
         /\ 5 \in DOMAIN Code["open"] /\ 1 \in Remaining("open", pc, 0, m, 5)
         /\ Release("open", 5, 1).what = "context"
    BY SMTT(30) DEF Remaining, Block, RunsIn, Release
  <2>3. pc > 7 /\ m = "failing" =>
         /\ 7 \in DOMAIN Code["open"] /\ 1 \in Remaining("open", pc, 0, m, 7)
         /\ Release("open", 7, 1).what = "manager_lib"
    BY SMTT(30) DEF Remaining, Block, RunsIn, Release
  <2>4. pc > 9 /\ m = "failing" =>
         /\ 9 \in DOMAIN Code["open"] /\ 1 \in Remaining("open", pc, 0, m, 9)
         /\ Release("open", 9, 1).what = "dependency"
    BY SMTT(30) DEF Remaining, Block, RunsIn, Release
  <2>5. pc > 11 /\ m = "failing" =>
         /\ 11 \in DOMAIN Code["open"] /\ 1 \in Remaining("open", pc, 0, m, 11)
         /\ Release("open", 11, 1).what = "database"
    BY SMTT(30) DEF Remaining, Block, RunsIn, Release
  <2>6. pc > 13 /\ m = "failing" =>
         /\ 13 \in DOMAIN Code["open"] /\ 1 \in Remaining("open", pc, 0, m, 13)
         /\ Release("open", 13, 1).what = "connection"
    BY SMTT(30) DEF Remaining, Block, RunsIn, Release
  <2>7. pc > 17 /\ m = "failing" =>
         /\ 17 \in DOMAIN Code["open"] /\ 1 \in Remaining("open", pc, 0, m, 17)
         /\ Release("open", 17, 1).what = "handle"
    BY SMTT(30) DEF Remaining, Block, RunsIn, Release
  <2> QED BY <2>1, <2>2, <2>3, <2>4, <2>5, <2>6, <2>7 DEF IsReleased
<1>3. ASSUME NEW pc \in 1..17
      PROVE  ForwardFact("open", pc)
  BY SMTT(30), <1>3 DEF ForwardFact, OpenHolds
<1>4. ASSUME NEW pc \in 1..17
      PROVE  PerhapsFact("open", pc)
  BY SMTT(30), <1>4 DEF PerhapsFact, Perhaps
<1>5. ASSUME NEW pc \in 1..17
      PROVE  FreeFact("open", pc)
  BY SMTT(30), <1>5 DEF FreeFact, ReleaseFact, Needs, Touches, StatementNames, Perhaps,
                        OpenHolds
<1>6. ASSUME NEW pc \in 1..17
      PROVE  AcquireFact("open", pc) /\ OpFact("open", pc)
  BY SMTT(30), <1>6 DEF AcquireFact, OpFact, Needs, Touches, StatementNames, OpenHolds
<1>7. ASSUME NEW pc \in 1..17
      PROVE  CallFact("open", pc)
  BY <1>7 DEF CallFact, IsCall
<1>8. ASSUME NEW pc \in 1..17, Fallible(Code["open"][pc])
      PROVE  pc \in {3, 4, 6, 8, 10, 12, 14, 15, 16}
  BY <1>8 DEF Fallible
<1>9. ASSUME NEW pc \in 1..18, Leaves("open", pc)
      PROVE  pc = 18
  BY <1>9 DEF Leaves
<1> HIDE DEF OpenBody, ReleaseDatabase, ReleaseConnection, Own, Defer, Check, Acquire,
             ErrDefer, AcquireIfAny
<1>10. ASSUME NEW pc \in 1..17
      PROVE  FailFact("open", pc)
  <2> SUFFICES ASSUME Fallible(Code["open"][pc])
               PROVE  WayBack("open", pc, "failing", Takes("open"), {"array"})
    BY <1>10 DEF FailFact
  <2>1. ASSUME NEW k \in 1..17, NEW j \in Block("open", "failing", k),
               k < pc, Release("open", k, j).op = "free"
        PROVE  Release("open", k, j).what \in Holds["open"][pc]
    BY <1>1, <2>1, <1>8, SMTT(30) DEF OpenHolds
  <2>2. AllFound("open", pc, 0, "failing", Holds["open"][pc])
    BY <2>1 DEF AllFound, Remaining
  <2>3. Takes("open") \subseteq Holds["open"][pc]
    BY <1>8 DEF Takes, OpenHolds
  <2>4. ASSUME NEW x \in Holds["open"][pc] \cup Perhaps("open", pc)
        PROVE  \/ x \in Takes("open") \cup {"array"}
               \/ x = "arena" /\ pc > 2
               \/ x = "context" /\ pc > 5
               \/ x = "manager_lib" /\ pc > 7
               \/ x = "dependency" /\ pc > 9
               \/ x = "database" /\ pc > 11
               \/ x = "connection" /\ pc > 13
               \/ x = "handle" /\ pc > 17
    BY <2>4, <1>8 DEF Takes, OpenHolds, Perhaps
  <2> QED BY <2>2, <2>3, <2>4, <1>2 DEF WayBack
<1>11. ASSUME NEW pc \in 1..18
      PROVE  ReturnFact("open", pc)
  <2> SUFFICES ASSUME Leaves("open", pc)
               PROVE  WayBack("open", pc, "returning", Gives("open"), GivesPerhaps("open"))
    BY <1>11 DEF ReturnFact
  <2>1. ASSUME NEW k \in 1..17, NEW j \in Block("open", "returning", k),
               k < pc, Release("open", k, j).op = "free"
        PROVE  Release("open", k, j).what \in Holds["open"][pc]
    BY <1>1, <2>1, <1>9, SMTT(30) DEF OpenHolds
  <2>2. AllFound("open", pc, 0, "returning", Holds["open"][pc])
    BY <2>1 DEF AllFound, Remaining
  <2>3. Gives("open") \subseteq Holds["open"][pc]
    BY <1>9 DEF Gives, OpenHolds
  <2>4. ASSUME NEW x \in Holds["open"][pc] \cup Perhaps("open", pc)
        PROVE  \/ x \in Gives("open") \cup GivesPerhaps("open")
               \/ x = "arena" /\ pc > 2
    BY <2>4, <1>9 DEF Gives, GivesPerhaps, OpenHolds, Perhaps
  <2> QED BY <2>2, <2>3, <2>4, <1>2 DEF WayBack
<1>12. BlockFact("open", "failing", Takes("open"), {"array"})
  <2>1. ASSUME NEW k \in 1..17, NEW j \in Block("open", "failing", k)
        PROVE  /\ Release("open", k, j).what \notin Takes("open")
               /\ Release("open", k, j).op \in {"free", "free_if_held"}
               /\ ReleaseFact("open", Release("open", k, j).what, Takes("open") \cup {"array"})
    BY <1>1, <2>1, SMTT(30) DEF Takes, OpenHolds, ReleaseFact, Needs, Touches, StatementNames
  <2>2. ASSUME NEW k \in 1..17, NEW j \in Block("open", "failing", k)
        PROVE  InOrder("open", k, j, "failing")
    <3>1. ASSUME NEW k2 \in 1..17, NEW j2 \in Block("open", "failing", k2),
                 k2 < k \/ (k2 = k /\ j2 > j)
          PROVE  Undisturbed(Release("open", k, j), Release("open", k2, j2))
      BY <1>1, <2>2, <3>1, SMTT(30) DEF Undisturbed, Needs
    <3> QED BY <2>2, <3>1, InOrderIf
  <2> QED BY <2>1, <2>2 DEF BlockFact
<1>13. BlockFact("open", "returning", Gives("open"), GivesPerhaps("open"))
  <2>1. ASSUME NEW k \in 1..17, NEW j \in Block("open", "returning", k)
        PROVE  /\ Release("open", k, j).what \notin Gives("open")
               /\ Release("open", k, j).op \in {"free", "free_if_held"}
               /\ ReleaseFact("open", Release("open", k, j).what, Gives("open")
                    \cup GivesPerhaps("open"))
    BY <1>1, <2>1, SMTT(30) DEF Gives, GivesPerhaps, ReleaseFact, Needs, Touches, StatementNames
  <2>2. ASSUME NEW k \in 1..17, NEW j \in Block("open", "returning", k)
        PROVE  InOrder("open", k, j, "returning")
    <3>1. ASSUME NEW k2 \in 1..17, NEW j2 \in Block("open", "returning", k2),
                 k2 < k \/ (k2 = k /\ j2 > j)
          PROVE  Undisturbed(Release("open", k, j), Release("open", k2, j2))
      BY <1>1, <2>2, <3>1, SMTT(30) DEF Undisturbed, Needs
    <3> QED BY <2>2, <3>1, InOrderIf
  <2> QED BY <2>1, <2>2 DEF BlockFact
<1> QED BY <1>3, <1>4, <1>5, <1>6, <1>7, <1>10, <1>11,
          <1>12, <1>13 DEF FunctionFact

\* The body of close, and what it holds.
LEMMA CloseIs ==
  /\ "close" \in Fn /\ Code["close"] = CloseBody /\ Holds["close"] = CloseHolds
  /\ DOMAIN Code["close"] = 1..6 /\ Len(Code["close"]) = 6 /\ End("close") = 7
BY DEF Code, Holds, CloseBody, End, Fn

\* close keeps to the facts above.
LEMMA CloseFact ==
  FunctionFact("close")
<1> USE CloseIs DEF CloseBody, FreeIfHeld, Free
<1>1. ASSUME NEW m, NEW k \in 1..6
      PROVE  Block("close", m, k) = {}
  BY DEF Block, RunsIn
<1>3. ASSUME NEW pc \in 1..6
      PROVE  ForwardFact("close", pc)
  BY SMTT(30), <1>3 DEF ForwardFact, CloseHolds
<1>4. ASSUME NEW pc \in 1..6
      PROVE  PerhapsFact("close", pc)
  BY SMTT(30), <1>4 DEF PerhapsFact, Perhaps
<1>5. ASSUME NEW pc \in 1..6
      PROVE  FreeFact("close", pc)
  BY SMTT(30), <1>5 DEF FreeFact, ReleaseFact, Needs, Touches, StatementNames, Perhaps,
                        CloseHolds
<1>6. ASSUME NEW pc \in 1..6
      PROVE  AcquireFact("close", pc) /\ OpFact("close", pc)
  BY SMTT(30), <1>6 DEF AcquireFact, OpFact, Needs, Touches, StatementNames, CloseHolds
<1>7. ASSUME NEW pc \in 1..6
      PROVE  CallFact("close", pc)
  BY <1>7 DEF CallFact, IsCall
<1>8. ASSUME NEW pc \in 1..6, Fallible(Code["close"][pc])
      PROVE  FALSE
  BY <1>8 DEF Fallible
<1>9. ASSUME NEW pc \in 1..7, Leaves("close", pc)
      PROVE  pc = 7
  BY <1>9 DEF Leaves
<1> HIDE DEF CloseBody
<1>10. ASSUME NEW pc \in 1..6
       PROVE  FailFact("close", pc)
  BY <1>8 DEF FailFact
<1>11. ASSUME NEW pc \in 1..7
      PROVE  ReturnFact("close", pc)
  <2> SUFFICES ASSUME Leaves("close", pc)
               PROVE  WayBack("close", pc, "returning", Gives("close"), GivesPerhaps("close"))
    BY <1>11 DEF ReturnFact
  <2>1. ASSUME NEW k \in 1..6, NEW j \in Block("close", "returning", k),
               k < pc, Release("close", k, j).op = "free"
        PROVE  Release("close", k, j).what \in Holds["close"][pc]
    BY <1>1, <2>1
  <2>2. AllFound("close", pc, 0, "returning", Holds["close"][pc])
    BY <2>1 DEF AllFound, Remaining
  <2>3. Gives("close") \subseteq Holds["close"][pc]
    BY <1>9 DEF Gives, CloseHolds
  <2>4. ASSUME NEW x \in Holds["close"][pc] \cup Perhaps("close", pc)
        PROVE  x \in Gives("close") \cup GivesPerhaps("close")
    BY <2>4, <1>9 DEF Gives, GivesPerhaps, CloseHolds, Perhaps
  <2> QED BY <2>2, <2>3, <2>4 DEF WayBack
<1>12. BlockFact("close", "failing", Takes("close"), {"array"})
  BY <1>1 DEF BlockFact
<1>13. BlockFact("close", "returning", Gives("close"), GivesPerhaps("close"))
  BY <1>1 DEF BlockFact
<1> QED BY <1>3, <1>4, <1>5, <1>6, <1>7, <1>10, <1>11,
          <1>12, <1>13 DEF FunctionFact

\* The body of executeStatement, and what it holds.
LEMMA StatementIs ==
  /\ "executeStatement" \in Fn /\ Code["executeStatement"] = ExecuteStatement
       /\ Holds["executeStatement"] = StatementHolds
  /\ DOMAIN Code["executeStatement"] = 1..16 /\ Len(Code["executeStatement"]) = 16
       /\ End("executeStatement") = 17
BY DEF Code, Holds, ExecuteStatement, End, Fn

\* executeStatement keeps to the facts above.
LEMMA StatementFact ==
  FunctionFact("executeStatement")
<1>1. ASSUME NEW m, NEW k \in 1..16, NEW j \in Block("executeStatement", m, k)
      PROVE  \/ k = 2 /\ j = 1 /\ Release("executeStatement", k, j) = Free("statement")
             \/ k = 5 /\ j = 1 /\ Release("executeStatement", k, j) = FreeIfHeld("stream")
             \/ k = 7 /\ j = 1 /\ Release("executeStatement", k, j) = FreeIfHeld("schema")
             \/ k = 9 /\ j = 1 /\ Release("executeStatement", k, j) = Free("columns")
                  /\ m = "failing"
             \/ k = 11 /\ j = 1 /\ Release("executeStatement", k, j) = Free("rows")
                  /\ m = "failing"
  <2>1. RunsIn(m, Code["executeStatement"][k]) /\ j
          \in 1..Len(Code["executeStatement"][k].block)
    BY <1>1 DEF Block
  <2>2. (k \in {2, 5, 7}) \/ (k \in {9, 11} /\ m = "failing")
    BY SMTT(30), <2>1, StatementIs DEF RunsIn, ExecuteStatement, Own, Defer, Free, Check,
                                       Acquire, ErrDefer, FreeIfHeld, Fetch, Again, Turn
  <2>3. CASE k = 2
    <3>1. ExecuteStatement[2] = Defer(<<Free("statement")>>)
      BY DEF ExecuteStatement
    <3>2. Len(Code["executeStatement"][2].block) = 1
            /\ Release("executeStatement", 2, 1) = Free("statement")
      BY <3>1, StatementIs DEF Release, Defer
    <3> QED BY <2>1, <2>2, <2>3, <3>2
  <2>4. CASE k = 5
    <3>1. ExecuteStatement[5] = Defer(<<FreeIfHeld("stream")>>)
      BY DEF ExecuteStatement
    <3>2. Len(Code["executeStatement"][5].block) = 1
            /\ Release("executeStatement", 5, 1) = FreeIfHeld("stream")
      BY <3>1, StatementIs DEF Release, Defer
    <3> QED BY <2>1, <2>2, <2>4, <3>2
  <2>5. CASE k = 7
    <3>1. ExecuteStatement[7] = Defer(<<FreeIfHeld("schema")>>)
      BY DEF ExecuteStatement
    <3>2. Len(Code["executeStatement"][7].block) = 1
            /\ Release("executeStatement", 7, 1) = FreeIfHeld("schema")
      BY <3>1, StatementIs DEF Release, Defer
    <3> QED BY <2>1, <2>2, <2>5, <3>2
  <2>6. CASE k = 9
    <3>1. ExecuteStatement[9] = ErrDefer(<<Free("columns")>>)
      BY DEF ExecuteStatement
    <3>2. Len(Code["executeStatement"][9].block) = 1
            /\ Release("executeStatement", 9, 1) = Free("columns")
      BY <3>1, StatementIs DEF Release, ErrDefer
    <3> QED BY <2>1, <2>2, <2>6, <3>2
  <2>7. CASE k = 11
    <3>1. ExecuteStatement[11] = ErrDefer(<<Free("rows")>>)
      BY DEF ExecuteStatement
    <3>2. Len(Code["executeStatement"][11].block) = 1
            /\ Release("executeStatement", 11, 1) = Free("rows")
      BY <3>1, StatementIs DEF Release, ErrDefer
    <3> QED BY <2>1, <2>2, <2>7, <3>2
  <2> QED BY <2>2, <2>3, <2>4, <2>5, <2>6, <2>7
<1> USE StatementIs DEF ExecuteStatement, Own, Defer, Free, Check, Acquire, ErrDefer,
                        FreeIfHeld, Fetch, Again, Turn
<1>2. ASSUME NEW pc \in 1..17, NEW m
      PROVE  /\ pc > 2 => IsReleased("executeStatement", pc, 0, m, "statement")
             /\ pc > 5 => IsReleased("executeStatement", pc, 0, m, "stream")
             /\ pc > 7 => IsReleased("executeStatement", pc, 0, m, "schema")
             /\ pc > 9 /\ m = "failing" => IsReleased("executeStatement", pc, 0, m, "columns")
             /\ pc > 11 /\ m = "failing" => IsReleased("executeStatement", pc, 0, m, "rows")
  <2>1. pc > 2 =>
         /\ 2 \in DOMAIN Code["executeStatement"] /\ 1
              \in Remaining("executeStatement", pc, 0, m, 2)
         /\ Release("executeStatement", 2, 1).what = "statement"
    BY SMTT(30) DEF Remaining, Block, RunsIn, Release
  <2>2. pc > 5 =>
         /\ 5 \in DOMAIN Code["executeStatement"] /\ 1
              \in Remaining("executeStatement", pc, 0, m, 5)
         /\ Release("executeStatement", 5, 1).what = "stream"
    BY SMTT(30) DEF Remaining, Block, RunsIn, Release
  <2>3. pc > 7 =>
         /\ 7 \in DOMAIN Code["executeStatement"] /\ 1
              \in Remaining("executeStatement", pc, 0, m, 7)
         /\ Release("executeStatement", 7, 1).what = "schema"
    BY SMTT(30) DEF Remaining, Block, RunsIn, Release
  <2>4. pc > 9 /\ m = "failing" =>
         /\ 9 \in DOMAIN Code["executeStatement"] /\ 1
              \in Remaining("executeStatement", pc, 0, m, 9)
         /\ Release("executeStatement", 9, 1).what = "columns"
    BY SMTT(30) DEF Remaining, Block, RunsIn, Release
  <2>5. pc > 11 /\ m = "failing" =>
         /\ 11 \in DOMAIN Code["executeStatement"] /\ 1
              \in Remaining("executeStatement", pc, 0, m, 11)
         /\ Release("executeStatement", 11, 1).what = "rows"
    BY SMTT(30) DEF Remaining, Block, RunsIn, Release
  <2> QED BY <2>1, <2>2, <2>3, <2>4, <2>5 DEF IsReleased
<1>3. ASSUME NEW pc \in 1..16
      PROVE  ForwardFact("executeStatement", pc)
  BY SMTT(30), <1>3 DEF ForwardFact, StatementHolds
<1>4. ASSUME NEW pc \in 1..16
      PROVE  PerhapsFact("executeStatement", pc)
  BY SMTT(30), <1>4 DEF PerhapsFact, Perhaps
<1>5. ASSUME NEW pc \in 1..16
      PROVE  FreeFact("executeStatement", pc)
  BY SMTT(30), <1>5 DEF FreeFact, ReleaseFact, Needs, Touches, StatementNames, Perhaps,
                        StatementHolds
<1>6. ASSUME NEW pc \in 1..16
      PROVE  AcquireFact("executeStatement", pc) /\ OpFact("executeStatement", pc)
  BY SMTT(30), <1>6 DEF AcquireFact, OpFact, Needs, Touches, StatementNames, StatementHolds
<1>7. ASSUME NEW pc \in 1..16
      PROVE  CallFact("executeStatement", pc)
  BY <1>7 DEF CallFact, IsCall
<1>8. ASSUME NEW pc \in 1..16, Fallible(Code["executeStatement"][pc])
      PROVE  pc \in {1, 3, 4, 6, 8, 12, 13, 16}
  BY <1>8 DEF Fallible
<1>9. ASSUME NEW pc \in 1..17, Leaves("executeStatement", pc)
      PROVE  pc = 17
  BY <1>9 DEF Leaves
<1> HIDE DEF ExecuteStatement, Own, Defer, Check, Acquire, ErrDefer, Fetch, Again, Turn
<1>10. ASSUME NEW pc \in 1..16
      PROVE  FailFact("executeStatement", pc)
  <2> SUFFICES ASSUME Fallible(Code["executeStatement"][pc])
               PROVE  WayBack("executeStatement", pc, "failing", Takes("executeStatement"),
                        {"array"})
    BY <1>10 DEF FailFact
  <2>1. ASSUME NEW k \in 1..16, NEW j \in Block("executeStatement", "failing", k),
               k < pc, Release("executeStatement", k, j).op = "free"
        PROVE  Release("executeStatement", k, j).what \in Holds["executeStatement"][pc]
    BY <1>1, <2>1, <1>8, SMTT(30) DEF StatementHolds
  <2>2. AllFound("executeStatement", pc, 0, "failing", Holds["executeStatement"][pc])
    BY <2>1 DEF AllFound, Remaining
  <2>3. Takes("executeStatement") \subseteq Holds["executeStatement"][pc]
    BY <1>8 DEF Takes, StatementHolds
  <2>4. ASSUME NEW x \in Holds["executeStatement"][pc] \cup Perhaps("executeStatement", pc)
        PROVE  \/ x \in Takes("executeStatement") \cup {"array"}
               \/ x = "statement" /\ pc > 2
               \/ x = "stream" /\ pc > 5
               \/ x = "schema" /\ pc > 7
               \/ x = "columns" /\ pc > 9
               \/ x = "rows" /\ pc > 11
    BY <2>4, <1>8 DEF Takes, StatementHolds, Perhaps
  <2> QED BY <2>2, <2>3, <2>4, <1>2 DEF WayBack
<1>11. ASSUME NEW pc \in 1..17
      PROVE  ReturnFact("executeStatement", pc)
  <2> SUFFICES ASSUME Leaves("executeStatement", pc)
               PROVE  WayBack("executeStatement", pc, "returning", Gives("executeStatement"),
                        GivesPerhaps("executeStatement"))
    BY <1>11 DEF ReturnFact
  <2>1. ASSUME NEW k \in 1..16, NEW j \in Block("executeStatement", "returning", k),
               k < pc, Release("executeStatement", k, j).op = "free"
        PROVE  Release("executeStatement", k, j).what \in Holds["executeStatement"][pc]
    BY <1>1, <2>1, <1>9, SMTT(30) DEF StatementHolds
  <2>2. AllFound("executeStatement", pc, 0, "returning", Holds["executeStatement"][pc])
    BY <2>1 DEF AllFound, Remaining
  <2>3. Gives("executeStatement") \subseteq Holds["executeStatement"][pc]
    BY <1>9 DEF Gives, StatementHolds
  <2>4. ASSUME NEW x \in Holds["executeStatement"][pc] \cup Perhaps("executeStatement", pc)
        PROVE  \/ x \in Gives("executeStatement") \cup GivesPerhaps("executeStatement")
               \/ x = "statement" /\ pc > 2
               \/ x = "stream" /\ pc > 5
               \/ x = "schema" /\ pc > 7
    BY <2>4, <1>9 DEF Gives, GivesPerhaps, StatementHolds, Perhaps
  <2> QED BY <2>2, <2>3, <2>4, <1>2 DEF WayBack
<1>12. BlockFact("executeStatement", "failing", Takes("executeStatement"), {"array"})
  <2>1. ASSUME NEW k \in 1..16, NEW j \in Block("executeStatement", "failing", k)
        PROVE  /\ Release("executeStatement", k, j).what \notin Takes("executeStatement")
               /\ Release("executeStatement", k, j).op \in {"free", "free_if_held"}
               /\ ReleaseFact("executeStatement", Release("executeStatement", k, j).what,
                    Takes("executeStatement") \cup {"array"})
    BY <1>1, <2>1, SMTT(30) DEF Takes, StatementHolds, ReleaseFact, Needs, Touches,
                                StatementNames
  <2>2. ASSUME NEW k \in 1..16, NEW j \in Block("executeStatement", "failing", k)
        PROVE  InOrder("executeStatement", k, j, "failing")
    <3>1. ASSUME NEW k2 \in 1..16, NEW j2 \in Block("executeStatement", "failing", k2),
                 k2 < k \/ (k2 = k /\ j2 > j)
          PROVE  Undisturbed(Release("executeStatement", k, j), Release("executeStatement",
                   k2, j2))
      BY <1>1, <2>2, <3>1, SMTT(30) DEF Undisturbed, Needs
    <3> QED BY <2>2, <3>1, InOrderIf
  <2> QED BY <2>1, <2>2 DEF BlockFact
<1>13. BlockFact("executeStatement", "returning", Gives("executeStatement"),
         GivesPerhaps("executeStatement"))
  <2>1. ASSUME NEW k \in 1..16, NEW j \in Block("executeStatement", "returning", k)
        PROVE  /\ Release("executeStatement", k, j).what \notin Gives("executeStatement")
               /\ Release("executeStatement", k, j).op \in {"free", "free_if_held"}
               /\ ReleaseFact("executeStatement", Release("executeStatement", k, j).what,
                    Gives("executeStatement") \cup GivesPerhaps("executeStatement"))
    BY <1>1, <2>1, SMTT(30) DEF Gives, GivesPerhaps, ReleaseFact, Needs, Touches, StatementNames
  <2>2. ASSUME NEW k \in 1..16, NEW j \in Block("executeStatement", "returning", k)
        PROVE  InOrder("executeStatement", k, j, "returning")
    <3>1. ASSUME NEW k2 \in 1..16, NEW j2 \in Block("executeStatement", "returning", k2),
                 k2 < k \/ (k2 = k /\ j2 > j)
          PROVE  Undisturbed(Release("executeStatement", k, j), Release("executeStatement",
                   k2, j2))
      BY <1>1, <2>2, <3>1, SMTT(30) DEF Undisturbed, Needs
    <3> QED BY <2>2, <3>1, InOrderIf
  <2> QED BY <2>1, <2>2 DEF BlockFact
<1> QED BY <1>3, <1>4, <1>5, <1>6, <1>7, <1>10, <1>11,
          <1>12, <1>13 DEF FunctionFact

\* The body of execute, and what it holds.
LEMMA ExecuteIs ==
  /\ "execute" \in Fn /\ Code["execute"] = ExecuteBody /\ Holds["execute"] = ExecuteHolds
  /\ DOMAIN Code["execute"] = 1..3 /\ Len(Code["execute"]) = 3 /\ End("execute") = 4
BY DEF Code, Holds, ExecuteBody, End, Fn

\* execute keeps to the facts above.
LEMMA ExecuteFact ==
  FunctionFact("execute")
<1>1. ASSUME NEW m, NEW k \in 1..3, NEW j \in Block("execute", m, k)
      PROVE  \/ k = 2 /\ j = 1 /\ Release("execute", k, j) = Free("rows") /\ m = "failing"
             \/ k = 2 /\ j = 2 /\ Release("execute", k, j) = Free("columns") /\ m = "failing"
  <2>1. RunsIn(m, Code["execute"][k]) /\ j \in 1..Len(Code["execute"][k].block)
    BY <1>1 DEF Block
  <2>2. k = 2 /\ m = "failing"
    BY SMTT(30), <2>1, ExecuteIs DEF RunsIn, ExecuteBody, FreeConsumed, Call, ErrDefer, Free,
                                     Acquire
  <2>3. CASE k = 2
    <3>1. ExecuteBody[2] = ErrDefer(FreeConsumed)
      BY DEF ExecuteBody
    <3>2. Len(Code["execute"][2].block) = 2 /\ Release("execute", 2, 1) = Free("rows")
            /\ Release("execute", 2, 2) = Free("columns")
      BY <3>1, ExecuteIs DEF Release, ErrDefer, FreeConsumed
    <3> QED BY <2>1, <2>2, <2>3, <3>2
  <2> QED BY <2>2, <2>3
<1> USE ExecuteIs DEF ExecuteBody, FreeConsumed, Call, ErrDefer, Free, Acquire
<1>2. ASSUME NEW pc \in 1..4, NEW m
      PROVE  /\ pc > 2 /\ m = "failing" => IsReleased("execute", pc, 0, m, "rows")
             /\ pc > 2 /\ m = "failing" => IsReleased("execute", pc, 0, m, "columns")
  <2>1. pc > 2 /\ m = "failing" =>
         /\ 2 \in DOMAIN Code["execute"] /\ 1 \in Remaining("execute", pc, 0, m, 2)
         /\ Release("execute", 2, 1).what = "rows"
    BY SMTT(30) DEF Remaining, Block, RunsIn, Release
  <2>2. pc > 2 /\ m = "failing" =>
         /\ 2 \in DOMAIN Code["execute"] /\ 2 \in Remaining("execute", pc, 0, m, 2)
         /\ Release("execute", 2, 2).what = "columns"
    BY SMTT(30) DEF Remaining, Block, RunsIn, Release
  <2> QED BY <2>1, <2>2 DEF IsReleased
<1>3. ASSUME NEW pc \in 1..3
      PROVE  ForwardFact("execute", pc)
  BY SMTT(30), <1>3 DEF ForwardFact, ExecuteHolds
<1>4. ASSUME NEW pc \in 1..3
      PROVE  PerhapsFact("execute", pc)
  BY SMTT(30), <1>4 DEF PerhapsFact, Perhaps
<1>5. ASSUME NEW pc \in 1..3
      PROVE  FreeFact("execute", pc)
  BY SMTT(30), <1>5 DEF FreeFact, ReleaseFact, Needs, Touches, StatementNames, Perhaps,
                        ExecuteHolds
<1>6. ASSUME NEW pc \in 1..3
      PROVE  AcquireFact("execute", pc) /\ OpFact("execute", pc)
  BY SMTT(30), <1>6 DEF AcquireFact, OpFact, Needs, Touches, StatementNames, ExecuteHolds
<1>7. ASSUME NEW pc \in 1..3, IsCall(Code["execute"][pc])
      PROVE  pc = 1 /\ Code["execute"][pc].name = "executeStatement"
  BY <1>7 DEF IsCall
<1>8. ASSUME NEW pc \in 1..3, Fallible(Code["execute"][pc])
      PROVE  pc \in {1, 3}
  BY <1>8 DEF Fallible
<1>9. ASSUME NEW pc \in 1..4, Leaves("execute", pc)
      PROVE  pc = 4
  BY <1>9 DEF Leaves
<1> HIDE DEF ExecuteBody, FreeConsumed, Call, ErrDefer, Acquire
<1>14. ASSUME NEW pc \in 1..3
       PROVE  CallFact("execute", pc)
  BY SMTT(60), <1>7, StatementIs DEF CallFact, Takes, Gives, GivesPerhaps, Touches,
                                     StatementNames, Perhaps, ExecuteHolds, StatementHolds
<1>10. ASSUME NEW pc \in 1..3
      PROVE  FailFact("execute", pc)
  <2> SUFFICES ASSUME Fallible(Code["execute"][pc])
               PROVE  WayBack("execute", pc, "failing", Takes("execute"), {"array"})
    BY <1>10 DEF FailFact
  <2>1. ASSUME NEW k \in 1..3, NEW j \in Block("execute", "failing", k),
               k < pc, Release("execute", k, j).op = "free"
        PROVE  Release("execute", k, j).what \in Holds["execute"][pc]
    BY <1>1, <2>1, <1>8, SMTT(30) DEF ExecuteHolds
  <2>2. AllFound("execute", pc, 0, "failing", Holds["execute"][pc])
    BY <2>1 DEF AllFound, Remaining
  <2>3. Takes("execute") \subseteq Holds["execute"][pc]
    BY <1>8 DEF Takes, ExecuteHolds
  <2>4. ASSUME NEW x \in Holds["execute"][pc] \cup Perhaps("execute", pc)
        PROVE  \/ x \in Takes("execute") \cup {"array"}
               \/ x = "rows" /\ pc > 2
               \/ x = "columns" /\ pc > 2
    BY <2>4, <1>8 DEF Takes, ExecuteHolds, Perhaps
  <2> QED BY <2>2, <2>3, <2>4, <1>2 DEF WayBack
<1>11. ASSUME NEW pc \in 1..4
      PROVE  ReturnFact("execute", pc)
  <2> SUFFICES ASSUME Leaves("execute", pc)
               PROVE  WayBack("execute", pc, "returning", Gives("execute"),
                        GivesPerhaps("execute"))
    BY <1>11 DEF ReturnFact
  <2>1. ASSUME NEW k \in 1..3, NEW j \in Block("execute", "returning", k),
               k < pc, Release("execute", k, j).op = "free"
        PROVE  Release("execute", k, j).what \in Holds["execute"][pc]
    BY <1>1, <2>1, <1>9, SMTT(30) DEF ExecuteHolds
  <2>2. AllFound("execute", pc, 0, "returning", Holds["execute"][pc])
    BY <2>1 DEF AllFound, Remaining
  <2>3. Gives("execute") \subseteq Holds["execute"][pc]
    BY <1>9 DEF Gives, ExecuteHolds
  <2>4. ASSUME NEW x \in Holds["execute"][pc] \cup Perhaps("execute", pc)
        PROVE  x \in Gives("execute") \cup GivesPerhaps("execute")
    BY <2>4, <1>9 DEF Gives, GivesPerhaps, ExecuteHolds, Perhaps
  <2> QED BY <2>2, <2>3, <2>4 DEF WayBack
<1>12. BlockFact("execute", "failing", Takes("execute"), {"array"})
  <2>1. ASSUME NEW k \in 1..3, NEW j \in Block("execute", "failing", k)
        PROVE  /\ Release("execute", k, j).what \notin Takes("execute")
               /\ Release("execute", k, j).op \in {"free", "free_if_held"}
               /\ ReleaseFact("execute", Release("execute", k, j).what, Takes("execute")
                    \cup {"array"})
    BY <1>1, <2>1, SMTT(30) DEF Takes, ExecuteHolds, ReleaseFact, Needs, Touches, StatementNames
  <2>2. ASSUME NEW k \in 1..3, NEW j \in Block("execute", "failing", k)
        PROVE  InOrder("execute", k, j, "failing")
    <3>1. ASSUME NEW k2 \in 1..3, NEW j2 \in Block("execute", "failing", k2),
                 k2 < k \/ (k2 = k /\ j2 > j)
          PROVE  Undisturbed(Release("execute", k, j), Release("execute", k2, j2))
      BY <1>1, <2>2, <3>1, SMTT(30) DEF Undisturbed, Needs
    <3> QED BY <2>2, <3>1, InOrderIf
  <2> QED BY <2>1, <2>2 DEF BlockFact
<1>13. BlockFact("execute", "returning", Gives("execute"), GivesPerhaps("execute"))
  <2>1. ASSUME NEW k \in 1..3, NEW j \in Block("execute", "returning", k)
        PROVE  /\ Release("execute", k, j).what \notin Gives("execute")
               /\ Release("execute", k, j).op \in {"free", "free_if_held"}
               /\ ReleaseFact("execute", Release("execute", k, j).what, Gives("execute")
                    \cup GivesPerhaps("execute"))
    BY <1>1, <2>1, SMTT(30) DEF Gives, GivesPerhaps, ReleaseFact, Needs, Touches, StatementNames
  <2>2. ASSUME NEW k \in 1..3, NEW j \in Block("execute", "returning", k)
        PROVE  InOrder("execute", k, j, "returning")
    <3>1. ASSUME NEW k2 \in 1..3, NEW j2 \in Block("execute", "returning", k2),
                 k2 < k \/ (k2 = k /\ j2 > j)
          PROVE  Undisturbed(Release("execute", k, j), Release("execute", k2, j2))
      BY <1>1, <2>2, <3>1, SMTT(30) DEF Undisturbed, Needs
    <3> QED BY <2>2, <3>1, InOrderIf
  <2> QED BY <2>1, <2>2 DEF BlockFact
<1> QED BY <1>3, <1>4, <1>5, <1>6, <1>14, <1>10, <1>11,
          <1>12, <1>13 DEF FunctionFact

\* The body of openCursor, and what it holds.
LEMMA OpenCursorIs ==
  /\ "openCursor" \in Fn /\ Code["openCursor"] = OpenCursorBody
       /\ Holds["openCursor"] = OpenCursorHolds
  /\ DOMAIN Code["openCursor"] = 1..3 /\ Len(Code["openCursor"]) = 3 /\ End("openCursor") = 4
BY DEF Code, Holds, OpenCursorBody, End, Fn

\* openCursor keeps to the facts above.
LEMMA OpenCursorFact ==
  FunctionFact("openCursor")
<1>1. ASSUME NEW m, NEW k \in 1..3, NEW j \in Block("openCursor", m, k)
      PROVE  \/ k = 2 /\ j = 1 /\ Release("openCursor", k, j) = Free("rows") /\ m = "failing"
             \/ k = 2 /\ j = 2 /\ Release("openCursor", k, j) = Free("columns") /\ m = "failing"
  <2>1. RunsIn(m, Code["openCursor"][k]) /\ j \in 1..Len(Code["openCursor"][k].block)
    BY <1>1 DEF Block
  <2>2. k = 2 /\ m = "failing"
    BY SMTT(30), <2>1, OpenCursorIs DEF RunsIn, OpenCursorBody, FreeConsumed, Call, ErrDefer,
                                        Free, Acquire
  <2>3. CASE k = 2
    <3>1. OpenCursorBody[2] = ErrDefer(FreeConsumed)
      BY DEF OpenCursorBody
    <3>2. Len(Code["openCursor"][2].block) = 2
            /\ Release("openCursor", 2, 1) = Free("rows")
            /\ Release("openCursor", 2, 2) = Free("columns")
      BY <3>1, OpenCursorIs DEF Release, ErrDefer, FreeConsumed
    <3> QED BY <2>1, <2>2, <2>3, <3>2
  <2> QED BY <2>2, <2>3
<1> USE OpenCursorIs DEF OpenCursorBody, FreeConsumed, Call, ErrDefer, Free, Acquire
<1>2. ASSUME NEW pc \in 1..4, NEW m
      PROVE  /\ pc > 2 /\ m = "failing" => IsReleased("openCursor", pc, 0, m, "rows")
             /\ pc > 2 /\ m = "failing" => IsReleased("openCursor", pc, 0, m, "columns")
  <2>1. pc > 2 /\ m = "failing" =>
         /\ 2 \in DOMAIN Code["openCursor"] /\ 1 \in Remaining("openCursor", pc, 0, m, 2)
         /\ Release("openCursor", 2, 1).what = "rows"
    BY SMTT(30) DEF Remaining, Block, RunsIn, Release
  <2>2. pc > 2 /\ m = "failing" =>
         /\ 2 \in DOMAIN Code["openCursor"] /\ 2 \in Remaining("openCursor", pc, 0, m, 2)
         /\ Release("openCursor", 2, 2).what = "columns"
    BY SMTT(30) DEF Remaining, Block, RunsIn, Release
  <2> QED BY <2>1, <2>2 DEF IsReleased
<1>3. ASSUME NEW pc \in 1..3
      PROVE  ForwardFact("openCursor", pc)
  BY SMTT(30), <1>3 DEF ForwardFact, OpenCursorHolds
<1>4. ASSUME NEW pc \in 1..3
      PROVE  PerhapsFact("openCursor", pc)
  BY SMTT(30), <1>4 DEF PerhapsFact, Perhaps
<1>5. ASSUME NEW pc \in 1..3
      PROVE  FreeFact("openCursor", pc)
  BY SMTT(30), <1>5 DEF FreeFact, ReleaseFact, Needs, Touches, StatementNames, Perhaps,
                        OpenCursorHolds
<1>6. ASSUME NEW pc \in 1..3
      PROVE  AcquireFact("openCursor", pc) /\ OpFact("openCursor", pc)
  BY SMTT(30), <1>6 DEF AcquireFact, OpFact, Needs, Touches, StatementNames, OpenCursorHolds
<1>7. ASSUME NEW pc \in 1..3, IsCall(Code["openCursor"][pc])
      PROVE  pc = 1 /\ Code["openCursor"][pc].name = "executeStatement"
  BY <1>7 DEF IsCall
<1>8. ASSUME NEW pc \in 1..3, Fallible(Code["openCursor"][pc])
      PROVE  pc \in {1, 3}
  BY <1>8 DEF Fallible
<1>9. ASSUME NEW pc \in 1..4, Leaves("openCursor", pc)
      PROVE  pc = 4
  BY <1>9 DEF Leaves
<1> HIDE DEF OpenCursorBody, FreeConsumed, Call, ErrDefer, Acquire
<1>14. ASSUME NEW pc \in 1..3
       PROVE  CallFact("openCursor", pc)
  BY SMTT(60), <1>7, StatementIs DEF CallFact, Takes, Gives, GivesPerhaps, Touches,
                                     StatementNames, Perhaps, OpenCursorHolds, StatementHolds
<1>10. ASSUME NEW pc \in 1..3
      PROVE  FailFact("openCursor", pc)
  <2> SUFFICES ASSUME Fallible(Code["openCursor"][pc])
               PROVE  WayBack("openCursor", pc, "failing", Takes("openCursor"), {"array"})
    BY <1>10 DEF FailFact
  <2>1. ASSUME NEW k \in 1..3, NEW j \in Block("openCursor", "failing", k),
               k < pc, Release("openCursor", k, j).op = "free"
        PROVE  Release("openCursor", k, j).what \in Holds["openCursor"][pc]
    BY <1>1, <2>1, <1>8, SMTT(30) DEF OpenCursorHolds
  <2>2. AllFound("openCursor", pc, 0, "failing", Holds["openCursor"][pc])
    BY <2>1 DEF AllFound, Remaining
  <2>3. Takes("openCursor") \subseteq Holds["openCursor"][pc]
    BY <1>8 DEF Takes, OpenCursorHolds
  <2>4. ASSUME NEW x \in Holds["openCursor"][pc] \cup Perhaps("openCursor", pc)
        PROVE  \/ x \in Takes("openCursor") \cup {"array"}
               \/ x = "rows" /\ pc > 2
               \/ x = "columns" /\ pc > 2
    BY <2>4, <1>8 DEF Takes, OpenCursorHolds, Perhaps
  <2> QED BY <2>2, <2>3, <2>4, <1>2 DEF WayBack
<1>11. ASSUME NEW pc \in 1..4
      PROVE  ReturnFact("openCursor", pc)
  <2> SUFFICES ASSUME Leaves("openCursor", pc)
               PROVE  WayBack("openCursor", pc, "returning", Gives("openCursor"),
                        GivesPerhaps("openCursor"))
    BY <1>11 DEF ReturnFact
  <2>1. ASSUME NEW k \in 1..3, NEW j \in Block("openCursor", "returning", k),
               k < pc, Release("openCursor", k, j).op = "free"
        PROVE  Release("openCursor", k, j).what \in Holds["openCursor"][pc]
    BY <1>1, <2>1, <1>9, SMTT(30) DEF OpenCursorHolds
  <2>2. AllFound("openCursor", pc, 0, "returning", Holds["openCursor"][pc])
    BY <2>1 DEF AllFound, Remaining
  <2>3. Gives("openCursor") \subseteq Holds["openCursor"][pc]
    BY <1>9 DEF Gives, OpenCursorHolds
  <2>4. ASSUME NEW x \in Holds["openCursor"][pc] \cup Perhaps("openCursor", pc)
        PROVE  x \in Gives("openCursor") \cup GivesPerhaps("openCursor")
    BY <2>4, <1>9 DEF Gives, GivesPerhaps, OpenCursorHolds, Perhaps
  <2> QED BY <2>2, <2>3, <2>4 DEF WayBack
<1>12. BlockFact("openCursor", "failing", Takes("openCursor"), {"array"})
  <2>1. ASSUME NEW k \in 1..3, NEW j \in Block("openCursor", "failing", k)
        PROVE  /\ Release("openCursor", k, j).what \notin Takes("openCursor")
               /\ Release("openCursor", k, j).op \in {"free", "free_if_held"}
               /\ ReleaseFact("openCursor", Release("openCursor", k, j).what,
                    Takes("openCursor") \cup {"array"})
    BY <1>1, <2>1, SMTT(30) DEF Takes, OpenCursorHolds, ReleaseFact, Needs, Touches,
                                StatementNames
  <2>2. ASSUME NEW k \in 1..3, NEW j \in Block("openCursor", "failing", k)
        PROVE  InOrder("openCursor", k, j, "failing")
    <3>1. ASSUME NEW k2 \in 1..3, NEW j2 \in Block("openCursor", "failing", k2),
                 k2 < k \/ (k2 = k /\ j2 > j)
          PROVE  Undisturbed(Release("openCursor", k, j), Release("openCursor", k2, j2))
      BY <1>1, <2>2, <3>1, SMTT(30) DEF Undisturbed, Needs
    <3> QED BY <2>2, <3>1, InOrderIf
  <2> QED BY <2>1, <2>2 DEF BlockFact
<1>13. BlockFact("openCursor", "returning", Gives("openCursor"), GivesPerhaps("openCursor"))
  <2>1. ASSUME NEW k \in 1..3, NEW j \in Block("openCursor", "returning", k)
        PROVE  /\ Release("openCursor", k, j).what \notin Gives("openCursor")
               /\ Release("openCursor", k, j).op \in {"free", "free_if_held"}
               /\ ReleaseFact("openCursor", Release("openCursor", k, j).what,
                    Gives("openCursor") \cup GivesPerhaps("openCursor"))
    BY <1>1, <2>1, SMTT(30) DEF Gives, GivesPerhaps, ReleaseFact, Needs, Touches, StatementNames
  <2>2. ASSUME NEW k \in 1..3, NEW j \in Block("openCursor", "returning", k)
        PROVE  InOrder("openCursor", k, j, "returning")
    <3>1. ASSUME NEW k2 \in 1..3, NEW j2 \in Block("openCursor", "returning", k2),
                 k2 < k \/ (k2 = k /\ j2 > j)
          PROVE  Undisturbed(Release("openCursor", k, j), Release("openCursor", k2, j2))
      BY <1>1, <2>2, <3>1, SMTT(30) DEF Undisturbed, Needs
    <3> QED BY <2>2, <3>1, InOrderIf
  <2> QED BY <2>1, <2>2 DEF BlockFact
<1> QED BY <1>3, <1>4, <1>5, <1>6, <1>14, <1>10, <1>11,
          <1>12, <1>13 DEF FunctionFact

\* The body of closeResultSet, and what it holds.
LEMMA CloseResultSetIs ==
  /\ "closeResultSet" \in Fn /\ Code["closeResultSet"] = CloseResultSetBody
       /\ Holds["closeResultSet"] = CloseResultSetHolds
  /\ DOMAIN Code["closeResultSet"] = 1..3 /\ Len(Code["closeResultSet"]) = 3
       /\ End("closeResultSet") = 4
BY DEF Code, Holds, CloseResultSetBody, End, Fn

\* closeResultSet keeps to the facts above.
LEMMA CloseResultSetFact ==
  FunctionFact("closeResultSet")
<1> USE CloseResultSetIs DEF CloseResultSetBody, Free
<1>1. ASSUME NEW m, NEW k \in 1..3
      PROVE  Block("closeResultSet", m, k) = {}
  BY DEF Block, RunsIn
<1>3. ASSUME NEW pc \in 1..3
      PROVE  ForwardFact("closeResultSet", pc)
  BY SMTT(30), <1>3 DEF ForwardFact, CloseResultSetHolds
<1>4. ASSUME NEW pc \in 1..3
      PROVE  PerhapsFact("closeResultSet", pc)
  BY SMTT(30), <1>4 DEF PerhapsFact, Perhaps
<1>5. ASSUME NEW pc \in 1..3
      PROVE  FreeFact("closeResultSet", pc)
  BY SMTT(30), <1>5 DEF FreeFact, ReleaseFact, Needs, Touches, StatementNames, Perhaps,
                        CloseResultSetHolds
<1>6. ASSUME NEW pc \in 1..3
      PROVE  AcquireFact("closeResultSet", pc) /\ OpFact("closeResultSet", pc)
  BY SMTT(30), <1>6 DEF AcquireFact, OpFact, Needs, Touches, StatementNames,
                        CloseResultSetHolds
<1>7. ASSUME NEW pc \in 1..3
      PROVE  CallFact("closeResultSet", pc)
  BY <1>7 DEF CallFact, IsCall
<1>8. ASSUME NEW pc \in 1..3, Fallible(Code["closeResultSet"][pc])
      PROVE  FALSE
  BY <1>8 DEF Fallible
<1>9. ASSUME NEW pc \in 1..4, Leaves("closeResultSet", pc)
      PROVE  pc = 4
  BY <1>9 DEF Leaves
<1> HIDE DEF CloseResultSetBody
<1>10. ASSUME NEW pc \in 1..3
       PROVE  FailFact("closeResultSet", pc)
  BY <1>8 DEF FailFact
<1>11. ASSUME NEW pc \in 1..4
      PROVE  ReturnFact("closeResultSet", pc)
  <2> SUFFICES ASSUME Leaves("closeResultSet", pc)
               PROVE  WayBack("closeResultSet", pc, "returning", Gives("closeResultSet"),
                        GivesPerhaps("closeResultSet"))
    BY <1>11 DEF ReturnFact
  <2>1. ASSUME NEW k \in 1..3, NEW j \in Block("closeResultSet", "returning", k),
               k < pc, Release("closeResultSet", k, j).op = "free"
        PROVE  Release("closeResultSet", k, j).what \in Holds["closeResultSet"][pc]
    BY <1>1, <2>1
  <2>2. AllFound("closeResultSet", pc, 0, "returning", Holds["closeResultSet"][pc])
    BY <2>1 DEF AllFound, Remaining
  <2>3. Gives("closeResultSet") \subseteq Holds["closeResultSet"][pc]
    BY <1>9 DEF Gives, CloseResultSetHolds
  <2>4. ASSUME NEW x \in Holds["closeResultSet"][pc] \cup Perhaps("closeResultSet", pc)
        PROVE  x \in Gives("closeResultSet") \cup GivesPerhaps("closeResultSet")
    BY <2>4, <1>9 DEF Gives, GivesPerhaps, CloseResultSetHolds, Perhaps
  <2> QED BY <2>2, <2>3, <2>4 DEF WayBack
<1>12. BlockFact("closeResultSet", "failing", Takes("closeResultSet"), {"array"})
  BY <1>1 DEF BlockFact
<1>13. BlockFact("closeResultSet", "returning", Gives("closeResultSet"),
         GivesPerhaps("closeResultSet"))
  BY <1>1 DEF BlockFact
<1> QED BY <1>3, <1>4, <1>5, <1>6, <1>7, <1>10, <1>11,
          <1>12, <1>13 DEF FunctionFact

\* The body of closeCursor, and what it holds.
LEMMA CloseCursorIs ==
  /\ "closeCursor" \in Fn /\ Code["closeCursor"] = CloseCursorBody
       /\ Holds["closeCursor"] = CloseCursorHolds
  /\ DOMAIN Code["closeCursor"] = 1..2 /\ Len(Code["closeCursor"]) = 2 /\ End("closeCursor") = 3
BY DEF Code, Holds, CloseCursorBody, End, Fn

\* closeCursor keeps to the facts above.
LEMMA CloseCursorFact ==
  FunctionFact("closeCursor")
<1> USE CloseCursorIs DEF CloseCursorBody, Free
<1>1. ASSUME NEW m, NEW k \in 1..2
      PROVE  Block("closeCursor", m, k) = {}
  BY DEF Block, RunsIn
<1>3. ASSUME NEW pc \in 1..2
      PROVE  ForwardFact("closeCursor", pc)
  BY SMTT(30), <1>3 DEF ForwardFact, CloseCursorHolds
<1>4. ASSUME NEW pc \in 1..2
      PROVE  PerhapsFact("closeCursor", pc)
  BY SMTT(30), <1>4 DEF PerhapsFact, Perhaps
<1>5. ASSUME NEW pc \in 1..2
      PROVE  FreeFact("closeCursor", pc)
  BY SMTT(30), <1>5 DEF FreeFact, ReleaseFact, Needs, Touches, StatementNames, Perhaps,
                        CloseCursorHolds
<1>6. ASSUME NEW pc \in 1..2
      PROVE  AcquireFact("closeCursor", pc) /\ OpFact("closeCursor", pc)
  BY SMTT(30), <1>6 DEF AcquireFact, OpFact, Needs, Touches, StatementNames, CloseCursorHolds
<1>7. ASSUME NEW pc \in 1..2
      PROVE  CallFact("closeCursor", pc)
  BY <1>7 DEF CallFact, IsCall
<1>8. ASSUME NEW pc \in 1..2, Fallible(Code["closeCursor"][pc])
      PROVE  FALSE
  BY <1>8 DEF Fallible
<1>9. ASSUME NEW pc \in 1..3, Leaves("closeCursor", pc)
      PROVE  pc = 3
  BY <1>9 DEF Leaves
<1> HIDE DEF CloseCursorBody
<1>10. ASSUME NEW pc \in 1..2
       PROVE  FailFact("closeCursor", pc)
  BY <1>8 DEF FailFact
<1>11. ASSUME NEW pc \in 1..3
      PROVE  ReturnFact("closeCursor", pc)
  <2> SUFFICES ASSUME Leaves("closeCursor", pc)
               PROVE  WayBack("closeCursor", pc, "returning", Gives("closeCursor"),
                        GivesPerhaps("closeCursor"))
    BY <1>11 DEF ReturnFact
  <2>1. ASSUME NEW k \in 1..2, NEW j \in Block("closeCursor", "returning", k),
               k < pc, Release("closeCursor", k, j).op = "free"
        PROVE  Release("closeCursor", k, j).what \in Holds["closeCursor"][pc]
    BY <1>1, <2>1
  <2>2. AllFound("closeCursor", pc, 0, "returning", Holds["closeCursor"][pc])
    BY <2>1 DEF AllFound, Remaining
  <2>3. Gives("closeCursor") \subseteq Holds["closeCursor"][pc]
    BY <1>9 DEF Gives, CloseCursorHolds
  <2>4. ASSUME NEW x \in Holds["closeCursor"][pc] \cup Perhaps("closeCursor", pc)
        PROVE  x \in Gives("closeCursor") \cup GivesPerhaps("closeCursor")
    BY <2>4, <1>9 DEF Gives, GivesPerhaps, CloseCursorHolds, Perhaps
  <2> QED BY <2>2, <2>3, <2>4 DEF WayBack
<1>12. BlockFact("closeCursor", "failing", Takes("closeCursor"), {"array"})
  BY <1>1 DEF BlockFact
<1>13. BlockFact("closeCursor", "returning", Gives("closeCursor"), GivesPerhaps("closeCursor"))
  BY <1>1 DEF BlockFact
<1> QED BY <1>3, <1>4, <1>5, <1>6, <1>7, <1>10, <1>11,
          <1>12, <1>13 DEF FunctionFact

\* The body of testConnection and queryReturnsRows, and what it holds.
LEMMA QueryIs ==
  ASSUME NEW fn \in {"testConnection", "queryReturnsRows"}
  PROVE  /\ fn \in Fn /\ Code[fn] = QueryBody /\ Holds[fn] = QueryHolds
         /\ DOMAIN Code[fn] = 1..2 /\ Len(Code[fn]) = 2 /\ End(fn) = 3
<1>1. fn \in Fn /\ Code[fn] = QueryBody /\ Holds[fn] = QueryHolds
  BY DEF Fn, Code, Holds
<1>2. DOMAIN QueryBody = 1..2 /\ Len(QueryBody) = 2
  BY DEF QueryBody
<1> QED BY <1>1, <1>2 DEF End

\* testConnection and queryReturnsRows keep to the facts above.
LEMMA QueryFact ==
  ASSUME NEW fn \in {"testConnection", "queryReturnsRows"}
  PROVE  FunctionFact(fn)
<1>1. ASSUME NEW m, NEW k \in 1..2, NEW j \in Block(fn, m, k)
      PROVE  \/ k = 2 /\ j = 1 /\ Release(fn, k, j) = Free("rows")
             \/ k = 2 /\ j = 2 /\ Release(fn, k, j) = Free("columns")
  <2>1. RunsIn(m, Code[fn][k]) /\ j \in 1..Len(Code[fn][k].block)
    BY <1>1 DEF Block
  <2>2. k = 2
    BY SMTT(30), <2>1, QueryIs DEF RunsIn, QueryBody, FreeConsumed, Call, Defer, Free
  <2>3. CASE k = 2
    <3>1. QueryBody[2] = Defer(FreeConsumed)
      BY DEF QueryBody
    <3>2. Len(Code[fn][2].block) = 2 /\ Release(fn, 2, 1) = Free("rows")
            /\ Release(fn, 2, 2) = Free("columns")
      BY <3>1, QueryIs DEF Release, Defer, FreeConsumed
    <3> QED BY <2>1, <2>2, <2>3, <3>2
  <2> QED BY <2>2, <2>3
<1> USE QueryIs DEF QueryBody, FreeConsumed, Call, Defer, Free
<1>2. ASSUME NEW pc \in 1..3, NEW m
      PROVE  /\ pc > 2 => IsReleased(fn, pc, 0, m, "rows")
             /\ pc > 2 => IsReleased(fn, pc, 0, m, "columns")
  <2>1. pc > 2 =>
         /\ 2 \in DOMAIN Code[fn] /\ 1 \in Remaining(fn, pc, 0, m, 2)
         /\ Release(fn, 2, 1).what = "rows"
    BY SMTT(30) DEF Remaining, Block, RunsIn, Release
  <2>2. pc > 2 =>
         /\ 2 \in DOMAIN Code[fn] /\ 2 \in Remaining(fn, pc, 0, m, 2)
         /\ Release(fn, 2, 2).what = "columns"
    BY SMTT(30) DEF Remaining, Block, RunsIn, Release
  <2> QED BY <2>1, <2>2 DEF IsReleased
<1>3. ASSUME NEW pc \in 1..2
      PROVE  ForwardFact(fn, pc)
  BY SMTT(30), <1>3 DEF ForwardFact, QueryHolds
<1>4. ASSUME NEW pc \in 1..2
      PROVE  PerhapsFact(fn, pc)
  BY SMTT(30), <1>4 DEF PerhapsFact, Perhaps
<1>5. ASSUME NEW pc \in 1..2
      PROVE  FreeFact(fn, pc)
  BY SMTT(30), <1>5 DEF FreeFact, ReleaseFact, Needs, Touches, StatementNames, Perhaps,
                        QueryHolds
<1>6. ASSUME NEW pc \in 1..2
      PROVE  AcquireFact(fn, pc) /\ OpFact(fn, pc)
  BY SMTT(30), <1>6 DEF AcquireFact, OpFact, Needs, Touches, StatementNames, QueryHolds
<1>7. ASSUME NEW pc \in 1..2, IsCall(Code[fn][pc])
      PROVE  pc = 1 /\ Code[fn][pc].name = "executeStatement"
  BY <1>7 DEF IsCall
<1>8. ASSUME NEW pc \in 1..2, Fallible(Code[fn][pc])
      PROVE  pc \in {1}
  BY <1>8 DEF Fallible
<1>9. ASSUME NEW pc \in 1..3, Leaves(fn, pc)
      PROVE  pc = 3
  BY <1>9 DEF Leaves
<1> HIDE DEF QueryBody, FreeConsumed, Call, Defer
<1>14. ASSUME NEW pc \in 1..2
       PROVE  CallFact(fn, pc)
  BY SMTT(60), <1>7, StatementIs DEF CallFact, Takes, Gives, GivesPerhaps, Touches,
                                     StatementNames, Perhaps, QueryHolds, StatementHolds
<1>10. ASSUME NEW pc \in 1..2
      PROVE  FailFact(fn, pc)
  <2> SUFFICES ASSUME Fallible(Code[fn][pc])
               PROVE  WayBack(fn, pc, "failing", Takes(fn), {"array"})
    BY <1>10 DEF FailFact
  <2>1. ASSUME NEW k \in 1..2, NEW j \in Block(fn, "failing", k),
               k < pc, Release(fn, k, j).op = "free"
        PROVE  Release(fn, k, j).what \in Holds[fn][pc]
    BY <1>1, <2>1, <1>8, SMTT(30) DEF QueryHolds
  <2>2. AllFound(fn, pc, 0, "failing", Holds[fn][pc])
    BY <2>1 DEF AllFound, Remaining
  <2>3. Takes(fn) \subseteq Holds[fn][pc]
    BY <1>8 DEF Takes, QueryHolds
  <2>4. ASSUME NEW x \in Holds[fn][pc] \cup Perhaps(fn, pc)
        PROVE  \/ x \in Takes(fn) \cup {"array"}
               \/ x = "rows" /\ pc > 2
               \/ x = "columns" /\ pc > 2
    BY <2>4, <1>8 DEF Takes, QueryHolds, Perhaps
  <2> QED BY <2>2, <2>3, <2>4, <1>2 DEF WayBack
<1>11. ASSUME NEW pc \in 1..3
      PROVE  ReturnFact(fn, pc)
  <2> SUFFICES ASSUME Leaves(fn, pc)
               PROVE  WayBack(fn, pc, "returning", Gives(fn), GivesPerhaps(fn))
    BY <1>11 DEF ReturnFact
  <2>1. ASSUME NEW k \in 1..2, NEW j \in Block(fn, "returning", k),
               k < pc, Release(fn, k, j).op = "free"
        PROVE  Release(fn, k, j).what \in Holds[fn][pc]
    BY <1>1, <2>1, <1>9, SMTT(30) DEF QueryHolds
  <2>2. AllFound(fn, pc, 0, "returning", Holds[fn][pc])
    BY <2>1 DEF AllFound, Remaining
  <2>3. Gives(fn) \subseteq Holds[fn][pc]
    BY <1>9 DEF Gives, QueryHolds
  <2>4. ASSUME NEW x \in Holds[fn][pc] \cup Perhaps(fn, pc)
        PROVE  \/ x \in Gives(fn) \cup GivesPerhaps(fn)
               \/ x = "rows" /\ pc > 2
               \/ x = "columns" /\ pc > 2
    BY <2>4, <1>9 DEF Gives, GivesPerhaps, QueryHolds, Perhaps
  <2> QED BY <2>2, <2>3, <2>4, <1>2 DEF WayBack
<1>12. BlockFact(fn, "failing", Takes(fn), {"array"})
  <2>1. ASSUME NEW k \in 1..2, NEW j \in Block(fn, "failing", k)
        PROVE  /\ Release(fn, k, j).what \notin Takes(fn)
               /\ Release(fn, k, j).op \in {"free", "free_if_held"}
               /\ ReleaseFact(fn, Release(fn, k, j).what, Takes(fn) \cup {"array"})
    BY <1>1, <2>1, SMTT(30) DEF Takes, QueryHolds, ReleaseFact, Needs, Touches, StatementNames
  <2>2. ASSUME NEW k \in 1..2, NEW j \in Block(fn, "failing", k)
        PROVE  InOrder(fn, k, j, "failing")
    <3>1. ASSUME NEW k2 \in 1..2, NEW j2 \in Block(fn, "failing", k2),
                 k2 < k \/ (k2 = k /\ j2 > j)
          PROVE  Undisturbed(Release(fn, k, j), Release(fn, k2, j2))
      BY <1>1, <2>2, <3>1, SMTT(30) DEF Undisturbed, Needs
    <3> QED BY <2>2, <3>1, InOrderIf
  <2> QED BY <2>1, <2>2 DEF BlockFact
<1>13. BlockFact(fn, "returning", Gives(fn), GivesPerhaps(fn))
  <2>1. ASSUME NEW k \in 1..2, NEW j \in Block(fn, "returning", k)
        PROVE  /\ Release(fn, k, j).what \notin Gives(fn)
               /\ Release(fn, k, j).op \in {"free", "free_if_held"}
               /\ ReleaseFact(fn, Release(fn, k, j).what, Gives(fn) \cup GivesPerhaps(fn))
    BY <1>1, <2>1, SMTT(30) DEF Gives, GivesPerhaps, ReleaseFact, Needs, Touches, StatementNames
  <2>2. ASSUME NEW k \in 1..2, NEW j \in Block(fn, "returning", k)
        PROVE  InOrder(fn, k, j, "returning")
    <3>1. ASSUME NEW k2 \in 1..2, NEW j2 \in Block(fn, "returning", k2),
                 k2 < k \/ (k2 = k /\ j2 > j)
          PROVE  Undisturbed(Release(fn, k, j), Release(fn, k2, j2))
      BY <1>1, <2>2, <3>1, SMTT(30) DEF Undisturbed, Needs
    <3> QED BY <2>2, <3>1, InOrderIf
  <2> QED BY <2>1, <2>2 DEF BlockFact
<1> QED BY <1>3, <1>4, <1>5, <1>6, <1>14, <1>10, <1>11,
          <1>12, <1>13 DEF FunctionFact

\* The body of hasCatalogAccess and hasNamespaceAccess, and what it holds.
LEMMA AccessIs ==
  ASSUME NEW fn \in {"hasCatalogAccess", "hasNamespaceAccess"}
  PROVE  /\ fn \in Fn /\ Code[fn] = AccessBody /\ Holds[fn] = AccessHolds
         /\ DOMAIN Code[fn] = 1..3 /\ Len(Code[fn]) = 3 /\ End(fn) = 4
<1>1. fn \in Fn /\ Code[fn] = AccessBody /\ Holds[fn] = AccessHolds
  BY DEF Fn, Code, Holds
<1>2. DOMAIN AccessBody = 1..3 /\ Len(AccessBody) = 3
  BY DEF AccessBody
<1> QED BY <1>1, <1>2 DEF End

\* hasCatalogAccess and hasNamespaceAccess keep to the facts above.
LEMMA AccessFact ==
  ASSUME NEW fn \in {"hasCatalogAccess", "hasNamespaceAccess"}
  PROVE  FunctionFact(fn)
<1>1. ASSUME NEW m, NEW k \in 1..3, NEW j \in Block(fn, m, k)
      PROVE  \/ k = 2 /\ j = 1 /\ Release(fn, k, j) = Free("sql")
  <2>1. RunsIn(m, Code[fn][k]) /\ j \in 1..Len(Code[fn][k].block)
    BY <1>1 DEF Block
  <2>2. k = 2
    BY SMTT(30), <2>1, AccessIs DEF RunsIn, AccessBody, Call, Defer, Free, Acquire
  <2>3. CASE k = 2
    <3>1. AccessBody[2] = Defer(<<Free("sql")>>)
      BY DEF AccessBody
    <3>2. Len(Code[fn][2].block) = 1 /\ Release(fn, 2, 1) = Free("sql")
      BY <3>1, AccessIs DEF Release, Defer
    <3> QED BY <2>1, <2>2, <2>3, <3>2
  <2> QED BY <2>2, <2>3
<1> USE AccessIs DEF AccessBody, Call, Defer, Free, Acquire
<1>2. ASSUME NEW pc \in 1..4, NEW m
      PROVE  /\ pc > 2 => IsReleased(fn, pc, 0, m, "sql")
  <2>1. pc > 2 =>
         /\ 2 \in DOMAIN Code[fn] /\ 1 \in Remaining(fn, pc, 0, m, 2)
         /\ Release(fn, 2, 1).what = "sql"
    BY SMTT(30) DEF Remaining, Block, RunsIn, Release
  <2> QED BY <2>1 DEF IsReleased
<1>3. ASSUME NEW pc \in 1..3
      PROVE  ForwardFact(fn, pc)
  BY SMTT(30), <1>3 DEF ForwardFact, AccessHolds
<1>4. ASSUME NEW pc \in 1..3
      PROVE  PerhapsFact(fn, pc)
  BY SMTT(30), <1>4 DEF PerhapsFact, Perhaps
<1>5. ASSUME NEW pc \in 1..3
      PROVE  FreeFact(fn, pc)
  BY SMTT(30), <1>5 DEF FreeFact, ReleaseFact, Needs, Touches, StatementNames, Perhaps,
                        AccessHolds
<1>6. ASSUME NEW pc \in 1..3
      PROVE  AcquireFact(fn, pc) /\ OpFact(fn, pc)
  BY SMTT(30), <1>6 DEF AcquireFact, OpFact, Needs, Touches, StatementNames, AccessHolds
<1>7. ASSUME NEW pc \in 1..3, IsCall(Code[fn][pc])
      PROVE  pc = 3 /\ Code[fn][pc].name = "queryReturnsRows"
  BY <1>7 DEF IsCall
<1>8. ASSUME NEW pc \in 1..3, Fallible(Code[fn][pc])
      PROVE  pc \in {1, 3}
  BY <1>8 DEF Fallible
<1>9. ASSUME NEW pc \in 1..4, Leaves(fn, pc)
      PROVE  pc = 4
  BY <1>9 DEF Leaves
<1> HIDE DEF AccessBody, Call, Defer, Acquire
<1>14. ASSUME NEW pc \in 1..3
       PROVE  CallFact(fn, pc)
  BY SMTT(60), <1>7, QueryIs DEF CallFact, Takes, Gives, GivesPerhaps, Touches,
                                 StatementNames, Perhaps, AccessHolds, QueryHolds
<1>10. ASSUME NEW pc \in 1..3
      PROVE  FailFact(fn, pc)
  <2> SUFFICES ASSUME Fallible(Code[fn][pc])
               PROVE  WayBack(fn, pc, "failing", Takes(fn), {"array"})
    BY <1>10 DEF FailFact
  <2>1. ASSUME NEW k \in 1..3, NEW j \in Block(fn, "failing", k),
               k < pc, Release(fn, k, j).op = "free"
        PROVE  Release(fn, k, j).what \in Holds[fn][pc]
    BY <1>1, <2>1, <1>8, SMTT(30) DEF AccessHolds
  <2>2. AllFound(fn, pc, 0, "failing", Holds[fn][pc])
    BY <2>1 DEF AllFound, Remaining
  <2>3. Takes(fn) \subseteq Holds[fn][pc]
    BY <1>8 DEF Takes, AccessHolds
  <2>4. ASSUME NEW x \in Holds[fn][pc] \cup Perhaps(fn, pc)
        PROVE  \/ x \in Takes(fn) \cup {"array"}
               \/ x = "sql" /\ pc > 2
    BY <2>4, <1>8 DEF Takes, AccessHolds, Perhaps
  <2> QED BY <2>2, <2>3, <2>4, <1>2 DEF WayBack
<1>11. ASSUME NEW pc \in 1..4
      PROVE  ReturnFact(fn, pc)
  <2> SUFFICES ASSUME Leaves(fn, pc)
               PROVE  WayBack(fn, pc, "returning", Gives(fn), GivesPerhaps(fn))
    BY <1>11 DEF ReturnFact
  <2>1. ASSUME NEW k \in 1..3, NEW j \in Block(fn, "returning", k),
               k < pc, Release(fn, k, j).op = "free"
        PROVE  Release(fn, k, j).what \in Holds[fn][pc]
    BY <1>1, <2>1, <1>9, SMTT(30) DEF AccessHolds
  <2>2. AllFound(fn, pc, 0, "returning", Holds[fn][pc])
    BY <2>1 DEF AllFound, Remaining
  <2>3. Gives(fn) \subseteq Holds[fn][pc]
    BY <1>9 DEF Gives, AccessHolds
  <2>4. ASSUME NEW x \in Holds[fn][pc] \cup Perhaps(fn, pc)
        PROVE  \/ x \in Gives(fn) \cup GivesPerhaps(fn)
               \/ x = "sql" /\ pc > 2
    BY <2>4, <1>9 DEF Gives, GivesPerhaps, AccessHolds, Perhaps
  <2> QED BY <2>2, <2>3, <2>4, <1>2 DEF WayBack
<1>12. BlockFact(fn, "failing", Takes(fn), {"array"})
  <2>1. ASSUME NEW k \in 1..3, NEW j \in Block(fn, "failing", k)
        PROVE  /\ Release(fn, k, j).what \notin Takes(fn)
               /\ Release(fn, k, j).op \in {"free", "free_if_held"}
               /\ ReleaseFact(fn, Release(fn, k, j).what, Takes(fn) \cup {"array"})
    BY <1>1, <2>1, SMTT(30) DEF Takes, AccessHolds, ReleaseFact, Needs, Touches, StatementNames
  <2>2. ASSUME NEW k \in 1..3, NEW j \in Block(fn, "failing", k)
        PROVE  InOrder(fn, k, j, "failing")
    <3>1. ASSUME NEW k2 \in 1..3, NEW j2 \in Block(fn, "failing", k2),
                 k2 < k \/ (k2 = k /\ j2 > j)
          PROVE  Undisturbed(Release(fn, k, j), Release(fn, k2, j2))
      BY <1>1, <2>2, <3>1, SMTT(30) DEF Undisturbed, Needs
    <3> QED BY <2>2, <3>1, InOrderIf
  <2> QED BY <2>1, <2>2 DEF BlockFact
<1>13. BlockFact(fn, "returning", Gives(fn), GivesPerhaps(fn))
  <2>1. ASSUME NEW k \in 1..3, NEW j \in Block(fn, "returning", k)
        PROVE  /\ Release(fn, k, j).what \notin Gives(fn)
               /\ Release(fn, k, j).op \in {"free", "free_if_held"}
               /\ ReleaseFact(fn, Release(fn, k, j).what, Gives(fn) \cup GivesPerhaps(fn))
    BY <1>1, <2>1, SMTT(30) DEF Gives, GivesPerhaps, ReleaseFact, Needs, Touches, StatementNames
  <2>2. ASSUME NEW k \in 1..3, NEW j \in Block(fn, "returning", k)
        PROVE  InOrder(fn, k, j, "returning")
    <3>1. ASSUME NEW k2 \in 1..3, NEW j2 \in Block(fn, "returning", k2),
                 k2 < k \/ (k2 = k /\ j2 > j)
          PROVE  Undisturbed(Release(fn, k, j), Release(fn, k2, j2))
      BY <1>1, <2>2, <3>1, SMTT(30) DEF Undisturbed, Needs
    <3> QED BY <2>2, <3>1, InOrderIf
  <2> QED BY <2>1, <2>2 DEF BlockFact
<1> QED BY <1>3, <1>4, <1>5, <1>6, <1>14, <1>10, <1>11,
          <1>12, <1>13 DEF FunctionFact

\* The body of inspectNamespaceAccess, and what it holds.
LEMMA InspectIs ==
  /\ "inspectNamespaceAccess" \in Fn /\ Code["inspectNamespaceAccess"] = InspectBody
       /\ Holds["inspectNamespaceAccess"] = InspectHolds
  /\ DOMAIN Code["inspectNamespaceAccess"] = 1..2
       /\ Len(Code["inspectNamespaceAccess"]) = 2 /\ End("inspectNamespaceAccess") = 3
BY DEF Code, Holds, InspectBody, End, Fn

\* inspectNamespaceAccess keeps to the facts above.
LEMMA InspectFact ==
  FunctionFact("inspectNamespaceAccess")
<1> USE InspectIs DEF InspectBody, CallIfAsked
<1>1. ASSUME NEW m, NEW k \in 1..2
      PROVE  Block("inspectNamespaceAccess", m, k) = {}
  BY DEF Block, RunsIn
<1>3. ASSUME NEW pc \in 1..2
      PROVE  ForwardFact("inspectNamespaceAccess", pc)
  BY SMTT(30), <1>3 DEF ForwardFact, InspectHolds
<1>4. ASSUME NEW pc \in 1..2
      PROVE  PerhapsFact("inspectNamespaceAccess", pc)
  BY SMTT(30), <1>4 DEF PerhapsFact, Perhaps
<1>5. ASSUME NEW pc \in 1..2
      PROVE  FreeFact("inspectNamespaceAccess", pc)
  BY SMTT(30), <1>5 DEF FreeFact, ReleaseFact, Needs, Touches, StatementNames, Perhaps,
                        InspectHolds
<1>6. ASSUME NEW pc \in 1..2
      PROVE  AcquireFact("inspectNamespaceAccess", pc) /\ OpFact("inspectNamespaceAccess", pc)
  BY SMTT(30), <1>6 DEF AcquireFact, OpFact, Needs, Touches, StatementNames, InspectHolds
<1>7. ASSUME NEW pc \in 1..2, IsCall(Code["inspectNamespaceAccess"][pc])
      PROVE  \/ pc = 1 /\ Code["inspectNamespaceAccess"][pc].name = "hasCatalogAccess"
             \/ pc = 2 /\ Code["inspectNamespaceAccess"][pc].name = "hasNamespaceAccess"
  BY <1>7 DEF IsCall
<1>8. ASSUME NEW pc \in 1..2, Fallible(Code["inspectNamespaceAccess"][pc])
      PROVE  pc \in {1, 2}
  BY <1>8 DEF Fallible
<1>9. ASSUME NEW pc \in 1..3, Leaves("inspectNamespaceAccess", pc)
      PROVE  pc = 3
  BY <1>9 DEF Leaves
<1> HIDE DEF InspectBody, CallIfAsked
<1>14. ASSUME NEW pc \in 1..2
       PROVE  CallFact("inspectNamespaceAccess", pc)
  BY SMTT(60), <1>7, AccessIs DEF CallFact, Takes, Gives, GivesPerhaps, Touches,
                                  StatementNames, Perhaps, InspectHolds, AccessHolds
<1>10. ASSUME NEW pc \in 1..2
      PROVE  FailFact("inspectNamespaceAccess", pc)
  <2> SUFFICES ASSUME Fallible(Code["inspectNamespaceAccess"][pc])
               PROVE  WayBack("inspectNamespaceAccess", pc, "failing",
                        Takes("inspectNamespaceAccess"), {"array"})
    BY <1>10 DEF FailFact
  <2>1. ASSUME NEW k \in 1..2, NEW j \in Block("inspectNamespaceAccess", "failing", k),
               k < pc, Release("inspectNamespaceAccess", k, j).op = "free"
        PROVE  Release("inspectNamespaceAccess", k, j).what
                 \in Holds["inspectNamespaceAccess"][pc]
    BY <1>1, <2>1
  <2>2. AllFound("inspectNamespaceAccess", pc, 0, "failing",
          Holds["inspectNamespaceAccess"][pc])
    BY <2>1 DEF AllFound, Remaining
  <2>3. Takes("inspectNamespaceAccess") \subseteq Holds["inspectNamespaceAccess"][pc]
    BY <1>8 DEF Takes, InspectHolds
  <2>4. ASSUME NEW x \in Holds["inspectNamespaceAccess"][pc]
                 \cup Perhaps("inspectNamespaceAccess", pc)
        PROVE  x \in Takes("inspectNamespaceAccess") \cup {"array"}
    BY <2>4, <1>8 DEF Takes, InspectHolds, Perhaps
  <2> QED BY <2>2, <2>3, <2>4 DEF WayBack
<1>11. ASSUME NEW pc \in 1..3
      PROVE  ReturnFact("inspectNamespaceAccess", pc)
  <2> SUFFICES ASSUME Leaves("inspectNamespaceAccess", pc)
               PROVE  WayBack("inspectNamespaceAccess", pc, "returning",
                        Gives("inspectNamespaceAccess"), GivesPerhaps("inspectNamespaceAccess"))
    BY <1>11 DEF ReturnFact
  <2>1. ASSUME NEW k \in 1..2, NEW j \in Block("inspectNamespaceAccess", "returning", k),
               k < pc, Release("inspectNamespaceAccess", k, j).op = "free"
        PROVE  Release("inspectNamespaceAccess", k, j).what
                 \in Holds["inspectNamespaceAccess"][pc]
    BY <1>1, <2>1
  <2>2. AllFound("inspectNamespaceAccess", pc, 0, "returning",
          Holds["inspectNamespaceAccess"][pc])
    BY <2>1 DEF AllFound, Remaining
  <2>3. Gives("inspectNamespaceAccess") \subseteq Holds["inspectNamespaceAccess"][pc]
    BY <1>9 DEF Gives, InspectHolds
  <2>4. ASSUME NEW x \in Holds["inspectNamespaceAccess"][pc]
                 \cup Perhaps("inspectNamespaceAccess", pc)
        PROVE  x \in Gives("inspectNamespaceAccess") \cup GivesPerhaps("inspectNamespaceAccess")
    BY <2>4, <1>9 DEF Gives, GivesPerhaps, InspectHolds, Perhaps
  <2> QED BY <2>2, <2>3, <2>4 DEF WayBack
<1>12. BlockFact("inspectNamespaceAccess", "failing", Takes("inspectNamespaceAccess"),
         {"array"})
  BY <1>1 DEF BlockFact
<1>13. BlockFact("inspectNamespaceAccess", "returning", Gives("inspectNamespaceAccess"),
         GivesPerhaps("inspectNamespaceAccess"))
  BY <1>1 DEF BlockFact
<1> QED BY <1>3, <1>4, <1>5, <1>6, <1>14, <1>10, <1>11,
          <1>12, <1>13 DEF FunctionFact

\* The body of getCatalogs, and what it holds.
LEMMA MetadataIs ==
  /\ "getCatalogs" \in Fn /\ Code["getCatalogs"] = MetadataBody
       /\ Holds["getCatalogs"] = MetadataHolds
  /\ DOMAIN Code["getCatalogs"] = 1..3 /\ Len(Code["getCatalogs"]) = 3 /\ End("getCatalogs") = 4
BY DEF Code, Holds, MetadataBody, End, Fn

\* getCatalogs keeps to the facts above.
LEMMA MetadataFact ==
  FunctionFact("getCatalogs")
<1>1. ASSUME NEW m, NEW k \in 1..3, NEW j \in Block("getCatalogs", m, k)
      PROVE  \/ k = 2 /\ j = 1 /\ Release("getCatalogs", k, j) = Free("sql")
  <2>1. RunsIn(m, Code["getCatalogs"][k]) /\ j \in 1..Len(Code["getCatalogs"][k].block)
    BY <1>1 DEF Block
  <2>2. k = 2
    BY SMTT(30), <2>1, MetadataIs DEF RunsIn, MetadataBody, Call, Defer, Free, Acquire
  <2>3. CASE k = 2
    <3>1. MetadataBody[2] = Defer(<<Free("sql")>>)
      BY DEF MetadataBody
    <3>2. Len(Code["getCatalogs"][2].block) = 1 /\ Release("getCatalogs", 2, 1) = Free("sql")
      BY <3>1, MetadataIs DEF Release, Defer
    <3> QED BY <2>1, <2>2, <2>3, <3>2
  <2> QED BY <2>2, <2>3
<1> USE MetadataIs DEF MetadataBody, Call, Defer, Free, Acquire
<1>2. ASSUME NEW pc \in 1..4, NEW m
      PROVE  /\ pc > 2 => IsReleased("getCatalogs", pc, 0, m, "sql")
  <2>1. pc > 2 =>
         /\ 2 \in DOMAIN Code["getCatalogs"] /\ 1 \in Remaining("getCatalogs", pc, 0, m, 2)
         /\ Release("getCatalogs", 2, 1).what = "sql"
    BY SMTT(30) DEF Remaining, Block, RunsIn, Release
  <2> QED BY <2>1 DEF IsReleased
<1>3. ASSUME NEW pc \in 1..3
      PROVE  ForwardFact("getCatalogs", pc)
  BY SMTT(30), <1>3 DEF ForwardFact, MetadataHolds
<1>4. ASSUME NEW pc \in 1..3
      PROVE  PerhapsFact("getCatalogs", pc)
  BY SMTT(30), <1>4 DEF PerhapsFact, Perhaps
<1>5. ASSUME NEW pc \in 1..3
      PROVE  FreeFact("getCatalogs", pc)
  BY SMTT(30), <1>5 DEF FreeFact, ReleaseFact, Needs, Touches, StatementNames, Perhaps,
                        MetadataHolds
<1>6. ASSUME NEW pc \in 1..3
      PROVE  AcquireFact("getCatalogs", pc) /\ OpFact("getCatalogs", pc)
  BY SMTT(30), <1>6 DEF AcquireFact, OpFact, Needs, Touches, StatementNames, MetadataHolds
<1>7. ASSUME NEW pc \in 1..3, IsCall(Code["getCatalogs"][pc])
      PROVE  pc = 3 /\ Code["getCatalogs"][pc].name = "execute"
  BY <1>7 DEF IsCall
<1>8. ASSUME NEW pc \in 1..3, Fallible(Code["getCatalogs"][pc])
      PROVE  pc \in {1, 3}
  BY <1>8 DEF Fallible
<1>9. ASSUME NEW pc \in 1..4, Leaves("getCatalogs", pc)
      PROVE  pc = 4
  BY <1>9 DEF Leaves
<1> HIDE DEF MetadataBody, Call, Defer, Acquire
<1>14. ASSUME NEW pc \in 1..3
       PROVE  CallFact("getCatalogs", pc)
  BY SMTT(60), <1>7, ExecuteIs DEF CallFact, Takes, Gives, GivesPerhaps, Touches,
                                   StatementNames, Perhaps, MetadataHolds, ExecuteHolds
<1>10. ASSUME NEW pc \in 1..3
      PROVE  FailFact("getCatalogs", pc)
  <2> SUFFICES ASSUME Fallible(Code["getCatalogs"][pc])
               PROVE  WayBack("getCatalogs", pc, "failing", Takes("getCatalogs"), {"array"})
    BY <1>10 DEF FailFact
  <2>1. ASSUME NEW k \in 1..3, NEW j \in Block("getCatalogs", "failing", k),
               k < pc, Release("getCatalogs", k, j).op = "free"
        PROVE  Release("getCatalogs", k, j).what \in Holds["getCatalogs"][pc]
    BY <1>1, <2>1, <1>8, SMTT(30) DEF MetadataHolds
  <2>2. AllFound("getCatalogs", pc, 0, "failing", Holds["getCatalogs"][pc])
    BY <2>1 DEF AllFound, Remaining
  <2>3. Takes("getCatalogs") \subseteq Holds["getCatalogs"][pc]
    BY <1>8 DEF Takes, MetadataHolds
  <2>4. ASSUME NEW x \in Holds["getCatalogs"][pc] \cup Perhaps("getCatalogs", pc)
        PROVE  \/ x \in Takes("getCatalogs") \cup {"array"}
               \/ x = "sql" /\ pc > 2
    BY <2>4, <1>8 DEF Takes, MetadataHolds, Perhaps
  <2> QED BY <2>2, <2>3, <2>4, <1>2 DEF WayBack
<1>11. ASSUME NEW pc \in 1..4
      PROVE  ReturnFact("getCatalogs", pc)
  <2> SUFFICES ASSUME Leaves("getCatalogs", pc)
               PROVE  WayBack("getCatalogs", pc, "returning", Gives("getCatalogs"),
                        GivesPerhaps("getCatalogs"))
    BY <1>11 DEF ReturnFact
  <2>1. ASSUME NEW k \in 1..3, NEW j \in Block("getCatalogs", "returning", k),
               k < pc, Release("getCatalogs", k, j).op = "free"
        PROVE  Release("getCatalogs", k, j).what \in Holds["getCatalogs"][pc]
    BY <1>1, <2>1, <1>9, SMTT(30) DEF MetadataHolds
  <2>2. AllFound("getCatalogs", pc, 0, "returning", Holds["getCatalogs"][pc])
    BY <2>1 DEF AllFound, Remaining
  <2>3. Gives("getCatalogs") \subseteq Holds["getCatalogs"][pc]
    BY <1>9 DEF Gives, MetadataHolds
  <2>4. ASSUME NEW x \in Holds["getCatalogs"][pc] \cup Perhaps("getCatalogs", pc)
        PROVE  \/ x \in Gives("getCatalogs") \cup GivesPerhaps("getCatalogs")
               \/ x = "sql" /\ pc > 2
    BY <2>4, <1>9 DEF Gives, GivesPerhaps, MetadataHolds, Perhaps
  <2> QED BY <2>2, <2>3, <2>4, <1>2 DEF WayBack
<1>12. BlockFact("getCatalogs", "failing", Takes("getCatalogs"), {"array"})
  <2>1. ASSUME NEW k \in 1..3, NEW j \in Block("getCatalogs", "failing", k)
        PROVE  /\ Release("getCatalogs", k, j).what \notin Takes("getCatalogs")
               /\ Release("getCatalogs", k, j).op \in {"free", "free_if_held"}
               /\ ReleaseFact("getCatalogs", Release("getCatalogs", k, j).what,
                    Takes("getCatalogs") \cup {"array"})
    BY <1>1, <2>1, SMTT(30) DEF Takes, MetadataHolds, ReleaseFact, Needs, Touches,
                                StatementNames
  <2>2. ASSUME NEW k \in 1..3, NEW j \in Block("getCatalogs", "failing", k)
        PROVE  InOrder("getCatalogs", k, j, "failing")
    <3>1. ASSUME NEW k2 \in 1..3, NEW j2 \in Block("getCatalogs", "failing", k2),
                 k2 < k \/ (k2 = k /\ j2 > j)
          PROVE  Undisturbed(Release("getCatalogs", k, j), Release("getCatalogs", k2, j2))
      BY <1>1, <2>2, <3>1, SMTT(30) DEF Undisturbed, Needs
    <3> QED BY <2>2, <3>1, InOrderIf
  <2> QED BY <2>1, <2>2 DEF BlockFact
<1>13. BlockFact("getCatalogs", "returning", Gives("getCatalogs"), GivesPerhaps("getCatalogs"))
  <2>1. ASSUME NEW k \in 1..3, NEW j \in Block("getCatalogs", "returning", k)
        PROVE  /\ Release("getCatalogs", k, j).what \notin Gives("getCatalogs")
               /\ Release("getCatalogs", k, j).op \in {"free", "free_if_held"}
               /\ ReleaseFact("getCatalogs", Release("getCatalogs", k, j).what,
                    Gives("getCatalogs") \cup GivesPerhaps("getCatalogs"))
    BY <1>1, <2>1, SMTT(30) DEF Gives, GivesPerhaps, ReleaseFact, Needs, Touches, StatementNames
  <2>2. ASSUME NEW k \in 1..3, NEW j \in Block("getCatalogs", "returning", k)
        PROVE  InOrder("getCatalogs", k, j, "returning")
    <3>1. ASSUME NEW k2 \in 1..3, NEW j2 \in Block("getCatalogs", "returning", k2),
                 k2 < k \/ (k2 = k /\ j2 > j)
          PROVE  Undisturbed(Release("getCatalogs", k, j), Release("getCatalogs", k2, j2))
      BY <1>1, <2>2, <3>1, SMTT(30) DEF Undisturbed, Needs
    <3> QED BY <2>2, <3>1, InOrderIf
  <2> QED BY <2>1, <2>2 DEF BlockFact
<1> QED BY <1>3, <1>4, <1>5, <1>6, <1>14, <1>10, <1>11,
          <1>12, <1>13 DEF FunctionFact

\* The body of appendTableQualifiedNames, and what it holds.
LEMMA AppendIs ==
  /\ "appendTableQualifiedNames" \in Fn
       /\ Code["appendTableQualifiedNames"] = AppendTableQualifiedNames
       /\ Holds["appendTableQualifiedNames"] = AppendHolds
  /\ DOMAIN Code["appendTableQualifiedNames"] = 1..11
       /\ Len(Code["appendTableQualifiedNames"]) = 11 /\ End("appendTableQualifiedNames") = 12
BY DEF Code, Holds, AppendTableQualifiedNames, End, Fn

\* appendTableQualifiedNames keeps to the facts above.
LEMMA AppendFact ==
  FunctionFact("appendTableQualifiedNames")
<1>1. ASSUME NEW m, NEW k \in 1..11, NEW j \in Block("appendTableQualifiedNames", m, k)
      PROVE  \/ k = 3 /\ j = 1 /\ Release("appendTableQualifiedNames", k,
                  j) = Free("new_columns") /\ m = "failing"
             \/ k = 6 /\ j = 1 /\ Release("appendTableQualifiedNames", k,
                  j) = Free("new_rows") /\ m = "failing"
  <2>1. RunsIn(m, Code["appendTableQualifiedNames"][k]) /\ j
          \in 1..Len(Code["appendTableQualifiedNames"][k].block)
    BY <1>1 DEF Block
  <2>2. k \in {3, 6} /\ m = "failing"
    BY SMTT(30), <2>1, AppendIs DEF RunsIn, AppendTableQualifiedNames, Leave, Acquire, ErrDefer,
                                    Free, Check, Adopt
  <2>3. CASE k = 3
    <3>1. AppendTableQualifiedNames[3] = ErrDefer(<<Free("new_columns")>>)
      BY DEF AppendTableQualifiedNames
    <3>2. Len(Code["appendTableQualifiedNames"][3].block) = 1
            /\ Release("appendTableQualifiedNames", 3, 1) = Free("new_columns")
      BY <3>1, AppendIs DEF Release, ErrDefer
    <3> QED BY <2>1, <2>2, <2>3, <3>2
  <2>4. CASE k = 6
    <3>1. AppendTableQualifiedNames[6] = ErrDefer(<<Free("new_rows")>>)
      BY DEF AppendTableQualifiedNames
    <3>2. Len(Code["appendTableQualifiedNames"][6].block) = 1
            /\ Release("appendTableQualifiedNames", 6, 1) = Free("new_rows")
      BY <3>1, AppendIs DEF Release, ErrDefer
    <3> QED BY <2>1, <2>2, <2>4, <3>2
  <2> QED BY <2>2, <2>3, <2>4
<1> USE AppendIs DEF AppendTableQualifiedNames, Leave, Acquire, ErrDefer, Free, Check, Adopt
<1>2. ASSUME NEW pc \in 1..12, NEW m
      PROVE  /\ pc > 3 /\ m = "failing" =>
                  IsReleased("appendTableQualifiedNames", pc, 0, m, "new_columns")
             /\ pc > 6 /\ m = "failing" =>
                  IsReleased("appendTableQualifiedNames", pc, 0, m, "new_rows")
  <2>1. pc > 3 /\ m = "failing" =>
         /\ 3 \in DOMAIN Code["appendTableQualifiedNames"] /\ 1
              \in Remaining("appendTableQualifiedNames", pc, 0, m, 3)
         /\ Release("appendTableQualifiedNames", 3, 1).what = "new_columns"
    BY SMTT(30) DEF Remaining, Block, RunsIn, Release
  <2>2. pc > 6 /\ m = "failing" =>
         /\ 6 \in DOMAIN Code["appendTableQualifiedNames"] /\ 1
              \in Remaining("appendTableQualifiedNames", pc, 0, m, 6)
         /\ Release("appendTableQualifiedNames", 6, 1).what = "new_rows"
    BY SMTT(30) DEF Remaining, Block, RunsIn, Release
  <2> QED BY <2>1, <2>2 DEF IsReleased
<1>3. ASSUME NEW pc \in 1..11
      PROVE  ForwardFact("appendTableQualifiedNames", pc)
  BY SMTT(30), <1>3 DEF ForwardFact, AppendHolds
<1>4. ASSUME NEW pc \in 1..11
      PROVE  PerhapsFact("appendTableQualifiedNames", pc)
  BY SMTT(30), <1>4 DEF PerhapsFact, Perhaps
<1>5. ASSUME NEW pc \in 1..11
      PROVE  FreeFact("appendTableQualifiedNames", pc)
  BY SMTT(30), <1>5 DEF FreeFact, ReleaseFact, Needs, Touches, StatementNames, Perhaps,
                        AppendHolds
<1>6. ASSUME NEW pc \in 1..11
      PROVE  AcquireFact("appendTableQualifiedNames", pc)
               /\ OpFact("appendTableQualifiedNames", pc)
  BY SMTT(30), <1>6 DEF AcquireFact, OpFact, Needs, Touches, StatementNames, AppendHolds
<1>7. ASSUME NEW pc \in 1..11
      PROVE  CallFact("appendTableQualifiedNames", pc)
  BY <1>7 DEF CallFact, IsCall
<1>8. ASSUME NEW pc \in 1..11, Fallible(Code["appendTableQualifiedNames"][pc])
      PROVE  pc \in {2, 4, 5, 7}
  BY <1>8 DEF Fallible
<1>9. ASSUME NEW pc \in 1..12, Leaves("appendTableQualifiedNames", pc)
      PROVE  pc \in {1, 12}
  BY <1>9 DEF Leaves
<1> HIDE DEF AppendTableQualifiedNames, Leave, Acquire, ErrDefer, Check, Adopt
<1>10. ASSUME NEW pc \in 1..11
      PROVE  FailFact("appendTableQualifiedNames", pc)
  <2> SUFFICES ASSUME Fallible(Code["appendTableQualifiedNames"][pc])
               PROVE  WayBack("appendTableQualifiedNames", pc, "failing",
                        Takes("appendTableQualifiedNames"), {"array"})
    BY <1>10 DEF FailFact
  <2>1. ASSUME NEW k \in 1..11, NEW j \in Block("appendTableQualifiedNames", "failing", k),
               k < pc, Release("appendTableQualifiedNames", k, j).op = "free"
        PROVE  Release("appendTableQualifiedNames", k, j).what
                 \in Holds["appendTableQualifiedNames"][pc]
    BY <1>1, <2>1, <1>8, SMTT(30) DEF AppendHolds
  <2>2. AllFound("appendTableQualifiedNames", pc, 0, "failing",
          Holds["appendTableQualifiedNames"][pc])
    BY <2>1 DEF AllFound, Remaining
  <2>3. Takes("appendTableQualifiedNames") \subseteq Holds["appendTableQualifiedNames"][pc]
    BY <1>8 DEF Takes, AppendHolds
  <2>4. ASSUME NEW x \in Holds["appendTableQualifiedNames"][pc]
                 \cup Perhaps("appendTableQualifiedNames", pc)
        PROVE  \/ x \in Takes("appendTableQualifiedNames") \cup {"array"}
               \/ x = "new_columns" /\ pc > 3
               \/ x = "new_rows" /\ pc > 6
    BY <2>4, <1>8 DEF Takes, AppendHolds, Perhaps
  <2> QED BY <2>2, <2>3, <2>4, <1>2 DEF WayBack
<1>11. ASSUME NEW pc \in 1..12
      PROVE  ReturnFact("appendTableQualifiedNames", pc)
  <2> SUFFICES ASSUME Leaves("appendTableQualifiedNames", pc)
               PROVE  WayBack("appendTableQualifiedNames", pc, "returning",
                        Gives("appendTableQualifiedNames"),
                        GivesPerhaps("appendTableQualifiedNames"))
    BY <1>11 DEF ReturnFact
  <2>1. ASSUME NEW k \in 1..11, NEW j \in Block("appendTableQualifiedNames", "returning", k),
               k < pc, Release("appendTableQualifiedNames", k, j).op = "free"
        PROVE  Release("appendTableQualifiedNames", k, j).what
                 \in Holds["appendTableQualifiedNames"][pc]
    BY <1>1, <2>1, <1>9, SMTT(30) DEF AppendHolds
  <2>2. AllFound("appendTableQualifiedNames", pc, 0, "returning",
          Holds["appendTableQualifiedNames"][pc])
    BY <2>1 DEF AllFound, Remaining
  <2>3. Gives("appendTableQualifiedNames") \subseteq Holds["appendTableQualifiedNames"][pc]
    BY <1>9 DEF Gives, AppendHolds
  <2>4. ASSUME NEW x \in Holds["appendTableQualifiedNames"][pc]
                 \cup Perhaps("appendTableQualifiedNames", pc)
        PROVE  x \in Gives("appendTableQualifiedNames")
                 \cup GivesPerhaps("appendTableQualifiedNames")
    BY <2>4, <1>9 DEF Gives, GivesPerhaps, AppendHolds, Perhaps
  <2> QED BY <2>2, <2>3, <2>4 DEF WayBack
<1>12. BlockFact("appendTableQualifiedNames", "failing", Takes("appendTableQualifiedNames"),
         {"array"})
  <2>1. ASSUME NEW k \in 1..11, NEW j \in Block("appendTableQualifiedNames", "failing", k)
        PROVE  /\ Release("appendTableQualifiedNames", k,
                    j).what \notin Takes("appendTableQualifiedNames")
               /\ Release("appendTableQualifiedNames", k, j).op \in {"free", "free_if_held"}
               /\ ReleaseFact("appendTableQualifiedNames",
                    Release("appendTableQualifiedNames", k, j).what,
                    Takes("appendTableQualifiedNames") \cup {"array"})
    BY <1>1, <2>1, SMTT(30) DEF Takes, AppendHolds, ReleaseFact, Needs, Touches, StatementNames
  <2>2. ASSUME NEW k \in 1..11, NEW j \in Block("appendTableQualifiedNames", "failing", k)
        PROVE  InOrder("appendTableQualifiedNames", k, j, "failing")
    <3>1. ASSUME NEW k2 \in 1..11, NEW j2 \in Block("appendTableQualifiedNames", "failing", k2),
                 k2 < k \/ (k2 = k /\ j2 > j)
          PROVE  Undisturbed(Release("appendTableQualifiedNames", k, j),
                   Release("appendTableQualifiedNames", k2, j2))
      BY <1>1, <2>2, <3>1, SMTT(30) DEF Undisturbed, Needs
    <3> QED BY <2>2, <3>1, InOrderIf
  <2> QED BY <2>1, <2>2 DEF BlockFact
<1>13. BlockFact("appendTableQualifiedNames", "returning", Gives("appendTableQualifiedNames"),
         GivesPerhaps("appendTableQualifiedNames"))
  <2>1. ASSUME NEW k \in 1..11, NEW j \in Block("appendTableQualifiedNames", "returning", k)
        PROVE  /\ Release("appendTableQualifiedNames", k,
                    j).what \notin Gives("appendTableQualifiedNames")
               /\ Release("appendTableQualifiedNames", k, j).op \in {"free", "free_if_held"}
               /\ ReleaseFact("appendTableQualifiedNames",
                    Release("appendTableQualifiedNames", k, j).what,
                    Gives("appendTableQualifiedNames")
                    \cup GivesPerhaps("appendTableQualifiedNames"))
    BY <1>1, <2>1, SMTT(30) DEF Gives, GivesPerhaps, ReleaseFact, Needs, Touches, StatementNames
  <2>2. ASSUME NEW k \in 1..11, NEW j \in Block("appendTableQualifiedNames", "returning", k)
        PROVE  InOrder("appendTableQualifiedNames", k, j, "returning")
    <3>1. ASSUME NEW k2 \in 1..11, NEW j2
                   \in Block("appendTableQualifiedNames", "returning", k2),
                 k2 < k \/ (k2 = k /\ j2 > j)
          PROVE  Undisturbed(Release("appendTableQualifiedNames", k, j),
                   Release("appendTableQualifiedNames", k2, j2))
      BY <1>1, <2>2, <3>1, SMTT(30) DEF Undisturbed, Needs
    <3> QED BY <2>2, <3>1, InOrderIf
  <2> QED BY <2>1, <2>2 DEF BlockFact
<1> QED BY <1>3, <1>4, <1>5, <1>6, <1>7, <1>10, <1>11,
          <1>12, <1>13 DEF FunctionFact

\* The body of getTables, and what it holds.
LEMMA GetTablesIs ==
  /\ "getTables" \in Fn /\ Code["getTables"] = GetTablesBody
       /\ Holds["getTables"] = GetTablesHolds
  /\ DOMAIN Code["getTables"] = 1..5 /\ Len(Code["getTables"]) = 5 /\ End("getTables") = 6
BY DEF Code, Holds, GetTablesBody, End, Fn

\* getTables keeps to the facts above.
LEMMA GetTablesFact ==
  FunctionFact("getTables")
<1>1. ASSUME NEW m, NEW k \in 1..5, NEW j \in Block("getTables", m, k)
      PROVE  \/ k = 2 /\ j = 1 /\ Release("getTables", k, j) = Free("sql")
             \/ k = 4 /\ j = 1 /\ Release("getTables", k, j) = Free("rows") /\ m = "failing"
             \/ k = 4 /\ j = 2 /\ Release("getTables", k, j) = Free("columns") /\ m = "failing"
             \/ k = 4 /\ j = 3 /\ Release("getTables", k, j) = Free("result_set")
                  /\ m = "failing"
  <2>1. RunsIn(m, Code["getTables"][k]) /\ j \in 1..Len(Code["getTables"][k].block)
    BY <1>1 DEF Block
  <2>2. (k = 2) \/ (k = 4 /\ m = "failing")
    BY SMTT(30), <2>1, GetTablesIs DEF RunsIn, GetTablesBody, CloseResultSetBody, Call, Defer,
                                       ErrDefer, Free, Acquire
  <2>3. CASE k = 2
    <3>1. GetTablesBody[2] = Defer(<<Free("sql")>>)
      BY DEF GetTablesBody
    <3>2. Len(Code["getTables"][2].block) = 1 /\ Release("getTables", 2, 1) = Free("sql")
      BY <3>1, GetTablesIs DEF Release, Defer
    <3> QED BY <2>1, <2>2, <2>3, <3>2
  <2>4. CASE k = 4
    <3>1. GetTablesBody[4] = ErrDefer(CloseResultSetBody)
      BY DEF GetTablesBody
    <3>2. Len(Code["getTables"][4].block) = 3 /\ Release("getTables", 4, 1) = Free("rows")
            /\ Release("getTables", 4, 2) = Free("columns")
            /\ Release("getTables", 4, 3) = Free("result_set")
      BY <3>1, GetTablesIs DEF Release, ErrDefer, CloseResultSetBody
    <3> QED BY <2>1, <2>2, <2>4, <3>2
  <2> QED BY <2>2, <2>3, <2>4
<1> USE GetTablesIs DEF GetTablesBody, CloseResultSetBody, Call, Defer, ErrDefer, Free,
                        Acquire
<1>2. ASSUME NEW pc \in 1..6, NEW m
      PROVE  /\ pc > 2 => IsReleased("getTables", pc, 0, m, "sql")
             /\ pc > 4 /\ m = "failing" => IsReleased("getTables", pc, 0, m, "rows")
             /\ pc > 4 /\ m = "failing" => IsReleased("getTables", pc, 0, m, "columns")
             /\ pc > 4 /\ m = "failing" => IsReleased("getTables", pc, 0, m, "result_set")
  <2>1. pc > 2 =>
         /\ 2 \in DOMAIN Code["getTables"] /\ 1 \in Remaining("getTables", pc, 0, m, 2)
         /\ Release("getTables", 2, 1).what = "sql"
    BY SMTT(30) DEF Remaining, Block, RunsIn, Release
  <2>2. pc > 4 /\ m = "failing" =>
         /\ 4 \in DOMAIN Code["getTables"] /\ 1 \in Remaining("getTables", pc, 0, m, 4)
         /\ Release("getTables", 4, 1).what = "rows"
    BY SMTT(30) DEF Remaining, Block, RunsIn, Release
  <2>3. pc > 4 /\ m = "failing" =>
         /\ 4 \in DOMAIN Code["getTables"] /\ 2 \in Remaining("getTables", pc, 0, m, 4)
         /\ Release("getTables", 4, 2).what = "columns"
    BY SMTT(30) DEF Remaining, Block, RunsIn, Release
  <2>4. pc > 4 /\ m = "failing" =>
         /\ 4 \in DOMAIN Code["getTables"] /\ 3 \in Remaining("getTables", pc, 0, m, 4)
         /\ Release("getTables", 4, 3).what = "result_set"
    BY SMTT(30) DEF Remaining, Block, RunsIn, Release
  <2> QED BY <2>1, <2>2, <2>3, <2>4 DEF IsReleased
<1>3. ASSUME NEW pc \in 1..5
      PROVE  ForwardFact("getTables", pc)
  BY SMTT(30), <1>3 DEF ForwardFact, GetTablesHolds
<1>4. ASSUME NEW pc \in 1..5
      PROVE  PerhapsFact("getTables", pc)
  BY SMTT(30), <1>4 DEF PerhapsFact, Perhaps
<1>5. ASSUME NEW pc \in 1..5
      PROVE  FreeFact("getTables", pc)
  BY SMTT(30), <1>5 DEF FreeFact, ReleaseFact, Needs, Touches, StatementNames, Perhaps,
                        GetTablesHolds
<1>6. ASSUME NEW pc \in 1..5
      PROVE  AcquireFact("getTables", pc) /\ OpFact("getTables", pc)
  BY SMTT(30), <1>6 DEF AcquireFact, OpFact, Needs, Touches, StatementNames, GetTablesHolds
<1>7. ASSUME NEW pc \in 1..5, IsCall(Code["getTables"][pc])
      PROVE  \/ pc = 3 /\ Code["getTables"][pc].name = "execute"
             \/ pc = 5 /\ Code["getTables"][pc].name = "appendTableQualifiedNames"
  BY <1>7 DEF IsCall
<1>8. ASSUME NEW pc \in 1..5, Fallible(Code["getTables"][pc])
      PROVE  pc \in {1, 3, 5}
  BY <1>8 DEF Fallible
<1>9. ASSUME NEW pc \in 1..6, Leaves("getTables", pc)
      PROVE  pc = 6
  BY <1>9 DEF Leaves
<1> HIDE DEF GetTablesBody, CloseResultSetBody, Call, Defer, ErrDefer, Acquire
<1>14. ASSUME NEW pc \in 1..5
       PROVE  CallFact("getTables", pc)
  BY SMTT(60), <1>7, ExecuteIs, AppendIs DEF CallFact, Takes, Gives, GivesPerhaps, Touches,
                                             StatementNames, Perhaps, GetTablesHolds,
                                             ExecuteHolds, AppendHolds
<1>10. ASSUME NEW pc \in 1..5
      PROVE  FailFact("getTables", pc)
  <2> SUFFICES ASSUME Fallible(Code["getTables"][pc])
               PROVE  WayBack("getTables", pc, "failing", Takes("getTables"), {"array"})
    BY <1>10 DEF FailFact
  <2>1. ASSUME NEW k \in 1..5, NEW j \in Block("getTables", "failing", k),
               k < pc, Release("getTables", k, j).op = "free"
        PROVE  Release("getTables", k, j).what \in Holds["getTables"][pc]
    BY <1>1, <2>1, <1>8, SMTT(30) DEF GetTablesHolds
  <2>2. AllFound("getTables", pc, 0, "failing", Holds["getTables"][pc])
    BY <2>1 DEF AllFound, Remaining
  <2>3. Takes("getTables") \subseteq Holds["getTables"][pc]
    BY <1>8 DEF Takes, GetTablesHolds
  <2>4. ASSUME NEW x \in Holds["getTables"][pc] \cup Perhaps("getTables", pc)
        PROVE  \/ x \in Takes("getTables") \cup {"array"}
               \/ x = "sql" /\ pc > 2
               \/ x = "rows" /\ pc > 4
               \/ x = "columns" /\ pc > 4
               \/ x = "result_set" /\ pc > 4
    BY <2>4, <1>8 DEF Takes, GetTablesHolds, Perhaps
  <2> QED BY <2>2, <2>3, <2>4, <1>2 DEF WayBack
<1>11. ASSUME NEW pc \in 1..6
      PROVE  ReturnFact("getTables", pc)
  <2> SUFFICES ASSUME Leaves("getTables", pc)
               PROVE  WayBack("getTables", pc, "returning", Gives("getTables"),
                        GivesPerhaps("getTables"))
    BY <1>11 DEF ReturnFact
  <2>1. ASSUME NEW k \in 1..5, NEW j \in Block("getTables", "returning", k),
               k < pc, Release("getTables", k, j).op = "free"
        PROVE  Release("getTables", k, j).what \in Holds["getTables"][pc]
    BY <1>1, <2>1, <1>9, SMTT(30) DEF GetTablesHolds
  <2>2. AllFound("getTables", pc, 0, "returning", Holds["getTables"][pc])
    BY <2>1 DEF AllFound, Remaining
  <2>3. Gives("getTables") \subseteq Holds["getTables"][pc]
    BY <1>9 DEF Gives, GetTablesHolds
  <2>4. ASSUME NEW x \in Holds["getTables"][pc] \cup Perhaps("getTables", pc)
        PROVE  \/ x \in Gives("getTables") \cup GivesPerhaps("getTables")
               \/ x = "sql" /\ pc > 2
    BY <2>4, <1>9 DEF Gives, GivesPerhaps, GetTablesHolds, Perhaps
  <2> QED BY <2>2, <2>3, <2>4, <1>2 DEF WayBack
<1>12. BlockFact("getTables", "failing", Takes("getTables"), {"array"})
  <2>1. ASSUME NEW k \in 1..5, NEW j \in Block("getTables", "failing", k)
        PROVE  /\ Release("getTables", k, j).what \notin Takes("getTables")
               /\ Release("getTables", k, j).op \in {"free", "free_if_held"}
               /\ ReleaseFact("getTables", Release("getTables", k, j).what,
                    Takes("getTables") \cup {"array"})
    BY <1>1, <2>1, SMTT(30) DEF Takes, GetTablesHolds, ReleaseFact, Needs, Touches,
                                StatementNames
  <2>2. ASSUME NEW k \in 1..5, NEW j \in Block("getTables", "failing", k)
        PROVE  InOrder("getTables", k, j, "failing")
    <3>1. ASSUME NEW k2 \in 1..5, NEW j2 \in Block("getTables", "failing", k2),
                 k2 < k \/ (k2 = k /\ j2 > j)
          PROVE  Undisturbed(Release("getTables", k, j), Release("getTables", k2, j2))
      BY <1>1, <2>2, <3>1, SMTT(30) DEF Undisturbed, Needs
    <3> QED BY <2>2, <3>1, InOrderIf
  <2> QED BY <2>1, <2>2 DEF BlockFact
<1>13. BlockFact("getTables", "returning", Gives("getTables"), GivesPerhaps("getTables"))
  <2>1. ASSUME NEW k \in 1..5, NEW j \in Block("getTables", "returning", k)
        PROVE  /\ Release("getTables", k, j).what \notin Gives("getTables")
               /\ Release("getTables", k, j).op \in {"free", "free_if_held"}
               /\ ReleaseFact("getTables", Release("getTables", k, j).what,
                    Gives("getTables") \cup GivesPerhaps("getTables"))
    BY <1>1, <2>1, SMTT(30) DEF Gives, GivesPerhaps, ReleaseFact, Needs, Touches, StatementNames
  <2>2. ASSUME NEW k \in 1..5, NEW j \in Block("getTables", "returning", k)
        PROVE  InOrder("getTables", k, j, "returning")
    <3>1. ASSUME NEW k2 \in 1..5, NEW j2 \in Block("getTables", "returning", k2),
                 k2 < k \/ (k2 = k /\ j2 > j)
          PROVE  Undisturbed(Release("getTables", k, j), Release("getTables", k2, j2))
      BY <1>1, <2>2, <3>1, SMTT(30) DEF Undisturbed, Needs
    <3> QED BY <2>2, <3>1, InOrderIf
  <2> QED BY <2>1, <2>2 DEF BlockFact
<1> QED BY <1>3, <1>4, <1>5, <1>6, <1>14, <1>10, <1>11,
          <1>12, <1>13 DEF FunctionFact

-----------------------------------------------------------------------------
(* The program as a whole *)

\* Every function of the program keeps to the facts above.
LEMMA ProgramFact == \A fn \in Fn : FunctionFact(fn)
<1>1. Fn = {"open", "close", "execute", "executeStatement", "closeResultSet", "openCursor",
            "closeCursor", "testConnection", "queryReturnsRows", "getTables",
            "appendTableQualifiedNames", "getCatalogs", "inspectNamespaceAccess",
            "hasCatalogAccess", "hasNamespaceAccess"}
  BY DEF Fn, Code
<1> QED
  BY <1>1, OpenFact, CloseFact, StatementFact, ExecuteFact, OpenCursorFact, CloseResultSetFact,
     CloseCursorFact, QueryFact, AccessFact, InspectFact, MetadataFact, AppendFact,
     GetTablesFact

\* Instructions are numbered from 1, and End is one after the last.
LEMMA Numbered ==
  ASSUME NEW fn \in Fn
  PROVE  /\ End(fn) \in Nat \ {0} /\ Len(Code[fn]) = End(fn) - 1
         /\ DOMAIN Code[fn] = 1..(End(fn) - 1)
<1>1. Fn = {"open", "close", "execute", "executeStatement", "closeResultSet", "openCursor",
            "closeCursor", "testConnection", "queryReturnsRows", "getTables",
            "appendTableQualifiedNames", "getCatalogs", "inspectNamespaceAccess",
            "hasCatalogAccess", "hasNamespaceAccess"}
  BY DEF Fn, Code
<1>2. \E n \in 1..17 : DOMAIN Code[fn] = 1..n /\ Len(Code[fn]) = n
  BY <1>1, OpenIs, CloseIs, StatementIs, ExecuteIs, OpenCursorIs, CloseResultSetIs,
     CloseCursorIs, QueryIs, AccessIs, InspectIs, MetadataIs, AppendIs, GetTablesIs
<1> QED BY <1>2 DEF End

-----------------------------------------------------------------------------
(* Frames *)

\* The innermost frame.
LEMMA TopIs ==
  ASSUME StackInv, frames # <<>>
  PROVE  /\ Len(frames) \in Nat \ {0} /\ Len(frames) \in DOMAIN frames
         /\ DOMAIN frames = 1..Len(frames)
         /\ Top \in Frames /\ Top.fn \in Fn /\ Top.pc \in Nat /\ Top.step \in Nat
         /\ Top.pc \in 1..End(Top.fn) /\ FunctionFact(Top.fn)
         /\ Top.pc < End(Top.fn) => Top.pc \in DOMAIN Code[Top.fn]
         /\ AtEnd <=> Top.pc = End(Top.fn)
<1>1. Len(frames) \in Nat \ {0} /\ DOMAIN frames = 1..Len(frames) /\ Top \in Frames
  BY DEF StackInv, Top
<1>2. Top.fn \in Fn /\ Top.pc \in Nat /\ Top.step \in Nat
  BY <1>1 DEF Frames
<1>3. Top.pc \in 1..End(Top.fn)
  BY <1>1 DEF StackInv, Top
<1> QED BY <1>1, <1>2, <1>3, Numbered, ProgramFact DEF AtEnd

\* A step that changes only the innermost frame and takes no name the callers keep.
LEMMA Moves ==
  ASSUME StackInv, frames # <<>>,
         NEW f \in Frames, f.fn = Top.fn, f.pc \in 1..End(f.fn),
         frames' = [frames EXCEPT ![Len(frames)] = f],
         \A x \in OwnNames : x \in OwnNames' \/ x \in Touches(Top.fn)
  PROVE  /\ StackInv' /\ frames' # <<>> /\ Top' = f /\ Kept' = Kept
         /\ frames'[1].fn = frames[1].fn /\ Len(frames') = Len(frames)
<1> DEFINE n == Len(frames)
<1>1. n \in Nat \ {0} /\ DOMAIN frames = 1..n /\ frames \in Seq(Frames)
  BY TopIs DEF StackInv
<1>2. frames' \in Seq(Frames) /\ Len(frames') = n /\ frames'[n] = f
  BY <1>1
<1>3. \A i \in 1..n : /\ i # n => frames'[i] = frames[i]
                      /\ frames'[i].fn = frames[i].fn
  BY <1>1, <1>2 DEF Top
<1>4. Top' = f /\ frames' # <<>>
  BY <1>1, <1>2 DEF Top
<1>5. \A i \in 1..(n - 1) : frames'[i] = frames[i] /\ frames'[i + 1].fn = frames[i + 1].fn
  <2>1. n \in Nat \ {0}
    BY <1>1
  <2>2. \A i \in 1..(n - 1) : i \in 1..n /\ i # n /\ i + 1 \in 1..n
    <3> HIDE DEF n
    <3> QED BY <2>1
  <2> QED BY <1>3, <2>2
<1>6. Kept' = Kept
  <2>1. Kept' = UNION {Keeps(frames'[i]) : i \in 1..(n - 1)}
    BY <1>2 DEF Kept, Keeps, Calling
  <2>2. \A i \in 1..(n - 1) : Keeps(frames'[i]) = Keeps(frames[i])
    BY <1>5
  <2> QED BY <2>1, <2>2 DEF Kept
<1>7. \A i \in 1..n : frames'[i].pc \in 1..End(frames'[i].fn)
  BY <1>1, <1>2, <1>3 DEF StackInv
<1>8. \A i \in 1..(n - 1) :
        /\ frames'[i].pc > 1 /\ frames'[i].step = 0
        /\ IsCall(Calling(frames'[i])) /\ Calling(frames'[i]).name = frames'[i + 1].fn
  BY <1>5 DEF StackInv
<1>9. ASSUME NEW i \in 1..(n - 1)
      PROVE  Keeps(frames'[i]) \subseteq OwnNames'
  <2>1. n \in 1..n /\ i \in 1..(n - 1)
    BY <1>1
  <2>2. Keeps(frames[i]) \subseteq OwnNames /\ Keeps(frames[i]) \cap Touches(Top.fn) = {}
    BY <2>1 DEF StackInv, Top
  <2> QED BY <2>2, <1>5
<1>10. \A j \in 1..n : \A i \in 1..(j - 1) : Keeps(frames'[i]) \cap Touches(frames'[j].fn) = {}
  <2> SUFFICES ASSUME NEW j \in 1..n, NEW i \in 1..(j - 1)
               PROVE  Keeps(frames'[i]) \cap Touches(frames'[j].fn) = {}
    OBVIOUS
  <2>1. i \in 1..(n - 1)
    BY <1>1
  <2> QED BY <1>3, <1>5, <2>1 DEF StackInv
<1>11. StackInv'
  BY <1>2, <1>7, <1>8, <1>9, <1>10 DEF StackInv
<1>12. frames'[1].fn = frames[1].fn
  <2>1. 1 \in 1..n
    BY <1>1
  <2> QED BY <1>3, <2>1
<1> QED BY <1>2, <1>4, <1>6, <1>11, <1>12

\* The innermost function touches nothing its callers keep.
LEMMA KeptIsNotTouched ==
  ASSUME StackInv, frames # <<>>
  PROVE  Kept \cap Touches(Top.fn) = {} /\ Kept \subseteq OwnNames
<1>1. Len(frames) \in 1..Len(frames) /\ Len(frames) \in Nat
  BY TopIs
<1>2. \A i \in 1..(Len(frames) - 1) :
        Keeps(frames[i]) \cap Touches(Top.fn) = {} /\ Keeps(frames[i]) \subseteq OwnNames
  BY <1>1 DEF StackInv, Top
<1> QED BY <1>2 DEF Kept

\* open and the functions that close call none and are called by none.
LEMMA AloneOnTheStack ==
  ASSUME StackInv, frames # <<>>,
         NEW alone, alone = {"open", "close", "closeResultSet", "closeCursor"}
  PROVE  /\ Top.fn \in alone => Len(frames) = 1 /\ Top = frames[1]
         /\ frames[1].fn \in alone => Len(frames) = 1 /\ Top = frames[1]
<1> DEFINE n == Len(frames)
<1>1. n \in Nat \ {0} /\ \A i \in 1..n : frames[i] \in Frames
  BY TopIs DEF StackInv
<1>2. ASSUME NEW i \in 1..(n - 1)
      PROVE  frames[i].fn \notin alone /\ frames[i + 1].fn \notin alone
  <2>1. frames[i].fn \in Fn /\ frames[i].pc \in Nat /\ frames[i].pc \in 1..End(frames[i].fn)
        /\ frames[i].pc > 1
    <3>1. i \in 1..n
      BY <1>1
    <3> QED BY <1>1, <3>1 DEF StackInv, Frames
  <2>2. frames[i].pc - 1 \in DOMAIN Code[frames[i].fn]
    BY <2>1, Numbered
  <2>3. CallFact(frames[i].fn, frames[i].pc - 1)
    BY <2>1, <2>2, ProgramFact DEF FunctionFact
  <2>4. IsCall(Calling(frames[i])) /\ Calling(frames[i]).name = frames[i + 1].fn
    BY DEF StackInv
  <2> QED BY <2>3, <2>4 DEF CallFact, Calling
<1>3. n # 1 => frames[1].fn \notin alone /\ frames[n].fn \notin alone
  <2> SUFFICES ASSUME n # 1 PROVE frames[1].fn \notin alone /\ frames[n].fn \notin alone
    OBVIOUS
  <2>1. 1 \in 1..(n - 1) /\ n - 1 \in 1..(n - 1) /\ (n - 1) + 1 = n
    <3> HIDE DEF n
    <3> QED BY <1>1
  <2> QED BY <1>2, <2>1
<1> QED BY <1>3 DEF Top

-----------------------------------------------------------------------------
(* What is held *)

\* A resource more of the call under way is a name more.
LEMMA Gains ==
  ASSUME NEW w, held' = held \cup {Mine(w)}, call' = call
  PROVE  OwnNames' = OwnNames \cup {w} /\ (held \ Ours)' = held \ Ours
<1>1. Mine(w).what = w /\ Mine(w).call = call.number
  BY DEF Mine
<1>2. Ours' = Ours \cup {Mine(w)}
  BY <1>1 DEF Ours
<1> QED BY <1>1, <1>2 DEF OwnNames, Ours

\* A resource less is a name less.
LEMMA Loses ==
  ASSUME OthersInv, CallInv, ~Idle, NEW w, held' = held \ {Mine(w)}, call' = call
  PROVE  OwnNames' = OwnNames \ {w} /\ (held \ Ours)' = held \ Ours
<1>1. Mine(w).what = w /\ Mine(w).call = call.number
  BY DEF Mine
<1>2. \A r \in Ours : r.what = w => r = Mine(w)
  BY DEF OthersInv, CallInv, Ours, IsRecord, Mine
<1>3. Ours' = Ours \ {Mine(w)}
  BY DEF Ours
<1>4. OwnNames' = OwnNames \ {w}
  BY <1>1, <1>2, <1>3 DEF OwnNames
<1> QED BY <1>1, <1>3, <1>4 DEF Ours

\* What the call under way does to its own resources leaves those of the others alone.
LEMMA OthersStay ==
  ASSUME OthersInv, CallInv, ~Idle, UNCHANGED <<handles, calls, call>>,
         \A r \in held' : r \in held \/ \E w : r = Mine(w),
         \A r \in held : r \in held' \/ r.call = call.number
  PROVE  OthersInv' /\ (~Idle)' /\ \A r \in Ours' : r.by = call.by
<1>1. \A r \in held' : /\ IsRecord(r) /\ r.call \in 1..calls
                       /\ r.call = call.number => r.by = call.by
                       /\ r.call # call.number => r \in held
  BY DEF OthersInv, CallInv, Mine, IsRecord, Ours
<1>2. \A h \in handles : h.call # call.number
  BY DEF CallInv
<1>3. \A r, s \in held' \cup handles' : r.call = s.call => r.by = s.by
  BY <1>1, <1>2 DEF OthersInv
<1>4. ASSUME NEW h \in handles'
      PROVE  /\ \A what \in Complete(h.what) : [h EXCEPT !.what = what] \in held'
             /\ \A r \in held' : r.call = h.call =>
                  r.what \in Parts(h) \/ (h.what = "cursor" /\ r.what = "rows")
  <2>1. h \in handles /\ h.call # call.number /\ IsRecord(h)
    BY <1>2 DEF OthersInv
  <2>2. \A what : [h EXCEPT !.what = what].call = h.call
    BY <2>1 DEF IsRecord
  <2>3. ASSUME NEW what \in Complete(h.what)
        PROVE  [h EXCEPT !.what = what] \in held'
    <3> DEFINE r == [h EXCEPT !.what = what]
    <3>1. r \in held /\ r.call = h.call
      BY <2>1, <2>2 DEF OthersInv
    <3> HIDE DEF r
    <3>2. r \in held'
      BY <2>1, <3>1
    <3> QED BY <3>2 DEF r
  <2>4. \A r \in held' : r.call = h.call =>
          r.what \in Parts(h) \/ (h.what = "cursor" /\ r.what = "rows")
    BY <1>1, <2>1 DEF OthersInv
  <2> QED BY <2>3, <2>4
<1>5. held' \ Ours' \subseteq held \ Ours
  BY <1>1 DEF Ours
<1>6. OthersInv'
  BY <1>1, <1>3, <1>4, <1>5 DEF OthersInv, Connections, Complete, Parts
<1> QED BY <1>1, <1>6 DEF Idle, Ours

\* While a connection is opened or closed no handle is open; otherwise one of a connection is.
LEMMA HandlesUnder ==
  ASSUME StackInv, EntryInv, frames # <<>>
  PROVE  IF Top.fn \in {"open", "close"} THEN handles = {} ELSE Connections # {}
BY AloneOnTheStack DEF EntryInv

\* An open connection lends what it consists of.
LEMMA Lent ==
  ASSUME OthersInv, Connections # {}, NEW w \in {"connection", "manager_lib"}
  PROVE  \E s \in held : s.what = w
<1>1. PICK h \in handles : h.what = "handle"
  BY DEF Connections
<1>2. w \in Complete(h.what)
  BY <1>1 DEF Complete
<1>3. [h EXCEPT !.what = w] \in held /\ IsRecord(h)
  BY <1>2 DEF OthersInv
<1>4. [h EXCEPT !.what = w].what = w
  BY <1>3 DEF IsRecord
<1> QED BY <1>3, <1>4

\* What has all it needs may be added.
LEMMA NeedsAfterGain ==
  ASSUME NeedsAreHeld, NEW w, held' = held \cup {Mine(w)},
         \A n \in Needs(w) : \E s \in held : s.what = n
  PROVE  NeedsAreHeld'
BY DEF NeedsAreHeld, Mine

\* What nobody needs may go.
LEMMA NeedsAfterLoss ==
  ASSUME NeedsAreHeld, NEW w, held' = held \ {Mine(w)},
         \A r \in held' : w \notin Needs(r.what)
  PROVE  NeedsAreHeld'
<1> SUFFICES ASSUME NEW r \in held', NEW n \in Needs(r.what)
             PROVE  \E s \in held' : s.what = n
  BY DEF NeedsAreHeld
<1>1. PICK s \in held : s.what = n
  BY DEF NeedsAreHeld
<1>2. n # w /\ Mine(w).what = w
  BY DEF Mine
<1> QED BY <1>1, <1>2

\* A release of the innermost function takes nothing from the other calls' resources.
LEMMA OthersDoNotNeed ==
  ASSUME OthersInv, StackInv, EntryInv, frames # <<>>,
         NEW w, NEW stays, ReleaseFact(Top.fn, w, stays), NEW r \in held \ Ours
  PROVE  w \notin Needs(r.what)
<1>1. CASE r.what = "array" \/ r.what = "rows"
  BY <1>1 DEF Needs
<1>2. CASE \E h \in handles : h.call = r.call /\ r.what \in Parts(h)
  <2>1. PICK h \in handles : r.what \in Parts(h)
    BY <1>2
  <2>2. w \notin {"context", "manager_lib", "database", "connection"}
    BY <2>1, HandlesUnder DEF ReleaseFact
  <2>3. h.what \in {"handle", "result_set", "cursor"}
    BY <2>1 DEF OthersInv
  <2>4. r.what \in {"handle", "context", "manager_lib", "dependency", "database", "connection",
                    "result_set", "columns", "rows", "cursor"}
    BY <2>1, <2>3 DEF Parts
  <2> QED BY <2>2, <2>4 DEF Needs
<1> QED BY <1>1, <1>2 DEF OthersInv

\* So everything still has what it needs if the names that remain do not need what goes.
LEMMA NeedsAfterRelease ==
  ASSUME OthersInv, CallInv, ~Idle, StackInv, EntryInv, NeedsAreHeld, frames # <<>>,
         NEW w, NEW stays, ReleaseFact(Top.fn, w, stays),
         held' = held \ {Mine(w)}, call' = call,
         \A x \in OwnNames' : x \in Kept \/ w \notin Needs(x)
  PROVE  NeedsAreHeld'
<1> SUFFICES ASSUME NEW r \in held'
             PROVE  w \notin Needs(r.what)
  BY NeedsAfterLoss
<1>1. CASE r \in Ours'
  <2>1. r.what \in OwnNames'
    BY <1>1 DEF OwnNames
  <2>2. r.what \in Kept => r.what \notin Touches(Top.fn)
    BY KeptIsNotTouched
  <2> QED BY <2>1, <2>2 DEF ReleaseFact
<1>2. CASE r \notin Ours'
  <2>1. r \in held \ Ours
    BY <1>2 DEF Ours
  <2> QED BY <2>1, OthersDoNotNeed
<1> QED BY <1>1, <1>2

-----------------------------------------------------------------------------
(* Steps of a running function *)

\* The invariant after an instruction, from what it does to the resources.
LEMMA Forward ==
  ASSUME BackendInv, mode = "running", frames # <<>>,
         NEW pc \in 1..End(Top.fn), NEW next_held, GoesTo(pc, next_held),
         \A r \in held' : r \in held \/ \E w : r = Mine(w),
         \A r \in held : r \in held' \/ r.call = call.number,
         \A x \in OwnNames : x \in OwnNames' \/ x \in Touches(Top.fn),
         Holds[Top.fn][pc] \subseteq OwnNames',
         OwnNames' \subseteq Holds[Top.fn][pc] \cup Perhaps(Top.fn, pc) \cup Kept,
         NeedsAreHeld'
  PROVE  BackendInv'
<1> USE DEF BackendInv
<1> DEFINE f == [Top EXCEPT !.pc = pc]
<1>1. /\ UNCHANGED <<handles, calls, call, mode>> /\ ~Idle
      /\ frames' = [frames EXCEPT ![Len(frames)].pc = pc]
  BY DEF GoesTo, CallInv
<1>2. f \in Frames /\ f.fn = Top.fn /\ f.pc = pc /\ f.step = 0
  <2>1. Top \in Frames /\ pc \in Nat /\ Top.step = 0
    BY TopIs, Numbered DEF RunningInv
  <2> QED BY <2>1 DEF Frames
<1>3. frames' = [frames EXCEPT ![Len(frames)] = f]
  BY <1>1, TopIs DEF Top
<1> HIDE DEF f
<1>4. /\ StackInv' /\ frames' # <<>> /\ Top' = f /\ Kept' = Kept
      /\ frames'[1].fn = frames[1].fn
  BY <1>2, <1>3, Moves
<1>5. OthersInv' /\ ~Idle' /\ \A r \in Ours' : r.by = call.by
  BY <1>1, OthersStay
<1>6. CallInv'
  BY <1>1, <1>4, <1>5 DEF CallInv, Idle, Connections
<1>7. RunningInv'
  BY <1>2, <1>4 DEF RunningInv
<1>8. ReturningInv' /\ FailingInv' /\ ResultInv'
  BY <1>1, <1>4 DEF ReturningInv, FailingInv, ResultInv
<1>9. EntryInv'
  BY <1>1, <1>4 DEF EntryInv, Connections
<1> QED BY <1>4, <1>5, <1>6, <1>7, <1>8, <1>9

\* A running function is at an instruction whose facts hold of it.
LEMMA AtInstruction ==
  ASSUME BackendInv, mode = "running", frames # <<>>, ~AtEnd
  PROVE  /\ Top.fn \in Fn /\ Top.pc \in DOMAIN Code[Top.fn] /\ Top.pc \in Nat
         /\ Top.pc + 1 \in 1..End(Top.fn) /\ Top.pc \in 1..End(Top.fn)
         /\ ForwardFact(Top.fn, Top.pc) /\ PerhapsFact(Top.fn, Top.pc)
         /\ CallFact(Top.fn, Top.pc) /\ FailFact(Top.fn, Top.pc) /\ FreeFact(Top.fn, Top.pc)
         /\ AcquireFact(Top.fn, Top.pc)
         /\ Holds[Top.fn][Top.pc] \subseteq OwnNames
         /\ OwnNames \subseteq Holds[Top.fn][Top.pc] \cup Perhaps(Top.fn, Top.pc) \cup Kept
         /\ ~Idle
<1>1. Top.fn \in Fn /\ Top.pc \in 1..End(Top.fn) /\ Top.pc # End(Top.fn) /\ FunctionFact(Top.fn)
  BY TopIs DEF BackendInv
<1>2. Top.pc \in DOMAIN Code[Top.fn] /\ Top.pc \in Nat /\ Top.pc + 1 \in 1..End(Top.fn)
  BY <1>1, Numbered
<1> QED BY <1>1, <1>2 DEF BackendInv, FunctionFact, RunningInv, CallInv

\* An instruction that gains a resource.
LEMMA GainStep ==
  ASSUME BackendInv, mode = "running", frames # <<>>, ~AtEnd,
         NEW pc \in 1..End(Top.fn), NEW w, GoesTo(pc, held \cup {Mine(w)}),
         Needs(w) \subseteq Holds[Top.fn][Top.pc]
                              \cup (IF Top.fn = "open" THEN {} ELSE {"connection",
                                "manager_lib"}),
         Top.fn # "close",
         \A x \in Holds[Top.fn][pc] : x \in Holds[Top.fn][Top.pc] \/ x = w,
         \A x \in Holds[Top.fn][Top.pc] \cup Perhaps(Top.fn, Top.pc) \cup {w} :
           x \in Holds[Top.fn][pc] \cup Perhaps(Top.fn, pc)
  PROVE  BackendInv'
<1>1. held' = held \cup {Mine(w)} /\ call' = call
  BY DEF GoesTo
<1>2. OwnNames' = OwnNames \cup {w}
  BY <1>1, Gains
<1>3. \A n \in Needs(w) : \E s \in held : s.what = n
  <2> SUFFICES ASSUME NEW n \in Needs(w)
               PROVE  \E s \in held : s.what = n
    OBVIOUS
  <2>1. CASE n \in Holds[Top.fn][Top.pc]
    BY <2>1, AtInstruction DEF OwnNames, Ours
  <2>2. CASE n \in {"connection", "manager_lib"} /\ Top.fn # "open"
    BY <2>2, HandlesUnder, Lent DEF BackendInv
  <2> QED BY <2>1, <2>2
<1>4. NeedsAreHeld'
  BY <1>1, <1>3, NeedsAfterGain DEF BackendInv
<1>5. /\ Holds[Top.fn][pc] \subseteq OwnNames'
      /\ OwnNames' \subseteq Holds[Top.fn][pc] \cup Perhaps(Top.fn, pc) \cup Kept
  BY <1>2, AtInstruction
<1> QED BY <1>1, <1>2, <1>4, <1>5, Forward

\* An instruction that releases one.
LEMMA LossStep ==
  ASSUME BackendInv, mode = "running", frames # <<>>, ~AtEnd,
         NEW pc \in 1..End(Top.fn), NEW w, GoesTo(pc, held \ {Mine(w)}),
         ReleaseFact(Top.fn, w, Holds[Top.fn][pc] \cup Perhaps(Top.fn, pc)),
         \A x \in Holds[Top.fn][pc] : x \in Holds[Top.fn][Top.pc] /\ x # w,
         \A x \in Holds[Top.fn][Top.pc] \cup Perhaps(Top.fn, Top.pc) :
           x \in Holds[Top.fn][pc] \cup Perhaps(Top.fn, pc) \/ x = w
  PROVE  BackendInv'
<1>1. held' = held \ {Mine(w)} /\ call' = call
  BY DEF GoesTo
<1>2. OwnNames' = OwnNames \ {w}
  BY <1>1, Loses, AtInstruction DEF BackendInv
<1>3. /\ Holds[Top.fn][pc] \subseteq OwnNames'
      /\ OwnNames' \subseteq Holds[Top.fn][pc] \cup Perhaps(Top.fn, pc) \cup Kept
  BY <1>2, AtInstruction
<1>4. \A x \in OwnNames' : x \in Kept \/ w \notin Needs(x)
  BY <1>3 DEF ReleaseFact
<1>5. NeedsAreHeld'
  BY <1>1, <1>4, NeedsAfterRelease, AtInstruction DEF BackendInv
<1>6. \A r \in held : r \in held' \/ r.call = call.number
  BY <1>1 DEF Mine
<1>7. \A x \in OwnNames : x \in OwnNames' \/ x \in Touches(Top.fn)
  BY <1>2 DEF ReleaseFact
<1> QED BY <1>1, <1>3, <1>5, <1>6, <1>7, Forward

\* An instruction that leaves the resources alone.
LEMMA StayStep ==
  ASSUME BackendInv, mode = "running", frames # <<>>, ~AtEnd,
         NEW pc \in 1..End(Top.fn), GoesTo(pc, held),
         \A x \in Holds[Top.fn][pc] : x \in Holds[Top.fn][Top.pc],
         \A x \in Holds[Top.fn][Top.pc] \cup Perhaps(Top.fn, Top.pc) :
           x \in Holds[Top.fn][pc] \cup Perhaps(Top.fn, pc)
  PROVE  BackendInv'
<1>1. held' = held /\ call' = call
  BY DEF GoesTo
<1>2. OwnNames' = OwnNames /\ NeedsAreHeld'
  BY <1>1 DEF OwnNames, Ours, NeedsAreHeld, BackendInv
<1>3. /\ Holds[Top.fn][pc] \subseteq OwnNames'
      /\ OwnNames' \subseteq Holds[Top.fn][pc] \cup Perhaps(Top.fn, pc) \cup Kept
  BY <1>2, AtInstruction
<1> QED BY <1>1, <1>2, <1>3, Forward

\* Acquiring.
LEMMA AcquiresKeeps == BackendInv /\ Acquires => BackendInv'
<1> SUFFICES ASSUME BackendInv, Acquires PROVE BackendInv'
  OBVIOUS
<1> DEFINE w == Instruction.what
<1>1. mode = "running" /\ frames # <<>> /\ ~AtEnd
  BY DEF Acquires, At
<1>2. Instruction = Code[Top.fn][Top.pc]
  BY DEF Instruction
<1>3. CASE (At("acquire") \/ At("own")) /\ Goes(held \cup {Mine(w)})
  <2>1. GoesTo(Top.pc + 1, held \cup {Mine(w)}) /\ Instruction.op \in {"acquire", "own"}
    BY <1>3 DEF Goes, At
  <2>2. /\ \A x : x \in Holds[Top.fn][Top.pc + 1] <=> x \in Holds[Top.fn][Top.pc] \/ x = w
        /\ \A x \in Perhaps(Top.fn, Top.pc) : x \in Perhaps(Top.fn, Top.pc + 1)
    BY <1>1, <1>2, <2>1, AtInstruction DEF ForwardFact, PerhapsFact
  <2>3. /\ Needs(w) \subseteq Holds[Top.fn][Top.pc]
                     \cup (IF Top.fn = "open" THEN {} ELSE {"connection", "manager_lib"})
        /\ Top.fn # "close"
    BY <1>1, <1>2, <2>1, AtInstruction DEF AcquireFact
  <2> QED BY <1>1, <2>1, <2>2, <2>3, GainStep, AtInstruction
<1>4. CASE At("acquire_if_any") /\ \E more \in {{}, {Mine(w)}} : Goes(held \cup more)
  <2>1. Instruction.op = "acquire_if_any"
    BY <1>4 DEF At
  <2>2. /\ \A x : x \in Holds[Top.fn][Top.pc + 1] <=> x \in Holds[Top.fn][Top.pc]
        /\ w \in Perhaps(Top.fn, Top.pc + 1)
        /\ \A x \in Perhaps(Top.fn, Top.pc) : x \in Perhaps(Top.fn, Top.pc + 1)
    BY <1>1, <1>2, <2>1, AtInstruction DEF ForwardFact, PerhapsFact
  <2>3. /\ Needs(w) \subseteq Holds[Top.fn][Top.pc]
                     \cup (IF Top.fn = "open" THEN {} ELSE {"connection", "manager_lib"})
        /\ Top.fn # "close"
    BY <1>1, <1>2, <2>1, AtInstruction DEF AcquireFact
  <2>4. CASE Goes(held \cup {Mine(w)})
    BY <1>1, <2>2, <2>3, <2>4, GainStep, AtInstruction DEF Goes
  <2>5. CASE Goes(held \cup {})
    <3>1. GoesTo(Top.pc + 1, held)
      BY <2>5 DEF Goes
    <3> QED BY <1>1, <2>2, <3>1, StayStep, AtInstruction
  <2> QED BY <1>4, <2>4, <2>5
<1> QED BY <1>3, <1>4 DEF Acquires

\* Releasing.
LEMMA FreesKeeps == BackendInv /\ Frees => BackendInv'
<1> SUFFICES ASSUME BackendInv, Frees PROVE BackendInv'
  OBVIOUS
<1> DEFINE w == Instruction.what
           new == Instruction.new
<1>1. mode = "running" /\ frames # <<>> /\ ~AtEnd
  BY DEF Frees, At
<1>2. Instruction = Code[Top.fn][Top.pc]
  BY DEF Instruction
<1>3. CASE (At("free") \/ At("free_if_held")) /\ Goes(held \ {Mine(w)})
  <2>1. GoesTo(Top.pc + 1, held \ {Mine(w)}) /\ Instruction.op \in {"free", "free_if_held"}
    BY <1>3 DEF Goes, At
  <2>2. ReleaseFact(Top.fn, w, Holds[Top.fn][Top.pc + 1] \cup Perhaps(Top.fn, Top.pc + 1))
    BY <1>1, <1>2, <2>1, AtInstruction DEF FreeFact
  <2>3. /\ \A x : x \in Holds[Top.fn][Top.pc + 1] <=> x \in Holds[Top.fn][Top.pc] /\ x # w
        /\ \A x \in Perhaps(Top.fn, Top.pc) : x \in Perhaps(Top.fn, Top.pc + 1) \/ x = w
    BY <1>1, <1>2, <2>1, AtInstruction DEF ForwardFact, PerhapsFact
  <2> QED BY <1>1, <2>1, <2>2, <2>3, LossStep, AtInstruction
<1>4. CASE At("adopt") /\ Goes((held \ {Mine(new)}) \cup {Mine(w)})
  <2>1. /\ GoesTo(Top.pc + 1, (held \ {Mine(new)}) \cup {Mine(w)})
        /\ Instruction.op = "adopt"
    BY <1>4 DEF Goes, At
  <2>2. /\ new \in Touches(Top.fn) /\ \A user : new \notin Needs(user)
        /\ w \in Touches(Top.fn) /\ Needs(w) = {}
    BY <1>1, <1>2, <2>1, AtInstruction DEF FreeFact
  <2>3. /\ \A x : x \in Holds[Top.fn][Top.pc + 1] <=>
                    (x \in Holds[Top.fn][Top.pc] /\ x # new) \/ x = w
        /\ \A x \in Perhaps(Top.fn, Top.pc) : x \in Perhaps(Top.fn, Top.pc + 1)
    BY <1>1, <1>2, <2>1, AtInstruction DEF ForwardFact, PerhapsFact
  <2>4. held' = (held \ {Mine(new)}) \cup {Mine(w)} /\ call' = call
    BY <2>1 DEF GoesTo
  <2>5. OwnNames' = (OwnNames \ {new}) \cup {w}
    <3>1. /\ Mine(w).what = w /\ Mine(w).call = call.number
          /\ Mine(new).what = new /\ Mine(new).call = call.number
      BY DEF Mine
    <3>2. \A r \in Ours : r.what = new => r = Mine(new)
      BY <1>1, AtInstruction DEF BackendInv, OthersInv, CallInv, Ours, IsRecord, Mine
    <3>3. Ours' = (Ours \ {Mine(new)}) \cup {Mine(w)}
      BY <2>4, <3>1 DEF Ours
    <3>4. \A x : x \in OwnNames' <=> x = w \/ (x \in OwnNames /\ x # new)
      BY <3>1, <3>2, <3>3 DEF OwnNames
    <3> QED BY <3>4
  <2>6. NeedsAreHeld'
    <3> SUFFICES ASSUME NEW r \in held', NEW n \in Needs(r.what)
                 PROVE  \E s \in held' : s.what = n
      BY DEF NeedsAreHeld
    <3>1. r \in held
      BY <2>2, <2>4 DEF Mine
    <3>2. PICK s \in held : s.what = n
      BY <3>1 DEF BackendInv, NeedsAreHeld
    <3>3. s # Mine(new)
      BY <2>2, <3>2 DEF Mine
    <3> QED BY <2>4, <3>2, <3>3
  <2>7. /\ Holds[Top.fn][Top.pc + 1] \subseteq OwnNames'
        /\ OwnNames' \subseteq
             Holds[Top.fn][Top.pc + 1] \cup Perhaps(Top.fn, Top.pc + 1) \cup Kept
    BY <1>1, <2>3, <2>5, AtInstruction
  <2>8. \A r \in held : r \in held' \/ r.call = call.number
    BY <2>4 DEF Mine
  <2>9. /\ \A r \in held' : r \in held \/ \E x : r = Mine(x)
        /\ \A x \in OwnNames : x \in OwnNames' \/ x \in Touches(Top.fn)
    BY <2>2, <2>4, <2>5
  <2> QED BY <1>1, <2>1, <2>6, <2>7, <2>8, <2>9, Forward, AtInstruction
<1> QED BY <1>3, <1>4 DEF Frees

\* Passing a block, a check, a place to leave or a call not asked for.
LEMMA PassesKeeps == BackendInv /\ Passes => BackendInv'
<1> SUFFICES ASSUME BackendInv, Passes PROVE BackendInv'
  OBVIOUS
<1>1. mode = "running" /\ frames # <<>> /\ ~AtEnd /\ GoesTo(Top.pc + 1, held)
  BY DEF Passes, At, Goes
<1>2. Code[Top.fn][Top.pc].op \in {"check", "leave", "defer", "errdefer", "call_if_asked"}
  BY DEF Passes, At, Instruction
<1>3. /\ \A x : x \in Holds[Top.fn][Top.pc + 1] <=> x \in Holds[Top.fn][Top.pc]
      /\ \A x \in Perhaps(Top.fn, Top.pc) : x \in Perhaps(Top.fn, Top.pc + 1)
  BY <1>1, <1>2, AtInstruction DEF ForwardFact, PerhapsFact
<1> QED BY <1>1, <1>3, StayStep, AtInstruction

\* Fetching.
LEMMA FetchesKeeps == BackendInv /\ Fetches => BackendInv'
<1> SUFFICES ASSUME BackendInv, Fetches PROVE BackendInv'
  OBVIOUS
<1>1. mode = "running" /\ frames # <<>> /\ ~AtEnd
  BY DEF Fetches, At
<1>2. Instruction = Code[Top.fn][Top.pc]
  BY DEF Instruction
<1>3. CASE At("fetch") /\ GoesTo(Top.pc + Turn + 1, held)
  <2>1. Code[Top.fn][Top.pc].op = "fetch"
    BY <1>2, <1>3 DEF At
  <2>2. /\ Top.pc + Turn + 1 \in 1..End(Top.fn)
        /\ \A x : x \in Holds[Top.fn][Top.pc + Turn + 1] <=> x \in Holds[Top.fn][Top.pc]
        /\ \A x \in Perhaps(Top.fn, Top.pc) : x \in Perhaps(Top.fn, Top.pc + Turn + 1)
    BY <1>1, <2>1, AtInstruction DEF ForwardFact, PerhapsFact
  <2> QED BY <1>1, <1>3, <2>2, StayStep
<1>4. CASE At("fetch") /\ Goes(held \cup {Mine(Instruction.what)})
  <2> DEFINE w == Instruction.what
  <2>1. Instruction.op = "fetch" /\ GoesTo(Top.pc + 1, held \cup {Mine(w)})
    BY <1>4 DEF At, Goes
  <2>2. /\ \A x : x \in Holds[Top.fn][Top.pc + 1] <=> x \in Holds[Top.fn][Top.pc] \/ x = w
        /\ \A x \in Perhaps(Top.fn, Top.pc) : x \in Perhaps(Top.fn, Top.pc + 1)
    BY <1>1, <1>2, <2>1, AtInstruction DEF ForwardFact, PerhapsFact
  <2>3. /\ Needs(w) \subseteq Holds[Top.fn][Top.pc]
                     \cup (IF Top.fn = "open" THEN {} ELSE {"connection", "manager_lib"})
        /\ Top.fn # "close"
    BY <1>1, <1>2, <2>1, AtInstruction DEF AcquireFact
  <2> QED BY <1>1, <2>1, <2>2, <2>3, GainStep, AtInstruction
<1>5. CASE At("again") /\ GoesTo(Top.pc - Turn, held)
  <2>1. Code[Top.fn][Top.pc].op = "again"
    BY <1>2, <1>5 DEF At
  <2>2. /\ Top.pc - Turn \in 1..End(Top.fn)
        /\ \A x : x \in Holds[Top.fn][Top.pc - Turn] <=> x \in Holds[Top.fn][Top.pc]
        /\ \A x \in Perhaps(Top.fn, Top.pc) : x \in Perhaps(Top.fn, Top.pc - Turn)
    BY <1>1, <2>1, AtInstruction DEF ForwardFact, PerhapsFact
  <2> QED BY <1>1, <1>5, <2>2, StayStep
<1> QED BY <1>3, <1>4, <1>5 DEF Fetches

\* Failing.
LEMMA FailsKeeps == BackendInv /\ Fails => BackendInv'
<1> SUFFICES ASSUME BackendInv, Fails PROVE BackendInv'
  OBVIOUS
<1> DEFINE fn == Top.fn
<1>1. /\ mode = "running" /\ frames # <<>> /\ ~AtEnd
      /\ mode' = "failing" /\ UNCHANGED <<held, handles, calls, call, frames>>
  BY DEF Fails, At
<1>2. Fallible(Code[fn][Top.pc])
  BY DEF Fails, At, Instruction, Fallible
<1>3. /\ WayBack(fn, Top.pc, "failing", Takes(fn), {"array"})
      /\ fn \notin Closes /\ Top.step = 0
  BY <1>1, <1>2, AtInstruction DEF FailFact, Closes, BackendInv, RunningInv
<1>4. FailingInv'
  <2>1. Top' = Top /\ OwnNames' = OwnNames /\ Kept' = Kept
    BY <1>1 DEF Top, OwnNames, Ours, Kept, Keeps, Calling
  <2>2. \A k : Left(k)' = Remaining(fn, Top.pc, 0, "failing", k)
    BY <1>1, <1>3, <2>1 DEF Left
  <2>3. Takes(fn) \subseteq OwnNames
    BY <1>1, <1>3, AtInstruction DEF WayBack
  <2>4. \A k \in DOMAIN Code[fn] : \A j \in Left(k)' :
          Release(fn, k, j).op = "free" => Release(fn, k, j).what \in OwnNames
    BY <1>1, <1>3, <2>2, AtInstruction DEF WayBack, AllFound
  <2>5. ASSUME NEW x \in OwnNames
        PROVE  \/ x \in Takes(fn) \cup {"array"} \cup Kept
               \/ \E k \in DOMAIN Code[fn] : \E j \in Left(k)' : x = Release(fn, k, j).what
    BY <1>1, <1>3, <2>2, AtInstruction DEF WayBack, IsReleased
  <2> QED BY <2>1, <2>3, <2>4, <2>5 DEF FailingInv, Going
<1>5. frames[1].fn \notin Closes
  BY <1>1, <1>3, AloneOnTheStack DEF Closes, BackendInv
<1>6. OthersInv' /\ StackInv' /\ NeedsAreHeld'
  <2>1. OthersInv'
    BY <1>1, OthersStay DEF BackendInv, CallInv
  <2>2. StackInv'
    BY <1>1 DEF BackendInv, StackInv, OwnNames, Ours, Keeps, Calling
  <2>3. NeedsAreHeld'
    BY <1>1 DEF BackendInv, NeedsAreHeld
  <2> QED BY <2>1, <2>2, <2>3
<1>7. CallInv' /\ RunningInv' /\ ReturningInv' /\ ResultInv'
  BY <1>1 DEF BackendInv, CallInv, RunningInv, ReturningInv, ResultInv, Idle, Connections, Ours
<1>8. EntryInv'
  BY <1>1, <1>5 DEF BackendInv, EntryInv, Connections
<1> QED BY <1>4, <1>6, <1>7, <1>8 DEF BackendInv

\* Returning.
LEMMA ReturnsKeeps == BackendInv /\ Returns => BackendInv'
<1> SUFFICES ASSUME BackendInv, Returns PROVE BackendInv'
  OBVIOUS
<1> DEFINE fn == Top.fn
           pc == Top.pc
<1>1. /\ mode = "running" /\ frames # <<>>
      /\ mode' = "returning" /\ UNCHANGED <<held, handles, calls, call, frames>>
  BY DEF Returns
<1>2. Leaves(fn, pc) /\ pc \in 1..End(fn)
  <2>1. Top.fn \in Fn /\ pc \in 1..End(fn) /\ (AtEnd <=> pc = End(fn))
    BY <1>1, TopIs DEF BackendInv
  <2>2. pc # End(fn) => pc \in DOMAIN Code[fn]
    BY <1>1, <2>1, AtInstruction
  <2> QED BY <2>1, <2>2 DEF Returns, At, Instruction, Leaves
<1>3. /\ WayBack(fn, pc, "returning", Gives(fn), GivesPerhaps(fn)) /\ Top.step = 0
      /\ Holds[fn][pc] \subseteq OwnNames
      /\ OwnNames \subseteq Holds[fn][pc] \cup Perhaps(fn, pc) \cup Kept
  BY <1>1, <1>2, TopIs DEF FunctionFact, ReturnFact, BackendInv, RunningInv
<1>4. ReturningInv'
  <2>1. Top' = Top /\ OwnNames' = OwnNames /\ Kept' = Kept
    BY <1>1 DEF Top, OwnNames, Ours, Kept, Keeps, Calling
  <2>2. \A k : Left(k)' = Remaining(fn, pc, 0, "returning", k)
    BY <1>1, <1>3, <2>1 DEF Left
  <2>3. Gives(fn) \subseteq OwnNames
    BY <1>3 DEF WayBack
  <2>4. \A k \in DOMAIN Code[fn] : \A j \in Left(k)' :
          Release(fn, k, j).op = "free" => Release(fn, k, j).what \in OwnNames
    BY <1>3, <2>2 DEF WayBack, AllFound
  <2>5. ASSUME NEW x \in OwnNames
        PROVE  \/ x \in Gives(fn) \cup GivesPerhaps(fn) \cup Kept
               \/ \E k \in DOMAIN Code[fn] : \E j \in Left(k)' : x = Release(fn, k, j).what
    BY <1>3, <2>2 DEF WayBack, IsReleased
  <2> QED BY <1>1, <2>1, <2>3, <2>4, <2>5 DEF ReturningInv, Going
<1>6. OthersInv' /\ StackInv' /\ NeedsAreHeld'
  <2>1. OthersInv'
    BY <1>1, OthersStay DEF BackendInv, CallInv
  <2>2. StackInv'
    BY <1>1 DEF BackendInv, StackInv, OwnNames, Ours, Keeps, Calling
  <2>3. NeedsAreHeld'
    BY <1>1 DEF BackendInv, NeedsAreHeld
  <2> QED BY <2>1, <2>2, <2>3
<1>7. CallInv' /\ RunningInv' /\ FailingInv' /\ ResultInv'
  BY <1>1 DEF BackendInv, CallInv, RunningInv, FailingInv, ResultInv, Idle, Connections, Ours
<1>8. EntryInv'
  BY <1>1 DEF BackendInv, EntryInv, Connections
<1> QED BY <1>4, <1>6, <1>7, <1>8 DEF BackendInv

\* Calling.
LEMMA CallsKeeps == BackendInv /\ Calls => BackendInv'
<1> SUFFICES ASSUME BackendInv, Calls PROVE BackendInv'
  OBVIOUS
<1> DEFINE n == Len(frames)
           fn == Top.fn
           pc == Top.pc
           name == Instruction.name
           caller == [Top EXCEPT !.pc = pc + 1]
           callee == Frame(name)
<1>1. /\ mode = "running" /\ frames # <<>> /\ ~AtEnd /\ IsCall(Code[fn][pc])
      /\ name = Code[fn][pc].name
      /\ UNCHANGED <<held, handles, calls, call, mode>>
  BY DEF Calls, At, IsCall, Instruction
<1>2. /\ n \in Nat \ {0} /\ DOMAIN frames = 1..n /\ frames \in Seq(Frames)
      /\ Top \in Frames /\ fn \in Fn /\ pc \in Nat /\ pc + 1 \in 1..End(fn) /\ Top.step = 0
      /\ pc + 1 > 1
  <2>1. /\ n \in Nat \ {0} /\ DOMAIN frames = 1..n /\ Top \in Frames /\ fn \in Fn
        /\ frames \in Seq(Frames)
    BY <1>1, TopIs DEF BackendInv, StackInv
  <2>2. pc \in Nat /\ pc + 1 \in 1..End(fn)
    BY <1>1, AtInstruction
  <2>3. Top.step = 0
    BY <1>1 DEF BackendInv, RunningInv
  <2>4. pc + 1 > 1
    <3>1. pc \in 1..End(fn)
      BY <1>1, AtInstruction
    <3> QED BY <2>2, <3>1
  <2> QED BY <2>1, <2>2, <2>3, <2>4
<1>n. n \in Nat \ {0}
  BY <1>2
<1>3. /\ name \in Fn \ {"open", "close", "closeResultSet", "closeCursor"}
      /\ Takes(name) \subseteq Holds[fn][pc]
      /\ Touches(name) \subseteq Touches(fn)
      /\ (Holds[fn][pc] \ Takes(name)) \cap Touches(name) = {}
      /\ Perhaps(fn, pc) = {}
  BY <1>1, AtInstruction DEF CallFact
<1>4. /\ caller \in Frames /\ caller.fn = fn /\ caller.pc = pc + 1 /\ caller.step = 0
      /\ callee \in Frames /\ callee.fn = name /\ callee.pc = 1 /\ callee.step = 0
  BY <1>2, <1>3 DEF Frames, Frame
<1>5. Keeps(caller) = Holds[fn][pc] \ Takes(name) /\ Calling(caller) = Code[fn][pc]
  <2>1. (pc + 1) - 1 = pc
    BY <1>2
  <2> QED BY <1>1, <1>4, <2>1 DEF Keeps, Calling
<1>6. frames' = Append([frames EXCEPT ![n] = caller], callee)
  BY <1>2 DEF Calls, Top
<1> HIDE DEF caller, callee, name
<1>7. frames' \in Seq(Frames) /\ Len(frames') = n + 1 /\ frames' # <<>>
  BY <1>2, <1>4, <1>6
<1>8. /\ \A i \in 1..(n - 1) : frames'[i] = frames[i]
      /\ frames'[n] = caller /\ frames'[n + 1] = callee
  <2> DEFINE g == [frames EXCEPT ![n] = caller]
  <2>1. g \in Seq(Frames) /\ Len(g) = n /\ g[n] = caller
    BY <1>2, <1>4
  <2>2. \A i \in 1..(n - 1) : g[i] = frames[i]
    <3>1. \A i \in 1..(n - 1) : i \in 1..n /\ i # n
      BY <1>n
    <3> QED BY <1>2, <3>1
  <2> HIDE DEF g, n
  <2>3. \A i \in 1..n : Append(g, callee)[i] = g[i]
    BY <1>n, <1>4, <2>1
  <2>4. Append(g, callee)[n + 1] = callee
    BY <1>n, <1>4, <2>1
  <2>5. \A i \in 1..(n - 1) : i \in 1..n
    BY <1>n
  <2> QED BY <1>n, <1>6, <2>1, <2>2, <2>3, <2>4, <2>5 DEF g
<1>9. Top' = callee /\ (n + 1) - 1 = n
  BY <1>2, <1>7, <1>8 DEF Top
<1>10. OwnNames' = OwnNames
  BY <1>1 DEF OwnNames, Ours
<1>11. \A i \in 1..n : frames'[i].fn = frames[i].fn
  BY <1>2, <1>4, <1>8 DEF Top
<1>12. \A i \in 1..(n + 1) : i \in 1..n \/ i = n + 1
  BY <1>n
<1>13. /\ \A i \in 1..(n - 1) : i \in 1..n /\ i + 1 \in 1..n
       /\ \A i \in 1..n : i \in 1..(n - 1) \/ i = n
  BY <1>n
<1>14. StackInv'
  <2>1. \A i \in 1..(n + 1) : frames'[i].pc \in 1..End(frames'[i].fn)
    <3>1. caller.pc \in 1..End(caller.fn) /\ callee.pc \in 1..End(callee.fn)
      BY <1>2, <1>3, <1>4, Numbered
    <3>2. \A i \in 1..(n - 1) : frames'[i].pc \in 1..End(frames'[i].fn)
      BY <1>8, <1>13 DEF BackendInv, StackInv
    <3> QED BY <1>8, <1>12, <1>13, <3>1, <3>2
  <2>2. ASSUME NEW i \in 1..n
        PROVE  /\ frames'[i].pc > 1 /\ frames'[i].step = 0
               /\ IsCall(Calling(frames'[i])) /\ Calling(frames'[i]).name = frames'[i + 1].fn
               /\ Keeps(frames'[i]) \subseteq OwnNames'
    <3>1. CASE i \in 1..(n - 1)
      BY <1>8, <1>10, <1>11, <1>13, <3>1 DEF BackendInv, StackInv
    <3>2. CASE i = n
      BY <1>1, <1>2, <1>4, <1>5, <1>8, <1>10, <3>2, AtInstruction DEF name
    <3> QED BY <1>13, <3>1, <3>2
  <2>3. ASSUME NEW j \in 1..(n + 1), NEW i \in 1..(j - 1)
        PROVE  Keeps(frames'[i]) \cap Touches(frames'[j].fn) = {}
    <3>1. CASE j \in 1..n
      <4>1. i \in 1..(n - 1)
        BY <1>2, <3>1
      <4> QED BY <1>8, <1>11, <3>1, <4>1 DEF BackendInv, StackInv
    <3>2. CASE j = n + 1 /\ i \in 1..(n - 1)
      <4>1. n \in 1..n /\ i \in 1..(n - 1)
        BY <1>2, <3>2
      <4>2. Keeps(frames[i]) \cap Touches(fn) = {}
        BY <4>1 DEF BackendInv, StackInv, Top
      <4> QED BY <1>3, <1>4, <1>8, <3>2, <4>2
    <3>3. CASE j = n + 1 /\ i = n
      BY <1>3, <1>4, <1>5, <1>8, <3>3
    <3>4. j = n + 1 => i \in 1..n
      BY <1>n
    <3> QED BY <1>12, <1>13, <3>1, <3>2, <3>3, <3>4
  <2> QED BY <1>7, <1>9, <2>1, <2>2, <2>3 DEF StackInv
<1>15. Kept' = Kept \cup Keeps(caller)
  <2>1. Kept' = UNION {Keeps(frames'[i]) : i \in 1..n}
    BY <1>7, <1>9 DEF Kept, Keeps, Calling
  <2>2. Kept = UNION {Keeps(frames'[i]) : i \in 1..(n - 1)}
    BY <1>8 DEF Kept
  <2>3. 1..n = 1..(n - 1) \cup {n}
    BY <1>2
  <2> QED BY <1>8, <2>1, <2>2, <2>3
<1>16. RunningInv'
  <2>1. Takes(name) = Holds[name][1]
    BY DEF Takes
  <2>2. /\ Holds[fn][pc] \subseteq OwnNames
        /\ OwnNames \subseteq Holds[fn][pc] \cup Kept
    BY <1>1, <1>3, AtInstruction
  <2>3. /\ Holds[name][1] \subseteq OwnNames
        /\ OwnNames \subseteq Holds[name][1] \cup Perhaps(name, 1) \cup Kept \cup Keeps(caller)
    BY <1>3, <1>5, <2>1, <2>2
  <2> QED BY <1>4, <1>9, <1>10, <1>15, <2>3 DEF RunningInv
<1>17. OthersInv' /\ CallInv'
  <2>1. OthersInv' /\ (~Idle)'
    BY <1>1, OthersStay DEF BackendInv, CallInv
  <2> QED BY <1>1, <2>1 DEF BackendInv, CallInv, Idle, Connections, Ours
<1>18. ReturningInv' /\ FailingInv' /\ ResultInv' /\ NeedsAreHeld'
  BY <1>1, <1>7 DEF BackendInv, ReturningInv, FailingInv, ResultInv, NeedsAreHeld
<1>19. EntryInv'
  <2>1. frames'[1].fn = frames[1].fn
    BY <1>2, <1>11
  <2> QED BY <1>1, <2>1 DEF BackendInv, EntryInv, Connections
<1> QED BY <1>14, <1>16, <1>17, <1>18, <1>19 DEF BackendInv

-----------------------------------------------------------------------------
(* Steps on the way back *)

\* On the way back the function is in the program and its blocks keep their order.
LEMMA OnTheWay ==
  ASSUME BackendInv, GoesBack
  PROVE  /\ frames # <<>> /\ mode \in {"returning", "failing"} /\ ~Idle
         /\ IF mode = "failing"
            THEN /\ Going(Takes(Top.fn), {"array"})
                 /\ BlockFact(Top.fn, mode, Takes(Top.fn), {"array"})
            ELSE /\ Going(Gives(Top.fn), GivesPerhaps(Top.fn))
                 /\ BlockFact(Top.fn, mode, Gives(Top.fn), GivesPerhaps(Top.fn))
<1>1. frames # <<>> /\ mode \in {"returning", "failing"}
  BY DEF GoesBack
<1>2. FunctionFact(Top.fn)
  BY <1>1, TopIs DEF BackendInv
<1> QED BY <1>1, <1>2 DEF BackendInv, ReturningInv, FailingInv, FunctionFact, CallInv

\* A release of a block leaves the way back as it was, but for itself.
LEMMA BlockStep ==
  ASSUME BackendInv, RunsBlock, NEW base, NEW more,
         Going(base, more), BlockFact(Top.fn, mode, base, more)
  PROVE  /\ Going(base, more)' /\ NeedsAreHeld' /\ StackInv' /\ frames' # <<>>
         /\ Top'.fn = Top.fn /\ frames'[1].fn = frames[1].fn /\ OthersInv'
         /\ \A r \in Ours' : r.by = call.by
<1> DEFINE fn == Top.fn
           k == Top.pc - 1
           j == Top.step + 1
           w == Release(fn, k, j).what
           f == [Top EXCEPT !.step = j]
<1>1. /\ frames # <<>> /\ ~Idle /\ InBlock
      /\ UNCHANGED <<handles, calls, call, mode>> /\ held' = held \ {Mine(w)}
      /\ frames' = [frames EXCEPT ![Len(frames)].step = @ + 1]
  BY DEF RunsBlock, GoesBack, BackendInv, CallInv, Release, Last
<1>2. /\ Len(frames) \in DOMAIN frames /\ fn \in Fn /\ Top \in Frames
      /\ Top.pc \in Nat /\ Top.step \in Nat /\ Top.pc \in 1..End(fn)
  BY <1>1, TopIs DEF BackendInv
<1>3. k \in DOMAIN Code[fn] /\ k \in Nat /\ k < Top.pc /\ Top.pc = k + 1
  <2>1. Top.pc > 1
    BY <1>1 DEF InBlock
  <2>2. k \in Nat /\ k < Top.pc /\ Top.pc = k + 1 /\ k > 0
    BY <1>2, <2>1
  <2>3. DOMAIN Code[fn] = 1..(End(fn) - 1) /\ End(fn) \in Nat
    BY <1>2, Numbered
  <2>4. Top.pc \in 1..End(fn)
    BY <1>2
  <2>5. k \in 1..(End(fn) - 1)
    BY <2>2, <2>3, <2>4
  <2> QED BY <2>2, <2>3, <2>5
<1>4. j \in Block(fn, mode, k) /\ j \in Nat
  <2>1. Runs(Code[fn][k]) /\ j \in 1..Len(Code[fn][k].block)
    BY <1>1 DEF InBlock, Last
  <2>2. RunsIn(mode, Code[fn][k]) /\ Block(fn, mode, k) = 1..Len(Code[fn][k].block)
    BY <2>1 DEF Block, Runs, RunsIn
  <2> QED BY <1>2, <2>1, <2>2
<1>5. /\ w \notin base
      /\ InOrder(fn, k, j, mode)
      /\ ReleaseFact(fn, w, base \cup more)
  BY <1>3, <1>4 DEF BlockFact
<1>6. f \in Frames /\ f.fn = fn /\ f.pc = Top.pc /\ f.step = j
  BY <1>2 DEF Frames
<1>7. frames' = [frames EXCEPT ![Len(frames)] = f]
  BY <1>1, <1>2 DEF Top
<1> HIDE DEF f, w
<1>8. OwnNames' = OwnNames \ {w}
  BY <1>1, Loses DEF BackendInv
<1>9. /\ StackInv' /\ frames' # <<>> /\ Top' = f /\ Kept' = Kept
      /\ frames'[1].fn = frames[1].fn
  <2>1. \A x \in OwnNames : x \in OwnNames' \/ x \in Touches(Top.fn)
    BY <1>5, <1>8 DEF ReleaseFact
  <2> QED BY <1>1, <1>2, <1>6, <1>7, <2>1, Moves DEF BackendInv
<1>10. \A k2 : Left(k2)' = Remaining(fn, k + 1, j, mode, k2)
  BY <1>1, <1>3, <1>6, <1>9 DEF Left
<1>11. ASSUME NEW k2 \in DOMAIN Code[fn], NEW j2
       PROVE  /\ j2 \in Left(k2)' => j2 \in Left(k2)
              /\ j2 \in Left(k2) => j2 \in Left(k2)' \/ (k2 = k /\ j2 = j)
  <2>1. k2 \in Nat
    BY <1>2, Numbered
  <2>2. j2 \in Block(fn, mode, k2) => j2 \in Nat
    BY DEF Block
  <2> QED BY <1>2, <1>3, <1>10, <2>1, <2>2 DEF Left, Remaining
<1>12. \A k2 \in DOMAIN Code[fn] : \A j2 \in Left(k2)' :
         Undisturbed(Release(fn, k, j), Release(fn, k2, j2))
  BY <1>5, <1>10 DEF InOrder
<1>13. base \subseteq OwnNames'
  BY <1>5, <1>8 DEF Going
<1>14. \A k2 \in DOMAIN Code[fn] : \A j2 \in Left(k2)' :
         Release(fn, k2, j2).op = "free" => Release(fn, k2, j2).what \in OwnNames'
  BY <1>8, <1>11, <1>12 DEF Going, Undisturbed, w
<1>15. ASSUME NEW x \in OwnNames'
       PROVE  \/ x \in base \cup more \cup Kept
              \/ \E k2 \in DOMAIN Code[fn] : \E j2 \in Left(k2)' : x = Release(fn, k2, j2).what
  <2>1. x \in OwnNames /\ x # w
    BY <1>8
  <2>2. CASE \E k2 \in DOMAIN Code[fn] : \E j2 \in Left(k2) : x = Release(fn, k2, j2).what
    <3>1. PICK k2 \in DOMAIN Code[fn] : \E j2 \in Left(k2) : x = Release(fn, k2, j2).what
      BY <2>2
    <3>2. PICK j2 \in Left(k2) : x = Release(fn, k2, j2).what
      BY <3>1
    <3>3. ~(k2 = k /\ j2 = j)
      BY <2>1, <3>2 DEF w
    <3> QED BY <1>11, <3>2, <3>3
  <2> QED BY <2>1, <2>2 DEF Going
<1>16. Going(base, more)'
  BY <1>6, <1>9, <1>13, <1>14, <1>15 DEF Going
<1>17. NeedsAreHeld'
  <2>1. \A x \in OwnNames' : x \in Kept \/ w \notin Needs(x)
    <3> SUFFICES ASSUME NEW x \in OwnNames', x \notin Kept
                 PROVE  w \notin Needs(x)
      OBVIOUS
    <3>1. CASE x \in base \cup more
      BY <1>5, <3>1 DEF ReleaseFact
    <3>2. CASE \E k2 \in DOMAIN Code[fn] : \E j2 \in Left(k2)' : x = Release(fn, k2, j2).what
      BY <1>12, <3>2 DEF Undisturbed, w
    <3> QED BY <1>15, <3>1, <3>2
  <2> QED BY <1>1, <1>5, <2>1, NeedsAfterRelease DEF BackendInv
<1>18. OthersInv' /\ \A r \in Ours' : r.by = call.by
  <2>1. /\ \A r \in held' : r \in held \/ \E x : r = Mine(x)
        /\ \A r \in held : r \in held' \/ r.call = call.number
    BY <1>1 DEF Mine
  <2> QED BY <1>1, <2>1, OthersStay DEF BackendInv
<1> QED BY <1>6, <1>9, <1>16, <1>17, <1>18

\* A release of a block.
LEMMA RunsBlockKeeps == BackendInv /\ RunsBlock => BackendInv'
<1> SUFFICES ASSUME BackendInv, RunsBlock PROVE BackendInv'
  OBVIOUS
<1>1. GoesBack /\ UNCHANGED <<handles, calls, call, mode>>
  BY DEF RunsBlock
<1>2. /\ NeedsAreHeld' /\ StackInv' /\ frames' # <<>> /\ Top'.fn = Top.fn
      /\ frames'[1].fn = frames[1].fn /\ OthersInv' /\ \A r \in Ours' : r.by = call.by
      /\ mode = "failing" => Going(Takes(Top.fn), {"array"})'
      /\ mode = "returning" => Going(Gives(Top.fn), GivesPerhaps(Top.fn))'
  BY <1>1, OnTheWay, BlockStep
<1>3. FailingInv' /\ ReturningInv'
  BY <1>1, <1>2 DEF FailingInv, ReturningInv, Going
<1>4. CallInv' /\ RunningInv' /\ ResultInv' /\ EntryInv'
  BY <1>1, <1>2, OnTheWay
     DEF BackendInv, CallInv, RunningInv, ResultInv, EntryInv, Idle, Connections
<1> QED BY <1>2, <1>3, <1>4 DEF BackendInv

\* A step back over an instruction.
LEMMA StepsBackKeeps == BackendInv /\ StepsBack => BackendInv'
<1> SUFFICES ASSUME BackendInv, StepsBack PROVE BackendInv'
  OBVIOUS
<1> DEFINE fn == Top.fn
           k == Top.pc - 1
           f == [fn |-> fn, pc |-> k, step |-> 0]
<1>1. /\ GoesBack /\ Top.pc > 1 /\ ~InBlock /\ UNCHANGED <<held, handles, calls, call, mode>>
      /\ frames' = [frames EXCEPT ![Len(frames)] = f] /\ frames # <<>>
  BY DEF StepsBack, GoesBack
<1>2. /\ fn \in Fn /\ Top.pc \in Nat /\ Top.step \in Nat /\ Top.pc \in 1..End(fn)
      /\ k \in 1..End(fn) /\ k \in Nat
  BY <1>1, TopIs, Numbered DEF BackendInv
<1>3. f \in Frames /\ f.fn = fn /\ f.pc = k /\ f.step = 0
  BY <1>2 DEF Frames
<1> HIDE DEF f
<1>4. OwnNames' = OwnNames
  BY <1>1 DEF OwnNames, Ours
<1>5. /\ StackInv' /\ frames' # <<>> /\ Top' = f /\ Kept' = Kept
      /\ frames'[1].fn = frames[1].fn
  BY <1>1, <1>2, <1>3, <1>4, Moves DEF BackendInv
<1>6. \A k2 \in DOMAIN Code[fn] : Left(k2)' = Left(k2)
  <2> SUFFICES ASSUME NEW k2 \in DOMAIN Code[fn], NEW j
               PROVE  j \in Remaining(fn, k, 0, mode, k2) <=>
                        j \in Remaining(fn, Top.pc, Top.step, mode, k2)
    BY <1>1, <1>3, <1>5 DEF Left
  <2>1. k2 \in Nat
    BY <1>2, Numbered
  <2>2. j \in Block(fn, mode, k2) => j \in Nat /\ j > 0
    BY DEF Block
  <2>3. CASE k2 = k
    <3>1. ASSUME j \in Block(fn, mode, k2), j > Top.step
          PROVE  FALSE
      <4>1. RunsIn(mode, Code[fn][k]) /\ j \in 1..Len(Code[fn][k].block)
        BY <2>3, <3>1 DEF Block
      <4>2. Top.step + 1 \in 1..Len(Code[fn][k].block)
        BY <1>2, <3>1, <4>1
      <4> QED BY <1>1, <4>1, <4>2 DEF InBlock, Last, Runs, RunsIn
    <3> QED BY <1>2, <2>2, <2>3, <3>1 DEF Remaining
  <2>4. CASE k2 # k
    BY <1>2, <2>1, <2>2, <2>4 DEF Remaining
  <2> QED BY <2>3, <2>4
<1>7. (Top.fn)' = fn
  BY <1>3, <1>5
<1>8. FailingInv' /\ ReturningInv'
  <2>1. ASSUME mode = "failing"
        PROVE  Going(Takes(fn), {"array"})'
    <3>1. Going(Takes(fn), {"array"})
      BY <1>1, <2>1, OnTheWay
    <3> QED BY <1>4, <1>5, <1>6, <1>7, <3>1 DEF Going
  <2>2. ASSUME mode = "returning"
        PROVE  Going(Gives(fn), GivesPerhaps(fn))'
    <3>1. Going(Gives(fn), GivesPerhaps(fn))
      BY <1>1, <2>2, OnTheWay
    <3> QED BY <1>4, <1>5, <1>6, <1>7, <3>1 DEF Going
  <2> QED BY <1>1, <1>5, <2>1, <2>2 DEF FailingInv, ReturningInv
<1>9. OthersInv' /\ NeedsAreHeld'
  BY <1>1, OthersStay, OnTheWay DEF BackendInv, NeedsAreHeld
<1>10. CallInv' /\ RunningInv' /\ ResultInv' /\ EntryInv'
  BY <1>1, <1>5, OnTheWay
     DEF BackendInv, CallInv, RunningInv, ResultInv, EntryInv, Idle, Connections, Ours
<1> QED BY <1>5, <1>8, <1>9, <1>10 DEF BackendInv

\* What the functions called from outside take over and give.
LEMMA EntryFact ==
  /\ \A fn \in Entries :
       /\ fn \in Fn /\ Complete(ReturnsOf(fn)) \subseteq Gives(fn)
       /\ Gives(fn) \cup GivesPerhaps(fn) \subseteq
            Complete(ReturnsOf(fn))
              \cup (IF ReturnsOf(fn) = "handle" THEN {"dependency"} ELSE {})
              \cup (IF fn \in {"openCursor", "closeCursor"} THEN {"rows"} ELSE {})
  /\ \A fn \in Entries \ Closes : Takes(fn) = {}
  /\ Takes("close") = {"context", "manager_lib", "database", "connection", "handle"}
  /\ Takes("closeResultSet") = {"rows", "columns", "result_set"}
  /\ Takes("closeCursor") = {"columns", "cursor"}
<1>1. \A fn \in Entries :
        /\ Complete(ReturnsOf(fn)) \subseteq Gives(fn)
        /\ Gives(fn) \cup GivesPerhaps(fn) \subseteq
             Complete(ReturnsOf(fn))
               \cup (IF ReturnsOf(fn) = "handle" THEN {"dependency"} ELSE {})
               \cup (IF fn \in {"openCursor", "closeCursor"} THEN {"rows"} ELSE {})
  BY DEF Entries, Closes, Complete, ReturnsOf, Gives, GivesPerhaps
<1>2. Entries \subseteq Fn
  BY DEF Entries, Closes, Fn, Code
<1>3. \A fn \in Entries \ Closes : Takes(fn) = {}
  BY OpenIs, ExecuteIs, OpenCursorIs, QueryIs, GetTablesIs, MetadataIs, InspectIs
     DEF Entries, Closes, Takes, OpenHolds, ExecuteHolds, OpenCursorHolds, QueryHolds,
         GetTablesHolds, MetadataHolds, InspectHolds
<1>4. /\ Takes("close") = {"context", "manager_lib", "database", "connection", "handle"}
      /\ Takes("closeResultSet") = {"rows", "columns", "result_set"}
      /\ Takes("closeCursor") = {"columns", "cursor"}
  BY CloseIs, CloseResultSetIs, CloseCursorIs
     DEF Takes, CloseHolds, CloseResultSetHolds, CloseCursorHolds
<1> QED BY <1>1, <1>2, <1>3, <1>4

\* Nothing is left to release before a call that was not before it.
LEMMA RemainingAfterCall ==
  ASSUME NEW fn \in Fn, NEW pc \in DOMAIN Code[fn], IsCall(Code[fn][pc]), NEW m,
         NEW k \in DOMAIN Code[fn]
  PROVE  Remaining(fn, pc + 1, 0, m, k) = Remaining(fn, pc, 0, m, k)
<1>1. k \in Nat /\ pc \in Nat
  BY Numbered
<1>2. k = pc => Block(fn, m, k) = {}
  BY DEF Block, RunsIn, IsCall
<1>3. \A j \in Block(fn, m, k) : j \in Nat /\ j > 0
  BY DEF Block
<1> QED BY <1>1, <1>2, <1>3 DEF Remaining

\* Giving back to the caller.
LEMMA GivesBackKeeps == BackendInv /\ GivesBack => BackendInv'
<1> SUFFICES ASSUME BackendInv, GivesBack PROVE BackendInv'
  OBVIOUS
<1> DEFINE n == Len(frames)
           callee == Top.fn
           caller == frames[n - 1]
           fn == caller.fn
           c == caller.pc - 1
           base == IF mode = "failing" THEN Takes(callee) ELSE Gives(callee)
           more == IF mode = "failing" THEN {"array"} ELSE GivesPerhaps(callee)
<1>1. /\ GoesBack /\ Top.pc = 1 /\ frames' = SubSeq(frames, 1, n - 1)
      /\ mode' = (IF mode = "failing" THEN "failing" ELSE "running")
      /\ UNCHANGED <<held, handles, calls, call>>
  BY DEF GivesBack
<1>2. /\ frames # <<>> /\ mode \in {"returning", "failing"} /\ ~Idle
      /\ Going(base, more)
  BY <1>1, OnTheWay
<1>n. n \in Nat \ {0}
  BY <1>2, TopIs DEF BackendInv
<1>3. callee \in Fn /\ frames \in Seq(Frames)
  BY <1>2, TopIs DEF BackendInv, StackInv
<1>4. base \subseteq OwnNames /\ OwnNames \subseteq base \cup more \cup Kept
  <2>1. \A k \in DOMAIN Code[callee] : Left(k) = {}
    BY <1>1, <1>3, Numbered DEF Left, Remaining
  <2> QED BY <1>2, <2>1 DEF Going
<1>5. OwnNames' = OwnNames /\ Ours' = Ours /\ NeedsAreHeld'
  BY <1>1 DEF OwnNames, Ours, NeedsAreHeld, BackendInv
<1>6. OthersInv' /\ CallInv'
  <2>1. OthersInv'
    BY <1>1, <1>2, OthersStay DEF BackendInv
  <2> QED BY <1>1, <1>2, <1>5, <2>1 DEF BackendInv, CallInv, Idle, Connections
<1>7. /\ frames' \in Seq(Frames) /\ Len(frames') = n - 1
      /\ \A i \in 1..(n - 1) : frames'[i] = frames[i]
  <2> HIDE DEF n
  <2>1. n - 1 \in Nat /\ n - 1 \in 0..n /\ 1..(n - 1) = 1..((n - 1) - 1 + 1)
    BY <1>n
  <2>2. /\ SubSeq(frames, 1, n - 1) = [i \in 1..(n - 1) |-> frames[i]]
    BY <1>1, <1>3, <1>n, <2>1
  <2>3. \A i \in 1..(n - 1) : frames[i] \in Frames
    BY <1>3, <1>n DEF n
  <2> QED BY <1>1, <1>n, <2>1, <2>2, <2>3
<1>8. StackInv'
  <2>1. /\ \A i \in 1..(n - 1) : i \in 1..n
        /\ \A i \in 1..((n - 1) - 1) : i \in 1..(n - 1) /\ i + 1 \in 1..(n - 1)
        /\ \A j \in 1..(n - 1) : \A i \in 1..(j - 1) : i \in 1..(n - 1)
    <3> HIDE DEF n
    <3> QED BY <1>n
  <2>2. \A i \in 1..(n - 1) : frames'[i].pc \in 1..End(frames'[i].fn)
    BY <1>7, <2>1 DEF BackendInv, StackInv
  <2>3. \A i \in 1..((n - 1) - 1) :
          /\ frames'[i].pc > 1 /\ frames'[i].step = 0
          /\ IsCall(Calling(frames'[i])) /\ Calling(frames'[i]).name = frames'[i + 1].fn
          /\ Keeps(frames'[i]) \subseteq OwnNames'
    BY <1>5, <1>7, <2>1 DEF BackendInv, StackInv
  <2>4. \A j \in 1..(n - 1) : \A i \in 1..(j - 1) :
          Keeps(frames'[i]) \cap Touches(frames'[j].fn) = {}
    BY <1>7, <2>1 DEF BackendInv, StackInv
  <2> QED BY <1>7, <2>2, <2>3, <2>4 DEF StackInv
<1>9. CASE n = 1
  <2>1. frames' = <<>> /\ Kept = {} /\ Top = frames[1]
    BY <1>7, <1>9 DEF Kept, Top
  <2>2. /\ callee \in Entries /\ call.returns = ReturnsOf(callee)
        /\ callee \in Closes => mode # "failing"
        /\ callee \in {"openCursor", "closeCursor"} => call.by = "openCursor"
    BY <1>2, <2>1 DEF BackendInv, EntryInv
  <2>3. ResultInv'
    BY <1>1, <1>4, <1>5, <2>1, <2>2, EntryFact DEF ResultInv
  <2> QED BY <1>1, <1>2, <1>5, <1>6, <1>8, <2>1, <2>3
          DEF BackendInv, RunningInv, ReturningInv, FailingInv, EntryInv
<1>10. CASE n # 1
  <2>1. n - 1 \in 1..(n - 1) /\ (n - 1) + 1 = n /\ 1 \in 1..(n - 1) /\ n - 1 \in 1..n
    <3> HIDE DEF n
    <3> QED BY <1>n, <1>10
  <2>2. frames' # <<>> /\ Top' = caller /\ frames'[1] = frames[1]
    BY <1>7, <2>1 DEF Top
  <2>3. /\ caller.pc > 1 /\ caller.step = 0 /\ IsCall(Code[fn][c])
        /\ Code[fn][c].name = callee /\ Keeps(caller) \subseteq OwnNames
        /\ caller.pc \in 1..End(fn) /\ caller \in Frames
    BY <1>3, <2>1 DEF BackendInv, StackInv, Calling, Top
  <2>4. /\ fn \in Fn /\ caller.pc \in Nat /\ c \in DOMAIN Code[fn] /\ c + 1 = caller.pc
        /\ FunctionFact(fn)
    BY <2>3, Numbered, ProgramFact DEF Frames
  <2>5. CallFact(fn, c) /\ FailFact(fn, c)
    BY <2>4 DEF FunctionFact
  <2>6. Keeps(caller) = Holds[fn][c] \ Takes(callee)
    BY <2>3 DEF Keeps, Calling
  <2>7. Kept = Kept' \cup Keeps(caller)
    <3>1. Kept' = UNION {Keeps(frames[i]) : i \in 1..((n - 1) - 1)}
      <4>1. \A i \in 1..((n - 1) - 1) : i \in 1..(n - 1)
        BY <1>n
      <4> QED BY <1>7, <4>1 DEF Kept, Keeps, Calling
    <3>2. 1..(n - 1) = 1..((n - 1) - 1) \cup {n - 1}
      <4> HIDE DEF n
      <4> QED BY <1>n, <1>10
    <3> QED BY <3>1, <3>2 DEF Kept
  <2>8. EntryInv'
    BY <1>1, <1>2, <2>2 DEF BackendInv, EntryInv, Connections
  <2>9. RunningInv'
    <3> SUFFICES ASSUME mode = "returning"
                 PROVE  /\ Holds[fn][caller.pc] \subseteq OwnNames
                        /\ OwnNames \subseteq
                             Holds[fn][caller.pc] \cup Perhaps(fn, caller.pc) \cup Kept'
      BY <1>1, <1>2, <1>5, <2>2, <2>3 DEF RunningInv
    <3>1. /\ \A x : x \in Holds[fn][caller.pc] <=> x \in Keeps(caller) \/ x \in Gives(callee)
          /\ GivesPerhaps(callee) = {}
      BY <2>3, <2>4, <2>5, <2>6 DEF CallFact
    <3> QED BY <1>4, <2>3, <2>7, <3>1
  <2>10. FailingInv'
    <3> SUFFICES ASSUME mode = "failing"
                 PROVE  Going(Takes(Top.fn), {"array"})'
      BY <1>1 DEF FailingInv
    <3>1. WayBack(fn, c, "failing", Takes(fn), {"array"})
      BY <2>3, <2>4, <2>5 DEF FailFact, Fallible, IsCall
    <3>2. \A k \in DOMAIN Code[fn] : Left(k)' = Remaining(fn, c, 0, "failing", k)
      BY <1>1, <2>2, <2>3, <2>4, RemainingAfterCall DEF Left
    <3>3. /\ Holds[fn][c] \subseteq OwnNames
          /\ OwnNames \subseteq Holds[fn][c] \cup {"array"} \cup Kept'
      BY <1>4, <2>3, <2>5, <2>6, <2>7 DEF CallFact
    <3>4. Takes(fn) \subseteq OwnNames
      BY <3>1, <3>3 DEF WayBack
    <3>5. \A k \in DOMAIN Code[fn] : \A j \in Left(k)' :
            Release(fn, k, j).op = "free" => Release(fn, k, j).what \in OwnNames
      BY <3>1, <3>2, <3>3 DEF WayBack, AllFound
    <3>6. ASSUME NEW x \in OwnNames
          PROVE  \/ x \in Takes(fn) \cup {"array"} \cup Kept'
                 \/ \E k \in DOMAIN Code[fn] : \E j \in Left(k)' : x = Release(fn, k, j).what
      BY <3>1, <3>2, <3>3 DEF WayBack, IsReleased
    <3>7. (Top.fn)' = fn
      BY <2>2
    <3> HIDE DEF fn
    <3> QED BY <1>5, <3>4, <3>5, <3>6, <3>7 DEF Going
  <2>11. ReturningInv' /\ ResultInv'
    BY <1>1, <2>2 DEF ReturningInv, ResultInv
  <2> QED BY <1>5, <1>6, <1>8, <2>8, <2>9, <2>10, <2>11 DEF BackendInv
<1> QED BY <1>9, <1>10

-----------------------------------------------------------------------------
(* Where calls begin and end *)

\* Between calls nothing that is held is of the call under way.
LEMMA NothingIsOurs ==
  ASSUME OthersInv, Idle
  PROVE  Ours = {} /\ OwnNames = {} /\ held \ Ours = held
<1>1. call.number = 0 /\ \A r \in held : r.call \in 1..calls
  BY DEF OthersInv, Idle, Nothing
<1>2. Ours = {}
  BY <1>1 DEF Ours
<1> QED BY <1>2 DEF OwnNames

\* A call under way has the name of each of its resources.
LEMMA OwnName ==
  ASSUME OthersInv, CallInv, ~Idle, NEW w \in OwnNames
  PROVE  Mine(w) \in held
<1>1. PICK r \in Ours : r.what = w
  BY DEF OwnNames
<1>2. r = Mine(w) /\ r \in held
  BY <1>1 DEF OthersInv, CallInv, Ours, IsRecord, Mine
<1> QED BY <1>2

\* The stack a call begins with.
LEMMA OneFrame ==
  ASSUME NEW name \in Fn, frames' = <<Frame(name)>>
  PROVE  /\ StackInv' /\ frames' # <<>> /\ frames'[1] = Frame(name) /\ Top' = Frame(name)
         /\ Kept' = {}
<1>1. /\ Frame(name) \in Frames /\ Frame(name).fn = name /\ Frame(name).pc = 1
      /\ 1 \in 1..End(name)
  BY Numbered DEF Frame, Frames
<1>2. /\ frames' \in Seq(Frames) /\ Len(frames') = 1 /\ frames'[1] = Frame(name)
  BY <1>1
<1>3. Top' = Frame(name) /\ frames' # <<>>
  BY <1>2 DEF Top
<1>4. 1..(1 - 1) = {} /\ 1..1 = {1}
  OBVIOUS
<1>5. Kept' = {}
  BY <1>2, <1>4 DEF Kept
<1>6. StackInv'
  BY <1>1, <1>2, <1>4 DEF StackInv
<1> QED BY <1>2, <1>3, <1>5, <1>6

\* A call that closes nothing begins.
LEMMA BeginsKeeps ==
  ASSUME BackendInv, NEW name \in Entries \ Closes, Begins(name, ReturnsOf(name)),
         IF name = "open" THEN handles = {} ELSE Connections # {}
  PROVE  BackendInv'
<1>1. /\ Idle /\ mode = "running" /\ Ours = {} /\ held \ Ours = held
      /\ UNCHANGED <<held, handles, mode>> /\ calls \in Nat /\ calls' = calls + 1
  BY NothingIsOurs DEF BackendInv, CallInv, OthersInv, Begins
<1>2. /\ call'.by = name /\ call'.number = calls + 1 /\ call'.returns = ReturnsOf(name)
      /\ frames' = <<Frame(name)>>
  BY DEF Begins
<1>3. /\ StackInv' /\ frames' # <<>> /\ frames'[1] = Frame(name) /\ Top' = Frame(name)
      /\ Kept' = {}
  BY <1>2, OneFrame, EntryFact
<1>4. ~Idle'
  BY <1>1, <1>2 DEF Idle, Nothing
<1>5. \A r \in held \cup handles : r.call \in 1..calls' /\ r.call # calls'
  BY <1>1 DEF BackendInv, OthersInv
<1>6. Ours' = {} /\ OwnNames' = {}
  <2>1. Ours' = {}
    BY <1>1, <1>2, <1>5 DEF Ours
  <2> QED BY <2>1 DEF OwnNames
<1>7. OthersInv'
  <2>1. held' \ Ours' = held
    BY <1>1, <1>6
  <2> QED BY <1>1, <1>5, <2>1 DEF BackendInv, OthersInv, Connections
<1>8. /\ name \in {"open", "execute", "openCursor", "testConnection", "getTables",
                   "getCatalogs", "inspectNamespaceAccess"}
      /\ name \notin Closes
  BY DEF Entries, Closes
<1>9. CallInv'
  <2>1. call'.number \in 1..calls'
    BY <1>1, <1>2
  <2>2. /\ ReturnsOf(name) \in {"handle", "result_set", "cursor", "none"}
        /\ ReturnsOf(name) = "handle" => name = "open"
        /\ ReturnsOf(name) \in {"result_set", "cursor"} => name # "open"
        /\ ReturnsOf(name) = "cursor" => name = "openCursor"
    BY <1>8 DEF ReturnsOf
  <2> QED BY <1>1, <1>2, <1>4, <1>5, <1>6, <2>1, <2>2 DEF CallInv, Connections, Idle
<1>10. RunningInv'
  <2>1. Frame(name).fn = name /\ Frame(name).pc = 1 /\ Frame(name).step = 0
    BY DEF Frame
  <2>2. Holds[name][1] = {}
    BY EntryFact DEF Takes
  <2> QED BY <1>3, <1>6, <2>1, <2>2 DEF RunningInv
<1>11. ReturningInv' /\ FailingInv' /\ ResultInv'
  BY <1>1, <1>3 DEF ReturningInv, FailingInv, ResultInv
<1>12. EntryInv'
  BY <1>1, <1>2, <1>3, <1>8 DEF EntryInv, Frame, Connections
<1>13. NeedsAreHeld'
  BY <1>1 DEF BackendInv, NeedsAreHeld
<1> QED BY <1>3, <1>7, <1>9, <1>10, <1>11, <1>12, <1>13 DEF BackendInv

\* The calls that close nothing.
LEMMA CallsBeginWell ==
  BackendInv /\ (Open \/ Execute \/ OpenCursor \/ TestConnection \/ GetTables \/ GetMetadata
                   \/ InspectNamespaceAccess) => BackendInv'
<1> SUFFICES ASSUME BackendInv,
                    Open \/ Execute \/ OpenCursor \/ TestConnection \/ GetTables
                      \/ GetMetadata \/ InspectNamespaceAccess
             PROVE  BackendInv'
  OBVIOUS
<1>1. PICK name \in Entries \ Closes :
        /\ Begins(name, ReturnsOf(name))
        /\ IF name = "open" THEN Connections = {} ELSE Connections # {}
  <2>1. /\ ReturnsOf("open") = "handle" /\ ReturnsOf("openCursor") = "cursor"
        /\ \A fn \in {"execute", "getTables", "getCatalogs"} : ReturnsOf(fn) = "result_set"
        /\ \A fn \in {"testConnection", "inspectNamespaceAccess"} : ReturnsOf(fn) = "none"
    BY DEF ReturnsOf
  <2>2. {"open", "execute", "openCursor", "testConnection", "getTables", "getCatalogs",
         "inspectNamespaceAccess"} \subseteq Entries \ Closes
    BY DEF Entries, Closes
  <2> QED BY <2>1, <2>2 DEF Open, Execute, OpenCursor, TestConnection, GetTables, GetMetadata,
                            InspectNamespaceAccess, OnConnection
<1>2. Connections = {} => handles = {}
  BY DEF BackendInv, OthersInv
<1> QED BY <1>1, <1>2, BeginsKeeps

\* What closes a handle takes over what the handle consists of.
LEMMA CloseTakes ==
  ASSUME NEW h, h.what \in {"handle", "result_set", "cursor"}, NEW fn, fn = CloseOf(h.what)
  PROVE  /\ fn \in Closes /\ Takes(fn) = Complete(h.what) /\ ReturnsOf(fn) = "none"
         /\ fn = "close" <=> h.what = "handle"
         /\ fn = "closeCursor" <=> h.what = "cursor"
         /\ Parts(h) \subseteq Takes(fn) \cup Perhaps(fn, 1)
         /\ h.what = "cursor" => "rows" \in Perhaps(fn, 1)
<1>1. CASE h.what = "handle"
  BY <1>1, EntryFact DEF CloseOf, Closes, Complete, ReturnsOf, Parts, Perhaps
<1>2. CASE h.what = "result_set"
  BY <1>2, EntryFact DEF CloseOf, Closes, Complete, ReturnsOf, Parts, Perhaps
<1>3. CASE h.what = "cursor"
  BY <1>3, EntryFact DEF CloseOf, Closes, Complete, ReturnsOf, Parts, Perhaps
<1> QED BY <1>1, <1>2, <1>3

\* A handle is closed.
LEMMA CloseKeeps ==
  ASSUME BackendInv, NEW h \in handles, Close(h)
  PROVE  BackendInv'
<1> DEFINE fn == CloseOf(h.what)
<1>1. /\ Idle /\ mode = "running" /\ held \ Ours = held
      /\ UNCHANGED <<held, calls, mode>> /\ handles' = handles \ {h}
      /\ h.what = "handle" => handles = {h}
  BY NothingIsOurs DEF BackendInv, CallInv, Close
<1>2. /\ call'.by = h.by /\ call'.number = h.call /\ call'.returns = "none"
      /\ frames' = <<Frame(fn)>>
  BY DEF Close
<1>3. /\ IsRecord(h) /\ h.call \in 1..calls /\ calls \in Nat
      /\ h.what \in {"handle", "result_set", "cursor"}
      /\ h.what = "cursor" => h.by = "openCursor"
      /\ \A k \in handles' : k.call # h.call
  BY <1>1 DEF BackendInv, OthersInv
<1>4. /\ fn \in Closes /\ Takes(fn) = Complete(h.what) /\ ReturnsOf(fn) = "none"
      /\ fn = "close" <=> h.what = "handle"
      /\ fn = "closeCursor" <=> h.what = "cursor"
      /\ Parts(h) \subseteq Takes(fn) \cup Perhaps(fn, 1)
      /\ h.what = "cursor" => "rows" \in Perhaps(fn, 1)
  BY <1>3, CloseTakes
<1> HIDE DEF fn
<1>5. fn \in Entries /\ fn \in Fn /\ fn # "open" /\ fn # "openCursor"
  BY <1>4, EntryFact DEF Entries, Closes
<1>6. /\ StackInv' /\ frames' # <<>> /\ frames'[1] = Frame(fn) /\ Top' = Frame(fn)
      /\ Kept' = {}
  BY <1>2, <1>5, OneFrame
<1>7. ~Idle'
  BY <1>2, <1>3 DEF Idle, Nothing
<1>8. Ours' = {r \in held : r.call = h.call}
  BY <1>1, <1>2 DEF Ours
<1>9. IF h.what = "handle" THEN handles' = {} ELSE Connections' # {}
  <2>1. CASE h.what # "handle"
    <3>1. Connections # {}
      BY DEF BackendInv, OthersInv
    <3>2. PICK c \in Connections : TRUE
      BY <3>1
    <3> QED BY <1>1, <2>1, <3>2 DEF Connections
  <2> QED BY <1>1, <2>1
<1>10. OthersInv'
  <2>1. \A r \in held' \cup handles' : r \in held \cup handles
    BY <1>1
  <2>2. \A k \in handles' : k \in handles
    BY <1>1
  <2>3. ASSUME NEW r \in held' \ Ours'
        PROVE  \/ r.what = "array" \/ (r.what = "rows" /\ r.by = "openCursor")
               \/ \E k \in handles' : k.call = r.call /\ r.what \in Parts(k)
    <3>1. r \in held \ Ours /\ r.call # h.call
      BY <1>1, <1>8
    <3>2. \A k \in handles : k.call = r.call => k \in handles'
      BY <1>1, <3>1
    <3> QED BY <3>1, <3>2 DEF BackendInv, OthersInv
  <2>4. Connections' = {} => handles' = {}
    BY <1>9
  <2> QED BY <1>1, <2>1, <2>2, <2>3, <2>4 DEF BackendInv, OthersInv
<1>11. CallInv'
  <2>1. \A r \in Ours' : r.by = h.by
    BY <1>8 DEF BackendInv, OthersInv
  <2> QED BY <1>1, <1>2, <1>3, <1>7, <2>1 DEF CallInv, Idle
<1>12. RunningInv'
  <2>1. Frame(fn).fn = fn /\ Frame(fn).pc = 1 /\ Frame(fn).step = 0
    BY DEF Frame
  <2>2. ASSUME NEW w \in Takes(fn)
        PROVE  w \in OwnNames'
    <3>1. [h EXCEPT !.what = w] \in held
      BY <1>4 DEF BackendInv, OthersInv
    <3>2. [h EXCEPT !.what = w].what = w /\ [h EXCEPT !.what = w].call = h.call
      BY <1>3 DEF IsRecord
    <3> QED BY <1>8, <3>1, <3>2 DEF OwnNames
  <2>3. ASSUME NEW w \in OwnNames'
        PROVE  w \in Takes(fn) \cup Perhaps(fn, 1)
    <3>1. PICK r \in held : r.call = h.call /\ r.what = w
      BY <1>8 DEF OwnNames
    <3>2. w \in Parts(h) \/ (h.what = "cursor" /\ w = "rows")
      BY <3>1 DEF BackendInv, OthersInv
    <3> QED BY <1>4, <3>2
  <2> QED BY <1>6, <2>1, <2>2, <2>3 DEF RunningInv, Takes
<1>13. ReturningInv' /\ FailingInv' /\ ResultInv'
  BY <1>1, <1>6 DEF ReturningInv, FailingInv, ResultInv
<1>14. EntryInv'
  BY <1>1, <1>2, <1>3, <1>4, <1>5, <1>6, <1>9 DEF EntryInv, Frame
<1>15. NeedsAreHeld'
  BY <1>1 DEF BackendInv, NeedsAreHeld
<1> QED BY <1>6, <1>10, <1>11, <1>12, <1>13, <1>14, <1>15 DEF BackendInv

\* A call ends and, if it has not failed, gives its handle to the manager.
LEMMA EndsKeeps == BackendInv /\ Ends => BackendInv'
<1> SUFFICES ASSUME BackendInv, Ends PROVE BackendInv'
  OBVIOUS
<1> DEFINE h == Mine(call.returns)
           gives == mode # "failing" /\ call.returns # "none"
           extra == IF call.returns = "handle" THEN {"dependency"} ELSE {}
           rows == IF call.by = "openCursor" THEN {"rows"} ELSE {}
<1>1. /\ ~Idle /\ frames = <<>> /\ frames' = <<>> /\ mode' = "running" /\ Idle'
      /\ UNCHANGED <<held, calls>>
      /\ handles' = IF gives THEN handles \cup {h} ELSE handles
  BY DEF Ends, Idle
<1>2. /\ call.number \in 1..calls
      /\ call.returns \in {"handle", "result_set", "cursor", "none"}
      /\ call.returns = "handle" => call.by = "open" /\ handles = {}
      /\ call.returns \in {"result_set", "cursor"} => Connections # {}
      /\ call.returns = "cursor" => call.by = "openCursor"
      /\ \A k \in handles : k.call # call.number
      /\ \A r \in Ours : r.by = call.by
  BY <1>1 DEF BackendInv, CallInv
<1>3. /\ h.what = call.returns /\ h.by = call.by /\ h.call = call.number /\ IsRecord(h)
      /\ \A w : [h EXCEPT !.what = w] = Mine(w)
  BY DEF Mine, IsRecord
<1>4. /\ mode = "failing" => OwnNames \subseteq {"array"}
      /\ mode # "failing" => /\ Complete(call.returns) \subseteq OwnNames
                             /\ OwnNames \subseteq Complete(call.returns) \cup extra \cup rows
  BY <1>1 DEF BackendInv, ResultInv
<1>5. \A x \in Complete(call.returns) \cup extra : x \in Parts(h)
  <2>1. CASE call.returns = "handle"
    BY <1>3, <2>1 DEF Complete, Parts
  <2>2. CASE call.returns = "result_set"
    BY <1>3, <2>2 DEF Complete, Parts
  <2>3. CASE call.returns = "cursor"
    BY <1>3, <2>3 DEF Complete, Parts
  <2>4. CASE call.returns = "none"
    BY <2>4 DEF Complete
  <2> QED BY <1>2, <2>1, <2>2, <2>3, <2>4
<1>6. \A r \in Ours : r.what \in OwnNames
  BY DEF OwnNames
<1> HIDE DEF h, gives
<1>7. \A k \in handles' : k \in handles \/ (k = h /\ gives)
  BY <1>1
<1>8. OthersInv'
  <2>1. calls' \in Nat /\ \A r \in held' \cup handles' : IsRecord(r) /\ r.call \in 1..calls'
    BY <1>1, <1>2, <1>3, <1>7 DEF BackendInv, OthersInv
  <2>2. \A r \in held \cup handles : r.call = call.number => r.by = call.by
    BY <1>2 DEF Ours
  <2>3. \A r, s \in held' \cup handles' : r.call = s.call => r.by = s.by
    BY <1>1, <1>3, <1>7, <2>2 DEF BackendInv, OthersInv
  <2>4. \A k, m \in handles' : k.call = m.call => k = m
    BY <1>2, <1>3, <1>7 DEF BackendInv, OthersInv
  <2>5. ASSUME NEW k \in handles'
        PROVE  /\ k.what \in {"handle", "result_set", "cursor"}
               /\ k.what = "cursor" => k.by = "openCursor"
               /\ \A what \in Complete(k.what) : [k EXCEPT !.what = what] \in held'
               /\ \A r \in held' : r.call = k.call =>
                    r.what \in Parts(k) \/ (k.what = "cursor" /\ r.what = "rows")
    <3>1. CASE k \in handles
      BY <1>1, <3>1 DEF BackendInv, OthersInv
    <3>2. CASE k = h /\ gives
      <4>1. /\ call.returns \in {"handle", "result_set", "cursor"}
            /\ Complete(call.returns) \subseteq OwnNames
            /\ OwnNames \subseteq Complete(call.returns) \cup extra \cup rows
        BY <1>2, <1>4, <3>2 DEF gives
      <4>2. \A what \in Complete(call.returns) : Mine(what) \in held'
        BY <1>1, <4>1, OwnName DEF BackendInv
      <4>3. ASSUME NEW r \in held', r.call = call.number
            PROVE  r.what \in Parts(h) \/ (call.returns = "cursor" /\ r.what = "rows")
        <5>1. r.what \in Complete(call.returns) \cup extra \cup rows
          BY <1>1, <1>6, <4>1, <4>3 DEF Ours
        <5>2. CASE r.what \in rows
          <6>1. r.what = "rows" /\ call.returns # "handle"
            BY <1>2, <5>2
          <6>2. call.returns = "result_set" => "rows" \in Complete(call.returns)
            BY DEF Complete
          <6> QED BY <1>5, <4>1, <6>1, <6>2
        <5> QED BY <1>5, <5>1, <5>2
      <4> QED BY <1>2, <1>3, <3>2, <4>1, <4>2, <4>3
    <3> QED BY <1>7, <3>1, <3>2
  <2>6. ASSUME NEW r \in held'
        PROVE  \/ r.what = "array" \/ (r.what = "rows" /\ r.by = "openCursor")
               \/ \E k \in handles' : k.call = r.call /\ r.what \in Parts(k)
    <3>1. CASE r \in Ours
      <4>1. CASE mode = "failing"
        BY <1>4, <1>6, <3>1, <4>1
      <4>2. CASE mode # "failing" /\ r.what \in rows
        BY <1>2, <3>1, <4>2
      <4>3. CASE mode # "failing" /\ r.what \in Complete(call.returns) \cup extra
        <5>1. call.returns # "none"
          BY <4>3 DEF Complete
        <5>2. h \in handles' /\ h.call = r.call
          BY <1>1, <1>3, <3>1, <4>3, <5>1 DEF gives, Ours
        <5> QED BY <1>5, <4>3, <5>2
      <4> QED BY <1>4, <1>6, <3>1, <4>1, <4>2, <4>3
    <3>2. CASE r \notin Ours
      BY <1>1, <3>2 DEF BackendInv, OthersInv
    <3> QED BY <3>1, <3>2
  <2>7. Connections' = {} => handles' = {}
    <3>1. CASE gives
      <4>1. call.returns = "handle" => h \in Connections'
        BY <1>1, <1>3, <3>1 DEF Connections
      <4>2. call.returns # "handle" => Connections # {}
        BY <1>2, <3>1 DEF gives
      <4>3. \A c \in Connections : c \in Connections'
        BY <1>1 DEF Connections
      <4> QED BY <4>1, <4>2, <4>3
    <3>2. CASE ~gives
      BY <1>1, <3>2 DEF BackendInv, OthersInv, Connections
    <3> QED BY <3>1, <3>2
  <2> QED BY <2>1, <2>3, <2>4, <2>5, <2>6, <2>7 DEF OthersInv
<1>9. CallInv'
  BY <1>1 DEF CallInv
<1>10. StackInv'
  <2>1. frames' \in Seq(Frames) /\ Len(frames') = 0
    BY <1>1
  <2>2. 1..0 = {} /\ 1..(0 - 1) = {}
    OBVIOUS
  <2> QED BY <2>1, <2>2 DEF StackInv
<1>11. RunningInv' /\ ReturningInv' /\ FailingInv' /\ EntryInv' /\ ResultInv'
  BY <1>1 DEF RunningInv, ReturningInv, FailingInv, EntryInv, ResultInv
<1>12. NeedsAreHeld'
  BY <1>1 DEF BackendInv, NeedsAreHeld
<1> QED BY <1>8, <1>9, <1>10, <1>11, <1>12 DEF BackendInv

-----------------------------------------------------------------------------
(* The theorems *)

\* BackendInv is inductive: it holds of a backend nobody has called, and every step of
\* every call keeps it.
THEOREM BackendIsConsistent == Spec => []BackendInv
<1>1. Init => BackendInv
  <2> SUFFICES ASSUME Init PROVE BackendInv
    OBVIOUS
  <2>1. OthersInv
    BY DEF Init, OthersInv
  <2>2. Idle /\ frames = <<>> /\ mode = "running" /\ held = {}
    BY DEF Init, Idle
  <2>3. StackInv
    <3>1. frames \in Seq(Frames) /\ Len(frames) = 0
      BY <2>2
    <3>2. 1..0 = {} /\ 1..(0 - 1) = {}
      OBVIOUS
    <3> QED BY <3>1, <3>2 DEF StackInv
  <2>4. CallInv /\ RunningInv /\ ReturningInv /\ FailingInv /\ EntryInv /\ ResultInv
    BY <2>2 DEF CallInv, RunningInv, ReturningInv, FailingInv, EntryInv, ResultInv
  <2>5. NeedsAreHeld
    BY <2>2 DEF NeedsAreHeld
  <2> QED BY <2>1, <2>3, <2>4, <2>5 DEF BackendInv
<1>2. BackendInv /\ [Next]_vars => BackendInv'
  <2> SUFFICES ASSUME BackendInv, [Next]_vars PROVE BackendInv'
    OBVIOUS
  <2>1. CASE Next
    BY <2>1, CallsBeginWell, CloseKeeps, AcquiresKeeps, FreesKeeps, PassesKeeps, FetchesKeeps,
       CallsKeeps, FailsKeeps, ReturnsKeeps, RunsBlockKeeps, StepsBackKeeps, GivesBackKeeps,
       EndsKeeps DEF Next
  <2>2. CASE UNCHANGED vars
    <3>1. UNCHANGED <<held, handles, calls, call, frames, mode>>
      BY <2>2 DEF vars
    <3>2. /\ Ours' = Ours /\ OwnNames' = OwnNames /\ Top' = Top /\ Kept' = Kept
          /\ Idle' = Idle /\ Connections' = Connections
      BY <3>1 DEF Ours, OwnNames, Top, Kept, Keeps, Calling, Idle, Connections
    <3>3. OthersInv' /\ CallInv' /\ NeedsAreHeld'
      BY <3>1, <3>2 DEF BackendInv, OthersInv, CallInv, NeedsAreHeld
    <3>4. StackInv' /\ RunningInv' /\ EntryInv' /\ ResultInv'
      BY <3>1, <3>2 DEF BackendInv, StackInv, RunningInv, EntryInv, ResultInv
    <3>5. ReturningInv' /\ FailingInv'
      BY <3>1, <3>2 DEF BackendInv, ReturningInv, FailingInv, Going, Left
    <3> QED BY <3>3, <3>4, <3>5 DEF BackendInv
  <2> QED BY <2>1, <2>2
<1> QED BY <1>1, <1>2, PTL DEF Spec

\* No way out of any of these functions releases what does not exist: the releases that do
\* not look first, of a body or of a deferred block, find what they release.
THEOREM ReleasesFindWhatTheyRelease == Spec => []FreesWhatIsHeld
<1>1. BackendInv => FreesWhatIsHeld
  <2> SUFFICES ASSUME BackendInv, NEW i \in Releasing, i.op = "free"
               PROVE  Mine(i.what) \in held
    BY DEF FreesWhatIsHeld
  <2>1. CASE At("free") /\ i = Instruction
    <3>1. mode = "running" /\ frames # <<>> /\ ~AtEnd /\ i = Code[Top.fn][Top.pc]
      BY <2>1 DEF At, Instruction
    <3>2. i.what \in OwnNames /\ ~Idle
      BY <3>1, AtInstruction DEF ForwardFact
    <3> QED BY <3>2, OwnName DEF BackendInv
  <2>2. CASE GoesBack /\ InBlock /\ i = Last.block[Top.step + 1]
    <3> DEFINE k == Top.pc - 1
               j == Top.step + 1
    <3>1. /\ Top.fn \in Fn /\ Top.pc \in Nat /\ Top.step \in Nat /\ Top.pc \in 1..End(Top.fn)
      BY <2>2, TopIs DEF BackendInv, GoesBack
    <3>2. k \in DOMAIN Code[Top.fn] /\ k < Top.pc /\ Top.pc = k + 1 /\ j > Top.step
      BY <2>2, <3>1, Numbered DEF InBlock
    <3>3. j \in Block(Top.fn, mode, k) /\ i = Release(Top.fn, k, j)
      BY <2>2 DEF InBlock, Last, Runs, RunsIn, Block, Release
    <3>4. j \in Left(k)
      BY <3>2, <3>3 DEF Left, Remaining
    <3>5. i.what \in OwnNames /\ ~Idle
      BY <2>2, <3>2, <3>3, <3>4, OnTheWay DEF Going
    <3> QED BY <3>5, OwnName DEF BackendInv
  <2> QED BY <2>1, <2>2 DEF Releasing
<1> QED BY <1>1, BackendIsConsistent, PTL

\* Nothing is released under what still needs it.
THEOREM NothingIsReleasedUnderItsUsers == Spec => []NeedsAreHeld
<1>1. BackendInv => NeedsAreHeld
  BY DEF BackendInv
<1> QED BY <1>1, BackendIsConsistent, PTL

\* Between calls only the parts of open handles are left, complete, and the two known leaks.
THEOREM RestIsHandles == Spec => []RestHoldsOnlyHandles
<1>1. BackendInv => RestHoldsOnlyHandles
  <2> SUFFICES ASSUME BackendInv, Idle
               PROVE  /\ \A h \in handles : \A what \in Parts(h) \ {"dependency"} :
                           [h EXCEPT !.what = what] \in held
                      /\ \A r \in held :
                           \/ r.what = "array"
                           \/ r.what = "rows" /\ r.by = "openCursor"
                           \/ \E h \in handles : h.call = r.call /\ r.what \in Parts(h)
    BY DEF RestHoldsOnlyHandles
  <2>1. \A h \in handles : \A what \in Parts(h) \ {"dependency"} : what \in Complete(h.what)
    BY DEF BackendInv, OthersInv, Parts, Complete
  <2>2. \A h \in handles : \A what \in Parts(h) \ {"dependency"} :
          [h EXCEPT !.what = what] \in held
    BY <2>1 DEF BackendInv, OthersInv
  <2>3. held \ Ours = held
    BY NothingIsOurs DEF BackendInv
  <2> QED BY <2>2, <2>3 DEF BackendInv, OthersInv
<1> QED BY <1>1, BackendIsConsistent, PTL
=============================================================================
