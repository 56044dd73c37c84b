-------------------------- MODULE MCAsyncOperations --------------------------
(***************************************************************************)
(* A small instance of AsyncOperations: two clients, two operations, and   *)
(* other threads that open, execute and close synchronously meanwhile.     *)
(***************************************************************************)
EXTENDS AsyncOperations, TLC

\* Clients differ in their names alone.
Clients == Permutations(Client)

MCDriver == {BuiltinDriver}

OpenRequest == [call |-> "open", kind |-> "adbc"]

UnknownKindRequest == [call |-> "open", kind |-> "custom"]

ExecuteRequest == [call |-> "execute", connection_id |-> 1]

CursorRequest == [call |-> "open_cursor", connection_id |-> 1]

OpenAndExecute == {OpenRequest, ExecuteRequest}

OpenAndCursor == {OpenRequest, UnknownKindRequest, CursorRequest}
=============================================================================
