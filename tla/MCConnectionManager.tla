------------------------ MODULE MCConnectionManager ------------------------
(***************************************************************************)
(* A small instance of ConnectionManager.  A program may register a second *)
(* spec for the kind of the builtin one, also while handles of the first   *)
(* are open, and a spec for the kind that has none.                        *)
(***************************************************************************)
EXTENDS ConnectionManager

ReplacingDriver == [kind |-> "adbc", name |-> "replacing"]

CustomDriver == [kind |-> "custom", name |-> "custom"]

MCDriver == {BuiltinDriver, ReplacingDriver, CustomDriver}
=============================================================================
