--------------------------- MODULE MCRustBinding ---------------------------
(***************************************************************************)
(* A small instance of RustBinding.  The C ABI registers no driver, so the *)
(* builtin one is the only one.                                            *)
(***************************************************************************)
EXTENDS RustBinding

MCDriver == {BuiltinDriver}
=============================================================================
