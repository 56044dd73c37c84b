--------------------------- MODULE MCNodeBinding ---------------------------
(***************************************************************************)
(* Three calls on a pool of two threads: enough for an inspection, a       *)
(* second one on the same thread and a call on another, or for two awaits  *)
(* that occupy the pool while a third call waits for a thread.             *)
(***************************************************************************)
EXTENDS NodeBinding
=============================================================================
