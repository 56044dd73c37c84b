--------------------------- MODULE MCErrorChannel ---------------------------
(***************************************************************************)
(* An instance of ErrorChannel: a binding that calls the C ABI from        *)
(* several threads, with calls of every kind.                              *)
(***************************************************************************)
EXTENDS ErrorChannel

CAbi == {"clearing", "metadata", "await"}

MetadataOnly == {"metadata"}
=============================================================================
