--------------------------- MODULE MCTwitterQueue ---------------------------
(***************************************************************************)
(* TwitterQueue with two sends and two searches: one request in progress,  *)
(* one waiting, one added while the worker pauses and one abandoned.       *)
(***************************************************************************)
EXTENDS TwitterQueue, TLC

=============================================================================
