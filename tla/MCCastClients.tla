--------------------------- MODULE MCCastClients ---------------------------
(* Two mentions, the second of which is a reply to the first.  A page of   *)
(* Lens shows both of them, one of Farcaster only the newest.              *)
EXTENDS CastClients, TLC
MCParent == (1 :> NoCast) @@ (2 :> 1)
MCPageSize == [p \in {"farcaster", "lens"} |-> IF p = "lens" THEN 2 ELSE 1]
=============================================================================
