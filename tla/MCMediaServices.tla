-------------------------- MODULE MCMediaServices ---------------------------
(* u1 is an mp4 file, u2 has captions and, like u1, no id of its own; u3   *)
(* is on YouTube and has no captions.  Two callers of u1 meet over its     *)
(* files, two of u2 over its cache entry; u1 and u3 together bring three   *)
(* jobs to the transcription.                                              *)
EXTENDS MediaServices, TLC
CONSTANTS c1, c2, c3, u1, u2, u3
MCAsked == {(c1 :> u1) @@ (c2 :> u1) @@ (c3 :> u2), (c1 :> u3) @@ (c2 :> u2) @@ (c3 :> u2),
            (c1 :> u1) @@ (c2 :> u3) @@ (c3 :> u2)}
=============================================================================
