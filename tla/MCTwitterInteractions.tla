----------------------- MODULE MCTwitterInteractions ------------------------
(***************************************************************************)
(* TwitterInteractions on small instances: three tweets that may reply to  *)
(* each other, some by target users and one by the bot itself.             *)
(***************************************************************************)
EXTENDS TwitterInteractions, TLC

\* 2 replies to 1 and 3 to 2: threads of up to three tweets.
Chain == [t \in Tweets |-> t - 1]

\* Only 3 is a reply, to 2: the others may be chosen as target tweets.
LastReplies == [t \in Tweets |-> IF t = 3 THEN 2 ELSE 0]

PollSymmetry == Permutations(Polls)
=============================================================================
