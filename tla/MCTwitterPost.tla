--------------------------- MODULE MCTwitterPost ---------------------------
(* TwitterPost with two tweets, one of which answers the other.            *)
EXTENDS TwitterPost

CONSTANTS l1, t1, t2

\* t2 replies to t1.
Answering == [t \in {t1, t2} |-> IF t = t2 THEN t1 ELSE NoTweet]

\* A reaction and both answers; any of them may fail.
Choices == {{"like", "quote", "reply"}}
=============================================================================
