--------------------------- MODULE MCDiscordTeam ---------------------------
(***************************************************************************)
(* DiscordTeam on a small instance: a user and a team mate write.          *)
(***************************************************************************)
EXTENDS DiscordTeam, TLC

CONSTANTS user, mate

Plain(a) == [from |-> a, ping |-> FALSE, mate |-> FALSE, team |-> FALSE, topic |-> FALSE, stop |-> FALSE]

\* Chat, a mention, a mention of a mate, a word to the team and a keyword from the
\* user, a word to the team from a mate.
MCPosts ==
    {Plain(user), [Plain(user) EXCEPT !.ping = TRUE], [Plain(user) EXCEPT !.mate = TRUE],
     [Plain(user) EXCEPT !.team = TRUE], [Plain(user) EXCEPT !.topic = TRUE],
     [Plain(mate) EXCEPT !.team = TRUE]}
=============================================================================
