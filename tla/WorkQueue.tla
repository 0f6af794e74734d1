----------------------------- MODULE WorkQueue ------------------------------
(***************************************************************************)
(* What the services of eliza that work off a queue have in common: an     *)
(* array, a flag, and a method that pushes and, unless the flag is set,    *)
(* starts the loop that shifts.  To those who put something in it promises *)
(*   - the items come to work in the order in which they joined, one at a  *)
(*     time, and none is left out or comes twice;                          *)
(*   - the worker goes off only when nothing is left in line;              *)
(*   - nothing is lost but by the end of the process.                      *)
(* The request queue of client-twitter and the two queues of plugin-node   *)
(* implement it (TwitterQueue!Work, MediaServices!Videos and               *)
(* MediaServices!Transcriptions).                                          *)
(***************************************************************************)
EXTENDS Sequences

CONSTANTS Items, None

VARIABLES
    up,      \* the process is there
    line,    \* the items that wait, the first in front
    atWork,  \* the item the worker is at, or None
    on       \* there is a worker

workVars == <<up, line, atWork, on>>

Init ==
    /\ up \in BOOLEAN
    /\ line = <<>> /\ atWork = None /\ on = FALSE

\* An item joins the line of a worker that is on, whatever that is doing.
Join(i) ==
    /\ up /\ on
    /\ line' = Append(line, i)
    /\ UNCHANGED <<up, atWork, on>>

\* An item that finds no worker brings one, which begins with it.
Begin(i) ==
    /\ up /\ ~on /\ line = <<>>
    /\ on' = TRUE /\ atWork' = i
    /\ UNCHANGED <<up, line>>

\* The worker lets go of its item and stays on.
Release ==
    /\ atWork # None /\ atWork' = None
    /\ UNCHANGED <<up, line, on>>

\* The first in line has its turn, at once after the last or after a pause.
\* One that nobody waits for any more is over with that.
Turn ==
    /\ on /\ line # <<>>
    /\ line' = Tail(line)
    /\ atWork' \in {Head(line), None}
    /\ UNCHANGED <<up, on>>

\* Nothing is left to do.
GoOff ==
    /\ on /\ line = <<>>
    /\ on' = FALSE /\ atWork' = None
    /\ UNCHANGED <<up, line>>

\* The process ends, and with it the line and the worker.
Lost ==
    /\ up /\ up' = FALSE
    /\ line' = <<>> /\ atWork' = None /\ on' = FALSE

Restart ==
    /\ ~up /\ up' = TRUE
    /\ UNCHANGED <<line, atWork, on>>

Next ==
    \/ \E i \in Items : Join(i) \/ Begin(i)
    \/ Release \/ Turn \/ GoOff \/ Lost \/ Restart

Spec == Init /\ [][Next]_workVars
=============================================================================
