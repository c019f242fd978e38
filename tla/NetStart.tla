------------------------------ MODULE NetStart ------------------------------
(***************************************************************************)
(* NetOpen with the console: what leaves a loader that has opened its      *)
(* interface, frames to the network and messages to the screen.            *)
(***************************************************************************)
EXTENDS NetOpen, Console

StartInit == Init /\ shown = {}

\* A message of the poll loop, and the end of it.
Say == pc = "opened" /\ sent = {} /\ Report /\ UNCHANGED vars

Scroll == shown # {} /\ shown' = {} /\ UNCHANGED vars

StartNext ==
    \/ shown = {} /\ Next /\ UNCHANGED shown
    \/ Say
    \/ Scroll

StartSpec == StartInit /\ [][StartNext]_<<vars, shown>>
=============================================================================
