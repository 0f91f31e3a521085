---------------------------- MODULE MCTrackerSync ------------------------------
(* A small instance of TrackerSync for TLC. The second content of the Task's  *)
(* projection is that of a Task that has ended; four versions let an issue be *)
(* written, edited by somebody else, decided about and written over, and be   *)
(* edited once more behind a request that is late.                            *)
EXTENDS TrackerSync

MCLast == 2
MCEnded == {MCLast}
===============================================================================
