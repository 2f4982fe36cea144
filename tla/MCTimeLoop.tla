----------------------------- MODULE MCTimeLoop -----------------------------
(* Small clocks: a run that is never too long makes three calls. *)
EXTENDS TimeLoop

\* -i with no number of runs, and with more runs than are made without gain; runs that
\* end after the first call or later, room for few runs or none
SomeOpts == [X : {-1, 4}, Y : {3}, tx : {0, 2}, TX : {1, 8}]
SomeTimes == {0, 1, 3}
=============================================================================
