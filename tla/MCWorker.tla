------------------------------ MODULE MCWorker ------------------------------
(* Constants for the runs of Worker: two or three dispatches, at most as    *)
(* many agents as dispatches, since every spawn ends with a dispatch        *)
(* started or failed.                                                       *)
EXTENDS Worker

Two   == {"d1", "d2"}
Three == {"d1", "d2", "d3"}

TwoAgents   == 1 .. 2
ThreeAgents == 1 .. 3

\* All of one job, or a second job for the last dispatch.
OneJob  == [d \in Dispatches |-> "j1"]
TwoJobs == [d \in Dispatches |-> IF d = "d2" THEN "j2" ELSE "j1"]

\* Each chunk has its directory, or two dispatches are of one chunk.
OwnDirs   == [d \in Dispatches |-> d]
SharedDir == [d \in Dispatches |-> "d1"]
=============================================================================
