----------------------------- MODULE MCDownloads -----------------------------
(* Jobs for the same sharded model: every job fetches all the files.       *)
EXTENDS Downloads
CONSTANTS j1, f1, f2, w1, w2, c1

MCFilesOf == [j \in Jobs |-> Files]
=============================================================================
