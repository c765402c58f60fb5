------------------------------ MODULE MCPipeline ------------------------------
(* Small instances of Pipeline for TLC. *)
EXTENDS Pipeline

MCUids == 1..Requests
MCCheckpoints == 0..(Stages + 1)
MCTransitions == {<< k - 1, k >> : k \in 1..Stages}
                   \cup {<< k, Stages + 1 >> : k \in 1..Stages}
=============================================================================
