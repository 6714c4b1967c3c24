------------------------------- MODULE MCBench -------------------------------
(***************************************************************************)
(* Bench over three pids: an arm of two workers with a supervisor, with a  *)
(* process of another arm, or with a pod still starting.                   *)
(***************************************************************************)
EXTENDS Bench

MCCommands ==
    {[name |-> "size", arm |-> "cr", server |-> ""],
     [name |-> "run", arm |-> "cr", server |-> "svc"],
     [name |-> "run", arm |-> "perseid", server |-> "node"]}
=============================================================================
