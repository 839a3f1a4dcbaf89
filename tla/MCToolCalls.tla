------------------------------- MODULE MCToolCalls -------------------------------
(* Instances of ToolCalls for TLC. *)
EXTENDS ToolCalls, TLC

CONSTANTS c1, c2, reader, open, closed

Readers == [r \in {reader} |-> {"list_repos", "read_file"}]

CallSymmetry == Permutations(Caller)
=============================================================================
