--------------------------- MODULE MCParallelBlock ---------------------------
(* Blocks of three branches, each with its policy and what may happen in it. *)
EXTENDS ParallelBlock

Block(policy, wait, fail, end, n) ==
    [policy |-> policy, wait |-> wait, fail |-> fail, end |-> end, faults |-> n]

MCBlocks == {Block("fail_fast", Branch, {1, 2}, {}, 0),
             Block("continue_on_error", Branch, {1}, {}, 0),
             Block("fail_fast", {1, 2}, {1}, {3}, 1)}
=============================================================================
