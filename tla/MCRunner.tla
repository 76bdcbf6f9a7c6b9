------------------------------ MODULE MCRunner ------------------------------
(* Instances of Runner for TLC. *)
EXTENDS Runner, TLC

\* Runs differ only in their names.
RunSymmetry == Permutations(Runs)

\* The local variables of a call of Run that has returned are gone: states
\* that differ only in them have the same future.
Live(f, r) == IF pc[r] \in Over THEN <<>> ELSE f[r]
LiveView ==
  <<log, checkpoint, pc, msg, given, approved, messages, ran, asked, wrote,
    [r \in Runs |-> <<Live(agent, r), Live(loaded, r), Live(transfer, r),
                      Live(todo, r), Live(pend, r), Live(sig, r)>>]>>
=============================================================================
