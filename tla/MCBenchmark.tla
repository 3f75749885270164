----------------------------- MODULE MCBenchmark -----------------------------
(* Small instances of Benchmark for TLC. *)
EXTENDS Benchmark

CONSTANTS k1, k2, w1, w2

Read(k) == [key |-> k, read |-> TRUE]
Write(k) == [key |-> k, read |-> FALSE]

\* A write between reads of its key; two reads that may share a flight and a
\* write of another key.
TwoPlans == {<<Read(k1), Write(k1), Read(k1)>>, <<Read(k1), Read(k1), Write(k2)>>}

WorkerSymmetry == Permutations(Workers)
=============================================================================
