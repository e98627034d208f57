----------------------------- MODULE MCProcessor -----------------------------
(* Constants of Processor for TLC. *)
EXTENDS Processor, TLC

CONSTANTS e1, e2, s1, m1

MCExtracts == {e1, e2}

MCStreams == {s1}

MCMetadatas == {m1}

Symmetry == Permutations(MCExtracts)
=============================================================================
