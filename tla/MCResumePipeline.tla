-------------------------- MODULE MCResumePipeline --------------------------
(* Instances of ResumePipeline for TLC. *)
EXTENDS ResumePipeline, TLC
CONSTANTS e1, e2
MCExtracts   == {e1, e2}
MCOneExtract == {e1}
Symmetry == Permutations(MCExtracts)
=============================================================================
