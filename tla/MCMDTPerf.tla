----------------------------- MODULE MCMDTPerf -----------------------------
(* Small instance of MDTPerf: streams of at most MaxInstructions           *)
(* instructions, one transfer width, two runtime costs.                    *)
EXTENDS Timeline

MCTransferBytes == {64}
MCRuntimeCosts  == {0, 8}
=============================================================================
