------------------------ MODULE MCQuantizationRun ------------------------
(* Instance of QuantizationRun for TLC.                                    *)
EXTENDS QuantizationRun

CONSTANTS m1, m2
=============================================================================
