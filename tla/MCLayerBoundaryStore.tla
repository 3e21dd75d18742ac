---------------------- MODULE MCLayerBoundaryStore ----------------------
(* Instance of LayerBoundaryStore for TLC.                                *)
EXTENDS LayerBoundaryStore

CONSTANTS e1, e2, a1
=============================================================================
