----------------------------- MODULE MCPowerHal -----------------------------
(* PowerHal with a thread that gives touch hints and one that controls the *)
(* display, two clusters as on HiKey960.                                   *)
EXTENDS PowerHal

CONSTANTS input, display

MCCallers == {input, display}
MCInteractiveCallers == {display}
MCLowPowerClusters == 1..max_clusters
=============================================================================
