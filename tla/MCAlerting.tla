----------------------------- MODULE MCAlerting -----------------------------
(* Instances of Alerting for TLC.                                          *)
EXTENDS Alerting, TLC

CONSTANTS full, warn, rogue, s1, a1

\* A utilization rule that is sent again after one unit; a rogue rule.
MCThreshold == full :> 2
MCRenotify  == full :> 1 @@ rogue :> 0

\* The utilization rule alone, sent again after two units.
MCOneRenotify == full :> 2

\* Two utilization rules with different thresholds.
MCTwoThresholds == full :> 2 @@ warn :> 1
MCNoRenotify    == full :> 0 @@ warn :> 0
=============================================================================
