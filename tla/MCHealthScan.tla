---------------------------- MODULE MCHealthScan ----------------------------
(* What TLC needs to check HealthScan.                                     *)
EXTENDS HealthScan, TLC

ChannelSymmetry == Permutations(Channels)
=============================================================================
