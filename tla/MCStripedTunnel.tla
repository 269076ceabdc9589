--------------------------- MODULE MCStripedTunnel ---------------------------
(***************************************************************************)
(* Instances of StripedTunnel for TLC.                                     *)
(***************************************************************************)
EXTENDS StripedTunnel, TLC

\* Channels are interchangeable (no property picks one).
ChannelSymmetry == Permutations(Channels)
=============================================================================
