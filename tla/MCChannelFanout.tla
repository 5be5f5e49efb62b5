-------------------------- MODULE MCChannelFanout --------------------------
(***************************************************************************)
(* Instances of ChannelFanout for TLC.                                     *)
(***************************************************************************)
EXTENDS ChannelFanout
=============================================================================
