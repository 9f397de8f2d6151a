----------------------------- MODULE MCChannelList -----------------------------
(* A small instance of ChannelList for TLC. *)
EXTENDS ChannelList, TLC

===============================================================================
