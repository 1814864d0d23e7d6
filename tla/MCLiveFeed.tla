------------------------------ MODULE MCLiveFeed ------------------------------
(* An instance of LiveFeed for TLC.                                          *)
EXTENDS LiveFeed
=============================================================================
