---------------------------- MODULE MCEliosEscrow ----------------------------
(* The instance of EliosEscrow for TLC: three accounts, of which one is a   *)
(* contract that may refuse a payment or call back during one.              *)
EXTENDS EliosEscrow

=============================================================================
