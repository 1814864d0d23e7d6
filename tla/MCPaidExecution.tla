--------------------------- MODULE MCPaidExecution ---------------------------
(* Instances of PaidExecution for TLC.                                      *)
EXTENDS PaidExecution, TLC

CoreHandlers == {"create", "hire", "advance", "timeouts"}
ChainOnly == {"chain"}

=============================================================================
