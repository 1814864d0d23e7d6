--------------------------- MODULE MCTaskLifecycle ---------------------------
(* Instances of TaskLifecycle for TLC: the sets the cfgs name.              *)
EXTENDS TaskLifecycle, TLC

\* The calls the app itself makes in the normal course of a task.
CoreHandlers == {"create", "hire", "advance", "timeouts"}

\* Everything but the two overrides that put a task back to Assigned.
NoRestartHandlers == AllHandlers \ {"retry", "reassign"}

\* The normal course of a task, with deletion by its owner.
OwnerHandlers == CoreHandlers \cup {"delete"}

HireAndCancel == {"create", "hire", "cancel"}

NoFaults == {}
ChainFaults == {"crash", "chain"}
SafeFaults == {"crash", "dbwrite", "chain"}

WorkerSymmetry == Permutations(Workers)
FullSymmetry ==
  WorkerSymmetry \cup Permutations(Agents) \cup Permutations(Tasks)

=============================================================================
