--------------------------- MODULE MCWorkflowLocks ---------------------------
(* Three workflows at a time, all but those with two that nest two locks in *)
(* opposite orders.                                                         *)
EXTENDS WorkflowLocksProofs

MCMixes == {SetToSeq(m) : m \in {s \in kSubset(3, Workflows) : \A pair \in Opposed : ~pair \subseteq s}}
MCReserve == {<<"backupStart", "reserve", "recalculate">>}
=============================================================================
