---------------------------- MODULE MCAsyncRead ----------------------------
(* Instances of AsyncRead for TLC: which failures each run allows.          *)
EXTENDS AsyncRead

NoFaults == {}
(* Everything but a failing resubmission, which FullPipeline excludes.      *)
ManyFaults == FaultKinds \ {"resubmit"}
(* A device that stays, but the callback may fail to submit a transfer.     *)
BadResubmits == {"late_abort", "resubmit"}
============================================================================
