------------------------- MODULE MCMasterController -------------------------
EXTENDS MasterController

\* runtime.py: reconciliation and the execution probe refresh
\* unresolved_submission.
ReconcileWrites == {<<"reconciliation", "unresolved">>}
=============================================================================
