------------------------- MODULE MCWorkerCoordinator -------------------------
EXTENDS WorkerCoordinator

\* The third chunk of the manifest has no special-q.
MCEmpty == {2}
==============================================================================
