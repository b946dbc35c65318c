----------------------------- MODULE StateFiles -----------------------------
(* What the server keeps in files of its state directory: the responses and  *)
(* the counters.  The two share nothing.                                     *)
EXTENDS ResponseStore, Metrics

FilesSpec == StoreSpec /\ MetricsSpec

\* What the server keeps in files comes back whole after a crash or a start:
\* responses with their history, and counters that agree with each other.
FilesSurvive == StoreConsistent /\ MetricsKept
=============================================================================
