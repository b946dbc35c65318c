----------------------------- MODULE WindowsPort -----------------------------
(* The block cache and the model table of the Windows port, which share no   *)
(* state: both keep what the memory of the machine has room for.             *)
EXTENDS WindowsCache, WindowsModels

WindowsSpec == CacheSpec /\ WindowsModelsSpec

\* The block cache and the model table of the Windows port account for what they
\* hold, through evictions for room, under pressure and of several threads.
WindowsMemorySound == WindowsCacheExact /\ ModelsTracked
=============================================================================
