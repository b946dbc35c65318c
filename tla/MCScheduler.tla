----------------------------- MODULE MCScheduler -----------------------------
(* Three requests, two of them vision requests, of which the generator       *)
(* prefills two at a time: deferral by kind and by cache, prompts that are   *)
(* aborted before they are processed and requests that wait with the uid of  *)
(* an earlier generator all happen.                                          *)
EXTENDS Scheduler
=============================================================================
