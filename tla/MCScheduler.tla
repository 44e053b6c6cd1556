----------------------------- MODULE MCScheduler -----------------------------
(* InferenceScheduler with a few clients.                                  *)
EXTENDS InferenceScheduler

CONSTANTS c1, c2, c3, main, other

\* Two of the three classes: FOREGROUND and MEMORY_EXTRACTION.
TwoClasses == {0, 20}
==============================================================================
