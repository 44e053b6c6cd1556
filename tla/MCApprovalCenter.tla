--------------------------- MODULE MCApprovalCenter ---------------------------
(* The approval center with one agent thread, shutdown on the Qt main thread *)
(* and the worker's thread.                                                  *)
EXTENDS ApprovalCenter

CONSTANTS a1, main, agent, worker
==============================================================================
