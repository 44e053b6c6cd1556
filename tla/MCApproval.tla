------------------------------ MODULE MCApproval ------------------------------
(* An instance of ApprovalManager for TLC.  Which threads play which role   *)
(* is the deployment: the configuration file says which one it describes.   *)
EXTENDS ApprovalManager

CONSTANTS a1, a2, main, agent, voice
==============================================================================
