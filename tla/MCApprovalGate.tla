--------------------------- MODULE MCApprovalGate ---------------------------
(***************************************************************************)
(* Instances of ApprovalGate for TLC.                                      *)
(***************************************************************************)
EXTENDS ApprovalGate, TLC

CONSTANTS q1, q2

TwoResolvers == {q1, q2}

-----------------------------------------------------------------------------
(* What the documentation or a comment says of the program and the code     *)
(* does not do.                                                             *)

\* docs/operations/feature-gates.md, Gates disabled: gate declarations in YAML
\* are not executed, so the job goes on.
DisabledGateIsNotExecuted == rpc = "start" ~> rpc = "passed"
=============================================================================
