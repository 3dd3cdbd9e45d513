-------------------------- MODULE MCRevokeWorkflow --------------------------
(* Small instances of RevokeWorkflow.                                        *)
EXTENDS RevokeWorkflow
=============================================================================
