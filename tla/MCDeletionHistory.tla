-------------------------- MODULE MCDeletionHistory --------------------------
(* Small instances of DeletionHistory for TLC.                             *)
EXTENDS MCDeletion, DeletionHistory
=============================================================================
