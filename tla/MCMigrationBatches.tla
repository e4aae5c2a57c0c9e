------------------------- MODULE MCMigrationBatches -------------------------
(* Instances of MigrationBatches for TLC. *)
EXTENDS MigrationBatches

\* Files with the same bytes and contracts on the same terms.
Twins == {p \in File \X File : p[1] # p[2]}
=============================================================================
