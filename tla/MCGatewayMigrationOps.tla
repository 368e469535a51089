------------------------ MODULE MCGatewayMigrationOps ------------------------
(* Instances of GatewayMigrationOps for TLC. *)
EXTENDS GatewayMigrationOps
=============================================================================
