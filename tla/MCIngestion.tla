----------------------------- MODULE MCIngestion -----------------------------
(* An instance of Ingestion for TLC. *)
EXTENDS Ingestion
=============================================================================
