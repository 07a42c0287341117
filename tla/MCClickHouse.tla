---------------------------- MODULE MCClickHouse -----------------------------
(* Instances of ClickHouseAnalytics for TLC. *)
EXTENDS ClickHouseAnalytics, TLC
=============================================================================
