--------------------------- MODULE MCIngestReceipts ---------------------------
(* An instance of IngestReceipts for TLC. *)
EXTENDS IngestReceipts
=============================================================================
