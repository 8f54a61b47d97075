---------------------------- MODULE MCIngestQueue ----------------------------
(* IngestQueue for TLC.                                                      *)
EXTENDS IngestQueue
=============================================================================
