---------------------------- MODULE MCBitTables -----------------------------
(* Words of eight bits: two halves of four.  Every word is asked about.      *)
EXTENDS BitTables

=============================================================================
