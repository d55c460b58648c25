-------------------------- MODULE MCPrinterStatus ---------------------------
(* Instances of PrinterStatus for TLC. *)
EXTENDS PrinterStatus, MCConversations
=============================================================================
