------------------------------ MODULE MCExportCache ------------------------------
(* Two commands, one `cache clear`, and a binary that is rebuilt. *)
EXTENDS ExportCache
=============================================================================
