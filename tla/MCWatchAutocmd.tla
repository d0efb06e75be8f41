--------------------------- MODULE MCWatchAutocmd ---------------------------
(* Instance of WatchAutocmd: the two events a watch may be for.            *)
EXTENDS WatchAutocmd

BothEvents == {"BufWritePost", "DiagnosticChanged"}
=============================================================================
