--------------------------- MODULE MCWatchStream ---------------------------
(* Model values of the runs of WatchStream are given in the .cfg files.    *)
EXTENDS WatchStream
=============================================================================
