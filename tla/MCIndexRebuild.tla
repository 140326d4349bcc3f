--------------------------- MODULE MCIndexRebuild ---------------------------
(* Small instances of IndexRebuild for TLC.                                *)
EXTENDS IndexRebuild
=============================================================================
