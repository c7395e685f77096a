--------------------------- MODULE MCScanEngine ---------------------------
(* ScanEngine on four regions: one of two chunks that start at addresses     *)
(* of both parities, two of one chunk, and one too small to hold a match.    *)
EXTENDS ScanEngine

MCRegions == << [start |-> 0, end |-> 6], [start |-> 10, end |-> 12],
                [start |-> 12, end |-> 14], [start |-> 16, end |-> 17] >>
=============================================================================
