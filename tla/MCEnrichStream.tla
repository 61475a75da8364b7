--------------------------- MODULE MCEnrichStream ---------------------------
(***************************************************************************)
(* Instances of EnrichStream: two jobs, the first one's table can be        *)
(* cleared, and channels that hold a single event.                          *)
(***************************************************************************)
EXTENDS EnrichStream

CONSTANTS v1, v2

MCJobOf == [ip |-> 1, domain |-> 2]
=============================================================================
