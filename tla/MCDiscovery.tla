---------------------------- MODULE MCDiscovery ----------------------------
(* Instance: two days, lists of four rows.  The second list has a new domain *)
(* at its top and the row without a domain elsewhere.                        *)
EXTENDS Discovery

CONSTANTS a, b, c, d

MCLists == << <<a, b, Junk, c>>, <<d, a, b, Junk>> >>
=============================================================================
