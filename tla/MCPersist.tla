----------------------------- MODULE MCPersist -----------------------------
(* Instance: two bands of two bits.  The two texts share a band and are no  *)
(* copies of each other; a copy has the same fingerprint.                    *)
EXTENDS Persist

CONSTANTS u1, u2

MCFingerprints == {{}, {0}, {0, 2, 3}}
=============================================================================
