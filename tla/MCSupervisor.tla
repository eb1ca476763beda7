---------------------------- MODULE MCSupervisor ----------------------------
(* Instance: three process slots, of which a session's new engine, an old    *)
(* session's, and the holder of the store can all be taken.                  *)
EXTENDS Supervisor

CONSTANTS e1, e2, e3
=============================================================================
