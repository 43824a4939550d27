--------------------------- MODULE MCServerLifecycle ---------------------------
(* Small instances of ServerLifecycle.                                     *)
EXTENDS ServerLifecycle

CONSTANTS j1, l1, u1, u2, o1
=============================================================================
