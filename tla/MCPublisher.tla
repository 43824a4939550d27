---------------------------- MODULE MCPublisher ----------------------------
(* Small instances of Publisher.                                           *)
EXTENDS Publisher

CONSTANTS w1, h1, e1, p1, hub1, hub2, site, all
=============================================================================
