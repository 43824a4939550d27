---------------------------- MODULE MCFeedWorker ----------------------------
(* Small instances of FeedWorker.                                          *)
EXTENDS FeedWorker

CONSTANTS w1, w2, h1, ed1, p1, hub1, site, all, e1, e2
=============================================================================
