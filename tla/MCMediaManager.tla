--------------------------- MODULE MCMediaManager ---------------------------
EXTENDS MediaManager, TLC

CONSTANTS a, a2, b, c1, c2, u1, u2, p1, t1

\* a and a2 are two names of one content; nobody uploads b, which is only
\* referred to, so that a Post may have to lock two hashes.
Hashing == a :> 1 @@ a2 :> 1 @@ b :> 2
TestUploads == {<<u1, a>>, <<u2, a>>, <<u2, a2>>}

Ref(m, f) == [media |-> m, form |-> f]
TestBodies == {{Ref(a, "foreign")}, {Ref(a, "local"), Ref(b, "local")}}

WriterIsU2 == p1 :> u2
EditorIsU1 == t1 :> u1

Tasks == Permutations({c1, c2})
=============================================================================
