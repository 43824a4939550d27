------------------------ MODULE MCMediaCancellation ------------------------
EXTENDS MediaCancellation, TLC

CONSTANTS a, c1, c2, u1

\* One file and its owner are enough.
OneHash == a :> 1
OwnerUploads == {<<u1, a>>}
NoAuthors == <<>>
=============================================================================
