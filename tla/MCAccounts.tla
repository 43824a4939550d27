------------------------------ MODULE MCAccounts ------------------------------
(* Accounts on a small instance: two origins of one host, one of another. *)
EXTENDS Accounts, TLC

CONSTANTS a1, a2, b1, hostA, hostB

MCUrls == {a1, a2, b1}
MCUsable == {a1, a2}  \* b1 stands for plain http: no relying party
MCHostOf == (a1 :> hostA) @@ (a2 :> hostA) @@ (b1 :> hostB)
Symmetry == Permutations(Requests)
=============================================================================
