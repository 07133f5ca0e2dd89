----------------------------- MODULE MCDesktop -----------------------------
EXTENDS Desktop, TLC

(* All tasks are the user's own.                                           *)
TheUsers == [t \in Clients |-> 1000]
HerAccount == [u \in Users |-> 1000]

AnyCall == Clients \X Methods \X {User, NoUser}

Perms == Permutations(Clients)
=============================================================================
