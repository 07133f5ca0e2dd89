------------------------------ MODULE MCDaemon ------------------------------
EXTENDS Daemon, TLC

CONSTANTS root, alice, u1, u2

(* Root's client, and alice's, which owns one of the accounts.             *)
RootAndAlice == (root :> 0) @@ (alice :> 1)
Passwd == (u1 :> 1) @@ (u2 :> 2)

(* Both claim, release, start and stop; the other methods are shared out.  *)
SomeCalls ==
    {root, alice} \X {"Claim"} \X Users
    \cup {root, alice} \X {"Release", "Start", "Stop"} \X {NoUser}
    \cup {<<root, "List", NoUser>>, <<root, "DeleteAll", u2>>,
          <<alice, "Delete", NoUser>>, <<alice, "Get", NoUser>>}
=============================================================================
