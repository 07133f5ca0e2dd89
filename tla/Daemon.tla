------------------------------- MODULE Daemon -------------------------------
(***************************************************************************)
(* The D-Bus front of elanprintd (crates/elanprintd/src/main.rs): calls of *)
(* several clients, the tasks of verifications and enrolments, the sleep   *)
(* listener and the shutdown, which share the worker's mutex, the busy     *)
(* flag of OpState and the one cancellation token `op_cancel'.             *)
(*                                                                         *)
(* What the worker does under its mutex is module Worker's; here it is     *)
(* what a call does to the claim.  zbus is external: a method with         *)
(* `&mut self' holds the interface's write lock from start to return, a    *)
(* property getter needs the read lock, and a client waits for its answer. *)
(***************************************************************************)
EXTENDS Integers, Sequences

CONSTANTS Clients,    \* connections to the bus
          Users,      \* accounts
          Uid,        \* each client's uid, as the bus knows it
          Account,    \* each account's uid, as NSS knows it
          Requests,   \* bound: the calls <<client, method, user>> that are made
          MaxPrints,  \* fingers one account may have enrolled
          MaxEnders,  \* bound: finished tasks that still have to end
          NoUser, NoClient, NoOp, NoUid

(* An operation that has taken the busy flag: who started it and for whom. *)
Ops == [by : Clients, user : Users, acting : Users \cup {NoUser},
        at : {"begun", "spawned", "waiting", "running"}, cancelled : BOOLEAN]

ASSUME DaemonAssumption ==
    /\ Uid \in [Clients -> Nat] /\ Account \in [Users -> Nat] /\ NoUid \notin Nat
    /\ MaxPrints \in Nat /\ MaxEnders \in Nat \ {0}
    /\ NoUser \notin Users /\ NoClient \notin Clients /\ NoOp \notin Ops
    /\ Clients \cap {"op", "sleep", "main"} = {}

VARIABLES
    method, target, pc, left,  \* of each client's call
    iface,     \* the client whose call holds the interface's write lock
    line,      \* who has asked for the worker's mutex; the first one holds it
    claimed,   \* OpState's user
    busy,
    op,        \* the operation whose OpToken is alive, or NoOp
    token,     \* op_cancel: "none", the token of `op', or one of an ended task
    enders,    \* tasks that have let go of the worker and not yet of op_cancel
    sleep,     \* the sleep listener
    main       \* the main task

call  == <<method, target, pc, left>>
locks == <<iface, line>>
flags == <<claimed, busy>>
task  == <<op, token, enders>>
vars  == <<call, locks, flags, task, sleep, main>>

Methods == {"Claim", "Release", "List", "Delete", "DeleteAll", "Start", "Stop", "Get"}

(* Those that ask who the caller is.                                       *)
Guarded == {"Claim", "Delete", "DeleteAll", "Start"}

Init ==
    /\ method = [c \in Clients |-> "Get"]
    /\ target = [c \in Clients |-> NoUser]
    /\ pc = [c \in Clients |-> "idle"]
    /\ left = [c \in Clients |-> 0]
    /\ iface = NoClient /\ line = <<>>
    /\ claimed = NoUser /\ busy = FALSE
    /\ op = NoOp /\ token = "none" /\ enders = 0
    /\ sleep = "listening" /\ main = "serving"

-----------------------------------------------------------------------------
Holds(party) == line # <<>> /\ Head(line) = party
Join(party) == line' = Append(line, party)
Leave == line' = Tail(line)

Goto(c, label) == pc' = [pc EXCEPT ![c] = label] /\ UNCHANGED method

(* The call returns, to its client, and gives the interface back.          *)
Return(c) ==
    /\ pc' = [pc EXCEPT ![c] = "idle"]
    /\ iface' = NoClient
    /\ method' = [method EXCEPT ![c] = "Get"]
    /\ target' = [target EXCEPT ![c] = NoUser]

(* op_cancel.take() and cancel(): it reaches the operation only if the     *)
(* token there is the operation's.                                         *)
StopRunning ==
    /\ token' = "none"
    /\ op' = IF token = "op" THEN [op EXCEPT !.cancelled = TRUE] ELSE op

(* lookup_uid: the account's uid, or none when the name is unknown to NSS, *)
(* getent cannot be run, or a backend takes longer than LOOKUP_TIMEOUT.    *)
LookupUid(u) == {Account[u], NoUid}

(* Mutant: a lookup that fails lets everybody through.                     *)
MayActUnknown(caller, uid) == caller = 0 \/ uid \in {caller, NoUid}

MayAct(caller, uid) == caller = 0 \/ uid = caller

-----------------------------------------------------------------------------
(* A client sends a call, with the user it names if the method takes one.  *)
Call(c, m, u) ==
    /\ pc[c] = "idle"
    /\ u = NoUser <=> m \notin {"Claim", "DeleteAll"}
    /\ method' = [method EXCEPT ![c] = m]
    /\ target' = [target EXCEPT ![c] = u]
    /\ pc' = [pc EXCEPT ![c] = "sent"]
    /\ UNCHANGED <<left, locks, flags, task, sleep, main>>

(* A property: the read lock, no wait for the worker.                      *)
Get(c) ==
    /\ pc[c] = "sent" /\ method[c] = "Get"
    /\ iface = NoClient
    /\ Goto(c, "idle")
    /\ UNCHANGED <<target, left, locks, flags, task, sleep, main>>

(* Release, List: nobody is asked who they are.                            *)
EnterUnguarded(c) ==
    /\ pc[c] = "sent" /\ iface = NoClient
    /\ \/ method[c] = "Stop" /\ StopRunning
          /\ Return(c) /\ UNCHANGED line
       \/ method[c] = "Release" /\ StopRunning
          /\ iface' = c /\ Join(c) /\ Goto(c, "lock") /\ UNCHANGED target
       \/ method[c] = "List" /\ UNCHANGED <<op, token>>
          /\ iface' = c /\ Join(c) /\ Goto(c, "lock") /\ UNCHANGED target
    /\ UNCHANGED <<left, flags, enders, sleep, main>>

(* guard: the user named by the call, or claimed_target, which is read     *)
(* here and used after the caller's uid and the user's have been looked    *)
(* up, either of which may fail.                                           *)
EnterGuarded(c) ==
    LET user == IF method[c] \in {"Claim", "DeleteAll"} THEN target[c] ELSE claimed
    IN /\ pc[c] = "sent" /\ iface = NoClient
       /\ method[c] \in Guarded
       /\ \/ /\ user # NoUser
             /\ \E uid \in LookupUid(user) : MayAct(Uid[c], uid)
             /\ iface' = c /\ target' = [target EXCEPT ![c] = user]
             /\ Goto(c, "guarded")
          \/ Return(c)
       /\ UNCHANGED <<left, line, flags, task, sleep, main>>

AskForWorker(c) ==
    /\ pc[c] = "guarded" /\ method[c] # "Start"
    /\ Join(c) /\ Goto(c, "lock")
    /\ UNCHANGED <<target, left, iface, flags, task, sleep, main>>

(* start_op: the flag first, the token in op_cancel after another await.   *)
TryBegin(c) ==
    /\ pc[c] = "guarded" /\ method[c] = "Start"
    /\ IF claimed = NoUser \/ busy
       THEN Return(c) /\ UNCHANGED <<busy, op>>
       ELSE /\ busy' = TRUE
            /\ op' = [by |-> c, user |-> target[c], acting |-> NoUser,
                      at |-> "begun", cancelled |-> FALSE]
            /\ Goto(c, "begun") /\ UNCHANGED <<target, iface>>
    /\ UNCHANGED <<left, line, claimed, token, enders, sleep, main>>

SetToken(c) ==
    /\ pc[c] = "begun"
    /\ token' = "op"
    /\ op' = [op EXCEPT !.at = "spawned"]
    /\ Return(c)
    /\ UNCHANGED <<left, line, flags, enders, sleep, main>>

-----------------------------------------------------------------------------
(* Calls that hold the worker's mutex.                                     *)

(* Mutant: a running operation does not keep a claim out.                  *)
ClaimWhileBusy(c) ==
    /\ pc[c] = "lock" /\ Holds(c) /\ method[c] = "Claim"
    /\ \/ claimed \in {NoUser, target[c]} /\ claimed' = target[c]
       \/ UNCHANGED claimed
    /\ Leave /\ Return(c)
    /\ UNCHANGED <<left, busy, task, sleep, main>>

(* Worker::claim: nobody else's claim and no operation, and the sensor     *)
(* answers.                                                                *)
Claim(c) ==
    /\ pc[c] = "lock" /\ Holds(c) /\ method[c] = "Claim"
    /\ \/ ~busy /\ claimed \in {NoUser, target[c]} /\ claimed' = target[c]
       \/ UNCHANGED claimed
    /\ Leave /\ Return(c)
    /\ UNCHANGED <<left, busy, task, sleep, main>>

Release(c) ==
    /\ pc[c] = "lock" /\ Holds(c) /\ method[c] = "Release"
    /\ claimed' = NoUser
    /\ Leave /\ Return(c)
    /\ UNCHANGED <<left, busy, task, sleep, main>>

(* Mutant: an error path that keeps the worker's guard.                    *)
ListOrDeleteKept(c) ==
    /\ pc[c] = "lock" /\ Holds(c) /\ method[c] \in {"List", "Delete"}
    /\ Return(c)
    /\ UNCHANGED <<left, line, flags, task, sleep, main>>

(* One list or one delete, done or failed.                                 *)
ListOrDelete(c) ==
    /\ pc[c] = "lock" /\ Holds(c) /\ method[c] \in {"List", "Delete"}
    /\ Leave /\ Return(c)
    /\ UNCHANGED <<left, flags, task, sleep, main>>

(* DeleteEnrolledFingers lists, and then takes the mutex anew for each of  *)
(* the fingers, until one fails.                                           *)
DeleteAll(c) ==
    /\ pc[c] = "lock" /\ Holds(c) /\ method[c] = "DeleteAll"
    /\ Leave
    /\ \/ \E n \in 1..MaxPrints : left' = [left EXCEPT ![c] = n]
          /\ left[c] = 0 /\ Goto(c, "guarded") /\ UNCHANGED <<iface, target>>
       \/ /\ left[c] > 1 /\ left' = [left EXCEPT ![c] = @ - 1]
          /\ Goto(c, "guarded") /\ UNCHANGED <<iface, target>>
       \/ left' = [left EXCEPT ![c] = 0] /\ Return(c)
    /\ UNCHANGED <<flags, task, sleep, main>>

-----------------------------------------------------------------------------
(* The task of an operation: it takes the mutex, acts for the claim it     *)
(* finds, gives up flag and mutex, and clears op_cancel after that.        *)
OpAsks ==
    /\ op # NoOp /\ op.at = "spawned"
    /\ op' = [op EXCEPT !.at = "waiting"] /\ Join("op")
    /\ UNCHANGED <<call, iface, flags, token, enders, sleep, main>>

(* Mutant: the task takes the flag that its own start has taken.           *)
OpRunsUnlessBusy ==
    /\ op # NoOp /\ op.at = "waiting" /\ Holds("op") /\ ~busy
    /\ op' = [op EXCEPT !.at = "running", !.acting = claimed]
    /\ UNCHANGED <<call, locks, flags, token, enders, sleep, main>>

(* Mutant: the OpToken does not live as long as the operation.             *)
OpRunsUnflagged ==
    /\ op # NoOp /\ op.at = "waiting" /\ Holds("op")
    /\ op' = [op EXCEPT !.at = "running", !.acting = claimed]
    /\ busy' = FALSE
    /\ UNCHANGED <<call, locks, claimed, token, enders, sleep, main>>

OpRuns ==
    /\ op # NoOp /\ op.at = "waiting" /\ Holds("op")
    /\ op' = [op EXCEPT !.at = "running", !.acting = claimed]
    /\ UNCHANGED <<call, locks, flags, token, enders, sleep, main>>

OpEnds ==
    /\ op # NoOp /\ op.at = "running" /\ enders < MaxEnders
    /\ op' = NoOp /\ busy' = FALSE
    /\ token' = IF token = "op" THEN "ended" ELSE token
    /\ enders' = enders + 1
    /\ Leave
    /\ UNCHANGED <<call, iface, claimed, sleep, main>>

End ==
    /\ enders > 0
    /\ enders' = enders - 1 /\ token' = "none"
    /\ UNCHANGED <<call, locks, flags, op, sleep, main>>

-----------------------------------------------------------------------------
(* PrepareForSleep, before, when op_cancel is emptied, and after.  The     *)
(* listener queues for the worker in a later step: an operation may take   *)
(* the flag, or store its token, in between.  The claim stays.             *)
SleepSignal ==
    /\ sleep = "listening"
    /\ \/ StopRunning
       \/ UNCHANGED <<op, token>>
    /\ sleep' = "ask"
    /\ UNCHANGED <<call, locks, flags, enders, main>>

SleepAsks ==
    /\ sleep = "ask"
    /\ sleep' = "lock" /\ Join("sleep")
    /\ UNCHANGED <<call, iface, flags, task, main>>

(* Mutant: a suspend that keeps the worker until no operation is left.     *)
SuspendWhenFree ==
    /\ sleep = "lock" /\ Holds("sleep") /\ ~busy
    /\ sleep' = "listening" /\ Leave
    /\ UNCHANGED <<call, iface, flags, task, main>>

SuspendOrResume ==
    /\ sleep = "lock" /\ Holds("sleep")
    /\ sleep' = "listening" /\ Leave
    /\ UNCHANGED <<call, iface, flags, task, main>>

(* SIGTERM or SIGINT: the main task, too, cancels what it finds and then   *)
(* queues for the worker, while calls are still being served.              *)
Terminate ==
    /\ main = "serving"
    /\ StopRunning
    /\ main' = "ask"
    /\ UNCHANGED <<call, locks, flags, enders, sleep>>

MainAsks ==
    /\ main = "ask"
    /\ main' = "lock" /\ Join("main")
    /\ UNCHANGED <<call, iface, flags, task, sleep>>

(* Mutant: a shutdown that waits for the last operation to end.            *)
ExitWhenFree ==
    /\ main = "lock" /\ Holds("main") /\ ~busy
    /\ main' = "exited" /\ sleep' = "gone" /\ pc' = [c \in Clients |-> "gone"]
    /\ claimed' = NoUser /\ op' = NoOp /\ token' = "none"
    /\ iface' = NoClient /\ line' = <<>> /\ enders' = 0
    /\ UNCHANGED <<method, target, left, busy>>

(* The process is gone, with everything that ran in it.                    *)
Exit ==
    /\ main = "lock" /\ Holds("main")
    /\ main' = "exited" /\ sleep' = "gone" /\ pc' = [c \in Clients |-> "gone"]
    /\ claimed' = NoUser /\ busy' = FALSE /\ op' = NoOp /\ token' = "none"
    /\ iface' = NoClient /\ line' = <<>> /\ enders' = 0
    /\ UNCHANGED <<method, target, left>>

-----------------------------------------------------------------------------
Enter(c) == Get(c) \/ EnterUnguarded(c) \/ EnterGuarded(c)

Serve(c) ==
    \/ AskForWorker(c) \/ TryBegin(c) \/ SetToken(c)
    \/ Claim(c) \/ Release(c) \/ ListOrDelete(c) \/ DeleteAll(c)

Tasks ==
    \/ OpAsks \/ OpRuns \/ End
    \/ SleepAsks \/ SuspendOrResume \/ MainAsks \/ Exit

Next ==
    \/ \E c \in Clients : Enter(c) \/ Serve(c)
    \/ \E c \in Clients, m \in Methods, u \in Users \cup {NoUser} :
          <<c, m, u>> \in Requests /\ Call(c, m, u)
    \/ Tasks \/ OpEnds \/ SleepSignal \/ Terminate

Spec == Init /\ [][Next]_vars

(* tokio runs every task that can run, and its mutex is first come, first  *)
(* served.  zbus gives the interface's lock to every call in the end.  An  *)
(* operation ends: each touch-wait has a timeout, and nobody fails touches *)
(* for ever.                                                               *)
Fairness ==
    /\ \A c \in Clients : SF_vars(Enter(c)) /\ WF_vars(Serve(c))
    /\ WF_vars(OpAsks \/ OpRuns) /\ WF_vars(OpEnds) /\ WF_vars(End)
    /\ WF_vars(SleepAsks \/ SuspendOrResume) /\ WF_vars(MainAsks \/ Exit)

FairSpec == Spec /\ Fairness

-----------------------------------------------------------------------------
Parties == Clients \cup {"op", "sleep", "main"}

CallOK ==
    /\ method \in [Clients -> Methods]
    /\ target \in [Clients -> Users \cup {NoUser}]
    /\ pc \in [Clients -> {"idle", "sent", "guarded", "begun", "lock", "gone"}]
    /\ left \in [Clients -> 0..MaxPrints]
    /\ iface \in Clients \cup {NoClient}

TaskOK ==
    /\ claimed \in Users \cup {NoUser} /\ busy \in BOOLEAN
    /\ op \in Ops \cup {NoOp}
    /\ token \in {"none", "op", "ended"} /\ enders \in 0..MaxEnders
    /\ sleep \in {"listening", "ask", "lock", "gone"}
    /\ main \in {"serving", "ask", "lock", "exited"}

TypeOK == CallOK /\ line \in Seq(Parties) /\ TaskOK

(* An operation reads the claim when it gets the worker, long after the    *)
(* guard let its caller in.  A release may have ended that claim, and      *)
(* another client may be waiting with its own; the operation still acts    *)
(* for the user it was started for, by root or by that user, or for        *)
(* nobody.  A claim and a delete, too, wait for the worker after their     *)
(* guard: their user is then still root's or the caller's to name, and a   *)
(* delete's is still the one who has the claim.                            *)
ActsForGuardedUser ==
    /\ op # NoOp /\ op.at = "running" /\ op.acting # NoUser =>
          op.acting = op.user /\ Uid[op.by] \in {0, Account[op.acting]}
    /\ \A c \in Clients :
          pc[c] = "lock" /\ method[c] \in Guarded =>
              /\ target[c] # NoUser /\ Uid[c] \in {0, Account[target[c]]}
              /\ method[c] = "Delete" => claimed = target[c]

(* A claim comes only after the one before it has gone, while no operation *)
(* has the flag, and from root or the user it names; all else that changes *)
(* it ends it.                                                             *)
ClaimChanges ==
    [][claimed' \notin {claimed, NoUser} =>
          /\ claimed = NoUser /\ op = NoOp
          /\ \E c \in Clients : /\ method[c] = "Claim" /\ target[c] = claimed'
                               /\ Uid[c] \in {0, Account[claimed']}]_vars

(* A token lies in op_cancel under the name of the running operation only  *)
(* while its flag is up, so a stop never cancels an operation that the     *)
(* stopping client cannot have seen.                                       *)
BusyWhileOp == (busy <=> op # NoOp) /\ (token = "op" => busy)

(* A call past its guard holds the interface, and only it can be between   *)
(* the busy flag and op_cancel.                                            *)
IfaceInv ==
    \A c \in Clients :
        /\ pc[c] \in {"guarded", "begun", "lock"} => iface = c
        /\ pc[c] = "begun" => op # NoOp /\ op.at = "begun" /\ op.by = c
                             /\ method[c] = "Start"

(* What the guard has checked still holds when the call's turn comes, for  *)
(* the flag or for the worker: no claim or release can run meanwhile.      *)
GuardInv ==
    \A c \in Clients :
        pc[c] \in {"guarded", "lock"} /\ method[c] \in Guarded =>
            /\ target[c] # NoUser /\ Uid[c] \in {0, Account[target[c]]}
            /\ method[c] \in {"Delete", "Start"} => claimed = target[c]

(* While an operation has the flag its user's claim may go, and no other   *)
(* user's come; a running one holds the worker, and with it the claim.     *)
OpInv ==
    op # NoOp =>
        /\ Uid[op.by] \in {0, Account[op.user]}
        /\ {claimed, op.acting} \subseteq {NoUser, op.user}
        /\ op.at = "running" => Holds("op") /\ op.acting = claimed

IInv == TypeOK /\ IfaceInv /\ GuardInv /\ OpInv /\ BusyWhileOp

(* Every call is answered, however many clients, operations and sleep      *)
(* signals are in line for the worker.                                     *)
CallsReturn == \A c \in Clients : pc[c] = "sent" ~> pc[c] \in {"idle", "gone"}

(* An operation whose flag was taken gets the worker: the flag is not      *)
(* taken again on the way (OpToken, "Taking it twice once stopped every    *)
(* spawned op from reaching the device").                                  *)
OpReachesWorker == busy ~> (busy /\ op.at = "running") \/ main = "exited"

(* The handle is dropped for a suspend, and a terminated daemon releases   *)
(* the sensor and exits, whatever is running, and whatever is started      *)
(* after the one operation that was cancelled.                             *)
SleepIsFollowed == sleep = "ask" ~> sleep \in {"listening", "gone"}
ExitIsReached == main = "ask" ~> main = "exited"

-----------------------------------------------------------------------------
(* docs/dbus-device.xml:448 says of VerifyStop that it must "Stop an       *)
(* on-going fingerprint verification": a stop that comes while an          *)
(* operation has the worker cancels it.                                    *)
StopReachesOp ==
    [][\A c \in Clients :
          /\ pc[c] = "sent" /\ method[c] = "Stop" /\ pc'[c] = "idle"
          /\ op # NoOp /\ op.at = "running"
          => op'.cancelled]_vars
=============================================================================
