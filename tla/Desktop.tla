------------------------------ MODULE Desktop ------------------------------
(***************************************************************************)
(* The desktop client (crates/elanprint-login) on top of the daemon: each  *)
(* login, enrolment and delete is a task (src/client.rs) that calls the    *)
(* daemon of module Daemon, one call at a time, and the window (src/app.rs)*)
(* follows one task at most.  A task that is cancelled, or whose answer    *)
(* the window has seen, still has to stop its operation and to release the *)
(* sensor, and the next task may start meanwhile.                          *)
(*                                                                         *)
(* The daemon emits an operation's signals from a task of their own, to    *)
(* everybody who listens: they may come after the operation has ended and  *)
(* are not marked with it.  The clients of Daemon are the tasks here.      *)
(***************************************************************************)
EXTENDS Daemon

CONSTANT User  \* the account the client runs as

ASSUME DesktopAssumption ==
    /\ User \in Users /\ (\A c \in Clients : Uid[c] = Account[User])
    /\ Clients \X Methods \X {User, NoUser} \subseteq Requests

VARIABLES
    kind,     \* what each task is for
    at,       \* its place in client.rs
    quit,     \* tasks whose token the window has cancelled
    heard,    \* tasks with a terminal status in their stream
    shown,    \* the task whose events the window reads, or NoClient
    deleting, \* delete_pending
    runs,     \* the kind of the operation that has not said its end, or "none"
    signals,  \* terminal statuses still to be sent, by kind
    lost      \* a task has failed between its claim and its release

app    == <<kind, at, quit, heard, shown, deleting, runs, signals, lost>>
system == <<vars, app>>

Kinds == {"login", "enroll", "delete"}
Touches == {"login", "enroll"}

AppInit ==
    /\ Init
    /\ kind = [t \in Clients |-> "login"] /\ at = [t \in Clients |-> "none"]
    /\ quit = {} /\ heard = {}
    /\ shown = NoClient /\ deleting = FALSE
    /\ runs = "none" /\ signals = {} /\ lost = FALSE

-----------------------------------------------------------------------------
(* The window.                                                             *)
Spawn(t, k) ==
    /\ at[t] = "none" /\ pc[t] = "idle"
    /\ at' = [at EXCEPT ![t] = "begin"] /\ kind' = [kind EXCEPT ![t] = k]

(* start_login, start_enroll: not while it follows a task.                 *)
StartTouch(t, k) ==
    /\ k \in Touches /\ shown = NoClient
    /\ k = "enroll" => ~deleting
    /\ Spawn(t, k)
    /\ shown' = t
    /\ UNCHANGED <<vars, quit, heard, deleting, runs, signals, lost>>

(* request_delete, confirmed.  A cancelled task may still be at work.      *)
StartDelete(t) ==
    /\ shown = NoClient /\ ~deleting
    /\ Spawn(t, "delete")
    /\ deleting' = TRUE
    /\ UNCHANGED <<vars, quit, heard, shown, runs, signals, lost>>

(* Mutant: a cancel with nothing to cancel.                                *)
CancelNobody ==
    /\ quit' = quit \cup {shown} /\ shown' = NoClient
    /\ UNCHANGED <<vars, kind, at, heard, deleting, runs, signals, lost>>

(* cancel_login, logout, cancel_enroll.                                    *)
CancelTask ==
    /\ shown # NoClient
    /\ quit' = quit \cup {t \in {shown} : at[t] # "none"} /\ shown' = NoClient
    /\ UNCHANGED <<vars, kind, at, heard, deleting, runs, signals, lost>>

(* poll: an answer is there as soon as the task has left its loop.         *)
Poll ==
    /\ shown # NoClient /\ at[shown] \in {"none", "acted", "failed", "release", "gone"}
    /\ shown' = NoClient
    /\ UNCHANGED <<vars, kind, at, quit, heard, deleting, runs, signals, lost>>

-----------------------------------------------------------------------------
(* A task.                                                                 *)
Goes(t, label) == at' = [at EXCEPT ![t] = label]

(* It calls the daemon; it goes on when the call has returned.             *)
Calls(t, m, u, label) ==
    /\ Call(t, m, u)
    /\ Goes(t, label)
    /\ UNCHANGED <<kind, quit, heard, shown, deleting, runs, signals, lost>>

BeginTask(t) == at[t] = "begin" /\ Calls(t, "Claim", User, "claim")

AskStages(t) ==
    at[t] = "claimed" /\ kind[t] = "enroll" /\ Calls(t, "Get", NoUser, "stages")

DeleteFinger(t) ==
    at[t] = "claimed" /\ kind[t] = "delete" /\ Calls(t, "Delete", NoUser, "acted")

(* receive_signal: its error leaves the sensor claimed.                    *)
Listen(t) ==
    /\ \/ at[t] = "claimed" /\ kind[t] = "login"
       \/ at[t] = "stages" /\ pc[t] = "idle"
    /\ \/ Goes(t, "listen") /\ UNCHANGED lost
       \/ Goes(t, "gone") /\ lost' = TRUE
    /\ UNCHANGED <<vars, kind, quit, heard, shown, deleting, runs, signals>>

StartOperation(t) == at[t] = "listen" /\ Calls(t, "Start", NoUser, "start")

(* Mutant: the stream is opened only now.                                  *)
ListensLate(t) == at[t] = "drive"

Listens(t) == at[t] \in {"listen", "start", "started", "drive"}

(* The answer to its start has reached it.                                 *)
Drive(t) ==
    /\ at[t] = "started" /\ Goes(t, "drive")
    /\ UNCHANGED <<vars, kind, quit, heard, shown, deleting, runs, signals, lost>>

(* drive, drive_enroll: the token, or a terminal status of its own kind.   *)
StopOperation(t) ==
    /\ at[t] = "drive" /\ (t \in quit \/ t \in heard)
    /\ Calls(t, "Stop", NoUser, "acted")

(* Mutant: a cancelled task just returns.                                  *)
ReleaseUncancelled(t) ==
    \/ /\ at[t] \in {"acted", "failed"} /\ pc[t] = "idle" /\ t \notin quit
       /\ Calls(t, "Release", NoUser, "release")
    \/ /\ at[t] \in {"acted", "failed"} /\ pc[t] = "idle" /\ t \in quit
       /\ Goes(t, "gone")
       /\ UNCHANGED <<vars, kind, quit, heard, shown, deleting, runs, signals, lost>>

ReleaseSensor(t) ==
    /\ at[t] \in {"acted", "failed"} /\ pc[t] = "idle"
    /\ Calls(t, "Release", NoUser, "release")

EndTask(t) ==
    /\ \/ at[t] = "gone"
       \/ at[t] = "release" /\ pc[t] = "idle"
    /\ Goes(t, "none")
    /\ kind' = [kind EXCEPT ![t] = "login"]
    /\ quit' = quit \ {t} /\ heard' = heard \ {t}
    /\ deleting' = (deleting /\ kind[t] # "delete")
    /\ UNCHANGED <<vars, shown, runs, signals, lost>>

-----------------------------------------------------------------------------
(* What the daemon's steps tell a task.  A claim is granted only while no  *)
(* operation runs; an operation is started when its token is set.          *)
Answered(t) ==
    IF pc'[t] # "idle" THEN UNCHANGED at
    ELSE CASE at[t] = "claim" ->
                   \/ Goes(t, "gone") /\ claimed' = claimed
                   \/ /\ pc[t] = "lock" /\ ~busy /\ claimed' = User
                      /\ Goes(t, "claimed")
           [] at[t] = "start" ->
                   Goes(t, IF pc[t] = "begun" THEN "started" ELSE "failed")
           [] OTHER -> UNCHANGED at

DaemonServes(t) ==
    /\ Enter(t) \/ Serve(t)
    /\ Answered(t)
    /\ runs' = IF pc'[t] = "begun" THEN kind[t] ELSE runs
    /\ UNCHANGED <<kind, quit, heard, shown, deleting, signals, lost>>

(* The operation hands its terminal event to the forwarding task, and then *)
(* lets go of the flag and the worker.                                     *)
OperationSays ==
    /\ op # NoOp /\ op.at = "running" /\ runs # "none"
    /\ signals' = signals \cup {runs} /\ runs' = "none"
    /\ UNCHANGED <<vars, kind, at, quit, heard, shown, deleting, lost>>

OperationEnds == runs = "none" /\ OpEnds /\ UNCHANGED app

(* A terminal status is on the bus: all who listen for its kind hear it.   *)
Signal(k) ==
    /\ k \in signals
    /\ signals' = signals \ {k}
    /\ heard' = heard \cup {t \in Clients : Listens(t) /\ kind[t] = k}
    /\ UNCHANGED <<vars, kind, at, quit, shown, deleting, runs, lost>>

DaemonOnly == (OpAsks \/ OpRuns \/ End) /\ UNCHANGED app

-----------------------------------------------------------------------------
TaskStep(t) ==
    \/ BeginTask(t) \/ AskStages(t) \/ DeleteFinger(t) \/ Listen(t)
    \/ StartOperation(t) \/ Drive(t) \/ StopOperation(t)
    \/ ReleaseSensor(t) \/ EndTask(t)

Window ==
    \/ \E t \in Clients, k \in Touches : StartTouch(t, k)
    \/ \E t \in Clients : StartDelete(t)
    \/ CancelTask \/ Poll

AppNext ==
    \/ Window
    \/ \E t \in Clients : TaskStep(t) \/ DaemonServes(t)
    \/ OperationSays \/ OperationEnds \/ DaemonOnly
    \/ \E k \in Touches : Signal(k)

AppSpec == AppInit /\ [][AppNext]_system

-----------------------------------------------------------------------------
Places == {"none", "begin", "claim", "claimed", "stages", "listen", "start",
           "started", "drive", "acted", "failed", "release", "gone"}

AppTypeOK ==
    /\ TypeOK
    /\ kind \in [Clients -> Kinds] /\ at \in [Clients -> Places]
    /\ quit \subseteq Clients /\ heard \subseteq Clients
    /\ shown \in Clients \cup {NoClient} /\ runs \in Touches \cup {"none"}
    /\ signals \subseteq Touches
    /\ deleting \in BOOLEAN /\ lost \in BOOLEAN

AllEnded == \A t \in Clients : at[t] = "none"

(* However tasks overlap, are cancelled and fail, once they have ended the *)
(* client holds no claim that would keep other users from the sensor, and  *)
(* no operation acts for it; only a failed subscription leaves one.        *)
SensorIsReleased ==
    AllEnded /\ ~lost =>
        /\ claimed # User
        /\ ~(op # NoOp /\ op.at = "running" /\ op.acting = User)

(* A task that waits for a finger has the end of its operation still to    *)
(* come: the operation runs, or its terminal status is on the way or there *)
(* already.  None is emitted before the task listens (client.rs:151, "a    *)
(* reply beating the stream is lost").                                     *)
DrivesToTheEnd ==
    \A t \in Clients :
       at[t] = "drive" => runs = kind[t] \/ kind[t] \in signals \/ t \in heard \cup quit

-----------------------------------------------------------------------------
(* Why that is so.                                                         *)

(* Where a task waits for a call, and for which.                           *)
Waits == {<<"claim", "Claim">>, <<"stages", "Get">>, <<"start", "Start">>,
          <<"acted", "Delete">>, <<"acted", "Stop">>, <<"release", "Release">>}

CallInv ==
    \A t \in Clients :
        /\ pc[t] # "idle" => <<at[t], method[t]>> \in Waits
        /\ at[t] \in {"claim", "start"} => pc[t] # "idle"
        /\ at[t] = "claim" => target[t] = User
        /\ at[t] \in {"stages", "listen", "start", "started", "drive"} => kind[t] \in Touches

(* A task that has the claim and still has its release before it.          *)
HasClaim(t) ==
    \/ at[t] \in {"claimed", "stages", "listen", "start", "started", "drive", "acted", "failed"}
    \/ at[t] = "release" /\ pc[t] # "idle"

ClaimInv ==
    /\ claimed \in {NoUser, User}
    /\ claimed = User /\ ~lost => \E t \in Clients : HasClaim(t)

(* From the moment its operation has the flag, its end is still to come.   *)
SignalInv ==
    /\ runs # "none" => op # NoOp
    /\ \A t \in Clients :
           pc[t] = "begun" \/ at[t] \in {"started", "drive"} =>
               runs = kind[t] \/ kind[t] \in signals \/ t \in heard \cup quit

AppIInv == IInv /\ AppTypeOK /\ CallInv /\ ClaimInv /\ SignalInv
=============================================================================
