---------------------------- MODULE DaemonProofs ----------------------------
(***************************************************************************)
(* Proofs about the D-Bus front: for any clients, accounts and uids.  The  *)
(* argument is IInv of module Daemon; each theorem is about the code cited *)
(* there.                                                                  *)
(***************************************************************************)
EXTENDS Daemon, TLAPS

USE DEF call, locks, flags, task, vars, Methods, Guarded, Ops, Parties

(* A party that asks for the worker goes behind those who asked before.    *)
LEMMA JoinStep ==
    ASSUME line \in Seq(Parties), NEW party \in Parties, Join(party)
    PROVE  line' \in Seq(Parties) /\ (line # <<>> => line' # <<>> /\ Head(line') = Head(line))
BY DEF Join

(* A worker that is let go of goes to the next.                            *)
LEMMA LeaveStep ==
    ASSUME line \in Seq(Parties), line # <<>>, Leave
    PROVE  line' \in Seq(Parties)
BY DEF Leave

(* A stop empties op_cancel and does no more to an operation than cancel   *)
(* it.                                                                     *)
LEMMA StopStep ==
    ASSUME op \in Ops \cup {NoOp}, op = NoOp => token # "op",
           StopRunning
    PROVE  /\ token' = "none" /\ op' \in Ops \cup {NoOp}
           /\ op' = NoOp <=> op = NoOp
           /\ op # NoOp => /\ op'.by = op.by /\ op'.user = op.user
                           /\ op'.acting = op.acting /\ op'.at = op.at
<1> DEFINE stopped == [op EXCEPT !.cancelled = TRUE]
<1>1. op' = (IF token = "op" THEN stopped ELSE op) /\ token' = "none"
  BY DEF StopRunning
<1>2. op # NoOp => stopped \in Ops /\ stopped.by = op.by /\ stopped.user = op.user
                   /\ stopped.acting = op.acting /\ stopped.at = op.at
  OBVIOUS
<1>3. op # NoOp => stopped # NoOp
  BY <1>2, DaemonAssumption
<1> HIDE DEF stopped
<1>4. CASE token = "op"
  BY <1>1, <1>2, <1>3, <1>4
<1>5. CASE token # "op"
  BY <1>1, <1>5
<1> QED BY <1>4, <1>5

(* An operation whose token is stored is spawned, and otherwise as it was. *)
LEMMA SpawnStep ==
    ASSUME op \in Ops \cup {NoOp}, NoOp \notin Ops, NEW c \in Clients, SetToken(c), op # NoOp
    PROVE  /\ op' \in Ops /\ op' # NoOp /\ op'.at = "spawned"
           /\ op'.by = op.by /\ op'.user = op.user /\ op'.acting = op.acting
<1>1. op' = [op EXCEPT !.at = "spawned"]
  BY DEF SetToken
<1>2. op' \in Ops
  BY <1>1
<1>3. op'.at = "spawned" /\ op'.by = op.by /\ op'.user = op.user /\ op'.acting = op.acting
  BY <1>1
<1>4. op' # NoOp
  <2> HIDE DEF Ops
  <2> QED BY <1>2
<1> QED BY <1>2, <1>3, <1>4

(* One that asks for the worker, and one that gets it and reads the claim. *)
LEMMA AskStep ==
    ASSUME op \in Ops \cup {NoOp}, NoOp \notin Ops, OpAsks
    PROVE  /\ op' \in Ops /\ op' # NoOp /\ op'.at = "waiting"
           /\ op'.by = op.by /\ op'.user = op.user /\ op'.acting = op.acting
<1>1. op' = [op EXCEPT !.at = "waiting"] /\ op \in Ops
  BY DEF OpAsks
<1>2. op' \in Ops
  BY <1>1
<1>3. op'.at = "waiting" /\ op'.by = op.by /\ op'.user = op.user /\ op'.acting = op.acting
  BY <1>1
<1>4. op' # NoOp
  <2> HIDE DEF Ops
  <2> QED BY <1>2
<1> QED BY <1>2, <1>3, <1>4

LEMMA RunStep ==
    ASSUME op \in Ops \cup {NoOp}, NoOp \notin Ops, claimed \in Users \cup {NoUser}, OpRuns
    PROVE  /\ op' \in Ops /\ op' # NoOp /\ op'.at = "running"
           /\ op'.by = op.by /\ op'.user = op.user /\ op'.acting = claimed
<1>1. op' = [op EXCEPT !.at = "running", !.acting = claimed] /\ op \in Ops
  BY DEF OpRuns
<1>2. op' \in Ops
  BY <1>1
<1>3. op'.at = "running" /\ op'.by = op.by /\ op'.user = op.user /\ op'.acting = claimed
  BY <1>1
<1>4. op' # NoOp
  <2> HIDE DEF Ops
  <2> QED BY <1>2
<1> QED BY <1>2, <1>3, <1>4

(* A daemon that has just started serves nobody.                           *)
LEMMA InitInv == Init => IInv
<1> SUFFICES ASSUME Init PROVE IInv
  OBVIOUS
<1>1. CallOK /\ line \in Seq(Parties)
  BY DaemonAssumption DEF Init, CallOK
<1>2. TaskOK
  <2>1. busy \in BOOLEAN
    BY Zenon DEF Init
  <2> QED BY <2>1, DaemonAssumption DEF Init, TaskOK
<1>3. IfaceInv /\ GuardInv /\ OpInv /\ BusyWhileOp
  BY DaemonAssumption DEF Init, IfaceInv, GuardInv, OpInv, BusyWhileOp
<1> QED BY <1>1, <1>2, <1>3 DEF IInv, TypeOK

(* What a client's call does, from the moment the interface takes it up.   *)
LEMMA CallStep ==
    ASSUME IInv, NEW c \in Clients, Enter(c) \/ Serve(c)
    PROVE  IInv'
<1> USE DaemonAssumption
        DEF IInv, TypeOK, CallOK, TaskOK, IfaceInv, GuardInv, OpInv, BusyWhileOp,
            Holds, Join, Leave, Goto, Return
<1>1. CASE Get(c)
  <2>1. /\ pc' = [pc EXCEPT ![c] = "idle"]
        /\ UNCHANGED <<method, target, left, locks, flags, task, sleep, main>>
    BY <1>1 DEF Get
  <2>2. TypeOK'
    BY <2>1
  <2>3. IfaceInv' /\ GuardInv'
    BY <2>1
  <2>4. OpInv' /\ BusyWhileOp'
    BY <2>1
  <2> QED BY <2>2, <2>3, <2>4
<1>2. CASE EnterUnguarded(c)
  <2>1. CallOK'
    <3>1. pc' = [pc EXCEPT ![c] = "idle"] \/ pc' = [pc EXCEPT ![c] = "lock"]
      BY <1>2 DEF EnterUnguarded
    <3>2. target' = target \/ target' = [target EXCEPT ![c] = NoUser]
      BY <1>2 DEF EnterUnguarded
    <3>3. method' = method \/ method' = [method EXCEPT ![c] = "Get"]
      BY <1>2 DEF EnterUnguarded
    <3>4. iface' \in {c, NoClient} /\ left' = left
      BY <1>2 DEF EnterUnguarded
    <3>5. pc' \in [Clients -> {"idle", "sent", "guarded", "begun", "lock", "gone"}]
      <4>1. CASE pc' = [pc EXCEPT ![c] = "idle"]
        BY <4>1
      <4>2. CASE pc' = [pc EXCEPT ![c] = "lock"]
        BY <4>2
      <4> QED BY <3>1, <4>1, <4>2
    <3>6. target' \in [Clients -> Users \cup {NoUser}]
      BY <3>2
    <3>7. method' \in [Clients -> Methods]
      BY <3>3
    <3> QED BY <3>4, <3>5, <3>6, <3>7
  <2>2. (line \in Seq(Parties))'
    BY <1>2, StopStep, JoinStep DEF EnterUnguarded
  <2>3. TaskOK'
    BY <1>2, StopStep, JoinStep DEF EnterUnguarded
  <2>4. /\ iface = NoClient /\ claimed' = claimed
        /\ pc'[c] = "idle" \/ (pc'[c] = "lock" /\ iface' = c /\ method'[c] \notin Guarded)
    BY <1>2 DEF EnterUnguarded
  <2>5. ASSUME NEW d \in Clients, d # c
        PROVE  pc'[d] = pc[d] /\ method'[d] = method[d] /\ target'[d] = target[d]
    BY <1>2, <2>5 DEF EnterUnguarded
  <2>6. iface = NoClient => \A d \in Clients : pc[d] \notin {"guarded", "begun", "lock"}
    OBVIOUS
  <2>7. IfaceInv'
    BY <2>4, <2>5, <2>6
  <2>8. GuardInv'
    BY <2>4, <2>5, <2>6
  <2>9. OpInv'
    BY <1>2, StopStep, JoinStep DEF EnterUnguarded
  <2>10. BusyWhileOp'
    BY <1>2, StopStep, JoinStep DEF EnterUnguarded
  <2> QED BY <2>1, <2>2, <2>3, <2>7, <2>8, <2>9, <2>10
<1>3. CASE EnterGuarded(c)
  <2>1. CallOK'
    <3> DEFINE user == IF method[c] \in {"Claim", "DeleteAll"} THEN target[c] ELSE claimed
    <3>1. user \in Users \cup {NoUser}
      OBVIOUS
    <3>2. CASE iface' = c /\ target' = [target EXCEPT ![c] = user] /\ Goto(c, "guarded")
      BY <1>3, <3>1, <3>2 DEF EnterGuarded
    <3>3. CASE Return(c)
      BY <1>3, <3>3 DEF EnterGuarded
    <3> QED BY <1>3, <3>2, <3>3 DEF EnterGuarded
  <2>2. (line \in Seq(Parties))'
    BY <1>3 DEF EnterGuarded, LookupUid, MayAct
  <2>3. TaskOK'
    BY <1>3 DEF EnterGuarded, LookupUid, MayAct
  <2>4. IfaceInv'
    BY <1>3 DEF EnterGuarded, LookupUid, MayAct
  <2>5. GuardInv'
    <3>1. ASSUME NEW d \in Clients, d # c, pc'[d] \in {"guarded", "lock"}
          PROVE  FALSE
      <4>1. pc'[d] = pc[d] /\ iface = NoClient
        BY <1>3, <3>1 DEF EnterGuarded
      <4> QED BY <3>1, <4>1
    <3>2. \/ pc'[c] = "idle"
          \/ /\ method' = method /\ claimed' = claimed
             /\ target'[c] # NoUser /\ Uid[c] \in {0, Account[target'[c]]}
             /\ method[c] \in {"Delete", "Start"} => claimed = target'[c]
      BY <1>3 DEF EnterGuarded, LookupUid, MayAct
    <3> QED BY <3>1, <3>2
  <2>6. OpInv'
    BY <1>3 DEF EnterGuarded, LookupUid, MayAct
  <2>7. BusyWhileOp'
    BY <1>3 DEF EnterGuarded, LookupUid, MayAct
  <2> QED BY <2>1, <2>2, <2>3, <2>4, <2>5, <2>6, <2>7
<1>4. CASE AskForWorker(c)
  <2>1. CallOK' /\ (line \in Seq(Parties))' /\ TaskOK'
    BY <1>4 DEF AskForWorker
  <2>2. IfaceInv' /\ GuardInv'
    BY <1>4 DEF AskForWorker
  <2>3. OpInv' /\ BusyWhileOp'
    BY <1>4, JoinStep DEF AskForWorker
  <2> QED BY <2>1, <2>2, <2>3
<1>5. CASE TryBegin(c)
  <2>1. CASE claimed = NoUser \/ busy
    <3>1. UNCHANGED <<line, claimed, busy, op, token, enders, sleep, main>> /\ Return(c)
      BY <1>5, <2>1 DEF TryBegin
    <3>2. CallOK' /\ (line \in Seq(Parties))' /\ TaskOK'
      BY <1>5, <3>1 DEF TryBegin
    <3>3. IfaceInv'
      BY <1>5, <3>1 DEF TryBegin
    <3>4. GuardInv'
      BY <1>5, <3>1 DEF TryBegin
    <3>5. OpInv' /\ BusyWhileOp'
      BY <3>1
    <3> QED BY <3>2, <3>3, <3>4, <3>5
  <2>2. CASE ~(claimed = NoUser \/ busy)
    <3> DEFINE new == [by |-> c, user |-> target[c], acting |-> NoUser,
                       at |-> "begun", cancelled |-> FALSE]
    <3>1. op' = new /\ busy' = TRUE /\ Goto(c, "begun")
          /\ UNCHANGED <<target, left, iface, line, claimed, token, enders, sleep, main>>
      BY <1>5, <2>2 DEF TryBegin
    <3>2. FALSE \in BOOLEAN /\ busy' \in BOOLEAN
      BY <3>1, Zenon
    <3>3. target[c] \in Users
      BY <1>5, <2>2 DEF TryBegin
    <3>4. new \in Ops
      BY <3>2, <3>3
    <3>5. op' # NoOp /\ op'.by = c /\ op'.user = target[c] /\ op'.acting = NoUser
          /\ op'.at = "begun"
      BY <3>1, <3>4
    <3> HIDE DEF new
    <3>6. CallOK' /\ (line \in Seq(Parties))'
      BY <3>1
    <3>7. TaskOK'
      BY <3>1, <3>2, <3>4
    <3>8. IfaceInv'
      BY <1>5, <3>1, <3>5 DEF TryBegin
    <3>9. GuardInv'
      BY <1>5, <3>1 DEF TryBegin
    <3>10. OpInv'
      BY <1>5, <3>1, <3>5 DEF TryBegin
    <3>11. BusyWhileOp'
      BY <2>2, <3>1, <3>5
    <3> QED BY <3>6, <3>7, <3>8, <3>9, <3>10, <3>11
  <2> QED BY <2>1, <2>2
<1>6. CASE SetToken(c)
  <2>1. /\ pc[c] = "begun" /\ token' = "op" /\ Return(c) /\ op # NoOp
        /\ UNCHANGED <<left, line, claimed, busy, enders, sleep, main>>
    BY <1>6 DEF SetToken
  <2>2. /\ op' \in Ops /\ op' # NoOp /\ op'.by = op.by /\ op'.user = op.user
        /\ op'.acting = op.acting /\ op'.at = "spawned"
    <3>1. op \in Ops \cup {NoOp} /\ NoOp \notin Ops
      OBVIOUS
    <3> QED BY <1>6, <2>1, <3>1, SpawnStep, Zenon
  <2>3. CallOK' /\ (line \in Seq(Parties))' /\ TaskOK'
    BY <2>1, <2>2
  <2>4. IfaceInv' /\ GuardInv'
    BY <2>1, <2>2
  <2>5. OpInv' /\ BusyWhileOp'
    BY <2>1, <2>2
  <2> QED BY <2>3, <2>4, <2>5
<1>7. CASE Claim(c)
  <2>1. CallOK' /\ (line \in Seq(Parties))' /\ TaskOK'
    BY <1>7 DEF Claim
  <2>2. IfaceInv' /\ GuardInv'
    BY <1>7 DEF Claim
  <2>3. OpInv' /\ BusyWhileOp'
    BY <1>7 DEF Claim
  <2> QED BY <2>1, <2>2, <2>3
<1>8. CASE Release(c)
  <2>1. CallOK' /\ (line \in Seq(Parties))' /\ TaskOK'
    BY <1>8 DEF Release
  <2>2. IfaceInv' /\ GuardInv'
    BY <1>8 DEF Release
  <2>3. OpInv' /\ BusyWhileOp'
    BY <1>8 DEF Release
  <2> QED BY <2>1, <2>2, <2>3
<1>9. CASE ListOrDelete(c)
  <2>1. CallOK' /\ (line \in Seq(Parties))' /\ TaskOK'
    BY <1>9 DEF ListOrDelete
  <2>2. IfaceInv' /\ GuardInv'
    BY <1>9 DEF ListOrDelete
  <2>3. OpInv' /\ BusyWhileOp'
    BY <1>9 DEF ListOrDelete
  <2> QED BY <2>1, <2>2, <2>3
<1>10. CASE DeleteAll(c)
  <2>1. CallOK'
    <3>1. CASE \E n \in 1..MaxPrints : left' = [left EXCEPT ![c] = n]
          /\ left[c] = 0 /\ Goto(c, "guarded") /\ UNCHANGED <<iface, target>>
      BY <3>1
    <3>2. CASE /\ left[c] > 1 /\ left' = [left EXCEPT ![c] = @ - 1]
               /\ Goto(c, "guarded") /\ UNCHANGED <<iface, target>>
      <4>1. left[c] - 1 \in 0..MaxPrints
        BY <3>2
      <4> QED BY <3>2, <4>1
    <3>3. CASE left' = [left EXCEPT ![c] = 0] /\ Return(c)
      BY <3>3
    <3> QED BY <1>10, <3>1, <3>2, <3>3 DEF DeleteAll
  <2>2. (line \in Seq(Parties))'
    BY <1>10, LeaveStep DEF DeleteAll
  <2>3. TaskOK'
    BY <1>10, LeaveStep DEF DeleteAll
  <2>4. IfaceInv' /\ GuardInv'
    <3>1. /\ pc[c] = "lock" /\ iface = c /\ claimed' = claimed
          /\ \/ Goto(c, "guarded") /\ UNCHANGED <<iface, target>>
             \/ Return(c)
      BY <1>10 DEF DeleteAll
    <3>2. ASSUME NEW d \in Clients, d # c
          PROVE  pc'[d] = pc[d] /\ pc[d] \notin {"guarded", "begun", "lock"}
      BY <3>1, <3>2
    <3>3. \/ pc'[c] = "guarded" /\ iface' = c /\ method' = method /\ target' = target
          \/ pc'[c] = "idle"
      BY <3>1
    <3>4. IfaceInv'
      BY <3>2, <3>3
    <3>5. GuardInv'
      BY <3>1, <3>2, <3>3
    <3> QED BY <3>4, <3>5
  <2>5. OpInv'
    BY <1>10, LeaveStep DEF DeleteAll
  <2>6. BusyWhileOp'
    BY <1>10, LeaveStep DEF DeleteAll
  <2> QED BY <2>1, <2>2, <2>3, <2>4, <2>5, <2>6
<1> HIDE DEF IInv
<1> QED BY <1>1, <1>2, <1>3, <1>4, <1>5, <1>6, <1>7, <1>8, <1>9, <1>10 DEF Enter, Serve

(* What a client sends, and what the daemon's own tasks do.                *)
LEMMA OtherStep ==
    ASSUME IInv, \/ \E c \in Clients, m \in Methods, u \in Users \cup {NoUser} : Call(c, m, u)
                 \/ Tasks \/ OpEnds \/ SleepSignal \/ Terminate \/ UNCHANGED vars
    PROVE  IInv'
<1> USE DaemonAssumption
        DEF IInv, TypeOK, CallOK, TaskOK, IfaceInv, GuardInv, OpInv, BusyWhileOp,
            Holds, Join, Leave
<1>1. ASSUME NEW c \in Clients, NEW m \in Methods, NEW u \in Users \cup {NoUser}, Call(c, m, u)
      PROVE  IInv'
  <2>1. CallOK' /\ (line \in Seq(Parties))' /\ TaskOK'
    <3>1. CallOK'
      BY <1>1 DEF Call
    <3>2. UNCHANGED <<locks, flags, task, sleep, main>>
      BY <1>1 DEF Call
    <3>3. (line \in Seq(Parties))' /\ TaskOK'
      BY <3>2
    <3> QED BY <3>1, <3>3
  <2>2. IfaceInv' /\ GuardInv'
    <3>1. UNCHANGED <<iface, claimed, op>>
      BY <1>1 DEF Call
    <3>2. ASSUME NEW d \in Clients, pc'[d] # "sent"
          PROVE  pc'[d] = pc[d] /\ method'[d] = method[d] /\ target'[d] = target[d]
      <4>1. /\ pc' = [pc EXCEPT ![c] = "sent"] /\ method' = [method EXCEPT ![c] = m]
            /\ target' = [target EXCEPT ![c] = u]
        BY <1>1 DEF Call
      <4>2. d # c
        BY <3>2, <4>1
      <4> QED BY <4>1, <4>2
    <3>3. IfaceInv'
      <4> SUFFICES ASSUME NEW d \in Clients, pc'[d] \in {"guarded", "begun", "lock"}
                   PROVE  /\ iface' = d
                          /\ pc'[d] = "begun" => op' # NoOp /\ op'.at = "begun"
                                                 /\ op'.by = d /\ method'[d] = "Start"
        OBVIOUS
      <4>1. pc'[d] = pc[d] /\ method'[d] = method[d]
        BY <3>2
      <4> QED BY <3>1, <4>1
    <3>4. ASSUME NEW d \in Clients, pc'[d] \in {"guarded", "lock"}, method'[d] \in Guarded
          PROVE  /\ target'[d] # NoUser /\ Uid[d] \in {0, Account[target'[d]]}
                 /\ method'[d] \in {"Delete", "Start"} => claimed' = target'[d]
      <4>1. pc'[d] = pc[d] /\ method'[d] = method[d] /\ target'[d] = target[d]
        BY <3>2, <3>4
      <4> QED BY <3>1, <3>4, <4>1
    <3>5. GuardInv'
      BY <3>4
    <3> QED BY <3>3, <3>5
  <2>3. OpInv' /\ BusyWhileOp'
    BY <1>1 DEF Call
  <2> QED BY <2>1, <2>2, <2>3
<1>2. CASE OpAsks
  <2>1. /\ op # NoOp /\ op.at = "spawned" /\ Join("op")
        /\ UNCHANGED <<call, iface, flags, token, enders, sleep, main>>
    BY <1>2 DEF OpAsks
  <2>2. /\ op' \in Ops /\ op' # NoOp /\ op'.by = op.by /\ op'.user = op.user
        /\ op'.acting = op.acting /\ op'.at = "waiting"
    <3>1. op \in Ops \cup {NoOp} /\ NoOp \notin Ops
      OBVIOUS
    <3> QED BY <1>2, <3>1, AskStep, Zenon
  <2>3. CallOK' /\ TaskOK'
    BY <2>1, <2>2
  <2>4. (line \in Seq(Parties))'
    BY <2>1, JoinStep
  <2>5. IfaceInv' /\ GuardInv'
    BY <2>1, <2>2
  <2>6. OpInv' /\ BusyWhileOp'
    BY <2>1, <2>2
  <2> QED BY <2>3, <2>4, <2>5, <2>6
<1>3. CASE OpRuns
  <2>1. /\ op # NoOp /\ op.at = "waiting" /\ Holds("op")
        /\ UNCHANGED <<call, locks, flags, token, enders, sleep, main>>
    BY <1>3 DEF OpRuns
  <2>2. /\ op' \in Ops /\ op' # NoOp /\ op'.by = op.by /\ op'.user = op.user
        /\ op'.acting = claimed /\ op'.at = "running"
    <3>1. op \in Ops \cup {NoOp} /\ NoOp \notin Ops /\ claimed \in Users \cup {NoUser}
      OBVIOUS
    <3> QED BY <1>3, <3>1, RunStep, Zenon
  <2>3. CallOK' /\ (line \in Seq(Parties))' /\ TaskOK'
    BY <2>1, <2>2
  <2>4. IfaceInv' /\ GuardInv'
    BY <2>1, <2>2
  <2>5. OpInv' /\ BusyWhileOp'
    BY <2>1, <2>2
  <2> QED BY <2>3, <2>4, <2>5
<1>4. CASE End
  <2>1. CallOK' /\ (line \in Seq(Parties))' /\ TaskOK'
    BY <1>4 DEF End
  <2>2. IfaceInv' /\ GuardInv'
    BY <1>4 DEF End
  <2>3. OpInv' /\ BusyWhileOp'
    BY <1>4 DEF End
  <2> QED BY <2>1, <2>2, <2>3
<1>5. CASE SuspendOrResume
  <2>1. CallOK' /\ (line \in Seq(Parties))' /\ TaskOK'
    BY <1>5 DEF SuspendOrResume
  <2>2. IfaceInv' /\ GuardInv'
    BY <1>5 DEF SuspendOrResume
  <2>3. OpInv' /\ BusyWhileOp'
    BY <1>5 DEF SuspendOrResume
  <2> QED BY <2>1, <2>2, <2>3
<1>6. CASE Exit
  <2>1. CallOK'
    BY <1>6 DEF Exit
  <2>2. (line \in Seq(Parties))'
    BY <1>6 DEF Exit
  <2>3. TaskOK'
    <3>1. busy' \in BOOLEAN
      BY <1>6, Zenon DEF Exit
    <3> QED BY <1>6, <3>1 DEF Exit
  <2>4. IfaceInv'
    BY <1>6 DEF Exit
  <2>5. GuardInv'
    BY <1>6 DEF Exit
  <2>6. OpInv'
    BY <1>6 DEF Exit
  <2>7. BusyWhileOp'
    BY <1>6 DEF Exit
  <2> QED BY <2>1, <2>2, <2>3, <2>4, <2>5, <2>6, <2>7
<1>7. CASE OpEnds
  <2>1. CallOK'
    BY <1>7 DEF OpEnds
  <2>2. (line \in Seq(Parties))'
    BY <1>7, LeaveStep DEF OpEnds
  <2>3. TaskOK'
    <3>1. busy' \in BOOLEAN
      BY <1>7, Zenon DEF OpEnds
    <3> QED BY <1>7, <3>1 DEF OpEnds
  <2>4. IfaceInv'
    BY <1>7, LeaveStep DEF OpEnds
  <2>5. GuardInv'
    BY <1>7 DEF OpEnds
  <2>6. OpInv'
    BY <1>7, LeaveStep DEF OpEnds
  <2>7. BusyWhileOp'
    BY <1>7, LeaveStep DEF OpEnds
  <2> QED BY <2>1, <2>2, <2>3, <2>4, <2>5, <2>6, <2>7
<1>8. CASE SleepSignal
  <2>1. CallOK'
    BY <1>8, StopStep DEF SleepSignal
  <2>2. (line \in Seq(Parties))'
    BY <1>8, StopStep, JoinStep DEF SleepSignal
  <2>3. TaskOK'
    BY <1>8, StopStep, JoinStep DEF SleepSignal
  <2>4. IfaceInv'
    BY <1>8, StopStep, JoinStep DEF SleepSignal
  <2>5. GuardInv'
    BY <1>8, StopStep DEF SleepSignal
  <2>6. OpInv'
    BY <1>8, StopStep, JoinStep DEF SleepSignal
  <2>7. BusyWhileOp'
    BY <1>8, StopStep, JoinStep DEF SleepSignal
  <2> QED BY <2>1, <2>2, <2>3, <2>4, <2>5, <2>6, <2>7
<1>9. CASE Terminate
  <2>1. CallOK'
    BY <1>9, StopStep DEF Terminate
  <2>2. (line \in Seq(Parties))'
    BY <1>9, StopStep, JoinStep DEF Terminate
  <2>3. TaskOK'
    BY <1>9, StopStep, JoinStep DEF Terminate
  <2>4. IfaceInv'
    BY <1>9, StopStep, JoinStep DEF Terminate
  <2>5. GuardInv'
    BY <1>9, StopStep DEF Terminate
  <2>6. OpInv'
    BY <1>9, StopStep, JoinStep DEF Terminate
  <2>7. BusyWhileOp'
    BY <1>9, StopStep, JoinStep DEF Terminate
  <2> QED BY <2>1, <2>2, <2>3, <2>4, <2>5, <2>6, <2>7
<1>10. CASE SleepAsks
  <2>1. Join("sleep") /\ sleep' = "lock"
        /\ UNCHANGED <<call, iface, flags, task, main>>
    BY <1>10 DEF SleepAsks
  <2>2. CallOK' /\ (line \in Seq(Parties))' /\ TaskOK'
    BY <2>1, JoinStep
  <2>3. IfaceInv' /\ GuardInv'
    BY <2>1
  <2>4. OpInv' /\ BusyWhileOp'
    BY <2>1, JoinStep
  <2> QED BY <2>2, <2>3, <2>4
<1>11. CASE MainAsks
  <2>1. Join("main") /\ main' = "lock"
        /\ UNCHANGED <<call, iface, flags, task, sleep>>
    BY <1>11 DEF MainAsks
  <2>2. CallOK' /\ (line \in Seq(Parties))' /\ TaskOK'
    BY <2>1, JoinStep
  <2>3. IfaceInv' /\ GuardInv'
    BY <2>1
  <2>4. OpInv' /\ BusyWhileOp'
    BY <2>1, JoinStep
  <2> QED BY <2>2, <2>3, <2>4
<1>12. CASE UNCHANGED vars
  <2>1. CallOK' /\ (line \in Seq(Parties))' /\ TaskOK'
    BY <1>12
  <2>2. IfaceInv' /\ GuardInv'
    BY <1>12
  <2>3. OpInv' /\ BusyWhileOp'
    BY <1>12
  <2> QED BY <2>1, <2>2, <2>3
<1> HIDE DEF IInv, vars, Ops, Parties, Methods
<1> QED BY <1>1, <1>2, <1>3, <1>4, <1>5, <1>6, <1>7, <1>8, <1>9, <1>10, <1>11, <1>12
    DEF Tasks

(* Any step of the front keeps the invariant.                              *)
LEMMA NextStep == ASSUME IInv, [Next]_vars PROVE IInv'
BY CallStep, OtherStep DEF Next

(* The inductive invariant of the front, whoever calls it.                 *)
THEOREM Inductive == Spec => []IInv
BY NextStep, InitInv, PTL DEF Spec

(* The front's variables keep their types.                                 *)
THEOREM TypeCorrect == Spec => []TypeOK
<1>1. IInv => TypeOK
  BY DEF IInv
<1> QED BY <1>1, Inductive, PTL

(* An operation acts for the user its caller was let in for, or for nobody *)
(* (Worker::verify and enroll read claimed_user after the guard of         *)
(* main.rs let the caller in), and so do a claim and a delete.             *)
THEOREM ActsForItsUser == Spec => []ActsForGuardedUser
<1>1. IInv => ActsForGuardedUser
  BY DEF IInv, OpInv, GuardInv, ActsForGuardedUser
<1> QED BY <1>1, Inductive, PTL

(* The busy flag is up for as long as an operation's OpToken lives, and a  *)
(* token that still bears the operation's name finds it there.             *)
THEOREM FlagFollowsOp == Spec => []BusyWhileOp
<1>1. IInv => BusyWhileOp
  BY DEF IInv
<1> QED BY <1>1, Inductive, PTL

(* A claim goes to nobody else before it has ended, and to nobody at all   *)
(* while an operation has the flag: Worker::claim, which was let in long   *)
(* before it gets the worker.                                              *)
THEOREM ClaimsAreGuarded == Spec => ClaimChanges
<1>1. IInv /\ [Next]_vars =>
        [claimed' \notin {claimed, NoUser} =>
            /\ claimed = NoUser /\ op = NoOp
            /\ \E c \in Clients : /\ method[c] = "Claim" /\ target[c] = claimed'
                                 /\ Uid[c] \in {0, Account[claimed']}]_vars
  <2> SUFFICES ASSUME IInv, [Next]_vars, claimed' \notin {claimed, NoUser}
               PROVE  /\ claimed = NoUser /\ op = NoOp
                      /\ \E c \in Clients : /\ method[c] = "Claim" /\ target[c] = claimed'
                                           /\ Uid[c] \in {0, Account[claimed']}
    OBVIOUS
  <2>1. PICK c \in Clients : Claim(c)
    <3>1. CASE \E c \in Clients : Enter(c)
      BY <3>1 DEF Enter, Get, EnterUnguarded, EnterGuarded
    <3>2. CASE \E c \in Clients : Serve(c)
      BY <3>2 DEF Serve, AskForWorker, TryBegin, SetToken, Release, ListOrDelete, DeleteAll
    <3>3. CASE \E c \in Clients, m \in Methods, u \in Users \cup {NoUser} : Call(c, m, u)
      BY <3>3 DEF Call
    <3>4. CASE Tasks \/ OpEnds \/ SleepSignal \/ Terminate
      BY <3>4 DEF Tasks, OpAsks, OpRuns, OpEnds, End, SleepAsks, SuspendOrResume,
                  MainAsks, Exit, SleepSignal, Terminate
    <3> QED BY <3>1, <3>2, <3>3, <3>4 DEF Next
  <2>2. /\ pc[c] = "lock" /\ method[c] = "Claim" /\ ~busy
        /\ claimed \in {NoUser, target[c]} /\ claimed' = target[c]
    BY <2>1 DEF Claim
  <2>3. Uid[c] \in {0, Account[target[c]]}
    BY <2>2 DEF IInv, GuardInv
  <2>4. claimed = NoUser /\ op = NoOp
    BY <2>2 DEF IInv, BusyWhileOp
  <2> QED BY <2>2, <2>3, <2>4
<1> QED BY <1>1, Inductive, PTL DEF Spec, ClaimChanges
=============================================================================
