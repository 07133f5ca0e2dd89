--------------------------- MODULE DesktopProofs ---------------------------
(***************************************************************************)
(* Proofs about the desktop client on top of the daemon: for any number of *)
(* tasks, users and uids.  The argument is AppIInv of module Desktop; each *)
(* theorem is about the code cited there.                                  *)
(***************************************************************************)
EXTENDS Desktop, DaemonProofs

USE DEF call, locks, flags, task, vars, Methods, Guarded, Ops, Parties, app, system, Kinds, Touches, Places

(* A client that has just started has no task.                             *)
LEMMA AppInitInv == AppInit => AppIInv
<1> SUFFICES ASSUME AppInit PROVE AppIInv
  OBVIOUS
<1>1. IInv
  BY InitInv DEF AppInit
<1>2. deleting \in BOOLEAN /\ lost \in BOOLEAN
  BY Zenon DEF AppInit
<1>3. AppTypeOK
  BY <1>1, <1>2 DEF IInv, AppTypeOK, AppInit
<1>4. CallInv /\ ClaimInv /\ SignalInv
  BY DesktopAssumption, DaemonAssumption DEF AppInit, Init, CallInv, ClaimInv, SignalInv
<1> QED BY <1>1, <1>3, <1>4 DEF AppIInv

(* Whatever the client does, it does to the daemon what any client may.    *)
LEMMA DaemonMoves == ASSUME [AppNext]_system PROVE [Next]_vars
<1>1. CASE UNCHANGED vars
  BY <1>1
<1>2. ASSUME NEW t \in Clients, NEW m \in Methods, NEW u \in {User, NoUser}, Call(t, m, u)
      PROVE  Next
  <2>1. <<t, m, u>> \in Requests /\ u \in Users \cup {NoUser}
    BY DesktopAssumption
  <2> QED BY <1>2, <2>1 DEF Next
<1>3. ASSUME NEW t \in Clients, TaskStep(t) PROVE [Next]_vars
  <2>1. \/ Call(t, "Claim", User) \/ Call(t, "Get", NoUser) \/ Call(t, "Delete", NoUser)
        \/ Call(t, "Start", NoUser) \/ Call(t, "Stop", NoUser) \/ Call(t, "Release", NoUser)
        \/ UNCHANGED vars
    BY <1>3 DEF TaskStep, Calls, BeginTask, AskStages, DeleteFinger, Listen,
       StartOperation, Drive, StopOperation, ReleaseSensor, EndTask
  <2> QED BY <1>1, <1>2, <2>1, DesktopAssumption
<1>4. ASSUME NEW t \in Clients, DaemonServes(t) PROVE Next
  BY <1>4 DEF DaemonServes, Next
<1>5. CASE OperationEnds \/ DaemonOnly
  BY <1>5 DEF OperationEnds, DaemonOnly, Tasks, Next
<1>6. CASE Window \/ OperationSays \/ (\E k \in Touches : Signal(k)) \/ UNCHANGED system
  BY <1>1, <1>6 DEF Window, StartTouch, StartDelete, CancelTask, Poll, OperationSays, Signal
<1> QED BY <1>3, <1>4, <1>5, <1>6 DEF AppNext

(* So what is an invariant of the daemon stays one.                        *)
LEMMA DaemonKeeps == ASSUME AppIInv, [AppNext]_system PROVE IInv'
BY DaemonMoves, NextStep DEF AppIInv

-----------------------------------------------------------------------------
(* What serving a call does, as far as the client can tell: one call is    *)
(* touched, a claim is given only to one who asks for it while no          *)
(* operation has the flag, and a release that has returned has been done.  *)
LEMMA Served ==
    ASSUME IInv, NEW t \in Clients, Enter(t) \/ Serve(t)
    PROVE  /\ \A c \in Clients \ {t} :
                  pc'[c] = pc[c] /\ method'[c] = method[c] /\ target'[c] = target[c]
           /\ pc[t] # "idle"
           /\ pc'[t] # "idle" => method'[t] = method[t]
           /\ pc'[t] # "idle" /\ method[t] = "Claim" => target'[t] = target[t]
           /\ op # NoOp => op' # NoOp
           /\ pc'[t] = "begun" => method[t] = "Start" /\ op = NoOp /\ op' # NoOp
           /\ \/ claimed' = claimed
              \/ /\ method[t] = "Claim" /\ claimed' = target[t] /\ pc'[t] = "idle"
              \/ method[t] = "Release" /\ claimed' = NoUser
           /\ pc'[t] = "idle" /\ method[t] = "Release" => claimed' = NoUser
<1> USE DaemonAssumption
        DEF IInv, TypeOK, CallOK, TaskOK, IfaceInv, BusyWhileOp, Goto, Return
<1>1. CASE Get(t)
  BY <1>1 DEF Get
<1>2. CASE EnterUnguarded(t)
  BY <1>2, StopStep DEF EnterUnguarded
<1>3. CASE EnterGuarded(t)
  BY <1>3 DEF EnterGuarded
<1>4. CASE AskForWorker(t)
  BY <1>4 DEF AskForWorker
<1>5. CASE TryBegin(t)
  <2>1. CASE claimed = NoUser \/ busy
    BY <1>5, <2>1 DEF TryBegin
  <2>2. CASE ~(claimed = NoUser \/ busy)
    <3> DEFINE new == [by |-> t, user |-> target[t], acting |-> NoUser,
                       at |-> "begun", cancelled |-> FALSE]
    <3>1. op' = new /\ Goto(t, "begun") /\ UNCHANGED <<target, claimed>>
      BY <1>5, <2>2 DEF TryBegin
    <3>2. FALSE \in BOOLEAN
      BY Zenon
    <3>3. target[t] \in Users
      BY <1>5, <2>2 DEF TryBegin, GuardInv
    <3>4. new \in Ops
      BY <3>2, <3>3
    <3>5. op' # NoOp
      BY <3>1, <3>4
    <3> HIDE DEF new
    <3>6. op = NoOp /\ method[t] = "Start" /\ pc[t] = "guarded"
      BY <1>5, <2>2 DEF TryBegin
    <3> QED BY <3>1, <3>5, <3>6
  <2> QED BY <2>1, <2>2
<1>6. CASE SetToken(t)
  <2>1. pc[t] = "begun" /\ op # NoOp /\ Return(t) /\ claimed' = claimed
    BY <1>6 DEF SetToken
  <2>2. op' # NoOp
    <3>1. op \in Ops \cup {NoOp} /\ NoOp \notin Ops
      OBVIOUS
    <3> QED BY <1>6, <2>1, <3>1, SpawnStep, Zenon
  <2>3. method[t] = "Start"
    BY <2>1
  <2> QED BY <2>1, <2>2, <2>3
<1>7. CASE Claim(t)
  BY <1>7 DEF Claim
<1>8. CASE Release(t)
  BY <1>8 DEF Release
<1>9. CASE ListOrDelete(t)
  BY <1>9 DEF ListOrDelete
<1>10. CASE DeleteAll(t)
  <2>1. /\ method[t] = "DeleteAll" /\ pc[t] = "lock" /\ UNCHANGED <<op, claimed>>
        /\ \/ Goto(t, "guarded") /\ target' = target
           \/ Return(t)
    BY <1>10 DEF DeleteAll
  <2> QED BY <2>1
<1> QED BY <1>1, <1>2, <1>3, <1>4, <1>5, <1>6, <1>7, <1>8, <1>9, <1>10 DEF Enter, Serve

-----------------------------------------------------------------------------
(* A step of a task leaves everything with its type.                       *)
LEMMA CallTypes ==
    ASSUME AppTypeOK, TypeOK', NEW t \in Clients, NEW m, NEW u, NEW label \in Places,
           Calls(t, m, u, label)
    PROVE  AppTypeOK'
<1>1. /\ at' = [at EXCEPT ![t] = label]
      /\ UNCHANGED <<kind, quit, heard, shown, deleting, runs, signals, lost>>
  BY DEF Calls, Goes
<1> HIDE DEF vars, Kinds, Touches, Places
<1>2. at' \in [Clients -> Places]
  BY <1>1 DEF AppTypeOK
<1> QED BY <1>1, <1>2, Zenon DEF AppTypeOK

LEMMA TaskTypes ==
    ASSUME AppTypeOK, TypeOK', NEW t \in Clients, TaskStep(t)
    PROVE  AppTypeOK'
<1>1. CASE BeginTask(t)
  BY <1>1, CallTypes DEF BeginTask
<1>2. CASE AskStages(t)
  BY <1>2, CallTypes DEF AskStages
<1>3. CASE DeleteFinger(t)
  BY <1>3, CallTypes DEF DeleteFinger
<1>4. CASE Listen(t)
  <2>1. lost' \in BOOLEAN /\ deleting' \in BOOLEAN
    BY <1>4, Zenon DEF Listen, AppTypeOK
  <2>2. at' \in [Clients -> Places]
    BY <1>4 DEF Listen, Goes, AppTypeOK
  <2> QED BY <1>4, <2>1, <2>2 DEF Listen, AppTypeOK
<1>5. CASE StartOperation(t)
  BY <1>5, CallTypes DEF StartOperation
<1>6. CASE Drive(t)
  <2>1. at' \in [Clients -> Places]
    BY <1>6 DEF Drive, Goes, AppTypeOK
  <2> QED BY <1>6, <2>1 DEF Drive, AppTypeOK
<1>7. CASE StopOperation(t)
  BY <1>7, CallTypes DEF StopOperation
<1>8. CASE ReleaseSensor(t)
  BY <1>8, CallTypes DEF ReleaseSensor
<1>9. CASE EndTask(t)
  <2>1. deleting' \in BOOLEAN /\ lost' \in BOOLEAN
    BY <1>9, Zenon DEF EndTask, AppTypeOK
  <2>2. at' \in [Clients -> Places] /\ kind' \in [Clients -> Kinds]
    BY <1>9 DEF EndTask, Goes, AppTypeOK
  <2> QED BY <1>9, <2>1, <2>2 DEF EndTask, AppTypeOK
<1> QED BY <1>1, <1>2, <1>3, <1>4, <1>5, <1>6, <1>7, <1>8, <1>9 DEF TaskStep

(* A call that a task makes, and which it waits for at a place that fits,  *)
(* upsets no other task: with it goes no claim and no operation.           *)
LEMMA CallKeeps ==
    ASSUME AppIInv, NEW t \in Clients, NEW m \in Methods, NEW u,
           NEW label \in {"claim", "stages", "acted", "start", "release"},
           Calls(t, m, u, label), <<label, m>> \in Waits,
           label = "claim" => u = User /\ at[t] = "begin",
           label \in {"stages", "start"} => kind[t] \in Touches
    PROVE  CallInv' /\ ClaimInv' /\ SignalInv'
<1>1. pc \in [Clients -> {"idle", "sent", "guarded", "begun", "lock", "gone"}]
      /\ method \in [Clients -> Methods] /\ target \in [Clients -> Users \cup {NoUser}]
      /\ at \in [Clients -> Places]
  BY DEF AppIInv, AppTypeOK, TypeOK, CallOK
<1>2. /\ pc' = [pc EXCEPT ![t] = "sent"] /\ method' = [method EXCEPT ![t] = m]
      /\ target' = [target EXCEPT ![t] = u] /\ at' = [at EXCEPT ![t] = label]
      /\ UNCHANGED <<claimed, op, kind, quit, heard, runs, signals, lost>>
  BY DEF Calls, Call, Goes
<1>3. pc'[t] = "sent" /\ method'[t] = m /\ target'[t] = u /\ at'[t] = label
  BY <1>1, <1>2
<1>4. ASSUME NEW s \in Clients, s # t
      PROVE  /\ pc'[s] = pc[s] /\ method'[s] = method[s] /\ target'[s] = target[s]
             /\ at'[s] = at[s]
  BY <1>1, <1>2, <1>4
<1>5. CallInv'
  <2>1. CallInv
    BY DEF AppIInv
  <2> HIDE DEF Places
  <2> QED BY <1>2, <1>3, <1>4, <2>1 DEF CallInv
<1>6. ClaimInv'
  <2>1. ASSUME NEW s \in Clients, HasClaim(s) PROVE HasClaim(s)'
    BY <1>3, <1>4, <2>1 DEF HasClaim
  <2> QED BY <1>2, <2>1 DEF AppIInv, ClaimInv
<1>7. SignalInv'
  BY <1>2, <1>3, <1>4 DEF AppIInv, SignalInv
<1> QED BY <1>5, <1>6, <1>7

(* The steps that leave the daemon alone, or only send it a call.          *)
LEMMA TaskKeeps ==
    ASSUME AppIInv, IInv', NEW t \in Clients, TaskStep(t)
    PROVE  AppIInv'
<1>0. AppTypeOK'
  BY TaskTypes DEF AppIInv, IInv
<1>1. CASE BeginTask(t)
  <2>1. Calls(t, "Claim", User, "claim") /\ at[t] = "begin"
    BY <1>1 DEF BeginTask
  <2>2. <<"claim", "Claim">> \in Waits
    BY DEF Waits
  <2> QED BY <1>0, <2>1, <2>2, CallKeeps DEF AppIInv
<1>2. CASE AskStages(t)
  <2>1. Calls(t, "Get", NoUser, "stages") /\ kind[t] \in Touches
    BY <1>2 DEF AskStages
  <2>2. <<"stages", "Get">> \in Waits
    BY DEF Waits
  <2> QED BY <1>0, <2>1, <2>2, CallKeeps DEF AppIInv
<1>3. CASE DeleteFinger(t)
  <2>1. Calls(t, "Delete", NoUser, "acted") /\ at[t] = "claimed"
    BY <1>3 DEF DeleteFinger
  <2>2. <<"acted", "Delete">> \in Waits
    BY DEF Waits
  <2> QED BY <1>0, <2>1, <2>2, CallKeeps DEF AppIInv
<1>4. CASE Listen(t)
  <2> USE DesktopAssumption, DaemonAssumption
          DEF AppIInv, AppTypeOK, IInv, TypeOK, CallOK, CallInv, Waits, ClaimInv, HasClaim,
              SignalInv, Calls, Call, Goes
  <2>1. CallInv'
    BY <1>4 DEF Listen
  <2>2. ClaimInv'
    BY <1>4 DEF Listen
  <2>3. SignalInv'
    BY <1>4 DEF Listen
  <2> QED BY <1>0, <2>1, <2>2, <2>3
<1>5. CASE StartOperation(t)
  <2>1. Calls(t, "Start", NoUser, "start") /\ kind[t] \in Touches
    BY <1>5 DEF StartOperation, AppIInv, CallInv
  <2>2. <<"start", "Start">> \in Waits
    BY DEF Waits
  <2> QED BY <1>0, <2>1, <2>2, CallKeeps DEF AppIInv
<1>6. CASE Drive(t)
  <2> USE DesktopAssumption, DaemonAssumption
          DEF AppIInv, AppTypeOK, IInv, TypeOK, CallOK, CallInv, Waits, ClaimInv, HasClaim,
              SignalInv, Calls, Call, Goes
  <2>1. CallInv'
    BY <1>6 DEF Drive
  <2>2. ClaimInv'
    BY <1>6 DEF Drive
  <2>3. SignalInv'
    BY <1>6 DEF Drive
  <2> QED BY <1>0, <2>1, <2>2, <2>3
<1>7. CASE StopOperation(t)
  <2>1. Calls(t, "Stop", NoUser, "acted") /\ at[t] = "drive"
    BY <1>7 DEF StopOperation
  <2>2. <<"acted", "Stop">> \in Waits
    BY DEF Waits
  <2> QED BY <1>0, <2>1, <2>2, CallKeeps DEF AppIInv
<1>8. CASE ReleaseSensor(t)
  <2>1. Calls(t, "Release", NoUser, "release") /\ pc[t] = "idle"
    BY <1>8 DEF ReleaseSensor
  <2>2. <<"release", "Release">> \in Waits
    BY DEF Waits
  <2> QED BY <1>0, <2>1, <2>2, CallKeeps DEF AppIInv
<1>9. CASE EndTask(t)
  <2> USE DesktopAssumption, DaemonAssumption
          DEF AppIInv, AppTypeOK, IInv, TypeOK, CallOK, CallInv, Waits, ClaimInv, HasClaim,
              SignalInv, Calls, Call, Goes
  <2>0. /\ at' = [at EXCEPT ![t] = "none"] /\ kind' = [kind EXCEPT ![t] = "login"]
        /\ pc[t] = "idle" /\ UNCHANGED <<vars, lost>>
        /\ \A s \in Clients \ {t} : at'[s] = at[s] /\ kind'[s] = kind[s]
    <3>1. at[t] = "gone" => pc[t] = "idle"
      OBVIOUS
    <3> QED BY <1>9, <3>1 DEF EndTask
  <2>1. CallInv'
    BY <2>0
  <2>2. ClaimInv'
    <3>1. ~HasClaim(t)
      BY <1>9 DEF EndTask
    <3>2. \A s \in Clients \ {t} : HasClaim(s) => HasClaim(s)'
      BY <2>0
    <3>3. claimed' \in {NoUser, User}
      BY <2>0
    <3> QED BY <2>0, <3>1, <3>2, <3>3
  <2>3. SignalInv'
    <3>1. pc[t] = "idle" /\ at'[t] = "none" /\ UNCHANGED <<vars, runs, signals>>
      <4>1. at[t] = "gone" => pc[t] = "idle"
        OBVIOUS
      <4> QED BY <1>9, <4>1 DEF EndTask
    <3>2. ASSUME NEW s \in Clients \ {t}
          PROVE  /\ at'[s] = at[s] /\ kind'[s] = kind[s]
                 /\ s \in heard \cup quit => s \in heard' \cup quit'
      BY <1>9, <3>2 DEF EndTask
    <3>3. op' # NoOp \/ runs' = "none"
      BY <3>1
    <3>4. ASSUME NEW s \in Clients, pc'[s] = "begun" \/ at'[s] \in {"started", "drive"}
          PROVE  runs' = kind'[s] \/ kind'[s] \in signals' \/ s \in heard' \cup quit'
      <4>1. s # t
        BY <3>1, <3>4
      <4> QED BY <3>1, <3>2, <3>4, <4>1
    <3> QED BY <3>3, <3>4
  <2> QED BY <1>0, <2>1, <2>2, <2>3
<1> QED BY <1>1, <1>2, <1>3, <1>4, <1>5, <1>6, <1>7, <1>8, <1>9 DEF TaskStep

(* A task that asks for the worker, or gets it, is still there.            *)
LEMMA OpGoesOn == ASSUME TaskOK, OpAsks \/ OpRuns PROVE op' # NoOp
<1>1. op \in Ops \cup {NoOp} /\ NoOp \notin Ops /\ claimed \in Users \cup {NoUser}
  BY DaemonAssumption DEF TaskOK
<1> QED BY <1>1, AskStep, RunStep

(* What the window does, and the daemon's own steps and signals.           *)
LEMMA OtherKeeps ==
    ASSUME AppIInv, IInv',
           Window \/ OperationSays \/ OperationEnds \/ DaemonOnly
             \/ (\E k \in Touches : Signal(k)) \/ UNCHANGED system
    PROVE  AppIInv'
<1>0. TypeOK'
  BY DEF IInv
<1> USE DesktopAssumption, DaemonAssumption
        DEF AppIInv, AppTypeOK, CallInv, ClaimInv, HasClaim, SignalInv, Listens, Spawn
<1>1. ASSUME NEW t \in Clients, NEW k \in Touches, StartTouch(t, k) PROVE AppIInv'
  <2>1. AppTypeOK'
    <3>1. deleting' \in BOOLEAN /\ lost' \in BOOLEAN
      BY <1>1, Zenon DEF StartTouch
    <3> QED BY <1>1, <1>0, <3>1 DEF StartTouch
  <2>2. CallInv'
    BY <1>1 DEF StartTouch
  <2>3. ClaimInv'
    BY <1>1 DEF StartTouch
  <2>4. SignalInv'
    BY <1>1 DEF StartTouch
  <2> QED BY <2>1, <2>2, <2>3, <2>4
<1>2. ASSUME NEW t \in Clients, StartDelete(t) PROVE AppIInv'
  <2>1. AppTypeOK'
    <3>1. deleting' \in BOOLEAN /\ lost' \in BOOLEAN
      BY <1>2, Zenon DEF StartDelete
    <3> QED BY <1>2, <1>0, <3>1 DEF StartDelete
  <2>2. CallInv'
    BY <1>2 DEF StartDelete
  <2>3. ClaimInv'
    BY <1>2 DEF StartDelete
  <2>4. SignalInv'
    BY <1>2 DEF StartDelete
  <2> QED BY <2>1, <2>2, <2>3, <2>4
<1>3. CASE CancelTask \/ Poll
  <2>1. AppTypeOK'
    <3>1. deleting' \in BOOLEAN /\ lost' \in BOOLEAN
      BY <1>3, Zenon DEF CancelTask, Poll
    <3>2. CASE CancelTask
      BY <1>0, <3>1, <3>2 DEF CancelTask
    <3>3. CASE Poll
      BY <1>0, <3>1, <3>3 DEF Poll
    <3> QED BY <1>3, <3>2, <3>3
  <2>2. CallInv'
    BY <1>3 DEF CancelTask, Poll
  <2>3. ClaimInv'
    BY <1>3 DEF CancelTask, Poll
  <2>4. SignalInv'
    BY <1>3 DEF CancelTask, Poll
  <2> QED BY <2>1, <2>2, <2>3, <2>4
<1>4. CASE OperationSays
  <2>1. AppTypeOK'
    <3>1. deleting' \in BOOLEAN /\ lost' \in BOOLEAN
      BY <1>4, Zenon DEF OperationSays
    <3> QED BY <1>4, <1>0, <3>1 DEF OperationSays
  <2>2. CallInv'
    BY <1>4 DEF OperationSays
  <2>3. ClaimInv'
    BY <1>4 DEF OperationSays
  <2>4. SignalInv'
    BY <1>4 DEF OperationSays
  <2> QED BY <2>1, <2>2, <2>3, <2>4
<1>5. CASE OperationEnds
  <2>1. AppTypeOK'
    <3>1. deleting' \in BOOLEAN /\ lost' \in BOOLEAN
      BY <1>5, Zenon DEF OperationEnds, OpEnds
    <3> QED BY <1>5, <1>0, <3>1 DEF OperationEnds, OpEnds
  <2>2. CallInv'
    BY <1>5 DEF OperationEnds, OpEnds
  <2>3. ClaimInv'
    BY <1>5 DEF OperationEnds, OpEnds
  <2>4. SignalInv'
    BY <1>5 DEF OperationEnds, OpEnds
  <2> QED BY <2>1, <2>2, <2>3, <2>4
<1>6. CASE DaemonOnly
  <2>1. AppTypeOK'
    <3>1. deleting' \in BOOLEAN /\ lost' \in BOOLEAN
      BY <1>6, Zenon DEF DaemonOnly, OpAsks, OpRuns, End
    <3> QED BY <1>6, <1>0, <3>1 DEF DaemonOnly, OpAsks, OpRuns, End
  <2>2. CallInv'
    BY <1>6 DEF DaemonOnly, OpAsks, OpRuns, End
  <2>3. ClaimInv'
    BY <1>6 DEF DaemonOnly, OpAsks, OpRuns, End
  <2>4. SignalInv'
    <3>1. op # NoOp => op' # NoOp
      BY <1>6, OpGoesOn DEF DaemonOnly, IInv, TypeOK, End
    <3>2. UNCHANGED <<pc, app>>
      BY <1>6 DEF DaemonOnly, OpAsks, OpRuns, End
    <3> QED BY <3>1, <3>2
  <2> QED BY <2>1, <2>2, <2>3, <2>4
<1>7. ASSUME NEW k \in Touches, Signal(k) PROVE AppIInv'
  <2>1. AppTypeOK'
    <3>1. deleting' \in BOOLEAN /\ lost' \in BOOLEAN
      BY <1>7, Zenon DEF Signal
    <3> QED BY <1>7, <1>0, <3>1 DEF Signal
  <2>2. CallInv'
    BY <1>7 DEF Signal
  <2>3. ClaimInv'
    BY <1>7 DEF Signal
  <2>4. SignalInv'
    <3>1. signals' = signals \ {k} /\ UNCHANGED <<vars, kind, at, quit, runs>>
      BY <1>7 DEF Signal
    <3>2. ASSUME NEW s \in Clients, pc[s] = "begun" \/ at[s] \in {"started", "drive"}, kind[s] = k
          PROVE  s \in heard'
      <4>1. Listens(s)
        BY <3>2 DEF IInv, IfaceInv, Waits
      <4> QED BY <1>7, <3>2, <4>1 DEF Signal
    <3>3. heard \subseteq heard'
      BY <1>7 DEF Signal
    <3> QED BY <3>1, <3>2, <3>3
  <2> QED BY <2>1, <2>2, <2>3, <2>4
<1>8. CASE UNCHANGED system
  <2>1. AppTypeOK'
    <3>1. deleting' \in BOOLEAN /\ lost' \in BOOLEAN
      BY <1>8, Zenon DEF system
    <3> QED BY <1>8, <1>0, <3>1 DEF system
  <2>2. CallInv'
    BY <1>8 DEF system
  <2>3. ClaimInv'
    BY <1>8 DEF system
  <2>4. SignalInv'
    BY <1>8 DEF system
  <2> QED BY <2>1, <2>2, <2>3, <2>4
<1> HIDE DEF AppIInv, AppTypeOK, CallInv, ClaimInv, SignalInv
<1> QED BY <1>1, <1>2, <1>3, <1>4, <1>5, <1>6, <1>7, <1>8 DEF Window

(* A call of one task is served, and the task goes on when it returns.     *)
LEMMA ServesKeeps ==
    ASSUME AppIInv, IInv', NEW t \in Clients, DaemonServes(t)
    PROVE  AppIInv'
<1>1. IInv /\ (Enter(t) \/ Serve(t)) /\ Answered(t)
  BY DEF AppIInv, DaemonServes
<1>2. /\ runs' = IF pc'[t] = "begun" THEN kind[t] ELSE runs
      /\ UNCHANGED <<kind, quit, heard, shown, deleting, signals, lost>>
  BY DEF DaemonServes
<1> DEFINE Waiting    == pc'[t] # "idle" /\ UNCHANGED at
           Refusing   == at[t] = "claim" /\ Goes(t, "gone") /\ claimed' = claimed
           Claiming   == at[t] = "claim" /\ Goes(t, "claimed") /\ claimed' = User
           Starting   == at[t] = "start" /\ pc[t] = "begun" /\ Goes(t, "started")
           Failing    == at[t] = "start" /\ pc[t] # "begun" /\ Goes(t, "failed")
           Returning  == at[t] \notin {"claim", "start"} /\ pc'[t] = "idle" /\ UNCHANGED at
<1>3. \/ Waiting
      \/ pc'[t] = "idle" /\ (Refusing \/ Claiming \/ Starting \/ Failing)
      \/ Returning
  <2>1. CASE pc'[t] # "idle"
    BY <1>1, <2>1 DEF Answered
  <2>2. CASE pc'[t] = "idle" /\ at[t] = "claim"
    BY <1>1, <2>2 DEF Answered
  <2>3. CASE pc'[t] = "idle" /\ at[t] = "start"
    BY <1>1, <2>3 DEF Answered
  <2>4. CASE pc'[t] = "idle" /\ at[t] \notin {"claim", "start"}
    BY <1>1, <2>4 DEF Answered
  <2> QED BY <2>1, <2>2, <2>3, <2>4
<1>4. /\ \A s \in Clients \ {t} :
             /\ at'[s] = at[s] /\ pc'[s] = pc[s]
             /\ method'[s] = method[s] /\ target'[s] = target[s]
      /\ at' \in [Clients -> Places]
  BY <1>1, <1>3, Served DEF Goes, AppIInv, AppTypeOK
<1>5. AppTypeOK'
  <2>1. deleting' \in BOOLEAN /\ lost' \in BOOLEAN
    BY <1>2, Zenon DEF AppIInv, AppTypeOK
  <2>2. runs' \in Touches \cup {"none"}
    <3>1. pc'[t] = "begun" => kind[t] \in Touches
      BY <1>1, Served DEF AppIInv, AppTypeOK, CallInv, Waits
    <3> QED BY <1>2, <3>1 DEF AppIInv, AppTypeOK
  <2>3. TypeOK'
    BY DEF IInv
  <2> QED BY <1>2, <1>4, <2>1, <2>2, <2>3 DEF AppIInv, AppTypeOK
<1>6. CallInv'
  <2>1. /\ pc'[t] # "idle" => <<at'[t], method'[t]>> \in Waits
        /\ at'[t] \in {"claim", "start"} => pc'[t] # "idle"
        /\ at'[t] = "claim" => target'[t] = User
        /\ at'[t] \in {"stages", "listen", "start", "started", "drive"} => kind'[t] \in Touches
    <3>1. /\ <<at[t], method[t]>> \in Waits
          /\ at[t] = "claim" => target[t] = User
          /\ at[t] \in {"stages", "listen", "start", "started", "drive"} => kind[t] \in Touches
      BY <1>1, Served DEF AppIInv, CallInv
    <3>2. CASE Waiting
      <4>1. at[t] = "claim" => method[t] = "Claim"
        BY <3>1 DEF Waits
      <4>2. pc'[t] # "idle" /\ at'[t] = at[t] /\ kind'[t] = kind[t]
        BY <1>2, <3>2
      <4> HIDE DEF Waiting
      <4>3. method'[t] = method[t] /\ (method[t] = "Claim" => target'[t] = target[t])
        BY <1>1, <4>2, Served
      <4> QED BY <3>1, <4>1, <4>2, <4>3
    <3>3. CASE pc'[t] = "idle" /\ (Refusing \/ Claiming \/ Starting \/ Failing)
      BY <1>2, <3>1, <3>3 DEF Goes, AppIInv, AppTypeOK
    <3>4. CASE Returning
      BY <1>2, <3>1, <3>4
    <3> QED BY <1>3, <3>2, <3>3, <3>4
  <2> QED BY <1>2, <1>4, <2>1 DEF AppIInv, CallInv
<1>7. ClaimInv'
  <2>1. \A s \in Clients \ {t} : HasClaim(s)' <=> HasClaim(s)
    BY <1>4 DEF HasClaim
  <2>2. HasClaim(t) => HasClaim(t)' \/ claimed' = NoUser
    BY <1>1, <1>3, Served DEF HasClaim, Goes, AppIInv, AppTypeOK, CallInv, Waits
  <2>3. claimed' = claimed \/ claimed' = NoUser \/ (claimed' = User /\ HasClaim(t)')
    BY <1>1, <1>3, Served DEF HasClaim, Goes, AppIInv, AppTypeOK, CallInv, Waits
  <2> QED BY <1>2, <2>1, <2>2, <2>3, DesktopAssumption, DaemonAssumption DEF AppIInv, ClaimInv
<1>8. SignalInv'
  <2>1. pc'[t] = "begun" => op = NoOp /\ op' # NoOp /\ pc[t] # "begun"
    BY <1>1, Served DEF AppIInv, IInv, IfaceInv
  <2>2. op # NoOp => op' # NoOp
    BY <1>1, Served
  <2>3. at'[t] \in {"started", "drive"} => at[t] \in {"started", "drive"} \/ pc[t] = "begun"
    BY <1>3 DEF Goes, AppIInv, AppTypeOK
  <2>4. CASE pc'[t] = "begun"
    <3>1. runs = "none" /\ runs' = kind'[t] /\ op' # NoOp
      BY <1>2, <2>1, <2>4 DEF AppIInv, SignalInv
    <3>2. ASSUME NEW s \in Clients \ {t}, pc'[s] = "begun" \/ at'[s] \in {"started", "drive"}
          PROVE  kind'[s] \in signals' \/ s \in heard' \cup quit'
      BY <1>2, <1>4, <3>1, <3>2 DEF AppIInv, AppTypeOK, SignalInv
    <3> QED BY <3>1, <3>2 DEF SignalInv
  <2>5. CASE pc'[t] # "begun"
    <3>1. runs' = runs
      BY <1>2, <2>5
    <3> QED BY <1>2, <1>4, <2>2, <2>3, <2>5, <3>1 DEF AppIInv, SignalInv
  <2> QED BY <2>4, <2>5
<1> QED BY <1>5, <1>6, <1>7, <1>8 DEF AppIInv

-----------------------------------------------------------------------------
(* The inductive invariant of the client and the daemon together.          *)
THEOREM AppInductive == AppSpec => []AppIInv
<1>1. ASSUME AppIInv, [AppNext]_system PROVE AppIInv'
  BY <1>1, DaemonKeeps, TaskKeeps, OtherKeeps, ServesKeeps DEF AppNext
<1> QED BY <1>1, AppInitInv, PTL DEF AppSpec

(* The client's variables, and the daemon's, keep their types.             *)
THEOREM AppTypeCorrect == AppSpec => []AppTypeOK
<1>1. AppIInv => AppTypeOK
  BY DEF AppIInv
<1> QED BY <1>1, AppInductive, PTL

(* When its tasks have ended the client has no claim and no operation acts *)
(* for it, however they overlapped (client.rs calls Release on each way    *)
(* out but that of a failed subscription).                                 *)
THEOREM Releases == AppSpec => []SensorIsReleased
<1>1. AppIInv => SensorIsReleased
  BY DesktopAssumption, DaemonAssumption
     DEF AppIInv, IInv, OpInv, ClaimInv, HasClaim, CallInv, SensorIsReleased, AllEnded
<1> QED BY <1>1, AppInductive, PTL

(* A task that waits for a finger is told the end of its operation, or is  *)
(* to be (its streams are opened before VerifyStart and EnrollStart).      *)
THEOREM IsTold == AppSpec => []DrivesToTheEnd
<1>1. AppIInv => DrivesToTheEnd
  BY DEF AppIInv, SignalInv, DrivesToTheEnd
<1> QED BY <1>1, AppInductive, PTL

(* The tasks of the client are clients of the daemon as module Daemon has  *)
(* them: the composed system is one of its behaviours, so that what is     *)
(* proved of the daemon holds here too.                                    *)
THEOREM DaemonImplemented == AppSpec => Spec
<1>1. AppInit => Init
  BY DEF AppInit
<1> QED BY <1>1, DaemonMoves, PTL DEF AppSpec, Spec

(* What an operation of the client's does, it does for the user whose      *)
(* claim the guard of main.rs has checked, and the busy flag follows it.   *)
THEOREM DaemonStaysSafe == AppSpec => [](ActsForGuardedUser /\ BusyWhileOp)
BY DaemonImplemented, ActsForItsUser, FlagFollowsOp, PTL
=============================================================================
