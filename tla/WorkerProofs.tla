---------------------------- MODULE WorkerProofs ----------------------------
(***************************************************************************)
(* Proofs about the worker: for any set of users and fingers, any number   *)
(* of slots and of samples.  The argument is IInv of module Worker; each   *)
(* theorem is about the code cited there.                                  *)
(***************************************************************************)
EXTENDS Worker, StoreProofs, FiniteSetTheorems

USE DEF sensor, endpoint, entries, handle, opState, request, place, vars,
        Rounds, StatusReads, TouchWaits

-----------------------------------------------------------------------------
(* The values that actions put into variables have the right type.         *)
LEMMA TypeFacts ==
    /\ 0 \in Slots
    /\ NoReply \in Answers
    /\ \A len \in {2, 3, 6, 70}, code \in Nat : Answer(len, code) \in Answers
    /\ NoOp \in Queue
    /\ NoVerdict \in Verdicts
<1>1. 0 \in Slots
  BY StoreAssumption DEF Slots
<1>2. NoReply \in Answers
  BY DEF Answers
<1>3. \A len \in {2, 3, 6, 70}, code \in Nat : Answer(len, code) \in Answers
  BY DEF Answers, Answer
<1>4. NoOp \in Queue
  BY DEF NoOp, Queue
<1>5. NoVerdict \in Verdicts
  BY DEF Verdicts
<1> QED BY <1>1, <1>2, <1>3, <1>4, <1>5

(* What an answer is made of.                                              *)
LEMMA AnswerFacts ==
    /\ NoReply.len = 0
    /\ \A len \in {2, 3, 6, 70}, code \in Nat :
          Answer(len, code).len = len /\ Answer(len, code).code = code
    /\ \A a \in Answers :
          a.len \in {0, 2, 3, 6, 70} /\ a.code \in Nat /\ (a # NoReply => a.len # 0)
  BY DEF Answers, NoReply, Answer

(* What a read takes off the endpoint, and what it leaves there.           *)
LEMMA ReadLeaves ==
    ASSUME SensorOK, NEW label, Reads(label)
    PROVE  /\ Incoming \in Answers
           /\ reply' \in Answers /\ unread' \in Answers
           /\ unread = NoReply => reply' = NoReply /\ unread' = NoReply
           /\ unread # NoReply => reply' = reply
           /\ \/ unread' = NoReply
              \/ unread.len = 70 /\ label # "info" /\ unread'.len = 6
<1>1. Incoming \in Answers
  BY DEF Incoming, SensorOK
<1>2. /\ reply' \in Answers
      /\ unread = NoReply => reply' = NoReply
      /\ unread # NoReply => reply' = reply
  BY TypeFacts DEF Reads, SensorOK
<1>3. CASE unread.len = 70 /\ label # "info"
  <2>1. PICK code \in RecordCodes : unread' = Answer(6, code)
    BY <1>3 DEF Reads
  <2>2. code \in Nat
    BY WorkerAssumption
  <2>3. unread' \in Answers /\ unread'.len = 6 /\ unread # NoReply
    BY <1>3, <2>1, <2>2, TypeFacts, AnswerFacts
  <2> QED BY <1>1, <1>2, <1>3, <2>3
<1>4. CASE ~(unread.len = 70 /\ label # "info")
  <2>1. unread' = NoReply
    BY <1>4 DEF Reads
  <2> QED BY <1>1, <1>2, <2>1, TypeFacts
<1> QED BY <1>3, <1>4

(* What the endpoint holds after an answer of the sensor.                  *)
LEMMA RepliesLeave ==
    ASSUME NEW answer, ChipReplies(answer)
    PROVE  /\ reply' = answer
           /\ \/ reply = NoReply /\ unread' = unread
              \/ reply # NoReply /\ unread' = reply
              \/ reply # NoReply /\ unread.len = 6 /\ unread' = unread
  BY DEF ChipReplies

(* The sensor's own count is a number, its slots being finitely many.      *)
LEMMA CountNat == Count \in Nat
<1>1. IsFiniteSet(Slots)
  BY StoreAssumption, FS_Interval DEF Slots
<1>2. IsFiniteSet(Templates)
  BY <1>1, FS_Subset DEF Templates
<1> QED BY <1>2, FS_CardinalityType DEF Count

(* Changing one entry of the file leaves a file.                           *)
LEMMA FileType ==
    ASSUME NEW file \in Files, NEW p, NEW s \in Slots
    PROVE  Insert(file, p, s) \in Files /\ Remove(file, p) \in Files
  BY DEF Files, Insert, Remove

(* An entry of the file is a slot of the sensor.                           *)
LEMMA EntryIsSlot ==
    ASSUME NEW file \in Files, NEW p \in Prints, file[p] # NoSlot
    PROVE  file[p] \in Slots
  BY DEF Files

(* The next step of a call leaves its position and its locals well typed.  *)
LEMMA GotoType == ASSUME CallOK, NEW label \in Labels, Goto(label) PROVE CallOK'
<1>1. pc' \in Labels /\ sent' \in BOOLEAN
  BY DEF Goto, At
<1>2. 0 \in Slots
  BY TypeFacts
<1>3. CASE label = "idle"
  <2>1. NoLocals
    BY <1>3 DEF Goto
  <2>2. misread' \in BOOLEAN
    BY <2>1, Zenon DEF NoLocals
  <2> QED BY <1>1, <1>2, <2>1, <2>2 DEF CallOK, NoLocals
<1>4. CASE label # "idle"
  BY <1>1, <1>4 DEF CallOK, Goto
<1> QED BY <1>3, <1>4

-----------------------------------------------------------------------------
(* Every step leaves every variable with its type; a commit and an arming  *)
(* answer have to know which call holds the mutex.                         *)
LEMMA TypeStep == ASSUME IInv, [Next]_vars PROVE TypeOK'
<1> USE DEF IInv, TypeOK, EntriesOK
<1>1. ASSUME NEW u \in Users, BeginClaim(u) PROVE TypeOK'
  <2>1. SensorOK' /\ EntriesOK' /\ HandleOK' /\ OpStateOK'
    BY <1>1 DEF BeginClaim, SensorOK, HandleOK, OpStateOK
  <2>2. CallOK'
    BY <1>1 DEF BeginClaim, At, CallOK, Labels
  <2> QED BY <2>1, <2>2
<1>2. ASSUME OpenHandle PROVE TypeOK'
  <2>1. EntriesOK' /\ OpStateOK'
    BY <1>2 DEF OpenHandle, OpStateOK
  <2>2. SensorOK'
    BY <1>2, TypeFacts DEF OpenHandle, SensorOK
  <2>3. HandleOK'
    BY <1>2 DEF OpenHandle, HandleOK
  <2>4. CallOK'
    BY <1>2, GotoType DEF OpenHandle, Labels
  <2> QED BY <2>1, <2>2, <2>3, <2>4
<1>3. ASSUME NEW kind \in {"verify", "enroll"}, NEW f \in Fingers \cup {AnyFinger}, TryBegin(kind, f)
     PROVE  TypeOK'
  <2>1. SensorOK' /\ EntriesOK' /\ HandleOK' /\ CallOK'
    BY <1>3 DEF TryBegin, SensorOK, HandleOK, CallOK
  <2>2. OpStateOK'
    <3>1. <<kind, f>> \in Queue
      BY DEF Queue
    <3> QED
      BY <1>3, <3>1, TypeFacts DEF TryBegin, OpStateOK
  <2> QED BY <2>1, <2>2
<1>4. ASSUME StartVerify PROVE TypeOK'
  <2>1. SensorOK' /\ EntriesOK' /\ HandleOK'
    BY <1>4 DEF StartVerify, SensorOK, HandleOK
  <2>2. OpStateOK'
    BY <1>4, TypeFacts DEF StartVerify, OpStateOK
  <2>3. CallOK'
    <3>1. user' \in Users \cup {NoUser} /\ finger' \in Fingers \cup {AnyFinger}
      BY <1>4 DEF StartVerify, HandleOK, OpStateOK, Queue
    <3>2. op' = "verify" /\ pc' \in Labels
      BY <1>4 DEF StartVerify, At, Labels
    <3> QED
      BY <1>4, <3>1, <3>2 DEF StartVerify, At, CallOK
  <2> QED BY <2>1, <2>2, <2>3
<1>5. ASSUME StartEnroll PROVE TypeOK'
  <2>1. SensorOK' /\ EntriesOK' /\ HandleOK'
    BY <1>5 DEF StartEnroll, SensorOK, HandleOK
  <2>2. OpStateOK'
    BY <1>5, TypeFacts DEF StartEnroll, OpStateOK
  <2>3. CallOK'
    <3>1. user' \in Users \cup {NoUser} /\ finger' \in Fingers \cup {AnyFinger}
      BY <1>5 DEF StartEnroll, HandleOK, OpStateOK, Queue
    <3>2. op' = "enroll" /\ pc' \in Labels
      BY <1>5 DEF StartEnroll, At, Labels
    <3> QED
      BY <1>5, <3>1, <3>2 DEF StartEnroll, At, CallOK
  <2> QED BY <2>1, <2>2, <2>3
<1>6. ASSUME NEW print \in Prints, BeginDelete(print) PROVE TypeOK'
  <2>1. SensorOK' /\ EntriesOK' /\ HandleOK' /\ OpStateOK'
    BY <1>6 DEF BeginDelete, SensorOK, HandleOK, OpStateOK
  <2>2. CallOK'
    <3>1. slot' \in Slots
      BY <1>6, EntryIsSlot DEF BeginDelete
    <3>2. user' \in Users /\ finger' \in Fingers
      BY <1>6 DEF BeginDelete, Prints
    <3> QED
      BY <1>6, <3>1, <3>2 DEF BeginDelete, At, CallOK, Labels
  <2> QED BY <2>1, <2>2
<1>7. ASSUME Cancel PROVE TypeOK'
  <2>1. SensorOK' /\ EntriesOK' /\ HandleOK' /\ CallOK'
    BY <1>7 DEF Cancel, SensorOK, HandleOK, CallOK
  <2>2. OpStateOK'
    BY <1>7, TypeFacts DEF Cancel, OpStateOK
  <2> QED BY <2>1, <2>2
<1>8. ASSUME Send PROVE TypeOK'
  <2>1. EntriesOK' /\ HandleOK' /\ OpStateOK'
    BY <1>8 DEF Send, ChipActs, HandleOK, OpStateOK
  <2>2. SensorOK'
    <3>1. OkCode \in Nat /\ Refused \in Nat /\ FwMinor \in Nat /\ RecordCodes \subseteq Nat
      BY WorkerAssumption DEF OkCode, Refused
    <3>2. reply' \in Answers /\ unread' \in Answers
      BY <1>8, <3>1, TypeFacts, CountNat DEF Send, ChipActs, ChipReplies, SensorOK
    <3>3. pc = "commit" => Subject \in Prints
      BY DEF EnrollInv
    <3>4. chip' \in [Slots -> Prints \cup {Empty}] /\ chipArmed' \in BOOLEAN
      BY <1>8, <3>3 DEF Send, ChipActs, SensorOK
    <3> QED BY <3>2, <3>4 DEF SensorOK
  <2>3. CallOK'
    BY <1>8 DEF Send, Stopped, ChipActs, ChipReplies, OkCode, Refused,
       CallOK, Labels
  <2> QED BY <2>1, <2>2, <2>3
<1>9. ASSUME ReadFirmware PROVE TypeOK'
  <2>1. EntriesOK' /\ OpStateOK'
    BY <1>9 DEF ReadFirmware, OpStateOK
  <2>2. SensorOK'
    BY <1>9, ReadLeaves DEF ReadFirmware, SensorOK
  <2>3. HandleOK'
    BY <1>9 DEF ReadFirmware, Reads, Incoming, HandleOK
  <2>4. CallOK'
    BY <1>9, GotoType DEF ReadFirmware, Stopped, Labels
  <2> QED BY <2>1, <2>2, <2>3, <2>4
<1>10. ASSUME ReadArm PROVE TypeOK'
  <2>1. EntriesOK' /\ OpStateOK'
    BY <1>10 DEF ReadArm, OpStateOK
  <2>2. SensorOK'
    BY <1>10, ReadLeaves DEF ReadArm, SensorOK
  <2>3. HandleOK'
    BY <1>10 DEF ReadArm, Reads, BusyInv, Ops, HandleOK, CallOK, Goto, At
  <2>4. CallOK'
    <3>1. CASE op = "enroll"
      BY <1>10, <3>1 DEF ReadArm, TryNext, Lowest, Writable, At, CallOK, Labels
    <3>2. CASE op # "enroll"
      BY <1>10, <3>2, GotoType DEF ReadArm, Reads, BusyInv, Ops, Labels
    <3> QED BY <3>1, <3>2
  <2> QED BY <2>1, <2>2, <2>3, <2>4
<1>11. ASSUME ReadInfo PROVE TypeOK'
  <2>1. EntriesOK' /\ HandleOK' /\ OpStateOK'
    BY <1>11 DEF ReadInfo, HandleOK, OpStateOK
  <2>2. SensorOK'
    BY <1>11, ReadLeaves DEF ReadInfo, SensorOK
  <2>3. CallOK'
    BY <1>11 DEF ReadInfo, Reads, Stopped, Incoming, TryNext, At, Lowest,
       Writable, CallOK, Labels
  <2> QED BY <2>1, <2>2, <2>3
<1>12. ASSUME ReadCollide PROVE TypeOK'
  <2>1. EntriesOK' /\ HandleOK' /\ OpStateOK'
    BY <1>12 DEF ReadCollide, HandleOK, OpStateOK
  <2>2. SensorOK'
    BY <1>12, ReadLeaves DEF ReadCollide, SensorOK
  <2>3. CallOK'
    <3>1. misread' \in BOOLEAN
      BY <1>12, Zenon DEF ReadCollide, Misread
    <3> QED
      BY <1>12, <3>1 DEF ReadCollide, At, CallOK, Labels
  <2> QED BY <2>1, <2>2, <2>3
<1>13. ASSUME ReadCommit PROVE TypeOK'
  <2>1. EntriesOK' /\ HandleOK' /\ OpStateOK'
    BY <1>13 DEF ReadCommit, HandleOK, OpStateOK
  <2>2. SensorOK'
    BY <1>13, ReadLeaves DEF ReadCommit, SensorOK
  <2>3. CallOK'
    BY <1>13, GotoType DEF ReadCommit, Stopped, Labels
  <2> QED BY <2>1, <2>2, <2>3
<1>14. ASSUME ReadErase PROVE TypeOK'
  <2>1. EntriesOK' /\ HandleOK' /\ OpStateOK'
    BY <1>14 DEF ReadErase, HandleOK, OpStateOK
  <2>2. SensorOK'
    BY <1>14, ReadLeaves DEF ReadErase, SensorOK
  <2>3. CallOK'
    BY <1>14, GotoType DEF ReadErase, Stopped, Labels
  <2> QED BY <2>1, <2>2, <2>3
<1>15. ASSUME SampleAnswer PROVE TypeOK'
  <2>1. SensorOK' /\ EntriesOK' /\ HandleOK' /\ OpStateOK'
    BY <1>15 DEF SampleAnswer, SensorOK, HandleOK, OpStateOK
  <2>2. CallOK'
    <3>1. got' \in Nat /\ pc' \in Labels
      BY <1>15 DEF SampleAnswer, At, CallOK, Labels
    <3> QED
      BY <1>15, <3>1 DEF SampleAnswer, At, CallOK
  <2> QED BY <2>1, <2>2
<1>16. ASSUME Lookup PROVE TypeOK'
  <2>1. SensorOK' /\ EntriesOK' /\ HandleOK' /\ OpStateOK'
    BY <1>16 DEF Lookup, SensorOK, HandleOK, OpStateOK
  <2>2. CallOK'
    BY <1>16, GotoType DEF Lookup, Labels
  <2> QED BY <2>1, <2>2
<1>17. ASSUME NEW touch \in Prints, MatchAnswer(touch) PROVE TypeOK'
  <2>1. SensorOK' /\ EntriesOK' /\ HandleOK'
    BY <1>17 DEF MatchAnswer, SensorOK, HandleOK
  <2>2. OpStateOK'
    <3>1. verdict' \in Verdicts
      BY <1>17 DEF MatchAnswer, Allowed, Own, OpStateOK, Verdicts
    <3>2. terminals' \in Nat
      BY <1>17 DEF MatchAnswer, EmitTerminal, OpStateOK
    <3> QED
      BY <1>17, <3>1, <3>2 DEF MatchAnswer, OpStateOK
  <2>3. CallOK'
    BY <1>17, GotoType DEF MatchAnswer, Stopped, Labels
  <2> QED BY <2>1, <2>2, <2>3
<1>18. ASSUME OtherAnswer PROVE TypeOK'
  <2>1. SensorOK' /\ EntriesOK' /\ HandleOK'
    BY <1>18 DEF OtherAnswer, SensorOK, HandleOK
  <2>2. OpStateOK'
    BY <1>18, TypeFacts DEF OtherAnswer, EmitTerminal, OpStateOK
  <2>3. CallOK'
    BY <1>18, GotoType DEF OtherAnswer, Stopped, Labels
  <2> QED BY <2>1, <2>2, <2>3
<1>19. ASSUME TimeOut PROVE TypeOK'
  <2>1. SensorOK' /\ EntriesOK' /\ HandleOK' /\ OpStateOK'
    BY <1>19 DEF TimeOut, SensorOK, HandleOK, OpStateOK
  <2>2. CallOK'
    BY <1>19, GotoType DEF TimeOut, OnWire, Stopped, ReturnError, Labels
  <2> QED BY <2>1, <2>2
<1>20. ASSUME StopOnCancel PROVE TypeOK'
  <2>1. SensorOK' /\ EntriesOK' /\ HandleOK' /\ OpStateOK'
    BY <1>20 DEF StopOnCancel, SensorOK, HandleOK, OpStateOK
  <2>2. CallOK'
    BY <1>20, GotoType DEF StopOnCancel, OnWire, Stopped, ReturnError,
       Labels
  <2> QED BY <2>1, <2>2
<1>21. ASSUME Disconnected PROVE TypeOK'
  <2>1. SensorOK' /\ EntriesOK' /\ OpStateOK'
    BY <1>21 DEF Disconnected, SensorOK, OpStateOK
  <2>2. HandleOK'
    BY <1>21 DEF Disconnected, HandleOK
  <2>3. CallOK'
    BY <1>21, GotoType DEF Disconnected, OnWire, Stopped, ReturnError,
       Labels
  <2> QED BY <2>1, <2>2, <2>3
<1>22. ASSUME NoHandle PROVE TypeOK'
  <2>1. SensorOK' /\ EntriesOK' /\ HandleOK' /\ OpStateOK'
    BY <1>22 DEF NoHandle, SensorOK, HandleOK, OpStateOK
  <2>2. CallOK'
    BY <1>22, GotoType DEF NoHandle, OnWire, ReturnError, Labels
  <2> QED BY <2>1, <2>2
<1>23. ASSUME Abort PROVE TypeOK'
  <2>1. EntriesOK' /\ OpStateOK'
    BY <1>23 DEF Abort, OpStateOK
  <2>2. SensorOK'
    BY <1>23, TypeFacts DEF Abort, AbortSession, SensorOK
  <2>3. HandleOK'
    BY <1>23 DEF Abort, AbortSession, HandleOK
  <2>4. CallOK'
    BY <1>23, GotoType DEF Abort, Labels
  <2> QED BY <2>1, <2>2, <2>3, <2>4
<1>24. ASSUME Close PROVE TypeOK'
  <2>1. SensorOK' /\ EntriesOK' /\ HandleOK'
    BY <1>24 DEF Close, SensorOK, HandleOK
  <2>2. OpStateOK'
    <3>1. terminals' \in Nat
      BY <1>24 DEF Close, EmitTerminal, OpStateOK
    <3> QED
      BY <1>24, <3>1 DEF Close, OpStateOK
  <2>3. CallOK'
    BY <1>24, GotoType DEF Close, Labels
  <2> QED BY <2>1, <2>2, <2>3
<1>25. ASSUME Record PROVE TypeOK'
  <2>1. SensorOK' /\ HandleOK'
    BY <1>25 DEF Record, SensorOK, HandleOK
  <2>2. EntriesOK'
    <3>1. Subject \in Prints
      BY <1>25 DEF Record, EnrollInv
    <3>2. doubtful' \subseteq Prints
      BY <1>25, <3>1 DEF Record
    <3> QED
      BY <1>25, <3>2, FileType DEF Record, CallOK
  <2>3. OpStateOK'
    BY <1>25, TypeFacts DEF Record, EmitTerminal, OpStateOK
  <2>4. CallOK'
    BY <1>25, GotoType DEF Record, Labels
  <2> QED BY <2>1, <2>2, <2>3, <2>4
<1>26. ASSUME Forget PROVE TypeOK'
  <2>1. SensorOK' /\ HandleOK' /\ OpStateOK'
    BY <1>26 DEF Forget, SensorOK, HandleOK, OpStateOK
  <2>2. EntriesOK'
    BY <1>26, FileType, TypeFacts DEF Forget
  <2>3. CallOK'
    BY <1>26, GotoType DEF Forget, Labels
  <2> QED BY <2>1, <2>2, <2>3
<1>27. ASSUME Release PROVE TypeOK'
  <2>1. EntriesOK' /\ OpStateOK' /\ CallOK'
    BY <1>27 DEF Release, OpStateOK, CallOK
  <2>2. SensorOK'
    BY <1>27, TypeFacts DEF Release, AbortSession, SensorOK
  <2>3. HandleOK'
    BY <1>27 DEF Release, AbortSession, HandleOK
  <2> QED BY <2>1, <2>2, <2>3
<1>28. ASSUME Suspend PROVE TypeOK'
  <2>1. EntriesOK' /\ OpStateOK' /\ CallOK'
    BY <1>28 DEF Suspend, OpStateOK, CallOK
  <2>2. SensorOK'
    BY <1>28, TypeFacts DEF Suspend, AbortSession, SensorOK
  <2>3. HandleOK'
    BY <1>28 DEF Suspend, AbortSession, HandleOK
  <2> QED BY <2>1, <2>2, <2>3
<1>29. ASSUME Resume PROVE TypeOK'
  <2>1. SensorOK' /\ EntriesOK' /\ OpStateOK' /\ CallOK'
    BY <1>29 DEF Resume, SensorOK, OpStateOK, CallOK
  <2>2. HandleOK'
    BY <1>29 DEF Resume, HandleOK
  <2> QED BY <2>1, <2>2
<1>30. ASSUME Replug PROVE TypeOK'
  <2>1. EntriesOK' /\ OpStateOK' /\ CallOK'
    BY <1>30 DEF Replug, OpStateOK, CallOK
  <2>2. SensorOK'
    BY <1>30, TypeFacts DEF Replug, SensorOK
  <2>3. HandleOK'
    BY <1>30 DEF Replug, HandleOK
  <2> QED BY <2>1, <2>2, <2>3
<1>31. ASSUME Crash PROVE TypeOK'
  <2>1. SensorOK' /\ EntriesOK'
    BY <1>31 DEF Crash, SensorOK
  <2>2. HandleOK'
    BY <1>31 DEF Crash, HandleOK
  <2>3. OpStateOK'
    BY <1>31, TypeFacts DEF Crash, OpStateOK
  <2>4. CallOK'
    BY <1>31, GotoType DEF Crash, Labels
  <2> QED BY <2>1, <2>2, <2>3, <2>4
<1>32. CASE UNCHANGED vars
  BY <1>32 DEF SensorOK, HandleOK, OpStateOK, CallOK
<1> QED
  BY <1>1, <1>2, <1>3, <1>4, <1>5, <1>6, <1>7, <1>8, <1>9, <1>10, <1>11,
     <1>12, <1>13, <1>14, <1>15, <1>16, <1>17, <1>18, <1>19, <1>20, <1>21,
     <1>22, <1>23, <1>24, <1>25, <1>26, <1>27, <1>28, <1>29, <1>30, <1>31,
     <1>32 DEF Next, Requests, Proceed, Exchange

-----------------------------------------------------------------------------
(* A step that leaves the templates alone leaves their number alone.       *)
LEMMA CountSame == UNCHANGED chip => UNCHANGED Count
  BY DEF Count, Templates

(* What free_slot picks is an id that nobody is mapped to.                 *)
LEMMA TryNextPicks ==
    ASSUME NEW n \in Nat, TryNext(Writable(n, store))
    PROVE  pc' = "abort" \/ (pc' = "info" /\ slot' \in Slots \ Tracked(store) /\ slot' >= n)
<1>1. CASE Writable(n, store) = {}
  BY <1>1 DEF TryNext, At
<1>2. CASE Writable(n, store) # {}
  <2>1. At("info") /\ slot' \in Writable(n, store)
    BY <1>2 DEF TryNext, Lowest
  <2> QED BY <2>1 DEF Writable, At
<1> QED BY <1>1, <1>2

(* A collision check that passes for another reason than a slot record was *)
(* passed by its own answer, with nothing else on the endpoint.            *)
LEMMA CollisionIsOwn ==
    ASSUME SensorOK, AnswerInv, ReadCollide, pc' = "commit", ~misread'
    PROVE  unread = NoReply /\ reply' = NoReply /\ unread' = NoReply
<1>1. Incoming \in Answers /\ Reads("collide")
  BY DEF Incoming, SensorOK, ReadCollide
<1>2. Incoming.len >= 3 /\ Incoming.code = OkCode /\ ~Misread(Incoming)
  BY Zenon DEF ReadCollide, At
<1>3. Incoming.len = 3
  BY <1>1, <1>2, AnswerFacts DEF Misread
<1>4. unread = NoReply
  BY <1>1, <1>3 DEF Incoming, AnswerInv, Reads
<1> QED BY <1>1, <1>4, AnswerFacts DEF Reads

(* Every step preserves the argument about the count.                      *)
LEMMA CountStep == ASSUME IInv, TypeOK', [Next]_vars PROVE CountInv'
<1> USE CountSame DEF IInv, TypeOK, CountInv, CommitAboveCount, InStep
<1>1. ASSUME NEW u \in Users, BeginClaim(u) PROVE CountInv'
  BY <1>1 DEF BeginClaim, At
<1>2. ASSUME OpenHandle PROVE CountInv'
  BY <1>2 DEF OpenHandle, Goto, At
<1>3. ASSUME NEW kind \in {"verify", "enroll"}, NEW f \in Fingers \cup {AnyFinger}, TryBegin(kind, f)
     PROVE  CountInv'
  BY <1>3 DEF TryBegin
<1>4. ASSUME StartVerify PROVE CountInv'
  BY <1>4 DEF StartVerify, At
<1>5. ASSUME StartEnroll PROVE CountInv'
  BY <1>5 DEF StartEnroll, At
<1>6. ASSUME NEW print \in Prints, BeginDelete(print) PROVE CountInv'
  BY <1>6 DEF BeginDelete, At
<1>7. ASSUME Cancel PROVE CountInv'
  BY <1>7 DEF Cancel
<1>8. ASSUME Send PROVE CountInv'
  <2>1. (pc = "arm" /\ reply' # NoReply => reply'.code = Count) /\ (pc = "arm" => UNCHANGED chip)
    BY <1>8, CountNat, AnswerFacts DEF Send, ChipActs, ChipReplies
  <2>2. pc \in {"info", "sample", "collide"} => UNCHANGED chip /\ (InStep' => InStep)
    BY <1>8, RepliesLeave, AnswerFacts DEF Send, ChipActs
  <2> QED BY <1>8, <2>1, <2>2 DEF Send
<1>9. ASSUME ReadFirmware PROVE CountInv'
  BY <1>9 DEF ReadFirmware, Goto, At
<1>10. ASSUME ReadArm PROVE CountInv'
  <2>1. CASE op = "enroll"
    <3>1. Incoming \in Answers
      BY DEF Incoming, SensorOK
    <3>2. TryNext(Writable(Incoming.code, store))
      BY <1>10, <2>1 DEF ReadArm
    <3>3. pc' = "abort" \/ (pc' = "info" /\ slot' >= Incoming.code)
      BY <3>1, <3>2, AnswerFacts, TryNextPicks
    <3>4. pc' # "commit" /\ UNCHANGED chip /\ ~sent'
      BY <1>10, <3>2 DEF ReadArm, Reads, TryNext, At
    <3>5. pc' = "info" /\ reply' = NoReply => Incoming.code = Count
      BY <1>10 DEF ReadArm, Reads, Incoming, AnswerInv
    <3> QED
      BY <3>3, <3>4, <3>5, CountNat DEF ReadArm, Reads
  <2>2. CASE op # "enroll"
    <3>1. pc' \in {"idle", "lookup"}
      BY <1>10, <2>2 DEF ReadArm, Reads, Goto, At, BusyInv, Ops
    <3> QED BY <3>1
  <2> QED BY <2>1, <2>2
<1>11. ASSUME ReadInfo PROVE CountInv'
  <2>1. slot + 1 \in Nat /\ slot \in Nat
    BY DEF CallOK, Slots
  <2>2. UNCHANGED chip /\ (usb' = "open" /\ reply' = NoReply => slot >= Count)
    BY <1>11 DEF ReadInfo, Reads, AnswerInv
  <2>3. CASE TryNext(Writable(slot + 1, store))
    <3>1. pc' = "abort" \/ (pc' = "info" /\ slot' \in Nat /\ slot' >= slot + 1)
      BY <2>1, <2>3, TryNextPicks DEF Slots
    <3>2. ~sent'
      BY <2>3 DEF TryNext, At
    <3>3. pc' = "info" /\ usb' = "open" /\ InStep' => slot' >= Count
      BY <2>1, <2>2, <3>1, <3>2, CountNat
    <3> QED
      BY <2>2, <3>1, <3>2, <3>3
  <2>4. CASE At("sample") /\ UNCHANGED slot
    BY <2>2, <2>4 DEF At
  <2> QED BY <1>11, <2>3, <2>4 DEF ReadInfo
<1>12. ASSUME ReadCollide PROVE CountInv'
  <2>1. pc' \in {"commit", "abort"} /\ UNCHANGED <<chip, slot, usb>>
    BY <1>12 DEF ReadCollide, At
  <2>2. pc' = "commit" /\ ~misread' /\ usb = "open" => slot >= Count
    BY <1>12, CollisionIsOwn DEF ReadCollide, Reads
  <2> QED BY <2>1, <2>2
<1>13. ASSUME ReadCommit PROVE CountInv'
  BY <1>13 DEF ReadCommit, Goto, At
<1>14. ASSUME ReadErase PROVE CountInv'
  BY <1>14 DEF ReadErase, Goto, At
<1>15. ASSUME SampleAnswer PROVE CountInv'
  BY <1>15 DEF SampleAnswer, Touched, At
<1>16. ASSUME Lookup PROVE CountInv'
  BY <1>16 DEF Lookup, Goto, At
<1>17. ASSUME NEW touch \in Prints, MatchAnswer(touch) PROVE CountInv'
  BY <1>17 DEF MatchAnswer, Goto, At
<1>18. ASSUME OtherAnswer PROVE CountInv'
  BY <1>18 DEF OtherAnswer, Goto, At
<1>19. ASSUME TimeOut PROVE CountInv'
  BY <1>19 DEF TimeOut, ReturnError, Goto, At
<1>20. ASSUME StopOnCancel PROVE CountInv'
  BY <1>20 DEF StopOnCancel, ReturnError, Goto, At
<1>21. ASSUME Disconnected PROVE CountInv'
  BY <1>21 DEF Disconnected, ReturnError, Goto, At
<1>22. ASSUME NoHandle PROVE CountInv'
  BY <1>22 DEF NoHandle, ReturnError, Goto, At
<1>23. ASSUME Abort PROVE CountInv'
  BY <1>23 DEF Abort, Goto, At
<1>24. ASSUME Close PROVE CountInv'
  BY <1>24 DEF Close, Goto, At
<1>25. ASSUME Record PROVE CountInv'
  BY <1>25 DEF Record, Goto, At
<1>26. ASSUME Forget PROVE CountInv'
  BY <1>26 DEF Forget, Goto, At
<1>27. ASSUME Release PROVE CountInv'
  BY <1>27 DEF Release
<1>28. ASSUME Suspend PROVE CountInv'
  BY <1>28 DEF Suspend
<1>29. ASSUME Resume PROVE CountInv'
  BY <1>29 DEF Resume
<1>30. ASSUME Replug PROVE CountInv'
  BY <1>30 DEF Replug
<1>31. ASSUME Crash PROVE CountInv'
  BY <1>31 DEF Crash, Goto, At
<1>32. CASE UNCHANGED vars
  BY <1>32
<1> QED
  BY <1>1, <1>2, <1>3, <1>4, <1>5, <1>6, <1>7, <1>8, <1>9, <1>10, <1>11,
     <1>12, <1>13, <1>14, <1>15, <1>16, <1>17, <1>18, <1>19, <1>20, <1>21,
     <1>22, <1>23, <1>24, <1>25, <1>26, <1>27, <1>28, <1>29, <1>30, <1>31,
     <1>32 DEF Next, Requests, Proceed, Exchange

-----------------------------------------------------------------------------
(* Every step preserves the rest of IInv: no exchange, cancellation,       *)
(* replug or crash upsets what the next exchange relies on.                *)
LEMMA InvStep ==
    ASSUME IInv, TypeOK', CountInv', [Next]_vars
    PROVE  IInv'
<1> USE AnswerFacts DEF IInv, TypeOK, EntriesOK, Ownership, OneOwner, MatchIsGenuine,
       EnrollInv, DeleteInv, AnswerInv, ArmInv, BusyInv, Subject, Ops
<1>1. ASSUME NEW u \in Users, BeginClaim(u) PROVE IInv'
  <2>1. Ownership' /\ OneOwner(store)' /\ MatchIsGenuine'
    BY <1>1 DEF BeginClaim, At
  <2>2. EnrollInv' /\ DeleteInv'
    BY <1>1 DEF BeginClaim, At
  <2>3. AnswerInv'
    BY <1>1 DEF BeginClaim, At
  <2>4. ArmInv' /\ BusyInv'
    BY <1>1 DEF BeginClaim, At
  <2> QED BY <2>1, <2>2, <2>3, <2>4
<1>2. ASSUME OpenHandle PROVE IInv'
  <2>1. Ownership' /\ OneOwner(store)' /\ MatchIsGenuine'
    BY <1>2 DEF OpenHandle, Goto, At, NoLocals
  <2>2. EnrollInv' /\ DeleteInv'
    BY <1>2 DEF OpenHandle, Goto, At, NoLocals
  <2>3. AnswerInv'
    BY <1>2 DEF OpenHandle, Goto, At, NoLocals
  <2>4. ArmInv' /\ BusyInv'
    BY <1>2 DEF OpenHandle, Goto, At, NoLocals
  <2> QED BY <2>1, <2>2, <2>3, <2>4
<1>3. ASSUME NEW kind \in {"verify", "enroll"}, NEW f \in Fingers \cup {AnyFinger}, TryBegin(kind, f)
     PROVE  IInv'
  <2>1. Ownership' /\ OneOwner(store)' /\ MatchIsGenuine' /\ EnrollInv' /\ DeleteInv'
    BY <1>3 DEF TryBegin
  <2>2. AnswerInv' /\ ArmInv'
    BY <1>3 DEF TryBegin
  <2>3. BusyInv'
    BY <1>3 DEF TryBegin, NoOp
  <2> QED BY <2>1, <2>2, <2>3
<1>4. ASSUME StartVerify PROVE IInv'
  <2>1. Ownership' /\ OneOwner(store)' /\ MatchIsGenuine' /\ EnrollInv' /\ DeleteInv'
    BY <1>4 DEF StartVerify, At
  <2>2. AnswerInv' /\ ArmInv'
    BY <1>4 DEF StartVerify, At
  <2>3. BusyInv'
    BY <1>4 DEF StartVerify, At, NoOp
  <2> QED BY <2>1, <2>2, <2>3
<1>5. ASSUME StartEnroll PROVE IInv'
  <2>1. Ownership' /\ OneOwner(store)' /\ MatchIsGenuine' /\ EnrollInv' /\ DeleteInv'
    BY <1>5 DEF StartEnroll, At
  <2>2. AnswerInv' /\ ArmInv'
    BY <1>5 DEF StartEnroll, At
  <2>3. BusyInv'
    BY <1>5 DEF StartEnroll, At, NoOp
  <2> QED BY <2>1, <2>2, <2>3
<1>6. ASSUME NEW print \in Prints, BeginDelete(print) PROVE IInv'
  <2>1. Ownership' /\ OneOwner(store)' /\ MatchIsGenuine' /\ EnrollInv'
    BY <1>6 DEF BeginDelete, At
  <2>2. DeleteInv'
    <3>1. <<print[1], print[2]>> = print
      BY DEF Prints
    <3> QED BY <1>6, <3>1, SMT DEF BeginDelete, At, CallOK
  <2>3. AnswerInv'
    BY <1>6 DEF BeginDelete, At
  <2>4. ArmInv' /\ BusyInv'
    BY <1>6 DEF BeginDelete, At
  <2> QED BY <2>1, <2>2, <2>3, <2>4
<1>7. ASSUME Cancel PROVE IInv'
  <2>1. Ownership' /\ OneOwner(store)' /\ MatchIsGenuine'
    BY <1>7 DEF Cancel
  <2>2. EnrollInv' /\ DeleteInv'
    BY <1>7 DEF Cancel
  <2>3. AnswerInv'
    BY <1>7 DEF Cancel
  <2>4. ArmInv' /\ BusyInv'
    BY <1>7 DEF Cancel
  <2> QED BY <2>1, <2>2, <2>3, <2>4
<1>8. ASSUME Send PROVE IInv'
  <2>1. Ownership'
    <3>1. pc = "commit" => \A p \in Prints : store[p] # slot
      BY StoreAssumption DEF Tracked, CallOK, Slots, NoSlot
    <3>2. CASE chip' = chip
      BY <1>8, <3>2 DEF Send
    <3>3. CASE pc = "commit" /\ chip' = [chip EXCEPT ![slot] = Subject]
      BY <1>8, <3>1, <3>3 DEF Send, SensorOK, Files
    <3>4. CASE pc = "erase" /\ chip' = [chip EXCEPT ![slot] = Empty]
      BY <1>8, <3>4 DEF Send, SensorOK, Files
    <3> QED BY <1>8, <3>2, <3>3, <3>4 DEF Send, ChipActs
  <2>2. OneOwner(store)' /\ MatchIsGenuine'
    BY <1>8 DEF Send
  <2>3. EnrollInv' /\ DeleteInv'
    BY <1>8 DEF Send
  <2>4. AnswerInv'
    <3>1. CASE pc \in {"firmware", "arm", "info"}
      BY <1>8, <3>1, CountNat, WorkerAssumption DEF Send, ChipActs, ChipReplies,
         OkCode, SensorOK
    <3>2. CASE pc \in {"collide", "commit", "erase"}
      BY <1>8, <3>2 DEF Send, ChipActs, ChipReplies, OkCode, Refused, SensorOK, CallOK
    <3>3. CASE pc \in TouchWaits
      BY <1>8, <3>3 DEF Send, ChipActs, TouchWaits
    <3> QED BY <1>8, <3>1, <3>2, <3>3 DEF Send, ChipActs
  <2>5. ArmInv' /\ BusyInv'
    BY <1>8 DEF Send, ChipActs
  <2> QED BY <2>1, <2>2, <2>3, <2>4, <2>5
<1>9. ASSUME ReadFirmware PROVE IInv'
  BY <1>9 DEF ReadFirmware, Reads, Goto, At
<1>10. ASSUME ReadArm PROVE IInv'
  <2>1. Ownership' /\ OneOwner(store)' /\ MatchIsGenuine' /\ DeleteInv'
    <3>1. UNCHANGED <<chip, entries, verdict>>
      BY <1>10 DEF ReadArm
    <3>2. pc' \notin {"erase", "forget"}
      BY <1>10 DEF ReadArm, Reads, Goto, TryNext, At
    <3> QED BY <3>1, <3>2
  <2>2. EnrollInv'
    <3>1. CASE op = "enroll"
      <4>1. pc' = "abort" \/ (pc' = "info" /\ slot' \notin Tracked(store))
        <5>1. TryNext(Writable(Incoming.code, store))
          BY <1>10, <3>1 DEF ReadArm
        <5> QED BY <5>1 DEF TryNext, Lowest, Writable, At
      <4>2. UNCHANGED <<op, user, finger, store, chip>> /\ pc = "arm"
        BY <1>10, <3>1 DEF ReadArm, Reads
      <4> QED BY <3>1, <4>1, <4>2
    <3>2. CASE op # "enroll"
      <4>1. pc' \in {"idle", "lookup"} /\ op' # "enroll"
        BY <1>10, <3>2 DEF ReadArm, Reads, Goto, At, NoLocals
      <4> QED BY <4>1
    <3> QED BY <3>1, <3>2
  <2>3. AnswerInv'
    <3>1. unread' # NoReply => reply' # NoReply
      BY <1>10, ReadLeaves DEF ReadArm
    <3>2. unread'.len # 3 /\ reply'.len # 3
      BY <1>10, ReadLeaves DEF ReadArm, Reads
    <3>3. CASE op = "enroll"
      <4>1. pc' \in {"abort", "info"} /\ ~sent'
        BY <1>10, <3>3 DEF ReadArm, TryNext, At
      <4> QED BY <3>1, <3>2, <4>1
    <3>4. CASE op # "enroll"
      <4>1. pc' \in {"idle", "lookup"}
        BY <1>10, <3>4 DEF ReadArm, Reads, Goto, At
      <4> QED BY <3>1, <4>1
    <3> QED BY <3>3, <3>4
  <2>4. ArmInv'
    BY <1>10 DEF ReadArm, Reads, Goto, At, TryNext
  <2>5. BusyInv'
    <3>1. CASE op = "enroll"
      BY <1>10, <3>1 DEF ReadArm, TryNext, Reads, At
    <3>2. CASE op # "enroll"
      <4>1. UNCHANGED opState /\ pc = "arm" /\ op \in {"claim", "verify"}
        BY <1>10, <3>2 DEF ReadArm, Reads
      <4>2. CASE op = "claim"
        BY <1>10, <4>1, <4>2 DEF ReadArm, Reads, Goto, At, NoLocals
      <4>3. CASE op = "verify"
        BY <1>10, <4>1, <4>3 DEF ReadArm, Reads, Goto, At, NoLocals
      <4> QED BY <4>1, <4>2, <4>3
    <3> QED BY <3>1, <3>2
  <2> QED BY <2>1, <2>2, <2>3, <2>4, <2>5
<1>11. ASSUME ReadInfo PROVE IInv'
  <2>1. /\ pc = "info" /\ pc' \in {"abort", "info", "sample"} /\ sent' = FALSE
        /\ UNCHANGED <<chip, chipArmed, entries, handle, opState, request, got, misread>>
    BY <1>11 DEF ReadInfo, Reads, TryNext, At
  <2>2. Ownership' /\ OneOwner(store)' /\ MatchIsGenuine' /\ DeleteInv'
    BY <2>1
  <2>3. EnrollInv'
    <3>1. pc' # "abort" => slot' \notin Tracked(store)
      BY <1>11, <2>1 DEF ReadInfo, TryNext, At, Lowest, Writable
    <3> QED BY <2>1, <3>1
  <2>4. AnswerInv'
    <3>1. unread' = NoReply /\ reply' \in {reply, NoReply} /\ reply.len # 3
      BY <1>11, <2>1, ReadLeaves DEF ReadInfo, Reads
    <3> QED BY <2>1, <3>1
  <2>5. ArmInv' /\ BusyInv'
    BY <2>1
  <2> QED BY <2>2, <2>3, <2>4, <2>5
<1>12. ASSUME ReadCollide PROVE IInv'
  <2>1. /\ pc = "collide" /\ pc' \in {"commit", "abort"} /\ ~sent'
        /\ UNCHANGED <<chip, chipArmed, entries, handle, opState, request, slot>>
    BY <1>12 DEF ReadCollide, Reads, At
  <2>2. Ownership' /\ OneOwner(store)' /\ MatchIsGenuine' /\ EnrollInv' /\ DeleteInv'
    BY <2>1
  <2>3. AnswerInv'
    <3>1. unread' # NoReply => reply' # NoReply
      BY <1>12, ReadLeaves DEF ReadCollide
    <3>2. pc' = "commit" /\ ~misread' => unread' = NoReply /\ reply' = NoReply
      BY <1>12, CollisionIsOwn
    <3> QED BY <2>1, <3>1, <3>2
  <2>4. ArmInv' /\ BusyInv'
    BY <2>1
  <2> QED BY <2>2, <2>3, <2>4
<1>13. ASSUME ReadCommit PROVE IInv'
  <2>1. Ownership' /\ OneOwner(store)' /\ MatchIsGenuine'
    BY <1>13 DEF ReadCommit, Reads, Incoming, Goto, At
  <2>2. EnrollInv' /\ DeleteInv'
    BY <1>13 DEF ReadCommit, Reads, Incoming, Goto, At
  <2>3. AnswerInv'
    BY <1>13 DEF ReadCommit, Reads, Incoming, Goto, At
  <2>4. ArmInv' /\ BusyInv'
    BY <1>13 DEF ReadCommit, Reads, Incoming, Goto, At
  <2> QED BY <2>1, <2>2, <2>3, <2>4
<1>14. ASSUME ReadErase PROVE IInv'
  <2>1. Ownership' /\ OneOwner(store)' /\ MatchIsGenuine'
    BY <1>14 DEF ReadErase, Reads, Goto, At, NoLocals
  <2>2. EnrollInv' /\ DeleteInv'
    BY <1>14 DEF ReadErase, Reads, Goto, At, NoLocals
  <2>3. AnswerInv'
    BY <1>14 DEF ReadErase, Reads, Goto, At, NoLocals
  <2>4. ArmInv' /\ BusyInv'
    BY <1>14 DEF ReadErase, Reads, Goto, At, NoLocals
  <2> QED BY <2>1, <2>2, <2>3, <2>4
<1>15. ASSUME SampleAnswer PROVE IInv'
  <2>1. Ownership' /\ OneOwner(store)' /\ MatchIsGenuine'
    BY <1>15 DEF SampleAnswer, Touched, At
  <2>2. EnrollInv' /\ DeleteInv'
    BY <1>15 DEF SampleAnswer, Touched, At
  <2>3. AnswerInv'
    BY <1>15 DEF SampleAnswer, Touched, At
  <2>4. ArmInv' /\ BusyInv'
    BY <1>15 DEF SampleAnswer, Touched, At
  <2> QED BY <2>1, <2>2, <2>3, <2>4
<1>16. ASSUME Lookup PROVE IInv'
  <2>1. Ownership' /\ OneOwner(store)' /\ MatchIsGenuine'
    BY <1>16 DEF Lookup, Goto, At
  <2>2. EnrollInv' /\ DeleteInv'
    BY <1>16 DEF Lookup, Goto, At
  <2>3. AnswerInv'
    BY <1>16 DEF Lookup, Goto, At
  <2>4. ArmInv' /\ BusyInv'
    BY <1>16 DEF Lookup, Goto, At
  <2> QED BY <2>1, <2>2, <2>3, <2>4
<1>17. ASSUME NEW touch \in Prints, MatchAnswer(touch) PROVE IInv'
  <2>1. MatchIsGenuine'
    <3>1. UNCHANGED doubtful
      BY <1>17 DEF MatchAnswer
    <3>2. CASE verdict' = verdict
      BY <3>1, <3>2
    <3>3. CASE \E s \in Templates, p \in Allowed :
                 chip[s] = touch /\ store[p] = s /\ verdict' = [touch |-> touch, print |-> p]
      BY <3>1, <3>3 DEF Templates, Allowed, Own
    <3> QED BY <1>17, <3>2, <3>3 DEF MatchAnswer
  <2>2. Ownership' /\ OneOwner(store)' /\ EnrollInv' /\ DeleteInv'
    BY <1>17 DEF MatchAnswer, Touched, Goto, At
  <2>3. AnswerInv'
    BY <1>17 DEF MatchAnswer, Touched, EmitTerminal, Goto, At
  <2>4. ArmInv' /\ BusyInv'
    BY <1>17 DEF MatchAnswer, Touched, EmitTerminal, Goto, At
  <2> QED BY <2>1, <2>2, <2>3, <2>4
<1>18. ASSUME OtherAnswer PROVE IInv'
  <2>1. Ownership' /\ OneOwner(store)' /\ MatchIsGenuine'
    BY <1>18 DEF OtherAnswer, Touched, EmitTerminal, Goto, At
  <2>2. EnrollInv' /\ DeleteInv'
    BY <1>18 DEF OtherAnswer, Touched, EmitTerminal, Goto, At
  <2>3. AnswerInv'
    BY <1>18 DEF OtherAnswer, Touched, EmitTerminal, Goto, At
  <2>4. ArmInv' /\ BusyInv'
    BY <1>18 DEF OtherAnswer, Touched, EmitTerminal, Goto, At
  <2> QED BY <2>1, <2>2, <2>3, <2>4
<1>19. ASSUME TimeOut PROVE IInv'
  <2>1. Ownership' /\ OneOwner(store)' /\ MatchIsGenuine'
    BY <1>19 DEF TimeOut, OnWire, ReturnError, Goto, At, NoLocals
  <2>2. EnrollInv' /\ DeleteInv'
    BY <1>19 DEF TimeOut, OnWire, ReturnError, Goto, At, NoLocals
  <2>3. AnswerInv'
    BY <1>19 DEF TimeOut, OnWire, ReturnError, Goto, At, NoLocals
  <2>4. ArmInv' /\ BusyInv'
    BY <1>19 DEF TimeOut, OnWire, ReturnError, Goto, At, NoLocals
  <2> QED BY <2>1, <2>2, <2>3, <2>4
<1>20. ASSUME StopOnCancel PROVE IInv'
  <2>1. Ownership' /\ OneOwner(store)' /\ MatchIsGenuine'
    BY <1>20 DEF StopOnCancel, OnWire, ReturnError, Goto, At, NoLocals
  <2>2. EnrollInv' /\ DeleteInv'
    BY <1>20 DEF StopOnCancel, OnWire, ReturnError, Goto, At, NoLocals
  <2>3. AnswerInv'
    BY <1>20 DEF StopOnCancel, OnWire, ReturnError, Goto, At, NoLocals
  <2>4. ArmInv' /\ BusyInv'
    BY <1>20 DEF StopOnCancel, OnWire, ReturnError, Goto, At, NoLocals
  <2> QED BY <2>1, <2>2, <2>3, <2>4
<1>21. ASSUME Disconnected PROVE IInv'
  <2>1. Ownership' /\ OneOwner(store)' /\ MatchIsGenuine'
    BY <1>21 DEF Disconnected, OnWire, ReturnError, Goto, At, NoLocals
  <2>2. EnrollInv' /\ DeleteInv'
    BY <1>21 DEF Disconnected, OnWire, ReturnError, Goto, At, NoLocals
  <2>3. AnswerInv'
    BY <1>21 DEF Disconnected, OnWire, ReturnError, Goto, At, NoLocals
  <2>4. ArmInv' /\ BusyInv'
    BY <1>21 DEF Disconnected, OnWire, ReturnError, Goto, At, NoLocals
  <2> QED BY <2>1, <2>2, <2>3, <2>4
<1>22. ASSUME NoHandle PROVE IInv'
  <2>1. Ownership' /\ OneOwner(store)' /\ MatchIsGenuine'
    BY <1>22 DEF NoHandle, OnWire, ReturnError, Goto, At, NoLocals
  <2>2. EnrollInv' /\ DeleteInv'
    BY <1>22 DEF NoHandle, OnWire, ReturnError, Goto, At, NoLocals
  <2>3. AnswerInv'
    BY <1>22 DEF NoHandle, OnWire, ReturnError, Goto, At, NoLocals
  <2>4. ArmInv' /\ BusyInv'
    BY <1>22 DEF NoHandle, OnWire, ReturnError, Goto, At, NoLocals
  <2> QED BY <2>1, <2>2, <2>3, <2>4
<1>23. ASSUME Abort PROVE IInv'
  <2>1. Ownership' /\ OneOwner(store)' /\ MatchIsGenuine'
    BY <1>23 DEF Abort, AbortSession, Goto, At
  <2>2. EnrollInv' /\ DeleteInv'
    BY <1>23 DEF Abort, AbortSession, Goto, At
  <2>3. AnswerInv'
    BY <1>23 DEF Abort, AbortSession, Goto, At
  <2>4. ArmInv' /\ BusyInv'
    BY <1>23 DEF Abort, AbortSession, Goto, At
  <2> QED BY <2>1, <2>2, <2>3, <2>4
<1>24. ASSUME Close PROVE IInv'
  <2>1. Ownership' /\ OneOwner(store)' /\ MatchIsGenuine'
    BY <1>24 DEF Close, EmitTerminal, Goto, At, NoLocals
  <2>2. EnrollInv' /\ DeleteInv'
    BY <1>24 DEF Close, EmitTerminal, Goto, At, NoLocals
  <2>3. AnswerInv'
    BY <1>24 DEF Close, EmitTerminal, Goto, At, NoLocals
  <2>4. ArmInv' /\ BusyInv'
    BY <1>24 DEF Close, EmitTerminal, Goto, At, NoLocals
  <2> QED BY <2>1, <2>2, <2>3, <2>4
<1>25. ASSUME Record PROVE IInv'
  <2>1. Ownership' /\ OneOwner(store)'
    <3>1. CASE UNCHANGED entries
      BY <1>25, <3>1 DEF Record
    <3>2. CASE /\ store' = Insert(store, Subject, slot) /\ ~SlotTaken(store, Subject, slot)
               /\ doubtful' = IF misread THEN doubtful \cup {Subject} ELSE doubtful \ {Subject}
      <4>1. /\ Subject \in Prints /\ chip' = chip
            /\ store \in Files /\ slot \in Slots
            /\ Subject \notin doubtful' => chip[slot] = Subject
            /\ doubtful \subseteq doubtful' \cup {Subject}
        BY <1>25, <3>2 DEF Record, SensorOK, CallOK
      <4>2. /\ OneOwner(store') /\ store'[Subject] = slot
            /\ \A p \in Prints \ {Subject} : store'[p] = store[p]
        <5> HIDE DEF OneOwner, Subject
        <5> QED BY <3>2, <4>1, InsertKeeps DEF IInv
      <4> QED BY <4>1, <4>2
    <3> QED BY <1>25, <3>1, <3>2 DEF Record
  <2>2. MatchIsGenuine' /\ EnrollInv' /\ DeleteInv'
    BY <1>25 DEF Record, Goto, At
  <2>3. AnswerInv'
    BY <1>25 DEF Record, EmitTerminal, Goto, At
  <2>4. ArmInv' /\ BusyInv'
    BY <1>25 DEF Record, EmitTerminal, Goto, At
  <2> QED BY <2>1, <2>2, <2>3, <2>4
<1>26. ASSUME Forget PROVE IInv'
  <2>1. Ownership' /\ OneOwner(store)'
    <3>1. CASE store' = store
      BY <1>26, <3>1 DEF Forget
    <3>2. CASE store' = Remove(store, Subject)
      <4>1. Subject \in Prints /\ store \in Files /\ chip' = chip /\ doubtful' = doubtful
        BY <1>26 DEF Forget, SensorOK
      <4>2. OneOwner(store') /\ \A p \in Prints \ {Subject} : store'[p] = store[p]
        <5> HIDE DEF OneOwner, Subject
        <5> QED BY <3>2, <4>1, RemoveKeeps DEF IInv
      <4>3. store'[Subject] = NoSlot
        BY <3>2, <4>1 DEF Remove, Files
      <4> QED BY <4>1, <4>2, <4>3
    <3> QED BY <1>26, <3>1, <3>2 DEF Forget
  <2>2. MatchIsGenuine' /\ EnrollInv' /\ DeleteInv'
    BY <1>26 DEF Forget, Goto, At, NoLocals
  <2>3. AnswerInv'
    BY <1>26 DEF Forget, Goto, At, NoLocals
  <2>4. ArmInv' /\ BusyInv'
    BY <1>26 DEF Forget, Goto, At, NoLocals
  <2> QED BY <2>1, <2>2, <2>3, <2>4
<1>27. ASSUME Release PROVE IInv'
  <2>1. Ownership' /\ OneOwner(store)' /\ MatchIsGenuine'
    BY <1>27 DEF Release, AbortSession
  <2>2. EnrollInv' /\ DeleteInv'
    BY <1>27 DEF Release, AbortSession
  <2>3. AnswerInv'
    BY <1>27 DEF Release, AbortSession
  <2>4. ArmInv' /\ BusyInv'
    BY <1>27 DEF Release, AbortSession
  <2> QED BY <2>1, <2>2, <2>3, <2>4
<1>28. ASSUME Suspend PROVE IInv'
  <2>1. Ownership' /\ OneOwner(store)' /\ MatchIsGenuine'
    BY <1>28 DEF Suspend, AbortSession
  <2>2. EnrollInv' /\ DeleteInv'
    BY <1>28 DEF Suspend, AbortSession
  <2>3. AnswerInv'
    BY <1>28 DEF Suspend, AbortSession
  <2>4. ArmInv' /\ BusyInv'
    BY <1>28 DEF Suspend, AbortSession
  <2> QED BY <2>1, <2>2, <2>3, <2>4
<1>29. ASSUME Resume PROVE IInv'
  <2>1. Ownership' /\ OneOwner(store)' /\ MatchIsGenuine'
    BY <1>29 DEF Resume
  <2>2. EnrollInv' /\ DeleteInv'
    BY <1>29 DEF Resume
  <2>3. AnswerInv'
    BY <1>29 DEF Resume
  <2>4. ArmInv' /\ BusyInv'
    BY <1>29 DEF Resume
  <2> QED BY <2>1, <2>2, <2>3, <2>4
<1>30. ASSUME Replug PROVE IInv'
  <2>1. Ownership' /\ OneOwner(store)' /\ MatchIsGenuine'
    BY <1>30 DEF Replug
  <2>2. EnrollInv' /\ DeleteInv'
    BY <1>30 DEF Replug
  <2>3. AnswerInv'
    BY <1>30 DEF Replug
  <2>4. ArmInv' /\ BusyInv'
    BY <1>30 DEF Replug
  <2> QED BY <2>1, <2>2, <2>3, <2>4
<1>31. ASSUME Crash PROVE IInv'
  <2>1. Ownership' /\ OneOwner(store)' /\ MatchIsGenuine'
    BY <1>31 DEF Crash, Goto, At, NoLocals
  <2>2. EnrollInv' /\ DeleteInv'
    BY <1>31 DEF Crash, Goto, At, NoLocals
  <2>3. AnswerInv'
    BY <1>31 DEF Crash, Goto, At, NoLocals
  <2>4. ArmInv' /\ BusyInv'
    BY <1>31 DEF Crash, Goto, At, NoLocals
  <2> QED BY <2>1, <2>2, <2>3, <2>4
<1>32. CASE UNCHANGED vars
  <2>1. Ownership' /\ OneOwner(store)' /\ MatchIsGenuine'
    BY <1>32 DEF SensorOK, HandleOK, OpStateOK, CallOK
  <2>2. EnrollInv' /\ DeleteInv'
    BY <1>32 DEF SensorOK, HandleOK, OpStateOK, CallOK
  <2>3. AnswerInv'
    BY <1>32 DEF SensorOK, HandleOK, OpStateOK, CallOK
  <2>4. ArmInv' /\ BusyInv'
    BY <1>32 DEF SensorOK, HandleOK, OpStateOK, CallOK
  <2> QED BY <2>1, <2>2, <2>3, <2>4
<1> HIDE DEF IInv
<1> QED
  BY <1>1, <1>2, <1>3, <1>4, <1>5, <1>6, <1>7, <1>8, <1>9, <1>10, <1>11,
     <1>12, <1>13, <1>14, <1>15, <1>16, <1>17, <1>18, <1>19, <1>20, <1>21,
     <1>22, <1>23, <1>24, <1>25, <1>26, <1>27, <1>28, <1>29, <1>30, <1>31,
     <1>32 DEF Next, Requests, Proceed, Exchange

(* The freshly installed worker satisfies IInv.                            *)
LEMMA InitInv == Init => IInv
<1> SUFFICES ASSUME Init PROVE IInv
  OBVIOUS
<1>1. TypeOK
  <2>1. SensorOK /\ HandleOK /\ OpStateOK
    BY TypeFacts DEF Init, SensorOK, HandleOK, OpStateOK
  <2>2. EntriesOK
    BY DEF Init, EntriesOK, Files, EmptyFile
  <2>3. misread \in BOOLEAN
    BY Zenon DEF Init
  <2>4. CallOK
    BY <2>3, TypeFacts DEF Init, CallOK, Labels
  <2> QED BY <2>1, <2>2, <2>4 DEF TypeOK
<1>2. \A p \in Prints : store[p] = NoSlot
  BY DEF Init, EmptyFile
<1> QED
  BY <1>1, <1>2, AnswerFacts
     DEF Init, IInv, Ownership, OneOwner, MatchIsGenuine, EnrollInv, DeleteInv,
         AnswerInv, CountInv, CommitAboveCount, ArmInv, BusyInv, Ops, NoVerdict

-----------------------------------------------------------------------------
(* IInv holds in every state: what each call may rely on about the sensor, *)
(* the endpoint and the file between any two of its exchanges.             *)
THEOREM Inductive == Spec => []IInv
<1>1. Init => IInv
  BY InitInv
<1>2. IInv /\ [Next]_vars => IInv'
  BY TypeStep, CountStep, InvStep
<1> QED BY <1>1, <1>2, PTL DEF Spec

(* Every variable of the worker, the file and the sensor keeps its type.   *)
THEOREM TypeCorrect == Spec => []TypeOK
<1>1. IInv => TypeOK
  BY DEF IInv
<1> QED BY <1>1, Inductive, PTL

(* The slot a finger is mapped to never holds another finger's template,   *)
(* whatever was cancelled, unplugged or killed (Worker::record,            *)
(* delete_finger and free_slot).  What it takes to break this is named:    *)
(* the finger's own enrolment read a slot record, with a zero in byte 1,   *)
(* as the answer of its collision check.                                   *)
THEOREM OwnershipHolds == Spec => []Ownership
<1>1. IInv => Ownership
  BY DEF IInv
<1> QED BY <1>1, Inductive, PTL

(* verify_inner reports the finger that touched the sensor, or no match,   *)
(* or a finger whose own enrolment misread a slot record.                  *)
THEOREM MatchesAreGenuine == Spec => []MatchIsGenuine
<1>1. IInv => MatchIsGenuine
  BY DEF IInv
<1> QED BY <1>1, Inductive, PTL

(* Worker::record: insert does not refuse the slot that commit has written *)
(* to, which nobody else was given while the worker's mutex was held.      *)
THEOREM InsertsSucceed == Spec => []InsertSucceeds
<1>1. ASSUME IInv PROVE InsertSucceeds
  <2> SUFFICES ASSUME pc = "record" PROVE ~SlotTaken(store, Subject, slot)
    BY DEF InsertSucceeds, Subject
  <2>1. slot \notin Tracked(store) /\ slot \in Slots
    BY <1>1 DEF IInv, EnrollInv, TypeOK, CallOK
  <2> QED BY <2>1, NoSlotApart DEF SlotTaken, Tracked
<1> QED BY <1>1, Inductive, PTL

(* round never waits for a touch on a handle that is not armed.            *)
THEOREM TouchWaitsAreArmed == Spec => []ArmedTouchWait
<1>1. IInv => ArmedTouchWait
  BY DEF IInv, ArmInv, ArmedTouchWait
<1> QED BY <1>1, Inductive, PTL

(* The slot free_slot chose is not below the sensor's count when the       *)
(* commit leaves, whatever late answers were read on the way, unless the   *)
(* collision check read a slot record with a zero in byte 1.               *)
THEOREM CommitsAboveCount == Spec => []CommitAboveCount
<1>1. IInv => CommitAboveCount
  BY DEF IInv, CountInv
<1> QED BY <1>1, Inductive, PTL

(* OpSink and OpToken: one terminal event for an operation, before the     *)
(* busy flag falls.                                                        *)
THEOREM TerminalOnce == Spec => OneTerminal
<1> DEFINE Step == /\ busy /\ ~busy' => terminals' = 1 \/ Crash
                   /\ terminals' > terminals => terminals = 0 /\ busy
<1>1. IInv /\ [Next]_vars => [Step]_vars
  <2> SUFFICES ASSUME IInv, Next PROVE Step
    OBVIOUS
  <2>1. CASE busy' = busy /\ terminals' = terminals
    BY <2>1 DEF IInv, TypeOK, OpStateOK
  <2>2. ASSUME NEW kind \in {"verify", "enroll"}, NEW f \in Fingers \cup {AnyFinger},
               TryBegin(kind, f)
        PROVE  Step
    BY <2>2 DEF TryBegin, IInv, TypeOK, OpStateOK
  <2>3. ASSUME NEW touch \in Prints, MatchAnswer(touch) PROVE Step
    BY <2>3 DEF MatchAnswer, Touched, EmitTerminal, IInv, BusyInv, Ops
  <2>4. CASE OtherAnswer
    BY <2>4 DEF OtherAnswer, Touched, EmitTerminal, IInv, BusyInv, Ops
  <2>5. CASE Close
    BY <2>5 DEF Close, EmitTerminal, IInv, BusyInv, Ops
  <2>6. CASE Record
    BY <2>6 DEF Record, EmitTerminal, IInv, BusyInv, EnrollInv, Ops
  <2>7. CASE Crash
    BY <2>7 DEF Crash, IInv, BusyInv
  <2> QED
    BY <2>1, <2>2, <2>3, <2>4, <2>5, <2>6, <2>7
       DEF Next, Requests, Proceed, Exchange, BeginClaim, OpenHandle, StartVerify,
           StartEnroll, BeginDelete, Cancel, Send, ReadFirmware, ReadArm, ReadInfo,
           ReadCollide, ReadCommit, ReadErase, SampleAnswer, Lookup, TimeOut,
           StopOnCancel, Disconnected, NoHandle, Abort, Forget, Release, Suspend,
           Resume, Replug
<1> QED BY <1>1, Inductive, PTL DEF Spec, OneTerminal

(* Only a commit or an erase that the sensor accepts changes a template,   *)
(* and IInv says which slot it names (free_slot, delete_finger).           *)
LEMMA ChipChanges ==
    ASSUME IInv, Next, chip' # chip
    PROVE  /\ \/ /\ op = "enroll" /\ slot \notin Tracked(store)
                 /\ chip' = [chip EXCEPT ![slot] = Subject]
              \/ /\ op = "delete" /\ Subject \in Prints /\ store[Subject] = slot
                 /\ chip' = [chip EXCEPT ![slot] = Empty]
           /\ UNCHANGED <<entries, verdict>>
<1>1. CASE Send
  BY <1>1 DEF Send, ChipActs, IInv, EnrollInv, DeleteInv
<1> QED
  BY <1>1 DEF Next, Requests, Proceed, Exchange, BeginClaim, OpenHandle, TryBegin,
     StartVerify, StartEnroll, BeginDelete, Cancel, ReadFirmware, ReadArm, ReadInfo,
     ReadCollide, ReadCommit, ReadErase, SampleAnswer, Lookup, MatchAnswer,
     OtherAnswer, TimeOut, StopOnCancel, Disconnected, NoHandle, Abort, Close,
     Record, Forget, Release, Suspend, Resume, Replug, Crash

(* No template is erased or replaced but the one a delete was asked for    *)
(* and one that no entry of the file leads to, or none but the entry of a  *)
(* doubtful print that is being deleted (delete_finger, step_commit).      *)
THEOREM ErasesOnlyAsAsked == Spec => ErasesAsAsked
<1> DEFINE Step == \A s \in Templates :
                      chip'[s] # chip[s] =>
                          \/ op = "delete" /\ chip[s] = Subject
                          \/ /\ op = "delete" /\ Subject \in doubtful
                             /\ s \notin Tracked(Remove(store, Subject))
                          \/ op = "enroll" /\ s \notin Tracked(store)
<1>1. IInv /\ [Next]_vars => [Step]_vars
  <2> SUFFICES ASSUME IInv, Next, NEW s \in Templates, chip'[s] # chip[s]
               PROVE  \/ op = "delete" /\ chip[s] = Subject
                      \/ /\ op = "delete" /\ Subject \in doubtful
                         /\ s \notin Tracked(Remove(store, Subject))
                      \/ op = "enroll" /\ s \notin Tracked(store)
    OBVIOUS
  <2>1. s \in Slots /\ chip[s] # Empty /\ chip \in [Slots -> Prints \cup {Empty}]
    BY DEF Templates, IInv, TypeOK, SensorOK
  <2>2. s = slot
    BY <2>1, ChipChanges
  <2>3. CASE op = "enroll"
    BY <2>2, <2>3, ChipChanges
  <2>4. CASE op # "enroll"
    <3>1. op = "delete" /\ Subject \in Prints /\ store[Subject] = slot
      BY <2>4, ChipChanges
    <3>2. slot # NoSlot
      BY StoreAssumption DEF IInv, TypeOK, CallOK, Slots, NoSlot
    <3>3. Subject \notin doubtful => chip[s] = Subject
      BY <2>1, <2>2, <3>1, <3>2 DEF IInv, Ownership
    <3>4. slot \notin Tracked(Remove(store, Subject))
      BY <3>1, RemoveKeeps DEF IInv, TypeOK, EntriesOK
    <3> QED BY <2>2, <3>1, <3>3, <3>4
  <2> QED BY <2>3, <2>4
<1> QED BY <1>1, Inductive, PTL DEF Spec, ErasesAsAsked

-----------------------------------------------------------------------------
(* A step that leaves file, templates and verdict alone is no step of the  *)
(* registry.                                                               *)
LEMMA RegistryFrame ==
    UNCHANGED <<chip, entries, verdict>> => UNCHANGED <<Listed, Live, Reported>>
  BY DEF Listed, Live, Reported

(* The worker, its file and its sensor together implement the registry of  *)
(* prints: an enrolled finger can be matched from the moment it is listed, *)
(* stops being matched only by a delete, and nothing else is ever matched, *)
(* doubtful prints, which the registry does not know, left aside.          *)
THEOREM RegistryImplemented == Spec => ImplementsRegistry
<1> USE DEF Registry!registry
<1>1. Init => Registry!Init
  <2> SUFFICES ASSUME Init PROVE Listed = {} /\ Live = {} /\ Reported = {}
    BY DEF Registry!Init
  <2>1. \A p \in Prints : store[p] = NoSlot
    BY DEF Init, EmptyFile
  <2> QED BY <2>1 DEF Init, Listed, Live, Reported
<1>2. IInv /\ [Next]_vars => [Registry!Next]_(Registry!registry)
  <2> SUFFICES ASSUME IInv, [Next]_vars
               PROVE  Registry!Next \/ UNCHANGED <<Listed, Live, Reported>>
    OBVIOUS
  <2> USE DEF IInv, Subject
  <2>1. store \in Files /\ chip \in [Slots -> Prints \cup {Empty}] /\ Empty \notin Prints
    BY WorkerAssumption DEF TypeOK, EntriesOK, SensorOK
  <2>2. CASE Next /\ chip' # chip
    <3>1. Listed' = Listed /\ Reported' = Reported
      BY <2>2, ChipChanges DEF Listed, Reported
    <3>2. CASE op = "enroll"
      <4>1. \A p \in Prints : store[p] # NoSlot => store[p] # slot
        BY <2>2, <3>2, ChipChanges DEF Tracked
      <4>2. Live' = Live
        BY <2>1, <2>2, <3>2, <4>1, ChipChanges DEF Live, Files
      <4> QED BY <3>1, <4>2
    <3>3. CASE op = "delete"
      <4>1. Live' = Live \ {Subject}
        BY <2>1, <2>2, <3>3, ChipChanges DEF Live, Files, OneOwner
      <4>2. CASE Subject \in Live
        BY <2>2, <3>1, <3>3, <4>1, <4>2, ChipChanges DEF Registry!Next, Registry!Erase
      <4>3. CASE Subject \notin Live
        BY <3>1, <4>1, <4>3
      <4> QED BY <4>2, <4>3
    <3> QED BY <2>2, <3>2, <3>3, ChipChanges
  <2>3. CASE Record /\ store' # store
    <3>1. Subject \in Prints /\ store[Subject] = NoSlot /\ verdict = NoVerdict
      BY <2>3 DEF Record, EnrollInv, BusyInv
    <3>2. /\ store' = [store EXCEPT ![Subject] = slot] /\ UNCHANGED <<chip, verdict>>
          /\ doubtful' = IF misread THEN doubtful \cup {Subject} ELSE doubtful \ {Subject}
      BY <2>3 DEF Record, Insert
    <3>3. slot # NoSlot
      BY StoreAssumption DEF TypeOK, CallOK, Slots, NoSlot
    <3>4. Subject \notin Listed /\ Reported' = Reported
      BY <3>1, <3>2 DEF Listed, Reported
    <3>5. CASE misread
      <4>1. UNCHANGED <<Listed, Live>>
        BY <2>1, <3>1, <3>2, <3>5 DEF Listed, Live, Files
      <4> QED BY <3>4, <4>1
    <3>6. CASE ~misread
      <4>1. chip[slot] = Subject
        BY <2>3, <3>6 DEF Record, EnrollInv
      <4>2. Listed' = Listed \cup {Subject} /\ Live' = Live \cup {Subject}
        BY <2>1, <3>1, <3>2, <3>3, <3>6, <4>1 DEF Listed, Live, Files
      <4> QED BY <3>1, <3>4, <4>2 DEF Registry!Next, Registry!Enrol
    <3> QED BY <3>5, <3>6
  <2>4. CASE Forget /\ store' # store
    <3>1. Subject \in Prints /\ store[Subject] # NoSlot
      BY <2>4, StoreAssumption DEF Forget, DeleteInv, TypeOK, CallOK, Slots, NoSlot
    <3>2. store' = [store EXCEPT ![Subject] = NoSlot] /\ UNCHANGED <<chip, doubtful, verdict>>
      BY <2>4 DEF Forget, Remove
    <3>3. Listed' = Listed \ {Subject} /\ Live' = Live \ {Subject}
      BY <2>1, <3>1, <3>2 DEF Listed, Live, Files
    <3>4. Reported' = Reported
      BY <3>1, <3>2 DEF Listed, Reported
    <3>5. CASE Subject \in Listed
      BY <3>1, <3>3, <3>4, <3>5 DEF Registry!Next, Registry!Forget
    <3>6. CASE Subject \notin Listed
      BY <3>3, <3>4, <3>6 DEF Listed, Live
    <3> QED BY <3>5, <3>6
  <2>5. ASSUME NEW touch \in Prints, MatchAnswer(touch), verdict' # verdict
        PROVE  Registry!Next
    <3>1. UNCHANGED <<chip, entries>>
      BY <2>5 DEF MatchAnswer
    <3>2. UNCHANGED <<Listed, Live>>
      BY <3>1 DEF Listed, Live
    <3>3. PICK s \in Templates, p \in Allowed :
              chip[s] = touch /\ store[p] = s /\ verdict' = [touch |-> touch, print |-> p]
      BY <2>5 DEF MatchAnswer
    <3>4. verdict'.touch = touch /\ verdict'.print = p
      BY <3>3
    <3>5. CASE verdict' = NoVerdict \/ p \in doubtful
      BY <3>1, <3>2, <3>4, <3>5 DEF Reported, Registry!Next, Registry!NewOperation
    <3>6. CASE verdict' # NoVerdict /\ p \notin doubtful
      <4>1. touch \in Live
        BY <3>3, <3>6 DEF Templates, Allowed, Own, Ownership, Live
      <4>2. Reported' = {touch}
        BY <3>1, <3>4, <3>6 DEF Reported
      <4> QED BY <3>2, <4>1, <4>2 DEF Registry!Next, Registry!Report
    <3> QED BY <3>5, <3>6
  <2>6. CASE verdict' = NoVerdict /\ UNCHANGED <<chip, entries>>
    <3>1. UNCHANGED <<Listed, Live>> /\ Reported' = {}
      BY <2>6 DEF Listed, Live, Reported
    <3> QED BY <3>1 DEF Registry!Next, Registry!NewOperation
  <2>7. CASE UNCHANGED <<chip, entries, verdict>>
    BY <2>7, RegistryFrame
  <2>8. CASE UNCHANGED vars
    BY <2>8, RegistryFrame
  <2>9. CASE Next /\ chip' = chip /\ entries' # entries
    <3>1. CASE Record
      <4>1. store[Subject] = NoSlot /\ Subject \in Prints /\ slot # NoSlot
        BY <3>1, StoreAssumption DEF Record, EnrollInv, TypeOK, CallOK, Slots, NoSlot
      <4>2. entries' = entries \/ store' = [store EXCEPT ![Subject] = slot]
        BY <3>1 DEF Record, Insert
      <4>3. store' # store
        BY <2>1, <2>9, <4>1, <4>2 DEF Files
      <4> QED BY <2>3, <3>1, <4>3
    <3>2. CASE Forget
      <4>1. store' # store
        BY <2>9, <3>2 DEF Forget
      <4> QED BY <2>4, <3>2, <4>1
    <3> QED
      BY <2>9, <3>1, <3>2
         DEF Next, Requests, Proceed, Exchange, BeginClaim, OpenHandle, TryBegin,
             StartVerify, StartEnroll, BeginDelete, Cancel, Send, ReadFirmware, ReadArm,
             ReadInfo, ReadCollide, ReadCommit, ReadErase, SampleAnswer, Lookup,
             MatchAnswer, OtherAnswer, TimeOut, StopOnCancel, Disconnected, NoHandle,
             Abort, Close, Release, Suspend, Resume, Replug, Crash
  <2>10. CASE Next /\ chip' = chip /\ entries' = entries /\ verdict' # verdict
    <3>1. CASE \E touch \in Prints : MatchAnswer(touch)
      BY <2>5, <2>10, <3>1
    <3>2. CASE ~\E touch \in Prints : MatchAnswer(touch)
      <4>1. verdict' = NoVerdict
        BY <2>10, <3>2
           DEF Next, Requests, Proceed, Exchange, BeginClaim, OpenHandle, TryBegin,
               StartVerify, StartEnroll, BeginDelete, Cancel, Send, ReadFirmware,
               ReadArm, ReadInfo, ReadCollide, ReadCommit, ReadErase, SampleAnswer,
               Lookup, OtherAnswer, TimeOut, StopOnCancel, Disconnected, NoHandle,
               Abort, Close, Record, Forget, Release, Suspend, Resume, Replug, Crash
      <4> QED BY <2>6, <2>10, <4>1
    <3> QED BY <3>1, <3>2
  <2> QED BY <2>2, <2>7, <2>8, <2>9, <2>10
<1> QED BY <1>1, <1>2, Inductive, PTL DEF Spec, ImplementsRegistry, Registry!Spec
=============================================================================
