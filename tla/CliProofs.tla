------------------------------ MODULE CliProofs ------------------------------
(***************************************************************************)
(* Proofs about the command line tool: for any users and fingers, any      *)
(* number of slots and of samples.  The argument is IInv of module Cli;    *)
(* each theorem is about the code cited there.                             *)
(***************************************************************************)
EXTENDS Cli, StoreProofs, FiniteSetTheorems

USE DEF sensor, locals, session, vars, Commands, StatusReads, OnWire, OkCode, Refused

Templates == {s \in Slots : chip[s] # Empty}

(* The sensor's count is a number, and zero only without any template.     *)
LEMMA CountFacts ==
    /\ Cardinality(Templates) \in Nat
    /\ Cardinality(Templates) = 0 => \A s \in Slots : chip[s] = Empty
<1>1. IsFiniteSet(Slots)
  BY StoreAssumption, FS_Interval DEF Slots
<1>2. IsFiniteSet(Templates)
  BY <1>1, FS_Subset DEF Templates
<1>3. Cardinality(Templates) = 0 => Templates = {}
  BY <1>2, FS_EmptySet
<1> QED BY <1>2, <1>3, FS_CardinalityType DEF Templates

(* What an answer is made of.                                              *)
LEMMA AnswerFacts ==
    /\ NoReply \in Answers
    /\ \A len \in {2, 3, 6}, code \in Nat :
          /\ Answer(len, code) \in Answers /\ Answer(len, code) # NoReply
          /\ Answer(len, code).len = len /\ Answer(len, code).code = code
          /\ ~SaysEmpty(Answer(len, code))
    /\ \A code \in Nat, last \in {0, Blank} :
          /\ Record(code, last) \in Answers /\ Record(code, last) # NoReply
          /\ SaysEmpty(Record(code, last)) => last = Blank
    /\ \A a \in Answers : a.code \in Nat
  BY DEF Answers, NoReply, Answer, Record, SaysEmpty, Blank

(* What finger_info says of a slot: only that of an empty one reads empty. *)
LEMMA RecordFacts ==
    ASSUME NEW s \in Slots, NEW r \in Records(s)
    PROVE  r \in Answers /\ r # NoReply /\ (SaysEmpty(r) => chip[s] = Empty)
<1>1. CASE r = Answer(2, 255)
  BY <1>1, AnswerFacts
<1>2. ASSUME NEW code \in RecordCodes, r = Record(code, IF chip[s] = Empty THEN Blank ELSE 0)
      PROVE  r \in Answers /\ r # NoReply /\ (SaysEmpty(r) => chip[s] = Empty)
  BY <1>2, AnswerFacts, CliAssumption DEF Blank
<1> QED BY <1>1, <1>2 DEF Records

(* A read leaves nothing, or the rest of an older answer; in a session     *)
(* that found the endpoint clean, nothing.                                 *)
LEMMA ReadLeaves ==
    ASSUME TypeOK, CleanInv, NEW label \in StatusReads \cup {"touch"}, Reads(label)
    PROVE  /\ pc = label /\ sent /\ SensorOK' /\ chip' = chip /\ clear' = clear
           /\ Incoming \in Answers \ {NoReply} /\ Incoming.code \in Nat
           /\ cmd # "none" /\ ~dirty =>
                unread = NoReply /\ Incoming = reply /\ unread' = NoReply /\ reply' = NoReply
<1>1. unread \in Answers /\ reply \in Answers /\ clear \in BOOLEAN
  BY DEF TypeOK, SensorOK
<1>2. unread' \in Rests(label) /\ chip' = chip /\ clear' = clear
  BY DEF Reads
<1>3. reply' = IF unread = NoReply THEN NoReply ELSE reply
  BY DEF Reads
<1>4. \A rest \in Rests(label) : rest \in Answers
  BY AnswerFacts, CliAssumption DEF Rests
<1>5. unread' \in Answers /\ reply' \in Answers
  BY <1>1, <1>2, <1>3, <1>4, AnswerFacts
<1>6. SensorOK'
  <2>1. clear' \in BOOLEAN
    BY <1>1, <1>2, Zenon
  <2> QED BY <1>2, <1>5, <2>1 DEF TypeOK, SensorOK
<1>7. Incoming \in Answers \ {NoReply} /\ Incoming.code \in Nat
  <2>1. Incoming \in Answers /\ Incoming # NoReply
    BY <1>1 DEF Incoming, Reads
  <2> QED BY <2>1, AnswerFacts
<1>8. ASSUME cmd # "none", ~dirty
      PROVE  unread = NoReply /\ Incoming = reply /\ unread' = NoReply /\ reply' = NoReply
  <2>1. pc = label /\ Incoming # NoReply
    BY DEF Reads, Done
  <2>2. unread = NoReply /\ Incoming = reply
    BY <1>8, <2>1 DEF CleanInv, Incoming
  <2>3. pc \notin {"look", "info"} => Incoming.len # 70
    BY <1>8, <2>1, <2>2 DEF CleanInv
  <2>4. Rests(label) = {NoReply}
    BY <2>1, <2>2, <2>3 DEF Rests
  <2> QED BY <1>2, <1>3, <2>2, <2>4
<1>9. pc = label /\ sent
  BY DEF Reads, Done
<1> QED BY <1>2, <1>6, <1>7, <1>8, <1>9

(* Before the first session nothing is out, and nothing has been read.     *)
LEMMA InitInv == Init => IInv
<1> SUFFICES ASSUME Init PROVE IInv
  OBVIOUS
<1>1. SensorOK /\ store \in Files /\ PlaceOK /\ LocalsOK
  <2>1. 0 \in Slots /\ 0 \in 0..Stages
    BY StoreAssumption, CliAssumption DEF Slots
  <2>2. /\ clear \in BOOLEAN /\ interrupted \in BOOLEAN
        /\ dirty \in BOOLEAN /\ sent \in BOOLEAN
    BY Zenon DEF Init
  <2> QED BY <2>1, <2>2, AnswerFacts, Zenon DEF Init, SensorOK, PlaceOK, LocalsOK
<1>2. PlaceInv /\ CleanInv /\ TruthInv /\ SyncInv /\ ClearInv
  BY DEF Init, PlaceInv, CleanInv, TruthInv, SyncInv, ClearInv
<1> QED BY <1>1, <1>2 DEF IInv, TypeOK

-----------------------------------------------------------------------------
(* A command goes out: what the sensor does, and what its answer will say. *)
LEMMA SendStep == ASSUME IInv, Send PROVE IInv'
<1> USE StoreAssumption, CliAssumption, AnswerFacts, CountFacts DEF IInv, TypeOK
<1>1. SensorOK'
  <2>1. chip' \in [Slots -> Prints \cup {Empty}]
    BY DEF Send, ChipActs, Counts, SensorOK, LocalsOK
  <2>2. \A r \in Records(slot) : r \in Answers
    BY RecordFacts DEF LocalsOK
  <2>3. reply' \in Answers /\ unread' \in Answers
    BY <2>2 DEF Send, ChipActs, ChipReplies, Counts, SensorOK, Templates
  <2>4. clear' \in BOOLEAN
    <3>1. UNCHANGED clear \/ \E code \in {OkCode, 1} : clear' = (code = OkCode)
      BY DEF Send, ChipActs, Counts
    <3> QED BY <3>1, Zenon DEF SensorOK
  <2> QED BY <2>1, <2>3, <2>4 DEF SensorOK
<1>2. store' \in Files /\ PlaceOK' /\ LocalsOK' /\ PlaceInv'
  BY DEF Send, PlaceOK, LocalsOK, PlaceInv, PlacesOf
<1>3. CleanInv'
  <2> SUFFICES ASSUME cmd # "none", ~dirty, pc # "abort" PROVE CleanInv'
    BY DEF Send, CleanInv
  <2>1. unread = NoReply /\ reply = NoReply
    BY DEF Send, CleanInv
  <2>2. unread' = NoReply
    BY <2>1 DEF Send, ChipActs, ChipReplies, Counts
  <2>3. pc \notin StatusReads => reply' = NoReply
    BY <2>1 DEF Send, ChipActs
  <2>4. CASE pc \in {"arm", "recount"}
    BY <2>2, <2>4 DEF Send, ChipActs, Counts, ChipReplies, CleanInv, Templates
  <2>5. CASE pc \in {"collide", "commit"}
    BY <2>2, <2>5 DEF Send, ChipActs, ChipReplies, CleanInv
  <2>6. CASE pc \notin {"arm", "recount", "collide", "commit"}
    BY <2>2, <2>3, <2>6 DEF Send, CleanInv, NoReply, Answer
  <2> QED BY <2>4, <2>5, <2>6
<1>4. TruthInv'
  <2> SUFFICES ASSUME cmd # "none", ~dirty
               PROVE  TruthInv'
    BY DEF Send, TruthInv
  <2>1. reply = NoReply \/ pc = "abort"
    BY DEF Send, CleanInv
  <2>2. CASE pc \in {"arm", "recount"}
    BY <2>1, <2>2 DEF Send, ChipActs, ChipReplies, Counts, TruthInv, Templates
  <2>3. CASE pc = "info"
    BY <2>1, <2>3, RecordFacts DEF Send, ChipActs, ChipReplies, TruthInv, LocalsOK
  <2>4. CASE pc = "collide"
    <3>1. PICK code \in {OkCode, 1} : reply' = Answer(3, code) /\ clear' = (code = OkCode)
      BY <2>4 DEF Send, ChipActs, ChipReplies
    <3>2. reply'.code = code
      BY <3>1
    <3>3. reply'.code # OkCode \/ clear'
      BY <3>1, <3>2, Zenon
    <3> QED BY <2>4, <3>3 DEF Send, TruthInv
  <2> QED BY <2>2, <2>3, <2>4 DEF Send, TruthInv
<1>5. SyncInv' /\ ClearInv'
  BY DEF Send, ChipActs, Counts, SyncInv, ClearInv, PlaceInv, PlacesOf
<1> QED BY <1>1, <1>2, <1>3, <1>4, <1>5

(* A session ends, and its locals with it.                                 *)
LEMMA EndStep ==
    ASSUME IInv, Abort \/ End \/ Kill
    PROVE  IInv'
<1>1. PICK label \in {"end", "killed"} : Ends(label)
  BY DEF Abort, End, Kill
<1>2. SensorOK' /\ store' \in Files
  <2>1. clear' \in BOOLEAN
    BY <1>1, Zenon DEF Ends
  <2> QED BY <2>1, AnswerFacts DEF Abort, End, Kill, IInv, TypeOK, SensorOK
<1>3. PlaceOK'
  <2>1. sent' \in BOOLEAN /\ interrupted' \in BOOLEAN /\ dirty' \in BOOLEAN
    BY <1>1, Zenon DEF Ends, At
  <2> QED BY <1>1, <2>1 DEF Ends, At, PlaceOK
<1>4. LocalsOK'
  BY <1>1, StoreAssumption, CliAssumption DEF Ends, LocalsOK, Slots
<1>5. PlaceInv' /\ CleanInv' /\ TruthInv' /\ SyncInv' /\ ClearInv'
  BY <1>1 DEF Ends, At, PlaceInv, CleanInv, TruthInv, SyncInv, ClearInv
<1> QED BY <1>2, <1>3, <1>4, <1>5 DEF IInv, TypeOK

(* A step of the tool, from an answer or from none.                        *)
LEMMA StepInv == ASSUME IInv, [Next]_vars PROVE IInv'
<1> USE StoreAssumption, CliAssumption, AnswerFacts
        DEF IInv, TypeOK, SensorOK, PlaceOK, LocalsOK, PlaceInv, PlacesOf, CleanInv,
            TruthInv, SyncInv, ClearInv, At
<1>1. ASSUME NEW c \in Commands, NEW p \in Prints \cup {Empty}, NEW s \in Slots,
             Begin(c, p, s)
      PROVE  IInv'
  <2>1. SensorOK' /\ store' \in Files
    BY <1>1 DEF Begin
  <2>2. PlaceOK'
    BY <1>1 DEF Begin
  <2>3. LocalsOK'
    BY <1>1 DEF Begin
  <2>4. PlaceInv'
    BY <1>1 DEF Begin
  <2>5. CleanInv' /\ TruthInv'
    <3>1. ~dirty' => reply = NoReply /\ unread = NoReply
      BY <1>1, Zenon DEF Begin
    <3>2. sent' = FALSE /\ UNCHANGED <<reply, unread>>
      BY <1>1 DEF Begin
    <3> QED BY <3>1, <3>2 DEF NoReply, Answer
  <2>6. SyncInv' /\ ClearInv'
    BY <1>1 DEF Begin
  <2> QED BY <2>1, <2>2, <2>3, <2>4, <2>5, <2>6
<1>2. CASE Interrupt
  BY <1>2 DEF Interrupt
<1>3. CASE Fails
  <2>1. TypeOK'
    BY <1>3 DEF Fails
  <2>2. PlaceInv'
    BY <1>3 DEF Fails
  <2>3. CleanInv' /\ TruthInv' /\ SyncInv' /\ ClearInv'
    BY <1>3 DEF Fails
  <2> QED BY <2>1, <2>2, <2>3
<1>4. CASE Look
  <2>1. Reads("look")
    BY <1>4 DEF Look
  <2>2. /\ pc = "look" /\ sent /\ SensorOK' /\ chip' = chip /\ clear' = clear
        /\ Incoming \in Answers \ {NoReply} /\ Incoming.code \in Nat
        /\ cmd # "none" /\ ~dirty =>
             unread = NoReply /\ Incoming = reply /\ unread' = NoReply /\ reply' = NoReply
    BY <2>1, ReadLeaves
  <2>3. store' \in Files /\ PlaceOK'
    BY <1>4, <2>2 DEF Look
  <2>4. LocalsOK'
    BY <1>4, <2>2 DEF Look
  <2>5. PlaceInv'
    BY <1>4, <2>2 DEF Look
  <2>6. CleanInv'
    BY <1>4, <2>2, AnswerFacts DEF Look, NoReply, Answer
  <2>7. TruthInv'
    BY <1>4, <2>2 DEF Look
  <2>8. SyncInv' /\ ClearInv'
    BY <1>4, <2>2 DEF Look
  <2> QED BY <2>2, <2>3, <2>4, <2>5, <2>6, <2>7, <2>8
<1>5. CASE Touch
  <2>1. SensorOK' /\ store' \in Files /\ PlaceOK' /\ LocalsOK'
    <3>1. PICK next \in {"touch", "end", "abort"} : At(next)
      BY <1>5 DEF Touch
    <3>2. SensorOK'
      <4>1. CASE UNCHANGED sensor
        BY <4>1
      <4>2. CASE Reads("touch")
        BY <4>2, ReadLeaves
      <4> QED BY <1>5, <4>1, <4>2 DEF Touch
    <3>3. store' \in Files /\ LocalsOK'
      BY <1>5 DEF Touch
    <3>4. PlaceOK'
      BY <1>5, <3>1 DEF Touch
    <3> QED BY <3>2, <3>3, <3>4
  <2>2. cmd = "read" /\ cmd' = cmd /\ pc' \in {"touch", "end", "abort"}
    BY <1>5 DEF Touch, Done
  <2>3. PlaceInv'
    BY <1>5, <2>2 DEF Touch
  <2>4. CleanInv' /\ TruthInv' /\ SyncInv' /\ ClearInv'
    BY <1>5 DEF Touch, Reads, Done, Incoming
  <2> QED BY <2>1, <2>3, <2>4
<1>6. CASE Arm
  <2>1. Reads("arm")
    BY <1>6 DEF Arm
  <2>2. /\ pc = "arm" /\ sent /\ SensorOK' /\ chip' = chip /\ clear' = clear
        /\ Incoming \in Answers \ {NoReply} /\ Incoming.code \in Nat
        /\ cmd # "none" /\ ~dirty =>
             unread = NoReply /\ Incoming = reply /\ unread' = NoReply /\ reply' = NoReply
    BY <2>1, ReadLeaves
  <2>3. store' \in Files /\ PlaceOK'
    BY <1>6, <2>2 DEF Arm
  <2>4. LocalsOK'
    BY <1>6, <2>2 DEF Arm, Slots
  <2>5. PlaceInv'
    BY <1>6, <2>2 DEF Arm
  <2>6. CleanInv'
    BY <1>6, <2>2, AnswerFacts DEF Arm, NoReply, Answer
  <2>7. TruthInv'
    BY <1>6, <2>2 DEF Arm
  <2>8. SyncInv' /\ ClearInv'
    BY <1>6, <2>2 DEF Arm
  <2> QED BY <2>2, <2>3, <2>4, <2>5, <2>6, <2>7, <2>8
<1>7. CASE Info
  <2>1. Reads("info")
    BY <1>7 DEF Info
  <2>2. /\ pc = "info" /\ sent /\ SensorOK' /\ chip' = chip /\ clear' = clear
        /\ Incoming \in Answers \ {NoReply} /\ Incoming.code \in Nat
        /\ cmd # "none" /\ ~dirty =>
             unread = NoReply /\ Incoming = reply /\ unread' = NoReply /\ reply' = NoReply
    BY <2>1, ReadLeaves
  <2>3. store' \in Files /\ PlaceOK'
    BY <1>7, <2>2 DEF Info
  <2>4. LocalsOK'
    BY <1>7, <2>2 DEF Info, Slots
  <2>5. PlaceInv'
    BY <1>7, <2>2 DEF Info
  <2>6. CleanInv'
    BY <1>7, <2>2, AnswerFacts DEF Info, NoReply, Answer
  <2>7. TruthInv'
    BY <1>7, <2>2 DEF Info
  <2>8. SyncInv' /\ ClearInv'
    BY <1>7, <2>2 DEF Info
  <2> QED BY <2>2, <2>3, <2>4, <2>5, <2>6, <2>7, <2>8
<1>8. CASE PreCheck
  <2>1. SensorOK' /\ store' \in Files /\ PlaceOK'
    BY <1>8 DEF PreCheck, Done
  <2>2. LocalsOK'
    BY <1>8 DEF PreCheck, Done
  <2>3. PlaceInv'
    BY <1>8 DEF PreCheck, Done
  <2>4. CleanInv' /\ TruthInv' /\ SyncInv' /\ ClearInv'
    BY <1>8 DEF PreCheck, Done
  <2> QED BY <2>1, <2>2, <2>3, <2>4
<1>9. CASE Sample
  <2>1. SensorOK' /\ store' \in Files /\ PlaceOK'
    BY <1>9 DEF Sample, Done
  <2>2. LocalsOK'
    BY <1>9 DEF Sample, Done
  <2>3. PlaceInv'
    BY <1>9 DEF Sample, Done
  <2>4. CleanInv' /\ TruthInv' /\ SyncInv' /\ ClearInv'
    BY <1>9 DEF Sample, Done
  <2> QED BY <2>1, <2>2, <2>3, <2>4
<1>10. CASE Collide
  <2>1. Reads("collide")
    BY <1>10 DEF Collide
  <2>2. /\ pc = "collide" /\ sent /\ SensorOK' /\ chip' = chip /\ clear' = clear
        /\ Incoming \in Answers \ {NoReply} /\ Incoming.code \in Nat
        /\ cmd # "none" /\ ~dirty =>
             unread = NoReply /\ Incoming = reply /\ unread' = NoReply /\ reply' = NoReply
    BY <2>1, ReadLeaves
  <2>3. store' \in Files /\ PlaceOK'
    BY <1>10, <2>2 DEF Collide
  <2>4. LocalsOK'
    BY <1>10, <2>2 DEF Collide
  <2>5. PlaceInv'
    BY <1>10, <2>2 DEF Collide
  <2>6. CleanInv'
    BY <1>10, <2>2, AnswerFacts DEF Collide, NoReply, Answer
  <2>7. TruthInv'
    BY <1>10, <2>2 DEF Collide
  <2>8. SyncInv' /\ ClearInv'
    BY <1>10, <2>2 DEF Collide
  <2> QED BY <2>2, <2>3, <2>4, <2>5, <2>6, <2>7, <2>8
<1>11. CASE Go
  BY <1>11 DEF Go
<1>12. CASE HoldStops
  <2>1. SensorOK' /\ store' \in Files
    BY <1>12 DEF HoldStops
  <2>2. PlaceOK' /\ LocalsOK'
    BY <1>12 DEF HoldStops
  <2>3. PlaceInv'
    BY <1>12 DEF HoldStops
  <2>4. CleanInv' /\ ClearInv'
    BY <1>12 DEF HoldStops
  <2>5. TruthInv'
    BY <1>12 DEF HoldStops
  <2>6. SyncInv'
    BY <1>12 DEF HoldStops
  <2> QED BY <2>1, <2>2, <2>3, <2>4, <2>5, <2>6
<1>13. CASE Commit
  <2>1. /\ pc = "commit" /\ sent /\ SensorOK' /\ chip' = chip /\ clear' = clear
        /\ cmd # "none" /\ ~dirty => unread' = NoReply /\ reply' = NoReply
    <3>1. CASE Reads("commit")
      BY <3>1, ReadLeaves
    <3>2. CASE Drains
      <4>1. /\ pc = "commit" /\ sent /\ chip' = chip /\ unread' = NoReply
            /\ reply' \in Answers
        BY <3>2 DEF Drains, Done
      <4>2. clear' = clear /\ clear' \in BOOLEAN
        BY <3>2, Zenon DEF Drains
      <4>3. cmd # "none" /\ ~dirty => reply' = NoReply
        BY <3>2, <4>1 DEF Drains, NoReply, Answer
      <4> QED BY <4>1, <4>2, <4>3
    <3> QED BY <1>13, <3>1, <3>2 DEF Commit
  <2>2. /\ cmd = "enroll" /\ cmd' = cmd /\ pc' \in {"look", "abort"} /\ sent' = FALSE
        /\ UNCHANGED <<store, interrupted, dirty, locals>>
    BY <1>13, <2>1 DEF Commit
  <2>3. store' \in Files /\ PlaceOK' /\ LocalsOK' /\ PlaceInv'
    BY <2>2
  <2>4. CleanInv' /\ TruthInv' /\ SyncInv' /\ ClearInv'
    BY <2>1, <2>2
  <2> QED BY <2>1, <2>3, <2>4
<1>14. CASE Ask
  <2>1. SensorOK' /\ store' \in Files
    BY <1>14 DEF Ask
  <2>2. PlaceOK' /\ LocalsOK'
    BY <1>14 DEF Ask
  <2>3. PlaceInv'
    BY <1>14 DEF Ask
  <2>4. CleanInv' /\ ClearInv'
    BY <1>14 DEF Ask
  <2>5. TruthInv'
    BY <1>14 DEF Ask
  <2>6. SyncInv'
    BY <1>14 DEF Ask
  <2> QED BY <2>1, <2>2, <2>3, <2>4, <2>5, <2>6
<1>15. CASE Wipe
  <2>1. SensorOK' /\ store' \in Files
    BY <1>15 DEF Wipe, Done
  <2>2. PlaceOK' /\ LocalsOK' /\ PlaceInv'
    BY <1>15 DEF Wipe, Done
  <2>3. CleanInv' /\ ClearInv'
    BY <1>15 DEF Wipe, Done
  <2>4. TruthInv' /\ SyncInv'
    BY <1>15 DEF Wipe, Done
  <2> QED BY <2>1, <2>2, <2>3, <2>4
<1>16. CASE Recount
  <2>1. Reads("recount")
    BY <1>16 DEF Recount
  <2>2. /\ pc = "recount" /\ sent /\ SensorOK' /\ chip' = chip /\ clear' = clear
        /\ Incoming \in Answers \ {NoReply} /\ Incoming.code \in Nat
        /\ cmd # "none" /\ ~dirty =>
             unread = NoReply /\ Incoming = reply /\ unread' = NoReply /\ reply' = NoReply
    BY <2>1, ReadLeaves
  <2>3. store' \in Files /\ PlaceOK'
    BY <1>16, <2>2 DEF Recount
  <2>4. LocalsOK'
    BY <1>16, <2>2 DEF Recount
  <2>5. PlaceInv'
    BY <1>16, <2>2 DEF Recount
  <2>6. CleanInv'
    BY <1>16, <2>2, AnswerFacts DEF Recount, NoReply, Answer
  <2>7. TruthInv'
    BY <1>16, <2>2 DEF Recount
  <2>8. SyncInv' /\ ClearInv'
    BY <1>16, <2>2 DEF Recount
  <2> QED BY <2>2, <2>3, <2>4, <2>5, <2>6, <2>7, <2>8
<1>17. CASE Prune
  <2>1. store' \in Files
    BY <1>17 DEF Prune, Files
  <2>2. SensorOK' /\ PlaceOK' /\ LocalsOK'
    BY <1>17 DEF Prune
  <2>3. PlaceInv' /\ CleanInv' /\ TruthInv' /\ SyncInv' /\ ClearInv'
    BY <1>17 DEF Prune
  <2> QED BY <2>1, <2>2, <2>3
<1>18. CASE UNCHANGED vars
  BY <1>18
<1> HIDE DEF IInv, vars, Commands
<1> QED BY SendStep, EndStep, <1>1, <1>2, <1>3, <1>4, <1>5, <1>6, <1>7, <1>8, <1>9,
           <1>10, <1>11, <1>12, <1>13, <1>14, <1>15, <1>16, <1>17, <1>18 DEF Next, Step

-----------------------------------------------------------------------------
(* The strengthened invariant of the tool.                                 *)
THEOREM Inductive == Spec => []IInv
  BY InitInv, StepInv, PTL DEF Spec

(* Every variable of a session keeps its type.                             *)
THEOREM TypeCorrect == Spec => []TypeOK
  BY Inductive, PTL DEF IInv

(* enroll: in a session that found the endpoint clean, a commit goes out   *)
(* only after a collision check that found nothing.                        *)
THEOREM CommitsCleared == Spec => []CommitCleared
<1>1. IInv => CommitCleared
  BY DEF IInv, ClearInv, CommitCleared
<1> QED BY <1>1, Inductive, PTL

(* Nothing but a prune changes the file.                                   *)
LEMMA FileChanges ==
    ASSUME Next, store' # store
    PROVE  Prune /\ store' = [p \in Prints |-> IF p \in Stale THEN NoSlot ELSE store[p]]
<1>1. Prune
  BY DEF Next, Step, Begin, Interrupt, Send, Fails, Look, Touch, Arm, Info, PreCheck,
         Sample, Collide, Go, HoldStops, Commit, Ask, Wipe, Recount, Abort, End, Kill
<1> QED BY <1>1 DEF Prune

(* sync --prune, the only writer among the tool's commands, leaves a file  *)
(* in which no slot is mapped twice, whatever answers it has gone by.      *)
THEOREM FileStaysSound == Spec => []OneOwner(store)
<1>1. Init => OneOwner(store)
  BY DEF Init
<1>2. IInv /\ OneOwner(store) /\ [Next]_vars => OneOwner(store)'
  <2> SUFFICES ASSUME IInv, OneOwner(store), [Next]_vars PROVE OneOwner(store')
    BY DEF OneOwner
  <2>1. CASE store' = store
    BY <2>1
  <2>2. CASE store' # store
    <3>1. Next
      BY <2>2 DEF vars
    <3>2. store' = [p \in Prints |-> IF p \in Stale THEN NoSlot ELSE store[p]]
      BY <2>2, <3>1, FileChanges
    <3>3. store \in Files /\ Stale \in SUBSET Prints
      BY DEF IInv, TypeOK, Stale
    <3> QED BY <3>2, <3>3, DropKeeps
  <2> QED BY <2>1, <2>2
<1> QED BY <1>1, <1>2, Inductive, PTL DEF Spec

(* sync --prune: no entry is dropped whose slot holds a template.          *)
THEOREM PrunesOnlyProven == Spec => PrunesProven
<1>1. IInv /\ [Next]_vars =>
        [\A p \in Prints :
           store[p] # NoSlot /\ store'[p] = NoSlot => chip[store[p]] = Empty \/ dirty]_vars
  <2> SUFFICES ASSUME IInv, Next, NEW p \in Prints,
                      store[p] # NoSlot, store'[p] = NoSlot, ~dirty
               PROVE  chip[store[p]] = Empty
    OBVIOUS
  <2>1. Prune
    BY FileChanges
  <2>2. store[p] \in Slots
    BY DEF IInv, TypeOK, Files
  <2>3. p \in Stale /\ cmd = "prune"
    BY <2>1 DEF Prune
  <2> QED BY <2>1, <2>2, <2>3 DEF Prune, Stale, IInv, SyncInv
<1> QED BY <1>1, Inductive, PTL DEF Spec, PrunesProven

(* wipe: a session that ends well has left no template.                    *)
THEOREM WipesAreTold == Spec => WipeIsTold
<1>1. IInv /\ [Next]_vars =>
        [cmd = "wipe" /\ pc # "end" /\ pc' = "end" /\ cmd' = "wipe"
            => dirty \/ \A s \in Slots : chip[s] = Empty]_vars
  <2> SUFFICES ASSUME IInv, Next, cmd = "wipe", pc # "end", pc' = "end", cmd' = "wipe",
                      ~dirty
               PROVE  \A s \in Slots : chip[s] = Empty
    OBVIOUS
  <2>1. pc \in {"abort", "arm", "ask", "wipe", "recount"}
    BY DEF IInv, PlaceInv, PlacesOf
  <2>2. Arm \/ Recount
    BY <2>1 DEF Next, Step, Begin, Interrupt, Send, Fails, Look, Touch, Info, PreCheck,
           Sample, Collide, Go, HoldStops, Commit, Ask, Wipe, Prune, Abort, End, Kill,
           Ends, At, Reads, Done
  <2>3. Incoming = reply /\ reply # NoReply /\ reply.code = 0 /\ sent
    BY <2>2, <2>1 DEF Arm, Recount, Reads, Done, Incoming, At, IInv, CleanInv
  <2> QED BY <2>2, <2>3 DEF Arm, Recount, Reads, Done, IInv, TruthInv
<1> QED BY <1>1, Inductive, PTL DEF Spec, WipeIsTold
=============================================================================
