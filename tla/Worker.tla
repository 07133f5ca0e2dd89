------------------------------- MODULE Worker -------------------------------
(***************************************************************************)
(* The worker of elanprintd (crates/elanprintd/src/worker.rs): the one     *)
(* owner of the USB handle.  Claims, releases, deletes, verifications and  *)
(* enrolments run one at a time under the worker's mutex; each is a        *)
(* sequence of USB exchanges, and an exchange is two steps here: the       *)
(* command goes out and the sensor acts on it, then the host reads the     *)
(* answer.  Between any two steps the client may cancel, the reader may be *)
(* unplugged, and the daemon may be killed.                                *)
(*                                                                         *)
(* The sensor is external.  It is modelled from docs/findings.md and from  *)
(* what the worker expects of it.                                          *)
(***************************************************************************)
EXTENDS Store, FiniteSets

CONSTANTS Stages,      \* accepted samples an enrolment needs
          FwMinor,     \* second byte of the firmware answer
          RecordCodes, \* what bytes 1 and 65 of a 70 byte slot record may be
          NoUser,      \* no claim is held
          Empty,       \* no template in a slot
          AnyFinger    \* the finger name "any"

ASSUME WorkerAssumption ==
    /\ Stages \in Nat \ {0}
    /\ FwMinor \in Nat
    /\ RecordCodes \subseteq Nat
    /\ NoUser \notin Users
    /\ Empty \notin Prints
    /\ AnyFinger \notin Fingers

VARIABLES
    \* the sensor
    chip,       \* slot -> the print whose template it holds, or Empty
    chipArmed,  \* it has answered enrolled_num in this chip session
    reply,      \* its answer to the last command, on the status endpoint
    unread,     \* an answer to an earlier command that nobody has read
    \* the mapping file on disk
    store,
    doubtful,   \* history: prints last recorded after a misread collision check
    \* struct Worker
    usb,        \* "none", "open", or "dead": open, but its device is gone
    firmware,   \* the firmware version is known
    armed,
    claimed,    \* the claiming user, or NoUser
    \* OpState, the operation's token and its sink
    busy,
    queued,     \* an operation that took the flag and awaits the mutex
    cancelled,  \* its cancellation token
    terminals,  \* terminal events it has emitted
    verdict,    \* the match it has reported
    \* what holds the worker's mutex
    op, pc, sent, user, finger, slot, got,
    misread     \* history: a slot record was read as the collision answer

endpoint == <<reply, unread>>
sensor  == <<chip, chipArmed, endpoint>>
entries == <<store, doubtful>>
handle  == <<usb, firmware, armed, claimed>>
opState == <<busy, queued, cancelled, terminals, verdict>>
request == <<op, user, finger>>
place   == <<slot, got, misread>>
vars    == <<sensor, entries, handle, opState, request, pc, sent, place>>

-----------------------------------------------------------------------------
(* Answers of the sensor.  Byte 0 echoes the command and is not kept.      *)
(* A slot record is 70 bytes, or the six that a 64 byte read leaves of it. *)
Refused == 253
OkCode  == 0
Stuck   == 255
Answer(len, code) == [len |-> len, code |-> code]
NoReply == Answer(0, 0)
Answers == [len : {2, 3, 6, 70}, code : Nat] \cup {NoReply}

Templates == {s \in Slots : chip[s] # Empty}
Count == Cardinality(Templates)

(* read_firmware and send_arm make a token of their own; the other reads   *)
(* of an operation go through round() and end when the client cancels.     *)
StatusReads == {"firmware", "arm", "erase", "info", "collide", "commit"}
TouchWaits  == {"sample", "touch"}
Rounds      == {"info", "collide", "commit"} \cup TouchWaits
Stopped     == cancelled /\ pc \in Rounds

(* A slot record in which byte 1 is zero: cut to the length of a collision *)
(* answer, it reads as one that is clear.                                  *)
Misread(answer) == answer.len \in {6, 70} /\ answer.code = OkCode

(* The print that the call is about.                                       *)
Subject == <<user, finger>>

NoOp == <<"none", AnyFinger>>
NoVerdict == <<>>

(* The next step of the call that holds the mutex.  Its locals die with it. *)
At(label) == pc' = label /\ sent' = FALSE

NoLocals ==
    /\ op' = "none" /\ user' = NoUser /\ finger' = AnyFinger
    /\ slot' = 0 /\ got' = 0 /\ misread' = FALSE

Goto(label) ==
    /\ At(label)
    /\ IF label = "idle" THEN NoLocals ELSE UNCHANGED <<request, place>>

-----------------------------------------------------------------------------
(* No print is enrolled and no daemon operation has run.                   *)
Init ==
    /\ chip = [s \in Slots |-> Empty]
    /\ chipArmed = FALSE
    /\ reply = NoReply /\ unread = NoReply
    /\ store = EmptyFile /\ doubtful = {}
    /\ usb = "none" /\ firmware = FALSE /\ armed = FALSE /\ claimed = NoUser
    /\ busy = FALSE /\ queued = NoOp /\ cancelled = FALSE
    /\ terminals = 0 /\ verdict = NoVerdict
    /\ op = "none" /\ user = NoUser /\ finger = AnyFinger
    /\ pc = "idle" /\ sent = FALSE /\ slot = 0 /\ got = 0 /\ misread = FALSE

-----------------------------------------------------------------------------
(* Requests.  A call whose guard fails returns an error and changes        *)
(* nothing, so it is no action.                                            *)

(* claim(user): nobody else's claim, no operation running.  The handle is  *)
(* opened and the firmware asked for only if that was not done before.     *)
BeginClaim(u) ==
    /\ pc = "idle" /\ ~busy
    /\ claimed \in {NoUser, u}
    /\ op' = "claim" /\ user' = u
    /\ At(IF usb = "none" THEN "open" ELSE IF firmware THEN "arm" ELSE "firmware")
    /\ UNCHANGED <<sensor, entries, handle, opState, finger, place>>

OpenHandle ==
    /\ pc = "open"
    /\ \/ usb' = "open" /\ chipArmed' = FALSE
          /\ Goto(IF firmware THEN "arm" ELSE "firmware")
       \/ Goto("idle") /\ UNCHANGED <<usb, chipArmed>>
    /\ UNCHANGED <<chip, endpoint, entries, firmware, armed, claimed, opState>>

(* OpState::try_begin, without the worker's mutex.                         *)
TryBegin(kind, f) ==
    /\ claimed # NoUser /\ ~busy
    /\ busy' = TRUE /\ queued' = <<kind, f>> /\ cancelled' = FALSE
    /\ terminals' = 0 /\ verdict' = NoVerdict
    /\ UNCHANGED <<sensor, entries, handle, request, pc, sent, place>>

(* The operation's task gets the mutex.                                    *)
StartVerify ==
    /\ pc = "idle" /\ queued[1] = "verify"
    /\ op' = "verify" /\ user' = claimed /\ finger' = queued[2]
    /\ queued' = NoOp
    /\ At(IF armed THEN "lookup" ELSE "arm")
    /\ UNCHANGED <<sensor, entries, handle, busy, cancelled, terminals, verdict, place>>

(* claim_user, is_valid_finger and AlreadyEnrolled come before any USB.    *)
StartEnroll ==
    LET print == <<claimed, queued[2]>>
        refused == print \notin Prints \/ store[print] # NoSlot
    IN /\ pc = "idle" /\ queued[1] = "enroll"
       /\ op' = "enroll" /\ user' = claimed /\ finger' = queued[2]
       /\ queued' = NoOp /\ got' = 0
       /\ At(IF refused THEN "abort" ELSE "arm")
       /\ UNCHANGED <<sensor, entries, handle, busy, cancelled, terminals, verdict, slot, misread>>

(* delete_finger: the file says which slot, the request says that it goes. *)
BeginDelete(print) ==
    /\ pc = "idle" /\ usb # "none"
    /\ store[print] # NoSlot
    /\ op' = "delete" /\ user' = print[1] /\ finger' = print[2]
    /\ slot' = store[print]
    /\ At("erase")
    /\ UNCHANGED <<sensor, entries, handle, opState, got, misread>>

(* VerifyStop, EnrollStop, suspend and shutdown set the token.             *)
Cancel ==
    /\ busy /\ ~cancelled
    /\ cancelled' = TRUE
    /\ UNCHANGED <<sensor, entries, handle, busy, queued, terminals, verdict,
                   request, pc, sent, place>>

-----------------------------------------------------------------------------
(* The sensor receives a command, acts, and answers.  The endpoint keeps   *)
(* the newest answer that nobody has read, or the rest of a cut one.       *)
ChipReplies(answer) ==
    /\ reply' = answer
    /\ unread' \in IF reply = NoReply THEN {unread}
                   ELSE IF unread.len = 6 THEN {unread, reply} ELSE {reply}

ChipActs ==
    \/ /\ pc = "firmware"
       /\ ChipReplies(Answer(2, FwMinor))
       /\ UNCHANGED <<chip, chipArmed>>
    \/ /\ pc = "arm"
       /\ ChipReplies(Answer(2, Count))
       /\ chipArmed' = TRUE /\ UNCHANGED chip
    \/ /\ pc = "info"
       /\ \/ ChipReplies(Answer(2, 255))
          \/ \E code \in RecordCodes : ChipReplies(Answer(70, code))
       /\ UNCHANGED <<chip, chipArmed>>
    \/ /\ pc = "collide"
       /\ \E code \in {OkCode, 1} : ChipReplies(Answer(3, code))
       /\ UNCHANGED <<chip, chipArmed>>
    \/ /\ pc = "commit"
       /\ \/ chip' = [chip EXCEPT ![slot] = Subject]
             /\ ChipReplies(Answer(2, OkCode))
          \/ ChipReplies(Answer(2, Refused)) /\ UNCHANGED chip
       /\ UNCHANGED chipArmed
    \/ /\ pc = "erase"
       /\ \/ chip' = [chip EXCEPT ![slot] = Empty]
             /\ ChipReplies(Answer(2, OkCode))
          \/ ChipReplies(Answer(2, Refused)) /\ UNCHANGED chip
       /\ UNCHANGED chipArmed
    \/ pc \in TouchWaits /\ UNCHANGED sensor

(* The OUT half of Transport::cmd.                                         *)
Send ==
    /\ pc \in StatusReads \cup TouchWaits /\ ~sent
    /\ usb = "open" /\ ~Stopped
    /\ sent' = TRUE
    /\ ChipActs
    /\ UNCHANGED <<entries, handle, opState, request, pc, place>>

(* The IN half on the status endpoint: the oldest unread answer, which is  *)
(* this command's only if no earlier one was left behind.  finger_info     *)
(* alone asks for more than 64 bytes: any other read cuts a record in two. *)
Incoming == IF unread = NoReply THEN reply ELSE unread

Reads(label) ==
    /\ pc = label /\ sent /\ usb = "open" /\ ~Stopped
    /\ Incoming # NoReply
    /\ IF unread.len = 70 /\ label # "info"
       THEN \E code \in RecordCodes : unread' = Answer(6, code)
       ELSE unread' = NoReply
    /\ reply' = IF unread = NoReply THEN NoReply ELSE reply

ReadFirmware ==
    /\ Reads("firmware")
    /\ firmware' = TRUE
    /\ Goto("arm")
    /\ UNCHANGED <<chip, chipArmed, entries, usb, armed, claimed, opState>>

Lowest(s, S) == s \in S /\ \A t \in S : s <= t

(* free_slot's loop: the lowest candidate left, or the device is full.     *)
TryNext(candidates) ==
    IF candidates = {} THEN At("abort") /\ UNCHANGED slot
                       ELSE At("info") /\ Lowest(slot', candidates)

(* Any answer of two bytes or more is a count.                             *)
ReadArm ==
    /\ Reads("arm")
    /\ armed' = TRUE
    /\ CASE op = "claim"  -> claimed' = user /\ Goto("idle")
         [] op = "verify" -> UNCHANGED claimed /\ Goto("lookup")
         [] op = "enroll" -> /\ TryNext(Writable(Incoming.code, store))
                             /\ UNCHANGED <<claimed, request, got, misread>>
    /\ UNCHANGED <<chip, chipArmed, entries, usb, firmware, opState>>

(* Only a 70 byte record vetoes a candidate, and only if byte 1 does not   *)
(* call it stuck and byte 69, which is not kept, does not call it empty.   *)
ReadInfo ==
    /\ Reads("info")
    /\ \/ Incoming.len = 70 /\ Incoming.code # Stuck
          /\ TryNext(Writable(slot + 1, store))
       \/ At("sample") /\ UNCHANGED slot
    /\ UNCHANGED <<chip, chipArmed, entries, handle, opState, request, got, misread>>

(* Mutant: the status of the collision check is not looked at.             *)
ReadCollideAny ==
    /\ Reads("collide")
    /\ At(IF Incoming.len >= 3 THEN "commit" ELSE "abort")
    /\ misread' = Misread(Incoming)
    /\ UNCHANGED <<chip, chipArmed, entries, handle, opState, request, slot, got>>

(* Three bytes are asked for and kept, and byte 1 must be zero.            *)
ReadCollide ==
    /\ Reads("collide")
    /\ At(IF Incoming.len >= 3 /\ Incoming.code = OkCode THEN "commit" ELSE "abort")
    /\ misread' = Misread(Incoming)
    /\ UNCHANGED <<chip, chipArmed, entries, handle, opState, request, slot, got>>

(* Mutant: the commit's status is not looked at.                           *)
ReadCommitAny ==
    /\ Reads("commit")
    /\ Goto("record")
    /\ UNCHANGED <<chip, chipArmed, entries, handle, opState>>

ReadCommit ==
    /\ Reads("commit")
    /\ Goto(IF Incoming.code = OkCode THEN "record" ELSE "abort")
    /\ UNCHANGED <<chip, chipArmed, entries, handle, opState>>

ReadErase ==
    /\ Reads("erase")
    /\ Goto(IF Incoming.code = OkCode THEN "forget" ELSE "idle")
    /\ UNCHANGED <<chip, chipArmed, entries, handle, opState>>

-----------------------------------------------------------------------------
(* Touches.  An unarmed sensor accepts a touch-wait and never answers it.  *)
Touched(label) ==
    /\ pc = label /\ sent /\ usb = "open" /\ ~Stopped
    /\ chipArmed

(* One sample: accepted, to be repeated, or refused (slot limit, error).   *)
SampleAnswer ==
    /\ Touched("sample")
    /\ \/ got' = got + 1
          /\ At(IF got + 1 >= Stages THEN "collide" ELSE "sample")
       \/ At("sample") /\ UNCHANGED got
       \/ At("abort") /\ UNCHANGED got
    /\ UNCHANGED <<sensor, entries, handle, opState, request, slot, misread>>

(* The claim's prints this verification may accept, read before the touch. *)
Allowed == {p \in Own(store, user) : finger \in {AnyFinger, p[2]}}

Lookup ==
    /\ pc = "lookup"
    /\ Goto(IF Allowed = {} THEN "abort" ELSE "touch")
    /\ UNCHANGED <<sensor, entries, handle, opState>>

EmitTerminal == terminals' = terminals + 1

(* Mutant: any match will do if the claim has a print.                     *)
MatchAnswerAny(touch) ==
    /\ Touched("touch")
    /\ \E s \in Templates, p \in Allowed :
          chip[s] = touch /\ verdict' = [touch |-> touch, print |-> p]
    /\ EmitTerminal /\ Goto("close")
    /\ UNCHANGED <<sensor, entries, handle, busy, queued, cancelled>>

(* The chip matches the touch against every template it holds.  Only a     *)
(* slot the claim owns is reported as a match.                             *)
MatchAnswer(touch) ==
    /\ Touched("touch")
    /\ \E s \in Templates :
          /\ chip[s] = touch
          /\ \/ \E p \in Allowed :
                   store[p] = s /\ verdict' = [touch |-> touch, print |-> p]
             \/ (\A p \in Allowed : store[p] # s) /\ UNCHANGED verdict
    /\ EmitTerminal /\ Goto("close")
    /\ UNCHANGED <<sensor, entries, handle, busy, queued, cancelled>>

(* No match, or a status that is an error: terminal.  A retry is not.      *)
OtherAnswer ==
    /\ Touched("touch")
    /\ \/ EmitTerminal /\ Goto("close")
       \/ Goto("touch") /\ UNCHANGED terminals
    /\ UNCHANGED <<sensor, entries, handle, busy, queued, cancelled, verdict>>

-----------------------------------------------------------------------------
(* Failures of an exchange.  A verification or enrolment goes to its       *)
(* abort; the firmware read is optional; claim and delete just return.     *)
OnWire == pc \in StatusReads \cup TouchWaits

(* Mutant: a claim asks again, for as long as it gets no answer.           *)
ReturnErrorAgain ==
    Goto(IF op \in {"verify", "enroll"} THEN "abort"
         ELSE IF op = "claim" THEN "arm" ELSE "idle")

ReturnError ==
    Goto(IF op \in {"verify", "enroll"} THEN "abort"
         ELSE IF pc = "firmware" THEN "arm" ELSE "idle")

(* The command never left, the finger never came, or the answer is late:   *)
(* then it stays on the endpoint.                                          *)
TimeOut ==
    /\ OnWire /\ usb = "open" /\ ~Stopped
    /\ sent /\ pc \in StatusReads => unread = NoReply
    /\ ReturnError
    /\ UNCHANGED <<sensor, entries, handle, opState>>

(* biased: a set token wins over an answer that is there.                  *)
StopOnCancel ==
    /\ OnWire /\ usb # "none" /\ Stopped
    /\ ReturnError
    /\ UNCHANGED <<sensor, entries, handle, opState>>

(* UsbError::Disconnected.  Only round() lets go of the handle.            *)
Disconnected ==
    /\ OnWire /\ usb = "dead" /\ ~Stopped
    /\ IF pc \in Rounds THEN usb' = "none" /\ armed' = FALSE
                        ELSE UNCHANGED <<usb, armed>>
    /\ ReturnError
    /\ UNCHANGED <<sensor, entries, firmware, claimed, opState>>

(* usb() on a worker whose handle was dropped.                             *)
NoHandle ==
    /\ OnWire /\ usb = "none"
    /\ ReturnError
    /\ UNCHANGED <<sensor, entries, handle, opState>>

-----------------------------------------------------------------------------
(* abort_session: ends the chip session and with it any unread answer.     *)
AbortSession ==
    IF usb = "open"
    THEN reply' = NoReply /\ unread' = NoReply /\ chipArmed' = FALSE
    ELSE UNCHANGED <<endpoint, chipArmed>>

(* verify and enroll after an error.                                       *)
Abort ==
    /\ pc = "abort"
    /\ AbortSession /\ armed' = FALSE
    /\ Goto("close")
    /\ UNCHANGED <<chip, entries, usb, firmware, claimed, opState>>

(* Mutant: a sink that says its last word twice.                           *)
CloseAgain ==
    /\ pc = "close"
    /\ EmitTerminal /\ busy' = FALSE
    /\ Goto("idle")
    /\ UNCHANGED <<sensor, entries, handle, queued, cancelled, verdict>>

(* Mutant: a path that forgets to give up the flag.                        *)
CloseBusy ==
    /\ pc = "close"
    /\ IF terminals = 0 THEN EmitTerminal ELSE UNCHANGED terminals
    /\ Goto("idle")
    /\ UNCHANGED <<sensor, entries, handle, busy, queued, cancelled, verdict>>

(* OpSink::close, then the OpToken is dropped, still under the mutex.      *)
Close ==
    /\ pc = "close"
    /\ IF terminals = 0 THEN EmitTerminal ELSE UNCHANGED terminals
    /\ busy' = FALSE
    /\ Goto("idle")
    /\ UNCHANGED <<sensor, entries, handle, queued, cancelled, verdict>>

(* record: insert, save, and only then the completed event.                *)
Record ==
    /\ pc = "record"
    /\ \/ /\ ~SlotTaken(store, Subject, slot)
          /\ store' = Insert(store, Subject, slot)
          /\ doubtful' = IF misread THEN doubtful \cup {Subject} ELSE doubtful \ {Subject}
          /\ EmitTerminal /\ Goto("close")
       \/ Goto("abort") /\ UNCHANGED <<entries, terminals>>
    /\ UNCHANGED <<sensor, handle, busy, queued, cancelled, verdict>>

(* delete_finger after the erase: the entry goes, unless the save fails.   *)
Forget ==
    /\ pc = "forget"
    /\ store' \in {store, Remove(store, Subject)}
    /\ Goto("idle")
    /\ UNCHANGED <<sensor, doubtful, handle, opState>>

(* Mutant: the aborted handle still counts as armed.                       *)
ReleaseArmed ==
    /\ pc = "idle"
    /\ AbortSession /\ claimed' = NoUser
    /\ UNCHANGED <<chip, entries, usb, firmware, armed, opState, request, pc, sent, place>>

(* Mutant: so does the handle that was dropped.                            *)
SuspendArmed ==
    /\ pc = "idle"
    /\ AbortSession /\ usb' = "none"
    /\ UNCHANGED <<chip, entries, firmware, armed, claimed, opState, request, pc, sent, place>>

(* release, suspend and resume take the mutex like everything else.        *)
Release ==
    /\ pc = "idle"
    /\ AbortSession /\ armed' = FALSE /\ claimed' = NoUser
    /\ UNCHANGED <<chip, entries, usb, firmware, opState, request, pc, sent, place>>

Suspend ==
    /\ pc = "idle"
    /\ AbortSession /\ armed' = FALSE /\ usb' = "none"
    /\ UNCHANGED <<chip, entries, firmware, claimed, opState, request, pc, sent, place>>

Resume ==
    /\ pc = "idle"
    /\ armed' = FALSE /\ usb' = "none"
    /\ UNCHANGED <<sensor, entries, firmware, claimed, opState, request, pc, sent, place>>

-----------------------------------------------------------------------------
(* The environment.                                                        *)

(* The device goes away and comes back: templates survive, the session and *)
(* its unread answers do not, and an open handle is good for nothing.      *)
Replug ==
    /\ usb' = IF usb = "open" THEN "dead" ELSE usb
    /\ chipArmed' = FALSE /\ reply' = NoReply /\ unread' = NoReply
    /\ UNCHANGED <<chip, entries, firmware, armed, claimed, opState, request, pc, sent, place>>

(* The daemon is killed and started again.  Nobody aborts the chip.        *)
Crash ==
    /\ usb' = "none" /\ firmware' = FALSE /\ armed' = FALSE /\ claimed' = NoUser
    /\ busy' = FALSE /\ queued' = NoOp /\ cancelled' = FALSE
    /\ terminals' = 0 /\ verdict' = NoVerdict
    /\ Goto("idle")
    /\ UNCHANGED <<sensor, entries>>

-----------------------------------------------------------------------------
Exchange ==
    \/ Send \/ ReadFirmware \/ ReadArm \/ ReadInfo \/ ReadCollide
    \/ ReadCommit \/ ReadErase \/ SampleAnswer \/ OtherAnswer
    \/ \E touch \in Prints : MatchAnswer(touch)
    \/ TimeOut \/ StopOnCancel \/ Disconnected \/ NoHandle

(* What the daemon's own code does once it holds the mutex.                *)
Proceed ==
    \/ OpenHandle \/ Exchange
    \/ Lookup \/ Abort \/ Close \/ Record \/ Forget

Requests ==
    \/ \E u \in Users : BeginClaim(u)
    \/ \E kind \in {"verify", "enroll"}, f \in Fingers \cup {AnyFinger} : TryBegin(kind, f)
    \/ \E print \in Prints : BeginDelete(print)
    \/ Release \/ Cancel

Next ==
    \/ Requests \/ StartVerify \/ StartEnroll \/ Proceed
    \/ Suspend \/ Resume \/ Replug \/ Crash

Spec == Init /\ [][Next]_vars

(* Every exchange ends: the USB timeouts of Command::timeout and the token *)
(* see to it.  A queued operation gets its turn because tokio's mutex is   *)
(* first come, first served.  Nothing is assumed of clients or the device. *)
Fairness == WF_vars(Proceed) /\ SF_vars(StartVerify) /\ SF_vars(StartEnroll)

FairSpec == Spec /\ Fairness

-----------------------------------------------------------------------------
Queue == {"none", "verify", "enroll"} \X (Fingers \cup {AnyFinger})
Verdicts == [touch : Prints, print : Prints] \cup {NoVerdict}

Labels == {"idle", "open", "lookup", "record", "forget", "abort", "close"}
              \cup StatusReads \cup TouchWaits

SensorOK ==
    /\ chip \in [Slots -> Prints \cup {Empty}] /\ chipArmed \in BOOLEAN
    /\ reply \in Answers /\ unread \in Answers

HandleOK ==
    /\ usb \in {"none", "open", "dead"}
    /\ firmware \in BOOLEAN /\ armed \in BOOLEAN
    /\ claimed \in Users \cup {NoUser}

OpStateOK ==
    /\ busy \in BOOLEAN /\ cancelled \in BOOLEAN
    /\ queued \in Queue /\ terminals \in Nat /\ verdict \in Verdicts

CallOK ==
    /\ op \in {"none", "claim", "delete", "verify", "enroll"}
    /\ user \in Users \cup {NoUser} /\ finger \in Fingers \cup {AnyFinger}
    /\ pc \in Labels /\ sent \in BOOLEAN
    /\ slot \in Slots /\ got \in Nat /\ misread \in BOOLEAN

EntriesOK == store \in Files /\ doubtful \subseteq Prints

TypeOK == SensorOK /\ EntriesOK /\ HandleOK /\ OpStateOK /\ CallOK

(* Whatever was cancelled, lost, left unread or cut off by a crash: the    *)
(* slot a finger is mapped to holds that finger's template or none.  No    *)
(* other user's template and no orphan can be reached through the mapping  *)
(* file, which is all that verify_inner's `allowed' relies on.  The one    *)
(* way to break it is a slot record left unread whose byte 1 is zero: the  *)
(* next enrolment takes it for a clear collision check, and the collision  *)
(* answer, or the rest of the record, for that of its commit.  Such a      *)
(* print is doubtful, and no other is affected by it.                      *)
Ownership ==
    \A p \in Prints \ doubtful : store[p] # NoSlot => chip[store[p]] \in {Empty, p}

(* A reported match names the very finger that touched the sensor, though  *)
(* the chip matches against every template it holds (verify_inner).        *)
MatchIsGenuine ==
    verdict # NoVerdict => verdict.print = verdict.touch \/ verdict.print \in doubtful

(* No touch-wait runs on a handle that has not answered enrolled_num since *)
(* it was opened or last aborted: the sensor would stay silent.            *)
ArmedTouchWait ==
    pc \in TouchWaits /\ usb = "open" => armed /\ chipArmed

(* The count an enrolment took its slot from is still the device's when    *)
(* commit goes out.  A stale answer may have been read as the count, but   *)
(* then the answer read as the collision check's is stale too, and no      *)
(* commit follows unless it is a slot record with a zero in byte 1.        *)
CommitAboveCount ==
    pc = "commit" /\ ~sent /\ usb = "open" /\ ~misread => slot >= Count

(* A client is told the end of its operation once, before the busy flag    *)
(* falls; only a killed daemon stays silent.                               *)
OneTerminal ==
    [][/\ busy /\ ~busy' => terminals' = 1 \/ Crash
       /\ terminals' > terminals => terminals = 0 /\ busy]_vars

(* A template leaves flash only in a delete for the finger it was enrolled *)
(* as, and a commit never replaces a template somebody is mapped to.  The  *)
(* delete of a doubtful print may erase a template that is not its own,    *)
(* but none that another print is mapped to.                               *)
ErasesAsAsked ==
    [][\A s \in Templates :
          chip'[s] # chip[s] =>
              \/ op = "delete" /\ chip[s] = Subject
              \/ /\ op = "delete" /\ Subject \in doubtful
                 /\ s \notin Tracked(Remove(store, Subject))
              \/ op = "enroll" /\ s \notin Tracked(store)]_vars

(* A template that the sensor has committed can be recorded: the slot was  *)
(* free when it was read, and is so after the samples, the collision check *)
(* and commit, so that insert never refuses it and leaves an orphan.       *)
InsertSucceeds == pc = "record" => ~SlotTaken(store, Subject, slot)

(* The worker never keeps its callers waiting for ever: a claim, a delete  *)
(* and a cancelled operation all give the mutex back, and a cancelled      *)
(* operation drops the busy flag.                                          *)
StopEnds == busy /\ cancelled ~> ~busy

MutexFreed ==
    pc # "idle" /\ (op \in {"claim", "delete"} \/ cancelled) ~> pc = "idle"

-----------------------------------------------------------------------------
(* The inductive invariant: why Ownership and the rest hold.               *)
Ops == {"verify", "enroll"}

(* An enrolment works for a print that has no entry, on a slot that nobody *)
(* is mapped to, and records it only once the sensor holds it there.       *)
EnrollInv ==
    /\ pc \in {"info", "sample", "collide", "commit", "record"} =>
          op = "enroll" /\ slot \notin Tracked(store)
    /\ op = "enroll" /\ pc \notin {"abort", "close"} =>
          Subject \in Prints /\ store[Subject] = NoSlot
    /\ pc = "record" /\ ~misread => chip[slot] = Subject

(* A delete works on the slot that its own print is mapped to.             *)
DeleteInv ==
    pc \in {"erase", "forget"} =>
        op = "delete" /\ Subject \in Prints /\ store[Subject] = slot

(* No three byte answer can be stale while an enrolment runs, so the one   *)
(* that lets it commit is the collision answer itself, or a slot record;   *)
(* the first empties the endpoint, and what commit reads is its own.       *)
AnswerInv ==
    /\ unread # NoReply => reply # NoReply
    /\ pc \in {"arm", "info"} /\ sent => reply.len # 3
    /\ pc \in {"info", "collide"} => unread.len # 3
    /\ pc = "sample" \/ (pc \in {"info", "collide"} /\ ~sent) => reply.len # 3
    /\ pc = "sample" \/ (pc = "collide" /\ ~sent) => unread = NoReply
    /\ pc = "commit" /\ ~misread =>
          /\ unread = NoReply
          /\ ~sent => reply = NoReply
          /\ sent /\ reply # NoReply /\ reply.code = OkCode => chip[slot] = Subject

(* With no answer left behind, the count an enrolment read is the sensor's *)
(* own, and every candidate it has moved on to is above it.                *)
InStep == IF sent /\ pc # "sample" THEN unread = NoReply ELSE reply = NoReply

CountInv ==
    /\ pc = "arm" /\ sent /\ reply # NoReply => reply.code = Count
    /\ pc \in {"info", "sample", "collide"} /\ usb = "open" /\ InStep => slot >= Count
    /\ CommitAboveCount

(* The worker believes it is armed only of a handle that is.               *)
ArmInv ==
    /\ armed => usb # "none"
    /\ armed /\ usb = "open" => chipArmed
    /\ pc = "open" => usb = "none"
    /\ pc = "arm" /\ sent /\ usb = "open" => chipArmed
    /\ pc \in {"lookup"} \cup Rounds => armed

(* The busy flag is up from try_begin to the end of the task, and nothing  *)
(* terminal is said before its last step.                                  *)
BusyInv ==
    /\ busy <=> queued # NoOp \/ op \in Ops
    /\ op \in Ops => queued = NoOp
    /\ queued # NoOp \/ op = "enroll" => verdict = NoVerdict
    /\ pc = "close" => op \in Ops
    /\ terminals \in {0, 1}
    /\ busy /\ pc # "close" => terminals = 0
    /\ pc \in {"lookup", "touch"} => op = "verify"
    /\ pc \in {"firmware", "open"} => op = "claim"
    /\ pc = "arm" => op \in {"claim"} \cup Ops
    /\ pc = "abort" => op \in Ops
    /\ pc = "idle" => op = "none"

IInv ==
    /\ TypeOK /\ Ownership /\ OneOwner(store) /\ MatchIsGenuine
    /\ EnrollInv /\ DeleteInv /\ AnswerInv /\ CountInv /\ ArmInv /\ BusyInv

-----------------------------------------------------------------------------
(* What the worker promises about prints, whatever happens to the sensor   *)
(* and the daemon: see Registry.  A print is live if the slot the file     *)
(* maps it to holds its template.  For a doubtful print it promises        *)
(* nothing.                                                                *)
Live == {p \in Prints \ doubtful : store[p] # NoSlot /\ chip[store[p]] = p}
Listed == {p \in Prints \ doubtful : store[p] # NoSlot}
Reported ==
    IF verdict = NoVerdict \/ verdict.print \in doubtful THEN {} ELSE {verdict.touch}

Registry == INSTANCE Registry WITH
    listed <- Listed, live <- Live, reported <- Reported

(* The worker implements the registry of prints.                           *)
ImplementsRegistry == Registry!Spec
=============================================================================
