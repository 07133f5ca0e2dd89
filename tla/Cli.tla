-------------------------------- MODULE Cli --------------------------------
(***************************************************************************)
(* The command line tool (crates/elanprint-cli/src/main.rs).  A session    *)
(* opens the sensor for itself, runs one command as a sequence of USB      *)
(* exchanges, and sends an abort if the command failed.  Ctrl-C sets the   *)
(* token that every exchange looks at; a session may also be killed.       *)
(*                                                                         *)
(* The sensor is external, and as in module Worker: the status endpoint    *)
(* keeps the newest answer nobody has read, also for the next session,     *)
(* until an abort ends the chip's own session.  Touches have no answers    *)
(* that outlive their exchange here.                                       *)
(***************************************************************************)
EXTENDS Store, FiniteSets

CONSTANTS Stages,      \* accepted samples an enrolment needs
          RecordCodes, \* what bytes 1 and 65 of a 70 byte slot record may be
          Empty        \* no template in a slot

ASSUME CliAssumption ==
    Stages \in Nat \ {0} /\ RecordCodes \subseteq Nat /\ Empty \notin Prints

VARIABLES
    chip,        \* slot -> the print whose template it holds, or Empty
    reply,       \* the sensor's answer to the last command
    unread,      \* an answer to an earlier command that nobody has read
    clear,       \* the last collision check of this session found nothing
    store,       \* the mapping file
    cmd, pc, sent,
    slot, finger, got, count, empties,  \* locals of the command
    interrupted, \* the token Ctrl-C has set
    dirty        \* the session began with an old answer on the endpoint

sensor  == <<chip, reply, unread, clear>>
locals  == <<slot, finger, got, count, empties>>
session == <<cmd, interrupted, dirty>>
vars    == <<sensor, store, session, pc, sent, locals>>

Commands == {"read", "abort", "enroll", "wipe", "sync", "prune"}

OkCode == 0
Refused == 253
Stuck == 255
Blank == 255

(* Length, byte 1, and of a slot record byte 69, by which it reads empty.  *)
Record(code, last) == [len |-> 70, code |-> code, last |-> last]
Answer(len, code) == [len |-> len, code |-> code, last |-> 0]
NoReply == Answer(0, 0)

SaysEnrolled(answer) == answer.len = 70 /\ answer.code # Stuck /\ answer.last # Blank
SaysEmpty(answer)    == answer.len = 70 /\ answer.code # Stuck /\ answer.last = Blank

At(label) == pc' = label /\ sent' = FALSE

-----------------------------------------------------------------------------
(* The file and the sensor as the daemon leaves them: a mapped slot holds  *)
(* its finger's template or none, an unmapped one may hold an orphan.      *)
Init ==
    /\ store \in {f \in Files : OneOwner(f)}
    /\ chip \in {c \in [Slots -> Prints \cup {Empty}] :
                   \A p \in Prints : store[p] # NoSlot => c[store[p]] \in {p, Empty}}
    /\ reply = NoReply /\ unread = NoReply /\ clear = FALSE
    /\ cmd = "none" /\ interrupted = FALSE /\ dirty = FALSE
    /\ pc = "end" /\ sent = FALSE
    /\ slot = 0 /\ finger = Empty /\ got = 0 /\ count = 0 /\ empties = {}

(* A session with the sensor open.  enroll names a slot, and its finger is *)
(* the one that will touch the sensor.                                     *)
Begin(c, p, s) ==
    /\ cmd = "none"
    /\ c = "enroll" <=> p # Empty
    /\ c \notin {"read", "enroll"} => s = 0
    /\ cmd' = c /\ finger' = p /\ slot' = s
    /\ At(CASE c = "read" -> "look" [] c = "abort" -> "abort" [] OTHER -> "arm")
    /\ dirty' = (reply # NoReply \/ unread # NoReply)
    /\ UNCHANGED <<chip, reply, unread, clear, store, interrupted, got, count, empties>>

Interrupt ==
    /\ cmd # "none" /\ ~interrupted
    /\ interrupted' = TRUE
    /\ UNCHANGED <<sensor, store, cmd, dirty, pc, sent, locals>>

-----------------------------------------------------------------------------
(* An exchange: the command goes out and the sensor acts on it; then its   *)
(* answer is read, which is the oldest one on the endpoint.                *)
StatusReads == {"look", "arm", "info", "collide", "commit", "recount"}
OnWire == StatusReads \cup {"wipe", "touch", "precheck", "sample"}

ChipReplies(answer) ==
    /\ reply' = answer
    /\ unread' \in IF reply = NoReply THEN {unread}
                   ELSE IF unread.len = 6 THEN {unread, reply} ELSE {reply}

(* finger_info answers in two lengths.                                     *)
Records(s) ==
    {Answer(2, 255)} \cup
    {Record(code, IF chip[s] = Empty THEN Blank ELSE 0) : code \in RecordCodes}

Counts ==
    /\ ChipReplies(Answer(2, Cardinality({s \in Slots : chip[s] # Empty})))
    /\ UNCHANGED <<chip, clear>>

ChipActs ==
    \/ pc \in {"arm", "recount", "look"} /\ Counts
    \/ /\ pc \in {"info", "look"}
       /\ \E r \in Records(slot) : ChipReplies(r)
       /\ UNCHANGED <<chip, clear>>
    \/ /\ pc = "collide"
       /\ \E code \in {OkCode, 1} : ChipReplies(Answer(3, code)) /\ clear' = (code = OkCode)
       /\ UNCHANGED chip
    \/ /\ pc = "commit"
       /\ \/ chip' = [chip EXCEPT ![slot] = finger] /\ ChipReplies(Answer(2, OkCode))
          \/ UNCHANGED chip /\ ChipReplies(Answer(2, Refused))
       /\ UNCHANGED clear
    \/ /\ pc = "wipe"
       /\ chip' \in [Slots -> {Empty}] \cup {chip}
       /\ UNCHANGED <<reply, unread, clear>>
    \/ pc \in {"touch", "precheck", "sample"} /\ UNCHANGED sensor

Send ==
    /\ pc \in OnWire /\ ~sent /\ ~interrupted
    /\ sent' = TRUE
    /\ ChipActs
    /\ UNCHANGED <<store, session, pc, locals>>

Incoming == IF unread = NoReply THEN reply ELSE unread

Done(label) == pc = label /\ sent /\ ~interrupted

(* finger_info alone asks for more than 64 bytes: any other read cuts a    *)
(* record in two, and leaves six bytes of it.                              *)
Rests(label) ==
    IF Incoming.len # 70 \/ label = "info" \/ (label = "look" /\ unread = NoReply)
    THEN {NoReply}
    ELSE {Answer(6, code) : code \in RecordCodes} \cup (IF label = "look" THEN {NoReply} ELSE {})

Reads(label) ==
    /\ Done(label) /\ Incoming # NoReply
    /\ unread' \in Rests(label)
    /\ reply' = IF unread = NoReply THEN NoReply ELSE reply
    /\ UNCHANGED <<chip, clear>>

(* The token, a failed transfer, or an answer or a finger that is late.    *)
Fails ==
    /\ pc \in OnWire
    /\ interrupted \/ ~sent \/ unread = NoReply
    /\ At("abort")
    /\ UNCHANGED <<sensor, store, session, locals>>

-----------------------------------------------------------------------------
(* fw_ver, info, finger_info, slots, verify, and the last reads of enroll: *)
(* what they read is printed.  An older answer may not be one to parse.    *)
Look ==
    /\ Reads("look")
    /\ \E next \in {"look", "end"} \cup (IF cmd = "read" THEN {"touch"} ELSE {})
                   \cup (IF unread = NoReply THEN {} ELSE {"abort"}) : At(next)
    /\ UNCHANGED <<store, session, locals>>

Touch ==
    /\ Done("touch")
    /\ UNCHANGED sensor \/ Reads("touch")    \* the latter with --dual
    /\ \E next \in {"touch", "end", "abort"} : At(next)
    /\ UNCHANGED <<store, session, locals>>

(* The first read of enroll, wipe and sync.                                *)
Arm ==
    /\ Reads("arm")
    /\ count' = Incoming.code
    /\ CASE cmd = "enroll" -> At("info") /\ UNCHANGED slot
         [] cmd = "wipe" -> At(IF Incoming.code = 0 THEN "end" ELSE "ask") /\ UNCHANGED slot
         [] OTHER -> At("info") /\ slot' = 0
    /\ UNCHANGED <<store, session, finger, got, empties>>

(* finger_info has two lengths.                                            *)
Info ==
    /\ Reads("info")
    /\ CASE Incoming.len \notin {2, 70} -> At("abort") /\ UNCHANGED <<slot, empties>>
         [] cmd = "enroll" ->
              /\ At(IF SaysEnrolled(Incoming) THEN "abort" ELSE "precheck")
              /\ UNCHANGED <<slot, empties>>
         [] OTHER ->
              /\ empties' = IF SaysEmpty(Incoming) THEN empties \cup {slot} ELSE empties
              /\ slot' = IF slot < MaxSlot THEN slot + 1 ELSE slot
              /\ At(IF slot < MaxSlot THEN "info" ELSE "reconcile")
    /\ UNCHANGED <<store, session, finger, got, count>>

-----------------------------------------------------------------------------
(* enroll.                                                                 *)

(* The finger must be new; the sensor may also fail to know it again.      *)
PreCheck ==
    /\ Done("precheck")
    /\ \E next \in {"sample", "precheck", "abort"} : At(next)
    /\ UNCHANGED <<sensor, store, session, locals>>

(* Mutant: one sample too many.                                            *)
SampleMore ==
    /\ Done("sample")
    /\ got' = got + 1 /\ At(IF got >= Stages THEN "collide" ELSE "sample")
    /\ UNCHANGED <<sensor, store, session, slot, finger, count, empties>>

Sample ==
    /\ Done("sample")
    /\ \/ got' = got + 1 /\ At(IF got + 1 >= Stages THEN "collide" ELSE "sample")
       \/ At("sample") /\ UNCHANGED got
       \/ At("abort") /\ UNCHANGED got
    /\ UNCHANGED <<sensor, store, session, slot, finger, count, empties>>

(* Mutant: the answer is not looked at.                                    *)
CollideAny ==
    /\ Reads("collide")
    /\ \E next \in {"hold", "commit"} : At(next)
    /\ UNCHANGED <<store, session, locals>>

(* Three bytes, byte 1 zero; then --hold-before-commit, or not.            *)
Collide ==
    /\ Reads("collide")
    /\ IF Incoming.len >= 3 /\ Incoming.code = OkCode
       THEN \E next \in {"hold", "commit"} : At(next)
       ELSE At("abort")
    /\ UNCHANGED <<store, session, locals>>

(* The file that wait_for_go waits for is there.                           *)
Go ==
    /\ pc = "hold" /\ At("commit")
    /\ UNCHANGED <<sensor, store, session, locals>>

(* Mutant: only the file ends the wait.                                    *)
HoldOn ==
    /\ pc = "hold" /\ interrupted
    /\ UNCHANGED vars

HoldStops ==
    /\ pc = "hold" /\ interrupted
    /\ At("abort")
    /\ UNCHANGED <<sensor, store, session, locals>>

(* drain_trailing takes the next answer, or the rest of a cut one, before  *)
(* the status counts.                                                      *)
Drains ==
    /\ Done("commit") /\ Incoming # NoReply
    /\ unread' = NoReply
    /\ reply' = IF unread.len = 70 THEN reply ELSE NoReply
    /\ UNCHANGED <<chip, clear>>

(* It reads nothing if the token is set, or if what it takes is late.      *)
Commit ==
    /\ Drains \/ Reads("commit")
    /\ At(IF Incoming.code = OkCode THEN "look" ELSE "abort")
    /\ UNCHANGED <<store, session, locals>>

-----------------------------------------------------------------------------
(* wipe_device: the prompt blocks until a line has been typed, whatever    *)
(* the token says.                                                         *)
Ask ==
    /\ pc = "ask"
    /\ \E next \in {"wipe", "abort"} : At(next)
    /\ UNCHANGED <<sensor, store, session, locals>>

(* wipe_all has no answer; the count is read after a while.                *)
Wipe ==
    /\ Done("wipe") /\ At("recount")
    /\ UNCHANGED <<sensor, store, session, locals>>

(* Mutant: the count is printed and not compared.                          *)
RecountAny ==
    /\ Reads("recount")
    /\ count' = Incoming.code
    /\ At("end")
    /\ UNCHANGED <<store, session, slot, finger, got, empties>>

Recount ==
    /\ Reads("recount")
    /\ count' = Incoming.code
    /\ At(IF Incoming.code = 0 THEN "end" ELSE "abort")
    /\ UNCHANGED <<store, session, slot, finger, got, empties>>

-----------------------------------------------------------------------------
(* sync: reconcile, and with --prune the entries proven stale go.          *)

(* Mutant: a device that counts less than the file proves the file stale.  *)
StaleByCount ==
    LET mapped == {p \in Prints : store[p] # NoSlot}
    IN {p \in mapped : count < Cardinality(mapped) \/ store[p] \in empties}

Stale == {p \in Prints : store[p] # NoSlot /\ (count = 0 \/ store[p] \in empties)}

Prune ==
    /\ pc = "reconcile"
    /\ \/ /\ At("end")
          /\ store' = IF cmd = "prune"
                      THEN [p \in Prints |-> IF p \in Stale THEN NoSlot ELSE store[p]]
                      ELSE store
       \/ At("abort") /\ UNCHANGED store
    /\ UNCHANGED <<sensor, session, locals>>

-----------------------------------------------------------------------------
(* The end of a session: an abort after an error, which goes through the   *)
(* same token as everything else.                                          *)
Ends(label) ==
    /\ cmd' = "none" /\ At(label)
    /\ interrupted' = FALSE /\ dirty' = FALSE /\ clear' = FALSE
    /\ slot' = 0 /\ finger' = Empty /\ got' = 0 /\ count' = 0 /\ empties' = {}

Abort ==
    /\ pc = "abort" /\ Ends("end")
    /\ IF interrupted THEN UNCHANGED <<reply, unread>>
                      ELSE reply' = NoReply /\ unread' = NoReply
    /\ UNCHANGED <<chip, store>>

End ==
    /\ pc = "end" /\ cmd # "none" /\ Ends("end")
    /\ UNCHANGED <<chip, reply, unread, store>>

Kill ==
    /\ cmd # "none" /\ Ends("killed")
    /\ UNCHANGED <<chip, reply, unread, store>>

Step ==
    \/ Send \/ Fails \/ Look \/ Touch \/ Arm \/ Info
    \/ PreCheck \/ Sample \/ Collide \/ HoldStops \/ Commit
    \/ Wipe \/ Recount \/ Prune \/ Abort \/ End

Next ==
    \/ \E c \in Commands, p \in Prints \cup {Empty}, s \in Slots : Begin(c, p, s)
    \/ Interrupt \/ Step \/ Ask \/ Go \/ Kill

Spec == Init /\ [][Next]_vars

(* The tool runs, and the timeouts end what the sensor does not answer.    *)
(* The prompt's line and the file of --hold-before-commit may never come.  *)
FairSpec == Spec /\ WF_vars(Step)

-----------------------------------------------------------------------------
Answers ==
    [len : {2, 3, 6}, code : Nat, last : {0}]
        \cup [len : {70}, code : Nat, last : {0, Blank}] \cup {NoReply}

SensorOK ==
    /\ chip \in [Slots -> Prints \cup {Empty}]
    /\ reply \in Answers /\ unread \in Answers /\ clear \in BOOLEAN

PlaceOK ==
    /\ cmd \in Commands \cup {"none"}
    /\ pc \in OnWire \cup {"hold", "ask", "reconcile", "abort", "end", "killed"}
    /\ sent \in BOOLEAN /\ interrupted \in BOOLEAN /\ dirty \in BOOLEAN

LocalsOK ==
    /\ slot \in Slots /\ finger \in Prints \cup {Empty} /\ got \in 0..Stages
    /\ count \in Nat /\ empties \subseteq Slots

TypeOK == SensorOK /\ store \in Files /\ PlaceOK /\ LocalsOK

(* In a session that found the endpoint clean, nothing it gives up on half *)
(* way makes a later answer pass for an earlier one: a commit goes out only *)
(* after a collision check that found nothing.                             *)
CommitCleared == pc = "commit" => clear \/ dirty

(* sync --prune drops an entry only if its slot really holds no template   *)
(* (elanprint-store/src/lib.rs:149, "True only when proven by the device").*)
PrunesProven ==
    [][\A p \in Prints :
          store[p] # NoSlot /\ store'[p] = NoSlot => chip[store[p]] = Empty \/ dirty]_vars

(* A wipe that ends well has left no template.                             *)
WipeIsTold ==
    [][cmd = "wipe" /\ pc # "end" /\ pc' = "end" /\ cmd' = "wipe"
          => dirty \/ \A s \in Slots : chip[s] = Empty]_vars

(* Ctrl-C ends the session wherever it is, also while it waits for the     *)
(* file before a commit; but for the prompt of wipe-device, where nothing  *)
(* looks at the token: there the session ends once it has read its line.   *)
InterruptEnds == interrupted /\ pc # "ask" ~> cmd = "none"

-----------------------------------------------------------------------------
(* Why these hold, by part.  Which command can be where, and that a        *)
(* session begins with its locals cleared.                                 *)
PlacesOf(c) ==
    {"abort", "end"} \cup
    CASE c = "read" -> {"look", "touch"}
      [] c = "enroll" -> {"arm", "info", "precheck", "sample", "collide", "hold", "commit", "look"}
      [] c = "wipe" -> {"arm", "ask", "wipe", "recount"}
      [] c \in {"sync", "prune"} -> {"arm", "info", "reconcile"}
      [] c = "abort" -> {}

PlaceInv ==
    /\ IF cmd = "none" THEN pc \in {"end", "killed"} ELSE pc \in PlacesOf(cmd)
    /\ cmd = "none" => empties = {} /\ got = 0
    /\ cmd \notin {"sync", "prune"} => empties = {}
    /\ pc \in {"arm", "info", "precheck"} => got = 0
    /\ pc = "sample" => got < Stages

(* In a session that found the endpoint clean, the only answer there is    *)
(* that of the command which is out, until something fails; so no record   *)
(* is cut in two.                                                          *)
CleanInv ==
    cmd # "none" /\ ~dirty /\ pc # "abort" =>
        /\ unread = NoReply
        /\ ~sent \/ pc \notin StatusReads => reply = NoReply
        /\ pc \notin {"look", "info"} => reply.len # 70

(* What that answer says is so: of the collision check, of a slot, of how  *)
(* many templates there are.                                               *)
TruthInv ==
    cmd # "none" /\ ~dirty /\ sent /\ reply # NoReply =>
        /\ pc = "collide" => reply.code # OkCode \/ clear
        /\ pc = "info" /\ SaysEmpty(reply) => chip[slot] = Empty
        /\ pc \in {"arm", "recount"} => reply.code # 0 \/ \A s \in Slots : chip[s] = Empty

(* What sync has read so far.                                              *)
SyncInv ==
    cmd \in {"sync", "prune"} /\ ~dirty =>
        /\ empties \subseteq {s \in Slots : chip[s] = Empty}
        /\ pc \in {"info", "reconcile"} => count # 0 \/ \A s \in Slots : chip[s] = Empty

ClearInv == pc \in {"hold", "commit"} => clear \/ dirty

IInv == TypeOK /\ PlaceInv /\ CleanInv /\ TruthInv /\ SyncInv /\ ClearInv

-----------------------------------------------------------------------------
(* docs/protocol.md:227 says "On any exception or Ctrl-C at any point,     *)
(* send `abort' (`40 ff 02') before releasing the interface.  Without it   *)
(* the chip stays mid-session and the next command reads a stale           *)
(* response": a session that ends after an error leaves no answer behind.  *)
FailedSessionAborts ==
    [][pc = "abort" /\ pc' = "end" => reply' = NoReply /\ unread' = NoReply]_vars
=============================================================================
