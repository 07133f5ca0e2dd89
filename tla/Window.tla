------------------------------- MODULE Window -------------------------------
(***************************************************************************)
(* The window of the desktop client (crates/elanprint-login/src/app.rs)    *)
(* and the tasks it starts (src/client.rs), seen from the window: the      *)
(* bounded channel of each task, the threads that connect, list and        *)
(* delete, the screens, and what a click may do in each.  Module Desktop   *)
(* has the tasks' calls to the daemon; here they succeed or fail, and the  *)
(* statuses a task hears are any that a daemon may send, those of an       *)
(* operation before it included.                                           *)
(***************************************************************************)
EXTENDS Session, Sequences, Functions

CONSTANTS Tasks, NoTask,   \* bound: tasks at a time
          Fingers, NoFinger,
          Cap              \* of a task's channel, 32 in the code

ASSUME WindowAssumption ==
    NoTask \notin Tasks /\ NoFinger \notin Fingers /\ Cap \in Nat \ {0}

VARIABLES
    \* the window
    client, connecting,           \* connected; the thread of `connect'
    mode, screen, tabBusy,
    fingers, deletePending, list, \* the thread of a refresh or a delete
    events, enrollEvents,         \* the tasks whose channels are read
    \* the tasks
    kind, at, rest, queue, quit, target, session,
    \* the daemon
    op,         \* the task whose enrolment runs in the daemon
    enrolled,
    \* history
    matched, cut, missed

thread == <<connecting, deletePending, list>>
window == <<client, mode, screen, tabBusy, fingers, thread, events, enrollEvents>>
task   == <<kind, at, rest, queue, quit, target, session>>
daemon == <<op, enrolled>>
past   == <<matched, cut, missed>>
vars   == <<window, task, daemon, past>>

NoThread == [is |-> "none", finger |-> NoFinger, fingers |-> {}]
Thread(is, f) == [is |-> is, finger |-> f, fingers |-> {}]
Listed(set) == [is |-> "ok", finger |-> NoFinger, fingers |-> set]
Failing == [is |-> "error", finger |-> NoFinger, fingers |-> {}]

Verdicts == {"granted", "denied", "locked", "failed"}

(* LoginApp::new, for an account that may have prints already.             *)
Init ==
    /\ client = FALSE /\ connecting = NoThread
    /\ mode = "enroll" /\ screen = "disconnected" /\ tabBusy = FALSE
    /\ fingers = {} /\ deletePending = FALSE /\ list = NoThread
    /\ events = NoTask /\ enrollEvents = NoTask
    /\ kind = [t \in Tasks |-> "login"] /\ at = [t \in Tasks |-> "none"]
    /\ rest = [t \in Tasks |-> <<>>] /\ queue = [t \in Tasks |-> <<>>] /\ quit = {}
    /\ target = [t \in Tasks |-> NoFinger] /\ session = [t \in Tasks |-> Begin]
    /\ op = NoTask /\ enrolled \in SUBSET Fingers
    /\ matched = FALSE /\ cut = FALSE /\ missed = FALSE

Followed(t) == t \in {events, enrollEvents}

-----------------------------------------------------------------------------
(* Mutant: a login does not keep the mode.                                 *)
SwitchModeInLogin(m) ==
    /\ enrollEvents = NoTask /\ ~tabBusy
    /\ mode' = m
    /\ UNCHANGED <<client, screen, tabBusy, fingers, thread, events,
                   enrollEvents, task, daemon, past>>

(* Clicks.  The mode cannot be left while something in it is at work.      *)
SwitchMode(m) ==
    /\ events = NoTask /\ enrollEvents = NoTask /\ ~tabBusy
    /\ mode' = m
    /\ UNCHANGED <<client, screen, tabBusy, fingers, thread, events,
                   enrollEvents, task, daemon, past>>

Connect ==
    /\ mode = "enroll" /\ ~client /\ connecting = NoThread
    /\ connecting' = Thread("running", NoFinger)
    /\ UNCHANGED <<client, mode, screen, tabBusy, fingers, deletePending, list,
                   events, enrollEvents, task, daemon, past>>

EnrollBusy == enrollEvents # NoTask \/ deletePending

Free(t) == at[t] = "none" /\ rest[t] = <<>>

(* A new task, with a channel and a token of its own.                      *)
Spawn(t, k, f) ==
    /\ Free(t) /\ ~Followed(t)
    /\ kind' = [kind EXCEPT ![t] = k] /\ target' = [target EXCEPT ![t] = f]
    /\ session' = [session EXCEPT ![t] = Begin]
    /\ at' = [at EXCEPT ![t] = "setup"]
    /\ queue' = [queue EXCEPT ![t] = IF k = "login" THEN <<"hint">> ELSE <<>>]
    /\ quit' = quit \ {t}
    /\ UNCHANGED <<rest, daemon>>

StartLogin(t) ==
    /\ mode = "verify" /\ client /\ events = NoTask
    /\ screen \in {"ready", "denied", "failed", "locked"}
    /\ Spawn(t, "login", NoFinger)
    /\ events' = t /\ screen' = "waiting"
    /\ matched' = FALSE /\ cut' = FALSE
    /\ UNCHANGED <<client, mode, tabBusy, fingers, thread, enrollEvents, missed>>

(* The receiver is dropped, and with it what nobody has read.              *)
Unfollow(t) == queue' = [u \in Tasks |-> IF u = t THEN <<>> ELSE queue[u]]

(* Mutant: the receiver is dropped, the token is not cancelled.            *)
CancelLoginUntold ==
    /\ mode = "verify" /\ screen \in {"waiting", "granted"}
    /\ Unfollow(events) /\ events' = NoTask /\ screen' = "ready"
    /\ UNCHANGED <<client, mode, tabBusy, fingers, thread, enrollEvents,
                   kind, at, rest, quit, target, session, daemon, past>>

(* cancel_login while it waits, logout when it has granted.                *)
CancelLogin ==
    /\ mode = "verify" /\ screen \in {"waiting", "granted"}
    /\ quit' = quit \cup ({events} \ {NoTask})
    /\ Unfollow(events) /\ events' = NoTask /\ screen' = "ready"
    /\ matched' = FALSE /\ cut' = FALSE
    /\ UNCHANGED <<client, mode, tabBusy, fingers, thread, enrollEvents,
                   kind, at, rest, target, session, daemon, missed>>

(* The finger is the one that was chosen, which may be enrolled by now.    *)
StartEnroll(t, f) ==
    /\ mode = "enroll" /\ client /\ ~EnrollBusy
    /\ Spawn(t, "enroll", f)
    /\ enrollEvents' = t
    /\ UNCHANGED <<client, mode, screen, tabBusy, fingers, thread, events, past>>

CancelEnroll ==
    /\ mode = "enroll" /\ enrollEvents # NoTask
    /\ quit' = quit \cup {enrollEvents}
    /\ Unfollow(enrollEvents) /\ enrollEvents' = NoTask
    /\ UNCHANGED <<client, mode, screen, tabBusy, fingers, thread, events,
                   kind, at, rest, target, session, daemon, past>>

(* The click that confirms.                                                *)
RequestDelete(f) ==
    /\ mode = "enroll" /\ client /\ ~EnrollBusy /\ f \in fingers
    /\ list' = Thread("delete", f) /\ deletePending' = TRUE
    /\ UNCHANGED <<client, mode, screen, tabBusy, fingers, connecting, events,
                   enrollEvents, task, daemon, past>>

(* A job of the keyring tab.                                               *)
TabWorks ==
    /\ tabBusy \/ mode = "keyring"
    /\ tabBusy' = ~tabBusy
    /\ UNCHANGED <<client, mode, screen, fingers, thread, events, enrollEvents,
                   task, daemon, past>>

-----------------------------------------------------------------------------
(* poll: all that has come, in each of the four channels.                  *)
Said(t) == IF t = NoTask THEN {} ELSE Range(queue[t])

EnrollDone == Said(enrollEvents) \cap {"completed", "failed", "finished"} # {}
LoginDone == Said(events) \cap (Verdicts \cup {"finished"}) # {}

Completed == "completed" \in Said(enrollEvents)

(* Mutant: a list that is under way will do.                               *)
RefreshIdle == Completed /\ list = NoThread

(* poll_enroll asks for a new list, in place of any list under way.        *)
Refresh == Completed

ListAnswered == ~Refresh /\ list.is \in {"ok", "error"}

PollScreen ==
    IF connecting.is = "ok" THEN "ready"
    ELSE IF connecting.is = "error" THEN "disconnected"
    ELSE IF Said(events) \cap Verdicts = {} THEN screen
    ELSE CHOOSE v \in Said(events) : v \in Verdicts

PollFingers ==
    IF connecting.is = "ok" THEN connecting.fingers
    ELSE IF ListAnswered /\ list.is = "ok" THEN list.fingers ELSE fingers

Poll ==
    /\ screen' = PollScreen
    /\ fingers' = PollFingers
    /\ client' = (client \/ connecting.is = "ok")
    /\ connecting' = IF connecting.is \in {"ok", "error"} THEN NoThread ELSE connecting
    /\ list' = IF Refresh THEN Thread("refresh", NoFinger)
               ELSE IF ListAnswered THEN NoThread ELSE list
    /\ deletePending' = (deletePending /\ ~ListAnswered)
    /\ queue' = [t \in Tasks |-> IF Followed(t) THEN <<>> ELSE queue[t]]
    /\ events' = IF LoginDone THEN NoTask ELSE events
    /\ enrollEvents' = IF EnrollDone THEN NoTask ELSE enrollEvents
    /\ cut' = (cut \/ (LoginDone /\ Said(events) \cap Verdicts = {}))
    /\ missed' = \/ missed /\ ~Completed /\ fingers' # enrolled
                 \/ ListAnswered /\ list.is = "error"
    /\ UNCHANGED <<mode, tabBusy, kind, at, rest, quit, target,
                   session, daemon, matched>>

-----------------------------------------------------------------------------
(* The threads that connect, refresh and delete.                           *)
Connects ==
    /\ connecting.is = "running"
    /\ connecting' \in {Listed(enrolled), Failing}
    /\ UNCHANGED <<client, mode, screen, tabBusy, fingers, deletePending, list,
                   events, enrollEvents, task, daemon, past>>

(* An error may come although the print is gone.                           *)
Deletes ==
    /\ list.is = "delete"
    /\ \/ enrolled' = enrolled \ {list.finger} /\ list' \in {Thread("refresh", NoFinger), Failing}
       \/ UNCHANGED enrolled /\ list' = Failing
    /\ UNCHANGED <<client, mode, screen, tabBusy, fingers, connecting, deletePending,
                   events, enrollEvents, task, op, past>>

Lists ==
    /\ list.is = "refresh"
    /\ list' \in {Listed(enrolled), Failing}
    /\ UNCHANGED <<client, mode, screen, tabBusy, fingers, connecting, deletePending,
                   events, enrollEvents, task, daemon, past>>

-----------------------------------------------------------------------------
(* The tasks.  A send waits while the channel is full and returns at once  *)
(* when nobody has the receiver; `rest' is what a task still has to send   *)
(* before it goes on to the place it is at.                                *)
Goes(t, label, saying) ==
    /\ at' = [at EXCEPT ![t] = label]
    /\ IF Followed(t) /\ Len(queue[t]) + Len(saying) <= Cap
       THEN queue' = [queue EXCEPT ![t] = @ \o saying] /\ UNCHANGED rest
       ELSE rest' = [rest EXCEPT ![t] = IF Followed(t) THEN saying ELSE <<>>]
            /\ UNCHANGED queue

(* Mutant: the channel has no bound.                                       *)
SendUnbounded(t) ==
    /\ rest[t] # <<>>
    /\ queue' = IF Followed(t) THEN [queue EXCEPT ![t] = Append(@, Head(rest[t]))] ELSE queue
    /\ rest' = [rest EXCEPT ![t] = Tail(@)]
    /\ UNCHANGED <<window, kind, at, quit, target, session, daemon, past>>

Send(t) ==
    /\ rest[t] # <<>>
    /\ Followed(t) => Len(queue[t]) < Cap
    /\ queue' = IF Followed(t) THEN [queue EXCEPT ![t] = Append(@, Head(rest[t]))] ELSE queue
    /\ rest' = [rest EXCEPT ![t] = Tail(@)]
    /\ UNCHANGED <<window, kind, at, quit, target, session, daemon, past>>

Ready(t, label) == at[t] = label /\ rest[t] = <<>>

Ends(t, saying) ==
    /\ Goes(t, "none", saying)
    /\ quit' = quit \ {t} /\ kind' = [kind EXCEPT ![t] = "login"]
    /\ target' = [target EXCEPT ![t] = NoFinger]

(* Claim, the streams, and the start, any of which may fail; a print that  *)
(* is being enrolled keeps the next operation out.                         *)
SetUp(t) ==
    /\ Ready(t, "setup")
    /\ \/ /\ op = NoTask
          /\ Goes(t, "drive", <<>>)
          /\ op' = IF kind[t] = "enroll" THEN t ELSE op
          /\ UNCHANGED <<quit, kind, target>>
       \/ Ends(t, <<"failed">>) /\ UNCHANGED op
    /\ UNCHANGED <<window, session, enrolled, past>>

(* The token is looked at first.                                           *)
Driving(t) == Ready(t, "drive") /\ t \notin quit

Quit(t) ==
    /\ Ready(t, "drive") /\ t \in quit
    /\ Goes(t, "stop", <<>>)
    /\ UNCHANGED <<window, kind, quit, target, session, daemon, past>>

(* What `apply' makes of the session's answer.                             *)
Event(action) ==
    CASE action = "granted" -> "granted"
      [] action = "deny" -> "denied"
      [] action = "locked" -> "locked"
      [] action = "prompt" -> "hint"
      [] OTHER -> "failed"

(* A login hears a status.  Nobody steps its session after its answer.     *)
Hear(t, status) ==
    LET reply == Step(session[t], status, PamDefault)
    IN /\ Driving(t) /\ kind[t] = "login"
       /\ IF reply.action = "prompt"
          THEN Goes(t, "drive", <<"hint">>) /\ session' = [session EXCEPT ![t] = reply.session]
          ELSE Goes(t, "stop", <<Event(reply.action)>>) /\ session' = [session EXCEPT ![t] = Begin]
       /\ matched' = (matched \/ (t = events /\ status = TerminalMatch))
       /\ UNCHANGED <<window, kind, quit, target, daemon, cut, missed>>

(* drive_enroll: a sample, a hint, a failure, or the end.                  *)
HearEnroll(t) ==
    /\ Driving(t) /\ kind[t] = "enroll"
    /\ \/ Goes(t, "drive", <<"hint">>)
       \/ Goes(t, "stop", <<"failed">>)
       \/ Goes(t, "stop", <<"completed">>)
    /\ UNCHANGED <<window, kind, quit, target, session, daemon, past>>

(* The bus ends the stream.                                                *)
StreamEnds(t) ==
    /\ Driving(t)
    /\ Goes(t, "stop", <<>>)
    /\ UNCHANGED <<window, kind, quit, target, session, daemon, past>>

(* Stop, Release and Finished.                                             *)
StopAndRelease(t) ==
    /\ Ready(t, "stop")
    /\ Ends(t, <<"finished">>)
    /\ op' = IF op = t THEN NoTask ELSE op
    /\ UNCHANGED <<window, session, enrolled, past>>

(* The daemon records the print; nobody may be listening any more.         *)
Commit ==
    /\ op # NoTask /\ target[op] \notin enrolled
    /\ enrolled' = enrolled \cup {target[op]} /\ op' = NoTask
    /\ missed' = TRUE
    /\ UNCHANGED <<window, task, matched, cut>>

-----------------------------------------------------------------------------
Click ==
    \/ \E m \in {"verify", "enroll", "keyring"} : SwitchMode(m)
    \/ \E f \in Fingers : RequestDelete(f) \/ \E t \in Tasks : StartEnroll(t, f)
    \/ \E t \in Tasks : StartLogin(t)
    \/ Connect \/ CancelLogin \/ CancelEnroll

Runs(t) == Send(t) \/ SetUp(t) \/ Quit(t) \/ StopAndRelease(t)

Signals(t) ==
    \/ \E status \in Statuses : Hear(t, status)
    \/ HearEnroll(t) \/ StreamEnds(t)

Threads == Commit \/ Connects \/ Deletes \/ Lists

Next ==
    \/ Click \/ TabWorks \/ Poll \/ Threads
    \/ \E t \in Tasks : Runs(t) \/ Signals(t)

Spec == Init /\ [][Next]_vars

-----------------------------------------------------------------------------
Events == Verdicts \cup {"hint", "completed", "finished"}

ThreadStates ==
    [is : {"none", "running", "refresh", "delete", "ok", "error"},
     finger : Fingers \cup {NoFinger}, fingers : SUBSET Fingers]

WindowOK ==
    /\ client \in BOOLEAN /\ tabBusy \in BOOLEAN /\ deletePending \in BOOLEAN
    /\ matched \in BOOLEAN /\ cut \in BOOLEAN /\ missed \in BOOLEAN
    /\ connecting \in ThreadStates /\ list \in ThreadStates
    /\ mode \in {"verify", "enroll", "keyring"}
    /\ screen \in {"disconnected", "ready", "waiting"} \cup Verdicts
    /\ fingers \subseteq Fingers /\ enrolled \subseteq Fingers
    /\ {events, enrollEvents, op} \subseteq Tasks \cup {NoTask}

TasksOK ==
    /\ kind \in [Tasks -> {"login", "enroll"}]
    /\ at \in [Tasks -> {"none", "setup", "drive", "stop"}]
    /\ quit \subseteq Tasks /\ target \in [Tasks -> Fingers \cup {NoFinger}]
    /\ session \in [Tasks -> Sessions]

ChannelsOK ==
    /\ rest \in [Tasks -> Seq(Events)] /\ queue \in [Tasks -> Seq(Events)]
    /\ \A t \in Tasks : Len(queue[t]) <= Cap

TypeOK == WindowOK /\ TasksOK /\ ChannelsOK

(* The window shows one thing, and that is what goes on: a task it follows *)
(* belongs to the mode it is in, which nobody can leave; it waits only for *)
(* a task it follows, unless the bus has cut the task off; and the screen  *)
(* of a login is never open but on a terminal match which that login's own *)
(* task has heard.                                                         *)
ScreenTellsTheTruth ==
    /\ events # NoTask => mode = "verify" /\ client /\ screen = "waiting"
    /\ enrollEvents # NoTask => mode = "enroll" /\ client /\ ~deletePending
    /\ tabBusy => mode = "keyring"
    /\ screen = "waiting" => events # NoTask \/ cut
    /\ screen = "granted" => matched

(* The list of enrolled fingers is the daemon's whenever nothing is under  *)
(* way that will refresh it, although tasks, refreshes and deletes overlap *)
(* and one list takes the place of another; except after a print that no   *)
(* task has reported to the window, and after an error of the list itself. *)
ListIsCurrent ==
    client /\ list = NoThread /\ enrollEvents = NoTask =>
        /\ ~missed => fingers = enrolled
        /\ ~deletePending

(* A task that nobody follows has been told to stop before it waits for a  *)
(* finger: none is left alone with the sensor, however clicks, answers and *)
(* full channels come together.                                            *)
NobodyDrivesAlone ==
    \A t \in Tasks : at[t] \in {"setup", "drive"} => Followed(t) \/ t \in quit

-----------------------------------------------------------------------------
(* Why that is so.                                                         *)

(* Before there is a client nothing else goes on, and connecting is over   *)
(* when there is one.                                                      *)
ConnectInv ==
    /\ connecting # NoThread => ~client
    /\ ~client => /\ op = NoTask /\ list = NoThread /\ ~missed
                  /\ \A t \in Tasks : at[t] = "none"

(* One list or delete at a time is waited for.                             *)
ThreadInv ==
    /\ list.is \in {"none", "refresh", "delete", "ok", "error"}
    /\ list.is = "none" => list = NoThread
    /\ deletePending => list # NoThread
    /\ list.is = "delete" => deletePending

(* What a list says that has not been read, and what has been read.        *)
FingersInv ==
    /\ connecting.is = "ok" => connecting.fingers = enrolled
    /\ list.is = "ok" /\ ~missed => list.fingers = enrolled
    /\ client /\ list = NoThread /\ ~missed => fingers = enrolled

(* A task that is followed still has its end to say, and is of the kind    *)
(* that the window takes it for; a grant in its channel is one it heard.   *)
Saying(t) == Range(queue[t]) \cup Range(rest[t])

ChannelInv ==
    \A t \in Tasks :
        /\ Followed(t) /\ at[t] \in {"setup", "drive"} => Saying(t) \subseteq {"hint"}
        /\ at[t] # "none" /\ t = events => kind[t] = "login"
        /\ at[t] # "none" /\ t = enrollEvents => kind[t] = "enroll"
        /\ t = events /\ "granted" \in Saying(t) => matched

(* What the daemon enrols is a finger, for a task that is still at it.     *)
EnrollInv ==
    /\ \A t \in Tasks : kind[t] = "enroll" => target[t] \in Fingers
    /\ op # NoTask => kind[op] = "enroll" /\ at[op] \in {"drive", "stop"}

IInv ==
    /\ TypeOK /\ ConnectInv /\ ThreadInv /\ FingersInv /\ ChannelInv /\ EnrollInv
    /\ ScreenTellsTheTruth /\ ListIsCurrent /\ NobodyDrivesAlone
=============================================================================
