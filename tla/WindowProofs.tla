---------------------------- MODULE WindowProofs ----------------------------
(***************************************************************************)
(* Proofs about the window and the login session: for any number of tasks  *)
(* and fingers and a channel of any length.  The argument is IInv of       *)
(* module Window; each theorem is about the code cited there.              *)
(***************************************************************************)
EXTENDS Window, TLAPS

USE DEF thread, window, task, daemon, past, vars, Verdicts, Events

-----------------------------------------------------------------------------
(* The session.  Whatever the tries that are allowed, step_status answers  *)
(* Granted only to a terminal match while it waits (session.rs), and a     *)
(* prompt leaves the session as it was.                                    *)
THEOREM GrantsTerminalMatch ==
    ASSUME NEW s, NEW status \in Statuses, NEW max
    PROVE  /\ Step(s, status, max).action = "granted" => status = TerminalMatch /\ s.is = "waiting"
           /\ Step(s, status, max).action = "prompt" => Step(s, status, max).session = s
<1> USE DEF Reply, Ended, Waiting, TerminalMatch
<1>1. CASE s.is # "waiting"
  BY <1>1 DEF Step
<1>2. CASE s.is = "waiting" /\ status.result = "match"
  <2>1. status.done => status = TerminalMatch
    BY <1>2 DEF Statuses
  <2> QED BY <1>2, <2>1 DEF Step
<1>3. CASE s.is = "waiting" /\ status.result = "no-match"
  BY <1>3 DEF Step
<1>4. CASE s.is = "waiting" /\ status.result = "retry"
  BY <1>4 DEF Step
<1>5. CASE s.is = "waiting" /\ status.result \in {"disconnected", "unknown-error"}
  BY <1>5 DEF Step
<1>6. CASE s.is = "waiting" /\ status.result = "garbage"
  BY <1>6 DEF Step
<1> QED BY <1>1, <1>2, <1>3, <1>4, <1>5, <1>6 DEF Statuses, Results

(* The tries, for any policy (AttemptPolicy::new makes one of no tries):   *)
(* only a denial is counted, one at a time; the denial that uses up the    *)
(* last try locks the session, no other status does, and an answer that is *)
(* an error leaves the session waiting with the tries it had.              *)
THEOREM TriesAreCounted ==
    ASSUME NEW asked \in Nat, NEW n \in 0..(MaxTries(asked) - 1), NEW status \in Statuses
    PROVE  LET max == MaxTries(asked)
               reply == Step(Waiting(n), status, max)
           IN /\ \/ reply.session = Waiting(n) /\ reply.action \in {"prompt", "error"}
                 \/ reply.session = Waiting(n + 1) /\ reply.action = "deny"
                 \/ reply.session.is \in {"succeeded", "locked", "failed"}
              /\ reply.action = "deny" <=> status.result = "no-match" /\ n + 1 < max
              /\ reply.session.is = "locked" <=> status.result = "no-match" /\ n + 1 = max
              /\ reply.session.is = "waiting" => reply.session.failures \in 0..(max - 1)
<1> DEFINE max == MaxTries(asked)
           s == Waiting(n)
           reply == Step(s, status, max)
<1>1. max \in Nat \ {0} /\ n \in 0..(max - 1)
  BY DEF MaxTries
<1>2. s.is = "waiting" /\ s.failures = n
  BY DEF Waiting
<1>3. status.result \in Results
  BY DEF Statuses
<1> USE DEF Reply, Ended
<1> HIDE DEF max, s
<1>4. CASE status.result = "no-match"
  <2>1. CASE n + 1 < max
    <3>1. reply = [session |-> Waiting(n + 1), action |-> "deny"]
      BY <1>2, <1>4, <2>1 DEF Step, Allows
    <3>2. Waiting(n + 1).is = "waiting" /\ Waiting(n + 1).failures = n + 1
      BY DEF Waiting
    <3> QED BY <1>1, <1>4, <2>1, <3>1, <3>2 DEF max, s
  <2>2. CASE n + 1 = max
    <3>1. reply = [session |-> Ended("locked"), action |-> "locked"]
      BY <1>1, <1>2, <1>4, <2>2 DEF Step, Allows
    <3> QED BY <1>1, <1>4, <2>2, <3>1 DEF max, s
  <2> QED BY <1>1, <2>1, <2>2
<1>5. CASE status.result \in {"retry", "garbage"} \/ (status.result = "match" /\ ~status.done)
  <2>1. reply.session = s /\ reply.action \in {"prompt", "error"}
    BY <1>2, <1>5 DEF Step
  <2> QED BY <1>1, <1>2, <1>5, <2>1 DEF max, s
<1>6. CASE \/ status.result \in {"disconnected", "unknown-error"}
           \/ status.result = "match" /\ status.done
  <2>1. reply.session.is \in {"succeeded", "failed"} /\ reply.action \in {"granted", "failed"}
    BY <1>2, <1>6 DEF Step
  <2> QED BY <1>1, <1>6, <2>1 DEF max, s
<1> QED BY <1>3, <1>4, <1>5, <1>6 DEF Results

(* A session that has ended answers nothing but an error until it begins   *)
(* anew, whatever the bus still says.                                      *)
THEOREM EndedStaysEnded ==
    ASSUME NEW s, s.is # "waiting", NEW status \in Statuses, NEW max
    PROVE  Step(s, status, max).session = s /\ Step(s, status, max).action = "error"
BY DEF Step, Reply

(* What a login says of an answer that is no prompt ends it, and is a      *)
(* grant only for a grant.                                                 *)
LEMMA EventOf ==
    ASSUME NEW action, action # "prompt"
    PROVE  Event(action) \in Verdicts /\ (Event(action) = "granted" => action = "granted")
BY DEF Event

-----------------------------------------------------------------------------
(* Channels: what is in one after events are put behind it.                *)
LEMMA SaidTwice ==
    ASSUME NEW s \in Seq(Events), NEW u \in Seq(Events)
    PROVE  s \o u \in Seq(Events) /\ Range(s \o u) = Range(s) \cup Range(u)
           /\ Len(s \o u) = Len(s) + Len(u)
<1>1. s \o u \in Seq(Events) /\ Len(s \o u) = Len(s) + Len(u)
  OBVIOUS
<1>2. \A i \in 1..Len(s) : s[i] = (s \o u)[i] /\ i \in 1..Len(s \o u)
  OBVIOUS
<1>3. \A i \in 1..Len(u) : u[i] = (s \o u)[Len(s) + i] /\ Len(s) + i \in 1..Len(s \o u)
  OBVIOUS
<1>4. \A i \in 1..Len(s \o u) : (s \o u)[i] \in Range(s) \cup Range(u)
  <2> TAKE i \in 1..Len(s \o u)
  <2>1. CASE i <= Len(s)
    BY <2>1 DEF Range
  <2>2. CASE i > Len(s)
    <3>1. i - Len(s) \in 1..Len(u) /\ (s \o u)[i] = u[i - Len(s)]
      BY <1>1, <2>2
    <3> QED BY <3>1 DEF Range
  <2> QED BY <2>1, <2>2
<1>5. DOMAIN (s \o u) = 1..Len(s \o u) /\ DOMAIN s = 1..Len(s) /\ DOMAIN u = 1..Len(u)
  OBVIOUS
<1>6. Range(s) \subseteq Range(s \o u)
  BY <1>2, <1>5 DEF Range
<1>7. Range(u) \subseteq Range(s \o u)
  <2> SUFFICES ASSUME NEW i \in 1..Len(u) PROVE u[i] \in Range(s \o u)
    BY <1>5 DEF Range
  <2>1. u[i] = (s \o u)[Len(s) + i] /\ Len(s) + i \in DOMAIN (s \o u)
    BY <1>3, <1>5
  <2> QED BY <2>1 DEF Range
<1>8. Range(s \o u) \subseteq Range(s) \cup Range(u)
  BY <1>4, <1>5 DEF Range
<1> QED BY <1>1, <1>6, <1>7, <1>8

(* A channel with one event has said that one.                             *)
LEMMA SaidOnce ==
    ASSUME NEW e \in Events
    PROVE  <<e>> \in Seq(Events) /\ Range(<<e>>) = {e} /\ Len(<<e>>) = 1
BY DEF Range

(* An empty channel has said nothing.                                      *)
LEMMA SaidNothing == <<>> \in Seq(Events) /\ Range(<<>>) = {} /\ Len(<<>>) = 0
BY DEF Range

(* One more event, behind the others.                                      *)
LEMMA SaidNext ==
    ASSUME NEW s \in Seq(Events), NEW e \in Events
    PROVE  Append(s, e) \in Seq(Events) /\ Range(Append(s, e)) = Range(s) \cup {e}
           /\ Len(Append(s, e)) = Len(s) + 1
<1> DEFINE more == Append(s, e)
<1>1. more \in Seq(Events) /\ Len(more) = Len(s) + 1 /\ DOMAIN more = 1..(Len(s) + 1)
      /\ DOMAIN s = 1..Len(s) /\ Len(s) \in Nat
  OBVIOUS
<1>2. (\A i \in 1..Len(s) : more[i] = s[i]) /\ more[Len(s) + 1] = e
  OBVIOUS
<1> HIDE DEF more
<1>3. Range(s) \subseteq Range(more) /\ e \in Range(more)
  BY <1>1, <1>2 DEF Range
<1>4. Range(more) \subseteq Range(s) \cup {e}
  <2> SUFFICES ASSUME NEW i \in 1..(Len(s) + 1) PROVE more[i] \in Range(s) \cup {e}
    BY <1>1 DEF Range
  <2>1. CASE i = Len(s) + 1
    BY <1>2, <2>1
  <2>2. CASE i \in 1..Len(s)
    BY <1>1, <1>2, <2>2 DEF Range
  <2> QED BY <1>1, <2>1, <2>2
<1>5. Range(more) = Range(s) \cup {e}
  BY <1>3, <1>4
<1> QED BY <1>1, <1>5 DEF more

(* The event that is next, and those that stay.                            *)
LEMMA SaidFirst ==
    ASSUME NEW s \in Seq(Events), s # <<>>
    PROVE  Head(s) \in Range(s) /\ Tail(s) \in Seq(Events) /\ Range(Tail(s)) \subseteq Range(s)
<1>1. Len(s) \in Nat \ {0} /\ Head(s) = s[1] /\ DOMAIN s = 1..Len(s)
  OBVIOUS
<1>2. Tail(s) \in Seq(Events) /\ DOMAIN Tail(s) = 1..(Len(s) - 1)
  BY <1>1
<1>3. \A i \in 1..(Len(s) - 1) : Tail(s)[i] = s[i + 1] /\ i + 1 \in 1..Len(s)
  BY <1>1
<1> QED BY <1>1, <1>2, <1>3 DEF Range

(* What a task says in one go: nothing, or one event.                      *)
Sayings == {<<>>} \cup {<<e>> : e \in Events}

(* A task that goes on says what it says, at once or later, or nothing     *)
(* when nobody listens; no other channel is touched.                       *)
LEMMA GoesSays ==
    ASSUME ChannelsOK, NEW t \in Tasks, NEW label, NEW saying \in Sayings, Goes(t, label, saying)
    PROVE  /\ ChannelsOK' /\ Saying(t)' \subseteq Saying(t) \cup Range(saying)
           /\ \A u \in Tasks \ {t} : queue'[u] = queue[u] /\ rest'[u] = rest[u]
<1>1. saying \in Seq(Events) /\ Range(<<>>) = {} /\ <<>> \in Seq(Events)
  BY SaidNothing, SaidOnce DEF Sayings
<1>2. CASE Followed(t) /\ Len(queue[t]) + Len(saying) <= Cap
  <2> DEFINE both == queue[t] \o saying
  <2>1. queue' = [queue EXCEPT ![t] = both] /\ rest' = rest
    BY <1>2 DEF Goes
  <2>2. both \in Seq(Events) /\ Range(both) = Range(queue[t]) \cup Range(saying) /\ Len(both) <= Cap
    BY <1>1, <1>2, SaidTwice DEF ChannelsOK
  <2> HIDE DEF both
  <2> QED BY <2>1, <2>2 DEF ChannelsOK, Saying
<1>3. CASE ~(Followed(t) /\ Len(queue[t]) + Len(saying) <= Cap)
  <2> DEFINE later == IF Followed(t) THEN saying ELSE <<>>
  <2>1. rest' = [rest EXCEPT ![t] = later] /\ queue' = queue
    BY <1>3 DEF Goes
  <2>2. later \in Seq(Events) /\ Range(later) \subseteq Range(saying)
    BY <1>1
  <2> HIDE DEF later
  <2> QED BY <2>1, <2>2 DEF ChannelsOK, Saying
<1> QED BY <1>2, <1>3

(* A waiting send moves its event into the channel or drops it.            *)
LEMMA SendSays ==
    ASSUME ChannelsOK, WindowAssumption, NEW t \in Tasks, Send(t)
    PROVE  /\ ChannelsOK' /\ Saying(t)' \subseteq Saying(t)
           /\ \A u \in Tasks \ {t} : queue'[u] = queue[u] /\ rest'[u] = rest[u]
<1> DEFINE first == Head(rest[t])
           more  == Append(queue[t], first)
           later == Tail(rest[t])
<1>1. first \in Range(rest[t]) /\ first \in Events /\ later \in Seq(Events)
      /\ Range(later) \subseteq Range(rest[t])
  BY SaidFirst DEF Send, ChannelsOK
<1>3. /\ more \in Seq(Events) /\ Range(more) = Range(queue[t]) \cup {first}
      /\ Len(more) = Len(queue[t]) + 1
  BY <1>1, SaidNext DEF ChannelsOK
<1>4. queue' = (IF Followed(t) THEN [queue EXCEPT ![t] = more] ELSE queue)
      /\ rest' = [rest EXCEPT ![t] = later] /\ (Followed(t) => Len(queue[t]) < Cap)
  BY DEF Send
<1> HIDE DEF first, more, later
<1>5. ChannelsOK'
  BY <1>1, <1>3, <1>4, WindowAssumption DEF ChannelsOK
<1>6. Saying(t)' \subseteq Saying(t)
  BY <1>1, <1>3, <1>4 DEF ChannelsOK, Saying
<1> QED BY <1>4, <1>5, <1>6 DEF ChannelsOK

-----------------------------------------------------------------------------
(* What the window believes does not change while only tasks move; it      *)
(* remembers a match.                                                      *)
LEMMA WindowStays ==
    ASSUME IInv, UNCHANGED <<window, enrolled, cut, missed>>, matched => matched'
    PROVE  ThreadInv' /\ FingersInv' /\ ScreenTellsTheTruth' /\ ListIsCurrent'
<1>1. ThreadInv'
  BY DEF IInv, ThreadInv, NoThread
<1>2. FingersInv'
  BY DEF IInv, FingersInv, NoThread
<1>3. ScreenTellsTheTruth'
  BY DEF IInv, ScreenTellsTheTruth
<1>4. ListIsCurrent'
  BY DEF IInv, ListIsCurrent, NoThread
<1> QED BY <1>1, <1>2, <1>3, <1>4

(* A task goes to its next place.                                          *)
LEMMA TaskGoes ==
    ASSUME IInv, NEW t \in Tasks, at[t] # "none",
           NEW label \in {"none", "drive", "stop"}, NEW saying \in Sayings,
           Goes(t, label, saying), UNCHANGED <<events, enrollEvents>>,
           matched => matched',
           label = "drive" => at[t] # "stop" /\ Range(saying) \subseteq {"hint"},
           "granted" \in Range(saying) /\ t = events => matched',
           label # "none" => UNCHANGED <<kind, quit>>,
           \A u \in Tasks \ {t} : kind'[u] = kind[u] /\ (u \in quit => u \in quit')
    PROVE  ChannelsOK' /\ ChannelInv' /\ NobodyDrivesAlone'
           /\ at' \in [Tasks -> {"none", "setup", "drive", "stop"}]
           /\ (\A u \in Tasks \ {t} : at'[u] = at[u]) /\ at'[t] = label
<1>1. /\ ChannelsOK' /\ Saying(t)' \subseteq Saying(t) \cup Range(saying)
      /\ \A u \in Tasks \ {t} : queue'[u] = queue[u] /\ rest'[u] = rest[u]
  BY GoesSays DEF IInv, TypeOK
<1>2. /\ at' \in [Tasks -> {"none", "setup", "drive", "stop"}]
      /\ (\A u \in Tasks \ {t} : at'[u] = at[u]) /\ at'[t] = label
  BY DEF Goes, IInv, TypeOK, TasksOK
<1>3. ChannelInv'
  <2>1. ASSUME NEW u \in Tasks \ {t}
        PROVE  /\ Followed(u)' /\ at'[u] \in {"setup", "drive"} => Saying(u)' \subseteq {"hint"}
               /\ at'[u] # "none" /\ u = events' => kind'[u] = "login"
               /\ at'[u] # "none" /\ u = enrollEvents' => kind'[u] = "enroll"
               /\ u = events' /\ "granted" \in Saying(u)' => matched'
    <3>1. Saying(u)' = Saying(u) /\ (Followed(u)' <=> Followed(u))
      BY <1>1 DEF Saying, Followed
    <3> QED BY <1>2, <3>1 DEF IInv, ChannelInv
  <2>2. /\ Followed(t)' /\ at'[t] \in {"setup", "drive"} => Saying(t)' \subseteq {"hint"}
        /\ at'[t] # "none" /\ t = events' => kind'[t] = "login"
        /\ at'[t] # "none" /\ t = enrollEvents' => kind'[t] = "enroll"
        /\ t = events' /\ "granted" \in Saying(t)' => matched'
    <3>1. Followed(t)' <=> Followed(t)
      BY DEF Followed
    <3>2. at[t] \in {"setup", "drive", "stop"}
      BY DEF IInv, TypeOK, TasksOK
    <3> QED BY <1>1, <1>2, <3>1, <3>2 DEF IInv, ChannelInv
  <2> QED BY <2>1, <2>2 DEF ChannelInv
<1>4. NobodyDrivesAlone'
  <2>1. at[t] \in {"setup", "drive", "stop"}
    BY DEF IInv, TypeOK, TasksOK
  <2> QED BY <1>2, <2>1 DEF IInv, NobodyDrivesAlone, Followed
<1> QED BY <1>1, <1>2, <1>3, <1>4

(* What a task does by itself or hears.                                    *)
LEMMA TaskStep == ASSUME IInv, NEW t \in Tasks, Runs(t) \/ Signals(t) PROVE IInv'
<1> USE WindowAssumption
<1>0. <<>> \in Sayings /\ Range(<<>>) = {} /\ (\A e \in Events : <<e>> \in Sayings /\ Range(<<e>>) = {e})
  BY SaidNothing, SaidOnce DEF Sayings
<1>1. CASE Send(t)
  <2>1. /\ ChannelsOK' /\ Saying(t)' \subseteq Saying(t)
        /\ \A u \in Tasks \ {t} : queue'[u] = queue[u] /\ rest'[u] = rest[u]
    BY <1>1, SendSays DEF IInv, TypeOK
  <2>2. UNCHANGED <<window, kind, at, quit, target, session, daemon, past>>
    BY <1>1 DEF Send
  <2>3. ThreadInv' /\ FingersInv' /\ ScreenTellsTheTruth' /\ ListIsCurrent'
    BY <2>2, WindowStays
  <2>4. WindowOK' /\ TasksOK'
    BY <2>2 DEF IInv, TypeOK, WindowOK, TasksOK
  <2>5. ConnectInv'
    BY <2>2 DEF IInv, ConnectInv, NoThread
  <2>6. ChannelInv'
    <3>1. \A u \in Tasks : Saying(u)' \subseteq Saying(u)
      BY <2>1 DEF Saying
    <3> QED BY <2>2, <3>1 DEF IInv, ChannelInv, Followed
  <2>7. NobodyDrivesAlone' /\ EnrollInv'
    BY <2>2 DEF IInv, NobodyDrivesAlone, Followed, EnrollInv
  <2> QED BY <2>1, <2>3, <2>4, <2>5, <2>6, <2>7 DEF IInv, TypeOK
<1>2. ASSUME NEW label \in {"none", "drive", "stop"}, NEW saying \in Sayings,
             at[t] # "none", Goes(t, label, saying),
             UNCHANGED <<window, enrolled, cut, missed>>,
             matched' \in BOOLEAN, matched => matched',
             label = "drive" => at[t] # "stop" /\ Range(saying) \subseteq {"hint"},
             "granted" \in Range(saying) /\ t = events => matched',
             label # "none" => UNCHANGED <<kind, quit, target>>,
             label = "none" => /\ quit' = quit \ {t} /\ kind' = [kind EXCEPT ![t] = "login"]
                               /\ target' = [target EXCEPT ![t] = NoFinger],
             op' \in {op, NoTask, t}, session' \in [Tasks -> Sessions],
             op' = t => label # "none" /\ kind[t] = "enroll"
      PROVE  IInv'
  <2>1. \A u \in Tasks \ {t} : kind'[u] = kind[u] /\ (u \in quit => u \in quit')
    BY <1>2 DEF IInv, TypeOK, TasksOK
  <2>2. /\ ChannelsOK' /\ ChannelInv' /\ NobodyDrivesAlone'
        /\ at' \in [Tasks -> {"none", "setup", "drive", "stop"}]
        /\ (\A u \in Tasks \ {t} : at'[u] = at[u]) /\ at'[t] = label
    BY <1>2, <2>1, TaskGoes
  <2>3. ThreadInv' /\ FingersInv' /\ ScreenTellsTheTruth' /\ ListIsCurrent'
    BY <1>2, WindowStays
  <2>4. WindowOK'
    BY <1>2 DEF IInv, TypeOK, WindowOK
  <2>5. TasksOK'
    BY <1>2, <2>2 DEF IInv, TypeOK, TasksOK
  <2>6. ConnectInv'
    BY <1>2 DEF IInv, ConnectInv, NoThread
  <2>7. EnrollInv'
    <3>1. op \in Tasks \cup {NoTask}
      BY DEF IInv, TypeOK, WindowOK
    <3>2. /\ \A u \in Tasks \ {t} : kind'[u] = kind[u] /\ target'[u] = target[u]
          /\ label # "none" => kind'[t] = kind[t] /\ target'[t] = target[t]
          /\ label = "none" => kind'[t] = "login"
      BY <1>2 DEF IInv, TypeOK, TasksOK
    <3> QED BY <1>2, <2>2, <3>1, <3>2 DEF IInv, EnrollInv
  <2> QED BY <2>2, <2>3, <2>4, <2>5, <2>6, <2>7 DEF IInv, TypeOK
<1>3. session \in [Tasks -> Sessions] /\ matched \in BOOLEAN
  BY DEF IInv, TypeOK, TasksOK, WindowOK
<1>4. op = t => kind[t] = "enroll" /\ at[t] \in {"drive", "stop"}
  BY DEF IInv, EnrollInv
<1>5. CASE SetUp(t)
  <2>1. CASE Goes(t, "drive", <<>>) /\ op' = (IF kind[t] = "enroll" THEN t ELSE op) /\ UNCHANGED <<quit, kind, target>>
    BY <1>0, <1>2, <1>3, <1>4, <1>5, <2>1 DEF SetUp, Ready
  <2>2. CASE Ends(t, <<"failed">>) /\ UNCHANGED op
    BY <1>0, <1>2, <1>3, <1>4, <1>5, <2>2 DEF SetUp, Ready, Ends
  <2> QED BY <1>5, <2>1, <2>2 DEF SetUp
<1>6. CASE Quit(t)
  BY <1>0, <1>2, <1>3, <1>4, <1>6 DEF Quit, Ready
<1>7. CASE StopAndRelease(t)
  BY <1>0, <1>2, <1>3, <1>4, <1>7 DEF StopAndRelease, Ready, Ends
<1>8. CASE StreamEnds(t)
  BY <1>0, <1>2, <1>3, <1>4, <1>8 DEF StreamEnds, Driving, Ready
<1>9. CASE HearEnroll(t)
  <2>1. CASE Goes(t, "drive", <<"hint">>)
    BY <1>0, <1>2, <1>3, <1>4, <1>9, <2>1 DEF HearEnroll, Driving, Ready
  <2>2. CASE Goes(t, "stop", <<"failed">>)
    BY <1>0, <1>2, <1>3, <1>4, <1>9, <2>2 DEF HearEnroll, Driving, Ready
  <2>3. CASE Goes(t, "stop", <<"completed">>)
    BY <1>0, <1>2, <1>3, <1>4, <1>9, <2>3 DEF HearEnroll, Driving, Ready
  <2> QED BY <1>9, <2>1, <2>2, <2>3 DEF HearEnroll
<1>10. ASSUME NEW status \in Statuses, Hear(t, status) PROVE IInv'
  <2> DEFINE reply == Step(session[t], status, PamDefault)
             said  == Event(reply.action)
  <2>1. /\ Driving(t) /\ matched' = (matched \/ (t = events /\ status = TerminalMatch))
        /\ UNCHANGED <<window, kind, quit, target, daemon, cut, missed>>
    BY <1>10 DEF Hear
  <2>2. matched' \in BOOLEAN /\ (matched => matched')
    BY <2>1, Zenon
  <2>3. CASE reply.action = "prompt"
    <3>1. Goes(t, "drive", <<"hint">>) /\ session' = [session EXCEPT ![t] = reply.session]
      BY <1>10, <2>3 DEF Hear
    <3>2. reply.session \in Sessions
      BY <1>3, <2>3, GrantsTerminalMatch
    <3> HIDE DEF reply
    <3>3. session' \in [Tasks -> Sessions]
      BY <1>3, <3>1, <3>2
    <3> QED BY <1>0, <1>2, <1>4, <2>1, <2>2, <3>1, <3>3 DEF Driving, Ready
  <2>4. CASE reply.action # "prompt"
    <3>1. Goes(t, "stop", <<said>>) /\ session' = [session EXCEPT ![t] = Begin]
      BY <1>10, <2>4 DEF Hear
    <3>2. said \in Events /\ (said = "granted" => status = TerminalMatch)
      BY <2>4, GrantsTerminalMatch, EventOf
    <3>3. Begin \in Sessions
      BY DEF Begin, Sessions, Waiting, PamDefault, MaxTries
    <3> HIDE DEF reply, said
    <3>4. session' \in [Tasks -> Sessions]
      BY <1>3, <3>1, <3>3
    <3>5. "granted" \in Range(<<said>>) /\ t = events => matched'
      BY <1>0, <2>1, <3>2
    <3> QED BY <1>0, <1>2, <1>4, <2>1, <2>2, <3>1, <3>2, <3>4, <3>5 DEF Driving, Ready
  <2> QED BY <2>3, <2>4
<1> QED BY <1>1, <1>5, <1>6, <1>7, <1>8, <1>9, <1>10 DEF Runs, Signals

-----------------------------------------------------------------------------
(* The tasks stay as they are while the window does something else.        *)
LEMMA TasksStay ==
    ASSUME IInv, UNCHANGED <<task, events, enrollEvents, matched>>
    PROVE  TasksOK' /\ ChannelsOK' /\ ChannelInv' /\ NobodyDrivesAlone'
<1>1. TasksOK' /\ ChannelsOK'
  BY DEF IInv, TypeOK, TasksOK, ChannelsOK
<1>2. ChannelInv' /\ NobodyDrivesAlone'
  BY DEF IInv, ChannelInv, NobodyDrivesAlone, Followed, Saying
<1> QED BY <1>1, <1>2

(* The clicks that start no task and stop none, the threads, and a print   *)
(* that the daemon records.                                                *)
LEMMA OtherStep ==
    ASSUME IInv,
           \/ \E m \in {"verify", "enroll", "keyring"} : SwitchMode(m)
           \/ \E f \in Fingers : RequestDelete(f)
           \/ Connect \/ TabWorks \/ Threads \/ UNCHANGED vars
    PROVE  IInv'
<1> USE WindowAssumption DEF NoThread, Thread, Listed, Failing, ThreadStates
<1>0. IInv
  OBVIOUS
<1>1. ASSUME NEW m \in {"verify", "enroll", "keyring"}, SwitchMode(m) PROVE IInv'
  <2>0. TasksOK' /\ ChannelsOK' /\ ChannelInv' /\ NobodyDrivesAlone'
    BY <1>1, TasksStay DEF SwitchMode
  <2>1. WindowOK'
    BY <1>1 DEF SwitchMode, IInv, TypeOK, WindowOK
  <2>2. ConnectInv'
    BY <1>1 DEF SwitchMode, IInv, TypeOK, WindowOK, ConnectInv, ScreenTellsTheTruth
  <2>3. ThreadInv'
    BY <1>1 DEF SwitchMode, IInv, TypeOK, WindowOK, ThreadInv, ScreenTellsTheTruth
  <2>4. FingersInv'
    BY <1>1 DEF SwitchMode, IInv, TypeOK, WindowOK, FingersInv, ConnectInv, ThreadInv
  <2>5. ScreenTellsTheTruth'
    BY <1>1 DEF SwitchMode, IInv, TypeOK, WindowOK, ScreenTellsTheTruth
  <2>6. ListIsCurrent'
    BY <1>1 DEF SwitchMode, IInv, TypeOK, WindowOK, ListIsCurrent, FingersInv, ThreadInv, ConnectInv
  <2>7. EnrollInv'
    BY <1>1 DEF SwitchMode, IInv, TypeOK, WindowOK, TasksOK, EnrollInv
  <2> QED BY <2>0, <2>1, <2>2, <2>3, <2>4, <2>5, <2>6, <2>7 DEF IInv, TypeOK
<1>2. ASSUME NEW f \in Fingers, RequestDelete(f) PROVE IInv'
  <2>0. TasksOK' /\ ChannelsOK' /\ ChannelInv' /\ NobodyDrivesAlone'
    BY <1>2, TasksStay DEF RequestDelete, EnrollBusy
  <2>1. WindowOK'
    BY <1>2 DEF RequestDelete, EnrollBusy, IInv, TypeOK, WindowOK
  <2>2. ConnectInv'
    BY <1>2 DEF RequestDelete, EnrollBusy, IInv, TypeOK, WindowOK, ConnectInv, ScreenTellsTheTruth
  <2>3. ThreadInv'
    BY <1>2 DEF RequestDelete, EnrollBusy, IInv, TypeOK, WindowOK, ThreadInv, ScreenTellsTheTruth
  <2>4. FingersInv'
    BY <1>2 DEF RequestDelete, EnrollBusy, IInv, TypeOK, WindowOK, FingersInv, ConnectInv, ThreadInv
  <2>5. ScreenTellsTheTruth'
    BY <1>2 DEF RequestDelete, EnrollBusy, IInv, TypeOK, WindowOK, ScreenTellsTheTruth
  <2>6. ListIsCurrent'
    BY <1>2 DEF RequestDelete, EnrollBusy, IInv, TypeOK, WindowOK, ListIsCurrent, FingersInv, ThreadInv, ConnectInv
  <2>7. EnrollInv'
    BY <1>2 DEF RequestDelete, EnrollBusy, IInv, TypeOK, WindowOK, TasksOK, EnrollInv
  <2> QED BY <2>0, <2>1, <2>2, <2>3, <2>4, <2>5, <2>6, <2>7 DEF IInv, TypeOK
<1>3. CASE Connect
  <2>0. TasksOK' /\ ChannelsOK' /\ ChannelInv' /\ NobodyDrivesAlone'
    BY <1>3, TasksStay DEF Connect
  <2>1. WindowOK'
    BY <1>3 DEF Connect, IInv, TypeOK, WindowOK
  <2>2. ConnectInv'
    BY <1>3 DEF Connect, IInv, TypeOK, WindowOK, ConnectInv, ScreenTellsTheTruth
  <2>3. ThreadInv'
    BY <1>3 DEF Connect, IInv, TypeOK, WindowOK, ThreadInv, ScreenTellsTheTruth
  <2>4. FingersInv'
    BY <1>3 DEF Connect, IInv, TypeOK, WindowOK, FingersInv, ConnectInv, ThreadInv
  <2>5. ScreenTellsTheTruth'
    BY <1>3 DEF Connect, IInv, TypeOK, WindowOK, ScreenTellsTheTruth
  <2>6. ListIsCurrent'
    BY <1>3 DEF Connect, IInv, TypeOK, WindowOK, ListIsCurrent, FingersInv, ThreadInv, ConnectInv
  <2>7. EnrollInv'
    BY <1>3 DEF Connect, IInv, TypeOK, WindowOK, TasksOK, EnrollInv
  <2> QED BY <2>0, <2>1, <2>2, <2>3, <2>4, <2>5, <2>6, <2>7 DEF IInv, TypeOK
<1>4. CASE TabWorks
  <2>0. TasksOK' /\ ChannelsOK' /\ ChannelInv' /\ NobodyDrivesAlone'
    BY <1>4, TasksStay DEF TabWorks
  <2>1. WindowOK'
    BY <1>4 DEF TabWorks, IInv, TypeOK, WindowOK
  <2>2. ConnectInv'
    BY <1>4 DEF TabWorks, IInv, TypeOK, WindowOK, ConnectInv, ScreenTellsTheTruth
  <2>3. ThreadInv'
    BY <1>4 DEF TabWorks, IInv, TypeOK, WindowOK, ThreadInv, ScreenTellsTheTruth
  <2>4. FingersInv'
    BY <1>4 DEF TabWorks, IInv, TypeOK, WindowOK, FingersInv, ConnectInv, ThreadInv
  <2>5. ScreenTellsTheTruth'
    BY <1>4 DEF TabWorks, IInv, TypeOK, WindowOK, ScreenTellsTheTruth
  <2>6. ListIsCurrent'
    BY <1>4 DEF TabWorks, IInv, TypeOK, WindowOK, ListIsCurrent, FingersInv, ThreadInv, ConnectInv
  <2>7. EnrollInv'
    BY <1>4 DEF TabWorks, IInv, TypeOK, WindowOK, TasksOK, EnrollInv
  <2> QED BY <2>0, <2>1, <2>2, <2>3, <2>4, <2>5, <2>6, <2>7 DEF IInv, TypeOK
<1>5. CASE Commit
  <2>0. TasksOK' /\ ChannelsOK' /\ ChannelInv' /\ NobodyDrivesAlone'
    BY <1>5, TasksStay DEF Commit
  <2>1. WindowOK'
    BY <1>5 DEF Commit, IInv, TypeOK, WindowOK, TasksOK, EnrollInv
  <2>2. ConnectInv'
    BY <1>5 DEF Commit, IInv, TypeOK, WindowOK, ConnectInv, ScreenTellsTheTruth
  <2>3. ThreadInv'
    BY <1>5 DEF Commit, IInv, TypeOK, WindowOK, ThreadInv, ScreenTellsTheTruth
  <2>4. FingersInv'
    BY <1>5 DEF Commit, IInv, TypeOK, WindowOK, FingersInv, ConnectInv, ThreadInv
  <2>5. ScreenTellsTheTruth'
    BY <1>5 DEF Commit, IInv, TypeOK, WindowOK, ScreenTellsTheTruth
  <2>6. ListIsCurrent'
    BY <1>5 DEF Commit, IInv, TypeOK, WindowOK, ListIsCurrent, FingersInv, ThreadInv, ConnectInv
  <2>7. EnrollInv'
    BY <1>5 DEF Commit, IInv, TypeOK, WindowOK, TasksOK, EnrollInv
  <2> QED BY <2>0, <2>1, <2>2, <2>3, <2>4, <2>5, <2>6, <2>7 DEF IInv, TypeOK
<1>6. CASE Connects
  <2>0. TasksOK' /\ ChannelsOK' /\ ChannelInv' /\ NobodyDrivesAlone'
    BY <1>6, TasksStay DEF Connects
  <2>1. WindowOK'
    BY <1>6 DEF Connects, IInv, TypeOK, WindowOK
  <2>2. ConnectInv'
    BY <1>6 DEF Connects, IInv, TypeOK, WindowOK, ConnectInv, ScreenTellsTheTruth
  <2>3. ThreadInv'
    BY <1>6 DEF Connects, IInv, TypeOK, WindowOK, ThreadInv, ScreenTellsTheTruth
  <2>4. FingersInv'
    BY <1>6 DEF Connects, IInv, TypeOK, WindowOK, FingersInv, ConnectInv, ThreadInv
  <2>5. ScreenTellsTheTruth'
    BY <1>6 DEF Connects, IInv, TypeOK, WindowOK, ScreenTellsTheTruth
  <2>6. ListIsCurrent'
    BY <1>6 DEF Connects, IInv, TypeOK, WindowOK, ListIsCurrent, FingersInv, ThreadInv, ConnectInv
  <2>7. EnrollInv'
    BY <1>6 DEF Connects, IInv, TypeOK, WindowOK, TasksOK, EnrollInv
  <2> QED BY <2>0, <2>1, <2>2, <2>3, <2>4, <2>5, <2>6, <2>7 DEF IInv, TypeOK
<1>7. CASE Deletes
  <2>0. TasksOK' /\ ChannelsOK' /\ ChannelInv' /\ NobodyDrivesAlone'
    BY <1>7, TasksStay DEF Deletes
  <2>1. WindowOK'
    BY <1>7 DEF Deletes, IInv, TypeOK, WindowOK
  <2>2. ConnectInv'
    BY <1>7 DEF Deletes, IInv, TypeOK, WindowOK, ConnectInv, ScreenTellsTheTruth
  <2>3. ThreadInv'
    BY <1>7 DEF Deletes, IInv, TypeOK, WindowOK, ThreadInv, ScreenTellsTheTruth
  <2>4. FingersInv'
    BY <1>7 DEF Deletes, IInv, TypeOK, WindowOK, FingersInv, ConnectInv, ThreadInv
  <2>5. ScreenTellsTheTruth'
    BY <1>7 DEF Deletes, IInv, TypeOK, WindowOK, ScreenTellsTheTruth
  <2>6. ListIsCurrent'
    BY <1>7 DEF Deletes, IInv, TypeOK, WindowOK, ListIsCurrent, FingersInv, ThreadInv, ConnectInv
  <2>7. EnrollInv'
    BY <1>7 DEF Deletes, IInv, TypeOK, WindowOK, TasksOK, EnrollInv
  <2> QED BY <2>0, <2>1, <2>2, <2>3, <2>4, <2>5, <2>6, <2>7 DEF IInv, TypeOK
<1>8. CASE Lists
  <2>0. TasksOK' /\ ChannelsOK' /\ ChannelInv' /\ NobodyDrivesAlone'
    BY <1>8, TasksStay DEF Lists
  <2>1. WindowOK'
    BY <1>8 DEF Lists, IInv, TypeOK, WindowOK
  <2>2. ConnectInv'
    BY <1>8 DEF Lists, IInv, TypeOK, WindowOK, ConnectInv, ScreenTellsTheTruth
  <2>3. ThreadInv'
    BY <1>8 DEF Lists, IInv, TypeOK, WindowOK, ThreadInv, ScreenTellsTheTruth
  <2>4. FingersInv'
    BY <1>8 DEF Lists, IInv, TypeOK, WindowOK, FingersInv, ConnectInv, ThreadInv
  <2>5. ScreenTellsTheTruth'
    BY <1>8 DEF Lists, IInv, TypeOK, WindowOK, ScreenTellsTheTruth
  <2>6. ListIsCurrent'
    BY <1>8 DEF Lists, IInv, TypeOK, WindowOK, ListIsCurrent, FingersInv, ThreadInv, ConnectInv
  <2>7. EnrollInv'
    BY <1>8 DEF Lists, IInv, TypeOK, WindowOK, TasksOK, EnrollInv
  <2> QED BY <2>0, <2>1, <2>2, <2>3, <2>4, <2>5, <2>6, <2>7 DEF IInv, TypeOK
<1>9. CASE UNCHANGED vars
  <2>0. TasksOK' /\ ChannelsOK' /\ ChannelInv' /\ NobodyDrivesAlone'
    BY <1>9, TasksStay DEF vars
  <2>1. WindowOK'
    BY <1>9 DEF vars, IInv, TypeOK, WindowOK
  <2>2. ConnectInv'
    BY <1>9 DEF vars, IInv, TypeOK, WindowOK, ConnectInv, ScreenTellsTheTruth
  <2>3. ThreadInv'
    BY <1>9 DEF vars, IInv, TypeOK, WindowOK, ThreadInv, ScreenTellsTheTruth
  <2>4. FingersInv'
    BY <1>9 DEF vars, IInv, TypeOK, WindowOK, FingersInv, ConnectInv, ThreadInv
  <2>5. ScreenTellsTheTruth'
    BY <1>9 DEF vars, IInv, TypeOK, WindowOK, ScreenTellsTheTruth
  <2>6. ListIsCurrent'
    BY <1>9 DEF vars, IInv, TypeOK, WindowOK, ListIsCurrent, FingersInv, ThreadInv, ConnectInv
  <2>7. EnrollInv'
    BY <1>9 DEF vars, IInv, TypeOK, WindowOK, TasksOK, EnrollInv
  <2> QED BY <2>0, <2>1, <2>2, <2>3, <2>4, <2>5, <2>6, <2>7 DEF IInv, TypeOK
<1> QED BY <1>1, <1>2, <1>3, <1>4, <1>5, <1>6, <1>7, <1>8, <1>9 DEF Threads

(* A click that starts a task: nothing has been said in its channel.       *)
LEMMA StartStep ==
    ASSUME IInv, NEW t \in Tasks,
           StartLogin(t) \/ \E f \in Fingers : StartEnroll(t, f)
    PROVE  IInv'
<1> USE WindowAssumption DEF NoThread
<1>1. PICK k \in {"login", "enroll"}, f \in Fingers \cup {NoFinger} :
         Spawn(t, k, f) /\ (k = "enroll" => f \in Fingers)
         /\ (k = "login" <=> StartLogin(t)) /\ (k = "enroll" => StartEnroll(t, f))
  BY DEF StartLogin, StartEnroll, Spawn
<1>2. /\ kind' = [kind EXCEPT ![t] = k] /\ target' = [target EXCEPT ![t] = f]
      /\ session' = [session EXCEPT ![t] = Begin] /\ at' = [at EXCEPT ![t] = "setup"]
      /\ queue' = [queue EXCEPT ![t] = IF k = "login" THEN <<"hint">> ELSE <<>>]
      /\ quit' = quit \ {t} /\ UNCHANGED <<rest, op, enrolled>>
      /\ at[t] = "none" /\ rest[t] = <<>>
  BY <1>1 DEF Spawn, Free
<1>3. /\ ~Followed(t) /\ Followed(t)'
      /\ events # NoTask => events' = events
      /\ enrollEvents # NoTask => enrollEvents' = enrollEvents
      /\ k = "login" => t = events' /\ t # enrollEvents'
      /\ k = "enroll" => t = enrollEvents' /\ t # events'
  BY <1>1 DEF Spawn, StartLogin, StartEnroll, EnrollBusy, Followed
<1>4. TasksOK'
  <2>1. Begin \in Sessions
    BY DEF Begin, Sessions, Waiting, PamDefault, MaxTries
  <2> QED BY <1>2, <2>1 DEF IInv, TypeOK, TasksOK
<1>5. ChannelsOK' /\ Saying(t)' \subseteq {"hint"}
      /\ (\A u \in Tasks \ {t} : Saying(u)' = Saying(u))
  <2> DEFINE first == IF k = "login" THEN <<"hint">> ELSE <<>>
  <2>1. first \in Seq(Events) /\ Range(first) \subseteq {"hint"} /\ Len(first) <= Cap
    <3>1. CASE k = "login"
      BY <3>1, SaidOnce, WindowAssumption
    <3>2. CASE k = "enroll"
      BY <3>2, SaidNothing, WindowAssumption
    <3> QED BY <3>1, <3>2
  <2>2. Range(<<>>) = {}
    BY SaidNothing
  <2>3. queue' = [queue EXCEPT ![t] = first] /\ rest' = rest /\ rest[t] = <<>>
    BY <1>2
  <2> HIDE DEF first
  <2> QED BY <2>1, <2>2, <2>3 DEF IInv, TypeOK, ChannelsOK, Saying
<1>6. \A u \in Tasks \ {t} :
         at'[u] = at[u] /\ kind'[u] = kind[u] /\ target'[u] = target[u] /\ (u \in quit => u \in quit')
  BY <1>2 DEF IInv, TypeOK, TasksOK
<1>7. at'[t] = "setup" /\ kind'[t] = k /\ target'[t] = f
  BY <1>2 DEF IInv, TypeOK, TasksOK
<1>8. WindowOK'
  <2>1. CASE StartLogin(t)
    <3>1. matched' \in BOOLEAN /\ cut' \in BOOLEAN
      BY <2>1, Zenon DEF StartLogin
    <3> QED BY <1>2, <2>1, <3>1 DEF StartLogin, IInv, TypeOK, WindowOK
  <2>2. CASE StartEnroll(t, f)
    BY <1>2, <2>2 DEF StartEnroll, IInv, TypeOK, WindowOK
  <2> QED BY <1>1, <2>1, <2>2
<1>9. UNCHANGED <<client, mode, tabBusy, fingers, connecting, deletePending, list, missed, enrolled, op>> /\ client
  BY <1>1, <1>2 DEF StartLogin, StartEnroll
<1>10. ConnectInv' /\ ThreadInv' /\ FingersInv'
  BY <1>9 DEF IInv, ConnectInv, ThreadInv, FingersInv
<1>11. EnrollInv'
  <2>1. op # t /\ op \in Tasks \cup {NoTask}
    BY <1>2 DEF IInv, EnrollInv, TypeOK, WindowOK
  <2> QED BY <1>1, <1>6, <1>7, <1>9, <2>1 DEF IInv, EnrollInv
<1>12. ScreenTellsTheTruth'
  <2>1. CASE StartLogin(t)
    BY <2>1 DEF StartLogin, IInv, ScreenTellsTheTruth
  <2>2. CASE StartEnroll(t, f)
    BY <2>2 DEF StartEnroll, EnrollBusy, IInv, ScreenTellsTheTruth
  <2> QED BY <1>1, <2>1, <2>2
<1>13. ListIsCurrent'
  BY <1>10, <1>9 DEF FingersInv, ListIsCurrent, ThreadInv
<1>14. NobodyDrivesAlone'
  BY <1>3, <1>6 DEF Followed, IInv, NobodyDrivesAlone
<1>15. ChannelInv'
  <2>1. ASSUME NEW u \in Tasks \ {t}
        PROVE  /\ Followed(u)' /\ at'[u] \in {"setup", "drive"} => Saying(u)' \subseteq {"hint"}
               /\ at'[u] # "none" /\ u = events' => kind'[u] = "login"
               /\ at'[u] # "none" /\ u = enrollEvents' => kind'[u] = "enroll"
               /\ u = events' /\ "granted" \in Saying(u)' => matched'
    <3>1. (Followed(u)' => Followed(u)) /\ (u = events' => u = events) /\ (u = enrollEvents' => u = enrollEvents)
      BY <1>1, <1>3 DEF Followed, StartLogin, StartEnroll
    <3>2. u = events' => matched' = matched
      BY <1>1, <1>3 DEF StartLogin, StartEnroll
    <3> QED BY <1>5, <1>6, <3>1, <3>2 DEF IInv, ChannelInv
  <2>2. /\ Saying(t)' \subseteq {"hint"}
        /\ t = events' => kind'[t] = "login"
        /\ t = enrollEvents' => kind'[t] = "enroll"
    BY <1>3, <1>5, <1>7
  <2> QED BY <2>1, <2>2 DEF ChannelInv
<1> QED BY <1>4, <1>5, <1>8, <1>10, <1>11, <1>12, <1>13, <1>14, <1>15 DEF IInv, TypeOK

(* A click that lets go of a task: it is told, and nobody reads it.        *)
LEMMA CancelStep == ASSUME IInv, CancelLogin \/ CancelEnroll PROVE IInv'
<1> USE WindowAssumption DEF NoThread
<1>1. PICK t \in Tasks \cup {NoTask} :
         /\ Unfollow(t) /\ quit' = quit \cup ({t} \ {NoTask})
         /\ \/ CancelLogin /\ t = events
            \/ CancelEnroll /\ t = enrollEvents /\ t # NoTask
  BY DEF CancelLogin, CancelEnroll, IInv, TypeOK, WindowOK
<1>2. UNCHANGED <<client, mode, tabBusy, fingers, connecting, deletePending, list, missed,
                  kind, at, rest, target, session, op, enrolled>>
  BY <1>1 DEF CancelLogin, CancelEnroll
<1>3. \A u \in Tasks : (Followed(u)' => Followed(u)) /\ (u # t => Followed(u)' = Followed(u))
                        /\ (u = events' => u = events) /\ (u = enrollEvents' => u = enrollEvents)
  BY <1>1 DEF CancelLogin, CancelEnroll, Followed, IInv, ScreenTellsTheTruth
<1>4. TasksOK'
  BY <1>1, <1>2 DEF IInv, TypeOK, TasksOK
<1>5. ChannelsOK' /\ (\A u \in Tasks : Saying(u)' \subseteq Saying(u))
  BY <1>1, <1>2, SaidNothing DEF IInv, TypeOK, ChannelsOK, Unfollow, Saying
<1>6. WindowOK'
  <2>1. matched' \in BOOLEAN /\ cut' \in BOOLEAN
    BY <1>1, Zenon DEF CancelLogin, CancelEnroll, IInv, TypeOK, WindowOK
  <2> QED BY <1>1, <1>2, <2>1 DEF CancelLogin, CancelEnroll, IInv, TypeOK, WindowOK
<1>7. ConnectInv' /\ ThreadInv' /\ FingersInv' /\ EnrollInv'
  BY <1>2 DEF IInv, ConnectInv, ThreadInv, FingersInv, EnrollInv
<1>8. ScreenTellsTheTruth'
  BY <1>1 DEF CancelLogin, CancelEnroll, IInv, ScreenTellsTheTruth
<1>9. ListIsCurrent'
  BY <1>2, <1>7 DEF FingersInv, ListIsCurrent, ThreadInv
<1>10. NobodyDrivesAlone'
  BY <1>1, <1>2, <1>3 DEF IInv, NobodyDrivesAlone
<1>11. ChannelInv'
  <2>1. \A u \in Tasks : u = events' => matched' = matched
    BY <1>1 DEF CancelLogin, CancelEnroll
  <2> QED BY <1>2, <1>3, <1>5, <2>1 DEF IInv, ChannelInv
<1> QED BY <1>4, <1>5, <1>6, <1>7, <1>8, <1>9, <1>10, <1>11 DEF IInv, TypeOK

(* The window reads all that has come.                                     *)
LEMMA PollStep == ASSUME IInv, Poll PROVE IInv'
<1> USE WindowAssumption
<1>1. /\ UNCHANGED <<mode, tabBusy, kind, at, rest, quit, target, session, op, enrolled, matched>>
      /\ events' = (IF LoginDone THEN NoTask ELSE events)
      /\ enrollEvents' = (IF EnrollDone THEN NoTask ELSE enrollEvents)
  BY DEF Poll
(* What was in the channels.                                               *)
<1>2. \A t \in Tasks : Followed(t) /\ at[t] \in {"setup", "drive"} =>
         (t = events => ~LoginDone) /\ (t = enrollEvents => ~EnrollDone)
  BY DEF IInv, ChannelInv, Saying, Said, LoginDone, EnrollDone
<1>3. "granted" \in Said(events) => matched
  BY DEF IInv, TypeOK, WindowOK, ChannelInv, Saying, Said
<1>4. Completed => enrollEvents # NoTask /\ client
  BY DEF Completed, Said, IInv, ScreenTellsTheTruth
<1>5. \/ PollScreen = screen /\ connecting.is \notin {"ok", "error"} /\ Said(events) \cap Verdicts = {}
      \/ PollScreen = "ready" /\ connecting.is = "ok"
      \/ PollScreen = "disconnected" /\ connecting.is = "error"
      \/ PollScreen \in Said(events) \cap Verdicts /\ connecting.is \notin {"ok", "error"}
  <2>1. CASE connecting.is \in {"ok", "error"}
    BY <2>1 DEF PollScreen
  <2>2. CASE connecting.is \notin {"ok", "error"} /\ Said(events) \cap Verdicts = {}
    BY <2>2 DEF PollScreen
  <2>3. CASE connecting.is \notin {"ok", "error"} /\ Said(events) \cap Verdicts # {}
    <3>1. PICK v \in Said(events) : v \in Verdicts
      BY <2>3
    <3>2. PollScreen = CHOOSE w \in Said(events) : w \in Verdicts
      BY <2>3 DEF PollScreen
    <3> QED BY <2>3, <3>1, <3>2
  <2> QED BY <2>1, <2>2, <2>3
<1>6. connecting.is \in {"ok", "error"} => ~client /\ events = NoTask /\ enrollEvents = NoTask
  BY DEF IInv, ConnectInv, NoThread, ScreenTellsTheTruth
<1>7. ~client => ~Completed /\ ~ListAnswered /\ list = NoThread
  BY <1>4 DEF IInv, ConnectInv, NoThread, ListAnswered
(* The invariant.                                                          *)
<1>8. TasksOK' /\ EnrollInv'
  BY <1>1 DEF IInv, TypeOK, TasksOK, EnrollInv
<1>9. ChannelsOK' /\ (\A t \in Tasks : Saying(t)' \subseteq Saying(t))
  BY <1>1, SaidNothing DEF Poll, IInv, TypeOK, ChannelsOK, Saying
<1>10. ChannelInv'
  BY <1>1, <1>9 DEF IInv, ChannelInv, Followed
<1>11. NobodyDrivesAlone'
  BY <1>1, <1>2 DEF IInv, NobodyDrivesAlone, Followed
<1>12. WindowOK'
  <2>1. client' \in BOOLEAN /\ deletePending' \in BOOLEAN /\ cut' \in BOOLEAN
        /\ missed' \in BOOLEAN
    BY Zenon DEF Poll
  <2>2. tabBusy' \in BOOLEAN /\ matched' \in BOOLEAN
    BY <1>1, Zenon DEF IInv, TypeOK, WindowOK
  <2>3. connecting' \in ThreadStates /\ list' \in ThreadStates
    BY DEF Poll, IInv, TypeOK, WindowOK, NoThread, Thread, ThreadStates
  <2>4. screen' \in {"disconnected", "ready", "waiting"} \cup Verdicts
    BY <1>5 DEF Poll, IInv, TypeOK, WindowOK
  <2>5. fingers' \subseteq Fingers
    BY DEF Poll, PollFingers, IInv, TypeOK, WindowOK, ThreadStates
  <2> QED BY <1>1, <2>1, <2>2, <2>3, <2>4, <2>5 DEF IInv, TypeOK, WindowOK
<1>13. ConnectInv'
  BY <1>1, <1>6, <1>7 DEF Poll, Refresh, IInv, ConnectInv, NoThread
<1>14. ThreadInv'
  BY <1>1 DEF Poll, Refresh, ListAnswered, Thread, IInv, ThreadInv, NoThread
<1>15. FingersInv'
  <2>1. connecting'.is # "ok"
    BY DEF Poll, NoThread
  <2>2. list'.is # "ok"
    BY DEF Poll, Refresh, ListAnswered, Thread, NoThread
  <2>3. ASSUME client', list' = NoThread, ~missed' PROVE fingers' = enrolled
    <3>1. ~Completed
      BY <2>3 DEF Poll, Refresh, Thread, NoThread
    <3>2. ~missed \/ fingers' = enrolled
      BY <2>3, <3>1, Zenon DEF Poll
    <3>3. CASE connecting.is = "ok"
      BY <3>3 DEF Poll, PollFingers, IInv, FingersInv
    <3>4. CASE connecting.is # "ok" /\ ListAnswered /\ ~missed
      <4>1. list.is = "ok"
        BY <2>3, <3>4 DEF Poll, ListAnswered
      <4> QED BY <3>4, <4>1 DEF Poll, PollFingers, IInv, FingersInv
    <3>5. CASE connecting.is # "ok" /\ ~ListAnswered /\ ~missed
      <4>1. list = NoThread /\ client /\ fingers' = fingers
        BY <2>3, <3>1, <3>5 DEF Poll, PollFingers, Refresh
      <4> QED BY <3>5, <4>1 DEF IInv, FingersInv
    <3> QED BY <3>2, <3>3, <3>4, <3>5
  <2> QED BY <1>1, <2>1, <2>2, <2>3 DEF FingersInv
<1>16. ListIsCurrent'
  BY <1>14, <1>15 DEF FingersInv, ThreadInv, ListIsCurrent
<1>17. ScreenTellsTheTruth'
  <2>1. events' # NoTask => mode' = "verify" /\ client' /\ screen' = "waiting"
    BY <1>1, <1>5, <1>6 DEF Poll, LoginDone, IInv, ScreenTellsTheTruth
  <2>2. enrollEvents' # NoTask => mode' = "enroll" /\ client' /\ ~deletePending'
    BY <1>1 DEF Poll, IInv, ScreenTellsTheTruth
  <2>3. screen' = "waiting" => events' # NoTask \/ cut'
    <3>1. screen' = "waiting" => screen = "waiting" /\ Said(events) \cap Verdicts = {}
      BY <1>5 DEF Poll
    <3> QED BY <1>1, <3>1, Zenon DEF Poll, IInv, ScreenTellsTheTruth
  <2>4. screen' = "granted" => matched'
    BY <1>1, <1>3, <1>5 DEF Poll, IInv, ScreenTellsTheTruth
  <2> QED BY <1>1, <2>1, <2>2, <2>3, <2>4 DEF IInv, ScreenTellsTheTruth
<1> QED BY <1>8, <1>9, <1>10, <1>11, <1>12, <1>13, <1>14, <1>15, <1>16, <1>17 DEF IInv, TypeOK

-----------------------------------------------------------------------------
(* A window that has just opened follows nothing and knows nothing.        *)
LEMMA InitInv == Init => IInv
<1> SUFFICES ASSUME Init PROVE IInv
  OBVIOUS
<1> USE WindowAssumption DEF Init, NoThread
<1>1. WindowOK
  <2>1. client \in BOOLEAN /\ tabBusy \in BOOLEAN /\ deletePending \in BOOLEAN
        /\ matched \in BOOLEAN /\ cut \in BOOLEAN /\ missed \in BOOLEAN
    BY Zenon
  <2> QED BY <2>1 DEF WindowOK, ThreadStates
<1>2. TasksOK
  BY DEF TasksOK, Begin, Sessions, Waiting, PamDefault, MaxTries
<1>3. ChannelsOK
  BY SaidNothing DEF ChannelsOK
<1>4. ConnectInv /\ ThreadInv /\ FingersInv /\ EnrollInv
  BY DEF ConnectInv, ThreadInv, FingersInv, EnrollInv
<1>5. ChannelInv /\ ScreenTellsTheTruth /\ ListIsCurrent /\ NobodyDrivesAlone
  BY DEF ChannelInv, Followed, ScreenTellsTheTruth, ListIsCurrent, NobodyDrivesAlone
<1> QED BY <1>1, <1>2, <1>3, <1>4, <1>5 DEF IInv, TypeOK

(* The inductive invariant of the window and the tasks it follows.         *)
THEOREM Inductive == Spec => []IInv
<1>1. ASSUME IInv, [Next]_vars PROVE IInv'
  BY <1>1, TaskStep, OtherStep, StartStep, CancelStep, PollStep DEF Next, Click
<1> QED BY <1>1, InitInv, PTL DEF Spec

(* The window's variables keep their types, and no channel takes more than *)
(* its bound (client.rs sends with a wait).                                *)
THEOREM TypeCorrect == Spec => []TypeOK
<1>1. IInv => TypeOK
  BY DEF IInv
<1> QED BY <1>1, Inductive, PTL

(* The screen shows what goes on, and is open only on a terminal match of  *)
(* its own login (poll of app.rs).                                         *)
THEOREM ScreenIsTrue == Spec => []ScreenTellsTheTruth
<1>1. IInv => ScreenTellsTheTruth
  BY DEF IInv
<1> QED BY <1>1, Inductive, PTL

(* The list of fingers is the daemon's when nothing is under way that      *)
(* would refresh it (poll_list_pending and poll_enroll of app.rs).         *)
THEOREM ListStaysCurrent == Spec => []ListIsCurrent
<1>1. IInv => ListIsCurrent
  BY DEF IInv
<1> QED BY <1>1, Inductive, PTL

(* No task waits for a finger that the window has let go of without        *)
(* telling it (cancel_login, logout and cancel_enroll of app.rs).          *)
THEOREM NobodyIsLeftAlone == Spec => []NobodyDrivesAlone
<1>1. IInv => NobodyDrivesAlone
  BY DEF IInv
<1> QED BY <1>1, Inductive, PTL
=============================================================================
