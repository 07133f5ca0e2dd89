------------------------------- MODULE Session -------------------------------
(***************************************************************************)
(* The grant logic of elanprint-algo: which fprintd status a byte of the   *)
(* sensor becomes (status.rs, and status.rs of elanprint-proto), how many  *)
(* tries a login has (policy.rs), and the session that turns statuses into *)
(* an answer (session.rs).  Pure operators.                                *)
(***************************************************************************)
EXTENDS Integers

Bytes == 0..255

(* Status::classify: the move hints, a dirty sensor, an area too small.    *)
RetryBytes == (\h41..\h44) \cup {\hfb, \hfe}

Classify(byte) ==
    CASE byte \in RetryBytes -> "retry"
      [] byte = \hdd -> "max-enrolled"
      [] byte = \hfd -> "not-enrolled"
      [] byte \div 16 = 0 -> "ok"
      [] OTHER -> "unknown"

(* VerifyOutcome::classify and verify_status.                              *)
VerifyStatus(byte) ==
    CASE Classify(byte) = "ok" -> "match"
      [] Classify(byte) = "not-enrolled" -> "no-match"
      [] Classify(byte) = "retry" -> "retry"
      [] OTHER -> "unknown-error"

-----------------------------------------------------------------------------
(* AttemptPolicy.                                                          *)
MaxTries(asked) == IF asked = 0 THEN 1 ELSE asked

Allows(max, used) == used < max

PamDefault == MaxTries(3)

-----------------------------------------------------------------------------
(* VerifySession.  `failures' counts while it is waiting.                  *)
Results == {"match", "no-match", "retry", "disconnected", "unknown-error", "garbage"}

Statuses == [result : Results, done : BOOLEAN]

TerminalMatch == [result |-> "match", done |-> TRUE]

Waiting(n) == [is |-> "waiting", failures |-> n]
Ended(how) == [is |-> how, failures |-> 0]

Begin == Waiting(0)

Sessions == {Waiting(n) : n \in 0..(PamDefault - 1)}
                \cup {Ended(how) : how \in {"idle", "succeeded", "locked", "failed"}}

Reply(session, action) == [session |-> session, action |-> action]

(* step_status.  Grants only a match that is terminal; a string it does    *)
(* not know is an error, which leaves the session waiting.                 *)
Step(session, status, max) ==
    IF session.is # "waiting" THEN Reply(session, "error")
    ELSE LET used == session.failures + 1
         IN CASE status.result = "match" ->
                   IF status.done THEN Reply(Ended("succeeded"), "granted")
                                  ELSE Reply(session, "error")
              [] status.result = "no-match" ->
                   IF Allows(max, used) THEN Reply(Waiting(used), "deny")
                                        ELSE Reply(Ended("locked"), "locked")
              [] status.result = "retry" -> Reply(session, "prompt")
              [] status.result \in {"disconnected", "unknown-error"} ->
                   Reply(Ended("failed"), "failed")
              [] status.result = "garbage" -> Reply(session, "error")
=============================================================================
