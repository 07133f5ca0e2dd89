----------------------------- MODULE KeyringTab -----------------------------
(***************************************************************************)
(* The keyring tab of the desktop client (crates/elanprint-login,          *)
(* src/keyring_tab.rs and the keyring_* functions of src/app.rs): buttons  *)
(* that begin the sessions of module Keyring, each as a job of a thread,   *)
(* and the stages that show what came of them.  The tool of the same crate *)
(* runs the same sessions in a terminal, before, after and between those   *)
(* of the tab, and the tab hears nothing of it.                            *)
(***************************************************************************)
EXTENDS Keyring

VARIABLES
    stage,
    seen,      \* the stacks that the cached report calls wired
    stale      \* history: the tool, or a helper on its own, has run since

tab == <<stage, seen, stale>>
tabVars == <<vars, tab>>

(* KeyringTab::new makes a report.                                         *)
TabInit ==
    /\ Init
    /\ stage = "idle" /\ seen = wired /\ stale = FALSE

(* Stages in which a session is the tab's: a job, a re-key, or a key that  *)
(* waits to be typed back or to be used.                                   *)
Holding == stage \in {"working", "saved", "rekey", "rekeying"}

(* cred_state is Unreadable as soon as there is a directory to look into,  *)
(* so the stack decides.                                                   *)
LooksEnabled == "fingerprint" \in seen

(* Report and recovery file are looked at anew.                            *)
RefreshTo(label) == stage' = label /\ seen' = wired /\ stale' = FALSE

Stay(label) == stage' = label /\ UNCHANGED <<seen, stale>>

-----------------------------------------------------------------------------
(* The buttons.  A job that is refused, by polkit or by the helper itself  *)
(* before its first step, has changed nothing.                             *)
Refused(session) ==
    /\ pc = "idle"
    /\ op' = session /\ by' = "tab" /\ result' = "failed"
    /\ before' = [works |-> Works, opens |-> Opens("password")]
    /\ UNCHANGED <<host, user, pc, stacks, secrets>>

(* Any wish about the password stack.                                      *)
Continue ==
    /\ stage = "confirm"
    /\ (\E wanted \in {{"fingerprint"}, Stacks} : BeginEnable(wanted)) \/ Refused("enable")
    /\ by' = "tab" /\ Stay("working")

ReplaceKey ==
    /\ stage = "rotate"
    /\ BeginRotate \/ Refused("rotate")
    /\ by' = "tab" /\ Stay("working")

Reveal ==
    /\ stage = "idle" /\ LooksEnabled
    /\ ShowKey \/ Refused("show-key")
    /\ by' = "tab" /\ Stay("working")

AlsoPassword ==
    /\ stage = "idle" /\ LooksEnabled /\ "password" \notin seen
    /\ BeginWirePassword \/ Refused("wire")
    /\ by' = "tab" /\ Stay("working")

TurnOff ==
    /\ stage = "idle" /\ LooksEnabled
    /\ \/ Begin("disable", "unwire") /\ stacks' = wired /\ UNCHANGED <<host, user, secrets>>
       \/ Refused("disable")
    /\ by' = "tab" /\ Stay("working")

DeleteCopy ==
    /\ stage = "shown"
    /\ ForgetRecoveryFile \/ Refused("forget")
    /\ by' = "tab" /\ Stay("working")

(* The key has been typed back; a text that is not the key does nothing.   *)
SavedIt ==
    /\ stage = "saved"
    /\ Confirm /\ saved' = new
    /\ Stay("rekey")

Finish ==
    /\ stage = "rekey"
    /\ Stay("rekeying")
    /\ UNCHANGED vars

(* Set up, Replace key, Cancel, Close and Back.                            *)
Turn ==
    /\ \/ stage = "idle" /\ Stay(IF LooksEnabled THEN "rotate" ELSE "confirm")
       \/ stage \in {"confirm", "rotate", "shown", "rotated"} /\ Stay("idle")
       \/ stage \in {"done", "failed"} /\ RefreshTo("idle")
    /\ UNCHANGED vars

-----------------------------------------------------------------------------
(* poll.                                                                   *)
Outcome ==
    CASE pc = "confirm" -> "saved"
      [] pc = "show" -> "rotated"
      [] result = "done" -> IF op = "show-key" THEN "shown" ELSE "idle"
      [] OTHER -> "failed"

(* Mutant: the report is left as it was before the job.                    *)
PollJobOnly ==
    /\ stage = "working" /\ pc \in {"idle", "confirm", "show"}
    /\ IF pc = "show" THEN Show ELSE UNCHANGED vars
    /\ Stay(Outcome)

(* An answer of the job.                                                   *)
PollJob ==
    /\ stage = "working" /\ pc \in {"idle", "confirm", "show"}
    /\ IF pc = "show" THEN Show ELSE UNCHANGED vars
    /\ RefreshTo(Outcome)

(* Mutant: an answer is an answer.                                         *)
PollRekeyAny ==
    /\ stage = "rekeying" /\ pc \in {"idle", "show"}
    /\ RefreshTo("done")
    /\ IF pc = "show" THEN Show ELSE UNCHANGED vars

(* An answer of gnome-keyring.                                             *)
PollRekey ==
    /\ stage = "rekeying"
    /\ \/ Show /\ RefreshTo("done")
       \/ pc = "idle" /\ Stay("failed") /\ UNCHANGED vars

(* The thread is gone without an answer.                                   *)
Disconnected ==
    /\ stage \in {"working", "rekeying"}
    /\ Kill
    /\ Stay("failed")

-----------------------------------------------------------------------------
(* The steps that nobody has to take by hand.                              *)
HelperRuns ==
    Keep \/ Seal \/ Verify \/ Save \/ Wire \/ Wired \/ Restore \/ Resave \/ Unwire

Runs == HelperRuns \/ Rekey

Job ==
    /\ stage = "working" \/ (stage = "rekeying" /\ pc = "rekey")
    /\ Runs
    /\ UNCHANGED tab

(* The window is closed, and opened again later.  What its process does    *)
(* ends there; root's part, a process that pkexec has started, goes on     *)
(* and finds nobody to give its answer to.                                 *)
AtHelper == pc \notin {"idle", "confirm", "rekey", "show"}

Orphaned ==
    /\ AtHelper
    /\ by' = "helper"
    /\ UNCHANGED <<host, user, op, pc, stacks, secrets, result, before>>

Reopen ==
    /\ IF Holding /\ pc # "idle" THEN Kill \/ Orphaned ELSE UNCHANGED vars
    /\ RefreshTo("idle")

(* The tool, or the user in Passwords and Keys, or such a helper.          *)
Tool ==
    /\ ~Holding
    /\ \/ Sessions /\ by' = "tool"
       \/ by = "tool" /\ (Runs \/ Confirm \/ Show)
       \/ by = "helper" /\ HelperRuns
       \/ Kill
    /\ stale' = TRUE
    /\ UNCHANGED <<stage, seen>>

TabNext ==
    \/ Continue \/ ReplaceKey \/ Reveal \/ AlsoPassword \/ TurnOff \/ DeleteCopy
    \/ SavedIt \/ Finish \/ Turn
    \/ PollJob \/ PollRekey \/ Disconnected \/ Job
    \/ Reopen \/ Tool

TabSpec == TabInit /\ [][TabNext]_tabVars

-----------------------------------------------------------------------------
Stages == {"idle", "confirm", "working", "saved", "rekey", "rekeying", "shown",
           "rotate", "rotated", "done", "failed"}

TabTypeOK ==
    /\ TypeOK
    /\ stage \in Stages
    /\ seen \subseteq Stacks /\ stale \in BOOLEAN

(* What the tab says is so, as far as neither the tool nor a helper that   *)
(* outlived its window has changed it since:                               *)
(* the key to type back is the one that was sealed; after "Log out and     *)
(* back in with your finger. Your saved passwords open with it" a          *)
(* fingerprint login opens the keyring; the new key of a rotation is the   *)
(* keyring's; a key that is shown is the sealed one; and no button is      *)
(* offered on a report from before the last job.                           *)
TabTellsTheTruth ==
    /\ stage \in {"saved", "rekey"} => op = "enable" /\ sealed = new /\ recovery = new
    /\ stage = "done" /\ ~stale => Opens("fingerprint")
    /\ stage = "rotated" /\ ~stale => saved = keyring /\ Works
    /\ stage = "shown" /\ ~stale => saved = sealed
    /\ stage \notin {"working", "rekeying", "failed"} /\ ~stale => seen = wired

(* Which step the tab's own session is at, by stage; the tool has none     *)
(* then.                                                                   *)
HoldingInv ==
    /\ stage = "saved" => pc = "confirm"
    /\ stage = "rekey" => pc = "rekey"
    /\ stage \in {"rekey", "rekeying"} => op = "enable"
    /\ stage = "rekeying" => pc \in {"idle", "rekey", "show"}

TabIInv == IInv /\ TabTypeOK /\ HoldingInv /\ TabTellsTheTruth
=============================================================================
