------------------------------ MODULE Keyring ------------------------------
(***************************************************************************)
(* Fingerprint unlock of the login keyring (crates/elanprint-keyring-setup *)
(* and crates/pam-elanprint-keyring): a key sealed to the TPM, the PAM     *)
(* stacks that hand it to gnome-keyring at login, and the keyring itself,  *)
(* which lives elsewhere and is keyed to one password at a time.           *)
(*                                                                         *)
(* A session is one command, or one button of the client's keyring tab,    *)
(* with the root helper that it runs.  Each of its steps may fail, and the *)
(* session may be killed before any of them.  TPM, PAM, the file system    *)
(* and gnome-keyring are external; a copy or a write that fails may have   *)
(* emptied the file first.                                                 *)
(***************************************************************************)
EXTENDS Integers

CONSTANTS Keys,     \* secrets that seal::generate may draw
          Account,  \* the user's account password
          NoKey,    \* no file, or nothing in it
          Broken    \* a blob that the TPM does not unseal

ASSUME KeyringAssumption ==
    /\ Account \notin Keys /\ NoKey \notin Keys /\ Broken \notin Keys
    /\ NoKey # Account /\ Broken \notin {Account, NoKey}

VARIABLES
    sealed,    \* what CRED holds
    prev,      \* what CRED_PREVIOUS holds
    recovery,  \* what RECOVERY_FILE holds
    wired,     \* PAM stacks that have the module's line
    keyring,   \* the login keyring's password
    saved,     \* the key the user has confirmed, or was shown last
    op, pc,    \* the session, and its next step
    by,        \* who runs it: "tab", "tool", or "helper": root's part alone
    stacks,    \* PAM stacks it has yet to wire
    old, new,  \* its secrets
    result,    \* how it ended
    before     \* history: what worked when it began

blobs   == <<sealed, prev>>
host    == <<blobs, recovery, wired>>
user    == <<keyring, saved>>
secrets == <<old, new>>
vars    == <<host, user, op, pc, by, stacks, secrets, result, before>>

Stacks == {"fingerprint", "password"}
Runners == {"tab", "tool", "helper"}

(* What pam_gnome_keyring gets to open the keyring with: supply_authtok    *)
(* replaces the password by the unsealed key if the module is there and    *)
(* the TPM unseals in time, and leaves it alone otherwise.                 *)
Authtok(stack) ==
    IF stack \in wired /\ sealed \in Keys THEN sealed
    ELSE IF stack = "password" THEN Account ELSE NoKey

Opens(stack) == Authtok(stack) = keyring
Works == sealed = keyring

(* 32 bytes from /dev/urandom are not a key that anybody already has.      *)
Fresh == Keys \ {sealed, prev, recovery, keyring, saved, old}

Init ==
    /\ sealed = NoKey /\ prev = NoKey /\ recovery = NoKey /\ wired = {}
    /\ keyring = Account /\ saved = NoKey
    /\ op = "none" /\ pc = "idle" /\ by = "tool" /\ stacks = {}
    /\ old = NoKey /\ new = NoKey
    /\ result = "none" /\ before = [works |-> FALSE, opens |-> TRUE]

-----------------------------------------------------------------------------
Goto(label) == pc' = label /\ UNCHANGED <<op, by, stacks, secrets, result, before>>

End(outcome) ==
    /\ pc' = "idle" /\ result' = outcome
    /\ stacks' = {} /\ old' = NoKey /\ new' = NoKey
    /\ UNCHANGED <<op, by, before>>

Begin(session, label) ==
    /\ pc = "idle"
    /\ op' = session /\ pc' = label /\ by' \in {"tab", "tool"} /\ result' = "none"
    /\ before' = [works |-> Works, opens |-> Opens("password")]

(* A write or a copy that fails leaves the file as it was, or empties it.  *)
Fails(file, emptied) == file' \in {file, emptied}

-----------------------------------------------------------------------------
(* enable, start_provision: refused if there is a blob.                    *)
BeginEnable(wanted) ==
    /\ Begin("enable", "seal")
    /\ sealed = NoKey
    /\ \E key \in Fresh : new' = key
    /\ stacks' = wanted
    /\ UNCHANGED <<host, user, old>>

(* Mutant: the unsealed key is not looked at.                              *)
BeginRotateUnread ==
    /\ Begin("rotate", "keep")
    /\ old' = sealed
    /\ \E key \in Fresh : new' = key
    /\ UNCHANGED <<host, user, stacks>>

(* rotate, start_rotate: the current key is unsealed first.                *)
BeginRotate ==
    /\ Begin("rotate", "keep")
    /\ sealed \in Keys
    /\ old' = sealed
    /\ \E key \in Fresh : new' = key
    /\ UNCHANGED <<host, user, stacks>>

(* rollback, run by hand.                                                  *)
BeginRollback ==
    /\ Begin("rollback", "restore")
    /\ UNCHANGED <<host, user, stacks, secrets>>

(* add-password-login.                                                     *)
BeginWirePassword ==
    /\ Begin("wire", "wire")
    /\ stacks' = {"password"}
    /\ UNCHANGED <<host, user, secrets>>

(* Mutant: a copy that fails does not matter.                              *)
KeepOrNot ==
    /\ pc = "keep"
    /\ \/ prev' = sealed
       \/ Fails(prev, Broken)
    /\ Goto("seal")
    /\ UNCHANGED <<sealed, recovery, wired, user>>

(* rotate_seal copies the blob before it seals over it.                    *)
Keep ==
    /\ pc = "keep"
    /\ \/ prev' = sealed /\ Goto("seal")
       \/ Fails(prev, Broken) /\ End("failed")
    /\ UNCHANGED <<sealed, recovery, wired, user>>

(* systemd-creds may fail, or write a blob that does not unseal, and the   *)
(* chmod after it may fail.                                                *)
Seal ==
    /\ pc = "seal"
    /\ \/ sealed' \in {new, Broken} /\ Goto("verify")
       \/ sealed' \in {sealed, new} /\ End("failed")
    /\ UNCHANGED <<prev, recovery, wired, user>>

(* Mutant: nobody looks at what was sealed.                                *)
VerifyNothing ==
    /\ pc = "verify"
    /\ Goto("save")
    /\ UNCHANGED <<host, user>>

Verify ==
    /\ pc = "verify"
    /\ \/ sealed = new /\ Goto("save")
       \/ End("failed")
    /\ UNCHANGED <<host, user>>

(* Mutant: a recovery file that cannot be written does not matter.         *)
SaveOrNot ==
    /\ pc = "save"
    /\ Fails(recovery, NoKey) \/ recovery' = new
    /\ Goto(IF op = "enable" THEN "wire" ELSE "rekey")
    /\ UNCHANGED <<blobs, wired, user>>

Save ==
    /\ pc = "save"
    /\ \/ recovery' = new /\ Goto(IF op = "enable" THEN "wire" ELSE "rekey")
       \/ (Fails(recovery, NoKey) \/ recovery' = new) /\ End("failed")
    /\ UNCHANGED <<blobs, wired, user>>

(* One stack after the other, the fingerprint's first, which require_ready *)
(* has seen with the keyring's line.  A password stack that is not there   *)
(* is passed over by an enable, an error for add-password-login; one       *)
(* without the keyring's line is an error for both.                        *)
NextStack == IF "fingerprint" \in stacks THEN "fingerprint" ELSE "password"

Pass ==
    /\ stacks' = stacks \ {NextStack}
    /\ UNCHANGED <<op, pc, by, secrets, result, before>>

Wire ==
    /\ pc = "wire" /\ stacks # {}
    /\ \/ wired' = wired \cup {NextStack} /\ Pass
       \/ op = "enable" /\ NextStack = "password" /\ UNCHANGED wired /\ Pass
       \/ End("failed") /\ UNCHANGED wired
    /\ UNCHANGED <<blobs, recovery, user>>

Wired ==
    /\ pc = "wire" /\ stacks = {}
    /\ IF op = "enable" THEN Goto("confirm") ELSE End("done")
    /\ UNCHANGED <<host, user>>

(* The user types the key back; the command line gives up on a mismatch.   *)
Confirm ==
    /\ pc = "confirm"
    /\ \/ saved' = new /\ Goto("rekey")
       \/ End("unconfirmed") /\ UNCHANGED saved
    /\ UNCHANGED <<host, keyring>>

(* change_password: gnome-keyring wants the current password, which is the *)
(* old key in a rotation and typed by the user in an enable.               *)
Known == {Account, saved, recovery}
Rekey ==
    /\ pc = "rekey"
    /\ \/ /\ IF op = "rotate" THEN keyring = old ELSE keyring \in Known
          /\ keyring' = new
          /\ Goto("show")
       \/ /\ IF op = "rotate" THEN Goto("restore") ELSE End("failed")
          /\ UNCHANGED keyring
    /\ UNCHANGED <<host, saved>>

Show ==
    /\ pc = "show"
    /\ saved' = new
    /\ End("done")
    /\ UNCHANGED <<host, keyring>>

-----------------------------------------------------------------------------
(* rollback: the kept blob is copied back, unsealed, and written out.      *)

(* Mutant: the blob is left as the rotation made it.                       *)
RestoreNothing ==
    /\ pc = "restore"
    /\ Goto("resave")
    /\ UNCHANGED <<host, user>>

(* The tool's rotate does not look at how its rollback ended.              *)
NotRestored == End(IF op = "rotate" /\ by = "tool" THEN "restored" ELSE "failed")

Restore ==
    /\ pc = "restore"
    /\ \/ prev # NoKey /\ sealed' = prev /\ Goto("resave")
       \/ Fails(sealed, Broken) /\ NotRestored
    /\ UNCHANGED <<prev, recovery, wired, user>>

Resave ==
    /\ pc = "resave"
    /\ \/ sealed \in Keys /\ recovery' = sealed /\ End("restored")
       \/ Fails(recovery, NoKey) /\ NotRestored
    /\ UNCHANGED <<blobs, wired, user>>

(* disable: the lines go, the keyring keeps its password.                  *)
BeginDisable ==
    /\ Begin("disable", "unwire")
    /\ wired # {}
    /\ stacks' = wired
    /\ UNCHANGED <<host, user, secrets>>

Unwire ==
    /\ pc = "unwire"
    /\ \/ stacks # {} /\ wired' = wired \ {NextStack} /\ Pass
       \/ stacks = {} /\ End("done") /\ UNCHANGED wired
       \/ End("failed") /\ UNCHANGED wired
    /\ UNCHANGED <<blobs, recovery, user>>

(* Commands of one step.                                                   *)
OneStep(session) ==
    /\ pc = "idle"
    /\ op' = session /\ by' \in {"tab", "tool"} /\ result' = "done"
    /\ UNCHANGED <<blobs, wired, pc, stacks, secrets, before>>

ForgetRecoveryFile ==
    /\ OneStep("forget")
    /\ recovery' = NoKey
    /\ UNCHANGED user

ShowKey ==
    /\ OneStep("show-key")
    /\ sealed \in Keys
    /\ saved' = sealed
    /\ UNCHANGED <<recovery, keyring>>

(* The user goes back to the account password in Passwords and Keys.       *)
ResetByHand ==
    /\ OneStep("none")
    /\ keyring \in Known
    /\ keyring' = Account
    /\ UNCHANGED <<recovery, saved>>

(* A closed window, a signal, a power cut between two steps.               *)
Kill ==
    /\ pc # "idle"
    /\ End("killed")
    /\ UNCHANGED <<host, user>>

-----------------------------------------------------------------------------
Sessions ==
    \/ \E wanted \in {{"fingerprint"}, Stacks} : BeginEnable(wanted)
    \/ BeginRotate \/ BeginRollback \/ BeginWirePassword \/ BeginDisable
    \/ ForgetRecoveryFile \/ ShowKey \/ ResetByHand

Next ==
    \/ Sessions
    \/ Keep \/ Seal \/ Verify \/ Save \/ Wire \/ Wired
    \/ Confirm \/ Rekey \/ Show
    \/ Restore \/ Resave \/ Unwire \/ Kill

Spec == Init /\ [][Next]_vars

-----------------------------------------------------------------------------
Labels == {"idle", "keep", "seal", "verify", "save", "wire", "confirm", "rekey",
           "show", "restore", "resave", "unwire"}

Held == Keys \cup {NoKey}

TypeOK ==
    /\ sealed \in Held \cup {Broken} /\ prev \in Held \cup {Broken}
    /\ recovery \in Held /\ wired \subseteq Stacks
    /\ keyring \in Keys \cup {Account} /\ saved \in Held
    /\ pc \in Labels /\ by \in Runners /\ stacks \subseteq Stacks
    /\ old \in Held /\ new \in Held
    /\ op \in {"none", "enable", "rotate", "rollback", "wire", "disable", "forget", "show-key"}
    /\ result \in {"none", "done", "failed", "unconfirmed", "restored", "killed"}
    /\ before \in [works : BOOLEAN, opens : BOOLEAN]

(* A rotation that began with a working setup keeps the keyring's key in   *)
(* one of the two blobs at every step, so wherever it failed or was        *)
(* killed, and although a restoring copy may fail too, the key is not      *)
(* lost (docs/keyring.md:299).                                             *)
RotationKeepsKey == op = "rotate" /\ before.works => keyring \in {sealed, prev}

(* A setup or a rotation that says it is done, and a rotation of the tab   *)
(* that says the old key is back, leave blob, recovery file and keyring in *)
(* step.  The tool says that the old key was restored also when the        *)
(* rollback has failed (keyring-setup/src/main.rs:240).                    *)
InStep == sealed = keyring /\ recovery = keyring
EndsInStep ==
    /\ op \in {"enable", "rotate"} /\ result = "done" => InStep
    /\ op = "rotate" /\ result = "restored" /\ by # "tool" /\ before.works => InStep

-----------------------------------------------------------------------------
(* Why these hold, by part.  First, which session can be at which step,    *)
(* that its key is drawn anew, and that nothing follows a shown key.       *)
SessionOf(label) ==
    CASE label = "keep" -> {"rotate"}
      [] label \in {"seal", "verify", "save", "rekey", "show"} -> {"enable", "rotate"}
      [] label = "wire" -> {"enable", "wire"}
      [] label = "confirm" -> {"enable"}
      [] label \in {"restore", "resave"} -> {"rollback", "rotate"}
      [] OTHER -> {"disable"}

SessionInv ==
    /\ pc # "idle" => op \in SessionOf(pc) /\ result = "none"
    /\ pc # "idle" /\ op \in {"enable", "rotate"} => new \in Keys
    /\ op = "enable" /\ pc \in {"seal", "verify", "save", "wire", "confirm"} => saved # new
    /\ op = "show-key" => pc = "idle" /\ (result = "done" => saved = sealed)

(* What has been verified and saved stays so up to the re-key, and only a  *)
(* session that is past it has changed the keyring's key.                  *)
SealedInv ==
    /\ pc \in {"save", "confirm", "rekey", "show"} \/ (pc = "wire" /\ op = "enable")
           => sealed = new
    /\ pc \in {"confirm", "rekey", "show"} \/ (pc = "wire" /\ op = "enable")
           => recovery = new
    /\ pc = "show" => keyring = new

(* Where the keyring's key is in a rotation that began with it: in the     *)
(* blob, then in both, then in the kept one, until it is changed.          *)
RotationInv ==
    op = "rotate" /\ before.works =>
        /\ pc = "keep" => keyring = sealed
        /\ pc \in {"seal", "verify", "save", "rekey", "restore", "resave"} => keyring = prev
        /\ pc = "resave" => sealed = prev

(* An enable passes over no stack but the password's.                      *)
StacksInv ==
    op = "enable" =>
        /\ pc \in {"seal", "verify", "save", "wire"} => "fingerprint" \in wired \cup stacks
        /\ pc \in {"confirm", "rekey", "show"} => "fingerprint" \in wired

IInv ==
    /\ TypeOK /\ SessionInv /\ SealedInv /\ RotationInv /\ StacksInv
    /\ RotationKeepsKey /\ EndsInStep

(* lib.rs:24 "Nothing is wired until the seal has round tripped", and the  *)
(* keyring takes no key that the TPM and the recovery file do not both     *)
(* hold.                                                                   *)
WiredAfterSeal ==
    [][op = "enable" /\ wired' # wired => sealed = new /\ recovery = new]_vars
KeyedAfterSave ==
    [][keyring' \notin {keyring, Account} => sealed = keyring' /\ recovery = keyring']_vars

-----------------------------------------------------------------------------
(* docs/keyring.md:222-223 says of a rotation that "If the re-key fails    *)
(* the old blob is restored, so a failed rotation leaves a working setup." *)
FailedRotationWorks ==
    op = "rotate" /\ result = "failed" /\ before.works => Works

(* keyring-setup/src/main.rs:196-197 says of a recovery code that was not  *)
(* typed back that "the keyring was not re-keyed, so nothing about your    *)
(* login has changed": a password login still opens the keyring.           *)
UnconfirmedChangesNothing ==
    op = "enable" /\ result = "unconfirmed" /\ before.opens => Opens("password")
=============================================================================
