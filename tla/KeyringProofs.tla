---------------------------- MODULE KeyringProofs ----------------------------
(***************************************************************************)
(* Proofs about the keyring setup and its tab: for any set of keys.  The   *)
(* arguments are IInv of module Keyring and TabIInv of KeyringTab; each    *)
(* theorem is about the code cited there.                                  *)
(***************************************************************************)
EXTENDS KeyringTab, TLAPS

USE DEF blobs, host, user, secrets, vars, Stacks, Runners, Held, Labels, Stages

(* Before the first session there is nothing to keep.                      *)
LEMMA InitInv == Init => IInv
<1> SUFFICES ASSUME Init PROVE IInv
  OBVIOUS
<1>1. TypeOK
  BY DEF Init, TypeOK
<1>2. SessionInv /\ SealedInv /\ RotationInv /\ StacksInv
  BY DEF Init, SessionInv, SealedInv, RotationInv, StacksInv
<1>3. RotationKeepsKey /\ EndsInStep
  BY DEF Init, RotationKeepsKey, EndsInStep
<1> QED BY <1>1, <1>2, <1>3 DEF IInv

(* A helper goes on without the window that asked for it.                  *)
LEMMA OrphanStep == ASSUME IInv, Orphaned PROVE IInv'
<1>1. TypeOK'
  BY DEF Orphaned, IInv, TypeOK
<1>2. SessionInv' /\ SealedInv' /\ RotationInv' /\ StacksInv'
  BY DEF Orphaned, IInv, SessionInv, SealedInv, RotationInv, StacksInv
<1>3. RotationKeepsKey' /\ EndsInStep'
  BY DEF Orphaned, AtHelper, IInv, SessionInv, RotationKeepsKey, EndsInStep
<1> QED BY <1>1, <1>2, <1>3 DEF IInv

(* The sessions a button begins, any of which may be refused.              *)
Buttons == {"enable", "rotate", "show-key", "wire", "disable", "forget"}

(* A session begins only after the last one, with fresh secrets.           *)
LEMMA BeginStep ==
    ASSUME IInv, Sessions \/ TurnOff \/ \E session \in Buttons : Refused(session)
    PROVE  IInv'
<1> USE KeyringAssumption
        DEF Buttons, IInv, TypeOK, SessionInv, SessionOf, SealedInv, RotationInv,
            StacksInv, RotationKeepsKey, EndsInStep, InStep, Begin, Works, Opens
<1>1. ASSUME NEW wanted \in {{"fingerprint"}, Stacks}, BeginEnable(wanted) PROVE IInv'
  BY <1>1 DEF BeginEnable, Fresh
<1>2. CASE BeginRotate
  BY <1>2 DEF BeginRotate, Fresh
<1>3. CASE BeginRollback
  BY <1>3 DEF BeginRollback
<1>4. CASE BeginWirePassword
  BY <1>4 DEF BeginWirePassword
<1>5. CASE BeginDisable
  BY <1>5 DEF BeginDisable
<1>6. CASE ForgetRecoveryFile
  BY <1>6 DEF ForgetRecoveryFile, OneStep
<1>7. CASE ShowKey
  BY <1>7 DEF ShowKey, OneStep
<1>8. CASE ResetByHand
  BY <1>8 DEF ResetByHand, OneStep
<1>9. ASSUME NEW session \in Buttons, Refused(session) PROVE IInv'
  <2>1. TypeOK'
    BY <1>9 DEF Refused
  <2>2. SessionInv' /\ SealedInv'
    BY <1>9 DEF Refused
  <2>3. RotationInv' /\ StacksInv'
    BY <1>9 DEF Refused
  <2>4. RotationKeepsKey'
    BY <1>9 DEF Refused
  <2>5. EndsInStep'
    BY <1>9 DEF Refused
  <2> QED BY <2>1, <2>2, <2>3, <2>4, <2>5
<1>10. CASE TurnOff
  <2>1. CASE Refused("disable")
    BY <1>9, <2>1
  <2>2. CASE Begin("disable", "unwire") /\ stacks' = wired /\ UNCHANGED <<host, user, secrets>>
    BY <2>2
  <2> QED BY <1>10, <2>1, <2>2 DEF TurnOff
<1> QED BY <1>1, <1>2, <1>3, <1>4, <1>5, <1>6, <1>7, <1>8, <1>9, <1>10 DEF Sessions

(* A step of a session that runs, or its death.                            *)
LEMMA RunStep ==
    ASSUME IInv, Runs \/ Confirm \/ Show \/ Kill
    PROVE  IInv'
<1> USE KeyringAssumption
        DEF IInv, TypeOK, SessionInv, SessionOf, SealedInv, RotationInv, StacksInv,
            RotationKeepsKey, EndsInStep, InStep, Goto, End, Fails
<1>1. CASE Keep
  BY <1>1 DEF Keep
<1>2. CASE Seal
  BY <1>2 DEF Seal
<1>3. CASE Verify
  BY <1>3 DEF Verify
<1>4. CASE Save
  BY <1>4 DEF Save
<1>5. CASE Wire
  BY <1>5 DEF Wire, Pass, NextStack
<1>6. CASE Wired
  BY <1>6 DEF Wired
<1>7. CASE Rekey
  BY <1>7 DEF Rekey
<1>8. CASE Restore
  BY <1>8 DEF Restore, NotRestored
<1>9. CASE Resave
  BY <1>9 DEF Resave, NotRestored
<1>10. CASE Unwire
  BY <1>10 DEF Unwire, Pass, NextStack
<1>11. CASE Confirm
  BY <1>11 DEF Confirm
<1>12. CASE Show
  BY <1>12 DEF Show
<1>13. CASE Kill
  BY <1>13 DEF Kill
<1> QED BY <1>1, <1>2, <1>3, <1>4, <1>5, <1>6, <1>7, <1>8, <1>9, <1>10, <1>11, <1>12, <1>13 DEF Runs, HelperRuns

(* Whatever the tab and the tool do, the keyring's own invariant stays.    *)
LEMMA KeyringStep == ASSUME IInv, [TabNext]_tabVars PROVE IInv'
<1>1. CASE UNCHANGED vars
  BY <1>1 DEF IInv, TypeOK, SessionInv, SealedInv, RotationInv, StacksInv,
              RotationKeepsKey, EndsInStep, InStep
<1>2. CASE Continue \/ ReplaceKey \/ Reveal \/ AlsoPassword \/ TurnOff \/ DeleteCopy
  <2>1. Sessions \/ TurnOff \/ \E session \in Buttons : Refused(session)
    BY <1>2 DEF Continue, ReplaceKey, Reveal, AlsoPassword, DeleteCopy, Sessions, Buttons
  <2> QED BY <2>1, BeginStep
<1>3. CASE SavedIt \/ PollJob \/ PollRekey \/ Disconnected \/ Job \/ Reopen
  <2>1. Runs \/ Confirm \/ Show \/ Kill \/ Orphaned \/ UNCHANGED vars
    BY <1>3 DEF SavedIt, PollJob, PollRekey, Disconnected, Job, Reopen
  <2> QED BY <2>1, <1>1, RunStep, OrphanStep
<1>4. CASE Tool
  BY <1>4, BeginStep, RunStep DEF Tool, Runs
<1>5. CASE Finish \/ Turn \/ UNCHANGED tabVars
  BY <1>1, <1>5 DEF Finish, Turn, tabVars
<1> QED BY <1>2, <1>3, <1>4, <1>5 DEF TabNext

-----------------------------------------------------------------------------
(* The tab.                                                                *)
LEMMA TabInitInv == TabInit => TabIInv
<1> SUFFICES ASSUME TabInit PROVE TabIInv
  OBVIOUS
<1>1. IInv
  BY InitInv DEF TabInit
<1>2. HoldingInv /\ TabTellsTheTruth /\ TabTypeOK
  BY <1>1 DEF IInv, TabInit, Init, HoldingInv, TabTellsTheTruth, TabTypeOK
<1> QED BY <1>1, <1>2 DEF TabIInv

(* Where the tab turns to, it keeps its types.                             *)
LEMMA TurnType ==
    ASSUME TabTypeOK, TypeOK', NEW label \in Stages, Stay(label) \/ RefreshTo(label)
    PROVE  TabTypeOK'
<1>1. CASE Stay(label)
  BY <1>1 DEF Stay, TabTypeOK
<1>2. CASE RefreshTo(label)
  <2>1. seen' \subseteq Stacks
    BY <1>2 DEF RefreshTo, TabTypeOK, TypeOK
  <2>2. stale' \in BOOLEAN
    BY <1>2, Zenon DEF RefreshTo
  <2> QED BY <1>2, <2>1, <2>2, Zenon DEF RefreshTo, TabTypeOK
<1> QED BY <1>1, <1>2

(* The stage, the report and the step of the session stay in step.         *)
LEMMA TabStep == ASSUME TabIInv, [TabNext]_tabVars PROVE TabIInv'
<1>1. IInv'
  BY KeyringStep DEF TabIInv
<1> USE DEF TabIInv, IInv, TabTypeOK, HoldingInv, TabTellsTheTruth, Stay, RefreshTo, Opens, Authtok, Works
<1>2. CASE Continue
  BY <1>1, <1>2 DEF Continue, BeginEnable, Begin, Refused
<1>3. CASE ReplaceKey
  BY <1>1, <1>3 DEF ReplaceKey
<1>4. CASE Reveal
  BY <1>1, <1>4 DEF Reveal
<1>5. CASE AlsoPassword
  BY <1>1, <1>5 DEF AlsoPassword
<1>6. CASE TurnOff
  BY <1>1, <1>6 DEF TurnOff
<1>7. CASE DeleteCopy
  BY <1>1, <1>7 DEF DeleteCopy
<1>8. CASE SavedIt
  <2>1. TabTypeOK'
    BY <1>1, <1>8, TurnType DEF SavedIt
  <2>2. HoldingInv'
    BY <1>1, <1>8 DEF SavedIt, Confirm, Goto, End, SessionInv, SessionOf, SealedInv
  <2>3. TabTellsTheTruth'
    BY <1>1, <1>8 DEF SavedIt, Confirm, Goto, End, SessionInv, SessionOf, SealedInv
  <2> QED BY <1>1, <2>1, <2>2, <2>3
<1>9. CASE Finish
  BY <1>1, <1>9 DEF Finish
<1>10. CASE Turn
  <2>1. TabTypeOK'
    BY <1>1, <1>10, TurnType DEF Turn, LooksEnabled
  <2>2. HoldingInv'
    BY <1>1, <1>10 DEF Turn
  <2>3. TabTellsTheTruth'
    BY <1>1, <1>10 DEF Turn
  <2> QED BY <1>1, <2>1, <2>2, <2>3
<1>11. CASE PollJob
  <2>1. TabTypeOK'
    <3>1. Outcome \in Stages
      BY DEF Outcome
    <3> QED BY <1>1, <1>11, <3>1, TurnType DEF PollJob
  <2>2. HoldingInv'
    BY <1>1, <1>11 DEF PollJob, Show, End, Outcome, SessionInv, SessionOf, SealedInv
  <2>3. TabTellsTheTruth'
    BY <1>1, <1>11 DEF PollJob, Show, End, Outcome, SessionInv, SessionOf, SealedInv
  <2> QED BY <1>1, <2>1, <2>2, <2>3
<1>12. CASE PollRekey
  <2>1. TabTypeOK'
    BY <1>1, <1>12, TurnType DEF PollRekey
  <2>2. CASE Show /\ RefreshTo("done")
    <3>1. HoldingInv'
      BY <2>2
    <3>2. op = "enable" /\ wired' = wired /\ "fingerprint" \in wired
          /\ sealed' = keyring' /\ sealed' \in Keys
      BY <1>12, <2>2 DEF PollRekey, Show, SessionInv, SealedInv, StacksInv
    <3>3. TabTellsTheTruth'
      BY <2>2, <3>2
    <3> QED BY <1>1, <2>1, <3>1, <3>3
  <2>3. CASE pc = "idle" /\ Stay("failed") /\ UNCHANGED vars
    <3>1. HoldingInv'
      BY <2>3
    <3>2. TabTellsTheTruth'
      BY <2>3
    <3> QED BY <1>1, <2>1, <3>1, <3>2
  <2> QED BY <1>12, <2>2, <2>3 DEF PollRekey
<1>13. CASE Disconnected
  BY <1>1, <1>13 DEF Disconnected
<1>14. CASE Job
  <2>1. UNCHANGED tab
    BY <1>14 DEF Job
  <2>2. CASE stage = "working"
    BY <1>1, <2>1, <2>2 DEF tab
  <2>3. CASE stage = "rekeying" /\ pc = "rekey"
    <3>1. Rekey
      BY <1>14, <2>3 DEF Job, Runs, HelperRuns, Keep, Seal, Verify, Save, Wire, Wired,
                         Restore, Resave, Unwire
    <3>2. op' = op /\ pc' \in {"idle", "show"}
      BY <2>3, <3>1 DEF Rekey, Goto, End
    <3> QED BY <1>1, <2>1, <2>3, <3>2 DEF tab
  <2> QED BY <1>14, <2>2, <2>3 DEF Job
<1>15. CASE Reopen
  <2>1. TabTypeOK'
    BY <1>1, <1>15, TurnType DEF Reopen
  <2>2. HoldingInv'
    BY <1>1, <1>15 DEF Reopen
  <2>3. TabTellsTheTruth'
    <3>1. wired' = wired
      BY <1>15 DEF Reopen, Kill, Orphaned
    <3>2. stage' = "idle" /\ seen' = wired
      BY <1>15 DEF Reopen
    <3> QED BY <3>1, <3>2
  <2> QED BY <1>1, <2>1, <2>2, <2>3
<1>16. CASE Tool
  BY <1>1, <1>16 DEF Tool, Holding
<1>17. CASE UNCHANGED tabVars
  BY <1>1, <1>17 DEF tabVars, tab
<1> QED BY <1>2, <1>3, <1>4, <1>5, <1>6, <1>7, <1>8, <1>9, <1>10, <1>11, <1>12,
           <1>13, <1>14, <1>15, <1>16, <1>17 DEF TabNext

-----------------------------------------------------------------------------
(* The strengthened invariant of tab, tool and keyring together.           *)
THEOREM Inductive == TabSpec => []TabIInv
  BY TabInitInv, TabStep, PTL DEF TabSpec

(* Every variable keeps its type.                                          *)
THEOREM TypeCorrect == TabSpec => []TabTypeOK
  BY Inductive, PTL DEF TabIInv

(* docs/keyring.md:299: a rotation keeps the keyring's key in one of the   *)
(* two blobs, wherever it fails or is killed.                              *)
THEOREM RotationIsSafe == TabSpec => []RotationKeepsKey
  BY Inductive, PTL DEF TabIInv, IInv

(* What says that it is done, and what the tab calls the old key's return, *)
(* leaves blob, recovery file and keyring in step.                         *)
THEOREM DoneIsInStep == TabSpec => []EndsInStep
  BY Inductive, PTL DEF TabIInv, IInv

(* What the tab shows is so, as far as neither the tool nor a helper that  *)
(* outlived its window has changed it since.                               *)
THEOREM TabIsTrue == TabSpec => []TabTellsTheTruth
  BY Inductive, PTL DEF TabIInv

-----------------------------------------------------------------------------
(* What a step does to wires and keyring, whoever takes it.                *)
LEMMA WireOrKey ==
    ASSUME [TabNext]_tabVars, wired' # wired \/ keyring' # keyring
    PROVE  Wire \/ Unwire \/ Rekey \/ ResetByHand
<1> USE DEF Begin, OneStep
<1>1. UNCHANGED vars \/ Sessions \/ TurnOff \/ Runs \/ Confirm \/ Show \/ Kill
        \/ Orphaned \/ \E session \in Buttons : Refused(session)
  BY DEF TabNext, Continue, ReplaceKey, Reveal, AlsoPassword, DeleteCopy, SavedIt,
         Finish, Turn, PollJob, PollRekey, Disconnected, Job, Reopen, Tool, Sessions,
         Runs, Buttons, tabVars
<1>2. ~UNCHANGED <<wired, keyring>>
  OBVIOUS
<1>3. CASE Sessions \/ TurnOff \/ \E session \in Buttons : Refused(session)
  BY <1>2, <1>3 DEF Sessions, BeginEnable, BeginRotate, BeginRollback, BeginWirePassword,
         BeginDisable, ForgetRecoveryFile, ShowKey, TurnOff, Refused
<1>4. CASE Runs \/ Confirm \/ Show \/ Kill \/ Orphaned
  BY <1>2, <1>4 DEF Runs, HelperRuns, Keep, Seal, Verify, Save, Wired, Restore, Resave, Confirm,
         Show, Kill, Orphaned
<1> QED BY <1>1, <1>2, <1>3, <1>4

(* lib.rs:24: nothing is wired until the seal has round tripped.           *)
THEOREM WiresAfterSeal == TabSpec => WiredAfterSeal
<1>1. TabIInv /\ [TabNext]_tabVars =>
        [op = "enable" /\ wired' # wired => sealed = new /\ recovery = new]_vars
  <2> SUFFICES ASSUME TabIInv, [TabNext]_tabVars, op = "enable", wired' # wired
               PROVE  sealed = new /\ recovery = new
    OBVIOUS
  <2>1. Wire \/ Unwire \/ Rekey \/ ResetByHand
    BY WireOrKey
  <2> QED BY <2>1 DEF TabIInv, IInv, SessionInv, SessionOf, SealedInv, Wire, Unwire,
                      Rekey, ResetByHand, OneStep
<1> QED BY <1>1, Inductive, PTL DEF TabSpec, WiredAfterSeal

(* The keyring takes no key that blob and recovery file do not both hold.  *)
THEOREM KeysAfterSave == TabSpec => KeyedAfterSave
<1>1. TabIInv /\ [TabNext]_tabVars =>
        [keyring' \notin {keyring, Account} => sealed = keyring' /\ recovery = keyring']_vars
  <2> SUFFICES ASSUME TabIInv, [TabNext]_tabVars, keyring' \notin {keyring, Account}
               PROVE  sealed = keyring' /\ recovery = keyring'
    OBVIOUS
  <2>1. Wire \/ Unwire \/ Rekey \/ ResetByHand
    BY WireOrKey
  <2> QED BY <2>1 DEF TabIInv, IInv, SealedInv, Wire, Unwire, Rekey, ResetByHand, OneStep
<1> QED BY <1>1, Inductive, PTL DEF TabSpec, KeyedAfterSave
=============================================================================
