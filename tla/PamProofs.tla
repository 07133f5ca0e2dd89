----------------------------- MODULE PamProofs -----------------------------
(***************************************************************************)
(* Proofs about the PAM module: for a secret of any length, pipes of any   *)
(* size, any cap on stderr and any noise.                                  *)
(***************************************************************************)
EXTENDS PamModule, TLAPS

USE DEF vars, helper, readers, answers, Secrets, Threads, Running, Ends, Return

(* Before the call there is nothing to keep.                               *)
LEMMA InitInv == Init => IInv
<1> SUFFICES ASSUME Init PROVE IInv
  OBVIOUS
<1>1. TypeOK
  <2>1. closed \in BOOLEAN /\ panicked \in BOOLEAN
    BY Zenon DEF Init
  <2>2. /\ 0 \in 0..SecretLen /\ 0 \in 0..MaxNoise
        /\ 0 \in 0..PipeCap /\ 0 \in 0..ErrCap
    BY PamAssumption
  <2> QED BY <2>1, <2>2, Zenon DEF Init, TypeOK
<1>2. FlowInv /\ HelperInv /\ PlaceInv /\ DrainInv
  <2>1. FlowInv /\ HelperInv /\ PlaceInv
    BY DEF Init, FlowInv, HelperInv, PlaceInv
  <2>2. DrainInv
    BY DEF Init, DrainInv
  <2> QED BY <2>1, <2>2
<1>3. WholeOrNothing /\ Reaped
  BY DEF Init, WholeOrNothing, Reaped
<1> QED BY <1>1, <1>2, <1>3 DEF IInv

(* The helper's steps leave the module alone.                              *)
LEMMA HelperStep == IInv /\ Helper => IInv'
<1> SUFFICES ASSUME IInv, Helper PROVE IInv'
  OBVIOUS
<1> USE PamAssumption
        DEF IInv, TypeOK, FlowInv, HelperInv, PlaceInv, DrainInv,
            WholeOrNothing, Reaped
<1>1. CASE WriteOut
  BY <1>1 DEF WriteOut
<1>2. CASE WriteErr
  BY <1>2 DEF WriteErr
<1>3. CASE BrokenPipe
  BY <1>3 DEF BrokenPipe
<1>4. CASE CloseOut
  BY <1>4 DEF CloseOut
<1>5. CASE Exit
  BY <1>5 DEF Exit
<1> QED BY <1>1, <1>2, <1>3, <1>4, <1>5 DEF Helper

(* The reader threads move chunks, and lose none that a reader will count. *)
LEMMA ReaderStep == IInv /\ (ReadOut \/ ReadFails \/ ReadErr) => IInv'
<1> SUFFICES ASSUME IInv, ReadOut \/ ReadFails \/ ReadErr PROVE IInv'
  OBVIOUS
<1> USE PamAssumption
        DEF IInv, TypeOK, FlowInv, HelperInv, PlaceInv, DrainInv,
            WholeOrNothing, Reaped
<1>1. CASE ReadOut
  BY <1>1 DEF ReadOut
<1>2. CASE ReadFails
  BY <1>2 DEF ReadFails
<1>3. CASE ReadErr
  BY <1>3 DEF ReadErr
<1> QED BY <1>1, <1>2, <1>3

(* The steps of the thread that libpam called.                             *)
LEMMA ModuleStep == IInv /\ Module => IInv'
<1> SUFFICES ASSUME IInv, Module PROVE IInv'
  OBVIOUS
<1> USE PamAssumption
        DEF IInv, TypeOK, FlowInv, HelperInv, PlaceInv, DrainInv,
            WholeOrNothing, Reaped
<1>1. CASE Spawn
  BY <1>1 DEF Spawn
<1>2. CASE StartReaders
  <2>1. TypeOK'
    <3>1. /\ outThread' \in Threads \cup {"bytes", "error"}
          /\ errThread' \in Threads \cup {"sent"}
          /\ mod' \in {"start", "threads", "recv", "reap", "kill", "why",
                       "decide", "returned"}
      BY <1>2 DEF StartReaders
    <3>2. panicked' \in BOOLEAN
      BY <1>2, Zenon DEF StartReaders
    <3>3. UNCHANGED <<helper, out, err, got, heard, captured, status, authtok>>
      BY <1>2 DEF StartReaders
    <3> QED BY <3>1, <3>2, <3>3
  <2>2. FlowInv' /\ HelperInv' /\ PlaceInv' /\ DrainInv'
    BY <1>2 DEF StartReaders
  <2>3. WholeOrNothing' /\ Reaped'
    BY <1>2 DEF StartReaders
  <2> QED BY <2>1, <2>2, <2>3
<1>3. CASE Recv
  BY <1>3 DEF Recv
<1>4. CASE TryWait
  BY <1>4 DEF TryWait
<1>5. CASE GraceOver
  BY <1>5 DEF GraceOver
<1>6. CASE Kill
  <2>1. TypeOK'
    <3>1. /\ child' \in {"none", "running", "zombie", "reaped"}
          /\ exit' \in {"none", "success", "failure", "signal"}
          /\ mod' \in {"start", "threads", "recv", "reap", "kill", "why",
                       "decide", "returned"}
          /\ status' \in {"none", "success", "failure", "signal", "killed"}
      BY <1>6 DEF Kill
    <3>2. UNCHANGED <<secret, written, noise, closed, readers,
                      captured, panicked, authtok>>
      BY <1>6 DEF Kill
    <3> QED BY <3>1, <3>2, Zenon
  <2>2. FlowInv' /\ HelperInv' /\ DrainInv'
    BY <1>6 DEF Kill
  <2>3. PlaceInv' /\ WholeOrNothing' /\ Reaped'
    BY <1>6 DEF Kill
  <2> QED BY <2>1, <2>2, <2>3
<1>7. CASE Why
  BY <1>7 DEF Why
<1>8. CASE Decide
  (* Bytes and success together: the whole secret was written, and read.   *)
  <2>1. captured = "bytes" /\ status = "success" => got = SecretLen
    OBVIOUS
  <2> QED BY <1>8, <2>1 DEF Decide
<1> QED BY <1>1, <1>2, <1>3, <1>4, <1>5, <1>6, <1>7, <1>8 DEF Module

(* The strengthened invariant of the call.                                 *)
THEOREM Inductive == Spec => []IInv
<1>1. IInv /\ [Next]_vars => IInv'
  <2> SUFFICES ASSUME IInv, [Next]_vars PROVE IInv'
    OBVIOUS
  <2>1. CASE UNCHANGED vars
    BY <2>1 DEF IInv, TypeOK, FlowInv, HelperInv, PlaceInv, DrainInv,
                WholeOrNothing, Reaped
  <2> QED BY <2>1, HelperStep, ReaderStep, ModuleStep DEF Next
<1> QED BY <1>1, InitInv, PTL DEF Spec

(* Every variable of the call keeps its type; no counter passes its bound. *)
THEOREM TypeCorrect == Spec => []TypeOK
  BY Inductive, PTL DEF IInv

(* lib.rs:183: no login gets a part of a secret, or anything from a helper *)
(* that failed, was killed or was late.                                    *)
THEOREM TokenIsWhole == Spec => []WholeOrNothing
  BY Inductive, PTL DEF IInv

(* lib.rs:190-206: a helper is waited for on every way out but a panic.    *)
THEOREM HelperReaped == Spec => []Reaped
  BY Inductive, PTL DEF IInv

(* lib.rs:143: while the module waits for a helper that runs, a full pipe  *)
(* has its reader thread, which has a chunk to take: the helper does not   *)
(* block for good.  What PipesDrained says with ENABLED follows from this. *)
THEOREM HelperIsHeard == Spec => []FullPipesAreRead
<1>1. IInv => FullPipesAreRead
  BY PamAssumption DEF IInv, TypeOK, PlaceInv, DrainInv, FullPipesAreRead
<1> QED BY <1>1, Inductive, PTL

(* The module implements the safety of Unseal: it answers at most once,    *)
(* and the token is set with the answer or never.                          *)
THEOREM AnswersOnce == Spec => Promise!Safety
<1>1. Init => Promise!Init
  BY DEF Init, Promise!Init
<1>2. IInv /\ [Next]_vars => [Promise!Answer]_(Promise!vars)
  <2> SUFFICES ASSUME IInv, [Next]_vars
               PROVE  Promise!Answer \/ UNCHANGED <<mod = "returned", authtok>>
    BY DEF Promise!vars
  <2> USE DEF IInv, PlaceInv
  <2>1. CASE UNCHANGED vars \/ Helper \/ ReadOut \/ ReadFails \/ ReadErr
    BY <2>1 DEF Helper, WriteOut, WriteErr, BrokenPipe, CloseOut, Exit,
                ReadOut, ReadFails, ReadErr
  <2>2. CASE Recv \/ TryWait \/ GraceOver \/ Kill \/ Why
    BY <2>2 DEF Recv, TryWait, GraceOver, Kill, Why
  <2>3. CASE Spawn \/ StartReaders
    BY <2>3 DEF Spawn, StartReaders, Promise!Answer
  <2>4. CASE Decide
    <3>1. mod = "decide" /\ mod' = "returned" /\ authtok' \in {authtok, got}
      BY <2>4 DEF Decide
    <3>2. authtok' \in {0, SecretLen}
      BY <2>4, <3>1 DEF Decide, HelperInv, FlowInv
    <3> QED BY <3>1, <3>2 DEF Promise!Answer
  <2> QED BY <2>1, <2>2, <2>3, <2>4 DEF Next, Module
<1> QED BY <1>1, <1>2, Inductive, PTL DEF Spec, Promise!Safety
=============================================================================
