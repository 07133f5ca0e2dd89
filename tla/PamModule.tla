------------------------------ MODULE PamModule ------------------------------
(***************************************************************************)
(* One authentication with the PAM module (crates/pam-elanprint-keyring):  *)
(* the thread that libpam calls, the helper process that unseals the       *)
(* secret, its two pipes, and a reader thread for each of them.  The       *)
(* helper is external: it may be chatty, slow, fail, or hang for ever, and *)
(* only says success after it has written the whole secret.  What is       *)
(* written is counted in chunks.                                           *)
(***************************************************************************)
EXTENDS Integers

CONSTANTS SecretLen,  \* chunks of the secret
          PipeCap,    \* chunks that a pipe holds
          ErrCap,     \* STDERR_CAP
          MaxNoise    \* bound: chunks the helper writes to stderr

ASSUME PamAssumption ==
    /\ SecretLen \in Nat \ {0} /\ PipeCap \in Nat \ {0}
    /\ ErrCap \in Nat \ {0} /\ MaxNoise \in Nat

VARIABLES
    mod,        \* place of the thread that libpam called
    child,      \* the helper
    exit,       \* how it ended
    secret,     \* what the blob unseals to
    written, noise,         \* chunks the helper has written, by pipe
    closed,                 \* it has closed its stdout
    out, err,               \* chunks in the pipes
    got, heard,             \* chunks the reader threads have taken
    outThread, errThread,   \* the reader threads and their channels
    captured,   \* what recv_timeout returned
    status,     \* what reap returned
    panicked,   \* catch_unwind has caught something
    authtok     \* chunks in PAM_AUTHTOK, 0 if it was left alone

helper  == <<child, exit, secret, written, noise, closed>>
readers == <<out, err, got, heard, outThread, errThread>>
answers == <<captured, status, panicked, authtok>>
vars    == <<mod, helper, readers, answers>>

(* A password, nothing but line ends, or something with a NUL in it.       *)
Secrets == {"plain", "blank", "nul"}

Init ==
    /\ mod = "start" /\ child = "none" /\ exit = "none"
    /\ secret \in Secrets /\ written = 0 /\ noise = 0 /\ closed = FALSE
    /\ out = 0 /\ err = 0 /\ got = 0 /\ heard = 0
    /\ outThread = "none" /\ errThread = "none"
    /\ captured = "none" /\ status = "none" /\ panicked = FALSE /\ authtok = 0

-----------------------------------------------------------------------------
(* The helper.                                                             *)
Running == child = "running"

Ends(how) == child' = "zombie" /\ exit' = how

WriteOut ==
    /\ Running /\ ~closed /\ written < SecretLen /\ out < PipeCap
    /\ outThread # "error"
    /\ written' = written + 1 /\ out' = out + 1
    /\ UNCHANGED <<mod, child, exit, secret, noise, closed, err, got, heard,
                   outThread, errThread, answers>>

WriteErr ==
    /\ Running /\ noise < MaxNoise /\ err < PipeCap /\ errThread # "sent"
    /\ noise' = noise + 1 /\ err' = err + 1
    /\ UNCHANGED <<mod, child, exit, secret, written, closed, out, got, heard,
                   outThread, errThread, answers>>

(* SIGPIPE: the reader is gone, and Command gives the helper the default   *)
(* action.                                                                 *)
BrokenPipe ==
    /\ Running
    /\ \/ errThread = "sent" /\ noise < MaxNoise
       \/ outThread = "error" /\ ~closed /\ written < SecretLen
    /\ Ends("signal")
    /\ UNCHANGED <<mod, secret, written, noise, closed, readers, answers>>

CloseOut ==
    /\ Running /\ ~closed
    /\ closed' = TRUE
    /\ UNCHANGED <<mod, child, exit, secret, written, noise, readers, answers>>

Exit ==
    /\ Running
    /\ \/ written = SecretLen /\ Ends("success")
       \/ Ends("failure")
    /\ UNCHANGED <<mod, secret, written, noise, closed, readers, answers>>

-----------------------------------------------------------------------------
(* The reader threads: stdout to its end, of stderr the first ErrCap.      *)
ReadOut ==
    /\ outThread = "reading"
    /\ \/ out > 0 /\ out' = out - 1 /\ got' = got + 1 /\ UNCHANGED outThread
       \/ out = 0 /\ (closed \/ ~Running) /\ outThread' = "bytes"
          /\ UNCHANGED <<out, got>>
    /\ UNCHANGED <<mod, helper, err, heard, errThread, answers>>

(* A read error ends the thread, and its end of the pipe with it.          *)
ReadFails ==
    /\ outThread = "reading"
    /\ outThread' = "error" /\ out' = 0
    /\ UNCHANGED <<mod, helper, err, got, heard, errThread, answers>>

(* Mutant: stderr is read after the helper has exited.                     *)
ReadErrAfterExit ==
    /\ errThread = "reading" /\ ~Running
    /\ errThread' = "sent" /\ err' = 0
    /\ UNCHANGED <<mod, helper, out, got, heard, outThread, answers>>

(* Mutant: the cap is tested after the read.                               *)
ReadErrPastCap ==
    /\ errThread = "reading"
    /\ \/ err > 0 /\ heard <= ErrCap /\ err' = err - 1 /\ heard' = heard + 1
          /\ UNCHANGED errThread
       \/ /\ heard > ErrCap \/ (err = 0 /\ ~Running)
          /\ errThread' = "sent" /\ err' = 0 /\ UNCHANGED heard
    /\ UNCHANGED <<mod, helper, out, got, outThread, answers>>

ReadErr ==
    /\ errThread = "reading"
    /\ \/ err > 0 /\ heard < ErrCap /\ err' = err - 1 /\ heard' = heard + 1
          /\ UNCHANGED errThread
       \/ /\ heard = ErrCap \/ (err = 0 /\ ~Running)
          /\ errThread' = "sent" /\ err' = 0 /\ UNCHANGED heard
    /\ UNCHANGED <<mod, helper, out, got, outThread, answers>>

-----------------------------------------------------------------------------
(* run: the helper and its readers are started.  A thread that cannot be   *)
(* created is a panic, which drops the child without a wait.               *)
Return == mod' = "returned"

Spawn ==
    /\ mod = "start"
    /\ \/ child' = "running" /\ mod' = "threads"
       \/ UNCHANGED child /\ Return
    /\ UNCHANGED <<exit, secret, written, noise, closed, readers, answers>>

StartReaders ==
    /\ mod = "threads"
    /\ \/ outThread' = "reading" /\ errThread' = "reading" /\ mod' = "recv"
          /\ UNCHANGED panicked
       \/ outThread' \in {"error", "reading"} /\ errThread' = "sent"
          /\ panicked' = TRUE /\ Return
    /\ UNCHANGED <<helper, out, err, got, heard, captured, status, authtok>>

(* Mutant: what has been read so far will do.                              *)
RecvSome ==
    /\ mod = "recv"
    /\ \/ outThread \in {"bytes", "error"} /\ captured' = outThread
       \/ outThread = "reading" /\ captured' = "bytes"
    /\ mod' = "reap"
    /\ UNCHANGED <<helper, readers, status, panicked, authtok>>

(* recv_timeout: the answer, or TIMEOUT when there is none.                *)
Recv ==
    /\ mod = "recv"
    /\ \/ outThread \in {"bytes", "error"} /\ captured' = outThread
       \/ outThread = "reading" /\ captured' = "timeout"
    /\ mod' = "reap"
    /\ UNCHANGED <<helper, readers, status, panicked, authtok>>

(* reap: try_wait until GRACE is over.                                     *)
TryWait ==
    /\ mod = "reap" /\ child = "zombie"
    /\ child' = "reaped" /\ status' = exit
    /\ mod' = IF exit = "success" THEN "decide" ELSE "why"
    /\ UNCHANGED <<exit, secret, written, noise, closed, readers,
                   captured, panicked, authtok>>

GraceOver ==
    /\ mod = "reap" /\ Running
    /\ mod' = "kill"
    /\ UNCHANGED <<helper, readers, answers>>

(* Mutant: nobody waits for a helper that is late.                         *)
KillNobody ==
    /\ mod = "kill"
    /\ status' = "killed" /\ mod' = "why"
    /\ UNCHANGED <<helper, readers, captured, panicked, authtok>>

(* kill and wait; a helper that has just exited is not asked how.          *)
Kill ==
    /\ mod = "kill"
    /\ child' = "reaped" /\ exit' = IF Running THEN "signal" ELSE exit
    /\ status' = "killed" /\ mod' = "why"
    /\ UNCHANGED <<secret, written, noise, closed, readers,
                   captured, panicked, authtok>>

(* The first line of stderr for the log, or GRACE.                         *)
Why ==
    /\ mod = "why"
    /\ mod' = "decide"
    /\ UNCHANGED <<helper, readers, answers>>

(* Mutant: how the helper ended does not matter.                           *)
DecideUnclean ==
    /\ mod = "decide"
    /\ \/ captured = "bytes" /\ secret = "plain" /\ authtok' = got
       \/ UNCHANGED authtok
    /\ Return
    /\ UNCHANGED <<helper, readers, captured, status, panicked>>

(* The end of run, decrypt, to_token; pam_set_item may fail.               *)
Decide ==
    /\ mod = "decide"
    /\ \/ captured = "bytes" /\ status = "success" /\ secret = "plain"
          /\ authtok' = got
       \/ UNCHANGED authtok
    /\ Return
    /\ UNCHANGED <<helper, readers, captured, status, panicked>>

-----------------------------------------------------------------------------
Helper == WriteOut \/ WriteErr \/ BrokenPipe \/ CloseOut \/ Exit

Module ==
    \/ Spawn \/ StartReaders \/ Recv \/ TryWait \/ GraceOver
    \/ Kill \/ Why \/ Decide

Next == Helper \/ ReadOut \/ ReadFails \/ ReadErr \/ Module

Spec == Init /\ [][Next]_vars

(* Every wait of the module has a time limit, and a killed process dies.   *)
(* Nothing is assumed of the helper.                                       *)
FairSpec == Spec /\ WF_vars(Module) /\ WF_vars(ReadOut) /\ WF_vars(ReadErr)

-----------------------------------------------------------------------------
Threads == {"none", "reading"}

TypeOK ==
    /\ mod \in {"start", "threads", "recv", "reap", "kill", "why", "decide", "returned"}
    /\ child \in {"none", "running", "zombie", "reaped"}
    /\ exit \in {"none", "success", "failure", "signal"} /\ secret \in Secrets
    /\ written \in 0..SecretLen /\ noise \in 0..MaxNoise /\ closed \in BOOLEAN
    /\ out \in 0..PipeCap /\ err \in 0..PipeCap
    /\ got \in 0..SecretLen /\ heard \in 0..ErrCap
    /\ outThread \in Threads \cup {"bytes", "error"}
    /\ errThread \in Threads \cup {"sent"}
    /\ captured \in {"none", "bytes", "error", "timeout"}
    /\ status \in {"none", "success", "failure", "signal", "killed"}
    /\ panicked \in BOOLEAN /\ authtok \in 0..SecretLen

(* No login gets a part of the secret, or the output of a helper that      *)
(* failed, was killed or was late: the token is the whole of what a        *)
(* successful helper has written (lib.rs:183, "if !clean").                *)
WholeOrNothing ==
    authtok # 0 => authtok = SecretLen /\ exit = "success" /\ secret = "plain"

(* A helper is waited for on every way out, hanging, killed or just        *)
(* exited, unless a panic has dropped it.                                  *)
Reaped == mod = "returned" /\ ~panicked => child \in {"none", "reaped"}

(* What is in the pipe or read is what has been written, until the reader  *)
(* of stdout fails; when it has seen the end it has all there will be.     *)
FlowInv ==
    /\ got + out <= written
    /\ outThread \in Threads => got + out = written
    /\ outThread = "bytes" => got = written /\ (closed \/ ~Running)

(* A helper that says success has written everything, and is asked once.   *)
HelperInv ==
    /\ Running => exit = "none"
    /\ exit = "success" => written = SecretLen
    /\ status = "success" => exit = "success" /\ child = "reaped"

(* Where the module is, and what it has by then.                           *)
PlaceInv ==
    /\ mod = "start" => child = "none" /\ exit = "none"
    /\ mod \in {"start", "threads"} => outThread = "none"
    /\ mod \in {"why", "decide"} => child = "reaped"
    /\ captured = "bytes" => outThread = "bytes"
    /\ mod # "returned" => authtok = 0

(* A reader thread that has ended leaves an empty pipe, which nobody fills *)
(* again, unless it never started; the module waits only with both.        *)
DrainInv ==
    /\ panicked => mod = "returned"
    /\ outThread \in {"bytes", "error"} => out = 0 \/ panicked
    /\ errThread = "sent" => err = 0 \/ panicked
    /\ outThread = "none" => mod \in {"start", "threads", "returned"}
    /\ errThread = "none" <=> outThread = "none"

(* The strengthened invariant: every fact the safety of the answer rests   *)
(* on.                                                                     *)
IInv ==
    /\ TypeOK /\ FlowInv /\ HelperInv /\ PlaceInv /\ DrainInv
    /\ WholeOrNothing /\ Reaped

(* lib.rs:143 "Drained on its own thread, or a chatty child fills the pipe *)
(* and blocks": while the module waits, a helper never blocks on a full    *)
(* pipe that nobody will empty.                                            *)
PipesDrained ==
    mod = "recv" /\ Running =>
        /\ out = PipeCap => ENABLED ReadOut
        /\ err = PipeCap => ENABLED ReadErr

(* The same, without ENABLED: who would take the next chunk, and that      *)
(* there is one.                                                           *)
FullPipesAreRead ==
    mod = "recv" /\ Running =>
        /\ out = PipeCap => outThread = "reading" /\ out > 0
        /\ err = PipeCap => errThread = "reading" /\ err > 0

(* The reader threads end after the call, even with a helper that hangs.   *)
ReadersEnd ==
    mod = "returned" /\ ~panicked ~>
        outThread # "reading" /\ errThread # "reading"

(* The module implements Unseal: one answer, whole or none, and always an  *)
(* answer, whatever the helper does.                                       *)
Promise == INSTANCE Unseal WITH
    Size <- SecretLen, answered <- mod = "returned", token <- authtok

ImplementsUnseal == Promise!Spec
=============================================================================
