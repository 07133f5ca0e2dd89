------------------------------- MODULE Unseal -------------------------------
(***************************************************************************)
(* What the PAM module promises of one authentication: it answers, with    *)
(* the whole secret in PAM_AUTHTOK or with PAM_AUTHTOK as it was, and it   *)
(* never touches it again.                                                 *)
(***************************************************************************)
EXTENDS Integers

CONSTANT Size      \* chunks of the secret; 0 is a token nobody has set

VARIABLES answered, token

vars == <<answered, token>>

Init == answered = FALSE /\ token = 0

Answer ==
    /\ ~answered
    /\ answered' = TRUE
    /\ token' \in {0, Size}

Safety == Init /\ [][Answer]_vars

Spec == Safety /\ WF_vars(Answer)
=============================================================================
