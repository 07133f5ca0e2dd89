------------------------------ MODULE MCWindow ------------------------------
EXTENDS Window, SequencesExt

Perms == Permutations(Tasks) \cup Permutations(Fingers)

-----------------------------------------------------------------------------
(* Every byte of the sensor becomes a status that the session knows, and   *)
(* only a byte that can be a slot becomes a match.                         *)
ASSUME BytesFailClosed ==
    \A byte \in Bytes :
        /\ VerifyStatus(byte) \in Results \ {"garbage"}
        /\ VerifyStatus(byte) = "match" <=> byte < 16

(* What the session makes of a sequence of statuses.                       *)
After(statuses, max) ==
    FoldLeft(LAMBDA s, status : Step(s, status, max).session, Begin, statuses)

Misses(statuses) == Len(SelectSeq(statuses, LAMBDA s : s.result = "no-match"))

(* The reference: the first status that ends the session decides, and all  *)
(* but a terminal match, a reader that is gone and the last try leave it.  *)
EndsWith(statuses, max) ==
    \/ statuses[Len(statuses)] = TerminalMatch
    \/ statuses[Len(statuses)].result \in {"disconnected", "unknown-error"}
    \/ statuses[Len(statuses)].result = "no-match" /\ Misses(statuses) = max

ASSUME SessionFollowsReference ==
    \A n \in 1..4, max \in 1..2 : \A statuses \in [1..n -> Statuses] :
        LET ends == {i \in 1..n : EndsWith(SubSeq(statuses, 1, i), max)}
            first == CHOOSE i \in ends : \A j \in ends : i <= j
        IN After(statuses, max).is =
             IF ends = {} THEN "waiting"
             ELSE CASE statuses[first] = TerminalMatch -> "succeeded"
                    [] statuses[first].result = "no-match" -> "locked"
                    [] OTHER -> "failed"
=============================================================================
