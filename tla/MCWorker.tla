------------------------------ MODULE MCWorker ------------------------------
EXTENDS Worker, TLC

(* Users and fingers are interchangeable.                                  *)
Interchangeable == Permutations(Users) \cup Permutations(Fingers)
=============================================================================
