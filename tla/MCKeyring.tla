----------------------------- MODULE MCKeyring -----------------------------
EXTENDS KeyringTab, TLC

(* Keys are drawn at random: any of them will do.                          *)
Interchangeable == Permutations(Keys)
=============================================================================
