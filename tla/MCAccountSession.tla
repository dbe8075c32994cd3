-------------------------- MODULE MCAccountSession --------------------------
(* Instances of AccountSession for TLC. *)
EXTENDS AccountSession, TLC

(* Accounts, keys and clients are interchangeable. *)
Interchangeable == Permutations(Account) \cup Permutations(Key) \cup Permutations(Client)
=============================================================================
