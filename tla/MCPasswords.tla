---------------------------- MODULE MCPasswords ----------------------------
(* Instances of Passwords for TLC: a password for every place it may be    *)
(* meant for.                                                              *)
EXTENDS Passwords

CONSTANTS p1, p2, here, there, blank
MCSecrets == [for : {key \in Credentials : key.place \in Accounts}]
MCSymmetry == Permutations({here, there}) \cup Permutations({p1, p2})
MCIntended == [s \in MCSecrets |-> s.for]
=============================================================================
