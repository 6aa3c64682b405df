---------------------------- MODULE PasswordStore ----------------------------
(***************************************************************************)
(* What the keyring worker promises the window (launcher/src/keyring.rs):  *)
(* passwords change in the order in which the window asked for it, each    *)
(* change touching the one computer, address and account it is for.        *)
(* Nothing is promised about a password after a change of it has failed.   *)
(***************************************************************************)
CONSTANTS
  Profiles,  (* identifiers of saved computers                             *)
  Places,    (* an address together with an account on it                  *)
  Secrets,   (* passwords                                                  *)
  None       (* no password                                                *)

VARIABLES
  kept,      (* the password of each computer, address and account         *)
  legacy,    (* computers with an item of an old release, bound to neither *)
  trouble    (* passwords a change of which has failed                     *)

storeVars == <<kept, legacy, trouble>>

(* backend.rs: a password belongs to an account on a computer.             *)
Credentials == [profile : Profiles, place : Places]

Init ==
  /\ kept \in [Credentials -> Secrets \cup {None}]
  /\ legacy \in SUBSET Profiles
  /\ trouble = {}

(* set and delete: `word` is the new password, None to forget it. Items of *)
(* old releases for the same computer go with it.                          *)
Word(key, word) ==
  /\ kept' = [kept EXCEPT ![key] = word]
  /\ legacy' = legacy \ {key.profile}
  /\ UNCHANGED trouble

(* A change that failed, at once or after others have been asked for.      *)
Lose(key) ==
  /\ trouble' = trouble \cup {key}
  /\ \E word \in Secrets \cup {None} : kept' = [kept EXCEPT ![key] = word]
  /\ legacy' \in {legacy, legacy \cup {key.profile}, legacy \ {key.profile}}

Next == \E key \in Credentials : Lose(key) \/ \E word \in Secrets \cup {None} : Word(key, word)

Spec == Init /\ [][Next]_storeVars
=============================================================================
