------------------------------ MODULE Keyboard ------------------------------
(***************************************************************************)
(* Physical keys on the wire (session/src/keymap.rs and the keyboard event *)
(* of session/src/app.rs): a key is sent as a scan code, extended or not,  *)
(* and the remote desktop knows nothing else of it. A key that the system  *)
(* reports only when it goes up is pressed by the session itself.          *)
(***************************************************************************)
EXTENDS Naturals, FiniteSets

CONSTANTS
  Codes,       (* the scan codes of the keys that have one: see Keymap      *)
  Platforms,   (* "windows", "windows-korean", "other": explored            *)
  MaxDown      (* bound: keys held at once                                  *)

VARIABLES
  platform,    (* the client's operating system and keyboard layout         *)
  down,        (* environment: keys the user's hands hold down              *)
  remote,      (* scan codes the remote desktop holds down                  *)
  unheard      (* history: keys that went up without the remote desktop     *)
               (* ever having been told that they were down                 *)

keyVars == <<platform, down, remote, unheard>>
-----------------------------------------------------------------------------
(* Keys without a code are ignored; Pause is one.                          *)
Mapped == DOMAIN Codes
Keys == Mapped \cup {"Pause"}

Language == {"Lang1", "Lang2"}
LanguageCodes == {<<FALSE, 114>>, <<FALSE, 113>>, <<TRUE, 242>>, <<TRUE, 241>>}

(* No two keys of the table have one code, nor has any the code that a     *)
(* language key has on Windows.                                            *)
ASSUME KeyboardAssumption ==
  /\ \A one, other \in Mapped : Codes[one] = Codes[other] => one = other
  /\ \A key \in Mapped \ Language : Codes[key] \notin LanguageCodes

(* winit's codes for the language keys on Windows.                         *)
Native(key) ==
  CASE platform = "windows-korean" -> <<TRUE, IF key = "Lang1" THEN 242 ELSE 241>>
    [] OTHER -> <<FALSE, IF key = "Lang1" THEN 114 ELSE 113>>

(* Seeded fault: the prefix that tells an extended key is lost.            *)
MapKeyCodePlain(key) ==
  [code |-> IF key \in Language /\ platform # "other" THEN Native(key) ELSE <<FALSE, Codes[key][2]>>,
   release_only |-> key \in Language /\ platform = "windows-korean"]

(* map_key_code: the code, and whether the key is reported only going up.  *)
MapKeyCode(key) ==
  [code |-> IF key \in Language /\ platform # "other" THEN Native(key) ELSE Codes[key],
   release_only |-> key \in Language /\ platform # "other" /\ Native(key) \in {<<TRUE, 241>>, <<TRUE, 242>>}]
-----------------------------------------------------------------------------
(* The keys a Korean keyboard reports only when they go up.                *)
Silent(key) == platform = "windows-korean" /\ key \in Language

KeyInit == platform \in Platforms /\ down = {} /\ remote = {} /\ unheard = {}

(* A key goes down, or is repeated.                                        *)
KeyDown(key) ==
  /\ Cardinality(down \cup {key}) <= MaxDown /\ down' = down \cup {key}
  /\ remote' = IF key \in Mapped /\ ~Silent(key) THEN remote \cup {MapKeyCode(key).code} ELSE remote
  /\ UNCHANGED <<platform, unheard>>

(* A key goes up. The remote desktop ignores it for a key it holds up.     *)
KeyUp(key) ==
  /\ key \in down /\ down' = down \ {key}
  /\ IF key \notin Mapped THEN UNCHANGED <<remote, unheard>>
     ELSE LET mapped == MapKeyCode(key)
              told == IF mapped.release_only THEN remote \cup {mapped.code} ELSE remote
          IN  /\ remote' = told \ {mapped.code}
              /\ unheard' = IF mapped.code \in told THEN unheard ELSE unheard \cup {key}
  /\ UNCHANGED platform

KeyNext == \E key \in Keys : KeyDown(key) \/ KeyUp(key)
KeySpec == KeyInit /\ [][KeyNext]_keyVars
-----------------------------------------------------------------------------
(* No key stands in for another: the remote desktop holds as many keys as  *)
(* the user, so that letting go of one (the right Control, the keypad's    *)
(* Enter) never lets go of its neighbour, and each key that is used is     *)
(* heard, on every keyboard.                                               *)
KeysApart ==
  /\ Cardinality(remote) = Cardinality({key \in down : key \in Mapped /\ ~Silent(key)})
  /\ unheard = {}
=============================================================================
