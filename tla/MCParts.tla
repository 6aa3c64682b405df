------------------------------ MODULE MCParts ------------------------------
(***************************************************************************)
(* Parts that share no state, checked one at a time: of the launcher its   *)
(* keyring worker, its sharing panel, its Computer box, the address of a   *)
(* computer, the command that starts a session and the calendar, and of a  *)
(* session its keyboard and what it draws over the desktop. The initial    *)
(* state chooses the part.                                                 *)
(***************************************************************************)
EXTENDS Keyring, Keymap, HostPanel, Selection, Launch, Dates, Endpoint, Keyboard, Overlays

VARIABLE
  part    (* what takes steps in this behaviour                              *)

smallVars == <<launchVars, dateVars, addressVars, keyVars, overlayVars>>
-----------------------------------------------------------------------------
(* Two names of which one contains the other, two addresses that contain a *)
(* name, and a text that is part of all of them.                           *)
MCNames == {"lab", "labs"}
MCAddresses == {"lab.example"}
MCIncludes ==
  {<<t, t>> : t \in MCNames \cup MCAddresses \cup {"la"}}
    \cup ((MCNames \cup MCAddresses) \X {"la", "lab"})

(* All options but one at most on or off, no resolution and the two ends   *)
(* of the range that parse_resolution accepts; environments the launcher   *)
(* may be run in by hand or from a session, all but one or none at most of *)
(* whose variables are set or unset.                                       *)
MCOptions ==
  [address : {"a"}, username : {"u"}, fullscreen : BOOLEAN, clipboard : BOOLEAN, audio : BOOLEAN,
   microphone : BOOLEAN, printer : BOOLEAN, resolution : {<<>>, <<640, 480>>, <<8192, 8192>>}]
TurnedOn(p) == {name \in {"fullscreen", "clipboard", "audio", "microphone", "printer"} : p[name]}
MCComputers == {p \in MCOptions : Cardinality(TurnedOn(p)) \in {0, 1, 4, 5}}
MCSettings ==
  [RDP_HOSTNAME : {"unset", "b"}, RDP_USERNAME : {"unset"}, RDP_PASSWORD : {"other"},
   IRONRDP_UDP : {"unset"}, IRONRDP_UDP_OFFER : {"unset"}, IRONRDP_EGFX : {"unset"},
   WINRDP_UDP : {"unset", "0"}, WINRDP_UDP_OFFER : {"unset"}, WINRDP_EGFX : {"unset"},
   WINRDP_FULLSCREEN : {"unset", "1"}, WINRDP_KEEP_RESOLUTION : {"unset", "1"},
   WINRDP_PRINTER : {"unset", "folder"}]
MCInherited == {env \in MCSettings : Cardinality({name \in DOMAIN env : env[name] = "unset"}) \in {6, 10, 11}}

(* Around a century that is a leap year and two that are not, the epoch,   *)
(* and the start of an era of the algorithm.                               *)
MCStarts == {1970, 1900, 2000, 0, 2100}

(* Texts that typing goes on from: none, an address in brackets or without *)
(* them, a name with a colon, three parts of an IPv4 address.              *)
MCLines == {<<>>, <<"[", ":", ":">>, <<":", ":">>, <<"x", ":">>, <<"1", ".", "1", ".", "1", ".">>}

MCTokens == {"x", "0", "1", "65536", ".", ":", "[", "]", "%", "+", "-", " ", "/"}

(* Windows around the least that the bar and the dialog fit in, a name     *)
(* that fits the bar and one that does not, and points on both sides of    *)
(* every edge of their buttons.                                            *)
MCSizes ==
  {[width |-> w, height |-> h] : w \in {131, 132}, h \in {15, 16}}
    \cup {[width |-> w, height |-> 188] : w \in {447, 448}}
    \cup {[width |-> 0, height |-> 0]}
MCPoints ==
  {[x |-> x, y |-> 15] : x \in {-1, 0, 43, 44, 87, 88, 132, 295}}
    \cup {[x |-> x, y |-> y] : x \in {177, 178, 295, 304}, y \in {136, 137, 168}}
-----------------------------------------------------------------------------
NoSharing == [sharing |-> FALSE, extend |-> FALSE, credentials |-> FALSE]

KeyringIdle == Init /\ legacy = {} /\ \A key \in Credentials : items[key] = None
HostIdle ==
  /\ world = NoSharing /\ status = <<>> /\ mode = <<>> /\ busy = FALSE /\ jobs = {}
  /\ results = {} /\ touched = FALSE /\ told = "nothing" /\ outside = 0
LaunchIdle ==
  /\ profile = (CHOOSE p \in MCComputers : TRUE) /\ ticked = FALSE /\ dialog = "open" /\ password = ""
  /\ inherited = (CHOOSE env \in MCInherited : TRUE) /\ config = <<>>
DateIdle == day = 0 /\ date = <<1970, 1, 1>> /\ left = 0
AddressIdle == input = <<>> /\ parsed = {} /\ typed = 0
KeyIdle == platform = "other" /\ down = {} /\ remote = {} /\ unheard = {}
DrawingIdle ==
  /\ size = [width |-> 0, height |-> 0] /\ title = 0 /\ transport = 0 /\ pinned = TRUE
  /\ hover = Nothing /\ asked = FALSE /\ pointer = [x |-> 0, y |-> 0]

Begins(name, begin, idle) == IF part = name THEN begin ELSE idle

MCInit ==
  /\ part \in {"keyring", "host", "box", "command", "calendar", "address", "keyboard", "drawing"}
  /\ SelectionInit
  /\ Begins("keyring", Init, KeyringIdle)
  /\ Begins("host", HostInit, HostIdle)
  /\ Begins("command", LaunchInit, LaunchIdle)
  /\ Begins("calendar", DateInit, DateIdle)
  /\ Begins("address", AddressInit, AddressIdle)
  /\ Begins("keyboard", KeyInit, KeyIdle)
  /\ Begins("drawing", OverlaysInit, DrawingIdle)

MCNext ==
  /\ UNCHANGED part
  /\ \/ part = "keyring" /\ Next /\ UNCHANGED <<hostVars, selectionVars, smallVars>>
     \/ part = "host" /\ HostNext /\ UNCHANGED <<vars, selectionVars, smallVars>>
     \/ part = "box" /\ SelectionNext /\ UNCHANGED <<vars, hostVars, smallVars>>
     \/ /\ UNCHANGED <<vars, hostVars, selectionVars>>
        /\ \/ part = "command" /\ LaunchNext /\ UNCHANGED <<dateVars, addressVars, keyVars, overlayVars>>
           \/ part = "calendar" /\ DateNext /\ UNCHANGED <<launchVars, addressVars, keyVars, overlayVars>>
           \/ part = "address" /\ AddressNext /\ UNCHANGED <<launchVars, dateVars, keyVars, overlayVars>>
           \/ part = "keyboard" /\ KeyNext /\ UNCHANGED <<launchVars, dateVars, addressVars, overlayVars>>
           \/ part = "drawing" /\ OverlaysNext /\ UNCHANGED <<launchVars, dateVars, addressVars, keyVars>>

(* The worker thread and its giving up, background commands, messages.     *)
MCSpec ==
  /\ MCInit /\ [][MCNext]_<<part, vars, hostVars, selectionVars, smallVars>>
  /\ WF_vars(part = "keyring" /\ Take /\ UNCHANGED <<part, hostVars, selectionVars, smallVars>>)
  /\ WF_vars(part = "keyring" /\ (Perform \/ Fail) /\ UNCHANGED <<part, hostVars, selectionVars, smallVars>>)
  /\ WF_hostVars(part = "host" /\ Background /\ UNCHANGED <<part, vars, selectionVars, smallVars>>)
  /\ WF_hostVars(part = "host" /\ Message /\ UNCHANGED <<part, vars, selectionVars, smallVars>>)
=============================================================================
