-------------------------------- MODULE Launch --------------------------------
(***************************************************************************)
(* How a desktop is started: the sign-in dialog as far as it decides what  *)
(* is started (launcher/src/app/connections.rs), the environment and       *)
(* command line the launcher gives the session process (session_command in *)
(* launcher/src/backend.rs) and what the session makes of them             *)
(* (session/src/cli.rs, and the variables that main.rs and app.rs read).   *)
(* The process inherits the launcher's own environment.                    *)
(*                                                                         *)
(* Left out: options that the launcher never gives, and .rdp files. What   *)
(* cancels the dialog, covers it or moves its computer is in Passwords.    *)
(***************************************************************************)
EXTENDS Naturals, Sequences, Functions

CONSTANTS
  Computers,    (* saved computers that are connected to                     *)
  Passwords,   (* typed or remembered: "" and "overlong" are refused        *)
  Inherited    (* environments the launcher may itself run in               *)

VARIABLES
  profile,     (* the computer connected to                                 *)
  dialog,      (* "lookup", "open", or answered: "loaded", "submitted"      *)
  ticked,      (* the dialog's own full-screen box                          *)
  password,    (* in the dialog, or what the keyring answered               *)
  inherited,
  config       (* what the session runs with, <<>> before it is started     *)

launchVars == <<profile, dialog, ticked, password, inherited, config>>

Unset == "unset"
NoText == {Unset, ""}
FollowWindow == <<>>
Largest == 8192   (* size, in parse_resolution and for clap                  *)

Variables == {"RDP_HOSTNAME", "RDP_USERNAME", "RDP_PASSWORD", "IRONRDP_UDP", "IRONRDP_UDP_OFFER",
  "IRONRDP_EGFX", "WINRDP_UDP", "WINRDP_UDP_OFFER", "WINRDP_EGFX", "WINRDP_FULLSCREEN",
  "WINRDP_KEEP_RESOLUTION", "WINRDP_PRINTER"}

(* A computer without an account is edited before it is connected to       *)
(* (prompt_password); a resolution is none or one parse_resolution takes.  *)
Connectable(p) ==
  /\ p.address \notin NoText /\ p.username \notin NoText
  /\ p.fullscreen \in BOOLEAN /\ p.clipboard \in BOOLEAN /\ p.audio \in BOOLEAN
  /\ p.microphone \in BOOLEAN /\ p.printer \in BOOLEAN
  /\ p.resolution = FollowWindow \/ p.resolution \in (640 .. Largest) \X (480 .. Largest)

ASSUME LaunchAssumption ==
  /\ \A p \in Computers : Connectable(p)
  /\ Unset \notin Passwords
  /\ \A env \in Inherited : DOMAIN env = Variables

(* session_command: what is set whatever the computer's options are.       *)
Connection(env, p, secret, fullscreen) ==
  [RDP_HOSTNAME |-> p.address, RDP_USERNAME |-> p.username, RDP_PASSWORD |-> secret,
   IRONRDP_UDP |-> IF env.WINRDP_UDP = "0" THEN "0" ELSE "1",
   IRONRDP_UDP_OFFER |-> IF env.WINRDP_UDP_OFFER = Unset THEN "2" ELSE env.WINRDP_UDP_OFFER,
   IRONRDP_EGFX |-> IF env.WINRDP_EGFX = "0" THEN "0" ELSE "1",
   WINRDP_FULLSCREEN |-> IF fullscreen THEN "1" ELSE "0"]

(* What its options ask for.                                               *)
Wanted(p) ==
  [WINRDP_KEEP_RESOLUTION |-> IF p.resolution # FollowWindow THEN "1" ELSE Unset,
   WINRDP_PRINTER |-> IF p.printer THEN "default" ELSE Unset]

(* Command::env and env_remove: what is not set is inherited.              *)
Setting(set, env) == [name \in DOMAIN env |-> IF name \in DOMAIN set THEN set[name] ELSE env[name]]

(* Seeded fault: variables that the profile does not ask for are inherited. *)
SessionEnvironmentInherited(env, p, secret, fullscreen) ==
  LET set == {name \in DOMAIN Wanted(p) : Wanted(p)[name] # Unset} IN
  Setting(Connection(env, p, secret, fullscreen), Setting([name \in set |-> Wanted(p)[name]], env))

(* session_command: the environment.                                       *)
SessionEnvironment(env, p, secret, fullscreen) == Setting(Connection(env, p, secret, fullscreen), Setting(Wanted(p), env))

(* session_command: the command line.                                      *)
SessionArguments(p) ==
  [desktop_width |-> IF p.resolution = FollowWindow THEN <<>> ELSE <<p.resolution[1]>>,
   desktop_height |-> IF p.resolution = FollowWindow THEN <<>> ELSE <<p.resolution[2]>>,
   clipboard_type |-> IF p.clipboard THEN "enable" ELSE "disable",
   audio_disable |-> ~p.audio,
   microphone |-> p.microphone]

(* parse_from: sizes out of the range clap allows end the process.         *)
Refused(args) == {size \in Range(args.desktop_width) \cup Range(args.desktop_height) : size \notin 1 .. Largest}

(* UdpVersion offered: what is not a version leaves the library's choice.  *)
Offer(value) == IF value \in {"1", "2", "3"} THEN value ELSE "library's"

(* prompt_missing: what the session would ask for on a terminal, which a   *)
(* session of the launcher does not have.                                  *)
Missing(env) == {variable \in {"RDP_HOSTNAME", "RDP_USERNAME", "RDP_PASSWORD"} : env[variable] \in NoText}

(* parse_from, apply_cli_to_builder and resolve_clipboard_type, with the   *)
(* variables that App::new, on_resumed and attach_linux_rdpdr_backend read. *)
Configured(env, args) ==
  [refused |-> Refused(args), missing |-> Missing(env),
   destination |-> env.RDP_HOSTNAME, username |-> env.RDP_USERNAME, password |-> env.RDP_PASSWORD,
   udp |-> env.IRONRDP_UDP = "1", offer |-> Offer(env.IRONRDP_UDP_OFFER),
   egfx |-> env.IRONRDP_EGFX = "1",
   width |-> args.desktop_width, height |-> args.desktop_height,
   clipboard |-> args.clipboard_type = "enable",
   sound |-> ~args.audio_disable,
   audio_capture |-> args.microphone,
   fullscreen |-> env.WINRDP_FULLSCREEN = "1",
   keep_resolution |-> env.WINRDP_KEEP_RESOLUTION = "1",
   printer |-> env.WINRDP_PRINTER \notin NoText]
-----------------------------------------------------------------------------
(* prompt_password: the box starts as the computer's option says; after a  *)
(* refused sign-in the keyring is not asked.                               *)
LaunchInit ==
  /\ profile \in Computers /\ ticked = profile.fullscreen /\ dialog \in {"lookup", "open"}
  /\ password = "" /\ inherited \in Inherited /\ config = <<>>

Prompted == dialog \in {"lookup", "open"}

(* Another launcher saves other options for the computer.                  *)
OptionsChange ==
  /\ Prompted
  /\ profile' \in {p \in Computers : p.address = profile.address /\ p.username = profile.username}
  /\ UNCHANGED <<dialog, ticked, password, inherited, config>>

(* PasswordInput, PasswordFullscreen: once the user does something to the  *)
(* dialog, a late answer of the keyring counts for nothing.                *)
TypePassword ==
  /\ Prompted /\ dialog' = "open" /\ password' \in Passwords
  /\ UNCHANGED <<profile, ticked, inherited, config>>

TickFullscreen ==
  /\ Prompted /\ dialog' = "open" /\ ticked' = ~ticked
  /\ UNCHANGED <<profile, password, inherited, config>>

(* launch, and the session process up to its event loop; without a         *)
(* password that can be sent there is none.                                *)
LaunchProcess(secret, fullscreen) ==
  IF secret \in {"", "overlong"} THEN UNCHANGED config
  ELSE config' = <<Configured(SessionEnvironment(inherited, profile, secret, fullscreen),
                              SessionArguments(profile))>>

(* password_loaded: a remembered password connects without the dialog.     *)
PasswordLoaded ==
  /\ dialog = "lookup"
  /\ \/ dialog' = "open" /\ UNCHANGED <<password, config>>
     \/ /\ dialog' = "loaded" /\ password' \in Passwords
        /\ LaunchProcess(password', profile.fullscreen)
  /\ UNCHANGED <<profile, ticked, inherited>>

(* submit_password.                                                        *)
SubmitPassword ==
  /\ Prompted /\ dialog' = "submitted"
  /\ LaunchProcess(password, ticked)
  /\ UNCHANGED <<profile, ticked, password, inherited>>

LaunchNext == OptionsChange \/ TypePassword \/ TickFullscreen \/ PasswordLoaded \/ SubmitPassword
LaunchSpec == LaunchInit /\ [][LaunchNext]_launchVars
-----------------------------------------------------------------------------
(* A session runs with the options of the computer it was started for as   *)
(* they are saved by then, and full screen as the dialog's box says or,    *)
(* when a remembered password was used, as the computer's does, whatever   *)
(* the launcher's environment holds: nothing the user turned off is on, no *)
(* size the launcher accepts is refused, and it never waits for an answer  *)
(* on a terminal it does not have.                                         *)
ProfileHonoured ==
  config # <<>> =>
    LET c == config[1] IN
    /\ c.refused = {} /\ c.missing = {}
    /\ <<c.destination, c.username, c.password>> = <<profile.address, profile.username, password>>
    /\ <<c.clipboard, c.sound, c.audio_capture, c.printer>>
         = <<profile.clipboard, profile.audio, profile.microphone, profile.printer>>
    /\ c.fullscreen = IF dialog = "submitted" THEN ticked ELSE profile.fullscreen
    /\ IF profile.resolution = FollowWindow THEN c.width = <<>> /\ c.height = <<>>
       ELSE <<c.width, c.height>> = << <<profile.resolution[1]>>, <<profile.resolution[2]>> >>
    /\ c.keep_resolution <=> profile.resolution # FollowWindow
=============================================================================
