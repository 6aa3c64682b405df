------------------------------ MODULE Sessions ------------------------------
(***************************************************************************)
(* The desktops a launcher has open: each is a process of its own          *)
(* (session/src/main.rs, app.rs, status.rs) that publishes its state in a  *)
(* file, and the launcher (launcher/src/backend.rs, app/connections.rs)    *)
(* polls the processes and their files until they end, or ends them.       *)
(*                                                                         *)
(* A process publishes in two steps, a file of its own written and renamed *)
(* over the status file, and may be interrupted between any two steps. The *)
(* launcher is one thread: only processes take steps during a poll.        *)
(***************************************************************************)
EXTENDS Naturals, Sequences, FiniteSets

CONSTANTS
  Ids,         (* sessions, by the identifier the launcher gives them       *)
  Labels,      (* of transports                                             *)
  Refusals     (* reasons for which a connection fails                      *)

ASSUME SessionsAssumption ==
  Refusals \cap {"config", "display", "session", "nothing", "early", "unexpected", "unsaid"} = {}

VARIABLES
  stage,      (* of a process: "none", "starting", "window", "exiting", "dead" *)
  engine,     (* the RDP thread runs: it has not told of its end            *)
  connected,  (* the engine has reported a transport                        *)
  exit,       (* "0", or "error": a code or a signal                        *)
  tmp,        (* the record written and not renamed yet, if any             *)
  file,       (* the status file's record, if any                           *)
  children,   (* Real::children                                             *)
  sessions,   (* the launcher's sessions, each "Connecting" or "Connected"  *)
  looking,    (* a poll: the processes not looked at yet, <<>> outside      *)
  alive,      (* a poll: a process found alive whose file is not read yet   *)
  ended,      (* a poll: what ended, with its report                        *)
  live,       (* a poll: what runs, with its transport                      *)
  asked,      (* "Disconnect?" dialogs                                      *)
  quitting,
  said,       (* what the user was told of the end of a session             *)
  closed,     (* history: sessions the launcher ended                       *)
  published   (* history: the last record that became a session's file      *)

processVars == <<stage, engine, connected, exit, tmp>>
fileVars == <<file, published>>
pollVars == <<looking, alive, ended, live>>
launcherVars == <<children, sessions, pollVars, asked, quitting, said, closed>>
vars == <<processVars, fileVars, launcherVars>>

Connected(label) == [state |-> "connected", text |-> label]
Failed(reason) == [state |-> "failed", text |-> reason]
Closed == [state |-> "closed", text |-> ""]
Reasons == Refusals \cup {"config", "display", "session"}
Records == {Connected(l) : l \in Labels} \cup {Failed(r) : r \in Reasons} \cup {Closed}
-----------------------------------------------------------------------------
Init ==
  /\ stage = [s \in Ids |-> "none"] /\ engine = [s \in Ids |-> FALSE] /\ connected = [s \in Ids |-> FALSE]
  /\ exit = [s \in Ids |-> "0"] /\ tmp = [s \in Ids |-> <<>>]
  /\ file = [s \in Ids |-> <<>>] /\ published = [s \in Ids |-> <<>>]
  /\ children = {} /\ sessions = [s \in {} |-> "Connecting"]
  /\ looking = <<>> /\ alive = <<>> /\ ended = {} /\ live = {}
  /\ asked = {} /\ quitting = FALSE /\ said = [s \in Ids |-> "unsaid"] /\ closed = {}

Idle == looking = <<>> /\ ~quitting
-----------------------------------------------------------------------------
(* The process of a session.                                               *)

Alive(s) == stage[s] \in {"starting", "window", "exiting"}

(* Seeded fault: the status file is overwritten in place.                  *)
PublishInPlace(s, record) ==
  \/ /\ tmp' = [tmp EXCEPT ![s] = <<record>>] /\ file' = [file EXCEPT ![s] = <<>>]
     /\ UNCHANGED published
  \/ UNCHANGED <<tmp, fileVars>>

(* write_status, first half; a write that fails is only logged.            *)
Publish(s, record) ==
  /\ \/ tmp' = [tmp EXCEPT ![s] = <<record>>]
     \/ UNCHANGED tmp
  /\ UNCHANGED fileVars

(* The second half: what was written takes the file's place, or does not.  *)
Rename(s) ==
  /\ Alive(s) /\ tmp[s] # <<>> /\ tmp' = [tmp EXCEPT ![s] = <<>>]
  /\ \/ /\ file' = [file EXCEPT ![s] = tmp[s]]
        /\ published' = [published EXCEPT ![s] = tmp[s]]
     \/ UNCHANGED fileVars
  /\ UNCHANGED <<stage, engine, connected, exit, launcherVars>>

(* The process is on its way out with this code, having published why.     *)
Ends(s, record, code) ==
  /\ Publish(s, record)
  /\ stage' = [stage EXCEPT ![s] = "exiting"] /\ exit' = [exit EXCEPT ![s] = code]

(* report_startup_failure.                                                 *)
ReportStartupFailure(s) == Ends(s, Failed("config"), "error")

(* startup_failed.                                                         *)
StartupFails(s) ==
  /\ stage[s] = "starting" /\ tmp[s] = <<>>
  /\ ReportStartupFailure(s)
  /\ UNCHANGED <<engine, connected, launcherVars>>

(* The event loop, the window or its surface cannot be created: main and   *)
(* on_resumed say nothing.                                                 *)
StartupFailsUnpublished(s) ==
  /\ stage[s] = "starting" /\ stage' = [stage EXCEPT ![s] = "exiting"]
  /\ exit' = [exit EXCEPT ![s] = "error"]
  /\ UNCHANGED <<engine, connected, tmp, fileVars, launcherVars>>

WindowOpens(s) ==
  /\ stage[s] = "starting" /\ stage' = [stage EXCEPT ![s] = "window"]
  /\ engine' = [engine EXCEPT ![s] = TRUE]
  /\ UNCHANGED <<connected, exit, tmp, fileVars, launcherVars>>

(* handle_output_event. The events of the batch that ends the event loop   *)
(* are still handled.                                                      *)
Handles(s) == stage[s] \in {"window", "exiting"} /\ tmp[s] = <<>>

Transport(s, label) ==
  /\ Handles(s) /\ engine[s] /\ connected' = [connected EXCEPT ![s] = TRUE]
  /\ Publish(s, Connected(label))
  /\ UNCHANGED <<stage, engine, exit, launcherVars>>

ConnectionFailure(s, reason) ==
  /\ Handles(s) /\ engine[s] /\ ~connected[s]
  /\ engine' = [engine EXCEPT ![s] = FALSE]
  /\ Ends(s, Failed(reason), "error")
  /\ UNCHANGED <<connected, launcherVars>>

TerminatedOk(s) ==
  /\ Handles(s) /\ engine[s]
  /\ engine' = [engine EXCEPT ![s] = FALSE]
  /\ Ends(s, Closed, "0")
  /\ UNCHANGED <<connected, launcherVars>>

TerminatedErr(s) ==
  /\ Handles(s) /\ engine[s]
  /\ engine' = [engine EXCEPT ![s] = FALSE]
  /\ Ends(s, Failed("session"), "error")
  /\ UNCHANGED <<connected, launcherVars>>

(* draw.                                                                   *)
DrawFails(s) ==
  /\ Handles(s)
  /\ Ends(s, Failed("display"), "error")
  /\ UNCHANGED <<engine, connected, launcherVars>>

Exit(s) ==
  /\ stage[s] = "exiting" /\ tmp[s] = <<>> /\ stage' = [stage EXCEPT ![s] = "dead"]
  /\ engine' = [engine EXCEPT ![s] = FALSE]
  /\ UNCHANGED <<connected, exit, tmp, fileVars, launcherVars>>

(* A panic, a signal.                                                      *)
Crash(s) ==
  /\ Alive(s) /\ stage' = [stage EXCEPT ![s] = "dead"]
  /\ exit' = [exit EXCEPT ![s] = "error"] /\ tmp' = [tmp EXCEPT ![s] = <<>>]
  /\ engine' = [engine EXCEPT ![s] = FALSE]
  /\ UNCHANGED <<connected, fileVars, launcherVars>>
-----------------------------------------------------------------------------
(* The launcher.                                                           *)

(* start_session and launch.                                               *)
Launch(s) ==
  /\ Idle /\ stage[s] = "none" /\ stage' = [stage EXCEPT ![s] = "starting"]
  /\ file' = [file EXCEPT ![s] = <<>>]
  /\ children' = children \cup {s}
  /\ sessions' = [t \in DOMAIN sessions \cup {s} |-> IF t = s THEN "Connecting" ELSE sessions[t]]
  /\ UNCHANGED <<engine, connected, exit, tmp, published, pollVars, asked, quitting, said, closed>>

(* The timer's Tick: poll begins.                                          *)
Tick ==
  /\ Idle /\ DOMAIN sessions # {}
  /\ looking' = <<children>> /\ ended' = {} /\ live' = {}
  /\ UNCHANGED <<processVars, fileVars, children, sessions, alive, asked, quitting, said, closed>>

Looks(s) == looking # <<>> /\ alive = <<>> /\ s \in looking[1] /\ looking' = <<looking[1] \ {s}>>

(* Seeded fault: an end without a report is not reported.                  *)
LookEndedReported(s) ==
  /\ Looks(s) /\ stage[s] = "dead"
  /\ ended' = ended \cup {[session |-> s, code |-> exit[s], report |-> r] : r \in {file[s]} \ {<<>>}}
  /\ file' = [file EXCEPT ![s] = <<>>] /\ children' = children \ {s}
  /\ UNCHANGED <<processVars, published, sessions, alive, live, asked, quitting, said, closed>>

(* try_wait: the process has ended; its last word is read and deleted.     *)
LookEnded(s) ==
  /\ Looks(s) /\ stage[s] = "dead"
  /\ ended' = ended \cup {[session |-> s, code |-> exit[s], report |-> file[s]]}
  /\ file' = [file EXCEPT ![s] = <<>>] /\ children' = children \ {s}
  /\ UNCHANGED <<processVars, published, sessions, alive, live, asked, quitting, said, closed>>

(* It runs; its file is read next.                                         *)
LookAlive(s) ==
  /\ Looks(s) /\ stage[s] # "dead" /\ alive' = <<s>>
  /\ UNCHANGED <<processVars, fileVars, children, sessions, ended, live, asked, quitting, said, closed>>

(* Seeded fault: any record is taken for a transport.                      *)
TransportOfAny(record) == IF record = <<>> THEN <<>> ELSE <<record[1].text>>
(* A record without a label is no transport.                               *)
TransportOf(record) ==
  IF record # <<>> /\ record[1].state = "connected" THEN <<record[1].text>> ELSE <<>>

ReadLive ==
  /\ alive # <<>> /\ alive' = <<>>
  /\ live' = live \cup {[session |-> alive[1], transport |-> TransportOf(file[alive[1]])]}
  /\ UNCHANGED <<processVars, fileVars, children, sessions, looking, ended, asked, quitting, said, closed>>

(* report_end.                                                             *)
Words(end, session) ==
  IF end.report # <<>> /\ end.report[1].state = "failed" THEN end.report[1].text
  ELSE IF end.report = <<>> /\ session # "Connected" THEN "early"
  ELSE IF end.code # "0" THEN "unexpected"
  ELSE "nothing"

(* Poll's results are taken up: a session that shows a transport is        *)
(* connected, and its computer stamped as opened (stamp_connected).        *)
PollDone ==
  /\ looking = <<{}>> /\ alive = <<>> /\ looking' = <<>>
  /\ said' = [s \in Ids |->
       IF s \in DOMAIN sessions /\ \E end \in ended : end.session = s
       THEN Words(CHOOSE end \in ended : end.session = s, sessions[s]) ELSE said[s]]
  /\ sessions' = [s \in DOMAIN sessions \ {end.session : end \in ended} |->
       IF \E seen \in live : seen.session = s /\ seen.transport # <<>>
       THEN "Connected" ELSE sessions[s]]
  /\ ended' = {} /\ live' = {}
  /\ UNCHANGED <<processVars, fileVars, children, alive, asked, quitting, closed>>

(* Seeded fault: the process is not waited for before its file is deleted. *)
KillUnwaited(doomed) ==
  /\ file' = [s \in Ids |-> IF s \in doomed THEN <<>> ELSE file[s]]
  /\ children' = children \ doomed /\ closed' = closed \cup doomed
  /\ UNCHANGED <<stage, engine, exit, tmp>>

(* kill: the process is dead before its file is deleted.                   *)
Kill(doomed) ==
  /\ stage' = [s \in Ids |-> IF s \in doomed THEN "dead" ELSE stage[s]]
  /\ engine' = [s \in Ids |-> engine[s] /\ s \notin doomed]
  /\ exit' = [s \in Ids |-> IF s \in doomed THEN "error" ELSE exit[s]]
  /\ tmp' = [s \in Ids |-> IF s \in doomed THEN <<>> ELSE tmp[s]]
  /\ file' = [s \in Ids |-> IF s \in doomed THEN <<>> ELSE file[s]]
  /\ children' = children \ doomed /\ closed' = closed \cup doomed

CloseSession(s) ==
  /\ sessions' = [t \in DOMAIN sessions \ {s} |-> sessions[t]]
  /\ IF s \in DOMAIN sessions THEN Kill({s})
     ELSE UNCHANGED <<stage, engine, exit, tmp, file, children, closed>>

(* ask_disconnect: at once while connecting, otherwise after a question.   *)
AskDisconnect(s) ==
  /\ Idle /\ s \in DOMAIN sessions
  /\ IF sessions[s] = "Connected"
     THEN asked' = asked \cup {s} /\ UNCHANGED <<stage, engine, exit, tmp, file, children, closed, sessions>>
     ELSE CloseSession(s) /\ UNCHANGED asked
  /\ UNCHANGED <<connected, published, pollVars, quitting, said>>

(* The question may be answered after the session ended by itself.         *)
ConfirmDisconnect(s) ==
  /\ Idle /\ s \in asked /\ asked' = asked \ {s}
  /\ CloseSession(s)
  /\ UNCHANGED <<connected, published, pollVars, quitting, said>>

CancelDisconnect(s) ==
  /\ Idle /\ s \in asked /\ asked' = asked \ {s}
  /\ UNCHANGED <<processVars, fileVars, children, sessions, pollVars, quitting, said, closed>>

(* quit and kill_all.                                                      *)
Quit ==
  /\ Idle /\ quitting' = TRUE
  /\ Kill(children)
  /\ UNCHANGED <<connected, published, sessions, pollVars, asked, said>>
-----------------------------------------------------------------------------
Process(s) ==
  \/ Rename(s) \/ StartupFails(s) \/ StartupFailsUnpublished(s) \/ WindowOpens(s)
  \/ \E label \in Labels : Transport(s, label)
  \/ \E reason \in Refusals : ConnectionFailure(s, reason)
  \/ TerminatedOk(s) \/ TerminatedErr(s) \/ DrawFails(s) \/ Exit(s) \/ Crash(s)

Poll == Tick \/ ReadLive \/ PollDone \/ \E s \in Ids : LookEnded(s) \/ LookAlive(s)

Next ==
  \/ Poll \/ Quit
  \/ \E s \in Ids :
       Process(s) \/ Launch(s) \/ AskDisconnect(s) \/ ConfirmDisconnect(s) \/ CancelDisconnect(s)

Spec == Init /\ [][Next]_vars

(* The launcher's timer and window keep running.                           *)
FairSpec == Spec /\ WF_vars(Poll)
-----------------------------------------------------------------------------
Stages == {"none", "starting", "window", "exiting", "dead"}
Optional(S) == {<<>>} \cup {<<x>> : x \in S}

TypeOK ==
  /\ stage \in [Ids -> Stages] /\ exit \in [Ids -> {"0", "error"}]
  /\ engine \in [Ids -> BOOLEAN] /\ connected \in [Ids -> BOOLEAN]
  /\ tmp \in [Ids -> Optional(Records)] /\ file \in [Ids -> Optional(Records)]
  /\ published \in [Ids -> Optional(Records)]
  /\ sessions \in [DOMAIN sessions -> {"Connecting", "Connected"}] /\ DOMAIN sessions \subseteq Ids
  /\ children \subseteq Ids /\ closed \subseteq Ids
  /\ quitting \in BOOLEAN /\ said = [s \in Ids |-> said[s]]

LastPublished(s) == IF published[s] = <<>> THEN Closed ELSE published[s][1]

(* The last thing a session published is what the user is told when it     *)
(* ends by itself, whatever it wrote before and however the poll and the   *)
(* process took turns; and one that failed or crashed is never passed over *)
(* in silence.                                                             *)
ToldWhy ==
  \A s \in Ids : said[s] # "unsaid" =>
    /\ said[s] \in Reasons <=> LastPublished(s).state = "failed"
    /\ said[s] \in Reasons => said[s] = LastPublished(s).text
    /\ said[s] = "nothing" => exit[s] = "0" /\ published[s] # <<>>

(* A computer is taken to have answered, which stamps it as opened, only   *)
(* if its session published a transport; a refusal read while the process  *)
(* still runs is not one.                                                  *)
StampedAnswered ==
  \A s \in DOMAIN sessions :
    sessions[s] = "Connected" => connected[s]

(* The user is told of no session the launcher ended, and it keeps no      *)
(* process, tab or status file of it, whatever the process was writing.    *)
ClosedQuietly ==
  /\ \A s \in closed :
       said[s] = "unsaid" /\ s \notin children /\ stage[s] = "dead" /\ file[s] = <<>>
  /\ Idle => children = DOMAIN sessions

(* A session that ends by itself does not stay on as a tab.                *)
EndNoticed ==
  \A s \in Ids : stage[s] = "dead" ~> (said[s] # "unsaid" \/ s \in closed \/ quitting)
=============================================================================
