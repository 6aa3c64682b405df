------------------------------ MODULE HostPanel ------------------------------
(***************************************************************************)
(* Sharing this computer's own desktop: the panel in the launcher's        *)
(* settings (launcher/src/app.rs) and the commands it runs off its thread  *)
(* (launcher/src/host.rs), one after the other, any of which may fail or   *)
(* time out with or without having done its work.                          *)
(*                                                                         *)
(* Of the commands that turn sharing on, those whose effect no property    *)
(* tells apart (turning the headless mode off, grdctl's own switches) are  *)
(* part of "service": where they fail, so does the run.                    *)
(***************************************************************************)
EXTENDS Naturals, Sequences, FiniteSets

CONSTANT MaxOutside   (* bound: changes made in GNOME's own settings       *)

VARIABLES
  world,     (* the desktop's sharing: [sharing, extend, credentials]       *)
  status,    (* HostPanel::status, <<>> until it was first read             *)
  mode,      (* HostPanel::mode: <<>> or <<extend>>                         *)
  busy,      (* HostPanel::busy                                             *)
  jobs,      (* background tasks: [kind, extend, todo]                      *)
  results,   (* finished tasks whose message is on its way: [kind, read]    *)
  touched,   (* history: changed in GNOME's settings since a good reading   *)
  told,      (* history: the last notice since the user's last request      *)
  outside    (* bound: changes so far                                       *)

hostVars == <<world, status, mode, busy, jobs, results, touched, told, outside>>

Worlds == [sharing : BOOLEAN, extend : BOOLEAN, credentials : BOOLEAN]

(* Status::default, also what a failing grdctl is read as.                 *)
Unavailable == [available |-> FALSE, sharing |-> FALSE, extend |-> FALSE, credentials |-> FALSE,
                misread |-> TRUE]

(* host::status. A systemctl that fails is read as a service that is off.  *)
Readings ==
  {Unavailable} \cup
  {[available |-> TRUE, sharing |-> world.sharing /\ active, extend |-> world.extend,
    credentials |-> world.credentials, misread |-> ~active] : active \in BOOLEAN}

Known == IF status = <<>> THEN Unavailable ELSE status[1]

HostInit ==
  /\ world \in Worlds /\ status = <<>> /\ mode = <<>> /\ busy = FALSE
  /\ jobs = {} /\ results = {} /\ touched = FALSE /\ told = "nothing" /\ outside = 0
-----------------------------------------------------------------------------
(* The background tasks.                                                   *)

Job(kind, extend, todo) == [kind |-> kind, extend |-> extend, todo |-> todo]

Applied(step, extend) ==
  CASE step = "credentials" -> [world EXCEPT !.credentials = TRUE]
    [] step = "mode" -> [world EXCEPT !.extend = extend]
    [] step \in {"service", "restart"} -> [world EXCEPT !.sharing = TRUE]
    [] step = "off" -> [world EXCEPT !.sharing = FALSE]

Step(job) ==
  /\ job.todo # <<>> /\ world' = Applied(Head(job.todo), job.extend)
  /\ jobs' = (jobs \ {job}) \cup {[job EXCEPT !.todo = Tail(@)]}
  /\ UNCHANGED <<status, mode, busy, results, touched, told, outside>>

(* The rest of the commands is not run; only the restart may fail in       *)
(* silence, and may leave the service stopped.                             *)
StepFails(job) ==
  /\ job.todo # <<>>
  /\ IF Head(job.todo) = "restart"
     THEN /\ world' \in {world, [world EXCEPT !.sharing = FALSE]}
          /\ jobs' = (jobs \ {job}) \cup {[job EXCEPT !.todo = <<>>]}
          /\ UNCHANGED results
     ELSE /\ world' \in {world, Applied(Head(job.todo), job.extend)}
          /\ jobs' = jobs \ {job}
          /\ results' = results \cup {[kind |-> job.kind, read |-> <<>>]}
  /\ UNCHANGED <<status, mode, busy, touched, told, outside>>

(* The status is read back, and the message sent.                          *)
Read(job) ==
  /\ job.todo = <<>> /\ jobs' = jobs \ {job}
  /\ \E reading \in Readings :
       /\ results' = results \cup {[kind |-> job.kind, read |-> <<reading>>]}
       /\ touched' = (touched /\ reading.misread)
  /\ UNCHANGED <<world, status, mode, busy, told, outside>>
-----------------------------------------------------------------------------
(* The window's messages.                                                  *)

Start(job) == busy' = TRUE /\ jobs' = jobs \cup {job} /\ told' = "nothing"

(* enable_host.                                                            *)
Enable(named, extend) ==
  Start(Job("enable", extend,
    (IF named THEN <<"credentials">> ELSE <<>>) \o <<"mode", "service", "restart">>))

Extend == IF mode = <<>> THEN FALSE ELSE mode[1]

(* OpenSettings, HostRefresh: refresh_host.                                *)
HostRefresh ==
  /\ ~busy /\ Start(Job("status", FALSE, <<>>))
  /\ UNCHANGED <<world, status, mode, results, touched, outside>>

HostSwitchOff ==
  /\ ~busy /\ Known.available /\ Known.sharing
  /\ Start(Job("disable", FALSE, <<"off">>))
  /\ UNCHANGED <<world, status, mode, results, touched, outside>>

HostSwitchOn ==
  /\ ~busy /\ Known.available /\ ~Known.sharing /\ Known.credentials
  /\ Enable(FALSE, Extend)
  /\ UNCHANGED <<world, status, mode, results, touched, outside>>

(* needs_credentials.                                                      *)
HostSubmit ==
  /\ ~busy /\ Known.available /\ ~Known.sharing /\ ~Known.credentials
  /\ Enable(TRUE, Extend)
  /\ UNCHANGED <<world, status, mode, results, touched, outside>>

(* Seeded fault: a mode change does not wait for the task at work.         *)
HostModeAtOnce(extend) ==
  /\ mode' = <<extend>>
  /\ IF Known.sharing /\ Known.credentials
     THEN Enable(FALSE, extend)
     ELSE told' = "nothing" /\ UNCHANGED <<busy, jobs>>
  /\ UNCHANGED <<world, status, results, touched, outside>>

HostMode(extend) ==
  /\ ~busy /\ mode' = <<extend>>
  /\ IF Known.sharing /\ Known.credentials
     THEN Enable(FALSE, extend)
     ELSE told' = "nothing" /\ UNCHANGED <<busy, jobs>>
  /\ UNCHANGED <<world, status, results, touched, outside>>

(* host_loaded.                                                            *)
Loaded(reading) ==
  /\ busy' = FALSE /\ status' = <<reading>>
  /\ mode' = IF mode = <<>> THEN <<reading.extend>> ELSE mode

(* What the notice says of the status that was read back.                  *)
Notice(kind, reading) ==
  CASE kind = "enable" -> IF reading.sharing THEN "on" ELSE "not started"
    [] kind = "disable" -> IF reading.sharing THEN "still on"
                           ELSE IF reading.available THEN "off" ELSE "unconfirmed"
    [] OTHER -> told

(* HostLoaded, HostEnabled(Ok), HostDisabled(Ok).                          *)
HostAnswer(result) ==
  /\ result.read # <<>> /\ results' = results \ {result}
  /\ Loaded(result.read[1])
  /\ told' = IF touched THEN "nothing" ELSE Notice(result.kind, result.read[1])
  /\ UNCHANGED <<world, jobs, touched, outside>>

(* Seeded fault: the status is asked for before the task at work is over.  *)
HostFailedStillBusy(result) ==
  /\ result.read = <<>> /\ results' = results \ {result} /\ told' = "failed"
  /\ UNCHANGED <<world, status, mode, busy, jobs, touched, outside>>

(* HostEnabled(Err), HostDisabled(Err): the status is read again.          *)
HostFailed(result) ==
  /\ result.read = <<>> /\ results' = results \ {result}
  /\ busy' = TRUE /\ jobs' = jobs \cup {Job("status", FALSE, <<>>)}
  /\ told' = "failed"
  /\ UNCHANGED <<world, status, mode, touched, outside>>

(* Somebody uses GNOME's settings, or the service stops by itself.         *)
Outside ==
  /\ outside < MaxOutside /\ outside' = outside + 1
  /\ world' \in Worlds \ {world} /\ touched' = TRUE /\ told' = "nothing"
  /\ UNCHANGED <<status, mode, busy, jobs, results>>
-----------------------------------------------------------------------------
Background == \E job \in jobs : Step(job) \/ StepFails(job) \/ Read(job)
Message == \E result \in results : HostAnswer(result) \/ HostFailed(result)
User == HostRefresh \/ HostSwitchOff \/ HostSwitchOn \/ HostSubmit \/ \E extend \in BOOLEAN : HostMode(extend)

HostNext == Background \/ Message \/ User \/ Outside

(* A command ends within ten seconds, and the window takes up its messages. *)
HostSpec == HostInit /\ [][HostNext]_hostVars
HostFairSpec == HostSpec /\ WF_hostVars(Background) /\ WF_hostVars(Message)
-----------------------------------------------------------------------------
(* What the user was told of sharing stays true until he asks for          *)
(* something else or changes it elsewhere: no task left over from an       *)
(* earlier request turns sharing on again after he was told that it is     *)
(* off, and when it is on it shows the screen that the panel names, if     *)
(* nobody changed that elsewhere.                                          *)
ToldTrue ==
  /\ told = "off" => ~world.sharing
  /\ told = "on" => world.sharing /\ (outside = 0 => mode = <<world.extend>>)

(* At rest, the panel shows what is: also after a run of commands that     *)
(* failed half way, unless a command that reads the status failed itself.  *)
PanelRight ==
  ~busy /\ ~touched /\ status # <<>> =>
    /\ Known.sharing => world.sharing
    /\ ~Known.misread => Known.sharing = world.sharing /\ Known.credentials = world.credentials

(* The panel tells the truth of sharing: in its answers and at rest.       *)
Truthful == ToldTrue /\ PanelRight

(* The panel always becomes usable again, however the commands end.        *)
Usable == busy ~> ~busy
=============================================================================
