--------------------------- MODULE SessionsProofs ---------------------------
(***************************************************************************)
(* A launcher tells the truth of any number of desktops, whatever their    *)
(* transports and their reasons to fail.                                   *)
(*                                                                         *)
(* A process is followed from its start by what it published: as long as   *)
(* the launcher has it among its children its status file holds just that, *)
(* and from its death on nothing about it changes, so that what a poll     *)
(* read of it is still true when the poll is over.                         *)
(*                                                                         *)
(* Two smaller parts of the launcher follow, each by itself: the Host      *)
(* panel, and the command that starts a session.                           *)
(***************************************************************************)
EXTENDS Sessions, HostPanel, Launch, SequenceTheorems, FiniteSetTheorems, TLAPS

IsConnected(record) == record # <<>> /\ record[1].state = "connected"

(* Of a process that has not started nothing is there.                     *)
Unborn ==
  \A s \in Ids : stage[s] = "none" =>
    published[s] = <<>> /\ tmp[s] = <<>> /\ s \notin DOMAIN sessions /\ s \notin closed

(* What has been read or written of a transport is true.                   *)
Answered ==
  /\ \A s \in Ids : IsConnected(tmp[s]) \/ IsConnected(file[s]) => connected[s]
  /\ \A s \in DOMAIN sessions : sessions[s] = "Connected" => connected[s] /\ published[s] # <<>>
  /\ \A seen \in live :
       /\ seen.session \in Ids
       /\ seen.transport # <<>> => connected[seen.session] /\ published[seen.session] # <<>>

(* A child's status file holds what the child published last.              *)
Current == \A s \in children : file[s] = published[s]

(* What a poll has found to have ended is a session without a child, and   *)
(* stays what it was.                                                      *)
Over == {end.session : end \in ended}
Found ==
  /\ \A end \in ended :
       /\ end.session \in DOMAIN sessions /\ stage[end.session] = "dead"
       /\ end.code = exit[end.session] /\ end.report = published[end.session]
  /\ children \cap Over = {} /\ children \subseteq DOMAIN sessions
  /\ ~quitting => DOMAIN sessions \subseteq children \cup Over

(* Between polls nothing is left of the last one.                          *)
Polling ==
  /\ looking = <<>> => ended = {} /\ live = {} /\ alive = <<>>
  /\ looking # <<>> => looking = <<looking[1]>> /\ looking[1] \subseteq children
  /\ alive # <<>> => alive[1] \in children
  /\ quitting => looking = <<>> /\ children = {}

(* What the user was told of a session is over and done with.              *)
Right(s) ==
  /\ said[s] \in Reasons <=> LastPublished(s).state = "failed"
  /\ said[s] \in Reasons => said[s] = LastPublished(s).text
  /\ said[s] = "nothing" => exit[s] = "0" /\ published[s] # <<>>
Told ==
  \A s \in Ids : said[s] # "unsaid" =>
    stage[s] = "dead" /\ s \notin DOMAIN sessions /\ Right(s)

Ended ==
  \A s \in closed :
    /\ said[s] = "unsaid" /\ s \notin children /\ stage[s] = "dead" /\ file[s] = <<>>
    /\ ~quitting => s \notin DOMAIN sessions

IInv == TypeOK /\ Unborn /\ Answered /\ Current /\ Found /\ Polling /\ Told /\ Ended
-----------------------------------------------------------------------------
(* Records, and what the launcher says of them.                            *)

LEMMA RecordFields ==
  ASSUME NEW r \in Records
  PROVE  /\ r.state = "failed" => r.text \in Reasons
         /\ r.state \in {"connected", "failed", "closed"}
<1>1. CASE \E label \in Labels : r = Connected(label)
  BY <1>1 DEF Connected
<1>2. CASE \E reason \in Reasons : r = Failed(reason)
  BY <1>2 DEF Failed
<1>3. CASE r = Closed
  BY <1>3 DEF Closed
<1> QED BY <1>1, <1>2, <1>3 DEF Records

LEMMA RecordsMade ==
  /\ \A label \in Labels : Connected(label) \in Records /\ Connected(label).state = "connected"
  /\ \A reason \in Reasons : Failed(reason) \in Records /\ Failed(reason).state = "failed"
  /\ Closed \in Records /\ Closed.state = "closed"
BY DEF Records, Connected, Failed, Closed

LEMMA WordsRight ==
  ASSUME NEW end, NEW session, end.report \in Optional(Records),
         session = "Connected" => end.report # <<>>
  PROVE  /\ Words(end, session) \in Reasons <=> end.report # <<>> /\ end.report[1].state = "failed"
         /\ Words(end, session) \in Reasons => Words(end, session) = end.report[1].text
         /\ Words(end, session) = "nothing" => end.code = "0" /\ end.report # <<>>
<1>1. {"nothing", "early", "unexpected", "unsaid"} \cap Reasons = {}
  BY SessionsAssumption DEF Reasons
<1>2. end.report # <<>> => end.report[1] \in Records
  BY DEF Optional
<1> QED BY <1>1, <1>2, RecordFields DEF Words
-----------------------------------------------------------------------------
(* Every step of a process is one of these: it lives, publishes nothing    *)
(* but what it wrote, and writes no transport it was not told of.          *)

ProcessStep(s) ==
  /\ Alive(s) /\ UNCHANGED launcherVars
  /\ stage' = [stage EXCEPT ![s] = stage'[s]] /\ stage'[s] \in Stages \ {"none"}
  /\ engine' \in [Ids -> BOOLEAN]
  /\ connected' = [connected EXCEPT ![s] = connected'[s]]
  /\ connected'[s] \in BOOLEAN /\ (connected[s] => connected'[s])
  /\ exit' = [exit EXCEPT ![s] = exit'[s]] /\ exit'[s] \in {"0", "error"}
  /\ tmp' = [tmp EXCEPT ![s] = tmp'[s]] /\ tmp'[s] \in Optional(Records)
  /\ IsConnected(tmp'[s]) => connected'[s]
  /\ \/ UNCHANGED fileVars
     \/ /\ tmp[s] # <<>>
        /\ file' = [file EXCEPT ![s] = tmp[s]] /\ published' = [published EXCEPT ![s] = tmp[s]]

LEMMA PublishSteps ==
  ASSUME IInv, NEW s \in Ids, NEW r \in Records, Publish(s, r)
  PROVE  /\ tmp' = [tmp EXCEPT ![s] = tmp'[s]] /\ tmp'[s] \in Optional(Records)
         /\ tmp'[s] = tmp[s] \/ tmp'[s] = <<r>>
         /\ UNCHANGED fileVars
BY DEF Publish, Optional, IInv, TypeOK

LEMMA ProcessSteps ==
  ASSUME IInv, NEW s \in Ids, Process(s)
  PROVE  ProcessStep(s)
<1> USE DEF IInv, TypeOK, Alive, Stages, IsConnected
<1> HIDE DEF Records, Optional
<1>0. IsConnected(tmp[s]) => connected[s]
  BY DEF Answered
<1>1. CASE Rename(s)
  BY <1>1 DEF Rename, ProcessStep, Optional
<1>2. CASE StartupFails(s)
  <2>1. Failed("config") \in Records /\ Failed("config").state = "failed"
    BY RecordsMade DEF Reasons
  <2> QED BY <1>0, <1>2, <2>1, PublishSteps DEF StartupFails, ReportStartupFailure, Ends, ProcessStep
<1>3. CASE StartupFailsUnpublished(s)
  BY <1>0, <1>3 DEF StartupFailsUnpublished, ProcessStep
<1>4. CASE WindowOpens(s)
  BY <1>0, <1>4 DEF WindowOpens, ProcessStep
<1>5. ASSUME NEW label \in Labels, Transport(s, label) PROVE ProcessStep(s)
  BY <1>5, RecordsMade, PublishSteps DEF Transport, Handles, ProcessStep
<1>6. ASSUME NEW reason \in Refusals, ConnectionFailure(s, reason) PROVE ProcessStep(s)
  <2>1. Failed(reason) \in Records /\ Failed(reason).state = "failed"
    BY RecordsMade DEF Reasons
  <2> QED BY <1>0, <1>6, <2>1, PublishSteps DEF ConnectionFailure, Handles, Ends, ProcessStep
<1>7. CASE TerminatedOk(s)
  BY <1>0, <1>7, RecordsMade, PublishSteps DEF TerminatedOk, Handles, Ends, ProcessStep
<1>8. CASE TerminatedErr(s)
  <2>1. Failed("session") \in Records /\ Failed("session").state = "failed"
    BY RecordsMade DEF Reasons
  <2> QED BY <1>0, <1>8, <2>1, PublishSteps DEF TerminatedErr, Handles, Ends, ProcessStep
<1>9. CASE DrawFails(s)
  <2>1. Failed("display") \in Records /\ Failed("display").state = "failed"
    BY RecordsMade DEF Reasons
  <2> QED BY <1>0, <1>9, <2>1, PublishSteps DEF DrawFails, Handles, Ends, ProcessStep
<1>10. CASE Exit(s)
  BY <1>0, <1>10 DEF Exit, ProcessStep
<1>11. CASE Crash(s)
  BY <1>0, <1>11 DEF Crash, ProcessStep, Optional
<1> QED BY <1>1, <1>2, <1>3, <1>4, <1>5, <1>6, <1>7, <1>8, <1>9, <1>10, <1>11 DEF Process

LEMMA ProcessKeeps ==
  ASSUME IInv, NEW s \in Ids, ProcessStep(s)
  PROVE  IInv'
<1>1. /\ UNCHANGED <<children, sessions, looking, alive, ended, live>>
      /\ UNCHANGED <<quitting, said, closed>>
  BY DEF ProcessStep, launcherVars, pollVars
<1>2. \A t \in Ids \ {s} :
        /\ stage'[t] = stage[t] /\ exit'[t] = exit[t] /\ connected'[t] = connected[t]
        /\ tmp'[t] = tmp[t] /\ file'[t] = file[t] /\ published'[t] = published[t]
  BY DEF ProcessStep, fileVars, IInv, TypeOK
<1>3. stage[s] \notin {"none", "dead"} /\ stage'[s] # "none"
  BY DEF ProcessStep, Alive
<1>4. /\ connected[s] => connected'[s]
      /\ IsConnected(tmp'[s]) => connected'[s]
      /\ \/ file'[s] = file[s] /\ published'[s] = published[s]
         \/ tmp[s] # <<>> /\ file'[s] = tmp[s] /\ published'[s] = tmp[s]
  BY DEF ProcessStep, fileVars, IInv, TypeOK
<1>5. TypeOK'
  <2>1. stage' \in [Ids -> Stages] /\ exit' \in [Ids -> {"0", "error"}]
    BY DEF ProcessStep, IInv, TypeOK
  <2>2. engine' \in [Ids -> BOOLEAN] /\ connected' \in [Ids -> BOOLEAN]
    BY DEF ProcessStep, IInv, TypeOK
  <2>3. /\ tmp' \in [Ids -> Optional(Records)]
        /\ file' \in [Ids -> Optional(Records)] /\ published' \in [Ids -> Optional(Records)]
    BY DEF ProcessStep, fileVars, IInv, TypeOK
  <2> QED BY <1>1, <2>1, <2>2, <2>3 DEF IInv, TypeOK
<1>6. Unborn'
  BY <1>1, <1>2, <1>3 DEF IInv, Unborn
<1>7. Answered'
  <2>1. \A t \in Ids : IsConnected(tmp'[t]) \/ IsConnected(file'[t]) => connected'[t]
    BY <1>2, <1>4 DEF IInv, Answered, IsConnected
  <2>2. \A t \in Ids : connected[t] /\ published[t] # <<>> => connected'[t] /\ published'[t] # <<>>
    BY <1>2, <1>4
  <2> QED BY <1>1, <2>1, <2>2 DEF IInv, TypeOK, Answered
<1>8. Current'
  BY <1>1, <1>2, <1>4 DEF IInv, TypeOK, Current
<1>9. Found'
  BY <1>1, <1>2, <1>3 DEF IInv, TypeOK, Found, Over
<1>10. Polling'
  BY <1>1 DEF IInv, Polling
<1>11. Told'
  BY <1>1, <1>2, <1>3 DEF IInv, Told, Right, LastPublished
<1>12. Ended'
  BY <1>1, <1>2, <1>3 DEF IInv, TypeOK, Ended
<1> QED BY <1>5, <1>6, <1>7, <1>8, <1>9, <1>10, <1>11, <1>12 DEF IInv
-----------------------------------------------------------------------------
(* The launcher's steps.                                                   *)

USE DEF launcherVars, processVars, pollVars, fileVars, Idle

LEMMA LaunchKeeps ==
  ASSUME IInv, NEW s \in Ids, Launch(s)
  PROVE  IInv'
<1> USE DEF Launch, Stages
<1>0. DOMAIN sessions' = DOMAIN sessions \cup {s} /\ published[s] = <<>> /\ ended = {} /\ live = {}
  BY DEF IInv, Unborn, Polling
<1>1. TypeOK'
  BY <1>0 DEF IInv, TypeOK, Optional
<1>2. Unborn'
  BY <1>0 DEF IInv, TypeOK, Unborn
<1>3. Answered'
  BY <1>0 DEF IInv, TypeOK, Answered, IsConnected
<1>4. Current'
  BY <1>0 DEF IInv, TypeOK, Current
<1>5. Found'
  BY <1>0 DEF IInv, TypeOK, Found, Over
<1>6. Polling'
  BY DEF IInv, Polling
<1>7. Told'
  BY <1>0 DEF IInv, TypeOK, Told, Right, LastPublished
<1>8. Ended'
  BY <1>0 DEF IInv, TypeOK, Ended, Unborn
<1> QED BY ONLY <1>1, <1>2, <1>3, <1>4, <1>5, <1>6, <1>7, <1>8 DEF IInv

LEMMA TickKeeps ==
  ASSUME IInv, Tick
  PROVE  IInv'
<1> USE DEF Tick
<1>0. ended = {} /\ live = {} /\ ~quitting
  BY DEF IInv, Polling
<1>1. (TypeOK /\ Unborn /\ Answered /\ Current /\ Told /\ Ended)'
  BY <1>0 DEF IInv, TypeOK, Unborn, Answered, Current, Told, Right, LastPublished, Ended
<1>2. Found'
  BY <1>0 DEF IInv, Found, Over
<1>3. Polling'
  BY <1>0 DEF IInv, Polling
<1> QED BY <1>1, <1>2, <1>3 DEF IInv

LEMMA LookEndedKeeps ==
  ASSUME IInv, NEW s \in Ids, LookEnded(s)
  PROVE  IInv'
<1> USE DEF LookEnded, Looks
<1>0. s \in children /\ s \in DOMAIN sessions /\ s \notin Over /\ file[s] = published[s]
  BY DEF IInv, Polling, Found, Current
<1>1. TypeOK'
  BY DEF IInv, TypeOK, Optional
<1>2. Unborn'
  BY DEF IInv, TypeOK, Unborn
<1>3. Answered'
  BY DEF IInv, TypeOK, Answered, IsConnected
<1>4. Current'
  BY DEF IInv, TypeOK, Current
<1>5. Found'
  <2>1. Over' = Over \cup {s}
    <3> DEFINE new == [session |-> s, code |-> exit[s], report |-> file[s]]
    <3>1. ended' = ended \cup {new} /\ new.session = s
      OBVIOUS
    <3> HIDE DEF new
    <3> QED BY <3>1 DEF Over
  <2> QED BY <1>0, <2>1 DEF IInv, Found
<1>6. Polling'
  BY DEF IInv, Polling
<1>7. Told'
  BY DEF IInv, TypeOK, Told, Right, LastPublished
<1>8. Ended'
  BY DEF IInv, TypeOK, Ended
<1> QED BY ONLY <1>1, <1>2, <1>3, <1>4, <1>5, <1>6, <1>7, <1>8 DEF IInv

LEMMA LookAliveKeeps ==
  ASSUME IInv, NEW s \in Ids, LookAlive(s)
  PROVE  IInv'
<1> USE DEF LookAlive, Looks
<1>1. (TypeOK /\ Unborn /\ Current)'
  BY DEF IInv, TypeOK, Unborn, Current
<1>2. (Answered /\ Found)'
  BY DEF IInv, Answered, IsConnected, Found, Over
<1>3. Polling'
  BY DEF IInv, Polling
<1>4. (Told /\ Ended)'
  BY DEF IInv, Told, Right, LastPublished, Ended
<1> QED BY ONLY <1>1, <1>2, <1>3, <1>4 DEF IInv

LEMMA ReadLiveKeeps ==
  ASSUME IInv, ReadLive
  PROVE  IInv'
<1> USE DEF ReadLive
<1>1. Answered'
  <2>1. alive[1] \in Ids /\ file[alive[1]] = published[alive[1]]
    BY DEF IInv, Polling, Current, TypeOK
  <2>2. TransportOf(file[alive[1]]) # <<>> => IsConnected(file[alive[1]])
    BY DEF TransportOf, IsConnected
  <2> QED BY <2>1, <2>2 DEF IInv, Answered, IsConnected
<1>2. (TypeOK /\ Unborn /\ Current /\ Found /\ Told /\ Ended)'
  BY DEF IInv, TypeOK, Unborn, Current, Found, Over, Told, Right, LastPublished, Ended
<1>3. Polling'
  BY DEF IInv, Polling
<1> QED BY <1>1, <1>2, <1>3 DEF IInv

(* What is said is what was published, as of the process's death.          *)
LEMMA PollDoneKeeps ==
  ASSUME IInv, PollDone
  PROVE  IInv'
<1> USE DEF PollDone
<1>0. /\ DOMAIN sessions' = DOMAIN sessions \ Over
      /\ \A s \in DOMAIN sessions' :
           sessions'[s] = IF \E seen \in live : seen.session = s /\ seen.transport # <<>>
                          THEN "Connected" ELSE sessions[s]
  BY DEF Over
<1>1. TypeOK'
  BY <1>0 DEF IInv, TypeOK
<1>2. Unborn'
  BY <1>0 DEF IInv, Unborn
<1>3. Answered'
  BY <1>0 DEF IInv, Answered, IsConnected
<1>4. Current'
  BY DEF IInv, Current
<1>5. Found'
  BY <1>0 DEF IInv, Found, Over
<1>6. Polling'
  BY DEF IInv, Polling
<1>7. Told'
  <2> SUFFICES ASSUME NEW s \in Ids, said'[s] # "unsaid"
               PROVE  stage[s] = "dead" /\ s \notin DOMAIN sessions' /\ Right(s)'
    BY DEF Told
  <2>1. CASE s \in DOMAIN sessions /\ s \in Over
    <3> DEFINE end == CHOOSE end \in ended : end.session = s
    <3>1. end \in ended /\ end.session = s
      BY <2>1 DEF Over
    <3>2. said'[s] = Words(end, sessions[s])
      BY <2>1 DEF Over
    <3> HIDE DEF end
    <3>3. stage[s] = "dead" /\ end.code = exit[s] /\ end.report = published[s]
      BY <3>1 DEF IInv, Found
    <3>4. end.report \in Optional(Records) /\ (sessions[s] = "Connected" => end.report # <<>>)
      BY <2>1, <3>3 DEF IInv, TypeOK, Answered
    <3>5. LastPublished(s).state = "failed" <=> end.report # <<>> /\ end.report[1].state = "failed"
      BY <3>3 DEF LastPublished, Closed
    <3>6. end.report # <<>> => LastPublished(s) = end.report[1]
      BY <3>3 DEF LastPublished
    <3>7. Right(s)'
      BY <3>2, <3>3, <3>4, <3>5, <3>6, WordsRight DEF Right, LastPublished
    <3> QED BY <1>0, <2>1, <3>3, <3>7
  <2>2. CASE ~(s \in DOMAIN sessions /\ s \in Over)
    <3>1. said'[s] = said[s]
      BY <2>2 DEF Over
    <3> QED BY <1>0, <3>1 DEF IInv, Told, Right, LastPublished
  <2> QED BY <2>1, <2>2
<1>8. Ended'
  <2> SUFFICES ASSUME NEW s \in closed
               PROVE  said'[s] = "unsaid" /\ (~quitting => s \notin DOMAIN sessions')
    BY DEF IInv, Ended
  <2>1. ~quitting /\ s \in Ids
    BY DEF IInv, Polling, TypeOK
  <2> QED BY <1>0, <2>1 DEF IInv, Ended
<1> QED BY ONLY <1>1, <1>2, <1>3, <1>4, <1>5, <1>6, <1>7, <1>8 DEF IInv

(* Sessions the launcher ends are forgotten as a whole.                    *)
LEMMA KillKeeps ==
  ASSUME IInv, ~quitting, looking = <<>>, NEW doomed \in SUBSET children, Kill(doomed),
         UNCHANGED <<connected, published, pollVars, said>>,
         asked' \subseteq asked,
         \/ UNCHANGED quitting /\ sessions' = [t \in DOMAIN sessions \ doomed |-> sessions[t]]
         \/ quitting' = TRUE /\ UNCHANGED sessions /\ doomed = children
  PROVE  IInv'
<1> USE DEF Kill, Stages
<1>0. /\ ended = {} /\ live = {} /\ Over = {} /\ doomed \subseteq Ids
      /\ DOMAIN sessions = children /\ DOMAIN sessions' \subseteq DOMAIN sessions
      /\ \A s \in DOMAIN sessions' : sessions'[s] = sessions[s]
  BY DEF IInv, Polling, Found, Over, TypeOK
<1>1. TypeOK'
  BY <1>0 DEF IInv, TypeOK, Optional
<1>2. Unborn'
  BY <1>0 DEF IInv, TypeOK, Unborn
<1>3. Answered'
  BY <1>0 DEF IInv, TypeOK, Answered, IsConnected
<1>4. Current'
  BY <1>0 DEF IInv, TypeOK, Current
<1>5. Found'
  BY <1>0 DEF IInv, Found, Over
<1>6. Polling'
  BY <1>0 DEF IInv, Polling
<1>7. Told'
  BY <1>0 DEF IInv, TypeOK, Told, Right, LastPublished
<1>8. Ended'
  <2> SUFFICES ASSUME NEW s \in closed'
               PROVE  /\ said[s] = "unsaid" /\ s \notin children' /\ stage'[s] = "dead" /\ file'[s] = <<>>
                      /\ ~quitting' => s \notin DOMAIN sessions'
    BY DEF Ended
  <2>1. CASE s \in doomed
    BY <1>0, <2>1 DEF IInv, Told
  <2>2. CASE s \in closed /\ s \notin doomed
    BY <1>0, <2>2 DEF IInv, TypeOK, Ended
  <2> QED BY <2>1, <2>2
<1> QED BY ONLY <1>1, <1>2, <1>3, <1>4, <1>5, <1>6, <1>7, <1>8 DEF IInv

LEMMA StutterKeeps ==
  ASSUME IInv,
         UNCHANGED <<processVars, fileVars, children, sessions, pollVars, quitting, said, closed>>
  PROVE  IInv'
<1>1. (TypeOK /\ Unborn /\ Current)'
  BY DEF IInv, TypeOK, Unborn, Current
<1>2. (Answered /\ Polling)'
  BY DEF IInv, Answered, IsConnected, Polling
<1>3. Found'
  BY DEF IInv, Found, Over
<1>4. (Told /\ Ended)'
  BY DEF IInv, Told, Right, LastPublished, Ended
<1> QED BY <1>1, <1>2, <1>3, <1>4 DEF IInv

LEMMA CloseKeeps ==
  ASSUME IInv, NEW s \in Ids, Idle, CloseSession(s), asked' \subseteq asked,
         UNCHANGED <<connected, published, pollVars, quitting, said>>
  PROVE  IInv'
<1>1. CASE s \in DOMAIN sessions
  <2>1. {s} \subseteq children
    BY <1>1 DEF IInv, Found, Polling, Over
  <2> QED BY <1>1, <2>1, KillKeeps DEF CloseSession
<1>2. CASE s \notin DOMAIN sessions
  <2>1. sessions' = sessions
    BY <1>2 DEF CloseSession, IInv, TypeOK
  <2> QED BY <1>2, <2>1, StutterKeeps DEF CloseSession
<1> QED BY <1>1, <1>2

LEMMA InitHolds == Init => IInv
<1> SUFFICES ASSUME Init PROVE IInv
  OBVIOUS
<1> USE DEF Init
<1>1. DOMAIN sessions = {}
  OBVIOUS
<1>2. TypeOK
  BY <1>1 DEF TypeOK, Stages, Optional
<1>3. Unborn /\ Answered /\ Current /\ Found /\ Polling
  BY <1>1 DEF Unborn, Answered, IsConnected, Current, Found, Over, Polling
<1>4. Told /\ Ended
  BY <1>1 DEF Told, Ended
<1> QED BY <1>2, <1>3, <1>4 DEF IInv

LEMMA StepKeeps == IInv /\ [Next]_vars => IInv'
<1> SUFFICES ASSUME IInv, [Next]_vars PROVE IInv'
  OBVIOUS
<1>1. CASE Poll
  BY <1>1, TickKeeps, ReadLiveKeeps, PollDoneKeeps, LookEndedKeeps, LookAliveKeeps DEF Poll
<1>2. CASE Quit
  BY <1>2, KillKeeps DEF Quit
<1>3. ASSUME NEW s \in Ids, Process(s) PROVE IInv'
  BY <1>3, ProcessSteps, ProcessKeeps
<1>4. ASSUME NEW s \in Ids, Launch(s) PROVE IInv'
  BY <1>4, LaunchKeeps
<1>5. ASSUME NEW s \in Ids, AskDisconnect(s) PROVE IInv'
  <2>1. CASE sessions[s] = "Connected"
    BY <1>5, <2>1, StutterKeeps DEF AskDisconnect
  <2>2. CASE sessions[s] # "Connected"
    BY <1>5, <2>2, CloseKeeps DEF AskDisconnect
  <2> QED BY <2>1, <2>2
<1>6. ASSUME NEW s \in Ids, ConfirmDisconnect(s) PROVE IInv'
  BY <1>6, CloseKeeps DEF ConfirmDisconnect
<1>7. ASSUME NEW s \in Ids, CancelDisconnect(s) PROVE IInv'
  BY <1>7, StutterKeeps DEF CancelDisconnect
<1>8. CASE UNCHANGED vars
  BY <1>8, StutterKeeps DEF vars
<1> QED BY <1>1, <1>2, <1>3, <1>4, <1>5, <1>6, <1>7, <1>8 DEF Next
-----------------------------------------------------------------------------
(* Every process, file and list keeps its type.                            *)
THEOREM TypeCorrect == Spec => []TypeOK
<1>1. IInv => TypeOK
  BY DEF IInv
<1> QED BY <1>1, InitHolds, StepKeeps, PTL DEF Spec

(* The last record a session published is what the user is told of its     *)
(* end, however writes, renames, crashes and polls took turns.             *)
THEOREM ToldWhyHolds == Spec => []ToldWhy
<1>1. IInv => ToldWhy
  BY DEF IInv, Told, Right, ToldWhy
<1> QED BY <1>1, InitHolds, StepKeeps, PTL DEF Spec

(* Only a session that published a transport counts as connected.          *)
THEOREM StampedAnsweredHolds == Spec => []StampedAnswered
<1>1. IInv => StampedAnswered
  BY DEF IInv, Answered, StampedAnswered
<1> QED BY <1>1, InitHolds, StepKeeps, PTL DEF Spec

(* Nothing is said or kept of a session the launcher ended, and between    *)
(* polls it has one process for every tab.                                 *)
THEOREM ClosedQuietlyHolds == Spec => []ClosedQuietly
<1>1. IInv => ClosedQuietly
  BY DEF IInv, Ended, Found, Over, Polling, Idle, ClosedQuietly
<1> QED BY <1>1, InitHolds, StepKeeps, PTL DEF Spec
-----------------------------------------------------------------------------
(* The Host panel: a busy panel waits for exactly one task or its result,  *)
(* which says what is so and what the task has done.                       *)

(* What is left to do of a task, by its kind.                              *)
Todos(kind) ==
  IF kind = "enable"
  THEN {<<"credentials", "mode", "service", "restart">>, <<"mode", "service", "restart">>,
        <<"service", "restart">>, <<"restart">>, <<>>}
  ELSE IF kind = "disable" THEN {<<"off">>, <<>>} ELSE {<<>>}
Kinds == {"status", "enable", "disable"}
Jobs == [kind : Kinds, extend : BOOLEAN, todo : Todos("enable") \cup Todos("disable")]
AllReadings == [available : BOOLEAN, sharing : BOOLEAN, extend : BOOLEAN, credentials : BOOLEAN, misread : BOOLEAN]

(* A reading shows no sharing that is not there, and without a service     *)
(* that could not be asked shows what is.                                  *)
Fresh(reading) ==
  /\ reading.sharing => world.sharing
  /\ ~reading.misread => reading.sharing = world.sharing /\ reading.credentials = world.credentials

(* What a task at work has done so far.                                    *)
JobRight(job) ==
  /\ job \in Jobs /\ job.todo \in Todos(job.kind)
  /\ job.kind = "enable" => mode = <<job.extend>>
  /\ job.kind = "enable" /\ outside = 0 /\ Len(job.todo) < 3 => world.extend = job.extend
  /\ job.kind = "disable" /\ job.todo = <<>> /\ ~touched => ~world.sharing

(* What a result on its way to the window says.                            *)
ResultRight(result) ==
  /\ result.kind \in Kinds
  /\ result.read # <<>> =>
       /\ result.read[1] \in AllReadings /\ result.read = <<result.read[1]>>
       /\ ~touched => Fresh(result.read[1])
       /\ result.kind = "enable" => \E extend \in BOOLEAN : mode = <<extend>> /\ (outside = 0 => world.extend = extend)
       /\ result.kind = "disable" /\ ~touched => (world.sharing => result.read[1].sharing)

HostTypeOK ==
  /\ world \in Worlds /\ outside \in Nat
  /\ status = <<>> \/ \E reading \in AllReadings : status = <<reading>>
  /\ mode = <<>> \/ \E extend \in BOOLEAN : mode = <<extend>>
  /\ busy \in BOOLEAN /\ touched \in BOOLEAN
  /\ told \in {"nothing", "failed", "on", "off", "not started", "still on", "unconfirmed"}

(* A busy panel waits for exactly one task or its result.                  *)
Working ==
  /\ jobs # {} => busy /\ results = {} /\ \E job : jobs = {job} /\ JobRight(job)
  /\ results # {} => busy /\ jobs = {} /\ \E result : results = {result} /\ ResultRight(result)

HostInv ==
  /\ HostTypeOK /\ Working /\ Truthful
  /\ status # <<>> => mode # <<>>
  /\ told \in {"on", "off"} => ~busy
-----------------------------------------------------------------------------
(* What is left of a task after its next command.                          *)
LEMMA TodoTails ==
  /\ Tail(<<"credentials", "mode", "service", "restart">>) = <<"mode", "service", "restart">>
  /\ Tail(<<"mode", "service", "restart">>) = <<"service", "restart">>
  /\ Tail(<<"service", "restart">>) = <<"restart">>
  /\ Tail(<<"restart">>) = <<>> /\ Tail(<<"off">>) = <<>>
OBVIOUS

LEMMA TodoNext ==
  ASSUME NEW kind \in Kinds, NEW todo \in Todos(kind), todo # <<>>
  PROVE  /\ Tail(todo) \in Todos(kind) /\ <<>> \in Todos(kind)
         /\ Head(todo) \in {"credentials", "mode", "service", "restart", "off"}
         /\ Head(todo) = "off" <=> kind = "disable"
         /\ kind = "disable" => Tail(todo) = <<>>
         /\ Head(todo) = "restart" => todo = <<"restart">> /\ kind = "enable"
         /\ kind = "enable" /\ Head(todo) # "mode" /\ Len(Tail(todo)) < 3 => Len(todo) < 3
<1>1. CASE kind = "enable"
  <2>1. Todos(kind) = {<<"credentials", "mode", "service", "restart">>, <<"mode", "service", "restart">>,
                       <<"service", "restart">>, <<"restart">>, <<>>}
    BY <1>1 DEF Todos
  <2>2. CASE todo = <<"credentials", "mode", "service", "restart">>
    BY <1>1, <2>1, <2>2, TodoTails
  <2>3. CASE todo = <<"mode", "service", "restart">>
    BY <1>1, <2>1, <2>3, TodoTails
  <2>4. CASE todo = <<"service", "restart">>
    BY <1>1, <2>1, <2>4, TodoTails
  <2>5. CASE todo = <<"restart">>
    BY <1>1, <2>1, <2>5, TodoTails
  <2> QED BY <2>1, <2>2, <2>3, <2>4, <2>5
<1>2. CASE kind = "disable"
  <2>1. Todos(kind) = {<<"off">>, <<>>} /\ todo = <<"off">>
    BY <1>2 DEF Todos
  <2> QED BY <1>2, <2>1, TodoTails
<1>3. CASE kind = "status"
  BY <1>3 DEF Todos
<1> QED BY <1>1, <1>2, <1>3 DEF Kinds
-----------------------------------------------------------------------------
LEMMA JobAlone ==
  ASSUME HostInv, NEW job \in jobs
  PROVE  jobs = {job} /\ results = {} /\ busy /\ JobRight(job) /\ told \notin {"on", "off"}
BY DEF HostInv, Working

LEMMA ResultAlone ==
  ASSUME HostInv, NEW result \in results
  PROVE  results = {result} /\ jobs = {} /\ busy /\ ResultRight(result) /\ told \notin {"on", "off"}
BY DEF HostInv, Working

(* Sharing is turned on, off and set up one command at a time.             *)
LEMMA AppliedType ==
  ASSUME HostTypeOK, NEW step \in {"credentials", "mode", "service", "restart", "off"}, NEW extend \in BOOLEAN
  PROVE  /\ Applied(step, extend) \in Worlds
         /\ step = "off" => ~Applied(step, extend).sharing
         /\ step = "mode" => Applied(step, extend).extend = extend
         /\ step # "mode" => Applied(step, extend).extend = world.extend
<1>1. CASE step = "credentials"
  BY <1>1 DEF Applied, HostTypeOK, Worlds
<1>2. CASE step = "mode"
  BY <1>2 DEF Applied, HostTypeOK, Worlds
<1>3. CASE step \in {"service", "restart"}
  BY <1>3 DEF Applied, HostTypeOK, Worlds
<1>4. CASE step = "off"
  BY <1>4 DEF Applied, HostTypeOK, Worlds
<1> QED BY <1>1, <1>2, <1>3, <1>4

LEMMA TaskStepKeeps ==
  ASSUME HostInv, NEW job \in jobs, Step(job)
  PROVE  HostInv'
<1> DEFINE new == [job EXCEPT !.todo = Tail(@)]
<1>1. jobs = {job} /\ results = {} /\ busy /\ JobRight(job) /\ told \notin {"on", "off"}
  BY JobAlone
<1>2. job \in Jobs /\ job.todo \in Todos(job.kind) /\ job.todo # <<>> /\ job.kind \in Kinds /\ job.extend \in BOOLEAN
  BY <1>1 DEF JobRight, Step, Jobs
<1>3. new.kind = job.kind /\ new.extend = job.extend /\ new.todo = Tail(job.todo) /\ new \in Jobs
  BY <1>2, TodoNext DEF Jobs, Todos, Kinds
<1>4. world' = Applied(Head(job.todo), job.extend) /\ world' \in Worlds
  BY <1>2, TodoNext, AppliedType DEF Step, HostInv
<1>5. jobs' = {new} /\ UNCHANGED <<status, mode, busy, results, touched, told, outside>>
  BY <1>1 DEF Step
<1>6. JobRight(new)'
  <2>1. new.todo \in Todos(new.kind)
    BY <1>2, <1>3, TodoNext
  <2>2. new.kind = "enable" => mode' = <<new.extend>>
    BY <1>1, <1>3, <1>5 DEF JobRight
  <2>3. ASSUME new.kind = "enable", outside' = 0, Len(new.todo) < 3 PROVE world'.extend = new.extend
    <3>1. CASE Head(job.todo) = "mode"
      BY <3>1, <1>2, <1>3, <1>4, TodoNext, AppliedType DEF HostInv
    <3>2. CASE Head(job.todo) # "mode"
      <4>1. Len(job.todo) < 3
        BY <3>2, <2>3, <1>2, <1>3, TodoNext
      <4>2. world.extend = job.extend
        BY <4>1, <2>3, <1>1, <1>3, <1>5 DEF JobRight
      <4> QED BY <4>2, <3>2, <1>2, <1>3, <1>4, TodoNext, AppliedType DEF HostInv
    <3> QED BY <3>1, <3>2
  <2>4. new.kind = "disable" => ~world'.sharing
    BY <1>2, <1>3, <1>4, TodoNext, AppliedType DEF HostInv
  <2> QED BY <1>3, <2>1, <2>2, <2>3, <2>4 DEF JobRight
<1>7. HostTypeOK'
  BY <1>4, <1>5 DEF HostInv, HostTypeOK
<1> QED BY <1>1, <1>5, <1>6, <1>7 DEF HostInv, Working, Truthful, ToldTrue, PanelRight, Known

LEMMA StepFailsKeeps ==
  ASSUME HostInv, NEW job \in jobs, StepFails(job)
  PROVE  HostInv'
<1>1. jobs = {job} /\ results = {} /\ busy /\ JobRight(job) /\ told \notin {"on", "off"}
  BY JobAlone
<1>2. job \in Jobs /\ job.todo \in Todos(job.kind) /\ job.todo # <<>> /\ job.kind \in Kinds /\ job.extend \in BOOLEAN
  BY <1>1 DEF JobRight, StepFails, Jobs
<1>3. UNCHANGED <<status, mode, busy, touched, told, outside>>
  BY DEF StepFails
<1>4. CASE Head(job.todo) = "restart"
  <2> DEFINE new == [job EXCEPT !.todo = <<>>]
  <2>1. job.todo = <<"restart">> /\ job.kind = "enable"
    BY <1>2, <1>4, TodoNext
  <2>2. new.kind = "enable" /\ new.extend = job.extend /\ new.todo = <<>> /\ new \in Jobs /\ <<>> \in Todos("enable")
    BY <1>2, <2>1, TodoNext DEF Jobs, Todos, Kinds
  <2>3. jobs' = {new} /\ results' = {} /\ world' \in {world, [world EXCEPT !.sharing = FALSE]}
    BY <1>1, <1>4 DEF StepFails
  <2>4. world' \in Worlds /\ world'.extend = world.extend
    BY <2>3 DEF HostInv, HostTypeOK, Worlds
  <2>5. JobRight(new)'
    <3>1. new.kind = "enable" => mode' = <<new.extend>>
      BY <1>1, <1>3, <2>1, <2>2 DEF JobRight
    <3>2. outside' = 0 => world'.extend = new.extend
      BY <1>1, <1>3, <2>1, <2>2, <2>4 DEF JobRight
    <3> QED BY <2>2, <3>1, <3>2 DEF JobRight
  <2>6. HostTypeOK'
    BY <1>3, <2>4 DEF HostInv, HostTypeOK
  <2> QED BY <1>1, <1>3, <2>3, <2>5, <2>6 DEF HostInv, Working, Truthful, ToldTrue, PanelRight, Known
<1>5. CASE Head(job.todo) # "restart"
  <2> DEFINE new == [kind |-> job.kind, read |-> <<>>]
  <2>1. jobs' = {} /\ results' = {new} /\ world' \in {world, Applied(Head(job.todo), job.extend)}
    BY <1>1, <1>5 DEF StepFails
  <2>2. world' \in Worlds
    <3>1. CASE world' = world
      BY <3>1 DEF HostInv, HostTypeOK
    <3>2. CASE world' = Applied(Head(job.todo), job.extend)
      BY <3>2, <1>2, TodoNext, AppliedType DEF HostInv
    <3> QED BY <2>1, <3>1, <3>2
  <2>3. ResultRight(new)'
    BY <1>2 DEF ResultRight
  <2>4. HostTypeOK'
    BY <1>3, <2>2 DEF HostInv, HostTypeOK
  <2> QED BY <1>1, <1>3, <2>1, <2>3, <2>4 DEF HostInv, Working, Truthful, ToldTrue, PanelRight, Known
<1> QED BY <1>4, <1>5

(* What is read is of the desktop as it is, unless the reading fails.      *)
LEMMA ReadingFresh ==
  ASSUME HostTypeOK, NEW reading \in Readings
  PROVE  reading \in AllReadings /\ Fresh(reading) /\ (~reading.misread => reading.extend = world.extend)
<1>1. CASE reading = Unavailable
  BY <1>1 DEF Unavailable, AllReadings, Fresh
<1>2. ASSUME NEW active \in BOOLEAN,
             reading = [available |-> TRUE, sharing |-> world.sharing /\ active, extend |-> world.extend,
                        credentials |-> world.credentials, misread |-> ~active]
      PROVE  reading \in AllReadings /\ Fresh(reading) /\ (~reading.misread => reading.extend = world.extend)
  <2>1. world.sharing \in BOOLEAN /\ world.extend \in BOOLEAN /\ world.credentials \in BOOLEAN
    BY DEF HostTypeOK, Worlds
  <2>2. CASE active = TRUE
    <3>1. reading = [available |-> TRUE, sharing |-> world.sharing, extend |-> world.extend,
                     credentials |-> world.credentials, misread |-> FALSE]
      BY <1>2, <2>1, <2>2
    <3> QED BY <2>1, <3>1 DEF AllReadings, Fresh
  <2>3. CASE active = FALSE
    <3>1. reading = [available |-> TRUE, sharing |-> FALSE, extend |-> world.extend,
                     credentials |-> world.credentials, misread |-> TRUE]
      BY <1>2, <2>1, <2>3
    <3> QED BY <2>1, <3>1 DEF AllReadings, Fresh
  <2> QED BY <2>2, <2>3
<1> QED BY <1>1, <1>2 DEF Readings

LEMMA ReadKeeps ==
  ASSUME HostInv, NEW job \in jobs, Read(job)
  PROVE  HostInv'
<1>1. jobs = {job} /\ results = {} /\ busy /\ JobRight(job) /\ told \notin {"on", "off"}
  BY JobAlone
<1>2. job.todo = <<>> /\ UNCHANGED <<world, status, mode, busy, told, outside>> /\ job.kind \in Kinds /\ job.extend \in BOOLEAN
  BY <1>1 DEF JobRight, Read, Jobs
<1>3. PICK reading \in Readings :
        /\ results' = {[kind |-> job.kind, read |-> <<reading>>]} /\ jobs' = {}
        /\ touched' = (touched /\ reading.misread)
  BY <1>1 DEF Read
<1>4. reading \in AllReadings /\ Fresh(reading)
  BY ReadingFresh DEF HostInv
<1> DEFINE new == [kind |-> job.kind, read |-> <<reading>>]
<1>5. new.kind = job.kind /\ new.read = <<reading>> /\ new.read[1] = reading /\ new.read # <<>>
  OBVIOUS
<1>6. ResultRight(new)'
  <2>1. Fresh(reading)'
    BY <1>2, <1>4 DEF Fresh
  <2>2. ASSUME job.kind = "enable" PROVE mode' = <<job.extend>> /\ (outside' = 0 => world'.extend = job.extend)
    BY <1>1, <1>2, <2>2 DEF JobRight
  <2>3. ASSUME job.kind = "disable", ~touched' PROVE world'.sharing => reading.sharing
    BY <1>1, <1>2, <1>3, <1>4, <2>3 DEF JobRight, Fresh
  <2> QED BY <1>2, <1>4, <1>5, <2>1, <2>2, <2>3 DEF ResultRight
<1>7. HostTypeOK'
  <2>1. touched' \in BOOLEAN
    BY <1>3, <1>4 DEF AllReadings, HostInv, HostTypeOK
  <2> QED BY <1>2, <2>1 DEF HostInv, HostTypeOK
<1> QED BY <1>1, <1>2, <1>3, <1>6, <1>7 DEF HostInv, Working, Truthful, ToldTrue, PanelRight, Known
-----------------------------------------------------------------------------
(* A task started by a panel at rest.                                      *)
LEMMA Started ==
  ASSUME HostInv, ~busy, NEW new, Start(new), JobRight(new)', HostTypeOK', results' = results,
         status' = status, status # <<>> => mode' # <<>>
  PROVE  HostInv'
<1>1. jobs = {} /\ results = {}
  BY DEF HostInv, Working
<1>2. jobs' = {new} /\ busy' = TRUE /\ told' = "nothing" /\ results' = {}
  BY <1>1 DEF Start
<1> QED BY <1>1, <1>2 DEF HostInv, Working, Truthful, ToldTrue, PanelRight, Known

LEMMA EnableTodo ==
  /\ <<>> \o <<"mode", "service", "restart">> = <<"mode", "service", "restart">>
  /\ <<"credentials">> \o <<"mode", "service", "restart">> = <<"credentials", "mode", "service", "restart">>
<1> DEFINE Steps == {"credentials", "mode", "service", "restart"}
           tail == <<"mode", "service", "restart">>
           all == <<"credentials">> \o tail
<1>1. tail \in Seq(Steps) /\ <<"credentials">> \in Seq(Steps) /\ Len(tail) = 3
  OBVIOUS
<1>2. <<>> \o tail = tail
  BY <1>1, ConcatEmptySeq
<1>3. /\ all \in Seq(Steps) /\ Len(all) = 4
      /\ \A i \in 1 .. 4 : all[i] = IF i <= 1 THEN <<"credentials">>[i] ELSE tail[i - 1]
  BY <1>1, ConcatProperties, Len(<<"credentials">>) = 1
<1>4. all[1] = "credentials" /\ all[2] = "mode" /\ all[3] = "service" /\ all[4] = "restart"
  BY <1>3
<1>5. all = <<"credentials", "mode", "service", "restart">>
  <2> DEFINE goal == <<"credentials", "mode", "service", "restart">>
  <2>1. goal \in Seq(Steps) /\ Len(goal) = 4
    OBVIOUS
  <2>2. \A i \in 1 .. 4 : all[i] = goal[i]
    BY <1>4
  <2> HIDE DEF all, goal
  <2> QED BY <1>3, <2>1, <2>2, SeqEqual
<1> QED BY <1>2, <1>5

LEMMA EnableKeeps ==
  ASSUME HostInv, ~busy, NEW named \in BOOLEAN, NEW extend \in BOOLEAN, Enable(named, extend),
         mode' = <<extend>>, UNCHANGED <<world, status, results, touched, outside>>
  PROVE  HostInv'
<1> DEFINE todo == (IF named THEN <<"credentials">> ELSE <<>>) \o <<"mode", "service", "restart">>
           new == Job("enable", extend, todo)
<1>1. todo \in {<<"credentials", "mode", "service", "restart">>, <<"mode", "service", "restart">>}
  BY EnableTodo
<1>2. ~(Len(todo) < 3) /\ todo \in Todos("enable") /\ todo # <<>>
  BY <1>1 DEF Todos
<1>3. new.kind = "enable" /\ new.extend = extend /\ new.todo = todo /\ new \in Jobs
  BY <1>2 DEF Job, Jobs, Kinds
<1>4. JobRight(new)'
  BY <1>2, <1>3 DEF JobRight
<1>5. Start(new)
  BY DEF Enable
<1>6. HostTypeOK'
  BY <1>5 DEF HostInv, HostTypeOK, Start
<1> QED BY <1>4, <1>5, <1>6, Started

(* A task that does not turn sharing on.                                   *)
LEMMA AskKeeps ==
  ASSUME HostInv, ~busy, NEW new \in {Job("status", FALSE, <<>>), Job("disable", FALSE, <<"off">>)},
         Start(new), UNCHANGED <<world, status, mode, results, touched, outside>>
  PROVE  HostInv'
<1>1. new \in Jobs /\ new.todo \in Todos(new.kind) /\ new.kind # "enable" /\ (new.kind = "disable" => new.todo # <<>>)
  <2>1. CASE new = Job("status", FALSE, <<>>)
    BY <2>1 DEF Job, Jobs, Kinds, Todos
  <2>2. CASE new = Job("disable", FALSE, <<"off">>)
    BY <2>2 DEF Job, Jobs, Kinds, Todos
  <2> QED BY <2>1, <2>2
<1>2. JobRight(new)'
  BY <1>1 DEF JobRight
<1>3. HostTypeOK'
  BY DEF HostInv, HostTypeOK, Start
<1> QED BY <1>2, <1>3, Started DEF HostInv

LEMMA UserKeeps ==
  ASSUME HostInv, User
  PROVE  HostInv'
<1>1. CASE HostRefresh
  BY <1>1, AskKeeps DEF HostRefresh
<1>2. CASE HostSwitchOff
  BY <1>2, AskKeeps DEF HostSwitchOff
<1>3. ASSUME NEW named \in BOOLEAN, ~busy, Known.available, Enable(named, Extend),
             UNCHANGED <<world, status, mode, results, touched, outside>>
      PROVE  HostInv'
  <2>1. status # <<>>
    BY <1>3 DEF Known, Unavailable
  <2>2. PICK extend \in BOOLEAN : mode = <<extend>>
    BY <2>1 DEF HostInv, HostTypeOK
  <2>3. Extend = extend
    BY <2>2 DEF Extend
  <2> QED BY <1>3, <2>2, <2>3, EnableKeeps
<1>4. CASE HostSwitchOn
  BY <1>3, <1>4 DEF HostSwitchOn
<1>5. CASE HostSubmit
  BY <1>3, <1>5 DEF HostSubmit
<1>6. ASSUME NEW extend \in BOOLEAN, HostMode(extend) PROVE HostInv'
  <2>1. CASE Known.sharing /\ Known.credentials
    BY <1>6, <2>1, EnableKeeps DEF HostMode
  <2>2. CASE ~(Known.sharing /\ Known.credentials)
    <3>1. ~busy /\ mode' = <<extend>> /\ told' = "nothing" /\ UNCHANGED <<world, status, busy, jobs, results, touched, outside>>
      BY <1>6, <2>2 DEF HostMode
    <3>2. jobs' = {} /\ results' = {}
      BY <3>1 DEF HostInv, Working
    <3>3. HostTypeOK'
      BY <3>1 DEF HostInv, HostTypeOK
    <3>4. PanelRight'
      BY <3>1 DEF HostInv, Truthful, PanelRight, Known
    <3> QED BY <3>1, <3>2, <3>3, <3>4 DEF HostInv, Working, Truthful, ToldTrue
  <2> QED BY <2>1, <2>2
<1> QED BY <1>1, <1>2, <1>4, <1>5, <1>6 DEF User
-----------------------------------------------------------------------------
LEMMA HostAnswerKeeps ==
  ASSUME HostInv, NEW result \in results, HostAnswer(result)
  PROVE  HostInv'
<1>1. results = {result} /\ jobs = {} /\ busy /\ ResultRight(result) /\ told \notin {"on", "off"}
  BY ResultAlone
<1> DEFINE reading == result.read[1]
<1>2. /\ results' = {} /\ jobs' = {} /\ busy' = FALSE /\ status' = <<reading>>
      /\ mode' = (IF mode = <<>> THEN <<reading.extend>> ELSE mode)
      /\ told' = (IF touched THEN "nothing" ELSE Notice(result.kind, reading))
      /\ UNCHANGED <<world, touched, outside>>
  BY <1>1 DEF HostAnswer, Loaded
<1>3. /\ result.kind \in Kinds /\ reading \in AllReadings /\ (~touched => Fresh(reading))
      /\ result.kind = "enable" => \E extend \in BOOLEAN : mode = <<extend>> /\ (outside = 0 => world.extend = extend)
      /\ result.kind = "disable" /\ ~touched => (world.sharing => reading.sharing)
  BY <1>1 DEF ResultRight, HostAnswer
<1>4. \E extend \in BOOLEAN : mode' = <<extend>>
  BY <1>2, <1>3 DEF HostInv, HostTypeOK, AllReadings
<1>5. told' \in {"nothing", "failed", "on", "off", "not started", "still on", "unconfirmed"}
  <2>1. CASE result.kind = "enable"
    BY <1>2, <2>1 DEF Notice
  <2>2. CASE result.kind = "disable"
    BY <1>2, <2>2 DEF Notice
  <2>3. CASE result.kind = "status"
    BY <1>2, <2>3 DEF Notice, HostInv, HostTypeOK
  <2> QED BY <1>3, <2>1, <2>2, <2>3 DEF Kinds
<1>6. HostTypeOK'
  BY <1>2, <1>3, <1>4, <1>5 DEF HostInv, HostTypeOK
<1>7. ToldTrue'
  <2>1. CASE touched
    BY <1>2, <2>1 DEF ToldTrue
  <2>2. CASE ~touched /\ result.kind = "enable"
    <3>1. told' = IF reading.sharing THEN "on" ELSE "not started"
      BY <1>2, <2>2 DEF Notice
    <3>2. mode' = mode
      BY <1>2, <1>3, <2>2
    <3> QED BY <1>2, <1>3, <2>2, <3>1, <3>2 DEF ToldTrue, Fresh
  <2>3. CASE ~touched /\ result.kind = "disable"
    BY <1>2, <1>3, <2>3 DEF ToldTrue, Notice
  <2>4. CASE ~touched /\ result.kind = "status"
    BY <1>1, <1>2, <2>4 DEF ToldTrue, Notice
  <2> QED BY <1>3, <2>1, <2>2, <2>3, <2>4 DEF Kinds
<1>8. PanelRight'
  BY <1>2, <1>3 DEF PanelRight, Known, Fresh
<1> QED BY <1>2, <1>4, <1>6, <1>7, <1>8 DEF HostInv, Working, Truthful

LEMMA HostFailedKeeps ==
  ASSUME HostInv, NEW result \in results, HostFailed(result)
  PROVE  HostInv'
<1> DEFINE new == Job("status", FALSE, <<>>)
<1>1. results = {result} /\ jobs = {} /\ busy
  BY ResultAlone
<1>2. /\ results' = {} /\ jobs' = {new} /\ busy' = TRUE /\ told' = "failed"
      /\ UNCHANGED <<world, status, mode, touched, outside>>
  BY <1>1 DEF HostFailed
<1>3. JobRight(new)'
  BY DEF JobRight, Job, Jobs, Kinds, Todos
<1>4. HostTypeOK'
  BY <1>2 DEF HostInv, HostTypeOK
<1> QED BY <1>2, <1>3, <1>4 DEF HostInv, Working, Truthful, ToldTrue, PanelRight, Known

LEMMA OutsideKeeps ==
  ASSUME HostInv, Outside
  PROVE  HostInv'
<1>1. world' \in Worlds /\ touched' = TRUE /\ told' = "nothing" /\ UNCHANGED <<status, mode, busy, jobs, results>>
  BY DEF Outside
<1>2. outside' \in Nat /\ outside' # 0
  <2>1. outside \in Nat
    BY DEF HostInv, HostTypeOK
  <2> QED BY <2>1 DEF Outside
<1>5. HostTypeOK'
  BY <1>1, <1>2 DEF HostInv, HostTypeOK
<1>3. ASSUME NEW job, JobRight(job) PROVE JobRight(job)'
  <2>1. job.kind = "enable" => mode' = <<job.extend>>
    BY <1>1, <1>3 DEF JobRight
  <2>2. job \in Jobs /\ job.todo \in Todos(job.kind)
    BY <1>3 DEF JobRight
  <2> QED BY <1>1, <1>2, <2>1, <2>2 DEF JobRight
<1>4. ASSUME NEW result, ResultRight(result) PROVE ResultRight(result)'
  <2>1. ASSUME result.read # <<>>, result.kind = "enable"
        PROVE  \E extend \in BOOLEAN : mode' = <<extend>> /\ (outside' = 0 => world'.extend = extend)
    BY <1>1, <1>2, <1>4, <2>1 DEF ResultRight
  <2> QED BY <1>1, <1>2, <1>4, <2>1 DEF ResultRight
<1>6. Working'
  BY <1>1, <1>3, <1>4 DEF HostInv, Working
<1> QED BY <1>1, <1>5, <1>6 DEF HostInv, Truthful, ToldTrue, PanelRight

LEMMA HostInvariance == HostSpec => []HostInv
<1>1. HostInit => HostInv
  <2> SUFFICES ASSUME HostInit PROVE HostInv
    OBVIOUS
  <2>1. HostTypeOK
    BY DEF HostInit, HostTypeOK
  <2> QED BY <2>1 DEF HostInit, HostInv, Working, Truthful, ToldTrue, PanelRight
<1>2. HostInv /\ [HostNext]_hostVars => HostInv'
  <2> SUFFICES ASSUME HostInv, [HostNext]_hostVars PROVE HostInv'
    OBVIOUS
  <2>1. CASE Background
    BY <2>1, TaskStepKeeps, StepFailsKeeps, ReadKeeps DEF Background
  <2>2. CASE Message
    BY <2>2, HostAnswerKeeps, HostFailedKeeps DEF Message
  <2>3. CASE User
    BY <2>3, UserKeeps
  <2>4. CASE Outside
    BY <2>4, OutsideKeeps
  <2>5. CASE UNCHANGED hostVars
    <3>1. HostTypeOK'
      BY <2>5 DEF hostVars, HostInv, HostTypeOK
    <3>2. Working'
      BY <2>5 DEF hostVars, HostInv, Working, JobRight, ResultRight, Fresh
    <3>3. Truthful'
      BY <2>5 DEF hostVars, HostInv, Truthful, ToldTrue, PanelRight, Known
    <3> QED BY <2>5, <3>1, <3>2, <3>3 DEF hostVars, HostInv
  <2> QED BY <2>1, <2>2, <2>3, <2>4, <2>5 DEF HostNext
<1> QED BY <1>1, <1>2, PTL DEF HostSpec

(* Whatever the commands of the Host panel answer, in any order, and       *)
(* whatever is changed outside of it, the panel says sharing is on or off  *)
(* only when it is, and at rest shows what is.                             *)
THEOREM TruthfulHolds == HostSpec => []Truthful
<1>1. HostInv => Truthful
  BY DEF HostInv
<1> QED BY <1>1, HostInvariance, PTL
-----------------------------------------------------------------------------
(* The command that starts a session, and what the session makes of it.    *)

LaunchInv ==
  /\ profile \in Computers /\ password \in Passwords \cup {""} /\ inherited \in Inherited
  /\ ticked \in BOOLEAN
  /\ Prompted => config = <<>>
  /\ ProfileHonoured

(* The variables that decide what a session is.                            *)
EnvironmentOf(given, p, secret, fullscreen) ==
  /\ given.RDP_HOSTNAME = p.address /\ given.RDP_USERNAME = p.username /\ given.RDP_PASSWORD = secret
  /\ given.WINRDP_FULLSCREEN = IF fullscreen THEN "1" ELSE "0"
  /\ given.WINRDP_KEEP_RESOLUTION = IF p.resolution # FollowWindow THEN "1" ELSE Unset
  /\ given.WINRDP_PRINTER = IF p.printer THEN "default" ELSE Unset

LEMMA EnvironmentRight ==
  ASSUME NEW p \in Computers, NEW secret \in Passwords, NEW fullscreen \in BOOLEAN, NEW env \in Inherited
  PROVE  EnvironmentOf(SessionEnvironment(env, p, secret, fullscreen), p, secret, fullscreen)
<1> DEFINE set == Connection(env, p, secret, fullscreen)
           wanted == Wanted(p)
           given == SessionEnvironment(env, p, secret, fullscreen)
<1>1. DOMAIN env = Variables
  BY LaunchAssumption
<1>2. DOMAIN set = {"RDP_HOSTNAME", "RDP_USERNAME", "RDP_PASSWORD", "IRONRDP_UDP", "IRONRDP_UDP_OFFER",
                    "IRONRDP_EGFX", "WINRDP_FULLSCREEN"}
  BY DEF Connection
<1>3. DOMAIN wanted = {"WINRDP_KEEP_RESOLUTION", "WINRDP_PRINTER"}
  BY DEF Wanted
<1>4. \A name \in Variables :
        given[name] = IF name \in DOMAIN set THEN set[name] ELSE IF name \in DOMAIN wanted THEN wanted[name] ELSE env[name]
  BY <1>1 DEF SessionEnvironment, Setting
<1>5. set.RDP_HOSTNAME = p.address /\ set.RDP_USERNAME = p.username /\ set.RDP_PASSWORD = secret
      /\ set.WINRDP_FULLSCREEN = IF fullscreen THEN "1" ELSE "0"
  BY DEF Connection
<1>6. /\ wanted.WINRDP_KEEP_RESOLUTION = IF p.resolution # FollowWindow THEN "1" ELSE Unset
      /\ wanted.WINRDP_PRINTER = IF p.printer THEN "default" ELSE Unset
  BY DEF Wanted
<1> HIDE DEF set, wanted, given
<1>7. /\ given["RDP_HOSTNAME"] = set["RDP_HOSTNAME"] /\ given["RDP_USERNAME"] = set["RDP_USERNAME"]
      /\ given["RDP_PASSWORD"] = set["RDP_PASSWORD"] /\ given["WINRDP_FULLSCREEN"] = set["WINRDP_FULLSCREEN"]
  BY <1>2, <1>4 DEF Variables
<1>8. /\ given["WINRDP_KEEP_RESOLUTION"] = wanted["WINRDP_KEEP_RESOLUTION"]
      /\ given["WINRDP_PRINTER"] = wanted["WINRDP_PRINTER"]
  BY <1>2, <1>3, <1>4 DEF Variables
<1> QED BY <1>5, <1>6, <1>7, <1>8 DEF given, EnvironmentOf

LEMMA InRange ==
  ASSUME NEW A, NEW B, NEW C, A \subseteq C, B \subseteq C, NEW r \in A \X B
  PROVE  r[1] \in C /\ r[2] \in C
<1>1. r[1] \in A /\ r[2] \in B
  OBVIOUS
<1> QED BY <1>1

LEMMA RangeOfOne ==
  ASSUME NEW f, NEW one, f = <<one>>
  PROVE  Range(f) = {one}
BY DEF Range

(* The size on the command line is within the range that clap takes.       *)
LEMMA SizeRight ==
  ASSUME NEW p \in Computers
  PROVE  Refused(SessionArguments(p)) = {}
<1> DEFINE args == SessionArguments(p)
<1>1. p.resolution = FollowWindow \/ p.resolution \in (640 .. Largest) \X (480 .. Largest)
  <2>1. Connectable(p)
    BY LaunchAssumption
  <2> QED BY <2>1 DEF Connectable
<1>2. CASE p.resolution = FollowWindow
  <2>1. args.desktop_width = <<>> /\ args.desktop_height = <<>>
    BY <1>2 DEF SessionArguments
  <2>2. Range(<<>>) = {}
    BY DEF Range
  <2> HIDE DEF args
  <2>3. Range(args.desktop_width) = {} /\ Range(args.desktop_height) = {}
    BY <2>1, <2>2
  <2>4. Refused(args) = {}
    BY <2>3 DEF Refused
  <2> QED BY <2>4 DEF args
<1>3. CASE p.resolution # FollowWindow
  <2>1. p.resolution[1] \in 1 .. Largest /\ p.resolution[2] \in 1 .. Largest
    <3> DEFINE Widths == 640 .. Largest
               Heights == 480 .. Largest
               Clap == 1 .. Largest
    <3>1. Widths \subseteq Clap /\ Heights \subseteq Clap
      <4>1. Largest \in Nat
        BY DEF Largest
      <4> QED BY <4>1
    <3>2. p.resolution \in Widths \X Heights
      BY <1>1, <1>3
    <3> HIDE DEF Widths, Heights, Clap
    <3>3. p.resolution[1] \in Clap /\ p.resolution[2] \in Clap
      BY <3>1, <3>2, InRange
    <3> QED BY <3>3 DEF Clap
  <2>2. args.desktop_width = <<p.resolution[1]>> /\ args.desktop_height = <<p.resolution[2]>>
    BY <1>3 DEF SessionArguments
  <2> HIDE DEF args
  <2>3. Range(args.desktop_width) = {p.resolution[1]} /\ Range(args.desktop_height) = {p.resolution[2]}
    BY <2>2, RangeOfOne
  <2>4. Refused(args) = {}
    BY <2>1, <2>3 DEF Refused
  <2> QED BY <2>4 DEF args
<1> QED BY <1>2, <1>3

(* Whoever starts a session, with a password that can be sent: what the    *)
(* session runs with is the profile's, but for full screen.                *)
Honoured(c, secret, fullscreen) ==
  /\ c.refused = {} /\ c.missing = {}
  /\ <<c.destination, c.username, c.password>> = <<profile.address, profile.username, secret>>
  /\ <<c.clipboard, c.sound, c.audio_capture, c.printer>>
       = <<profile.clipboard, profile.audio, profile.microphone, profile.printer>>
  /\ c.fullscreen = fullscreen
  /\ IF profile.resolution = FollowWindow THEN c.width = <<>> /\ c.height = <<>>
     ELSE <<c.width, c.height>> = << <<profile.resolution[1]>>, <<profile.resolution[2]>> >>
  /\ c.keep_resolution <=> profile.resolution # FollowWindow

LEMMA StartHonoured ==
  ASSUME LaunchInv, NEW secret \in Passwords \cup {""}, secret # "", NEW fullscreen \in BOOLEAN
  PROVE  Honoured(Configured(SessionEnvironment(inherited, profile, secret, fullscreen),
                             SessionArguments(profile)), secret, fullscreen)
<1> DEFINE given == SessionEnvironment(inherited, profile, secret, fullscreen)
           args == SessionArguments(profile)
           c == Configured(given, args)
<1>1. profile \in Computers /\ inherited \in Inherited
  BY DEF LaunchInv
<1>2. secret \in Passwords
  OBVIOUS
<1>3. /\ given.RDP_HOSTNAME = profile.address /\ given.RDP_USERNAME = profile.username
      /\ given.RDP_PASSWORD = secret
      /\ given.WINRDP_FULLSCREEN = IF fullscreen THEN "1" ELSE "0"
      /\ given.WINRDP_KEEP_RESOLUTION = IF profile.resolution # FollowWindow THEN "1" ELSE Unset
      /\ given.WINRDP_PRINTER = IF profile.printer THEN "default" ELSE Unset
  <2>1. EnvironmentOf(given, profile, secret, fullscreen)
    BY <1>1, <1>2, EnvironmentRight, Zenon
  <2> QED BY <2>1 DEF EnvironmentOf
<1>4. Refused(args) = {}
  BY <1>1, SizeRight
<1>5. /\ args.clipboard_type = (IF profile.clipboard THEN "enable" ELSE "disable")
      /\ args.audio_disable = ~profile.audio /\ args.microphone = profile.microphone
  BY DEF SessionArguments
<1>6. profile.address \notin NoText /\ profile.username \notin NoText /\ secret \notin NoText
  <2>1. Connectable(profile) /\ secret # Unset
    BY <1>1, <1>2, LaunchAssumption
  <2>2. profile.address \notin NoText /\ profile.username \notin NoText
    BY <2>1 DEF Connectable
  <2>3. secret \notin NoText
    BY <2>1, Zenon DEF NoText
  <2> QED BY <2>2, <2>3
<1>7. c.refused = {} /\ c.missing = {}
  <2>1. Missing(given) = {}
    BY <1>3, <1>6 DEF Missing
  <2> QED BY <1>4, <2>1 DEF Configured
<1>8. <<c.destination, c.username, c.password>> = <<profile.address, profile.username, secret>>
  BY <1>3 DEF Configured
<1>9. /\ c.clipboard = profile.clipboard /\ c.sound = profile.audio /\ c.audio_capture = profile.microphone
      /\ c.printer = profile.printer /\ c.fullscreen = fullscreen
  <2>1. /\ profile.clipboard \in BOOLEAN /\ profile.audio \in BOOLEAN
        /\ profile.microphone \in BOOLEAN /\ profile.printer \in BOOLEAN
    <3>1. Connectable(profile)
      BY <1>1, LaunchAssumption
    <3> QED BY <3>1 DEF Connectable
  <2>2. c.clipboard = profile.clipboard
    BY <1>5, <2>1 DEF Configured
  <2>3. c.sound = profile.audio /\ c.audio_capture = profile.microphone
    BY <1>5, <2>1 DEF Configured
  <2>4. c.printer = profile.printer
    <3>1. "default" \notin NoText /\ Unset \in NoText
      BY Zenon DEF NoText, Unset
    <3>2. given.WINRDP_PRINTER \notin NoText <=> profile.printer
      BY <1>3, <2>1, <3>1
    <3>3. c.printer = (given.WINRDP_PRINTER \notin NoText)
      BY DEF Configured
    <3> QED BY <2>1, <3>2, <3>3
  <2>5. c.fullscreen = fullscreen
    BY <1>3 DEF Configured
  <2> QED BY <2>2, <2>3, <2>4, <2>5
<1>10. IF profile.resolution = FollowWindow THEN c.width = <<>> /\ c.height = <<>>
       ELSE <<c.width, c.height>> = << <<profile.resolution[1]>>, <<profile.resolution[2]>> >>
  BY DEF Configured, SessionArguments
<1>11. c.keep_resolution <=> profile.resolution # FollowWindow
  BY <1>3 DEF Configured, Unset
<1> HIDE DEF c
<1>12. Honoured(c, secret, fullscreen)
  BY <1>7, <1>8, <1>9, <1>10, <1>11 DEF Honoured
<1> QED BY <1>12 DEF c

(* A start leaves a session that runs with what it should, or none.        *)
LEMMA Launched ==
  ASSUME LaunchInv, NEW secret \in Passwords \cup {""}, NEW fullscreen \in BOOLEAN,
         config = <<>>, LaunchProcess(secret, fullscreen)
  PROVE  config' # <<>> => Honoured(config'[1], secret, fullscreen)
<1>1. CASE secret \in {"", "overlong"}
  BY <1>1 DEF LaunchProcess
<1>2. CASE secret \notin {"", "overlong"}
  <2> DEFINE c == Configured(SessionEnvironment(inherited, profile, secret, fullscreen),
                             SessionArguments(profile))
  <2>1. Honoured(c, secret, fullscreen)
    BY <1>2, StartHonoured
  <2>2. config' = <<c>>
    BY <1>2 DEF LaunchProcess
  <2> HIDE DEF c
  <2>3. config'[1] = c
    BY <2>2
  <2> QED BY <2>1, <2>3
<1> QED BY <1>1, <1>2

LEMMA DialogStep ==
  ASSUME LaunchInv, OptionsChange \/ TypePassword \/ TickFullscreen
  PROVE  LaunchInv'
<1>1. config = <<>> /\ config' = <<>>
  BY DEF LaunchInv, OptionsChange, TypePassword, TickFullscreen
<1>2. /\ profile' \in Computers /\ password' \in Passwords \cup {""} /\ inherited' \in Inherited
      /\ ticked' \in BOOLEAN
  BY DEF LaunchInv, OptionsChange, TypePassword, TickFullscreen
<1> QED BY <1>1, <1>2 DEF LaunchInv, ProfileHonoured

LEMMA LoadedStep ==
  ASSUME LaunchInv, PasswordLoaded
  PROVE  LaunchInv'
<1>1. UNCHANGED <<profile, ticked, inherited>> /\ config = <<>>
  BY DEF PasswordLoaded, LaunchInv, Prompted
<1>2. CASE UNCHANGED <<password, config>>
  BY <1>1, <1>2 DEF LaunchInv, ProfileHonoured
<1>3. CASE dialog' = "loaded" /\ password' \in Passwords /\ LaunchProcess(password', profile.fullscreen)
  <2>1. profile.fullscreen \in BOOLEAN
    <3>1. Connectable(profile)
      BY LaunchAssumption DEF LaunchInv
    <3> QED BY <3>1 DEF Connectable
  <2>2. config' # <<>> => Honoured(config'[1], password', profile.fullscreen)
    BY <1>1, <1>3, <2>1, Launched
  <2>3. ProfileHonoured'
    BY <1>1, <1>3, <2>2 DEF ProfileHonoured, Honoured
  <2>4. ~Prompted'
    BY <1>3 DEF Prompted
  <2> QED BY <1>1, <1>3, <2>3, <2>4 DEF LaunchInv
<1> QED BY <1>2, <1>3 DEF PasswordLoaded

LEMMA SubmitStep ==
  ASSUME LaunchInv, SubmitPassword
  PROVE  LaunchInv'
<1>1. UNCHANGED <<profile, ticked, password, inherited>> /\ config = <<>> /\ dialog' = "submitted"
  BY DEF SubmitPassword, LaunchInv
<1>2. config' # <<>> => Honoured(config'[1], password, ticked)
  BY <1>1, Launched DEF SubmitPassword, LaunchInv
<1>3. ProfileHonoured'
  BY <1>1, <1>2 DEF ProfileHonoured, Honoured
<1>4. ~Prompted'
  BY <1>1 DEF Prompted
<1> QED BY <1>1, <1>3, <1>4 DEF LaunchInv

(* Whatever the environment the launcher was started in holds, a session   *)
(* runs with the options its computer has by the time it starts, in full   *)
(* screen as the box in the dialog says, or the computer's own option if   *)
(* the password came from the keyring; its command line is never refused.  *)
THEOREM ProfileHonouredHolds == LaunchSpec => []ProfileHonoured
<1>1. LaunchInit => LaunchInv
  <2> SUFFICES ASSUME LaunchInit PROVE LaunchInv
    OBVIOUS
  <2>1. profile \in Computers /\ ticked = profile.fullscreen
    BY DEF LaunchInit
  <2>2. Connectable(profile)
    BY <2>1, LaunchAssumption
  <2>3. ticked \in BOOLEAN
    BY <2>1, <2>2 DEF Connectable
  <2> QED BY <2>3 DEF LaunchInit, LaunchInv, ProfileHonoured
<1>2. LaunchInv /\ [LaunchNext]_launchVars => LaunchInv'
  <2>1. ASSUME LaunchInv, UNCHANGED launchVars PROVE LaunchInv'
    BY <2>1 DEF launchVars, LaunchInv, ProfileHonoured, Prompted
  <2> QED BY <2>1, DialogStep, LoadedStep, SubmitStep DEF LaunchNext
<1>3. LaunchInv => ProfileHonoured
  BY DEF LaunchInv
<1> QED BY <1>1, <1>2, <1>3, PTL DEF LaunchSpec
=============================================================================
