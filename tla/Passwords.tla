------------------------------ MODULE Passwords ------------------------------
(***************************************************************************)
(* Sign-in with remembered passwords (launcher/src/app/connections.rs,     *)
(* app/computers.rs, app.rs): which password goes to which computer, and   *)
(* when one is forgotten, while the keyring answers late or not at all,    *)
(* desktops end, and the library changes under the open dialogs.           *)
(*                                                                         *)
(* An action is one message handled to its end.  A computer is where it is *)
(* reached: its address and account, one of Places.  The keyring is        *)
(* PasswordStore, which Keyring is shown to implement: a request has its   *)
(* effect when it is made, or fails, and its reply comes at any time.      *)
(***************************************************************************)
EXTENDS Naturals, FiniteSets, SequencesExt

CONSTANTS
  Profiles,     (* identifiers of saved computers                          *)
  Places,       (* an address together with an account on it               *)
  Secrets,      (* passwords                                               *)
  None,         (* no password, no computer, no number                     *)
  Accounts,     (* the Places with an account name                         *)
  Intended,     (* the computer, address and account a password is for     *)
  Done, Failed, (* replies without a password                              *)
  MaxDialogs,   (* bound: dialogs open at a time                           *)
  MaxSessions,  (* bound: desktops open at a time                          *)
  MaxTurns,     (* bound: numbers given to requests and changes another    *)
                (* launcher makes, together                                *)
  MaxTrouble    (* bound: items the keyring fails to change                *)

ASSUME PasswordsAssumption ==
  /\ Accounts \subseteq Places
  /\ Intended \in [Secrets -> [profile : Profiles, place : Places]]
  /\ {None, Done, Failed} \cap Secrets = {} /\ None # Done /\ None # Failed /\ Done # Failed
  /\ None \notin Profiles /\ None \notin Places /\ None \notin Nat
  /\ {MaxDialogs, MaxSessions, MaxTurns, MaxTrouble} \subseteq Nat

VARIABLES
  kept, legacy, trouble,  (* the keyring: PasswordStore                     *)
  replies,   (* answers of the keyring that have not been delivered         *)
  library,   (* where the launcher thinks each computer is, None: not saved *)
  disk,      (* the same in the library file                                *)
  born,      (* identifiers given out                                       *)
  credential_seq, (* numbers given to requests                              *)
  dialogs,   (* open dialogs, topmost last                                  *)
  sessions,  (* running desktops                                            *)
  quitting,  (* the launcher is on its way out                              *)
  edits,     (* changes another launcher made                               *)
  refused    (* history: passwords refused since they were last typed       *)

storeVars == <<kept, legacy, trouble>>
vars == <<storeVars, replies, library, disk, born, credential_seq, dialogs,
          sessions, quitting, edits, refused>>

Store == INSTANCE PasswordStore
-----------------------------------------------------------------------------
Credentials == [profile : Profiles, place : Places]
Tickets == 1 .. MaxTurns
Session == [id : 1 .. MaxSessions, key : Credentials, secret : Secrets,
            remembered : BOOLEAN, stamped : BOOLEAN]
Reply == [op : {"get", "has", "set", "delete"}, key : Credentials, ticket : Tickets \cup {None},
          result : Secrets \cup {None, Done, Failed}]
Dialog ==
  [is : {"password"}, key : Credentials, lookup : Tickets \cup {None}, typed : Secrets \cup {None}, remember : BOOLEAN]
  \cup [is : {"computer"}, editing : Profiles \cup {None}, connect : BOOLEAN, place : Places,
        saved : BOOLEAN, request : Tickets]
  \cup [is : {"remove"}, profile : Profiles]
  \cup [is : {"quit"}]

Key(p, place) == [profile |-> p, place |-> place]
Current(key) == library[key.profile] = key.place
(* The same computer at the place where the launcher has it now.           *)
Here(key) == Key(key.profile, library[key.profile])
Top == dialogs[Len(dialogs)]
TopIs(kind) == dialogs # <<>> /\ Top.is = kind
OnTop(dialog) == [dialogs EXCEPT ![Len(dialogs)] = dialog]
HasPassword(ds) == \E n \in DOMAIN ds : ds[n].is = "password"

(* credential_request: no two requests have the same number.               *)
NextTicket == credential_seq + 1
Numbered == credential_seq + edits < MaxTurns /\ credential_seq' = NextTicket

(* Once the launcher quits, the window takes no input and poll does        *)
(* nothing; answers of the keyring may still arrive.                       *)
User == ~quitting /\ UNCHANGED edits
-----------------------------------------------------------------------------
(* Requests of the keyring.                                                *)

Get(key, ticket) == [op |-> "get", key |-> key, word |-> None, ticket |-> ticket]
Has(key, ticket) == [op |-> "has", key |-> key, word |-> None, ticket |-> ticket]
Delete(key, ticket) == [op |-> "delete", key |-> key, word |-> None, ticket |-> ticket]
Set(key, secret) == [op |-> "set", key |-> key, word |-> secret, ticket |-> None]

(* get reads a bound item only; has counts items of old releases as well.  *)
Found(request) ==
  CASE request.op = "get" -> kept[request.key]
    [] request.op = "has" -> IF kept[request.key] # None \/ request.key.profile \in legacy
                             THEN Done ELSE None
    [] OTHER -> Done

(* A change that fails may have been carried out, wholly or in part.       *)
Botched(request) ==
  /\ trouble' = trouble \cup {request.key}
  /\ kept' \in {kept, [kept EXCEPT ![request.key] = request.word]}
  /\ legacy' \in {legacy, legacy \ {request.key.profile}}

(* Nothing but a notice follows from the reply to an unnumbered delete.    *)
Silent(request) == request.op = "delete" /\ request.ticket = None

(* The window asks for a change and then a question, at most one of each;  *)
(* `left` are the replies that stay undelivered.                           *)
Asks(change, question, left) ==
  \E succeed \in [change \cup question -> BOOLEAN] :
    /\ change = {} => UNCHANGED storeVars
    /\ \A r \in change : IF succeed[r] THEN Store!Word(r.key, r.word) ELSE Botched(r)
    /\ Cardinality(trouble') <= MaxTrouble
    /\ replies' = left \cup
         {[op |-> r.op, key |-> r.key, ticket |-> r.ticket,
           result |-> IF succeed[r] THEN Found(r)' ELSE Failed]
          : r \in {q \in change \cup question : ~Silent(q)}}
AsksNothing == UNCHANGED <<storeVars, replies>>
-----------------------------------------------------------------------------
Init ==
  /\ Store!Init /\ replies = {}
  /\ born \in SUBSET Profiles
  /\ library \in [Profiles -> Places \cup {None}]
  /\ \A p \in Profiles : library[p] # None <=> p \in born
  /\ disk = library
  /\ \A key \in Credentials : kept[key] # None => Current(key) /\ Intended[kept[key]] = key
  /\ legacy \subseteq born
  /\ credential_seq = 0 /\ dialogs = <<>> /\ sessions = {}
  /\ quitting = FALSE /\ edits = 0 /\ refused = {}
-----------------------------------------------------------------------------
(* edit_computer, with the question whether a password is remembered.      *)
Form(p, connect, place) ==
  [is |-> "computer", editing |-> p, connect |-> connect, place |-> place,
   saved |-> FALSE, request |-> NextTicket]
OpensForm(p, connect, place, lib, under, change) ==
  /\ Numbered /\ Len(under) < MaxDialogs
  /\ dialogs' = Append(under, Form(p, connect, place))
  /\ Asks(change, IF p # None /\ lib[p] = place THEN {Has(Key(p, place), NextTicket)} ELSE {}, replies)

(* prompt_password: the sign-in dialog for computer p of library `lib`,    *)
(* over the dialogs `under`, after `change`. With nothing      *)
(* refused, the keyring is asked for the password.                         *)
Prompts(p, refusal, remember, lib, under, change) ==
  \/ /\ lib[p] = None \/ (lib[p] \in Accounts /\ HasPassword(under))
     /\ dialogs' = under /\ Asks(change, {}, replies) /\ UNCHANGED credential_seq
  \/ /\ lib[p] \in Places \ Accounts
     /\ OpensForm(p, TRUE, lib[p], lib, under, change)
  \/ /\ lib[p] \in Accounts /\ ~HasPassword(under)
     /\ Len(under) < MaxDialogs
     /\ IF refusal THEN UNCHANGED credential_seq ELSE Numbered
     /\ dialogs' = Append(under, [is |-> "password", key |-> Key(p, lib[p]),
                                  lookup |-> IF refusal THEN None ELSE NextTicket,
                                  typed |-> None, remember |-> remember])
     /\ Asks(change, IF refusal THEN {} ELSE {Get(Key(p, lib[p]), NextTicket)}, replies)

(* backend.save_profile: the computer as this launcher has it is written   *)
(* into the file, and the launcher shows the file.                         *)
Saves(p, place) ==
  /\ disk' = [disk EXCEPT ![p] = place]
  /\ library' = disk'

(* start_session: the process starts, or cannot be started.                *)
NextId == CHOOSE n \in 1 .. MaxSessions : \A s \in sessions : s.id # n
Starts(key, secret, remembered) ==
  /\ Cardinality(sessions) < MaxSessions
  /\ sessions' = sessions \cup {[id |-> NextId, key |-> key, secret |-> secret,
                                 remembered |-> remembered, stamped |-> FALSE]}
-----------------------------------------------------------------------------
(* Connecting.                                                             *)

(* RowPressed, FilterSubmit, and connect_chosen with options as saved.     *)
Connect(p) ==
  /\ User
  /\ library[p] # None
  /\ Prompts(p, FALSE, FALSE, library, dialogs, {})
  /\ UNCHANGED <<library, disk, born, sessions, quitting, refused>>

(* connect_chosen saves changed options first, then prompts from the       *)
(* library as it is in the file.                                           *)
ConnectSaving(p) ==
  /\ User
  /\ library[p] # None
  /\ Saves(p, library[p])
  /\ Prompts(p, FALSE, FALSE, library', dialogs, {})
  /\ UNCHANGED <<born, sessions, quitting, refused>>

(* SetLayout and the other settings write the file, and show what else     *)
(* it holds: computers moved or removed by another launcher.               *)
SetLayout ==
  /\ User /\ dialogs = <<>>
  /\ library' = disk
  /\ AsksNothing /\ UNCHANGED <<disk, born, credential_seq, dialogs, sessions, quitting, refused>>

(* Seeded fault: typing leaves the lookup running.                         *)
PasswordInputLooking(secret) ==
  /\ User /\ TopIs("password")
  /\ Intended[secret] = Top.key
  /\ dialogs' = OnTop([Top EXCEPT !.typed = secret])
  /\ AsksNothing /\ UNCHANGED <<library, disk, credential_seq, born, sessions, quitting, refused>>

(* The user types the password for the computer the dialog names.          *)
PasswordInput(secret) ==
  /\ User /\ TopIs("password")
  /\ Intended[secret] = Top.key
  /\ dialogs' = OnTop([Top EXCEPT !.lookup = None, !.typed = secret])
  /\ AsksNothing /\ UNCHANGED <<library, disk, credential_seq, born, sessions, quitting, refused>>

PasswordRemember ==
  /\ User /\ TopIs("password")
  /\ dialogs' = OnTop([Top EXCEPT !.lookup = None, !.remember = ~@])
  /\ AsksNothing /\ UNCHANGED <<library, disk, credential_seq, born, sessions, quitting, refused>>

PasswordFullscreen ==
  /\ User /\ TopIs("password") /\ Top.lookup # None
  /\ dialogs' = OnTop([Top EXCEPT !.lookup = None])
  /\ AsksNothing /\ UNCHANGED <<library, disk, credential_seq, born, sessions, quitting, refused>>

(* submit_password takes the sign-in dialog wherever it is.                *)
Submitted(n) ==
  LET form == dialogs[n]
      Kept == IF form.remember THEN {Set(form.key, form.typed)} ELSE {}
  IN  /\ dialogs' = RemoveAt(dialogs, n)
      /\ \/ /\ Current(form.key) /\ form.typed # None
            /\ Starts(Here(form.key), form.typed, form.remember)
            /\ Asks(Kept, {}, replies)
            /\ refused' = refused \ {form.typed}
         \/ AsksNothing /\ UNCHANGED <<sessions, refused>>

PasswordSubmit ==
  /\ User
  /\ ~(TopIs("password") /\ Top.typed = None)
  /\ \E n \in DOMAIN dialogs : dialogs[n].is = "password" /\ Submitted(n)
  /\ UNCHANGED <<library, disk, credential_seq, born, quitting>>
-----------------------------------------------------------------------------
(* Editing computers. The buttons lie behind the open dialogs.             *)

NewComputer(place) ==
  /\ User /\ dialogs = <<>>
  /\ OpensForm(None, FALSE, place, library, dialogs, {})
  /\ UNCHANGED <<library, disk, born, sessions, quitting, refused>>

Edit(p) ==
  /\ User /\ dialogs = <<>>
  /\ library[p] # None
  /\ OpensForm(p, FALSE, library[p], library, dialogs, {})
  /\ UNCHANGED <<library, disk, born, sessions, quitting, refused>>

(* edit_form_credentials: another address or account in the open form.     *)
FormCredentials(place) ==
  /\ User /\ TopIs("computer") /\ Top.place # place
  /\ Numbered
  /\ dialogs' = OnTop(Form(Top.editing, Top.connect, place))
  /\ Asks({}, IF Top.editing # None /\ library[Top.editing] = place
              THEN {Has(Key(Top.editing, place), NextTicket)} ELSE {}, replies)
  /\ UNCHANGED <<library, disk, born, sessions, quitting, refused>>

(* The computer the form saves: the one it edits, or one with a new        *)
(* identifier, when there is none or it is not saved any more.             *)
Target == IF Top.editing # None /\ library[Top.editing] # None THEN {Top.editing}
          ELSE Profiles \ born

(* Seeded fault: a password stays when its computer moves.                 *)
MovedKeeping(p, place) == {}
(* save_computer forgets the password of the place the computer leaves.    *)
Moved(p, place) ==
  IF library[p] \notin {None, place} THEN {Delete(Key(p, library[p]), None)} ELSE {}

FormSave(p) ==
  /\ User /\ TopIs("computer") /\ p \in Target
  /\ Saves(p, Top.place)
  /\ born' = born \cup {p}
  /\ IF Top.connect /\ Top.place \in Accounts
     THEN Prompts(p, FALSE, FALSE, library', Front(dialogs), Moved(p, Top.place))
     ELSE dialogs' = Front(dialogs) /\ Asks(Moved(p, Top.place), {}, replies) /\ UNCHANGED credential_seq
  /\ UNCHANGED <<sessions, quitting, refused>>

FormForget ==
  /\ User /\ TopIs("computer") /\ Numbered
  /\ Top.saved /\ Top.editing # None /\ library[Top.editing] = Top.place
  /\ dialogs' = OnTop([Top EXCEPT !.request = NextTicket])
  /\ Asks({Delete(Key(Top.editing, Top.place), NextTicket)}, {}, replies)
  /\ UNCHANGED <<library, disk, born, sessions, quitting, refused>>

FormRemove ==
  /\ User /\ TopIs("computer") /\ Top.editing # None
  /\ dialogs' = OnTop([is |-> "remove", profile |-> Top.editing])
  /\ AsksNothing /\ UNCHANGED <<library, disk, credential_seq, born, sessions, quitting, refused>>

(* ConfirmYes, Remove: the file may not take the change.                   *)
ConfirmRemove ==
  /\ User /\ TopIs("remove")
  /\ dialogs' = Front(dialogs)
  /\ LET p == Top.profile
     IN  \/ /\ disk' = [disk EXCEPT ![p] = None]
            /\ library' = disk'
            /\ Asks(IF library[p] # None THEN {Delete(Key(p, library[p]), None)} ELSE {}, {}, replies)
         \/ AsksNothing /\ UNCHANGED <<library, disk>>
  /\ UNCHANGED <<credential_seq, born, sessions, quitting, refused>>

CloseDialog ==
  /\ User /\ dialogs # <<>>
  /\ dialogs' = Front(dialogs)
  /\ AsksNothing /\ UNCHANGED <<library, disk, credential_seq, born, sessions, quitting, refused>>
-----------------------------------------------------------------------------
(* Quitting ends every desktop.                                            *)

Quit == quitting' = TRUE /\ sessions' = {}

CloseRequested ==
  /\ User
  /\ \A n \in DOMAIN dialogs : dialogs[n].is # "quit"
  /\ \/ sessions = {} /\ Quit /\ UNCHANGED dialogs
     \/ /\ sessions # {} /\ Len(dialogs) < MaxDialogs
        /\ dialogs' = Append(dialogs, [is |-> "quit"])
        /\ UNCHANGED <<quitting, sessions>>
  /\ AsksNothing /\ UNCHANGED <<library, disk, credential_seq, born, refused>>

ConfirmQuit ==
  /\ User /\ TopIs("quit")
  /\ dialogs' = Front(dialogs) /\ Quit
  /\ AsksNothing /\ UNCHANGED <<library, disk, credential_seq, born, refused>>
-----------------------------------------------------------------------------
(* poll: what the desktops report.                                         *)

(* stamp_connected, the first time; the file may not take the change.      *)
Connected(s) ==
  /\ User /\ s \in sessions /\ ~s.stamped
  /\ sessions' = (sessions \ {s}) \cup {[s EXCEPT !.stamped = TRUE]}
  /\ \/ library[s.key.profile] # None /\ Saves(s.key.profile, library[s.key.profile])
     \/ UNCHANGED <<library, disk>>
  /\ AsksNothing /\ UNCHANGED <<credential_seq, born, dialogs, quitting, refused>>

(* Seeded fault: only a password of the computer as it is now is forgotten.*)
RefusalWhenCurrent(s) ==
  IF Current(s.key)
  THEN Prompts(s.key.profile, TRUE, s.remembered, library, dialogs, {Delete(s.key, None)})
  ELSE AsksNothing /\ UNCHANGED <<dialogs, credential_seq>>

(* report_end, a refused sign-in: the password is forgotten, and asked for *)
(* again where the computer still is.                                      *)
Refusal(s) ==
  IF Current(s.key)
  THEN Prompts(s.key.profile, TRUE, s.remembered, library, dialogs, {Delete(s.key, None)})
  ELSE Asks({Delete(s.key, None)}, {}, replies) /\ UNCHANGED <<dialogs, credential_seq>>

SignInRefused(s) ==
  /\ User /\ s \in sessions
  /\ sessions' = sessions \ {s}
  /\ refused' = refused \cup {s.secret}
  /\ Refusal(s)
  /\ UNCHANGED <<library, disk, born, quitting>>

(* It ends otherwise, or the user closes it.                               *)
SessionEnds(s) ==
  /\ User /\ s \in sessions
  /\ sessions' = sessions \ {s}
  /\ AsksNothing /\ UNCHANGED <<library, disk, credential_seq, born, dialogs, quitting, refused>>
-----------------------------------------------------------------------------
(* Replies of the keyring.                                                 *)

Delivered(r, op) ==
  /\ r \in replies /\ r.op = op
  /\ UNCHANGED <<disk, library, credential_seq, born, quitting, edits, refused>>

Awaits(dialog, r) == dialog.is = "password" /\ dialog.lookup = r.ticket /\ dialog.key = r.key

(* Seeded fault: a password arrives while the launcher quits, and is used. *)
MayStartQuitting(n, r) == n = Len(dialogs) /\ Current(r.key) /\ r.result \in Secrets
(* Seeded fault: the computer may have moved since the keyring was asked.  *)
MayStartMoved(n, r) == ~quitting /\ n = Len(dialogs) /\ r.result \in Secrets
MayStart(n, r) == ~quitting /\ n = Len(dialogs) /\ Current(r.key) /\ r.result \in Secrets

(* Otherwise the user is left to type it.                                  *)
Answered(n, r) ==
  /\ dialogs' = [dialogs EXCEPT ![n].lookup = None]
  /\ UNCHANGED sessions

(* password_loaded: a remembered password connects without asking.         *)
PasswordLoaded(r) ==
  /\ Delivered(r, "get")
  /\ \/ /\ \A n \in DOMAIN dialogs : ~Awaits(dialogs[n], r)
        /\ UNCHANGED <<dialogs, sessions>>
     \/ \E n \in DOMAIN dialogs :
          /\ Awaits(dialogs[n], r)
          /\ \/ /\ MayStart(n, r)
                /\ dialogs' = RemoveAt(dialogs, n)
                /\ Starts(Here(r.key), r.result, TRUE) \/ UNCHANGED sessions
             \/ ~MayStart(n, r) /\ Answered(n, r)
  /\ Asks({}, {}, replies \ {r})

Shows(r) == TopIs("computer") /\ Top.request = r.ticket
            /\ Top.editing = r.key.profile /\ Top.place = r.key.place /\ Current(r.key)

PasswordPresence(r) ==
  /\ Delivered(r, "has")
  /\ dialogs' = IF Shows(r) THEN OnTop([Top EXCEPT !.saved = (r.result = Done)]) ELSE dialogs
  /\ Asks({}, {}, replies \ {r})
  /\ UNCHANGED sessions

(* A password saved for a computer that has moved since is forgotten.      *)
PasswordStored(r) ==
  /\ Delivered(r, "set")
  /\ Asks(IF r.result = Done /\ ~Current(r.key) THEN {Delete(r.key, None)} ELSE {}, {}, replies \ {r})
  /\ UNCHANGED <<dialogs, sessions>>

PasswordForgotten(r) ==
  /\ Delivered(r, "delete")
  /\ dialogs' = IF Shows(r) /\ r.result = Done
                THEN OnTop([Top EXCEPT !.saved = FALSE]) ELSE dialogs
  /\ Asks({}, {}, replies \ {r})
  /\ UNCHANGED sessions
-----------------------------------------------------------------------------
(* Another launcher moves or removes a computer and forgets its password,  *)
(* if its keyring lets it.                                                 *)
OtherLauncher(p, place) ==
  /\ credential_seq + edits < MaxTurns /\ edits' = edits + 1
  /\ disk[p] \notin {None, place}
  /\ disk' = [disk EXCEPT ![p] = place]
  /\ kept' \in {kept, [kept EXCEPT ![Key(p, disk[p])] = None]}
  /\ UNCHANGED <<legacy, trouble, replies, library, born, credential_seq, dialogs,
                 sessions, quitting, refused>>

Next ==
  \/ \E p \in Profiles : Connect(p) \/ ConnectSaving(p) \/ Edit(p) \/ FormSave(p)
  \/ \E place \in Places : NewComputer(place) \/ FormCredentials(place)
  \/ \E secret \in Secrets : PasswordInput(secret)
  \/ SetLayout \/ PasswordRemember \/ PasswordFullscreen \/ PasswordSubmit
  \/ FormForget \/ FormRemove \/ ConfirmRemove
  \/ CloseDialog \/ CloseRequested \/ ConfirmQuit
  \/ \E s \in sessions : Connected(s) \/ SignInRefused(s) \/ SessionEnds(s)
  \/ \E r \in replies : PasswordLoaded(r) \/ PasswordPresence(r) \/ PasswordStored(r) \/ PasswordForgotten(r)
  \/ \E p \in Profiles, place \in Places \cup {None} : OtherLauncher(p, place)

Spec == Init /\ [][Next]_vars
-----------------------------------------------------------------------------
TypeOK ==
  /\ kept \in [Credentials -> Secrets \cup {None}]
  /\ legacy \subseteq Profiles /\ trouble \subseteq Credentials
  /\ replies \subseteq Reply
  /\ library \in [Profiles -> Places \cup {None}] /\ disk \in [Profiles -> Places \cup {None}]
  /\ born \subseteq Profiles /\ credential_seq \in 0 .. MaxTurns
  /\ dialogs \in Seq(Dialog) /\ Len(dialogs) <= MaxDialogs
  /\ sessions \subseteq Session /\ Cardinality(sessions) <= MaxSessions
  /\ quitting \in BOOLEAN /\ edits \in 0 .. MaxTurns
  /\ refused \subseteq Secrets

(* A password is sent only to the computer, address and account it is for, *)
(* however late the keyring answers and whoever moves the computer:        *)
(* "an edited destination must never reuse the old account's secret".      *)
RightPlace == \A s \in sessions : Intended[s.secret] = s.key

(* Every password the launcher saved is known to it as saved.              *)
Settled == \A r \in replies : r.op # "set"

(* The keyring keeps no password the library has no use for: unless it     *)
(* refused a change, or another launcher took part, an item belongs to a   *)
(* saved computer at its present address and account.                      *)
NoOrphan ==
  Settled /\ edits = 0 =>
    /\ \A key \in Credentials \ trouble : kept[key] # None => Current(key)
    /\ \A p \in legacy : library[p] # None \/ \E key \in trouble : key.profile = p

(* "A remembered password that Windows refuses is forgotten", also when    *)
(* the computer has been moved or removed while the sign-in was under way. *)
RefusedGone ==
  \A key \in Credentials \ trouble : kept[key] \notin refused

(* Nothing is started once the launcher quits: no desktop is left behind.  *)
QuitLeavesNothing == quitting => sessions = {}

(* A reply of the keyring never takes a dialog away that the user has      *)
(* typed a password into, nor changes what was typed.                      *)
Typed(dialog) == dialog.is = "password" /\ dialog.typed # None
TypedIn == [n \in {m \in DOMAIN dialogs : Typed(dialogs[m])} |-> dialogs[n]]
TypedStays == [][replies \ replies' # {} => TypedIn' = TypedIn]_vars
=============================================================================
