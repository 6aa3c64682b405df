------------------------------- MODULE Keyring -------------------------------
(***************************************************************************)
(* The remembered passwords (launcher/src/keyring.rs): requests go through *)
(* a bounded queue to one worker thread, which puts them to the desktop's  *)
(* keyring one at a time; the replies come back to the window in any       *)
(* order.  The window never waits.                                         *)
(*                                                                         *)
(* The keyring carries out its calls in the order in which they are made,  *)
(* so that a call the worker gave up waiting for has been carried out, or  *)
(* never is, before the next.                                              *)
(***************************************************************************)
EXTENDS Naturals, Sequences, FiniteSets

CONSTANTS
  Profiles,             (* identifiers of saved computers                  *)
  Places,               (* an address together with an account on it       *)
  Secrets,              (* passwords                                       *)
  Tickets,              (* what tells one reply channel from another       *)
  MAX_PENDING_REQUESTS, (* requests that may wait for the worker           *)
  None,                 (* no password, no request                         *)
  Done, Failed          (* replies without a password                      *)

ASSUME KeyringAssumption ==
  /\ MAX_PENDING_REQUESTS \in Nat \ {0}
  /\ {None, Done, Failed} \cap Secrets = {} /\ None # Done /\ None # Failed /\ Done # Failed

VARIABLES
  items,    (* the keyring: the password of each computer, address, account *)
  legacy,   (* computers with an item of an old release, bound to neither   *)
  queue,    (* requests that wait for the worker, oldest first              *)
  working,  (* the request the worker is carrying out                       *)
  replies,  (* results on their way to the window                           *)
  trouble   (* history: passwords a change of which has failed              *)

vars == <<items, legacy, queue, working, replies, trouble>>
-----------------------------------------------------------------------------
Credentials == [profile : Profiles, place : Places]

(* `secret` is what the item becomes: None for delete, and for questions.  *)
Request == [op : {"get", "has", "delete"}, key : Credentials, secret : {None}, ticket : Tickets]
           \cup [op : {"set"}, key : Credentials, secret : Secrets, ticket : Tickets]
Reply == [ticket : Tickets, result : Secrets \cup {None, Done, Failed}]

ASSUME NoneAssumption == None \notin Request

ReplyTo(request, result) == [ticket |-> request.ticket, result |-> result]

Changes(request) == request.op \in {"set", "delete"}
Troubled(request) == IF Changes(request) THEN {request.key} ELSE {}

(* What is still to be carried out, in the order in which it was asked for.*)
Pending == (IF working = None THEN <<>> ELSE <<working>>) \o queue

(* Every request has a reply channel of its own.                           *)
Unused(ticket) ==
  /\ \A n \in DOMAIN Pending : Pending[n].ticket # ticket
  /\ \A r \in replies : r.ticket # ticket

Init ==
  /\ items \in [Credentials -> Secrets \cup {None}]
  /\ legacy \in SUBSET Profiles
  /\ queue = <<>> /\ working = None
  /\ replies = {} /\ trouble = {}
-----------------------------------------------------------------------------

(* run, in the window: the request is queued, or refused at once.          *)
Submit(request) ==
  /\ Unused(request.ticket)
  /\ Len(queue) < MAX_PENDING_REQUESTS
  /\ queue' = Append(queue, request)
  /\ UNCHANGED <<items, legacy, working, replies, trouble>>

SubmitBusy(request) ==
  /\ Unused(request.ticket)
  /\ Len(queue) = MAX_PENDING_REQUESTS
  /\ replies' = replies \cup {ReplyTo(request, Failed)}
  /\ trouble' = trouble \cup Troubled(request)
  /\ UNCHANGED <<items, legacy, queue, working>>

(* The window takes a reply, or has dropped the channel.                   *)
Receive ==
  /\ \E r \in replies : replies' = replies \ {r}
  /\ UNCHANGED <<items, legacy, queue, working, trouble>>
-----------------------------------------------------------------------------
(* The worker.                                                             *)

(* Seeded fault: the newest request is carried out first.                  *)
TakeNewest ==
  /\ working = None /\ queue # <<>>
  /\ working' = queue[Len(queue)]
  /\ queue' = SubSeq(queue, 1, Len(queue) - 1)
  /\ UNCHANGED <<items, legacy, replies, trouble>>

Take ==
  /\ working = None /\ queue # <<>>
  /\ working' = Head(queue)
  /\ queue' = Tail(queue)
  /\ UNCHANGED <<items, legacy, replies, trouble>>

(* get reads a bound item only; has counts items of old releases as well.  *)
Found(request) ==
  CASE request.op = "get" -> items[request.key]
    [] request.op = "has" -> IF items[request.key] # None \/ request.key.profile \in legacy
                             THEN Done ELSE None
    [] OTHER -> Done

Carried(request) ==
  /\ items' = [items EXCEPT ![request.key] = request.secret]
  /\ legacy' = legacy \ {request.key.profile}

Answer(result) ==
  /\ working' = None
  /\ replies' = replies \cup {ReplyTo(working, result)}
  /\ UNCHANGED queue

Perform ==
  /\ working # None
  /\ IF Changes(working) THEN Carried(working) ELSE UNCHANGED <<items, legacy>>
  /\ Answer(Found(working))
  /\ UNCHANGED trouble

(* Seeded fault: a panic ends the worker's turn without a reply.           *)
FailSilently ==
  /\ working # None /\ working' = None
  /\ trouble' = trouble \cup Troubled(working)
  /\ UNCHANGED <<items, legacy, queue, replies>>

(* The keyring refuses a call, does not answer within TIMEOUT, or the      *)
(* request panics: what it did before that stays done. set clears the old  *)
(* items first, delete its own item; a panic still fails the request.      *)
Fail ==
  /\ working # None
  /\ \/ UNCHANGED <<items, legacy>>
     \/ working.op = "set" /\ legacy' = legacy \ {working.key.profile} /\ UNCHANGED items
     \/ working.op = "delete" /\ items' = [items EXCEPT ![working.key] = None] /\ UNCHANGED legacy
     \/ Changes(working) /\ Carried(working)
  /\ trouble' = trouble \cup Troubled(working)
  /\ Answer(Failed)

Next ==
  \/ \E request \in Request : Submit(request) \/ SubmitBusy(request)
  \/ Receive \/ Take \/ Perform \/ Fail

Spec == Init /\ [][Next]_vars

(* The worker thread runs, and gives up on a call after TIMEOUT.           *)
FairSpec == Spec /\ WF_vars(Take) /\ WF_vars(Perform \/ Fail)
-----------------------------------------------------------------------------
(* Type correctness.                                                       *)
TypeOK ==
  /\ items \in [Credentials -> Secrets \cup {None}]
  /\ legacy \subseteq Profiles
  /\ queue \in Seq(Request) /\ Len(queue) <= MAX_PENDING_REQUESTS
  /\ working \in Request \cup {None}
  /\ replies \subseteq Reply
  /\ trouble \subseteq Credentials

(* The item there will be when everything pending has been carried out.    *)
Words(key) == {n \in DOMAIN Pending : Changes(Pending[n]) /\ Pending[n].key = key}
Outcome(key) ==
  IF Words(key) = {} THEN items[key]
  ELSE Pending[CHOOSE n \in Words(key) : \A m \in Words(key) : m <= n].secret
LegacyOutcome == {p \in legacy : \A n \in DOMAIN Pending : Changes(Pending[n]) => Pending[n].key.profile # p}

Store == INSTANCE PasswordStore WITH kept <- [key \in Credentials |-> Outcome(key)], legacy <- LegacyOutcome

(* "Submission order is fixed before any returned future is polled. A late *)
(* save cannot overtake a subsequent forget": as far as the window can     *)
(* tell, a change is made when it is asked for, and nothing the worker does*)
(* with it later changes the outcome, unless it fails.                     *)
Asked(request) == Pending' = Append(Pending, request)
StoreStep ==
  \/ \E request \in Request : Asked(request) /\ Changes(request) /\ Store!Word(request.key, request.secret)
  \/ \E key \in Credentials : Store!Lose(key)
  \/ UNCHANGED Store!storeVars
Implements == Store!Init /\ [][StoreStep]_vars

(* Every request is answered, also when the queue is full, the keyring     *)
(* hangs, or a request before it panics.                                   *)
Waiting(ticket) == \E n \in DOMAIN Pending : Pending[n].ticket = ticket
Answered(ticket) == \E r \in replies : r.ticket = ticket
AllAnswered == \A ticket \in Tickets : Waiting(ticket) ~> Answered(ticket)
=============================================================================
