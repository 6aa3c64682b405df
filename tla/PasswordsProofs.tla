--------------------------- MODULE PasswordsProofs ---------------------------
(***************************************************************************)
(* A remembered password goes nowhere but to the computer, address and     *)
(* account it is for, for any computers, places and passwords, any number  *)
(* of open dialogs and desktops, however late the keyring answers, whatever*)
(* it fails to do, and whatever another launcher does to the library.      *)
(*                                                                         *)
(* The argument follows the passwords: the ones in the keyring, the ones   *)
(* in replies under way, the ones typed into a dialog, and the ones        *)
(* desktops run with are each tied to what they are for.  What a handler   *)
(* asks of the keyring is summed up once (Effect), so that the proof of a  *)
(* handler needs neither the keyring's failures nor the replies.           *)
(***************************************************************************)
EXTENDS Passwords, FiniteSetTheorems, SequenceTheorems, TLAPS

USE PasswordsAssumption
-----------------------------------------------------------------------------
(* The inductive invariant.                                                *)

SignIns == [is : {"password"}, key : Credentials, lookup : Tickets \cup {None},
            typed : Secrets \cup {None}, remember : BOOLEAN]
Forms == [is : {"computer"}, editing : Profiles \cup {None}, connect : BOOLEAN, place : Places,
          saved : BOOLEAN, request : Tickets]
Removals == [is : {"remove"}, profile : Profiles]
Quits == [is : {"quit"}]

(* What was typed is for the computer the dialog names, and a dialog that  *)
(* was typed into waits for no password.                                   *)
Sound(dialog) ==
  dialog.is = "password" /\ dialog.typed # None =>
    Intended[dialog.typed] = dialog.key /\ dialog.lookup = None
SoundDialogs == {dialog \in Dialog : Sound(dialog)}

(* The keyring, and what it has answered.                                  *)
KeyringInv ==
  /\ kept \in [Credentials -> Secrets \cup {None}]
  /\ legacy \subseteq Profiles /\ trouble \subseteq Credentials
  /\ replies \subseteq Reply
  /\ \A key \in Credentials : kept[key] # None => Intended[kept[key]] = key
  /\ \A r \in replies : r.op = "get" =>
       r.ticket # None /\ (r.result \in Secrets => Intended[r.result] = r.key)

(* The launcher's own state.                                               *)
LibraryInv ==
  /\ library \in [Profiles -> Places \cup {None}] /\ disk \in [Profiles -> Places \cup {None}]
  /\ born \subseteq Profiles
  /\ credential_seq \in 0 .. MaxTurns /\ edits \in 0 .. MaxTurns

DialogsInv == dialogs \in Seq(SoundDialogs) /\ Len(dialogs) <= MaxDialogs

SessionsInv ==
  /\ sessions \subseteq Session /\ IsFiniteSet(sessions) /\ Cardinality(sessions) <= MaxSessions
  /\ RightPlace
  /\ quitting \in BOOLEAN /\ QuitLeavesNothing

RefusedInv == refused \subseteq Secrets /\ RefusedGone

(* A password in the keyring that no computer has a use for is one that    *)
(* the launcher has not been told about yet.                               *)
Announced(key) == \E r \in replies : r.op = "set" /\ r.key = key /\ r.result = Done
Accounted ==
  edits = 0 =>
    /\ disk = library
    /\ \A key \in Credentials \ trouble : kept[key] # None => Current(key) \/ Announced(key)
    /\ \A p \in legacy : library[p] # None \/ \E key \in trouble : key.profile = p

IInv == KeyringInv /\ LibraryInv /\ DialogsInv /\ SessionsInv /\ RefusedInv /\ Accounted
-----------------------------------------------------------------------------
(* What a handler may ask of the keyring, and what comes of it.            *)

Changes ==
  [op : {"delete"}, key : Credentials, word : {None}, ticket : Tickets \cup {None}]
  \cup {r \in [op : {"set"}, key : Credentials, word : Secrets, ticket : {None}] :
          Intended[r.word] = r.key}
Questions == [op : {"get", "has"}, key : Credentials, word : {None}, ticket : Tickets]

(* As long as no other launcher takes part, a step is one of PasswordStore.*)
StoreStep == edits' = edits => Store!Next \/ UNCHANGED storeVars

Effect(change, question, left) ==
  /\ StoreStep
  /\ kept' \in [Credentials -> Secrets \cup {None}]
  /\ trouble \subseteq trouble' /\ trouble' \subseteq Credentials /\ legacy' \subseteq legacy
  /\ \A key \in Credentials :
       kept'[key] = kept[key] \/ \E r \in change : r.key = key /\ kept'[key] = r.word
  /\ \A r \in change :
       r.key \in trouble' \/ (kept'[r.key] = r.word /\ r.key.profile \notin legacy')
  /\ \A r \in change : r.op = "set" =>
       r.key \in trouble' \/ \E a \in replies' : a.op = "set" /\ a.key = r.key /\ a.result = Done
  /\ left \subseteq replies' /\ replies' \subseteq Reply
  /\ \A a \in replies' \ left : a.op = "get" =>
       \E r \in question : a.key = r.key /\ a.ticket = r.ticket /\ a.result \in {Failed, kept'[r.key]}

(* A handler asks for at most one change and one question.                 *)
Single(requests) == \A q, r \in requests : q = r

LEMMA AsksEffect ==
  ASSUME KeyringInv,
         NEW change \in SUBSET Changes, Single(change), NEW question \in SUBSET Questions,
         NEW left \in SUBSET replies, Asks(change, question, left)
  PROVE  Effect(change, question, left)
<1>1. PICK succeed \in [change \cup question -> BOOLEAN] :
        /\ change = {} => UNCHANGED storeVars
        /\ \A r \in change : IF succeed[r] THEN Store!Word(r.key, r.word) ELSE Botched(r)
        /\ replies' = left \cup
             {[op |-> r.op, key |-> r.key, ticket |-> r.ticket,
               result |-> IF succeed[r] THEN Found(r)' ELSE Failed]
              : r \in {q \in change \cup question : ~Silent(q)}}
  BY DEF Asks
<1>2. \A r \in change : r.key \in Credentials /\ r.word \in Secrets \cup {None} /\ r.key.profile \in Profiles
  BY DEF Changes, Credentials
<1>3. kept \in [Credentials -> Secrets \cup {None}] /\ trouble \subseteq Credentials /\ replies \subseteq Reply
  BY DEF KeyringInv
<1>4. /\ kept' \in [Credentials -> Secrets \cup {None}]
      /\ trouble \subseteq trouble' /\ trouble' \subseteq Credentials /\ legacy' \subseteq legacy
      /\ \A key \in Credentials :
           kept'[key] = kept[key] \/ \E r \in change : r.key = key /\ kept'[key] = r.word
      /\ \A r \in change :
           r.key \in trouble' \/ (kept'[r.key] = r.word /\ r.key.profile \notin legacy')
  <2>1. CASE change = {}
    BY <1>1, <1>3, <2>1 DEF storeVars
  <2>2. CASE change # {}
    <3>1. PICK c \in change : TRUE
      BY <2>2
    <3>2. change = {c} /\ c.key \in Credentials /\ c.word \in Secrets \cup {None}
      BY <1>2, <3>1 DEF Single
    <3>3. CASE succeed[c]
      BY <1>1, <1>3, <3>2, <3>3 DEF Store!Word
    <3>4. CASE ~succeed[c]
      BY <1>1, <1>3, <3>2, <3>4 DEF Botched
    <3> QED BY <3>3, <3>4
  <2> QED BY <2>1, <2>2
<1>5. \A r \in change \cup question :
        /\ r.op \in {"get", "has", "set", "delete"} /\ r.key \in Credentials /\ r.ticket \in Tickets \cup {None}
        /\ r.op = "get" => r \in question
  BY DEF Changes, Questions
<1>6. \A r \in change \cup question : Found(r)' \in Secrets \cup {None, Done}
  BY <1>4, <1>5 DEF Found
<1>7. \A r \in change \cup question : r.op = "get" => Found(r)' = kept'[r.key]
  BY DEF Found
<1>8. \A r \in change \cup question : r.op = "set" => Found(r)' = Done
  BY DEF Found
<1>9. left \subseteq replies' /\ replies' \subseteq Reply
  <2>1. \A a \in replies' : a \in left \/ \E r \in change \cup question :
          a = [op |-> r.op, key |-> r.key, ticket |-> r.ticket,
               result |-> IF succeed[r] THEN Found(r)' ELSE Failed]
    BY <1>1
  <2>2. \A a \in replies' : a \in Reply
    BY <1>3, <1>5, <1>6, <2>1 DEF Reply
  <2> QED BY <1>1, <2>2
<1>10. \A a \in replies' \ left : a.op = "get" =>
         \E r \in question : a.key = r.key /\ a.ticket = r.ticket /\ a.result \in {Failed, kept'[r.key]}
  <2> SUFFICES ASSUME NEW a \in replies' \ left, a.op = "get"
               PROVE  \E r \in question : a.key = r.key /\ a.ticket = r.ticket
                                          /\ a.result \in {Failed, kept'[r.key]}
    OBVIOUS
  <2>1. PICK r \in change \cup question :
          a = [op |-> r.op, key |-> r.key, ticket |-> r.ticket,
               result |-> IF succeed[r] THEN Found(r)' ELSE Failed]
    BY <1>1
  <2>2. r.op = "get" /\ a.key = r.key /\ a.ticket = r.ticket
        /\ a.result = IF succeed[r] THEN Found(r)' ELSE Failed
    BY <2>1
  <2> QED BY <1>5, <1>7, <2>2
<1>11. \A r \in change : r.op = "set" =>
         r.key \in trouble' \/ \E a \in replies' : a.op = "set" /\ a.key = r.key /\ a.result = Done
  <2> SUFFICES ASSUME NEW r \in change, r.op = "set", r.key \notin trouble'
               PROVE  \E a \in replies' : a.op = "set" /\ a.key = r.key /\ a.result = Done
    OBVIOUS
  <2>1. succeed[r]
    BY <1>1, <1>2 DEF Botched
  <2>2. ~Silent(r)
    BY DEF Silent
  <2>3. [op |-> r.op, key |-> r.key, ticket |-> r.ticket, result |-> Done] \in replies'
    BY <1>1, <1>8, <2>1, <2>2
  <2> QED BY <2>3
<1>12. StoreStep
  <2>1. CASE change = {}
    BY <1>1, <2>1 DEF StoreStep
  <2>2. CASE change # {}
    <3>1. PICK c \in change : TRUE
      BY <2>2
    <3>2. c.key \in Store!Credentials /\ c.word \in Secrets \cup {None}
      BY <1>2, <3>1 DEF Credentials, Store!Credentials
    <3>3. CASE succeed[c]
      BY <1>1, <3>2, <3>3 DEF StoreStep, Store!Next
    <3>4. CASE ~succeed[c]
      <4>1. Botched(c)
        BY <1>1, <3>1, <3>4
      <4>2. \E word \in Secrets \cup {None} : kept' = [kept EXCEPT ![c.key] = word]
        <5>1. kept = [kept EXCEPT ![c.key] = kept[c.key]] /\ kept[c.key] \in Secrets \cup {None}
          BY <1>2, <1>3
        <5>2. kept' = kept \/ kept' = [kept EXCEPT ![c.key] = c.word]
          BY <4>1 DEF Botched
        <5> QED BY <3>2, <5>1, <5>2
      <4>3. Store!Lose(c.key)
        BY <4>1, <4>2 DEF Botched, Store!Lose
      <4> QED BY <3>2, <4>3 DEF StoreStep, Store!Next
    <3> QED BY <3>3, <3>4
  <2> QED BY <2>1, <2>2
<1> QED BY <1>4, <1>9, <1>10, <1>11, <1>12 DEF Effect

LEMMA NothingAsked ==
  ASSUME KeyringInv, AsksNothing
  PROVE  Effect({}, {}, replies)
BY DEF KeyringInv, AsksNothing, storeVars, Store!storeVars, Effect, StoreStep
-----------------------------------------------------------------------------
(* What follows from the effect alone.                                     *)

LEMMA EffectKeepsKeyring ==
  ASSUME KeyringInv,
         NEW change \in SUBSET Changes, NEW question \in SUBSET Questions,
         NEW left \in SUBSET replies, Effect(change, question, left)
  PROVE  KeyringInv'
<1>1. \A r \in change : r.word # None => Intended[r.word] = r.key
  BY DEF Changes
<1>2. \A key \in Credentials : kept'[key] # None => Intended[kept'[key]] = key
  BY <1>1 DEF KeyringInv, Effect
<1>3. \A r \in question : r.key \in Credentials /\ r.ticket \in Tickets
  BY DEF Questions
<1>4. \A a \in replies' : a.op = "get" =>
        a.ticket # None /\ (a.result \in Secrets => Intended[a.result] = a.key)
  <2> SUFFICES ASSUME NEW a \in replies', a.op = "get"
               PROVE  a.ticket # None /\ (a.result \in Secrets => Intended[a.result] = a.key)
    OBVIOUS
  <2>1. CASE a \in left
    BY <2>1 DEF KeyringInv
  <2>2. CASE a \notin left
    <3>1. PICK r \in question : a.key = r.key /\ a.ticket = r.ticket /\ a.result \in {Failed, kept'[r.key]}
      BY <2>2 DEF Effect
    <3>2. a.ticket # None
      BY <1>3, <3>1 DEF Tickets
    <3> QED BY <1>2, <1>3, <3>1, <3>2
  <2> QED BY <2>1, <2>2
<1> QED BY <1>2, <1>4 DEF KeyringInv, Effect

(* A refused password stays away as long as none is saved.                 *)
LEMMA EffectKeepsRefused ==
  ASSUME KeyringInv, RefusedInv,
         NEW change \in SUBSET Changes, NEW question, NEW left, Effect(change, question, left),
         \A r \in change : r.op = "delete", refused' = refused
  PROVE  RefusedInv'
<1>1. \A r \in change : r.word = None
  BY DEF Changes
<1>2. \A key \in Credentials : kept'[key] \in {kept[key], None}
  BY <1>1 DEF Effect
<1>3. None \notin refused
  BY DEF RefusedInv
<1> QED BY <1>2, <1>3 DEF RefusedInv, RefusedGone, Effect

(* Every password stays accounted for if the computer that a deleted one   *)
(* was for is the only one that moves, and the reply taken announced none  *)
(* that is still to be accounted for.                                      *)
LEMMA EffectKeepsAccounted ==
  ASSUME KeyringInv, LibraryInv, Accounted,
         NEW change \in SUBSET Changes, NEW question, NEW left \in SUBSET replies,
         Effect(change, question, left),
         edits' = edits, edits = 0 => disk' = library',
         edits = 0 => \A p \in Profiles :
           \/ library'[p] = library[p] \/ library[p] = None
           \/ \E r \in change : r.op = "delete" /\ r.key = Key(p, library[p]),
         edits = 0 => \A a \in replies \ left : a.op = "set" /\ a.result = Done =>
           \/ library'[a.key.profile] = a.key.place
           \/ \E r \in change : r.op = "delete" /\ r.key = a.key
  PROVE  Accounted'
<1> SUFFICES ASSUME edits = 0
             PROVE  /\ \A key \in Credentials \ trouble' :
                         kept'[key] # None => Current(key)' \/ Announced(key)'
                    /\ \A p \in legacy' : library'[p] # None \/ \E key \in trouble' : key.profile = p
  BY DEF Accounted
<1>1. \A r \in change : r.key \in Credentials /\ (r.op = "delete" => r.word = None) /\ r.op \in {"set", "delete"}
  BY DEF Changes
<1>2. ASSUME NEW key \in Credentials, key \notin trouble', kept'[key] # None
      PROVE  Current(key)' \/ Announced(key)'
  <2>1. key \notin trouble /\ \A r \in change : r.key = key => r.op = "set"
    BY <1>1, <1>2 DEF Effect
  <2>2. CASE \E r \in change : r.key = key
    <3>1. \E a \in replies' : a.op = "set" /\ a.key = key /\ a.result = Done
      BY <1>2, <2>1, <2>2 DEF Effect
    <3> QED BY <3>1 DEF Announced
  <2>3. CASE \A r \in change : r.key # key
    <3>1. kept[key] # None
      BY <1>2, <2>3 DEF Effect
    <3>2. CASE Announced(key)
      <4>1. PICK a \in replies : a.op = "set" /\ a.key = key /\ a.result = Done
        BY <3>2 DEF Announced
      <4>2. a \in left \/ library'[key.profile] = key.place
        BY <2>3, <4>1
      <4>3. left \subseteq replies'
        BY DEF Effect
      <4> QED BY <4>1, <4>2, <4>3 DEF Announced, Current
    <3>3. CASE Current(key)
      <4>1. key.profile \in Profiles /\ key.place \in Places /\ key = Key(key.profile, key.place)
        BY DEF Credentials, Key
      <4>2. library[key.profile] = key.place
        BY <3>3 DEF Current
      <4>3. key = Key(key.profile, library[key.profile]) /\ library[key.profile] # None
        BY <4>1, <4>2
      <4>4. library'[key.profile] = library[key.profile]
        BY <2>3, <4>1, <4>3
      <4> QED BY <4>2, <4>4 DEF Current
    <3> QED BY <1>2, <2>1, <3>1, <3>2, <3>3 DEF Accounted
  <2> QED BY <2>2, <2>3
<1>3. ASSUME NEW p \in legacy'
      PROVE  library'[p] # None \/ \E key \in trouble' : key.profile = p
  <2>1. p \in legacy /\ p \in Profiles
    BY DEF Effect, KeyringInv
  <2>2. CASE library[p] = None
    BY <2>1, <2>2 DEF Accounted, Effect
  <2>3. CASE library'[p] = library[p]
    BY <2>1, <2>3 DEF Accounted, Effect
  <2>4. CASE library[p] # None /\ library'[p] # library[p]
    <3>1. PICK r \in change : r.key = Key(p, library[p])
      BY <2>1, <2>4
    <3>2. r.key.profile = p
      BY <3>1 DEF Key
    <3>3. r.key \in trouble'
      BY <1>3, <3>2 DEF Effect
    <3> QED BY <3>2, <3>3
  <2> QED BY <2>2, <2>3, <2>4
<1> QED BY <1>2, <1>3

(* The invariant, when no password is saved and none is refused.           *)
LEMMA StepKeeps ==
  ASSUME IInv,
         NEW change \in SUBSET Changes, NEW question \in SUBSET Questions, NEW left \in SUBSET replies,
         Effect(change, question, left), \A r \in change : r.op = "delete",
         refused' = refused, edits' = edits, edits = 0 => disk' = library',
         edits = 0 => \A p \in Profiles :
           \/ library'[p] = library[p] \/ library[p] = None
           \/ \E r \in change : r.op = "delete" /\ r.key = Key(p, library[p]),
         edits = 0 => \A a \in replies \ left : a.op = "set" /\ a.result = Done =>
           \/ library'[a.key.profile] = a.key.place
           \/ \E r \in change : r.op = "delete" /\ r.key = a.key,
         LibraryInv', DialogsInv', SessionsInv'
  PROVE  IInv' /\ StoreStep
<1>1. KeyringInv /\ LibraryInv /\ RefusedInv /\ Accounted
  BY DEF IInv
<1>2. KeyringInv'
  BY <1>1, EffectKeepsKeyring
<1>3. RefusedInv'
  BY <1>1, EffectKeepsRefused
<1>4. Accounted'
  BY <1>1, EffectKeepsAccounted
<1> QED BY <1>2, <1>3, <1>4 DEF IInv, Effect

(* The same, when only dialogs and desktops change.                        *)
LEMMA QuietKeeps ==
  ASSUME IInv, AsksNothing, UNCHANGED <<library, disk, credential_seq, born, edits, refused>>,
         DialogsInv', SessionsInv'
  PROVE  IInv' /\ StoreStep
<1>1. Effect({}, {}, replies)
  BY NothingAsked DEF IInv
<1>2. LibraryInv' /\ (edits = 0 => disk' = library')
  BY DEF IInv, LibraryInv, Accounted
<1> QED BY <1>1, <1>2, StepKeeps
-----------------------------------------------------------------------------
(* The dialogs.                                                            *)

LEMMA Kinds ==
  ASSUME NEW d \in Dialog
  PROVE  /\ d.is = "password" => d \in SignIns
         /\ d.is = "computer" => d \in Forms
         /\ d.is = "remove" => d \in Removals
BY DEF Dialog, SignIns, Forms, Removals

LEMMA NewKinds ==
  /\ SignIns \subseteq Dialog /\ Forms \subseteq SoundDialogs
  /\ Removals \subseteq SoundDialogs /\ Quits \subseteq SoundDialogs
BY DEF Dialog, SignIns, Forms, Removals, Quits, SoundDialogs, Sound

LEMMA TopSound ==
  ASSUME DialogsInv, dialogs # <<>>
  PROVE  Top \in SoundDialogs /\ Top \in Dialog /\ Len(dialogs) \in DOMAIN dialogs
<1>1. Len(dialogs) \in Nat /\ Len(dialogs) # 0
  BY EmptySeq DEF DialogsInv
<1> QED BY <1>1 DEF DialogsInv, Top, SoundDialogs

LEMMA OnTopSound ==
  ASSUME DialogsInv, dialogs # <<>>, NEW d \in SoundDialogs, dialogs' = OnTop(d)
  PROVE  DialogsInv'
<1>1. dialogs' \in Seq(SoundDialogs) /\ Len(dialogs') = Len(dialogs)
  BY ExceptSeq, TopSound DEF DialogsInv, OnTop
<1> QED BY <1>1 DEF DialogsInv

LEMMA FrontSound ==
  ASSUME DialogsInv, dialogs # <<>>
  PROVE  /\ Front(dialogs) \in Seq(SoundDialogs) /\ Len(Front(dialogs)) = Len(dialogs) - 1
         /\ Len(Front(dialogs)) \in Nat /\ Len(Front(dialogs)) <= MaxDialogs
<1>1. dialogs \in Seq(SoundDialogs) /\ Len(dialogs) \in Nat /\ Len(dialogs) # 0 /\ Len(dialogs) <= MaxDialogs
  BY EmptySeq DEF DialogsInv
<1> DEFINE m == Len(dialogs) - 1
<1>a. m \in Nat /\ m <= Len(dialogs) /\ 1 \in 1 .. Len(dialogs) + 1
  BY <1>1
<1>2. SubSeq(dialogs, 1, m) \in Seq(SoundDialogs) /\ Len(SubSeq(dialogs, 1, m)) = m
  <2> HIDE DEF m
  <2> QED BY <1>1, <1>a, SubSeqProperties
<1>3. Front(dialogs) = SubSeq(dialogs, 1, Len(dialogs) - 1)
  BY DEF Front
<1> QED BY <1>1, <1>2, <1>3

LEMMA RemovedSound ==
  ASSUME DialogsInv, NEW n \in DOMAIN dialogs
  PROVE  RemoveAt(dialogs, n) \in Seq(SoundDialogs) /\ Len(RemoveAt(dialogs, n)) <= MaxDialogs
<1>1. dialogs \in Seq(SoundDialogs) /\ Len(dialogs) \in Nat /\ n \in 1 .. Len(dialogs) /\ Len(dialogs) <= MaxDialogs
  BY DEF DialogsInv
<1>2. /\ SubSeq(dialogs, 1, n - 1) \in Seq(SoundDialogs)
      /\ Len(SubSeq(dialogs, 1, n - 1)) = n - 1
  BY <1>1, SubSeqProperties
<1>3. /\ SubSeq(dialogs, n + 1, Len(dialogs)) \in Seq(SoundDialogs)
      /\ Len(SubSeq(dialogs, n + 1, Len(dialogs))) = Len(dialogs) - n
  BY <1>1, SubSeqProperties
<1> QED BY <1>1, <1>2, <1>3, ConcatProperties DEF RemoveAt

LEMMA AppendSound ==
  ASSUME NEW under \in Seq(SoundDialogs), Len(under) < MaxDialogs, NEW d \in SoundDialogs,
         dialogs' = Append(under, d)
  PROVE  DialogsInv'
BY AppendProperties DEF DialogsInv

(* A number given out is one of those there are.                           *)
LEMMA TicketGiven ==
  ASSUME LibraryInv, Numbered
  PROVE  NextTicket \in Tickets /\ credential_seq' \in 0 .. MaxTurns
BY DEF LibraryInv, Numbered, NextTicket, Tickets

(* The form over other dialogs.                                            *)
LEMMA OpensFormKeeps ==
  ASSUME KeyringInv, LibraryInv,
         NEW p \in Profiles \cup {None}, NEW connect \in BOOLEAN, NEW place \in Places,
         NEW lib, NEW under \in Seq(SoundDialogs),
         NEW change \in SUBSET Changes, Single(change),
         OpensForm(p, connect, place, lib, under, change)
  PROVE  /\ DialogsInv' /\ credential_seq' \in 0 .. MaxTurns
         /\ \E question \in SUBSET Questions : Effect(change, question, replies)
<1>1. NextTicket \in Tickets /\ credential_seq' \in 0 .. MaxTurns
  BY TicketGiven DEF OpensForm
<1>2. Form(p, connect, place) \in SoundDialogs
  BY <1>1, NewKinds DEF Form, Forms
<1>3. DialogsInv'
  BY <1>2, AppendSound DEF OpensForm
<1> DEFINE question == IF p # None /\ lib[p] = place THEN {Has(Key(p, place), NextTicket)} ELSE {}
<1>4. question \in SUBSET Questions
  BY <1>1 DEF Has, Key, Questions, Credentials
<1>5. Asks(change, question, replies)
  BY DEF OpensForm
<1>6. Effect(change, question, replies)
  <2> HIDE DEF question
  <2> QED BY <1>4, <1>5, AsksEffect
<1> QED BY <1>1, <1>3, <1>4, <1>6

LEMMA PromptsKeeps ==
  ASSUME KeyringInv, LibraryInv,
         NEW p \in Profiles, NEW refusal \in BOOLEAN, NEW remember \in BOOLEAN,
         NEW lib \in [Profiles -> Places \cup {None}],
         NEW under \in Seq(SoundDialogs), Len(under) <= MaxDialogs,
         NEW change \in SUBSET Changes, Single(change),
         Prompts(p, refusal, remember, lib, under, change)
  PROVE  /\ DialogsInv' /\ credential_seq' \in 0 .. MaxTurns
         /\ \E question \in SUBSET Questions : Effect(change, question, replies)
<1>1. CASE /\ dialogs' = under /\ Asks(change, {}, replies) /\ UNCHANGED credential_seq
  BY <1>1, AsksEffect DEF DialogsInv, LibraryInv
<1>2. CASE /\ lib[p] \in Places \ Accounts /\ OpensForm(p, TRUE, lib[p], lib, under, change)
  BY <1>2, OpensFormKeeps
<1>3. CASE /\ lib[p] \in Accounts /\ Len(under) < MaxDialogs
           /\ IF refusal THEN UNCHANGED credential_seq ELSE Numbered
           /\ dialogs' = Append(under, [is |-> "password", key |-> Key(p, lib[p]),
                                        lookup |-> IF refusal THEN None ELSE NextTicket,
                                        typed |-> None, remember |-> remember])
           /\ Asks(change, IF refusal THEN {} ELSE {Get(Key(p, lib[p]), NextTicket)}, replies)
  <2>1. credential_seq' \in 0 .. MaxTurns /\ (~refusal => NextTicket \in Tickets)
    BY <1>3, TicketGiven DEF LibraryInv
  <2>2. Key(p, lib[p]) \in Credentials
    BY <1>3 DEF Key, Credentials
  <2> DEFINE d == [is |-> "password", key |-> Key(p, lib[p]),
                   lookup |-> IF refusal THEN None ELSE NextTicket,
                   typed |-> None, remember |-> remember]
  <2>3. d \in SignIns /\ d.typed = None
    BY <2>1, <2>2 DEF SignIns
  <2>4. d \in SoundDialogs
    <3> HIDE DEF d
    <3> QED BY <2>3, NewKinds DEF SoundDialogs, Sound
  <2>5. DialogsInv'
    <3>1. dialogs' = Append(under, d)
      BY <1>3
    <3> HIDE DEF d
    <3> QED BY <1>3, <2>4, <3>1, AppendSound
  <2> DEFINE question == IF refusal THEN {} ELSE {Get(Key(p, lib[p]), NextTicket)}
  <2>6. question \in SUBSET Questions
    BY <2>1, <2>2 DEF Get, Questions
  <2>7. Effect(change, question, replies)
    <3>1. Asks(change, question, replies)
      BY <1>3
    <3> HIDE DEF question
    <3> QED BY <2>6, <3>1, AsksEffect
  <2> QED BY <2>1, <2>5, <2>6, <2>7
<1> QED BY <1>1, <1>2, <1>3 DEF Prompts
-----------------------------------------------------------------------------
(* The desktops.                                                           *)

LEMMA EndsSound ==
  ASSUME SessionsInv, NEW s, sessions' = sessions \ {s}, quitting' = quitting
  PROVE  SessionsInv'
<1>1. IsFiniteSet(sessions) /\ Cardinality(sessions) \in Nat
  BY FS_CardinalityType DEF SessionsInv
<1>2. /\ IsFiniteSet(sessions \ {s})
      /\ Cardinality(sessions \ {s}) \in {Cardinality(sessions) - 1, Cardinality(sessions)}
  BY <1>1, FS_RemoveElement
<1> QED BY <1>1, <1>2 DEF SessionsInv, RightPlace, QuitLeavesNothing

(* A number that no desktop has is there as long as not all are open.      *)
LEMMA FreeId ==
  ASSUME SessionsInv, Cardinality(sessions) < MaxSessions
  PROVE  NextId \in 1 .. MaxSessions
<1> DEFINE ids == {s.id : s \in sessions}
           f == [s \in sessions |-> s.id]
<1>1. f \in Surjection(sessions, ids)
  BY DEF Surjection
<1>2. IsFiniteSet(ids) /\ Cardinality(ids) <= Cardinality(sessions)
  BY <1>1, FS_Surjection DEF SessionsInv
<1>3. IsFiniteSet(1 .. MaxSessions) /\ Cardinality(1 .. MaxSessions) = MaxSessions
  BY FS_Interval
<1>4. Cardinality(sessions) \in Nat /\ Cardinality(ids) \in Nat
  BY <1>2, FS_CardinalityType DEF SessionsInv
<1>5. ~(1 .. MaxSessions \subseteq ids)
  <2> SUFFICES ASSUME 1 .. MaxSessions \subseteq ids PROVE FALSE
    OBVIOUS
  <2>1. Cardinality(1 .. MaxSessions) <= Cardinality(ids)
    BY <1>2, FS_Subset
  <2> QED BY <1>2, <1>3, <1>4, <2>1
<1>6. PICK n \in 1 .. MaxSessions : n \notin ids
  BY <1>5
<1>7. \A s \in sessions : s.id # n
  BY <1>6
<1> QED BY <1>6, <1>7 DEF NextId

LEMMA StartsSound ==
  ASSUME SessionsInv, NEW key \in Credentials, NEW secret \in Secrets, NEW remembered \in BOOLEAN,
         Starts(key, secret, remembered), Intended[secret] = key, ~quitting, quitting' = quitting
  PROVE  SessionsInv'
<1> DEFINE s == [id |-> NextId, key |-> key, secret |-> secret, remembered |-> remembered, stamped |-> FALSE]
<1>1. s \in Session /\ Intended[s.secret] = s.key
  BY FreeId DEF Starts, Session
<1>2. sessions' = sessions \cup {s} /\ Cardinality(sessions) < MaxSessions
  BY DEF Starts
<1> HIDE DEF s
<1>3. IsFiniteSet(sessions) /\ Cardinality(sessions) \in Nat
  BY FS_CardinalityType DEF SessionsInv
<1>4. /\ IsFiniteSet(sessions \cup {s})
      /\ Cardinality(sessions \cup {s}) \in {Cardinality(sessions), Cardinality(sessions) + 1}
  BY <1>3, FS_AddElement
<1> QED BY <1>1, <1>2, <1>3, <1>4 DEF SessionsInv, RightPlace, QuitLeavesNothing

LEMMA Exchanged ==
  ASSUME NEW S, IsFiniteSet(S), NEW s \in S, NEW t
  PROVE  /\ IsFiniteSet((S \ {s}) \cup {t})
         /\ Cardinality(S) \in Nat /\ Cardinality((S \ {s}) \cup {t}) \in Nat
         /\ Cardinality((S \ {s}) \cup {t}) <= Cardinality(S)
<1> DEFINE others == S \ {s}
<1>1. /\ Cardinality(S) \in Nat /\ Cardinality(others) \in Nat
      /\ IsFiniteSet(others) /\ Cardinality(others) = Cardinality(S) - 1
  BY FS_RemoveElement, FS_CardinalityType
<1> HIDE DEF others
<1>2. /\ IsFiniteSet(others \cup {t})
      /\ Cardinality(others \cup {t}) = IF t \in others THEN Cardinality(others) ELSE Cardinality(others) + 1
  BY <1>1, FS_AddElement
<1>3. Cardinality(others \cup {t}) \in Nat /\ Cardinality(others \cup {t}) <= Cardinality(S)
  BY <1>1, <1>2
<1> QED BY <1>1, <1>2, <1>3 DEF others

LEMMA StampSound ==
  ASSUME SessionsInv, NEW s \in sessions, ~quitting, quitting' = quitting,
         sessions' = (sessions \ {s}) \cup {[s EXCEPT !.stamped = TRUE]}
  PROVE  SessionsInv'
<1>1. s \in Session /\ Intended[s.secret] = s.key
  BY DEF SessionsInv, RightPlace
<1> DEFINE t == [s EXCEPT !.stamped = TRUE]
<1>2. t \in Session /\ Intended[t.secret] = t.key
  BY <1>1 DEF Session
<1>3. sessions' = (sessions \ {s}) \cup {t}
  OBVIOUS
<1> HIDE DEF t
<1>4. IsFiniteSet(sessions) /\ Cardinality(sessions) <= MaxSessions
  BY DEF SessionsInv
<1>5. /\ IsFiniteSet(sessions') /\ Cardinality(sessions) \in Nat /\ Cardinality(sessions') \in Nat
      /\ Cardinality(sessions') <= Cardinality(sessions)
  <2>1. /\ IsFiniteSet((sessions \ {s}) \cup {t})
        /\ Cardinality(sessions) \in Nat /\ Cardinality((sessions \ {s}) \cup {t}) \in Nat
        /\ Cardinality((sessions \ {s}) \cup {t}) <= Cardinality(sessions)
    BY ONLY <1>4, s \in sessions, Exchanged
  <2> QED BY <1>3, <2>1, Zenon
<1>6. sessions' \subseteq Session /\ RightPlace'
  BY <1>2, <1>3 DEF SessionsInv, RightPlace
<1> QED BY <1>4, <1>5, <1>6 DEF SessionsInv, QuitLeavesNothing

LEMMA QuitSound ==
  ASSUME SessionsInv, Quit
  PROVE  SessionsInv'
BY FS_EmptySet DEF SessionsInv, Quit, RightPlace, QuitLeavesNothing

LEMMA SameDesktops ==
  ASSUME SessionsInv, UNCHANGED <<sessions, quitting>>
  PROVE  SessionsInv'
BY DEF SessionsInv, RightPlace, QuitLeavesNothing
-----------------------------------------------------------------------------
(* Connecting.                                                             *)

(* What the file and the launcher hold after a save; nothing moves when no *)
(* other launcher took part and the computer stays where it is.            *)
LEMMA SavesSound ==
  ASSUME LibraryInv, Accounted, NEW p \in Profiles, NEW place \in Places, Saves(p, place)
  PROVE  /\ library' \in [Profiles -> Places \cup {None}] /\ disk' = library'
         /\ library'[p] = place
         /\ edits = 0 => \A q \in Profiles \ {p} : library'[q] = library[q]
BY DEF LibraryInv, Accounted, Saves

LEMMA ConnectKeeps ==
  ASSUME IInv, NEW p \in Profiles, Connect(p)
  PROVE  IInv' /\ StoreStep
<1>1. KeyringInv /\ LibraryInv /\ DialogsInv /\ SessionsInv /\ Accounted
  BY DEF IInv
<1>2. Prompts(p, FALSE, FALSE, library, dialogs, {}) /\ edits' = edits
      /\ UNCHANGED <<library, disk, born, sessions, quitting, refused>>
  BY DEF Connect, User
<1>3. /\ DialogsInv' /\ credential_seq' \in 0 .. MaxTurns
      /\ \E question \in SUBSET Questions : Effect({}, question, replies)
  <2>1. /\ library \in [Profiles -> Places \cup {None}]
        /\ dialogs \in Seq(SoundDialogs) /\ Len(dialogs) <= MaxDialogs /\ Single({})
    BY <1>1 DEF LibraryInv, DialogsInv, Single
  <2> QED BY <1>1, <1>2, <2>1, PromptsKeeps
<1>4. LibraryInv' /\ SessionsInv' /\ (edits = 0 => disk' = library')
  BY <1>1, <1>2, <1>3, SameDesktops DEF LibraryInv, Accounted
<1> QED BY <1>2, <1>3, <1>4, StepKeeps

LEMMA ConnectSavingKeeps ==
  ASSUME IInv, NEW p \in Profiles, ConnectSaving(p)
  PROVE  IInv' /\ StoreStep
<1>1. KeyringInv /\ LibraryInv /\ DialogsInv /\ SessionsInv /\ Accounted
  BY DEF IInv
<1>2. /\ Prompts(p, FALSE, FALSE, library', dialogs, {}) /\ edits' = edits
      /\ UNCHANGED <<born, sessions, quitting, refused>>
      /\ Saves(p, library[p]) /\ library[p] \in Places
  BY <1>1 DEF ConnectSaving, User, LibraryInv
<1>3. /\ library' \in [Profiles -> Places \cup {None}] /\ disk' = library'
      /\ edits = 0 => \A q \in Profiles : library'[q] = library[q]
  BY <1>1, <1>2, SavesSound
<1>4. /\ DialogsInv' /\ credential_seq' \in 0 .. MaxTurns
      /\ \E question \in SUBSET Questions : Effect({}, question, replies)
  <2>1. dialogs \in Seq(SoundDialogs) /\ Len(dialogs) <= MaxDialogs /\ Single({})
    BY <1>1 DEF DialogsInv, Single
  <2> QED BY <1>1, <1>2, <1>3, <2>1, PromptsKeeps
<1>5. LibraryInv' /\ SessionsInv'
  BY <1>1, <1>2, <1>3, <1>4, SameDesktops DEF LibraryInv
<1> QED BY <1>2, <1>3, <1>4, <1>5, StepKeeps

LEMMA SetLayoutKeeps ==
  ASSUME IInv, SetLayout
  PROVE  IInv' /\ StoreStep
<1>1. Effect({}, {}, replies)
  BY NothingAsked DEF IInv, SetLayout
<1>2. LibraryInv' /\ DialogsInv' /\ SessionsInv'
  BY SameDesktops DEF IInv, LibraryInv, DialogsInv, SetLayout, User
<1> QED BY <1>1, <1>2, StepKeeps DEF IInv, Accounted, SetLayout, User
-----------------------------------------------------------------------------
(* The sign-in dialog.                                                     *)

LEMMA PasswordInputKeeps ==
  ASSUME IInv, NEW secret \in Secrets, PasswordInput(secret)
  PROVE  IInv' /\ StoreStep
<1>1. Top \in SignIns
  BY TopSound, Kinds DEF IInv, PasswordInput, TopIs
<1> DEFINE d == [Top EXCEPT !.lookup = None, !.typed = secret]
<1>2. d \in SignIns /\ Sound(d)
  BY <1>1 DEF SignIns, Sound, PasswordInput
<1>3. d \in SoundDialogs
  BY <1>2, NewKinds DEF SoundDialogs
<1>4. DialogsInv'
  <2> HIDE DEF d
  <2>1. dialogs' = OnTop(d)
    BY DEF PasswordInput, d
  <2> QED BY <1>3, <2>1, OnTopSound DEF IInv, PasswordInput, TopIs
<1> QED BY <1>4, SameDesktops, QuietKeeps DEF IInv, PasswordInput, User

LEMMA PasswordOptionKeeps ==
  ASSUME IInv, PasswordRemember \/ PasswordFullscreen
  PROVE  IInv' /\ StoreStep
<1>1. Top \in SignIns /\ Sound(Top) /\ dialogs # <<>>
  BY TopSound, Kinds DEF IInv, PasswordRemember, PasswordFullscreen, TopIs, SoundDialogs
<1> DEFINE d == [Top EXCEPT !.lookup = None, !.remember = ~@]
           e == [Top EXCEPT !.lookup = None]
<1>2. d \in SignIns /\ Sound(d) /\ e \in SignIns /\ Sound(e)
  BY <1>1 DEF SignIns, Sound
<1>3. d \in SoundDialogs /\ e \in SoundDialogs
  BY <1>2, NewKinds DEF SoundDialogs
<1>4. DialogsInv'
  <2>1. dialogs' = OnTop(d) \/ dialogs' = OnTop(e)
    BY DEF PasswordRemember, PasswordFullscreen
  <2> HIDE DEF d, e
  <2> QED BY <1>1, <1>3, <2>1, OnTopSound DEF IInv
<1> QED BY <1>4, SameDesktops, QuietKeeps DEF IInv, PasswordRemember, PasswordFullscreen, User

(* The dialog is submitted: a desktop starts with what was typed into it,  *)
(* and the keyring is asked to keep that.                                  *)
LEMMA PasswordSubmitKeeps ==
  ASSUME IInv, PasswordSubmit
  PROVE  IInv' /\ StoreStep
<1>1. KeyringInv /\ LibraryInv /\ DialogsInv /\ SessionsInv /\ RefusedInv /\ Accounted
  BY DEF IInv
<1>2. ~quitting /\ UNCHANGED <<library, disk, credential_seq, born, quitting, edits>>
  BY DEF PasswordSubmit, User
<1>3. PICK n \in DOMAIN dialogs : dialogs[n].is = "password" /\ Submitted(n)
  BY DEF PasswordSubmit
<1> DEFINE form == dialogs[n]
           Kept == IF form.remember THEN {Set(form.key, form.typed)} ELSE {}
<1>4. form \in SignIns /\ Sound(form)
  BY <1>1, <1>3, Kinds DEF DialogsInv, SoundDialogs
<1>5. DialogsInv'
  BY <1>1, <1>3, RemovedSound DEF Submitted, DialogsInv
<1>6. CASE AsksNothing /\ UNCHANGED <<sessions, refused>>
  BY <1>2, <1>1, <1>5, <1>6, SameDesktops, QuietKeeps
<1>7. CASE /\ Current(form.key) /\ form.typed # None
           /\ Starts(Here(form.key), form.typed, form.remember)
           /\ Asks(Kept, {}, replies)
           /\ refused' = refused \ {form.typed}
  <2>1. /\ form.key \in Credentials /\ form.typed \in Secrets /\ form.remember \in BOOLEAN
        /\ Intended[form.typed] = form.key /\ form.is = "password"
    BY <1>3, <1>4, <1>7 DEF SignIns, Sound
  <2>2. Here(form.key) = form.key
    BY <1>7, <2>1 DEF Here, Current, Key, Credentials
  <2>3. SessionsInv'
    <3> HIDE DEF form
    <3> QED BY <1>1, <1>2, <1>7, <2>1, <2>2, StartsSound
  <2>4. Kept \subseteq Changes /\ Single(Kept)
        /\ \A r \in Kept : r.op = "set" /\ r.word = form.typed /\ r.key = form.key
    <3> HIDE DEF form
    <3> QED BY <2>1 DEF Changes, Set, Single
  <2> HIDE DEF Kept
  <2>5. Effect(Kept, {}, replies)
    BY <1>1, <1>7, <2>4, AsksEffect
  <2> HIDE DEF form
  <2>6. KeyringInv'
    BY <1>1, <2>4, <2>5, EffectKeepsKeyring
  <2>7. LibraryInv' /\ (edits = 0 => disk' = library')
    BY <1>1, <1>2 DEF LibraryInv, Accounted
  <2>8. Accounted'
    BY <1>1, <1>2, <2>4, <2>5, <2>7, EffectKeepsAccounted
  <2>9. RefusedInv'
    <3>1. \A key \in Credentials : kept'[key] = kept[key] \/ kept'[key] = form.typed
      BY <2>4, <2>5 DEF Effect
    <3>2. trouble \subseteq trouble'
      BY <2>5 DEF Effect
    <3> QED BY <1>1, <1>7, <3>1, <3>2 DEF RefusedInv, RefusedGone
  <2>10. StoreStep
    BY <2>5 DEF Effect
  <2> QED BY <1>5, <2>3, <2>6, <2>7, <2>8, <2>9, <2>10 DEF IInv
<1> QED BY <1>3, <1>6, <1>7 DEF Submitted
-----------------------------------------------------------------------------
(* Editing computers.                                                      *)

LEMMA OpensKeeps ==
  ASSUME IInv,
         \/ \E place \in Places : NewComputer(place)
         \/ \E p \in Profiles : Edit(p)
  PROVE  IInv' /\ StoreStep
<1>1. KeyringInv /\ LibraryInv /\ DialogsInv /\ SessionsInv /\ Accounted /\ Single({})
  BY DEF IInv, Single
<1>2. PICK p \in Profiles \cup {None}, place \in Places :
        OpensForm(p, FALSE, place, library, dialogs, {})
  BY <1>1 DEF NewComputer, Edit, LibraryInv
<1>3. UNCHANGED <<library, disk, born, sessions, quitting, refused, edits>>
  BY DEF NewComputer, Edit, User
<1>4. /\ DialogsInv' /\ credential_seq' \in 0 .. MaxTurns
      /\ \E question \in SUBSET Questions : Effect({}, question, replies)
  BY <1>1, <1>2, OpensFormKeeps DEF DialogsInv
<1>5. LibraryInv' /\ SessionsInv' /\ (edits = 0 => disk' = library')
  BY <1>1, <1>3, <1>4, SameDesktops DEF LibraryInv, Accounted
<1> QED BY <1>3, <1>4, <1>5, StepKeeps

LEMMA FormCredentialsKeeps ==
  ASSUME IInv, NEW place \in Places, FormCredentials(place)
  PROVE  IInv' /\ StoreStep
<1>1. KeyringInv /\ LibraryInv /\ DialogsInv /\ SessionsInv /\ Accounted /\ Single({})
  BY DEF IInv, Single
<1>2. Top \in Forms /\ dialogs # <<>>
  BY <1>1, TopSound, Kinds DEF FormCredentials, TopIs
<1>3. NextTicket \in Tickets /\ credential_seq' \in 0 .. MaxTurns
  BY <1>1, TicketGiven DEF FormCredentials
<1>4. Form(Top.editing, Top.connect, place) \in SoundDialogs
  BY <1>2, <1>3, NewKinds DEF Form, Forms
<1>5. DialogsInv'
  BY <1>1, <1>2, <1>4, OnTopSound DEF FormCredentials
<1> DEFINE question == IF Top.editing # None /\ library[Top.editing] = place
                       THEN {Has(Key(Top.editing, place), NextTicket)} ELSE {}
<1>6. question \in SUBSET Questions
  BY <1>2, <1>3 DEF Has, Key, Questions, Credentials, Forms
<1>7. Asks({}, question, replies)
  BY DEF FormCredentials
<1> HIDE DEF question
<1>8. Effect({}, question, replies)
  BY <1>1, <1>6, <1>7, AsksEffect
<1>9. UNCHANGED <<library, disk, born, sessions, quitting, refused, edits>>
  BY DEF FormCredentials, User
<1>10. LibraryInv' /\ SessionsInv' /\ (edits = 0 => disk' = library')
  BY <1>1, <1>3, <1>9, SameDesktops DEF LibraryInv, Accounted
<1> QED BY <1>5, <1>6, <1>8, <1>9, <1>10, StepKeeps

LEMMA FormForgetKeeps ==
  ASSUME IInv, FormForget
  PROVE  IInv' /\ StoreStep
<1>1. KeyringInv /\ LibraryInv /\ DialogsInv /\ SessionsInv /\ Accounted
  BY DEF IInv
<1>2. Top \in Forms /\ dialogs # <<>> /\ Top.editing \in Profiles
  BY <1>1, TopSound, Kinds DEF FormForget, TopIs, Forms
<1>3. NextTicket \in Tickets /\ credential_seq' \in 0 .. MaxTurns
  BY <1>1, TicketGiven DEF FormForget
<1> DEFINE d == [Top EXCEPT !.request = NextTicket]
<1>4. d \in SoundDialogs
  BY <1>2, <1>3, NewKinds DEF Forms
<1>5. DialogsInv'
  <2>1. dialogs' = OnTop(d)
    BY DEF FormForget
  <2> HIDE DEF d
  <2> QED BY <1>1, <1>2, <1>4, <2>1, OnTopSound
<1> DEFINE change == {Delete(Key(Top.editing, Top.place), NextTicket)}
<1>6. change \in SUBSET Changes /\ Single(change) /\ \A r \in change : r.op = "delete"
  BY <1>2, <1>3 DEF Delete, Key, Changes, Credentials, Single, Forms
<1>7. Asks(change, {}, replies)
  BY DEF FormForget
<1> HIDE DEF change
<1>8. Effect(change, {}, replies)
  BY <1>1, <1>6, <1>7, AsksEffect
<1>9. UNCHANGED <<library, disk, born, sessions, quitting, refused, edits>>
  BY DEF FormForget, User
<1>10. LibraryInv' /\ SessionsInv' /\ (edits = 0 => disk' = library')
  BY <1>1, <1>3, <1>9, SameDesktops DEF LibraryInv, Accounted
<1> QED BY <1>5, <1>6, <1>8, <1>9, <1>10, StepKeeps

LEMMA FormRemoveKeeps ==
  ASSUME IInv, FormRemove
  PROVE  IInv' /\ StoreStep
<1>1. Top \in Forms /\ dialogs # <<>>
  BY TopSound, Kinds DEF IInv, FormRemove, TopIs
<1> DEFINE d == [is |-> "remove", profile |-> Top.editing]
<1>2. d \in SoundDialogs
  BY <1>1, NewKinds DEF FormRemove, Removals, Forms
<1>3. DialogsInv'
  <2>1. dialogs' = OnTop(d)
    BY DEF FormRemove
  <2> HIDE DEF d
  <2> QED BY <1>1, <1>2, <2>1, OnTopSound DEF IInv
<1> QED BY <1>3, SameDesktops, QuietKeeps DEF IInv, FormRemove, User

(* The password of the place a computer leaves.                            *)
LEMMA MovedSound ==
  ASSUME LibraryInv, NEW p \in Profiles, NEW place
  PROVE  /\ Moved(p, place) \in SUBSET Changes /\ Single(Moved(p, place))
         /\ \A r \in Moved(p, place) : r.op = "delete"
         /\ library[p] \in {None, place} \/ \E r \in Moved(p, place) : r.key = Key(p, library[p])
<1>1. CASE library[p] \in {None, place}
  BY <1>1 DEF Moved, Single
<1>2. CASE library[p] \notin {None, place}
  <2> DEFINE r == Delete(Key(p, library[p]), None)
  <2>1. r \in Changes /\ r.op = "delete" /\ r.key = Key(p, library[p])
    BY <1>2 DEF LibraryInv, Key, Credentials, Delete, Changes
  <2>2. Moved(p, place) = {r}
    BY <1>2 DEF Moved
  <2> HIDE DEF r
  <2> QED BY <2>1, <2>2 DEF Single
<1> QED BY <1>1, <1>2

LEMMA FormSaveKeeps ==
  ASSUME IInv, NEW p \in Profiles, FormSave(p)
  PROVE  IInv' /\ StoreStep
<1>1. KeyringInv /\ LibraryInv /\ DialogsInv /\ SessionsInv /\ Accounted
  BY DEF IInv
<1>2. Top \in Forms /\ dialogs # <<>> /\ Top.place \in Places
  BY <1>1, TopSound, Kinds DEF FormSave, TopIs, Forms
<1>3. /\ library' \in [Profiles -> Places \cup {None}] /\ disk' = library'
      /\ library'[p] = Top.place
      /\ edits = 0 => \A q \in Profiles \ {p} : library'[q] = library[q]
  BY <1>1, <1>2, SavesSound DEF FormSave
<1> DEFINE change == Moved(p, Top.place)
<1>4. /\ change \in SUBSET Changes /\ Single(change) /\ \A r \in change : r.op = "delete"
      /\ library[p] \in {None, Top.place} \/ \E r \in change : r.key = Key(p, library[p])
  BY <1>1, MovedSound
<1>5. \/ Prompts(p, FALSE, FALSE, library', Front(dialogs), change)
      \/ dialogs' = Front(dialogs) /\ Asks(change, {}, replies) /\ UNCHANGED credential_seq
  BY DEF FormSave
<1> HIDE DEF change
<1>6. /\ DialogsInv' /\ credential_seq' \in 0 .. MaxTurns
      /\ \E question \in SUBSET Questions : Effect(change, question, replies)
  <2>1. Front(dialogs) \in Seq(SoundDialogs) /\ Len(Front(dialogs)) <= MaxDialogs
    BY <1>1, <1>2, FrontSound
  <2>2. CASE Prompts(p, FALSE, FALSE, library', Front(dialogs), change)
    BY <1>1, <1>3, <1>4, <2>1, <2>2, PromptsKeeps
  <2>3. CASE dialogs' = Front(dialogs) /\ Asks(change, {}, replies) /\ UNCHANGED credential_seq
    BY <1>1, <1>4, <2>1, <2>3, AsksEffect DEF DialogsInv, LibraryInv
  <2> QED BY <1>5, <2>2, <2>3
<1>7. UNCHANGED <<sessions, quitting, refused, edits>> /\ born' = born \cup {p}
  BY DEF FormSave, User
<1>8. LibraryInv' /\ SessionsInv'
  BY <1>1, <1>3, <1>6, <1>7, SameDesktops DEF LibraryInv
<1>9. edits = 0 => \A q \in Profiles :
        \/ library'[q] = library[q] \/ library[q] = None
        \/ \E r \in change : r.op = "delete" /\ r.key = Key(q, library[q])
  BY <1>3, <1>4
<1> QED BY <1>3, <1>4, <1>6, <1>7, <1>8, <1>9, StepKeeps

LEMMA ConfirmRemoveKeeps ==
  ASSUME IInv, ConfirmRemove
  PROVE  IInv' /\ StoreStep
<1>1. KeyringInv /\ LibraryInv /\ DialogsInv /\ SessionsInv /\ Accounted
  BY DEF IInv
<1> DEFINE p == Top.profile
           change == Moved(p, None)
<1>2. p \in Profiles /\ dialogs # <<>>
  BY <1>1, TopSound, Kinds DEF ConfirmRemove, TopIs, Removals
<1>3. DialogsInv' /\ SessionsInv'
  BY <1>1, <1>2, FrontSound, SameDesktops DEF ConfirmRemove, DialogsInv
<1>4. UNCHANGED <<credential_seq, born, refused, edits>>
  BY DEF ConfirmRemove, User
<1>5. CASE AsksNothing /\ UNCHANGED <<library, disk>>
  BY <1>3, <1>4, <1>5, QuietKeeps
<1>6. CASE /\ disk' = [disk EXCEPT ![p] = None]
           /\ library' = disk'
           /\ Asks(change, {}, replies)
  <2>1. /\ change \in SUBSET Changes /\ Single(change) /\ \A r \in change : r.op = "delete"
        /\ library[p] = None \/ \E r \in change : r.key = Key(p, library[p])
    <3> HIDE DEF p
    <3> QED BY <1>1, <1>2, MovedSound
  <2> HIDE DEF change
  <2>2. Effect(change, {}, replies)
    BY <1>1, <1>6, <2>1, AsksEffect
  <2>3. /\ library' \in [Profiles -> Places \cup {None}] /\ disk' = library'
        /\ edits = 0 => \A q \in Profiles \ {p} : library'[q] = library[q]
    BY <1>1, <1>2, <1>6 DEF LibraryInv, Accounted
  <2>4. LibraryInv'
    BY <1>1, <1>4, <2>3 DEF LibraryInv
  <2> HIDE DEF p
  <2>5. edits = 0 => \A q \in Profiles :
          \/ library'[q] = library[q] \/ library[q] = None
          \/ \E r \in change : r.op = "delete" /\ r.key = Key(q, library[q])
    BY <2>1, <2>3
  <2> QED BY <1>3, <1>4, <2>1, <2>2, <2>3, <2>4, <2>5, StepKeeps
<1>7. change = IF library[p] # None THEN {Delete(Key(p, library[p]), None)} ELSE {}
  BY DEF Moved
<1> HIDE DEF change
<1> QED BY <1>5, <1>6, <1>7 DEF ConfirmRemove

LEMMA CloseDialogKeeps ==
  ASSUME IInv, CloseDialog
  PROVE  IInv' /\ StoreStep
<1>1. DialogsInv'
  BY FrontSound DEF IInv, CloseDialog, DialogsInv
<1> QED BY <1>1, SameDesktops, QuietKeeps DEF IInv, CloseDialog, User
-----------------------------------------------------------------------------
(* Quitting.                                                               *)

LEMMA CloseRequestedKeeps ==
  ASSUME IInv, CloseRequested
  PROVE  IInv' /\ StoreStep
<1>1. DialogsInv /\ SessionsInv
  BY DEF IInv
<1>2. CASE Quit /\ UNCHANGED dialogs
  BY <1>1, <1>2, QuitSound, QuietKeeps DEF DialogsInv, CloseRequested, User
<1>3. CASE /\ Len(dialogs) < MaxDialogs /\ dialogs' = Append(dialogs, [is |-> "quit"])
           /\ UNCHANGED <<quitting, sessions>>
  <2>1. [is |-> "quit"] \in SoundDialogs
    BY NewKinds DEF Quits
  <2>2. DialogsInv'
    BY <1>1, <1>3, <2>1, AppendSound DEF DialogsInv
  <2> QED BY <1>1, <1>3, <2>2, SameDesktops, QuietKeeps DEF CloseRequested, User
<1> QED BY <1>2, <1>3 DEF CloseRequested

LEMMA ConfirmQuitKeeps ==
  ASSUME IInv, ConfirmQuit
  PROVE  IInv' /\ StoreStep
<1>1. DialogsInv' /\ SessionsInv'
  BY FrontSound, QuitSound DEF IInv, ConfirmQuit, DialogsInv, TopIs
<1> QED BY <1>1, QuietKeeps DEF ConfirmQuit, User
-----------------------------------------------------------------------------
(* What the desktops report.                                               *)

LEMMA ConnectedKeeps ==
  ASSUME IInv, NEW s \in sessions, Connected(s)
  PROVE  IInv' /\ StoreStep
<1>1. KeyringInv /\ LibraryInv /\ DialogsInv /\ SessionsInv /\ Accounted
  BY DEF IInv
<1>2. UNCHANGED <<credential_seq, born, dialogs, quitting, refused, edits>> /\ AsksNothing /\ ~quitting
  BY DEF Connected, User
<1>3. DialogsInv' /\ SessionsInv'
  BY <1>1, <1>2, StampSound DEF Connected, DialogsInv
<1>4. CASE UNCHANGED <<library, disk>>
  BY <1>2, <1>3, <1>4, QuietKeeps
<1>5. CASE library[s.key.profile] # None /\ Saves(s.key.profile, library[s.key.profile])
  <2> DEFINE p == s.key.profile
  <2>1. p \in Profiles /\ library[p] \in Places
    BY <1>1, <1>5 DEF SessionsInv, Session, Credentials, LibraryInv
  <2>2. /\ library' \in [Profiles -> Places \cup {None}] /\ disk' = library'
        /\ edits = 0 => \A q \in Profiles : library'[q] = library[q]
    <3> HIDE DEF p
    <3>1. Saves(p, library[p])
      BY <1>5 DEF p
    <3> QED BY <1>1, <2>1, <3>1, SavesSound
  <2>3. LibraryInv' /\ Effect({}, {}, replies)
    BY <1>1, <1>2, <2>2, NothingAsked DEF LibraryInv
  <2> QED BY <1>2, <1>3, <2>2, <2>3, StepKeeps
<1> QED BY <1>4, <1>5 DEF Connected

LEMMA SessionEndsKeeps ==
  ASSUME IInv, NEW s \in sessions, SessionEnds(s)
  PROVE  IInv' /\ StoreStep
<1>1. DialogsInv' /\ SessionsInv'
  BY EndsSound DEF IInv, SessionEnds, DialogsInv
<1> QED BY <1>1, QuietKeeps DEF SessionEnds, User

(* The refused password was for the computer, address and account it was   *)
(* sent to, so that the item deleted is the one that holds it.             *)
LEMMA SignInRefusedKeeps ==
  ASSUME IInv, NEW s \in sessions, SignInRefused(s)
  PROVE  IInv' /\ StoreStep
<1>1. KeyringInv /\ LibraryInv /\ DialogsInv /\ SessionsInv /\ RefusedInv /\ Accounted
  BY DEF IInv
<1>2. /\ UNCHANGED <<library, disk, born, quitting, edits>>
      /\ sessions' = sessions \ {s} /\ refused' = refused \cup {s.secret} /\ Refusal(s)
  BY DEF SignInRefused, User
<1>3. s.key \in Credentials /\ s.secret \in Secrets /\ Intended[s.secret] = s.key /\ s.remembered \in BOOLEAN
  BY <1>1 DEF SessionsInv, Session, RightPlace
<1> DEFINE change == {Delete(s.key, None)}
<1>4. change \in SUBSET Changes /\ Single(change)
      /\ \A r \in change : r.op = "delete" /\ r.key = s.key /\ r.word = None
  BY <1>3 DEF Delete, Changes, Single
<1>5. change # {}
  OBVIOUS
<1>6. \/ Prompts(s.key.profile, TRUE, s.remembered, library, dialogs, change)
      \/ Asks(change, {}, replies) /\ UNCHANGED <<dialogs, credential_seq>>
  BY <1>2 DEF Refusal
<1> HIDE DEF change
<1>7. /\ DialogsInv' /\ credential_seq' \in 0 .. MaxTurns
      /\ \E question \in SUBSET Questions : Effect(change, question, replies)
  <2>1. /\ s.key.profile \in Profiles /\ library \in [Profiles -> Places \cup {None}]
        /\ dialogs \in Seq(SoundDialogs) /\ Len(dialogs) <= MaxDialogs
    BY <1>1, <1>3 DEF Credentials, LibraryInv, DialogsInv
  <2>2. CASE Prompts(s.key.profile, TRUE, s.remembered, library, dialogs, change)
    BY <1>1, <1>3, <1>4, <2>1, <2>2, PromptsKeeps
  <2>3. CASE Asks(change, {}, replies) /\ UNCHANGED <<dialogs, credential_seq>>
    BY <1>1, <1>4, <2>3, AsksEffect DEF DialogsInv, LibraryInv
  <2> QED BY <1>6, <2>2, <2>3
<1>8. PICK question \in SUBSET Questions : Effect(change, question, replies)
  BY <1>7
<1>9. LibraryInv' /\ SessionsInv' /\ (edits = 0 => disk' = library')
  BY <1>1, <1>2, <1>7, EndsSound DEF LibraryInv, Accounted
<1>10. KeyringInv'
  BY <1>1, <1>4, <1>8, EffectKeepsKeyring
<1>11. Accounted'
  BY <1>1, <1>2, <1>4, <1>8, <1>9, EffectKeepsAccounted
<1>12. RefusedInv'
  <2>1. /\ trouble \subseteq trouble'
        /\ s.key \in trouble' \/ kept'[s.key] = None
        /\ \A key \in Credentials : kept'[key] \in {kept[key], None}
    BY <1>4, <1>5, <1>8 DEF Effect
  <2>2. None \notin refused'
    BY <1>1, <1>2, <1>3 DEF RefusedInv
  <2>3. ASSUME NEW key \in Credentials, key \notin trouble', kept'[key] \in refused'
        PROVE  FALSE
    <3>1. kept'[key] = kept[key] /\ kept[key] # None
      BY <2>1, <2>2, <2>3
    <3>2. kept[key] = s.secret
      BY <1>1, <1>2, <2>1, <2>3, <3>1 DEF RefusedInv, RefusedGone
    <3>3. key = s.key
      BY <1>1, <1>3, <3>1, <3>2 DEF KeyringInv
    <3> QED BY <2>1, <2>3, <3>1, <3>3
  <2> QED BY <1>1, <1>2, <1>3, <2>3 DEF RefusedInv, RefusedGone
<1>13. StoreStep
  BY <1>8 DEF Effect
<1> QED BY <1>7, <1>9, <1>10, <1>11, <1>12, <1>13 DEF IInv
-----------------------------------------------------------------------------
(* Replies.                                                                *)

(* A reply that asks for nothing, and announced nothing still awaited.     *)
LEMMA ReplyKeeps ==
  ASSUME IInv, NEW r \in replies, NEW op, Delivered(r, op), Asks({}, {}, replies \ {r}),
         op # "set" \/ r.result # Done \/ Current(r.key),
         DialogsInv', SessionsInv'
  PROVE  IInv' /\ StoreStep
<1>1. KeyringInv /\ LibraryInv /\ Accounted /\ Single({}) /\ replies \ {r} \in SUBSET replies
  BY DEF IInv, Single
<1>2. Effect({}, {}, replies \ {r})
  BY <1>1, AsksEffect
<1>3. LibraryInv' /\ (edits = 0 => disk' = library')
  <2>1. UNCHANGED <<disk, library, credential_seq, born, edits>>
    BY DEF Delivered
  <2> QED BY <1>1, <2>1 DEF LibraryInv, Accounted
<1>4. \A a \in replies \ (replies \ {r}) : a.op = "set" /\ a.result = Done =>
        library'[a.key.profile] = a.key.place
  BY DEF Delivered, Current
<1> QED BY <1>1, <1>2, <1>3, <1>4, StepKeeps DEF Delivered

(* The password that starts a desktop came from the item of the computer   *)
(* that the dialog names, and the computer is still there.                 *)
LEMMA PasswordLoadedKeeps ==
  ASSUME IInv, NEW r \in replies, PasswordLoaded(r)
  PROVE  IInv' /\ StoreStep
<1>1. KeyringInv /\ DialogsInv /\ SessionsInv
  BY DEF IInv
<1>2. Delivered(r, "get") /\ quitting' = quitting /\ r.op = "get" /\ Asks({}, {}, replies \ {r})
  BY DEF PasswordLoaded, Delivered
<1>3. r.key \in Credentials /\ (r.result \in Secrets => Intended[r.result] = r.key)
  BY <1>1, <1>2 DEF KeyringInv, Reply
<1>4. DialogsInv' /\ SessionsInv'
  <2>1. CASE UNCHANGED <<dialogs, sessions>>
    BY <1>1, <1>2, <2>1, SameDesktops DEF DialogsInv
  <2>2. ASSUME NEW n \in DOMAIN dialogs, Awaits(dialogs[n], r), MayStart(n, r),
               dialogs' = RemoveAt(dialogs, n), Starts(Here(r.key), r.result, TRUE) \/ UNCHANGED sessions
        PROVE  DialogsInv' /\ SessionsInv'
    <3>1. DialogsInv'
      BY <1>1, <2>2, RemovedSound DEF DialogsInv
    <3>2. Here(r.key) = r.key /\ r.result \in Secrets /\ ~quitting
      BY <1>3, <2>2 DEF MayStart, Here, Current, Key, Credentials
    <3>3. SessionsInv'
      BY <1>1, <1>2, <1>3, <2>2, <3>2, StartsSound, SameDesktops
    <3> QED BY <3>1, <3>3
  <2>3. ASSUME NEW n \in DOMAIN dialogs, Awaits(dialogs[n], r), Answered(n, r)
        PROVE  DialogsInv' /\ SessionsInv'
    <3>1. dialogs[n] \in SignIns /\ Sound(dialogs[n])
      BY <1>1, <2>3, Kinds DEF Awaits, DialogsInv, SoundDialogs
    <3> DEFINE d == [dialogs[n] EXCEPT !.lookup = None]
    <3>2. d \in SignIns /\ Sound(d)
      BY <3>1 DEF SignIns, Sound
    <3>3. d \in SoundDialogs
      BY <3>2, NewKinds DEF SoundDialogs
    <3>4. dialogs' = [dialogs EXCEPT ![n] = d]
      BY <2>3 DEF Answered
    <3> HIDE DEF d
    <3>5. DialogsInv'
      BY <1>1, <3>3, <3>4, ExceptSeq DEF DialogsInv
    <3> QED BY <1>1, <1>2, <2>3, <3>5, SameDesktops DEF Answered
  <2> QED BY <2>1, <2>2, <2>3 DEF PasswordLoaded
<1> QED BY <1>2, <1>4, ReplyKeeps

LEMMA FormAnsweredKeeps ==
  ASSUME IInv, NEW r \in replies, PasswordPresence(r) \/ PasswordForgotten(r)
  PROVE  IInv' /\ StoreStep
<1>1. DialogsInv /\ SessionsInv
  BY DEF IInv
<1>2. PICK op \in {"has", "delete"} : Delivered(r, op)
  BY DEF PasswordPresence, PasswordForgotten
<1>3. Asks({}, {}, replies \ {r}) /\ UNCHANGED sessions
      /\ (dialogs' = dialogs \/ \E saved \in BOOLEAN : Shows(r) /\ dialogs' = OnTop([Top EXCEPT !.saved = saved]))
  BY DEF PasswordPresence, PasswordForgotten
<1>4. DialogsInv'
  <2>1. ASSUME NEW saved \in BOOLEAN, Shows(r), dialogs' = OnTop([Top EXCEPT !.saved = saved])
        PROVE  DialogsInv'
    <3>1. Top \in Forms /\ dialogs # <<>>
      BY <1>1, <2>1, TopSound, Kinds DEF Shows, TopIs
    <3> DEFINE d == [Top EXCEPT !.saved = saved]
    <3>2. d \in SoundDialogs
      BY <3>1, NewKinds DEF Forms
    <3> HIDE DEF d
    <3>3. dialogs' = OnTop(d)
      BY <2>1 DEF d
    <3> QED BY <1>1, <3>1, <3>2, <3>3, OnTopSound
  <2> QED BY <1>1, <1>3, <2>1 DEF DialogsInv
<1>5. SessionsInv'
  BY <1>1, <1>2, <1>3, SameDesktops DEF Delivered
<1> QED BY <1>2, <1>3, <1>4, <1>5, ReplyKeeps

LEMMA PasswordStoredKeeps ==
  ASSUME IInv, NEW r \in replies, PasswordStored(r)
  PROVE  IInv' /\ StoreStep
<1>1. KeyringInv /\ LibraryInv /\ DialogsInv /\ SessionsInv /\ Accounted
  BY DEF IInv
<1>2. Delivered(r, "set") /\ UNCHANGED <<dialogs, sessions, quitting>>
  BY DEF PasswordStored, Delivered
<1>3. DialogsInv' /\ SessionsInv'
  BY <1>1, <1>2, SameDesktops DEF DialogsInv
<1>4. CASE ~(r.result = Done /\ ~Current(r.key))
  <2>1. Asks({}, {}, replies \ {r})
    BY <1>4 DEF PasswordStored
  <2> QED BY <1>2, <1>3, <1>4, <2>1, ReplyKeeps
<1>5. CASE r.result = Done /\ ~Current(r.key)
  <2> DEFINE change == {Delete(r.key, None)}
  <2>1. Asks(change, {}, replies \ {r})
    BY <1>5 DEF PasswordStored
  <2>2. /\ change \in SUBSET Changes /\ Single(change)
        /\ \A c \in change : c.op = "delete"
        /\ \E c \in change : c.op = "delete" /\ c.key = r.key
    BY <1>1 DEF Delete, Changes, Single, KeyringInv, Reply
  <2> HIDE DEF change
  <2>3. Effect(change, {}, replies \ {r})
    BY <1>1, <2>1, <2>2, AsksEffect
  <2>4. UNCHANGED <<disk, library, credential_seq, born, edits, refused>>
    BY <1>2 DEF Delivered
  <2>5. LibraryInv' /\ (edits = 0 => disk' = library')
    BY <1>1, <2>4 DEF LibraryInv, Accounted
  <2>6. \A a \in replies \ (replies \ {r}) : \E c \in change : c.op = "delete" /\ c.key = a.key
    <3>1. PICK c \in change : c.op = "delete" /\ c.key = r.key
      BY <2>2
    <3>2. \A a \in replies \ (replies \ {r}) : a = r
      OBVIOUS
    <3>3. \A a \in replies \ (replies \ {r}) : c.op = "delete" /\ c.key = a.key
      BY ONLY <3>1, <3>2
    <3> QED BY ONLY <3>3, c \in change
  <2> QED BY <1>3, <2>2, <2>3, <2>4, <2>5, <2>6, StepKeeps
<1> QED BY <1>4, <1>5
-----------------------------------------------------------------------------
(* Another launcher: the file, and items of the keyring, change.           *)

LEMMA OtherLauncherKeeps ==
  ASSUME IInv, NEW p \in Profiles, NEW place \in Places \cup {None}, OtherLauncher(p, place)
  PROVE  IInv' /\ StoreStep
<1>1. KeyringInv /\ LibraryInv /\ DialogsInv /\ SessionsInv /\ RefusedInv
  BY DEF IInv
<1>2. UNCHANGED <<legacy, trouble, replies, library, born, credential_seq, dialogs, sessions, quitting, refused>>
  BY DEF OtherLauncher
<1>3. /\ kept' \in [Credentials -> Secrets \cup {None}]
      /\ \A key \in Credentials : kept'[key] \in {kept[key], None}
  BY <1>1 DEF OtherLauncher, KeyringInv
<1>4. disk' \in [Profiles -> Places \cup {None}] /\ edits' \in 0 .. MaxTurns /\ edits' # 0
  BY <1>1 DEF OtherLauncher, LibraryInv
<1>5. KeyringInv'
  BY <1>1, <1>2, <1>3 DEF KeyringInv
<1>6. LibraryInv' /\ DialogsInv' /\ SessionsInv' /\ Accounted'
  BY <1>1, <1>2, <1>4, SameDesktops DEF LibraryInv, DialogsInv, Accounted
<1>7. RefusedInv'
  BY <1>1, <1>2, <1>3 DEF RefusedInv, RefusedGone
<1>8. StoreStep
  BY <1>1 DEF OtherLauncher, LibraryInv, StoreStep
<1> QED BY <1>5, <1>6, <1>7, <1>8 DEF IInv

LEMMA StutterKeeps ==
  ASSUME IInv, UNCHANGED vars
  PROVE  IInv' /\ StoreStep
<1>1. AsksNothing /\ UNCHANGED <<library, disk, credential_seq, born, edits, refused, dialogs, sessions, quitting>>
  BY DEF vars, AsksNothing, storeVars
<1> QED BY <1>1, SameDesktops, QuietKeeps DEF IInv, DialogsInv
-----------------------------------------------------------------------------
LEMMA InitEstablishes == Init => IInv
<1> SUFFICES ASSUME Init PROVE IInv
  OBVIOUS
<1>1. kept \in [Credentials -> Secrets \cup {None}] /\ legacy \in SUBSET Profiles /\ trouble = {}
  BY DEF Init, Store!Init, Credentials, Store!Credentials
<1>2. KeyringInv
  BY <1>1 DEF Init, KeyringInv
<1>3. LibraryInv
  BY DEF Init, LibraryInv
<1>4. DialogsInv
  BY EmptySeq DEF Init, DialogsInv
<1>5. SessionsInv
  <2>1. sessions = {} /\ IsFiniteSet({}) /\ Cardinality({}) = 0 /\ quitting = FALSE
    BY FS_EmptySet DEF Init
  <2>2. IsFiniteSet(sessions) /\ Cardinality(sessions) <= MaxSessions
    BY <2>1
  <2> QED BY <2>1, <2>2 DEF SessionsInv, RightPlace, QuitLeavesNothing
<1>6. RefusedInv /\ Accounted
  BY <1>1 DEF Init, RefusedInv, RefusedGone, Accounted
<1> QED BY <1>2, <1>3, <1>4, <1>5, <1>6 DEF IInv

LEMMA NextKeeps == IInv /\ [Next]_vars => IInv' /\ StoreStep
<1> SUFFICES ASSUME IInv, [Next]_vars PROVE IInv' /\ StoreStep
  OBVIOUS
<1>1. CASE \E p \in Profiles : Connect(p) \/ ConnectSaving(p) \/ Edit(p) \/ FormSave(p)
  BY <1>1, ConnectKeeps, ConnectSavingKeeps, OpensKeeps, FormSaveKeeps
<1>2. CASE \E place \in Places : NewComputer(place) \/ FormCredentials(place)
  BY <1>2, OpensKeeps, FormCredentialsKeeps
<1>3. CASE \E secret \in Secrets : PasswordInput(secret)
  BY <1>3, PasswordInputKeeps
<1>4. CASE SetLayout \/ PasswordRemember \/ PasswordFullscreen \/ PasswordSubmit
  BY <1>4, SetLayoutKeeps, PasswordOptionKeeps, PasswordSubmitKeeps
<1>5. CASE FormForget \/ FormRemove \/ ConfirmRemove
  BY <1>5, FormForgetKeeps, FormRemoveKeeps, ConfirmRemoveKeeps
<1>6. CASE CloseDialog \/ CloseRequested \/ ConfirmQuit
  BY <1>6, CloseDialogKeeps, CloseRequestedKeeps, ConfirmQuitKeeps
<1>7. CASE \E s \in sessions : Connected(s) \/ SignInRefused(s) \/ SessionEnds(s)
  BY <1>7, ConnectedKeeps, SignInRefusedKeeps, SessionEndsKeeps
<1>8. CASE \E r \in replies :
             PasswordLoaded(r) \/ PasswordPresence(r) \/ PasswordStored(r) \/ PasswordForgotten(r)
  BY <1>8, PasswordLoadedKeeps, FormAnsweredKeeps, PasswordStoredKeeps
<1>9. CASE \E p \in Profiles, place \in Places \cup {None} : OtherLauncher(p, place)
  BY <1>9, OtherLauncherKeeps
<1>10. CASE UNCHANGED vars
  BY <1>10, StutterKeeps
<1> QED BY <1>1, <1>2, <1>3, <1>4, <1>5, <1>6, <1>7, <1>8, <1>9, <1>10 DEF Next
-----------------------------------------------------------------------------
(* What every password in the keyring, in an answer, in a dialog and with  *)
(* a desktop is for, and who is to be told of it.                          *)
THEOREM Invariance == Spec => []IInv
BY InitEstablishes, NextKeeps, PTL DEF Spec

(* Type correctness: also no more dialogs and desktops than there may be,  *)
(* and numbers for every request.                                          *)
THEOREM TypeCorrect == Spec => []TypeOK
<1>1. IInv => TypeOK
  <2>1. ASSUME DialogsInv PROVE dialogs \in Seq(Dialog)
    <3>1. SoundDialogs \subseteq Dialog
      BY DEF SoundDialogs
    <3> QED BY <2>1, <3>1, SeqMonotonic DEF DialogsInv
  <2> QED BY <2>1 DEF IInv, TypeOK, KeyringInv, LibraryInv, DialogsInv, SessionsInv, RefusedInv
<1> QED BY <1>1, Invariance, PTL

(* A password is sent only to the computer, address and account it is for, *)
(* whoever moves the computer while the keyring is asked or a dialog open. *)
THEOREM RightPlaceHolds == Spec => []RightPlace
<1>1. IInv => RightPlace
  BY DEF IInv, SessionsInv
<1> QED BY <1>1, Invariance, PTL

(* A password that Windows refused is not in the keyring, unless the       *)
(* keyring failed to change it, or it was typed again.                     *)
THEOREM RefusedGoneHolds == Spec => []RefusedGone
<1>1. IInv => RefusedGone
  BY DEF IInv, RefusedInv
<1> QED BY <1>1, Invariance, PTL

(* No desktop is left, and none started, once the launcher quits.          *)
THEOREM QuitLeavesNothingHolds == Spec => []QuitLeavesNothing
<1>1. IInv => QuitLeavesNothing
  BY DEF IInv, SessionsInv
<1> QED BY <1>1, Invariance, PTL

(* The keyring keeps no password the library has no use for.               *)
THEOREM NoOrphanHolds == Spec => []NoOrphan
<1>1. IInv => NoOrphan
  BY DEF IInv, Accounted, NoOrphan, Settled, Announced
<1> QED BY <1>1, Invariance, PTL
-----------------------------------------------------------------------------
(* Replies and the dialogs typed into.                                     *)

LEMMA RequestTakesNone ==
  ASSUME NEW change, NEW question, NEW left, Asks(change, question, left)
  PROVE  left \subseteq replies'
BY DEF Asks

LEMMA PromptsTakesNone ==
  ASSUME NEW p, NEW refusal, NEW remember, NEW lib, NEW under, NEW change,
         Prompts(p, refusal, remember, lib, under, change)
  PROVE  replies \subseteq replies'
BY RequestTakesNone DEF Prompts, OpensForm

(* Only a reply's own handler takes it.                                    *)
LEMMA TakenByHandler ==
  ASSUME Next, replies \ replies' # {}
  PROVE  \E r \in replies : PasswordLoaded(r) \/ PasswordPresence(r) \/ PasswordStored(r) \/ PasswordForgotten(r)
<1> SUFFICES ASSUME ~ \E r \in replies : PasswordLoaded(r) \/ PasswordPresence(r)
                                         \/ PasswordStored(r) \/ PasswordForgotten(r)
             PROVE  replies \subseteq replies'
  OBVIOUS
<1>1. CASE \E p \in Profiles : Connect(p) \/ ConnectSaving(p) \/ Edit(p) \/ FormSave(p)
  BY <1>1, PromptsTakesNone, RequestTakesNone DEF Connect, ConnectSaving, Edit, OpensForm, FormSave
<1>2. CASE \E place \in Places : NewComputer(place) \/ FormCredentials(place)
  BY <1>2, RequestTakesNone DEF NewComputer, OpensForm, FormCredentials
<1>3. CASE \E secret \in Secrets : PasswordInput(secret)
  BY <1>3 DEF PasswordInput, AsksNothing
<1>4. CASE SetLayout \/ PasswordRemember \/ PasswordFullscreen \/ PasswordSubmit
  BY <1>4, RequestTakesNone DEF SetLayout, PasswordRemember, PasswordFullscreen, PasswordSubmit, Submitted, AsksNothing
<1>5. CASE FormForget \/ FormRemove \/ ConfirmRemove
  BY <1>5, RequestTakesNone DEF FormForget, FormRemove, ConfirmRemove, AsksNothing
<1>6. CASE CloseDialog \/ CloseRequested \/ ConfirmQuit
  BY <1>6 DEF CloseDialog, CloseRequested, ConfirmQuit, AsksNothing
<1>7. CASE \E s \in sessions : Connected(s) \/ SignInRefused(s) \/ SessionEnds(s)
  BY <1>7, PromptsTakesNone, RequestTakesNone DEF Connected, SignInRefused, Refusal, SessionEnds, AsksNothing
<1>8. CASE \E p \in Profiles, place \in Places \cup {None} : OtherLauncher(p, place)
  BY <1>8 DEF OtherLauncher
<1> QED BY <1>1, <1>2, <1>3, <1>4, <1>5, <1>6, <1>7, <1>8 DEF Next

(* A dialog that waits for a password, which was not typed into: it may go *)
(* from the top, or stop waiting, and the others stay as they are.         *)
LEMMA LoadedKeepsTyped ==
  ASSUME IInv, NEW r \in replies, PasswordLoaded(r)
  PROVE  TypedIn' = TypedIn
<1>1. dialogs \in Seq(SoundDialogs) /\ r.ticket # None
  BY DEF IInv, DialogsInv, KeyringInv, PasswordLoaded, Delivered
<1>2. CASE UNCHANGED dialogs
  BY <1>2 DEF TypedIn, Typed
<1>3. ASSUME NEW n \in DOMAIN dialogs, Awaits(dialogs[n], r), n = Len(dialogs), dialogs' = RemoveAt(dialogs, n)
      PROVE  TypedIn' = TypedIn
  <2>1. ~Typed(dialogs[n])
    BY <1>1, <1>3 DEF Awaits, Typed, SoundDialogs, Sound
  <2>2. n \in Nat /\ n # 0 /\ DOMAIN dialogs = 1 .. n
    BY <1>1, <1>3
  <2>3. DOMAIN dialogs' = 1 .. n - 1 /\ \A m \in 1 .. n - 1 : dialogs'[m] = dialogs[m]
    <3>1. /\ SubSeq(dialogs, 1, n - 1) \in Seq(SoundDialogs) /\ Len(SubSeq(dialogs, 1, n - 1)) = n - 1
          /\ \A m \in 1 .. n - 1 : SubSeq(dialogs, 1, n - 1)[m] = dialogs[m]
      BY <1>1, <1>3, <2>2
    <3>2. SubSeq(dialogs, n + 1, Len(dialogs)) = <<>>
      BY <1>1, <1>3, <2>2
    <3>3. dialogs' = SubSeq(dialogs, 1, n - 1)
      BY <1>3, <3>1, <3>2, ConcatEmptySeq DEF RemoveAt
    <3> QED BY <3>1, <3>3
  <2>4. {m \in DOMAIN dialogs' : Typed(dialogs'[m])} = {m \in DOMAIN dialogs : Typed(dialogs[m])}
    BY <1>3, <2>1, <2>2, <2>3
  <2> QED BY <2>2, <2>3, <2>4 DEF TypedIn
<1>4. ASSUME NEW n \in DOMAIN dialogs, Awaits(dialogs[n], r), Answered(n, r)
      PROVE  TypedIn' = TypedIn
  <2>1. ~Typed(dialogs[n]) /\ dialogs[n] \in SignIns
    BY <1>1, <1>4, Kinds DEF Awaits, Typed, SoundDialogs, Sound
  <2>2. /\ DOMAIN dialogs' = DOMAIN dialogs /\ \A m \in DOMAIN dialogs \ {n} : dialogs'[m] = dialogs[m]
        /\ dialogs'[n] = [dialogs[n] EXCEPT !.lookup = None]
    BY <1>4 DEF Answered
  <2>3. ~Typed(dialogs'[n])
    BY <2>1, <2>2 DEF Typed, SignIns
  <2>4. {m \in DOMAIN dialogs' : Typed(dialogs'[m])} = {m \in DOMAIN dialogs : Typed(dialogs[m])}
    BY <2>1, <2>2, <2>3
  <2> QED BY <2>1, <2>2, <2>4 DEF TypedIn
<1> QED BY <1>2, <1>3, <1>4 DEF PasswordLoaded, MayStart

LEMMA FormAnsweredKeepsTyped ==
  ASSUME IInv, NEW r \in replies, PasswordPresence(r) \/ PasswordStored(r) \/ PasswordForgotten(r)
  PROVE  TypedIn' = TypedIn
<1>1. CASE UNCHANGED dialogs
  BY <1>1 DEF TypedIn, Typed
<1>2. ASSUME NEW saved \in BOOLEAN, Shows(r), dialogs' = OnTop([Top EXCEPT !.saved = saved])
      PROVE  TypedIn' = TypedIn
  <2>1. Top \in Forms /\ dialogs # <<>> /\ Len(dialogs) \in DOMAIN dialogs
    BY <1>2, TopSound, Kinds DEF IInv, Shows, TopIs
  <2>2. /\ DOMAIN dialogs' = DOMAIN dialogs
        /\ \A m \in DOMAIN dialogs \ {Len(dialogs)} : dialogs'[m] = dialogs[m]
        /\ dialogs'[Len(dialogs)] = [Top EXCEPT !.saved = saved] /\ dialogs[Len(dialogs)] = Top
    BY <1>2, <2>1 DEF OnTop, Top
  <2>3. ~Typed(dialogs'[Len(dialogs)]) /\ ~Typed(dialogs[Len(dialogs)])
    BY <2>1, <2>2 DEF Typed, Forms
  <2>4. {m \in DOMAIN dialogs' : Typed(dialogs'[m])} = {m \in DOMAIN dialogs : Typed(dialogs[m])}
    BY <2>2, <2>3
  <2> QED BY <2>2, <2>3, <2>4 DEF TypedIn
<1> QED BY <1>1, <1>2 DEF PasswordPresence, PasswordStored, PasswordForgotten

(* A reply of the keyring never takes a dialog away that the user has      *)
(* typed a password into, nor changes or moves it.                         *)
THEOREM TypedStaysHolds == Spec => TypedStays
<1>1. IInv /\ [Next]_vars => [replies \ replies' # {} => TypedIn' = TypedIn]_vars
  BY TakenByHandler, LoadedKeepsTyped, FormAnsweredKeepsTyped
<1> QED BY <1>1, Invariance, PTL DEF Spec, TypedStays

(* What the launcher does to the keyring is what PasswordStore allows, and *)
(* Keyring is proved to give: passwords change as asked, one at a time, or *)
(* are known to be in trouble. Another launcher is not held to that.       *)
THEOREM KeepsToTheStore == Spec => Store!Init /\ [][StoreStep]_vars
<1>1. Init => Store!Init
  BY DEF Init
<1>2. IInv /\ [Next]_vars => [StoreStep]_vars
  BY NextKeeps
<1> QED BY <1>1, <1>2, Invariance, PTL DEF Spec
=============================================================================
