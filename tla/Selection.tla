------------------------------ MODULE Selection ------------------------------
(***************************************************************************)
(* The Computer box of the launcher's small window and the options beside  *)
(* it (launcher/src/app/computers.rs, and the messages of app.rs and       *)
(* app/connections.rs that touch them): which saved computer the text      *)
(* means, whose options are shown, and what connecting saves.              *)
(*                                                                         *)
(* Texts are trimmed and in lower case. One launcher; the computer dialog  *)
(* and the question before a removal are one step each, from opening to    *)
(* saving, because nothing behind them changes meanwhile.                  *)
(***************************************************************************)
EXTENDS Naturals, SequencesExt

CONSTANTS
  Ids,         (* identifiers computers may get                             *)
  Names,       (* texts that are names of computers                         *)
  Addresses,   (* texts that look like addresses                            *)
  Typed,       (* other texts                                               *)
  Includes,    (* pairs <<n, q>>: text n contains text q, itself included   *)
  Options      (* of a connection                                           *)

Texts == Names \cup Addresses \cup Typed
Empty == "empty"

(* Profile::validate: a computer has a name and an address.                *)
ASSUME SelectionAssumption == Empty \notin Texts

VARIABLES
  computers,      (* Library::computers: [id, name, address, options]       *)
  layout,         (* "Simple" or "Full"                                     *)
  computer_box,   (* the text of the Computer box                           *)
  chosen,         (* App::chosen: <<>> or <<id>>                            *)
  options,        (* App::options: those not at their default              *)
  draft_options,  (* App::draft_options                                     *)
  edited,         (* history: options set since the choice                  *)
  picked          (* history: the computer picked, until a text is typed    *)

selectionVars == <<computers, layout, computer_box, chosen, options, draft_options, edited, picked>>

Default == {}
-----------------------------------------------------------------------------
(* The first of the computers found at these indices, if any.              *)
First(list, found) == IF found = {} THEN <<>> ELSE <<list[Min(found)]>>

Profile(list, id) == First(list, {n \in DOMAIN list : list[n].id = id})

Named(list, text) == {n \in DOMAIN list : text \in {list[n].name, list[n].address}}

ProfileByName(list, text) == First(list, Named(list, text))

SoleMatch(list, text) ==
  LET found == {n \in DOMAIN list :
                  <<list[n].name, text>> \in Includes \/ <<list[n].address, text>> \in Includes}
  IN IF text \notin Addresses \cup {Empty} /\ Cardinality(found) = 1 THEN First(list, found) ELSE <<>>

(* Seeded fault: the computer already chosen has no precedence.            *)
MatchByName(list, box, choice) ==
  LET named == ProfileByName(list, box)
  IN IF named # <<>> THEN named ELSE SoleMatch(list, box)

(* simple_match: of several computers of one name the chosen one is meant. *)
Match(list, box, choice) ==
  LET kept == First(list, {n \in Named(list, box) : choice = <<list[n].id>>})
      named == ProfileByName(list, box)
  IN IF kept # <<>> THEN kept ELSE IF named # <<>> THEN named ELSE SoleMatch(list, box)

(* What the window shows: its text, its choice and its options.            *)
Shown(box, choice, opts) == [box |-> box, choice |-> choice, options |-> opts]

(* Seeded fault: the options of the computer left behind stay.             *)
SyncKeeping(list, shown) ==
  LET match == Match(list, shown.box, shown.choice) IN
  Shown(shown.box, IF match # <<>> THEN <<match[1].id>> ELSE <<>>, shown.options)

(* sync_simple.                                                            *)
Sync(list, shown) ==
  LET match == Match(list, shown.box, shown.choice) IN
  IF match # <<>>
  THEN IF shown.choice = <<match[1].id>> THEN shown
       ELSE Shown(shown.box, <<match[1].id>>, match[1].options)
  ELSE IF shown.choice = <<>> THEN shown
       ELSE Shown(shown.box, <<>>, draft_options)

(* resync: a choice that is gone is dropped first.                         *)
Resync(list, shown) ==
  LET present == IF shown.choice # <<>> /\ Profile(list, shown.choice[1]) = <<>>
                 THEN Shown(shown.box, <<>>, shown.options) ELSE shown
      synced == Sync(list, present)
  IN IF synced.box = Empty /\ synced.choice # <<>>
     THEN Shown(Profile(list, synced.choice[1])[1].name, synced.choice, synced.options) ELSE synced

(* choose.                                                                 *)
Choosing(list, id) ==
  LET p == Profile(list, id)[1] IN Resync(list, Shown(p.name, <<id>>, p.options))

Current == Shown(computer_box, chosen, options)

Show(shown) ==
  /\ computer_box' = shown.box /\ chosen' = shown.choice /\ options' = shown.options
  /\ edited' = IF shown.choice = chosen /\ shown.options = options THEN edited ELSE {}
-----------------------------------------------------------------------------
SelectionInit ==
  /\ computers = <<>> /\ layout = "Simple" /\ computer_box = Empty
  /\ chosen = <<>> /\ options = Default /\ draft_options = Default
  /\ edited = {} /\ picked = <<>>

BoxInput(text) ==
  /\ Show(Sync(computers, Shown(text, chosen, options))) /\ picked' = <<>>
  /\ UNCHANGED <<computers, layout, draft_options>>

(* ComboPick, Choose, and the first half of Activate.                      *)
Choose(id) ==
  /\ Profile(computers, id) # <<>>
  /\ Show(Choosing(computers, id)) /\ picked' = <<id>>
  /\ UNCHANGED <<computers, layout, draft_options>>

(* SetConnectionOption, SetResolution.                                     *)
SetOption(option) ==
  LET new == SymDiff(options, {option}) IN
  /\ options' = new /\ edited' = edited \cup {option}
  /\ draft_options' = IF chosen = <<>> THEN new ELSE draft_options
  /\ UNCHANGED <<computers, layout, computer_box, chosen, picked>>

Replaced(list, p) == [n \in DOMAIN list |-> IF list[n].id = p.id THEN p ELSE list[n]]

(* connect_chosen: the options shown are saved to the computer the text    *)
(* means before its sign-in; a save that fails ends it.                    *)
ConnectChosen ==
  LET match == Match(computers, computer_box, chosen) IN
  /\ match # <<>> /\ match[1].options # options
  /\ computers' = Replaced(computers, [match[1] EXCEPT !.options = options])
  /\ UNCHANGED <<layout, computer_box, chosen, options, draft_options, edited, picked>>

(* The end of save_computer.                                               *)
Saved(list, id) ==
  IF layout = "Simple" \/ chosen = <<id>>
  THEN Show(Resync(list, Choosing(list, id))) /\ picked' = <<id>>
  ELSE Show(Resync(list, Current)) /\ UNCHANGED picked

(* save_computer for one that is saved already.                            *)
EditComputer(id, name, address, opts) ==
  LET list == Replaced(computers, [id |-> id, name |-> name, address |-> address, options |-> opts]) IN
  /\ Profile(computers, id) # <<>>
  /\ computers' = list /\ Saved(list, id)
  /\ UNCHANGED <<layout, draft_options>>

(* save_computer for a new one, also from connect_chosen.                  *)
NewComputer(id, name, address, opts) ==
  LET list == Append(computers, [id |-> id, name |-> name, address |-> address, options |-> opts]) IN
  /\ Profile(computers, id) = <<>>
  /\ computers' = list /\ Saved(list, id)
  /\ UNCHANGED <<layout, draft_options>>

(* The list without a computer; identifiers are unique.                    *)
Without(list, id) == RemoveAt(list, Min({n \in DOMAIN list : list[n].id = id}))

(* ConfirmYes of a removal.                                                *)
RemoveComputer(id) ==
  LET list == Without(computers, id) IN
  /\ Profile(computers, id) # <<>>
  /\ computers' = list
  /\ Show(Resync(list, IF chosen = <<id>> THEN Shown(Empty, <<>>, options) ELSE Current))
  /\ picked' = IF picked = <<id>> THEN <<>> ELSE picked
  /\ UNCHANGED <<layout, draft_options>>

(* SetLayout, apply_layout; SetDark also ends in a resync.                 *)
SetLayout ==
  /\ layout' = IF layout = "Simple" THEN "Full" ELSE "Simple"
  /\ Show(Resync(computers, Current)) /\ UNCHANGED <<computers, draft_options, picked>>

SelectionNext ==
  \/ \E text \in Texts \cup {Empty} : BoxInput(text)
  \/ \E id \in Ids : Choose(id) \/ RemoveComputer(id)
  \/ \E option \in Options : SetOption(option)
  \/ \E id \in Ids, name \in Names, address \in Addresses, opts \in SUBSET Options :
       EditComputer(id, name, address, opts) \/ NewComputer(id, name, address, opts)
  \/ ConnectChosen \/ SetLayout

SelectionSpec == SelectionInit /\ [][SelectionNext]_selectionVars
-----------------------------------------------------------------------------
(* The options that connecting would save to the computer the text means   *)
(* are that computer's own, but for those the user has set since it became *)
(* the chosen one: no other computer's options are written over them.      *)
OwnOptions ==
  LET match == Match(computers, computer_box, chosen) IN
  /\ match # <<>> <=> chosen # <<>>
  /\ match # <<>> =>
       /\ chosen = <<match[1].id>>
       /\ SymDiff(options, match[1].options) \subseteq edited 

(* A computer picked from the list stays the one that is connected to,     *)
(* whatever is saved, renamed or removed in between, until another text is *)
(* typed; two computers may have the same name.                            *)
PickedStays == picked # <<>> => chosen = picked

(* "When it stops naming one, the options set for a new computer come      *)
(* back" (sync_simple): without a chosen computer, those are shown.        *)
DraftBack == chosen = <<>> => options = draft_options
=============================================================================
