---------------------------- MODULE LibraryStore ----------------------------
(***************************************************************************)
(* The library file (library.rs, Store) as the launchers change it         *)
(* (backend.rs, Real::change): every change loads the file, edits the      *)
(* copy, writes it to a file of its own, syncs that and renames it over    *)
(* the library.  Launchers share nothing but the file: their steps         *)
(* interleave, any step can fail, a launcher can be killed, the power can  *)
(* go, and somebody can break the file by hand.                            *)
(*                                                                         *)
(* Each launcher keeps the library in memory as it was after its last      *)
(* change, and builds an edit from that: a whole computer, or the whole    *)
(* preferences.  What the user asked for is less, one field.  latest is    *)
(* history: the library with every request that was answered with success  *)
(* carried out, and nothing else.                                          *)
(***************************************************************************)
EXTENDS Naturals, FiniteSets

CONSTANTS Launchers,    \* the launcher processes that may run
          Computers,    \* the identifiers of computers
          Forms,        \* what a user can enter for a computer
          Fields,       \* the fields users change
          MAX_COMPUTERS \* how many computers a library may hold

ASSUME StoreAssumption ==
    /\ IsFiniteSet(Computers)
    /\ "none" \notin Forms
    /\ Fields \subseteq {"form", "opened", "remove", "colours", "layout"}
    /\ MAX_COMPUTERS \in Nat \ {0}

VARIABLES path,   \* the library file
          tmp,    \* the temporary files, by name
          pc,     \* how far each launcher is with a change, or that it is not running
          copy,   \* the edited library a launcher is saving
          asked,  \* the request a launcher is carrying out
          memory, \* the library as each launcher shows it
          latest  \* history: what the users were told is saved

vars == <<path, tmp, pc, copy, asked, memory, latest>>

Gone == [form |-> "none", opened |-> FALSE]
Profiles == [form : Forms, opened : BOOLEAN]
Colours == {"light", "dark"}
Layouts == {"simple", "full"}
Libraries == [computers : [Computers -> Profiles \cup {Gone}],
              preferences : [colours : Colours, layout : Layouts]]

\* Library::default: no computers, light, the simple layout.
Default == [computers |-> [c \in Computers |-> Gone],
            preferences |-> [colours |-> "light", layout |-> "simple"]]

\* A file holds a library or is not there; or it is not a library: cut short ("torn") or
\* broken by somebody else ("broken", with the library that can be recovered from it).
\* synced: it survives a loss of power as it is.
Files == [is : {"library", "torn", "broken", "absent"}, library : Libraries, synced : BOOLEAN]
File(library, synced) == [is |-> "library", library |-> library, synced |-> synced]
NoLibrary(is) == [is |-> is, library |-> Default, synced |-> TRUE]

Saved(library) == {c \in Computers : library.computers[c] # Gone}
Loadable(file) == /\ file.is = "library"
                  /\ Cardinality(Saved(file.library)) <= MAX_COMPUTERS

-----------------------------------------------------------------------------
(* What users ask for.                                                       *)

Nothing == [field |-> "nothing"]
Requests ==
    {request \in [field : {"form"}, computer : Computers, value : Forms]
             \cup [field : {"opened", "remove"}, computer : Computers]
             \cup [field : {"colours"}, value : Colours]
             \cup [field : {"layout"}, value : Layouts] : request.field \in Fields}

\* Seeded fault: a form saves a fresh computer, not the one that was opened for editing.
DraftedAfresh(library, request) ==
    CASE request.field = "form" -> [form |-> request.value, opened |-> FALSE]
      [] request.field = "opened" ->
           [library.computers[request.computer] EXCEPT !.opened = TRUE]
      [] OTHER -> Gone

\* The computer as the launcher hands it to save_profile: what it has in memory, with
\* the field the user changed.
Drafted(library, request) ==
    CASE request.field = "form" ->
           [form |-> request.value, opened |-> library.computers[request.computer].opened]
      [] request.field = "opened" ->
           [library.computers[request.computer] EXCEPT !.opened = TRUE]
      [] OTHER -> Gone

\* Likewise the preferences, as handed to save_preferences.
Chosen(library, request) ==
    IF request.field = "colours"
    THEN [library.preferences EXCEPT !.colours = request.value]
    ELSE [library.preferences EXCEPT !.layout = request.value]

\* A library with an edit applied that was drafted from another one.
Edited(library, known, request) ==
    IF request.field \in {"colours", "layout"}
    THEN [library EXCEPT !.preferences = Chosen(known, request)]
    ELSE [library EXCEPT !.computers[request.computer] = Drafted(known, request)]

\* A library with the request carried out and no more: one field of it changes.  An
\* answer from a computer that is no longer saved is nothing to remember.
CarriedOut(library, request) ==
    CASE request.field = "form" ->
           [library EXCEPT !.computers[request.computer].form = request.value]
      [] request.field = "opened" /\ request.computer \in Saved(library) ->
           [library EXCEPT !.computers[request.computer].opened = TRUE]
      [] request.field = "remove" -> [library EXCEPT !.computers[request.computer] = Gone]
      [] request.field = "colours" -> [library EXCEPT !.preferences.colours = request.value]
      [] request.field = "layout" -> [library EXCEPT !.preferences.layout = request.value]
      [] OTHER -> library

\* Library::upsert and remove: a computer that is not in the file needs room.
Accepts(library, request) ==
    request.field \in {"form", "opened"}
        => \/ request.computer \in Saved(library)
           \/ Cardinality(Saved(library)) < MAX_COMPUTERS

-----------------------------------------------------------------------------
(* Steps of a launcher.                                                      *)

TmpName(l) == l

\* Seeded fault: a file that cannot be read counts as an empty library.
LoadAnything(file) == IF Loadable(file) THEN {file.library} ELSE {Default}

\* Store::load; Real::change goes on only with a library it understood.
Load(file) == IF Loadable(file) THEN {file.library} ELSE {}

\* A launcher offers to change the preferences and the computers it shows, and to add
\* one, under an identifier nobody has seen.
Offers(l, request) ==
    request.field \in {"form", "opened", "remove"}
        => \/ request.computer \in Saved(memory[l])
           \/ /\ request.field = "form"
              /\ request.computer \notin Saved(latest) \cup Saved(path.library)
              /\ \A k \in Launchers :
                    request.computer \notin Saved(memory[k]) \cup Saved(copy[k])

\* What a launcher holds of a change while it makes none.
Rest(l) == /\ pc' = [pc EXCEPT ![l] = "idle"]
           /\ tmp' = [tmp EXCEPT ![TmpName(l)] = NoLibrary("absent")]
           /\ copy' = [copy EXCEPT ![l] = Default]
           /\ asked' = [asked EXCEPT ![l] = Nothing]

\* The handler reads the file at once, and goes on if it could.
Change(l, request) ==
    /\ pc[l] = "idle"
    /\ Offers(l, request)
    /\ \E library \in Load(path) :
         /\ Accepts(library, request)
         /\ copy' = [copy EXCEPT ![l] = Edited(library, memory[l], request)]
         /\ asked' = [asked EXCEPT ![l] = request]
         /\ pc' = [pc EXCEPT ![l] = "create"]
    /\ UNCHANGED <<path, tmp, memory, latest>>

Create(l) ==
    /\ pc[l] = "create"
    /\ tmp[TmpName(l)].is = "absent"
    /\ tmp' = [tmp EXCEPT ![TmpName(l)] = [NoLibrary("torn") EXCEPT !.synced = FALSE]]
    /\ pc' = [pc EXCEPT ![l] = "write"]
    /\ UNCHANGED <<path, copy, asked, memory, latest>>

Write(l) ==
    /\ pc[l] = "write"
    /\ tmp' = [tmp EXCEPT ![TmpName(l)] = File(copy[l], FALSE)]
    /\ pc' = [pc EXCEPT ![l] = "sync"]
    /\ UNCHANGED <<path, copy, asked, memory, latest>>

\* Seeded fault: the data is not synced before the rename.
SyncSkipped(l) ==
    /\ pc[l] = "sync"
    /\ pc' = [pc EXCEPT ![l] = "rename"]
    /\ UNCHANGED <<path, tmp, copy, asked, memory, latest>>

Sync(l) ==
    /\ pc[l] = "sync"
    /\ tmp' = [tmp EXCEPT ![TmpName(l)] = File(tmp[TmpName(l)].library, TRUE)]
    /\ pc' = [pc EXCEPT ![l] = "rename"]
    /\ UNCHANGED <<path, copy, asked, memory, latest>>

\* The change is done: the caller gets the library it saved and shows that.
Rename(l) ==
    /\ pc[l] = "rename"
    /\ path' = tmp[TmpName(l)]
    /\ memory' = [memory EXCEPT ![l] = copy[l]]
    /\ latest' = CarriedOut(latest, asked[l])
    /\ Rest(l)

\* Seeded fault: the launcher shows a change although it could not be saved.
FailShown(l) ==
    /\ pc[l] \in {"create", "write", "sync", "rename"}
    /\ memory' = [memory EXCEPT ![l] = copy[l]]
    /\ Rest(l)
    /\ UNCHANGED <<path, latest>>

\* A step of save fails: the temporary file goes, and the launcher keeps what it shows.
Fail(l) ==
    /\ pc[l] \in {"create", "write", "sync", "rename"}
    /\ Rest(l)
    /\ UNCHANGED <<path, memory, latest>>

\* App::new: a library that cannot be loaded is shown as empty, with the error.
Start(l) ==
    /\ pc[l] = "stopped"
    /\ pc' = [pc EXCEPT ![l] = "idle"]
    /\ memory' = [memory EXCEPT ![l] = IF Loadable(path) THEN path.library ELSE Default]
    /\ UNCHANGED <<path, tmp, copy, asked, latest>>

\* A launcher is closed or killed, and forgets what it had in memory.
Stopped(runs) ==
    /\ pc' = [l \in Launchers |-> IF l \in runs THEN pc[l] ELSE "stopped"]
    /\ tmp' = [l \in Launchers |-> IF l \in runs THEN tmp[l] ELSE NoLibrary("absent")]
    /\ copy' = [l \in Launchers |-> IF l \in runs THEN copy[l] ELSE Default]
    /\ asked' = [l \in Launchers |-> IF l \in runs THEN asked[l] ELSE Nothing]
    /\ memory' = [l \in Launchers |-> IF l \in runs THEN memory[l] ELSE Default]

Stop(l) ==
    /\ pc[l] # "stopped"
    /\ Stopped(Launchers \ {l})
    /\ UNCHANGED <<path, latest>>

-----------------------------------------------------------------------------
(* The machine and other programs.                                           *)

PowerLoss ==
    /\ path' = IF path.synced THEN path ELSE NoLibrary("torn")
    /\ Stopped({})
    /\ UNCHANGED latest

\* Somebody breaks the file, at a time when no launcher is between load and rename.
Break ==
    /\ \A l \in Launchers : pc[l] \in {"idle", "stopped"}
    /\ path' = [path EXCEPT !.is = "broken"]
    /\ UNCHANGED <<tmp, pc, copy, asked, memory, latest>>

\* Somebody repairs the file before starting a launcher again.
Mend ==
    /\ \A l \in Launchers : pc[l] = "stopped"
    /\ path.is = "broken"
    /\ path' = [path EXCEPT !.is = "library"]
    /\ UNCHANGED <<tmp, pc, copy, asked, memory, latest>>

-----------------------------------------------------------------------------

\* An empty library: a file that does not exist loads as one.
Init ==
    /\ path = File(Default, TRUE)
    /\ tmp = [l \in Launchers |-> NoLibrary("absent")]
    /\ pc = [l \in Launchers |-> "stopped"]
    /\ copy = [l \in Launchers |-> Default]
    /\ asked = [l \in Launchers |-> Nothing]
    /\ memory = [l \in Launchers |-> Default]
    /\ latest = Default

Next ==
    \/ \E l \in Launchers :
         \/ \E request \in Requests : Change(l, request)
         \/ Create(l) \/ Write(l) \/ Sync(l) \/ Rename(l)
         \/ Fail(l) \/ Start(l) \/ Stop(l)
    \/ PowerLoss \/ Break \/ Mend

Spec == Init /\ [][Next]_vars

-----------------------------------------------------------------------------
(* Properties.                                                               *)

\* Every variable has its type (the fields of Store, Real and App they stand for).
TypeOK ==
    /\ path \in Files
    /\ tmp \in [Launchers -> Files]
    /\ pc \in [Launchers -> {"stopped", "idle", "create", "write", "sync", "rename"}]
    /\ copy \in [Launchers -> Libraries]
    /\ asked \in [Launchers -> Requests \cup {Nothing}]
    /\ memory \in [Launchers -> Libraries]
    /\ latest \in Libraries

\* Whatever is killed, fails or loses power, and however launchers interleave, what
\* they leave in the library file is a library they can load again (library.rs, save).
Whole == path.is # "broken" => Loadable(path)

\* No launcher writes to a file that somebody broke: what can be recovered from it stays
\* (library.rs, load; backend.rs, change).
BrokenKept == [][path.is = "broken" => path'.library = path.library /\ latest' = latest]_vars

\* A single launcher loses nothing it said it saved, and saves nothing it was not asked
\* to: the file holds the requests that succeeded (backend.rs, change).
NothingLost == path.is # "broken" => path.library = latest

\* A single launcher shows what is saved, after a failed change too
\* (connections.rs, computers.rs: the library is replaced only on Ok).
ShowsSaved ==
    \A l \in Launchers :
        pc[l] # "stopped" /\ path.is # "broken" => memory[l] = latest

=============================================================================
