------------------------- MODULE LibraryStoreProofs -------------------------
(***************************************************************************)
(* LibraryStore for any number of launchers and computers: whatever fails, *)
(* the file stays a library.  And for one launcher: it loses nothing it    *)
(* said it saved.                                                          *)
(*                                                                         *)
(* The second part is about the address that is typed for a computer.      *)
(***************************************************************************)
EXTENDS LibraryStore, Endpoint, FiniteSetTheorems, SequenceTheorems,
        WellFoundedInduction, TLAPS

-----------------------------------------------------------------------------
(* Libraries and edits.                                                      *)

\* A library fits when it holds no more computers than it may.
Fits(library) == Cardinality(Saved(library)) <= MAX_COMPUTERS

\* The default library is one, holds no computer, and fits.
LEMMA DefaultIsLibrary == Default \in Libraries /\ Saved(Default) = {} /\ Fits(Default)
<1>1. Default \in Libraries
  BY DEF Default, Libraries, Colours, Layouts
<1>2. Saved(Default) = {}
  BY DEF Default, Saved
<1>3. QED
  BY <1>1, <1>2, FS_EmptySet, StoreAssumption DEF Fits

\* What a launcher drafts is a computer (or none), drawn from the library it knows.
LEMMA DraftedType ==
  ASSUME NEW library \in Libraries, NEW request \in Requests,
         request.field \notin {"colours", "layout"},
         request.field = "opened" => request.computer \in Saved(library)
  PROVE  Drafted(library, request) \in Profiles \cup {Gone}
<1>1. CASE request.field = "form"
  <2>1. request.computer \in Computers /\ request.value \in Forms
    BY <1>1 DEF Requests
  <2>2. library.computers[request.computer].opened \in BOOLEAN
    <3>1. library.computers[request.computer] \in Profiles \cup {Gone}
      BY <2>1 DEF Libraries
    <3>2. \A profile \in Profiles : profile.opened \in BOOLEAN
      BY DEF Profiles
    <3>3. Gone.opened \in BOOLEAN
      BY DEF Gone
    <3>4. QED
      BY <3>1, <3>2, <3>3
  <2>3. Drafted(library, request)
          = [form |-> request.value, opened |-> library.computers[request.computer].opened]
    BY <1>1 DEF Drafted
  <2>4. QED
    BY <2>1, <2>2, <2>3 DEF Profiles
<1>2. CASE request.field = "opened"
  <2>1. library.computers[request.computer] \in Profiles
    BY <1>2 DEF Saved, Libraries
  <2>2. QED
    BY <1>2, <2>1 DEF Drafted, Profiles
<1>3. CASE request.field \notin {"form", "opened"}
  BY <1>3 DEF Drafted
<1>4. QED
  BY <1>1, <1>2, <1>3

\* An edit makes a library of a library.
LEMMA EditedType ==
  ASSUME NEW library \in Libraries, NEW known \in Libraries, NEW request \in Requests,
         request.field = "opened" => request.computer \in Saved(known)
  PROVE  Edited(library, known, request) \in Libraries
<1>1. CASE request.field \in {"colours", "layout"}
  <2>1. Chosen(known, request) \in [colours : Colours, layout : Layouts]
    BY <1>1 DEF Requests, Chosen, Libraries
  <2>2. QED
    BY <1>1, <2>1 DEF Edited, Libraries
<1>2. CASE request.field \notin {"colours", "layout"}
  <2>1. Drafted(known, request) \in Profiles \cup {Gone}
    BY <1>2, DraftedType
  <2>2. QED
    BY <1>2, <2>1 DEF Edited, Libraries
<1>3. QED
  BY <1>1, <1>2

\* An accepted edit of a library that fits leaves one that fits.
LEMMA EditedFits ==
  ASSUME NEW library \in Libraries, NEW known \in Libraries, NEW request \in Requests,
         Fits(library), Accepts(library, request)
  PROVE  Fits(Edited(library, known, request))
<1> DEFINE new == Edited(library, known, request)
<1>1. IsFiniteSet(Saved(library)) /\ IsFiniteSet(Saved(new))
  BY StoreAssumption, FS_Subset DEF Saved
<1>2. Cardinality(Saved(library)) \in Nat /\ Cardinality(Saved(new)) \in Nat /\ MAX_COMPUTERS \in Nat
  BY <1>1, FS_CardinalityType, StoreAssumption
<1>3. CASE request.field \in {"colours", "layout"}
  BY <1>3 DEF Edited, Libraries, Saved, Fits
<1>4. CASE request.field \notin {"colours", "layout"}
  <2>1. new.computers = [library.computers EXCEPT ![request.computer] = Drafted(known, request)]
    BY <1>4 DEF Edited, Libraries
  <2>2. Saved(new) \subseteq Saved(library) \cup {request.computer}
    BY <2>1 DEF Saved, Libraries
  <2>3. CASE request.field \in {"form", "opened"} /\ request.computer \notin Saved(library)
    <3>1. Cardinality(Saved(library)) < MAX_COMPUTERS
      BY <2>3 DEF Accepts
    <3>2. IsFiniteSet(Saved(library) \cup {request.computer})
      /\ Cardinality(Saved(library) \cup {request.computer}) = Cardinality(Saved(library)) + 1
      BY <1>1, <2>3, FS_AddElement
    <3>3. Cardinality(Saved(new)) <= Cardinality(Saved(library) \cup {request.computer})
      BY <2>2, <3>2, FS_Subset
    <3>4. QED
      BY <1>2, <3>1, <3>2, <3>3 DEF Fits
  <2>4. CASE request.field \notin {"form", "opened"} \/ request.computer \in Saved(library)
    <3>1. Saved(new) \subseteq Saved(library)
      <4>1. CASE request.computer \in Saved(library)
        BY <4>1, <2>2
      <4>2. CASE request.field \notin {"form", "opened"}
        BY <4>2, <2>1 DEF Drafted, Saved, Libraries
      <4>3. QED
        BY <2>4, <4>1, <4>2
    <3>2. Cardinality(Saved(new)) <= Cardinality(Saved(library))
      BY <1>1, <3>1, FS_Subset
    <3>3. QED
      BY <1>2, <3>2 DEF Fits
  <2>5. QED
    BY <2>3, <2>4
<1>5. QED
  BY <1>3, <1>4

-----------------------------------------------------------------------------
(* The inductive invariant, for any number of launchers.                     *)

Busy == {"create", "write", "sync", "rename"}

\* While a launcher saves, the file it loaded was a library, and the copy fits.
InProgress == \A l \in Launchers :
    pc[l] \in Busy => asked[l] \in Requests /\ Fits(copy[l]) /\ path.is = "library"

\* What is renamed is the whole copy, synced.
TmpRight == \A l \in Launchers :
    /\ pc[l] = "sync" => tmp[l] = File(copy[l], FALSE)
    /\ pc[l] = "rename" => tmp[l] = File(copy[l], TRUE)

\* The file survives a loss of power and does not hold too many computers.
FileRight == path.is \in {"library", "broken"} /\ path.synced /\ Fits(path.library)

IInv == TypeOK /\ InProgress /\ TmpRight /\ FileRight

\* Files have the parts they are made of.
LEMMA FileTypes ==
  /\ \A library \in Libraries, synced \in BOOLEAN : File(library, synced) \in Files
  /\ \A is \in {"torn", "absent"} : NoLibrary(is) \in Files
BY DefaultIsLibrary DEF File, NoLibrary, Files

\* An accepted change starts from the library in the file.
LEMMA LoadType ==
  ASSUME path \in Files, NEW library \in Load(path)
  PROVE  library \in Libraries /\ library = path.library /\ Fits(library) /\ path.is = "library"
<1>1. Loadable(path) /\ library = path.library
  BY DEF Load
<1>2. path.library \in Libraries
  BY DEF Files
<1>3. QED
  BY <1>1, <1>2 DEF Loadable, Fits

LEMMA InitIInv == Init => IInv
<1> SUFFICES ASSUME Init PROVE IInv
  OBVIOUS
<1>1. File(Default, TRUE) \in Files /\ NoLibrary("absent") \in Files
  BY FileTypes, DefaultIsLibrary
<1>2. TypeOK
  BY <1>1, DefaultIsLibrary DEF Init, TypeOK
<1>3. InProgress /\ TmpRight
  BY DEF Init, InProgress, TmpRight, Busy
<1>4. FileRight
  BY DefaultIsLibrary DEF Init, FileRight, File
<1>5. QED
  BY <1>2, <1>3, <1>4 DEF IInv

LEMMA ChangeIInv ==
  ASSUME IInv, NEW l \in Launchers, NEW request \in Requests, Change(l, request)
  PROVE  IInv'
<1>1. PICK library \in Load(path) :
        /\ Accepts(library, request)
        /\ copy' = [copy EXCEPT ![l] = Edited(library, memory[l], request)]
        /\ asked' = [asked EXCEPT ![l] = request]
        /\ pc' = [pc EXCEPT ![l] = "create"]
  BY DEF Change
<1>2. UNCHANGED <<path, tmp, memory, latest>>
  BY DEF Change
<1>3. library \in Libraries /\ Fits(library) /\ path.is = "library"
  BY LoadType DEF IInv, TypeOK
<1>4. memory[l] \in Libraries
  BY DEF IInv, TypeOK
<1>5. request.field = "opened" => request.computer \in Saved(memory[l])
  BY DEF Change, Offers
<1>6. Edited(library, memory[l], request) \in Libraries /\ Fits(Edited(library, memory[l], request))
  BY <1>1, <1>3, <1>4, <1>5, EditedType, EditedFits
<1>7. TypeOK'
  BY <1>1, <1>2, <1>6 DEF IInv, TypeOK
<1>8. InProgress'
  BY <1>1, <1>2, <1>3, <1>6 DEF IInv, TypeOK, InProgress, Busy
<1>9. TmpRight'
  BY <1>1, <1>2 DEF IInv, TypeOK, TmpRight
<1>10. FileRight'
  BY <1>2 DEF IInv, FileRight
<1>11. QED
  BY <1>7, <1>8, <1>9, <1>10 DEF IInv

LEMMA SaveIInv ==
  ASSUME IInv, NEW l \in Launchers, Create(l) \/ Write(l) \/ Sync(l)
  PROVE  IInv'
<1>1. UNCHANGED <<path, copy, asked, memory, latest>>
  BY DEF Create, Write, Sync
<1>2. PICK step \in Files :
        /\ tmp' = [tmp EXCEPT ![l] = step]
        /\ \/ pc[l] = "create" /\ pc' = [pc EXCEPT ![l] = "write"]
           \/ pc[l] = "write" /\ pc' = [pc EXCEPT ![l] = "sync"] /\ step = File(copy[l], FALSE)
           \/ pc[l] = "sync" /\ pc' = [pc EXCEPT ![l] = "rename"] /\ step = File(copy[l], TRUE)
  <2>1. CASE Create(l)
    <3>1. [NoLibrary("torn") EXCEPT !.synced = FALSE] \in Files
      BY FileTypes DEF Files
    <3>2. QED
      BY <2>1, <3>1 DEF Create, TmpName
  <2>2. CASE Write(l)
    <3>1. File(copy[l], FALSE) \in Files
      BY FileTypes DEF IInv, TypeOK
    <3>2. QED
      BY <2>2, <3>1 DEF Write, TmpName
  <2>3. CASE Sync(l)
    <3>1. tmp[l] = File(copy[l], FALSE)
      BY <2>3 DEF Sync, IInv, TmpRight
    <3>2. tmp[l].library = copy[l]
      BY <3>1 DEF File
    <3>3. File(copy[l], TRUE) \in Files
      BY FileTypes DEF IInv, TypeOK
    <3>4. tmp' = [tmp EXCEPT ![l] = File(copy[l], TRUE)]
      BY <2>3, <3>2 DEF Sync, TmpName
    <3>5. QED
      BY <2>3, <3>3, <3>4 DEF Sync
  <2>4. QED
    BY <2>1, <2>2, <2>3
<1>3. TypeOK'
  BY <1>1, <1>2 DEF IInv, TypeOK
<1>4. InProgress'
  BY <1>1, <1>2 DEF IInv, TypeOK, InProgress, Busy
<1>5. TmpRight'
  BY <1>1, <1>2 DEF IInv, TypeOK, TmpRight
<1>6. FileRight'
  BY <1>1 DEF IInv, FileRight
<1>7. QED
  BY <1>3, <1>4, <1>5, <1>6 DEF IInv

\* A launcher at rest holds nothing of a change.
LEMMA RestParts ==
  ASSUME IInv, NEW l \in Launchers, Rest(l)
  PROVE  /\ tmp' \in [Launchers -> Files]
         /\ pc' \in [Launchers -> {"stopped", "idle"} \cup Busy]
         /\ copy' \in [Launchers -> Libraries]
         /\ asked' \in [Launchers -> Requests \cup {Nothing}]
         /\ pc'[l] = "idle"
         /\ \A k \in Launchers \ {l} :
              pc'[k] = pc[k] /\ tmp'[k] = tmp[k] /\ copy'[k] = copy[k] /\ asked'[k] = asked[k]
<1>1. NoLibrary("absent") \in Files /\ Default \in Libraries
  BY FileTypes, DefaultIsLibrary
<1>2. QED
  BY <1>1 DEF Rest, TmpName, IInv, TypeOK, Busy

\* Drafted from the library itself, an edit is the request carried out.
LEMMA CarriedOutEdited ==
  ASSUME NEW library \in Libraries, NEW request \in Requests,
         request.field = "opened" => request.computer \in Saved(library)
  PROVE  CarriedOut(library, request) = Edited(library, library, request)
<1>1. CASE request.field = "form"
  <2>1. request.computer \in Computers
    BY <1>1 DEF Requests
  <2>2. library.computers[request.computer] \in Profiles \cup {Gone}
    BY <2>1 DEF Libraries
  <2>3. \A profile \in Profiles \cup {Gone} :
          [profile EXCEPT !.form = request.value] = [form |-> request.value, opened |-> profile.opened]
    BY DEF Profiles, Gone
  <2>4. [library.computers[request.computer] EXCEPT !.form = request.value]
          = Drafted(library, request)
    BY <1>1, <2>2, <2>3 DEF Drafted
  <2>5. QED
    BY <1>1, <2>4 DEF CarriedOut, Edited
<1>2. CASE request.field = "opened"
  BY <1>2 DEF CarriedOut, Edited, Drafted
<1>3. CASE request.field = "remove"
  BY <1>3 DEF CarriedOut, Edited, Drafted
<1>4. CASE request.field = "colours"
  BY <1>4 DEF CarriedOut, Edited, Chosen
<1>5. CASE request.field = "layout"
  BY <1>5 DEF CarriedOut, Edited, Chosen
<1>6. QED
  BY <1>1, <1>2, <1>3, <1>4, <1>5 DEF Requests

\* What users were told is saved stays a library.
LEMMA CarriedOutType ==
  ASSUME NEW library \in Libraries, NEW request \in Requests
  PROVE  CarriedOut(library, request) \in Libraries
<1>1. CASE request.field = "opened" /\ request.computer \notin Saved(library)
  BY <1>1 DEF CarriedOut
<1>2. CASE request.field = "opened" => request.computer \in Saved(library)
  BY <1>2, EditedType, CarriedOutEdited
<1>3. QED
  BY <1>1, <1>2

LEMMA RenameIInv ==
  ASSUME IInv, NEW l \in Launchers, Rename(l)
  PROVE  IInv'
<1>1. /\ pc[l] = "rename" /\ path' = tmp[l]
      /\ memory' = [memory EXCEPT ![l] = copy[l]]
      /\ latest' = CarriedOut(latest, asked[l])
      /\ Rest(l)
  BY DEF Rename, TmpName
<1>2. path' = File(copy[l], TRUE) /\ Fits(copy[l]) /\ asked[l] \in Requests
  BY <1>1 DEF IInv, TmpRight, InProgress, Busy
<1>3. path'.is = "library" /\ path'.synced /\ path'.library = copy[l]
  BY <1>2 DEF File
<1>4. TypeOK'
  <2>1. path' \in Files /\ memory' \in [Launchers -> Libraries]
    BY <1>1 DEF IInv, TypeOK
  <2>2. latest' \in Libraries
    BY <1>1, <1>2, CarriedOutType DEF IInv, TypeOK
  <2>3. QED
    BY <1>1, <2>1, <2>2, RestParts DEF TypeOK, Busy
<1>5. InProgress' /\ TmpRight'
  <2>1. \A k \in Launchers : pc'[k] \in Busy => k # l
    BY <1>1, RestParts DEF Busy
  <2>2. QED
    BY <1>1, <1>3, <2>1, RestParts DEF IInv, InProgress, TmpRight, Busy
<1>6. FileRight'
  BY <1>2, <1>3 DEF FileRight
<1>7. QED
  BY <1>4, <1>5, <1>6 DEF IInv

LEMMA FailIInv ==
  ASSUME IInv, NEW l \in Launchers, Fail(l)
  PROVE  IInv'
<1>1. Rest(l) /\ UNCHANGED <<path, memory, latest>>
  BY DEF Fail
<1>2. TypeOK'
  BY <1>1, RestParts DEF IInv, TypeOK, Busy
<1>3. InProgress' /\ TmpRight'
  <2>1. \A k \in Launchers : pc'[k] \in Busy => k # l
    BY <1>1, RestParts DEF Busy
  <2>2. QED
    BY <1>1, <2>1, RestParts DEF IInv, InProgress, TmpRight, Busy
<1>4. QED
  BY <1>1, <1>2, <1>3 DEF IInv, FileRight

LEMMA StartIInv ==
  ASSUME IInv, NEW l \in Launchers, Start(l)
  PROVE  IInv'
<1>1. /\ pc' = [pc EXCEPT ![l] = "idle"]
      /\ memory' = [memory EXCEPT ![l] = IF Loadable(path) THEN path.library ELSE Default]
      /\ UNCHANGED <<path, tmp, copy, asked, latest>>
  BY DEF Start
<1>2. (IF Loadable(path) THEN path.library ELSE Default) \in Libraries
  BY DefaultIsLibrary DEF IInv, TypeOK, Files
<1>3. TypeOK'
  BY <1>1, <1>2 DEF IInv, TypeOK
<1>4. InProgress' /\ TmpRight' /\ FileRight'
  BY <1>1 DEF IInv, TypeOK, InProgress, TmpRight, FileRight, Busy
<1>5. QED
  BY <1>3, <1>4 DEF IInv

\* Launchers that stop leave the others as they are.
LEMMA StoppedIInv ==
  ASSUME IInv, NEW runs \in SUBSET Launchers, Stopped(runs), UNCHANGED <<path, latest>>
  PROVE  IInv'
<1>1. NoLibrary("absent") \in Files /\ Default \in Libraries
  BY FileTypes, DefaultIsLibrary
<1>2. TypeOK'
  BY <1>1 DEF IInv, TypeOK, Stopped
<1>3. InProgress' /\ TmpRight' /\ FileRight'
  BY DEF IInv, TypeOK, InProgress, TmpRight, FileRight, Busy, Stopped
<1>4. QED
  BY <1>2, <1>3 DEF IInv

\* Breaking and mending the file changes neither what is in it nor a launcher.
LEMMA ElsewhereIInv ==
  ASSUME IInv, Break \/ Mend
  PROVE  IInv'
<1>1. /\ UNCHANGED <<tmp, pc, copy, asked, memory, latest>>
      /\ path' \in Files /\ path'.is \in {"library", "broken"}
      /\ path'.library = path.library /\ path'.synced = path.synced
  BY DEF Break, Mend, IInv, TypeOK, Files
<1>2. \A l \in Launchers : pc[l] \notin Busy
  BY DEF Break, Mend, Busy
<1>3. TypeOK'
  BY <1>1 DEF IInv, TypeOK
<1>4. InProgress' /\ TmpRight'
  BY <1>1, <1>2 DEF InProgress, TmpRight, Busy
<1>5. FileRight'
  BY <1>1 DEF IInv, FileRight, Fits
<1>6. QED
  BY <1>3, <1>4, <1>5 DEF IInv

LEMMA NextIInv == IInv /\ [Next]_vars => IInv'
<1> SUFFICES ASSUME IInv, [Next]_vars PROVE IInv'
  OBVIOUS
<1>1. CASE \E l \in Launchers : \E request \in Requests : Change(l, request)
  BY <1>1, ChangeIInv
<1>2. CASE \E l \in Launchers : Create(l) \/ Write(l) \/ Sync(l)
  BY <1>2, SaveIInv
<1>3. CASE \E l \in Launchers : Rename(l)
  BY <1>3, RenameIInv
<1>4. CASE \E l \in Launchers : Fail(l) \/ Start(l)
  BY <1>4, FailIInv, StartIInv
<1>5. CASE \E l \in Launchers : Stop(l)
  <2>1. PICK l \in Launchers : Stop(l)
    BY <1>5
  <2>2. Stopped(Launchers \ {l}) /\ UNCHANGED <<path, latest>>
    BY <2>1 DEF Stop
  <2>3. QED
    BY <2>2, StoppedIInv
<1>6. CASE PowerLoss
  <2>1. Stopped({}) /\ UNCHANGED <<path, latest>>
    BY <1>6 DEF PowerLoss, IInv, FileRight
  <2>2. QED
    BY <2>1, StoppedIInv
<1>7. CASE Break \/ Mend
  BY <1>7, ElsewhereIInv
<1>8. CASE UNCHANGED vars
  BY <1>8 DEF vars, IInv, TypeOK, InProgress, TmpRight, FileRight, Fits
<1>9. QED
  BY <1>1, <1>2, <1>3, <1>4, <1>5, <1>6, <1>7, <1>8 DEF Next

\* The types, and what of a change under way each launcher and the file hold.
THEOREM Invariance == Spec => []IInv
BY InitIInv, NextIInv, PTL DEF Spec

\* Every variable keeps its type.
THEOREM TypeCorrect == Spec => []TypeOK
<1>1. IInv => TypeOK
  BY DEF IInv
<1>2. QED
  BY <1>1, Invariance, PTL

\* Whatever fails and however launchers interleave, the file they leave can be loaded.
THEOREM AlwaysWhole == Spec => []Whole
<1>1. IInv => Whole
  BY DEF IInv, FileRight, Whole, Loadable, Fits
<1>2. QED
  BY <1>1, Invariance, PTL

\* A broken file is not written to: no launcher is past loading while it is broken.
THEOREM BrokenIsKept == Spec => BrokenKept
<1>1. IInv /\ [Next]_vars
        => [path.is = "broken" => path'.library = path.library /\ latest' = latest]_vars
  <2> SUFFICES ASSUME IInv, Next, path.is = "broken"
               PROVE  path'.library = path.library /\ latest' = latest
    BY DEF vars
  <2>1. \A l \in Launchers : pc[l] \notin Busy
    BY DEF IInv, InProgress
  <2>2. ASSUME NEW l \in Launchers
        PROVE  ~Create(l) /\ ~Write(l) /\ ~Sync(l) /\ ~Rename(l) /\ ~Fail(l)
    BY <2>1 DEF Create, Write, Sync, Rename, Fail, Busy
  <2>3. CASE \E l \in Launchers : \E request \in Requests : Change(l, request)
    BY <2>3 DEF Change
  <2>4. CASE \E l \in Launchers : Start(l) \/ Stop(l)
    BY <2>4 DEF Start, Stop
  <2>5. CASE PowerLoss
    BY <2>5 DEF PowerLoss, IInv, FileRight
  <2>6. CASE Break \/ Mend
    BY <2>6 DEF Break, Mend, IInv, TypeOK, Files
  <2>7. QED
    BY <2>2, <2>3, <2>4, <2>5, <2>6 DEF Next
<1>2. QED
  BY <1>1, Invariance, PTL DEF Spec, BrokenKept
-----------------------------------------------------------------------------
(* One launcher.                                                             *)

\* What one launcher saves is the file with nothing but its request carried out.
OneSaves == \A l \in Launchers :
    pc[l] \in Busy => copy[l] = CarriedOut(latest, asked[l])

\* Broken or not, what can be read of the file is what was saved.
Recoverable == path.library = latest

OneInv == IInv /\ Recoverable /\ ShowsSaved /\ OneSaves

LEMMA OneNext ==
  ASSUME NEW only, Launchers = {only}, OneInv, [Next]_vars
  PROVE  OneInv'
<1>1. IInv'
  BY NextIInv DEF OneInv
<1> SUFFICES (Recoverable /\ ShowsSaved /\ OneSaves)'
  BY <1>1 DEF OneInv
<1>2. CASE \E request \in Requests : Change(only, request)
  <2>1. PICK request \in Requests : Change(only, request)
    BY <1>2
  <2>2. PICK library \in Load(path) :
          /\ copy' = [copy EXCEPT ![only] = Edited(library, memory[only], request)]
          /\ asked' = [asked EXCEPT ![only] = request]
          /\ pc' = [pc EXCEPT ![only] = "create"]
    BY <2>1 DEF Change
  <2>3. UNCHANGED <<path, tmp, memory, latest>> /\ pc[only] = "idle"
    BY <2>1 DEF Change
  <2>4. library = path.library /\ path.is = "library"
    BY LoadType DEF OneInv, IInv, TypeOK
  <2>5. library = latest /\ memory[only] = latest
    BY <2>3, <2>4 DEF OneInv, Recoverable, ShowsSaved
  <2>6. request.field = "opened" => request.computer \in Saved(latest)
    BY <2>1, <2>5 DEF Change, Offers
  <2>7. CarriedOut(latest, request) = Edited(library, memory[only], request)
    BY <2>5, <2>6, CarriedOutEdited DEF OneInv, IInv, TypeOK
  <2>8. copy'[only] = CarriedOut(latest', asked'[only])
    BY <2>2, <2>3, <2>7 DEF OneInv, IInv, TypeOK
  <2>9. OneSaves'
    BY <2>8 DEF OneSaves
  <2>10. (Recoverable /\ ShowsSaved)'
    BY <2>3, <2>5 DEF OneInv, Recoverable, ShowsSaved
  <2>11. QED
    BY <2>9, <2>10
<1>3. CASE Create(only) \/ Write(only) \/ Sync(only)
  <2>1. UNCHANGED <<path, copy, asked, memory, latest>> /\ pc[only] \in Busy /\ pc'[only] \in Busy
    BY <1>3 DEF Create, Write, Sync, Busy, OneInv, IInv, TypeOK
  <2>2. pc[only] # "stopped"
    BY <2>1 DEF Busy
  <2>3. QED
    BY <2>1, <2>2 DEF OneInv, Recoverable, ShowsSaved, OneSaves
<1>4. CASE Rename(only)
  <2>1. /\ pc[only] = "rename" /\ path' = tmp[only]
        /\ memory' = [memory EXCEPT ![only] = copy[only]]
        /\ latest' = CarriedOut(latest, asked[only])
        /\ Rest(only)
    BY <1>4 DEF Rename, TmpName
  <2>2. path'.library = copy[only]
    BY <2>1 DEF OneInv, IInv, TmpRight, File
  <2>3. copy[only] = latest'
    BY <2>1 DEF OneInv, OneSaves, Busy
  <2>4. pc'[only] = "idle"
    BY <2>1, RestParts DEF OneInv
  <2>5. memory'[only] = latest'
    BY <2>1, <2>3 DEF OneInv, IInv, TypeOK
  <2>6. QED
    BY <2>2, <2>3, <2>4, <2>5 DEF Recoverable, ShowsSaved, OneSaves, Busy
<1>5. CASE Fail(only)
  <2>1. pc'[only] = "idle" /\ UNCHANGED <<path, memory, latest>>
    BY <1>5, RestParts DEF Fail, OneInv
  <2>2. pc[only] # "stopped"
    BY <1>5 DEF Fail
  <2>3. QED
    BY <2>1, <2>2 DEF OneInv, Recoverable, ShowsSaved, OneSaves, Busy
<1>6. CASE Start(only)
  <2>1. /\ pc' = [pc EXCEPT ![only] = "idle"]
        /\ memory' = [memory EXCEPT ![only] = IF Loadable(path) THEN path.library ELSE Default]
        /\ UNCHANGED <<path, copy, asked, latest>>
    BY <1>6 DEF Start
  <2>2. pc'[only] = "idle"
    BY <2>1 DEF OneInv, IInv, TypeOK
  <2>3. path.is # "broken" => Loadable(path)
    BY DEF OneInv, IInv, FileRight, Loadable, Fits
  <2>4. path.is # "broken" => memory'[only] = path.library
    BY <2>1, <2>3 DEF OneInv, IInv, TypeOK
  <2>5. QED
    BY <2>1, <2>2, <2>4 DEF OneInv, Recoverable, ShowsSaved, OneSaves, Busy
<1>7. CASE Stop(only) \/ PowerLoss
  <2>1. Stopped({}) /\ UNCHANGED <<path, latest>>
    BY <1>7 DEF Stop, PowerLoss, OneInv, IInv, FileRight
  <2>2. pc'[only] = "stopped"
    BY <2>1 DEF Stopped
  <2>3. QED
    BY <2>1, <2>2 DEF OneInv, Recoverable, ShowsSaved, OneSaves, Busy
<1>8. CASE Break
  <2>1. path'.is = "broken" /\ path'.library = path.library
        /\ UNCHANGED <<pc, copy, asked, memory, latest>>
    BY <1>8 DEF Break, OneInv, IInv, TypeOK, Files
  <2>2. QED
    BY <2>1 DEF OneInv, Recoverable, ShowsSaved, OneSaves
<1>9. CASE Mend
  <2>1. /\ pc[only] = "stopped" /\ path'.library = path.library
        /\ UNCHANGED <<pc, copy, asked, memory, latest>>
    BY <1>9 DEF Mend, OneInv, IInv, TypeOK, Files
  <2>2. QED
    BY <2>1 DEF OneInv, Recoverable, ShowsSaved, OneSaves
<1>10. CASE UNCHANGED vars
  BY <1>10 DEF vars, OneInv, Recoverable, ShowsSaved, OneSaves
<1>11. QED
  BY <1>2, <1>3, <1>4, <1>5, <1>6, <1>7, <1>8, <1>9, <1>10 DEF Next

LEMMA OneInvariance ==
  ASSUME NEW only, Launchers = {only}
  PROVE  Spec => []OneInv
<1>1. Init => OneInv
  <2> SUFFICES ASSUME Init PROVE OneInv
    OBVIOUS
  <2>1. IInv
    BY InitIInv
  <2>2. Recoverable /\ ShowsSaved /\ OneSaves
    BY DEF Init, File, Recoverable, ShowsSaved, OneSaves, Busy
  <2>3. QED
    BY <2>1, <2>2 DEF OneInv
<1>2. OneInv /\ [Next]_vars => OneInv'
  BY OneNext
<1>3. QED
  BY <1>1, <1>2, PTL DEF Spec

\* A launcher on its own loses nothing it said it saved, and saves nothing else.
THEOREM OneLosesNothing ==
  ASSUME NEW only, Launchers = {only}
  PROVE  Spec => []NothingLost
<1>1. OneInv => NothingLost
  BY DEF OneInv, Recoverable, NothingLost
<1>2. QED
  BY <1>1, OneInvariance, PTL

\* A launcher on its own shows what is saved.
THEOREM OneShowsSaved ==
  ASSUME NEW only, Launchers = {only}
  PROVE  Spec => []ShowsSaved
<1>1. OneInv => ShowsSaved
  BY DEF OneInv
<1>2. QED
  BY <1>1, OneInvariance, PTL
-----------------------------------------------------------------------------
(* The address of a computer (Endpoint): every text is read as what it     *)
(* names, of any length and over any characters.                           *)
(*                                                                         *)
(* An address has at least two colons and a name none, and neither has a   *)
(* bracket, a slash or a space: so each form of a text reaches its own     *)
(* branch of the parser, and no other form does.                           *)

(* A nonempty set of numbers has a least member, and a bounded one a       *)
(* greatest.                                                               *)
LEMMA LeastFound ==
  ASSUME NEW found \in SUBSET Nat, found # {}
  PROVE  Min(found) \in found /\ \A y \in found : Min(found) <= y
<1> DEFINE before == OpToRel(<, Nat)
<1>1. IsWellFoundedOn(before, Nat)
  BY NatLessThanWellFounded
<1>2. PICK x \in found : \A y \in found : <<y, x>> \notin before
  <2> HIDE DEF before
  <2>1. found \subseteq Nat
    OBVIOUS
  <2> QED BY <1>1, <2>1, WFMin
<1>3. ASSUME NEW y \in found PROVE x <= y
  <2>1. x \in Nat /\ y \in Nat
    OBVIOUS
  <2>2. ~(y < x)
    BY <1>2, <2>1 DEF OpToRel
  <2> QED BY <2>1, <2>2
<1> QED BY <1>3 DEF Min

LEMMA GreatestFound ==
  ASSUME NEW bound \in Nat, NEW found \in SUBSET (0 .. bound), found # {}
  PROVE  Max(found) \in found /\ \A y \in found : y <= Max(found)
<1> DEFINE rest == {bound - y : y \in found}
<1>0. \A y \in found : y \in 0 .. bound
  OBVIOUS
<1>1. rest \in SUBSET Nat /\ rest # {}
  <2>1. \A y \in found : bound - y \in Nat
    BY <1>0
  <2> QED BY <2>1
<1>2. Min(rest) \in rest /\ \A y \in rest : Min(rest) <= y
  <2> HIDE DEF rest
  <2> QED BY <1>1, LeastFound
<1>3. PICK x \in found : Min(rest) = bound - x
  BY <1>2
<1>4. ASSUME NEW y \in found PROVE x >= y
  <2>1. bound - x <= bound - y
    BY <1>2, <1>3
  <2>2. x \in 0 .. bound /\ y \in 0 .. bound
    OBVIOUS
  <2> QED BY <2>1, <2>2
<1>5. /\ Max(found) \in found
      /\ \A y \in found : Max(found) >= y
  BY <1>4 DEF Max
<1>6. \A y \in found : y \in Int
  OBVIOUS
<1> QED BY <1>5, <1>6

(* The characters of a text, one by one.                                   *)
LEMMA Characters ==
  ASSUME NEW T, NEW s \in Seq(T), NEW C, NEW c
  PROVE  /\ Len(s) \in Nat /\ DOMAIN s = 1 .. Len(s)
         /\ Only(s, C) <=> \A i \in 1 .. Len(s) : s[i] \in C
         /\ c \in Range(s) <=> \E i \in 1 .. Len(s) : s[i] = c
         /\ Occurrences(s, c) = {i \in 1 .. Len(s) : s[i] = c}
         /\ \A i \in 1 .. Len(s) : s[i] \in T
<1>1. Len(s) \in Nat /\ DOMAIN s = 1 .. Len(s)
  BY LenProperties
<1>2. \A i \in 1 .. Len(s) : s[i] \in T
  BY ElementOfSeq
<1> QED BY <1>1, <1>2 DEF Only, Occurrences, Range

LEMMA Piece ==
  ASSUME NEW T, NEW s \in Seq(T), NEW m \in 1 .. Len(s) + 1, NEW n \in 0 .. Len(s), m <= n + 1
  PROVE  /\ SubSeq(s, m, n) \in Seq(T)
         /\ Len(SubSeq(s, m, n)) = n - m + 1
         /\ \A i \in 1 .. n - m + 1 : SubSeq(s, m, n)[i] = s[m + i - 1]
<1>1. Len(s) \in Nat /\ m \in Int /\ n \in Int
  BY LenProperties
<1>2. \A i \in m .. n : s[i] \in T
  BY <1>1, ElementOfSeq
<1> QED BY <1>1, <1>2, SubSeqProperties

(* What is behind and in front of a place in a text.                       *)
LEMMA Sides ==
  ASSUME NEW T, NEW s \in Seq(T), NEW n \in 1 .. Len(s) + 1
  PROVE  /\ From(s, n) \in Seq(T) /\ Len(From(s, n)) = Len(s) - n + 1
         /\ \A i \in 1 .. Len(s) - n + 1 : From(s, n)[i] = s[n + i - 1]
         /\ Before(s, n) \in Seq(T) /\ Len(Before(s, n)) = n - 1
         /\ \A i \in 1 .. n - 1 : Before(s, n)[i] = s[i]
<1>1. Len(s) \in Nat /\ n \in Nat
  BY LenProperties
<1>2. /\ From(s, n) \in Seq(T) /\ Len(From(s, n)) = Len(s) - n + 1
      /\ \A i \in 1 .. Len(s) - n + 1 : From(s, n)[i] = s[n + i - 1]
  BY <1>1, Piece DEF From
<1>3. /\ Before(s, n) \in Seq(T) /\ Len(Before(s, n)) = n - 1 - 1 + 1
      /\ \A i \in 1 .. n - 1 - 1 + 1 : Before(s, n)[i] = s[1 + i - 1]
  BY <1>1, Piece DEF Before
<1> QED BY <1>1, <1>2, <1>3

(* A mark is found first where no other is in front of it.                 *)
LEMMA FirstMark ==
  ASSUME NEW T, NEW s \in Seq(T), NEW c, c \in Range(s)
  PROVE  LET n == Min(Occurrences(s, c)) IN
         /\ n \in 1 .. Len(s) /\ s[n] = c
         /\ \A i \in 1 .. n - 1 : s[i] # c
<1>1. Occurrences(s, c) \in SUBSET Nat /\ Occurrences(s, c) # {}
      /\ Occurrences(s, c) = {i \in 1 .. Len(s) : s[i] = c} /\ Len(s) \in Nat
  BY Characters
<1>2. /\ Min(Occurrences(s, c)) \in Occurrences(s, c)
      /\ \A i \in Occurrences(s, c) : Min(Occurrences(s, c)) <= i
  BY <1>1, LeastFound
<1> DEFINE n == Min(Occurrences(s, c))
<1>3. n \in 1 .. Len(s) /\ s[n] = c /\ \A i \in 1 .. Len(s) : s[i] = c => n <= i
  BY <1>1, <1>2
<1> HIDE DEF n
<1>4. \A i \in 1 .. n - 1 : i \in 1 .. Len(s) /\ ~(n <= i)
  BY <1>1, <1>3
<1>5. \A i \in 1 .. n - 1 : s[i] # c
  BY <1>3, <1>4
<1> QED BY <1>3, <1>5 DEF n

LEMMA MarkIsFirst ==
  ASSUME NEW T, NEW s \in Seq(T), NEW c, NEW n \in 1 .. Len(s), s[n] = c,
         \A i \in 1 .. n - 1 : s[i] # c
  PROVE  Min(Occurrences(s, c)) = n /\ c \in Range(s)
<1>1. c \in Range(s) /\ Len(s) \in Nat
  BY Characters
<1>2. LET m == Min(Occurrences(s, c)) IN
      m \in 1 .. Len(s) /\ s[m] = c /\ \A i \in 1 .. m - 1 : s[i] # c
  BY <1>1, FirstMark
<1> DEFINE m == Min(Occurrences(s, c))
<1>3. m \in 1 .. Len(s) /\ s[m] = c /\ \A i \in 1 .. m - 1 : s[i] # c
  BY <1>2
<1> HIDE DEF m
<1>4. ~(m < n) /\ ~(n < m)
  BY <1>1, <1>3
<1>5. m = n
  BY <1>1, <1>3, <1>4
<1> QED BY <1>1, <1>5 DEF m

(* Every character but the mark is in a part.                              *)
LEMMA InPart ==
  ASSUME NEW T, NEW s \in Seq(T), NEW mark, NEW i \in 1 .. Len(s), s[i] # mark
  PROVE  \E part \in Parts(s, mark) : part \in Seq(T) /\ \E j \in 1 .. Len(part) : part[j] = s[i]
<1> DEFINE ends == Occurrences(s, mark) \cup {Len(s) + 1}
           later == {m \in ends : m > i}
           n == Min(later)
           earlier == {0} \cup {m \in ends : m < n}
           k == Max(earlier)
<1>1. Len(s) \in Nat /\ Occurrences(s, mark) = {m \in 1 .. Len(s) : s[m] = mark}
  BY Characters
<1>2. later \in SUBSET Nat /\ Len(s) + 1 \in later
  BY <1>1
<1>3. n \in later /\ \A m \in later : n <= m
  <2> HIDE DEF later
  <2> QED BY <1>2, LeastFound
<1>4. n \in ends /\ n \in i + 1 .. Len(s) + 1
  BY <1>1, <1>3
<1>5. earlier \in SUBSET (0 .. Len(s) + 1) /\ earlier # {} /\ Len(s) + 1 \in Nat
  BY <1>1, <1>4
<1>6. k \in earlier
  <2> HIDE DEF earlier
  <2> QED BY <1>5, GreatestFound
<1>7. k \in 0 .. n - 1 /\ (k = 0 \/ k \in ends)
  BY <1>1, <1>4, <1>6
<1>8. k < i
  <2>1. ASSUME k \in ends PROVE k <= i
    <3>1. \A m \in ends : m > i => n <= m
      BY <1>3
    <3> HIDE DEF k, n, ends
    <3>2. ~(k > i)
      BY <2>1, <3>1, <1>4, <1>7
    <3> QED BY <3>2, <1>7
  <2>2. k # i
    BY <1>1, <1>7
  <2> QED BY <1>7, <2>1, <2>2
<1> DEFINE part == SubSeq(s, k + 1, n - 1)
<1>9. part \in Parts(s, mark)
  BY <1>4 DEF Parts
<1>10. /\ part \in Seq(T) /\ Len(part) = n - 1 - (k + 1) + 1
       /\ \A j \in 1 .. n - 1 - (k + 1) + 1 : part[j] = s[k + 1 + j - 1]
  <2>1. k + 1 \in 1 .. Len(s) + 1 /\ n - 1 \in 0 .. Len(s) /\ k + 1 <= n - 1 + 1
    BY <1>1, <1>4, <1>7
  <2> HIDE DEF k, n
  <2> QED BY <2>1, Piece
<1> HIDE DEF part, n, k
<1>11. i - k \in 1 .. Len(part) /\ k + 1 + (i - k) - 1 = i
  <2>1. i \in Nat /\ n \in Nat /\ k \in Nat /\ k < i /\ i < n
    BY <1>1, <1>4, <1>7, <1>8
  <2>2. Len(part) = n - 1 - (k + 1) + 1
    BY <1>10
  <2>3. i - k >= 1 /\ i - k <= n - 1 - (k + 1) + 1
    BY <2>1
  <2> QED BY <2>1, <2>2, <2>3
<1>12. part[i - k] = s[i]
  <2>1. i - k \in 1 .. n - 1 - (k + 1) + 1
    BY <1>10, <1>11
  <2> QED BY <1>10, <1>11, <2>1
<1> QED BY <1>9, <1>10, <1>11, <1>12

-----------------------------------------------------------------------------
(* What addresses and names are made of.                                   *)

Within(s, C) == \A i \in 1 .. Len(s) : s[i] \in C

LEMMA GroupsMade ==
  ASSUME NEW T, NEW s \in Seq(T), Groups(s)
  PROVE  Within(s, {"0", "1", ":"})
<1> SUFFICES ASSUME NEW i \in 1 .. Len(s), s[i] # ":"
             PROVE  s[i] \in {"0", "1"}
  BY DEF Within
<1>1. s # <<>>
  BY EmptySeq
<1>2. PICK part \in Parts(s, ":") : part \in Seq(T) /\ \E j \in 1 .. Len(part) : part[j] = s[i]
  BY InPart
<1>3. Only(part, {"0", "1"})
  BY <1>1, <1>2 DEF Groups
<1> QED BY <1>2, <1>3, Characters

(* Two colons next to each other.                                          *)
Doubled(s) == \E n \in 1 .. Len(s) : n < Len(s) /\ s[n] = ":" /\ s[n + 1] = ":"

LEMMA Ipv6AddrMade ==
  ASSUME NEW T, NEW s \in Seq(T), Ipv6Addr(s)
  PROVE  Within(s, {"0", "1", ":"}) /\ Doubled(s)
<1>1. Len(s) \in Nat /\ DOMAIN s = 1 .. Len(s)
  BY LenProperties
<1>2. PICK n \in 1 .. Len(s) : /\ n < Len(s) /\ s[n] = ":" /\ s[n + 1] = ":"
                               /\ Groups(Before(s, n)) /\ Groups(From(s, n + 2))
  BY <1>1 DEF Ipv6Addr
<1>3. n \in 1 .. Len(s) + 1 /\ n + 2 \in 1 .. Len(s) + 1
  BY <1>1, <1>2
<1>4. /\ Before(s, n) \in Seq(T) /\ Len(Before(s, n)) = n - 1
      /\ \A i \in 1 .. n - 1 : Before(s, n)[i] = s[i]
  BY <1>3, Sides
<1>5. /\ From(s, n + 2) \in Seq(T) /\ Len(From(s, n + 2)) = Len(s) - (n + 2) + 1
      /\ \A i \in 1 .. Len(s) - (n + 2) + 1 : From(s, n + 2)[i] = s[n + 2 + i - 1]
  BY <1>3, Sides
<1>6. Within(Before(s, n), {"0", "1", ":"}) /\ Within(From(s, n + 2), {"0", "1", ":"})
  BY <1>2, <1>4, <1>5, GroupsMade
<1>7. ASSUME NEW i \in 1 .. Len(s) PROVE s[i] \in {"0", "1", ":"}
  <2>1. CASE i < n
    <3>1. i \in 1 .. n - 1
      BY <1>1, <2>1
    <3> QED BY <3>1, <1>4, <1>6 DEF Within
  <2>2. CASE i = n \/ i = n + 1
    BY <1>2, <2>2
  <2>3. CASE i > n + 1
    <3>1. i - n - 1 \in 1 .. Len(s) - (n + 2) + 1 /\ n + 2 + (i - n - 1) - 1 = i
      BY <1>1, <2>3
    <3>2. From(s, n + 2)[i - n - 1] = s[i]
      BY <3>1, <1>5
    <3> QED BY <3>1, <3>2, <1>5, <1>6 DEF Within
  <2> QED BY <1>1, <2>1, <2>2, <2>3
<1> QED BY <1>2, <1>7 DEF Within, Doubled

LEMMA Ipv6Made ==
  ASSUME NEW T, NEW s \in Seq(T), Ipv6(s)
  PROVE  Within(s, Alnum \cup {":", "%", "-", "."}) /\ Doubled(s)
<1>1. Len(s) \in Nat /\ DOMAIN s = 1 .. Len(s)
  BY LenProperties
<1>2. CASE "%" \notin Range(s)
  <2>1. Within(s, {"0", "1", ":"}) /\ Doubled(s)
    BY <1>2, Ipv6AddrMade DEF Ipv6
  <2> QED BY <2>1 DEF Within, Alnum, Digits
<1>3. CASE "%" \in Range(s)
  <2> DEFINE n == Min(Occurrences(s, "%"))
             zone == From(s, n + 1)
  <2>1. n \in 1 .. Len(s) /\ s[n] = "%"
    BY <1>3, FirstMark
  <2>2. Only(zone, Alnum \cup {"-", "."}) /\ Ipv6Addr(Before(s, n))
    BY <1>3 DEF Ipv6
  <2> HIDE DEF n
  <2>3. n \in 1 .. Len(s) + 1 /\ n + 1 \in 1 .. Len(s) + 1
    BY <1>1, <2>1
  <2>4. /\ Before(s, n) \in Seq(T) /\ Len(Before(s, n)) = n - 1
        /\ \A i \in 1 .. n - 1 : Before(s, n)[i] = s[i]
    BY <2>3, Sides
  <2>5. /\ zone \in Seq(T) /\ Len(zone) = Len(s) - (n + 1) + 1
        /\ \A i \in 1 .. Len(s) - (n + 1) + 1 : zone[i] = s[n + 1 + i - 1]
    BY <2>3, Sides
  <2> HIDE DEF zone
  <2>6. Within(Before(s, n), {"0", "1", ":"}) /\ Doubled(Before(s, n))
    BY <2>2, <2>4, Ipv6AddrMade
  <2>7. Within(zone, Alnum \cup {"-", "."})
    BY <2>2, <2>5, Characters DEF Within
  <2>8. Doubled(s)
    <3>1. PICK m \in 1 .. n - 1 : m < n - 1 /\ Before(s, n)[m] = ":" /\ Before(s, n)[m + 1] = ":"
      BY <2>4, <2>6 DEF Doubled
    <3>2. m \in 1 .. Len(s) /\ m < Len(s) /\ m + 1 \in 1 .. n - 1
      BY <1>1, <2>1, <3>1
    <3> QED BY <2>4, <3>1, <3>2 DEF Doubled
  <2>9. ASSUME NEW i \in 1 .. Len(s) PROVE s[i] \in Alnum \cup {":", "%", "-", "."}
    <3>1. CASE i < n
      <4>1. i \in 1 .. n - 1
        BY <1>1, <2>1, <3>1
      <4> QED BY <4>1, <2>4, <2>6 DEF Within, Alnum, Digits
    <3>2. CASE i = n
      BY <2>1, <3>2
    <3>3. CASE i > n
      <4>1. i - n \in 1 .. Len(s) - (n + 1) + 1 /\ n + 1 + (i - n) - 1 = i
        BY <1>1, <2>1, <3>3
      <4>2. zone[i - n] = s[i]
        BY <4>1, <2>5
      <4>3. zone[i - n] \in Alnum \cup {"-", "."}
        BY <4>1, <2>5, <2>7 DEF Within
      <4> QED BY <4>2, <4>3
    <3> QED BY <1>1, <2>1, <3>1, <3>2, <3>3
  <2> QED BY <2>8, <2>9 DEF Within
<1> QED BY <1>2, <1>3

LEMMA HostnameMade ==
  ASSUME NEW T, NEW s \in Seq(T), Hostname(s)
  PROVE  s # <<>> /\ Within(s, Alnum \cup {"-", "."})
<1>1. s # <<>> /\ Len(s) \in Nat \ {0}
  BY EmptySeq DEF Hostname
<1>2. CASE "." \in Range(s) /\ Only(s, Digits \cup {"."})
  <2>1. \A i \in 1 .. Len(s) : s[i] \in Digits \cup {"."}
    BY <1>2, Characters
  <2> QED BY <1>1, <2>1 DEF Within, Alnum
<1>3. CASE ~("." \in Range(s) /\ Only(s, Digits \cup {"."}))
  <2> DEFINE name == IF s[Len(s)] = "." THEN Front(s) ELSE s
  <2>1. \A label \in Parts(name, ".") : HostLabel(label)
    BY <1>3 DEF Hostname
  <2>2. /\ name \in Seq(T) /\ Len(name) <= Len(s) /\ Len(name) \in Nat
        /\ \A i \in 1 .. Len(name) : name[i] = s[i]
        /\ \A i \in 1 .. Len(s) : s[i] = "." \/ i \in 1 .. Len(name)
    <3>1. CASE s[Len(s)] = "."
      <4>1. Len(s) \in 1 .. Len(s) + 1 /\ Front(s) = Before(s, Len(s))
        BY <1>1 DEF Front, Before
      <4>2. /\ Before(s, Len(s)) \in Seq(T) /\ Len(Before(s, Len(s))) = Len(s) - 1
            /\ \A i \in 1 .. Len(s) - 1 : Before(s, Len(s))[i] = s[i]
        BY <4>1, Sides
      <4>3. \A i \in 1 .. Len(s) : i = Len(s) \/ i \in 1 .. Len(s) - 1
        BY <1>1
      <4>4. name = Before(s, Len(s))
        BY <3>1, <4>1
      <4> HIDE DEF name
      <4> QED BY <1>1, <3>1, <4>2, <4>3, <4>4
    <3>2. CASE s[Len(s)] # "."
      BY <1>1, <3>2
    <3> QED BY <3>1, <3>2
  <2> HIDE DEF name
  <2>3. ASSUME NEW i \in 1 .. Len(name), name[i] # "."
        PROVE  name[i] \in Alnum \cup {"-"}
    <3>1. PICK part \in Parts(name, ".") : part \in Seq(T) /\ \E j \in 1 .. Len(part) : part[j] = name[i]
      BY <2>2, <2>3, InPart
    <3>2. Only(part, Alnum \cup {"-"})
      BY <2>1, <3>1 DEF HostLabel
    <3> QED BY <3>1, <3>2, Characters
  <2>4. \A i \in 1 .. Len(s) : s[i] \in Alnum \cup {"-", "."}
    BY <2>2, <2>3
  <2> QED BY <1>1, <2>4 DEF Within
<1> QED BY <1>2, <1>3

(* The colons of a text, counted.                                          *)
LEMMA ManyColons ==
  ASSUME NEW T, NEW s \in Seq(T), Doubled(s)
  PROVE  Cardinality(Occurrences(s, ":")) > 1
<1>1. Len(s) \in Nat /\ Occurrences(s, ":") = {i \in 1 .. Len(s) : s[i] = ":"}
  BY Characters
<1>2. PICK n \in 1 .. Len(s) : n < Len(s) /\ s[n] = ":" /\ s[n + 1] = ":"
  BY DEF Doubled
<1>3. {n, n + 1} \subseteq Occurrences(s, ":")
  BY <1>1, <1>2
<1>4. IsFiniteSet(Occurrences(s, ":"))
  <2>1. IsFiniteSet(1 .. Len(s)) /\ Occurrences(s, ":") \subseteq 1 .. Len(s)
    BY <1>1, FS_Interval
  <2> QED BY <2>1, FS_Subset
<1>5. Cardinality({n, n + 1}) <= Cardinality(Occurrences(s, ":")) /\ Cardinality(Occurrences(s, ":")) \in Nat
  BY <1>3, <1>4, FS_Subset, FS_CardinalityType
<1>6. Cardinality({n, n + 1}) = 2
  <2>1. n + 1 \notin {n}
    BY <1>1
  <2>2. IsFiniteSet({n}) /\ Cardinality({n}) = 1
    BY FS_Singleton
  <2>3. Cardinality({n} \cup {n + 1}) = Cardinality({n}) + 1
    BY <2>1, <2>2, FS_AddElement
  <2>4. {n, n + 1} = {n} \cup {n + 1}
    OBVIOUS
  <2> DEFINE both == Cardinality({n} \cup {n + 1})
  <2>5. both = 2
    BY <2>2, <2>3
  <2> QED BY <2>4, <2>5
<1> QED BY <1>5, <1>6

LEMMA FewColons ==
  ASSUME NEW T, NEW s \in Seq(T), NEW n, \A i \in 1 .. Len(s) : s[i] = ":" => i = n
  PROVE  ~(Cardinality(Occurrences(s, ":")) > 1)
<1>1. Occurrences(s, ":") \subseteq {n}
  BY Characters
<1>2. IsFiniteSet({n}) /\ Cardinality({n}) = 1
  BY FS_Singleton
<1>3. Cardinality(Occurrences(s, ":")) <= 1 /\ Cardinality(Occurrences(s, ":")) \in Nat
  BY <1>1, <1>2, FS_Subset, FS_CardinalityType
<1> QED BY <1>3

-----------------------------------------------------------------------------
(* Which branch of the parser takes a text.                                *)
Clean(s) == s # <<>> /\ Range(s) \cap {" ", "/"} = {}

LEMMA Branches ==
  ASSUME NEW s
  PROVE  /\ ~Clean(s) => ParseTrimmed(s) = {}
         /\ Clean(s) =>
              /\ s[1] = "[" => ParseTrimmed(s) = ParseBracketed(s)
              /\ s[1] # "[" /\ Cardinality(Occurrences(s, ":")) > 1 =>
                   ParseTrimmed(s) = IF Ipv6(s) THEN Unported(s) ELSE {}
              /\ s[1] # "[" /\ ~(Cardinality(Occurrences(s, ":")) > 1) => ParseTrimmed(s) = ParseNamed(s)
<1> DEFINE dirty == s = <<>> \/ Range(s) \cap {" ", "/"} # {}
           many == Cardinality(Occurrences(s, ":")) > 1
<1>1. ParseTrimmed(s) =
        IF dirty THEN {}
        ELSE IF s[1] = "[" THEN ParseBracketed(s)
        ELSE IF many THEN (IF Ipv6(s) THEN Unported(s) ELSE {}) ELSE ParseNamed(s)
  BY DEF ParseTrimmed
<1>2. dirty <=> ~Clean(s)
  BY DEF Clean
<1> HIDE DEF dirty, many
<1>3. CASE ~Clean(s)
  BY <1>1, <1>2, <1>3
<1>4. CASE Clean(s)
  <2>1. s[1] = "[" => ParseTrimmed(s) = ParseBracketed(s)
    BY <1>1, <1>2, <1>4
  <2>2. s[1] # "[" /\ many => ParseTrimmed(s) = IF Ipv6(s) THEN Unported(s) ELSE {}
    BY <1>1, <1>2, <1>4
  <2>3. s[1] # "[" /\ ~(many) => ParseTrimmed(s) = ParseNamed(s)
    BY <1>1, <1>2, <1>4
  <2> QED BY <1>4, <2>1, <2>2, <2>3 DEF many
<1> QED BY <1>3, <1>4

Solid == {"[", "]", ":", "%", "-", "."} \cup Alnum

LEMMA SolidText ==
  ASSUME NEW T, NEW s \in Seq(T), s # <<>>, Within(s, Solid)
  PROVE  Clean(s) /\ 1 \in 1 .. Len(s)
<1>1. ASSUME NEW c \in {" ", "/"} PROVE c \notin Range(s)
  <2>1. c \in Range(s) <=> \E i \in 1 .. Len(s) : s[i] = c
    BY LenProperties DEF Range
  <2>2. c \notin Solid
    BY DEF Solid, Alnum, Digits
  <2> QED BY <2>1, <2>2 DEF Within
<1>2. Len(s) \in Nat \ {0}
  BY EmptySeq
<1>3. 1 \in 1 .. Len(s)
  BY <1>2
<1> QED BY <1>1, <1>3 DEF Clean

(* An address on its own.                                                  *)
LEMMA ReadsAddress ==
  ASSUME NEW T, NEW s \in Seq(T), Ipv6(s)
  PROVE  ParseTrimmed(s) = Unported(s)
<1>1. Within(s, Alnum \cup {":", "%", "-", "."}) /\ Doubled(s)
  BY Ipv6Made
<1>2. s # <<>> /\ Within(s, Solid)
  BY <1>1, EmptySeq DEF Within, Doubled, Solid
<1>3. Clean(s) /\ s[1] # "["
  BY <1>1, <1>2, SolidText DEF Within, Alnum, Digits
<1>4. Cardinality(Occurrences(s, ":")) > 1
  BY <1>1, ManyColons
<1> QED BY <1>2, <1>3, <1>4, Branches

(* A name on its own.                                                      *)
LEMMA ReadsName ==
  ASSUME NEW T, NEW s \in Seq(T), Hostname(s)
  PROVE  ParseTrimmed(s) = Unported(s)
<1>1. Within(s, Alnum \cup {"-", "."}) /\ s # <<>>
  BY HostnameMade
<1>2. Within(s, Solid)
  BY <1>1 DEF Within, Solid
<1>3. Clean(s) /\ s[1] # "["
  BY <1>1, <1>2, SolidText DEF Within, Alnum, Digits
<1>4. ~(Cardinality(Occurrences(s, ":")) > 1)
  BY <1>1, FewColons DEF Within, Alnum, Digits
<1>5. ParseTrimmed(s) = ParseNamed(s)
  BY <1>1, <1>3, <1>4, Branches
<1> QED BY <1>5 DEF ParseNamed

(* A name and a port.                                                      *)
LEMMA ReadsNameAndPort ==
  ASSUME NEW T, NEW s \in Seq(T), NEW n \in 1 .. Len(s), s[n] = ":",
         Hostname(Before(s, n)), Only(From(s, n + 1), Digits)
  PROVE  ParseTrimmed(s) = Ported(Before(s, n), From(s, n + 1))
<1>1. Len(s) \in Nat /\ n \in 1 .. Len(s) + 1 /\ n + 1 \in 1 .. Len(s) + 1
  BY LenProperties
<1>2. /\ Before(s, n) \in Seq(T) /\ Len(Before(s, n)) = n - 1
      /\ \A i \in 1 .. n - 1 : Before(s, n)[i] = s[i]
  BY <1>1, Sides
<1>3. /\ From(s, n + 1) \in Seq(T) /\ Len(From(s, n + 1)) = Len(s) - (n + 1) + 1
      /\ \A i \in 1 .. Len(s) - (n + 1) + 1 : From(s, n + 1)[i] = s[n + 1 + i - 1]
  BY <1>1, Sides
<1>4. Within(Before(s, n), Alnum \cup {"-", "."}) /\ Before(s, n) # <<>>
  BY <1>2, HostnameMade
<1>5. Within(From(s, n + 1), Digits)
  BY <1>3, Characters DEF Within
<1>6. ASSUME NEW i \in 1 .. Len(s)
      PROVE  /\ i = n \/ s[i] \in Alnum \cup {"-", "."}
             /\ i < n => s[i] \in Alnum \cup {"-", "."}
  <2>1. CASE i < n
    <3>1. i \in 1 .. n - 1
      BY <2>1
    <3> QED BY <3>1, <1>2, <1>4 DEF Within
  <2>2. CASE i > n
    <3>1. i - n \in 1 .. Len(s) - (n + 1) + 1 /\ n + 1 + (i - n) - 1 = i
      BY <1>1, <2>2
    <3>2. From(s, n + 1)[i - n] = s[i]
      BY <3>1, <1>3
    <3>3. s[i] \in Digits
      BY <3>1, <3>2, <1>3, <1>5 DEF Within
    <3> QED BY <3>3, <2>2 DEF Alnum
  <2> QED BY <1>1, <2>1, <2>2
<1>7. s # <<>> /\ Within(s, Solid)
  <2>1. s # <<>>
    BY EmptySeq
  <2>2. \A i \in 1 .. Len(s) : s[i] \in Solid
    BY <1>6 DEF Solid
  <2> QED BY <2>1, <2>2 DEF Within
<1>8. n > 1
  BY <1>1, <1>2, <1>4, EmptySeq
<1>9. Clean(s) /\ s[1] # "["
  <2>1. 1 \in 1 .. Len(s) /\ 1 < n
    BY <1>1, <1>8
  <2>2. s[1] \in Alnum \cup {"-", "."}
    BY <1>6, <2>1
  <2> QED BY <1>7, <2>2, SolidText DEF Alnum, Digits
<1>10. \A i \in 1 .. Len(s) : s[i] = ":" => i = n
  BY <1>6 DEF Alnum, Digits
<1>11. ParseTrimmed(s) = ParseNamed(s)
  BY <1>7, <1>9, <1>10, FewColons, Branches
<1>12. ~Hostname(s)
  <2>1. ASSUME Hostname(s) PROVE FALSE
    <3>1. s[n] \in Alnum \cup {"-", "."}
      BY <2>1, HostnameMade DEF Within
    <3> QED BY <3>1 DEF Alnum, Digits
  <2> QED BY <2>1
<1>13. \A i \in 1 .. n - 1 : s[i] # ":"
  BY <1>1, <1>10
<1>14. Min(Occurrences(s, ":")) = n /\ Occurrences(s, ":") # {}
  BY <1>13, MarkIsFirst, Characters
<1> QED BY <1>11, <1>12, <1>14 DEF ParseNamed

(* An address in brackets, with or without a port.                         *)
LEMMA ReadsBracketed ==
  ASSUME NEW T, NEW s \in Seq(T), NEW end \in 2 .. Len(s), s[1] = "[", s[end] = "]",
         Ipv6(SubSeq(s, 2, end - 1)), Only(From(s, end + 1), Digits \cup {":"})
  PROVE  LET host == SubSeq(s, 2, end - 1)
             after == From(s, end + 1)
         IN  ParseTrimmed(s) = IF after = <<>> THEN Unported(host)
                               ELSE IF after[1] = ":" THEN Ported(host, Tail(after)) ELSE {}
<1> DEFINE host == SubSeq(s, 2, end - 1)
           after == From(s, end + 1)
<1>1. /\ Len(s) \in Nat /\ end \in Nat /\ 2 \in 1 .. Len(s) + 1 /\ end - 1 \in 0 .. Len(s) /\ 2 <= end - 1 + 1
      /\ end + 1 \in 1 .. Len(s) + 1
  BY LenProperties
<1>2. /\ host \in Seq(T) /\ Len(host) = end - 1 - 2 + 1
      /\ \A i \in 1 .. end - 1 - 2 + 1 : host[i] = s[2 + i - 1]
  BY <1>1, Piece
<1>3. /\ after \in Seq(T) /\ Len(after) = Len(s) - (end + 1) + 1
      /\ \A i \in 1 .. Len(s) - (end + 1) + 1 : after[i] = s[end + 1 + i - 1]
  BY <1>1, Sides
<1>4. ParseBracketed(s) =
        IF "]" \notin Range(s) THEN {}
        ELSE LET n == Min(Occurrences(s, "]")) IN
             IF ~Ipv6(SubSeq(s, 2, n - 1)) THEN {}
             ELSE IF From(s, n + 1) = <<>> THEN Unported(SubSeq(s, 2, n - 1))
             ELSE IF From(s, n + 1)[1] = ":" THEN Ported(SubSeq(s, 2, n - 1), Tail(From(s, n + 1))) ELSE {}
  BY DEF ParseBracketed
<1>5. Ipv6(host) /\ Only(after, Digits \cup {":"})
  OBVIOUS
<1> HIDE DEF host, after
<1>6. Within(host, Alnum \cup {":", "%", "-", "."})
  BY <1>2, <1>5, Ipv6Made
<1>7. Within(after, Digits \cup {":"})
  BY <1>3, <1>5, Characters DEF Within
<1>8. ASSUME NEW i \in 1 .. Len(s), i # 1, i # end
      PROVE  s[i] \in Alnum \cup {":", "%", "-", "."}
  <2>1. CASE i < end
    <3>1. i - 1 \in 1 .. end - 1 - 2 + 1 /\ 2 + (i - 1) - 1 = i
      BY <1>1, <1>8, <2>1
    <3>2. host[i - 1] = s[i]
      BY <3>1, <1>2
    <3> QED BY <3>1, <3>2, <1>2, <1>6 DEF Within
  <2>2. CASE i > end
    <3>1. i - end \in 1 .. Len(s) - (end + 1) + 1 /\ end + 1 + (i - end) - 1 = i
      BY <1>1, <2>2
    <3>2. after[i - end] = s[i]
      BY <3>1, <1>3
    <3>3. s[i] \in Digits \cup {":"}
      BY <3>1, <3>2, <1>3, <1>7 DEF Within
    <3> QED BY <3>3 DEF Alnum
  <2> QED BY <1>1, <1>8, <2>1, <2>2
<1>9. s # <<>> /\ Within(s, Solid)
  <2>1. s # <<>>
    BY <1>1, EmptySeq
  <2>2. \A i \in 1 .. Len(s) : s[i] \in Solid
    BY <1>8 DEF Solid
  <2> QED BY <2>1, <2>2 DEF Within
<1>10. Clean(s)
  BY <1>9, SolidText
<1>11. ParseTrimmed(s) = ParseBracketed(s)
  BY <1>10, Branches
<1>12. \A i \in 1 .. end - 1 : s[i] # "]"
  <2> SUFFICES ASSUME NEW i \in 1 .. end - 1 PROVE s[i] # "]"
    OBVIOUS
  <2>1. i \in 1 .. Len(s) /\ i # end
    BY <1>1
  <2> QED BY <1>8, <2>1 DEF Alnum, Digits
<1>13. Min(Occurrences(s, "]")) = end /\ "]" \in Range(s)
  BY <1>1, <1>12, MarkIsFirst
<1>14. ParseBracketed(s) =
         IF ~Ipv6(host) THEN {}
         ELSE IF after = <<>> THEN Unported(host)
         ELSE IF after[1] = ":" THEN Ported(host, Tail(after)) ELSE {}
  BY <1>4, <1>13 DEF host, after
<1>15. ParseTrimmed(s) = IF after = <<>> THEN Unported(host)
                         ELSE IF after[1] = ":" THEN Ported(host, Tail(after)) ELSE {}
  BY <1>5, <1>11, <1>14
<1> QED BY <1>15 DEF host, after

-----------------------------------------------------------------------------
(* The forms of a text, character by character.                            *)
LEMMA Joined ==
  ASSUME NEW T, {"[", "]", ":"} \subseteq T, NEW h \in Seq(T), NEW d \in Seq(T)
  PROVE  /\ LET s == <<"[">> \o h \o <<"]">> IN
            /\ s \in Seq(T) /\ Len(s) = Len(h) + 2 /\ s[1] = "[" /\ s[Len(h) + 2] = "]"
            /\ \A i \in 1 .. Len(h) : s[i + 1] = h[i]
         /\ LET s == <<"[">> \o h \o <<"]", ":">> \o d IN
            /\ s \in Seq(T) /\ Len(s) = Len(h) + 3 + Len(d)
            /\ s[1] = "[" /\ s[Len(h) + 2] = "]" /\ s[Len(h) + 3] = ":"
            /\ \A i \in 1 .. Len(h) : s[i + 1] = h[i]
            /\ \A i \in 1 .. Len(d) : s[Len(h) + 3 + i] = d[i]
         /\ LET s == h \o <<":">> \o d IN
            /\ s \in Seq(T) /\ Len(s) = Len(h) + 1 + Len(d) /\ s[Len(h) + 1] = ":"
            /\ \A i \in 1 .. Len(h) : s[i] = h[i]
            /\ \A i \in 1 .. Len(d) : s[Len(h) + 1 + i] = d[i]
<1>1. /\ <<"[">> \in Seq(T) /\ <<"]">> \in Seq(T) /\ <<":">> \in Seq(T) /\ <<"]", ":">> \in Seq(T)
      /\ Len(h) \in Nat /\ Len(d) \in Nat
  BY LenProperties
<1> DEFINE a == <<"[">> \o h
           b == a \o <<"]">>
           c == a \o <<"]", ":">>
           e == h \o <<":">>
<1>2. /\ a \in Seq(T) /\ Len(a) = 1 + Len(h)
      /\ \A i \in 1 .. 1 + Len(h) : a[i] = IF i <= 1 THEN <<"[">>[i] ELSE h[i - 1]
  BY <1>1, ConcatProperties
<1>3. /\ e \in Seq(T) /\ Len(e) = Len(h) + 1
      /\ \A i \in 1 .. Len(h) + 1 : e[i] = IF i <= Len(h) THEN h[i] ELSE <<":">>[i - Len(h)]
  BY <1>1, ConcatProperties
<1>4. a[1] = "[" /\ \A i \in 1 .. Len(h) : a[i + 1] = h[i]
  <2>1. 1 \in 1 .. 1 + Len(h)
    BY <1>1
  <2>2. a[1] = "["
    BY <1>2, <2>1
  <2>3. ASSUME NEW i \in 1 .. Len(h) PROVE a[i + 1] = h[i]
    <3>1. i + 1 \in 1 .. 1 + Len(h) /\ ~(i + 1 <= 1) /\ i + 1 - 1 = i
      BY <1>1
    <3> QED BY <1>2, <3>1
  <2> QED BY <2>2, <2>3
<1>5. e[Len(h) + 1] = ":" /\ \A i \in 1 .. Len(h) : e[i] = h[i]
  <2>1. Len(h) + 1 \in 1 .. Len(h) + 1 /\ ~(Len(h) + 1 <= Len(h)) /\ Len(h) + 1 - Len(h) = 1
    BY <1>1
  <2>2. e[Len(h) + 1] = ":"
    BY <1>3, <2>1
  <2>3. \A i \in 1 .. Len(h) : i \in 1 .. Len(h) + 1 /\ i <= Len(h)
    BY <1>1
  <2> QED BY <1>3, <2>2, <2>3
<1> HIDE DEF a, e
<1>6. /\ b \in Seq(T) /\ Len(b) = Len(h) + 2 /\ b[1] = "[" /\ b[Len(h) + 2] = "]"
      /\ \A i \in 1 .. Len(h) : b[i + 1] = h[i]
  <2>1. /\ b \in Seq(T) /\ Len(b) = Len(a) + 1
        /\ \A i \in 1 .. Len(a) + 1 : b[i] = IF i <= Len(a) THEN a[i] ELSE <<"]">>[i - Len(a)]
    BY <1>1, <1>2, ConcatProperties
  <2> HIDE DEF b
  <2>2. /\ 1 \in 1 .. Len(a) + 1 /\ 1 <= Len(a) /\ Len(h) + 2 \in 1 .. Len(a) + 1
        /\ ~(Len(h) + 2 <= Len(a)) /\ Len(h) + 2 - Len(a) = 1
        /\ \A i \in 1 .. Len(h) : i + 1 \in 1 .. Len(a) + 1 /\ i + 1 <= Len(a)
    BY <1>1, <1>2
  <2>3. b[1] = "[" /\ b[Len(h) + 2] = "]"
    BY <1>4, <2>1, <2>2
  <2>4. \A i \in 1 .. Len(h) : b[i + 1] = h[i]
    BY <1>4, <2>1, <2>2
  <2> QED BY <1>1, <1>2, <2>1, <2>3, <2>4
<1>7. /\ c \in Seq(T) /\ Len(c) = Len(h) + 3 /\ c[1] = "[" /\ c[Len(h) + 2] = "]" /\ c[Len(h) + 3] = ":"
      /\ \A i \in 1 .. Len(h) : c[i + 1] = h[i]
  <2>1. /\ c \in Seq(T) /\ Len(c) = Len(a) + 2
        /\ \A i \in 1 .. Len(a) + 2 : c[i] = IF i <= Len(a) THEN a[i] ELSE <<"]", ":">>[i - Len(a)]
    BY <1>1, <1>2, ConcatProperties
  <2> HIDE DEF c
  <2>2. /\ 1 \in 1 .. Len(a) + 2 /\ 1 <= Len(a)
        /\ Len(h) + 2 \in 1 .. Len(a) + 2 /\ ~(Len(h) + 2 <= Len(a)) /\ Len(h) + 2 - Len(a) = 1
        /\ Len(h) + 3 \in 1 .. Len(a) + 2 /\ ~(Len(h) + 3 <= Len(a)) /\ Len(h) + 3 - Len(a) = 2
        /\ \A i \in 1 .. Len(h) : i + 1 \in 1 .. Len(a) + 2 /\ i + 1 <= Len(a)
    BY <1>1, <1>2
  <2>3. c[1] = "[" /\ c[Len(h) + 2] = "]" /\ c[Len(h) + 3] = ":"
    BY <1>4, <2>1, <2>2
  <2>4. \A i \in 1 .. Len(h) : c[i + 1] = h[i]
    BY <1>4, <2>1, <2>2
  <2> QED BY <1>1, <1>2, <2>1, <2>3, <2>4
<1> HIDE DEF b, c
<1>8. ASSUME NEW f \in Seq(T)
      PROVE  /\ f \o d \in Seq(T) /\ Len(f \o d) = Len(f) + Len(d)
             /\ \A i \in 1 .. Len(f) : (f \o d)[i] = f[i]
             /\ \A i \in 1 .. Len(d) : (f \o d)[Len(f) + i] = d[i]
  <2>1. /\ f \o d \in Seq(T) /\ Len(f \o d) = Len(f) + Len(d) /\ Len(f) \in Nat
        /\ \A i \in 1 .. Len(f) + Len(d) : (f \o d)[i] = IF i <= Len(f) THEN f[i] ELSE d[i - Len(f)]
    BY ConcatProperties, LenProperties
  <2>2. \A i \in 1 .. Len(f) : i \in 1 .. Len(f) + Len(d) /\ i <= Len(f)
    BY <1>1, <2>1
  <2>3. \A i \in 1 .. Len(d) : Len(f) + i \in 1 .. Len(f) + Len(d) /\ ~(Len(f) + i <= Len(f)) /\ Len(f) + i - Len(f) = i
    BY <1>1, <2>1
  <2>4. \A i \in 1 .. Len(f) : (f \o d)[i] = f[i]
    BY <2>1, <2>2
  <2>5. ASSUME NEW i \in 1 .. Len(d) PROVE (f \o d)[Len(f) + i] = d[i]
    <3>1. Len(f) + i \in 1 .. Len(f) + Len(d) /\ ~(Len(f) + i <= Len(f)) /\ Len(f) + i - Len(f) = i
      BY <2>3
    <3> QED BY <2>1, <3>1
  <2> QED BY <2>1, <2>4, <2>5
<1> DEFINE s2 == c \o d
           s3 == e \o d
<1>9. /\ s2 \in Seq(T) /\ Len(s2) = Len(h) + 3 + Len(d)
      /\ s2[1] = "[" /\ s2[Len(h) + 2] = "]" /\ s2[Len(h) + 3] = ":"
      /\ \A i \in 1 .. Len(h) : s2[i + 1] = h[i]
      /\ \A i \in 1 .. Len(d) : s2[Len(h) + 3 + i] = d[i]
  <2>1. /\ s2 \in Seq(T) /\ Len(s2) = Len(c) + Len(d)
        /\ \A i \in 1 .. Len(c) : s2[i] = c[i]
        /\ \A i \in 1 .. Len(d) : s2[Len(c) + i] = d[i]
    BY <1>7, <1>8
  <2> HIDE DEF s2
  <2>2. /\ 1 \in 1 .. Len(c) /\ Len(h) + 2 \in 1 .. Len(c) /\ Len(h) + 3 \in 1 .. Len(c)
        /\ \A i \in 1 .. Len(h) : i + 1 \in 1 .. Len(c)
    BY <1>1, <1>7
  <2> QED BY <1>7, <2>1, <2>2
<1>10. /\ s3 \in Seq(T) /\ Len(s3) = Len(h) + 1 + Len(d) /\ s3[Len(h) + 1] = ":"
       /\ \A i \in 1 .. Len(h) : s3[i] = h[i]
       /\ \A i \in 1 .. Len(d) : s3[Len(h) + 1 + i] = d[i]
  <2>1. /\ s3 \in Seq(T) /\ Len(s3) = Len(e) + Len(d)
        /\ \A i \in 1 .. Len(e) : s3[i] = e[i]
        /\ \A i \in 1 .. Len(d) : s3[Len(e) + i] = d[i]
    BY <1>3, <1>8
  <2> HIDE DEF s3
  <2>2. Len(h) + 1 \in 1 .. Len(e) /\ \A i \in 1 .. Len(h) : i \in 1 .. Len(e)
    BY <1>1, <1>3
  <2> QED BY <1>3, <1>5, <2>1, <2>2
<1>11. b = <<"[">> \o h \o <<"]">> /\ s2 = <<"[">> \o h \o <<"]", ":">> \o d /\ s3 = h \o <<":">> \o d
  BY DEF a, b, c, e
<1> HIDE DEF s2, s3
<1> QED BY <1>6, <1>9, <1>10, <1>11

PortForm(T, s, h, d) ==
  /\ s \in Seq(T) /\ Len(s) = Len(h) + 3 + Len(d)
  /\ s[1] = "[" /\ s[Len(h) + 2] = "]" /\ s[Len(h) + 3] = ":"
  /\ \A i \in 1 .. Len(h) : s[i + 1] = h[i]
  /\ \A i \in 1 .. Len(d) : s[Len(h) + 3 + i] = d[i]

LEMMA JoinedPort ==
  ASSUME NEW T, {"[", "]", ":"} \subseteq T, NEW h \in Seq(T), NEW d \in Seq(T)
  PROVE  PortForm(T, <<"[">> \o h \o <<"]", ":">> \o d, h, d)
BY Joined DEF PortForm

-----------------------------------------------------------------------------
(* What a text means is what it is read as, form by form.                  *)

MeansAlone(s, m) ==
  \E first \in {1, 2}, last \in DOMAIN s :
    /\ s \in Written(SubSeq(s, first, last), <<>>)
    /\ m = [host |-> SubSeq(s, first, last), port |-> DEFAULT_PORT]

IsPort(digits) == Only(digits, Digits) /\ Number(digits) \in Ports

MeansPort(s, m) ==
  \E first \in {1, 2}, last \in DOMAIN s, n \in DOMAIN s :
    /\ IsPort(From(s, n))
    /\ s \in Written(SubSeq(s, first, last), From(s, n))
    /\ m = [host |-> SubSeq(s, first, last), port |-> Number(From(s, n))]

LEMMA MeaningsAre ==
  ASSUME NEW s, NEW m
  PROVE  m \in Meanings(s) <=> MeansAlone(s, m) \/ MeansPort(s, m)
<1> DEFINE hosts == {SubSeq(s, first, last) : first \in {1, 2}, last \in DOMAIN s}
           ports == {digits \in {From(s, n) : n \in DOMAIN s} : Only(digits, Digits) /\ Number(digits) \in Ports}
           alone == {[host |-> host, port |-> DEFAULT_PORT] : host \in {h \in hosts : s \in Written(h, <<>>)}}
           ported == UNION {{[host |-> host, port |-> Number(digits)] : host \in {h \in hosts : s \in Written(h, digits)}} :
                              digits \in ports}
<1>1. Meanings(s) = alone \cup ported
  BY DEF Meanings
<1>2. \A x : x \in hosts <=> \E first \in {1, 2}, last \in DOMAIN s : x = SubSeq(s, first, last)
  OBVIOUS
<1>3. \A x : x \in ports <=> \E n \in DOMAIN s : x = From(s, n) /\ IsPort(x)
  <2> DEFINE behind == {From(s, n) : n \in DOMAIN s}
  <2>1. \A x : x \in behind <=> \E n \in DOMAIN s : x = From(s, n)
    OBVIOUS
  <2>2. ports = {digits \in behind : IsPort(digits)}
    BY DEF IsPort
  <2> HIDE DEF behind, ports
  <2>3. \A x : x \in ports <=> x \in behind /\ IsPort(x)
    BY <2>2
  <2> QED BY <2>1, <2>3
<1> HIDE DEF hosts, ports
<1>4. m \in alone <=> \E host \in hosts : s \in Written(host, <<>>) /\ m = [host |-> host, port |-> DEFAULT_PORT]
  OBVIOUS
<1>5. m \in ported <=>
        \E digits \in ports : \E host \in hosts :
           s \in Written(host, digits) /\ m = [host |-> host, port |-> Number(digits)]
  <2> DEFINE named(digits) == {h \in hosts : s \in Written(h, digits)}
             meant(digits) == {[host |-> host, port |-> Number(digits)] : host \in named(digits)}
  <2>1. ported = UNION {meant(digits) : digits \in ports}
    OBVIOUS
  <2>2. ASSUME NEW digits
        PROVE  m \in meant(digits) <=> \E host \in hosts :
                  s \in Written(host, digits) /\ m = [host |-> host, port |-> Number(digits)]
    OBVIOUS
  <2> HIDE DEF ported, meant
  <2>3. m \in ported <=> \E digits \in ports : m \in meant(digits)
    BY <2>1
  <2> QED BY <2>2, <2>3
<1> HIDE DEF alone, ported, hosts, ports
<1>6. m \in alone <=> MeansAlone(s, m)
  BY <1>2, <1>4 DEF MeansAlone
<1>7. ASSUME m \in ported PROVE MeansPort(s, m)
  <2>1. PICK digits \in ports : \E host \in hosts :
               s \in Written(host, digits) /\ m = [host |-> host, port |-> Number(digits)]
    BY <1>5, <1>7
  <2>2. PICK host \in hosts : s \in Written(host, digits) /\ m = [host |-> host, port |-> Number(digits)]
    BY <2>1
  <2>3. PICK n \in DOMAIN s : digits = From(s, n) /\ IsPort(digits)
    BY <1>3
  <2>4. PICK first \in {1, 2}, last \in DOMAIN s : host = SubSeq(s, first, last)
    BY <1>2
  <2> QED BY <2>2, <2>3, <2>4 DEF MeansPort
<1>8. ASSUME MeansPort(s, m) PROVE m \in ported
  <2>1. PICK first \in {1, 2}, last \in DOMAIN s, n \in DOMAIN s :
          /\ IsPort(From(s, n)) /\ s \in Written(SubSeq(s, first, last), From(s, n))
          /\ m = [host |-> SubSeq(s, first, last), port |-> Number(From(s, n))]
    BY <1>8 DEF MeansPort
  <2>2. From(s, n) \in ports /\ SubSeq(s, first, last) \in hosts
    BY <1>2, <1>3, <2>1
  <2> QED BY <1>5, <2>1, <2>2
<1> QED BY <1>1, <1>6, <1>7, <1>8

LEMMA AloneIsRead ==
  ASSUME NEW T, {"[", "]", ":"} \subseteq T, NEW s \in Seq(T), NEW h \in Seq(T), s \in Written(h, <<>>)
  PROVE  [host |-> h, port |-> DEFAULT_PORT] \in ParseTrimmed(s)
<1>1. \/ Ipv6(h) /\ s = h
      \/ Ipv6(h) /\ s = <<"[">> \o h \o <<"]">>
      \/ Hostname(h) /\ s = h
  BY DEF Written
<1>2. CASE (Ipv6(h) \/ Hostname(h)) /\ s = h
  BY <1>2, ReadsAddress, ReadsName DEF Unported
<1>3. CASE Ipv6(h) /\ s = <<"[">> \o h \o <<"]">>
  <2>1. /\ Len(s) = Len(h) + 2 /\ s[1] = "[" /\ s[Len(h) + 2] = "]"
        /\ \A i \in 1 .. Len(h) : s[i + 1] = h[i]
    BY <1>3, Joined
  <2> DEFINE end == Len(h) + 2
  <2>2. Len(h) \in Nat /\ Len(s) \in Nat
    BY LenProperties
  <2>3. end \in 2 .. Len(s) /\ 2 \in 1 .. Len(s) + 1 /\ end - 1 \in 0 .. Len(s) /\ 2 <= end - 1 + 1
        /\ end + 1 \in 1 .. Len(s) + 1
    BY <2>1, <2>2
  <2>4. /\ SubSeq(s, 2, end - 1) \in Seq(T) /\ Len(SubSeq(s, 2, end - 1)) = end - 1 - 2 + 1
        /\ \A i \in 1 .. end - 1 - 2 + 1 : SubSeq(s, 2, end - 1)[i] = s[2 + i - 1]
    BY <2>3, Piece
  <2>5. SubSeq(s, 2, end - 1) = h
    <3>1. Len(SubSeq(s, 2, end - 1)) = Len(h)
      BY <2>2, <2>4
    <3>2. ASSUME NEW i \in 1 .. Len(SubSeq(s, 2, end - 1)) PROVE SubSeq(s, 2, end - 1)[i] = h[i]
      <4>1. i \in 1 .. Len(h) /\ i \in 1 .. end - 1 - 2 + 1 /\ 2 + i - 1 = i + 1
        BY <2>2, <3>1
      <4> QED BY <2>1, <2>4, <4>1
    <3> QED BY <2>4, <3>1, <3>2, SeqEqual
  <2>6. From(s, end + 1) \in Seq(T) /\ Len(From(s, end + 1)) = Len(s) - (end + 1) + 1
    BY <2>3, Sides
  <2>7. From(s, end + 1) = <<>>
    BY <2>1, <2>2, <2>6, EmptySeq
  <2>8. Only(From(s, end + 1), Digits \cup {":"})
    BY <2>7 DEF Only, Range
  <2> HIDE DEF end
  <2>9. ParseTrimmed(s) = Unported(h)
    BY <1>3, <2>1, <2>3, <2>5, <2>7, <2>8, ReadsBracketed DEF end
  <2> QED BY <2>9 DEF Unported
<1> QED BY <1>1, <1>2, <1>3

LEMMA PortIsRead ==
  ASSUME NEW T, {"[", "]", ":"} \subseteq T, NEW s \in Seq(T), NEW h \in Seq(T),
         NEW d \in Seq(T), d # <<>>, Only(d, Digits), Number(d) \in Ports, s \in Written(h, d)
  PROVE  [host |-> h, port |-> Number(d)] \in ParseTrimmed(s)
<1>1. \/ Ipv6(h) /\ s = <<"[">> \o h \o <<"]", ":">> \o d
      \/ Hostname(h) /\ s = h \o <<":">> \o d
  BY DEF Written
<1>2. Ported(h, d) = {[host |-> h, port |-> Number(d)]}
  BY DEF Ported
<1>3. Len(h) \in Nat /\ Len(d) \in Nat /\ Len(s) \in Nat
  BY LenProperties
<1>4. CASE Ipv6(h) /\ s = <<"[">> \o h \o <<"]", ":">> \o d
  <2>1. /\ Len(s) = Len(h) + 3 + Len(d) /\ s[1] = "[" /\ s[Len(h) + 2] = "]" /\ s[Len(h) + 3] = ":"
        /\ \A i \in 1 .. Len(h) : s[i + 1] = h[i]
        /\ \A i \in 1 .. Len(d) : s[Len(h) + 3 + i] = d[i]
    BY <1>4, Joined
  <2> DEFINE end == Len(h) + 2
             after == From(s, end + 1)
  <2>3. end \in 2 .. Len(s) /\ 2 \in 1 .. Len(s) + 1 /\ end - 1 \in 0 .. Len(s) /\ 2 <= end - 1 + 1
        /\ end + 1 \in 1 .. Len(s) + 1
    BY <1>3, <2>1
  <2>4. /\ SubSeq(s, 2, end - 1) \in Seq(T) /\ Len(SubSeq(s, 2, end - 1)) = end - 1 - 2 + 1
        /\ \A i \in 1 .. end - 1 - 2 + 1 : SubSeq(s, 2, end - 1)[i] = s[2 + i - 1]
    BY <2>3, Piece
  <2>5. SubSeq(s, 2, end - 1) = h
    <3>1. Len(SubSeq(s, 2, end - 1)) = Len(h)
      BY <1>3, <2>4
    <3>2. ASSUME NEW i \in 1 .. Len(SubSeq(s, 2, end - 1)) PROVE SubSeq(s, 2, end - 1)[i] = h[i]
      <4>1. i \in 1 .. Len(h) /\ i \in 1 .. end - 1 - 2 + 1 /\ 2 + i - 1 = i + 1
        BY <1>3, <3>1
      <4> QED BY <2>1, <2>4, <4>1
    <3> QED BY <2>4, <3>1, <3>2, SeqEqual
  <2>6. /\ after \in Seq(T) /\ Len(after) = Len(s) - (end + 1) + 1
        /\ \A i \in 1 .. Len(s) - (end + 1) + 1 : after[i] = s[end + 1 + i - 1]
    BY <2>3, Sides
  <2> HIDE DEF after
  <2>7. Len(after) = 1 + Len(d) /\ after # <<>> /\ after[1] = ":"
    <3>1. Len(after) = 1 + Len(d) /\ 1 \in 1 .. Len(s) - (end + 1) + 1 /\ end + 1 + 1 - 1 = Len(h) + 3
      BY <1>3, <2>1, <2>6
    <3> QED BY <1>3, <2>1, <2>6, <3>1, EmptySeq
  <2>8. ASSUME NEW i \in 1 .. Len(d) PROVE after[i + 1] = d[i]
    <3>1. i + 1 \in 1 .. Len(s) - (end + 1) + 1 /\ end + 1 + (i + 1) - 1 = Len(h) + 3 + i
      BY <1>3, <2>1
    <3> QED BY <2>1, <2>6, <3>1
  <2>9. Tail(after) = d
    <3>1. /\ Tail(after) \in Seq(T) /\ Len(Tail(after)) = Len(after) - 1
          /\ \A i \in 1 .. Len(Tail(after)) : Tail(after)[i] = after[i + 1]
      BY <2>6, <2>7, HeadTailProperties
    <3>2. Len(Tail(after)) = Len(d)
      BY <1>3, <2>7, <3>1
    <3>3. \A i \in 1 .. Len(Tail(after)) : Tail(after)[i] = d[i]
      BY <2>8, <3>1, <3>2
    <3> QED BY <3>1, <3>2, <3>3, SeqEqual
  <2>10. Only(after, Digits \cup {":"})
    <3>1. ASSUME NEW i \in 1 .. Len(after) PROVE after[i] \in Digits \cup {":"}
      <4>1. CASE i = 1
        BY <2>7, <4>1
      <4>2. CASE i # 1
        <5>1. i - 1 \in 1 .. Len(d) /\ i - 1 + 1 = i
          BY <1>3, <2>7, <4>2
        <5>2. after[i] = d[i - 1]
          BY <2>8, <5>1
        <5> QED BY <5>1, <5>2, Characters
      <4> QED BY <4>1, <4>2
    <3> QED BY <2>6, <3>1, Characters
  <2>11. ParseTrimmed(s) = Ported(h, d)
    <3>1. s[1] = "[" /\ s[end] = "]" /\ end \in 2 .. Len(s)
      BY <2>1, <2>3
    <3>2. Ipv6(SubSeq(s, 2, end - 1)) /\ Only(From(s, end + 1), Digits \cup {":"})
      BY <1>4, <2>5, <2>10 DEF after
    <3> HIDE DEF end
    <3>3. ParseTrimmed(s) = IF after = <<>> THEN Unported(SubSeq(s, 2, end - 1))
                            ELSE IF after[1] = ":" THEN Ported(SubSeq(s, 2, end - 1), Tail(after)) ELSE {}
      BY <3>1, <3>2, ReadsBracketed DEF after
    <3> QED BY <2>5, <2>7, <2>9, <3>3
  <2> QED BY <1>2, <2>11
<1>5. CASE Hostname(h) /\ s = h \o <<":">> \o d
  <2>1. /\ Len(s) = Len(h) + 1 + Len(d) /\ s[Len(h) + 1] = ":"
        /\ \A i \in 1 .. Len(h) : s[i] = h[i]
        /\ \A i \in 1 .. Len(d) : s[Len(h) + 1 + i] = d[i]
    BY <1>5, Joined
  <2> DEFINE n == Len(h) + 1
  <2>2. n \in 1 .. Len(s) /\ n \in 1 .. Len(s) + 1 /\ n + 1 \in 1 .. Len(s) + 1
    BY <1>3, <2>1
  <2>3. /\ Before(s, n) \in Seq(T) /\ Len(Before(s, n)) = n - 1
        /\ \A i \in 1 .. n - 1 : Before(s, n)[i] = s[i]
    BY <2>2, Sides
  <2>4. /\ From(s, n + 1) \in Seq(T) /\ Len(From(s, n + 1)) = Len(s) - (n + 1) + 1
        /\ \A i \in 1 .. Len(s) - (n + 1) + 1 : From(s, n + 1)[i] = s[n + 1 + i - 1]
    BY <2>2, Sides
  <2>5. Before(s, n) = h
    <3>1. Len(Before(s, n)) = Len(h) /\ n - 1 = Len(h)
      BY <1>3, <2>3
    <3>2. \A i \in 1 .. Len(Before(s, n)) : Before(s, n)[i] = h[i]
      BY <2>1, <2>3, <3>1
    <3> QED BY <2>3, <3>1, <3>2, SeqEqual
  <2>6. From(s, n + 1) = d
    <3>1. Len(From(s, n + 1)) = Len(d) /\ Len(s) - (n + 1) + 1 = Len(d)
      BY <1>3, <2>1, <2>4
    <3>2. ASSUME NEW i \in 1 .. Len(From(s, n + 1)) PROVE From(s, n + 1)[i] = d[i]
      <4>1. i \in 1 .. Len(d) /\ n + 1 + i - 1 = Len(h) + 1 + i
        BY <1>3, <3>1
      <4> QED BY <2>1, <2>4, <3>1, <4>1
    <3> QED BY <2>4, <3>1, <3>2, SeqEqual
  <2>7. s[n] = ":" /\ Hostname(Before(s, n)) /\ Only(From(s, n + 1), Digits)
    BY <1>5, <2>1, <2>5, <2>6
  <2>8. ParseTrimmed(s) = Ported(Before(s, n), From(s, n + 1))
    <3> HIDE DEF n
    <3> QED BY <2>2, <2>7, ReadsNameAndPort
  <2> QED BY <1>2, <2>5, <2>6, <2>8
<1> QED BY <1>1, <1>4, <1>5

LEMMA MeantIsRead ==
  ASSUME NEW T, {"[", "]", ":"} \subseteq T, NEW s \in Seq(T), NEW m \in Meanings(s)
  PROVE  m \in ParseTrimmed(s)
<1>1. Len(s) \in Nat /\ DOMAIN s = 1 .. Len(s)
  BY LenProperties
<1>2. ASSUME NEW first \in {1, 2}, NEW last \in DOMAIN s PROVE SubSeq(s, first, last) \in Seq(T)
  <2>1. \A i \in first .. last : s[i] \in T
    BY <1>1, ElementOfSeq
  <2> QED BY <1>1, <2>1, SubSeqProperties
<1>3. ASSUME NEW n \in DOMAIN s PROVE From(s, n) \in Seq(T) /\ From(s, n) # <<>>
  <2>1. n \in 1 .. Len(s) + 1
    BY <1>1
  <2>2. From(s, n) \in Seq(T) /\ Len(From(s, n)) = Len(s) - n + 1
    BY <2>1, Sides
  <2> QED BY <1>1, <2>2, EmptySeq
<1>4. CASE MeansAlone(s, m)
  <2>1. PICK first \in {1, 2}, last \in DOMAIN s :
          /\ s \in Written(SubSeq(s, first, last), <<>>)
          /\ m = [host |-> SubSeq(s, first, last), port |-> DEFAULT_PORT]
    BY <1>4 DEF MeansAlone
  <2> QED BY <1>2, <2>1, AloneIsRead
<1>5. CASE MeansPort(s, m)
  <2>1. PICK first \in {1, 2}, last \in DOMAIN s, n \in DOMAIN s :
          /\ IsPort(From(s, n)) /\ s \in Written(SubSeq(s, first, last), From(s, n))
          /\ m = [host |-> SubSeq(s, first, last), port |-> Number(From(s, n))]
    BY <1>5 DEF MeansPort
  <2> QED BY <1>2, <1>3, <2>1, PortIsRead DEF IsPort
<1> QED BY <1>4, <1>5, MeaningsAre

(* What is read of a text is a form of it.                                 *)
LEMMA OneReading ==
  ASSUME NEW s, NEW m \in ParseTrimmed(s)
  PROVE  ParseTrimmed(s) = {m}
<1>1. \A h : Unported(h) = {[host |-> h, port |-> DEFAULT_PORT]}
  BY DEF Unported
<1>2. \A h, d : Ported(h, d) = {} \/ Ported(h, d) = {[host |-> h, port |-> Number(d)]}
  BY DEF Ported
<1>3. ParseBracketed(s) = {} \/ (\E h : ParseBracketed(s) = Unported(h)) \/ (\E h, d : ParseBracketed(s) = Ported(h, d))
  BY DEF ParseBracketed
<1>4. ParseNamed(s) = {} \/ (\E h : ParseNamed(s) = Unported(h)) \/ (\E h, d : ParseNamed(s) = Ported(h, d))
  BY DEF ParseNamed
<1> DEFINE One(found) == found = {} \/ \E x : found = {x}
<1>5. One(ParseBracketed(s)) /\ One(ParseNamed(s)) /\ One(Unported(s)) /\ One({})
  <2>1. \A h : One(Unported(h))
    BY <1>1
  <2>2. \A h, d : One(Ported(h, d))
    BY <1>2
  <2>3. One({})
    OBVIOUS
  <2> HIDE DEF One
  <2> QED BY <1>3, <1>4, <2>1, <2>2, <2>3
<1>6. ParseTrimmed(s) \in {{}, ParseBracketed(s), ParseNamed(s), Unported(s)}
  <2>1. CASE Clean(s) /\ s[1] = "["
    BY <2>1, Branches
  <2>2. CASE Clean(s) /\ s[1] # "[" /\ Cardinality(Occurrences(s, ":")) > 1
    BY <2>2, Branches
  <2>3. CASE Clean(s) /\ s[1] # "[" /\ ~(Cardinality(Occurrences(s, ":")) > 1)
    BY <2>3, Branches
  <2>4. CASE ~Clean(s)
    BY <2>4, Branches
  <2> QED BY <2>1, <2>2, <2>3, <2>4
<1>7. One(ParseTrimmed(s))
  <2> HIDE DEF One
  <2> QED BY <1>5, <1>6
<1> QED BY <1>7

LEMMA WholeText ==
  ASSUME NEW T, NEW s \in Seq(T)
  PROVE  SubSeq(s, 1, Len(s)) = s
BY SubSeqFull

LEMMA BracketedIsMeant ==
  ASSUME NEW T, {"[", "]", ":"} \subseteq T, NEW s \in Seq(T), s # <<>>, s[1] = "[", NEW m \in ParseBracketed(s)
  PROVE  MeansAlone(s, m) \/ MeansPort(s, m)
<1> DEFINE end == Min(Occurrences(s, "]"))
           host == SubSeq(s, 2, end - 1)
           after == From(s, end + 1)
<1>1. "]" \in Range(s)
  BY DEF ParseBracketed
<1>2. end \in 1 .. Len(s) /\ s[end] = "]"
  BY <1>1, FirstMark
<1>3. /\ Ipv6(host)
      /\ \/ after = <<>> /\ m \in Unported(host)
         \/ after # <<>> /\ after[1] = ":" /\ m \in Ported(host, Tail(after))
  BY DEF ParseBracketed
<1> HIDE DEF end
<1>4. Len(s) \in Nat \ {0} /\ DOMAIN s = 1 .. Len(s)
  BY EmptySeq, LenProperties
<1>5. /\ end \in 2 .. Len(s) /\ 2 \in 1 .. Len(s) + 1 /\ end - 1 \in 0 .. Len(s) /\ 2 <= end - 1 + 1
      /\ end + 1 \in 1 .. Len(s) + 1 /\ end - 1 \in DOMAIN s
  <2>1. end # 1
    BY <1>2
  <2> QED BY <1>2, <1>4, <2>1
<1>6. /\ host \in Seq(T) /\ Len(host) = end - 1 - 2 + 1
      /\ \A i \in 1 .. end - 1 - 2 + 1 : host[i] = s[2 + i - 1]
  BY <1>5, Piece
<1>7. /\ after \in Seq(T) /\ Len(after) = Len(s) - (end + 1) + 1
      /\ \A i \in 1 .. Len(s) - (end + 1) + 1 : after[i] = s[end + 1 + i - 1]
  BY <1>5, Sides
<1>8. host = SubSeq(s, 2, end - 1) /\ 2 \in {1, 2}
  OBVIOUS
<1> HIDE DEF host, after
<1>9. CASE after = <<>> /\ m \in Unported(host)
  <2> DEFINE whole == <<"[">> \o host \o <<"]">>
  <2>1. /\ whole \in Seq(T) /\ Len(whole) = Len(host) + 2 /\ whole[1] = "[" /\ whole[Len(host) + 2] = "]"
        /\ \A i \in 1 .. Len(host) : whole[i + 1] = host[i]
    BY <1>6, Joined
  <2>2. whole \in Written(host, <<>>)
    BY <1>3 DEF Written
  <2> HIDE DEF whole
  <2>3. Len(s) = end /\ Len(host) = end - 2
    <3>1. Len(after) = 0
      BY <1>9, EmptySeq
    <3>2. Len(after) = Len(s) - (end + 1) + 1
      BY <1>7
    <3>3. Len(host) = end - 1 - 2 + 1
      BY <1>6
    <3>4. Len(s) \in Nat /\ end \in Nat
      BY <1>4, <1>5
    <3> QED BY <3>1, <3>2, <3>3, <3>4
  <2>4. ASSUME NEW i \in 1 .. Len(s) PROVE s[i] = whole[i]
    <3>1. CASE i = 1
      BY <2>1, <3>1
    <3>2. CASE i = end
      BY <1>2, <1>5, <2>1, <2>3, <3>2
    <3>3. CASE i # 1 /\ i # end
      <4>1. i - 1 \in 1 .. Len(host) /\ i - 1 \in 1 .. end - 1 - 2 + 1 /\ 2 + (i - 1) - 1 = i /\ i - 1 + 1 = i
        BY <1>4, <1>5, <2>3, <3>3
      <4>2. host[i - 1] = s[i]
        BY <1>6, <4>1
      <4>3. whole[i] = host[i - 1]
        BY <2>1, <4>1
      <4> QED BY <4>2, <4>3
    <3> QED BY <3>1, <3>2, <3>3
  <2>5. s = whole
    <3>1. Len(s) = Len(whole)
      BY <1>5, <2>1, <2>3
    <3> QED BY <2>1, <2>4, <3>1, SeqEqual
  <2>6. m = [host |-> host, port |-> DEFAULT_PORT]
    BY <1>9 DEF Unported
  <2> QED BY <1>5, <1>8, <2>2, <2>5, <2>6 DEF MeansAlone
<1>10. CASE after # <<>> /\ after[1] = ":" /\ m \in Ported(host, Tail(after))
  <2> DEFINE d == Tail(after)
             whole == <<"[">> \o host \o <<"]", ":">> \o d
  <2>1. d # <<>> /\ IsPort(d) /\ m = [host |-> host, port |-> Number(d)]
    BY <1>10 DEF Ported, IsPort
  <2>2. d \in Seq(T) /\ Len(d) = Len(after) - 1 /\ \A i \in 1 .. Len(d) : d[i] = after[i + 1]
    BY <1>7, <1>10, HeadTailProperties
  <2> HIDE DEF d
  <2>3. /\ whole \in Seq(T) /\ Len(whole) = Len(host) + 3 + Len(d)
        /\ whole[1] = "[" /\ whole[Len(host) + 2] = "]" /\ whole[Len(host) + 3] = ":"
        /\ \A i \in 1 .. Len(host) : whole[i + 1] = host[i]
        /\ \A i \in 1 .. Len(d) : whole[Len(host) + 3 + i] = d[i]
    <3>1. host \in Seq(T) /\ d \in Seq(T)
      BY <1>6, <2>2
    <3>2. PortForm(T, whole, host, d)
      BY <3>1, JoinedPort
    <3> HIDE DEF whole
    <3> QED BY <3>2 DEF PortForm
  <2>4. whole \in Written(host, d)
    <3>1. Written(host, d) = (IF Ipv6(host) THEN {whole} ELSE {})
                               \cup (IF Hostname(host) THEN {host \o <<":">> \o d} ELSE {})
      BY <2>1 DEF Written
    <3> HIDE DEF whole
    <3> QED BY <1>3, <3>1
  <2> HIDE DEF whole
  <2>5. Len(host) = end - 2 /\ Len(d) \in Nat \ {0} /\ Len(s) = end + 1 + Len(d)
    <3>1. Len(d) \in Nat \ {0}
      BY <2>1, <2>2, EmptySeq
    <3>2. Len(after) = Len(s) - (end + 1) + 1
      BY <1>7
    <3>3. Len(host) = end - 1 - 2 + 1
      BY <1>6
    <3>4. Len(s) \in Nat /\ end \in Nat
      BY <1>4, <1>5
    <3>5. Len(d) = Len(after) - 1
      BY <2>2
    <3> QED BY <3>1, <3>2, <3>3, <3>4, <3>5
  <2>6. ASSUME NEW i \in 1 .. Len(d) PROVE d[i] = s[end + 1 + i]
    <3>1. i + 1 \in 1 .. Len(s) - (end + 1) + 1 /\ end + 1 + (i + 1) - 1 = end + 1 + i
      BY <1>5, <2>5
    <3>2. after[i + 1] = s[end + 1 + i]
      BY <1>7, <3>1
    <3> QED BY <2>2, <3>2
  <2>7. s[end + 1] = ":"
    <3>1. 1 \in 1 .. Len(s) - (end + 1) + 1 /\ end + 1 + 1 - 1 = end + 1
      BY <1>5, <2>5
    <3> QED BY <1>7, <1>10, <3>1
  <2>8. ASSUME NEW i \in 1 .. Len(s) PROVE s[i] = whole[i]
    <3>1. CASE i = 1
      BY <2>3, <3>1
    <3>2. CASE i = end
      BY <1>2, <1>5, <2>3, <2>5, <3>2
    <3>3. CASE i = end + 1
      BY <1>5, <2>3, <2>5, <2>7, <3>3
    <3>4. CASE i # 1 /\ i < end
      <4>1. i - 1 \in 1 .. Len(host) /\ i - 1 \in 1 .. end - 1 - 2 + 1 /\ 2 + (i - 1) - 1 = i /\ i - 1 + 1 = i
        BY <1>4, <1>5, <2>5, <3>4
      <4>2. host[i - 1] = s[i]
        BY <1>6, <4>1
      <4>3. whole[i] = host[i - 1]
        BY <2>3, <4>1
      <4> QED BY <4>2, <4>3
    <3>5. CASE i > end + 1
      <4> DEFINE k == i - (end + 1)
      <4>1. k \in 1 .. Len(d) /\ end + 1 + k = i /\ Len(host) + 3 + k = i
        BY <1>4, <1>5, <2>5, <3>5
      <4> HIDE DEF k
      <4>2. d[k] = s[i] /\ whole[i] = d[k]
        BY <2>3, <2>6, <4>1
      <4> QED BY <4>2
    <3> QED BY <1>4, <1>5, <3>1, <3>2, <3>3, <3>4, <3>5
  <2>9. s = whole
    <3>1. Len(s) = Len(whole)
      BY <1>5, <2>3, <2>5
    <3> QED BY <2>3, <2>8, <3>1, SeqEqual
  <2>10. end + 2 \in DOMAIN s /\ From(s, end + 2) = d
    <3>1. end + 2 \in 1 .. Len(s) /\ end + 2 \in 1 .. Len(s) + 1
      BY <1>4, <1>5, <2>5
    <3>2. /\ From(s, end + 2) \in Seq(T) /\ Len(From(s, end + 2)) = Len(s) - (end + 2) + 1
          /\ \A i \in 1 .. Len(s) - (end + 2) + 1 : From(s, end + 2)[i] = s[end + 2 + i - 1]
      BY <3>1, Sides
    <3>3. Len(From(s, end + 2)) = Len(d) /\ Len(s) - (end + 2) + 1 = Len(d)
      BY <1>5, <2>5, <3>2
    <3>4. ASSUME NEW i \in 1 .. Len(From(s, end + 2)) PROVE From(s, end + 2)[i] = d[i]
      <4>1. i \in 1 .. Len(d) /\ end + 2 + i - 1 = end + 1 + i
        BY <1>5, <2>5, <3>3
      <4> QED BY <2>6, <3>2, <3>3, <4>1
    <3> QED BY <1>4, <2>2, <3>1, <3>2, <3>3, <3>4, SeqEqual
  <2> QED BY <1>5, <1>8, <2>1, <2>4, <2>9, <2>10 DEF MeansPort
<1> QED BY <1>3, <1>9, <1>10

NameForm(T, s, h, d) ==
  /\ s \in Seq(T) /\ Len(s) = Len(h) + 1 + Len(d) /\ s[Len(h) + 1] = ":"
  /\ \A i \in 1 .. Len(h) : s[i] = h[i]
  /\ \A i \in 1 .. Len(d) : s[Len(h) + 1 + i] = d[i]

LEMMA JoinedName ==
  ASSUME NEW T, {"[", "]", ":"} \subseteq T, NEW h \in Seq(T), NEW d \in Seq(T)
  PROVE  NameForm(T, h \o <<":">> \o d, h, d)
BY Joined DEF NameForm

LEMMA AloneIsMeant ==
  ASSUME NEW T, NEW s \in Seq(T), Ipv6(s) \/ Hostname(s), s # <<>>, NEW m \in Unported(s)
  PROVE  MeansAlone(s, m)
<1>1. Len(s) \in DOMAIN s /\ SubSeq(s, 1, Len(s)) = s
  BY EmptySeq, LenProperties, WholeText
<1>2. s \in Written(s, <<>>)
  BY DEF Written
<1>3. m = [host |-> s, port |-> DEFAULT_PORT]
  BY DEF Unported
<1> QED BY <1>1, <1>2, <1>3 DEF MeansAlone

LEMMA PortIsMeant ==
  ASSUME NEW T, {"[", "]", ":"} \subseteq T, NEW s \in Seq(T), NEW n \in 1 .. Len(s), s[n] = ":",
         Hostname(Before(s, n)), NEW m \in Ported(Before(s, n), From(s, n + 1))
  PROVE  MeansPort(s, m)
<1> DEFINE host == Before(s, n)
           d == From(s, n + 1)
           whole == host \o <<":">> \o d
<1>1. Len(s) \in Nat /\ DOMAIN s = 1 .. Len(s) /\ n \in Nat /\ n \in 1 .. Len(s) + 1 /\ n + 1 \in 1 .. Len(s) + 1
  BY LenProperties
<1>2. /\ host \in Seq(T) /\ Len(host) = n - 1
      /\ \A i \in 1 .. n - 1 : host[i] = s[i]
  BY <1>1, Sides
<1>3. /\ d \in Seq(T) /\ Len(d) = Len(s) - (n + 1) + 1
      /\ \A i \in 1 .. Len(s) - (n + 1) + 1 : d[i] = s[n + 1 + i - 1]
  BY <1>1, Sides
<1>4. d # <<>> /\ IsPort(d) /\ m = [host |-> host, port |-> Number(d)]
  BY DEF Ported, IsPort
<1>5. host = SubSeq(s, 1, n - 1) /\ Hostname(host) /\ d = From(s, n + 1)
  BY DEF Before
<1> HIDE DEF host, d
<1>6. NameForm(T, whole, host, d)
  <2>1. host \in Seq(T) /\ d \in Seq(T)
    BY <1>2, <1>3
  <2> QED BY <2>1, JoinedName
<1>7. whole \in Written(host, d)
  <2>1. Written(host, d) = (IF Ipv6(host) THEN {<<"[">> \o host \o <<"]", ":">> \o d} ELSE {})
                             \cup (IF Hostname(host) THEN {whole} ELSE {})
    BY <1>4 DEF Written
  <2> HIDE DEF whole
  <2> QED BY <1>5, <2>1
<1> HIDE DEF whole
<1>8. /\ whole \in Seq(T) /\ Len(whole) = Len(host) + 1 + Len(d) /\ whole[Len(host) + 1] = ":"
      /\ \A i \in 1 .. Len(host) : whole[i] = host[i]
      /\ \A i \in 1 .. Len(d) : whole[Len(host) + 1 + i] = d[i]
  BY <1>6 DEF NameForm
<1> DEFINE a == Len(host)
           b == Len(d)
<1>9. a \in Nat \ {0} /\ b \in Nat \ {0} /\ n = a + 1 /\ Len(s) = a + 1 + b /\ Len(whole) = a + 1 + b
  <2>1. a = n - 1 /\ a \in Nat \ {0}
    BY <1>2, <1>5, HostnameMade, EmptySeq
  <2>2. b = Len(s) - (n + 1) + 1 /\ b \in Nat \ {0}
    BY <1>3, <1>4, EmptySeq
  <2>3. Len(whole) = a + 1 + b
    BY <1>8
  <2> HIDE DEF a, b
  <2>4. n = a + 1
    BY <1>1, <2>1
  <2>5. Len(s) = a + 1 + b
    BY <1>1, <2>2, <2>4
  <2> QED BY <2>1, <2>2, <2>3, <2>4, <2>5
<1>10. /\ \A i \in 1 .. a : host[i] = s[i] /\ whole[i] = host[i]
       /\ \A k \in 1 .. b : d[k] = s[a + 1 + k] /\ whole[a + 1 + k] = d[k]
       /\ whole[a + 1] = ":" /\ s[a + 1] = ":"
  <2>1. ASSUME NEW i \in 1 .. a PROVE host[i] = s[i] /\ whole[i] = host[i]
    <3>1. n - 1 = a
      BY <1>2
    <3> QED BY <1>2, <1>8, <3>1
  <2>2. ASSUME NEW k \in 1 .. b PROVE d[k] = s[a + 1 + k] /\ whole[a + 1 + k] = d[k]
    <3>1. k \in 1 .. Len(s) - (n + 1) + 1
      BY <1>3
    <3>2. d[k] = s[n + 1 + k - 1]
      BY <1>3, <3>1
    <3>3. n + 1 + k - 1 = a + 1 + k
      <4> HIDE DEF a, b
      <4> QED BY <1>9
    <3> QED BY <1>8, <3>2, <3>3
  <2>3. whole[a + 1] = ":"
    BY <1>8
  <2> HIDE DEF a, b
  <2>4. s[a + 1] = ":"
    BY <1>9
  <2> QED BY <2>1, <2>2, <2>3, <2>4
<1> HIDE DEF a, b
<1>11. s = whole
  <2>1. ASSUME NEW i \in 1 .. Len(s) PROVE s[i] = whole[i]
    <3>1. i \in 1 .. a \/ i = a + 1 \/ i - (a + 1) \in 1 .. b
      BY <1>9
    <3>2. CASE i - (a + 1) \in 1 .. b
      <4>1. a + 1 + (i - (a + 1)) = i
        BY <1>9
      <4> DEFINE k == i - (a + 1)
      <4>2. k \in 1 .. b /\ a + 1 + k = i
        BY <3>2, <4>1
      <4> HIDE DEF k
      <4> QED BY <1>10, <4>2
    <3> QED BY <1>10, <3>1, <3>2
  <2>2. Len(s) = Len(whole)
    BY <1>9
  <2> QED BY <1>8, <2>1, <2>2, SeqEqual
<1>12. n - 1 \in DOMAIN s /\ n + 1 \in DOMAIN s
  <2>1. DOMAIN s = 1 .. a + 1 + b
    BY <1>1, <1>9
  <2>2. n - 1 = a /\ n + 1 = a + 2
    BY <1>9
  <2>3. a \in 1 .. a + 1 + b /\ a + 2 \in 1 .. a + 1 + b
    BY <1>9
  <2> QED BY <2>1, <2>2, <2>3
<1> QED BY <1>4, <1>5, <1>7, <1>11, <1>12 DEF MeansPort

LEMMA ReadIsMeant ==
  ASSUME NEW T, {"[", "]", ":"} \subseteq T, NEW s \in Seq(T), NEW m \in ParseTrimmed(s)
  PROVE  m \in Meanings(s)
<1>1. Clean(s) /\ s # <<>>
  BY Branches DEF Clean
<1>2. CASE s[1] = "["
  <2>1. m \in ParseBracketed(s)
    BY <1>1, <1>2, Branches
  <2> QED BY <1>1, <1>2, <2>1, BracketedIsMeant, MeaningsAre
<1>3. CASE s[1] # "[" /\ Cardinality(Occurrences(s, ":")) > 1
  <2>1. m \in IF Ipv6(s) THEN Unported(s) ELSE {}
    BY <1>1, <1>3, Branches
  <2>2. Ipv6(s) /\ m \in Unported(s)
    BY <2>1
  <2> QED BY <1>1, <2>2, AloneIsMeant, MeaningsAre
<1>4. CASE s[1] # "[" /\ ~(Cardinality(Occurrences(s, ":")) > 1)
  <2>1. m \in ParseNamed(s)
    BY <1>1, <1>4, Branches
  <2>2. CASE Hostname(s)
    <3>1. m \in Unported(s)
      BY <2>1, <2>2 DEF ParseNamed
    <3> QED BY <1>1, <2>2, <3>1, AloneIsMeant, MeaningsAre
  <2>3. CASE ~Hostname(s)
    <3> DEFINE n == Min(Occurrences(s, ":"))
    <3>1. Occurrences(s, ":") # {} /\ Hostname(Before(s, n)) /\ m \in Ported(Before(s, n), From(s, n + 1))
      BY <2>1, <2>3 DEF ParseNamed
    <3>2. ":" \in Range(s)
      BY <3>1 DEF Occurrences, Range
    <3>3. n \in 1 .. Len(s) /\ s[n] = ":"
      BY <3>2, FirstMark
    <3> HIDE DEF n
    <3> QED BY <3>1, <3>3, PortIsMeant, MeaningsAre
  <2> QED BY <2>2, <2>3
<1> QED BY <1>2, <1>3, <1>4

(* Every text over any characters is read as what it means, and has one    *)
(* meaning at most.                                                        *)
LEMMA ReadRight ==
  ASSUME NEW T, NEW line \in Seq(T)
  PROVE  Parse(line) = Meanings(Trimmed(line)) /\ Cardinality(Parse(line)) <= 1
<1> DEFINE U == T \cup {"[", "]", ":"}
           s == Trimmed(line)
           solid == {n \in DOMAIN line : line[n] # " "}
<1>1. line \in Seq(U) /\ {"[", "]", ":"} \subseteq U
  BY SeqMonotonic
<1>2. s \in Seq(U)
  <2>1. CASE solid = {}
    BY <2>1, EmptySeq DEF Trimmed
  <2>2. CASE solid # {}
    <3>1. Len(line) \in Nat /\ DOMAIN line = 1 .. Len(line)
      BY LenProperties
    <3>2. solid \in SUBSET Nat /\ solid \in SUBSET (0 .. Len(line)) /\ \A n \in solid : n \in 1 .. Len(line)
      <4>1. solid \subseteq 1 .. Len(line)
        BY <3>1
      <4> HIDE DEF solid
      <4>2. \A n \in 1 .. Len(line) : n \in Nat /\ n \in 0 .. Len(line)
        BY <3>1
      <4> QED BY <4>1, <4>2
    <3>3. s = SubSeq(line, Min(solid), Max(solid))
      BY <2>2 DEF Trimmed
    <3> HIDE DEF solid, s
    <3>4. Min(solid) \in solid /\ Max(solid) \in solid
      BY <2>2, <3>1, <3>2, LeastFound, GreatestFound
    <3>5. Min(solid) \in 1 .. Len(line) /\ Max(solid) \in 1 .. Len(line)
      BY <3>2, <3>4
    <3>6. \A i \in Min(solid) .. Max(solid) : i \in 1 .. Len(line)
      BY <3>1, <3>5
    <3>7. \A i \in Min(solid) .. Max(solid) : line[i] \in U
      BY <1>1, <3>6, ElementOfSeq
    <3> QED BY <3>1, <3>3, <3>5, <3>7, SubSeqProperties
  <2> QED BY <2>1, <2>2
<1>3. Parse(line) = ParseTrimmed(s)
  BY DEF Parse
<1> HIDE DEF s, U
<1>4. ParseTrimmed(s) = Meanings(s)
  <2>1. ASSUME NEW m \in ParseTrimmed(s) PROVE m \in Meanings(s)
    BY <1>1, <1>2, ReadIsMeant
  <2>2. ASSUME NEW m \in Meanings(s) PROVE m \in ParseTrimmed(s)
    BY <1>1, <1>2, MeantIsRead
  <2> QED BY <2>1, <2>2
<1>5. Cardinality(ParseTrimmed(s)) <= 1
  <2>1. CASE ParseTrimmed(s) = {}
    BY <2>1, FS_EmptySet
  <2>2. CASE ParseTrimmed(s) # {}
    <3>1. PICK m \in ParseTrimmed(s) : TRUE
      BY <2>2
    <3>2. ParseTrimmed(s) = {m}
      BY OneReading
    <3>3. Cardinality({m}) = 1
      BY FS_Singleton
    <3> QED BY <3>2, <3>3
  <2> QED BY <2>1, <2>2
<1>6. s = Trimmed(line)
  BY DEF s
<1> QED BY <1>3, <1>4, <1>5, <1>6

(* Whatever is on the line to begin with and whatever is typed, of any     *)
(* length and over any characters: the address read is the one written.    *)
THEOREM AddressRightHolds == AddressSpec => []AddressRight
<1> DEFINE AddressInv == input \in Seq(Tokens) /\ parsed = Parse(input)
<1>1. AddressInit => AddressInv
  BY AddressAssumption DEF AddressInit
<1>2. AddressInv /\ [AddressNext]_addressVars => AddressInv'
  <2> SUFFICES ASSUME AddressInv, [AddressNext]_addressVars PROVE AddressInv'
    OBVIOUS
  <2>1. CASE AddressNext
    <3>1. PICK token \in Tokens : Type(token)
      BY <2>1 DEF AddressNext
    <3>2. input' \in Seq(Tokens)
      BY <3>1, AppendProperties DEF Type
    <3> QED BY <3>1, <3>2 DEF Type
  <2>2. CASE UNCHANGED addressVars
    BY <2>2 DEF addressVars
  <2> QED BY <2>1, <2>2
<1>3. AddressInv => AddressRight
  BY ReadRight DEF AddressRight
<1> QED BY <1>1, <1>2, <1>3, PTL DEF AddressSpec
=============================================================================
