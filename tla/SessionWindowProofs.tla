------------------------- MODULE SessionWindowProofs -------------------------
(***************************************************************************)
(* The input of a session window goes to one place at a time, for any keys *)
(* and buttons, any parts of the window, and any number of size changes    *)
(* the window has not handled yet.                                         *)
(*                                                                         *)
(* Two facts hold the argument together: keys are only ever held by a      *)
(* window with the focus, so that hands that move elsewhere leave nothing  *)
(* behind; and the last size change under way is the size that is, so that *)
(* a dialog that survives it has room.                                     *)
(*                                                                         *)
(* The second part is about the size of the desktop drawn in that window.  *)
(***************************************************************************)
EXTENDS SessionWindow, DesktopSize, DamageProofs

KeysNeedFocus == ~focused => held \cap Keys = {}
LastSizeIs == resizes # <<>> => resizes[Len(resizes)] = fits

IInv ==
  /\ held \subseteq Inputs /\ fits \in BOOLEAN /\ resizes \in Seq(BOOLEAN)
  /\ DialogModal /\ BarOwnsPointer /\ OnlyEnterStuck
  /\ KeysNeedFocus /\ LastSizeIs
-----------------------------------------------------------------------------
(* The invariant in two parts.                                             *)

(* What the invariant says of `held`, given the rest.                      *)
Fit(inputs, dialog, taken, hands, focus) ==
  /\ inputs \subseteq Inputs
  /\ dialog => inputs = {}
  /\ taken => inputs \cap Buttons = {}
  /\ inputs \ {"Enter"} \subseteq hands
  /\ ~focus => inputs \cap Keys = {}

(* What it says of the sizes.                                              *)
Sized(dialog, room, sizes) ==
  /\ room \in BOOLEAN /\ sizes \in Seq(BOOLEAN)
  /\ dialog => (sizes = <<>> => room)
  /\ sizes # <<>> => sizes[Len(sizes)] = room

LEMMA InvariantParts ==
  IInv <=> /\ Fit(held, close_dialog, BarTakesButton, physical, focused)
           /\ Sized(close_dialog, fits, resizes)
BY DEF IInv, Fit, Sized, DialogModal, BarOwnsPointer, OnlyEnterStuck, KeysNeedFocus, LastSizeIs

LEMMA InvariantPartsNext ==
  IInv' <=> /\ Fit(held', close_dialog', BarTakesButton', physical', focused')
            /\ Sized(close_dialog', fits', resizes')
BY DEF IInv, Fit, Sized, DialogModal, BarOwnsPointer, OnlyEnterStuck, KeysNeedFocus, LastSizeIs

LEMMA FitNone ==
  ASSUME NEW dialog, NEW taken, NEW hands, NEW focus
  PROVE  Fit({}, dialog, taken, hands, focus)
BY DEF Fit

(* The last size change is the same without the first, or is the first.    *)
LEMMA SizedTail ==
  ASSUME NEW dialog \in BOOLEAN, NEW room, NEW sizes, Sized(dialog, room, sizes), sizes # <<>>
  PROVE  Sized(dialog /\ Head(sizes), room, Tail(sizes))
<1>1. sizes \in Seq(BOOLEAN) /\ room \in BOOLEAN /\ sizes[Len(sizes)] = room
  BY DEF Sized
<1>2. Tail(sizes) \in Seq(BOOLEAN) /\ Head(sizes) = sizes[1] /\ Len(sizes) \in Nat \ {0}
  BY <1>1
<1>3. Len(Tail(sizes)) = Len(sizes) - 1
  BY <1>1, HeadTailProperties
<1>4. Tail(sizes) = <<>> => Len(sizes) = 1
  BY <1>2, <1>3, EmptySeq
<1>5. Tail(sizes) # <<>> => Tail(sizes)[Len(Tail(sizes))] = sizes[Len(sizes)]
  BY <1>1, <1>2, <1>3
<1> QED BY <1>1, <1>2, <1>4, <1>5 DEF Sized
-----------------------------------------------------------------------------
(* One lemma for each way of the input.                                    *)

USE DEF IInv, Inputs, DialogModal, BarOwnsPointer, OnlyEnterStuck, KeysNeedFocus, LastSizeIs
USE DEF BarTakesButton, Bar!hovered, Bar!is_shown, barVars, outside

LEMMA KeyPressedKeeps ==
  ASSUME IInv, NEW k \in Keys, NEW repeat \in BOOLEAN, KeyPressed(k, repeat)
  PROVE  IInv'
<1>1. Sized(close_dialog', fits', resizes')
  BY DEF Sized, KeyPressed, DialogKey, DialogConfirm, DialogCancel, DialogIgnores
<1>2. Fit(held', close_dialog', BarTakesButton', physical', focused')
  <2>1. CASE close_dialog
    <3>1. held' = {}
      BY <2>1 DEF KeyPressed
    <3> QED BY <3>1, FitNone
  <2>2. CASE ~close_dialog /\ Shortcut(k)
    BY <2>2 DEF Fit, KeyPressed, ToggleFullscreen, Bar!Reset
  <2>3. CASE ~close_dialog /\ ~Shortcut(k)
    BY <2>3, WindowAssumption DEF Fit, KeyPressed, Queue!Press, Queue!Becomes
  <2> QED BY <2>1, <2>2, <2>3
<1> QED BY <1>1, <1>2, InvariantPartsNext

LEMMA KeyReleasedKeeps ==
  ASSUME IInv, NEW k \in Keys, KeyReleased(k)
  PROVE  IInv'
<1>1. Sized(close_dialog', fits', resizes')
  BY DEF Sized, KeyReleased
<1>2. Fit(held', close_dialog', BarTakesButton', physical', focused')
  BY WindowAssumption DEF Fit, KeyReleased, Queue!Release, Queue!Becomes, Shortcut
<1> QED BY <1>1, <1>2, InvariantPartsNext

LEMMA FocusLostKeeps ==
  ASSUME IInv, FocusLost
  PROVE  IInv'
<1>1. Sized(close_dialog', fits', resizes')
  BY DEF Sized, FocusLost
<1>2. Fit(held', close_dialog', BarTakesButton', physical', focused')
  BY DEF Fit, FocusLost, Queue!ReleaseAll
<1> QED BY <1>1, <1>2, InvariantPartsNext

LEMMA FocusGainedKeeps ==
  ASSUME IInv, FocusGained
  PROVE  IInv'
<1>1. Sized(close_dialog', fits', resizes')
  BY DEF Sized, FocusGained
<1>2. Fit(held', close_dialog', BarTakesButton', physical', focused')
  BY DEF Fit, FocusGained
<1> QED BY <1>1, <1>2, InvariantPartsNext

LEMMA ModifiersChangedKeeps ==
  ASSUME IInv, ModifiersChanged
  PROVE  IInv'
<1>1. Sized(close_dialog', fits', resizes')
  BY DEF Sized, ModifiersChanged
<1>2. Fit(held', close_dialog', BarTakesButton', physical', focused')
  BY DEF Fit, ModifiersChanged
<1> QED BY <1>1, <1>2, InvariantPartsNext

LEMMA CursorMovedKeeps ==
  ASSUME IInv, NEW zone \in Zones, NEW edge \in BOOLEAN, CursorMoved(zone, edge)
  PROVE  IInv'
<1>1. Sized(close_dialog', fits', resizes')
  BY DEF Sized, CursorMoved
<1>2. Fit(held', close_dialog', BarTakesButton', physical', focused')
  BY WindowAssumption DEF Fit, CursorMoved, Queue!ReleaseButtons, Queue!Becomes, Bar!PointerMoved,
         Bar!Captures, Bar!Reaches
<1> QED BY <1>1, <1>2, InvariantPartsNext

LEMMA CursorLeftKeeps ==
  ASSUME IInv, CursorLeft
  PROVE  IInv'
<1>1. Sized(close_dialog', fits', resizes')
  BY DEF Sized, CursorLeft
<1>2. Fit(held', close_dialog', BarTakesButton', physical', focused')
  BY DEF Fit, CursorLeft, Bar!PointerLeft
<1> QED BY <1>1, <1>2, InvariantPartsNext

LEMMA MouseWheelKeeps ==
  ASSUME IInv, MouseWheel
  PROVE  IInv'
<1>1. Sized(close_dialog', fits', resizes')
  BY DEF Sized, MouseWheel
<1>2. Fit(held', close_dialog', BarTakesButton', physical', focused')
  BY DEF Fit, MouseWheel, Queue!Becomes
<1> QED BY <1>1, <1>2, InvariantPartsNext

LEMMA ButtonReleasedKeeps ==
  ASSUME IInv, NEW b \in Buttons, ButtonReleased(b)
  PROVE  IInv'
<1>1. Sized(close_dialog', fits', resizes')
  BY DEF Sized, ButtonReleased
<1>2. Fit(held', close_dialog', BarTakesButton', physical', focused')
  BY WindowAssumption DEF Fit, ButtonReleased, Queue!ReleaseButtons, Queue!Release, Queue!Becomes
<1> QED BY <1>1, <1>2, InvariantPartsNext

LEMMA CloseRequestedKeeps ==
  ASSUME IInv, CloseRequested
  PROVE  IInv'
<1>1. Sized(close_dialog', fits', resizes')
  BY DEF Sized, CloseRequested, RequestClose, ConfirmClose
<1>2. Fit(held', close_dialog', BarTakesButton', physical', focused')
  BY DEF Fit, CloseRequested, RequestClose, ConfirmClose, Queue!ReleaseAll
<1> QED BY <1>1, <1>2, InvariantPartsNext

LEMMA HideTimerKeeps ==
  ASSUME IInv, HideTimer
  PROVE  IInv'
<1>1. Sized(close_dialog', fits', resizes')
  BY DEF Sized, HideTimer
<1>2. Fit(held', close_dialog', BarTakesButton', physical', focused')
  BY DEF Fit, HideTimer, Bar!Tick
<1> QED BY <1>1, <1>2, InvariantPartsNext

LEMMA FrameArrivesKeeps ==
  ASSUME IInv, FrameArrives
  PROVE  IInv'
<1>1. Sized(close_dialog', fits', resizes')
  BY DEF Sized, FrameArrives
<1>2. Fit(held', close_dialog', BarTakesButton', physical', focused')
  BY DEF Fit, FrameArrives
<1> QED BY <1>1, <1>2, InvariantPartsNext

LEMMA ModeChangesKeeps ==
  ASSUME IInv, ModeChanges
  PROVE  IInv'
<1>1. Sized(close_dialog', fits', resizes')
  BY DEF Sized, ModeChanges
<1>2. Fit(held', close_dialog', BarTakesButton', physical', focused')
  BY DEF Fit, ModeChanges
<1> QED BY <1>1, <1>2, InvariantPartsNext

LEMMA HandsElsewhereKeeps ==
  ASSUME IInv, HandsElsewhere
  PROVE  IInv'
<1>1. Sized(close_dialog', fits', resizes')
  BY DEF Sized, HandsElsewhere
<1>2. Fit(held', close_dialog', BarTakesButton', physical', focused')
  BY WindowAssumption DEF Fit, HandsElsewhere
<1> QED BY <1>1, <1>2, InvariantPartsNext

LEMMA ConnectionLostKeeps ==
  ASSUME IInv, ConnectionLost
  PROVE  IInv'
<1>1. Sized(close_dialog', fits', resizes')
  BY DEF Sized, ConnectionLost
<1>2. Fit(held', close_dialog', BarTakesButton', physical', focused')
  BY DEF Fit, ConnectionLost, Queue!ReleaseAll
<1> QED BY <1>1, <1>2, InvariantPartsNext

LEMMA ButtonPressedKeeps ==
  ASSUME IInv, NEW b \in Buttons, ButtonPressed(b)
  PROVE  IInv'
<1>1. Sized(close_dialog', fits', resizes')
  BY DEF Sized, ButtonPressed, DialogClick, DialogConfirm, DialogCancel, DialogIgnores,
         BarClick, RequestClose, ConfirmClose
<1>2. Fit(held', close_dialog', BarTakesButton', physical', focused')
  BY WindowAssumption DEF Fit, ButtonPressed, Queue!ReleaseButtons, Queue!ReleaseAll, Queue!Press,
         Queue!Becomes, DialogClick, DialogConfirm, DialogCancel, DialogIgnores,
         BarClick, RequestClose, ConfirmClose, ToggleFullscreen, Bar!Reset,
         Bar!ClickPin
<1> QED BY <1>1, <1>2, InvariantPartsNext

LEMMA ResizedKeeps ==
  ASSUME IInv, NEW maximized \in BOOLEAN, Resized(maximized)
  PROVE  IInv'
<1>1. Sized(close_dialog', fits', resizes')
  <2>1. CASE close_dialog
    BY <2>1, SizedTail, InvariantParts DEF Resized
  <2>2. CASE ~close_dialog
    <3>1. Sized(FALSE, fits, resizes)
      BY <2>2 DEF Sized
    <3>2. Sized(FALSE /\ Head(resizes), fits, Tail(resizes))
      BY <3>1, SizedTail DEF Resized
    <3> QED BY <2>2, <3>2 DEF Resized, Sized
  <2> QED BY <2>1, <2>2
<1>2. Fit(held', close_dialog', BarTakesButton', physical', focused')
  BY DEF Fit, Resized, Bar!Reset
<1> QED BY <1>1, <1>2, InvariantPartsNext

LEMMA WindowResizesKeeps ==
  ASSUME IInv, WindowResizes
  PROVE  IInv'
<1>1. Sized(close_dialog', fits', resizes')
  BY DEF Sized, WindowResizes
<1>2. Fit(held', close_dialog', BarTakesButton', physical', focused')
  BY DEF Fit, WindowResizes
<1> QED BY <1>1, <1>2, InvariantPartsNext

LEMMA StutterKeeps ==
  ASSUME IInv, UNCHANGED vars
  PROVE  IInv'
BY DEF vars

LEMMA InitHolds == Init => IInv
BY DEF Init, Bar!New, Queue!Init, IInv, DialogModal, BarOwnsPointer, OnlyEnterStuck, KeysNeedFocus,
       LastSizeIs, BarTakesButton, Bar!hovered, Bar!is_shown, Inputs

LEMMA StepKeeps == IInv /\ [Next]_vars => IInv'
<1> SUFFICES ASSUME IInv, [Next]_vars PROVE IInv'
  OBVIOUS
<1>1. ASSUME NEW k \in Keys, KeyReleased(k) PROVE IInv'
  BY <1>1, KeyReleasedKeeps
<1>2. ASSUME NEW k \in Keys, NEW repeat \in BOOLEAN, KeyPressed(k, repeat) PROVE IInv'
  BY <1>2, KeyPressedKeeps
<1>3. ASSUME NEW b \in Buttons, ButtonPressed(b) PROVE IInv'
  BY <1>3, ButtonPressedKeeps
<1>4. ASSUME NEW b \in Buttons, ButtonReleased(b) PROVE IInv'
  BY <1>4, ButtonReleasedKeeps
<1>5. ASSUME NEW zone \in Zones, NEW edge \in BOOLEAN, CursorMoved(zone, edge) PROVE IInv'
  BY <1>5, CursorMovedKeeps
<1>6. ASSUME NEW maximized \in BOOLEAN, Resized(maximized) PROVE IInv'
  BY <1>6, ResizedKeeps
<1>7. ASSUME ModifiersChanged \/ FocusLost \/ FocusGained PROVE IInv'
  BY <1>7, ModifiersChangedKeeps, FocusLostKeeps, FocusGainedKeeps
<1>8. ASSUME CursorLeft \/ MouseWheel \/ CloseRequested PROVE IInv'
  BY <1>8, CursorLeftKeeps, MouseWheelKeeps, CloseRequestedKeeps
<1>9. ASSUME HideTimer \/ FrameArrives \/ WindowResizes PROVE IInv'
  BY <1>9, HideTimerKeeps, FrameArrivesKeeps, WindowResizesKeeps
<1>10. ASSUME ModeChanges \/ HandsElsewhere \/ ConnectionLost PROVE IInv'
  BY <1>10, ModeChangesKeeps, HandsElsewhereKeeps, ConnectionLostKeeps
<1> QED BY <1>1, <1>2, <1>3, <1>4, <1>5, <1>6, <1>7, <1>8, <1>9, <1>10, StutterKeeps DEF Next
-----------------------------------------------------------------------------
(* The types, the bar's and the window's apart.                            *)
HIDE DEF IInv, Inputs, DialogModal, BarOwnsPointer, OnlyEnterStuck, KeysNeedFocus, LastSizeIs
HIDE DEF BarTakesButton, outside

WindowTyped ==
  /\ physical \subseteq Inputs /\ closing \in {"none", "Cancel", "Graceful"}
  /\ close_dialog \in BOOLEAN /\ modifiers \in BOOLEAN /\ desktop \in BOOLEAN
  /\ focused \in BOOLEAN /\ fullscreen \in BOOLEAN
  /\ pointer \in Zones /\ Len(resizes) <= MaxResizes

LEMMA TypeParts == IInv /\ Bar!BarTypeOK /\ WindowTyped => TypeOK
BY DEF IInv, WindowTyped, TypeOK

LEMMA BarStep ==
  ASSUME Bar!BarTypeOK,
         \/ UNCHANGED barVars \/ Bar!Reset \/ Bar!Tick \/ Bar!PointerLeft \/ Bar!ClickPin
         \/ \E zone, edge : Bar!PointerMoved(zone, edge)
  PROVE  Bar!BarTypeOK'
<1>1. CASE UNCHANGED barVars \/ Bar!Reset \/ Bar!Tick \/ Bar!PointerLeft \/ Bar!ClickPin
  BY <1>1 DEF Bar!BarTypeOK, Bar!Reset, Bar!Tick, Bar!PointerLeft, Bar!ClickPin
<1>2. ASSUME NEW zone, NEW edge, Bar!PointerMoved(zone, edge) PROVE Bar!BarTypeOK'
  BY <1>2 DEF Bar!BarTypeOK, Bar!PointerMoved
<1> QED BY <1>1, <1>2

LEMMA NextBarTyped ==
  ASSUME Bar!BarTypeOK, [Next]_vars
  PROVE  Bar!BarTypeOK'
<1>1. ASSUME NEW k \in Keys, KeyReleased(k) \/ \E repeat \in BOOLEAN : KeyPressed(k, repeat)
      PROVE  Bar!BarTypeOK'
  BY <1>1, BarStep DEF KeyReleased, KeyPressed, ToggleFullscreen
<1>2. ASSUME NEW b \in Buttons, ButtonPressed(b) \/ ButtonReleased(b)
      PROVE  Bar!BarTypeOK'
  BY <1>2, BarStep DEF ButtonPressed, ButtonReleased, BarClick, ToggleFullscreen
<1>3. ASSUME NEW zone \in Zones, NEW edge \in BOOLEAN, CursorMoved(zone, edge)
      PROVE  Bar!BarTypeOK'
  BY <1>3, BarStep DEF CursorMoved
<1>4. ASSUME NEW maximized \in BOOLEAN, Resized(maximized)
      PROVE  Bar!BarTypeOK'
  BY <1>4, BarStep DEF Resized
<1>5. CASE ModifiersChanged \/ FocusLost \/ FocusGained \/ CursorLeft \/ MouseWheel \/ CloseRequested
  BY <1>5, BarStep DEF ModifiersChanged, FocusLost, FocusGained, CursorLeft, MouseWheel, CloseRequested
<1>6. CASE HideTimer \/ FrameArrives \/ WindowResizes \/ ModeChanges \/ HandsElsewhere \/ ConnectionLost
  BY <1>6, BarStep DEF HideTimer, FrameArrives, WindowResizes, ModeChanges, HandsElsewhere, ConnectionLost
<1>7. CASE UNCHANGED vars
  BY <1>7, BarStep DEF vars
<1> QED BY <1>1, <1>2, <1>3, <1>4, <1>5, <1>6, <1>7 DEF Next

LEMMA NextWindowTyped ==
  ASSUME IInv, WindowTyped, [Next]_vars
  PROVE  WindowTyped'
<1> USE DEF WindowTyped
<1>1. ASSUME NEW k \in Keys, KeyReleased(k)
      PROVE  WindowTyped'
  BY <1>1 DEF KeyReleased, Inputs
<1>2. ASSUME NEW k \in Keys, NEW repeat \in BOOLEAN, KeyPressed(k, repeat)
      PROVE  WindowTyped'
  BY <1>2 DEF KeyPressed, DialogKey, DialogConfirm, DialogCancel, DialogIgnores, ConfirmClose, ToggleFullscreen, Inputs
<1>3. ASSUME NEW b \in Buttons, ButtonPressed(b)
      PROVE  WindowTyped'
  BY <1>3 DEF ButtonPressed, DialogClick, DialogConfirm, DialogCancel, DialogIgnores, ConfirmClose, BarClick,
         RequestClose, ToggleFullscreen, Inputs
<1>4. ASSUME NEW b \in Buttons, ButtonReleased(b)
      PROVE  WindowTyped'
  BY <1>4 DEF ButtonReleased, Inputs
<1>5. ASSUME NEW zone \in Zones, NEW edge \in BOOLEAN, CursorMoved(zone, edge)
      PROVE  WindowTyped'
  BY <1>5 DEF CursorMoved, outside
<1>6. ASSUME NEW maximized \in BOOLEAN, Resized(maximized)
      PROVE  WindowTyped'
  <2>1. resizes \in Seq(BOOLEAN) /\ resizes # <<>> /\ resizes' = Tail(resizes)
    BY <1>6 DEF IInv, Resized
  <2>2. Len(resizes') <= MaxResizes
    BY <2>1, HeadTailProperties, WindowAssumption
  <2>3. close_dialog' \in BOOLEAN
    BY <1>6 DEF Resized
  <2> QED BY <1>6, <2>2, <2>3 DEF Resized, outside
<1>7. CASE ModifiersChanged \/ FocusLost \/ FocusGained \/ CursorLeft \/ MouseWheel
  <2>1. CASE ModifiersChanged
    <3>1. modifiers' \in BOOLEAN
      <4>1. modifiers' = ("Mods" \in physical)
        BY <2>1 DEF ModifiersChanged
      <4>2. ("Mods" \in physical) \in BOOLEAN
        OBVIOUS
      <4> QED BY <4>1, <4>2, Zenon
    <3> QED BY <2>1, <3>1 DEF ModifiersChanged, outside
  <2>2. CASE FocusLost \/ FocusGained \/ CursorLeft \/ MouseWheel
    BY <2>2 DEF FocusLost, FocusGained, CursorLeft, MouseWheel, outside
  <2> QED BY <1>7, <2>1, <2>2
<1>8. CASE CloseRequested \/ HideTimer \/ FrameArrives \/ ModeChanges \/ ConnectionLost
  BY <1>8 DEF CloseRequested, RequestClose, ConfirmClose, HideTimer, FrameArrives, ModeChanges, ConnectionLost, outside
<1>9. CASE WindowResizes
  <2>1. resizes \in Seq(BOOLEAN) /\ Len(resizes) < MaxResizes
    BY <1>9 DEF IInv, WindowResizes
  <2>2. PICK f \in BOOLEAN : resizes' = Append(resizes, f)
    BY <1>9 DEF WindowResizes
  <2>3. Len(resizes') <= MaxResizes
    BY <2>1, <2>2, AppendProperties, LenProperties, WindowAssumption
  <2> QED BY <1>9, <2>3 DEF WindowResizes
<1>10. CASE HandsElsewhere
  BY <1>10 DEF HandsElsewhere, Inputs
<1>11. CASE UNCHANGED vars
  BY <1>11 DEF vars
<1> QED BY <1>1, <1>2, <1>3, <1>4, <1>5, <1>6, <1>7, <1>8, <1>9, <1>10, <1>11 DEF Next

(* Every variable of the window and its bar keeps its type, and no more    *)
(* size changes are under way than there may be.                           *)
THEOREM TypeCorrect == Spec => []TypeOK
<1>1. Init => Bar!BarTypeOK /\ WindowTyped
  <2>1. Len(<<>>) = 0
    OBVIOUS
  <2>2. ASSUME Init PROVE Bar!BarTypeOK
    BY <2>2 DEF Init, Bar!New, Bar!BarTypeOK
  <2>3. ASSUME Init PROVE WindowTyped
    <3>1. Len(resizes) <= MaxResizes
      <4>1. Len(resizes) = 0
        BY <2>1, <2>3 DEF Init
      <4> QED BY <4>1, WindowAssumption
    <3>2. close_dialog \in BOOLEAN /\ modifiers \in BOOLEAN /\ desktop \in BOOLEAN /\ focused \in BOOLEAN
      BY <2>3 DEF Init
    <3> QED BY <2>3, <3>1, <3>2, WindowAssumption DEF Init, WindowTyped
  <2> QED BY <2>2, <2>3
<1> QED BY <1>1, InitHolds, StepKeeps, NextBarTyped, NextWindowTyped, TypeParts, PTL DEF Spec
-----------------------------------------------------------------------------
(* While the close dialog is up the remote desktop gets no input, and a    *)
(* dialog that is up can be drawn, whatever the window was resized to.     *)
THEOREM DialogModalHolds == Spec => []DialogModal
<1>1. IInv => DialogModal
  BY DEF IInv
<1> QED BY <1>1, InitHolds, StepKeeps, PTL DEF Spec

(* While the connection bar takes clicks, no button is held over there.    *)
THEOREM BarOwnsPointerHolds == Spec => []BarOwnsPointer
<1>1. IInv => BarOwnsPointer
  BY DEF IInv
<1> QED BY <1>1, InitHolds, StepKeeps, PTL DEF Spec

(* Of all keys and buttons only Enter may stay down on the remote desktop  *)
(* after the user let go of it.                                            *)
THEOREM OnlyEnterStuckHolds == Spec => []OnlyEnterStuck
<1>1. IInv => OnlyEnterStuck
  BY DEF IInv
<1> QED BY <1>1, InitHolds, StepKeeps, PTL DEF Spec

(* A desktop on screen is closed from the dialog only, whatever event asks *)
(* for it, unless the window has no room for a dialog.                     *)
THEOREM AskedFirstHolds == Spec => AskedFirst
<1> DEFINE Asked == closing' # closing /\ closing' = "Graceful" => close_dialog \/ ~fits
<1>1. [Next]_vars => Asked
  <2> SUFFICES ASSUME [Next]_vars PROVE Asked
    OBVIOUS
  <2>1. ASSUME NEW k \in Keys, NEW repeat \in BOOLEAN, KeyPressed(k, repeat) PROVE Asked
    BY <2>1 DEF KeyPressed, DialogKey, DialogConfirm, DialogCancel, DialogIgnores
  <2>2. ASSUME NEW b \in Buttons, ButtonPressed(b) PROVE Asked
    BY <2>2 DEF ButtonPressed, DialogClick, DialogConfirm, DialogCancel, DialogIgnores,
                BarClick, RequestClose, ConfirmClose
  <2>3. ASSUME CloseRequested PROVE Asked
    BY <2>3 DEF CloseRequested, RequestClose, ConfirmClose
  <2>4. ASSUME NEW k \in Keys, KeyReleased(k) PROVE Asked
    BY <2>4 DEF KeyReleased
  <2>5. ASSUME NEW b \in Buttons, ButtonReleased(b) PROVE Asked
    BY <2>5 DEF ButtonReleased
  <2>6. ASSUME NEW zone \in Zones, NEW edge \in BOOLEAN, CursorMoved(zone, edge) PROVE Asked
    BY <2>6 DEF CursorMoved
  <2>7. ASSUME NEW maximized \in BOOLEAN, Resized(maximized) PROVE Asked
    BY <2>7 DEF Resized
  <2>8. ASSUME ModifiersChanged \/ FocusLost \/ FocusGained PROVE Asked
    BY <2>8 DEF ModifiersChanged, FocusLost, FocusGained
  <2>9. ASSUME CursorLeft \/ MouseWheel \/ HideTimer \/ FrameArrives PROVE Asked
    BY <2>9 DEF CursorLeft, MouseWheel, HideTimer, FrameArrives
  <2>10. ASSUME WindowResizes \/ ModeChanges \/ HandsElsewhere \/ ConnectionLost PROVE Asked
    BY <2>10 DEF WindowResizes, ModeChanges, HandsElsewhere, ConnectionLost
  <2>11. ASSUME UNCHANGED vars PROVE Asked
    BY <2>11 DEF vars
  <2> QED BY <2>1, <2>2, <2>3, <2>4, <2>5, <2>6, <2>7, <2>8, <2>9, <2>10, <2>11 DEF Next
<1> QED BY <1>1, PTL DEF Spec, AskedFirst
-----------------------------------------------------------------------------
(* A kept resolution drawn scaled (DesktopSize), for windows and desktops  *)
(* of every size: the pointer, the picture and the area repainted round    *)
(* differently and agree all the same. The arithmetic is in DamageProofs;  *)
(* here are the sizes that the events lead to.                             *)

(* What the invariant says, at one pair of sizes.                          *)

LEMMA PointerLandsThere ==
  ASSUME window \in Proper, desktop_size \in Proper
  PROVE  PointerLands
<1> SUFFICES ASSUME NEW at \in Pixels(Covering(window)),
                    NEW on, on = DesktopPointer(window, desktop_size, keep, at), on # <<>>
             PROVE  /\ on[1][1] < desktop_size[1] /\ on[1][2] < desktop_size[2]
                    /\ at \in Pixels(IF keep /\ Scaled(window, desktop_size)
                                     THEN ToWindow(window, desktop_size, Rect(on[1][1], on[1][2], 1, 1))
                                     ELSE Rect(on[1][1], on[1][2], 1, 1))
  BY DEF PointerLands
<1>1. at \in Int \X Int
  BY DEF Pixels, Covering, Rect, Proper
<1>2. CASE keep /\ Scaled(window, desktop_size)
  <2>1. on = ToDesktop(window, desktop_size, at)
    BY <1>2 DEF DesktopPointer
  <2> HIDE DEF Proper
  <2> QED BY <1>1, <1>2, <2>1, ScaledPointerLands
<1>3. CASE ~(keep /\ Scaled(window, desktop_size))
  <2>1. on = <<at>> /\ at[1] < desktop_size[1] /\ at[2] < desktop_size[2]
    BY <1>3 DEF DesktopPointer, RemotePointer
  <2>2. at \in Pixels(Rect(at[1], at[2], 1, 1))
    BY <1>1, InPixels
  <2> QED BY <1>3, <2>1, <2>2
<1> QED BY <1>2, <1>3

LEMMA RepaintCoversThere ==
  ASSUME window \in Proper, desktop_size \in Proper
  PROVE  RepaintCovers
<1> SUFFICES ASSUME NEW source \in Pixels(Covering(desktop_size))
             PROVE  LET repainted == Pixels(ToWindow(window, desktop_size, Rect(source[1], source[2], 1, 1)))
                        picture == Pixels(Area(window, desktop_size))
                    IN  /\ repainted \subseteq picture /\ picture \subseteq Pixels(Covering(window))
                        /\ \A at \in picture :
                             (\E n \in 1 .. 4 : Blended(window, desktop_size, at)[n] = source) => at \in repainted
  BY DEF RepaintCovers
<1> DEFINE area == Area(window, desktop_size)
<1>1. /\ desktop_size[1] \in Nat \ {0} /\ desktop_size[2] \in Nat \ {0}
  BY DEF Proper
<1>2. /\ source = <<source[1], source[2]>>
      /\ source[1] \in 0 .. desktop_size[1] - 1 /\ source[2] \in 0 .. desktop_size[2] - 1
  BY <1>1 DEF Pixels, Covering, Rect
<1>3. /\ area.x \in Nat /\ area.y \in Nat
      /\ area.width \in Nat \ {0} /\ area.height \in Nat \ {0}
  <2> HIDE DEF Proper
  <2> QED BY AreaFits
<1>4. /\ Pixels(ToWindow(window, desktop_size, Rect(source[1], source[2], 1, 1))) \subseteq Pixels(area)
      /\ Pixels(area) \subseteq Pixels(Covering(window))
  <2> HIDE DEF Proper
  <2> QED BY <1>2, SpotInPicture, PictureInWindow
<1>5. ASSUME NEW at \in Pixels(area), NEW n \in 1 .. 4, Blended(window, desktop_size, at)[n] = source
      PROVE  at \in Pixels(ToWindow(window, desktop_size, Rect(source[1], source[2], 1, 1)))
  <2> HIDE DEF area
  <2>1. at \in Int \X Int /\ InArea(area, at)
    BY <1>3 DEF Pixels, InArea
  <2> DEFINE columns == Sample(at[1] - area.x, area.width, desktop_size[1])
             rows == Sample(at[2] - area.y, area.height, desktop_size[2])
  <2>2. Blended(window, desktop_size, at)
          = << <<columns[1], rows[1]>>, <<columns[2], rows[1]>>,
               <<columns[1], rows[2]>>, <<columns[2], rows[2]>> >>
    BY <2>1 DEF Blended, area
  <2> HIDE DEF columns, rows
  <2>3. source[1] \in {columns[1], columns[2]} /\ source[2] \in {rows[1], rows[2]}
    BY <1>5, <2>2
  <2>4. at[1] - area.x \in 0 .. area.width - 1 /\ at[2] - area.y \in 0 .. area.height - 1
    <3> HIDE DEF Proper
    <3> QED BY <2>1, InsideArea DEF area
  <2>5. source[1] \in Int /\ source[2] \in Int
    BY <1>1, <1>2
  <2>6. /\ RepaintFrom(source[1], area.width, desktop_size[1]) \in Nat
        /\ RepaintFrom(source[1], area.width, desktop_size[1]) <= at[1] - area.x
        /\ RepaintTo(source[1], area.width, desktop_size[1]) \in Nat
        /\ at[1] - area.x < RepaintTo(source[1], area.width, desktop_size[1])
    BY <1>1, <1>3, <2>3, <2>4, <2>5, BlendAxis DEF columns
  <2>7. /\ RepaintFrom(source[2], area.height, desktop_size[2]) \in Nat
        /\ RepaintFrom(source[2], area.height, desktop_size[2]) <= at[2] - area.y
        /\ RepaintTo(source[2], area.height, desktop_size[2]) \in Nat
        /\ at[2] - area.y < RepaintTo(source[2], area.height, desktop_size[2])
    BY <1>1, <1>3, <2>3, <2>4, <2>5, BlendAxis DEF rows
  <2> HIDE DEF Proper
  <2> QED BY <2>1, <2>5, <2>6, <2>7, SpotContains DEF area
<1> QED BY <1>4, <1>5
-----------------------------------------------------------------------------
(* The sizes the events lead to.                                           *)

AllSizes == Normal \cup {Maximized, FullScreen, Initial}
Modes == {"normal", "maximized", "full"}
Undrawn == <<0, 0>>

SizeIInv ==
  /\ mode \in Modes /\ window \in AllSizes
  /\ wishes \in Seq(Modes) /\ events \in Seq(AllSizes)
  /\ last_size \in Seq(AllSizes)
  /\ channel \in Seq(AllSizes \cup {InputMessage})
  /\ frame_size \in AllSizes \cup {Undrawn} /\ desktop_size \in AllSizes \cup {Undrawn}

LEMMA SizesProper == AllSizes \subseteq Proper
BY SizeAssumption DEF AllSizes, Proper, Empty

LEMMA ModeSizes ==
  ASSUME NEW m \in Modes
  PROVE  Sizes(m) \subseteq AllSizes
BY DEF Modes, Sizes, AllSizes

LEMMA SizeInitIInv == SizeInit => SizeIInv
<1> SUFFICES ASSUME SizeInit PROVE SizeIInv
  OBVIOUS
<1>1. mode \in Modes
  BY DEF SizeInit, Modes
<1>2. window \in AllSizes
  BY <1>1, ModeSizes DEF SizeInit
<1>3. events \in Seq(AllSizes)
  BY <1>2 DEF SizeInit
<1>4. /\ wishes \in Seq(Modes) /\ last_size \in Seq(AllSizes)
      /\ channel \in Seq(AllSizes \cup {InputMessage})
      /\ frame_size = Undrawn /\ desktop_size = Undrawn
  BY DEF SizeInit, Undrawn
<1> QED BY <1>1, <1>2, <1>3, <1>4 DEF SizeIInv

LEMMA BecomesIInv ==
  ASSUME SizeIInv, NEW m \in Modes, Becomes(m)
  PROVE  mode' \in Modes /\ window' \in AllSizes /\ events' \in Seq(AllSizes)
<1>1. mode' = m /\ window' \in AllSizes
  BY ModeSizes DEF Becomes
<1>2. Append(events, window') \in Seq(AllSizes)
  BY <1>1 DEF SizeIInv
<1> QED BY <1>1, <1>2 DEF Becomes, SizeIInv

LEMMA SystemIInv ==
  ASSUME SizeIInv, UserResizes \/ WindowSystem \/ SwitchFullscreen
  PROVE  SizeIInv'
<1>1. CASE UserResizes
  <2>1. PICK m \in {"normal", "maximized"} : Becomes(m)
    BY <1>1 DEF UserResizes
  <2>2. m \in Modes
    BY DEF Modes
  <2> QED BY <1>1, <2>1, <2>2, BecomesIInv DEF UserResizes, askedVars, shownVars, SizeIInv
<1>2. CASE WindowSystem
  <2>1. PICK n \in DOMAIN wishes : Becomes(wishes[n]) /\ wishes' = SubSeq(wishes, n + 1, Len(wishes))
    BY <1>2 DEF WindowSystem
  <2>2. wishes \in Seq(Modes) /\ n \in 1 .. Len(wishes) /\ wishes[n] \in Modes
    BY DEF SizeIInv
  <2>3. SubSeq(wishes, n + 1, Len(wishes)) \in Seq(Modes)
    BY <2>2, SubSeqProperties
  <2> QED BY <1>2, <2>1, <2>2, <2>3, BecomesIInv DEF WindowSystem, askedVars, shownVars, SizeIInv
<1>3. CASE SwitchFullscreen
  <2>1. wishes' \in Seq(Modes)
    BY <1>3 DEF SwitchFullscreen, SizeIInv, Modes
  <2> QED BY <1>3, <2>1 DEF SwitchFullscreen, askedVars, SizeIInv
<1> QED BY <1>1, <1>2, <1>3

LEMMA ResizedIInv ==
  ASSUME SizeIInv, SizeChanged
  PROVE  SizeIInv'
<1>1. events # <<>> /\ events \in Seq(AllSizes) /\ events' = Tail(events)
  BY DEF SizeChanged, SizeIInv
<1>2. Head(events) \in AllSizes /\ events' \in Seq(AllSizes)
  BY <1>1, HeadTailProperties
<1>3. wishes \o <<"normal", "full">> \in Seq(Modes)
  <2>1. <<"normal", "full">> \in Seq(Modes)
    BY DEF Modes
  <2> QED BY <2>1, ConcatProperties DEF SizeIInv
<1>4. wishes' \in Seq(Modes)
  BY <1>3 DEF SizeChanged, SizeIInv
<1>5. last_size' = last_size \/ last_size' = <<Head(events)>>
  BY DEF SizeChanged
<1>6. last_size' \in Seq(AllSizes)
  <2>1. \A size \in AllSizes : <<size>> \in Seq(AllSizes)
    OBVIOUS
  <2> QED BY <1>2, <1>5, <2>1 DEF SizeIInv
<1> QED BY <1>2, <1>4, <1>6 DEF SizeChanged, SizeIInv

LEMMA ResizeTimeoutIInv ==
  ASSUME SizeIInv, ResizeTimeout
  PROVE  SizeIInv'
<1>1. /\ last_size' \in {last_size, <<>>}
      /\ channel' \in {channel, channel \o last_size}
  BY DEF ResizeTimeout, SendFull, SendAccepted, SendRefused
<1>2. last_size' \in Seq(AllSizes)
  BY <1>1, EmptySeq DEF SizeIInv
<1>3. channel \o last_size \in Seq(AllSizes \cup {InputMessage})
  <2>1. last_size \in Seq(AllSizes \cup {InputMessage})
    BY DEF SizeIInv
  <2> QED BY <2>1, ConcatProperties DEF SizeIInv
<1> QED BY <1>1, <1>2, <1>3 DEF ResizeTimeout, systemVars, shownVars, SizeIInv

LEMMA ThreadIInv ==
  ASSUME SizeIInv, Input \/ Connect \/ Receive \/ Close \/ Draw
  PROVE  SizeIInv'
<1>1. CASE Input
  <2>1. channel' \in Seq(AllSizes \cup {InputMessage})
    BY <1>1 DEF Input, SizeIInv
  <2> QED BY <1>1, <2>1 DEF Input, systemVars, shownVars, SizeIInv
<1>2. CASE Connect
  <2>1. frame_size' \in AllSizes
    BY <1>2 DEF Connect, AllSizes
  <2> QED BY <1>2, <2>1 DEF Connect, systemVars, askedVars, SizeIInv
<1>3. CASE Receive
  <2>1. channel # <<>> /\ channel \in Seq(AllSizes \cup {InputMessage}) /\ channel' = Tail(channel)
    BY <1>3 DEF Receive, SizeIInv
  <2>2. Head(channel) \in AllSizes \cup {InputMessage} /\ channel' \in Seq(AllSizes \cup {InputMessage})
    BY <2>1, HeadTailProperties
  <2>3. frame_size' \in AllSizes \cup {Undrawn}
    BY <1>3, <2>2 DEF Receive, SizeIInv
  <2> QED BY <1>3, <2>2, <2>3 DEF Receive, systemVars, SizeIInv
<1>4. CASE Close
  BY <1>4 DEF Close, systemVars, SizeIInv
<1>5. CASE Draw
  BY <1>5 DEF Draw, systemVars, askedVars, SizeIInv
<1> QED BY <1>1, <1>2, <1>3, <1>4, <1>5

LEMMA SizeNextIInv == SizeIInv /\ [SizeNext]_sizeVars => SizeIInv'
<1>1. ASSUME SizeIInv, UNCHANGED sizeVars PROVE SizeIInv'
  BY <1>1 DEF sizeVars, systemVars, askedVars, shownVars, SizeIInv
<1> QED BY <1>1, SystemIInv, ResizedIInv, ResizeTimeoutIInv, ThreadIInv DEF SizeNext

(* The pointer's, the picture's and the repainted area's scaling agree at  *)
(* every window and desktop size that resizes, toggles, retries and the    *)
(* server's answers lead to, however large (Damage says up to which size   *)
(* the code's integers hold the products). That a size is never empty once *)
(* something is drawn is the invariant; the rest is about any two sizes:   *)
(* each quotient lies within one desktop pixel of the exact position, and  *)
(* the margin of a repainted area is that pixel.                           *)
THEOREM ScalingAgreesHolds == SizeSpec => []ScalingAgrees
<1>1. SizeIInv => ScalingAgrees
  <2> SUFFICES ASSUME SizeIInv, ~Empty(desktop_size)
               PROVE  PointerLands /\ RepaintCovers
    BY DEF ScalingAgrees
  <2>1. window \in AllSizes /\ desktop_size \in AllSizes
    BY DEF SizeIInv, Undrawn, Empty
  <2> QED BY <2>1, SizesProper, PointerLandsThere, RepaintCoversThere
<1> QED BY <1>1, SizeInitIInv, SizeNextIInv, PTL DEF SizeSpec

(* What the invariant above leaves of the types: the window has a size of  *)
(* its mode, and neither the size to ask for nor the channel outgrows its  *)
(* place, though a resize and the input share the channel.                 *)
LEMMA TypedSystem ==
  ASSUME SizeIInv, SizeTypeOK, UserResizes \/ WindowSystem \/ SwitchFullscreen
  PROVE  SizeTypeOK'
<1>1. ASSUME NEW m \in Modes, Becomes(m)
      PROVE  mode' \in {"normal", "maximized", "full"} /\ window' \in Sizes(mode')
  BY <1>1 DEF Becomes, Modes
<1>2. CASE UserResizes
  <2>1. PICK m \in {"normal", "maximized"} : Becomes(m)
    BY <1>2 DEF UserResizes
  <2>2. m \in Modes
    BY DEF Modes
  <2>3. mode' \in {"normal", "maximized", "full"} /\ window' \in Sizes(mode')
    BY <1>1, <2>1, <2>2
  <2> QED BY <1>2, <2>3 DEF UserResizes, askedVars, shownVars, SizeTypeOK, Sizes
<1>3. CASE WindowSystem
  <2>1. PICK n \in DOMAIN wishes : Becomes(wishes[n])
    BY <1>3 DEF WindowSystem
  <2>2. wishes[n] \in Modes
    BY DEF SizeIInv
  <2>3. mode' \in {"normal", "maximized", "full"} /\ window' \in Sizes(mode')
    BY <1>1, <2>1, <2>2
  <2> QED BY <1>3, <2>3 DEF WindowSystem, askedVars, shownVars, SizeTypeOK, Sizes
<1>4. CASE SwitchFullscreen
  BY <1>4 DEF SwitchFullscreen, askedVars, SizeTypeOK, Sizes
<1> QED BY <1>2, <1>3, <1>4

LEMMA TypedResized ==
  ASSUME SizeIInv, SizeTypeOK, SizeChanged
  PROVE  SizeTypeOK'
<1>1. Len(last_size') <= 1
  <2>1. last_size' = last_size \/ last_size' = <<Head(events)>>
    BY DEF SizeChanged
  <2>2. \A size : Len(<<size>>) = 1
    OBVIOUS
  <2>3. Len(last_size') = Len(last_size) \/ Len(last_size') = 1
    BY <2>1, <2>2, Zenon
  <2> QED BY <2>3 DEF SizeTypeOK
<1>2. {resize_timeout', redraw', refused'} \subseteq BOOLEAN
  BY DEF SizeChanged, SizeTypeOK
<1> QED BY <1>1, <1>2 DEF SizeChanged, SizeTypeOK, Sizes

LEMMA TypedTimeout ==
  ASSUME SizeIInv, SizeTypeOK, ResizeTimeout
  PROVE  SizeTypeOK'
<1>1. Len(last_size') <= 1 /\ {resize_timeout', refused'} \subseteq BOOLEAN
  <2>1. last_size' = last_size \/ last_size' = <<>>
    BY DEF ResizeTimeout, SendFull, SendAccepted, SendRefused
  <2>2. Len(<<>>) = 0
    OBVIOUS
  <2>3. Len(last_size') <= 1
    BY <2>1, <2>2 DEF SizeTypeOK
  <2>4. resize_timeout' \in BOOLEAN /\ refused' \in BOOLEAN
    BY DEF ResizeTimeout, SendFull, SendAccepted, SendRefused, SizeTypeOK
  <2> QED BY <2>3, <2>4
<1>2. Len(channel') <= CAPACITY
  <2>1. CASE channel' = channel
    BY <2>1 DEF SizeTypeOK
  <2>2. CASE SendAccepted
    <3>1. last_size \in Seq(AllSizes \cup {InputMessage})
      BY DEF SizeIInv
    <3>2. channel' = channel \o last_size /\ Len(channel) < CAPACITY
      BY <2>2 DEF SendAccepted
    <3>3. Len(channel \o last_size) = Len(channel) + Len(last_size)
      BY <3>1, ConcatProperties DEF SizeIInv
    <3>4. Len(channel) \in Nat /\ Len(last_size) \in Nat /\ Len(last_size) <= 1
      BY DEF SizeIInv, SizeTypeOK
    <3> QED BY <3>2, <3>3, <3>4, SizeAssumption
  <2> QED BY <2>1, <2>2 DEF ResizeTimeout, SendFull, SendRefused
<1> QED BY <1>1, <1>2 DEF ResizeTimeout, systemVars, shownVars, SizeTypeOK, Sizes

LEMMA TypedThread ==
  ASSUME SizeIInv, SizeTypeOK, Input \/ Connect \/ Receive \/ Close \/ Draw
  PROVE  SizeTypeOK'
<1>1. CASE Input
  <2>1. Len(channel') = Len(channel) + 1 /\ Len(channel) < CAPACITY /\ Len(channel) \in Nat
    BY <1>1 DEF Input, SizeIInv
  <2>2. Len(channel') <= CAPACITY
    BY <2>1, SizeAssumption
  <2> QED BY <1>1, <2>2 DEF Input, systemVars, shownVars, SizeTypeOK, Sizes
<1>2. CASE Connect
  BY <1>2 DEF Connect, systemVars, askedVars, SizeTypeOK, Sizes
<1>3. CASE Receive
  <2>1. channel \in Seq(AllSizes \cup {InputMessage}) /\ channel # <<>> /\ channel' = Tail(channel)
    BY <1>3 DEF Receive, SizeIInv
  <2>2. Len(channel') = Len(channel) - 1 /\ Len(channel) \in Nat
    BY <2>1, HeadTailProperties
  <2>3. Len(channel') <= CAPACITY
    BY <2>2, SizeAssumption DEF SizeTypeOK
  <2>4. redraw' \in BOOLEAN
    BY <1>3 DEF Receive, SizeTypeOK
  <2> QED BY <1>3, <2>3, <2>4 DEF Receive, systemVars, SizeTypeOK, Sizes
<1>4. CASE Close
  BY <1>4, SizeAssumption DEF Close, systemVars, SizeTypeOK, Sizes
<1>5. CASE Draw
  BY <1>5 DEF Draw, systemVars, askedVars, SizeTypeOK, Sizes
<1> QED BY <1>1, <1>2, <1>3, <1>4, <1>5

(* Every variable keeps its type, the size asked for is one at most and    *)
(* the channel never holds more than its limit, whatever bursts of events, *)
(* retries and input come together.                                        *)
THEOREM SizesTyped == SizeSpec => []SizeTypeOK
<1>1. SizeInit => SizeTypeOK
  <2> SUFFICES ASSUME SizeInit PROVE SizeTypeOK
    OBVIOUS
  <2>1. Len(last_size) = 0 /\ Len(channel) = 0
    BY DEF SizeInit
  <2>2. {resize_timeout, redraw, refused} \subseteq BOOLEAN
    BY DEF SizeInit
  <2>3. mode \in {"normal", "maximized", "full"} /\ window \in Sizes(mode)
    BY DEF SizeInit
  <2>4. target \in Targets /\ keep \in Keeps /\ session = "connecting"
    BY DEF SizeInit
  <2> QED BY <2>1, <2>2, <2>3, <2>4, SizeAssumption DEF SizeTypeOK
<1>2. SizeIInv /\ SizeTypeOK /\ [SizeNext]_sizeVars => SizeTypeOK'
  <2>1. ASSUME SizeTypeOK, UNCHANGED sizeVars PROVE SizeTypeOK'
    BY <2>1 DEF sizeVars, systemVars, askedVars, shownVars, SizeTypeOK, Sizes
  <2> QED BY <2>1, TypedSystem, TypedResized, TypedTimeout, TypedThread DEF SizeNext
<1> QED BY <1>1, <1>2, SizeInitIInv, SizeNextIInv, PTL DEF SizeSpec
=============================================================================
