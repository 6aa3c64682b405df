---------------------------- MODULE SessionWindow ----------------------------
(***************************************************************************)
(* Where the input of a session window goes (session/src/app.rs): to the   *)
(* remote desktop, to the connection bar, to the close dialog, or to the   *)
(* Ctrl+Alt+Enter shortcut; and what closing the window asks first.        *)
(*                                                                         *)
(* One action is one window event handled to its end by the event loop, or *)
(* a change outside the program: the user's hands, the focus, the size of  *)
(* the window and, with Compositor, its full-screen mode. The input queue  *)
(* is HeldInputs, which InputQueue is shown to implement.                  *)
(***************************************************************************)
EXTENDS Naturals, Sequences, FiniteSets

CONSTANTS
  Keys,         (* "Enter", "Escape", others; "Mods" is Ctrl and Alt        *)
  Buttons,      (* "Left", others                                           *)
  Zones,        (* the parts of the window the pointer visits               *)
  Compositor,   (* full screen also changes late or on the compositor's own *)
  MaxResizes,   (* bound: resizes not handled yet                           *)
  Nothing       (* no part of the bar                                       *)

ASSUME WindowAssumption ==
  /\ Zones \subseteq {"Pin", "Restore", "Close", "Body",   \* the bar's place
                      "Disconnect", "Cancel",              \* the dialog's
                      "Desktop", "Padding"}
  /\ "Desktop" \in Zones
  /\ Keys \cap Buttons = {}
  /\ Compositor \in BOOLEAN /\ MaxResizes \in Nat

VARIABLES
  pinned, revealed, hide_at, hover,  (* the connection bar                  *)
  held,           (* what the remote desktop ends up holding down           *)
  close_dialog,   (* the dialog is up                                       *)
  closing,        (* the close signal sent to the RDP thread                *)
  modifiers,      (* Ctrl and Alt are down, as last reported                *)
  desktop,        (* a frame of the remote desktop has been received        *)
  pointer,        (* where the pointer was last seen                        *)
  physical,       (* environment: inputs the user's hands hold down         *)
  focused,        (* environment: the window has the keyboard               *)
  fullscreen,     (* environment: the window is in full screen              *)
  fits,           (* environment: the window has room for the dialog        *)
  resizes         (* resize events not handled yet: whether the size fits   *)

barVars == <<pinned, revealed, hide_at, hover>>
outside == <<physical, focused, fits>>
vars == <<barVars, held, close_dialog, closing, modifiers, desktop, pointer,
          physical, focused, fullscreen, fits, resizes>>

Bar == INSTANCE ConnectionBar
Queue == INSTANCE HeldInputs

Inputs == Keys \cup Buttons
-----------------------------------------------------------------------------
Init ==
  /\ Bar!New /\ Queue!Init
  /\ close_dialog = FALSE /\ closing = "none" /\ modifiers = FALSE
  /\ desktop = FALSE /\ pointer = "Desktop"
  /\ physical = {} /\ focused = TRUE /\ fullscreen \in BOOLEAN
  /\ fits = TRUE /\ resizes = <<>>

OnDesktop(zone) == desktop /\ zone # "Padding"

(* toggle_fullscreen: it is the mode that is, not the one asked for, that  *)
(* is toggled.                                                             *)
ToggleFullscreen == Bar!Reset /\ fullscreen' = ~fullscreen

(* confirm_close, for a direct connection.                                 *)
ConfirmClose == closing' = IF desktop THEN "Graceful" ELSE "Cancel"

(* Seeded fault: the dialog opens over held inputs.                        *)
RequestCloseHolding ==
  IF desktop /\ fits
  THEN close_dialog' = TRUE /\ UNCHANGED <<closing, held>>
  ELSE ConfirmClose /\ UNCHANGED <<close_dialog, held>>

(* Seeded fault: the window closes without asking.                         *)
RequestCloseUnasked == ConfirmClose /\ UNCHANGED <<close_dialog, held>>

(* request_close, the dialog not being up.                                 *)
RequestClose ==
  IF desktop /\ fits
  THEN close_dialog' = TRUE /\ Queue!ReleaseAll /\ UNCHANGED closing
  ELSE ConfirmClose /\ UNCHANGED <<close_dialog, held>>
-----------------------------------------------------------------------------
(* dialog_event: while the dialog is up it takes every key and the pointer.*)

DialogConfirm == close_dialog' = FALSE /\ ConfirmClose
DialogCancel == close_dialog' = FALSE /\ UNCHANGED closing
DialogIgnores == UNCHANGED <<close_dialog, closing>>

DialogKey(k) ==
  CASE k = "Enter" -> DialogConfirm
    [] k = "Escape" -> DialogCancel
    [] OTHER -> DialogIgnores

DialogClick(b) ==
  CASE b = "Left" /\ pointer = "Disconnect" -> DialogConfirm
    [] b = "Left" /\ pointer = "Cancel" -> DialogCancel
    [] OTHER -> DialogIgnores
-----------------------------------------------------------------------------
(* Keys. A key already down is pressed again by auto-repeat, or without    *)
(* `repeat` when the window system reports held keys to a focused window.  *)

Shortcut(k) == modifiers /\ k = "Enter"

KeyPressed(k, repeat) ==
  /\ focused /\ (repeat => k \in physical)
  /\ physical' = physical \cup {k}
  /\ \/ /\ close_dialog
        /\ DialogKey(k)
        /\ UNCHANGED <<barVars, held, fullscreen>>
     \/ /\ ~close_dialog /\ Shortcut(k)
        /\ IF repeat THEN UNCHANGED <<barVars, fullscreen>> ELSE ToggleFullscreen
        /\ UNCHANGED <<held, close_dialog, closing>>
     \/ /\ ~close_dialog /\ ~Shortcut(k)
        /\ Queue!Press(k)
        /\ UNCHANGED <<barVars, close_dialog, closing, fullscreen>>
  /\ UNCHANGED <<modifiers, desktop, pointer, focused, fits, resizes>>

KeyReleased(k) ==
  /\ focused /\ k \in physical
  /\ physical' = physical \ {k}
  /\ IF close_dialog \/ Shortcut(k) THEN UNCHANGED held ELSE Queue!Release(k)
  /\ UNCHANGED <<barVars, close_dialog, closing, modifiers, desktop, pointer, focused,
                 fullscreen, fits, resizes>>

ModifiersChanged ==
  /\ focused
  /\ modifiers' = ("Mods" \in physical)
  /\ UNCHANGED <<barVars, held, close_dialog, closing, desktop, pointer, outside, fullscreen, resizes>>

(* Seeded fault: held inputs stay down when the focus goes.                *)
FocusLostHolding ==
  /\ focused /\ focused' = FALSE
  /\ modifiers' = FALSE
  /\ UNCHANGED <<barVars, held, close_dialog, closing, desktop, pointer, physical, fullscreen, fits, resizes>>

(* Focused(false): the key-up may go to another window.                    *)
FocusLost ==
  /\ focused /\ focused' = FALSE
  /\ modifiers' = FALSE
  /\ Queue!ReleaseAll
  /\ UNCHANGED <<barVars, close_dialog, closing, desktop, pointer, physical, fullscreen, fits, resizes>>

FocusGained ==
  /\ ~focused /\ focused' = TRUE
  /\ UNCHANGED <<barVars, held, close_dialog, closing, modifiers, desktop, pointer, physical,
                 fullscreen, fits, resizes>>
-----------------------------------------------------------------------------
(* The pointer. `edge`: at the very top of the window.                     *)

(* Seeded fault: the bar takes the pointer and lets go of no button.       *)
CursorMovedHolding(zone, edge) ==
  /\ pointer' = zone
  /\ \/ /\ close_dialog
        /\ UNCHANGED <<barVars, held>>
     \/ /\ ~close_dialog /\ fullscreen /\ Bar!Captures(zone, edge)
        /\ Bar!PointerMoved(zone, edge)
        /\ UNCHANGED held
     \/ /\ ~close_dialog /\ ~(fullscreen /\ Bar!Captures(zone, edge))
        /\ IF fullscreen THEN Bar!PointerMoved(zone, edge) ELSE UNCHANGED barVars
        /\ IF OnDesktop(zone) THEN Queue!Becomes(held) ELSE UNCHANGED held
  /\ UNCHANGED <<close_dialog, closing, modifiers, desktop, outside, fullscreen, resizes>>

CursorMoved(zone, edge) ==
  /\ pointer' = zone
  /\ \/ /\ close_dialog
        /\ UNCHANGED <<barVars, held>>
     \/ /\ ~close_dialog /\ fullscreen /\ Bar!Captures(zone, edge)
        /\ Bar!PointerMoved(zone, edge)
        /\ Queue!ReleaseButtons
     \/ /\ ~close_dialog /\ ~(fullscreen /\ Bar!Captures(zone, edge))
        /\ IF fullscreen THEN Bar!PointerMoved(zone, edge) ELSE UNCHANGED barVars
        /\ IF OnDesktop(zone) THEN Queue!Becomes(held) ELSE UNCHANGED held
  /\ UNCHANGED <<close_dialog, closing, modifiers, desktop, outside, fullscreen, resizes>>

CursorLeft ==
  /\ IF close_dialog THEN UNCHANGED barVars ELSE Bar!PointerLeft
  /\ UNCHANGED <<held, close_dialog, closing, modifiers, desktop, pointer, outside, fullscreen, resizes>>

MouseWheel ==
  /\ ~close_dialog /\ OnDesktop(pointer)
  /\ ~(fullscreen /\ Bar!is_shown /\ Bar!hovered)
  /\ Queue!Becomes(held)
  /\ UNCHANGED <<barVars, close_dialog, closing, modifiers, desktop, pointer, outside, fullscreen, resizes>>

(* The bar takes a button: whatever was held is let go of, and a left      *)
(* press works the part the pointer is over.                               *)
BarClick ==
  \/ hover = "Pin" /\ Bar!ClickPin /\ Queue!ReleaseButtons /\ UNCHANGED <<close_dialog, closing, fullscreen>>
  \/ hover = "Restore" /\ ToggleFullscreen /\ Queue!ReleaseButtons /\ UNCHANGED <<close_dialog, closing>>
  \/ /\ hover = "Close"
     /\ IF desktop /\ fits THEN RequestClose ELSE Queue!ReleaseButtons /\ ConfirmClose /\ UNCHANGED close_dialog
     /\ UNCHANGED <<barVars, fullscreen>>
  \/ hover = "Body" /\ Queue!ReleaseButtons /\ UNCHANGED <<barVars, close_dialog, closing, fullscreen>>

BarTakesButton == Bar!is_shown /\ Bar!hovered

ButtonPressed(b) ==
  /\ b \notin physical /\ physical' = physical \cup {b}
  /\ \/ /\ close_dialog
        /\ DialogClick(b)
        /\ UNCHANGED <<barVars, held, fullscreen>>
     \/ /\ ~close_dialog /\ BarTakesButton
        /\ IF b = "Left" THEN BarClick
           ELSE Queue!ReleaseButtons /\ UNCHANGED <<barVars, close_dialog, closing, fullscreen>>
     \/ /\ ~close_dialog /\ ~BarTakesButton
        /\ IF OnDesktop(pointer) THEN Queue!Press(b) ELSE UNCHANGED held
        /\ UNCHANGED <<barVars, close_dialog, closing, fullscreen>>
  /\ UNCHANGED <<modifiers, desktop, pointer, focused, fits, resizes>>

(* A release counts wherever the pointer is: a drag past the edge ends.    *)
ButtonReleased(b) ==
  /\ b \in physical /\ physical' = physical \ {b}
  /\ IF close_dialog THEN UNCHANGED held
     ELSE IF BarTakesButton THEN Queue!ReleaseButtons ELSE Queue!Release(b)
  /\ UNCHANGED <<barVars, close_dialog, closing, modifiers, desktop, pointer, focused,
                 fullscreen, fits, resizes>>
-----------------------------------------------------------------------------
(* The window.                                                             *)

CloseRequested ==
  /\ ~close_dialog
  /\ RequestClose
  /\ UNCHANGED <<barVars, modifiers, desktop, pointer, outside, fullscreen, resizes>>

(* Resized: a dialog without room goes; maximizing means full screen.      *)
Resized(maximized) ==
  /\ resizes # <<>> /\ resizes' = Tail(resizes)
  /\ close_dialog' = (close_dialog /\ Head(resizes))
  /\ IF maximized /\ ~fullscreen THEN Bar!Reset /\ fullscreen' = TRUE ELSE UNCHANGED <<barVars, fullscreen>>
  /\ UNCHANGED <<held, closing, modifiers, desktop, pointer, outside>>

HideTimer ==
  /\ Bar!Tick
  /\ UNCHANGED <<held, close_dialog, closing, modifiers, desktop, pointer, outside, fullscreen, resizes>>

(* draw: the first frame makes it a desktop.                               *)
FrameArrives ==
  /\ ~desktop /\ desktop' = TRUE
  /\ UNCHANGED <<barVars, held, close_dialog, closing, modifiers, pointer, outside, fullscreen, resizes>>
-----------------------------------------------------------------------------
(* Outside the program.                                                    *)

WindowResizes ==
  /\ Len(resizes) < MaxResizes
  /\ \E f \in BOOLEAN : fits' = f /\ resizes' = Append(resizes, f)
  /\ UNCHANGED <<barVars, held, close_dialog, closing, modifiers, desktop, pointer,
                 physical, focused, fullscreen>>

(* A request takes effect late, or the compositor changes the mode itself. *)
ModeChanges ==
  /\ Compositor
  /\ fullscreen' = ~fullscreen
  /\ UNCHANGED <<barVars, held, close_dialog, closing, modifiers, desktop, pointer, outside, resizes>>

(* Keys go up and down in another window.                                  *)
HandsElsewhere ==
  /\ ~focused
  /\ \E k \in Keys : physical' = physical \cup {k} \/ physical' = physical \ {k}
  /\ UNCHANGED <<barVars, held, close_dialog, closing, modifiers, desktop, pointer,
                 focused, fullscreen, fits, resizes>>

ConnectionLost ==
  /\ Queue!ReleaseAll
  /\ UNCHANGED <<barVars, close_dialog, closing, modifiers, desktop, pointer, outside, fullscreen, resizes>>
-----------------------------------------------------------------------------
Next ==
  \/ \E k \in Keys : KeyReleased(k) \/ \E repeat \in BOOLEAN : KeyPressed(k, repeat)
  \/ \E b \in Buttons : ButtonPressed(b) \/ ButtonReleased(b)
  \/ \E zone \in Zones, edge \in BOOLEAN :
       (zone \in {"Disconnect", "Cancel"} => ~edge) /\ CursorMoved(zone, edge)
  \/ ModifiersChanged \/ FocusLost \/ FocusGained
  \/ CursorLeft \/ MouseWheel \/ CloseRequested
  \/ \E maximized \in BOOLEAN : Resized(maximized)
  \/ HideTimer \/ FrameArrives
  \/ WindowResizes \/ ModeChanges \/ HandsElsewhere \/ ConnectionLost

Spec == Init /\ [][Next]_vars
-----------------------------------------------------------------------------
TypeOK ==
  /\ Bar!BarTypeOK
  /\ held \subseteq Inputs /\ physical \subseteq Inputs
  /\ closing \in {"none", "Cancel", "Graceful"}
  /\ {close_dialog, modifiers, desktop, focused, fullscreen, fits} \subseteq BOOLEAN
  /\ pointer \in Zones /\ resizes \in Seq(BOOLEAN) /\ Len(resizes) <= MaxResizes

(* While the dialog is up the remote desktop receives no input: nothing is *)
(* held when it opens and nothing goes down before it closes. And a window *)
(* that knows its size is modal only where the dialog can be drawn.        *)
DialogModal == close_dialog => held = {} /\ (resizes = <<>> => fits)

(* The bar and the remote desktop never both have the pointer: no button   *)
(* is held over there while the bar takes the clicks here.                 *)
BarOwnsPointer == BarTakesButton => held \cap Buttons = {}

(* The remote desktop holds nothing the user's hands do not, but Enter:    *)
(* the shortcut hides its release (see NothingStuck).                      *)
OnlyEnterStuck == held \ {"Enter"} \subseteq physical
NothingStuck == held \subseteq physical

(* A session with a desktop on screen is closed only from the dialog, if   *)
(* the window has room to ask.                                             *)
AskedFirst ==
  [][closing' # closing /\ closing' = "Graceful" => close_dialog \/ ~fits]_vars
=============================================================================
