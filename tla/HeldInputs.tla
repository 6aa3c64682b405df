----------------------------- MODULE HeldInputs -----------------------------
(***************************************************************************)
(* What the input queue of a session window promises (the public functions *)
(* of session/src/input.rs), without queue, batches, channel or retries:   *)
(* the set of inputs the remote desktop ends up holding down. An operation *)
(* takes effect, or saturation or a lost connection lets go of everything; *)
(* an input is never left down on its own.                                 *)
(***************************************************************************)
EXTENDS FiniteSets

CONSTANTS
  Keys,     (* scan codes        *)
  Buttons   (* pointer buttons   *)

VARIABLE held   (* the inputs down once all that was accepted has arrived *)

Init == held = {}

(* The operation of `send` takes effect, or everything is let go of.       *)
Becomes(inputs) == held' = inputs \/ held' = {}

Press(i) == Becomes(held \cup {i})
Release(i) == Becomes(held \ {i})

(* Motion and wheel.                                                       *)
Move == Becomes(held)

(* release_buttons, for the connection bar.                                *)
ReleaseButtons == Becomes(held \cap Keys)

(* release_all, or the connection is lost.                                 *)
ReleaseAll == held' = {}

(* Delivering what was accepted.                                           *)
Unchanged == held' = held

Next ==
  \/ \E i \in Keys \cup Buttons : Press(i) \/ Release(i)
  \/ ReleaseButtons
  \/ Move
  \/ ReleaseAll

Spec == Init /\ [][Next]_held
=============================================================================
