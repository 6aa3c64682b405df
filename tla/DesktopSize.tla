---------------------------- MODULE DesktopSize ----------------------------
(***************************************************************************)
(* The size of the remote desktop (session/src/app.rs): the window is      *)
(* resized, maximized and put in full screen by the user and the window    *)
(* system; the session asks the server for the window's size, once per     *)
(* burst of events, over the channel that also carries input. A kept       *)
(* resolution is drawn scaled instead.                                     *)
(*                                                                         *)
(* One action is one event handled by the window, one message taken by the *)
(* RDP thread, or a change by the window system. A timer may fire at any   *)
(* time once it is set.                                                    *)
(***************************************************************************)
EXTENDS Damage, FiniteSets

CONSTANTS
  Normal,       (* sizes of a window that is neither maximized nor full     *)
  Maximized,    (* the size of a maximized window                           *)
  FullScreen,   (* the size of a full-screen window                         *)
  Initial,      (* the desktop size the connection asks for                 *)
  Targets,      (* "Direct", "Rpc": targets explored                        *)
  Keeps,        (* WINRDP_KEEP_RESOLUTION: values explored                  *)
  CAPACITY,     (* messages the channel holds at most                       *)
  MaxChanges    (* bound: changes by the user, input messages               *)

(* A maximized window keeps its title bar, a full-screen one has none.     *)
ASSUME SizeAssumption ==
  /\ \A size \in Normal \cup {Maximized, FullScreen, Initial} : size \in Nat \X Nat /\ ~Empty(size)
  /\ FullScreen # Maximized
  /\ Targets \subseteq {"Direct", "Rpc"} /\ Keeps \subseteq BOOLEAN
  /\ CAPACITY \in Nat \ {0} /\ MaxChanges \in Nat

VARIABLES
  target, keep,    (* the input target's kind; keep_resolution              *)
  mode,            (* "normal", "maximized", "full": as the window system has it *)
  window,          (* the window's size                                     *)
  wishes,          (* modes asked of the window system and not taken yet    *)
  events,          (* sizes of the Resized events not handled yet           *)
  last_size,       (* the size to ask for, if any                           *)
  resize_timeout,  (* when to ask is set                                    *)
  channel,         (* sizes asked for, and messages of input                *)
  session,         (* "connecting", "connected", "closed"                   *)
  frame_size,      (* the size of the shared frame                          *)
  redraw,          (* a draw is on its way                                  *)
  desktop_size,    (* the desktop's size when it was drawn last             *)
  refused,         (* history: the daemon refused the last size             *)
  changes          (* bound: changes so far                                 *)

systemVars == <<mode, window, wishes, events>>
askedVars == <<last_size, resize_timeout, channel, refused>>
shownVars == <<session, frame_size, redraw, desktop_size>>
sizeVars == <<target, keep, systemVars, askedVars, shownVars, changes>>

InputMessage == <<>>
Sizes(m) == CASE m = "normal" -> Normal [] m = "maximized" -> {Maximized} [] m = "full" -> {FullScreen}
-----------------------------------------------------------------------------
(* The window is created at the desktop's size or in full screen, and the  *)
(* window system tells of a size of its own.                               *)
SizeInit ==
  /\ target \in Targets /\ keep \in Keeps
  /\ mode \in {"normal", "full"} /\ window \in Sizes(mode)
  /\ wishes = <<>> /\ events = (IF window = Initial THEN <<>> ELSE <<window>>)
  /\ last_size = <<>> /\ resize_timeout = FALSE /\ channel = <<>> /\ refused = FALSE
  /\ session = "connecting" /\ frame_size = <<0, 0>> /\ redraw = FALSE /\ desktop_size = <<0, 0>>
  /\ changes = 0
-----------------------------------------------------------------------------
Change == changes < MaxChanges /\ changes' = changes + 1

(* The window system gives the window a mode and a size, and tells it when *)
(* the size is another.                                                    *)
Becomes(m) ==
  /\ mode' = m /\ window' \in Sizes(m)
  /\ events' = IF window' = window THEN events ELSE Append(events, window')

(* The user drags an edge, maximizes the window or restores it.            *)
UserResizes ==
  /\ Change
  /\ mode # "full"
  /\ \E m \in {"normal", "maximized"} : Becomes(m)
  /\ window' # window
  /\ UNCHANGED <<target, keep, wishes, askedVars, shownVars>>

(* The window system takes what it was asked for, or skips to the latest.  *)
WindowSystem ==
  /\ \E n \in DOMAIN wishes : Becomes(wishes[n]) /\ wishes' = SubSeq(wishes, n + 1, Len(wishes))
  /\ UNCHANGED <<target, keep, askedVars, shownVars, changes>>

(* toggle_fullscreen.                                                      *)
SwitchFullscreen ==
  /\ Change
  /\ wishes' = Append(wishes, IF mode = "full" THEN "normal" ELSE "full") /\ redraw' = TRUE
  /\ UNCHANGED <<target, keep, mode, window, events, askedVars, session, frame_size, desktop_size>>
-----------------------------------------------------------------------------
(* Seeded fault: the first size of a burst is asked for, not the last.     *)
SizeChangedKeepingFirst ==
  /\ events # <<>> /\ events' = Tail(events)
  /\ IF mode = "maximized"
     THEN /\ wishes' = wishes \o <<"normal", "full">>
          /\ UNCHANGED <<last_size, resize_timeout, refused, redraw>>
     ELSE /\ UNCHANGED wishes /\ redraw' = TRUE
          /\ IF keep \/ last_size # <<>> THEN UNCHANGED <<last_size, resize_timeout, refused>>
             ELSE last_size' = <<Head(events)>> /\ resize_timeout' = TRUE /\ refused' = FALSE
  /\ UNCHANGED <<target, keep, mode, window, channel, session, frame_size, desktop_size, changes>>

(* WindowEvent::Resized. A window maximized from its title bar is put in   *)
(* full screen instead; the size it will have is told by an event of its   *)
(* own. Otherwise the size is to be asked for when the burst is over.      *)
SizeChanged ==
  /\ events # <<>> /\ events' = Tail(events)
  /\ IF mode = "maximized"
     THEN /\ wishes' = wishes \o <<"normal", "full">>
          /\ UNCHANGED <<last_size, resize_timeout, refused, redraw>>
     ELSE /\ UNCHANGED wishes /\ redraw' = TRUE
          /\ IF keep THEN UNCHANGED <<last_size, resize_timeout, refused>>
             ELSE last_size' = <<Head(events)>> /\ resize_timeout' = TRUE /\ refused' = FALSE
  /\ UNCHANGED <<target, keep, mode, window, channel, session, frame_size, desktop_size, changes>>

(* send_resize_event: the channel, or the daemon's, is full: soon again.   *)
SendFull ==
  /\ Len(channel) = CAPACITY
  /\ resize_timeout' = TRUE
  /\ UNCHANGED <<last_size, channel, refused>>

(* The size is accepted.                                                   *)
SendAccepted ==
  /\ Len(channel) < CAPACITY
  /\ channel' = channel \o last_size /\ last_size' = <<>> /\ resize_timeout' = FALSE
  /\ UNCHANGED refused

(* No session will ever take it.                                           *)
SendRefused ==
  /\ last_size' = <<>> /\ resize_timeout' = FALSE /\ refused' = TRUE
  /\ UNCHANGED channel

(* A daemon has a channel only while a session runs.                       *)
NoReceiver == session = "closed" \/ (target = "Rpc" /\ session = "connecting")

(* on_about_to_wait, the time having come: whatever is the last size now.  *)
ResizeTimeout ==
  /\ resize_timeout
  /\ IF last_size = <<>> THEN resize_timeout' = FALSE /\ UNCHANGED <<last_size, channel, refused>>
     ELSE IF NoReceiver THEN SendRefused ELSE SendFull \/ SendAccepted
  /\ UNCHANGED <<target, keep, systemVars, shownVars, changes>>
-----------------------------------------------------------------------------
(* The input queue delivers a message into the same channel.               *)
Input ==
  /\ Change
  /\ session # "closed" /\ Len(channel) < CAPACITY
  /\ channel' = Append(channel, InputMessage)
  /\ UNCHANGED <<target, keep, systemVars, last_size, resize_timeout, refused, shownVars>>

(* The RDP thread connects, draws the desktop it was given,                *)
Connect ==
  /\ session = "connecting" /\ session' = "connected"
  /\ frame_size' = Initial /\ redraw' = TRUE
  /\ UNCHANGED <<target, keep, systemVars, askedVars, desktop_size, changes>>

(* takes a message and, for a size, comes back with a frame of that size,  *)
Receive ==
  /\ session = "connected" /\ channel # <<>> /\ channel' = Tail(channel)
  /\ IF Head(channel) = InputMessage THEN UNCHANGED <<frame_size, redraw>>
     ELSE frame_size' = Head(channel) /\ redraw' = TRUE
  /\ UNCHANGED <<target, keep, systemVars, last_size, resize_timeout, refused, session, desktop_size, changes>>

(* or ends.                                                                *)
Close ==
  /\ Change
  /\ session # "closed" /\ session' = "closed" /\ channel' = <<>>
  /\ UNCHANGED <<target, keep, systemVars, last_size, resize_timeout, refused, frame_size, redraw, desktop_size>>

Draw ==
  /\ redraw /\ redraw' = FALSE /\ desktop_size' = frame_size
  /\ UNCHANGED <<target, keep, systemVars, askedVars, session, frame_size, changes>>
-----------------------------------------------------------------------------
SizeNext ==
  \/ UserResizes \/ WindowSystem \/ SwitchFullscreen \/ SizeChanged \/ ResizeTimeout
  \/ Input \/ Connect \/ Receive \/ Close \/ Draw

SizeSpec == SizeInit /\ [][SizeNext]_sizeVars

(* The window system answers, the event loop and the RDP thread keep going.*)
SizeFairSpec ==
  /\ SizeSpec
  /\ WF_sizeVars(WindowSystem) /\ WF_sizeVars(SizeChanged) /\ WF_sizeVars(ResizeTimeout) /\ WF_sizeVars(Draw)
  /\ WF_sizeVars(Receive) /\ WF_sizeVars(Connect)
-----------------------------------------------------------------------------
SizeTypeOK ==
  /\ target \in Targets /\ keep \in Keeps
  /\ mode \in {"normal", "maximized", "full"} /\ window \in Sizes(mode)
  /\ Len(last_size) <= 1 /\ Len(channel) <= CAPACITY
  /\ session \in {"connecting", "connected", "closed"}
  /\ {resize_timeout, redraw, refused} \subseteq BOOLEAN

(* Whatever is coalesced, retried over a full channel or handed to another *)
(* mode on the way: the desktop ends up drawn at the window's size, unless *)
(* the resolution is kept, the session is over or a daemon refused.        *)
SettlesOnLast ==
  <>[](session = "connected" /\ ~keep /\ ~refused => desktop_size = window)

(* A position on the window lands on a pixel of the desktop, and what      *)
(* changes there is repainted where the user points.                       *)
PointerLands ==
  \A at \in Pixels(Covering(window)) :
    LET on == DesktopPointer(window, desktop_size, keep, at)
        spot == Rect(on[1][1], on[1][2], 1, 1)
    IN  on # <<>> =>
          /\ on[1][1] < desktop_size[1] /\ on[1][2] < desktop_size[2]
          /\ at \in Pixels(IF keep /\ Scaled(window, desktop_size)
                           THEN ToWindow(window, desktop_size, spot) ELSE spot)

(* Every window pixel a desktop pixel is blended into is repainted when it *)
(* changes, and nothing beyond the picture is.                             *)
RepaintCovers ==
  \A source \in Pixels(Covering(desktop_size)) :
    LET repainted == Pixels(ToWindow(window, desktop_size, Rect(source[1], source[2], 1, 1)))
        picture == Pixels(Area(window, desktop_size))
    IN  /\ repainted \subseteq picture /\ picture \subseteq Pixels(Covering(window))
        /\ \A at \in picture :
             (\E n \in 1 .. 4 : Blended(window, desktop_size, at)[n] = source) => at \in repainted

(* The three ways of scaling agree, the pointer's, the picture's and the   *)
(* repainted area's, each rounded by its own integer arithmetic: at every  *)
(* pair of sizes the events lead to, those of a resize under way included. *)
ScalingAgrees ==
  ~Empty(desktop_size) =>
    /\ PointerLands
    /\ keep /\ Scaled(window, desktop_size) => RepaintCovers
=============================================================================
