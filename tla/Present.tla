------------------------------- MODULE Present -------------------------------
(***************************************************************************)
(* From the remote desktop to the screen (session/src/app.rs, damage.rs,   *)
(* main.rs): the RDP thread writes a shared frame and remembers what area  *)
(* is dirty; the window copies the area into a buffer of some age, paints  *)
(* the connection bar and the close dialog over it, and presents what      *)
(* changed. With an RPC daemon the window fetches whole frames, woken by a *)
(* flag and an event.                                                      *)
(*                                                                         *)
(* One action is one event handled by the window, one update by the RDP    *)
(* thread, or a change by the window system. A draw is one step: all it    *)
(* reads of the frame it reads under one lock. A pixel painted is told by  *)
(* the desktop's colours blended into it and how often it was dimmed.      *)
(***************************************************************************)
EXTENDS Damage, FiniteSets

CONSTANTS
  Windows,      (* the window's sizes                                       *)
  Desktops,     (* the remote desktop's sizes                               *)
  Colours,      (* of the remote desktop's pixels                           *)
  Keeps,        (* WINRDP_KEEP_RESOLUTION: values explored                  *)
  Targets,      (* "Direct", "Rpc": targets explored                        *)
  TitleWidth,   (* the bar's width before it names the transport            *)
  BarWidths,    (* its widths                                               *)
  DialogSize,   (* of the close dialog                                      *)
  MaxAge,       (* bound: oldest buffer handed out again                    *)
  MaxChanges    (* bound: changes of the desktop, the overlays, the window  *)

ASSUME PresentAssumption ==
  /\ \A size \in Windows \cup Desktops \cup {DialogSize} : size \in Nat \X Nat
  /\ \A size \in Desktops : ~Empty(size)
  /\ Keeps \subseteq BOOLEAN /\ Targets \subseteq {"Direct", "Rpc"}
  /\ BarWidths \subseteq Nat /\ TitleWidth \in BarWidths /\ MaxAge \in Nat /\ MaxChanges \in Nat

VARIABLES
  target, keep,   (* the input target's kind; keep_resolution               *)
  frame, dirty,   (* the shared frame and its dirty area, if any            *)
  updated,        (* Direct: a FramebufferUpdated event is on its way       *)
  fetched,        (* Rpc: the daemon's current frame                        *)
  notice,         (* Rpc: a notification the forwarder has not seen         *)
  wakeup,         (* Rpc: frame_wakeup                                      *)
  available,      (* Rpc: a FrameAvailable event is on its way              *)
  handling,       (* Rpc: how far the window is with a FrameAvailable event *)
  desktop_size, history, overlays, dialog_visible, scaled_frame,
  mode,           (* "normal", "maximized", "full": what the window is      *)
  bar, out,       (* the bar's width; it is pinned or revealed              *)
  dialog,         (* close_dialog is up                                     *)
  closing,        (* the session was told to end                            *)
  window,         (* the window's size                                      *)
  resized,        (* a Resized event is on its way                          *)
  filling,        (* a maximized window was asked to fill the screen        *)
  redraw,         (* a redraw is requested                                  *)
  buffers,        (* what was presented last, newest first                  *)
  screen,         (* what the user sees                                     *)
  changes         (* bound: changes so far                                  *)

rpcVars == <<fetched, notice, wakeup, available, handling>>
overlayVars == <<bar, out, dialog, closing>>
windowVars == <<overlayVars, mode, window, resized, filling>>
paintedVars == <<history, overlays, dialog_visible, scaled_frame, buffers, screen>>
vars == <<target, keep, frame, dirty, updated, rpcVars, desktop_size, windowVars, redraw, paintedVars,
          changes>>

Modes == {"normal", "maximized", "full"}
NoFrame == [size |-> <<0, 0>>, pixels |-> <<>>]
Frames == UNION {[size : {size}, pixels : [Pixels(Covering(size)) -> Colours]] : size \in Desktops}

Painted(colours, dimmed) == [colours |-> colours, dimmed |-> dimmed]
Junk(size) == [at \in Pixels(Covering(size)) |-> Painted(<<"junk">>, 0)]

BarRect(width, size) == Rect((size[1] - Lesser(width, size[1])) \div 2, 0, Lesser(width, size[1]), 1)
Fits(size) == size[1] >= DialogSize[1] /\ size[2] >= DialogSize[2]
Bounds(size) == Rect((size[1] - DialogSize[1]) \div 2, (size[2] - DialogSize[2]) \div 2,
                     DialogSize[1], DialogSize[2])
-----------------------------------------------------------------------------
Init ==
  /\ target \in Targets /\ keep \in Keeps
  /\ frame = NoFrame /\ dirty = <<>> /\ updated = FALSE
  /\ fetched = NoFrame /\ notice = FALSE /\ wakeup = FALSE /\ available = FALSE /\ handling = "no"
  /\ desktop_size = <<0, 0>> /\ history = <<>> /\ overlays = <<>>
  /\ dialog_visible = FALSE /\ scaled_frame = NoFrame
  /\ bar = TitleWidth /\ out = TRUE /\ dialog = FALSE /\ closing = FALSE
  /\ mode \in {"normal", "full"} /\ window \in Windows /\ resized = FALSE /\ filling = FALSE
  /\ redraw = TRUE
  /\ buffers = <<>> /\ screen = Junk(window)
  /\ changes = 0
-----------------------------------------------------------------------------
(* Drawing.                                                                *)

Fitted == keep /\ Scaled(window, frame.size)

(* The window area the dirty area takes.                                   *)
DirtyArea ==
  IF dirty = <<>> THEN <<>>
  ELSE Clip(IF Fitted THEN ToWindow(window, frame.size, dirty[1]) ELSE dirty[1], window)

BarShown == mode = "full" /\ out
DialogShown == dialog /\ Fits(window)
Overlays ==
  (IF BarShown THEN Clip(BarRect(bar, window), window) ELSE <<>>)
    \o (IF DialogShown THEN <<Bounds(window)>> ELSE <<>>)

OverlayDamage(size, current, previous, dimmed, was_dimmed) ==
  IF dimmed # was_dimmed THEN <<Covering(size)>> ELSE current \o previous

(* The cache holds an unscaled copy of the frame while it is drawn scaled; *)
(* drawing 1:1 drops it.                                                   *)
Cache ==
  IF ~Fitted THEN NoFrame
  ELSE IF scaled_frame.size # frame.size THEN frame
  ELSE [scaled_frame EXCEPT !.pixels =
          [at \in DOMAIN @ |-> IF dirty # <<>> /\ at \in Pixels(dirty[1])
                               THEN frame.pixels[at] ELSE @[at]]]

(* The colours a window pixel shows of a desktop.                          *)
Shown(source, at) ==
  LET from == IF keep /\ Scaled(window, source.size) THEN Blended(window, source.size, at)
              ELSE Copied(source.size, at)
  IN  [n \in DOMAIN from |-> source.pixels[from[n]]]

Among(rects, at) == {n \in DOMAIN rects : at \in Pixels(rects[n])}

(* A buffer after the copies, the bar, the dimming and the dialog.         *)
Buffer(old, copies, source) ==
  [at \in Pixels(Covering(window)) |->
     LET base == IF Among(copies, at) # {} THEN Painted(Shown(source, at), 0) ELSE old[at]
         barred == IF BarShown /\ at \in Pixels(BarRect(bar, window))
                   THEN Painted(<<"bar">>, 0) ELSE base
     IN  IF DialogShown /\ at \in Pixels(Bounds(window)) THEN Painted(<<"dialog">>, 0)
         ELSE IF DialogShown THEN [barred EXCEPT !.dimmed = @ + Cardinality(Among(copies, at))]
         ELSE barred]

(* What a buffer of some age holds: nothing known when it is new or was    *)
(* another size when presented.                                            *)
Held(age) ==
  IF age \in DOMAIN buffers /\ DOMAIN buffers[age] = Pixels(Covering(window))
  THEN buffers[age] ELSE Junk(window)

Paint(everything, age) ==
  LET layout == Layout(window, frame.size)
      changed == DirtyArea \o OverlayDamage(window, Overlays, overlays, DialogShown, dialog_visible)
      plan == Plan(history, age, layout, changed, everything)
      buffer == Buffer(Held(age), plan.copy, IF Fitted THEN Cache ELSE frame)
      presents == <<buffer>> \o buffers
  IN  /\ scaled_frame' = Cache
      /\ buffers' = SubSeq(presents, 1, Lesser(MaxAge, Len(presents)))
      /\ screen' = [at \in DOMAIN buffer |->
                      IF Among(plan.present, at) # {} THEN buffer[at] ELSE screen[at]]
      /\ history' = Record(history, layout, plan.present)
      /\ overlays' = Overlays /\ dialog_visible' = DialogShown

(* Ages softbuffer may hand out: a new buffer, or one presented before.    *)
Ages == 0 .. Len(buffers)

PresentFrame(everything) ==
  IF Empty(window) THEN UNCHANGED <<desktop_size, dirty, paintedVars>>
  ELSE /\ desktop_size' = frame.size
       /\ IF Empty(frame.size) \/ (~everything /\ dirty = <<>>)
          THEN UNCHANGED <<dirty, paintedVars>>
          ELSE dirty' = <<>> /\ \E age \in Ages : Paint(everything, age)
-----------------------------------------------------------------------------
Change == changes < MaxChanges /\ changes' = changes + 1

(* The RDP thread, writing the shared frame.                               *)

(* A graphics update changes a pixel; the dirty area is one rectangle.     *)
Update ==
  /\ Change
  /\ target = "Direct" /\ ~Empty(frame.size)
  /\ \E at \in DOMAIN frame.pixels, colour \in Colours :
       LET rect == Rect(at[1], at[2], 1, 1)
       IN  /\ frame.pixels[at] # colour
           /\ frame' = [frame EXCEPT !.pixels[at] = colour]
           /\ dirty' = <<IF dirty = <<>> THEN rect ELSE Hull(dirty[1], rect)>>
  /\ updated' = TRUE
  /\ UNCHANGED <<target, keep, rpcVars, desktop_size, windowVars, redraw, paintedVars>>

(* The desktop appears, or comes back with another size.                   *)
Replace(new) == frame' = new /\ dirty' = <<Covering(new.size)>>

NewDesktop ==
  /\ Change
  /\ target = "Direct"
  /\ \E new \in Frames : new.size # frame.size /\ Replace(new)
  /\ updated' = TRUE
  /\ UNCHANGED <<target, keep, rpcVars, desktop_size, windowVars, redraw, paintedVars>>

(* RdpOutputEvent::FramebufferUpdated.                                     *)
FramebufferUpdated ==
  /\ updated /\ updated' = FALSE
  /\ PresentFrame(FALSE)
  /\ UNCHANGED <<target, keep, frame, rpcVars, windowVars, redraw, changes>>
-----------------------------------------------------------------------------
(* The daemon has a new frame and notifies; a notification not seen yet    *)
(* stands for this one too.                                                *)
DaemonFrame ==
  /\ Change
  /\ target = "Rpc"
  /\ fetched' \in Frames \ {fetched} /\ notice' = TRUE
  /\ UNCHANGED <<target, keep, frame, dirty, updated, wakeup, available, handling, desktop_size,
                 windowVars, redraw, paintedVars>>

(* run_rpc's task: an event, unless one is on its way.                     *)
Forward ==
  /\ notice /\ notice' = FALSE
  /\ wakeup' = TRUE /\ available' = (available \/ ~wakeup)
  /\ UNCHANGED <<target, keep, frame, dirty, updated, fetched, handling, desktop_size, windowVars,
                 redraw, paintedVars, changes>>

(* Between two events; an event loop told to exit handles none.            *)
Exited == closing /\ target = "Rpc"
Idle == handling = "no" /\ ~Exited

(* Seeded fault: the flag stays set until the frame has been read.         *)
FrameAvailableKeepingFlag ==
  /\ available /\ Idle
  /\ available' = FALSE /\ handling' = "fetch"
  /\ UNCHANGED <<target, keep, frame, dirty, updated, fetched, notice, wakeup, desktop_size,
                 windowVars, redraw, paintedVars, changes>>

(* ViewerEvent::FrameAvailable: the flag first,                            *)
FrameAvailable ==
  /\ available /\ Idle
  /\ available' = FALSE /\ wakeup' = FALSE /\ handling' = "fetch"
  /\ UNCHANGED <<target, keep, frame, dirty, updated, fetched, notice, desktop_size, windowVars,
                 redraw, paintedVars, changes>>

(* then update_rpc_frame: the daemon's frame, if it has one, is fetched    *)
FetchFrame ==
  /\ handling = "fetch"
  /\ IF Empty(fetched.size) THEN handling' = "no" /\ UNCHANGED <<frame, dirty>>
     ELSE handling' = "draw" /\ Replace(fetched)
  /\ UNCHANGED <<target, keep, updated, fetched, notice, wakeup, available, desktop_size,
                 windowVars, redraw, paintedVars, changes>>

(* and drawn.                                                              *)
DrawFetched ==
  /\ handling = "draw" /\ handling' = "no"
  /\ PresentFrame(FALSE)
  /\ UNCHANGED <<target, keep, frame, updated, fetched, notice, wakeup, available, windowVars, redraw, changes>>
-----------------------------------------------------------------------------
(* The window.                                                             *)

RedrawRequested ==
  /\ redraw /\ Idle /\ redraw' = FALSE
  /\ PresentFrame(TRUE)
  /\ UNCHANGED <<target, keep, frame, updated, rpcVars, windowVars, changes>>

(* WindowEvent::Resized, which tells of the size the window has by then. A *)
(* dialog that no longer fits is dropped. A window maximized from its      *)
(* title bar is put in full screen instead and not redrawn: the size it    *)
(* will have is told by an event of its own. On some systems it is in full *)
(* screen as soon as it is asked to be.                                    *)
Resized ==
  /\ resized /\ Idle /\ resized' = FALSE
  /\ dialog' = (dialog /\ Fits(window))
  /\ IF mode = "maximized"
     THEN filling' = TRUE /\ mode' \in {mode, "full"} /\ out' = TRUE /\ UNCHANGED redraw
     ELSE redraw' = TRUE /\ UNCHANGED <<mode, out, filling>>
  /\ UNCHANGED <<target, keep, frame, dirty, updated, rpcVars, desktop_size, bar, closing, window,
                 paintedVars, changes>>

(* toggle_fullscreen.                                                      *)
ToggleFullscreen ==
  /\ Change
  /\ Idle /\ mode' \in {mode, IF mode = "full" THEN "normal" ELSE "full"}
  /\ out' = TRUE /\ redraw' = TRUE
  /\ UNCHANGED <<target, keep, frame, dirty, updated, rpcVars, desktop_size, bar, dialog, closing, window,
                 resized, filling, paintedVars>>

(* The pointer brings the bar out,                                         *)
Reveal ==
  /\ Change
  /\ Idle /\ ~dialog /\ mode = "full" /\ ~out
  /\ out' = TRUE /\ redraw' = TRUE
  /\ UNCHANGED <<target, keep, frame, dirty, updated, rpcVars, desktop_size, bar, dialog, closing, mode, window,
                 resized, filling, paintedVars>>

(* the hide timer takes it away, if it is not pinned,                      *)
SlideAway ==
  /\ Change
  /\ Idle /\ out
  /\ out' = FALSE /\ redraw' = TRUE
  /\ UNCHANGED <<target, keep, frame, dirty, updated, rpcVars, desktop_size, bar, dialog, closing, mode, window,
                 resized, filling, paintedVars>>

(* and the session's transport makes it wider (RdpOutputEvent::Transport). *)
Transport ==
  /\ Change
  /\ target = "Direct" /\ bar' \in BarWidths \ {bar} /\ redraw' = TRUE
  /\ UNCHANGED <<target, keep, frame, dirty, updated, rpcVars, desktop_size, out, dialog, closing, mode, window,
                 resized, filling, paintedVars>>

(* The user wants to close the window, and is asked first if there is      *)
(* something to ask over.                                                  *)
RequestClose ==
  /\ Change
  /\ Idle /\ ~dialog
  /\ IF desktop_size # <<0, 0>> /\ Fits(window)
     THEN dialog' = TRUE /\ redraw' = TRUE /\ UNCHANGED closing
     ELSE closing' = TRUE /\ UNCHANGED <<dialog, redraw>>
  /\ UNCHANGED <<target, keep, frame, dirty, updated, rpcVars, desktop_size, bar, out, mode, window, resized,
                 filling, paintedVars>>

(* The dialog is answered: nothing is redrawn for a window about to go,    *)
Confirm ==
  /\ Idle /\ dialog
  /\ dialog' = FALSE /\ closing' = TRUE
  /\ UNCHANGED <<target, keep, frame, dirty, updated, rpcVars, desktop_size, bar, out, mode, window, resized,
                 filling, redraw, paintedVars, changes>>

(* but for one that stays.                                                 *)
Cancel ==
  /\ Idle /\ dialog
  /\ dialog' = FALSE /\ redraw' = TRUE
  /\ UNCHANGED <<target, keep, frame, dirty, updated, rpcVars, desktop_size, bar, out, closing, mode, window,
                 resized, filling, paintedVars, changes>>
-----------------------------------------------------------------------------
(* The window system gives the window another size, and tells it later;    *)
(* what the window is (maximized, in full screen) it tells by its size.    *)
ResizedTo(m) ==
  /\ mode' = m /\ window' \in Windows \ {window}
  /\ resized' = TRUE /\ screen' = Junk(window')
  /\ UNCHANGED <<target, keep, frame, dirty, updated, rpcVars, desktop_size, overlayVars, redraw,
                 history, overlays, dialog_visible, scaled_frame, buffers>>

(* It does so by itself or because it was asked,                           *)
WindowChanges == Change /\ (\E m \in Modes : ResizedTo(m)) /\ UNCHANGED filling

(* does what a maximized window asked for, full screen at once or after    *)
(* the size the window had before,                                         *)
FillScreen ==
  /\ filling /\ filling' = FALSE
  /\ \E m \in {"normal", "full"} : ResizedTo(m)
  /\ UNCHANGED changes

(* or uncovers the window and asks for a redraw.                           *)
Exposed ==
  /\ Change
  /\ ~redraw /\ redraw' = TRUE
  /\ screen' = Junk(window)
  /\ UNCHANGED <<target, keep, frame, dirty, updated, rpcVars, desktop_size, windowVars,
                 history, overlays, dialog_visible, scaled_frame, buffers>>
-----------------------------------------------------------------------------
Handlers ==
  \/ FramebufferUpdated \/ Forward \/ FrameAvailable \/ FetchFrame \/ DrawFetched
  \/ RedrawRequested \/ Resized
Next ==
  \/ Update \/ NewDesktop \/ DaemonFrame \/ WindowChanges \/ FillScreen \/ Exposed
  \/ ToggleFullscreen \/ Reveal \/ SlideAway \/ Transport \/ RequestClose \/ Confirm \/ Cancel
  \/ FramebufferUpdated \/ Forward \/ FrameAvailable \/ FetchFrame \/ DrawFetched
  \/ RedrawRequested \/ Resized

Spec == Init /\ [][Next]_vars

(* The event loop and the forwarding task keep running, and the window     *)
(* system does what it was asked for.                                      *)
FairSpec == Spec /\ WF_vars(Handlers) /\ WF_vars(FillScreen)
-----------------------------------------------------------------------------
TypeOK ==
  /\ target \in Targets /\ keep \in Keeps /\ window \in Windows /\ mode \in Modes
  /\ frame \in Frames \cup {NoFrame} /\ fetched \in Frames \cup {NoFrame}
  /\ {updated, notice, wakeup, available, resized, filling, redraw} \subseteq BOOLEAN
  /\ {out, dialog, closing, dialog_visible} \subseteq BOOLEAN
  /\ handling \in {"no", "fetch", "draw"}
  /\ bar \in BarWidths /\ desktop_size \in Desktops \cup {<<0, 0>>}
  /\ Len(dirty) <= 1 /\ Len(history) <= DEPTH /\ Len(buffers) <= MaxAge
  /\ scaled_frame \in Frames \cup {NoFrame}
  /\ DOMAIN screen = Pixels(Covering(window))

(* The dialog the user sees: one answered with Confirm is left on the      *)
(* screen until something else is drawn.                                   *)
DialogSeen == DialogShown \/ (closing /\ dialog_visible)

(* What the window should show.                                            *)
Composite(at) ==
  IF DialogSeen /\ at \in Pixels(Bounds(window)) THEN Painted(<<"dialog">>, 0)
  ELSE Painted(IF BarShown /\ at \in Pixels(BarRect(bar, window)) THEN <<"bar">> ELSE Shown(frame, at),
               IF DialogSeen THEN 1 ELSE 0)

Presented == history # <<>> /\ history[1].layout = Layout(window, frame.size)

(* Whatever buffer was handed out and whatever was painted over it before: *)
(* but for the dirty area, the screen shows the desktop of this moment,    *)
(* the bar and the dialog, dimmed once, unless a redraw is requested, a    *)
(* resize is on its way, or the window waits to fill the screen.           *)
ScreenTrue ==
  ~redraw /\ ~resized /\ ~filling /\ Presented =>
    \A at \in DOMAIN screen :
      screen[at] = Composite(at) \/ Among(DirtyArea, at) # {}

(* Whatever was lost on the way (a flag cleared late, an early return with *)
(* the dirty area taken, a resize left to the one that follows it): once   *)
(* nothing changes, the newest frame and the overlays of a window of some  *)
(* size are shown, unless the window is gone.                              *)
Shows == \A at \in DOMAIN screen : screen[at] = Composite(at)
EventuallyShown ==
  <>[](\/ Exited
       \/ /\ target = "Rpc" => frame = fetched
          /\ Empty(window) \/ Empty(frame.size) \/ Shows)
=============================================================================
