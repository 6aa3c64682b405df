# WinRDP in TLA+

WinRDP is a Linux client for Remote Desktop. A **launcher** (`src/launcher`) keeps the list of
computers and their passwords and starts one **session** process (`src/session`) per desktop; the
session shows the desktop in a window and speaks RDP through the IronRDP library. This directory
models the parts of both programs whose correctness depends on the order in which things happen,
checks the models with TLC on small instances, and proves the central results for every instance
with TLAPS.

Run a check with `tlc -config <file>.cfg <Module>`, a proof with `tlapm <Module>.tla`.
`PROJECT.json` lists the runs, the source lines each definition stands for, seeded faults that
each property detects, the hazards the properties are aimed at, and the findings.

## The system

| Component | Source | State | Operations | Talks to |
|---|---|---|---|---|
| Input queue | `session/src/input.rs` | database of held inputs, pending operations, retry deadline | send, release_all, release_buttons, flush | window events in, RDP thread's bounded channel (or the RPC daemon) out |
| Session window | `session/src/app.rs`, `modal.rs` | modifiers, pointer, close dialog, resize deadline, desktop size | one handler per window event, timers, RDP output events | input queue, connection bar, RDP thread |
| Connection bar | `session/src/bar.rs` | pinned, revealed, hide timer, hovered part | reset, tick, pointer moved / left, click | called by the session window |
| Keyboard | `session/src/keymap.rs`, `app.rs` | none | a physical key to a scan code and its operations | window events, input queue |
| Damage tracking | `session/src/damage.rs` | what recent presents changed, per buffer age | record, plan, simplify, scaled geometry | session window, frame writer |
| Frame delivery | `session/src/main.rs`, `app.rs` | shared framebuffer, wake-up flag | write, wake, present | RDP thread or daemon, window |
| Desktop size | `session/src/app.rs` | size to ask for, its deadline | resized, ask, retry, toggle full screen | window system, RDP thread's channel |
| Session processes | `session/src/main.rs`, `status.rs`, `launcher/src/backend.rs`, `app/connections.rs` | one status file per process; running children, questions | publish, poll, report, close, quit | session process, status file, library |
| Command that starts a session | `launcher/src/backend.rs`, `session/src/cli.rs`, `main.rs` | environment and arguments | session_command, parse | process environment |
| Passwords | `launcher/src/keyring.rs`, `app/connections.rs`, `app/computers.rs` | bounded request queue, secret service, password dialog | get, has, set, delete; prompt, submit, forget | keyring worker thread, sessions |
| Library | `launcher/src/library.rs`, `backend.rs` | saved computers, settings, recent | load, edit, save by rename | file system, other launcher processes |
| Computer selection | `launcher/src/app/computers.rs`, `app.rs` | text of the Computer box, chosen computer, options, drafts | type, pick, edit, remove, connect | library |
| Host panel | `launcher/src/app.rs`, `host.rs` | host status, mode, busy flag | refresh, enable, disable, change | GNOME Remote Desktop through grdctl, systemd |
| Endpoint, dates | `launcher/src/endpoint.rs`, `library.rs` | none | parsing an address; civil dates | |
| Overlay layout and drawing | `session/src/bar.rs`, `modal.rs`, `drawing.rs` | none | areas, hit tests, boxes of pixels | session window |
| Views, styles | `launcher/src/view*`, `style.rs` | none | painting | |
| xtask, packaging, website | `xtask`, `packaging`, `website` | files of a release | build and release steps | |

What is hard in it: a bounded channel that fills or closes while keys are held; window events
routed to different receivers between a press and its release; two processes that share only a
status file and an exit code; answers of the keyring that arrive after the question has changed;
files edited by two launchers; buffers of unknown age; three roundings of one scale factor; commands
that fail half way; a text and a choice that must keep meaning the same computer.

## Modules

### HeldInputs, InputQueue, InputQueueProofs

`InputQueue` is `input.rs`. `database`, `pending` and `retry_at` are the fields of the struct;
`flushing` says that the event loop is inside `flush`, whose loop runs one iteration per step, so
that the receiver may take a message or be dropped between two iterations. `channel`, `open`,
`remote` and `pointer` are the RDP thread's side. `down` and `aim` are history: what the window
has reported as held, and where the user last pointed. An operation is a press, a release, a move
or a wheel turn; `HeldAfter` is what `Database::apply` makes of a run of them. `Target` chooses
between the direct channel (batches) and the RPC daemon (one operation at a time, refusals).

| Run | Shows |
|---|---|
| `queue_direct` | A key that the keyboard reports on release only, a button, two positions and a wheel turn; LIMIT 3, batches of 2, a channel of 1: the queue stays within LIMIT (`Bounded`); nothing the user let go of stays held once queue and channel have drained (`NoLostRelease`); a retry is scheduled exactly while input is pending (`NeverStalled`); a button goes down where the user pointed, whatever motion was coalesced (`ClicksLand`); a capture by the bar moves no release behind a press (`NoOvertaking`); the queue implements `HeldInputs` (`Implements`); and an input let go of goes up on the remote desktop (`EventuallyUp`) |
| `queue_rpc` | `NothingStuck` for the daemon, with two keys and a button |

The bounds: LIMIT 3 is the smallest value above one release per input, so saturation, captures at
the limit and batches that leave a rest all happen; a channel of one message is full after one
batch. Keys of both kinds differ only in their operations; what one key and one button cannot show
together is left to the theorems. Fairness (`FairSpec`): the event loop runs a handler to its end
and wakes at its deadline (`Flush`, `Retry`), and a live RDP thread reads its channel (`Receive`);
nothing is assumed of the user, and the connection may close at any time.

`HeldInputs` is the abstract specification: the set of inputs the remote desktop will end up
holding. `Implements` maps its only variable to `HeldAfter(database, pending)` and each operation of
the queue to the operation of the same name (`HeldStep`): a press adds its input, a release takes
one away, motion none, a capture the buttons, or else everything is let go of; a step of `flush`
changes nothing unless the connection is lost. For the daemon the set is what the queue believes,
not what the daemon holds after a refusal.

**Proved** (`InputQueueProofs`, for all keys, buttons, limits and capacities that satisfy
`QueueAssumption`): type correctness, `Bounded`, `NothingStuck`, `NeverStalled`, `AcceptedOnly`,
`CaptureLetsGo`, `Implements`, and `NoLostRelease` for the direct channel. The argument: applying a
concatenation is applying one part after the other (`HeldAfterConcat`), so moving a batch from the
queue into the database and the channel changes neither what the queue will hold nor the agreement
of database and channel; releases computed from the database therefore release what the other side
holds. `IInv` is the conjunction of those invariants with `flushing => ~retry_at`, without which
`NeverStalled` is not preserved when `flush` finds the queue empty. An operation of `send` has its
effect exactly, or saturation leaves nothing held (`OfferedProperties`, `QueuedReleasesProperties`);
what `release_buttons` keeps are all edges of keys, in order (`RetainedHolds`, `CaptureProperties`).
From the same three lemmas follow `NothingStuck`, by monotony, and the refinement, step by step. The
step `HeldAfterAllHead` carries the agreement over a received message, `HeldAfterAllAppend` over a
sent one.

`ClicksLand` needs where the pointer is before the n-th of a run of operations: where the last motion
ahead of it goes, or where the run began. A run that follows another begins where the first one ends
(`PointerConcatHead`, `PointerConcatTail`), and the channel is such a run of what its messages amount
to. The inductive `ClicksInv` adds that the next press will be noted for the place where the pointer
will be once everything queued has arrived. Motion is replaced only at the end of the queue, where no
press follows it, and a message that is left out because nothing in it changes anything holds no motion.
`NoOvertaking` rests on `Believed`, that the database never says more than the other side holds, after
a refusal too: the release of an input that is held is then something to send, and is neither left out
nor sent without the press behind it; and what a capture keeps, it keeps in order. Liveness is
model-checked only.

### ConnectionBar, SessionWindow

`ConnectionBar` is `bar.rs`, one operator per function, on the bar's four fields. `SessionWindow`
is the event routing of `app.rs` with the close dialog of `modal.rs`: one action per window event,
composed with `ConnectionBar` and with `HeldInputs` in the place of the queue. A position is the
part of the window it lies in (`Zones`) and whether it is at the very top. `"Mods"` stands for
Ctrl and Alt together, `"Enter"` for Enter and the keypad's, `"Left"` for the left button. The
environment moves the user's hands (`physical`), the focus, the window size (resize events arrive
late, at most `MaxResizes` of them) and, with `Compositor`, the full-screen mode. The bar is taken
to have room for its buttons (where it has is `Overlays`); the RPC target's close, which exits at once, is left out. Resize
requests to the server are `DesktopSize`, drawing is `Present`, the end of a session `Sessions`.

| Run | Shows |
|---|---|
| `window_input` | The remote desktop holds nothing while the dialog is up, and a window that knows its size is modal only where the dialog can be drawn (`DialogModal`); no button is held over there while the bar takes the clicks here (`BarOwnsPointer`); only Enter can be held remotely without being held physically (`OnlyEnterStuck`); a desktop on screen is not closed unasked (`AskedFirst`) |
| `window_enter` | `NothingStuck` fails: see Findings |

Three keys (the two the dialog answers to, and the shortcut's modifiers), one button, the two bar
buttons whose click changes the routing, the dialog's Cancel and the desktop; one resize may be
under way.

**Proved** (`SessionWindowProofs`, for any keys, buttons, zones and number of resizes): all four,
and the types.
Beside the properties the invariant says that keys are held only while the window has the focus
(a loss of focus lets go of everything), that the remote desktop holds no button that the hands do
not, and that the last resize not handled yet tells the size the window has; the last is what makes
the dialog go away in time, the first what makes a release seen elsewhere harmless.

### LibraryStore, LibraryStoreProofs

`LibraryStore` is `Store::load`, `Store::save` and `Real::change`: a launcher loads the file, edits
the copy, creates a file of its own, writes, syncs and renames it; `pc` is the step it is at. Any
step may fail, a launcher may be killed and the power may go between two steps, and `Break` and
`Mend` are a person with an editor. `memory` is the library a launcher shows, from which it drafts
its edits: `Drafted` and `Chosen` hand a whole computer, or the whole preferences, to the store.
`latest` is history: the library with everything carried out that was answered with success.

| Run | Shows |
|---|---|
| `store` | One launcher, three computers with room for two, every field: what was reported saved is in the file (`NothingLost`), the launcher shows what is saved, also after a failed step (`ShowsSaved`), what is renamed into place is complete and within the limit (`Whole`), and no launcher replaces a file it could not read (`BrokenKept`) |
| `store_lost` | `NothingLost` fails with two launchers: see Findings |

One more computer than the limit is enough to exceed it, two launchers are enough to lose an update;
that any number of launchers keeps the file whole is the theorem's part. Two assumptions: nobody
edits the file by hand between a launcher's load and its rename (the file is changed by hand while no
change is under way, and mended while no launcher runs), and a rename that has returned survives a
loss of power.

**Proved** (`LibraryStoreProofs`, for any launchers, computers, forms and limit): type correctness;
`Whole` for any number of launchers, because what `Rename` puts in place was synced and was either
loaded within the limit or checked by `Accepts`; `BrokenKept`, because a change starts only from a
file that could be loaded; and, for a single launcher, `NothingLost` and `ShowsSaved`, from the
invariant that its memory is the library in the file whenever it is idle, and that the copy being
saved is `latest` with the request carried out.

### PasswordStore, Keyring

`Keyring` is `keyring.rs`: `queue` is the bounded channel, `working` the request the worker carries
out, `items` and `legacy` the desktop's keyring, `replies` the answers on their way to the window.
`Fail` stands for every way a request ends badly, a refusal, the time-out and a panic, and leaves
any part of it done; `SubmitBusy` is a request that finds the queue full. A ticket tells one reply
channel from another.

`PasswordStore` is what that promises the window: a change is made when it is asked for, or fails
and leaves the password of that one computer, address and account in doubt (`trouble`). The mapping
of `Implements` sends `kept` to the outcome of everything pending, in order; a request that is
queued is a `Word`, a failure a `Lose`, and every other step leaves the store as it is.

In the run `parts` (see MCParts): `Implements`, and every request is answered (`AllAnswered`).
One computer at one place, a queue of two and three requests at a time: two requests in the queue and
one at work give a save and a forget behind a slow question. That a change touches no other
computer or place is the theorem's part. Fairness (`FairSpec`):
the worker thread runs, and a call ends by itself or after `TIMEOUT`; the window owes it nothing.
The keyring is taken to carry out its calls in the order in which it gets them.

**Proved** (`PartsProofs`, for any computers, places, passwords, tickets and limit that satisfy
`KeyringAssumption` and `NoneAssumption`): type correctness, and `Implements`. The refinement needs no
more than the types; what it rests on is two facts about runs of requests. One more request at the
end of a run decides the outcome of the password it changes and of no other (`OutcomeAppend`), so
that queueing it is a `Word`; and the first request has the same outcome carried out as waiting
(`OutcomeHead`), so that neither taking nor performing it is seen from outside. Both come from the
last change of a password in the run, which exists because indices are well founded (`LastExists`).

### Passwords, MCPasswords, PasswordsProofs

`Passwords` is `connections.rs` and `computers.rs` with the dispatch of `app.rs`, one action per
message, with the keyring replaced by `PasswordStore` (which `Keyring` implements) so that a request
has its effect when it is made, and its answer arrives at any later time, in any order. An address
with an account on it is one value of `Places`; `Accounts` are the places with an account name.
`library` is what the launcher shows and `disk` what the file holds; they differ when another
launcher has moved or removed a computer, until something is saved. Dialogs are a stack; buttons
behind an open dialog cannot be pressed, but the filter and the Computer box, which keep the
keyboard, can be submitted (`Connect`). A desktop carries the password it was started with,
`Intended` says which computer, address and account a password is for: users are taken to type the
password of the computer the dialog names. `refused` is history.

| Run | Shows |
|---|---|
| `passwords` | Two computers, two accounts and a place without one, two dialogs, one session: no password outlives the place it is for (`NoOrphan`); one that was refused is gone from the keyring (`RefusedGone`); passwords reach only the place they are for, also when another launcher moves a computer while an answer is under way and a desktop that connects brings the new library in (`RightPlace`); no answer takes away a dialog that was typed into (`TypedStays`); and nothing starts once the launcher quits (`QuitLeavesNothing`) |

`NoOrphan` and `RefusedGone` say nothing of passwords a change of which the keyring failed; the
user is told of those. `NoOrphan` speaks of one launcher, between answers to its saves. After
`quit` the event loop takes no more input and `poll` does nothing, while answers of the keyring may
still come; the run does not check for deadlock because the launcher then stops. `MaxTurns` (2) bounds
the numbers of requests and the changes by another launcher together: an answer that is too late
needs one number for its own dialog and one for the dialog that took its place, or one and a change
by the other launcher; replies to saves and silent forgets have no number. `MaxTrouble` (1) bounds
the items the keyring fails to change, after which nothing more is claimed of those.

**Proved** (`PasswordsProofs`, for any computers, places, passwords and bounds that satisfy
`PasswordsAssumption`): type correctness and all five properties. The invariant `IInv` follows the
passwords: one in the keyring, in an answer under way, typed into a dialog or used by a desktop is the
one intended for the computer, address and account at hand, and a dialog that was typed into waits for
no answer. `RightPlace` is then a conjunct, but inductive only with the others. For `NoOrphan` the
invariant says what may be left over: a password of a place that no computer has any more is one whose
saving has not been answered (`Announced`), upon which `password_stored` takes it back; and what the
launcher shows is what the file holds until another launcher takes part (`Accounted`). What a handler
asks of the keyring is summed up once (`Effect`, `AsksEffect`): at most one change and one question,
carried out or in trouble, and answers that say what was so. Each handler's proof uses that and the
library and dialogs it leaves. `KeepsToTheStore` composes the two proofs: what the launcher does to the
keyring is a step of `PasswordStore`, which the worker of `Keyring` is proved to implement.

### Damage, Present, MCPresent, DamageProofs, PresentProofs

`Damage` is `damage.rs` as operators: rectangles and their merging, the history of what recent
presents changed, the plan for a buffer of some age, where a desktop of a fixed size is drawn in a
window of another, and back. `Present` runs them between the RDP thread and the screen: `frame` and
`dirty` are the shared framebuffer, `buffers` what the window system may hand out again (a buffer of
age n holds what was presented n presents ago, or junk), `screen` what the user sees. A pixel
painted is told by the desktop pixels blended into it and how often the dialog dimmed it; how colours
are weighed is left out. With the RPC daemon, `notice`, `wakeup` and `available` are the three stages
of a notification, and a `FrameAvailable` event takes three steps (the flag, the fetch, the draw)
between which the daemon goes on.

What is drawn over the desktop changes with the handlers that change it, each with the redraw it asks
for or does not: `ToggleFullscreen`, `Reveal`, `SlideAway` and `Transport` for the bar (`out` stands for
pinned or revealed, `bar` for its width), `RequestClose`, `Confirm` and `Cancel` for the dialog, `Resized`
for both. Two of them ask for none. `Confirm` leaves the dialog on the screen, dimming included, until
something else is drawn or the session ends; `DialogSeen` says which dialog the user sees. And a window
that was maximized (`mode`) is asked to fill the screen, after which `Resized` returns early. What then
shows the desktop again is the resize that follows from the window system (`FillScreen`), while
`filling` says that it has not come yet. `Exited` is the event loop that was told to exit by a daemon's
window; a direct session goes on until its engine ends it, which is in `Sessions`.

| Run | Shows |
|---|---|
| `screen` | After every draw, whatever buffer it was drawn into, and unless a redraw, a resize or the full screen a maximized window asked for is on its way, the screen shows the desktop of this moment, the bar and the dialog, but for the area that is dirty again (`ScreenTrue`); and once nothing changes, the newest frame and the overlays are shown, though flags are cleared early, notifications merged, draws return early and a maximized window is not redrawn (`EventuallyShown`) |

Windows of three and two pixels and a minimized one, a desktop of two, two colours, buffers up to
age 2 with a history of 3, a dialog of one pixel and a bar of one, or two once it names the transport,
both targets, scaled and unscaled, three changes by the user, the desktop and the window system
together; what they lead to (answers to the dialog, the end of `filling`) is not counted. Three changes
are a desktop, a dialog over it and one thing more, or a maximized window that changes twice on its way
to the full screen. Every present matters by its difference from the one before, so two pixels, one of which
changes, tell a missed rectangle from a repainted one; rectangles in two dimensions are the business
of the next run. Assumed of the window system: what a window is (maximized, in full screen) changes
together with its size, or, where the program asked for it, at once; an answer to a window that is to
fill the screen comes with another size. Fairness: the event loop and the forwarding task run, and the
window system answers (`FillScreen`); the desktop and the user owe nothing. The run does not check for deadlock: the changes are bounded and the window may rest.

**Proved** (`PresentProofs` on top of `DamageProofs`): type correctness and `ScreenTrue`, for windows and
desktops of every size, scaled or not, with any number of buffers of any age (`PresentAssumption`).
Between two draws the screen may be wrong where the frame is dirty, so what is inductive is about
*clean* pixels, those that show no desktop pixel of the dirty area. `IInv` has three parts besides the types:

* `CacheRight`: a pixel that the cache has otherwise than the shared frame is dirty;
* `BuffersRight`: a buffer presented n presents ago is right at every clean pixel that none of the
  n - 1 presents since then has touched, but for those under the bar and the dialog;
* `ScreenRight`: unless a redraw, a resize or the answer to a maximized window is due, the dialog last
  drawn is the one seen, and the screen is right at every clean pixel, overlays included. It has to
  speak of the dialog that was drawn: after `Confirm` there is none left to draw.

A draw restores it because of what is known of its plan, whatever the damage (`PlanRight`).
`SimplifyRight`: the merged rectangles cover what they were made from as far as it lies in the window, and
no two overlap, so that each pixel is painted, and dimmed, once; one turn of the merging loop keeps the
region and takes one rectangle away (`GrowKeeps`), so as many turns as rectangles are enough
(`TurnsRight`). `ChangedRight`: what a buffer misses is what the presents since changed.
`BlendedRepaints`: a pixel that shows a changed pixel of the desktop, scaled up or down, is among those
repainted for any rectangle around that pixel; a wider rectangle repaints no less (`WiderRepaints`).

### DesktopSize, MCDesktopSize

The size of the remote desktop: `Resized` events come from the window system, in order and late,
and set the size to ask for and its deadline; `ResizeTimeout` asks over the channel that input uses
too (`SendAccepted`, `SendFull`, `SendRefused`), and the answer is a frame of that size: every host is
taken to answer with exactly the size asked for, which `SettlesOnLast` rests on (a host that rounds a
width settles on its own). A timer that is set may fire at any time. A window maximized from its title bar is put in full screen instead.

| Run | Shows |
|---|---|
| `size` | Whatever is coalesced, retried over a full channel or handed to another mode on the way, the desktop ends up drawn at the window's size, unless the resolution is kept, the session is over or a daemon refused (`SettlesOnLast`); and at every pair of sizes on the way the pointer's, the picture's and the repainted area's scaling agree (`ScalingAgrees`) |

`ScalingAgrees` compares three integer computations: a position on the window lands on a desktop
pixel whose change repaints that position; every window pixel a desktop pixel is blended into is
among those its change repaints; nothing outside the picture is. Windows of 14 by 2, 1 by 5, 16 by 1
and 16 by 2 with a desktop of 4 by 1 scale up, down and with bars on either side; two changes by the
user are a resize overtaken by another, or by a message of input in a channel of one. Fairness: the
window system answers, the event loop and the RDP thread run.

**Proved** (`SessionWindowProofs`; its actions are `SizeInit`, `SizeChanged` and so on, to be told from the
window's): the types, with one size at most waiting and a channel that resizes and input share and never
overfill (`SizesTyped`), and `ScalingAgrees` for windows and desktops of every size. The
invariant is that every size that is known, asked for or on its way is one of the given ones or, for
the desktop, that nothing was drawn yet, so that no scale divides by zero. The rest is about any two
sizes: an exact position on one axis is a quotient; the pointer rounds it down, the picture to the
two nearest pixel centres, the repainted area outwards after a margin of one desktop pixel
(`PointerAxis`, `BlendAxis`, `Repaints`). Without the margin `ScalingAgrees` fails, which is the seeded
fault `ToWindowTight`. The proof is over the integers; the code's 64-bit products hold for sizes up to 2^16.

### Sessions, SessionsProofs

Every desktop is a process that publishes its state by writing a file of its own (`tmp`) and renaming
it (`file`), and may crash between any two steps. The launcher polls: `Tick` starts a round over its
children, `LookEnded` and `LookAlive` look at one of them, `ReadLive` reads the status of one found
alive, with steps of the processes in between, and `PollDone` takes up what was found. Closing asks,
kills, waits and removes the file.

| Run | Shows |
|---|---|
| `sessions` | What a session published last is what the user is told, and no failure or crash is passed over in silence (`ToldWhy`); a computer is stamped as opened only if it answered (`StampedAnswered`); nothing is left or told of a session the launcher ended (`ClosedQuietly`); and a session that ends by itself does not stay on as a tab (`EndNoticed`) |

Two sessions show a poll that has looked at one and not at the other. Fairness: the launcher's timer
and window run; nothing is assumed of the processes.

**Proved** (`SessionsProofs`, for any sessions, transports and reasons): type correctness, `ToldWhy`,
`StampedAnswered`, `ClosedQuietly`. What carries them: the file of a session, until the launcher
removes it, is the last record published; a process that is dead changes neither; and what a poll has
noted of a process that it found dead therefore stays true while other processes go on. A transport
is published only after the engine reported it, and a record of another kind is never read as one.

### HostPanel, Selection, Launch, Dates, Endpoint, Keymap and Keyboard, Overlays, MCParts, PartsProofs

Small parts of the launcher and of the session, which share no state. `MCParts` extends
them and `Keyring` in one run, whose initial state chooses the part that takes steps.

* `HostPanel`: sharing this computer's own desktop. A background task runs commands one after the
  other; each may fail with or without its effect, and the status that is read back may be misread.
  `Truthful`: what the user was told stays true until he asks for something else, and at rest the
  panel shows what is, also after commands that failed half way. `Usable`: the panel does not
  stay busy. Each command ends (its time-out is ten seconds) and messages are taken up.
* `Selection`: the Computer box. `OwnOptions`: connecting writes no computer's options over another's.
  `PickedStays`: a computer picked from the list stays the one connected to, whatever is saved, renamed
  or removed, also with two computers of one name.
* `Launch`: the environment and arguments the launcher gives a session, in an environment it may
  itself have inherited from one, and what the session reads; before that the sign-in dialog as far as
  it decides about the start. The dialog has a full-screen box of its own, which `SubmitPassword` hands
  to `launch`; a password the keyring remembers connects with the computer's option instead
  (`PasswordLoaded`), unless the user has typed or ticked something by then; and another launcher may
  save other options while the dialog is up. `ProfileHonoured`: the session has the options saved by
  then, full screen as just said, nothing the user turned off is on, no size the launcher accepts is
  refused, no question waits on a terminal. Computers with at most one option on or at most one off,
  environments with none, one or all of the variables set.
* `Dates`: the conversions of `library.rs` against a calendar walked day by day, 1500 days from each
  of five starts (`CalendarRight`): across a leap century, two others, 1970 and an era of the algorithm,
  at a time within the day and its last millisecond.
* `Endpoint`: `parse` after every token typed, against the ways to write an address stated without
  order (`AddressRight`): up to four tokens of thirteen, after five texts that reach IPv6 and IPv4 addresses.
* `Keymap` is the table of 154 keys; `Keyboard` presses and releases them two at a time, on three
  platforms. `KeysApart`: no key stands in for another, and letting one go lets no other go.
* `Overlays`: where the connection bar and the close dialog are drawn, as the boxes of pixels that
  `paint` writes, and what the pointer hits. `OverlaysRight`: the boxes stay in the area that redraw
  takes for the overlay's, and that in the window (`DrawnInside`); nothing is rounded that is too small
  for its corners, which would panic; and each button answers exactly where it is drawn
  (`LiveWhereDrawn`). Windows one pixel too small for the bar and for the dialog and those just large
  enough, a name that fits the bar and one that does not, pointers on both sides of the buttons' edges.

| Run | Shows |
|---|---|
| `parts` | The properties above, each for its part, and `Implements` and `AllAnswered` of the keyring worker |
| `selection_removed` | `DraftBack` fails: see Findings |

The run does not check for deadlock: a command is started once, a walk and a text end, the keyring
may rest.

**Proved** (each part for itself, whose `Init`, `Next` and `Spec` carry its name; in `PartsProofs`, but for
`Truthful` and `ProfileHonoured` in `SessionsProofs` and `AddressRight` in `LibraryStoreProofs`):

* `OverlaysRight`, for windows and texts of every size, as a consequence of the types of the layout: the
  bar's area is the width its texts need or the window's, in which case both end on the right together (`RectInside`, `BarTextsInside`); 16 rows leave eight above and below the middle
  for the icons (`BarMiddle`, `IconsNear`); and a window that has room for the dialog has four pixels
  around it, so that a pointer taken to the window's edge is on none of its buttons (`PanelInside`,
  `DialogAnswers`).
* `KeysApart`, for every table that gives no two keys one code (`KeyboardAssumption`; TLC evaluates it on
  the table of the code). What the remote desktop holds is the set of codes of the keys held down that
  are not silent, so that taking one code away takes one key away (`CodesApart`).
* `Truthful`. The invariant `HostInv`: a busy panel waits for exactly one task or its result; a task has
  left of its commands an end of the list it began with, and has done the rest; and a status on its way
  to the window shows what is, unless something was changed outside since it was read.
* `ProfileHonoured`, for any profiles that `prompt_password` lets through, whatever is inherited
  (`LaunchAssumption`). What is started is right at the moment of the start for whoever starts it
  (`StartHonoured`), and neither box, profile nor password changes afterwards. Every variable the session reads is set or removed, so none comes from the
  launcher's own environment, and what `parse_resolution` takes clap takes.
* `OwnOptions` and `PickedStays`, for any texts and any number of computers (`SelectionAssumption`: no
  computer has an empty name or address, which `Profile::validate` refuses). `SelectionInv`: identifiers
  are unique; the chosen computer is the one the text means; the options shown differ from its own
  by what was edited; and a picked computer is still there under the name in the box. The work is in the
  library's changes, after which the text may mean another computer: what the first of the computers
  found is depends on the indices found only (`FirstFound`).
* `CalendarRight`, from the first day of any year since 0 on, for any number of days and times of day
  (`DatesAssumption`). `days_from_civil` adds up whole years that begin in March, whole months and days
  (`DaysAre`); the first of the next month, and of the next year, is one day after the last of the one
  before (`TomorrowIs`), so the walk keeps to it; `civil_from_days` finds era, century, four years, year,
  month and day again (`YearOfEra`, `CivilIs`). A date 1, 2 or 30 days on is later (`MonthAhead`, by
  doubling), and of two times of day the later has the greater first part in which they differ
  (`PartsOrdered`), which together order the texts.
* `AddressRight`, for lines of any length over any tokens (`AddressAssumption`), whatever value the digits
  of a number are read as. `parse` is a chain of branches, `Meanings` a set of ways to write: an address
  has at least two colons and a name none (`ManyColons`, `FewColons`), and neither has a bracket, a slash
  or a space, so that every way of writing reaches its own branch (`AloneIsRead`, `PortIsRead`), what a
  branch accepts is written in one of the ways (`BracketedIsMeant`, `AloneIsMeant`, `PortIsMeant`), and
  no two branches accept one text (`OneReading`).

## Findings

* `window_enter`: Enter released under Ctrl+Alt stays held remotely (`app.rs:737`).
* `store_lost`: two launchers lose each other's changes (`backend.rs:136`), although every change
  "re-reads it first, so a file edited or broken elsewhere is never silently overwritten with a
  stale copy" (`library.rs:223`).
* `selection_removed`: removing the chosen computer leaves its options on show, and the next new
  computer gets them (`computers.rs:95`), although "when it stops naming one, the options set for a
  new computer come back" (`computers.rs:107`).

Seen while modelling, and not kept as runs:

* the dialog answered with Disconnect stays drawn over the desktop, which goes on being dimmed, until
  something else is drawn or the session ends (`app.rs:676`): only Cancel asks for a redraw;
* a key release the RPC daemon refuses is forgotten (`input.rs:144`), as the comment there accepts;
* while the close dialog takes the pointer's motion the bar stays hovered at its close button
  (`app.rs:564`): after Cancel the next click asks again, wherever the pointer is, although `hovered` is
  "whether the pointer is over the bar" (`bar.rs:88`); `BarOwnsPointer` does not see this click;
* a window that leaves full screen while the bar is hovered gives its clicks to a bar that is not
  drawn, until the pointer leaves (`app.rs:877`), the bar's buttons move under a resting pointer when
  the transport's label arrives (`bar.rs:80`), and `reset` leaves an unpinned bar out with no timer to
  hide it (`bar.rs:104`);
* `set` clears a computer's old items before it creates the new one: a failure in between loses the
  old password with the new (`keyring.rs:72`); the user is told that saving failed;
* forgets still in the worker's queue when the launcher exits are not carried out (`app.rs:195`);
* `prune_logs` deletes the status file of a session that has been open for two weeks
  (`backend.rs:332`);
* a process that cannot open its window ends without a word in its status file (`app.rs:644`): the
  launcher then reports an unexpected end, which is as much as it can know, and `ToldWhy` accepts it.

## What is proved and what is only checked

| Module | Proved for all values of the constants | Rests on |
|---|---|---|
| `InputQueueProofs` | type correctness, `Bounded`, `NothingStuck`, `NeverStalled`, `AcceptedOnly`, `CaptureLetsGo`, `NoLostRelease`, `ClicksLand`, `NoOvertaking`, `Implements` | `QueueAssumption` |
| `SessionWindowProofs` | the types; `DialogModal`, `BarOwnsPointer`, `OnlyEnterStuck`, `AskedFirst`; of `DesktopSize` the types and `ScalingAgrees` | `WindowAssumption`, `SizeAssumption` |
| `LibraryStoreProofs` | type correctness, `Whole`, `BrokenKept`; `NothingLost` and `ShowsSaved` for one launcher; `AddressRight` | `StoreAssumption`, `AddressAssumption` |
| `PasswordsProofs` | type correctness, `RightPlace`, `RefusedGone`, `QuitLeavesNothing`, `NoOrphan`, `TypedStays`, `KeepsToTheStore` | `PasswordsAssumption` |
| `DamageProofs` | lemmas about rectangles, merging, history and scaling | none |
| `PresentProofs` | type correctness, `ScreenTrue` | `PresentAssumption` |
| `SessionsProofs` | type correctness, `ToldWhy`, `StampedAnswered`, `ClosedQuietly`; `Truthful`, `ProfileHonoured` | `SessionsAssumption`, `LaunchAssumption` |
| `PartsProofs` | `OverlaysRight`, `KeysApart`, `OwnOptions`, `PickedStays`, `CalendarRight`; of `Keyring` type correctness and `Implements` | `OverlaysAssumption`, `KeyboardAssumption`, `SelectionAssumption`, `DatesAssumption`, `KeyringAssumption`, `NoneAssumption` |

TLC evaluates every named assumption in the runs. Every safety property of a passing run has its theorem.
Only model-checked are the six liveness properties, `EventuallyUp`, `EventuallyShown`, `SettlesOnLast`,
`EndNoticed`, `AllAnswered` and `Usable`: each rests on fairness, whose meaning is ENABLED, which the
prover does not treat.

What is computed step by step (`Merge`, `Simplify`, `Changed` in `Damage`) is written with recursive
functions over an interval. The library states their induction for an operator, which the provers cannot
instantiate; `StepByStep` takes its place, a function on `0 .. n` given by its steps, and facts about it
are proved of the least step that would violate them, which is there because the naturals are well
founded. Lemmas about runs of operations (`InputQueue`, `Keyring`) use functions whose steps the proofs
unfold, or the last element of a kind, for the same reason.

## Not modelled

* Views and styles paint what other components decide. Of the overlays, colours and their blending,
  and the outlines of a system font, which are clipped to the window but not to the overlay; texts are
  measured in built-in glyphs.
* The clipboard and the RDP engine belong to IronRDP, which is not part of this repository's sources;
  its channels, its framebuffer and its daemon are the environment of the modules.
* Build, packaging and website steps run one after the other and stop at the first failure.
* Of modelled components: the fields `Profile::validate` checks, the lists of recent and favourite
  computers and their filters, the 2 MB limit of the library file and its old formats, `prune_logs`,
  options and `.rdp` files that only a person at a terminal gives a session, notices' wording.
* Times (250 ms polls, 60 s time-outs, 150 ms resize delays) are timers that may fire at any moment.

## Plan

1. **Proofs**: safety that the liveness properties rest on, such as that a timer is set while a size is
   to be asked for, and that a frame not shown has a notification on its way.
2. **Composition**: `Sessions` with `Passwords`, so that refused sign-ins come from a poll;
   `InputQueue` with `DesktopSize` in one channel.
3. **Library**: sizes in bytes against the 2 MB limit, old formats.
