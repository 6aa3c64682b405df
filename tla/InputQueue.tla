----------------------------- MODULE InputQueue -----------------------------
(***************************************************************************)
(* The input queue of a session window (session/src/input.rs): keyboard    *)
(* and pointer operations on their way from the window's event loop to the *)
(* RDP thread, through a bounded channel that may be full or closed.       *)
(*                                                                         *)
(* The event loop is one thread, the receiver of the channel another: the  *)
(* loop in `flush` is one step per iteration, so the receiver may take a   *)
(* message, or be dropped, between any two of them.                        *)
(***************************************************************************)
EXTENDS Integers, Sequences, FiniteSets, SequencesExt

CONSTANTS
  Keys,         (* scan codes                                              *)
  ReleaseOnly,  (* the keys the keyboard reports on release only           *)
  Buttons,      (* pointer buttons                                         *)
  Positions,    (* desktop positions the pointer visits                    *)
  Wheels,       (* wheel rotations                                         *)
  LIMIT,        (* operations the queue holds at most                      *)
  BATCH,        (* operations in one message at most                       *)
  CAPACITY,     (* messages the channel holds at most                      *)
  Target,       (* "Direct": the RDP thread's channel; "Rpc": the daemon   *)
  Nowhere       (* no position                                             *)

ASSUME QueueAssumption ==
  /\ IsFiniteSet(Keys) /\ IsFiniteSet(Buttons) /\ Keys \cap Buttons = {}
  /\ ReleaseOnly \subseteq Keys
  /\ Nowhere \notin Positions
  \* "More than the 512 scan codes and five buttons that release_all may queue."
  /\ LIMIT \in Nat /\ Cardinality(Keys) + Cardinality(Buttons) <= LIMIT
  /\ BATCH \in Nat \ {0} /\ CAPACITY \in Nat \ {0}
  /\ Target \in {"Direct", "Rpc"}

VARIABLES
  database,   (* the inputs held down as far as accepted operations say    *)
  pending,    (* operations not accepted yet, oldest first                 *)
  retry_at,   (* a retry is scheduled                                      *)
  flushing,   (* the event loop is inside flush                            *)
  channel,    (* messages accepted and not yet received, oldest first      *)
  open,       (* the receiver exists                                       *)
  remote,     (* the inputs the remote desktop holds down                  *)
  pointer,    (* where the remote desktop's pointer is                     *)
  down,       (* history: inputs the window has reported as held           *)
  aim         (* history: the last motion sent, Nowhere once abandoned     *)

queueVars == <<database, pending, retry_at, flushing>>
remoteVars == <<channel, open, remote, pointer>>
vars == <<database, pending, retry_at, flushing, channel, open, remote, pointer, down, aim>>
-----------------------------------------------------------------------------
Inputs == Keys \cup Buttons

(* `at` is history: where the user pointed when the input went down.       *)
Press(i, p) == [op |-> "press", input |-> i, at |-> p]
Release(i) == [op |-> "release", input |-> i]
Move(p) == [op |-> "move", at |-> p]
Wheel(w) == [op |-> "wheel", units |-> w]

Operation == [op : {"press"}, input : Inputs, at : Positions \cup {Nowhere}]
             \cup [op : {"release"}, input : Inputs]
             \cup [op : {"move"}, at : Positions]
             \cup [op : {"wheel"}, units : Wheels]

Presses(operation, i) == operation.op = "press" /\ operation.input = i
Releases(operation, i) == operation.op = "release" /\ operation.input = i
IsMove(operation) == operation.op = "move"

(* What is held down after `operations`, when `held` was before: an input  *)
(* is down if its last edge is a press, or if it was down and has no edge. *)
HeldAfter(held, operations) ==
  {i \in Inputs :
     \/ \E n \in DOMAIN operations :
          /\ Presses(operations[n], i)
          /\ \A m \in DOMAIN operations : m > n => ~Releases(operations[m], i)
     \/ /\ i \in held
        /\ \A m \in DOMAIN operations : ~Releases(operations[m], i)}

(* The same for a channel of messages, applied one after the other.        *)
HeldAfterAll(held, messages) ==
  LET Released(m, i) == \E n \in DOMAIN messages[m] : Releases(messages[m][n], i)
  IN  {i \in Inputs :
         \/ \E m \in DOMAIN messages :
              /\ i \in HeldAfter({}, messages[m])
              /\ \A l \in DOMAIN messages : l > m => ~Released(l, i)
         \/ i \in held /\ \A m \in DOMAIN messages : ~Released(m, i)}

(* Database::apply turns operations into events. A release of an input     *)
(* that is not down makes none, nor does a press of a button that is: all  *)
(* of them make none unless one of them is an edge for what `held` says.   *)
HasEvents(held, operations) ==
  \E n \in DOMAIN operations :
    \/ operations[n].op \in {"move", "wheel"}
    \/ \E i \in Inputs \ (held \cap Buttons) : Presses(operations[n], i)
    \/ \E i \in held : Releases(operations[n], i)

(* The subsequence of `operations` at the indices in K.                    *)
Nth(K, n) == CHOOSE i \in K : Cardinality({m \in K : m <= i}) = n
Retained(operations, K) == [n \in 1 .. Cardinality(K) |-> operations[Nth(K, n)]]

ReleasesOf(inputs) ==
  LET order == SetToSeq(inputs)
  IN  [n \in 1 .. Cardinality(inputs) |-> Release(order[n])]
-----------------------------------------------------------------------------
(* send: what one operation makes of the queue.                            *)

Coalesces(queue, operation) ==
  IsMove(operation) /\ queue # <<>> /\ IsMove(queue[Len(queue)])

(* Seeded fault: the limit is checked one operation late.                  *)
SaturatesLate(queue, operation) ==
  ~Coalesces(queue, operation) /\ Len(queue) = LIMIT + 1

Saturates(queue, operation) == ~Coalesces(queue, operation) /\ Len(queue) = LIMIT

(* Seeded fault: saturation forgets the buttons.                           *)
QueuedKeyReleases == ReleasesOf(database \cap Keys)

(* queue_releases: unsent input is abandoned, every accepted hold released. *)
QueuedReleases == ReleasesOf(database \cap Keys) \o ReleasesOf(database \cap Buttons)

(* Seeded fault: motion replaces any queued motion, not the last one only. *)
OfferedOverMotion(queue, operation) ==
  LET motion == {n \in DOMAIN queue : IsMove(queue[n])}
  IN  IF IsMove(operation) /\ motion # {} THEN [queue EXCEPT ![Max(motion)] = operation]
      ELSE IF Saturates(queue, operation) THEN QueuedReleases
      ELSE Append(queue, operation)

Offered(queue, operation) ==
  IF Coalesces(queue, operation) THEN [queue EXCEPT ![Len(queue)] = operation]
  ELSE IF Saturates(queue, operation) THEN QueuedReleases
  ELSE Append(queue, operation)

(* One event makes one or two operations; saturation drops the rest.       *)
OfferedAll(queue, operations) ==
  LET first == Offered(queue, operations[1])
  IN  IF Len(operations) = 1 \/ Saturates(queue, operations[1]) THEN first
      ELSE Offered(first, operations[2])

SaturatesOn(queue, operations) ==
  \/ Saturates(queue, operations[1])
  \/ Len(operations) = 2 /\ Saturates(Offered(queue, operations[1]), operations[2])

HasMotion(queue) == \E n \in DOMAIN queue : IsMove(queue[n])
AimAfterDropping(queue) == IF HasMotion(queue) THEN Nowhere ELSE aim

(* Seeded fault: a capture moves button releases to the end.               *)
KeptWithoutReleases(operation) ==
  /\ operation.op \notin {"move", "wheel"}
  /\ operation.input \in Keys

(* release_buttons: unsent presses and motion go, queued releases stay put. *)
KeptByCapture(operation) ==
  /\ operation.op \notin {"move", "wheel"}
  /\ \A b \in Buttons : ~Presses(operation, b)

CaptureReleases ==
  LET kept == Retained(pending, {n \in DOMAIN pending : KeptByCapture(pending[n])})
      queued == {b \in Buttons : \E n \in DOMAIN kept : Releases(kept[n], b)}
      releases == ReleasesOf((database \cap Buttons) \ queued)
  IN  IF Len(kept) + Len(releases) > LIMIT THEN QueuedReleases ELSE kept \o releases
-----------------------------------------------------------------------------
Init ==
  /\ database = {} /\ pending = <<>> /\ retry_at = FALSE /\ flushing = FALSE
  /\ channel = <<>> /\ open = TRUE /\ remote = {} /\ pointer = Nowhere
  /\ down = {} /\ aim = Nowhere

(* Every entry point ends in flush, which first cancels the retry.         *)
StartFlush == flushing' = TRUE /\ retry_at' = FALSE

Send(operations) ==
  /\ ~flushing
  /\ pending' = OfferedAll(pending, operations)
  /\ down' = HeldAfter(down, operations)
  /\ aim' = IF SaturatesOn(pending, operations)
            THEN AimAfterDropping(pending)
            ELSE IF IsMove(operations[1]) THEN operations[1].at ELSE aim
  /\ StartFlush
  /\ UNCHANGED <<database, remoteVars>>

(* The operations one window event sends.                                  *)
PressInput == \E i \in Inputs \ ReleaseOnly : Send(<<Press(i, aim)>>)
ReleaseInput == \E i \in Inputs \ ReleaseOnly : Send(<<Release(i)>>)
TapKey == \E k \in ReleaseOnly : Send(<<Press(k, aim), Release(k)>>)
MovePointer == \E p \in Positions : Send(<<Move(p)>>)
TurnWheel == \/ \E w \in Wheels : Send(<<Wheel(w)>>)
             \/ \E v, w \in Wheels : Send(<<Wheel(v), Wheel(w)>>)

(* release_all: focus was lost, or the close dialog opens.                 *)
ReleaseAll ==
  /\ ~flushing
  /\ pending' = QueuedReleases
  /\ aim' = AimAfterDropping(pending)
  /\ StartFlush
  /\ UNCHANGED <<database, remoteVars, down>>

(* release_buttons: the connection bar takes the pointer.                  *)
ReleaseButtons ==
  /\ ~flushing
  /\ pending' = CaptureReleases
  /\ aim' = AimAfterDropping(pending)
  /\ StartFlush
  /\ UNCHANGED <<database, remoteVars, down>>

(* The event loop wakes at the deadline and flushes.                       *)
Retry ==
  /\ ~flushing /\ retry_at
  /\ StartFlush
  /\ UNCHANGED <<database, pending, remoteVars, down, aim>>
-----------------------------------------------------------------------------
(* flush, one iteration of its loop at a time.                             *)

FlushDone ==
  /\ flushing /\ pending = <<>>
  /\ flushing' = FALSE
  /\ UNCHANGED <<database, pending, retry_at, remoteVars, down, aim>>

Room == open /\ Len(channel) < CAPACITY

(* Seeded fault: the database survives the input it accounts for.          *)
DiscardPending ==
  /\ pending' = <<>> /\ flushing' = FALSE
  /\ aim' = AimAfterDropping(pending)
  /\ UNCHANGED <<database, retry_at, remoteVars, down>>

DiscardAll ==
  /\ pending' = <<>> /\ database' = {} /\ flushing' = FALSE
  /\ aim' = AimAfterDropping(pending)
  /\ UNCHANGED <<retry_at, remoteVars, down>>

(* Seeded fault: no retry is scheduled.                                    *)
FlushFullGivingUp ==
  /\ Target = "Direct" /\ flushing /\ pending # <<>> /\ open /\ ~Room
  /\ flushing' = FALSE
  /\ UNCHANGED <<database, pending, retry_at, remoteVars, down, aim>>

(* Seeded fault: a full channel is treated as a closed one.                *)
FlushFullDropping ==
  /\ Target = "Direct" /\ flushing /\ pending # <<>> /\ open /\ ~Room
  /\ DiscardAll

(* Direct: the channel is full, or its receiver is gone.                   *)
FlushFull ==
  /\ Target = "Direct" /\ flushing /\ pending # <<>> /\ open /\ ~Room
  /\ retry_at' = TRUE /\ flushing' = FALSE
  /\ UNCHANGED <<database, pending, remoteVars, down, aim>>

FlushClosed ==
  /\ Target = "Direct" /\ flushing /\ pending # <<>> /\ ~open
  /\ DiscardAll

(* `count` operations leave the queue as one message, unless the database  *)
(* that turns them into events (it says `held` is down) finds none.        *)
Deliver(count, held) ==
  LET batch == SubSeq(pending, 1, count)
  IN  /\ pending' = SubSeq(pending, count + 1, Len(pending))
      /\ database' = HeldAfter(database, batch)
      /\ channel' = IF HasEvents(held, batch) THEN Append(channel, batch) ELSE channel
      /\ UNCHANGED <<retry_at, flushing, open, remote, pointer, down, aim>>

Batch == IF Len(pending) < BATCH THEN Len(pending) ELSE BATCH

FlushBatch ==
  /\ Target = "Direct" /\ flushing /\ pending # <<>> /\ Room
  /\ Deliver(Batch, database)

(* Rpc: one operation at a time, through the daemon's own database.        *)
DaemonHolds == HeldAfterAll(remote, channel)

FlushOperation ==
  /\ Target = "Rpc" /\ flushing /\ pending # <<>> /\ Room
  /\ Deliver(1, DaemonHolds)

(* The daemon does not say why it refuses: the input is dropped.           *)
FlushRefused ==
  /\ Target = "Rpc" /\ flushing /\ pending # <<>> /\ ~Room
  /\ DiscardAll

Flush == FlushDone \/ FlushFull \/ FlushClosed \/ FlushBatch \/ FlushOperation \/ FlushRefused
-----------------------------------------------------------------------------
(* The RDP thread.                                                         *)

(* Where the pointer is before the n-th of `operations`.                   *)
PointerBefore(from, operations, n) ==
  LET moves == {m \in DOMAIN operations : m < n /\ IsMove(operations[m])}
  IN  IF moves = {} THEN from ELSE operations[Max(moves)].at
PointerAfter(from, operations) == PointerBefore(from, operations, Len(operations) + 1)

Receive ==
  /\ open /\ channel # <<>>
  /\ remote' = HeldAfter(remote, Head(channel))
  /\ pointer' = PointerAfter(pointer, Head(channel))
  /\ channel' = Tail(channel)
  /\ UNCHANGED <<queueVars, open, down, aim>>

(* The session ends; messages still in the channel are lost with it.       *)
Close ==
  /\ open
  /\ open' = FALSE /\ channel' = <<>> /\ remote' = {} /\ pointer' = Nowhere
  /\ UNCHANGED <<queueVars, down, aim>>
-----------------------------------------------------------------------------
Next ==
  \/ PressInput \/ ReleaseInput \/ TapKey \/ MovePointer \/ TurnWheel
  \/ ReleaseAll \/ ReleaseButtons \/ Retry
  \/ FlushDone \/ FlushFull \/ FlushClosed \/ FlushBatch \/ FlushOperation \/ FlushRefused
  \/ Receive \/ Close

Spec == Init /\ [][Next]_vars

(* The event loop runs handlers to their end and wakes at its deadline;    *)
(* a live RDP thread keeps reading its channel. The user owes nothing.     *)
FairSpec == Spec /\ WF_vars(Flush) /\ WF_vars(Retry) /\ WF_vars(Receive)
-----------------------------------------------------------------------------
TypeOK ==
  /\ database \subseteq Inputs /\ remote \subseteq Inputs /\ down \subseteq Inputs
  /\ pending \in Seq(Operation)
  /\ channel \in Seq(Seq(Operation)) /\ Len(channel) <= CAPACITY
  /\ retry_at \in BOOLEAN /\ flushing \in BOOLEAN /\ open \in BOOLEAN
  /\ pointer \in Positions \cup {Nowhere} /\ aim \in Positions \cup {Nowhere}

(* A stalled connection does not grow memory: neither typing, nor the      *)
(* releases queued on saturation, nor a capture take the queue past LIMIT. *)
Bounded == Len(pending) <= LIMIT

(* Whenever the queue drains, no input is left down that the user let go   *)
(* of: saturation, captures and batches lose presses, never releases.      *)
NothingStuck == HeldAfter(database, pending) \subseteq down

(* The same, end to end: what the remote desktop will hold once all that   *)
(* is in the channel and in the queue has arrived.                         *)
NoLostRelease ==
  open => HeldAfter(HeldAfterAll(remote, channel), pending) \subseteq down

(* The database is right: it tells the holds of the messages accepted so   *)
(* far, the unsent ones apart, so that the releases computed from it are   *)
(* those the remote desktop needs.                                         *)
AcceptedOnly == Target = "Direct" /\ open => database = HeldAfterAll(remote, channel)

(* No input waits for the next keystroke, and the event loop never wakes   *)
(* for nothing: outside flush, a retry is scheduled exactly while          *)
(* operations are pending.                                                 *)
NeverStalled == ~flushing => (retry_at <=> pending # <<>>)

(* A button goes down where the user pointed when pressing it, however     *)
(* much motion was coalesced on the way, unless motion was abandoned: the  *)
(* last motion ahead of the press, in its message, in an earlier one or    *)
(* already received, is to where it was aimed.                             *)
PointerAhead(from, messages, n) ==
  LET moving == {m \in DOMAIN messages : m < n /\ HasMotion(messages[m])}
  IN  IF moving = {} THEN from ELSE PointerAfter(from, messages[Max(moving)])
Lands(from, operations) ==
  \A n \in DOMAIN operations :
    (\E b \in Buttons : Presses(operations[n], b)) /\ operations[n].at # Nowhere
      => PointerBefore(from, operations, n) = operations[n].at
ClicksLand ==
  open =>
    /\ \A n \in DOMAIN channel : Lands(PointerAhead(pointer, channel, n), channel[n])
    /\ Lands(PointerAhead(pointer, channel, Len(channel) + 1), pending)

(* A queued release is never moved behind a press queued after it: with    *)
(* nothing sent in between, it is still ahead of that press.               *)
Ahead(queue, i, j) ==
  \E m, n \in DOMAIN queue : m < n /\ Releases(queue[m], i) /\ Presses(queue[n], j)
StillQueued(queue, j) == \E n \in DOMAIN queue : Presses(queue[n], j)
NoOvertaking ==
  [][\A i, j \in Inputs :
       /\ i \in database /\ Ahead(pending, i, j)
       /\ channel' = channel /\ StillQueued(pending', j)
       => Ahead(pending', i, j)]_vars

(* Taking the pointer lets go of every button and of no key.               *)
CaptureLetsGo ==
  [][ReleaseButtons =>
       LET before == HeldAfter(database, pending)
           after == HeldAfter(database', pending')
       IN  after \cap Buttons = {} /\ (after = before \cap Keys \/ after = {})]_vars

(* An input the user let go of is up on the remote desktop before long,    *)
(* or is pressed again, or the session is over. (A key whose presses come  *)
(* with its releases may be tapped again and again.)                       *)
EventuallyUp ==
  \A i \in Inputs \ ReleaseOnly :
    (i \notin down /\ i \in remote) ~> (i \notin remote \/ i \in down \/ ~open)

(* The queue implements HeldInputs, operation by operation: what it will   *)
(* make the remote desktop hold changes as the operation it is given asks, *)
(* or everything is let go of, whatever is full, batched, retried or       *)
(* abandoned; delivering changes nothing, unless the connection is lost.   *)
Abstract == INSTANCE HeldInputs WITH held <- HeldAfter(database, pending)
HeldStep ==
  \/ \E i \in Inputs : Send(<<Press(i, aim)>>) /\ Abstract!Press(i)
  \/ \E i \in Inputs : Send(<<Release(i)>>) /\ Abstract!Release(i)
  \/ \E k \in ReleaseOnly : Send(<<Press(k, aim), Release(k)>>) /\ Abstract!Release(k)
  \/ (MovePointer \/ TurnWheel) /\ Abstract!Move
  \/ ReleaseAll /\ Abstract!ReleaseAll
  \/ ReleaseButtons /\ Abstract!ReleaseButtons
  \/ (FlushClosed \/ FlushRefused) /\ Abstract!ReleaseAll
  \/ /\ FlushDone \/ FlushFull \/ FlushBatch \/ FlushOperation \/ Retry \/ Receive \/ Close
     /\ Abstract!Unchanged
Implements == Abstract!Init /\ [][HeldStep]_vars
=============================================================================
