---------------------------- MODULE EventStream ----------------------------
(***************************************************************************)
(* The daemon's live events on their way to ocitop: the broadcast channel  *)
(* (emit of node.rs), the SSE stream (ctl_events of registry.rs), the      *)
(* connection, and listen_sse of ocitop with its channel to the UI loop.   *)
(* Events are numbered in the order of emit.                               *)
(***************************************************************************)
EXTENDS Integers, Sequences, SequencesExt

CONSTANTS
  RingCap,   \* slots of the broadcast channel (512)
  WireCap,   \* bound: tokens in flight on the connection, a frame at least
  PipeCap,   \* slots of the channel to the UI loop (256)
  MaxEvents, \* bound: events emitted
  Budget     \* bound: steps of the user, of the daemon and of the network

ASSUME StreamAssumption ==
  /\ {RingCap, PipeCap} \subseteq Nat \ {0} /\ {MaxEvents, Budget} \subseteq Nat
  /\ WireCap \in Nat /\ WireCap >= 4

VARIABLES
  emitted,   \* number of events emitted
  lost,      \* the events that the subscriber missed
  up,        \* the SSE connection stands
  ring,      \* what the subscriber has not taken from the channel yet
  wire,      \* tokens sent and not yet received
  buf,       \* buf of listen_sse
  pipe,      \* the mpsc channel
  left       \* what is left of the budget

streamVars == <<emitted, lost, up, ring, wire, buf, pipe, left>>

\* Tokens of an SSE stream; the other tokens are the numbers of the events.
NL == 0
DataField == -1
Comment == -2

\* A frame: `data: <event>`, or the comment that keeps the stream alive.
Frame(e) == <<DataField, e, NL, NL>>
KeepAliveFrame == <<Comment, NL, NL>>

\* The last token of the first frame of buf, 0 if no frame is complete.
FrameEnd(s) ==
  LET ends == {i \in 2 .. Len(s) : s[i - 1] = NL /\ s[i] = NL}
  IN  IF ends = {} THEN 0 ELSE CHOOSE i \in ends : \A j \in ends : i <= j

\* The events of the `data:` lines of a frame.
Decode(frame) ==
  IF Len(frame) >= 2 /\ frame[1] = DataField /\ frame[2] > 0 THEN <<frame[2]>> ELSE <<>>

Spend == left > 0 /\ left' = left - 1

-----------------------------------------------------------------------------
\* emit: a full channel forgets its oldest event, without a subscriber the
\* event is gone.
Emit ==
  /\ emitted < MaxEvents /\ Spend
  /\ emitted' = emitted + 1
  /\ LET full == up /\ Len(ring) = RingCap
         slots == Append(IF full THEN Tail(ring) ELSE ring, emitted + 1)
     IN  /\ ring' = IF up THEN slots ELSE ring
         /\ lost' = lost \cup (IF full THEN {Head(ring)} ELSE {})
                         \cup (IF up THEN {} ELSE {emitted + 1})
  /\ UNCHANGED <<up, wire, buf, pipe>>

\* ctl_events: the next event of the subscription (the notice that it lagged
\* is filtered out), and the keep-alive of an idle stream.
SendEvent ==
  /\ up /\ ring # <<>> /\ Len(wire) + 4 <= WireCap
  /\ wire' = wire \o Frame(Head(ring))
  /\ ring' = Tail(ring)
  /\ UNCHANGED <<emitted, lost, up, buf, pipe, left>>

SendKeepAlive ==
  /\ up /\ ring = <<>> /\ wire = <<>> /\ buf = <<>>
  /\ Spend
  /\ wire' = KeepAliveFrame
  /\ UNCHANGED <<emitted, lost, up, ring, buf, pipe>>

\* Mutant of ListenChunk: every chunk starts a new buffer.
ListenChunkFresh ==
  /\ up /\ FrameEnd(buf) = 0
  /\ \E n \in 1 .. Len(wire) :
       /\ buf' = SubSeq(wire, 1, n)
       /\ wire' = SubSeq(wire, n + 1, Len(wire))
  /\ UNCHANGED <<emitted, lost, up, ring, pipe, left>>

\* listen_sse: a chunk arrives, cut anywhere.
ListenChunk ==
  /\ up /\ FrameEnd(buf) = 0
  /\ \E n \in 1 .. Len(wire) :
       /\ buf' = buf \o SubSeq(wire, 1, n)
       /\ wire' = SubSeq(wire, n + 1, Len(wire))
  /\ UNCHANGED <<emitted, lost, up, ring, pipe, left>>

\* Mutant of ListenFrame: an event that finds no room is dropped.
ListenFrameDrops ==
  LET end == FrameEnd(buf)
      events == Decode(SubSeq(buf, 1, end))
  IN  /\ end > 0
      /\ pipe' = IF Len(pipe) + Len(events) <= PipeCap THEN pipe \o events ELSE pipe
      /\ buf' = SubSeq(buf, end + 1, Len(buf))
      /\ UNCHANGED <<emitted, lost, up, ring, wire, left>>

\* listen_sse: a complete frame is drained and its event sent to the UI
\* loop, once there is room.
ListenFrame ==
  LET end == FrameEnd(buf)
      events == Decode(SubSeq(buf, 1, end))
  IN  /\ end > 0
      /\ Len(pipe) + Len(events) <= PipeCap
      /\ pipe' = pipe \o events
      /\ buf' = SubSeq(buf, end + 1, Len(buf))
      /\ UNCHANGED <<emitted, lost, up, ring, wire, left>>

\* The connection ends; what was not received as a frame is lost.
Disconnect ==
  /\ up /\ FrameEnd(buf) = 0
  /\ Spend
  /\ up' = FALSE
  /\ ring' = <<>> /\ wire' = <<>> /\ buf' = <<>>
  /\ lost' = lost \cup {e \in 1 .. emitted : e \in ToSet(buf \o wire \o ring)}
  /\ UNCHANGED <<emitted, pipe>>

\* listen_sse tries again after two seconds, with a new subscription.
Reconnect ==
  /\ ~up
  /\ up' = TRUE
  /\ UNCHANGED <<emitted, lost, ring, wire, buf, pipe, left>>

StreamInit ==
  /\ emitted = 0 /\ lost = {} /\ up = FALSE /\ left = Budget
  /\ ring = <<>> /\ wire = <<>> /\ buf = <<>> /\ pipe = <<>>

\* What the daemon and listen_sse do by themselves.
StreamStep == SendEvent \/ ListenChunk \/ ListenFrame \/ Reconnect

StreamNext == StreamStep \/ Emit \/ SendKeepAlive \/ Disconnect

StreamTypeOK ==
  /\ emitted \in 0 .. MaxEvents /\ lost \subseteq 1 .. emitted /\ up \in BOOLEAN
  /\ Len(ring) <= RingCap /\ Len(wire) <= WireCap /\ Len(pipe) <= PipeCap
  /\ ToSet(ring \o pipe) \subseteq 1 .. emitted
  /\ ToSet(wire \o buf) \subseteq {NL, DataField, Comment} \cup 1 .. emitted
  /\ left \in 0 .. Budget
=============================================================================
