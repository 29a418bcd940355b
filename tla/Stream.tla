------------------------------- MODULE Stream -------------------------------
(***************************************************************************)
(* What flows from nodes to listeners: buffers, events and end-of-stream,  *)
(* from the streaming thread of an interpipesink into the queues of the    *)
(* interpipesrcs attached to it, and out of them in the thread of each     *)
(* interpipesrc.                                                           *)
(*                                                                         *)
(* A sink walks over its listeners with its own mutex held, one delivery   *)
(* at a time; a source enters or leaves a sink only when that mutex is     *)
(* free.  Which node a source is attached to is decided by InterPipe; here *)
(* it comes and goes.  The queue of buffers and the end-of-stream flag are *)
(* those of GstAppSrc, the queue of serialized events is the element's.    *)
(***************************************************************************)
EXTENDS Timestamps, Sequences, FiniteSets, Functions

CONSTANTS
  Srcs,           \* the interpipesrc elements
  Sinks,          \* the interpipesink elements
  NULL,
  Mode,           \* stream-sync of each source
  Nodes,          \* the sinks each source may listen to
  Bases,          \* base times the pipeline of each source may get
  NodeBase,       \* base time of the pipeline of each sink, once it plays
  Media,          \* the stamps of the buffers each sink renders
  Kinds,          \* kinds of events each sink may see: "serialized", "oob"
  MaxEvents,      \* bound: events each sink sees
  ForwardsEvents, \* sinks with forward-events
  ForwardsEos,    \* sinks with forward-eos
  AcceptsEvents,  \* sources with accept-events
  AcceptsEos,     \* sources with accept-eos-event
  Scenes,         \* which pipelines are there, and which of them play already
  Halts,          \* sources that may be paused and stopped again
  Switches        \* bound: sources that may leave their node while they run

\* The states of a source that was started.
Up == {"starting", "paused", "playing"}

Modes == {"restart", "passthrough", "compensate"}

ASSUME StreamAssumption ==
  /\ Srcs \intersect Sinks = {} /\ NULL \notin Srcs \union Sinks
  /\ Mode \in [Srcs -> Modes]
  /\ Nodes \in [Srcs -> SUBSET Sinks]
  /\ Bases \in [Srcs -> SUBSET Stamps]
  /\ NodeBase \in [Sinks -> Stamps]
  /\ Media \in [Sinks -> Seq([pts : Stamps, dts : Stamps])]
  /\ Kinds \in [Sinks -> SUBSET {"serialized", "oob"}]
  /\ MaxEvents \in [Sinks -> Nat]
  /\ Scenes \subseteq [Srcs \union Sinks -> {"off", "new", "playing"}]

VARIABLES
  phase,     \* how far the pipeline of each sink is
  sent,      \* how many of its buffers each sink has rendered
  events,    \* how many events each sink has seen
  stamp,     \* the stamps now in the buffers, which all listeners share
  last,      \* sink->last_buffer_timestamp
  walk,      \* the message being handed out with the sink's mutex held
  on,        \* the node each source is attached to
  state,     \* state of each source
  base,      \* base time of the source's pipeline
  queue,     \* buffers in the appsrc
  eos,       \* the appsrc was told that the stream ends
  pending,   \* src->pending_serial_events
  severed,   \* a lost race left that queue without a head
  stage,     \* where create is in each source
  hand,      \* the buffer it holds
  out,       \* history: what has left the source since it was started
  since      \* history: buffers rendered by its node before it could take any

sinkVars == <<phase, sent, events, last>>
srcVars == <<on, state, base, since>>
eventVars == <<pending, severed>>
threadVars == <<stage, hand>>
vars == <<sinkVars, stamp, walk, srcVars, queue, eos, eventVars, threadVars, out>>

-----------------------------------------------------------------------------
(* Types *)

Pairs == [pts : Stamps, dts : Stamps]

\* A buffer in a source: its place in the media of the node, the moment it was
\* rendered, and stamps of its own if the source made a copy.
Cells == [kind : {"buffer"}, node : Sinks, n : Nat, at : Nat, own : Pairs \union {NULL}]

\* An event in a source, with its stamp.
Happenings == [kind : {"event"}, node : Sinks, at : Nat, serial : BOOLEAN, ts : Stamps]

\* What a sink hands out, with its base time.
Renderings == [kind : {"buffer"}, node : Sinks, n : Nat, at : Nat, base : Stamps]
Sightings ==
  [kind : {"event"}, node : Sinks, at : Nat, base : Stamps, serial : BOOLEAN, ts : Stamps]
Ends == [kind : {"eos"}, node : Sinks]
Walks == [msg : Renderings \union Sightings \union Ends, todo : SUBSET Srcs]

IsBuffer(x) == x.kind = "buffer"
IsEvent(x) == x.kind = "event"

ASSUME NullAssumption == NULL \notin Cells /\ NULL \notin Walks /\ NULL \notin Pairs

TypeOK ==
  /\ phase \in [Sinks -> {"off", "fresh", "prerolled", "live", "done"}]
  /\ sent \in [Sinks -> Nat] /\ \A k \in Sinks : sent[k] <= Len(Media[k])
  /\ events \in [Sinks -> Nat]
  /\ stamp \in [Sinks -> Seq(Pairs)] /\ \A k \in Sinks : Len(stamp[k]) = Len(Media[k])
  /\ last \in [Sinks -> Stamps]
  /\ walk \in [Sinks -> Walks \union {NULL}]
  /\ on \in [Srcs -> Sinks \union {NULL}]
  /\ state \in [Srcs -> {"off", "null"} \union Up]
  /\ base \in [Srcs -> Stamps]
  /\ queue \in [Srcs -> Seq(Cells)]
  /\ eos \in [Srcs -> BOOLEAN]
  /\ pending \in [Srcs -> Seq(Happenings)]
  /\ severed \subseteq Srcs
  /\ stage \in [Srcs -> {"idle", "check", "popping", "ended"}]
  /\ hand \in [Srcs -> Cells \union {NULL}]
  /\ \A s \in Srcs : hand[s] # NULL <=> stage[s] \in {"check", "popping"}
  /\ \A s \in Srcs : stage[s] = "popping" => pending[s] # <<>>
  /\ out \in [Srcs -> Seq(Cells \union Happenings)]
  /\ since \in [Srcs -> Nat]

\* The elements of a scene: a source that plays is attached and has a base time.
Opening(scene) ==
  /\ phase = [k \in Sinks |-> CASE scene[k] = "off" -> "off"
                                [] scene[k] = "new" -> "fresh"
                                [] OTHER -> "live"]
  /\ state = [s \in Srcs |-> CASE scene[s] = "off" -> "off"
                               [] scene[s] = "new" -> "null"
                               [] OTHER -> "playing"]
  /\ on \in {f \in [Srcs -> Sinks \union {NULL}] : \A s \in Srcs :
              IF scene[s] = "playing" THEN f[s] \in Nodes[s] ELSE f[s] = NULL}
  /\ base \in {f \in [Srcs -> Stamps] : \A s \in Srcs :
              f[s] \in IF scene[s] = "playing" THEN Bases[s] ELSE {0}}

Init ==
  /\ \E scene \in Scenes : Opening(scene)
  /\ sent = [k \in Sinks |-> 0]
  /\ events = [k \in Sinks |-> 0]
  /\ stamp = Media
  /\ last = [k \in Sinks |-> 0]
  /\ walk = [k \in Sinks |-> NULL]
  /\ queue = [s \in Srcs |-> <<>>]
  /\ eos = [s \in Srcs |-> FALSE]
  /\ pending = [s \in Srcs |-> <<>>]
  /\ severed = {}
  /\ stage = [s \in Srcs |-> "idle"]
  /\ hand = [s \in Srcs |-> NULL]
  /\ out = [s \in Srcs |-> <<>>]
  /\ since = [s \in Srcs |-> 0]

-----------------------------------------------------------------------------
(* The sink: each message is handed to every listener under the mutex *)

\* gst_element_get_base_time: zero until the pipeline plays.
BaseOf(k) == IF phase[k] \in {"live", "done"} THEN NodeBase[k] ELSE 0

Listeners(k) == {s \in Srcs : on[s] = k}

\* Orders what one sink hands out: it grows with every message.
Moment(k) ==
  sent[k] + events[k] + (CASE phase[k] = "fresh" -> 0 [] phase[k] = "prerolled" -> 1 [] OTHER -> 2)

\* Lock the mutex and begin to hand out m.
HandOut(k, m) ==
  /\ walk[k] = NULL
  /\ walk' = [walk EXCEPT ![k] = [msg |-> m, todo |-> Listeners(k)]]

\* gst_inter_pipe_sink_process_sample, up to the walk.
ProcessSample(k, n) ==
  /\ last' = [last EXCEPT ![k] = stamp[k][n].pts]
  /\ HandOut(k, [kind |-> "buffer", node |-> k, n |-> n, at |-> Moment(k), base |-> BaseOf(k)])

\* appsink shows the first buffer when it prerolls, and renders it again later.
NewPreroll(k) ==
  /\ phase[k] = "fresh" /\ Media[k] # <<>>
  /\ ProcessSample(k, 1)
  /\ phase' = [phase EXCEPT ![k] = "prerolled"]
  /\ UNCHANGED <<sent, events, stamp, srcVars, queue, eos, eventVars, threadVars, out>>

NewBuffer(k) ==
  /\ phase[k] = "live" /\ sent[k] < Len(Media[k])
  /\ ProcessSample(k, sent[k] + 1)
  /\ sent' = [sent EXCEPT ![k] = @ + 1]
  /\ UNCHANGED <<phase, events, stamp, srcVars, queue, eos, eventVars, threadVars, out>>

\* The pipeline of the sink plays, prerolled or (async=false) not.
GoLive(k) ==
  /\ phase[k] \in {"fresh", "prerolled"}
  /\ phase' = [phase EXCEPT ![k] = "live"]
  /\ UNCHANGED <<sent, events, last, stamp, walk, srcVars, queue, eos, eventVars, threadVars, out>>

\* A serialized event comes in the streaming thread, which waits while the
\* sink is prerolled and ends with the stream; others come from any thread.
MaySee(k, kind) ==
  /\ kind \in Kinds[k]
  /\ events[k] < MaxEvents[k]
  /\ phase[k] \in (IF kind = "serialized" THEN {"fresh", "live"}
                    ELSE {"fresh", "prerolled", "live", "done"})

\* gst_inter_pipe_sink_event: a serialized event gets the stamp of the last
\* buffer.  (CAPS and EOS are not forwarded as events.)
SinkEvent(k, kind) ==
  /\ MaySee(k, kind)
  /\ events' = [events EXCEPT ![k] = @ + 1]
  /\ k \in ForwardsEvents
  /\ HandOut(k, [kind |-> "event", node |-> k, at |-> Moment(k), base |-> BaseOf(k),
                 serial |-> kind = "serialized",
                 ts |-> IF kind = "serialized" THEN last[k] ELSE 0])
  /\ UNCHANGED <<phase, sent, last, stamp, srcVars, queue, eos, eventVars, threadVars, out>>

\* gst_inter_pipe_sink_eos
SinkEos(k) ==
  /\ phase[k] = "live"
  /\ phase' = [phase EXCEPT ![k] = "done"]
  /\ IF k \in ForwardsEos
       THEN HandOut(k, [kind |-> "eos", node |-> k])
       ELSE walk[k] = NULL /\ UNCHANGED walk
  /\ UNCHANGED <<sent, events, last, stamp, srcVars, queue, eos, eventVars, threadVars, out>>

\* The walk has seen every listener: unlock.
Unlock(k) ==
  /\ walk[k] # NULL /\ walk[k].todo = {}
  /\ walk' = [walk EXCEPT ![k] = NULL]
  /\ UNCHANGED <<sinkVars, stamp, srcVars, queue, eos, eventVars, threadVars, out>>

-----------------------------------------------------------------------------
(* The source, called by the sink *)

\* The stamps of a buffer: its own copy's, or those all listeners see.
View(x) == IF x.own = NULL THEN stamp[x.node][x.n] ELSE x.own

Item(m, own) == [kind |-> "buffer", node |-> m.node, n |-> m.n, at |-> m.at, own |-> own]

\* Buffers get in from PAUSED on; those to be compensated when PLAYING, and
\* only if their PTS reaches back to the source's base time.
TakesBuffers(s) ==
  state[s] \in (IF Mode[s] = "compensate" THEN {"playing"} ELSE {"paused", "playing"})

Synchronizes(s, m) ==
  Mode[s] = "compensate" => PtsFits(stamp[m.node][m.n].pts, m.base, base[s])

\* gst_app_src_push_buffer, which refuses buffers after the end of the stream.
AppsrcPush(s, x) ==
  queue' = IF eos[s] THEN queue ELSE [queue EXCEPT ![s] = Append(@, x)]

\* Mutant of PushBuffer: stamps are shifted in the buffer that all share.
PushBufferInPlace(s, m) ==
  IF TakesBuffers(s) /\ Synchronizes(s, m)
    THEN /\ AppsrcPush(s, Item(m, NULL))
         /\ stamp' = IF Mode[s] = "compensate"
              THEN [stamp EXCEPT ![m.node][m.n] = Compensated(@, m.base, base[s])]
              ELSE stamp
    ELSE UNCHANGED <<queue, stamp>>

\* Mutant of PushBuffer: only a source that plays takes buffers.
PushBufferPlaying(s, m) ==
  IF state[s] = "playing" /\ Synchronizes(s, m)
    THEN /\ AppsrcPush(s, Item(m, IF Mode[s] = "compensate"
              THEN Compensated(stamp[m.node][m.n], m.base, base[s]) ELSE NULL))
         /\ UNCHANGED stamp
    ELSE UNCHANGED <<queue, stamp>>

\* gst_inter_pipe_src_push_buffer.  compensate-ts shifts a copy; restart-ts
\* wipes the stamps of the buffer itself, which the other listeners share.
PushBuffer(s, m) ==
  IF TakesBuffers(s) /\ Synchronizes(s, m)
    THEN /\ AppsrcPush(s, Item(m, IF Mode[s] = "compensate"
              THEN Compensated(stamp[m.node][m.n], m.base, base[s]) ELSE NULL))
         /\ stamp' = IF Mode[s] = "restart"
              THEN [stamp EXCEPT ![m.node][m.n] = Restarted] ELSE stamp
    ELSE UNCHANGED <<queue, stamp>>

\* Mutant of PushTail: the event is put at the head of the queue.
PushHead(s, x) ==
  /\ pending' = [pending EXCEPT ![s] = <<x>> \o @]
  /\ UNCHANGED severed

\* g_queue_push_tail has no lock: while create pops the only event, the new
\* one may be lost, or the tail end up without a head for good.
PushTail(s, x) ==
  \/ /\ pending' = [pending EXCEPT ![s] = IF s \in severed THEN @ ELSE Append(@, x)]
     /\ UNCHANGED severed
  \/ /\ stage[s] = "popping" /\ Len(pending[s]) = 1
     /\ UNCHANGED pending
     /\ severed' \in {severed, severed \union {s}}

Happening(m, s) ==
  [kind |-> "event", node |-> m.node, at |-> m.at, serial |-> m.serial,
   ts |-> IF m.serial THEN Shift(m.ts, m.base, base[s]) ELSE 0]

\* gst_inter_pipe_src_push_event, in any state: a serialized event is shifted
\* in all modes and waits, another goes out at once.
PushEvent(s, m) ==
  \/ /\ s \in AcceptsEvents /\ m.serial
     /\ PushTail(s, Happening(m, s))
     /\ UNCHANGED out
  \/ /\ s \in AcceptsEvents /\ ~m.serial
     /\ out' = [out EXCEPT ![s] = Append(@, Happening(m, s))]
     /\ UNCHANGED eventVars
  \/ /\ s \notin AcceptsEvents
     /\ UNCHANGED <<eventVars, out>>

\* gst_inter_pipe_src_send_eos
SendEos(s) ==
  eos' = IF s \in AcceptsEos /\ state[s] \in Up THEN [eos EXCEPT ![s] = TRUE] ELSE eos

\* One listener of the walk gets the message.
Deliver(k, s) ==
  /\ walk[k] # NULL /\ s \in walk[k].todo
  /\ walk' = [walk EXCEPT ![k].todo = @ \ {s}]
  /\ LET m == walk[k].msg IN
       \/ /\ m.kind = "buffer"
          /\ PushBuffer(s, m)
          /\ UNCHANGED <<eos, eventVars, out>>
       \/ /\ m.kind = "event"
          /\ PushEvent(s, m)
          /\ UNCHANGED <<stamp, queue, eos>>
       \/ /\ m.kind = "eos"
          /\ SendEos(s)
          /\ UNCHANGED <<stamp, queue, eventVars, out>>
  /\ UNCHANGED <<sinkVars, srcVars, threadVars>>

-----------------------------------------------------------------------------
(* The source: its state, and the node it listens to *)

\* add_listener and remove_listener change the table under the sink's mutex.
Join(s, k) ==
  /\ state[s] \in Up /\ on[s] = NULL /\ k \in Nodes[s]
  /\ walk[k] = NULL
  /\ on' = [on EXCEPT ![s] = k]
  /\ since' = [since EXCEPT ![s] = sent[k]]
  /\ UNCHANGED <<sinkVars, stamp, walk, state, base, queue, eos, eventVars, threadVars, out>>

\* Mutant of Leave: the walk in progress is not waited for.
LeaveUnlocked(s) ==
  /\ on[s] # NULL /\ s \in Switches
  /\ on' = [on EXCEPT ![s] = NULL]
  /\ UNCHANGED <<sinkVars, stamp, walk, state, base, since, queue, eos, eventVars, threadVars, out>>

\* listen-to changes or is unset while the source runs.
Leave(s) ==
  /\ on[s] # NULL /\ s \in Switches
  /\ walk[on[s]] = NULL
  /\ on' = [on EXCEPT ![s] = NULL]
  /\ UNCHANGED <<sinkVars, stamp, walk, state, base, since, queue, eos, eventVars, threadVars, out>>

\* gst_inter_pipe_src_start; the state is not committed yet.
Start(s) ==
  /\ state[s] = "null"
  /\ state' = [state EXCEPT ![s] = "starting"]
  /\ out' = [out EXCEPT ![s] = <<>>]
  /\ UNCHANGED <<sinkVars, stamp, walk, on, base, since, queue, eos, eventVars, threadVars>>

Commit(s) ==
  /\ state[s] = "starting"
  /\ state' = [state EXCEPT ![s] = "paused"]
  /\ since' = [since EXCEPT ![s] = IF on[s] = NULL THEN 0 ELSE sent[on[s]]]
  /\ UNCHANGED <<sinkVars, stamp, walk, on, base, queue, eos, eventVars, threadVars, out>>

\* The pipeline hands out a base time when it plays.
Play(s) ==
  /\ state[s] = "paused"
  /\ state' = [state EXCEPT ![s] = "playing"]
  /\ \E b \in Bases[s] : base' = [base EXCEPT ![s] = b]
  /\ since' = [since EXCEPT ![s] =
       IF Mode[s] = "compensate" /\ on[s] # NULL THEN sent[on[s]] ELSE @]
  /\ UNCHANGED <<sinkVars, stamp, walk, on, queue, eos, eventVars, threadVars, out>>

Pause(s) ==
  /\ s \in Halts /\ state[s] = "playing"
  /\ state' = [state EXCEPT ![s] = "paused"]
  /\ UNCHANGED <<sinkVars, stamp, walk, on, base, since, queue, eos, eventVars, threadVars, out>>

\* Mutant of Stop: the thread is not waited for.
StopAtOnce(s) ==
  /\ s \in Halts /\ state[s] = "paused"
  /\ on[s] # NULL => walk[on[s]] = NULL
  /\ state' = [state EXCEPT ![s] = "null"]
  /\ on' = [on EXCEPT ![s] = NULL]
  /\ queue' = [queue EXCEPT ![s] = <<>>]
  /\ eos' = [eos EXCEPT ![s] = FALSE]
  /\ stage' = [stage EXCEPT ![s] = "idle"]
  /\ UNCHANGED <<sinkVars, stamp, walk, base, since, eventVars, hand, out>>

\* gst_inter_pipe_src_stop, once the thread is joined: leave the node, then
\* the appsrc drops its buffers and forgets the end of the stream.  The
\* serialized events stay.
Stop(s) ==
  /\ s \in Halts /\ state[s] = "paused" /\ stage[s] \in {"idle", "ended"}
  /\ on[s] # NULL => walk[on[s]] = NULL
  /\ state' = [state EXCEPT ![s] = "null"]
  /\ on' = [on EXCEPT ![s] = NULL]
  /\ queue' = [queue EXCEPT ![s] = <<>>]
  /\ eos' = [eos EXCEPT ![s] = FALSE]
  /\ stage' = [stage EXCEPT ![s] = "idle"]
  /\ UNCHANGED <<sinkVars, stamp, walk, base, since, eventVars, hand, out>>

-----------------------------------------------------------------------------
(* The source: its thread, in gst_inter_pipe_src_create *)

Emit(s, xs) == out' = [out EXCEPT ![s] = @ \o xs]

\* The create of GstAppSrc returns a buffer.
Pop(s) ==
  /\ state[s] \in Up /\ stage[s] = "idle" /\ queue[s] # <<>>
  /\ hand' = [hand EXCEPT ![s] = Head(queue[s])]
  /\ queue' = [queue EXCEPT ![s] = Tail(@)]
  /\ stage' = [stage EXCEPT ![s] = "check"]
  /\ UNCHANGED <<sinkVars, stamp, walk, srcVars, eos, eventVars, out>>

\* A queue without a head looks empty.
Waiting(s) == pending[s] # <<>> /\ s \notin severed

\* Mutant of Due: an event leaves as soon as there is a buffer.
DueAtOnce(s) == Waiting(s)

\* The event at the head is older than the buffer, or there is none after it.
Due(s) ==
  /\ Waiting(s)
  /\ Head(pending[s]).ts < View(hand[s]).pts \/ queue[s] = <<>>

\* Mutant of SendBuffer: the buffer waits for the event too.
SendBufferAlone(s) ==
  /\ stage[s] = "check" /\ ~Waiting(s)
  /\ Emit(s, <<hand[s]>>)
  /\ hand' = [hand EXCEPT ![s] = NULL]
  /\ stage' = [stage EXCEPT ![s] = "idle"]
  /\ UNCHANGED <<sinkVars, stamp, walk, srcVars, queue, eos, eventVars>>

\* No event is due: the buffer goes downstream.
SendBuffer(s) ==
  /\ stage[s] = "check" /\ ~Due(s)
  /\ Emit(s, <<hand[s]>>)
  /\ hand' = [hand EXCEPT ![s] = NULL]
  /\ stage' = [stage EXCEPT ![s] = "idle"]
  /\ UNCHANGED <<sinkVars, stamp, walk, srcVars, queue, eos, eventVars>>

FindDue(s) ==
  /\ stage[s] = "check" /\ Due(s)
  /\ stage' = [stage EXCEPT ![s] = "popping"]
  /\ UNCHANGED <<sinkVars, stamp, walk, srcVars, queue, eos, eventVars, hand, out>>

\* One event per buffer goes out, just before the buffer.
SendEvent(s) ==
  /\ stage[s] = "popping"
  /\ Emit(s, <<Head(pending[s]), hand[s]>>)
  /\ pending' = [pending EXCEPT ![s] = Tail(@)]
  /\ hand' = [hand EXCEPT ![s] = NULL]
  /\ stage' = [stage EXCEPT ![s] = "idle"]
  /\ UNCHANGED <<sinkVars, stamp, walk, srcVars, queue, eos, severed>>

\* The create of GstAppSrc returns the end of the stream, whatever events wait.
EosOut(s) ==
  /\ state[s] \in Up /\ stage[s] = "idle" /\ queue[s] = <<>> /\ eos[s]
  /\ stage' = [stage EXCEPT ![s] = "ended"]
  /\ UNCHANGED <<sinkVars, stamp, walk, srcVars, queue, eos, eventVars, hand, out>>

-----------------------------------------------------------------------------
Create(s) == Pop(s) \/ SendBuffer(s) \/ FindDue(s) \/ SendEvent(s) \/ EosOut(s)

Control(s) ==
  \/ Start(s) \/ Commit(s) \/ Play(s) \/ Pause(s) \/ Stop(s) \/ Leave(s)
  \/ \E k \in Sinks : Join(s, k)

Render(k) ==
  \/ NewPreroll(k) \/ NewBuffer(k) \/ GoLive(k) \/ SinkEos(k)
  \/ \E kind \in {"serialized", "oob"} : SinkEvent(k, kind)

HandingOut(k) == Unlock(k) \/ \E s \in Srcs : Deliver(k, s)

Next ==
  \/ \E s \in Srcs : Create(s) \/ Control(s)
  \/ \E k \in Sinks : Render(k) \/ HandingOut(k)

\* A walk goes on until it unlocks, and the task of a source that plays runs.
Fairness ==
  /\ \A k \in Sinks : WF_vars(HandingOut(k))
  /\ \A s \in Srcs : WF_vars(state[s] = "playing" /\ Create(s))

Spec == Init /\ [][Next]_vars /\ Fairness

-----------------------------------------------------------------------------
(* Properties *)

InHand(s) == IF hand[s] = NULL THEN <<>> ELSE <<hand[s]>>

\* What has left a source since it was started and what is still in it.
Line(s) == out[s] \o InHand(s) \o queue[s]

IsSerial(x) == IsEvent(x) /\ x.serial

\* Two buffers of a node, or two serialized events of a node.
Comparable(x, y) ==
  /\ x.node = y.node
  /\ \/ IsBuffer(x) /\ IsBuffer(y)
     \/ IsSerial(x) /\ IsSerial(y)

Ahead(x, y) == Comparable(x, y) => x.at < y.at

InSequence(xs) == \A i, j \in DOMAIN xs : i < j => Ahead(xs[i], xs[j])

\* A source sends the buffers of a node in the order the sink handed them out, the
\* preroll buffer before it is rendered, and its serialized events in the order
\* the sink saw them.
InOrder == \A s \in Srcs : InSequence(Line(s)) /\ InSequence(out[s] \o pending[s])

\* A buffer gets into a source only from the node it is attached to at that
\* moment: after a switch, no buffer of the old node comes behind the new ones.
FedWhileAttached ==
  [][\A s \in Srcs : Len(queue'[s]) > Len(queue[s]) =>
       queue'[s][Len(queue'[s])].node = on[s]]_vars

\* Every listener sees each buffer at the instant it was rendered: as it is
\* with passthrough-ts, at the same point of time with compensate-ts, whatever
\* the other listeners of the node do with the buffer they share.
StampKept ==
  \A s \in Srcs : \A x \in Range(Line(s)) : IsBuffer(x) =>
    LET was == Media[x.node][x.n] IN
    /\ Mode[s] = "passthrough" => View(x) = was
    /\ Mode[s] = "compensate" =>
         /\ View(x).pts + base[s] = was.pts + NodeBase[x.node]
         /\ was.dts # NONE => View(x).dts + base[s] = was.dts + NodeBase[x.node]

\* A source that can take buffers gets every buffer its node renders while it is
\* attached, but for those that compensation puts before its own base time.
NothingMissed ==
  \A s \in Srcs : LET k == on[s] IN
    k # NULL /\ TakesBuffers(s) /\ ~eos[s] =>
      \A n \in since[s] + 1 .. sent[k] :
        \/ \E x \in Range(Line(s)) : IsBuffer(x) /\ x.node = k /\ x.n = n
        \/ walk[k] # NULL /\ s \in walk[k].todo /\ IsBuffer(walk[k].msg) /\ walk[k].msg.n = n
        \/ Mode[s] = "compensate" /\ ~PtsFits(Media[k][n].pts, NodeBase[k], base[s])

\* The buffers that a source sends after the event at place i of its output,
\* though their node rendered them before that event.
Overtaken(s, i) ==
  LET line == Line(s) IN
  {j \in i + 1 .. Len(line) :
     IsBuffer(line[j]) /\ line[j].node = line[i].node /\ line[j].at < line[i].at}

SerialAt(s) == {i \in DOMAIN out[s] : IsSerial(out[s][i])}

\* A serialized event that leaves before a buffer of its own node leaves at most
\* that one buffer early.  (Before a buffer of another node it may leave earlier:
\* the stamps of two nodes need not be in the order of their buffers.)
EarlyByOne ==
  \A s \in Srcs : \A i \in SerialAt(s) :
    Line(s)[i + 1].node = out[s][i].node => Cardinality(Overtaken(s, i)) <= 1

\* "it will be serialized correctly with the buffers queue and. will be send at
\* the correct moment." (test_in_bounds_events.c:36): a serialized event leaves
\* after every buffer its node rendered before it.  It does not.
InPlace == \A s \in Srcs : \A i \in SerialAt(s) : Overtaken(s, i) = {}

\* The end of the stream told to a source that plays leaves it.
EosArrives ==
  \A s \in Srcs : eos[s] /\ state[s] = "playing" ~> stage[s] = "ended" \/ state[s] # "playing"
=============================================================================
