# Verification of gst-interpipe

gst-interpipe connects independent GStreamer pipelines inside one process. A
pipeline that ends in an `interpipesink` (a *node*) feeds every pipeline that
starts with an `interpipesrc` (a *listener*) whose `listen-to` property names
it, and a source may switch from one node to another while everything plays.
The code is small, but its state is spread over a global registry and two kinds
of element, which call each other across the threads of several pipelines.

This directory holds TLA+ models of that code, the TLC runs that check them and
the TLAPS proofs about them.

    tlc -workers 4 -config one_thread.cfg MCInterPipe
    tlc -workers 4 -config stream.cfg MCStream
    tlc -workers 4 -config negotiation.cfg MCNegotiation
    tlapm InterPipeProof.tla
    tlapm QuietProof.tla
    tlapm StreamProof.tla

## 1. Inventory

| Part | Source | State | Operations |
|---|---|---|---|
| Core registry | `gstinterpipe.c` | `nodes` (name -> sink), `listeners` (source name -> {source, node name}), `listeners_mutex`, `nodes_mutex` | `listen_node`, `leave_node`, `get_node`, `add_node`, `remove_node` |
| interpipesrc, control | `gstinterpipesrc.c` | `listen_to`, `listening`, `block_switch`, `first_switch` | set `listen-to`, start, stop, finalize, `node_added`, `node_removed` |
| interpipesink, life and name | `gstinterpipesink.c` | `node_name`, object name, `listeners` (the sources it feeds) | create, rename, finalize, `add_listener`, `remove_listener` |
| interpipesink, caps | `gstinterpipesink.c` | `caps_negotiated`, caps of the appsink | `get_caps`, `set_caps`, the caps part of `add_listener` |
| interpipesink, forwarding | `gstinterpipesink.c` | `last_buffer_timestamp`, `forward_events`, `forward_eos` | `process_sample`, `forward_event`, `eos` |
| interpipesrc, data path | `gstinterpipesrc.c` | `pending_serial_events`, queue of the appsrc, `accept_events`, `accept_eos_event` | `push_buffer`, `push_event`, `send_eos`, `create` |
| stream-sync | `gstinterpipesrc.c` | `stream_sync`, base times of two pipelines | compensation of PTS, DTS and event timestamps |
| Upstream events | both elements | none of its own | `src_event`, `receive_event` |
| Interfaces | `gstinterpipeinode.c`, `gstinterpipeilistener.c` | none | dispatch to the one implementation of each |
| Plugin | `gstplugin.c` | none | registers the two types |

### How the parts interact

* A source enters the core with `listen_node` and `leave_node`. The core locks
  `listeners_mutex`, looks the node up in the table of nodes (a lock of its own,
  released before the node is used), and with `listeners_mutex` still held calls
  the sink's `add_listener` or `remove_listener`, which take the sink's own lock.
* A sink enters the core with `add_node` and `remove_node` when it is created,
  renamed or finalized. Both then walk over the table of listeners *without any
  lock* and call each source back; a source whose `listen_to` is that name calls
  the core again from inside the walk.
* A sink that finds no caps common to its listeners makes all of them leave.
* Buffers, events and EOS go from a sink's streaming thread into the queues of
  its listeners; upstream events go from a source to the node that its property
  names, whether or not it is attached there.

### What is hard

* Concurrency: threads of the application and of every pipeline work on one pair
  of tables. The walks, `listen_to`, `listening`, `node_name` and
  `caps_negotiated` are read and written without a lock.
* Ordering: sources may name nodes that do not exist yet, nodes go while sources
  listen to them, and a node of the same name may come later.
* Partial failure: a switch leaves the old node before the new one accepts, so a
  refusal has to be undone; `leave_node` may fail, and its callers go on.
* Re-entrance: callbacks of a walk insert and remove entries of the table that
  is walked over; `listeners_mutex` is not recursive.
* Names: entries are keyed by names that the application chooses and may change.
* Numbers: base-time compensation is done in unsigned 64-bit integers.

### What makes each part correct

* Registry and elements: a source is fed by at most one sink at any instant, by
  the one its property names when nothing is in flight; both sides agree on who
  is attached; a stopped source is in no table; a source whose node is there is
  attached to it; every operation ends and releases the lock; no thread
  works on a node that is gone (which the code does not ensure: see the instances in section 3).
* Caps: a listener is never told caps it did not offer, what was negotiated goes
  with the last listener, and no call waits for a mutex in vain.
* Streaming: what a source emits is in order, complete while it is attached and
  can take buffers, and from no other node; a serialized event keeps its place
  among the buffers up to one; the end of the stream arrives.
* stream-sync: a compensated buffer is the same instant in both pipelines, and
  the other listeners of the buffer do not notice.
* Upstream: an upstream event reaches a node if and only if it comes from its only
  listener.

`PROJECT.json` lists every hazard at its line.

## 2. Modules

| Module | What it is |
|---|---|
| `Feed` | Abstract specification: which sink feeds which source |
| `InterPipe` | The registry with the control part of both elements |
| `Timestamps` | The arithmetic of stream-sync on unsigned integers of any width |
| `Stream` | Buffers, events and end-of-stream from nodes to listeners; extends `Timestamps` |
| `Negotiation` | One sink and the caps it agrees on with its listeners |
| `MCInterPipe`, `MCStream`, `MCNegotiation` | Values of the constants for TLC |
| `InterPipeProof`, `FeedProof` | Proofs about `InterPipe`: types, lock, one feed, the refinement of `Feed` |
| `NamesProof`, `OneThreadProof`, `QuietProof` | Proofs about `InterPipe`: names and entries with any number of threads, one operation at a time, quiet states |
| `TimestampsProof`, `StreamProof`, `NegotiationProof` | Proofs about the modules they are named after |

The three state machines look at the same two kinds of element from three sides
and meet at `add_listener` and `remove_listener`. `InterPipe` decides who is
attached to whom and leaves open whether a sink refuses a source; `Negotiation`
has the reasons for which one sink refuses a source or throws it out, and leaves
open when sources come and go; `Stream` lets a source join and leave as the sink's
mutex allows, and says what flows.

### InterPipe

Each element (`Procs == Srcs \union Sinks`) runs at most one operation, on the
thread that entered it; several elements run theirs at once. `op` is the
operation, `pc` where it is, `cur`, `want`, `call` and `node` are the locals of
the call into the core it is making, `todo` the rest of its walk. Two operations
of one element at a time (an application that sets properties of one source from
two threads) are not modelled; a callback of a walk that runs on a source while
that source runs an operation of its own is, and this is where most of the
interesting interleavings are.

| In the code | In the model |
|---|---|
| `nodes`, `listeners` | `nodes`, `listeners`, functions with `NULL` for a missing key |
| `listeners_mutex` | `mutex`, the holder or `NULL` |
| `nodes_mutex` | Nothing: each use is one table operation, hence one step |
| `sink->listeners` under the sink's lock | `attached[k]`, changed by the one step that calls the sink; a set of sources, since the table compares names by address (`g_direct_hash`, line 205), unlike the core's, which compares the strings |
| `node_name`, `GST_OBJECT_NAME` | `nodeName`, `objName` |
| `listen_to`, `listening`, `first_switch` | `listenTo`, `listening`, `firstSwitch` |
| `g_hash_table_foreach` | `todo` holds the keys still to visit, in any order; `stale` says that a key came or went, after which the walk may stop early or go on (the version check of GLib) |
| caps check in `add_listener` | `clash`, the pairs refused at present; `CapsChange` varies it within `MayRefuse` |
| `get_caps` without intersection | `Kick`, for the sinks in `MayKick` |

The steps of a call: `listen` -> (`priv_get` -> `priv_drop` ->) `lookup` ->
`attach` -> `done` or `failed`, where everything from `priv_get` to `attach`
holds the lock; `leave` -> `priv_get` -> `priv_drop` -> `done` or `failed`.
`already_listen` and the trivial exits take and release the lock within one
step, as nothing else can observe the difference. A refused call of
`src_listen_node` goes on to `UndoListen` and `Relisten`.

Upstream events change no state of these elements. `UpstreamNode` and `Receives`
are the two decisions that `src_event` and `receive_event` take, as functions of
the state, and `UpstreamFromListener` relates them.

What is left out: reference counts and memory except for whether a sink is
alive; changes of the names of sources (`NameOf` is fixed); freed elements are not
created again (a new sink is another member of `Sinks`); media.

### Feed

`Feed` is what an application relies on: `up`, the sinks that are up, and
`feed[s]`, the one sink that feeds source `s`. A source goes from one sink to
another only through `NULL`, gets a feed only from a sink that is up, and loses
it when that sink goes. `InterPipe` is mapped onto it by `LiveSinks` and
`FeedOf`; a sink counts as gone from the moment its finalization begins, since
it streams no more then.

### Stream and Timestamps

A sink walks over its listeners with its mutex held: `walk[k]` is the message and
the listeners still to serve, `Deliver` serves one, `Unlock` ends the walk.
Between two deliveries every other thread may act. The source side has three
threads: the sink's (`PushBuffer`, `PushEvent`, `SendEos`), its own (`Create`:
`Pop`, then `SendBuffer`, or `FindDue` and `SendEvent`) and the application's
(`Control`).

| In the code | In the model |
|---|---|
| a `GstBuffer` that all listeners share | `stamp[k][n]`, its stamps now; a cell in a queue refers to it, or has stamps of its `own` if the source made a copy |
| the queue of the appsrc, its end of stream | `queue`, `eos`; `gst_app_src_push_buffer` refuses after the end |
| `pending_serial_events` | `pending`, and `severed`: GQueue is not locked, so a push that meets the pop of the only element may lose the event or cut the queue off from its head |
| `GST_STATE` of a source | `state`: `starting` between `start` and the commit of the state |
| `gst_element_get_base_time` | `base`, `BaseOf`: 0 until the pipeline plays |
| `last_buffer_timestamp` | `last` |
| what goes out of the source pad | `out`; `at` in a buffer or an event says when its node saw it, `since` from when on the source could take buffers: history for the properties |

`Timestamps` has `Shift`, which is what the code does to a PTS, a DTS and an event
stamp, `PtsFits`, the one check, and `Compensated` for both stamps of a buffer. `W`
is 2^64 in the code, any number in the proofs and 16 in the run.

Merged or fixed: `create` pushes an event and returns the buffer in one step,
since both happen in the one thread downstream of the element; the base time is
given together with PLAYING; `Stop` waits for the source's thread as GstBaseSrc
does; a sink plays once; buffers have no content, and sizes do not matter, as
`curr_bytes == 0` says no more than that the queue is empty. The limits of the
appsrc queue (which by default block nobody) and the drop policy of the appsink,
whose buffers are pulled in the callback that announces them, are left out.

### Negotiation

Caps are sets of formats. `serve` is where the sink is in a query or a CAPS event:
`scan` with its mutex held, `check` and `evict` after, then `set`, `update`, `out`
in `set_caps`. `core` is the join or leave that holds `listeners_mutex`, at the
step where it is, with what it has read so far; `Evict` takes `listeners_mutex`
too. The unlocked reads (`caps_negotiated` after the scan, the number of listeners
in `set_caps` and in `add_listener`) are steps of their own. `answer` is history:
what each listener offered last.

The base class calls `get_caps` before it passes a CAPS event on, and takes no
caps for any caps. The caps of the appsink and the sticky event of the pad are
one variable, and the sink serves one query or event at a time. `Elsewhere`
gives a source caps that it accepts from another node, where a source that a rename left
in this one may listen too; such a source may also join again, which `add_listener`
finds out at its end. Whether upstream can reconfigure is open.

## 3. Runs

| Run | Instance | Shows |
|---|---|---|
| `one_thread` | 2 sources, 3 sinks, 2 names, one operation at a time | With orderly use and no refusals: every source is attached to the sink it names and to no other, both tables agree, nothing is left behind, nobody is passed over; an upstream event reaches the node of a lone listener and no other |
| `rejections` | 1 source, 3 sinks, two may refuse it, one may throw it out | A refused switch goes back; a rejected source leaves nothing behind |
| `renames` | 2 sources, 2 sinks, 2 names, sinks renamed | The table of nodes follows the names, sources find a sink under its current name |
| `threads` | 1 source, 2 sinks, 2 names, three operations in flight, refusals | Never fed twice at any instant, `leave_node` tells the truth, every step is one of `Feed` |
| `ends` | 1 source, 2 sinks, 1 name, two operations in flight, refusals, evictions, block-switch set and unset | Every operation ends; a blocked source stays where it is |
| `stream` | Four scenes, see below | Buffers in order, none missed, from the right node, at the right instant; an event is one buffer early at most; the end of the stream arrives |
| `negotiation` | 2 sources, one with `allow-renegotiation=false`, 3 formats | Nobody is told what it did not offer, negotiated caps go with the last listener, no call hangs |
| `late_listener` | 1 source, 1 sink, two operations in flight | *Violated:* a source misses the node it waits for |
| `left_behind` | 2 sources, 2 sinks, one refuses | *Violated:* an entry outlives its listener |
| `rename_keeps` | 1 source, 2 sinks, renames | *Violated:* `leave_node` returns TRUE, the buffers go on |
| `event_early` | 1 source, 1 sink, both playing | *Violated:* an event leaves before the buffer it followed |
| `narrow_stays` | 2 sources, 2 formats | *Violated:* a listener that left still restricts the caps |

**Bounds of the registry.** `MaxBusy` bounds the operations in flight; with 1 the runs explore
everything one application thread can do, with 2 and 3 every interleaving of
the lock steps, look-ups and callbacks. Three sinks over two names are the least
that have a switch, a second node of a name after the first is gone, and a
refusal on both sides of a switch; two sources are the least for which the walk
of one affects the other. Elements are not created again and names are few; the
runs have no other bound, and the state space is explored completely.

**Bounds of the stream.** Each scene leaves the elements it does not need `off`,
so that one run asks all the questions without their product. *Shared*: a
compensating source joins a node that another source listens to, from before it
starts; *Switching*: a source goes between two nodes with base times on either
side of its own, one with the PTS below its base time, one without DTS; *Halting*:
a source is paused, stopped and started over while its node renders buffers,
events and the end; *Restarting*: the same with `restart-ts`. `Media` gives a node
one or two buffers and `MaxEvents` one or two events: enough for an event
before, between and after buffers, and for two events that wait for one buffer.
`W` = 16 leaves room for every stamp in the run. With one node and one source at a
time in the last two scenes, two sources on a node in the first and two nodes in
the second, each interaction of two actors that the code has is there; three
listeners on one node would only be served in more orders. `Switches` is the sources
that may leave their node while they run, `s1`, and `Halts` those that may be paused
and stopped, `s3` and `s4`; the code has neither bound, and the proofs hold for all values
of both.

**Bounds of the negotiation.** Two sources that meet in one of three formats, one
of which keeps its caps; the pipeline of the sink asks with no filter or with one
that suits only one of them. Nothing else is bounded.

**Fairness of the registry** (`FairSpec`). A thread that is inside an operation keeps running:
weak fairness of its steps, which the scheduler gives. A thread that waits for
`listeners_mutex` gets it in the end: strong fairness, since the lock may be
taken and released by others in between; GMutex promises no more than that some
waiter gets it, so this excludes starvation, not deadlock. Nothing obliges the
application to begin an operation, to finalize an element or to touch a property.

**Fairness of the stream.** A walk goes on to its unlock (`HandingOut`), as no
listener blocks it, and the task of a source runs while its state is PLAYING.
Nobody has to render, play, switch or stop.

**Fairness of the negotiation.** The sink's calls and the core's calls go on, and
get a mutex that is free again and again (`SF`), as above.

### What the violations show

* `late_listener` (`gstinterpipe.c:313`): `listen-to` is assigned after
  `listen_node` has returned, but the walk of `add_node` asks for it without a
  lock. A node added in between announces itself to a source that does not know
  yet that it waits for it.
* `left_behind` (`gstinterpipe.c:240`): the walk of `remove_node` may stop early
  because its own callbacks remove keys. A listener it did not reach keeps an
  entry that names a node which is gone; `leave_node` then fails before it
  removes the entry, and its caller carries on.
* `rename_keeps` (`gstinterpipesink.c:189`): a rename makes the core drop the
  node's listeners, but since the table has no such node any more, nobody asks
  the sink to drop them. It keeps sending.
* `event_early` (`gstinterpipesrc.c:495`): `create` looks at the events after it
  took a buffer out of the appsrc; when that was the last one, an event that came
  after it is sent before it. `EarlyByOne` in `stream` says that it is never worse
  where events and buffers are stamped alike (`KeepsPlace`).
* `narrow_stays` (`gstinterpipesink.c:397`): each query intersects what is left of
  the last one, and only the last listener that leaves resets it.

The passing runs do not show that the code is right in every case: `one_thread` has neither
refusals nor a second thread, `rejections` one source and one thread, `threads` one source,
and no run has two sources, or two live sinks, of one name. Each of these changes to an instance makes a
property fail, by a shortest trace that is worth reading. `PROJECT.json` names no property
at the hazards that only these traces show:

| Instance | Fails | Why |
|---|---|---|
| `MaxBusy = 2`, 1 source, 1 sink | `FedByName` | `node_added` compares `listen_to` and then listens, unsetting it leaves and then clears it: the leave comes in between (`gstinterpipesrc.c:543`) |
| `MaxBusy = 2`, 1 source, 1 sink | `NodeAlive` of `OneThreadProof` | The table holds plain pointers to nodes: a sink may be finalized between the look-up and the call (`gstinterpipe.c:142`) |
| 1 source, 2 sinks of one name, the first refuses | `Connected` | A refused source leaves, which removes its entry, and the listening after that fails before it inserts one: the second sink has nobody to tell (`gstinterpipesrc.c:792`) |
| 2 sources, 1 sink, which refuses one | `PendingHears` | The same removal inside the walk of `add_node`: GLib may stop before the other source (`gstinterpipe.c:314`) |
| `MayBlock <- OneSrc`, 1 sink | `Connected` | Waiting for a node uses up the first switch (`gstinterpipesrc.c:785`) |
| `NameOf <- SameName`, 2 sources | `ListenRegisters`, `LeaveDetaches`, and in the end `OneFeed` | The core's entries are keyed by the source's name, so the second source takes the first one's entry for its own (`gstinterpipe.c:125`); a sink's listeners are not, so the switch of one source repoints the entry of the other, which then leaves the wrong sink and is fed by two |
| `FreshNames = FALSE` | `NamesAgree`; with 3 sinks of one name, `OneFeed` | A sink that was refused its name still removes whoever has it (`gstinterpipe.c:361`), and a third one takes the name |
| `Renames = TRUE` | `OneFeed`, `LeaveDetaches` | A renamed sink keeps its listeners (`gstinterpipesink.c:189`) |
| 2 sources, 1 sink, which refuses one | `UpstreamFromListener` | A refused source still names the node, whose only listener is the other one (`gstinterpipesrc.c:443`) |
| A restarting source and another on one node | `StampKept` | `restart-ts` writes into the buffer that all listeners share (`gstinterpipesrc.c:687`) |
| `passthrough-ts` with a later base time | `EarlyByOne` | Events are shifted in all modes, buffers are not (`gstinterpipesrc.c:734`) |
| A restarting source that accepts events, or shares its node with one that does; same base times | `EarlyByOne` | Every event is older than a buffer without PTS (`gstinterpipesrc.c:495`) |
| PTS that fall from a buffer to the next | `EarlyByOne` | Events are placed by the PTS of the last buffer (`gstinterpipesink.c:557`) |
| DTS below the difference of base times | `StampKept` | The check is on PTS only (`gstinterpipesrc.c:662`); theorem `DtsWraps` |
| A compensating source that is paused and gets another base time | `StampKept`, `EarlyByOne` | What is in its queue was shifted with the old one |
| PTS that leave the range of stamps when they are shifted | `EarlyByOne` | The stamp of an event wraps, and it looks younger or older than it is (`gstinterpipesrc.c:734`) |
| `NothingMissed` without `~eos[s]` | `NothingMissed` | The end of one node's stream sticks to the appsrc over a switch (`gstinterpipesrc.c:771`) |

Not stated as properties because they fail in a step or two: that no event is lost
(the race of the unlocked GQueue), that every event leaves before the end of the
stream, that stop drops the events of the session, that only a listener that was
asked is thrown out, that every listener has the caps of the sink.

## 4. Proofs

All theorems are for any number of elements, in any interleaving the modules allow.
The assumptions of a module only say what kind of values its constants are:
`NULL` is none of the elements, names and entries, sources are not sinks, stamps have
a width. Whatever else a theorem needs is a hypothesis in its statement, one of those
below; the runs and instances above show what goes wrong without them:

| Hypothesis | Says | Needed by |
|---|---|---|
| `FreshNames` | A sink only gets a name that no live sink has | `NamesAgreeAlways` |
| `DistinctNames` | No two sources have the same name | `ListenRegistersAlways` |
| `OrderlyNames` | Both, and sinks are not renamed | `OneFeedAlways`, `LeaveDetachesAlways`, `ImplementsFeedAlways` |
| `MaxBusy = 1` | One operation at a time | `RefusedGoesBackAlways` |
| `Peaceful` | One operation at a time, fresh and distinct names, no sink refuses, no source blocks switches | `PendingHearsAlways`, `ConnectedAlways` |
| `Orderly` | `Peaceful`, and sinks are not renamed | `FedByNameAlways`, `DetachedUnlessListeningAlways`, `TablesAgreeAlways`, `UpstreamFromListenerAlways` |
| `MayKick = {}` | No sink throws its listeners out | `ConnectedAlways`, `UpstreamFromListenerAlways` |
| `IsFiniteSet(Srcs)` | The listeners of a sink can be counted | `UpstreamFromListenerAlways` |
| `KeepsTime` | No source that restarts stamps shares a node with one that does not; a compensating source keeps its base time over a pause; what it gets can be compensated | `StampKeptAlways` |
| `KeepsPlace` | The same about restarting and pausing; PTS do not fall; no restarted stamps where events are accepted; shifted stamps stay in range; `passthrough-ts` only with a base time not above that of the node | `EarlyByOneAlways` |

The runs satisfy them: `one_thread` is `Orderly`, `threads` and `ends` have
`OrderlyNames`, `renames` has fresh names, and `stream` satisfies `KeepsTime` and
`KeepsPlace` in each of its scenes.

### The registry (`InterPipeProof`, `FeedProof`)

* `TypeCorrect`: `Spec => []TypeOK`;
* `LockDiscipline`: a thread is between lock and unlock exactly when it holds
  `listeners_mutex`; so at most one thread is, and every path unlocks;
* `OneFeedAlways`: no source is in the listeners of two live sinks;
* `LeaveDetachesAlways`: `leave_node` returns TRUE only of a source that no live
  sink feeds any more;
* `ImplementsFeedAlways`: the registry implements `Feed`;
* `BlockedForGoodAlways`: a source that has used its first switch is not attached
  to a sink until block-switch is unset.

The first two and the last have no hypotheses, the others `OrderlyNames`. The last
rests on `BlockedFrom`: from a quiet state on, no call is about to attach a source that
is blocked and has used its first switch, and none begins before block-switch is unset.

**The argument.** `OneFeed` is not inductive: nothing in it says why the old
sink is the one that `listen_node` takes the source out of. The strengthening
`FeedInv` adds

* `LockInv`, `LiveInv`, `CallInv`: who holds the lock, which sinks are alive, what
  the locals of a call hold. `CallInv` says that the entry a thread works on
  stays in the table and pointed at a node while the thread has the lock;
* `NodesInv`: the table of nodes holds exactly the live sinks, under their names;
* `EntryInv`: the entry of a source that a live sink feeds names that sink. This is
  the heart of it: two sinks with the same source would be named by one entry;
* `HandInv`: from the look-up on, no live sink feeds the source in hand, and the
  node in hand has the wanted name; before the removal, the node in hand is the
  one that feeds the source, if any does.

Each `...Step` lemma shows that one part is kept by every action; the theorems
combine them. `one_thread` and `threads` check the same properties with TLC.

**The refinement.** `FeedOf` sends a source to a live sink that holds it; by
`OneFeed` there is only one (`FeedMapHolds`). `StepMapped` sorts the steps: creating
a sink opens it, beginning to finalize one closes it, `add_listener` connects,
`remove_listener` disconnects, and everything else is silent, as are these two
calls when the sink in hand is already being finalized. `HandInv` is what makes
`add_listener` a step from no feed to one. `MappedImplements` takes each kind to its
action of `Feed`.

### Names and threads (`NamesProof`, `OneThreadProof`)

* `NamesAgreeAlways`: with renames and any number of threads, the table of nodes
  holds exactly the live sinks under their names in every quiet state. `TableInv`
  says the same of every state, with what an operation has under way left out:
  between the removal and the insertion of a rename the sink is under no name.
* `ListenRegistersAlways`: a source for which `listen_node` returned TRUE is attached
  or has an entry of its own. `OwnerInv` is the reason: with distinct names the
  entry under a source's name is the source's.
* `RefusedGoesBackAlways`: with one operation at a time, whatever the names, renames,
  refusals and evictions, a refused switch ends at the node of `listen-to`. By `SoloInv`
  one element at most runs an operation, and a source only works on itself; `UndoInv`
  says how far the call that takes a refused switch back has come.

### Quiet states (`QuietProof`)

* `FedByNameAlways`, `DetachedUnlessListeningAlways`, `TablesAgreeAlways`: in a quiet
  state a source is fed by the sink it names and no other, a source that does not
  listen is in neither table, and the tables of the core and the sinks agree.
* `PendingHearsAlways`: a source that waits is not passed over by the walk of `add_node`.
* `ConnectedAlways`: a source whose node is there is attached to it.
* `UpstreamFromListenerAlways`: upstream events come from the one listener.

None of them says anything while an operation is under way, so each needs an
invariant about the middle of operations: `PlacesInv`, with `SoloInv`, `OwnerInv` and,
where sinks are not renamed, `FeedInv`. Its parts are

* `PlaceInv`: a source that no call is about and that has an entry is listening, and
  its entry is right: it is attached and the entry points at the node of its
  `listen_to` if there is one, and at none if there is none. Where the entry is
  wrong, a walk that will tell the source has it in `todo` (`ToBeTold`);
* `HeldInv`: the same for the source in hand, step by step through the two calls;
* `StaleInv`: the calls that a walk makes change entries in place, so the walk is not
  cut short; that is where a refusal would break it (`left_behind`);
* `WalkInv`: a walk has nothing to do for a source that it need not tell;
* `CalmInv`, `CallerInv`: nothing is refused or blocked; what a call is made for.

`KeepsEntryInv` (a started source that names a node keeps its entry, unless it is
thrown out) gives `Connected`; the `GoneInv` of that module (a sink that is not live has no
listeners) gives the half of `TablesAgree` about sinks that are gone.

`rejections` checks `FedByName`, `DetachedUnlessListening` and others with one source and
sinks that refuse it or throw it out. That is outside the hypotheses of these
theorems and stays model-checked.

### The stream (`StreamProof`, `TimestampsProof`)

* `InstantKept`, `OrderKept`: a stamp that fits is shifted to the same instant, and
  two keep their order. `DtsWraps` and `NonePtsShifted` are the two cases the code
  does not look at: a DTS below the difference of base times comes out above its
  PTS, and a buffer without PTS gets one. `ShiftBack`: even so nothing is lost.
* `TypesKept`: the types, and where `create` may stand with what in its hands.
* `FedByItsNode`: a source is fed only by the node it is attached to. The
  strengthening is `NoStaleWalk`: who is still to be served in a walk is a listener
  of that sink, because joining and leaving wait for its mutex.
* `SharedStampsKept`: with no restarting source, the stamps that listeners share
  stay those of the node.
* `InOrderAlways`: what a source sends and still holds of one node is in the order in
  which the node saw it. Buffers and events wait in two queues, and neither
  is the order in which they leave, so `OrderInv` speaks of each part of the line
  (sent, in hand, in a queue) and of the parts relative to each other: no part
  holds something of a node that is older than what left of that kind before
  (`PartsInOrder`), nothing in a walk is older than what its listeners have of that
  node (`OlderThanNews`), and nothing is from the future (`WalksBeforeNow`).
* `NothingMissedAlways`: no buffer is missing. `RenderedInv` and `StampsInv` say which
  buffer a sink hands out, with which stamps; `AllAnswered` says that each buffer the node
  rendered since the source was attached and could take it is in the line of the
  source, still to be served in the walk, or was before the source's base time.
* `StampKeptAlways`: a buffer is the same instant in both pipelines (`KeepsTime`).
  `SteadyInv` says that nobody wipes the stamps of the nodes it listens to and that a
  compensating source has its base time as long as it has buffers; `OwnInv` that a
  copy was shifted by exactly the base times of the two pipelines.
* `EarlyByOneAlways`: an event leaves at most one buffer early (`KeepsPlace`). The event has
  the stamp of the last buffer its node saw, which is not below that of any before
  (`LastInv`, `StampedInv`), also as the source counts (`CopyInv`, `AcceptInv`). `create`
  finds it due only when the buffer in its hand is not older, or when
  nothing was behind that buffer (`DueInv`); either way nothing that comes after the next
  buffer is older than the event (`GoneInv`). The second case is the one
  buffer of `event_early`.

`InOrderAlways` and `NothingMissedAlways` have no hypotheses: they hold with switches,
pauses, stops, restarted stamps and lost events. Each part of these invariants was checked on the
instance of `stream` before it was proved.

### Caps (`NegotiationProof`)

* `TypesKept`, `NegotiatedWithListeners`, `OffersRespected`. `NegotiatedByListeners`
  is not inductive: a scan that goes on could bring negotiated caps back after the
  last listener left. `AsksListeners` adds that a scan only has listeners before
  it. `OffersRespected` rests on `AnswersBind`, that negotiated caps are within every
  answer of those who listen; they are forgotten when the last listener has gone
  and at the end of an eviction, and `AnswersEvicted` says that whoever answered is
  gone by then.

### Only model-checked

* Liveness: `OperationsEnd`, `EosArrives` and `CallsEnd`. TLAPS does not prove
  liveness under fairness or reason about ENABLED.
* The properties of quiet states where sinks refuse or throw out (`rejections`).

Induction over data needs theorems that take operators, which the installed provers
cannot instantiate, and modules that reach a RECURSIVE operator lose the SMT
backend. So no module here has one, and the properties of `out` and the queues
quantify over positions rather than filter the sequences.

## 5. Not modelled

* `gstplugin.c` registers two types. The interface files dispatch to the one
  implementation each has, within the actions that call them.
* A chain of pipelines, where a caps query that `add_listener` makes may come back
  to the core (`gstinterpipesink.c:749`): it would need two sinks in `Negotiation`.
* Two operations of one element at once from two application threads.
* The properties of the elements that only tune appsrc and appsink.
* Memory: only whether a sink is still alive.

## 6. Plan

Done: `Feed`, `InterPipe` with upstream events, `Timestamps`, `Stream`, `Negotiation`, their
runs, and the theorems above. Worth doing next:

1. A pair of sinks in `Negotiation`, for the chain of pipelines.
2. The theorems of `QuietProof` for one source and sinks that refuse it: `HeldInv` would
   have to follow a refused call through the one that undoes it.
