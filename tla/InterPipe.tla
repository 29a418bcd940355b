------------------------------ MODULE InterPipe ------------------------------
(***************************************************************************)
(* The registry that connects pipelines (gstinterpipe.c) together with the *)
(* two kinds of element that use it: the interpipesink, a node, and the    *)
(* interpipesrc, a listener.                                               *)
(*                                                                         *)
(* Every element runs at most one operation at a time.  An operation is    *)
(* cut where the code may be interrupted: at each lock and unlock of       *)
(* listeners_mutex, at each look-up in the table of nodes (which has its   *)
(* own lock), at each call into a node, and at each callback of the walks  *)
(* over the table of listeners, which the code does without any lock.      *)
(***************************************************************************)
EXTENDS Naturals, FiniteSets

CONSTANTS
  Srcs,           \* the interpipesrc elements
  Sinks,          \* the interpipesink elements
  NodeNames,      \* names a sink can be given
  ListenerNames,  \* names of the sources
  NameOf,         \* the name of each source, fixed while it is in a pipeline
  MayBlock,       \* the sources whose block-switch property is ever set
  MayRefuse,      \* pairs <<sink, source>> whose caps may fail to meet
  MayKick,        \* sinks whose peer may ask for caps that no listener meets
  FreshNames,     \* TRUE: a sink only gets a name no other live sink has
  Renames,        \* TRUE: a sink may be renamed after it was registered
  MaxBusy,        \* bound: operations in flight at once (1: one thread)
  NULL

Procs == Srcs \union Sinks

\* An entry of the table of listeners.
Entry == [listener : Srcs, listen_to : NodeNames \union {NULL}]

ASSUME NameOfAssumption == NameOf \in [Srcs -> ListenerNames]
ASSUME NullAssumption ==
  NULL \notin Srcs \union Sinks \union NodeNames \union ListenerNames \union Entry
ASSUME KindsAssumption == Srcs \intersect Sinks = {}
ASSUME OptionsAssumption ==
  /\ MayBlock \subseteq Srcs
  /\ MayRefuse \subseteq Sinks \X Srcs
  /\ MayKick \subseteq Sinks
  /\ FreshNames \in BOOLEAN
  /\ Renames \in BOOLEAN
  /\ MaxBusy \in Nat \ {0}

VARIABLES
  nodes,        \* the table of nodes: name -> sink
  listeners,    \* the table of listeners: name -> entry
  mutex,        \* the holder of listeners_mutex
  sinkState,    \* life of each sink
  objName,      \* GST_OBJECT_NAME of each sink
  nodeName,     \* sink->node_name
  attached,     \* sink->listeners
  srcState,     \* life of each source, and its GST_BASE_SRC_IS_STARTED
  listenTo,     \* src->listen_to
  listening,    \* src->listening
  blocking,     \* the sources whose block-switch property is set
  firstSwitch,  \* src->first_switch
  clash,        \* pairs <<sink, source>> that add_listener would refuse now
  op,           \* the operation each element runs
  pc,           \* where it is in it
  cur,          \* the source the core is called for
  want,         \* the node name in that call
  call,         \* the last call into the core
  node,         \* the node fetched from the table
  todo,         \* what is left of a walk over a table
  stale         \* sinks whose walk saw a key come or go

coreVars == <<nodes, listeners, mutex>>
sinkVars == <<sinkState, objName, nodeName>>
srcVars == <<srcState, listenTo, listening, blocking, firstSwitch>>
callVars == <<cur, want, call, node>>
walkVars == <<todo, stale>>
vars == <<coreVars, sinkVars, attached, srcVars, clash, op, pc, callVars, walkVars>>

-----------------------------------------------------------------------------
(* Types *)

WalkOps == {"name", "unname", "finalize"}
Ops == {"idle", "set", "unset", "start", "stop", "kick"} \union WalkOps
Locked == {"priv_get", "priv_drop", "lookup", "attach"}
Labels == {"idle", "listen", "leave", "walk", "done", "failed"} \union Locked
Calls == {"none", "listen", "undo", "again", "leave"}

TypeOK ==
  /\ nodes \in [NodeNames -> Sinks \union {NULL}]
  /\ listeners \in [ListenerNames -> Entry \union {NULL}]
  /\ mutex \in Procs \union {NULL}
  /\ sinkState \in [Sinks -> {"new", "live", "freed"}]
  /\ objName \in [Sinks -> NodeNames \union {NULL}]
  /\ nodeName \in [Sinks -> NodeNames \union {NULL}]
  /\ attached \in [Sinks -> SUBSET Srcs]
  /\ srcState \in [Srcs -> {"ready", "started", "freed"}]
  /\ listenTo \in [Srcs -> NodeNames \union {NULL}]
  /\ listening \in [Srcs -> BOOLEAN]
  /\ blocking \subseteq Srcs
  /\ firstSwitch \in [Srcs -> BOOLEAN]
  /\ clash \subseteq Sinks \X Srcs
  /\ op \in [Procs -> Ops]
  /\ pc \in [Procs -> Labels]
  /\ cur \in [Procs -> Srcs \union {NULL}]
  /\ want \in [Procs -> NodeNames \union {NULL}]
  /\ call \in [Procs -> Calls]
  /\ node \in [Procs -> Sinks \union {NULL}]
  /\ todo \in [Procs -> SUBSET (Srcs \union ListenerNames)]
  /\ stale \subseteq Sinks

Init ==
  /\ nodes = [n \in NodeNames |-> NULL]
  /\ listeners = [l \in ListenerNames |-> NULL]
  /\ mutex = NULL
  /\ sinkState = [k \in Sinks |-> "new"]
  /\ objName = [k \in Sinks |-> NULL]
  /\ nodeName = [k \in Sinks |-> NULL]
  /\ attached = [k \in Sinks |-> {}]
  /\ srcState = [s \in Srcs |-> "ready"]
  /\ listenTo = [s \in Srcs |-> NULL]
  /\ listening = [s \in Srcs |-> FALSE]
  /\ blocking = {}
  /\ firstSwitch = [s \in Srcs |-> TRUE]
  /\ clash = {}
  /\ op = [p \in Procs |-> "idle"]
  /\ pc = [p \in Procs |-> "idle"]
  /\ cur = [p \in Procs |-> NULL]
  /\ want = [p \in Procs |-> NULL]
  /\ call = [p \in Procs |-> "none"]
  /\ node = [p \in Procs |-> NULL]
  /\ todo = [p \in Procs |-> {}]
  /\ stale = {}

-----------------------------------------------------------------------------
(* Control of operations and calls *)

\* An element that runs nothing may begin an operation, within the bound.
MayBegin(p) ==
  /\ op[p] = "idle"
  /\ Cardinality({q \in Procs : op[q] # "idle"}) < MaxBusy

Goto(p, label) == pc' = [pc EXCEPT ![p] = label]

\* The call into the core is over: forget its locals.
ForgetCall(p) ==
  /\ cur' = [cur EXCEPT ![p] = NULL]
  /\ want' = [want EXCEPT ![p] = NULL]
  /\ call' = [call EXCEPT ![p] = "none"]
  /\ node' = [node EXCEPT ![p] = NULL]

Finish(p) ==
  /\ op' = [op EXCEPT ![p] = "idle"]
  /\ Goto(p, "idle")
  /\ ForgetCall(p)
  /\ todo' = [todo EXCEPT ![p] = {}]

Returned(p) == pc[p] \in {"done", "failed"}

\* gst_inter_pipe_src_listen_node returned TRUE, or FALSE.
Listened(p) == pc[p] = "done" /\ call[p] = "listen"
NotListened(p) == Returned(p) /\ call[p] \in {"none", "again"}

\* gst_inter_pipe_leave_node returned.
Left(p) == Returned(p) /\ call[p] = "leave"

\* A key of the table of listeners came or went: the walks in progress will
\* notice it (g_hash_table_foreach compares the version of the table).
KeysChanged == stale' = stale \union {k \in Sinks : op[k] \in WalkOps}

\* p asks the core to detach source s.
CallLeave(p, s) ==
  /\ cur' = [cur EXCEPT ![p] = s]
  /\ want' = want
  /\ call' = [call EXCEPT ![p] = "leave"]
  /\ node' = node
  /\ Goto(p, "leave")

\* Mutant of SrcListenNode: a new node gets past block-switch.
BlockOnlySetters(p, s, n) ==
  LET blocked == ~firstSwitch[s] /\ s \in blocking /\ p = s IN
  /\ cur' = [cur EXCEPT ![p] = s]
  /\ want' = [want EXCEPT ![p] = n]
  /\ call' = [call EXCEPT ![p] = IF blocked THEN "none" ELSE "listen"]
  /\ node' = node
  /\ firstSwitch' = [firstSwitch EXCEPT ![s] = FALSE]
  /\ Goto(p, IF blocked THEN "failed" ELSE "listen")

\* gst_inter_pipe_src_listen_node up to its call into the core: only the first
\* switch is let through when block-switch is set.
SrcListenNode(p, s, n) ==
  LET blocked == ~firstSwitch[s] /\ s \in blocking IN
  /\ cur' = [cur EXCEPT ![p] = s]
  /\ want' = [want EXCEPT ![p] = n]
  /\ call' = [call EXCEPT ![p] = IF blocked THEN "none" ELSE "listen"]
  /\ node' = node
  /\ firstSwitch' = [firstSwitch EXCEPT ![s] = FALSE]
  /\ Goto(p, IF blocked THEN "failed" ELSE "listen")

\* listen_node failed: leave, then listen again to the node of the property.
UndoListen(p) ==
  /\ pc[p] = "failed" /\ call[p] = "listen"
  /\ call' = [call EXCEPT ![p] = "undo"]
  /\ Goto(p, "leave")
  /\ UNCHANGED <<coreVars, sinkVars, attached, srcVars, clash, op, cur, want, node, walkVars>>

\* Mutant of Relisten: the second call repeats the node that was refused.
RelistenSame(p) ==
  /\ Returned(p) /\ call[p] = "undo"
  /\ call' = [call EXCEPT ![p] = "again"]
  /\ Goto(p, "listen")
  /\ UNCHANGED <<coreVars, sinkVars, attached, srcVars, clash, op, cur, want, node, walkVars>>

\* With no listen_to the core refuses the call before it takes any lock.
Relisten(p) ==
  /\ Returned(p) /\ call[p] = "undo"
  /\ call' = [call EXCEPT ![p] = "again"]
  /\ want' = [want EXCEPT ![p] = listenTo[cur[p]]]
  /\ Goto(p, IF listenTo[cur[p]] = NULL THEN "failed" ELSE "listen")
  /\ UNCHANGED <<coreVars, sinkVars, attached, srcVars, clash, op, cur, node, walkVars>>

-----------------------------------------------------------------------------
(* The core: gst_inter_pipe_listen_node and gst_inter_pipe_leave_node *)

EntryOf(p) == listeners[NameOf[cur[p]]]

\* Mutant of Point: the node itself is kept instead of its name.
PointAtNode(p, n) ==
  listeners' = [listeners EXCEPT ![NameOf[cur[p]]].listen_to = IF n = NULL THEN n ELSE node[p]]

\* The entry of p's source, which exists, now points at node name n.
Point(p, n) == listeners' = [listeners EXCEPT ![NameOf[cur[p]]].listen_to = n]

\* Mutant of InsertEntry: an entry that is not there is not inserted.
UpdateEntryOnly(p, n) ==
  IF EntryOf(p) # NULL THEN Point(p, n) /\ UNCHANGED stale ELSE UNCHANGED <<listeners, stale>>

\* The entry of p's source is inserted, or updated if there is one already.
InsertEntry(p, n) ==
  \/ /\ EntryOf(p) # NULL
     /\ Point(p, n)
     /\ UNCHANGED stale
  \/ /\ EntryOf(p) = NULL
     /\ listeners' = [listeners EXCEPT
          ![NameOf[cur[p]]] = [listener |-> cur[p], listen_to |-> n]]
     /\ KeysChanged

\* Mutant of RemoveEntry: the entry stays in the table.
KeepEntry(p) == UNCHANGED <<listeners, stale>>

\* gst_inter_pipe_leave_listeners_table
RemoveEntry(p) ==
  /\ listeners' = [listeners EXCEPT ![NameOf[cur[p]]] = NULL]
  /\ KeysChanged

\* Mutant of MustLeaveFirst: listen_node never leaves the node it listened to.
NeverLeaves(p) == FALSE

\* listen_node calls leave_node_priv when the entry points at another node.
MustLeaveFirst(p) == EntryOf(p) # NULL /\ EntryOf(p).listen_to # NULL

AlreadyListening(p) ==
  /\ pc[p] = "listen" /\ mutex = NULL
  /\ EntryOf(p) # NULL
  /\ EntryOf(p).listen_to = want[p]
  /\ Goto(p, "done")
  /\ UNCHANGED <<coreVars, sinkVars, attached, srcVars, clash, op, callVars, walkVars>>

ListenLock(p) ==
  /\ pc[p] = "listen" /\ mutex = NULL
  /\ EntryOf(p) # NULL => EntryOf(p).listen_to # want[p]
  /\ mutex' = p
  /\ Goto(p, IF MustLeaveFirst(p) THEN "priv_get" ELSE "lookup")
  /\ UNCHANGED <<nodes, listeners, sinkVars, attached, srcVars, clash, op, callVars, walkVars>>

\* The node is not there: the entry is kept without a node.
LookupMissing(p) ==
  /\ pc[p] = "lookup"
  /\ nodes[want[p]] = NULL
  /\ InsertEntry(p, NULL)
  /\ mutex' = NULL
  /\ Goto(p, "done")
  /\ UNCHANGED <<nodes, sinkVars, attached, srcVars, clash, op, callVars, todo>>

LookupFound(p) ==
  /\ pc[p] = "lookup"
  /\ nodes[want[p]] # NULL
  /\ node' = [node EXCEPT ![p] = nodes[want[p]]]
  /\ Goto(p, "attach")
  /\ UNCHANGED <<coreVars, sinkVars, attached, srcVars, clash, op, cur, want, call, walkVars>>

\* inode_add_listener succeeds, also when the source is there already.
Attach(p) ==
  /\ pc[p] = "attach"
  /\ <<node[p], cur[p]>> \notin clash
  /\ attached' = [attached EXCEPT ![node[p]] = @ \union {cur[p]}]
  /\ InsertEntry(p, want[p])
  /\ mutex' = NULL
  /\ Goto(p, "done")
  /\ UNCHANGED <<nodes, sinkVars, srcVars, clash, op, callVars, todo>>

\* Mutant of AttachRefused: the error path does not unlock.
AttachRefusedLocked(p) ==
  /\ pc[p] = "attach"
  /\ <<node[p], cur[p]>> \in clash
  /\ Goto(p, "failed")
  /\ UNCHANGED <<coreVars, sinkVars, attached, srcVars, clash, op, callVars, walkVars>>

\* inode_add_listener fails: neither table is touched.
AttachRefused(p) ==
  /\ pc[p] = "attach"
  /\ <<node[p], cur[p]>> \in clash
  /\ mutex' = NULL
  /\ Goto(p, "failed")
  /\ UNCHANGED <<nodes, listeners, sinkVars, attached, srcVars, clash, op, callVars, walkVars>>

\* leave_node without an entry, or with an entry that points at no node.
LeaveUnknown(p) ==
  /\ pc[p] = "leave" /\ mutex = NULL
  /\ EntryOf(p) = NULL
  /\ Goto(p, "failed")
  /\ UNCHANGED <<coreVars, sinkVars, attached, srcVars, clash, op, callVars, walkVars>>

LeavePending(p) ==
  /\ pc[p] = "leave" /\ mutex = NULL
  /\ EntryOf(p) # NULL /\ EntryOf(p).listen_to = NULL
  /\ RemoveEntry(p)
  /\ Goto(p, "done")
  /\ UNCHANGED <<nodes, mutex, sinkVars, attached, srcVars, clash, op, callVars, todo>>

LeaveLock(p) ==
  /\ pc[p] = "leave" /\ mutex = NULL
  /\ EntryOf(p) # NULL /\ EntryOf(p).listen_to # NULL
  /\ mutex' = p
  /\ Goto(p, "priv_get")
  /\ UNCHANGED <<nodes, listeners, sinkVars, attached, srcVars, clash, op, callVars, walkVars>>

(* gst_inter_pipe_leave_node_priv, called with the lock held by both *)

Leaving(p) == call[p] \in {"leave", "undo"}

\* leave_node_priv returns FALSE: listen_node goes on, leave_node unlocks and
\* returns, and the entry stays in the table without a node.
PrivFailed(p) ==
  /\ Point(p, NULL)
  /\ Goto(p, IF Leaving(p) THEN "failed" ELSE "lookup")
  /\ mutex' = IF Leaving(p) THEN NULL ELSE mutex

PrivNoNode(p) ==
  /\ pc[p] = "priv_get"
  /\ nodes[EntryOf(p).listen_to] = NULL
  /\ PrivFailed(p)
  /\ UNCHANGED <<nodes, sinkVars, attached, srcVars, clash, op, callVars, walkVars>>

PrivGetNode(p) ==
  /\ pc[p] = "priv_get"
  /\ nodes[EntryOf(p).listen_to] # NULL
  /\ node' = [node EXCEPT ![p] = nodes[EntryOf(p).listen_to]]
  /\ Goto(p, "priv_drop")
  /\ UNCHANGED <<coreVars, sinkVars, attached, srcVars, clash, op, cur, want, call, walkVars>>

\* inode_remove_listener fails.
PrivNotThere(p) ==
  /\ pc[p] = "priv_drop"
  /\ cur[p] \notin attached[node[p]]
  /\ PrivFailed(p)
  /\ UNCHANGED <<nodes, sinkVars, attached, srcVars, clash, op, callVars, walkVars>>

\* inode_remove_listener succeeds, in listen_node ...
PrivDropAndListen(p) ==
  /\ pc[p] = "priv_drop" /\ ~Leaving(p)
  /\ cur[p] \in attached[node[p]]
  /\ attached' = [attached EXCEPT ![node[p]] = @ \ {cur[p]}]
  /\ Goto(p, "lookup")
  /\ UNCHANGED <<coreVars, sinkVars, srcVars, clash, op, callVars, walkVars>>

\* Mutant of PrivDropAndLeave: the sink keeps the listener.
LeaveTablesOnly(p) ==
  /\ pc[p] = "priv_drop" /\ Leaving(p)
  /\ cur[p] \in attached[node[p]]
  /\ RemoveEntry(p)
  /\ mutex' = NULL
  /\ Goto(p, "done")
  /\ UNCHANGED <<nodes, sinkVars, attached, srcVars, clash, op, callVars, todo>>

\* ... and in leave_node.
PrivDropAndLeave(p) ==
  /\ pc[p] = "priv_drop" /\ Leaving(p)
  /\ cur[p] \in attached[node[p]]
  /\ attached' = [attached EXCEPT ![node[p]] = @ \ {cur[p]}]
  /\ RemoveEntry(p)
  /\ mutex' = NULL
  /\ Goto(p, "done")
  /\ UNCHANGED <<nodes, sinkVars, srcVars, clash, op, callVars, todo>>

-----------------------------------------------------------------------------
(* The source: property listen-to, start, stop, finalize *)

\* listen-to given while the source is not started: only remembered.
PresetListenTo(s, n) ==
  /\ MayBegin(s) /\ srcState[s] = "ready"
  /\ n # listenTo[s]
  /\ listenTo' = [listenTo EXCEPT ![s] = n]
  /\ UNCHANGED <<coreVars, sinkVars, attached, blocking, srcState, listening, firstSwitch, clash, op, pc, callVars, walkVars>>

SetListenTo(s, n) ==
  /\ MayBegin(s) /\ srcState[s] = "started"
  /\ n # listenTo[s]
  /\ op' = [op EXCEPT ![s] = "set"]
  /\ SrcListenNode(s, s, n)
  /\ UNCHANGED <<coreVars, sinkVars, attached, blocking, srcState, listenTo, listening, clash, walkVars>>

\* The property is assigned after the core has returned, without its lock;
\* listening is set whether or not the core accepted.
SetReturns(s) ==
  /\ op[s] = "set"
  /\ Listened(s) \/ NotListened(s)
  /\ listenTo' = [listenTo EXCEPT ![s] = IF Listened(s) THEN want[s] ELSE @]
  /\ listening' = [listening EXCEPT ![s] = TRUE]
  /\ Finish(s)
  /\ UNCHANGED <<coreVars, sinkVars, attached, blocking, srcState, firstSwitch, clash, stale>>

\* listen-to := NULL, for a source that never listened and for one that does.
DropListenTo(s) ==
  /\ MayBegin(s) /\ srcState[s] # "freed" /\ ~listening[s]
  /\ listenTo[s] # NULL
  /\ listenTo' = [listenTo EXCEPT ![s] = NULL]
  /\ UNCHANGED <<coreVars, sinkVars, attached, blocking, srcState, listening, firstSwitch, clash, op, pc, callVars, walkVars>>

UnsetListenTo(s) ==
  /\ MayBegin(s) /\ srcState[s] # "freed" /\ listening[s]
  /\ listenTo[s] # NULL
  /\ op' = [op EXCEPT ![s] = "unset"]
  /\ CallLeave(s, s)
  /\ UNCHANGED <<coreVars, sinkVars, attached, srcVars, clash, walkVars>>

UnsetReturns(s) ==
  /\ op[s] = "unset" /\ Left(s)
  /\ listenTo' = [listenTo EXCEPT ![s] = NULL]
  /\ listening' = [listening EXCEPT ![s] = FALSE]
  /\ Finish(s)
  /\ UNCHANGED <<coreVars, sinkVars, attached, blocking, srcState, firstSwitch, clash, stale>>

\* block-switch := the other value
SetBlockSwitch(s) ==
  /\ MayBegin(s) /\ srcState[s] # "freed" /\ s \in MayBlock
  /\ blocking' = IF s \in blocking THEN blocking \ {s} ELSE blocking \union {s}
  /\ UNCHANGED <<coreVars, sinkVars, attached, srcState, listenTo, listening, firstSwitch, clash, op, pc, callVars, walkVars>>

\* gst_inter_pipe_src_start, without and with a node to listen to
StartAlone(s) ==
  /\ MayBegin(s) /\ srcState[s] = "ready" /\ listenTo[s] = NULL
  /\ srcState' = [srcState EXCEPT ![s] = "started"]
  /\ UNCHANGED <<coreVars, sinkVars, attached, blocking, listenTo, listening, firstSwitch, clash, op, pc, callVars, walkVars>>

Start(s) ==
  /\ MayBegin(s) /\ srcState[s] = "ready" /\ listenTo[s] # NULL
  /\ op' = [op EXCEPT ![s] = "start"]
  /\ SrcListenNode(s, s, listenTo[s])
  /\ UNCHANGED <<coreVars, sinkVars, attached, blocking, srcState, listenTo, listening, clash, walkVars>>

StartReturns(s) ==
  /\ op[s] = "start" /\ Listened(s)
  /\ srcState' = [srcState EXCEPT ![s] = "started"]
  /\ listening' = [listening EXCEPT ![s] = TRUE]
  /\ Finish(s)
  /\ UNCHANGED <<coreVars, sinkVars, attached, blocking, listenTo, firstSwitch, clash, stale>>

\* start returned FALSE: the element stays in its previous state.
StartFails(s) ==
  /\ op[s] = "start" /\ NotListened(s)
  /\ Finish(s)
  /\ UNCHANGED <<coreVars, sinkVars, attached, srcVars, clash, stale>>

\* gst_inter_pipe_src_stop
StopAlone(s) ==
  /\ MayBegin(s) /\ srcState[s] = "started" /\ ~listening[s]
  /\ srcState' = [srcState EXCEPT ![s] = "ready"]
  /\ UNCHANGED <<coreVars, sinkVars, attached, blocking, listenTo, listening, firstSwitch, clash, op, pc, callVars, walkVars>>

Stop(s) ==
  /\ MayBegin(s) /\ srcState[s] = "started" /\ listening[s]
  /\ op' = [op EXCEPT ![s] = "stop"]
  /\ CallLeave(s, s)
  /\ UNCHANGED <<coreVars, sinkVars, attached, srcVars, clash, walkVars>>

\* What leave_node returned is not looked at.
StopReturns(s) ==
  /\ op[s] = "stop" /\ Left(s)
  /\ srcState' = [srcState EXCEPT ![s] = "ready"]
  /\ listening' = [listening EXCEPT ![s] = FALSE]
  /\ Finish(s)
  /\ UNCHANGED <<coreVars, sinkVars, attached, blocking, listenTo, firstSwitch, clash, stale>>

\* An element is only finalized once it is stopped; finalize leaves no node.
FinalizeSrc(s) ==
  /\ MayBegin(s) /\ srcState[s] = "ready"
  /\ srcState' = [srcState EXCEPT ![s] = "freed"]
  /\ listenTo' = [listenTo EXCEPT ![s] = NULL]
  /\ UNCHANGED <<coreVars, sinkVars, attached, blocking, listening, firstSwitch, clash, op, pc, callVars, walkVars>>

-----------------------------------------------------------------------------
(* The sink: its name, its finalization, and its refusal of caps *)

\* Names the application may give: with FreshNames, none of a live sink.
Available(n) ==
  FreshNames => \A k \in Sinks :
                  sinkState[k] = "live" /\ op[k] # "finalize" => objName[k] # n

\* Mutant of RemoveNode: the table keeps the name.
KeepNode(k) ==
  /\ nodes' = nodes
  /\ todo' = [todo EXCEPT ![k] = ListenerNames]
  /\ stale' = stale \ {k}
  /\ Goto(k, "walk")

\* gst_inter_pipe_remove_node up to its walk: the entry of that name goes,
\* whoever registered it; without one there is no walk.
RemoveNode(k) ==
  /\ nodes' = [nodes EXCEPT ![nodeName[k]] = NULL]
  /\ todo' = [todo EXCEPT ![k] = IF nodes[nodeName[k]] # NULL THEN ListenerNames ELSE {}]
  /\ stale' = stale \ {k}
  /\ Goto(k, "walk")

\* Mutant of AddNode: the listeners are not told.
AddNodeSilently(k, n) ==
  /\ nodeName' = [nodeName EXCEPT ![k] = n]
  /\ op' = [op EXCEPT ![k] = "name"]
  /\ nodes' = [nodes EXCEPT ![n] = IF @ = NULL THEN k ELSE @]
  /\ todo' = [todo EXCEPT ![k] = {}]
  /\ stale' = stale \ {k}
  /\ Goto(k, "walk")

\* gst_inter_pipe_add_node up to its walk; a name already there is refused and
\* the sink never learns it.
AddNode(k, n) ==
  /\ nodeName' = [nodeName EXCEPT ![k] = n]
  /\ op' = [op EXCEPT ![k] = "name"]
  /\ nodes' = [nodes EXCEPT ![n] = IF @ = NULL THEN k ELSE @]
  /\ todo' = [todo EXCEPT ![k] = IF nodes[n] = NULL THEN ListenerNames ELSE {}]
  /\ stale' = stale \ {k}
  /\ Goto(k, "walk")

\* The element is created: its name is set for the first time.
CreateSink(k, n) ==
  /\ MayBegin(k) /\ sinkState[k] = "new" /\ Available(n)
  /\ sinkState' = [sinkState EXCEPT ![k] = "live"]
  /\ objName' = [objName EXCEPT ![k] = n]
  /\ AddNode(k, n)
  /\ UNCHANGED <<listeners, mutex, attached, srcVars, clash, callVars>>

RenameSink(k, n) ==
  /\ Renames
  /\ MayBegin(k) /\ sinkState[k] = "live" /\ Available(n)
  /\ objName' = [objName EXCEPT ![k] = n]
  /\ op' = [op EXCEPT ![k] = "unname"]
  /\ RemoveNode(k)
  /\ UNCHANGED <<listeners, mutex, sinkState, nodeName, attached, srcVars, clash, callVars>>

FinalizeSink(k) ==
  /\ MayBegin(k) /\ sinkState[k] = "live"
  /\ op' = [op EXCEPT ![k] = "finalize"]
  /\ RemoveNode(k)
  /\ UNCHANGED <<listeners, mutex, sinkVars, attached, srcVars, clash, callVars>>

\* One callback of the walk.  The source decides on its own listen_to, read
\* without a lock.  Entries come in any order, as in a hash table.
SkipListener(k, l) ==
  /\ pc[k] = "walk" /\ op[k] \in WalkOps
  /\ l \in todo[k] /\ listeners[l] # NULL
  /\ listenTo[listeners[l].listener] # nodeName[k]
  /\ todo' = [todo EXCEPT ![k] = @ \ {l}]
  /\ UNCHANGED <<coreVars, sinkVars, attached, srcVars, clash, op, pc, callVars, stale>>

NotifyAdded(k, l) ==
  /\ pc[k] = "walk" /\ op[k] = "name"
  /\ l \in todo[k] /\ listeners[l] # NULL
  /\ listenTo[listeners[l].listener] = nodeName[k]
  /\ todo' = [todo EXCEPT ![k] = @ \ {l}]
  /\ SrcListenNode(k, listeners[l].listener, nodeName[k])
  /\ UNCHANGED <<coreVars, sinkVars, attached, blocking, srcState, listenTo, listening, clash, op, stale>>

NotifyRemoved(k, l) ==
  /\ pc[k] = "walk" /\ op[k] \in {"unname", "finalize"}
  /\ l \in todo[k] /\ listeners[l] # NULL
  /\ listenTo[listeners[l].listener] = nodeName[k]
  /\ todo' = [todo EXCEPT ![k] = @ \ {l}]
  /\ CallLeave(k, listeners[l].listener)
  /\ UNCHANGED <<coreVars, sinkVars, attached, srcVars, clash, op, stale>>

CallbackReturns(k) ==
  /\ op[k] \in WalkOps \union {"kick"}
  /\ Listened(k) \/ NotListened(k) \/ Left(k)
  /\ ForgetCall(k)
  /\ Goto(k, "walk")
  /\ UNCHANGED <<coreVars, sinkVars, attached, srcVars, clash, op, walkVars>>

\* The walk is over after the last entry.  It may also end before it, if a key
\* came or went meanwhile: the version check of g_hash_table_foreach is
\* compiled in unless GLib was built without its checks.
WalkOver(k) ==
  /\ pc[k] = "walk" /\ op[k] \in WalkOps
  /\ k \in stale \/ \A l \in todo[k] : listeners[l] = NULL

NameReturns(k) ==
  /\ WalkOver(k) /\ op[k] = "name"
  /\ stale' = stale \ {k}
  /\ Finish(k)
  /\ UNCHANGED <<coreVars, sinkVars, attached, srcVars, clash>>

\* The old name is gone from the table: register the new one.
RenameRegisters(k) ==
  /\ WalkOver(k) /\ op[k] = "unname"
  /\ AddNode(k, objName[k])
  /\ UNCHANGED <<listeners, mutex, sinkState, objName, attached, srcVars, clash, callVars>>

FinalizeReturns(k) ==
  /\ WalkOver(k) /\ op[k] = "finalize"
  /\ sinkState' = [sinkState EXCEPT ![k] = "freed"]
  /\ attached' = [attached EXCEPT ![k] = {}]
  /\ objName' = [objName EXCEPT ![k] = NULL]
  /\ nodeName' = [nodeName EXCEPT ![k] = NULL]
  /\ stale' = stale \ {k}
  /\ Finish(k)
  /\ UNCHANGED <<coreVars, srcVars, clash>>

\* gst_inter_pipe_sink_get_caps finds no intersection: every listener it has
\* then is made to leave its node.
Kick(k) ==
  /\ MayBegin(k) /\ sinkState[k] = "live" /\ k \in MayKick
  /\ attached[k] # {}
  /\ op' = [op EXCEPT ![k] = "kick"]
  /\ todo' = [todo EXCEPT ![k] = attached[k]]
  /\ Goto(k, "walk")
  /\ UNCHANGED <<coreVars, sinkVars, attached, srcVars, clash, callVars, stale>>

KickNext(k, s) ==
  /\ op[k] = "kick" /\ pc[k] = "walk"
  /\ s \in todo[k]
  /\ todo' = [todo EXCEPT ![k] = @ \ {s}]
  /\ CallLeave(k, s)
  /\ UNCHANGED <<coreVars, sinkVars, attached, srcVars, clash, op, stale>>

KickReturns(k) ==
  /\ op[k] = "kick" /\ pc[k] = "walk" /\ todo[k] = {}
  /\ Finish(k)
  /\ UNCHANGED <<coreVars, sinkVars, attached, srcVars, clash, stale>>

\* The caps either side can handle change: add_listener starts or stops to
\* refuse a source.
CapsChange(k, s) ==
  /\ <<k, s>> \in MayRefuse
  /\ Cardinality({q \in Procs : op[q] # "idle"}) < MaxBusy
  /\ clash' = IF <<k, s>> \in clash THEN clash \ {<<k, s>>} ELSE clash \union {<<k, s>>}
  /\ UNCHANGED <<coreVars, sinkVars, attached, srcVars, op, pc, callVars, walkVars>>

\* Every element was finalized: nothing is left to do.
AllFreed ==
  /\ \A k \in Sinks : sinkState[k] = "freed"
  /\ \A s \in Srcs : srcState[s] = "freed"
  /\ UNCHANGED vars

-----------------------------------------------------------------------------
(* Upstream events, which change nothing here *)

\* gst_inter_pipe_src_event: the node is looked up by name, attached or not.
UpstreamNode(s) == IF listenTo[s] = NULL THEN NULL ELSE nodes[listenTo[s]]

\* Mutant of Receives: the event goes on as soon as there is a listener.
ReceivesFromAny(k) == attached[k] # {}

\* gst_inter_pipe_sink_receive_event: only with exactly one listener does the
\* event go on to the peer, whoever sent it.
Receives(k) == Cardinality(attached[k]) = 1

-----------------------------------------------------------------------------
(* The specification *)

SrcBegins(s) ==
  \/ \E n \in NodeNames : PresetListenTo(s, n) \/ SetListenTo(s, n)
  \/ DropListenTo(s) \/ UnsetListenTo(s) \/ SetBlockSwitch(s)
  \/ StartAlone(s) \/ Start(s) \/ StopAlone(s) \/ Stop(s) \/ FinalizeSrc(s)

SrcReturns(s) ==
  SetReturns(s) \/ UnsetReturns(s) \/ StartReturns(s) \/ StartFails(s) \/ StopReturns(s)

SinkBegins(k) ==
  \/ \E n \in NodeNames : CreateSink(k, n) \/ RenameSink(k, n)
  \/ FinalizeSink(k) \/ Kick(k)

SinkWalks(k) ==
  \/ \E l \in ListenerNames : SkipListener(k, l) \/ NotifyAdded(k, l) \/ NotifyRemoved(k, l)
  \/ \E s \in Srcs : KickNext(k, s)
  \/ CallbackReturns(k) \/ NameReturns(k) \/ RenameRegisters(k)
  \/ FinalizeReturns(k) \/ KickReturns(k)

CoreLocks(p) == AlreadyListening(p) \/ ListenLock(p) \/ LeaveUnknown(p) \/ LeavePending(p) \/ LeaveLock(p)

CoreHoldsLock(p) ==
  \/ LookupMissing(p) \/ LookupFound(p) \/ Attach(p) \/ AttachRefused(p)
  \/ PrivNoNode(p) \/ PrivGetNode(p) \/ PrivNotThere(p)
  \/ PrivDropAndListen(p) \/ PrivDropAndLeave(p)

CoreUnlocked(p) == UndoListen(p) \/ Relisten(p)

Next ==
  \/ \E s \in Srcs : SrcBegins(s) \/ SrcReturns(s)
  \/ \E k \in Sinks : SinkBegins(k) \/ SinkWalks(k)
  \/ \E p \in Procs : CoreLocks(p) \/ CoreHoldsLock(p) \/ CoreUnlocked(p)
  \/ \E k \in Sinks, s \in Srcs : CapsChange(k, s)
  \/ AllFreed

Spec == Init /\ [][Next]_vars

\* A thread inside an operation keeps running; one that waits for the lock
\* gets it in the end.  Nothing obliges the application to begin anything.
Fairness ==
  /\ \A s \in Srcs : WF_vars(SrcReturns(s))
  /\ \A k \in Sinks : WF_vars(SinkWalks(k))
  /\ \A p \in Procs : WF_vars(CoreHoldsLock(p)) /\ WF_vars(CoreUnlocked(p)) /\ SF_vars(CoreLocks(p))

FairSpec == Spec /\ Fairness

-----------------------------------------------------------------------------
(* Properties *)

\* A sink that is registered for good: created and not being finalized.
Live(k) == sinkState[k] = "live" /\ op[k] # "finalize"

\* No operation is in flight.
Quiet == \A p \in Procs : op[p] = "idle"

\* A source gets buffers from at most one live sink, at every instant of every
\* operation, however the threads interleave: listen_node takes it out of the
\* old node before it goes into the new one, and the name in its entry is
\* enough to find the old one.
OneFeed ==
  \A k1, k2 \in Sinks : \A s \in Srcs :
    Live(k1) /\ Live(k2) /\ s \in attached[k1] /\ s \in attached[k2] => k1 = k2

\* The sink that feeds a source is the one its listen-to property names.
FedByName ==
  Quiet => \A k \in Sinks : \A s \in attached[k] : Live(k) => listenTo[s] = nodeName[k]

\* A source that is not listening (stopped, finalized, listen-to unset) has
\* left both tables: no sink and no walk can reach it any more.
DetachedUnlessListening ==
  Quiet => \A s \in Srcs : ~listening[s] =>
             /\ \A k \in Sinks : s \notin attached[k]
             /\ \A l \in ListenerNames : listeners[l] # NULL => listeners[l].listener # s

\* The entry of a source in the core and the listeners of the sinks tell the
\* same: what the core believes is attached is attached, and the reverse.
TablesAgree ==
  Quiet => \A k \in Sinks, s \in Srcs : Live(k) =>
             (s \in attached[k] <=>
                /\ listeners[NameOf[s]] # NULL
                /\ listeners[NameOf[s]].listen_to # NULL
                /\ nodes[listeners[NameOf[s]].listen_to] = k)

\* A started source whose node is registered is attached to it, whichever came
\* first, unless that node is one that refuses it or throws it out.
Connected ==
  Quiet => \A s \in Srcs, k \in Sinks :
             /\ srcState[s] = "started"
             /\ listenTo[s] # NULL /\ nodes[listenTo[s]] = k
             /\ <<k, s>> \notin MayRefuse /\ k \notin MayKick
             => s \in attached[k]

\* A started source whose entry waits for a node is not passed over: a node of
\* the name it waits for is not in the table, or is one that refuses it.
PendingHears ==
  Quiet => \A l \in ListenerNames : listeners[l] # NULL /\ listeners[l].listen_to = NULL =>
             LET s == listeners[l].listener
                 n == listenTo[s] IN
             srcState[s] = "started" /\ n # NULL /\ nodes[n] # NULL
               => <<nodes[n], s>> \in MayRefuse

\* An upstream event of a started source reaches the pipeline of a node if and
\* only if the source is the one listener of that node, though the source asks
\* the table of nodes and the node only counts.
UpstreamFromListener ==
  Quiet => \A s \in Srcs, k \in Sinks : srcState[s] = "started" =>
             (UpstreamNode(s) = k /\ Receives(k) <=> Live(k) /\ attached[k] = {s})

\* A refused switch of a source that was listening goes back to the old node.
RefusedGoesBack ==
  \A s \in Srcs :
    op[s] = "set" /\ NotListened(s) /\ call[s] = "again" /\ listenTo[s] # NULL =>
      \A k \in Sinks : nodes[listenTo[s]] = k /\ <<k, s>> \notin clash => s \in attached[k]

\* leave_node says TRUE only of a source that no live sink feeds any more.
LeaveDetaches ==
  [][\A p \in Procs : pc[p] \in {"leave", "priv_drop"} /\ pc'[p] = "done" /\ Leaving(p) =>
       \A k \in Sinks : Live(k) => cur[p] \notin attached'[k]]_vars

\* listen_node says TRUE only of a source that is attached to a node or has an
\* entry of its own, by which it will hear of its node.
ListenRegisters ==
  [][\A p \in Procs : pc'[p] = "done" /\ pc[p] # "done" /\ ~Leaving(p) =>
       \/ \E k \in Sinks : cur[p] \in attached'[k]
       \/ \E l \in ListenerNames : listeners'[l] # NULL /\ listeners'[l].listener = cur[p]]_vars

\* The table of nodes holds exactly the live sinks, each under its own name.
NamesAgree ==
  Quiet => \A n \in NodeNames, k \in Sinks :
             nodes[n] = k <=> Live(k) /\ nodeName[k] = n /\ objName[k] = n

\* A source with block-switch set that has used its first switch stays where
\* it is until block-switch is unset: no change of its listen-to, no restart and
\* no new node of that name ever attaches it to another sink.
BlockedForGood ==
  \A s \in MayBlock, k \in Sinks :
    [](Quiet /\ s \in blocking /\ ~firstSwitch[s] /\ s \notin attached[k] =>
         [](s \notin attached[k]) \/ <>(s \notin blocking))

\* The live sinks, and the one that feeds a source: what the abstract
\* specification of module Feed sees of the registry.
LiveSinks == {k \in Sinks : Live(k)}

FeedOf(s) ==
  IF \E k \in LiveSinks : s \in attached[k]
  THEN CHOOSE k \in LiveSinks : s \in attached[k]
  ELSE NULL

Abstract == INSTANCE Feed WITH up <- LiveSinks, feed <- [s \in Srcs |-> FeedOf(s)]

\* The registry implements Feed: every step of every thread connects or
\* disconnects at most one source, or opens or closes one sink.
ImplementsFeed == Abstract!Spec

\* Every operation comes to its end: the callbacks of a walk may themselves
\* call the core, so a walk under listeners_mutex would wait for itself.
OperationsEnd == \A p \in Procs : op[p] # "idle" ~> op[p] = "idle"

-----------------------------------------------------------------------------
(* The inductive invariant behind OneFeed *)

\* A thread is between lock and unlock exactly when it holds the lock, and an
\* element that runs no operation is nowhere in one.
LockInv ==
  \A p \in Procs :
    /\ pc[p] \in Locked <=> mutex = p
    /\ op[p] = "idle" => pc[p] = "idle"

\* A sink is named as long as it lives, and runs operations only then.
LiveInv ==
  \A k \in Sinks :
    /\ sinkState[k] = "live" <=> nodeName[k] # NULL
    /\ sinkState[k] = "live" => objName[k] # NULL
    /\ op[k] # "idle" => sinkState[k] = "live"

\* What the locals of a call hold at each label.
CallInv ==
  \A p \in Procs :
    /\ pc[p] \in Locked \union {"listen", "leave"} => cur[p] # NULL /\ call[p] # "none"
    /\ Returned(p) => cur[p] # NULL
    /\ pc[p] = "listen" => ~Leaving(p)
    /\ pc[p] = "leave" => Leaving(p)
    /\ pc[p] \in {"lookup", "attach"} => ~Leaving(p)
    /\ pc[p] \in Locked \union {"listen"} /\ ~Leaving(p) => want[p] # NULL
    /\ pc[p] \in {"attach", "priv_drop"} => node[p] # NULL
    /\ pc[p] \in {"priv_get", "priv_drop"} => EntryOf(p) # NULL /\ EntryOf(p).listen_to # NULL

\* Every live sink is in the table of nodes under its name, and nothing else is.
NodesInv ==
  /\ \A k \in Sinks : Live(k) =>
       nodeName[k] # NULL /\ objName[k] = nodeName[k] /\ nodes[nodeName[k]] = k
  /\ \A n \in NodeNames : nodes[n] # NULL => Live(nodes[n]) /\ nodeName[nodes[n]] = n
  /\ \A k \in Sinks : sinkState[k] = "new" => attached[k] = {}
  /\ \A k \in Sinks : op[k] # "unname"
  /\ \A p \in Procs : node[p] # NULL => sinkState[node[p]] # "new"

\* The entry of a source that a live sink feeds names that sink.
EntryInv ==
  \A k \in Sinks : \A s \in attached[k] : Live(k) =>
    /\ listeners[NameOf[s]] # NULL
    /\ listeners[NameOf[s]].listen_to = nodeName[k]

\* From the look-up on, no live sink feeds the source that a thread attaches,
\* and the sink in hand has the wanted name; when a thread is about to take a
\* source out of a sink, that sink is the one that feeds it, if any does.
HandInv ==
  \A p \in Procs : \A k \in Sinks : Live(k) =>
    /\ pc[p] \in {"lookup", "attach"} => cur[p] \notin attached[k]
    /\ pc[p] = "attach" /\ node[p] = k => nodeName[k] = want[p]
    /\ pc[p] = "priv_drop" /\ cur[p] \in attached[k] => node[p] = k

FeedInv == TypeOK /\ LockInv /\ LiveInv /\ CallInv /\ NodesInv /\ EntryInv /\ HandInv
=============================================================================
