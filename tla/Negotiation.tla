----------------------------- MODULE Negotiation -----------------------------
(***************************************************************************)
(* How one interpipesink agrees on caps with its listeners.  The pipeline  *)
(* of the sink asks what it may send (get_caps) and says what it will send *)
(* (set_caps); sources join and leave it meanwhile.                        *)
(*                                                                         *)
(* Caps are sets of formats.  The core's listeners_mutex is held by a join *)
(* or a leave from end to end; the sink's own mutex is held while it asks  *)
(* its listeners, and for single steps elsewhere.  The caps of the appsink *)
(* and the sticky CAPS event of its pad are one variable.                  *)
(***************************************************************************)
EXTENDS Naturals

CONSTANTS
  Srcs,      \* the interpipesrc elements
  Formats,   \* the formats caps are made of
  Accepts,   \* what the pipeline of each source accepts
  Keeps,     \* sources with allow-renegotiation=false
  Filters,   \* what the pipeline of the sink can make, in a query
  NULL

Caps == SUBSET Formats

ASSUME NegotiationAssumption ==
  /\ Accepts \in [Srcs -> Caps]
  /\ Keeps \subseteq Srcs
  /\ Filters \subseteq Caps
  /\ \A x \in Caps : x # NULL
  /\ NULL \notin Srcs /\ NULL \notin Formats

VARIABLES
  listeners,   \* sink->listeners
  negotiated,  \* sink->caps_negotiated
  sinkCaps,    \* the caps of the appsink, and the sticky event of its pad
  srcCaps,     \* the caps of each appsrc
  serve,       \* the query or the CAPS event the sink is at
  core,        \* the join or the leave that holds listeners_mutex
  answer       \* history: what each listener said when it was last asked

vars == <<listeners, negotiated, sinkCaps, srcCaps, serve, core, answer>>

MaybeCaps == Caps \union {NULL}

Serving == [step : {"scan", "check", "evict", "set", "update", "out"},
            format : Formats \union {NULL}, filter : MaybeCaps, todo : SUBSET Srcs]

Calling == [op : {"join", "leave"}, by : {"app", "sink"}, src : Srcs,
            step : {"ask", "count", "decide", "insert", "remove"},
            got : MaybeCaps, sink : MaybeCaps, has : BOOLEAN]

ASSUME NullAssumption == \A x \in Serving \union Calling : x # NULL

TypeOK ==
  /\ listeners \subseteq Srcs
  /\ negotiated \in MaybeCaps
  /\ sinkCaps \in MaybeCaps
  /\ srcCaps \in [Srcs -> MaybeCaps]
  /\ serve \in Serving \union {NULL}
  /\ core \in Calling \union {NULL}
  /\ answer \in [Srcs -> MaybeCaps]
  /\ serve # NULL /\ serve.step \in {"set", "update", "out"} => serve.format # NULL
  /\ core # NULL => (core.op = "leave" <=> core.step = "remove")
  /\ core # NULL /\ core.by = "sink" =>
       core.op = "leave" /\ serve # NULL /\ serve.step = "evict"

Init ==
  /\ listeners = {}
  /\ negotiated = NULL
  /\ sinkCaps = NULL
  /\ srcCaps = [s \in Srcs |-> NULL]
  /\ serve = NULL
  /\ core = NULL
  /\ answer = [s \in Srcs |-> NULL]

-----------------------------------------------------------------------------
(* What a listener says *)

\* gst_inter_pipe_src_get_caps: its own caps if it must keep them, or else what
\* the pad it is linked to accepts.
Offer(s) == IF srcCaps[s] # NULL /\ s \in Keeps THEN srcCaps[s] ELSE Accepts[s]

\* gst_inter_pipe_sink_caps_intersect: no caps at all is no restriction.
Meet(a, b) == IF a = NULL THEN b ELSE IF b = NULL THEN a ELSE a \intersect b

\* gst_inter_pipe_src_set_caps: the caps of s once it was told to use c.
Told(s, c) == IF srcCaps[s] # NULL /\ s \in Keeps THEN srcCaps[s] ELSE c

-----------------------------------------------------------------------------
(* The sink: gst_inter_pipe_sink_get_caps *)

At(step) == serve # NULL /\ serve.step = step
\* The sink's mutex is free.
Free == ~At("scan")

Go(step) == serve' = [serve EXCEPT !.step = step]

\* A query; with no listener it changes nothing and returns the filter.
Query(filter) ==
  /\ serve = NULL /\ listeners # {}
  /\ serve' = [step |-> "scan", format |-> NULL, filter |-> filter, todo |-> listeners]
  /\ UNCHANGED <<listeners, negotiated, sinkCaps, srcCaps, core, answer>>

\* A CAPS event: the base class first asks get_caps whether it will do.
CapsEvent(f) ==
  /\ serve = NULL
  /\ serve' = [step |-> IF listeners = {} THEN "set" ELSE "scan",
               format |-> f, filter |-> NULL, todo |-> listeners]
  /\ UNCHANGED <<listeners, negotiated, sinkCaps, srcCaps, core, answer>>

\* Mutant of AskListener: what the other listeners said is forgotten.
AskListenerAlone(s) ==
  /\ At("scan") /\ s \in serve.todo
  /\ negotiated' = Offer(s)
  /\ answer' = [answer EXCEPT ![s] = Offer(s)]
  /\ serve' = [serve EXCEPT !.todo = @ \ {s}]
  /\ UNCHANGED <<listeners, sinkCaps, srcCaps, core>>

\* gst_inter_pipe_sink_intersect_listener_caps, on top of what was negotiated.
AskListener(s) ==
  /\ At("scan") /\ s \in serve.todo
  /\ negotiated' = Meet(Offer(s), negotiated)
  /\ answer' = [answer EXCEPT ![s] = Offer(s)]
  /\ serve' = [serve EXCEPT !.todo = @ \ {s}]
  /\ UNCHANGED <<listeners, sinkCaps, srcCaps, core>>

\* All listeners were asked: unlock.
Scanned ==
  /\ At("scan") /\ serve.todo = {}
  /\ Go("check")
  /\ UNCHANGED <<listeners, negotiated, sinkCaps, srcCaps, core, answer>>

\* What get_caps would return, from caps_negotiated as it is after the unlock.
Result == Meet(negotiated, serve.filter)
NoIntersection == negotiated = NULL \/ Result = {}

\* A query is answered; an event is refused here, or goes on to set_caps.
Agree ==
  /\ At("check") /\ ~NoIntersection
  /\ IF serve.format \in Result THEN Go("set") ELSE serve' = NULL
  /\ UNCHANGED <<listeners, negotiated, sinkCaps, srcCaps, core, answer>>

\* The caps do not meet: all that listen at this moment will have to leave.
Disagree ==
  /\ At("check") /\ NoIntersection
  /\ serve' = [serve EXCEPT !.step = "evict", !.todo = listeners]
  /\ UNCHANGED <<listeners, negotiated, sinkCaps, srcCaps, core, answer>>

\* The sink calls gst_inter_pipe_leave_node for a listener.
Evict(s) ==
  /\ At("evict") /\ s \in serve.todo
  /\ core = NULL
  /\ core' = [op |-> "leave", by |-> "sink", src |-> s, step |-> "remove",
              got |-> NULL, sink |-> NULL, has |-> FALSE]
  /\ serve' = [serve EXCEPT !.todo = @ \ {s}]
  /\ UNCHANGED <<listeners, negotiated, sinkCaps, srcCaps, answer>>

\* Mutant of Evicted: a query goes on to set_caps as well.
EvictedGoesOn ==
  /\ At("evict") /\ serve.todo = {}
  /\ ~(core # NULL /\ core.by = "sink")
  /\ negotiated' = NULL
  /\ Go("set")
  /\ UNCHANGED <<listeners, sinkCaps, srcCaps, core, answer>>

\* Mutant of Evicted: the sink waits until nobody listens.
EvictedWhenAlone ==
  /\ At("evict") /\ serve.todo = {} /\ listeners = {}
  /\ ~(core # NULL /\ core.by = "sink")
  /\ negotiated' = NULL
  /\ IF serve.format # NULL THEN Go("set") ELSE serve' = NULL
  /\ UNCHANGED <<listeners, sinkCaps, srcCaps, core, answer>>

\* get_caps returns no caps, which the base class takes for any caps.
Evicted ==
  /\ At("evict") /\ serve.todo = {}
  /\ ~(core # NULL /\ core.by = "sink")
  /\ negotiated' = NULL
  /\ IF serve.format # NULL THEN Go("set") ELSE serve' = NULL
  /\ UNCHANGED <<listeners, sinkCaps, srcCaps, core, answer>>

-----------------------------------------------------------------------------
(* The sink: gst_inter_pipe_sink_set_caps *)

\* The number of listeners is read without the mutex.
CountListeners ==
  /\ At("set")
  /\ Go(IF listeners = {} THEN "out" ELSE "update")
  /\ UNCHANGED <<listeners, negotiated, sinkCaps, srcCaps, core, answer>>

\* gst_caps_can_intersect with what was negotiated
Meets == negotiated # NULL /\ serve.format \in negotiated

\* Every listener is told the caps; those that refuse are not heard.
UpdateListeners ==
  /\ At("update")
  /\ Meets
  /\ srcCaps' = [s \in Srcs |-> IF s \in listeners THEN Told(s, {serve.format}) ELSE srcCaps[s]]
  /\ Go("out")
  /\ UNCHANGED <<listeners, negotiated, sinkCaps, core, answer>>

RefuseCaps ==
  /\ At("update")
  /\ ~Meets
  /\ serve' = NULL
  /\ UNCHANGED <<listeners, negotiated, sinkCaps, srcCaps, core, answer>>

KeepCaps ==
  /\ At("out")
  /\ sinkCaps' = {serve.format}
  /\ serve' = NULL
  /\ UNCHANGED <<listeners, negotiated, srcCaps, core, answer>>

-----------------------------------------------------------------------------
(* Sources: gst_inter_pipe_sink_add_listener and _remove_listener, called by *)
(* the core with listeners_mutex held                                        *)

Doing(step) == core # NULL /\ core.step = step
Step(step) == core' = [core EXCEPT !.step = step]

\* The source may be a listener already, when the core has forgotten it because
\* the sink was renamed; add_listener finds out last of all.
Join(s) ==
  /\ core = NULL
  /\ core' = [op |-> "join", by |-> "app", src |-> s, step |-> "ask",
              got |-> NULL, sink |-> NULL, has |-> FALSE]
  /\ UNCHANGED <<listeners, negotiated, sinkCaps, srcCaps, serve, answer>>

\* A source with caps: its offer will be compared with the caps of the sink.
AskJoining ==
  /\ Doing("ask")
  /\ srcCaps[core.src] # NULL
  /\ core' = [core EXCEPT !.got = Offer(core.src), !.sink = sinkCaps,
                          !.step = IF sinkCaps = NULL THEN "insert" ELSE "count"]
  /\ UNCHANGED <<listeners, negotiated, sinkCaps, srcCaps, serve, answer>>

\* A source without caps gets those of the sink, if there are any.
GiveSticky ==
  /\ Doing("ask")
  /\ srcCaps[core.src] = NULL
  /\ srcCaps' = [srcCaps EXCEPT ![core.src] = sinkCaps]
  /\ Step("insert")
  /\ UNCHANGED <<listeners, negotiated, sinkCaps, serve, answer>>

\* The number of listeners, and later caps_negotiated, read without the mutex.
HasListeners ==
  /\ Doing("count")
  /\ core' = [core EXCEPT !.has = listeners # {}, !.step = "decide"]
  /\ UNCHANGED <<listeners, negotiated, sinkCaps, srcCaps, serve, answer>>

Differs == core.got # core.sink
MustReconfigure == negotiated = NULL /\ ~core.has /\ Differs
MustRenegotiate == negotiated # NULL /\ core.has /\ Differs

\* The first listener asks the pipeline of the sink to renegotiate.
Reconfigure ==
  /\ Doing("decide") /\ MustReconfigure
  /\ Step("insert")
  /\ UNCHANGED <<listeners, negotiated, sinkCaps, srcCaps, serve, answer>>

\* A later listener has to take the caps of the sink.
Renegotiate ==
  /\ Doing("decide") /\ MustRenegotiate
  /\ core.got \intersect core.sink # {} /\ core.src \notin Keeps
  /\ srcCaps' = [srcCaps EXCEPT ![core.src] = core.sink]
  /\ Step("insert")
  /\ UNCHANGED <<listeners, negotiated, sinkCaps, serve, answer>>

\* The pipeline of the sink cannot reconfigure, or the listener cannot follow.
JoinFails ==
  /\ Doing("decide")
  /\ \/ MustReconfigure
     \/ MustRenegotiate /\ (core.got \intersect core.sink = {} \/ core.src \in Keeps)
  /\ core' = NULL
  /\ UNCHANGED <<listeners, negotiated, sinkCaps, srcCaps, serve, answer>>

JoinAsItIs ==
  /\ Doing("decide") /\ ~MustReconfigure /\ ~MustRenegotiate
  /\ Step("insert")
  /\ UNCHANGED <<listeners, negotiated, sinkCaps, srcCaps, serve, answer>>

\* A new listener enters the table, where it was not asked yet; one that is
\* registered already stays as it is.
Insert ==
  /\ Doing("insert") /\ Free
  /\ listeners' = listeners \union {core.src}
  /\ core' = NULL
  /\ answer' = IF core.src \in listeners THEN answer ELSE [answer EXCEPT ![core.src] = NULL]
  /\ UNCHANGED <<negotiated, sinkCaps, srcCaps, serve>>

\* leave_node may come after an eviction, when the source is no listener any more.
Leave(s) ==
  /\ core = NULL
  /\ core' = [op |-> "leave", by |-> "app", src |-> s, step |-> "remove",
              got |-> NULL, sink |-> NULL, has |-> FALSE]
  /\ UNCHANGED <<listeners, negotiated, sinkCaps, srcCaps, serve, answer>>

\* Mutant of Remove: what was negotiated outlives the last listener.
RemoveOnly ==
  /\ Doing("remove") /\ Free
  /\ listeners' = listeners \ {core.src}
  /\ core' = NULL
  /\ answer' = [answer EXCEPT ![core.src] = NULL]
  /\ UNCHANGED <<negotiated, sinkCaps, srcCaps, serve>>

\* The last listener that leaves takes what was negotiated with it.
Remove ==
  /\ Doing("remove") /\ Free
  /\ listeners' = listeners \ {core.src}
  /\ negotiated' = IF core.src \in listeners /\ listeners' = {} THEN NULL ELSE negotiated
  /\ core' = NULL
  /\ answer' = [answer EXCEPT ![core.src] = NULL]
  /\ UNCHANGED <<sinkCaps, srcCaps, serve>>

\* A source gets caps it accepts from another sink, where it may listen also
\* when a rename left it in this one.
Elsewhere(s, f) ==
  /\ core = NULL /\ f \in Accepts[s]
  /\ srcCaps' = [srcCaps EXCEPT ![s] = Told(s, {f})]
  /\ UNCHANGED <<listeners, negotiated, sinkCaps, serve, core, answer>>

-----------------------------------------------------------------------------
GetCaps ==
  \/ \E s \in Srcs : AskListener(s) \/ Evict(s)
  \/ Scanned \/ Agree \/ Disagree \/ Evicted

SetCaps == CountListeners \/ UpdateListeners \/ RefuseCaps \/ KeepCaps

Serve == GetCaps \/ SetCaps

AddListener ==
  \/ AskJoining \/ GiveSticky \/ HasListeners
  \/ Reconfigure \/ Renegotiate \/ JoinFails \/ JoinAsItIs \/ Insert

Call == AddListener \/ Remove

Next ==
  \/ \E filter \in Filters \union {NULL} : Query(filter)
  \/ \E f \in Formats : CapsEvent(f) \/ \E s \in Srcs : Elsewhere(s, f)
  \/ \E s \in Srcs : Join(s) \/ Leave(s)
  \/ Serve \/ Call

\* A thread in a call runs on, and gets a mutex that is free again and again.
Fairness == SF_vars(Serve) /\ SF_vars(Call)

Spec == Init /\ [][Next]_vars /\ Fairness

-----------------------------------------------------------------------------
(* Properties *)

\* What was negotiated is the affair of the listeners: it is gone with them, so
\* that the next listener starts anew.
NegotiatedByListeners == listeners = {} => negotiated = NULL

\* set_caps never tells a listener that was asked caps it did not offer then,
\* whoever joined or left, and whatever was renegotiated, in between.
ToldWhatItOffered ==
  [][\A s \in Srcs :
       At("update") /\ serve' # serve
       /\ s \in listeners /\ answer[s] # NULL /\ srcCaps'[s] # srcCaps[s] =>
         srcCaps'[s] \subseteq answer[s]]_vars

\* No call hangs: neither the sink in a query or an event nor a join or a leave,
\* though each of the two mutexes is taken by both sides.
CallsEnd == (serve # NULL ~> serve = NULL) /\ (core # NULL ~> core = NULL)

\* "Find the intersection of all the listeners" (gstinterpipesink.c:431): once
\* the listeners were asked, what is negotiated is what all of them offer.  It is
\* less: listeners that have left still count.
IntersectionOfListeners ==
  At("scan") /\ serve.todo = {} =>
    negotiated = {f \in Formats : \A s \in listeners : f \in answer[s]}
=============================================================================
