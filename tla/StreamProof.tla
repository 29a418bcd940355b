---------------------------- MODULE StreamProof ----------------------------
(***************************************************************************)
(* For any number of sources and sinks, any media and any options: the     *)
(* types of Stream; that a source is fed only by the node it is attached   *)
(* to; that what it sends is in order and complete; that the stamps of a   *)
(* buffer denote the instant it was rendered, in pipelines that can keep   *)
(* it (KeepsTime); and that an event leaves at most one buffer early, if   *)
(* the stamps tell its place (KeepsPlace).                                 *)
(***************************************************************************)
EXTENDS Stream, TimestampsProof, FiniteSetTheorems

\* The walk of a sink only has listeners in front of it, since none can leave
\* while it holds the mutex; and it hands out a buffer of its own.
NoStaleWalk ==
  \A k \in Sinks : walk[k] # NULL =>
    /\ walk[k].todo \subseteq Listeners(k)
    /\ walk[k].msg.node = k
    /\ IsBuffer(walk[k].msg) => walk[k].msg \in Renderings /\ walk[k].msg.n \in DOMAIN stamp[k]
    /\ IsEvent(walk[k].msg) => walk[k].msg \in Sightings

IInv == TypeOK /\ NoStaleWalk

USE WidthAssumption, StreamAssumption, NullAssumption

LEMMA BaseTyped == ASSUME TypeOK, NEW k \in Sinks PROVE BaseOf(k) \in Stamps
BY DEF BaseOf, Stamps

LEMMA MomentTyped == ASSUME TypeOK, NEW k \in Sinks PROVE Moment(k) \in Nat
BY DEF Moment, TypeOK

LEMMA NextMomentTyped == ASSUME TypeOK' PROVE \A k \in Sinks : Moment(k)' \in Nat
<1>1. sent' \in [Sinks -> Nat] /\ events' \in [Sinks -> Nat]
  BY DEF TypeOK
<1> QED BY <1>1 DEF Moment

LEMMA AppendTyped ==
  ASSUME NEW S, NEW q \in Seq(S), NEW x \in S
  PROVE  Append(q, x) \in Seq(S) /\ Append(q, x) # <<>>
<1>1. Append(q, x) \in Seq(S) /\ Len(Append(q, x)) = Len(q) + 1
  OBVIOUS
<1> QED BY <1>1

LEMMA InitInv == Init => IInv
<1> SUFFICES ASSUME Init PROVE IInv
  OBVIOUS
<1>1. PICK scene \in Scenes : Opening(scene)
  BY DEF Init
<1>2. phase \in [Sinks -> {"off", "fresh", "prerolled", "live", "done"}]
  BY <1>1 DEF Opening
<1>3. state \in [Srcs -> {"off", "null"} \union Up]
  BY <1>1 DEF Opening, Up
<1>4. on \in [Srcs -> Sinks \union {NULL}] /\ base \in [Srcs -> Stamps]
  BY <1>1 DEF Opening
<1>5. stamp \in [Sinks -> Seq(Pairs)]
  BY DEF Init, Pairs
<1>6. TypeOK
  BY <1>2, <1>3, <1>4, <1>5 DEF Init, TypeOK, Stamps
<1> QED BY <1>6 DEF IInv, Init, NoStaleWalk

-----------------------------------------------------------------------------
(* The sinks *)

LEMMA ProcessSampleInv ==
  ASSUME IInv, NEW k \in Sinks, NEW n \in DOMAIN stamp[k], ProcessSample(k, n),
         UNCHANGED <<on, stamp>>
  PROVE  /\ last' \in [Sinks -> Stamps]
         /\ walk' \in [Sinks -> Walks \union {NULL}]
         /\ NoStaleWalk'
<1> DEFINE m == [kind |-> "buffer", node |-> k, n |-> n, at |-> Moment(k), base |-> BaseOf(k)]
<1>1. stamp[k][n] \in Pairs /\ n \in Nat
  BY DEF IInv, TypeOK
<1>2. m \in Renderings /\ IsBuffer(m) /\ ~IsEvent(m)
  BY <1>1, BaseTyped, MomentTyped DEF IInv, Renderings, IsBuffer, IsEvent
<1>3. walk' = [walk EXCEPT ![k] = [msg |-> m, todo |-> Listeners(k)]]
  BY DEF ProcessSample, HandOut
<1>4. [msg |-> m, todo |-> Listeners(k)] \in Walks
  BY <1>2 DEF Walks, Listeners
<1> HIDE DEF m
<1>5. walk' \in [Sinks -> Walks \union {NULL}]
  BY <1>3, <1>4 DEF IInv, TypeOK
<1>6. m.node = k /\ m.n = n
  BY DEF m
<1>7. NoStaleWalk'
  BY <1>2, <1>3, <1>6 DEF IInv, TypeOK, NoStaleWalk, Listeners
<1>8. last' \in [Sinks -> Stamps]
  BY <1>1 DEF IInv, TypeOK, ProcessSample, Pairs
<1> QED BY <1>5, <1>7, <1>8

LEMMA SinkStepInv ==
  ASSUME IInv, NEW k \in Sinks,
         phase' \in [Sinks -> {"off", "fresh", "prerolled", "live", "done"}],
         sent' \in [Sinks -> Nat], \A j \in Sinks : sent'[j] <= Len(Media[j]),
         events' \in [Sinks -> Nat],
         last' \in [Sinks -> Stamps],
         walk' \in [Sinks -> Walks \union {NULL}],
         NoStaleWalk',
         UNCHANGED <<stamp, srcVars, queue, eos, eventVars, threadVars, out>>
  PROVE  IInv'
BY DEF IInv, TypeOK, srcVars, eventVars, threadVars

LEMMA NewPrerollInv == ASSUME IInv, NEW k \in Sinks, NewPreroll(k) PROVE IInv'
<1>1. 1 \in DOMAIN stamp[k]
  BY DEF IInv, TypeOK, NewPreroll
<1>2. ProcessSample(k, 1) /\ UNCHANGED <<on, stamp>>
  BY DEF NewPreroll, srcVars
<1>3. phase' \in [Sinks -> {"off", "fresh", "prerolled", "live", "done"}]
  BY DEF IInv, TypeOK, NewPreroll
<1> QED BY <1>1, <1>2, <1>3, ProcessSampleInv, SinkStepInv DEF IInv, TypeOK, NewPreroll

LEMMA NewBufferInv == ASSUME IInv, NEW k \in Sinks, NewBuffer(k) PROVE IInv'
<1>1. sent[k] + 1 \in DOMAIN stamp[k]
  BY DEF IInv, TypeOK, NewBuffer
<1>2. ProcessSample(k, sent[k] + 1) /\ UNCHANGED <<on, stamp>>
  BY DEF NewBuffer, srcVars
<1>3. sent' \in [Sinks -> Nat] /\ \A j \in Sinks : sent'[j] <= Len(Media[j])
  BY DEF IInv, TypeOK, NewBuffer
<1> QED BY <1>1, <1>2, <1>3, ProcessSampleInv, SinkStepInv DEF IInv, TypeOK, NewBuffer

LEMMA GoLiveInv == ASSUME IInv, NEW k \in Sinks, GoLive(k) PROVE IInv'
<1>1. phase' \in [Sinks -> {"off", "fresh", "prerolled", "live", "done"}]
  BY DEF IInv, TypeOK, GoLive
<1>2. NoStaleWalk'
  BY DEF IInv, NoStaleWalk, Listeners, GoLive, srcVars
<1> QED BY <1>1, <1>2, SinkStepInv DEF IInv, TypeOK, GoLive

\* A message of k that is no buffer begins its walk.
LEMMA HandOutInv ==
  ASSUME IInv, NEW k \in Sinks, NEW m \in Sightings \union Ends, m.node = k,
         HandOut(k, m), UNCHANGED <<on, stamp>>
  PROVE  walk' \in [Sinks -> Walks \union {NULL}] /\ NoStaleWalk'
<1>1. [msg |-> m, todo |-> Listeners(k)] \in Walks
  BY DEF Walks, Listeners
<1>2. ~IsBuffer(m) /\ (IsEvent(m) => m \in Sightings)
  BY DEF IsBuffer, IsEvent, Sightings, Ends
<1>3. walk' \in [Sinks -> Walks \union {NULL}]
  BY <1>1 DEF HandOut, IInv, TypeOK
<1>4. NoStaleWalk'
  BY <1>2 DEF HandOut, IInv, TypeOK, NoStaleWalk, Listeners
<1> QED BY <1>3, <1>4

LEMMA SinkEventInv ==
  ASSUME IInv, NEW k \in Sinks, NEW kind \in {"serialized", "oob"}, SinkEvent(k, kind)
  PROVE  IInv'
<1> DEFINE m == [kind |-> "event", node |-> k, at |-> Moment(k), base |-> BaseOf(k),
                 serial |-> kind = "serialized",
                 ts |-> IF kind = "serialized" THEN last[k] ELSE 0]
<1>1. (IF kind = "serialized" THEN last[k] ELSE 0) \in Stamps
  BY DEF IInv, TypeOK, Stamps
<1>2. m \in Sightings /\ m.node = k
  BY <1>1, BaseTyped, MomentTyped DEF IInv, Sightings
<1>3. HandOut(k, m) /\ UNCHANGED <<on, stamp>>
  BY DEF SinkEvent, srcVars
<1> HIDE DEF m
<1>4. events' \in [Sinks -> Nat]
  BY DEF IInv, TypeOK, SinkEvent
<1> QED BY <1>2, <1>3, <1>4, HandOutInv, SinkStepInv DEF IInv, TypeOK, SinkEvent

LEMMA SinkEosInv == ASSUME IInv, NEW k \in Sinks, SinkEos(k) PROVE IInv'
<1>1. phase' \in [Sinks -> {"off", "fresh", "prerolled", "live", "done"}]
  BY DEF IInv, TypeOK, SinkEos
<1>2. UNCHANGED <<on, stamp>>
  BY DEF SinkEos, srcVars
<1>3. walk' \in [Sinks -> Walks \union {NULL}] /\ NoStaleWalk'
  <2>1. CASE k \in ForwardsEos
    <3>1. [kind |-> "eos", node |-> k] \in Ends
      BY DEF Ends
    <3> QED BY <1>2, <2>1, <3>1, HandOutInv DEF SinkEos
  <2>2. CASE k \notin ForwardsEos
    BY <1>2, <2>2 DEF SinkEos, IInv, TypeOK, NoStaleWalk, Listeners
  <2> QED BY <2>1, <2>2
<1> QED BY <1>1, <1>3, SinkStepInv DEF IInv, TypeOK, SinkEos

LEMMA UnlockInv == ASSUME IInv, NEW k \in Sinks, Unlock(k) PROVE IInv'
<1>1. walk' \in [Sinks -> Walks \union {NULL}]
  BY DEF IInv, TypeOK, Unlock
<1>2. NoStaleWalk'
  BY DEF IInv, TypeOK, NoStaleWalk, Listeners, Unlock, srcVars
<1> QED BY <1>1, <1>2, SinkStepInv DEF IInv, TypeOK, Unlock, sinkVars

-----------------------------------------------------------------------------
(* A delivery *)

LEMMA PushBufferInv ==
  ASSUME IInv, NEW s \in Srcs, NEW m \in Renderings, m.n \in DOMAIN stamp[m.node],
         PushBuffer(s, m)
  PROVE  /\ queue' \in [Srcs -> Seq(Cells)]
         /\ stamp' \in [Sinks -> Seq(Pairs)]
         /\ \A k \in Sinks : Len(stamp'[k]) = Len(stamp[k])
<1>1. m.node \in Sinks /\ m.n \in Nat /\ m.at \in Nat /\ m.base \in Stamps
  BY DEF Renderings
<1>2. stamp[m.node][m.n] \in Pairs /\ base[s] \in Stamps
  BY <1>1 DEF IInv, TypeOK
<1>3. Compensated(stamp[m.node][m.n], m.base, base[s]) \in Pairs
  BY <1>1, <1>2, CompensatedTyped DEF Pairs
<1>4. Restarted \in Pairs
  BY DEF Restarted, Pairs, NONE, Stamps
<1>5. \A own \in Pairs \union {NULL} : Item(m, own) \in Cells
  BY <1>1 DEF Item, Cells
<1>6. queue' \in [Srcs -> Seq(Cells)]
  <2>1. queue \in [Srcs -> Seq(Cells)]
    BY DEF IInv, TypeOK
  <2>2. ASSUME NEW x \in Cells, AppsrcPush(s, x) PROVE queue' \in [Srcs -> Seq(Cells)]
    BY <2>1, <2>2 DEF AppsrcPush
  <2>3. CASE UNCHANGED queue
    BY <2>1, <2>3
  <2> QED BY <1>3, <1>5, <2>2, <2>3 DEF PushBuffer
<1>7. /\ stamp' \in [Sinks -> Seq(Pairs)]
      /\ \A k \in Sinks : Len(stamp'[k]) = Len(stamp[k])
  <2>1. stamp \in [Sinks -> Seq(Pairs)]
    BY DEF IInv, TypeOK
  <2>2. CASE stamp' = [stamp EXCEPT ![m.node][m.n] = Restarted]
    <3>1. [stamp[m.node] EXCEPT ![m.n] = Restarted] \in Seq(Pairs)
          /\ Len([stamp[m.node] EXCEPT ![m.n] = Restarted]) = Len(stamp[m.node])
      BY <1>1, <1>4, <2>1
    <3> QED BY <1>1, <2>1, <2>2, <3>1
  <2>3. CASE UNCHANGED stamp
    BY <2>1, <2>3
  <2> QED BY <2>2, <2>3 DEF PushBuffer
<1> QED BY <1>6, <1>7

LEMMA PushEventInv ==
  ASSUME IInv, NEW s \in Srcs, NEW m \in Sightings, PushEvent(s, m)
  PROVE  /\ pending' \in [Srcs -> Seq(Happenings)]
         /\ severed' \subseteq Srcs
         /\ \A r \in Srcs : pending[r] # <<>> => pending'[r] # <<>>
         /\ out' \in [Srcs -> Seq(Cells \union Happenings)]
<1>0. /\ m.ts \in Stamps /\ m.base \in Stamps /\ base[s] \in Stamps
      /\ m.node \in Sinks /\ m.at \in Nat /\ m.serial \in BOOLEAN
  BY DEF IInv, TypeOK, Sightings
<1>1. Shift(m.ts, m.base, base[s]) \in Stamps
  BY <1>0, ShiftTyped
<1>2. 0 \in Stamps
  BY DEF Stamps
<1> DEFINE x == Happening(m, s)
<1> HIDE DEF x
<1>3. x \in Happenings
  BY <1>0, <1>1, <1>2 DEF x, Happening, Happenings
<1>4. pending \in [Srcs -> Seq(Happenings)] /\ out \in [Srcs -> Seq(Cells \union Happenings)]
      /\ severed \subseteq Srcs
  BY DEF IInv, TypeOK
<1>5. CASE PushTail(s, x) /\ UNCHANGED out
  <2>1. CASE pending' = [pending EXCEPT ![s] = IF s \in severed THEN @ ELSE Append(@, x)]
             /\ UNCHANGED severed
    <3>1. pending[s] \in Seq(Happenings)
      BY <1>4
    <3>2. Append(pending[s], x) \in Seq(Happenings) /\ Append(pending[s], x) # <<>>
      BY <1>3, <3>1, AppendTyped
    <3> QED BY <1>4, <1>5, <2>1, <3>2
  <2>2. CASE UNCHANGED pending /\ severed' \in {severed, severed \union {s}}
    BY <1>4, <1>5, <2>2
  <2> QED BY <1>5, <2>1, <2>2 DEF PushTail
<1>6. CASE out' = [out EXCEPT ![s] = Append(@, x)] /\ UNCHANGED eventVars
  BY <1>3, <1>4, <1>6 DEF eventVars
<1>7. CASE UNCHANGED <<eventVars, out>>
  BY <1>4, <1>7 DEF eventVars
<1> QED BY <1>5, <1>6, <1>7 DEF PushEvent, x

\* Nobody leaves or joins in a delivery, and walks only get shorter.
LEMMA DeliverWalk ==
  ASSUME IInv, NEW k \in Sinks, NEW s \in Srcs, Deliver(k, s),
         \A j \in Sinks : Len(stamp'[j]) = Len(stamp[j]),
         stamp' \in [Sinks -> Seq(Pairs)]
  PROVE  walk' \in [Sinks -> Walks \union {NULL}] /\ NoStaleWalk'
<1>1. walk[k] \in Walks /\ UNCHANGED on
  BY DEF IInv, TypeOK, Deliver, srcVars
<1>2. /\ [walk[k] EXCEPT !.todo = @ \ {s}] \in Walks
      /\ [walk[k] EXCEPT !.todo = @ \ {s}].msg = walk[k].msg
      /\ [walk[k] EXCEPT !.todo = @ \ {s}].todo \subseteq walk[k].todo
  BY <1>1 DEF Walks
<1>3. walk' = [walk EXCEPT ![k] = [walk[k] EXCEPT !.todo = @ \ {s}]]
  BY DEF Deliver, IInv, TypeOK
<1>4. \A j \in Sinks : DOMAIN stamp'[j] = DOMAIN stamp[j]
  BY DEF IInv, TypeOK
<1> QED BY <1>1, <1>2, <1>3, <1>4 DEF IInv, TypeOK, NoStaleWalk, Listeners

LEMMA DeliverInv ==
  ASSUME IInv, NEW k \in Sinks, NEW s \in Srcs, Deliver(k, s) PROVE IInv'
<1> DEFINE m == walk[k].msg
<1>1. walk[k] # NULL /\ s \in Listeners(k) /\ m.node = k
  BY DEF IInv, NoStaleWalk, Deliver
<1>2. stamp \in [Sinks -> Seq(Pairs)]
  BY DEF IInv, TypeOK
<1>3. CASE m.kind = "buffer" /\ PushBuffer(s, m) /\ UNCHANGED <<eos, eventVars, out>>
  <2>1. m \in Renderings /\ m.n \in DOMAIN stamp[m.node]
    BY <1>1, <1>3 DEF IInv, NoStaleWalk, IsBuffer
  <2>2. /\ queue' \in [Srcs -> Seq(Cells)]
        /\ stamp' \in [Sinks -> Seq(Pairs)]
        /\ \A j \in Sinks : Len(stamp'[j]) = Len(stamp[j])
    BY <1>3, <2>1, PushBufferInv
  <2>3. walk' \in [Sinks -> Walks \union {NULL}] /\ NoStaleWalk'
    BY <2>2, DeliverWalk
  <2> QED BY <1>3, <2>2, <2>3 DEF IInv, TypeOK, Deliver, sinkVars, srcVars, threadVars, eventVars
<1>4. CASE m.kind = "event" /\ PushEvent(s, m) /\ UNCHANGED <<stamp, queue, eos>>
  <2>1. m \in Sightings
    BY <1>1, <1>4 DEF IInv, NoStaleWalk, IsEvent
  <2>2. /\ pending' \in [Srcs -> Seq(Happenings)]
        /\ severed' \subseteq Srcs
        /\ \A r \in Srcs : pending[r] # <<>> => pending'[r] # <<>>
        /\ out' \in [Srcs -> Seq(Cells \union Happenings)]
    BY <1>4, <2>1, PushEventInv
  <2>3. walk' \in [Sinks -> Walks \union {NULL}] /\ NoStaleWalk'
    BY <1>2, <1>4, DeliverWalk
  <2> QED BY <1>4, <2>2, <2>3 DEF IInv, TypeOK, Deliver, sinkVars, srcVars, threadVars
<1>5. CASE m.kind = "eos" /\ SendEos(s) /\ UNCHANGED <<stamp, queue, eventVars, out>>
  <2>1. walk' \in [Sinks -> Walks \union {NULL}] /\ NoStaleWalk'
    BY <1>2, <1>5, DeliverWalk
  <2>2. eos' \in [Srcs -> BOOLEAN]
    BY <1>5 DEF IInv, TypeOK, SendEos
  <2> QED BY <1>5, <2>1, <2>2 DEF IInv, TypeOK, Deliver, sinkVars, srcVars, threadVars, eventVars
<1> QED BY <1>3, <1>4, <1>5 DEF Deliver

-----------------------------------------------------------------------------
(* The sources *)

\* A source that joins or leaves a sink finds its mutex free.
LEMMA NodeChangeWalk ==
  ASSUME IInv, NEW s \in Srcs, NEW j \in Sinks \union {NULL}, on[s] # NULL => walk[on[s]] = NULL,
         on' = [on EXCEPT ![s] = j], UNCHANGED <<stamp, walk>>
  PROVE  NoStaleWalk'
<1> SUFFICES ASSUME NEW k \in Sinks, walk[k] # NULL
             PROVE  walk[k].todo \subseteq Listeners(k)'
  BY DEF IInv, NoStaleWalk
<1>1. NULL \notin Sinks /\ on[s] # k
  BY DEF IInv, TypeOK
<1>2. Listeners(k) \subseteq Listeners(k)'
  BY <1>1 DEF Listeners, IInv, TypeOK
<1> QED BY <1>2 DEF IInv, NoStaleWalk

LEMMA JoinInv ==
  ASSUME IInv, NEW k \in Sinks, NEW s \in Srcs, Join(s, k) PROVE IInv'
<1>1. on' \in [Srcs -> Sinks \union {NULL}] /\ since' \in [Srcs -> Nat]
  BY DEF IInv, TypeOK, Join
<1>2. NoStaleWalk'
  BY NodeChangeWalk DEF Join
<1> QED BY <1>1, <1>2 DEF IInv, TypeOK, Join, sinkVars, eventVars, threadVars

LEMMA LeaveInv ==
  ASSUME IInv, NEW s \in Srcs, Leave(s) PROVE IInv'
<1>1. on' \in [Srcs -> Sinks \union {NULL}]
  BY DEF IInv, TypeOK, Leave
<1>2. NoStaleWalk'
  BY NodeChangeWalk DEF Leave
<1> QED BY <1>1, <1>2 DEF IInv, TypeOK, Leave, sinkVars, eventVars, threadVars

LEMMA StopInv ==
  ASSUME IInv, NEW s \in Srcs, Stop(s) PROVE IInv'
<1>1. /\ on' \in [Srcs -> Sinks \union {NULL}]
      /\ state' \in [Srcs -> {"off", "null"} \union Up]
      /\ queue' \in [Srcs -> Seq(Cells)]
      /\ eos' \in [Srcs -> BOOLEAN]
      /\ stage' \in [Srcs -> {"idle", "check", "popping", "ended"}]
  BY DEF IInv, TypeOK, Stop
<1>2. \A r \in Srcs : /\ hand'[r] # NULL <=> stage'[r] \in {"check", "popping"}
                      /\ stage'[r] = "popping" => pending'[r] # <<>>
  BY DEF IInv, TypeOK, Stop, eventVars
<1>3. NoStaleWalk'
  BY NodeChangeWalk DEF Stop
<1> QED BY <1>1, <1>2, <1>3 DEF IInv, TypeOK, Stop, sinkVars, eventVars

\* The other changes of state.
LEMMA StateInv ==
  ASSUME IInv, NEW s \in Srcs, Start(s) \/ Commit(s) \/ Play(s) \/ Pause(s) PROVE IInv'
<1>1. state' \in [Srcs -> {"off", "null"} \union Up]
  <2>1. state \in [Srcs -> {"off", "null"} \union Up]
    BY DEF IInv, TypeOK
  <2>2. \E x \in Up : state' = [state EXCEPT ![s] = x]
    BY DEF Start, Commit, Play, Pause, Up
  <2> QED BY <2>1, <2>2
<1>2. out' \in [Srcs -> Seq(Cells \union Happenings)]
  <2> DEFINE Outputs == Seq(Cells \union Happenings)
  <2>1. out \in [Srcs -> Outputs] /\ <<>> \in Outputs
    BY DEF IInv, TypeOK
  <2>2. UNCHANGED out \/ out' = [out EXCEPT ![s] = <<>>]
    BY DEF Start, Commit, Play, Pause
  <2> HIDE DEF Outputs
  <2>3. out' \in [Srcs -> Outputs]
    BY <2>1, <2>2
  <2> QED BY <2>3 DEF Outputs
<1>3. base' \in [Srcs -> Stamps]
  <2>1. base \in [Srcs -> Stamps] /\ Bases[s] \subseteq Stamps
    BY DEF IInv, TypeOK
  <2>2. UNCHANGED base \/ \E b \in Bases[s] : base' = [base EXCEPT ![s] = b]
    BY DEF Start, Commit, Play, Pause
  <2> QED BY <2>1, <2>2
<1>4. since' \in [Srcs -> Nat]
  BY DEF IInv, TypeOK, Start, Commit, Play, Pause
<1>5. UNCHANGED <<sinkVars, stamp, walk, on, queue, eos, eventVars, threadVars>>
  BY DEF Start, Commit, Play, Pause
<1>6. NoStaleWalk'
  BY <1>5 DEF IInv, NoStaleWalk, Listeners
<1> QED BY <1>1, <1>2, <1>3, <1>4, <1>5, <1>6
    DEF IInv, TypeOK, sinkVars, eventVars, threadVars

LEMMA CreateInv == ASSUME IInv, NEW s \in Srcs, Create(s) PROVE IInv'
<1>0. UNCHANGED <<sinkVars, stamp, walk, srcVars, eos, severed>>
  BY DEF Create, Pop, SendBuffer, FindDue, SendEvent, EosOut, eventVars
<1>1. NoStaleWalk'
  BY <1>0 DEF IInv, NoStaleWalk, Listeners, srcVars
<1>2. CASE Pop(s)
  <2>1. Head(queue[s]) \in Cells /\ Tail(queue[s]) \in Seq(Cells)
    BY <1>2 DEF IInv, TypeOK, Pop
  <2> QED BY <1>0, <1>1, <1>2, <2>1 DEF IInv, TypeOK, Pop, sinkVars, srcVars, eventVars
<1>3. CASE SendBuffer(s)
  <2>1. hand[s] \in Cells
    BY <1>3 DEF IInv, TypeOK, SendBuffer
  <2>2. out' \in [Srcs -> Seq(Cells \union Happenings)]
    BY <1>3, <2>1 DEF IInv, TypeOK, SendBuffer, Emit
  <2> QED BY <1>0, <1>1, <1>3, <2>2 DEF IInv, TypeOK, SendBuffer, sinkVars, srcVars, eventVars
<1>4. CASE FindDue(s)
  <2>1. pending[s] # <<>>
    BY <1>4 DEF FindDue, Due, Waiting
  <2> QED BY <1>0, <1>1, <1>4, <2>1 DEF IInv, TypeOK, FindDue, sinkVars, srcVars, eventVars
<1>5. CASE SendEvent(s)
  <2>1. /\ hand[s] \in Cells
        /\ pending[s] \in Seq(Happenings) /\ pending[s] # <<>>
    BY <1>5 DEF IInv, TypeOK, SendEvent
  <2>2. Head(pending[s]) \in Happenings /\ Tail(pending[s]) \in Seq(Happenings)
    BY <2>1
  <2>3. out' \in [Srcs -> Seq(Cells \union Happenings)]
    BY <1>5, <2>1, <2>2 DEF IInv, TypeOK, SendEvent, Emit
  <2> QED BY <1>0, <1>1, <1>5, <2>2, <2>3 DEF IInv, TypeOK, SendEvent, sinkVars, srcVars
<1>6. CASE EosOut(s)
  BY <1>0, <1>1, <1>6 DEF IInv, TypeOK, EosOut, sinkVars, srcVars, eventVars
<1> QED BY <1>2, <1>3, <1>4, <1>5, <1>6 DEF Create

-----------------------------------------------------------------------------
LEMMA NextInv == ASSUME IInv, [Next]_vars PROVE IInv'
<1>1. CASE UNCHANGED vars
  BY <1>1 DEF vars, sinkVars, srcVars, eventVars, threadVars, IInv, TypeOK, NoStaleWalk, Listeners
<1>2. CASE Next
  BY <1>2, NewPrerollInv, NewBufferInv, GoLiveInv, SinkEventInv, SinkEosInv, UnlockInv, DeliverInv,
     JoinInv, LeaveInv, StopInv, StateInv, CreateInv
     DEF Next, Control, Render, HandingOut
<1> QED BY <1>1, <1>2

THEOREM Invariance == Spec => []IInv
BY InitInv, NextInv, PTL DEF Spec

\* Types, and where create may stand with which buffer and which event at hand.
THEOREM TypesKept == Spec => []TypeOK
BY Invariance, PTL DEF IInv

\* A buffer gets into the queue of a source only from the node the source is
\* attached to at that moment, since no walk outlives the listeners it is for.
THEOREM FedByItsNode == Spec => FedWhileAttached
<1>1. ASSUME IInv, [Next]_vars
      PROVE  [\A s \in Srcs : Len(queue'[s]) > Len(queue[s]) =>
                queue'[s][Len(queue'[s])].node = on[s]]_vars
  <2> SUFFICES ASSUME Next, NEW s \in Srcs, Len(queue'[s]) > Len(queue[s])
               PROVE  queue'[s][Len(queue'[s])].node = on[s]
    BY <1>1
  <2>0. queue \in [Srcs -> Seq(Cells)] /\ queue[s] \in Seq(Cells)
    BY <1>1 DEF IInv, TypeOK
  <2>1. ASSUME NEW k \in Sinks, NEW r \in Srcs, Deliver(k, r)
        PROVE  queue'[s][Len(queue'[s])].node = on[s]
    <3> DEFINE m == walk[k].msg
    <3>1. m.node = k /\ on[r] = k
      BY <1>1, <2>1 DEF IInv, NoStaleWalk, Deliver, Listeners
    <3>2. PICK own : queue' = [queue EXCEPT ![r] = Append(@, Item(m, own))]
      <4>1. UNCHANGED queue \/ PushBuffer(r, m)
        BY <2>1 DEF Deliver
      <4>2. queue' # queue
        OBVIOUS
      <4> QED BY <4>1, <4>2 DEF PushBuffer, AppsrcPush
    <3>3. r = s
      BY <2>0, <3>2
    <3>4. queue'[s] = Append(queue[s], Item(m, own))
      BY <2>0, <3>2, <3>3
    <3>5. queue'[s][Len(queue'[s])] = Item(m, own)
      BY <2>0, <3>4
    <3> QED BY <3>1, <3>3, <3>5 DEF Item
  <2>2. CASE \E r \in Srcs : Pop(r)
    <3>1. PICK r \in Srcs : Pop(r)
      BY <2>2
    <3>2. Len(Tail(queue[r])) < Len(queue[r])
      BY <1>1, <3>1 DEF IInv, TypeOK, Pop
    <3> QED BY <2>0, <3>1, <3>2 DEF Pop
  <2>3. CASE \E r \in Srcs : Stop(r)
    BY <2>0, <2>3 DEF Stop
  <2>4. CASE UNCHANGED queue
    BY <2>4
  <2> QED BY <2>1, <2>2, <2>3, <2>4 DEF Next, Create, Control, Render, HandingOut, NewPreroll,
             NewBuffer, GoLive, SinkEos, SinkEvent, Unlock, Start, Commit, Play, Pause, Leave, Join,
             SendBuffer, FindDue, SendEvent, EosOut
<1> QED BY <1>1, Invariance, PTL DEF Spec, FedWhileAttached

\* As long as no listener restarts stamps, the stamps in the buffers all listeners
\* share are those the node rendered: compensate-ts only changes copies.
THEOREM SharedStampsKept ==
  ASSUME \A s \in Srcs : Mode[s] # "restart"
  PROVE  Spec => [](stamp = Media)
<1>1. Init => stamp = Media
  BY DEF Init
<1>2. stamp = Media /\ [Next]_vars => (stamp = Media)'
  <2> SUFFICES ASSUME [Next]_vars PROVE UNCHANGED stamp
    OBVIOUS
  <2>1. ASSUME NEW k \in Sinks, NEW s \in Srcs, Deliver(k, s) PROVE UNCHANGED stamp
    BY <2>1 DEF Deliver, PushBuffer
  <2> QED BY <2>1 DEF Next, vars, Create, Control, Render, HandingOut, NewPreroll, NewBuffer,
       GoLive, SinkEos, SinkEvent, Unlock, Start, Commit, Play, Pause, Stop, Leave, Join, Pop,
       SendBuffer, FindDue, SendEvent, EosOut
<1> QED BY <1>1, <1>2, PTL DEF Spec
-----------------------------------------------------------------------------
(* Sequences: their items, and whether they are in sequence *)

\* Every item of xs is ahead of every item of ys.
Before(xs, ys) == \A x \in Range(xs), y \in Range(ys) : Ahead(x, y)

\* A sequence of no item or of one is in sequence, and is all its items.
LEMMA ShortSequence ==
  /\ InSequence(<<>>) /\ Range(<<>>) = {}
  /\ \A x : InSequence(<<x>>) /\ Range(<<x>>) = {x}
<1>1. InSequence(<<>>) /\ Range(<<>>) = {}
  BY DEF InSequence, Range
<1>2. ASSUME NEW x PROVE InSequence(<<x>>) /\ Range(<<x>>) = {x}
  <2>1. DOMAIN <<x>> = {1} /\ <<x>>[1] = x
    OBVIOUS
  <2> QED BY <2>1 DEF InSequence, Range
<1> QED BY <1>1, <1>2

\* The items of a sequence, by their places.
LEMMA RangeOfSeq ==
  ASSUME NEW S, NEW xs \in Seq(S)
  PROVE  DOMAIN xs = 1 .. Len(xs) /\ \A x : x \in Range(xs) <=> \E i \in 1 .. Len(xs) : x = xs[i]
<1>1. DOMAIN xs = 1 .. Len(xs)
  OBVIOUS
<1> QED BY <1>1 DEF Range

\* The items of a concatenation.
LEMMA RangeOfConcat ==
  ASSUME NEW S, NEW xs \in Seq(S), NEW ys \in Seq(S)
  PROVE  Range(xs \o ys) = Range(xs) \union Range(ys)
<1> DEFINE zs == xs \o ys
<1>1. /\ zs \in Seq(S) /\ Len(zs) = Len(xs) + Len(ys)
      /\ DOMAIN zs = 1 .. Len(zs) /\ DOMAIN xs = 1 .. Len(xs)
      /\ \A i \in 1 .. Len(xs) : zs[i] = xs[i]
      /\ \A i \in 1 .. Len(ys) : zs[Len(xs) + i] = ys[i]
  OBVIOUS
<1>2. ASSUME NEW x \in Range(zs) PROVE x \in Range(xs) \union Range(ys)
  <2>1. PICK i \in DOMAIN zs : x = zs[i]
    BY <1>2 DEF Range
  <2>2. CASE i <= Len(xs)
    BY <1>1, <2>1, <2>2 DEF Range
  <2>3. CASE i > Len(xs)
    <3>1. i - Len(xs) \in 1 .. Len(ys) /\ zs[i] = ys[i - Len(xs)]
      BY <1>1, <2>1, <2>3
    <3> QED BY <2>1, <3>1 DEF Range
  <2> QED BY <1>1, <2>1, <2>2, <2>3
<1>3. ASSUME NEW x \in Range(xs) PROVE x \in Range(zs)
  <2>1. PICK i \in 1 .. Len(xs) : x = xs[i]
    BY <1>3, RangeOfSeq
  <2> QED BY <1>1, <2>1 DEF Range
<1>4. ASSUME NEW x \in Range(ys) PROVE x \in Range(zs)
  <2>1. PICK i \in 1 .. Len(ys) : x = ys[i]
    BY <1>4, RangeOfSeq
  <2>2. Len(xs) + i \in DOMAIN zs
    BY <1>1
  <2> QED BY <1>1, <2>1, <2>2 DEF Range
<1> QED BY <1>2, <1>3, <1>4

\* The items of a sequence that got one more.
LEMMA RangeOfAppend ==
  ASSUME NEW S, NEW xs \in Seq(S), NEW y \in S
  PROVE  Range(Append(xs, y)) = Range(xs) \union {y}
<1> DEFINE ys == <<y>>
<1>1. ys \in Seq(S) /\ Append(xs, y) = xs \o ys
  OBVIOUS
<1>2. Range(ys) = {y}
  BY ShortSequence
<1> HIDE DEF ys
<1> QED BY <1>1, <1>2, RangeOfConcat

\* The items of a sequence are its head and those of its tail.
LEMMA RangeOfTail ==
  ASSUME NEW S, NEW xs \in Seq(S), xs # <<>>
  PROVE  Head(xs) \in S /\ Tail(xs) \in Seq(S) /\ Range(xs) = {Head(xs)} \union Range(Tail(xs))
<1> DEFINE ys == <<Head(xs)>>
           zs == Tail(xs)
<1>1. Head(xs) \in S /\ zs \in Seq(S) /\ ys \in Seq(S) /\ xs = ys \o zs
  OBVIOUS
<1>2. Range(ys) = {Head(xs)}
  BY ShortSequence
<1> HIDE DEF ys, zs
<1>3. Range(ys \o zs) = Range(ys) \union Range(zs)
  BY <1>1, RangeOfConcat
<1>4. Range(xs) = {Head(xs)} \union Range(zs)
  BY <1>1, <1>2, <1>3
<1> QED BY <1>1, <1>4 DEF zs

\* A concatenation is in sequence if its parts are, one before the other.
LEMMA ConcatInSequence ==
  ASSUME NEW S, NEW xs \in Seq(S), NEW ys \in Seq(S),
         InSequence(xs), InSequence(ys), Before(xs, ys)
  PROVE  InSequence(xs \o ys)
<1> DEFINE zs == xs \o ys
<1>1. /\ zs \in Seq(S) /\ Len(zs) = Len(xs) + Len(ys)
      /\ DOMAIN zs = 1 .. Len(zs) /\ DOMAIN xs = 1 .. Len(xs)
      /\ \A i \in 1 .. Len(xs) : zs[i] = xs[i]
      /\ \A i \in 1 .. Len(ys) : zs[Len(xs) + i] = ys[i]
  OBVIOUS
<1> SUFFICES ASSUME NEW i \in DOMAIN zs, NEW j \in DOMAIN zs, i < j PROVE Ahead(zs[i], zs[j])
  BY DEF InSequence
<1> HIDE DEF zs
<1>2. CASE j <= Len(xs)
  <2>1. i \in DOMAIN xs /\ j \in DOMAIN xs /\ zs[i] = xs[i] /\ zs[j] = xs[j]
    BY <1>1, <1>2
  <2> QED BY <2>1 DEF InSequence
<1>3. CASE i <= Len(xs) /\ j > Len(xs)
  <2>1. j - Len(xs) \in 1 .. Len(ys) /\ zs[j] = ys[j - Len(xs)] /\ zs[i] = xs[i]
    BY <1>1, <1>3
  <2>2. zs[i] \in Range(xs) /\ zs[j] \in Range(ys)
    BY <1>1, <1>3, <2>1 DEF Range
  <2> QED BY <2>2 DEF Before
<1>4. CASE i > Len(xs)
  <2>1. /\ i - Len(xs) \in 1 .. Len(ys) /\ zs[i] = ys[i - Len(xs)]
        /\ j - Len(xs) \in 1 .. Len(ys) /\ zs[j] = ys[j - Len(xs)]
        /\ i - Len(xs) < j - Len(xs)
    BY <1>1, <1>4
  <2> QED BY <2>1 DEF InSequence
<1> QED BY <1>1, <1>2, <1>3, <1>4

\* The tail of a sequence is in sequence, and its head is ahead of the tail.
LEMMA TailInSequence ==
  ASSUME NEW S, NEW xs \in Seq(S), xs # <<>>, InSequence(xs)
  PROVE  InSequence(Tail(xs)) /\ Before(<<Head(xs)>>, Tail(xs))
<1>1. /\ Tail(xs) \in Seq(S) /\ Len(Tail(xs)) = Len(xs) - 1
      /\ \A i \in 1 .. Len(Tail(xs)) : i + 1 \in DOMAIN xs /\ Tail(xs)[i] = xs[i + 1]
      /\ Head(xs) = xs[1] /\ 1 \in DOMAIN xs
  OBVIOUS
<1>2. InSequence(Tail(xs))
  <2> SUFFICES ASSUME NEW i \in 1 .. Len(Tail(xs)), NEW j \in 1 .. Len(Tail(xs)), i < j
               PROVE  Ahead(Tail(xs)[i], Tail(xs)[j])
    BY <1>1 DEF InSequence
  <2>0. i + 1 \in DOMAIN xs /\ j + 1 \in DOMAIN xs /\ i + 1 < j + 1
    BY <1>1
  <2>1. Ahead(xs[i + 1], xs[j + 1])
    BY <2>0 DEF InSequence
  <2> QED BY <1>1, <2>1
<1>3. Before(<<Head(xs)>>, Tail(xs))
  <2> SUFFICES ASSUME NEW j \in 1 .. Len(Tail(xs)) PROVE Ahead(Head(xs), Tail(xs)[j])
    BY <1>1 DEF Before, Range
  <2>0. j + 1 \in DOMAIN xs /\ 1 < j + 1
    BY <1>1
  <2>1. Ahead(xs[1], xs[j + 1])
    BY <1>1, <2>0 DEF InSequence
  <2> QED BY <1>1, <2>1
<1> QED BY <1>2, <1>3

\* One more item at the end, which all the others are ahead of.
LEMMA AppendInSequence ==
  ASSUME NEW S, NEW xs \in Seq(S), NEW y \in S,
         InSequence(xs), \A x \in Range(xs) : Ahead(x, y)
  PROVE  InSequence(Append(xs, y))
<1> DEFINE ys == <<y>>
<1>1. ys \in Seq(S) /\ Append(xs, y) = xs \o ys
  OBVIOUS
<1>2. InSequence(ys) /\ Range(ys) = {y}
  BY ShortSequence
<1> HIDE DEF ys
<1>3. Before(xs, ys)
  BY <1>2 DEF Before
<1> QED BY <1>1, <1>2, <1>3, ConcatInSequence

-----------------------------------------------------------------------------
(* The order of what goes through a source *)

PartsInOrder(s) ==
  /\ InSequence(out[s]) /\ InSequence(queue[s]) /\ InSequence(pending[s])
  /\ Before(out[s], InHand(s)) /\ Before(out[s], queue[s]) /\ Before(InHand(s), queue[s])
  /\ Before(out[s], pending[s])

\* What has come as far as create, and with it what waits in the queue of events.
Through(s) == Range(out[s]) \union Range(InHand(s)) \union Range(queue[s])

Contents(s) == Through(s) \union Range(pending[s])

\* Sink k still has to hand a buffer or an event to source s.
Handing(k, s) == walk[k] # NULL /\ s \in walk[k].todo /\ walk[k].msg.kind # "eos"

\* All a source has from a node is older than what the node has yet to hand it.
OlderThanNews(s) ==
  \A x \in Contents(s) :
    /\ x.at < Moment(x.node)
    /\ Handing(x.node, s) => x.at < walk[x.node].msg.at

WalksBeforeNow ==
  \A k \in Sinks : walk[k] # NULL /\ walk[k].msg.kind # "eos" => walk[k].msg.at < Moment(k)

OrderInv ==
  /\ WalksBeforeNow
  /\ \A s \in Srcs : PartsInOrder(s) /\ OlderThanNews(s)

\* Time only goes on for source r: a message that is handed to it was already, or
\* is later than all there was.
Onward(r) ==
  \A k \in Sinks :
    /\ Moment(k) <= Moment(k)'
    /\ Handing(k, r)' => \/ Handing(k, r) /\ walk'[k].msg = walk[k].msg
                         \/ walk'[k].msg.at = Moment(k)

LEMMA HandTyped == ASSUME TypeOK, NEW s \in Srcs PROVE InHand(s) \in Seq(Cells)
BY DEF TypeOK, InHand

\* What a source has comes from a node and has a moment.
LEMMA ContentsTyped ==
  ASSUME TypeOK, NEW s \in Srcs
  PROVE  /\ Range(out[s]) \subseteq Cells \union Happenings
         /\ Range(InHand(s)) \subseteq Cells /\ Range(queue[s]) \subseteq Cells
         /\ Range(pending[s]) \subseteq Happenings
         /\ \A x \in Contents(s) : x.node \in Sinks /\ x.at \in Nat
<1>1. /\ out[s] \in Seq(Cells \union Happenings)
      /\ queue[s] \in Seq(Cells) /\ pending[s] \in Seq(Happenings)
  BY DEF TypeOK
<1>2. InHand(s) \in Seq(Cells)
  BY HandTyped
<1>3. \A S, xs : xs \in Seq(S) => Range(xs) \subseteq S
  BY DEF Range
<1>4. \A x \in Cells \union Happenings : x.node \in Sinks /\ x.at \in Nat
  BY DEF Cells, Happenings
<1> QED BY <1>1, <1>2, <1>3, <1>4 DEF Contents, Through

\* Only two of a kind are compared: a buffer and an event come in any order.
LEMMA KindsApart ==
  ASSUME NEW x \in Cells, NEW y \in Happenings PROVE Ahead(x, y) /\ Ahead(y, x)
BY DEF Cells, Happenings, Ahead, Comparable, IsBuffer, IsSerial, IsEvent

\* As time goes on, what a source still has stays older than what will come.
LEMMA OlderKept ==
  ASSUME TypeOK, TypeOK', NEW s \in Srcs, OlderThanNews(s), Onward(s),
         Contents(s)' \subseteq Contents(s)
  PROVE  OlderThanNews(s)'
<1> SUFFICES ASSUME NEW x \in Contents(s)
             PROVE  /\ x.at < Moment(x.node)'
                    /\ Handing(x.node, s)' => x.at < walk'[x.node].msg.at
  BY DEF OlderThanNews
<1> DEFINE k == x.node
<1>1. k \in Sinks /\ x.at \in Nat
  BY ContentsTyped
<1>2. Moment(k) \in Nat /\ Moment(k)' \in Nat
  <2>1. \A j \in Sinks : Moment(j) \in Nat
    BY MomentTyped
  <2>2. \A j \in Sinks : Moment(j)' \in Nat
    BY NextMomentTyped
  <2> QED BY <1>1, <2>1, <2>2
<1>3. x.at < Moment(k) /\ (Handing(k, s) => x.at < walk[k].msg.at)
  BY DEF OlderThanNews
<1>4. Moment(k) <= Moment(k)'
  BY <1>1 DEF Onward
<1>5. ASSUME Handing(k, s)' PROVE x.at < walk'[k].msg.at
  BY <1>1, <1>3, <1>5 DEF Onward
<1> QED BY <1>1, <1>2, <1>3, <1>4, <1>5

\* A source that a step leaves alone.
LEMMA OtherSource ==
  ASSUME TypeOK, TypeOK', NEW s \in Srcs, PartsInOrder(s), OlderThanNews(s), Onward(s),
         out'[s] = out[s], hand'[s] = hand[s], queue'[s] = queue[s], pending'[s] = pending[s]
  PROVE  PartsInOrder(s)' /\ OlderThanNews(s)'
<1>1. InHand(s)' = InHand(s)
  BY DEF InHand
<1>2. Contents(s)' = Contents(s)
  BY <1>1 DEF Contents, Through
<1>3. PartsInOrder(s)'
  BY <1>1 DEF PartsInOrder
<1> QED BY <1>2, <1>3, OlderKept

\* A sink counts up before it hands out the next message, which is told by what
\* the count was.
News(j) ==
  /\ Moment(j) <= Moment(j)'
  /\ \/ walk'[j] = walk[j] \/ walk'[j] = NULL \/ walk'[j].msg.kind = "eos"
     \/ walk'[j].msg.at = Moment(j) /\ Moment(j) < Moment(j)'

LEMMA HandOutWalk ==
  ASSUME TypeOK, NEW k \in Sinks, NEW m, HandOut(k, m)
  PROVE  walk'[k].msg = m /\ \A j \in Sinks \ {k} : walk'[j] = walk[j]
BY DEF TypeOK, HandOut

LEMMA RenderNews ==
  ASSUME TypeOK, NEW k \in Sinks, Render(k) \/ Unlock(k), NEW j \in Sinks PROVE News(j)
<1>0. /\ sent[j] \in Nat /\ events[j] \in Nat
      /\ phase[j] \in {"off", "fresh", "prerolled", "live", "done"}
  BY DEF TypeOK
<1>1. CASE NewPreroll(k)
  <2>1. phase[k] = "fresh" /\ phase' = [phase EXCEPT ![k] = "prerolled"] /\ UNCHANGED <<sent, events>>
    BY <1>1 DEF NewPreroll
  <2>2. Moment(j) <= Moment(j)' /\ (j = k => Moment(j) < Moment(j)')
    BY <1>0, <2>1 DEF Moment, TypeOK
  <2>3. j = k => walk'[j].msg.at = Moment(j)
    BY <1>1, HandOutWalk DEF NewPreroll, ProcessSample
  <2>4. j # k => walk'[j] = walk[j]
    BY <1>1, HandOutWalk DEF NewPreroll, ProcessSample
  <2> QED BY <2>2, <2>3, <2>4 DEF News
<1>2. CASE NewBuffer(k)
  <2>1. sent' = [sent EXCEPT ![k] = @ + 1] /\ UNCHANGED <<phase, events>>
    BY <1>2 DEF NewBuffer
  <2>2. Moment(j) <= Moment(j)' /\ (j = k => Moment(j) < Moment(j)')
    BY <1>0, <2>1 DEF Moment, TypeOK
  <2>3. j = k => walk'[j].msg.at = Moment(j)
    BY <1>2, HandOutWalk DEF NewBuffer, ProcessSample
  <2>4. j # k => walk'[j] = walk[j]
    BY <1>2, HandOutWalk DEF NewBuffer, ProcessSample
  <2> QED BY <2>2, <2>3, <2>4 DEF News
<1>3. CASE GoLive(k)
  <2>1. /\ phase[k] \in {"fresh", "prerolled"} /\ phase' = [phase EXCEPT ![k] = "live"]
        /\ UNCHANGED <<sent, events, walk>>
    BY <1>3 DEF GoLive
  <2>2. Moment(j) <= Moment(j)'
    BY <1>0, <2>1 DEF Moment, TypeOK
  <2> QED BY <2>1, <2>2 DEF News
<1>4. CASE SinkEos(k)
  <2>1. phase[k] = "live" /\ phase' = [phase EXCEPT ![k] = "done"] /\ UNCHANGED <<sent, events>>
    BY <1>4 DEF SinkEos
  <2>2. Moment(j) <= Moment(j)'
    BY <1>0, <2>1 DEF Moment, TypeOK
  <2>3. walk'[j] = walk[j] \/ walk'[j].msg.kind = "eos"
    BY <1>4, HandOutWalk DEF SinkEos
  <2> QED BY <2>2, <2>3 DEF News
<1>5. ASSUME NEW kind \in {"serialized", "oob"}, SinkEvent(k, kind) PROVE News(j)
  <2>1. events' = [events EXCEPT ![k] = @ + 1] /\ UNCHANGED <<phase, sent>>
    BY <1>5 DEF SinkEvent
  <2>2. Moment(j) <= Moment(j)' /\ (j = k => Moment(j) < Moment(j)')
    BY <1>0, <2>1 DEF Moment, TypeOK
  <2>3. j = k => walk'[j].msg.at = Moment(j)
    BY <1>5, HandOutWalk DEF SinkEvent
  <2>4. j # k => walk'[j] = walk[j]
    BY <1>5, HandOutWalk DEF SinkEvent
  <2> QED BY <2>2, <2>3, <2>4 DEF News
<1>6. CASE Unlock(k)
  <2>1. walk' = [walk EXCEPT ![k] = NULL] /\ UNCHANGED <<phase, sent, events>>
    BY <1>6 DEF Unlock, sinkVars
  <2>2. Moment(j) <= Moment(j)'
    BY <1>0, <2>1 DEF Moment
  <2> QED BY <2>1, <2>2 DEF News, TypeOK
<1> QED BY <1>1, <1>2, <1>3, <1>4, <1>5, <1>6 DEF Render

LEMMA RenderOrder ==
  ASSUME IInv, IInv', OrderInv, NEW k \in Sinks, Render(k) \/ Unlock(k) PROVE OrderInv'
<1>1. UNCHANGED <<out, hand, queue, pending>>
  BY DEF Render, NewPreroll, NewBuffer, GoLive, SinkEos, SinkEvent, Unlock, threadVars, eventVars
<1>2. TypeOK /\ TypeOK'
  BY DEF IInv
<1>3. \A j \in Sinks : News(j)
  BY <1>2, RenderNews
<1>4. \A j \in Sinks : Moment(j) \in Nat
  BY <1>2, MomentTyped
<1>4a. \A j \in Sinks : Moment(j)' \in Nat
  BY <1>2, NextMomentTyped
<1>5. WalksBeforeNow'
  <2> SUFFICES ASSUME NEW j \in Sinks, walk'[j] # NULL, walk'[j].msg.kind # "eos"
               PROVE  walk'[j].msg.at < Moment(j)'
    BY DEF WalksBeforeNow
  <2>1. CASE walk'[j] = walk[j]
    <3>1. walk[j].msg.at < Moment(j)
      BY <2>1 DEF OrderInv, WalksBeforeNow
    <3>2. Moment(j) <= Moment(j)'
      BY <1>3 DEF News
    <3>3. walk[j].msg.at \in Nat
      <4>1. walk[j].msg \in Renderings \union Sightings
        BY <1>2, <2>1 DEF TypeOK, Walks, Ends
      <4> QED BY <4>1 DEF Renderings, Sightings
    <3> QED BY <1>4, <1>4a, <2>1, <3>1, <3>2, <3>3
  <2> QED BY <1>3, <2>1 DEF News
<1>6. ASSUME NEW s \in Srcs PROVE Onward(s)
  <2> SUFFICES ASSUME NEW j \in Sinks, Handing(j, s)'
               PROVE  \/ Handing(j, s) /\ walk'[j].msg = walk[j].msg
                      \/ walk'[j].msg.at = Moment(j)
    BY <1>3 DEF Onward, News
  <2> QED BY <1>3 DEF News, Handing
<1> QED BY <1>1, <1>2, <1>5, <1>6, OtherSource DEF OrderInv

\* A step that leaves the clocks and the walks alone.
LEMMA NoNews ==
  ASSUME TypeOK, UNCHANGED <<sinkVars, walk>>
  PROVE  /\ \A s \in Srcs : Onward(s)
         /\ WalksBeforeNow => WalksBeforeNow'
<1>1. \A k \in Sinks : Moment(k)' = Moment(k) /\ Moment(k) \in Nat
  BY MomentTyped DEF Moment, sinkVars
<1>2. \A k \in Sinks, s \in Srcs : Handing(k, s)' <=> Handing(k, s)
  BY DEF Handing
<1> QED BY <1>1, <1>2 DEF Onward, WalksBeforeNow

\* A delivery leaves one message less to hand out.
LEMMA DeliverNews ==
  ASSUME TypeOK, NEW k \in Sinks, NEW s \in Srcs, Deliver(k, s)
  PROVE  /\ \A r \in Srcs : Onward(r)
         /\ WalksBeforeNow => WalksBeforeNow'
         /\ ~Handing(k, s)'
         /\ \A j \in Sinks \ {k} : Handing(j, s)' => Handing(j, s) /\ walk'[j] = walk[j]
<1>1. walk[k] \in Walks /\ walk' = [walk EXCEPT ![k] = [walk[k] EXCEPT !.todo = @ \ {s}]]
  BY DEF Deliver, TypeOK
<1>2. \A j \in Sinks \ {k} : walk'[j] = walk[j]
  BY <1>1
<1>3. walk[k] # NULL /\ walk'[k].msg = walk[k].msg /\ walk'[k].todo = walk[k].todo \ {s}
  BY <1>1 DEF Deliver, TypeOK, Walks
<1>4. \A j \in Sinks : Moment(j)' = Moment(j) /\ Moment(j) \in Nat
  BY MomentTyped DEF Deliver, Moment, sinkVars
<1>5. \A j \in Sinks, r \in Srcs : Handing(j, r)' => Handing(j, r) /\ walk'[j].msg = walk[j].msg
  BY <1>2, <1>3 DEF Handing
<1>6. \A r \in Srcs : Onward(r)
  BY <1>4, <1>5 DEF Onward
<1>7. WalksBeforeNow => WalksBeforeNow'
  <2> SUFFICES ASSUME WalksBeforeNow, NEW j \in Sinks, walk'[j] # NULL, walk'[j].msg.kind # "eos"
               PROVE  walk'[j].msg.at < Moment(j)
    BY <1>4 DEF WalksBeforeNow
  <2>1. walk[j] # NULL /\ walk'[j].msg = walk[j].msg
    BY <1>2, <1>3
  <2> QED BY <2>1 DEF WalksBeforeNow
<1> QED BY <1>2, <1>3, <1>5, <1>6, <1>7 DEF Handing

\* All a source has from the node is ahead of what the node hands it.
LEMMA NewsIsLast ==
  ASSUME IInv, OrderInv, NEW k \in Sinks, NEW s \in Srcs, Handing(k, s),
         NEW y, y.node = k, y.at = walk[k].msg.at,
         NEW x \in Contents(s)
  PROVE  Ahead(x, y)
BY DEF OrderInv, OlderThanNews, Ahead, Comparable

LEMMA DeliverBuffer ==
  ASSUME IInv, IInv', OrderInv, NEW k \in Sinks, NEW s \in Srcs, Deliver(k, s),
         walk[k].msg.kind = "buffer"
  PROVE  PartsInOrder(s)' /\ OlderThanNews(s)'
<1> DEFINE m == walk[k].msg
<1>0. TypeOK /\ TypeOK' /\ PartsInOrder(s) /\ OlderThanNews(s)
  BY DEF IInv, OrderInv
<1>1. Handing(k, s) /\ m.node = k /\ m \in Renderings
  BY DEF Deliver, Handing, IInv, NoStaleWalk, IsBuffer
<1>2. UNCHANGED <<out, hand, pending>>
  BY DEF Deliver, threadVars, eventVars
<1>3. InHand(s)' = InHand(s)
  BY <1>2 DEF InHand
<1>4. Onward(s)
  BY <1>0, DeliverNews
<1>5. CASE UNCHANGED queue
  BY <1>0, <1>2, <1>4, <1>5, OtherSource
<1>6. ASSUME NEW own \in Pairs \union {NULL}, queue' = [queue EXCEPT ![s] = Append(@, Item(m, own))]
      PROVE  PartsInOrder(s)' /\ OlderThanNews(s)'
  <2> DEFINE y == Item(m, own)
  <2>1. y \in Cells /\ y.node = k /\ y.at = m.at
    BY <1>1 DEF Item, Cells, Renderings
  <2>2. \A x \in Contents(s) : Ahead(x, y)
    BY <1>1, <2>1, NewsIsLast
  <2> HIDE DEF y
  <2>3. queue[s] \in Seq(Cells) /\ queue'[s] = Append(queue[s], y)
    BY <1>0, <1>6 DEF TypeOK, y
  <2>4. Range(queue[s])' = Range(queue[s]) \union {y}
    BY <2>1, <2>3, RangeOfAppend
  <2>5. InSequence(queue'[s])
    <3>1. \A x \in Range(queue[s]) : Ahead(x, y)
      BY <2>2 DEF Contents, Through
    <3>2. InSequence(queue[s])
      BY <1>0 DEF PartsInOrder
    <3>3. InSequence(Append(queue[s], y))
      BY <2>1, <2>3, <3>1, <3>2, AppendInSequence
    <3> QED BY <2>3, <3>3
  <2>6. Before(out[s], queue'[s]) /\ Before(InHand(s), queue'[s])
    BY <1>0, <2>2, <2>4 DEF Before, PartsInOrder, Contents, Through
  <2>7. PartsInOrder(s)'
    BY <1>0, <1>2, <1>3, <2>5, <2>6 DEF PartsInOrder
  <2>8. Contents(s)' = Contents(s) \union {y}
    BY <1>2, <1>3, <2>4 DEF Contents, Through
  <2>9. OlderThanNews(s)'
    <3>1. \A x \in Contents(s) : x.node \in Sinks /\ x.at \in Nat
      BY <1>0, ContentsTyped
    <3>2. y.at < Moment(k)
      BY <1>1, <2>1 DEF OrderInv, WalksBeforeNow, Handing
    <3>3. \A j \in Sinks : Moment(j)' = Moment(j)
      BY DEF Deliver, Moment, sinkVars
    <3>4. ~Handing(k, s)' /\ \A j \in Sinks \ {k} : Handing(j, s)' => Handing(j, s) /\ walk'[j] = walk[j]
      BY <1>0, DeliverNews
    <3> SUFFICES ASSUME NEW x \in Contents(s)'
                 PROVE  /\ x.at < Moment(x.node)
                        /\ Handing(x.node, s)' => x.at < walk'[x.node].msg.at
      BY <2>1, <2>8, <3>1, <3>3 DEF OlderThanNews
    <3>5. CASE x = y
      BY <2>1, <3>2, <3>4, <3>5
    <3>6. CASE x \in Contents(s)
      <4>1. x.at < Moment(x.node) /\ (Handing(x.node, s) => x.at < walk[x.node].msg.at)
        BY <1>0, <3>6 DEF OlderThanNews
      <4> QED BY <3>1, <3>4, <3>6, <4>1
    <3> QED BY <2>8, <3>5, <3>6
  <2> QED BY <2>7, <2>9
<1>7. UNCHANGED queue \/ \E own \in Pairs \union {NULL} :
        queue' = [queue EXCEPT ![s] = Append(@, Item(m, own))]
  <2>1. PushBuffer(s, m)
    BY DEF Deliver
  <2>2. Compensated(stamp[m.node][m.n], m.base, base[s]) \in Pairs
    <3>0. m.n \in DOMAIN stamp[k]
      BY <1>1 DEF IInv, NoStaleWalk, Handing, IsBuffer
    <3>1. stamp[m.node][m.n] \in Pairs /\ m.base \in Stamps /\ base[s] \in Stamps
      BY <1>0, <1>1, <3>0 DEF TypeOK, Renderings
    <3> QED BY <3>1, CompensatedTyped DEF Pairs
  <2> QED BY <2>1, <2>2 DEF PushBuffer, AppsrcPush
<1> QED BY <1>5, <1>6, <1>7

LEMMA DeliverEvent ==
  ASSUME IInv, IInv', OrderInv, NEW k \in Sinks, NEW s \in Srcs, Deliver(k, s),
         walk[k].msg.kind = "event"
  PROVE  PartsInOrder(s)' /\ OlderThanNews(s)'
<1> DEFINE m == walk[k].msg
           y == Happening(m, s)
<1>0. TypeOK /\ TypeOK' /\ PartsInOrder(s) /\ OlderThanNews(s)
  BY DEF IInv, OrderInv
<1>1. Handing(k, s) /\ m.node = k /\ m \in Sightings
  BY DEF Deliver, Handing, IInv, NoStaleWalk, IsEvent
<1>2. UNCHANGED <<hand, queue>> /\ PushEvent(s, m)
  BY DEF Deliver, threadVars
<1>3. InHand(s)' = InHand(s)
  BY <1>2 DEF InHand
<1>4. Onward(s)
  BY <1>0, DeliverNews
<1>5. y.node = k /\ y.at = m.at /\ y.serial = m.serial /\ y \in Happenings
  <2>1. /\ m.ts \in Stamps /\ m.base \in Stamps /\ base[s] \in Stamps
        /\ m.node \in Sinks /\ m.at \in Nat /\ m.serial \in BOOLEAN
    BY <1>0, <1>1 DEF TypeOK, Sightings
  <2>2. (IF m.serial THEN Shift(m.ts, m.base, base[s]) ELSE 0) \in Stamps
    <3>1. Shift(m.ts, m.base, base[s]) \in Stamps
      BY <2>1, ShiftTyped
    <3>2. 0 \in Stamps
      BY DEF Stamps
    <3> QED BY <3>1, <3>2
  <2> QED BY <1>1, <2>1, <2>2 DEF Happening, Happenings
<1>6. \A x \in Contents(s) : Ahead(x, y)
  BY <1>1, <1>5, NewsIsLast
<1> HIDE DEF y
\* Whatever is added, it is the newest.
<1>7. ASSUME Contents(s)' \subseteq Contents(s) \union {y} PROVE OlderThanNews(s)'
  <2>1. \A x \in Contents(s) : x.node \in Sinks /\ x.at \in Nat
    BY <1>0, ContentsTyped
  <2>2. y.at < Moment(k)
    BY <1>1, <1>5 DEF OrderInv, WalksBeforeNow, Handing
  <2>3. \A j \in Sinks : Moment(j)' = Moment(j)
    BY DEF Deliver, Moment, sinkVars
  <2>4. ~Handing(k, s)' /\ \A j \in Sinks \ {k} : Handing(j, s)' => Handing(j, s) /\ walk'[j] = walk[j]
    BY <1>0, DeliverNews
  <2> SUFFICES ASSUME NEW x \in Contents(s)'
               PROVE  /\ x.at < Moment(x.node)
                      /\ Handing(x.node, s)' => x.at < walk'[x.node].msg.at
    BY <1>5, <1>7, <2>1, <2>3 DEF OlderThanNews
  <2>5. CASE x = y
    BY <1>5, <2>2, <2>4, <2>5
  <2>6. CASE x \in Contents(s)
    <3>1. x.at < Moment(x.node) /\ (Handing(x.node, s) => x.at < walk[x.node].msg.at)
      BY <1>0, <2>6 DEF OlderThanNews
    <3> QED BY <2>1, <2>4, <2>6, <3>1
  <2> QED BY <1>7, <2>5, <2>6
<1>8. CASE UNCHANGED <<pending, out>>
  BY <1>0, <1>2, <1>4, <1>8, OtherSource
\* A serialized event waits.
<1>9. CASE pending' = [pending EXCEPT ![s] = Append(@, y)] /\ UNCHANGED out
  <2>1. pending[s] \in Seq(Happenings) /\ pending'[s] = Append(pending[s], y)
    BY <1>0, <1>9 DEF TypeOK
  <2>2. Range(pending[s])' = Range(pending[s]) \union {y}
    BY <1>5, <2>1, RangeOfAppend
  <2>3. InSequence(pending'[s])
    <3>1. \A x \in Range(pending[s]) : Ahead(x, y)
      BY <1>6 DEF Contents, Through
    <3>2. InSequence(pending[s])
      BY <1>0 DEF PartsInOrder
    <3>3. InSequence(Append(pending[s], y))
      BY <1>5, <2>1, <3>1, <3>2, AppendInSequence
    <3> QED BY <2>1, <3>3
  <2>4. Before(out[s], pending'[s])
    BY <1>0, <1>6, <2>2 DEF Before, PartsInOrder, Contents, Through
  <2>5. PartsInOrder(s)'
    BY <1>0, <1>2, <1>3, <1>9, <2>3, <2>4 DEF PartsInOrder
  <2>6. Contents(s)' = Contents(s) \union {y}
    BY <1>2, <1>3, <1>9, <2>2 DEF Contents, Through
  <2> QED BY <1>7, <2>5, <2>6
\* Another event goes out at once, past all there is.
<1>10. CASE ~m.serial /\ out' = [out EXCEPT ![s] = Append(@, y)] /\ UNCHANGED pending
  <2> DEFINE Outputs == Cells \union Happenings
  <2>1. out[s] \in Seq(Outputs) /\ out'[s] = Append(out[s], y) /\ y \in Outputs
    BY <1>0, <1>5, <1>10 DEF TypeOK
  <2> HIDE DEF Outputs
  <2>2. Range(out[s])' = Range(out[s]) \union {y}
    BY <2>1, RangeOfAppend
  <2>3. \A x : Ahead(x, y) /\ Ahead(y, x)
    BY <1>5, <1>10 DEF Happenings, Ahead, Comparable, IsBuffer, IsSerial
  <2>4. InSequence(out'[s])
    <3>1. InSequence(out[s])
      BY <1>0 DEF PartsInOrder
    <3>2. InSequence(Append(out[s], y))
      BY <2>1, <2>3, <3>1, AppendInSequence
    <3> QED BY <2>1, <3>2
  <2>5. Before(out'[s], InHand(s)) /\ Before(out'[s], queue[s]) /\ Before(out'[s], pending[s])
    BY <1>0, <2>2, <2>3 DEF Before, PartsInOrder
  <2>6. PartsInOrder(s)'
    BY <1>0, <1>2, <1>3, <1>10, <2>4, <2>5 DEF PartsInOrder
  <2>7. Contents(s)' = Contents(s) \union {y}
    BY <1>2, <1>3, <1>10, <2>2 DEF Contents, Through
  <2>8. OlderThanNews(s)'
    BY <1>7, <2>7
  <2> QED BY <2>6, <2>8
<1>11. CASE PushTail(s, y) /\ UNCHANGED out
  <2>1. pending' = [pending EXCEPT ![s] = Append(@, y)] \/ UNCHANGED pending
    BY <1>0, <1>11 DEF PushTail, TypeOK
  <2> QED BY <1>8, <1>9, <1>11, <2>1
<1> QED BY <1>2, <1>8, <1>10, <1>11 DEF PushEvent, eventVars, y

LEMMA DeliverOrder ==
  ASSUME IInv, IInv', OrderInv, NEW k \in Sinks, NEW s \in Srcs, Deliver(k, s) PROVE OrderInv'
<1>0. TypeOK /\ TypeOK'
  BY DEF IInv
<1>1. WalksBeforeNow' /\ \A r \in Srcs : Onward(r)
  BY <1>0, DeliverNews DEF OrderInv
<1>2. ASSUME NEW r \in Srcs, r # s PROVE PartsInOrder(r)' /\ OlderThanNews(r)'
  <2>1. out'[r] = out[r] /\ hand'[r] = hand[r] /\ queue'[r] = queue[r] /\ pending'[r] = pending[r]
    <3>1. UNCHANGED hand
      BY DEF Deliver, threadVars
    <3>2. queue'[r] = queue[r]
      <4>1. UNCHANGED queue \/ \E x : queue' = [queue EXCEPT ![s] = Append(@, x)]
        BY DEF Deliver, PushBuffer, AppsrcPush
      <4> QED BY <1>0, <1>2, <4>1 DEF TypeOK
    <3>3. CASE UNCHANGED <<eventVars, out>>
      BY <3>1, <3>2, <3>3 DEF eventVars
    <3>4. CASE PushEvent(s, walk[k].msg)
      <4>1. UNCHANGED pending \/ \E xs : pending' = [pending EXCEPT ![s] = xs]
        BY <3>4 DEF PushEvent, PushTail, eventVars
      <4>2. UNCHANGED out \/ \E xs : out' = [out EXCEPT ![s] = xs]
        BY <3>4 DEF PushEvent
      <4>3. pending'[r] = pending[r]
        BY <1>0, <1>2, <4>1 DEF TypeOK
      <4>4. DOMAIN out = Srcs
        BY <1>0 DEF TypeOK
      <4>5. out'[r] = out[r]
        BY <1>2, <4>2, <4>4
      <4> QED BY <3>1, <3>2, <4>3, <4>5
    <3> QED BY <3>3, <3>4 DEF Deliver, eventVars
  <2> QED BY <1>0, <1>1, <2>1, OtherSource DEF OrderInv
<1>3. PartsInOrder(s)' /\ OlderThanNews(s)'
  <2>1. CASE walk[k].msg.kind = "buffer"
    BY <2>1, DeliverBuffer
  <2>2. CASE walk[k].msg.kind = "event"
    BY <2>2, DeliverEvent
  <2>3. CASE UNCHANGED <<out, hand, queue, pending>>
    BY <1>0, <1>1, <2>3, OtherSource DEF OrderInv
  <2> QED BY <2>1, <2>2, <2>3 DEF Deliver, threadVars, eventVars
<1> QED BY <1>1, <1>2, <1>3 DEF OrderInv

LEMMA ControlOrder ==
  ASSUME IInv, IInv', OrderInv, NEW s \in Srcs, Control(s) PROVE OrderInv'
<1>0. TypeOK /\ TypeOK'
  BY DEF IInv
<1>1. UNCHANGED <<sinkVars, walk, hand, pending>>
  BY DEF Control, Start, Commit, Play, Pause, Stop, Leave, Join, threadVars, eventVars
<1>2. WalksBeforeNow' /\ \A r \in Srcs : Onward(r)
  BY <1>0, <1>1, NoNews DEF OrderInv
<1>3. /\ UNCHANGED out \/ out' = [out EXCEPT ![s] = <<>>]
      /\ UNCHANGED queue \/ queue' = [queue EXCEPT ![s] = <<>>]
  BY DEF Control, Start, Commit, Play, Pause, Stop, Leave, Join
<1>4. \A r \in Srcs \ {s} : out'[r] = out[r] /\ queue'[r] = queue[r]
  BY <1>0, <1>3 DEF TypeOK
<1>5. out'[s] \in {out[s], <<>>} /\ queue'[s] \in {queue[s], <<>>}
  BY <1>0, <1>3 DEF TypeOK
<1>6. ASSUME NEW r \in Srcs \ {s} PROVE PartsInOrder(r)' /\ OlderThanNews(r)'
  BY <1>0, <1>1, <1>2, <1>4, OtherSource DEF OrderInv
<1>7. InHand(s)' = InHand(s)
  BY <1>1 DEF InHand
<1>8. Range(out'[s]) \subseteq Range(out[s]) /\ Range(queue'[s]) \subseteq Range(queue[s])
  BY <1>5, ShortSequence
<1>9. PartsInOrder(s)'
  <2>1. PartsInOrder(s)
    BY DEF OrderInv
  <2>2. InSequence(out'[s]) /\ InSequence(queue'[s])
    BY <1>5, <2>1, ShortSequence DEF PartsInOrder
  <2> QED BY <1>1, <1>7, <1>8, <2>1, <2>2 DEF PartsInOrder, Before
<1>10. OlderThanNews(s)'
  <2>1. Contents(s)' \subseteq Contents(s)
    BY <1>1, <1>7, <1>8 DEF Contents, Through
  <2> QED BY <1>0, <1>2, <2>1, OlderKept DEF OrderInv
<1> QED BY <1>2, <1>6, <1>9, <1>10 DEF OrderInv

\* Out of the hand of create goes the buffer, alone or with the event before it.
LEMMA EmitOrder ==
  ASSUME IInv, IInv', OrderInv, NEW s \in Srcs, SendBuffer(s) \/ SendEvent(s)
  PROVE  PartsInOrder(s)' /\ Contents(s)' \subseteq Contents(s)
<1> DEFINE Outputs == Cells \union Happenings
           y == hand[s]
           e == Head(pending[s])
<1>0. TypeOK /\ TypeOK' /\ PartsInOrder(s)
  BY DEF IInv, OrderInv
<1>1. /\ out[s] \in Seq(Outputs) /\ queue'[s] = queue[s]
      /\ y \in Cells /\ InHand(s) = <<y>> /\ InHand(s)' = <<>>
  <2>1. hand[s] # NULL /\ hand' = [hand EXCEPT ![s] = NULL] /\ UNCHANGED queue
    BY <1>0 DEF TypeOK, SendBuffer, SendEvent
  <2> QED BY <1>0, <2>1 DEF TypeOK, InHand
<1>2. Range(InHand(s)) = {y} /\ Range(InHand(s)') = {} /\ InSequence(<<y>>)
  BY <1>1, ShortSequence
<1>3. CASE SendBuffer(s)
  <2> DEFINE ys == <<y>>
  <2>1. out'[s] = out[s] \o ys /\ ys \in Seq(Outputs) /\ pending' = pending
    BY <1>0, <1>1, <1>3 DEF SendBuffer, Emit, TypeOK, eventVars
  <2>2. InSequence(ys) /\ Range(ys) = {y}
    BY <1>2, ShortSequence
  <2>3. Before(out[s], ys)
    BY <1>0, <1>1 DEF PartsInOrder
  <2>4. \A x \in Range(pending[s]) : Ahead(y, x)
    BY <1>0, <1>1, ContentsTyped, KindsApart
  <2> HIDE DEF ys, Outputs
  <2>5. InSequence(out'[s]) /\ Range(out'[s]) = Range(out[s]) \union {y}
    BY <1>0, <1>1, <2>1, <2>2, <2>3, ConcatInSequence, RangeOfConcat DEF PartsInOrder
  <2>6. PartsInOrder(s)'
    BY <1>0, <1>1, <1>2, <2>1, <2>4, <2>5 DEF PartsInOrder, Before
  <2>7. Contents(s)' \subseteq Contents(s)
    BY <1>1, <1>2, <2>1, <2>5 DEF Contents, Through
  <2> QED BY <2>6, <2>7
<1>4. CASE SendEvent(s)
  <2> DEFINE ys == <<e, y>>
             rest == Tail(pending[s])
  <2>1. pending[s] \in Seq(Happenings) /\ pending[s] # <<>>
    BY <1>0, <1>4 DEF SendEvent, TypeOK
  <2>2. /\ e \in Happenings /\ rest \in Seq(Happenings)
        /\ Range(pending[s]) = {e} \union Range(rest)
    BY <2>1, RangeOfTail
  <2>3. InSequence(rest) /\ \A x \in Range(rest) : Ahead(e, x)
    <3>1. InSequence(pending[s])
      BY <1>0 DEF PartsInOrder
    <3>2. InSequence(Tail(pending[s])) /\ Before(<<Head(pending[s])>>, Tail(pending[s]))
      BY <2>1, <3>1, TailInSequence
    <3> DEFINE es == <<Head(pending[s])>>
    <3>3. Range(es) = {Head(pending[s])}
      BY ShortSequence
    <3>4. Before(es, rest)
      BY <3>2
    <3> HIDE DEF es
    <3> QED BY <3>2, <3>3, <3>4 DEF Before
  <2>4. out'[s] = out[s] \o ys /\ ys \in Seq(Outputs) /\ pending'[s] = rest
    BY <1>0, <1>1, <1>4, <2>2 DEF SendEvent, Emit, TypeOK
  <2>5. Range(ys) = {e, y} /\ InSequence(ys)
    <3>1. DOMAIN ys = {1, 2} /\ ys[1] = e /\ ys[2] = y
      OBVIOUS
    <3>2. Ahead(e, y)
      BY <1>1, <2>2, KindsApart
    <3> HIDE DEF ys
    <3> QED BY <3>1, <3>2 DEF Range, InSequence
  <2> HIDE DEF ys, Outputs, e, rest
  <2>6. Before(out[s], ys)
    BY <1>0, <1>2, <2>2, <2>5 DEF PartsInOrder, Before
  <2>7. InSequence(out'[s]) /\ Range(out'[s]) = Range(out[s]) \union {e, y}
    BY <1>0, <1>1, <2>4, <2>5, <2>6, ConcatInSequence, RangeOfConcat DEF PartsInOrder
  <2>8. \A x \in Range(rest) : Ahead(y, x)
    BY <1>0, <1>1, <2>2, ContentsTyped, KindsApart
  <2>9. \A x \in Range(queue[s]) : Ahead(e, x)
    BY <1>0, <2>2, ContentsTyped, KindsApart
  <2>10. PartsInOrder(s)'
    <3>1. InSequence(queue'[s]) /\ InSequence(pending'[s])
      BY <1>0, <1>1, <2>3, <2>4 DEF PartsInOrder
    <3>2. Before(out'[s], queue'[s])
      BY <1>0, <1>1, <1>2, <2>7, <2>9 DEF PartsInOrder, Before
    <3>3. Before(out'[s], pending'[s])
      BY <1>0, <2>2, <2>3, <2>4, <2>7, <2>8 DEF PartsInOrder, Before
    <3>4. Before(out[s], InHand(s))' /\ Before(InHand(s), queue[s])'
      BY <1>2 DEF Before
    <3> QED BY <2>7, <3>1, <3>2, <3>3, <3>4 DEF PartsInOrder
  <2>11. Contents(s)' \subseteq Contents(s)
    BY <1>1, <1>2, <2>2, <2>4, <2>7 DEF Contents, Through
  <2> QED BY <2>10, <2>11
<1> QED BY <1>3, <1>4

LEMMA PopOrder ==
  ASSUME IInv, IInv', OrderInv, NEW s \in Srcs, Pop(s)
  PROVE  PartsInOrder(s)' /\ Contents(s)' \subseteq Contents(s)
<1> DEFINE y == Head(queue[s])
           rest == Tail(queue[s])
<1>0. TypeOK /\ TypeOK' /\ PartsInOrder(s)
  BY DEF IInv, OrderInv
<1>1. queue[s] \in Seq(Cells) /\ queue[s] # <<>>
  BY <1>0 DEF Pop, TypeOK
<1>2. y \in Cells /\ rest \in Seq(Cells) /\ Range(queue[s]) = {y} \union Range(rest)
  BY <1>1, RangeOfTail
<1>3. InSequence(rest) /\ Before(<<y>>, rest)
  <2>1. InSequence(queue[s])
    BY <1>0 DEF PartsInOrder
  <2> QED BY <1>1, <2>1, TailInSequence
<1>4. /\ out'[s] = out[s] /\ pending'[s] = pending[s] /\ queue'[s] = rest
      /\ InHand(s)' = <<y>> /\ InHand(s) = <<>>
  <2>1. hand'[s] = y /\ y # NULL
    BY <1>0, <1>2, NullAssumption DEF Pop, TypeOK
  <2>2. hand[s] = NULL
    BY <1>0 DEF Pop, TypeOK
  <2> QED BY <1>0, <2>1, <2>2 DEF Pop, TypeOK, InHand, eventVars
<1>5. Range(InHand(s)') = {y} /\ Range(InHand(s)) = {}
  BY <1>4, ShortSequence
<1> HIDE DEF y, rest
<1>6. PartsInOrder(s)'
  BY <1>0, <1>2, <1>3, <1>4, <1>5 DEF PartsInOrder, Before
<1>7. Contents(s)' \subseteq Contents(s)
  BY <1>2, <1>4, <1>5 DEF Contents, Through
<1> QED BY <1>6, <1>7

LEMMA CreateOrder ==
  ASSUME IInv, IInv', OrderInv, NEW s \in Srcs, Create(s) PROVE OrderInv'
<1>0. TypeOK /\ TypeOK'
  BY DEF IInv
<1>1. UNCHANGED <<sinkVars, walk>>
  BY DEF Create, Pop, SendBuffer, FindDue, SendEvent, EosOut
<1>2. WalksBeforeNow' /\ \A r \in Srcs : Onward(r)
  BY <1>0, <1>1, NoNews DEF OrderInv
<1>3. ASSUME NEW r \in Srcs \ {s} PROVE PartsInOrder(r)' /\ OlderThanNews(r)'
  <2>1. out'[r] = out[r] /\ hand'[r] = hand[r] /\ queue'[r] = queue[r] /\ pending'[r] = pending[r]
    <3>1. /\ UNCHANGED out \/ \E xs : out' = [out EXCEPT ![s] = xs]
          /\ UNCHANGED hand \/ \E x : hand' = [hand EXCEPT ![s] = x]
          /\ UNCHANGED queue \/ \E xs : queue' = [queue EXCEPT ![s] = xs]
          /\ UNCHANGED pending \/ \E xs : pending' = [pending EXCEPT ![s] = xs]
      BY DEF Create, Pop, SendBuffer, FindDue, SendEvent, EosOut, Emit, eventVars
    <3>2. DOMAIN out = Srcs /\ DOMAIN hand = Srcs /\ DOMAIN queue = Srcs /\ DOMAIN pending = Srcs
      BY <1>0 DEF TypeOK
    <3> QED BY <3>1, <3>2
  <2> QED BY <1>0, <1>2, <2>1, OtherSource DEF OrderInv
<1>4. CASE FindDue(s) \/ EosOut(s)
  <2>1. UNCHANGED <<out, hand, queue, pending>>
    BY <1>4 DEF FindDue, EosOut, eventVars
  <2> QED BY <1>0, <1>2, <1>3, <2>1, OtherSource DEF OrderInv
<1>5. CASE Pop(s) \/ SendBuffer(s) \/ SendEvent(s)
  <2>1. PartsInOrder(s)' /\ Contents(s)' \subseteq Contents(s)
    BY <1>5, PopOrder, EmitOrder
  <2>2. OlderThanNews(s)'
    BY <1>0, <1>2, <2>1, OlderKept DEF OrderInv
  <2> QED BY <1>2, <1>3, <2>1, <2>2 DEF OrderInv
<1> QED BY <1>4, <1>5 DEF Create

LEMMA OrderStep == ASSUME IInv, OrderInv, [Next]_vars PROVE OrderInv'
<1>0. IInv'
  BY NextInv
<1>1. CASE UNCHANGED vars
  BY <1>1 DEF vars, sinkVars, eventVars, threadVars, OrderInv, WalksBeforeNow, OlderThanNews,
     PartsInOrder, Contents, Through, InHand, Handing, Moment, Before, InSequence
<1>2. CASE Next
  BY <1>0, <1>2, RenderOrder, DeliverOrder, ControlOrder, CreateOrder DEF Next, HandingOut
<1> QED BY <1>1, <1>2

LEMMA InitOrder == Init => OrderInv
<1> SUFFICES ASSUME Init PROVE OrderInv
  OBVIOUS
<1>1. WalksBeforeNow
  BY DEF Init, WalksBeforeNow
<1>2. ASSUME NEW s \in Srcs PROVE PartsInOrder(s) /\ OlderThanNews(s)
  <2>1. out[s] = <<>> /\ InHand(s) = <<>> /\ queue[s] = <<>> /\ pending[s] = <<>>
    BY DEF Init, InHand
  <2> QED BY <2>1, ShortSequence DEF PartsInOrder, OlderThanNews, Contents, Through, Before
<1> QED BY <1>1, <1>2 DEF OrderInv

\* A source sends the buffers of a node in the order in which the sink handed them
\* out, and its serialized events in the order in which the sink saw them: with any listeners, through any switches, pauses and stops, and whatever
\* events an unlocked queue loses.
THEOREM InOrderAlways == Spec => []InOrder
<1>1. IInv /\ OrderInv => InOrder
  <2> SUFFICES ASSUME IInv, OrderInv, NEW s \in Srcs
               PROVE  InSequence(Line(s)) /\ InSequence(out[s] \o pending[s])
    BY DEF InOrder
  <2> DEFINE Outputs == Cells \union Happenings
  <2>1. /\ out[s] \in Seq(Outputs) /\ InHand(s) \in Seq(Outputs)
        /\ queue[s] \in Seq(Outputs) /\ pending[s] \in Seq(Outputs)
    BY HandTyped DEF IInv, TypeOK
  <2> HIDE DEF Outputs
  <2>2. PartsInOrder(s)
    BY DEF OrderInv
  <2>3. InSequence(out[s] \o pending[s])
    BY <2>1, <2>2, ConcatInSequence DEF PartsInOrder
  <2>4. InSequence(InHand(s))
    BY ShortSequence DEF InHand
  <2> DEFINE gone == out[s] \o InHand(s)
  <2>5. gone \in Seq(Outputs) /\ Range(gone) = Range(out[s]) \union Range(InHand(s))
    BY <2>1, RangeOfConcat
  <2>6. InSequence(gone)
    BY <2>1, <2>2, <2>4, ConcatInSequence DEF PartsInOrder
  <2> HIDE DEF gone
  <2>7. Before(gone, queue[s])
    BY <2>2, <2>5 DEF PartsInOrder, Before
  <2>8. InSequence(gone \o queue[s])
    BY <2>1, <2>2, <2>5, <2>6, <2>7, ConcatInSequence DEF PartsInOrder
  <2> QED BY <2>3, <2>8 DEF Line, gone
<1>2. OrderInv /\ IInv /\ [Next]_vars => OrderInv'
  BY OrderStep
<1> QED BY <1>1, <1>2, InitOrder, Invariance, PTL DEF Spec

-----------------------------------------------------------------------------
(* The buffers that have come to a source *)

Buffers(s) == {x \in Through(s) : IsBuffer(x)}

LEMMA LineThrough == ASSUME TypeOK, NEW s \in Srcs PROVE Range(Line(s)) = Through(s)
<1> DEFINE Outputs == Cells \union Happenings
<1>1. out[s] \in Seq(Outputs) /\ InHand(s) \in Seq(Outputs) /\ queue[s] \in Seq(Outputs)
  BY HandTyped DEF TypeOK
<1> HIDE DEF Outputs
<1> DEFINE gone == out[s] \o InHand(s)
<1>2. gone \in Seq(Outputs) /\ Range(gone) = Range(out[s]) \union Range(InHand(s))
  BY <1>1, RangeOfConcat
<1> HIDE DEF gone
<1>3. Range(gone \o queue[s]) = Range(gone) \union Range(queue[s])
  BY <1>1, <1>2, RangeOfConcat
<1> QED BY <1>2, <1>3 DEF Line, Through, gone

LEMMA BuffersTyped ==
  ASSUME TypeOK, NEW s \in Srcs PROVE Buffers(s) = Through(s) \intersect Cells
<1>1. Through(s) \subseteq Cells \union Happenings
  BY ContentsTyped DEF Through
<1>2. \A x \in Cells : IsBuffer(x)
  BY DEF Cells, IsBuffer
<1>3. \A x \in Happenings : ~IsBuffer(x)
  BY DEF Happenings, IsBuffer
<1> QED BY <1>1, <1>2, <1>3 DEF Buffers

LEMMA SameBuffers ==
  ASSUME NEW s \in Srcs, out'[s] = out[s], hand'[s] = hand[s], queue'[s] = queue[s]
  PROVE  Buffers(s)' = Buffers(s)
BY DEF Buffers, Through, InHand

LEMMA RenderBuffers ==
  ASSUME NEW k \in Sinks, Render(k) \/ Unlock(k), NEW s \in Srcs PROVE Buffers(s)' = Buffers(s)
<1>1. UNCHANGED <<out, hand, queue>>
  BY DEF Render, NewPreroll, NewBuffer, GoLive, SinkEos, SinkEvent, Unlock, threadVars
<1> QED BY <1>1, SameBuffers

LEMMA ControlBuffers ==
  ASSUME TypeOK, NEW s \in Srcs, Control(s), NEW r \in Srcs
  PROVE  /\ Buffers(r)' \subseteq Buffers(r)
         /\ r # s \/ UNCHANGED <<out, queue>> => Buffers(r)' = Buffers(r)
<1>1. UNCHANGED hand
  BY DEF Control, Start, Commit, Play, Pause, Stop, Leave, Join, threadVars
<1>2. /\ UNCHANGED out \/ out' = [out EXCEPT ![s] = <<>>]
      /\ UNCHANGED queue \/ queue' = [queue EXCEPT ![s] = <<>>]
  BY DEF Control, Start, Commit, Play, Pause, Stop, Leave, Join
<1>3. r # s \/ UNCHANGED <<out, queue>> => Buffers(r)' = Buffers(r)
  BY <1>1, <1>2, SameBuffers DEF TypeOK
<1>4. out'[s] \in {out[s], <<>>} /\ queue'[s] \in {queue[s], <<>>} /\ InHand(s)' = InHand(s)
  BY <1>1, <1>2 DEF TypeOK, InHand
<1>5. Buffers(s)' \subseteq Buffers(s)
  BY <1>4, ShortSequence DEF Buffers, Through
<1> QED BY <1>3, <1>5

\* Create only moves buffers on.
LEMMA CreateBuffers ==
  ASSUME TypeOK, TypeOK', NEW s \in Srcs, Create(s), NEW r \in Srcs
  PROVE  Buffers(r)' = Buffers(r)
<1>1. CASE r # s
  <2>1. /\ UNCHANGED out \/ \E xs : out' = [out EXCEPT ![s] = xs]
        /\ UNCHANGED hand \/ \E x : hand' = [hand EXCEPT ![s] = x]
        /\ UNCHANGED queue \/ \E xs : queue' = [queue EXCEPT ![s] = xs]
    BY DEF Create, Pop, SendBuffer, FindDue, SendEvent, EosOut, Emit
  <2>2. DOMAIN out = Srcs /\ DOMAIN hand = Srcs /\ DOMAIN queue = Srcs
    BY DEF TypeOK
  <2> QED BY <1>1, <2>1, <2>2, SameBuffers
<1>2. CASE Pop(s)
  <2> DEFINE y == Head(queue[s])
             rest == Tail(queue[s])
  <2>1. queue[s] \in Seq(Cells) /\ queue[s] # <<>>
    BY <1>2 DEF Pop, TypeOK
  <2>2. y \in Cells /\ Range(queue[s]) = {y} \union Range(rest)
    BY <2>1, RangeOfTail
  <2>3. out'[s] = out[s] /\ queue'[s] = rest /\ hand'[s] = y /\ hand[s] = NULL /\ y # NULL
    <3>1. hand'[s] = y /\ y # NULL
      BY <1>2, <2>2, NullAssumption DEF Pop, TypeOK
    <3>2. hand[s] = NULL
      BY <1>2 DEF Pop, TypeOK
    <3> QED BY <1>2, <3>1, <3>2 DEF Pop, TypeOK
  <2>4. Range(InHand(s)) = {} /\ Range(InHand(s)') = {y}
    BY <2>3, ShortSequence DEF InHand
  <2> HIDE DEF y, rest
  <2>5. Through(s)' = Through(s)
    BY <2>2, <2>3, <2>4 DEF Through
  <2>6. Buffers(s)' = Buffers(s)
    BY <2>5 DEF Buffers
  <2> QED BY <1>1, <2>6
<1>3. CASE SendBuffer(s) \/ SendEvent(s)
  <2> DEFINE y == hand[s]
             Outputs == Cells \union Happenings
  <2>1. y \in Cells /\ y # NULL /\ hand'[s] = NULL /\ queue'[s] = queue[s]
    BY <1>3, NullAssumption DEF SendBuffer, SendEvent, TypeOK
  <2>2. Range(InHand(s)) = {y} /\ Range(InHand(s)') = {}
    BY <2>1, ShortSequence DEF InHand
  <2>3. CASE SendBuffer(s)
    <3> DEFINE zs == <<y>>
    <3>1. out'[s] = out[s] \o zs /\ zs \in Seq(Outputs) /\ out[s] \in Seq(Outputs)
      BY <2>1, <2>3 DEF SendBuffer, Emit, TypeOK
    <3>2. Range(zs) = {y}
      BY ShortSequence
    <3> HIDE DEF zs, Outputs
    <3>3. Range(out'[s]) = Range(out[s]) \union {y}
      BY <3>1, <3>2, RangeOfConcat
    <3>4. Through(s)' = Through(s)
      BY <2>1, <2>2, <3>3 DEF Through
    <3> QED BY <1>1, <3>4 DEF Buffers
  <2>4. CASE SendEvent(s)
    <3> DEFINE e == Head(pending[s])
               zs == <<e, y>>
    <3>1. e \in Happenings
      BY <2>4 DEF SendEvent, TypeOK
    <3>2. out'[s] = out[s] \o zs /\ zs \in Seq(Outputs) /\ out[s] \in Seq(Outputs)
      BY <2>1, <2>4, <3>1 DEF SendEvent, Emit, TypeOK
    <3>3. Range(zs) = {e, y}
      <4>1. DOMAIN zs = {1, 2} /\ zs[1] = e /\ zs[2] = y
        OBVIOUS
      <4> HIDE DEF zs
      <4> QED BY <4>1 DEF Range
    <3> HIDE DEF zs, Outputs, e
    <3>4. Range(out'[s]) = Range(out[s]) \union {e, y}
      BY <3>2, <3>3, RangeOfConcat
    <3>5. Through(s)' = Through(s) \union {e}
      BY <2>1, <2>2, <3>4 DEF Through
    <3>6. ~IsBuffer(e)
      BY <3>1 DEF Happenings, IsBuffer
    <3>7. Buffers(s)' = Buffers(s)
      BY <3>5, <3>6 DEF Buffers
    <3> QED BY <1>1, <3>7
  <2> QED BY <1>3, <2>3, <2>4
<1>4. CASE FindDue(s) \/ EosOut(s)
  <2>1. UNCHANGED <<out, hand, queue>>
    BY <1>4 DEF FindDue, EosOut
  <2> QED BY <2>1, SameBuffers
<1> QED BY <1>2, <1>3, <1>4 DEF Create

\* The buffer that a source makes of m.
Made(s, m) ==
  Item(m, IF Mode[s] = "compensate"
            THEN Compensated(stamp[m.node][m.n], m.base, base[s]) ELSE NULL)

\* A delivery brings a source that takes it the buffer, and nobody else any.
LEMMA DeliverBuffers ==
  ASSUME IInv, IInv', NEW k \in Sinks, NEW s \in Srcs, Deliver(k, s), NEW r \in Srcs
  PROVE  Buffers(r)' =
           IF /\ r = s /\ IsBuffer(walk[k].msg)
              /\ TakesBuffers(s) /\ Synchronizes(s, walk[k].msg) /\ ~eos[s]
             THEN Buffers(r) \union {Made(s, walk[k].msg)} ELSE Buffers(r)
<1> DEFINE m == walk[k].msg
<1>0. TypeOK /\ TypeOK'
  BY DEF IInv
<1>1. UNCHANGED hand
  BY DEF Deliver, threadVars
<1>2. CASE IsBuffer(m)
  <2>1. PushBuffer(s, m) /\ UNCHANGED out
    BY <1>2 DEF Deliver, IsBuffer
  <2>2. CASE TakesBuffers(s) /\ Synchronizes(s, m) /\ ~eos[s]
    <3> DEFINE y == Made(s, m)
    <3>1. queue' = [queue EXCEPT ![s] = Append(@, y)]
      BY <2>1, <2>2 DEF PushBuffer, AppsrcPush, Made
    <3>2. y.kind = "buffer"
      BY DEF Made, Item
    <3> HIDE DEF y
    <3>3. queue[s] \in Seq(Cells) /\ queue'[s] = Append(queue[s], y)
      BY <1>0, <3>1 DEF TypeOK
    <3>4. y \in Cells
      <4>1. queue'[s] \in Seq(Cells)
        BY <1>0 DEF TypeOK
      <4>2. Len(queue'[s]) = Len(queue[s]) + 1 /\ queue'[s][Len(queue[s]) + 1] = y
        BY <3>3
      <4> QED BY <3>3, <4>1, <4>2
    <3>5. Range(queue'[s]) = Range(queue[s]) \union {y}
      BY <3>3, <3>4, RangeOfAppend
    <3>6. CASE r = s
      <4>1. InHand(s)' = InHand(s) /\ out'[s] = out[s]
        BY <1>1, <2>1 DEF InHand
      <4>2. Buffers(s)' = Buffers(s) \union {y}
        BY <3>2, <3>5, <4>1 DEF Buffers, Through, IsBuffer
      <4> QED BY <1>2, <2>2, <3>6, <4>2 DEF y
    <3>7. CASE r # s
      <4>1. queue'[r] = queue[r]
        BY <1>0, <3>1, <3>7 DEF TypeOK
      <4> QED BY <1>1, <2>1, <3>7, <4>1, SameBuffers
    <3> QED BY <3>6, <3>7
  <2>3. CASE ~(TakesBuffers(s) /\ Synchronizes(s, m) /\ ~eos[s])
    <3>1. UNCHANGED queue
      BY <2>1, <2>3 DEF PushBuffer, AppsrcPush
    <3> QED BY <1>1, <2>1, <2>3, <3>1, SameBuffers
  <2> QED BY <2>2, <2>3
<1>3. CASE ~IsBuffer(m)
  <2>1. UNCHANGED queue
    BY <1>3 DEF Deliver, IsBuffer
  <2>2. CASE UNCHANGED out
    BY <1>1, <1>3, <2>1, <2>2, SameBuffers
  <2>3. CASE m.kind = "event" /\ out' = [out EXCEPT ![s] = Append(@, Happening(m, s))]
    <3> DEFINE y == Happening(m, s)
               Outputs == Cells \union Happenings
    <3>1. ~IsBuffer(y)
      BY DEF Happening, IsBuffer
    <3> HIDE DEF y
    <3>2. out[s] \in Seq(Outputs) /\ out'[s] \in Seq(Outputs) /\ out'[s] = Append(out[s], y)
      BY <1>0, <2>3 DEF TypeOK, y
    <3> HIDE DEF Outputs
    <3>3. y \in Outputs
      <4>1. Len(out'[s]) = Len(out[s]) + 1 /\ out'[s][Len(out[s]) + 1] = y
        BY <3>2
      <4> QED BY <3>2, <4>1
    <3>4. Range(out'[s]) = Range(out[s]) \union {y}
      BY <3>2, <3>3, RangeOfAppend
    <3>5. Buffers(s)' = Buffers(s)
      BY <1>1, <2>1, <3>1, <3>4 DEF Buffers, Through, InHand
    <3>6. CASE r # s
      <4>1. DOMAIN out = Srcs
        BY <1>0 DEF TypeOK
      <4>2. out'[r] = out[r]
        BY <2>3, <3>6, <4>1
      <4> QED BY <1>1, <2>1, <3>6, <4>2, SameBuffers
    <3> QED BY <1>3, <3>5, <3>6
  <2> QED BY <1>3, <2>2, <2>3 DEF Deliver, PushEvent, IsBuffer
<1> QED BY <1>2, <1>3

-----------------------------------------------------------------------------
(* No buffer is missed *)

\* The stamps that all listeners share are those that were rendered, or none.
StampsInv == \A k \in Sinks : \A n \in DOMAIN Media[k] : stamp[k][n] \in {Media[k][n], Restarted}

\* A sink hands out the last buffer it rendered, or it has rendered none yet and
\* hands out the first one for the preroll, before its pipeline has a base time.
RenderedInv ==
  \A k \in Sinks :
    /\ phase[k] \in {"fresh", "prerolled"} => sent[k] = 0
    /\ walk[k] # NULL /\ IsBuffer(walk[k].msg) =>
         LET m == walk[k].msg IN
         \/ m.n = sent[k] /\ m.base = NodeBase[k]
         \/ sent[k] = 0 /\ m.n = 1 /\ m.base = 0

\* Source s has buffer n of node k, is next to get it, or does not take it.
Answered(s, k, n) ==
  \/ \E x \in Buffers(s) : x.node = k /\ x.n = n
  \/ walk[k] # NULL /\ s \in walk[k].todo /\ IsBuffer(walk[k].msg) /\ walk[k].msg.n = n
  \/ Mode[s] = "compensate" /\ ~PtsFits(Media[k][n].pts, NodeBase[k], base[s])

AllAnswered(s) ==
  on[s] # NULL /\ TakesBuffers(s) /\ ~eos[s] =>
    \A n \in since[s] + 1 .. sent[on[s]] : Answered(s, on[s], n)

MissedInv == StampsInv /\ RenderedInv /\ \A s \in Srcs : AllAnswered(s)

LEMMA StampsStep == ASSUME IInv, StampsInv, [Next]_vars PROVE StampsInv'
<1>1. ASSUME NEW k \in Sinks, NEW s \in Srcs, Deliver(k, s) PROVE StampsInv'
  <2> DEFINE m == walk[k].msg
  <2>1. CASE UNCHANGED stamp
    BY <2>1 DEF StampsInv
  <2>2. CASE IsBuffer(m) /\ stamp' = [stamp EXCEPT ![m.node][m.n] = Restarted]
    <3>1. m.node = k /\ m.n \in DOMAIN stamp[k]
      BY <1>1, <2>2 DEF IInv, NoStaleWalk, Deliver
    <3>2. stamp' = [stamp EXCEPT ![k] = [stamp[k] EXCEPT ![m.n] = Restarted]]
      BY <2>2, <3>1
    <3>3. stamp[k] \in Seq(Pairs) /\ DOMAIN stamp = Sinks
      BY DEF IInv, TypeOK
    <3>4. \A j \in Sinks \ {k} : stamp'[j] = stamp[j]
      BY <3>2, <3>3
    <3>5. \A n \in DOMAIN stamp[k] : stamp'[k][n] \in {stamp[k][n], Restarted}
      BY <3>2, <3>3
    <3>6. DOMAIN Media[k] = DOMAIN stamp[k]
      BY <3>3 DEF IInv, TypeOK
    <3> QED BY <3>4, <3>5, <3>6 DEF StampsInv
  <2> QED BY <1>1, <2>1, <2>2 DEF Deliver, PushBuffer, IsBuffer
<1>2. CASE UNCHANGED stamp
  BY <1>2 DEF StampsInv
<1> QED BY <1>1, <1>2 DEF Next, vars, Create, Control, Render, HandingOut, NewPreroll, NewBuffer,
       GoLive, SinkEos, SinkEvent, Unlock, Start, Commit, Play, Pause, Stop, Leave, Join, Pop,
       SendBuffer, FindDue, SendEvent, EosOut


\* A delivery leaves the message to the listeners that still wait for it.
LEMMA DeliverMsg ==
  ASSUME TypeOK, NEW k \in Sinks, NEW s \in Srcs, Deliver(k, s), NEW j \in Sinks
  PROVE  /\ walk'[j] # NULL <=> walk[j] # NULL
         /\ walk[j] # NULL => /\ walk'[j].msg = walk[j].msg
                              /\ walk'[j].todo = IF j = k THEN walk[j].todo \ {s} ELSE walk[j].todo
<1>1. walk[k] \in Walks /\ walk' = [walk EXCEPT ![k] = [walk[k] EXCEPT !.todo = @ \ {s}]]
  BY DEF Deliver, TypeOK
<1> DEFINE w == [walk[k] EXCEPT !.todo = @ \ {s}]
<1>2. w \in Walks /\ w.msg = walk[k].msg /\ w.todo = walk[k].todo \ {s}
  BY <1>1 DEF Walks
<1> HIDE DEF w
<1>3. walk[k] # NULL /\ w # NULL
  BY <1>2, NullAssumption DEF Deliver
<1> QED BY <1>1, <1>2, <1>3 DEF TypeOK, w

LEMMA RenderedStep == ASSUME IInv, RenderedInv, [Next]_vars PROVE RenderedInv'
<1>0. TypeOK
  BY DEF IInv
<1>1. ASSUME NEW k \in Sinks, NewPreroll(k) PROVE RenderedInv'
  <2>1. /\ sent[k] = 0 /\ UNCHANGED sent /\ phase[k] = "fresh"
        /\ \A j \in Sinks \ {k} : phase'[j] = phase[j]
    BY <1>0, <1>1 DEF NewPreroll, RenderedInv, TypeOK
  <2>2. walk'[k].msg.n = 1 /\ walk'[k].msg.base = 0 /\ \A j \in Sinks \ {k} : walk'[j] = walk[j]
    BY <1>0, <1>1, HandOutWalk DEF NewPreroll, ProcessSample, BaseOf
  <2> QED BY <2>1, <2>2 DEF RenderedInv
<1>2. ASSUME NEW k \in Sinks, NewBuffer(k) PROVE RenderedInv'
  <2>1. /\ sent'[k] = sent[k] + 1 /\ UNCHANGED phase /\ phase[k] = "live"
        /\ \A j \in Sinks \ {k} : sent'[j] = sent[j]
    BY <1>0, <1>2 DEF NewBuffer, TypeOK
  <2>2. /\ walk'[k].msg.n = sent'[k] /\ walk'[k].msg.base = NodeBase[k]
        /\ \A j \in Sinks \ {k} : walk'[j] = walk[j]
    BY <1>0, <1>2, <2>1, HandOutWalk DEF NewBuffer, ProcessSample, BaseOf
  <2> QED BY <2>1, <2>2 DEF RenderedInv
<1>3. ASSUME NEW k \in Sinks, GoLive(k) \/ SinkEos(k) PROVE RenderedInv'
  <2>1. /\ UNCHANGED sent /\ phase'[k] \in {"live", "done"}
        /\ \A j \in Sinks \ {k} : phase'[j] = phase[j]
    BY <1>0, <1>3 DEF GoLive, SinkEos, TypeOK
  <2>2. \A j \in Sinks : walk'[j] = walk[j] \/ ~IsBuffer(walk'[j].msg)
    BY <1>0, <1>3, HandOutWalk DEF GoLive, SinkEos, IsBuffer
  <2> QED BY <2>1, <2>2 DEF RenderedInv
<1>4. ASSUME NEW k \in Sinks, NEW kind \in {"serialized", "oob"}, SinkEvent(k, kind)
      PROVE  RenderedInv'
  <2>1. UNCHANGED <<sent, phase>>
    BY <1>4 DEF SinkEvent
  <2>2. \A j \in Sinks : walk'[j] = walk[j] \/ ~IsBuffer(walk'[j].msg)
    BY <1>0, <1>4, HandOutWalk DEF SinkEvent, IsBuffer
  <2> QED BY <2>1, <2>2 DEF RenderedInv
<1>5. ASSUME NEW k \in Sinks, Unlock(k) PROVE RenderedInv'
  <2>1. UNCHANGED <<sent, phase>> /\ \A j \in Sinks : walk'[j] = walk[j] \/ walk'[j] = NULL
    BY <1>0, <1>5 DEF Unlock, sinkVars, TypeOK
  <2> QED BY <2>1 DEF RenderedInv
<1>6. ASSUME NEW k \in Sinks, NEW s \in Srcs, Deliver(k, s) PROVE RenderedInv'
  <2>1. UNCHANGED <<sent, phase>>
    BY <1>6 DEF Deliver, sinkVars
  <2>2. \A j \in Sinks : (walk'[j] # NULL => walk[j] # NULL /\ walk'[j].msg = walk[j].msg)
    BY <1>0, <1>6, DeliverMsg
  <2> QED BY <2>1, <2>2 DEF RenderedInv
<1>7. CASE UNCHANGED <<sent, phase, walk>>
  BY <1>7 DEF RenderedInv
<1>8. ASSUME NEW s \in Srcs, Create(s) \/ Control(s) PROVE UNCHANGED <<sent, phase, walk>>
  BY <1>8 DEF Create, Control, sinkVars, Start, Commit, Play, Pause, Stop, Leave, Join, Pop,
     SendBuffer, FindDue, SendEvent, EosOut
<1>9. CASE UNCHANGED vars
  BY <1>7, <1>9 DEF vars, sinkVars
<1> QED BY <1>1, <1>2, <1>3, <1>4, <1>5, <1>6, <1>7, <1>8, <1>9 DEF Next, Render, HandingOut

\* What was answered stays so while the source keeps its buffers and its place in
\* the walk.
LEMMA StillAnswered ==
  ASSUME NEW s \in Srcs, NEW k \in Sinks, NEW n, Answered(s, k, n),
         Buffers(s) \subseteq Buffers(s)',
         Mode[s] = "compensate" => base'[s] = base[s],
         walk[k] # NULL /\ s \in walk[k].todo =>
           walk'[k] # NULL /\ s \in walk'[k].todo /\ walk'[k].msg = walk[k].msg
  PROVE  Answered(s, k, n)'
BY DEF Answered

\* A step that a source has nothing to do with, or in which it stops to take buffers.
LEMMA KeptAnswered ==
  ASSUME TypeOK, NEW s \in Srcs, AllAnswered(s), UNCHANGED <<sent, walk>>,
         on'[s] = on[s], since'[s] = since[s], eos'[s] = eos[s],
         TakesBuffers(s)' => TakesBuffers(s),
         Mode[s] = "compensate" => base'[s] = base[s],
         Buffers(s)' = Buffers(s)
  PROVE  AllAnswered(s)'
<1> SUFFICES ASSUME on[s] # NULL, TakesBuffers(s), ~eos[s], NEW n \in since[s] + 1 .. sent[on[s]]
             PROVE  Answered(s, on[s], n)'
  BY DEF AllAnswered
<1>1. on[s] \in Sinks /\ Answered(s, on[s], n)
  BY DEF TypeOK, AllAnswered
<1> QED BY <1>1, StillAnswered

\* The sink renders a buffer: all its listeners are to get it.
LEMMA RenderAnswered ==
  ASSUME IInv, IInv', NEW k \in Sinks, Render(k) \/ Unlock(k), NEW s \in Srcs, AllAnswered(s)
  PROVE  AllAnswered(s)'
<1>0. TypeOK /\ TypeOK' /\ Buffers(s)' = Buffers(s)
  BY RenderBuffers DEF IInv
<1>1. UNCHANGED <<on, state, eos, since, base>>
  BY DEF Render, NewPreroll, NewBuffer, GoLive, SinkEos, SinkEvent, Unlock, srcVars
<1> SUFFICES ASSUME on[s] # NULL, TakesBuffers(s), ~eos[s], NEW n \in since[s] + 1 .. sent'[on[s]]
             PROVE  Answered(s, on[s], n)'
  BY <1>1 DEF AllAnswered, TakesBuffers
<1> DEFINE j == on[s]
<1>2. j \in Sinks
  BY <1>0 DEF TypeOK
<1>3. walk[j] # NULL => walk'[j] = walk[j] \/ walk[j].todo = {}
  <2>1. CASE Unlock(k)
    BY <1>0, <2>1 DEF Unlock, TypeOK
  <2>2. \/ UNCHANGED walk
        \/ Unlock(k)
        \/ walk[k] = NULL /\ \E w : walk' = [walk EXCEPT ![k] = w]
    <3>1. ASSUME NEW m, HandOut(k, m) PROVE walk[k] = NULL /\ \E w : walk' = [walk EXCEPT ![k] = w]
      BY <3>1 DEF HandOut
    <3>2. CASE NewPreroll(k) \/ NewBuffer(k)
      BY <3>1, <3>2 DEF NewPreroll, NewBuffer, ProcessSample
    <3>3. ASSUME NEW kind \in {"serialized", "oob"}, SinkEvent(k, kind)
          PROVE  walk[k] = NULL /\ \E w : walk' = [walk EXCEPT ![k] = w]
      BY <3>1, <3>3 DEF SinkEvent
    <3>4. CASE SinkEos(k)
      <4>1. UNCHANGED walk \/ HandOut(k, [kind |-> "eos", node |-> k])
        BY <3>4 DEF SinkEos
      <4> QED BY <3>1, <4>1
    <3>5. CASE GoLive(k) \/ Unlock(k)
      BY <3>5 DEF GoLive
    <3>6. \/ NewPreroll(k) \/ NewBuffer(k) \/ GoLive(k) \/ SinkEos(k) \/ Unlock(k)
          \/ \E kind \in {"serialized", "oob"} : SinkEvent(k, kind)
      BY DEF Render
    <3> QED BY <3>2, <3>3, <3>4, <3>5, <3>6
  <2>3. DOMAIN walk = Sinks
    BY <1>0 DEF TypeOK
  <2> QED BY <1>2, <2>1, <2>2, <2>3
<1>4. CASE n \in since[s] + 1 .. sent[j]
  <2>1. Answered(s, j, n)
    BY <1>4 DEF AllAnswered
  <2> QED BY <1>0, <1>1, <1>2, <1>3, <2>1, StillAnswered
<1>5. CASE NewBuffer(k) /\ j = k /\ n = sent[k] + 1
  <2> DEFINE m == [kind |-> "buffer", node |-> k, n |-> n, at |-> Moment(k), base |-> BaseOf(k)]
             w == [msg |-> m, todo |-> Listeners(k)]
  <2>1. walk' = [walk EXCEPT ![k] = w]
    BY <1>5 DEF NewBuffer, ProcessSample, HandOut
  <2>2. w # NULL
    <3>1. sent[k] \in Nat
      BY <1>0 DEF TypeOK
    <3>2. n \in Nat /\ Moment(k) \in Nat /\ BaseOf(k) \in Stamps
      BY <1>0, <1>5, <3>1, MomentTyped, BaseTyped
    <3>3. w \in Walks
      BY <3>2 DEF Walks, Renderings, Listeners
    <3> QED BY <3>3, NullAssumption
  <2>3. IsBuffer(w.msg) /\ w.msg.n = n /\ w.todo = Listeners(k)
    BY DEF IsBuffer
  <2> HIDE DEF w
  <2>4. walk'[k] = w
    BY <1>0, <2>1 DEF TypeOK
  <2>5. s \in Listeners(k)
    BY <1>5 DEF Listeners
  <2> QED BY <1>1, <1>5, <2>2, <2>3, <2>4, <2>5 DEF Answered
<1>6. n \in since[s] + 1 .. sent[j] \/ (NewBuffer(k) /\ j = k /\ n = sent[k] + 1)
  <2>0. since[s] \in Nat /\ sent[j] \in Nat
    BY <1>0, <1>2 DEF TypeOK
  <2>1. UNCHANGED sent \/ (NewBuffer(k) /\ sent' = [sent EXCEPT ![k] = @ + 1])
    BY DEF Render, NewPreroll, NewBuffer, GoLive, SinkEos, SinkEvent, Unlock, sinkVars
  <2>2. sent'[j] = sent[j] \/ (NewBuffer(k) /\ j = k /\ sent'[j] = sent[j] + 1)
    <3>1. DOMAIN sent = Sinks
      BY <1>0 DEF TypeOK
    <3> QED BY <1>2, <2>1, <3>1
  <2> QED BY <1>1, <2>0, <2>2
<1> QED BY <1>4, <1>5, <1>6

\* A source that refuses a buffer does so because compensation puts it before the
\* base time of its own pipeline.
LEMMA RefusedRightly ==
  ASSUME IInv, StampsInv, RenderedInv, NEW k \in Sinks, NEW s \in Srcs, Deliver(k, s),
         IsBuffer(walk[k].msg), sent[k] # 0, ~Synchronizes(s, walk[k].msg)
  PROVE  Mode[s] = "compensate" /\ ~PtsFits(Media[k][walk[k].msg.n].pts, NodeBase[k], base[s])
<1> DEFINE m == walk[k].msg
<1>1. m.node = k /\ m.n \in DOMAIN stamp[k] /\ m.base = NodeBase[k]
  BY DEF IInv, NoStaleWalk, RenderedInv, Deliver
<1>2. Mode[s] = "compensate" /\ ~PtsFits(stamp[k][m.n].pts, NodeBase[k], base[s])
  BY <1>1 DEF Synchronizes
<1>3. stamp[k][m.n] \in {Media[k][m.n], Restarted}
  <2>1. DOMAIN Media[k] = DOMAIN stamp[k]
    BY DEF IInv, TypeOK
  <2> QED BY <1>1, <2>1 DEF StampsInv
<1>4. PtsFits(NONE, NodeBase[k], base[s])
  <2>1. NodeBase[k] \in 0 .. W - 1 /\ base[s] \in 0 .. W - 1
    BY DEF IInv, TypeOK, Stamps
  <2> QED BY <2>1, WidthAssumption DEF PtsFits, NONE
<1>5. Restarted.pts = NONE
  BY DEF Restarted
<1> QED BY <1>2, <1>3, <1>4, <1>5

LEMMA DeliverAnswered ==
  ASSUME IInv, IInv', StampsInv, RenderedInv, NEW k \in Sinks, NEW r \in Srcs, Deliver(k, r),
         NEW s \in Srcs, AllAnswered(s)
  PROVE  AllAnswered(s)'
<1> DEFINE m == walk[k].msg
           j == on[s]
<1>0. TypeOK /\ TypeOK'
  BY DEF IInv
<1>1. UNCHANGED <<on, state, since, base, sent>>
  BY DEF Deliver, srcVars, sinkVars
<1>2. ~eos'[s] => ~eos[s]
  <2>1. UNCHANGED eos \/ SendEos(r)
    BY DEF Deliver
  <2>2. UNCHANGED eos \/ eos' = [eos EXCEPT ![r] = TRUE]
    BY <2>1 DEF SendEos
  <2>3. DOMAIN eos = Srcs
    BY <1>0 DEF TypeOK
  <2> QED BY <2>2, <2>3
<1>3. Buffers(s) \subseteq Buffers(s)'
  BY DeliverBuffers
<1> SUFFICES ASSUME j # NULL, TakesBuffers(s), ~eos[s], NEW n \in since[s] + 1 .. sent[j]
             PROVE  Answered(s, j, n)'
  BY <1>1, <1>2 DEF AllAnswered, TakesBuffers
<1>4. j \in Sinks /\ Answered(s, j, n)
  BY <1>0 DEF TypeOK, AllAnswered
<1>5. walk[j] # NULL => /\ walk'[j] # NULL /\ walk'[j].msg = walk[j].msg
                        /\ j # k \/ s # r => (s \in walk[j].todo => s \in walk'[j].todo)
  <2>1. \A i \in Sinks :
          /\ walk'[i] # NULL <=> walk[i] # NULL
          /\ walk[i] # NULL => /\ walk'[i].msg = walk[i].msg
                               /\ walk'[i].todo = IF i = k THEN walk[i].todo \ {r} ELSE walk[i].todo
    BY <1>0, DeliverMsg
  <2> QED BY <1>4, <2>1
<1>6. CASE ~(j = k /\ s = r /\ IsBuffer(m) /\ m.n = n)
  BY <1>1, <1>3, <1>4, <1>5, <1>6 DEF Answered
<1>7. CASE j = k /\ s = r /\ IsBuffer(m) /\ m.n = n
  <2>1. CASE Synchronizes(s, m)
    <3>1. Made(s, m) \in Buffers(s)'
      BY <1>7, <2>1, DeliverBuffers
    <3>2. m.node = k
      BY DEF Deliver, IInv, NoStaleWalk
    <3>3. Made(s, m).node = k /\ Made(s, m).n = n
      BY <1>7, <3>2 DEF Made, Item
    <3> HIDE DEF m
    <3> QED BY <1>1, <1>7, <3>1, <3>3 DEF Answered
  <2>2. CASE ~Synchronizes(s, m)
    <3>1. sent[k] # 0
      BY <1>0, <1>7 DEF TypeOK
    <3> QED BY <1>1, <1>7, <2>2, <3>1, RefusedRightly DEF Answered
  <2> QED BY <2>1, <2>2
<1> QED BY <1>6, <1>7

LEMMA ControlAnswered ==
  ASSUME IInv, IInv', NEW r \in Srcs, Control(r), NEW s \in Srcs, AllAnswered(s)
  PROVE  AllAnswered(s)'
<1>0. TypeOK /\ TypeOK'
  BY DEF IInv
<1>1. UNCHANGED <<sent, walk>>
  BY DEF Control, Start, Commit, Play, Pause, Stop, Leave, Join, sinkVars
\* The source is as it was, or it is paused or (if that is none of its business) plays.
<1>2. CASE /\ on'[s] = on[s] /\ since'[s] = since[s] /\ eos'[s] = eos[s]
           /\ TakesBuffers(s)' => TakesBuffers(s)
           /\ Mode[s] = "compensate" => base'[s] = base[s]
           /\ Buffers(s)' = Buffers(s)
  BY <1>0, <1>1, <1>2, KeptAnswered
\* It begins to listen, or to take buffers: all the sink rendered is past.
<1>3. CASE on'[s] # NULL => since'[s] = sent[on'[s]]
  <2>1. on'[s] # NULL => sent[on'[s]] \in Nat
    BY <1>0 DEF TypeOK
  <2>2. on'[s] # NULL => since'[s] + 1 .. sent'[on'[s]] = {}
    BY <1>1, <1>3, <2>1
  <2> QED BY <2>2 DEF AllAnswered
\* It does not take buffers.
<1>4. CASE ~TakesBuffers(s)'
  BY <1>4 DEF AllAnswered
<1>5. CASE s # r
  <2>1. Buffers(s)' = Buffers(s)
    BY <1>0, <1>5, ControlBuffers
  <2>2. on'[s] = on[s] /\ since'[s] = since[s] /\ eos'[s] = eos[s] /\ state'[s] = state[s] /\ base'[s] = base[s]
    <3>1. /\ UNCHANGED on \/ \E x : on' = [on EXCEPT ![r] = x]
          /\ UNCHANGED since \/ \E x : since' = [since EXCEPT ![r] = x]
          /\ UNCHANGED eos \/ \E x : eos' = [eos EXCEPT ![r] = x]
          /\ UNCHANGED state \/ \E x : state' = [state EXCEPT ![r] = x]
          /\ UNCHANGED base \/ \E x : base' = [base EXCEPT ![r] = x]
      BY DEF Control, Start, Commit, Play, Pause, Stop, Leave, Join
    <3>2. DOMAIN on = Srcs /\ DOMAIN since = Srcs /\ DOMAIN eos = Srcs /\ DOMAIN state = Srcs /\ DOMAIN base = Srcs
      BY <1>0 DEF TypeOK
    <3> QED BY <1>5, <3>1, <3>2
  <2> QED BY <1>2, <2>1, <2>2 DEF TakesBuffers
<1>6. CASE s = r /\ (Start(s) \/ Stop(s))
  <2>1. state'[s] \in {"starting", "null"}
    BY <1>0, <1>6 DEF Start, Stop, TypeOK
  <2> QED BY <1>4, <2>1 DEF TakesBuffers
<1>7. CASE s = r /\ (Commit(s) \/ Leave(s) \/ \E k \in Sinks : Join(s, k))
  BY <1>0, <1>3, <1>7 DEF Commit, Leave, Join, TypeOK
<1>8. CASE s = r /\ Pause(s)
  <2>1. UNCHANGED <<on, since, eos, base, out, queue>> /\ state[s] = "playing" /\ state'[s] = "paused"
    BY <1>0, <1>8 DEF Pause, TypeOK
  <2>2. Buffers(s)' = Buffers(s)
    BY <1>0, <1>8, <2>1, ControlBuffers
  <2> QED BY <1>2, <2>1, <2>2 DEF TakesBuffers
<1>9. CASE s = r /\ Play(s)
  <2>1. UNCHANGED <<on, eos, out, queue>> /\ state[s] = "paused" /\ state'[s] = "playing"
    BY <1>0, <1>9 DEF Play, TypeOK
  <2>2. Buffers(s)' = Buffers(s)
    BY <1>0, <1>9, <2>1, ControlBuffers
  <2>3. CASE Mode[s] = "compensate"
    BY <1>0, <1>3, <1>9, <2>1, <2>3 DEF Play, TypeOK
  <2>4. CASE Mode[s] # "compensate"
    <3>1. since'[s] = since[s]
      BY <1>0, <1>9, <2>4 DEF Play, TypeOK
    <3> QED BY <1>2, <2>1, <2>2, <2>4, <3>1 DEF TakesBuffers
  <2> QED BY <2>3, <2>4
<1> QED BY <1>5, <1>6, <1>7, <1>8, <1>9 DEF Control

LEMMA MissedStep == ASSUME IInv, MissedInv, [Next]_vars PROVE MissedInv'
<1>0. IInv' /\ StampsInv' /\ RenderedInv'
  BY NextInv, StampsStep, RenderedStep DEF MissedInv
<1>1. ASSUME NEW r \in Srcs, Create(r), NEW s \in Srcs PROVE AllAnswered(s)'
  <2>1. UNCHANGED <<on, state, since, base, eos, sent, walk>>
    BY <1>1 DEF Create, Pop, SendBuffer, FindDue, SendEvent, EosOut, srcVars, sinkVars
  <2>2. Buffers(s)' = Buffers(s)
    <3>1. TypeOK /\ TypeOK'
      BY <1>0 DEF IInv
    <3> QED BY <1>1, <3>1, CreateBuffers
  <2>3. TakesBuffers(s)' = TakesBuffers(s)
    BY <2>1 DEF TakesBuffers
  <2> QED BY <2>1, <2>2, <2>3, KeptAnswered DEF MissedInv, IInv
<1>2. CASE UNCHANGED vars
  <2>1. UNCHANGED <<on, state, since, base, eos, sent, walk, out, hand, queue>>
    BY <1>2 DEF vars, srcVars, sinkVars, threadVars
  <2>2. \A s \in Srcs : Buffers(s)' = Buffers(s)
    BY <2>1, SameBuffers
  <2>3. \A s \in Srcs : AllAnswered(s)'
    <3>1. \A s \in Srcs : TakesBuffers(s)' = TakesBuffers(s)
      BY <2>1 DEF TakesBuffers
    <3> QED BY <2>1, <2>2, <3>1, KeptAnswered DEF MissedInv, IInv
  <2> QED BY <1>0, <2>3 DEF MissedInv
<1> QED BY <1>0, <1>1, <1>2, RenderAnswered, DeliverAnswered, ControlAnswered
    DEF MissedInv, Next, HandingOut

LEMMA InitMissed == Init => MissedInv
<1> SUFFICES ASSUME Init PROVE MissedInv
  OBVIOUS
<1>1. StampsInv /\ RenderedInv
  BY DEF Init, StampsInv, RenderedInv
<1>2. ASSUME NEW s \in Srcs PROVE AllAnswered(s)
  <2>1. on[s] # NULL => on[s] \in Sinks
    <3>1. IInv
      BY InitInv
    <3> QED BY <3>1 DEF IInv, TypeOK
  <2>2. on[s] # NULL => since[s] + 1 .. sent[on[s]] = {}
    BY <2>1 DEF Init
  <2> QED BY <2>2 DEF AllAnswered
<1> QED BY <1>1, <1>2 DEF MissedInv

\* A source that can take buffers gets every buffer its node renders while it is
\* attached, through any switches and pauses of its own and of other listeners and
\* whatever they do to the stamps; but for those that compensation puts before its
\* own base time.
THEOREM NothingMissedAlways == Spec => []NothingMissed
<1>1. IInv /\ MissedInv => NothingMissed
  <2> SUFFICES ASSUME IInv, MissedInv, NEW s \in Srcs, on[s] # NULL, TakesBuffers(s), ~eos[s],
                      NEW n \in since[s] + 1 .. sent[on[s]]
               PROVE  \/ \E x \in Range(Line(s)) : IsBuffer(x) /\ x.node = on[s] /\ x.n = n
                      \/ walk[on[s]] # NULL /\ s \in walk[on[s]].todo /\ IsBuffer(walk[on[s]].msg)
                         /\ walk[on[s]].msg.n = n
                      \/ Mode[s] = "compensate"
                         /\ ~PtsFits(Media[on[s]][n].pts, NodeBase[on[s]], base[s])
    BY DEF NothingMissed
  <2>1. Answered(s, on[s], n)
    BY DEF MissedInv, AllAnswered
  <2>2. Range(Line(s)) = Through(s)
    BY LineThrough DEF IInv
  <2> QED BY <2>1, <2>2 DEF Answered, Buffers
<1>2. MissedInv /\ IInv /\ [Next]_vars => MissedInv'
  BY MissedStep
<1> QED BY <1>1, <1>2, InitMissed, Invariance, PTL DEF Spec

-----------------------------------------------------------------------------
(* Stamps denote the instant at which the buffer was rendered *)

\* What a listener needs for buffer b of a node with base time nodeBase to be the
\* same instant when its own base time is myBase: the range of a stamp holds it
\* and, if PTS passes the check, DTS would too.
SameInstant(b, nodeBase, myBase) ==
  PtsFits(b.pts, nodeBase, myBase) =>
    /\ b.pts + nodeBase < W + myBase
    /\ b.dts # NONE => PtsFits(b.dts, nodeBase, myBase) /\ b.dts + nodeBase < W + myBase

\* No listener that restarts stamps is there with one of the same node that does
\* not, and a source that compensates gets the same base time whenever it plays.
Steady ==
  /\ \A scene \in Scenes, s, r \in Srcs :
       /\ scene[s] # "off" /\ scene[r] # "off"
       /\ Nodes[s] \intersect Nodes[r] # {}
       /\ Mode[r] = "restart"
       => Mode[s] = "restart"
  /\ \A s \in Srcs \intersect Halts : Mode[s] = "compensate" => \A a, b \in Bases[s] : a = b

\* A source that compensates gets only buffers that it can compensate, or refuses:
\* those it gets of a preroll have no base time yet.
KeepsTime ==
  /\ Steady
  /\ \A s \in Srcs : Mode[s] = "compensate" =>
       \A k \in Nodes[s], b \in Bases[s] :
         /\ \A n \in DOMAIN Media[k] : SameInstant(Media[k][n], NodeBase[k], b)
         /\ Media[k] # <<>> => NodeBase[k] = 0 \/ ~PtsFits(Media[k][1].pts, 0, b)

\* When a listener is there and lets stamps be, those of its nodes stay.
CleanInv ==
  \A s \in Srcs : state[s] # "off" /\ Mode[s] # "restart" =>
    \A k \in Nodes[s] : stamp[k] = Media[k]

\* No listener that restarts stamps shares a node with one that does not.
SceneInv ==
  \A s, r \in Srcs :
    /\ state[s] # "off" /\ state[r] # "off"
    /\ Nodes[s] \intersect Nodes[r] # {}
    /\ Mode[r] = "restart"
    => Mode[s] = "restart"

\* A source is attached to one of its nodes, and only has buffers of these.
HomesInv ==
  \A s \in Srcs :
    /\ on[s] # NULL => on[s] \in Nodes[s] /\ state[s] # "off"
    /\ \A x \in Buffers(s) : x.node \in Nodes[s] /\ state[s] # "off"

\* The base time of a source that compensates stays while it has buffers.
BaseInv ==
  \A s \in Srcs : Mode[s] = "compensate" =>
    /\ state[s] = "playing" \/ Buffers(s) # {} => base[s] \in Bases[s]
    /\ s \notin Halts /\ state[s] # "playing" => Buffers(s) = {}

SteadyInv == CleanInv /\ SceneInv /\ HomesInv /\ BaseInv

\* A source that compensates has copies, each of the instant of its original; the
\* others have the buffers of the node.
OwnInv ==
  \A s \in Srcs : \A x \in Buffers(s) :
    LET was == Media[x.node][x.n] IN
    /\ x.n \in DOMAIN Media[x.node]
    /\ Mode[s] # "compensate" => x.own = NULL
    /\ Mode[s] = "compensate" =>
         /\ x.own # NULL
         /\ x.own.pts + base[s] = was.pts + NodeBase[x.node]
         /\ was.dts # NONE => x.own.dts + base[s] = was.dts + NodeBase[x.node]

\* Where neither the sources, the stamps nor the buffers change.
LEMMA SameSteady ==
  ASSUME SteadyInv, UNCHANGED <<on, state, base, stamp>>, \A s \in Srcs : Buffers(s)' = Buffers(s)
  PROVE  SteadyInv'
<1>1. CleanInv' /\ SceneInv'
  BY DEF SteadyInv, CleanInv, SceneInv
<1>2. HomesInv' /\ BaseInv'
  BY DEF SteadyInv, HomesInv, BaseInv
<1> QED BY <1>1, <1>2 DEF SteadyInv

LEMMA DeliverSteady ==
  ASSUME IInv, IInv', SteadyInv, NEW k \in Sinks, NEW s \in Srcs, Deliver(k, s)
  PROVE  SteadyInv'
<1> DEFINE m == walk[k].msg
           x == Made(s, m)
           took == IsBuffer(m) /\ TakesBuffers(s) /\ Synchronizes(s, m) /\ ~eos[s]
<1>0. TypeOK /\ TypeOK'
  BY DEF IInv
<1>1. UNCHANGED <<on, state, base>>
  BY DEF Deliver, srcVars
<1>2. /\ \A r \in Srcs \ {s} : Buffers(r)' = Buffers(r)
      /\ Buffers(s)' = IF took THEN Buffers(s) \union {x} ELSE Buffers(s)
  BY DeliverBuffers
<1>3. on[s] = k /\ k \in Nodes[s] /\ state[s] # "off" /\ (IsBuffer(m) => m.node = k)
  <2>1. walk[k] # NULL /\ s \in walk[k].todo
    BY DEF Deliver
  <2>2. on[s] = k /\ m.node = k
    BY <2>1 DEF IInv, NoStaleWalk, Listeners
  <2>3. on[s] # NULL
    BY <2>2
  <2> QED BY <2>2, <2>3 DEF SteadyInv, HomesInv
<1>4. took => x.node = k
  BY <1>3 DEF Made, Item
<1>5. \A j \in Sinks : stamp'[j] = stamp[j] \/ (j = k /\ Mode[s] = "restart")
  <2>1. UNCHANGED stamp \/ (IsBuffer(m) /\ Mode[s] = "restart"
                            /\ stamp' = [stamp EXCEPT ![m.node][m.n] = Restarted])
    BY DEF Deliver, PushBuffer, IsBuffer
  <2>2. DOMAIN stamp = Sinks
    BY <1>0 DEF TypeOK
  <2> QED BY <1>3, <2>1, <2>2
<1> HIDE DEF took, x
<1>6. SceneInv'
  BY <1>1 DEF SteadyInv, SceneInv
<1>7. CleanInv'
  <2> SUFFICES ASSUME NEW r \in Srcs, state[r] # "off", Mode[r] # "restart", NEW j \in Nodes[r]
               PROVE  stamp'[j] = Media[j]
    BY <1>1 DEF CleanInv
  <2>1. j \in Sinks /\ stamp[j] = Media[j]
    BY DEF SteadyInv, CleanInv
  <2>2. j = k => Mode[s] # "restart"
    BY <1>3 DEF SteadyInv, SceneInv
  <2> QED BY <1>5, <2>1, <2>2
<1>8. HomesInv'
  <2> SUFFICES ASSUME NEW r \in Srcs
               PROVE  /\ on'[r] # NULL => on'[r] \in Nodes[r] /\ state'[r] # "off"
                      /\ \A y \in Buffers(r)' : y.node \in Nodes[r] /\ state'[r] # "off"
    BY DEF HomesInv
  <2>1. on'[r] # NULL => on'[r] \in Nodes[r] /\ state'[r] # "off"
    BY <1>1 DEF SteadyInv, HomesInv
  <2>2. ASSUME NEW y \in Buffers(r)' PROVE y.node \in Nodes[r] /\ state'[r] # "off"
    <3>1. CASE y \in Buffers(r)
      BY <1>1, <3>1 DEF SteadyInv, HomesInv
    <3>2. CASE r = s /\ took /\ y = x
      BY <1>1, <1>3, <1>4, <3>2
    <3> QED BY <1>2, <2>2, <3>1, <3>2
  <2> QED BY <2>1, <2>2
<1>9. BaseInv'
  <2>1. took /\ Mode[s] = "compensate" => state[s] = "playing"
    BY DEF took, TakesBuffers
  <2> SUFFICES ASSUME NEW r \in Srcs, Mode[r] = "compensate"
               PROVE  /\ state[r] = "playing" \/ Buffers(r)' # {} => base[r] \in Bases[r]
                      /\ r \notin Halts /\ state[r] # "playing" => Buffers(r)' = {}
    BY <1>1 DEF BaseInv
  <2>2. /\ state[r] = "playing" \/ Buffers(r) # {} => base[r] \in Bases[r]
        /\ r \notin Halts /\ state[r] # "playing" => Buffers(r) = {}
    BY DEF SteadyInv, BaseInv
  <2>3. Buffers(r)' = Buffers(r) \/ (r = s /\ took)
    BY <1>2
  <2> QED BY <2>1, <2>2, <2>3
<1> QED BY <1>6, <1>7, <1>8, <1>9 DEF SteadyInv

LEMMA ControlSteady ==
  ASSUME IInv, IInv', SteadyInv, NEW r \in Srcs, Control(r)
  PROVE  SteadyInv'
<1>0. TypeOK /\ TypeOK'
  BY DEF IInv
<1>1. UNCHANGED stamp
  BY DEF Control, Start, Commit, Play, Pause, Stop, Leave, Join
<1>2. \A s \in Srcs : Buffers(s)' \subseteq Buffers(s)
  BY <1>0, ControlBuffers
<1>3. /\ UNCHANGED state \/ \E y \in Up \union {"null"} : state' = [state EXCEPT ![r] = y]
      /\ state[r] # "off"
      /\ \/ UNCHANGED on
         \/ on' = [on EXCEPT ![r] = NULL]
         \/ \E k \in Nodes[r] : on' = [on EXCEPT ![r] = k]
  <2>1. CASE Start(r) \/ Commit(r) \/ Play(r) \/ Pause(r)
    BY <2>1 DEF Start, Commit, Play, Pause, Up
  <2>2. CASE Stop(r)
    BY <2>2 DEF Stop
  <2>3. CASE Leave(r)
    <3>1. state[r] # "off"
      BY <2>3 DEF Leave, SteadyInv, HomesInv
    <3> QED BY <2>3, <3>1 DEF Leave
  <2>4. ASSUME NEW k \in Sinks, Join(r, k)
        PROVE  /\ UNCHANGED state /\ state[r] # "off"
               /\ k \in Nodes[r] /\ on' = [on EXCEPT ![r] = k]
    BY <2>4 DEF Join, Up
  <2> QED BY <2>1, <2>2, <2>3, <2>4 DEF Control
<1>4. \A s \in Srcs : state'[s] # "off" <=> state[s] # "off"
  <2>1. DOMAIN state = Srcs
    BY <1>0 DEF TypeOK
  <2>2. \A s \in Srcs : state'[s] = state[s] \/ (s = r /\ state'[s] # "off")
    BY <1>3, <2>1 DEF Up
  <2> QED BY <1>3, <2>2
<1>5. CleanInv' /\ SceneInv'
  BY <1>1, <1>4 DEF SteadyInv, CleanInv, SceneInv
<1>6. HomesInv'
  <2>1. \A s \in Srcs : on'[s] \in {on[s], NULL} \/ (s = r /\ on'[s] \in Nodes[s])
    BY <1>0, <1>3 DEF TypeOK
  <2> QED BY <1>2, <1>3, <1>4, <2>1 DEF SteadyInv, HomesInv
<1>7. \A s \in Srcs \ {r} : state'[s] = state[s] /\ base'[s] = base[s]
  <2>1. UNCHANGED base \/ \E b : base' = [base EXCEPT ![r] = b]
    BY DEF Control, Start, Commit, Play, Pause, Stop, Leave, Join
  <2>2. DOMAIN state = Srcs /\ DOMAIN base = Srcs
    BY <1>0 DEF TypeOK
  <2> QED BY <1>3, <2>1, <2>2
<1>8. \/ base'[r] = base[r] /\ (state'[r] = "playing" => state[r] = "playing")
         /\ (state[r] = "playing" /\ state'[r] # "playing" => r \in Halts)
      \/ base'[r] \in Bases[r] /\ state[r] # "playing" /\ state'[r] = "playing"
  <2>1. CASE Play(r)
    BY <1>0, <2>1 DEF Play, TypeOK
  <2>2. CASE ~Play(r)
    BY <1>0, <2>2 DEF Control, Start, Commit, Pause, Stop, Leave, Join, TypeOK
  <2> QED BY <2>1, <2>2
<1>9. BaseInv'
  <2> SUFFICES ASSUME NEW s \in Srcs, Mode[s] = "compensate"
               PROVE  /\ state'[s] = "playing" \/ Buffers(s)' # {} => base'[s] \in Bases[s]
                      /\ s \notin Halts /\ state'[s] # "playing" => Buffers(s)' = {}
    BY DEF BaseInv
  <2>1. /\ state[s] = "playing" \/ Buffers(s) # {} => base[s] \in Bases[s]
        /\ s \notin Halts /\ state[s] # "playing" => Buffers(s) = {}
    BY DEF SteadyInv, BaseInv
  <2> QED BY <1>2, <1>7, <1>8, <2>1
<1> QED BY <1>5, <1>6, <1>9 DEF SteadyInv

\* The base time of a source that compensates changes only before it has buffers,
\* or to what it was.
LEMMA BaseStays ==
  ASSUME Steady, TypeOK, SteadyInv, NEW s \in Srcs, Mode[s] = "compensate", Buffers(s) # {},
         [Next]_vars
  PROVE  base'[s] = base[s]
<1>1. base[s] \in Bases[s] /\ (state[s] # "playing" => s \in Halts)
  BY DEF SteadyInv, BaseInv
<1>2. ASSUME NEW r \in Srcs, Control(r) PROVE base'[s] = base[s]
  <2>1. CASE Play(r)
    <3>1. r # s => base'[s] = base[s]
      BY <2>1 DEF Play, TypeOK
    <3>2. r = s => base'[s] \in Bases[s] /\ s \in Halts
      BY <1>1, <2>1 DEF Play, TypeOK
    <3> QED BY <1>1, <3>1, <3>2 DEF Steady
  <2>2. CASE ~Play(r)
    BY <1>2, <2>2 DEF Control, Start, Commit, Pause, Stop, Leave, Join
  <2> QED BY <2>1, <2>2
<1>3. ASSUME NEW r \in Srcs, Create(r) PROVE base'[s] = base[s]
  BY <1>3 DEF Create, Pop, SendBuffer, FindDue, SendEvent, EosOut, srcVars
<1>4. ASSUME NEW k \in Sinks, Render(k) \/ HandingOut(k) PROVE base'[s] = base[s]
  BY <1>4 DEF Render, NewPreroll, NewBuffer, GoLive, SinkEos, SinkEvent, HandingOut, Unlock,
     Deliver, srcVars
<1> QED BY <1>2, <1>3, <1>4 DEF Next, vars, srcVars

LEMMA SteadyStep == ASSUME IInv, SteadyInv, [Next]_vars PROVE SteadyInv'
<1>0. IInv' /\ TypeOK /\ TypeOK'
  BY NextInv DEF IInv
<1>1. ASSUME NEW s \in Srcs, Create(s) PROVE SteadyInv'
  <2>1. UNCHANGED <<on, state, base, stamp>>
    BY <1>1 DEF Create, Pop, SendBuffer, FindDue, SendEvent, EosOut, srcVars
  <2>2. \A r \in Srcs : Buffers(r)' = Buffers(r)
    BY <1>0, <1>1, CreateBuffers
  <2> QED BY <2>1, <2>2, SameSteady
<1>2. ASSUME NEW k \in Sinks, Render(k) \/ Unlock(k) PROVE SteadyInv'
  <2>1. UNCHANGED <<on, state, base, stamp>>
    BY <1>2 DEF Render, NewPreroll, NewBuffer, GoLive, SinkEos, SinkEvent, Unlock, srcVars
  <2>2. \A r \in Srcs : Buffers(r)' = Buffers(r)
    BY <1>2, RenderBuffers
  <2> QED BY <2>1, <2>2, SameSteady
<1>3. CASE UNCHANGED vars
  <2>1. UNCHANGED <<on, state, base, stamp, out, hand, queue>>
    BY <1>3 DEF vars, srcVars, threadVars
  <2>2. \A r \in Srcs : Buffers(r)' = Buffers(r)
    BY <2>1, SameBuffers
  <2> QED BY <2>1, <2>2, SameSteady
<1> QED BY <1>0, <1>1, <1>2, <1>3, DeliverSteady, ControlSteady DEF Next, HandingOut

\* No source has anything yet.
LEMMA InitEmpty == ASSUME Init, NEW s \in Srcs PROVE Contents(s) = {} /\ Buffers(s) = {}
<1>1. out[s] = <<>> /\ InHand(s) = <<>> /\ queue[s] = <<>> /\ pending[s] = <<>>
  BY DEF Init, InHand
<1> QED BY <1>1, ShortSequence DEF Contents, Buffers, Through

LEMMA InitSteady == ASSUME Steady, Init PROVE SteadyInv
<1>1. PICK scene \in Scenes : Opening(scene)
  BY DEF Init
<1>2. \A s \in Srcs : state[s] # "off" <=> scene[s] # "off"
  BY <1>1 DEF Opening
<1>3. SceneInv
  BY <1>1, <1>2 DEF SceneInv, Steady
<1>4. CleanInv
  BY DEF Init, CleanInv
<1>5. \A s \in Srcs : Buffers(s) = {}
  BY InitEmpty
<1>6. HomesInv
  BY <1>1, <1>2, <1>5 DEF Opening, HomesInv
<1>7. BaseInv
  BY <1>1, <1>5 DEF Opening, BaseInv
<1> QED BY <1>3, <1>4, <1>6, <1>7 DEF SteadyInv

\* The parts that a steady scene has hold of every behaviour.
LEMMA SteadyAlways == ASSUME Steady PROVE Spec => []SteadyInv
<1>1. SteadyInv /\ IInv /\ [Next]_vars => SteadyInv'
  BY SteadyStep
<1>2. Init => SteadyInv
  BY InitSteady
<1> QED BY <1>1, <1>2, Invariance, PTL DEF Spec

\* The copy that a source makes of a buffer.
LEMMA MadeKept ==
  ASSUME KeepsTime, IInv, RenderedInv, SteadyInv, NEW k \in Sinks, NEW s \in Srcs, Deliver(k, s),
         IsBuffer(walk[k].msg), TakesBuffers(s), Synchronizes(s, walk[k].msg)
  PROVE  LET x == Made(s, walk[k].msg)
             was == Media[k][x.n] IN
         /\ x.node = k /\ x.n \in DOMAIN Media[k]
         /\ Mode[s] # "compensate" => x.own = NULL
         /\ Mode[s] = "compensate" =>
              /\ x.own # NULL
              /\ x.own.pts + base[s] = was.pts + NodeBase[k]
              /\ was.dts # NONE => x.own.dts + base[s] = was.dts + NodeBase[k]
<1> DEFINE m == walk[k].msg
           x == Made(s, m)
           was == Media[k][m.n]
<1>0. TypeOK
  BY DEF IInv
<1>1. m.node = k /\ m.n \in DOMAIN Media[k] /\ s \in Listeners(k) /\ m \in Renderings
  <2>1. walk[k] # NULL /\ s \in walk[k].todo
    BY DEF Deliver
  <2>2. m.node = k /\ m.n \in DOMAIN stamp[k] /\ s \in Listeners(k) /\ m \in Renderings
    BY <2>1 DEF IInv, NoStaleWalk
  <2>3. DOMAIN stamp[k] = DOMAIN Media[k]
    BY <1>0 DEF TypeOK
  <2> QED BY <2>2, <2>3
<1>2. x.node = k /\ x.n = m.n
  BY <1>1 DEF Made, Item
<1>3. Mode[s] # "compensate" => x.own = NULL
  BY DEF Made, Item
<1>4. ASSUME Mode[s] = "compensate"
      PROVE  /\ x.own # NULL
             /\ x.own.pts + base[s] = was.pts + NodeBase[k]
             /\ was.dts # NONE => x.own.dts + base[s] = was.dts + NodeBase[k]
  <2>1. state[s] = "playing" /\ k \in Nodes[s]
    BY <1>1, <1>4 DEF TakesBuffers, SteadyInv, HomesInv, Listeners
  <2>2. base[s] \in Bases[s] /\ base[s] \in Stamps
    BY <1>0, <1>4, <2>1 DEF SteadyInv, BaseInv, TypeOK
  <2>3. stamp[k] = Media[k]
    BY <1>4, <2>1 DEF SteadyInv, CleanInv
  <2>4. was \in Pairs /\ NodeBase[k] \in Stamps
    <3>1. Media[k] \in Seq(Pairs)
      BY DEF Pairs
    <3>2. Media[k][m.n] \in Pairs
      BY <1>1, <3>1
    <3> QED BY <3>2
  <2>5. PtsFits(was.pts, m.base, base[s])
    BY <1>1, <1>4, <2>3 DEF Synchronizes
  <2>6. /\ SameInstant(was, NodeBase[k], base[s])
        /\ NodeBase[k] = 0 \/ ~PtsFits(Media[k][1].pts, 0, base[s])
    <3>1. Media[k] # <<>>
      BY <1>1
    <3> QED BY <1>1, <1>4, <2>1, <2>2, <3>1 DEF KeepsTime
  <2>7. m.base = NodeBase[k]
    <3>1. walk[k] # NULL
      BY DEF Deliver
    <3>2. m.base = NodeBase[k] \/ (m.n = 1 /\ m.base = 0)
      BY <3>1 DEF RenderedInv
    <3> QED BY <2>5, <2>6, <3>2
  <2>8. x.own = Compensated(was, NodeBase[k], base[s])
    BY <1>1, <1>4, <2>3, <2>7 DEF Made, Item
  <2>9. x.own # NULL
    <3>1. Compensated(was, NodeBase[k], base[s]) \in Pairs
      BY <2>2, <2>4, CompensatedTyped DEF Pairs
    <3> QED BY <2>8, <3>1, NullAssumption
  <2>10. was.pts \in Stamps /\ was.dts \in Stamps
    BY <2>4 DEF Pairs
  <2>11. x.own.pts = Shift(was.pts, NodeBase[k], base[s])
         /\ (was.dts # NONE => x.own.dts = Shift(was.dts, NodeBase[k], base[s]))
    BY <2>8 DEF Compensated
  <2>12. was.pts + NodeBase[k] < W + base[s]
         /\ (was.dts # NONE => PtsFits(was.dts, NodeBase[k], base[s])
                               /\ was.dts + NodeBase[k] < W + base[s])
    BY <2>5, <2>6, <2>7 DEF SameInstant
  <2>13. Shift(was.pts, NodeBase[k], base[s]) + base[s] = was.pts + NodeBase[k]
    BY <2>2, <2>4, <2>5, <2>7, <2>10, <2>12, InstantKept
  <2>14. was.dts # NONE =>
           Shift(was.dts, NodeBase[k], base[s]) + base[s] = was.dts + NodeBase[k]
    BY <2>2, <2>4, <2>10, <2>12, InstantKept
  <2> QED BY <2>9, <2>11, <2>13, <2>14
<1> QED BY <1>1, <1>2, <1>3, <1>4

LEMMA OwnStep ==
  ASSUME KeepsTime, IInv, RenderedInv, SteadyInv, OwnInv, [Next]_vars
  PROVE  OwnInv'
<1>0. IInv' /\ TypeOK /\ TypeOK'
  BY NextInv DEF IInv
<1>1. \A s \in Srcs : Mode[s] = "compensate" /\ Buffers(s) # {} => base'[s] = base[s]
  BY <1>0, BaseStays DEF KeepsTime
<1>2. ASSUME \A s \in Srcs : Buffers(s)' \subseteq Buffers(s) PROVE OwnInv'
  BY <1>1, <1>2 DEF OwnInv
<1>3. ASSUME NEW s \in Srcs, Create(s) PROVE OwnInv'
  BY <1>0, <1>2, <1>3, CreateBuffers
<1>4. ASSUME NEW s \in Srcs, Control(s) PROVE OwnInv'
  BY <1>0, <1>2, <1>4, ControlBuffers
<1>5. ASSUME NEW k \in Sinks, Render(k) \/ Unlock(k) PROVE OwnInv'
  BY <1>2, <1>5, RenderBuffers
<1>6. ASSUME NEW k \in Sinks, NEW s \in Srcs, Deliver(k, s) PROVE OwnInv'
  <2> DEFINE m == walk[k].msg
             x == Made(s, m)
             took == IsBuffer(m) /\ TakesBuffers(s) /\ Synchronizes(s, m) /\ ~eos[s]
  <2>1. /\ \A r \in Srcs \ {s} : Buffers(r)' = Buffers(r)
        /\ Buffers(s)' = IF took THEN Buffers(s) \union {x} ELSE Buffers(s)
    BY <1>0, <1>6, DeliverBuffers
  <2>2. took => LET was == Media[k][x.n] IN
         /\ x.node = k /\ x.n \in DOMAIN Media[k]
         /\ Mode[s] # "compensate" => x.own = NULL
         /\ Mode[s] = "compensate" =>
              /\ x.own # NULL
              /\ x.own.pts + base[s] = was.pts + NodeBase[k]
              /\ was.dts # NONE => x.own.dts + base[s] = was.dts + NodeBase[k]
    BY <1>6, MadeKept
  <2> HIDE DEF took, x
  <2> SUFFICES ASSUME NEW r \in Srcs, NEW y \in Buffers(r)'
               PROVE  LET was == Media[y.node][y.n] IN
                      /\ y.n \in DOMAIN Media[y.node]
                      /\ Mode[r] # "compensate" => y.own = NULL
                      /\ Mode[r] = "compensate" =>
                           /\ y.own # NULL
                           /\ y.own.pts + base[r] = was.pts + NodeBase[y.node]
                           /\ was.dts # NONE => y.own.dts + base[r] = was.dts + NodeBase[y.node]
    BY <1>6 DEF OwnInv, Deliver, srcVars
  <2>3. CASE y \in Buffers(r)
    BY <2>3 DEF OwnInv
  <2>4. CASE r = s /\ took /\ y = x
    BY <2>2, <2>4
  <2> QED BY <2>1, <2>3, <2>4
<1>7. CASE UNCHANGED vars
  BY <1>2, <1>7, SameBuffers DEF vars, threadVars
<1> QED BY <1>3, <1>4, <1>5, <1>6, <1>7 DEF Next, HandingOut

\* Every listener sees each buffer at the instant it was rendered: as it is with
\* passthrough-ts, at the same point of time with compensate-ts, whatever the other
\* listeners of the node do with the buffer they share.
THEOREM StampKeptAlways == ASSUME KeepsTime PROVE Spec => []StampKept
<1>1. IInv /\ SteadyInv /\ OwnInv => StampKept
  <2> SUFFICES ASSUME IInv, SteadyInv, OwnInv, NEW s \in Srcs, NEW x \in Range(Line(s)), IsBuffer(x)
               PROVE  LET was == Media[x.node][x.n] IN
                      /\ Mode[s] = "passthrough" => View(x) = was
                      /\ Mode[s] = "compensate" =>
                           /\ View(x).pts + base[s] = was.pts + NodeBase[x.node]
                           /\ was.dts # NONE => View(x).dts + base[s] = was.dts + NodeBase[x.node]
    BY DEF StampKept
  <2>1. x \in Buffers(s)
    BY LineThrough DEF Buffers, IInv
  <2>2. Mode[s] = "passthrough" => stamp[x.node] = Media[x.node] /\ x.own = NULL
    BY <2>1 DEF SteadyInv, HomesInv, CleanInv, OwnInv
  <2>3. Mode[s] = "compensate" => x.own # NULL
    BY <2>1 DEF OwnInv
  <2> QED BY <2>1, <2>2, <2>3 DEF OwnInv, View
<1>2. MissedInv /\ IInv /\ [Next]_vars => MissedInv'
  BY MissedStep
<1>3. MissedInv => RenderedInv
  BY DEF MissedInv
<1>4. OwnInv /\ RenderedInv /\ SteadyInv /\ IInv /\ [Next]_vars => OwnInv'
  BY OwnStep
<1>5. Init => OwnInv
  BY InitEmpty DEF OwnInv
<1>6. Spec => []SteadyInv
  BY SteadyAlways DEF KeepsTime
<1> QED BY <1>1, <1>2, <1>3, <1>4, <1>5, <1>6, InitMissed, Invariance, PTL DEF Spec

-----------------------------------------------------------------------------
(* How early an event leaves *)

\* No stamp of sink k leaves the range of stamps when it is shifted to base time b.
InRange(k, b) == \A n \in DOMAIN Media[k] : Media[k][n].pts + NodeBase[k] < W + b

\* What the stamps of events need to tell the place of an event: PTS that do not
\* fall, and no restarted stamps where events are accepted.  Events are shifted in
\* all modes, also by a base time that is still zero, and buffers are not: with
\* passthrough-ts the base time must not be above that of the node.
KeepsPlace ==
  /\ Steady
  /\ \A k \in Sinks : \A i, j \in DOMAIN Media[k] : i <= j => Media[k][i].pts <= Media[k][j].pts
  /\ \A s \in Srcs \intersect AcceptsEvents : \A k \in Nodes[s] :
       \/ Mode[s] = "passthrough" /\ InRange(k, 0) /\ \A b \in Bases[s] : b <= NodeBase[k]
       \/ Mode[s] = "compensate" /\ \A b \in Bases[s] : InRange(k, b)

\* x and event e are of the same node, which had x first.
Older(x, e) == x.node = e.node /\ x.at < e.at

\* No source has a buffer of sink k.
NoneOf(k) == \A s \in Srcs : \A x \in Buffers(s) : x.node # k

IsSerialWalk(k) == walk[k] # NULL /\ IsEvent(walk[k].msg) /\ walk[k].msg.serial
IsBufferWalk(k) == walk[k] # NULL /\ IsBuffer(walk[k].msg)

\* Buffer n of sink k was shown, and its stamp is not above that of the last one.
NotAfterLast(k, n) ==
  n \in DOMAIN Media[k] /\ (n <= sent[k] \/ n = 1) /\ Media[k][n].pts <= last[k]

\* A sink shows no buffer before it prerolls or plays; the stamp of the last one,
\* which events get, is not below those of the buffers before it.
LastAt(k) ==
  /\ phase[k] \in {"off", "fresh"} => NoneOf(k) /\ ~IsBufferWalk(k)
  /\ \A s \in Srcs : \A x \in Buffers(s) : x.node = k => NotAfterLast(k, x.n)
  /\ IsBufferWalk(k) => NotAfterLast(k, walk[k].msg.n)
  /\ IsSerialWalk(k) => /\ walk[k].msg.ts = last[k]
                        /\ walk[k].msg.base = NodeBase[k] \/ NoneOf(k)

LastInv == \A k \in Sinks : LastAt(k)

\* Where stamps are let be, the stamp of the last buffer is one that was rendered.
LastCleanInv ==
  \A s \in Srcs : state[s] # "off" /\ Mode[s] # "restart" =>
    \A k \in Nodes[s] : last[k] = 0 \/ \E n \in DOMAIN Media[k] : last[k] = Media[k][n].pts

\* Copies are not later than what they were made of.
CopyInv ==
  \A s \in Srcs \intersect AcceptsEvents : \A x \in Buffers(s) :
    /\ Mode[s] # "compensate" => x.own = NULL
    /\ Mode[s] = "compensate" =>
         /\ x.n \in DOMAIN Media[x.node]
         /\ x.own # NULL /\ x.own.pts + base[s] <= Media[x.node][x.n].pts + NodeBase[x.node]

\* Events wait only where they are accepted, in pipelines with a known base time.
AcceptInv ==
  \A s \in Srcs :
    /\ s \notin AcceptsEvents => pending[s] = <<>>
    /\ base[s] \in Bases[s] \union {0}

\* An event that waits has a stamp not below those of the buffers before it.
StampedInv ==
  \A s \in Srcs : \A e \in Range(pending[s]), x \in Buffers(s) :
    Older(x, e) => View(x).pts <= e.ts

Waits(s) == Range(InHand(s)) \union Range(queue[s])

\* If create is about to send an event before a buffer of its node, no other buffer
\* is left that is older than the event.
DueInv ==
  \A s \in Srcs : stage[s] = "popping" /\ hand[s].node = Head(pending[s]).node =>
    \A x \in Range(queue[s]) : ~Older(x, Head(pending[s]))

\* The event at place i left before a buffer and, if that is of its node, before no
\* other older one.
GoneAt(s, i) ==
  /\ i < Len(out[s])
  /\ out[s][i + 1].node = out[s][i].node =>
       /\ \A j \in i + 2 .. Len(out[s]) : IsBuffer(out[s][j]) => ~Older(out[s][j], out[s][i])
       /\ \A x \in Waits(s) : ~Older(x, out[s][i])

GoneInv == \A s \in Srcs : \A i \in SerialAt(s) : GoneAt(s, i)

EarlyInv == LastInv /\ LastCleanInv /\ CopyInv /\ AcceptInv /\ StampedInv /\ DueInv /\ GoneInv

\* A set that holds nothing but x has at most one element.
LEMMA AtMostOne == ASSUME NEW S, NEW x, S \subseteq {x} PROVE Cardinality(S) <= 1
<1>1. CASE S = {}
  <2>1. Cardinality(S) = 0
    BY <1>1, FS_EmptySet
  <2> QED BY <2>1
<1>2. CASE S = {x}
  <2>1. Cardinality({x}) = 1
    BY FS_Singleton
  <2> QED BY <1>2, <2>1
<1> QED BY <1>1, <1>2

\* A step that shows nothing new of sink k.
LEMMA SameLast ==
  ASSUME NEW k \in Sinks, LastAt(k),
         phase'[k] \in {phase[k], "live", "done"}, sent'[k] = sent[k], last'[k] = last[k],
         \/ walk'[k] = NULL
         \/ ~IsBuffer(walk'[k].msg) /\ ~IsEvent(walk'[k].msg)
         \/ walk[k] # NULL /\ walk'[k].msg = walk[k].msg,
         \A s \in Srcs : \A x \in Buffers(s)' : x.node = k => x \in Buffers(s)
  PROVE  LastAt(k)'
<1>1. NoneOf(k) => NoneOf(k)'
  BY DEF NoneOf
<1>2. (IsBufferWalk(k)' => IsBufferWalk(k)) /\ (IsSerialWalk(k)' => IsSerialWalk(k))
  BY DEF IsBufferWalk, IsSerialWalk
<1>3. IsBufferWalk(k)' \/ IsSerialWalk(k)' => walk'[k].msg = walk[k].msg
  BY DEF IsBufferWalk, IsSerialWalk
<1>4. \A n : NotAfterLast(k, n) => NotAfterLast(k, n)'
  BY DEF NotAfterLast
<1>5. phase'[k] \in {"off", "fresh"} => phase[k] \in {"off", "fresh"}
  OBVIOUS
<1> QED BY <1>1, <1>2, <1>3, <1>4, <1>5 DEF LastAt

LEMMA RenderLast ==
  ASSUME KeepsPlace, IInv, StampsInv, LastInv, NEW k \in Sinks, Render(k) \/ Unlock(k)
  PROVE  LastInv'
<1>0. TypeOK
  BY DEF IInv
<1>1. \A s \in Srcs : Buffers(s)' = Buffers(s)
  BY RenderBuffers
<1>2. ASSUME NEW j \in Sinks \ {k} PROVE LastAt(j)'
  <2>1. phase'[j] = phase[j] /\ sent'[j] = sent[j] /\ last'[j] = last[j] /\ walk'[j] = walk[j]
    <3>1. CASE Unlock(k) \/ GoLive(k)
      BY <1>0, <3>1 DEF Unlock, GoLive, sinkVars, TypeOK
    <3>2. CASE NewPreroll(k) \/ NewBuffer(k)
      BY <1>0, <3>2 DEF NewPreroll, NewBuffer, ProcessSample, HandOut, TypeOK
    <3>3. CASE SinkEos(k)
      BY <1>0, <3>3 DEF SinkEos, HandOut, TypeOK
    <3>4. ASSUME NEW kind \in {"serialized", "oob"}, SinkEvent(k, kind)
          PROVE  UNCHANGED <<phase, sent, last>> /\ walk'[j] = walk[j]
      BY <1>0, <3>4 DEF SinkEvent, HandOut, TypeOK
    <3> QED BY <3>1, <3>2, <3>3, <3>4 DEF Render
  <2>2. LastAt(j)
    BY DEF LastInv
  <2>3. walk'[j] = NULL \/ (walk[j] # NULL /\ walk'[j].msg = walk[j].msg)
    BY <2>1
  <2> QED BY <1>1, <2>1, <2>2, <2>3, SameLast
<1>3. LastAt(k)
  BY DEF LastInv
<1>4. ASSUME NEW n \in DOMAIN Media[k], ProcessSample(k, n),
             (n = 1 /\ NoneOf(k)) \/ n = sent[k] + 1, n = 1 \/ n = sent'[k],
             sent[k] <= sent'[k], sent'[k] \in Nat, phase'[k] \notin {"off", "fresh"}
      PROVE  LastAt(k)'
  <2>0. Media[k] \in Seq(Pairs)
    BY DEF Pairs
  <2>1. /\ \A i \in DOMAIN Media[k] : i \in Nat /\ i >= 1 /\ Media[k][i] \in Pairs
        /\ last'[k] = stamp[k][n].pts /\ stamp[k][n] \in {Media[k][n], Restarted}
    <3>1. last'[k] = stamp[k][n].pts
      BY <1>0, <1>4 DEF TypeOK, ProcessSample
    <3>2. stamp[k][n] \in {Media[k][n], Restarted}
      BY <1>4 DEF StampsInv
    <3> QED BY <2>0, <3>1, <3>2
  <2>2. Media[k][n].pts <= last'[k] /\ last'[k] \in Nat
    BY <1>4, <2>1 DEF Pairs, Restarted, Stamps, NONE
  <2>3. IsBuffer(walk'[k].msg) /\ ~IsEvent(walk'[k].msg) /\ walk'[k].msg.n = n
    BY <1>0, <1>4, HandOutWalk DEF ProcessSample, IsBuffer, IsEvent
  <2>4. NotAfterLast(k, n)'
    BY <1>4, <2>1, <2>2 DEF NotAfterLast
  <2>5. ASSUME NEW s \in Srcs, NEW x \in Buffers(s), x.node = k PROVE NotAfterLast(k, x.n)'
    <3>1. NotAfterLast(k, x.n) /\ n = sent[k] + 1
      BY <1>3, <1>4, <2>5 DEF LastAt, NoneOf
    <3>2. x.n \in DOMAIN Media[k] /\ x.n <= n /\ (x.n <= sent[k] \/ x.n = 1)
      BY <1>0, <2>1, <3>1 DEF NotAfterLast, TypeOK
    <3>3. Media[k][x.n].pts <= Media[k][n].pts
      BY <3>2 DEF KeepsPlace
    <3>4. Media[k][x.n].pts \in Nat /\ Media[k][n].pts \in Nat
      BY <1>4, <2>1, <3>2 DEF Pairs, Stamps
    <3>5. Media[k][x.n].pts <= last'[k]
      BY <2>2, <3>3, <3>4
    <3>6. x.n <= sent'[k] \/ x.n = 1
      BY <1>0, <1>4, <2>1, <3>2 DEF TypeOK
    <3> QED BY <3>2, <3>5, <3>6 DEF NotAfterLast
  <2> QED BY <1>1, <1>4, <2>3, <2>4, <2>5 DEF LastAt, IsBufferWalk, IsSerialWalk
<1>5. DOMAIN Media[k] = 1 .. Len(Media[k]) /\ Len(Media[k]) \in Nat
  OBVIOUS
<1>6. ASSUME NewPreroll(k) PROVE LastAt(k)'
  <2>1. /\ 1 \in DOMAIN Media[k] /\ ProcessSample(k, 1) /\ NoneOf(k)
        /\ phase'[k] \notin {"off", "fresh"} /\ sent'[k] \in Nat /\ sent[k] <= sent'[k]
    BY <1>0, <1>3, <1>5, <1>6 DEF NewPreroll, LastAt, TypeOK
  <2> QED BY <1>4, <2>1
<1>7. ASSUME NewBuffer(k) PROVE LastAt(k)'
  <2>1. /\ sent[k] + 1 \in DOMAIN Media[k] /\ ProcessSample(k, sent[k] + 1)
        /\ phase'[k] \notin {"off", "fresh"} /\ sent'[k] = sent[k] + 1
        /\ sent'[k] \in Nat /\ sent[k] <= sent'[k]
    BY <1>0, <1>5, <1>7 DEF NewBuffer, TypeOK
  <2> QED BY <1>4, <2>1
<1>8. ASSUME GoLive(k) \/ SinkEos(k) \/ Unlock(k) PROVE LastAt(k)'
  <2>1. phase'[k] \in {phase[k], "live", "done"} /\ sent'[k] = sent[k] /\ last'[k] = last[k]
    BY <1>0, <1>8 DEF GoLive, SinkEos, Unlock, sinkVars, TypeOK
  <2>2. \/ walk'[k] = NULL
        \/ ~IsBuffer(walk'[k].msg) /\ ~IsEvent(walk'[k].msg)
        \/ walk[k] # NULL /\ walk'[k].msg = walk[k].msg
    <3>1. CASE GoLive(k) \/ Unlock(k)
      BY <1>0, <3>1 DEF GoLive, Unlock, TypeOK
    <3>2. CASE SinkEos(k)
      BY <1>0, <3>2, HandOutWalk DEF SinkEos, IsBuffer, IsEvent
    <3> QED BY <1>8, <3>1, <3>2
  <2> QED BY <1>1, <1>3, <2>1, <2>2, SameLast
<1>9. ASSUME NEW kind \in {"serialized", "oob"}, SinkEvent(k, kind) PROVE LastAt(k)'
  <2>1. UNCHANGED <<phase, sent, last>>
    BY <1>9 DEF SinkEvent
  <2>2. /\ IsEvent(walk'[k].msg) /\ ~IsBuffer(walk'[k].msg)
        /\ walk'[k].msg.serial = (kind = "serialized") /\ walk'[k].msg.base = BaseOf(k)
        /\ kind = "serialized" => walk'[k].msg.ts = last[k]
    BY <1>0, <1>9, HandOutWalk DEF SinkEvent, IsEvent, IsBuffer
  <2>3. kind = "serialized" => BaseOf(k) = NodeBase[k] \/ NoneOf(k)
    BY <1>3, <1>9 DEF SinkEvent, MaySee, BaseOf, LastAt
  <2>4. NoneOf(k)' <=> NoneOf(k)
    BY <1>1 DEF NoneOf
  <2>5. \A n : NotAfterLast(k, n)' <=> NotAfterLast(k, n)
    BY <2>1 DEF NotAfterLast
  <2>6. ~IsBufferWalk(k)'
    BY <2>2 DEF IsBufferWalk
  <2>7. IsSerialWalk(k)' => /\ walk'[k].msg.ts = last'[k]
                            /\ walk'[k].msg.base = NodeBase[k] \/ NoneOf(k)'
    BY <2>1, <2>2, <2>3, <2>4 DEF IsSerialWalk
  <2>8. \A s \in Srcs : \A x \in Buffers(s)' : x.node = k => NotAfterLast(k, x.n)'
    BY <1>1, <1>3, <2>5 DEF LastAt
  <2> QED BY <1>3, <2>1, <2>4, <2>6, <2>7, <2>8 DEF LastAt
<1> QED BY <1>2, <1>6, <1>7, <1>8, <1>9 DEF LastInv, Render

LEMMA LastStep ==
  ASSUME KeepsPlace, IInv, StampsInv, LastInv, [Next]_vars PROVE LastInv'
<1>0. IInv' /\ TypeOK /\ TypeOK'
  BY NextInv DEF IInv
<1>1. ASSUME UNCHANGED <<sinkVars, walk>>, \A s \in Srcs : Buffers(s)' \subseteq Buffers(s)
      PROVE  LastInv'
  <2> SUFFICES ASSUME NEW k \in Sinks PROVE LastAt(k)'
    BY DEF LastInv
  <2>1. LastAt(k)
    BY DEF LastInv
  <2>2. /\ phase'[k] = phase[k] /\ sent'[k] = sent[k] /\ last'[k] = last[k]
        /\ walk'[k] = NULL \/ (walk[k] # NULL /\ walk'[k].msg = walk[k].msg)
    BY <1>1 DEF sinkVars
  <2> QED BY <1>1, <2>1, <2>2, SameLast
<1>2. ASSUME NEW s \in Srcs, Create(s) PROVE LastInv'
  <2>1. UNCHANGED <<sinkVars, walk>>
    BY <1>2 DEF Create, Pop, SendBuffer, FindDue, SendEvent, EosOut
  <2> QED BY <1>0, <1>1, <1>2, <2>1, CreateBuffers
<1>3. ASSUME NEW s \in Srcs, Control(s) PROVE LastInv'
  <2>1. UNCHANGED <<sinkVars, walk>>
    BY <1>3 DEF Control, Start, Commit, Play, Pause, Stop, Leave, Join
  <2> QED BY <1>0, <1>1, <1>3, <2>1, ControlBuffers
<1>4. CASE UNCHANGED vars
  BY <1>1, <1>4, SameBuffers DEF vars, threadVars
<1>5. ASSUME NEW k \in Sinks, NEW s \in Srcs, Deliver(k, s) PROVE LastInv'
  <2> DEFINE m == walk[k].msg
             took == IsBuffer(m) /\ TakesBuffers(s) /\ Synchronizes(s, m) /\ ~eos[s]
  <2>1. \A r \in Srcs : Buffers(r)' =
          IF r = s /\ took THEN Buffers(r) \union {Made(s, m)} ELSE Buffers(r)
    BY <1>0, <1>5, DeliverBuffers
  <2>2. took => Made(s, m).node = k /\ Made(s, m).n = m.n /\ IsBufferWalk(k)
    BY <1>5 DEF Made, Item, IsBufferWalk, Deliver, IInv, NoStaleWalk
  <2>3. UNCHANGED sinkVars
    BY <1>5 DEF Deliver
  <2>4. \A j \in Sinks : walk'[j] = NULL \/ (walk[j] # NULL /\ walk'[j].msg = walk[j].msg)
    BY <1>0, <1>5, DeliverMsg
  <2> HIDE DEF took
  <2> SUFFICES ASSUME NEW j \in Sinks PROVE LastAt(j)'
    BY DEF LastInv
  <2>5. LastAt(j)
    BY DEF LastInv
  <2>6. phase'[j] = phase[j] /\ sent'[j] = sent[j] /\ last'[j] = last[j]
    BY <2>3 DEF sinkVars
  <2>7. CASE \A r \in Srcs : \A x \in Buffers(r)' : x.node = j => x \in Buffers(r)
    BY <2>4, <2>5, <2>6, <2>7, SameLast
  <2>8. CASE j = k /\ took
    <3>1. phase[k] \notin {"off", "fresh"} /\ NotAfterLast(k, m.n)
      BY <2>2, <2>5, <2>8 DEF LastAt
    <3>2. \A r \in Srcs : \A x \in Buffers(r) : x.node = k => NotAfterLast(k, x.n)
      BY <2>5, <2>8 DEF LastAt
    <3>5. NotAfterLast(k, Made(s, m).n)
      BY <2>2, <2>8, <3>1
    <3>6. \A r \in Srcs : \A x \in Buffers(r)' : x.node = k => NotAfterLast(k, x.n)
      <4> SUFFICES ASSUME NEW r \in Srcs, NEW x \in Buffers(r)', x.node = k
                   PROVE  NotAfterLast(k, x.n)
        OBVIOUS
      <4>1. x \in Buffers(r) \/ x = Made(s, m)
        BY <2>1
      <4> QED BY <3>2, <3>5, <4>1
    <3>3. \A n : NotAfterLast(k, n)' <=> NotAfterLast(k, n)
      BY <2>6, <2>8 DEF NotAfterLast
    <3>4. ~IsSerialWalk(k)' /\ (IsBufferWalk(k)' => walk'[k].msg = m)
      BY <2>2, <2>4, <2>8 DEF IsSerialWalk, IsBufferWalk, IsEvent, IsBuffer
    <3> QED BY <2>6, <2>8, <3>1, <3>3, <3>4, <3>6 DEF LastAt
  <2> QED BY <2>1, <2>2, <2>7, <2>8
<1> QED BY <1>2, <1>3, <1>4, <1>5, RenderLast DEF Next, HandingOut

\* A source that is there was there before.
LEMMA ThereBefore ==
  ASSUME TypeOK, SteadyInv, [Next]_vars, NEW s \in Srcs, state'[s] # "off"
  PROVE  state[s] # "off"
<1>1. ASSUME NEW r \in Srcs, Control(r) PROVE state'[s] = state[s] \/ state[s] # "off"
  <2>1. CASE UNCHANGED state
    BY <2>1
  <2>2. ASSUME NEW y, state' = [state EXCEPT ![r] = y], state[r] # "off"
        PROVE  state'[s] = state[s] \/ state[s] # "off"
    BY <2>2 DEF TypeOK
  <2>3. CASE Start(r) \/ Commit(r) \/ Play(r) \/ Pause(r) \/ Stop(r)
    <3>1. state[r] # "off" /\ \E y : state' = [state EXCEPT ![r] = y]
      BY <2>3 DEF Start, Commit, Play, Pause, Stop
    <3> QED BY <2>2, <3>1
  <2>4. CASE Leave(r) \/ \E k \in Sinks : Join(r, k)
    BY <2>4 DEF Leave, Join
  <2> QED BY <1>1, <2>1, <2>2, <2>3, <2>4 DEF Control
<1>2. ASSUME NEW r \in Srcs, Create(r) PROVE UNCHANGED state
  BY <1>2 DEF Create, Pop, SendBuffer, FindDue, SendEvent, EosOut, srcVars
<1>3. ASSUME NEW k \in Sinks, Render(k) \/ HandingOut(k) PROVE UNCHANGED state
  BY <1>3 DEF Render, NewPreroll, NewBuffer, GoLive, SinkEos, SinkEvent, HandingOut, Unlock,
     Deliver, srcVars
<1> QED BY <1>1, <1>2, <1>3 DEF Next, vars, srcVars

LEMMA LastCleanStep ==
  ASSUME IInv, SteadyInv, LastCleanInv, [Next]_vars PROVE LastCleanInv'
<1>0. TypeOK
  BY DEF IInv
<1> SUFFICES ASSUME NEW s \in Srcs, state'[s] # "off", Mode[s] # "restart", NEW k \in Nodes[s]
             PROVE  last'[k] = 0 \/ \E n \in DOMAIN Media[k] : last'[k] = Media[k][n].pts
  BY DEF LastCleanInv
<1>1. state[s] # "off" /\ k \in Sinks
  BY <1>0, ThereBefore
<1>2. stamp[k] = Media[k]
  BY <1>1 DEF SteadyInv, CleanInv
<1>3. CASE last'[k] = last[k]
  BY <1>1, <1>3 DEF LastCleanInv
<1>4. ASSUME NEW n \in DOMAIN Media[k], ProcessSample(k, n)
      PROVE  last'[k] = 0 \/ \E i \in DOMAIN Media[k] : last'[k] = Media[k][i].pts
  BY <1>0, <1>1, <1>2, <1>4 DEF ProcessSample, TypeOK
<1>5. ASSUME NEW j \in Sinks, NewPreroll(j) \/ NewBuffer(j)
      PROVE  last'[k] = 0 \/ \E n \in DOMAIN Media[k] : last'[k] = Media[k][n].pts
  <2>1. \/ 1 \in DOMAIN Media[j] /\ ProcessSample(j, 1)
        \/ sent[j] + 1 \in DOMAIN Media[j] /\ ProcessSample(j, sent[j] + 1)
    <3>1. DOMAIN Media[j] = 1 .. Len(Media[j]) /\ Len(Media[j]) \in Nat
      OBVIOUS
    <3> QED BY <1>0, <1>5, <3>1 DEF NewPreroll, NewBuffer, TypeOK
  <2>2. CASE j = k
    BY <1>4, <2>1, <2>2
  <2>3. CASE j # k
    BY <1>0, <1>1, <1>3, <2>1, <2>3 DEF ProcessSample, TypeOK
  <2> QED BY <2>2, <2>3
<1>6. ASSUME NEW j \in Sinks, Render(j) \/ HandingOut(j), ~NewPreroll(j), ~NewBuffer(j)
      PROVE  UNCHANGED last
  BY <1>6 DEF Render, GoLive, SinkEos, SinkEvent, HandingOut, Unlock, Deliver, sinkVars
<1>7. ASSUME NEW r \in Srcs, Create(r) \/ Control(r) PROVE UNCHANGED last
  BY <1>7 DEF Create, Pop, SendBuffer, FindDue, SendEvent, EosOut, Control, Start, Commit, Play,
     Pause, Stop, Leave, Join, sinkVars
<1> QED BY <1>3, <1>5, <1>6, <1>7 DEF Next, vars, sinkVars

\* The copy that a source makes of a buffer, which may come before the base time of
\* the node is known.
LEMMA MadeCopy ==
  ASSUME KeepsPlace, IInv, RenderedInv, SteadyInv, NEW k \in Sinks,
         NEW s \in Srcs \intersect AcceptsEvents, Deliver(k, s),
         IsBuffer(walk[k].msg), TakesBuffers(s), Synchronizes(s, walk[k].msg)
  PROVE  LET x == Made(s, walk[k].msg)
             was == Media[k][x.n] IN
         /\ x.node = k
         /\ Mode[s] # "compensate" => x.own = NULL
         /\ Mode[s] = "compensate" =>
              /\ x.n \in DOMAIN Media[k]
              /\ x.own # NULL /\ x.own.pts + base[s] <= was.pts + NodeBase[k]
<1> DEFINE m == walk[k].msg
           x == Made(s, m)
           was == Media[k][m.n]
<1>0. TypeOK
  BY DEF IInv
<1>1. m.node = k /\ m.n \in DOMAIN Media[k] /\ s \in Listeners(k) /\ m \in Renderings
  <2>1. walk[k] # NULL /\ s \in walk[k].todo
    BY DEF Deliver
  <2>2. m.node = k /\ m.n \in DOMAIN stamp[k] /\ s \in Listeners(k) /\ m \in Renderings
    BY <2>1 DEF IInv, NoStaleWalk
  <2>3. DOMAIN stamp[k] = DOMAIN Media[k]
    BY <1>0 DEF TypeOK
  <2> QED BY <2>2, <2>3
<1>2. x.node = k /\ x.n = m.n /\ (Mode[s] # "compensate" => x.own = NULL)
  BY <1>1 DEF Made, Item
<1>3. ASSUME Mode[s] = "compensate"
      PROVE  x.own # NULL /\ x.own.pts + base[s] <= was.pts + NodeBase[k]
  <2>1. state[s] = "playing" /\ k \in Nodes[s]
    BY <1>1, <1>3 DEF TakesBuffers, SteadyInv, HomesInv, Listeners
  <2>2. base[s] \in Bases[s] /\ base[s] \in Stamps
    BY <1>0, <1>3, <2>1 DEF SteadyInv, BaseInv, TypeOK
  <2>3. stamp[k] = Media[k]
    BY <1>3, <2>1 DEF SteadyInv, CleanInv
  <2>4. was \in Pairs /\ NodeBase[k] \in Stamps /\ was.pts \in Stamps
    <3>1. Media[k] \in Seq(Pairs)
      BY DEF Pairs
    <3>2. was \in Pairs
      BY <1>1, <3>1
    <3> QED BY <3>2 DEF Pairs
  <2>5. m.base \in Stamps /\ m.base <= NodeBase[k]
    <3>1. walk[k] # NULL
      BY DEF Deliver
    <3>2. m.base = NodeBase[k] \/ m.base = 0
      BY <3>1 DEF RenderedInv
    <3> QED BY <2>4, <3>2 DEF Stamps
  <2>6. PtsFits(was.pts, m.base, base[s])
    BY <1>1, <1>3, <2>3 DEF Synchronizes
  <2>13. /\ was.pts \in Nat /\ m.base \in Nat /\ NodeBase[k] \in Nat /\ base[s] \in Nat
         /\ m.base <= NodeBase[k]
    BY <2>2, <2>4, <2>5 DEF Stamps
  <2>7. was.pts + m.base < W + base[s]
    <3>1. was.pts + NodeBase[k] < W + base[s]
      BY <1>1, <1>3, <2>1, <2>2 DEF KeepsPlace, InRange
    <3>2. \A t, a, b, c \in Nat : a <= b /\ t + b < W + c => t + a < W + c
      OBVIOUS
    <3> QED BY <2>13, <3>1, <3>2
  <2>8. x.own = Compensated(was, m.base, base[s])
    BY <1>1, <1>3, <2>3 DEF Made, Item
  <2>9. x.own # NULL
    <3>1. Compensated(was, m.base, base[s]) \in Pairs
      BY <2>2, <2>4, <2>5, CompensatedTyped DEF Pairs
    <3> QED BY <2>8, <3>1, NullAssumption
  <2>10. x.own.pts = Shift(was.pts, m.base, base[s])
    BY <2>8 DEF Compensated
  <2>11. Shift(was.pts, m.base, base[s]) + base[s] = was.pts + m.base
    BY <2>2, <2>4, <2>5, <2>6, <2>7, InstantKept
  <2>12. was.pts + m.base <= was.pts + NodeBase[k]
    BY <2>13
  <2> QED BY <2>9, <2>10, <2>11, <2>12
<1> QED BY <1>1, <1>2, <1>3

LEMMA CopyStep ==
  ASSUME KeepsPlace, IInv, RenderedInv, SteadyInv, CopyInv, [Next]_vars
  PROVE  CopyInv'
<1>0. IInv' /\ TypeOK /\ TypeOK'
  BY NextInv DEF IInv
<1>1. \A s \in Srcs : Mode[s] = "compensate" /\ Buffers(s) # {} => base'[s] = base[s]
  BY <1>0, BaseStays DEF KeepsPlace
<1>2. ASSUME \A s \in Srcs : Buffers(s)' \subseteq Buffers(s) PROVE CopyInv'
  BY <1>1, <1>2 DEF CopyInv
<1>3. ASSUME NEW s \in Srcs, Create(s) PROVE CopyInv'
  BY <1>0, <1>2, <1>3, CreateBuffers
<1>4. ASSUME NEW s \in Srcs, Control(s) PROVE CopyInv'
  BY <1>0, <1>2, <1>4, ControlBuffers
<1>5. ASSUME NEW k \in Sinks, Render(k) \/ Unlock(k) PROVE CopyInv'
  BY <1>2, <1>5, RenderBuffers
<1>6. ASSUME NEW k \in Sinks, NEW s \in Srcs, Deliver(k, s) PROVE CopyInv'
  <2> DEFINE m == walk[k].msg
             x == Made(s, m)
             took == IsBuffer(m) /\ TakesBuffers(s) /\ Synchronizes(s, m) /\ ~eos[s]
  <2>1. /\ \A r \in Srcs \ {s} : Buffers(r)' = Buffers(r)
        /\ Buffers(s)' = IF took THEN Buffers(s) \union {x} ELSE Buffers(s)
    BY <1>0, <1>6, DeliverBuffers
  <2>2. took /\ s \in AcceptsEvents =>
         /\ x.node = k
         /\ Mode[s] # "compensate" => x.own = NULL
         /\ Mode[s] = "compensate" =>
              /\ x.n \in DOMAIN Media[k]
              /\ x.own # NULL /\ x.own.pts + base[s] <= Media[k][x.n].pts + NodeBase[k]
    BY <1>6, MadeCopy
  <2>3. UNCHANGED base
    BY <1>6 DEF Deliver, srcVars
  <2> HIDE DEF took, x
  <2> SUFFICES ASSUME NEW r \in Srcs \intersect AcceptsEvents, NEW y \in Buffers(r)'
               PROVE  /\ Mode[r] # "compensate" => y.own = NULL
                      /\ Mode[r] = "compensate" =>
                           /\ y.n \in DOMAIN Media[y.node]
                           /\ y.own # NULL
                           /\ y.own.pts + base[r] <= Media[y.node][y.n].pts + NodeBase[y.node]
    BY <2>3 DEF CopyInv
  <2>4. CASE y \in Buffers(r)
    BY <2>4 DEF CopyInv
  <2>5. CASE r = s /\ took /\ y = x
    BY <2>2, <2>5
  <2> QED BY <2>1, <2>4, <2>5
<1>7. CASE UNCHANGED vars
  BY <1>2, <1>7, SameBuffers DEF vars, threadVars
<1> QED BY <1>3, <1>4, <1>5, <1>6, <1>7 DEF Next, HandingOut

LEMMA AcceptStep == ASSUME IInv, AcceptInv, [Next]_vars PROVE AcceptInv'
<1>0. TypeOK
  BY DEF IInv
<1> USE <1>0
<1>1. CASE UNCHANGED <<pending, base>>
  BY <1>1 DEF AcceptInv
<1>2. ASSUME NEW r \in Srcs, Create(r) PROVE AcceptInv'
  <2>1. CASE SendEvent(r)
    <3>1. pending[r] # <<>>
      BY <2>1 DEF SendEvent, TypeOK
    <3> QED BY <2>1, <3>1 DEF SendEvent, AcceptInv, TypeOK, srcVars
  <2>2. CASE ~SendEvent(r)
    <3>1. UNCHANGED <<pending, base>>
      BY <1>2, <2>2 DEF Create, Pop, SendBuffer, FindDue, EosOut, srcVars, eventVars
    <3> QED BY <1>1, <3>1
  <2> QED BY <2>1, <2>2
<1>3. ASSUME NEW r \in Srcs, Control(r) PROVE AcceptInv'
  <2>1. CASE Play(r)
    BY <2>1 DEF Play, AcceptInv, TypeOK, eventVars
  <2>2. CASE ~Play(r)
    <3>1. UNCHANGED <<pending, base>>
      BY <1>3, <2>2 DEF Control, Start, Commit, Pause, Stop, Leave, Join, eventVars
    <3> QED BY <1>1, <3>1
  <2> QED BY <2>1, <2>2
<1>4. ASSUME NEW k \in Sinks, NEW s \in Srcs, Deliver(k, s) PROVE AcceptInv'
  <2>1. UNCHANGED base
    BY <1>4 DEF Deliver, srcVars
  <2>2. UNCHANGED pending \/ (s \in AcceptsEvents /\ \E q : pending' = [pending EXCEPT ![s] = q])
    BY <1>4 DEF Deliver, PushEvent, PushTail, eventVars
  <2> QED BY <2>1, <2>2 DEF AcceptInv, TypeOK
<1>5. ASSUME NEW k \in Sinks, Render(k) \/ Unlock(k) PROVE UNCHANGED <<pending, base>>
  BY <1>5 DEF Render, NewPreroll, NewBuffer, GoLive, SinkEos, SinkEvent, Unlock, srcVars, eventVars
<1> QED BY <1>1, <1>2, <1>3, <1>4, <1>5 DEF Next, HandingOut, vars, srcVars, eventVars

\* A delivery lets a serialized event wait, or none.
LEMMA DeliverPending ==
  ASSUME IInv, NEW k \in Sinks, NEW s \in Srcs, Deliver(k, s), NEW r \in Srcs
  PROVE  \/ pending'[r] = pending[r]
         \/ /\ r = s /\ s \in AcceptsEvents /\ IsSerialWalk(k)
            /\ Happening(walk[k].msg, s) \in Happenings
            /\ pending'[s] = Append(pending[s], Happening(walk[k].msg, s))
<1> DEFINE m == walk[k].msg
           e == Happening(m, s)
<1>0. TypeOK
  BY DEF IInv
<1>1. CASE UNCHANGED pending
  BY <1>1
<1>2. CASE IsEvent(m) /\ s \in AcceptsEvents /\ m.serial /\ PushTail(s, e)
  <2>1. m \in Sightings /\ IsSerialWalk(k)
    BY <1>2 DEF IInv, NoStaleWalk, Deliver, IsSerialWalk
  <2>2. m.node \in Sinks /\ m.at \in Nat /\ m.ts \in Stamps /\ m.base \in Stamps
    BY <2>1 DEF Sightings
  <2>3. Shift(m.ts, m.base, base[s]) \in Stamps
    BY <1>0, <2>2, ShiftTyped DEF TypeOK
  <2>4. e \in Happenings
    BY <1>2, <2>2, <2>3 DEF Happening, Happenings
  <2> HIDE DEF e
  <2>5. UNCHANGED pending \/ pending' = [pending EXCEPT ![s] = Append(@, e)]
        \/ pending' = [pending EXCEPT ![s] = @]
    BY <1>2 DEF PushTail
  <2> QED BY <1>0, <1>2, <2>1, <2>4, <2>5 DEF TypeOK, e
<1> QED BY <1>1, <1>2 DEF Deliver, PushEvent, eventVars, IsEvent

\* What is seen of a buffer stays where events are accepted.
LEMMA ViewStays ==
  ASSUME KeepsPlace, SteadyInv, SteadyInv', NEW s \in Srcs \intersect AcceptsEvents,
         NEW x \in Buffers(s), x \in Buffers(s)'
  PROVE  View(x)' = View(x)
<1>1. x.node \in Nodes[s] /\ state[s] # "off" /\ state'[s] # "off"
  BY DEF SteadyInv, HomesInv
<1>2. Mode[s] # "restart"
  BY <1>1 DEF KeepsPlace
<1>3. stamp[x.node] = Media[x.node] /\ stamp'[x.node] = Media[x.node]
  BY <1>1, <1>2 DEF SteadyInv, CleanInv
<1> QED BY <1>3 DEF View

\* A serialized event that comes has a stamp not below those of the buffers that
\* came before it.
LEMMA NewStamped ==
  ASSUME KeepsPlace, IInv, SteadyInv, LastInv, LastCleanInv, CopyInv, AcceptInv,
         NEW k \in Sinks, NEW s \in Srcs \intersect AcceptsEvents, Deliver(k, s), IsSerialWalk(k),
         NEW x \in Buffers(s), x.node = k
  PROVE  View(x).pts <= Happening(walk[k].msg, s).ts
<1> DEFINE m == walk[k].msg
           n == x.n
           b == base[s]
           a == NodeBase[k]
<1>0. TypeOK
  BY DEF IInv
<1>1. m.ts = last[k] /\ m.base = a /\ n \in DOMAIN Media[k] /\ Media[k][n].pts <= last[k]
  BY DEF LastInv, LastAt, NotAfterLast, NoneOf
<1>2. k \in Nodes[s] /\ state[s] # "off"
  BY DEF SteadyInv, HomesInv
<1>3. Mode[s] # "restart"
  BY <1>2 DEF KeepsPlace
<1>4. stamp[k] = Media[k]
  BY <1>2, <1>3 DEF SteadyInv, CleanInv
<1>5. Media[k] \in Seq(Pairs)
  BY DEF Pairs
<1>6. \A i \in DOMAIN Media[k] : Media[k][i].pts \in Nat
  <2>1. \A i \in DOMAIN Media[k] : Media[k][i] \in Pairs
    BY <1>5
  <2> QED BY <2>1 DEF Pairs, Stamps
<1>7. a \in Nat /\ b \in Nat /\ last[k] \in Nat
  BY <1>0 DEF TypeOK, Stamps
<1>8. Happening(m, s).ts = Shift(last[k], a, b)
  BY <1>1 DEF Happening, IsSerialWalk
<1>9. InRange(k, b) => last[k] + a < W + b
  <2>1. CASE last[k] = 0
    BY <1>1, <1>6, <1>7, <2>1 DEF InRange
  <2>2. ASSUME NEW i \in DOMAIN Media[k], last[k] = Media[k][i].pts
        PROVE  InRange(k, b) => last[k] + a < W + b
    BY <2>2 DEF InRange
  <2> QED BY <1>2, <1>3, <2>1, <2>2 DEF LastCleanInv
<1>10. CASE Mode[s] = "passthrough"
  <2>1. View(x) = Media[k][n]
    BY <1>4, <1>10 DEF CopyInv, View
  <2>2. InRange(k, 0) /\ b <= a
    BY <1>2, <1>7, <1>10 DEF KeepsPlace, AcceptInv
  <2>3. InRange(k, b)
    <3>1. \A i \in DOMAIN Media[k] : Media[k][i].pts + a \in Nat
      BY <1>6, <1>7
    <3> QED BY <1>7, <2>2, <3>1 DEF InRange
  <2>4. Shift(last[k], a, b) = last[k] + (a - b)
    BY <1>7, <1>9, <2>2, <2>3 DEF Shift, Plus
  <2>5. Media[k][n].pts <= last[k] + (a - b)
    BY <1>1, <1>6, <1>7, <2>2
  <2> QED BY <1>8, <2>1, <2>4, <2>5
<1>11. CASE Mode[s] = "compensate"
  <2>1. x.own # NULL /\ x.own.pts + b <= Media[k][n].pts + a
    BY <1>11 DEF CopyInv
  <2>2. x.own.pts \in Nat
    <3>1. x \in Cells
      BY <1>0, BuffersTyped
    <3> QED BY <2>1, <3>1 DEF Cells, Pairs, Stamps
  <2>3. b \in Bases[s]
    BY <1>11 DEF SteadyInv, BaseInv
  <2>4. last[k] + a < W + b
    BY <1>2, <1>9, <1>11, <2>3 DEF KeepsPlace
  <2>5. x.own.pts + b <= last[k] + a
    <3>1. \A u, t, v \in Nat : u <= t + a /\ t <= v => u <= v + a
      BY <1>7
    <3>2. x.own.pts + b \in Nat
      BY <1>7, <2>2
    <3> QED BY <1>1, <1>6, <1>7, <2>1, <3>1, <3>2
  <2>6. PtsFits(last[k], a, b)
    BY <1>7, <2>2, <2>5 DEF PtsFits
  <2>7. Shift(last[k], a, b) + b = last[k] + a /\ Shift(last[k], a, b) \in Nat
    <3>1. last[k] \in Stamps /\ a \in Stamps /\ b \in Stamps
      BY <1>0 DEF TypeOK
    <3>2. Shift(last[k], a, b) \in Stamps
      BY <3>1, ShiftTyped
    <3> QED BY <2>4, <2>6, <3>1, <3>2, InstantKept DEF Stamps
  <2>8. x.own.pts <= Shift(last[k], a, b)
    BY <1>7, <2>2, <2>5, <2>7
  <2> QED BY <1>8, <2>1, <2>8 DEF View
<1> QED BY <1>2, <1>10, <1>11 DEF KeepsPlace

\* Nothing a source has from a node is younger than what the node hands it.
LEMMA NewNotOlder ==
  ASSUME IInv, OrderInv, NEW k \in Sinks, NEW s \in Srcs, Deliver(k, s), walk[k].msg.kind # "eos",
         NEW x, x.node = k, x.at = walk[k].msg.at, NEW e \in Contents(s)
  PROVE  ~Older(x, e)
<1>1. Handing(k, s)
  BY DEF Handing, Deliver
<1>2. e.node = k => e.at < x.at
  BY <1>1 DEF OrderInv, OlderThanNews
<1>3. e.at \in Nat /\ (walk[k].msg.kind = "buffer" => x.at \in Nat)
      /\ (walk[k].msg.kind = "event" => x.at \in Nat)
  <2>1. walk[k] # NULL
    BY DEF Deliver
  <2>2. IsBuffer(walk[k].msg) => x.at \in Nat
    BY <2>1 DEF IInv, NoStaleWalk, Renderings
  <2>3. IsEvent(walk[k].msg) => x.at \in Nat
    BY <2>1 DEF IInv, NoStaleWalk, Sightings
  <2>4. e.at \in Nat
    BY ContentsTyped DEF IInv
  <2> QED BY <2>2, <2>3, <2>4 DEF IsBuffer, IsEvent
<1>4. walk[k].msg.kind \in {"buffer", "event"}
  BY DEF Deliver
<1> QED BY <1>2, <1>3, <1>4 DEF Older

LEMMA StampedStep ==
  ASSUME KeepsPlace, IInv, OrderInv, SteadyInv, LastInv, LastCleanInv, CopyInv, AcceptInv,
         StampedInv, [Next]_vars
  PROVE  StampedInv'
<1>0. IInv' /\ TypeOK /\ TypeOK' /\ SteadyInv' /\ AcceptInv'
  BY NextInv, SteadyStep, AcceptStep DEF IInv
<1>1. ASSUME NEW s \in Srcs, NEW e \in Range(pending'[s]), e \in Range(pending[s]),
             NEW x \in Buffers(s)', x \in Buffers(s), Older(x, e)
      PROVE  View(x)'.pts <= e.ts
  <2>1. pending[s] # <<>>
    BY <1>1, ShortSequence
  <2>2. s \in AcceptsEvents
    BY <2>1 DEF AcceptInv
  <2>3. View(x)' = View(x)
    BY <1>0, <1>1, <2>2, ViewStays
  <2> QED BY <1>1, <2>3 DEF StampedInv
<1>2. ASSUME \A s \in Srcs : Range(pending'[s]) \subseteq Range(pending[s]),
             \A s \in Srcs : Buffers(s)' \subseteq Buffers(s)
      PROVE  StampedInv'
  BY <1>1, <1>2 DEF StampedInv, Older
<1>3. ASSUME NEW s \in Srcs, Create(s) PROVE StampedInv'
  <2>1. \A r \in Srcs : Range(pending'[r]) \subseteq Range(pending[r])
    <3>1. CASE SendEvent(s)
      <4>1. pending' = [pending EXCEPT ![s] = Tail(@)]
            /\ pending[s] \in Seq(Happenings) /\ pending[s] # <<>>
        BY <1>0, <3>1 DEF SendEvent, TypeOK
      <4>2. Range(Tail(pending[s])) \subseteq Range(pending[s])
        BY <4>1, RangeOfTail
      <4> QED BY <1>0, <4>1, <4>2 DEF TypeOK
    <3>2. CASE ~SendEvent(s)
      BY <1>3, <3>2 DEF Create, Pop, SendBuffer, FindDue, EosOut, eventVars
    <3> QED BY <3>1, <3>2
  <2> QED BY <1>0, <1>2, <1>3, <2>1, CreateBuffers
<1>4. ASSUME NEW s \in Srcs, Control(s) PROVE StampedInv'
  <2>1. UNCHANGED pending
    BY <1>4 DEF Control, Start, Commit, Play, Pause, Stop, Leave, Join, eventVars
  <2> QED BY <1>0, <1>2, <1>4, <2>1, ControlBuffers
<1>5. ASSUME NEW k \in Sinks, Render(k) \/ Unlock(k) PROVE StampedInv'
  <2>1. UNCHANGED pending
    BY <1>5 DEF Render, NewPreroll, NewBuffer, GoLive, SinkEos, SinkEvent, Unlock, eventVars
  <2> QED BY <1>2, <1>5, <2>1, RenderBuffers
<1>6. CASE UNCHANGED vars
  BY <1>2, <1>6, SameBuffers DEF vars, threadVars, eventVars
<1>7. ASSUME NEW k \in Sinks, NEW s \in Srcs, Deliver(k, s) PROVE StampedInv'
  <2> DEFINE m == walk[k].msg
             took == IsBuffer(m) /\ TakesBuffers(s) /\ Synchronizes(s, m) /\ ~eos[s]
  <2>0. m.node = k /\ UNCHANGED <<base>>
    BY <1>7 DEF Deliver, IInv, NoStaleWalk, srcVars
  <2> SUFFICES ASSUME NEW r \in Srcs, NEW e \in Range(pending'[r]), NEW x \in Buffers(r)',
                      Older(x, e)
               PROVE  View(x)'.pts <= e.ts
    BY DEF StampedInv, Older
  <2>1. \/ e \in Range(pending[r])
        \/ r = s /\ s \in AcceptsEvents /\ IsSerialWalk(k) /\ e = Happening(m, s)
    <3>1. CASE pending'[r] = pending[r]
      BY <3>1
    <3>2. CASE /\ r = s /\ s \in AcceptsEvents /\ IsSerialWalk(k) /\ Happening(m, s) \in Happenings
               /\ pending'[s] = Append(pending[s], Happening(m, s))
      <4>1. pending[s] \in Seq(Happenings)
        BY <1>0 DEF TypeOK
      <4> QED BY <3>2, <4>1, RangeOfAppend
    <3> QED BY <1>7, <3>1, <3>2, DeliverPending
  <2>2. x \in Buffers(r) \/ (r = s /\ IsBuffer(m) /\ x = Made(s, m))
    BY <1>0, <1>7, DeliverBuffers
  <2>3. CASE e \in Range(pending[r]) /\ x \in Buffers(r)
    BY <1>1, <2>3
  <2>4. CASE e \in Range(pending[r]) /\ r = s /\ IsBuffer(m) /\ x = Made(s, m)
    <3>1. x.node = k /\ x.at = m.at /\ m.kind # "eos" /\ e \in Contents(s)
      BY <2>0, <2>4 DEF Made, Item, IsBuffer, Contents
    <3>2. ~Older(x, e)
      BY <1>7, <3>1, NewNotOlder
    <3> QED BY <3>2
  <2>5. CASE r = s /\ s \in AcceptsEvents /\ IsSerialWalk(k) /\ e = Happening(m, s)
    <3>1. x \in Buffers(s)
      BY <2>2, <2>5 DEF IsSerialWalk, IsEvent, IsBuffer
    <3>2. x.node = k
      BY <2>0, <2>5 DEF Older, Happening
    <3>3. View(x).pts <= e.ts
      BY <1>7, <2>5, <3>1, <3>2, NewStamped
    <3>4. View(x)' = View(x)
      BY <1>0, <2>5, <3>1, ViewStays
    <3> QED BY <3>3, <3>4
  <2> QED BY <2>1, <2>2, <2>3, <2>4, <2>5
<1> QED BY <1>3, <1>4, <1>5, <1>6, <1>7 DEF Next, HandingOut

\* A delivery lets one more buffer wait, or none.
LEMMA DeliverWaits ==
  ASSUME IInv, NEW k \in Sinks, NEW s \in Srcs, Deliver(k, s),
         NEW r \in Srcs, NEW x \in Range(queue'[r])
  PROVE  \/ x \in Range(queue[r])
         \/ r = s /\ IsBuffer(walk[k].msg) /\ x.node = k /\ x.at = walk[k].msg.at
<1> DEFINE m == walk[k].msg
           y == Made(s, m)
<1>0. TypeOK /\ m.node = k
  BY DEF IInv, NoStaleWalk, Deliver
<1>1. UNCHANGED queue \/ (IsBuffer(m) /\ queue' = [queue EXCEPT ![s] = Append(@, y)])
  BY DEF Deliver, PushBuffer, AppsrcPush, Made, IsBuffer
<1>2. y.node = k /\ y.at = m.at
  BY <1>0 DEF Made, Item
<1> HIDE DEF y
<1>3. queue'[r] = queue[r] \/ (r = s /\ IsBuffer(m) /\ queue'[r] = Append(queue[r], y))
  BY <1>0, <1>1 DEF TypeOK
<1>4. ASSUME queue'[r] = Append(queue[r], y) PROVE x \in Range(queue[r]) \/ x = y
  <2> DEFINE All == Cells \union {y}
  <2>1. queue[r] \in Seq(All) /\ y \in All
    BY <1>0 DEF TypeOK
  <2> HIDE DEF All
  <2>2. Range(Append(queue[r], y)) = Range(queue[r]) \union {y}
    BY <2>1, RangeOfAppend
  <2> QED BY <1>4, <2>2
<1> QED BY <1>2, <1>3, <1>4

\* What is at hand when create has found an event.
LEMMA PoppingTyped ==
  ASSUME TypeOK, NEW s \in Srcs, stage[s] \in {"check", "popping"}
  PROVE  hand[s] \in Cells /\ InHand(s) = <<hand[s]>> /\ Range(InHand(s)) = {hand[s]}
         /\ hand[s] \in Buffers(s)
<1>1. hand[s] # NULL /\ hand[s] \in Cells /\ InHand(s) = <<hand[s]>>
  BY DEF TypeOK, InHand
<1>2. Range(InHand(s)) = {hand[s]}
  BY <1>1, ShortSequence
<1>3. IsBuffer(hand[s])
  BY <1>1 DEF Cells, IsBuffer
<1> QED BY <1>1, <1>2, <1>3 DEF Buffers, Through

LEMMA HeadWaits ==
  ASSUME TypeOK, NEW s \in Srcs, pending[s] # <<>>
  PROVE  Head(pending[s]) \in Happenings /\ Head(pending[s]) \in Range(pending[s])
<1>1. pending[s] \in Seq(Happenings)
  BY DEF TypeOK
<1> QED BY <1>1, RangeOfTail

\* The event that create finds has at most the buffer at hand still before it.
LEMMA FoundDue ==
  ASSUME IInv, OrderInv, LastInv, StampedInv, NEW s \in Srcs, FindDue(s),
         hand[s].node = Head(pending[s]).node, NEW x \in Range(queue[s])
  PROVE  ~Older(x, Head(pending[s]))
<1> DEFINE y == hand[s]
           e == Head(pending[s])
<1>0. TypeOK
  BY DEF IInv
<1>1. y \in Cells /\ Range(InHand(s)) = {y} /\ y \in Buffers(s)
  BY <1>0, PoppingTyped DEF FindDue
<1>2. e \in Happenings /\ e \in Range(pending[s])
  BY <1>0, HeadWaits DEF FindDue, Due, Waiting
<1>3. queue[s] # <<>>
  BY ShortSequence
<1>4. e.ts < View(y).pts
  BY <1>3 DEF FindDue, Due
<1>5. View(y).pts \in Int
  <2>1. stamp[y.node] \in Seq(Pairs) /\ y.n \in DOMAIN stamp[y.node]
    <3>1. y.node \in Sinks
      BY <1>1 DEF Cells
    <3>2. stamp[y.node] \in Seq(Pairs) /\ Len(stamp[y.node]) = Len(Media[y.node])
      BY <1>0, <3>1 DEF TypeOK
    <3>3. y.n \in DOMAIN Media[y.node]
      BY <1>1, <3>1 DEF LastInv, LastAt, NotAfterLast
    <3>4. DOMAIN stamp[y.node] = DOMAIN Media[y.node]
      BY <3>1, <3>2
    <3> QED BY <3>2, <3>3, <3>4
  <2>2. y.own # NULL => y.own.pts \in Int
    BY <1>1 DEF Cells, Pairs, Stamps
  <2>3. stamp[y.node][y.n].pts \in Int
    <3>1. stamp[y.node][y.n] \in Pairs
      BY <2>1
    <3> QED BY <3>1 DEF Pairs, Stamps
  <2> QED BY <2>2, <2>3 DEF View
<1>6. ~Older(y, e)
  BY <1>1, <1>2, <1>4, <1>5 DEF StampedInv, Happenings, Stamps
<1>7. y.at \in Nat /\ e.at \in Nat /\ x \in Cells /\ x.at \in Nat
  <2>1. x \in Cells
    BY <1>0, ContentsTyped
  <2> QED BY <1>1, <1>2, <2>1 DEF Cells, Happenings
<1>8. Ahead(y, x)
  BY <1>1 DEF OrderInv, PartsInOrder, Before
<1>9. IsBuffer(x) /\ IsBuffer(y)
  BY <1>1, <1>7 DEF Cells, IsBuffer
<1> QED BY <1>6, <1>7, <1>8, <1>9 DEF Older, Ahead, Comparable

LEMMA DueStep ==
  ASSUME IInv, OrderInv, LastInv, StampedInv, DueInv, [Next]_vars PROVE DueInv'
<1>0. IInv' /\ TypeOK /\ TypeOK'
  BY NextInv DEF IInv
<1>1. ASSUME NEW s \in Srcs,
             stage'[s] = "popping" =>
               stage[s] = "popping" /\ hand'[s] = hand[s] /\ Head(pending'[s]) = Head(pending[s]),
             NEW x \in Range(queue'[s]),
             x \in Range(queue[s]) \/ ~Older(x, Head(pending[s])),
             stage'[s] = "popping", hand'[s].node = Head(pending'[s]).node
      PROVE  ~Older(x, Head(pending'[s]))
  BY <1>1 DEF DueInv
<1>2. ASSUME \A s \in Srcs : stage'[s] = "popping" =>
               /\ stage[s] = "popping" /\ hand'[s] = hand[s] /\ pending'[s] = pending[s]
               /\ Range(queue'[s]) \subseteq Range(queue[s])
      PROVE  DueInv'
  BY <1>2 DEF DueInv, Older
<1>3. ASSUME NEW r \in Srcs, Create(r) PROVE DueInv'
  <2>1. \A s \in Srcs \ {r} : /\ stage'[s] = stage[s] /\ hand'[s] = hand[s]
                              /\ queue'[s] = queue[s] /\ pending'[s] = pending[s]
    <3>1. /\ \E x : stage' = [stage EXCEPT ![r] = x]
          /\ UNCHANGED hand \/ \E x : hand' = [hand EXCEPT ![r] = x]
          /\ UNCHANGED queue \/ \E xs : queue' = [queue EXCEPT ![r] = xs]
          /\ UNCHANGED pending \/ \E xs : pending' = [pending EXCEPT ![r] = xs]
      BY <1>3 DEF Create, Pop, SendBuffer, FindDue, SendEvent, EosOut, eventVars
    <3> QED BY <1>0, <3>1 DEF TypeOK
  <2>2. CASE ~FindDue(r)
    <3>1. stage'[r] # "popping"
      BY <1>0, <1>3, <2>2 DEF Create, Pop, SendBuffer, SendEvent, EosOut, TypeOK
    <3> QED BY <1>2, <2>1, <3>1
  <2>3. CASE FindDue(r)
    <3>1. UNCHANGED <<hand, pending, queue>>
      BY <2>3 DEF FindDue, eventVars
    <3>2. \A x \in Range(queue[r]) : hand[r].node = Head(pending[r]).node =>
            ~Older(x, Head(pending[r]))
      BY <2>3, FoundDue
    <3> QED BY <2>1, <3>1, <3>2 DEF DueInv, Older
  <2> QED BY <2>2, <2>3
<1>4. ASSUME NEW r \in Srcs, Control(r) PROVE DueInv'
  <2>1. UNCHANGED <<hand, pending>>
    BY <1>4 DEF Control, Start, Commit, Play, Pause, Stop, Leave, Join, threadVars, eventVars
  <2>2. \A s \in Srcs : stage'[s] = "popping" => stage[s] = "popping"
    BY <1>0, <1>4 DEF Control, Start, Commit, Play, Pause, Stop, Leave, Join, threadVars, TypeOK
  <2>3. \A s \in Srcs : queue'[s] = queue[s] \/ queue'[s] = <<>>
    BY <1>0, <1>4 DEF Control, Start, Commit, Play, Pause, Stop, Leave, Join, TypeOK
  <2>4. \A s \in Srcs : Range(queue'[s]) \subseteq Range(queue[s])
    BY <2>3, ShortSequence
  <2> QED BY <1>2, <2>1, <2>2, <2>4
<1>5. ASSUME NEW k \in Sinks, Render(k) \/ Unlock(k) PROVE DueInv'
  <2>1. UNCHANGED <<hand, pending, queue, stage>>
    BY <1>5 DEF Render, NewPreroll, NewBuffer, GoLive, SinkEos, SinkEvent, Unlock, threadVars,
       eventVars
  <2> QED BY <1>2, <2>1
<1>6. CASE UNCHANGED vars
  BY <1>2, <1>6 DEF vars, threadVars, eventVars
<1>7. ASSUME NEW k \in Sinks, NEW r \in Srcs, Deliver(k, r) PROVE DueInv'
  <2> SUFFICES ASSUME NEW s \in Srcs, stage'[s] = "popping",
                      hand'[s].node = Head(pending'[s]).node, NEW x \in Range(queue'[s])
               PROVE  ~Older(x, Head(pending'[s]))
    BY DEF DueInv, Older
  <2>1. UNCHANGED <<stage, hand>> /\ pending[s] # <<>> /\ pending[s] \in Seq(Happenings)
    BY <1>0, <1>7 DEF Deliver, threadVars, TypeOK
  <2>2. Head(pending'[s]) = Head(pending[s])
    <3>1. ASSUME NEW e \in Happenings, pending'[s] = Append(pending[s], e)
          PROVE  Head(pending'[s]) = Head(pending[s])
      BY <2>1, <3>1
    <3>2. CASE /\ s = r /\ Happening(walk[k].msg, r) \in Happenings
               /\ pending'[r] = Append(pending[r], Happening(walk[k].msg, r))
      BY <3>1, <3>2
    <3> QED BY <1>7, <3>2, DeliverPending
  <2>3. x \in Range(queue[s]) \/ ~Older(x, Head(pending[s]))
    <3>1. CASE s = r /\ IsBuffer(walk[k].msg) /\ x.node = k /\ x.at = walk[k].msg.at
      <4>1. Head(pending[s]) \in Contents(s)
        BY <1>0, <2>1, HeadWaits DEF Contents
      <4>2. walk[k].msg.kind # "eos"
        BY <3>1 DEF IsBuffer
      <4> QED BY <1>7, <3>1, <4>1, <4>2, NewNotOlder
    <3> QED BY <1>7, <3>1, DeliverWaits
  <2> QED BY <1>1, <2>1, <2>2, <2>3
<1> QED BY <1>3, <1>4, <1>5, <1>6, <1>7 DEF Next, HandingOut

\* More leaves a source: buffers that waited.
LEMMA GoneGrows ==
  ASSUME TypeOK, NEW s \in Srcs, NEW i \in SerialAt(s), GoneAt(s, i),
         NEW xs \in Seq(Cells \union Happenings), out'[s] = out[s] \o xs,
         \A x \in Range(xs) : IsBuffer(x) => x \in Waits(s),
         \A x \in Waits(s)' : x \in Waits(s) \/ ~Older(x, out[s][i])
  PROVE  GoneAt(s, i)'
<1> DEFINE Outputs == Cells \union Happenings
           n == Len(out[s])
<1>1. out[s] \in Seq(Outputs) /\ xs \in Seq(Outputs)
  BY DEF TypeOK
<1> HIDE DEF Outputs
<1>2. i \in 1 .. n /\ n \in Nat /\ i < n
  BY <1>1 DEF SerialAt, GoneAt
<1>3. /\ Len(out'[s]) = n + Len(xs) /\ Len(xs) \in Nat
      /\ \A j \in 1 .. n : out'[s][j] = out[s][j]
      /\ \A j \in n + 1 .. n + Len(xs) : out'[s][j] = xs[j - n] /\ j - n \in 1 .. Len(xs)
  BY <1>1
<1>4. out'[s][i] = out[s][i] /\ out'[s][i + 1] = out[s][i + 1] /\ i < Len(out'[s])
  <2>1. i + 1 \in 1 .. n /\ n + Len(xs) >= n
    BY <1>2, <1>3
  <2> QED BY <1>2, <1>3, <2>1
<1>5. ASSUME out[s][i + 1].node = out[s][i].node,
             NEW j \in i + 2 .. Len(out'[s]), IsBuffer(out'[s][j])
      PROVE  ~Older(out'[s][j], out[s][i])
  <2>1. CASE j <= n
    <3>1. j \in i + 2 .. n /\ j \in 1 .. n
      BY <1>2, <1>3, <2>1
    <3> QED BY <1>3, <1>5, <3>1 DEF GoneAt
  <2>2. CASE j > n
    <3>1. j \in n + 1 .. n + Len(xs)
      BY <1>2, <1>3, <2>2
    <3>2. out'[s][j] = xs[j - n] /\ xs[j - n] \in Range(xs)
      BY <1>1, <1>3, <3>1, RangeOfSeq
    <3>3. out'[s][j] \in Waits(s)
      BY <1>5, <3>2
    <3> QED BY <1>5, <3>3 DEF GoneAt
  <2> QED BY <1>2, <1>3, <2>1, <2>2
<1>6. ASSUME out[s][i + 1].node = out[s][i].node, NEW x \in Waits(s)'
      PROVE  ~Older(x, out[s][i])
  BY <1>6 DEF GoneAt
<1> QED BY <1>4, <1>5, <1>6 DEF GoneAt, Older

\* No more leaves a source.
LEMMA GoneStays ==
  ASSUME TypeOK, NEW s \in Srcs, GoneInv, out'[s] = out[s],
         \A x \in Waits(s)' : x \in Waits(s) \/ \A e \in Range(out[s]) : ~Older(x, e),
         NEW i \in SerialAt(s)'
  PROVE  GoneAt(s, i)'
<1>1. i \in SerialAt(s) /\ GoneAt(s, i)
  BY DEF SerialAt, GoneInv, IsSerial, IsEvent
<1>2. out[s][i] \in Range(out[s])
  BY <1>1 DEF SerialAt, Range
<1> QED BY <1>1, <1>2 DEF GoneAt, Older

LEMMA SendGone ==
  ASSUME IInv, IInv', DueInv, GoneInv, NEW s \in Srcs, SendBuffer(s) \/ SendEvent(s),
         NEW i \in SerialAt(s)'
  PROVE  GoneAt(s, i)'
<1> DEFINE Outputs == Cells \union Happenings
           y == hand[s]
           e == Head(pending[s])
           n == Len(out[s])
<1>0. TypeOK /\ TypeOK'
  BY DEF IInv
<1>1. y \in Cells /\ Range(InHand(s)) = {y} /\ IsBuffer(y) /\ ~IsSerial(y)
  <2>1. y \in Cells /\ Range(InHand(s)) = {y}
    BY <1>0, PoppingTyped DEF SendBuffer, SendEvent
  <2> QED BY <2>1 DEF Cells, IsBuffer, IsSerial, IsEvent
<1>2. Waits(s)' = Range(queue[s]) /\ Waits(s) = {y} \union Range(queue[s])
  <2>1. InHand(s)' = <<>> /\ queue'[s] = queue[s]
    BY <1>0 DEF SendBuffer, SendEvent, TypeOK, InHand
  <2> QED BY <1>1, <2>1, ShortSequence DEF Waits
<1>3. out[s] \in Seq(Outputs) /\ n \in Nat /\ DOMAIN out[s] = 1 .. n
  BY <1>0 DEF TypeOK
<1>4. ASSUME NEW xs \in Seq(Outputs), out'[s] = out[s] \o xs, i <= n,
             \A x \in Range(xs) : IsBuffer(x) => x = y
      PROVE  GoneAt(s, i)'
  <2>1. i \in DOMAIN out[s] /\ out'[s][i] = out[s][i]
    BY <1>3, <1>4 DEF SerialAt
  <2>2. i \in SerialAt(s) /\ GoneAt(s, i)
    BY <2>1 DEF SerialAt, GoneInv, IsSerial, IsEvent
  <2> QED BY <1>0, <1>2, <1>4, <2>2, GoneGrows
<1>5. CASE SendBuffer(s)
  <2> DEFINE xs == <<y>>
  <2>1. out'[s] = out[s] \o xs /\ xs \in Seq(Outputs)
    BY <1>0, <1>1, <1>5 DEF SendBuffer, Emit, TypeOK
  <2>2. i <= n
    <3>1. Len(out'[s]) = n + 1 /\ out'[s][n + 1] = y /\ i \in 1 .. Len(out'[s])
      BY <1>3, <2>1 DEF SerialAt
    <3>2. i # n + 1
      BY <1>1, <3>1 DEF SerialAt, IsSerial, IsEvent
    <3> QED BY <1>3, <3>1, <3>2
  <2>3. Range(xs) = {y}
    BY ShortSequence
  <2> HIDE DEF xs, Outputs
  <2> QED BY <1>4, <2>1, <2>2, <2>3
<1>6. CASE SendEvent(s)
  <2> DEFINE xs == <<e, y>>
  <2>1. e \in Happenings /\ ~IsBuffer(e)
    <3>1. pending[s] # <<>>
      BY <1>0, <1>6 DEF SendEvent, TypeOK
    <3>2. e \in Happenings
      BY <1>0, <3>1, HeadWaits
    <3> QED BY <3>2 DEF Happenings, IsBuffer
  <2>2. out'[s] = out[s] \o xs /\ xs \in Seq(Outputs)
    BY <1>0, <1>1, <1>6, <2>1 DEF SendEvent, Emit, TypeOK
  <2>3. /\ Len(out'[s]) = n + 2 /\ out'[s][n + 1] = e /\ out'[s][n + 2] = y
        /\ i \in 1 .. Len(out'[s])
    BY <1>3, <2>2 DEF SerialAt
  <2>4. i # n + 2
    BY <1>1, <2>3 DEF SerialAt, IsSerial, IsEvent
  <2>5. CASE i <= n
    <3>1. \A x \in Range(xs) : x = e \/ x = y
      BY DEF Range
    <3> HIDE DEF xs, Outputs
    <3> QED BY <1>4, <2>1, <2>2, <2>5, <3>1
  <2>6. CASE i = n + 1
    <3>1. y.node = e.node => \A x \in Range(queue[s]) : ~Older(x, e)
      BY <1>6 DEF SendEvent, DueInv
    <3>2. i < Len(out'[s]) /\ out'[s][i] = e /\ out'[s][i + 1] = y /\ i + 2 .. Len(out'[s]) = {}
      BY <1>3, <2>3, <2>6
    <3> QED BY <1>2, <3>1, <3>2 DEF GoneAt, Older
  <2>7. i <= n \/ i = n + 1
    BY <1>3, <2>3, <2>4
  <2> QED BY <2>5, <2>6, <2>7
<1> QED BY <1>5, <1>6

LEMMA GoneStep ==
  ASSUME IInv, OrderInv, DueInv, GoneInv, [Next]_vars PROVE GoneInv'
<1>0. IInv' /\ TypeOK /\ TypeOK'
  BY NextInv DEF IInv
<1> SUFFICES ASSUME NEW s \in Srcs, NEW i \in SerialAt(s)' PROVE GoneAt(s, i)'
  BY DEF GoneInv
<1>1. CASE out'[s] = out[s] /\ Waits(s)' \subseteq Waits(s)
  BY <1>0, <1>1, GoneStays
<1>2. ASSUME out'[s] = out[s], hand'[s] = hand[s], Range(queue'[s]) \subseteq Range(queue[s])
      PROVE  out'[s] = out[s] /\ Waits(s)' \subseteq Waits(s)
  BY <1>2 DEF Waits, InHand
<1>3. ASSUME NEW r \in Srcs, Create(r) PROVE GoneAt(s, i)'
  <2>1. CASE r # s
    <3>1. /\ UNCHANGED out \/ \E xs : out' = [out EXCEPT ![r] = xs]
          /\ UNCHANGED hand \/ \E x : hand' = [hand EXCEPT ![r] = x]
          /\ UNCHANGED queue \/ \E xs : queue' = [queue EXCEPT ![r] = xs]
      BY <1>3 DEF Create, Pop, SendBuffer, FindDue, SendEvent, EosOut, Emit
    <3>2. out'[s] = out[s] /\ hand'[s] = hand[s] /\ queue'[s] = queue[s]
      BY <1>0, <2>1, <3>1 DEF TypeOK
    <3> QED BY <1>1, <1>2, <3>2
  <2>2. CASE Pop(s)
    <3>1. queue[s] \in Seq(Cells) /\ queue[s] # <<>> /\ out'[s] = out[s]
      BY <1>0, <2>2 DEF Pop, TypeOK
    <3>2. Range(queue[s]) = {Head(queue[s])} \union Range(Tail(queue[s]))
          /\ Head(queue[s]) \in Cells
      BY <3>1, RangeOfTail
    <3>3. queue'[s] = Tail(queue[s]) /\ InHand(s)' = <<Head(queue[s])>>
      BY <1>0, <2>2, <3>2 DEF Pop, TypeOK, InHand
    <3>4. Waits(s)' \subseteq Waits(s)
      BY <3>2, <3>3, ShortSequence DEF Waits
    <3> QED BY <1>1, <3>1, <3>4
  <2>3. CASE FindDue(s) \/ EosOut(s)
    BY <1>1, <1>2, <2>3 DEF FindDue, EosOut
  <2>4. CASE SendBuffer(s) \/ SendEvent(s)
    BY <1>0, <2>4, SendGone
  <2> QED BY <1>3, <2>1, <2>2, <2>3, <2>4 DEF Create
<1>4. ASSUME NEW r \in Srcs, Control(r) PROVE GoneAt(s, i)'
  <2>1. UNCHANGED hand
    BY <1>4 DEF Control, Start, Commit, Play, Pause, Stop, Leave, Join, threadVars
  <2>2. out'[s] = out[s] \/ out'[s] = <<>>
    BY <1>0, <1>4 DEF Control, Start, Commit, Play, Pause, Stop, Leave, Join, TypeOK
  <2>3. queue'[s] = queue[s] \/ queue'[s] = <<>>
    BY <1>0, <1>4 DEF Control, Start, Commit, Play, Pause, Stop, Leave, Join, TypeOK
  <2>4. Range(queue'[s]) \subseteq Range(queue[s])
    BY <2>3, ShortSequence
  <2>5. out'[s] # <<>>
    BY DEF SerialAt
  <2> QED BY <1>1, <1>2, <2>1, <2>2, <2>4, <2>5
<1>5. ASSUME NEW k \in Sinks, Render(k) \/ Unlock(k) PROVE GoneAt(s, i)'
  <2>1. UNCHANGED <<hand, out, queue>>
    BY <1>5 DEF Render, NewPreroll, NewBuffer, GoLive, SinkEos, SinkEvent, Unlock, threadVars
  <2> QED BY <1>1, <1>2, <2>1
<1>6. CASE UNCHANGED vars
  BY <1>1, <1>2, <1>6 DEF vars, threadVars
<1>7. ASSUME NEW k \in Sinks, NEW r \in Srcs, Deliver(k, r) PROVE GoneAt(s, i)'
  <2> DEFINE m == walk[k].msg
             e == Happening(m, r)
  <2>1. UNCHANGED hand
    BY <1>7 DEF Deliver, threadVars
  <2>2. ASSUME NEW x \in Waits(s)'
        PROVE  x \in Waits(s) \/ \A y \in Range(out[s]) : ~Older(x, y)
    <3>1. CASE x \in Range(InHand(s)')
      BY <2>1, <3>1 DEF Waits, InHand
    <3>2. CASE x \in Range(queue'[s])
      <4>1. CASE s = r /\ IsBuffer(m) /\ x.node = k /\ x.at = m.at
        <5>1. m.kind # "eos" /\ Range(out[s]) \subseteq Contents(s)
          BY <4>1 DEF IsBuffer, Contents, Through
        <5> QED BY <1>7, <4>1, <5>1, NewNotOlder
      <4> QED BY <1>7, <3>2, <4>1, DeliverWaits DEF Waits
    <3> QED BY <3>1, <3>2 DEF Waits
  <2>3. CASE out'[s] = out[s]
    BY <1>0, <2>2, <2>3, GoneStays
  <2>4. CASE ~m.serial /\ out'[s] = Append(out[s], e) /\ e \in Happenings
    <3> DEFINE xs == <<e>>
               Outputs == Cells \union Happenings
    <3>0. out[s] \in Seq(Outputs) /\ e \in Outputs
      BY <1>0, <2>4 DEF TypeOK
    <3>1. xs \in Seq(Outputs) /\ out'[s] = out[s] \o xs
      <4> HIDE DEF e, Outputs
      <4>1. Append(out[s], e) = out[s] \o <<e>> /\ <<e>> \in Seq(Outputs)
        BY <3>0
      <4> QED BY <2>4, <4>1
    <3>2. ~IsSerial(e) /\ ~IsBuffer(e)
      BY <2>4 DEF Happening, IsSerial, IsBuffer
    <3>3. Range(xs) = {e}
      BY ShortSequence
    <3>4. i \in SerialAt(s)
      <4>1. /\ Len(out'[s]) = Len(out[s]) + 1 /\ out'[s][Len(out[s]) + 1] = e
            /\ Len(out[s]) \in Nat /\ DOMAIN out[s] = 1 .. Len(out[s])
            /\ i \in 1 .. Len(out'[s]) /\ \A j \in DOMAIN out[s] : out'[s][j] = out[s][j]
        <5> HIDE DEF e, Outputs
        <5> QED BY <2>4, <3>0 DEF SerialAt
      <4> HIDE DEF e
      <4>2. i # Len(out[s]) + 1
        BY <3>2, <4>1 DEF SerialAt, IsSerial, IsEvent
      <4>3. i \in DOMAIN out[s]
        BY <4>1, <4>2
      <4> QED BY <4>1, <4>3 DEF SerialAt, IsSerial, IsEvent
    <3>5. GoneAt(s, i) /\ out[s][i] \in Range(out[s])
      BY <3>4 DEF GoneInv, SerialAt, Range
    <3>6. \A x \in Range(xs) : IsBuffer(x) => x \in Waits(s)
      BY <3>2, <3>3
    <3>7. \A x \in Waits(s)' : x \in Waits(s) \/ ~Older(x, out[s][i])
      BY <2>2, <3>5
    <3> HIDE DEF xs, e
    <3> QED BY <1>0, <3>0, <3>1, <3>4, <3>5, <3>6, <3>7, GoneGrows
  <2>5. \/ out'[s] = out[s]
        \/ ~m.serial /\ out'[s] = Append(out[s], e) /\ e \in Happenings
    <3>1. CASE UNCHANGED out
      BY <3>1
    <3>2. CASE IsEvent(m) /\ ~m.serial /\ out' = [out EXCEPT ![r] = Append(@, e)]
      <4>1. m \in Sightings
        BY <1>7, <3>2 DEF IInv, NoStaleWalk, Deliver
      <4>2. e \in Happenings
        BY <3>2, <4>1 DEF Sightings, Happening, Happenings, Stamps
      <4> HIDE DEF e
      <4> QED BY <1>0, <3>2, <4>2 DEF TypeOK
    <3> QED BY <1>7, <3>1, <3>2 DEF Deliver, PushEvent, IsEvent
  <2> QED BY <2>3, <2>4, <2>5
<1> QED BY <1>3, <1>4, <1>5, <1>6, <1>7 DEF Next, HandingOut

LEMMA EarlyStep ==
  ASSUME KeepsPlace, IInv, OrderInv, StampsInv, RenderedInv, SteadyInv, EarlyInv, [Next]_vars
  PROVE  EarlyInv'
BY LastStep, LastCleanStep, CopyStep, AcceptStep, StampedStep, DueStep, GoneStep DEF EarlyInv

LEMMA InitEarly == ASSUME Init PROVE EarlyInv
<1>1. PICK scene \in Scenes : Opening(scene)
  BY DEF Init
<1>2. \A s \in Srcs : Buffers(s) = {}
  BY InitEmpty
<1>3. LastInv
  BY <1>2 DEF Init, LastInv, LastAt, NoneOf, IsBufferWalk, IsSerialWalk
<1>4. LastCleanInv
  BY DEF Init, LastCleanInv
<1>5. AcceptInv
  BY <1>1 DEF Init, Opening, AcceptInv
<1>6. CopyInv /\ StampedInv
  BY <1>2 DEF CopyInv, StampedInv
<1>7. DueInv /\ GoneInv
  BY DEF Init, DueInv, GoneInv, SerialAt
<1> QED BY <1>3, <1>4, <1>5, <1>6, <1>7 DEF EarlyInv

\* What follows the output of a source in its line waits.
LEMMA LineSplit ==
  ASSUME TypeOK, NEW s \in Srcs
  PROVE  /\ Len(out[s]) \in Nat /\ DOMAIN out[s] = 1 .. Len(out[s])
         /\ Len(Line(s)) \in Nat /\ Len(out[s]) <= Len(Line(s))
         /\ \A j \in 1 .. Len(Line(s)) :
              IF j <= Len(out[s]) THEN Line(s)[j] = out[s][j] ELSE Line(s)[j] \in Waits(s)
<1> DEFINE Outputs == Cells \union Happenings
           gone == out[s] \o InHand(s)
           n == Len(out[s])
           m == Len(gone)
<1>1. out[s] \in Seq(Outputs) /\ InHand(s) \in Seq(Outputs) /\ queue[s] \in Seq(Outputs)
  BY HandTyped DEF TypeOK
<1> HIDE DEF Outputs
<1>2. /\ gone \in Seq(Outputs) /\ n \in Nat /\ m \in Nat /\ n <= m
      /\ DOMAIN out[s] = 1 .. n
      /\ \A j \in 1 .. n : gone[j] = out[s][j]
  BY <1>1
<1>3. \A j \in n + 1 .. m : gone[j] \in Range(InHand(s))
  <2> SUFFICES ASSUME NEW j \in n + 1 .. m PROVE gone[j] \in Range(InHand(s))
    OBVIOUS
  <2>1. gone[j] = InHand(s)[j - n] /\ j - n \in 1 .. Len(InHand(s))
    BY <1>1
  <2> QED BY <1>1, <2>1, RangeOfSeq
<1> HIDE DEF gone
<1>4. /\ Len(gone \o queue[s]) \in Nat /\ m <= Len(gone \o queue[s])
      /\ \A j \in 1 .. m : (gone \o queue[s])[j] = gone[j]
  BY <1>1, <1>2
<1>5. \A j \in m + 1 .. Len(gone \o queue[s]) : (gone \o queue[s])[j] \in Range(queue[s])
  <2> SUFFICES ASSUME NEW j \in m + 1 .. Len(gone \o queue[s])
               PROVE  (gone \o queue[s])[j] \in Range(queue[s])
    OBVIOUS
  <2>1. (gone \o queue[s])[j] = queue[s][j - m] /\ j - m \in 1 .. Len(queue[s])
    BY <1>1, <1>2
  <2> QED BY <1>1, <2>1, RangeOfSeq
<1>6. Line(s) = gone \o queue[s]
  BY DEF Line, gone
<1>7. ASSUME NEW j \in 1 .. Len(Line(s))
      PROVE  IF j <= n THEN Line(s)[j] = out[s][j] ELSE Line(s)[j] \in Waits(s)
  <2>1. j \in 1 .. n \/ j \in n + 1 .. m \/ j \in m + 1 .. Len(Line(s))
    BY <1>2
  <2>2. CASE j \in 1 .. n
    <3>1. j \in 1 .. m /\ j <= n
      BY <1>2, <2>2
    <3> QED BY <1>2, <1>4, <1>6, <2>2, <3>1
  <2>3. CASE j \in n + 1 .. m
    <3>1. j \in 1 .. m /\ ~(j <= n)
      BY <1>2, <2>3
    <3> QED BY <1>3, <1>4, <1>6, <2>3, <3>1 DEF Waits
  <2>4. CASE j \in m + 1 .. Len(Line(s))
    <3>1. ~(j <= n)
      BY <1>2, <2>4
    <3> QED BY <1>5, <1>6, <2>4, <3>1 DEF Waits
  <2> QED BY <2>1, <2>2, <2>3, <2>4
<1>8. Len(Line(s)) \in Nat /\ n <= Len(Line(s))
  BY <1>2, <1>4, <1>6
<1> QED BY <1>2, <1>7, <1>8

\* A serialized event that leaves before a buffer of its own node leaves at most
\* that one buffer early: the event gets the stamp of the last buffer before it, and
\* create looks for one with every buffer it sends.
THEOREM EarlyByOneAlways == ASSUME KeepsPlace PROVE Spec => []EarlyByOne
<1>1. IInv /\ GoneInv => EarlyByOne
  <2> SUFFICES ASSUME IInv, GoneInv, NEW s \in Srcs, NEW i \in SerialAt(s),
                      Line(s)[i + 1].node = out[s][i].node
               PROVE  Overtaken(s, i) \subseteq {i + 1}
    BY AtMostOne DEF EarlyByOne
  <2> DEFINE n == Len(out[s])
  <2>0. TypeOK
    BY DEF IInv
  <2>1. GoneAt(s, i)
    BY DEF GoneInv
  <2>2. /\ n \in Nat /\ i \in 1 .. n /\ i + 1 \in 1 .. n
        /\ Len(Line(s)) \in Nat /\ n <= Len(Line(s))
    <3>1. /\ n \in Nat /\ DOMAIN out[s] = 1 .. n
          /\ Len(Line(s)) \in Nat /\ n <= Len(Line(s))
      BY <2>0, LineSplit
    <3>2. i \in 1 .. n
      BY <3>1 DEF SerialAt
    <3> QED BY <2>1, <3>1, <3>2 DEF GoneAt
  <2>3. Line(s)[i] = out[s][i] /\ Line(s)[i + 1] = out[s][i + 1]
    <3>1. \A l \in 1 .. n : l \in 1 .. Len(Line(s)) /\ l <= n
      BY <2>2
    <3>2. \A l \in 1 .. n : Line(s)[l] = out[s][l]
      BY <2>0, <3>1, LineSplit
    <3> QED BY <2>2, <3>2
  <2> SUFFICES ASSUME NEW j \in Overtaken(s, i), j # i + 1 PROVE FALSE
    OBVIOUS
  <2>4. j \in i + 1 .. Len(Line(s)) /\ IsBuffer(Line(s)[j]) /\ Older(Line(s)[j], out[s][i])
    BY <2>3 DEF Overtaken, Older
  <2>5. j \in i + 2 .. Len(Line(s)) /\ j \in 1 .. Len(Line(s))
    BY <2>2, <2>4
  <2>6. CASE j <= n
    <3>1. j \in i + 2 .. n /\ Line(s)[j] = out[s][j]
      BY <2>0, <2>2, <2>5, <2>6, LineSplit
    <3> QED BY <2>1, <2>3, <2>4, <3>1 DEF GoneAt
  <2>7. CASE ~(j <= n)
    <3>1. Line(s)[j] \in Waits(s)
      BY <2>0, <2>5, <2>7, LineSplit
    <3> QED BY <2>1, <2>3, <2>4, <3>1 DEF GoneAt
  <2> QED BY <2>6, <2>7
<1>2. MissedInv /\ IInv /\ [Next]_vars => MissedInv'
  BY MissedStep
<1>3. MissedInv => StampsInv /\ RenderedInv
  BY DEF MissedInv
<1>4. OrderInv /\ IInv /\ [Next]_vars => OrderInv'
  BY OrderStep
<1>5. /\ EarlyInv /\ StampsInv /\ RenderedInv /\ OrderInv /\ SteadyInv /\ IInv /\ [Next]_vars
      => EarlyInv'
  BY EarlyStep
<1>6. Spec => []SteadyInv
  BY SteadyAlways DEF KeepsPlace
<1>7. Init => EarlyInv
  BY InitEarly
<1>8. EarlyInv => GoneInv
  BY DEF EarlyInv
<1> QED BY <1>1, <1>2, <1>3, <1>4, <1>5, <1>6, <1>7, <1>8, InitMissed, InitOrder, Invariance,
       PTL DEF Spec
=============================================================================
