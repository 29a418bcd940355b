----------------------------- MODULE FeedProof -----------------------------
(***************************************************************************)
(* The registry implements module Feed, for any number of sources, sinks,  *)
(* names and operations in flight, when names are orderly.                 *)
(*                                                                         *)
(* The map sends a source to the live sink that holds it.  FeedInv makes   *)
(* this sink unique.  Mapped sorts the steps of the registry by what they  *)
(* do to the live sinks and their listeners; MappedImplements takes each   *)
(* kind to a step of Feed, or to none.                                     *)
(***************************************************************************)
EXTENDS InterPipeProof

\* Nothing that Feed sees changes: the same sinks are live, with the same
\* listeners.
Silent ==
  \A k \in Sinks : (Live(k)' <=> Live(k)) /\ (Live(k) => attached'[k] = attached[k])

\* Only sink k comes up, with no listener.
Opens(k) ==
  /\ ~Live(k) /\ Live(k)' /\ attached'[k] = {}
  /\ \A j \in Sinks \ {k} : (Live(j)' <=> Live(j)) /\ attached'[j] = attached[j]

\* Only sink k goes down.
Closes(k) ==
  /\ Live(k) /\ ~Live(k)'
  /\ \A j \in Sinks \ {k} : (Live(j)' <=> Live(j)) /\ attached'[j] = attached[j]

\* Source s, which no live sink holds, goes to the live sink k.
Connects(s, k) ==
  /\ Live(k) /\ \A j \in Sinks : Live(j) => s \notin attached[j]
  /\ attached'[k] = attached[k] \union {s}
  /\ \A j \in Sinks : (Live(j)' <=> Live(j)) /\ (j # k => attached'[j] = attached[j])

\* Source s leaves the live sink k.
Disconnects(s, k) ==
  /\ Live(k) /\ s \in attached[k]
  /\ attached'[k] = attached[k] \ {s}
  /\ \A j \in Sinks : (Live(j)' <=> Live(j)) /\ (j # k => attached'[j] = attached[j])

Mapped ==
  \/ Silent
  \/ \E k \in Sinks : Opens(k) \/ Closes(k)
  \/ \E k \in Sinks, s \in Srcs : Connects(s, k) \/ Disconnects(s, k)

\* FeedOf(s) is the live sink that holds s, and NULL without one.
FeedMap ==
  \A s \in Srcs :
    /\ FeedOf(s) \in Sinks \union {NULL}
    /\ \A k \in Sinks : FeedOf(s) = k <=> Live(k) /\ s \in attached[k]

-----------------------------------------------------------------------------
(* What the steps do to live sinks and their listeners *)

\* A new sink is in the table of nodes, and nothing is in its listeners yet.
LEMMA CreateOpens ==
  ASSUME TypeOK, NodesInv, NEW k \in Sinks, NEW n \in NodeNames, CreateSink(k, n)
  PROVE  Mapped
<1>1. ~Live(k) /\ attached[k] = {}
  BY DEF CreateSink, Live, NodesInv
<1>2. Live(k)' /\ attached' = attached
  BY DEF CreateSink, AddNode, Live, TypeOK, Procs
<1>3. \A j \in Sinks \ {k} : Live(j)' <=> Live(j)
  BY DEF CreateSink, AddNode, Live, TypeOK, Procs
<1>4. QED
  BY <1>1, <1>2, <1>3 DEF Mapped, Opens

\* A sink that is being finalized feeds nobody any more.
LEMMA FinalizeCloses ==
  ASSUME TypeOK, NEW k \in Sinks, FinalizeSink(k)
  PROVE  Mapped
<1>1. Live(k)
  BY DEF FinalizeSink, MayBegin, Live
<1>2. ~Live(k)' /\ attached' = attached
  BY DEF FinalizeSink, Live, TypeOK, Procs
<1>3. \A j \in Sinks \ {k} : Live(j)' <=> Live(j)
  BY DEF FinalizeSink, sinkVars, Live, TypeOK, Procs
<1>4. QED
  BY <1>1, <1>2, <1>3 DEF Mapped, Closes

\* add_listener connects a source that no live sink holds, unless the sink it
\* was called on has begun to be finalized since the look-up.
LEMMA AttachConnects ==
  ASSUME TypeOK, CallInv, HandInv, NEW p \in Procs, Attach(p)
  PROVE  Mapped
<1>1. cur[p] \in Srcs /\ node[p] \in Sinks
  BY DEF TypeOK, CallInv, Attach, Locked
<1>2. \A j \in Sinks : Live(j)' <=> Live(j)
  BY DEF Attach, sinkVars, Live
<1>3. /\ attached'[node[p]] = attached[node[p]] \union {cur[p]}
      /\ \A j \in Sinks : j # node[p] => attached'[j] = attached[j]
  BY <1>1 DEF Attach, TypeOK
<1>4. CASE Live(node[p])
  <2>1. \A j \in Sinks : Live(j) => cur[p] \notin attached[j]
    BY DEF HandInv, Attach
  <2>2. Connects(cur[p], node[p])
    BY <1>2, <1>3, <1>4, <2>1 DEF Connects
  <2>3. QED
    BY <1>1, <2>2 DEF Mapped
<1>5. CASE ~Live(node[p])
  BY <1>2, <1>3, <1>5 DEF Mapped, Silent
<1>6. QED
  BY <1>4, <1>5

\* remove_listener disconnects the source, unless the sink is being finalized.
LEMMA DropDisconnects ==
  ASSUME TypeOK, CallInv, NEW p \in Procs, PrivDropAndListen(p) \/ PrivDropAndLeave(p)
  PROVE  Mapped
<1>1. cur[p] \in Srcs /\ node[p] \in Sinks
  BY DEF TypeOK, CallInv, PrivDropAndListen, PrivDropAndLeave, Locked
<1>2. \A j \in Sinks : Live(j)' <=> Live(j)
  BY DEF PrivDropAndListen, PrivDropAndLeave, sinkVars, Live
<1>3. /\ cur[p] \in attached[node[p]]
      /\ attached'[node[p]] = attached[node[p]] \ {cur[p]}
      /\ \A j \in Sinks : j # node[p] => attached'[j] = attached[j]
  BY <1>1 DEF PrivDropAndListen, PrivDropAndLeave, TypeOK
<1>4. CASE Live(node[p])
  BY <1>1, <1>2, <1>3, <1>4 DEF Mapped, Disconnects
<1>5. CASE ~Live(node[p])
  BY <1>2, <1>3, <1>5 DEF Mapped, Silent
<1>6. QED
  BY <1>4, <1>5

\* Every step is of one of the five kinds; all but five actions are silent.
LEMMA StepMapped ==
  ASSUME FeedInv, [Next]_vars
  PROVE  Mapped
<1> USE KindsAssumption DEF FeedInv, TypeOK, Procs, LiveInv, Silent, Live, WalkOps,
    MayBegin, coreVars, sinkVars, srcVars, callVars, walkVars
<1>1. ASSUME NEW s \in Srcs, NEW n \in NodeNames, PresetListenTo(s, n) PROVE Mapped
  BY <1>1 DEF Mapped, PresetListenTo
<1>2. ASSUME NEW s \in Srcs, NEW n \in NodeNames, SetListenTo(s, n) PROVE Mapped
  BY <1>2 DEF Mapped, SetListenTo, SrcListenNode, Goto
<1>3. ASSUME NEW s \in Srcs, DropListenTo(s) PROVE Mapped
  BY <1>3 DEF Mapped, DropListenTo
<1>4. ASSUME NEW s \in Srcs, UnsetListenTo(s) PROVE Mapped
  BY <1>4 DEF Mapped, UnsetListenTo, CallLeave, Goto
<1>5. ASSUME NEW s \in Srcs, SetBlockSwitch(s) PROVE Mapped
  BY <1>5 DEF Mapped, SetBlockSwitch
<1>6. ASSUME NEW s \in Srcs, StartAlone(s) PROVE Mapped
  BY <1>6 DEF Mapped, StartAlone
<1>7. ASSUME NEW s \in Srcs, Start(s) PROVE Mapped
  BY <1>7 DEF Mapped, Start, SrcListenNode, Goto
<1>8. ASSUME NEW s \in Srcs, StopAlone(s) PROVE Mapped
  BY <1>8 DEF Mapped, StopAlone
<1>9. ASSUME NEW s \in Srcs, Stop(s) PROVE Mapped
  BY <1>9 DEF Mapped, Stop, CallLeave, Goto
<1>10. ASSUME NEW s \in Srcs, FinalizeSrc(s) PROVE Mapped
  BY <1>10 DEF Mapped, FinalizeSrc
<1>11. ASSUME NEW s \in Srcs, SetReturns(s) PROVE Mapped
  BY <1>11 DEF Mapped, SetReturns, Listened, NotListened, Returned, Finish, ForgetCall, Goto
<1>12. ASSUME NEW s \in Srcs, UnsetReturns(s) PROVE Mapped
  BY <1>12 DEF Mapped, UnsetReturns, Left, Returned, Finish, ForgetCall, Goto
<1>13. ASSUME NEW s \in Srcs, StartReturns(s) PROVE Mapped
  BY <1>13 DEF Mapped, StartReturns, Listened, Finish, ForgetCall, Goto
<1>14. ASSUME NEW s \in Srcs, StartFails(s) PROVE Mapped
  BY <1>14 DEF Mapped, StartFails, NotListened, Returned, Finish, ForgetCall, Goto
<1>15. ASSUME NEW s \in Srcs, StopReturns(s) PROVE Mapped
  BY <1>15 DEF Mapped, StopReturns, Left, Returned, Finish, ForgetCall, Goto
<1>16. ASSUME NEW k \in Sinks, NEW n \in NodeNames, CreateSink(k, n) PROVE Mapped
  BY <1>16, CreateOpens DEF FeedInv
<1>17. ASSUME NEW k \in Sinks, NEW n \in NodeNames, RenameSink(k, n) PROVE Mapped
  BY <1>17 DEF Mapped, RenameSink, RemoveNode, Goto
<1>18. ASSUME NEW k \in Sinks, FinalizeSink(k) PROVE Mapped
  BY <1>18, FinalizeCloses DEF FeedInv
<1>19. ASSUME NEW k \in Sinks, Kick(k) PROVE Mapped
  BY <1>19 DEF Mapped, Kick, Goto
<1>20. ASSUME NEW k \in Sinks, NEW l \in ListenerNames, SkipListener(k, l) PROVE Mapped
  BY <1>20 DEF Mapped, SkipListener
<1>21. ASSUME NEW k \in Sinks, NEW l \in ListenerNames, NotifyAdded(k, l) PROVE Mapped
  BY <1>21 DEF Mapped, NotifyAdded, SrcListenNode, Goto
<1>22. ASSUME NEW k \in Sinks, NEW l \in ListenerNames, NotifyRemoved(k, l) PROVE Mapped
  BY <1>22 DEF Mapped, NotifyRemoved, CallLeave, Goto
<1>23. ASSUME NEW k \in Sinks, NEW s \in Srcs, KickNext(k, s) PROVE Mapped
  BY <1>23 DEF Mapped, KickNext, CallLeave, Goto
<1>24. ASSUME NEW k \in Sinks, CallbackReturns(k) PROVE Mapped
  BY <1>24 DEF Mapped, CallbackReturns, Listened, NotListened, Left, Returned, ForgetCall, Goto
<1>25. ASSUME NEW k \in Sinks, NameReturns(k) PROVE Mapped
  BY <1>25 DEF Mapped, NameReturns, WalkOver, Finish, ForgetCall, Goto
<1>26. ASSUME NEW k \in Sinks, RenameRegisters(k) PROVE Mapped
  BY <1>26 DEF Mapped, RenameRegisters, WalkOver, AddNode, Goto
<1>27. ASSUME NEW k \in Sinks, FinalizeReturns(k) PROVE Mapped
  BY <1>27 DEF Mapped, FinalizeReturns, WalkOver, Finish, ForgetCall, Goto
<1>28. ASSUME NEW k \in Sinks, KickReturns(k) PROVE Mapped
  BY <1>28 DEF Mapped, KickReturns, Finish, ForgetCall, Goto
<1>29. ASSUME NEW p \in Procs, AlreadyListening(p) PROVE Mapped
  BY <1>29 DEF Mapped, AlreadyListening, EntryOf, Goto
<1>30. ASSUME NEW p \in Procs, ListenLock(p) PROVE Mapped
  BY <1>30 DEF Mapped, ListenLock, MustLeaveFirst, EntryOf, Goto
<1>31. ASSUME NEW p \in Procs, LeaveUnknown(p) PROVE Mapped
  BY <1>31 DEF Mapped, LeaveUnknown, EntryOf, Goto
<1>32. ASSUME NEW p \in Procs, LeavePending(p) PROVE Mapped
  BY <1>32 DEF Mapped, LeavePending, EntryOf, RemoveEntry, KeysChanged, Goto
<1>33. ASSUME NEW p \in Procs, LeaveLock(p) PROVE Mapped
  BY <1>33 DEF Mapped, LeaveLock, EntryOf, Goto
<1>34. ASSUME NEW p \in Procs, LookupMissing(p) PROVE Mapped
  BY <1>34 DEF Mapped, LookupMissing, EntryOf, InsertEntry, Point, KeysChanged, Goto
<1>35. ASSUME NEW p \in Procs, LookupFound(p) PROVE Mapped
  BY <1>35 DEF Mapped, LookupFound, Goto
<1>36. ASSUME NEW p \in Procs, Attach(p) PROVE Mapped
  BY <1>36, AttachConnects DEF FeedInv
<1>37. ASSUME NEW p \in Procs, AttachRefused(p) PROVE Mapped
  BY <1>37 DEF Mapped, AttachRefused, Goto
<1>38. ASSUME NEW p \in Procs, PrivNoNode(p) PROVE Mapped
  BY <1>38 DEF Mapped, PrivNoNode, EntryOf, PrivFailed, Point, Leaving, Goto
<1>39. ASSUME NEW p \in Procs, PrivGetNode(p) PROVE Mapped
  BY <1>39 DEF Mapped, PrivGetNode, EntryOf, Goto
<1>40. ASSUME NEW p \in Procs, PrivNotThere(p) PROVE Mapped
  BY <1>40 DEF Mapped, PrivNotThere, EntryOf, PrivFailed, Point, Leaving, Goto
<1>41. ASSUME NEW p \in Procs, PrivDropAndListen(p) PROVE Mapped
  BY <1>41, DropDisconnects DEF FeedInv
<1>42. ASSUME NEW p \in Procs, PrivDropAndLeave(p) PROVE Mapped
  BY <1>42, DropDisconnects DEF FeedInv
<1>43. ASSUME NEW p \in Procs, UndoListen(p) PROVE Mapped
  BY <1>43 DEF Mapped, UndoListen, Goto
<1>44. ASSUME NEW p \in Procs, Relisten(p) PROVE Mapped
  BY <1>44 DEF Mapped, Relisten, Returned, Goto
<1>45. ASSUME NEW k \in Sinks, NEW s \in Srcs, CapsChange(k, s) PROVE Mapped
  BY <1>45 DEF Mapped, CapsChange
<1>46. CASE AllFreed
  BY <1>46 DEF Mapped, AllFreed, vars
<1>47. CASE UNCHANGED vars
  BY <1>47 DEF Mapped, vars
<1>48. QED
  BY <1>1, <1>2, <1>3, <1>4, <1>5, <1>6, <1>7, <1>8, <1>9, <1>10, <1>11, <1>12, <1>13,
      <1>14, <1>15, <1>16, <1>17, <1>18, <1>19, <1>20, <1>21, <1>22, <1>23, <1>24, <1>25,
      <1>26, <1>27, <1>28, <1>29, <1>30, <1>31, <1>32, <1>33, <1>34, <1>35, <1>36, <1>37,
      <1>38, <1>39, <1>40, <1>41, <1>42, <1>43, <1>44, <1>45, <1>46, <1>47 DEF Next,
      SrcBegins, SrcReturns, SinkBegins, SinkWalks, CoreLocks, CoreHoldsLock, CoreUnlocked

-----------------------------------------------------------------------------
(* The map *)

\* One live sink at most holds a source, so the choice in FeedOf is no choice.
LEMMA FeedMapHolds == FeedInv => FeedMap
<1> SUFFICES ASSUME FeedInv, NEW s \in Srcs
             PROVE  /\ FeedOf(s) \in Sinks \union {NULL}
                    /\ \A k \in Sinks : FeedOf(s) = k <=> Live(k) /\ s \in attached[k]
  BY DEF FeedMap
<1>1. CASE \E k \in LiveSinks : s \in attached[k]
  <2>1. FeedOf(s) \in LiveSinks /\ s \in attached[FeedOf(s)]
    BY <1>1 DEF FeedOf
  <2>2. FeedOf(s) \in Sinks /\ Live(FeedOf(s))
    BY <2>1 DEF LiveSinks
  <2>3. QED
    BY <2>1, <2>2, FeedInvOneFeed DEF OneFeed
<1>2. CASE ~\E k \in LiveSinks : s \in attached[k]
  BY <1>2, NullAssumption DEF FeedOf, LiveSinks
<1>3. QED
  BY <1>1, <1>2

Feeds == [s \in Srcs |-> FeedOf(s)]

\* Each kind of step is a step of Feed, or none: it changes the feed of the
\* one source that connects or disconnects, or of the sources of the sink that
\* goes down, and of no other.
LEMMA MappedImplements ==
  ASSUME FeedMap, FeedMap', Mapped
  PROVE  [Abstract!Next]_<<LiveSinks, Feeds>>
<1> USE NullAssumption
<1>0. /\ \A s \in Srcs, k \in Sinks : FeedOf(s) = k <=> Live(k) /\ s \in attached[k]
      /\ \A s \in Srcs, k \in Sinks : FeedOf(s)' = k <=> Live(k)' /\ s \in attached'[k]
      /\ \A s \in Srcs : FeedOf(s) \in Sinks \union {NULL} /\ FeedOf(s)' \in Sinks \union {NULL}
  BY DEF FeedMap
<1>1. CASE Silent
  <2>1. LiveSinks' = LiveSinks
    BY <1>1 DEF Silent, LiveSinks
  <2>2. ASSUME NEW s \in Srcs PROVE FeedOf(s)' = FeedOf(s)
    BY <1>0, <1>1 DEF Silent
  <2>3. Feeds' = Feeds
    BY <2>2 DEF Feeds
  <2>4. QED
    BY <2>1, <2>3
<1>2. ASSUME NEW k \in Sinks, Opens(k) PROVE Abstract!Next
  <2>1. k \notin LiveSinks /\ LiveSinks' = LiveSinks \union {k}
    BY <1>2 DEF Opens, LiveSinks
  <2>2. ASSUME NEW s \in Srcs PROVE FeedOf(s)' = FeedOf(s)
    BY <1>0, <1>2 DEF Opens
  <2>3. Feeds' = Feeds
    BY <2>2 DEF Feeds
  <2>4. Abstract!Open(k)
    BY <2>1, <2>3 DEF Abstract!Open, Feeds
  <2>5. QED
    BY <2>4 DEF Abstract!Next
<1>3. ASSUME NEW k \in Sinks, Closes(k) PROVE Abstract!Next
  <2>1. k \in LiveSinks /\ LiveSinks' = LiveSinks \ {k}
    BY <1>3 DEF Closes, LiveSinks
  <2>2. ASSUME NEW s \in Srcs PROVE FeedOf(s)' = IF FeedOf(s) = k THEN NULL ELSE FeedOf(s)
    BY <1>0, <1>3 DEF Closes
  <2>3. Feeds' = [s \in Srcs |-> IF Feeds[s] = k THEN NULL ELSE Feeds[s]]
    BY <2>2 DEF Feeds
  <2>4. Abstract!Close(k)
    BY <2>1, <2>3 DEF Abstract!Close, Feeds
  <2>5. QED
    BY <2>4 DEF Abstract!Next
<1>4. ASSUME NEW k \in Sinks, NEW s \in Srcs, Connects(s, k) PROVE Abstract!Next
  <2>1. k \in LiveSinks /\ LiveSinks' = LiveSinks
    BY <1>4 DEF Connects, LiveSinks
  <2>2. FeedOf(s) = NULL /\ FeedOf(s)' = k
    BY <1>0, <1>4 DEF Connects
  <2>3. ASSUME NEW r \in Srcs, r # s PROVE FeedOf(r)' = FeedOf(r)
    BY <1>0, <1>4, <2>3 DEF Connects
  <2>4. Feeds' = [Feeds EXCEPT ![s] = k]
    BY <2>2, <2>3 DEF Feeds
  <2>5. Abstract!Connect(s, k)
    BY <2>1, <2>2, <2>4 DEF Abstract!Connect, Feeds
  <2>6. QED
    BY <2>5 DEF Abstract!Next
<1>5. ASSUME NEW k \in Sinks, NEW s \in Srcs, Disconnects(s, k) PROVE Abstract!Next
  <2>1. LiveSinks' = LiveSinks
    BY <1>5 DEF Disconnects, LiveSinks
  <2>2. FeedOf(s) = k /\ FeedOf(s)' = NULL
    BY <1>0, <1>5 DEF Disconnects
  <2>3. ASSUME NEW r \in Srcs, r # s PROVE FeedOf(r)' = FeedOf(r)
    BY <1>0, <1>5, <2>3 DEF Disconnects
  <2>4. Feeds' = [Feeds EXCEPT ![s] = NULL]
    BY <2>2, <2>3 DEF Feeds
  <2>5. Abstract!Disconnect(s)
    BY <2>1, <2>2, <2>4 DEF Abstract!Disconnect, Feeds
  <2>6. QED
    BY <2>5 DEF Abstract!Next
<1>6. QED
  BY <1>1, <1>2, <1>3, <1>4, <1>5 DEF Mapped

\* In the initial state no sink is up and no source is fed.
LEMMA InitImplements == Init => Abstract!Init
<1> SUFFICES ASSUME Init PROVE Abstract!Init
  OBVIOUS
<1>1. LiveSinks = {}
  BY DEF Init, LiveSinks, Live
<1>2. \A s \in Srcs : FeedOf(s) = NULL
  BY <1>1 DEF FeedOf
<1>3. QED
  BY <1>1, <1>2 DEF Abstract!Init

-----------------------------------------------------------------------------
(* The theorem *)

\* The registry implements Feed: whatever the threads do, a source goes to a
\* sink only from no sink, to a sink that is up, and a sink that is finalized
\* takes its sources, and no others, with it.
THEOREM ImplementsFeedAlways ==
  ASSUME OrderlyNames
  PROVE  Spec => ImplementsFeed
<1>1. FeedInv /\ [Next]_vars => FeedInv'
  BY FeedStep
<1>2. FeedInv /\ FeedInv' /\ [Next]_vars => [Abstract!Next]_<<LiveSinks, Feeds>>
  <2> SUFFICES ASSUME FeedInv, FeedInv', [Next]_vars
               PROVE  [Abstract!Next]_<<LiveSinks, Feeds>>
    OBVIOUS
  <2>1. FeedMap /\ FeedMap'
    BY FeedMapHolds, PTL
  <2>2. QED
    BY <2>1, StepMapped, MappedImplements
<1>3. QED
  BY <1>1, <1>2, FeedInit, InitImplements, PTL DEF Spec, ImplementsFeed, Abstract!Spec, Feeds

=============================================================================
