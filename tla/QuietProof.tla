------------------------------ MODULE QuietProof -----------------------------
(***************************************************************************)
(* Proofs about module InterPipe when one thread at a time runs operations *)
(* and nothing is refused: where every source is attached, and what its    *)
(* entry says, at every step and so whenever no operation is in flight.    *)
(***************************************************************************)
EXTENDS OneThreadProof

-----------------------------------------------------------------------------
(* What is known at every step *)

\* One thread, names in order as far as the table of nodes and the entries need
\* them, no refusals, and block-switch never set.  Sinks may be renamed and may
\* throw their listeners out.
Peaceful ==
  /\ MaxBusy = 1
  /\ FreshNames /\ DistinctNames
  /\ MayRefuse = {} /\ MayBlock = {}

CalmInv == clash = {} /\ blocking = {}

\* What the elements call the core for.
CallerInv ==
  /\ \A s \in Srcs :
       /\ op[s] \in {"idle", "set", "start", "unset", "stop"}
       /\ pc[s] # "walk"
       /\ op[s] \in {"set", "start"} => call[s] = "listen" /\ pc[s] # "failed"
       /\ op[s] \in {"unset", "stop"} => call[s] = "leave"
       /\ op[s] = "set" => srcState[s] = "started"
       /\ op[s] = "start" => srcState[s] = "ready" /\ want[s] = listenTo[s]
  /\ \A k \in Sinks :
       /\ op[k] \in {"idle", "name", "unname", "finalize", "kick"}
       /\ pc[k] = "walk" => cur[k] = NULL
       /\ op[k] = "name" /\ pc[k] # "walk" =>
            call[k] = "listen" /\ pc[k] # "failed" /\ want[k] = nodeName[k]
       /\ (Removing(k) \/ op[k] = "kick") /\ pc[k] # "walk" => call[k] = "leave"

\* The entry of source s says what the table of nodes says of name n: it points
\* at n, and s is attached, exactly if there is a node of that name.
Points(s, n) ==
  IF nodes[n] = NULL
  THEN EntryFor(s).listen_to = NULL
  ELSE EntryFor(s).listen_to = n /\ s \in attached[nodes[n]]

Registered(s) == srcState[s] = "started" /\ listening[s] /\ listenTo[s] # NULL

Untouched(s) == \A p \in Procs : cur[p] # s

\* The walk of sink k has yet to come to source s.
ToBeTold(k, s) ==
  /\ NameOf[s] \in todo[k] /\ listenTo[s] = nodeName[k]
  /\ \/ op[k] = "name" /\ EntryFor(s).listen_to = NULL
     \/ Removing(k) /\ EntryFor(s).listen_to = nodeName[k] /\ nodes[nodeName[k]] = NULL

\* Sources that no call is about: one that has an entry is listening, and its
\* entry is right unless a walk is on its way to it.
Settled(s) == Registered(s) /\ (Points(s, listenTo[s]) \/ \E k \in Sinks : ToBeTold(k, s))
InPlace(s) == EntryFor(s) # NULL /\ Untouched(s) => Settled(s)
PlaceInv == \A s \in Srcs : InPlace(s)

\* The source that a call is about.
HeldByListen(p, s) ==
  /\ want[p] # NULL
  /\ op[p] = "set" /\ EntryFor(s) # NULL /\ pc[p] # "done" => Registered(s)
  /\ op[p] = "set" /\ EntryFor(s) # NULL /\ pc[p] \in {"listen", "priv_get", "priv_drop"} =>
       Points(s, listenTo[s])
  /\ op[p] = "start" => pc[p] \notin {"priv_get", "priv_drop"} /\ (pc[p] # "done" => EntryFor(s) = NULL)
  /\ op[p] = "name" =>
       /\ EntryFor(s) # NULL /\ Registered(s)
       /\ want[p] = listenTo[s] /\ pc[p] \notin {"priv_get", "priv_drop"}
       /\ pc[p] # "done" => EntryFor(s).listen_to = NULL
  /\ pc[p] = "attach" => node[p] = nodes[want[p]]
  /\ pc[p] = "done" => EntryFor(s) # NULL /\ Points(s, want[p])

HeldByLeave(p, s) ==
  /\ EntryFor(s) # NULL => Registered(s)
  /\ ~Removing(p) /\ EntryFor(s) # NULL => Points(s, listenTo[s])
  /\ ~Removing(p) /\ Returned(p) => EntryFor(s) = NULL
  /\ Removing(p) =>
       /\ EntryFor(s) # NULL /\ listenTo[s] = nodeName[p] /\ nodes[nodeName[p]] = NULL
       /\ pc[p] \in {"leave", "priv_get"} => EntryFor(s).listen_to = nodeName[p]
       /\ Returned(p) => EntryFor(s).listen_to = NULL
       /\ pc[p] # "priv_drop"
  /\ pc[p] = "priv_drop" => node[p] = nodes[EntryFor(s).listen_to]

Held(p) ==
  /\ call[p] = "listen" => HeldByListen(p, cur[p])
  /\ call[p] = "leave" => HeldByLeave(p, cur[p])
HeldInv == \A p \in Procs : cur[p] # NULL => Held(p)

\* No walk sees a key come or go: the calls it makes change entries in place.
StaleInv == stale = {}

\* A walk has nothing to do for a source that it need not tell.
Awaits(k, s) ==
  op[k] \in WalkOps /\ NameOf[s] \in todo[k] =>
    /\ cur[k] # s
    /\ EntryFor(s) # NULL /\ listenTo[s] = nodeName[k] => ToBeTold(k, s)
WalkInv == \A k \in Sinks, s \in Srcs : Awaits(k, s)

PlacesInv == CalmInv /\ CallerInv /\ PlaceInv /\ HeldInv /\ StaleInv /\ WalkInv

-----------------------------------------------------------------------------
(* What the elements call the core for *)

\* Without refusals and block-switch no source is refused or blocked.
LEMMA CalmStep ==
  ASSUME Peaceful, TypeOK, CalmInv, [Next]_vars
  PROVE  CalmInv'
<1> USE DEF Peaceful, TypeOK, CalmInv, coreVars, sinkVars, srcVars, callVars, walkVars
<1>1. ASSUME NEW s \in Srcs, NEW n \in NodeNames, PresetListenTo(s, n) PROVE CalmInv'
  BY <1>1 DEF PresetListenTo
<1>2. ASSUME NEW s \in Srcs, NEW n \in NodeNames, SetListenTo(s, n) PROVE CalmInv'
  BY <1>2 DEF SetListenTo, SrcListenNode, Goto
<1>3. ASSUME NEW s \in Srcs, DropListenTo(s) PROVE CalmInv'
  BY <1>3 DEF DropListenTo
<1>4. ASSUME NEW s \in Srcs, UnsetListenTo(s) PROVE CalmInv'
  BY <1>4 DEF UnsetListenTo, CallLeave, Goto
<1>5. ASSUME NEW s \in Srcs, SetBlockSwitch(s) PROVE CalmInv'
  BY <1>5 DEF SetBlockSwitch
<1>6. ASSUME NEW s \in Srcs, StartAlone(s) PROVE CalmInv'
  BY <1>6 DEF StartAlone
<1>7. ASSUME NEW s \in Srcs, Start(s) PROVE CalmInv'
  BY <1>7 DEF Start, SrcListenNode, Goto
<1>8. ASSUME NEW s \in Srcs, StopAlone(s) PROVE CalmInv'
  BY <1>8 DEF StopAlone
<1>9. ASSUME NEW s \in Srcs, Stop(s) PROVE CalmInv'
  BY <1>9 DEF Stop, CallLeave, Goto
<1>10. ASSUME NEW s \in Srcs, FinalizeSrc(s) PROVE CalmInv'
  BY <1>10 DEF FinalizeSrc
<1>11. ASSUME NEW s \in Srcs, SetReturns(s) PROVE CalmInv'
  BY <1>11 DEF SetReturns, Listened, NotListened, Returned, Finish, ForgetCall, Goto
<1>12. ASSUME NEW s \in Srcs, UnsetReturns(s) PROVE CalmInv'
  BY <1>12 DEF UnsetReturns, Left, Returned, Finish, ForgetCall, Goto
<1>13. ASSUME NEW s \in Srcs, StartReturns(s) PROVE CalmInv'
  BY <1>13 DEF StartReturns, Listened, Finish, ForgetCall, Goto
<1>14. ASSUME NEW s \in Srcs, StartFails(s) PROVE CalmInv'
  BY <1>14 DEF StartFails, NotListened, Returned, Finish, ForgetCall, Goto
<1>15. ASSUME NEW s \in Srcs, StopReturns(s) PROVE CalmInv'
  BY <1>15 DEF StopReturns, Left, Returned, Finish, ForgetCall, Goto
<1>16. ASSUME NEW k \in Sinks, NEW n \in NodeNames, CreateSink(k, n) PROVE CalmInv'
  BY <1>16 DEF CreateSink, AddNode, Goto
<1>17. ASSUME NEW k \in Sinks, NEW n \in NodeNames, RenameSink(k, n) PROVE CalmInv'
  BY <1>17 DEF RenameSink, RemoveNode, Goto
<1>18. ASSUME NEW k \in Sinks, FinalizeSink(k) PROVE CalmInv'
  BY <1>18 DEF FinalizeSink, RemoveNode, Goto
<1>19. ASSUME NEW k \in Sinks, Kick(k) PROVE CalmInv'
  BY <1>19 DEF Kick, Goto
<1>20. ASSUME NEW k \in Sinks, NEW l \in ListenerNames, SkipListener(k, l) PROVE CalmInv'
  BY <1>20 DEF SkipListener
<1>21. ASSUME NEW k \in Sinks, NEW l \in ListenerNames, NotifyAdded(k, l) PROVE CalmInv'
  BY <1>21 DEF NotifyAdded, SrcListenNode, Goto
<1>22. ASSUME NEW k \in Sinks, NEW l \in ListenerNames, NotifyRemoved(k, l) PROVE CalmInv'
  BY <1>22 DEF NotifyRemoved, CallLeave, Goto
<1>23. ASSUME NEW k \in Sinks, NEW s \in Srcs, KickNext(k, s) PROVE CalmInv'
  BY <1>23 DEF KickNext, CallLeave, Goto
<1>24. ASSUME NEW k \in Sinks, CallbackReturns(k) PROVE CalmInv'
  BY <1>24 DEF CallbackReturns, Listened, NotListened, Left, Returned, ForgetCall, Goto
<1>25. ASSUME NEW k \in Sinks, NameReturns(k) PROVE CalmInv'
  BY <1>25 DEF NameReturns, WalkOver, Finish, ForgetCall, Goto
<1>26. ASSUME NEW k \in Sinks, RenameRegisters(k) PROVE CalmInv'
  BY <1>26 DEF RenameRegisters, WalkOver, AddNode, Goto
<1>27. ASSUME NEW k \in Sinks, FinalizeReturns(k) PROVE CalmInv'
  BY <1>27 DEF FinalizeReturns, WalkOver, Finish, ForgetCall, Goto
<1>28. ASSUME NEW k \in Sinks, KickReturns(k) PROVE CalmInv'
  BY <1>28 DEF KickReturns, Finish, ForgetCall, Goto
<1>29. ASSUME NEW p \in Procs, AlreadyListening(p) PROVE CalmInv'
  BY <1>29 DEF AlreadyListening, EntryOf, Goto
<1>30. ASSUME NEW p \in Procs, ListenLock(p) PROVE CalmInv'
  BY <1>30 DEF ListenLock, MustLeaveFirst, EntryOf, Goto
<1>31. ASSUME NEW p \in Procs, LeaveUnknown(p) PROVE CalmInv'
  BY <1>31 DEF LeaveUnknown, EntryOf, Goto
<1>32. ASSUME NEW p \in Procs, LeavePending(p) PROVE CalmInv'
  BY <1>32 DEF LeavePending, EntryOf, RemoveEntry, KeysChanged, Goto
<1>33. ASSUME NEW p \in Procs, LeaveLock(p) PROVE CalmInv'
  BY <1>33 DEF LeaveLock, EntryOf, Goto
<1>34. ASSUME NEW p \in Procs, LookupMissing(p) PROVE CalmInv'
  BY <1>34 DEF LookupMissing, EntryOf, InsertEntry, Point, KeysChanged, Goto
<1>35. ASSUME NEW p \in Procs, LookupFound(p) PROVE CalmInv'
  BY <1>35 DEF LookupFound, Goto
<1>36. ASSUME NEW p \in Procs, Attach(p) PROVE CalmInv'
  BY <1>36 DEF Attach, EntryOf, InsertEntry, Point, KeysChanged, Goto
<1>37. ASSUME NEW p \in Procs, AttachRefused(p) PROVE CalmInv'
  BY <1>37 DEF AttachRefused, Goto
<1>38. ASSUME NEW p \in Procs, PrivNoNode(p) PROVE CalmInv'
  BY <1>38 DEF PrivNoNode, EntryOf, PrivFailed, Point, Leaving, Goto
<1>39. ASSUME NEW p \in Procs, PrivGetNode(p) PROVE CalmInv'
  BY <1>39 DEF PrivGetNode, EntryOf, Goto
<1>40. ASSUME NEW p \in Procs, PrivNotThere(p) PROVE CalmInv'
  BY <1>40 DEF PrivNotThere, EntryOf, PrivFailed, Point, Leaving, Goto
<1>41. ASSUME NEW p \in Procs, PrivDropAndListen(p) PROVE CalmInv'
  BY <1>41 DEF PrivDropAndListen, EntryOf, Leaving, Goto
<1>42. ASSUME NEW p \in Procs, PrivDropAndLeave(p) PROVE CalmInv'
  BY <1>42 DEF PrivDropAndLeave, EntryOf, Leaving, RemoveEntry, KeysChanged, Goto
<1>43. ASSUME NEW p \in Procs, UndoListen(p) PROVE CalmInv'
  BY <1>43 DEF UndoListen, Goto
<1>44. ASSUME NEW p \in Procs, Relisten(p) PROVE CalmInv'
  BY <1>44 DEF Relisten, Returned, Goto
<1>45. ASSUME NEW k \in Sinks, NEW s \in Srcs, CapsChange(k, s) PROVE CalmInv'
  BY <1>45 DEF CapsChange
<1>46. CASE AllFreed
  BY <1>46 DEF AllFreed, vars
<1>47. CASE UNCHANGED vars
  BY <1>47 DEF vars
<1>48. QED
  BY <1>1, <1>2, <1>3, <1>4, <1>5, <1>6, <1>7, <1>8, <1>9, <1>10, <1>11, <1>12, <1>13,
      <1>14, <1>15, <1>16, <1>17, <1>18, <1>19, <1>20, <1>21, <1>22, <1>23, <1>24, <1>25,
      <1>26, <1>27, <1>28, <1>29, <1>30, <1>31, <1>32, <1>33, <1>34, <1>35, <1>36, <1>37,
      <1>38, <1>39, <1>40, <1>41, <1>42, <1>43, <1>44, <1>45, <1>46, <1>47 DEF Next,
      SrcBegins, SrcReturns, SinkBegins, SinkWalks, CoreLocks, CoreHoldsLock, CoreUnlocked

\* Every action keeps what an operation calls the core for.
LEMMA CallerStep ==
  ASSUME TypeOK, LockInv, LiveInv, CallInv, SoloInv, CalmInv, CallerInv, [Next]_vars
  PROVE  CallerInv'
<1> USE NullAssumption, KindsAssumption DEF TypeOK, Procs, LockInv, LiveInv, CallInv,
    SoloInv, CalmInv, CallerInv, Removing, Locked, Labels, Calls, Leaving, Returned, Ops,
    WalkOps, MayBegin, coreVars, sinkVars, srcVars, callVars, walkVars
<1>1. ASSUME NEW s \in Srcs, NEW n \in NodeNames, PresetListenTo(s, n) PROVE CallerInv'
  BY <1>1 DEF PresetListenTo
<1>2. ASSUME NEW s \in Srcs, NEW n \in NodeNames, SetListenTo(s, n) PROVE CallerInv'
  BY <1>2 DEF SetListenTo, SrcListenNode, Goto
<1>3. ASSUME NEW s \in Srcs, DropListenTo(s) PROVE CallerInv'
  BY <1>3 DEF DropListenTo
<1>4. ASSUME NEW s \in Srcs, UnsetListenTo(s) PROVE CallerInv'
  BY <1>4 DEF UnsetListenTo, CallLeave, Goto
<1>5. ASSUME NEW s \in Srcs, SetBlockSwitch(s) PROVE CallerInv'
  BY <1>5 DEF SetBlockSwitch
<1>6. ASSUME NEW s \in Srcs, StartAlone(s) PROVE CallerInv'
  BY <1>6 DEF StartAlone
<1>7. ASSUME NEW s \in Srcs, Start(s) PROVE CallerInv'
  BY <1>7 DEF Start, SrcListenNode, Goto
<1>8. ASSUME NEW s \in Srcs, StopAlone(s) PROVE CallerInv'
  BY <1>8 DEF StopAlone
<1>9. ASSUME NEW s \in Srcs, Stop(s) PROVE CallerInv'
  BY <1>9 DEF Stop, CallLeave, Goto
<1>10. ASSUME NEW s \in Srcs, FinalizeSrc(s) PROVE CallerInv'
  BY <1>10 DEF FinalizeSrc
<1>11. ASSUME NEW s \in Srcs, SetReturns(s) PROVE CallerInv'
  BY <1>11 DEF SetReturns, Listened, NotListened, Returned, Finish, ForgetCall, Goto
<1>12. ASSUME NEW s \in Srcs, UnsetReturns(s) PROVE CallerInv'
  BY <1>12 DEF UnsetReturns, Left, Returned, Finish, ForgetCall, Goto
<1>13. ASSUME NEW s \in Srcs, StartReturns(s) PROVE CallerInv'
  BY <1>13 DEF StartReturns, Listened, Finish, ForgetCall, Goto
<1>14. ASSUME NEW s \in Srcs, StartFails(s) PROVE CallerInv'
  BY <1>14 DEF StartFails, NotListened, Returned, Finish, ForgetCall, Goto
<1>15. ASSUME NEW s \in Srcs, StopReturns(s) PROVE CallerInv'
  BY <1>15 DEF StopReturns, Left, Returned, Finish, ForgetCall, Goto
<1>16. ASSUME NEW k \in Sinks, NEW n \in NodeNames, CreateSink(k, n) PROVE CallerInv'
  BY <1>16 DEF CreateSink, AddNode, Goto
<1>17. ASSUME NEW k \in Sinks, NEW n \in NodeNames, RenameSink(k, n) PROVE CallerInv'
  BY <1>17 DEF RenameSink, RemoveNode, Goto
<1>18. ASSUME NEW k \in Sinks, FinalizeSink(k) PROVE CallerInv'
  BY <1>18 DEF FinalizeSink, RemoveNode, Goto
<1>19. ASSUME NEW k \in Sinks, Kick(k) PROVE CallerInv'
  BY <1>19 DEF Kick, Goto
<1>20. ASSUME NEW k \in Sinks, NEW l \in ListenerNames, SkipListener(k, l) PROVE CallerInv'
  BY <1>20 DEF SkipListener
<1>21. ASSUME NEW k \in Sinks, NEW l \in ListenerNames, NotifyAdded(k, l) PROVE CallerInv'
  BY <1>21 DEF NotifyAdded, SrcListenNode, Goto
<1>22. ASSUME NEW k \in Sinks, NEW l \in ListenerNames, NotifyRemoved(k, l) PROVE CallerInv'
  BY <1>22 DEF NotifyRemoved, CallLeave, Goto
<1>23. ASSUME NEW k \in Sinks, NEW s \in Srcs, KickNext(k, s) PROVE CallerInv'
  BY <1>23 DEF KickNext, CallLeave, Goto
<1>24. ASSUME NEW k \in Sinks, CallbackReturns(k) PROVE CallerInv'
  BY <1>24 DEF CallbackReturns, Listened, NotListened, Left, Returned, ForgetCall, Goto
<1>25. ASSUME NEW k \in Sinks, NameReturns(k) PROVE CallerInv'
  BY <1>25 DEF NameReturns, WalkOver, Finish, ForgetCall, Goto
<1>26. ASSUME NEW k \in Sinks, RenameRegisters(k) PROVE CallerInv'
  BY <1>26 DEF RenameRegisters, WalkOver, AddNode, Goto
<1>27. ASSUME NEW k \in Sinks, FinalizeReturns(k) PROVE CallerInv'
  BY <1>27 DEF FinalizeReturns, WalkOver, Finish, ForgetCall, Goto
<1>28. ASSUME NEW k \in Sinks, KickReturns(k) PROVE CallerInv'
  BY <1>28 DEF KickReturns, Finish, ForgetCall, Goto
<1>29. ASSUME NEW p \in Procs, AlreadyListening(p) PROVE CallerInv'
  BY <1>29 DEF AlreadyListening, EntryOf, Goto
<1>30. ASSUME NEW p \in Procs, ListenLock(p) PROVE CallerInv'
  BY <1>30 DEF ListenLock, MustLeaveFirst, EntryOf, Goto
<1>31. ASSUME NEW p \in Procs, LeaveUnknown(p) PROVE CallerInv'
  BY <1>31 DEF LeaveUnknown, EntryOf, Goto
<1>32. ASSUME NEW p \in Procs, LeavePending(p) PROVE CallerInv'
  BY <1>32 DEF LeavePending, EntryOf, RemoveEntry, KeysChanged, Goto
<1>33. ASSUME NEW p \in Procs, LeaveLock(p) PROVE CallerInv'
  BY <1>33 DEF LeaveLock, EntryOf, Goto
<1>34. ASSUME NEW p \in Procs, LookupMissing(p) PROVE CallerInv'
  BY <1>34 DEF LookupMissing, EntryOf, InsertEntry, Point, KeysChanged, Goto
<1>35. ASSUME NEW p \in Procs, LookupFound(p) PROVE CallerInv'
  BY <1>35 DEF LookupFound, Goto
<1>36. ASSUME NEW p \in Procs, Attach(p) PROVE CallerInv'
  BY <1>36 DEF Attach, EntryOf, InsertEntry, Point, KeysChanged, Goto
<1>37. ASSUME NEW p \in Procs, AttachRefused(p) PROVE CallerInv'
  BY <1>37 DEF AttachRefused, Goto
<1>38. ASSUME NEW p \in Procs, PrivNoNode(p) PROVE CallerInv'
  BY <1>38 DEF PrivNoNode, EntryOf, PrivFailed, Point, Leaving, Goto
<1>39. ASSUME NEW p \in Procs, PrivGetNode(p) PROVE CallerInv'
  BY <1>39 DEF PrivGetNode, EntryOf, Goto
<1>40. ASSUME NEW p \in Procs, PrivNotThere(p) PROVE CallerInv'
  BY <1>40 DEF PrivNotThere, EntryOf, PrivFailed, Point, Leaving, Goto
<1>41. ASSUME NEW p \in Procs, PrivDropAndListen(p) PROVE CallerInv'
  BY <1>41 DEF PrivDropAndListen, EntryOf, Leaving, Goto
<1>42. ASSUME NEW p \in Procs, PrivDropAndLeave(p) PROVE CallerInv'
  BY <1>42 DEF PrivDropAndLeave, EntryOf, Leaving, RemoveEntry, KeysChanged, Goto
<1>43. ASSUME NEW p \in Procs, UndoListen(p) PROVE CallerInv'
  BY <1>43 DEF UndoListen, Goto
<1>44. ASSUME NEW p \in Procs, Relisten(p) PROVE CallerInv'
  BY <1>44 DEF Relisten, Returned, Goto
<1>45. ASSUME NEW k \in Sinks, NEW s \in Srcs, CapsChange(k, s) PROVE CallerInv'
  BY <1>45 DEF CapsChange
<1>46. CASE AllFreed
  BY <1>46 DEF AllFreed, vars
<1>47. CASE UNCHANGED vars
  BY <1>47 DEF vars
<1>48. QED
  BY <1>1, <1>2, <1>3, <1>4, <1>5, <1>6, <1>7, <1>8, <1>9, <1>10, <1>11, <1>12, <1>13,
      <1>14, <1>15, <1>16, <1>17, <1>18, <1>19, <1>20, <1>21, <1>22, <1>23, <1>24, <1>25,
      <1>26, <1>27, <1>28, <1>29, <1>30, <1>31, <1>32, <1>33, <1>34, <1>35, <1>36, <1>37,
      <1>38, <1>39, <1>40, <1>41, <1>42, <1>43, <1>44, <1>45, <1>46, <1>47 DEF Next,
      SrcBegins, SrcReturns, SinkBegins, SinkWalks, CoreLocks, CoreHoldsLock, CoreUnlocked

-----------------------------------------------------------------------------
(* The sources that no call is about *)

\* The entry under the name of a source is that of the source.
LEMMA OwnEntry ==
  ASSUME DistinctNames, TypeOK, OwnerInv, NEW t \in Srcs, EntryFor(t) # NULL
  PROVE  EntryFor(t).listener = t /\ NameOf[t] \in ListenerNames /\ EntryFor(t) \in Entry
<1>1. NameOf[t] \in ListenerNames /\ EntryFor(t) \in Entry
  BY NameOfAssumption DEF EntryFor, TypeOK
<1>2. EntryFor(t).listener \in Srcs
  BY <1>1 DEF Entry
<1>3. QED
  BY <1>1, <1>2 DEF EntryFor, OwnerInv, DistinctNames

\* A step that changes nothing of what is known of a source leaves it in place.
LEMMA StillInPlace ==
  ASSUME NEW t \in Srcs, InPlace(t), Untouched(t)' => Untouched(t),
         nodes' = nodes, listeners'[NameOf[t]] = listeners[NameOf[t]],
         \A k \in Sinks : t \in attached'[k] <=> t \in attached[k],
         nodes \in [NodeNames -> Sinks \union {NULL}], listenTo[t] \in NodeNames \union {NULL},
         listenTo'[t] = listenTo[t], srcState'[t] = srcState[t], listening'[t] = listening[t],
         \A k \in Sinks : op'[k] = op[k] /\ todo'[k] = todo[k] /\ nodeName'[k] = nodeName[k]
  PROVE  InPlace(t)'
<1>1. SUFFICES ASSUME EntryFor(t)' # NULL, Untouched(t)' PROVE Settled(t)'
  BY DEF InPlace
<1>2. EntryFor(t)' = EntryFor(t) /\ Settled(t)
  BY <1>1 DEF InPlace, EntryFor
<1>3. Registered(t)' /\ listenTo[t] \in NodeNames
  BY <1>2 DEF Settled, Registered
<1>4. Points(t, listenTo[t]) => Points(t, listenTo[t])'
  BY <1>2, <1>3 DEF Points
<1>5. \A k \in Sinks : ToBeTold(k, t) => ToBeTold(k, t)'
  BY <1>2 DEF ToBeTold, Removing
<1>6. QED
  BY <1>2, <1>3, <1>4, <1>5 DEF Settled

\* A source that the sink at work has not to tell anything is registered as its
\* property says; so are all of them when no operation is in flight.
LEMMA Told ==
  ASSUME SoloInv, NEW p \in Procs, \A q \in Procs : q # p => op[q] = "idle",
         NEW t \in Srcs, InPlace(t), Untouched(t), EntryFor(t) # NULL,
         p \in Sinks => ~ToBeTold(p, t)
  PROVE  Registered(t) /\ Points(t, listenTo[t])
<1>1. \A k \in Sinks : ~ToBeTold(k, t)
  BY DEF ToBeTold, Removing, Procs
<1>2. QED
  BY <1>1 DEF InPlace, Settled

\* In a quiet state every source that has an entry is registered.
LEMMA QuietPlaces ==
  ASSUME SoloInv, PlaceInv, Quiet, NEW t \in Srcs, EntryFor(t) # NULL
  PROVE  Registered(t) /\ Points(t, listenTo[t])
<1>1. t \in Procs /\ Untouched(t)
  BY NullAssumption DEF Procs, Quiet, SoloInv, Untouched
<1>2. \A k \in Sinks : ~ToBeTold(k, t)
  BY DEF ToBeTold, Removing, Procs, Quiet
<1>3. QED
  BY <1>1, <1>2 DEF PlaceInv, InPlace, Settled

\* A registered source stays in place when its entry, its properties and its
\* attachment stay, and a node that goes or comes is about to tell it.
LEMMA NewNode ==
  ASSUME NEW t \in Srcs, TypeOK, NEW k \in Sinks, NEW n \in NodeNames, nodes[n] = NULL,
         EntryFor(t) # NULL, Registered(t), Points(t, listenTo[t]),
         nodes' = [nodes EXCEPT ![n] = k], listeners' = listeners, attached' = attached,
         srcState' = srcState, listening' = listening, listenTo' = listenTo,
         op'[k] = "name", nodeName'[k] = n, NameOf[t] \in todo'[k]
  PROVE  InPlace(t)'
<1>1. EntryFor(t)' = EntryFor(t) /\ Registered(t)'
  BY DEF EntryFor, Registered
<1>2. listenTo[t] \in NodeNames
  BY DEF Registered, TypeOK
<1>3. CASE listenTo[t] = n
  <2>1. ToBeTold(k, t)'
    BY <1>1, <1>3 DEF ToBeTold, Points
  <2>2. QED
    BY <1>1, <2>1 DEF InPlace, Settled
<1>4. CASE listenTo[t] # n
  <2>1. nodes'[listenTo[t]] = nodes[listenTo[t]]
    BY <1>2, <1>4 DEF TypeOK
  <2>2. Points(t, listenTo[t])'
    BY <1>1, <2>1 DEF Points
  <2>3. QED
    BY <1>1, <2>2 DEF InPlace, Settled
<1>5. QED
  BY <1>3, <1>4

\* The same when a node goes.
LEMMA NodeGone ==
  ASSUME NEW t \in Srcs, TypeOK, NEW k \in Sinks, nodeName[k] # NULL,
         EntryFor(t) # NULL, Registered(t), Points(t, listenTo[t]),
         nodes' = [nodes EXCEPT ![nodeName[k]] = NULL], listeners' = listeners, attached' = attached,
         srcState' = srcState, listening' = listening, listenTo' = listenTo, nodeName' = nodeName,
         op'[k] \in {"unname", "finalize"},
         nodes[nodeName[k]] # NULL => NameOf[t] \in todo'[k]
  PROVE  InPlace(t)'
<1>1. EntryFor(t)' = EntryFor(t) /\ Registered(t)'
  BY DEF EntryFor, Registered
<1>2. listenTo[t] \in NodeNames /\ nodeName[k] \in NodeNames
  BY DEF Registered, TypeOK
<1>3. CASE listenTo[t] = nodeName[k] /\ nodes[nodeName[k]] # NULL
  <2>1. EntryFor(t).listen_to = nodeName[k] /\ nodes'[nodeName[k]] = NULL
    BY <1>2, <1>3 DEF Points, TypeOK
  <2>2. ToBeTold(k, t)'
    BY <1>1, <1>3, <2>1 DEF ToBeTold, Removing
  <2>3. QED
    BY <1>1, <2>2 DEF InPlace, Settled
<1>4. CASE listenTo[t] # nodeName[k] \/ nodes[nodeName[k]] = NULL
  <2>1. nodes'[listenTo[t]] = nodes[listenTo[t]]
    BY <1>2, <1>4 DEF TypeOK
  <2>2. Points(t, listenTo[t])'
    BY <1>1, <2>1 DEF Points
  <2>3. QED
    BY <1>1, <2>2 DEF InPlace, Settled
<1>5. QED
  BY <1>3, <1>4

\* The walk of a sink goes on: no other source is to be told less than before.
LEMMA WalkGoesOn ==
  ASSUME NEW t \in Srcs, InPlace(t), Untouched(t)' => Untouched(t),
         nodes' = nodes, listeners' = listeners, attached' = attached,
         srcState' = srcState, listening' = listening, listenTo' = listenTo,
         Untouched(t)' => \A k \in Sinks : EntryFor(t) # NULL /\ ToBeTold(k, t) => ToBeTold(k, t)'
  PROVE  InPlace(t)'
  BY DEF InPlace, Settled, Registered, Points, EntryFor

\* When the walk is over, no source is left to be told.
LEMMA NobodyLeft ==
  ASSUME TypeOK, SoloInv, StaleInv, NEW k \in Sinks, WalkOver(k),
         NEW t \in Srcs, InPlace(t), Untouched(t), EntryFor(t) # NULL
  PROVE  Registered(t) /\ Points(t, listenTo[t])
<1>1. ~ToBeTold(k, t)
  BY DEF WalkOver, StaleInv, ToBeTold, EntryFor
<1>2. \A q \in Procs : q # k => op[q] = "idle"
  BY DEF WalkOver, WalkOps, SoloInv, Procs
<1>3. QED
  BY <1>1, <1>2, Told DEF Procs

\* A call of the core about one source leaves the others in place.
LEMMA OthersInPlace ==
  ASSUME NEW t \in Srcs, DistinctNames, TypeOK, InPlace(t),
         NEW p \in Procs, cur[p] # NULL, cur' = cur,
         \A s \in Srcs : NameOf[s] # NameOf[cur[p]] => listeners'[NameOf[s]] = listeners[NameOf[s]],
         \A k \in Sinks, s \in Srcs : s # cur[p] => (s \in attached'[k] <=> s \in attached[k]),
         UNCHANGED <<nodes, nodeName, srcState, listenTo, listening, op, todo>>
  PROVE  InPlace(t)'
<1>1. CASE t = cur[p]
  BY <1>1 DEF InPlace, Untouched
<1>2. CASE t # cur[p]
  <2>1. NameOf[t] # NameOf[cur[p]]
    BY <1>2 DEF DistinctNames, TypeOK
  <2>2. QED
    BY <1>2, <2>1, StillInPlace DEF Untouched, TypeOK
<1>3. QED
  BY <1>1, <1>2

\* Every action leaves the sources that no call is about in place.
LEMMA PlaceStep ==
  ASSUME Peaceful, TypeOK, LockInv, LiveInv, CallInv, TableInv, FreshInv, OwnerInv, SoloInv, PlacesInv,
         NEW t \in Srcs, [Next]_vars
  PROVE  InPlace(t)'
<1> USE NullAssumption, KindsAssumption DEF Peaceful, TypeOK, Procs, PlacesInv, PlaceInv,
    MayBegin, coreVars, sinkVars, srcVars, callVars, walkVars
<1>1. ASSUME NEW s \in Srcs, NEW n \in NodeNames, PresetListenTo(s, n) PROVE InPlace(t)'
  <2>1. CASE t = s
    BY <1>1, <2>1, NobodyBusy, QuietPlaces DEF PresetListenTo, Registered, InPlace, EntryFor
  <2>2. CASE t # s
    BY <1>1, <2>2, StillInPlace DEF PresetListenTo, Untouched
  <2>3. QED
    BY <2>1, <2>2
<1>2. ASSUME NEW s \in Srcs, NEW n \in NodeNames, SetListenTo(s, n) PROVE InPlace(t)'
  <2>1. cur' = [cur EXCEPT ![s] = s] /\ cur[s] = NULL
    BY <1>2 DEF SetListenTo, SrcListenNode, SoloInv
  <2>2. Untouched(t)' => Untouched(t)
    BY <2>1, NullAssumption DEF Untouched
  <2>3. \A k \in Sinks : op'[k] = op[k]
    BY <1>2 DEF SetListenTo
  <2>4. QED
    BY <1>2, <2>2, <2>3, StillInPlace DEF SetListenTo, SrcListenNode, Goto
<1>3. ASSUME NEW s \in Srcs, DropListenTo(s) PROVE InPlace(t)'
  <2>1. CASE t = s
    BY <1>3, <2>1, NobodyBusy, QuietPlaces DEF DropListenTo, Registered, InPlace, EntryFor
  <2>2. CASE t # s
    BY <1>3, <2>2, StillInPlace DEF DropListenTo, Untouched
  <2>3. QED
    BY <2>1, <2>2
<1>4. ASSUME NEW s \in Srcs, UnsetListenTo(s) PROVE InPlace(t)'
  <2>1. cur' = [cur EXCEPT ![s] = s] /\ cur[s] = NULL
    BY <1>4 DEF UnsetListenTo, CallLeave, SoloInv
  <2>2. Untouched(t)' => Untouched(t)
    BY <2>1, NullAssumption DEF Untouched
  <2>3. \A k \in Sinks : op'[k] = op[k]
    BY <1>4 DEF UnsetListenTo
  <2>4. QED
    BY <1>4, <2>2, <2>3, StillInPlace DEF UnsetListenTo, CallLeave, Goto
<1>5. ASSUME NEW s \in Srcs, SetBlockSwitch(s) PROVE InPlace(t)'
  BY <1>5, StillInPlace DEF SetBlockSwitch, Untouched
<1>6. ASSUME NEW s \in Srcs, StartAlone(s) PROVE InPlace(t)'
  <2>1. CASE t = s
    BY <1>6, <2>1, NobodyBusy, QuietPlaces DEF StartAlone, Registered, InPlace, EntryFor
  <2>2. CASE t # s
    BY <1>6, <2>2, StillInPlace DEF StartAlone, Untouched
  <2>3. QED
    BY <2>1, <2>2
<1>7. ASSUME NEW s \in Srcs, Start(s) PROVE InPlace(t)'
  <2>1. cur' = [cur EXCEPT ![s] = s] /\ cur[s] = NULL
    BY <1>7 DEF Start, SrcListenNode, SoloInv
  <2>2. Untouched(t)' => Untouched(t)
    BY <2>1, NullAssumption DEF Untouched
  <2>3. \A k \in Sinks : op'[k] = op[k]
    BY <1>7 DEF Start
  <2>4. QED
    BY <1>7, <2>2, <2>3, StillInPlace DEF Start, SrcListenNode, Goto
<1>8. ASSUME NEW s \in Srcs, StopAlone(s) PROVE InPlace(t)'
  <2>1. CASE t = s
    BY <1>8, <2>1, NobodyBusy, QuietPlaces DEF StopAlone, Registered, InPlace, EntryFor
  <2>2. CASE t # s
    BY <1>8, <2>2, StillInPlace DEF StopAlone, Untouched
  <2>3. QED
    BY <2>1, <2>2
<1>9. ASSUME NEW s \in Srcs, Stop(s) PROVE InPlace(t)'
  <2>1. cur' = [cur EXCEPT ![s] = s] /\ cur[s] = NULL
    BY <1>9 DEF Stop, CallLeave, SoloInv
  <2>2. Untouched(t)' => Untouched(t)
    BY <2>1, NullAssumption DEF Untouched
  <2>3. \A k \in Sinks : op'[k] = op[k]
    BY <1>9 DEF Stop
  <2>4. QED
    BY <1>9, <2>2, <2>3, StillInPlace DEF Stop, CallLeave, Goto
<1>10. ASSUME NEW s \in Srcs, FinalizeSrc(s) PROVE InPlace(t)'
  <2>1. CASE t = s
    BY <1>10, <2>1, NobodyBusy, QuietPlaces DEF FinalizeSrc, Registered, InPlace, EntryFor
  <2>2. CASE t # s
    BY <1>10, <2>2, StillInPlace DEF FinalizeSrc, Untouched
  <2>3. QED
    BY <2>1, <2>2
<1>11. ASSUME NEW s \in Srcs, SetReturns(s) PROVE InPlace(t)'
  <2>1. cur[s] = s /\ s # NULL /\ Held(s)
    BY <1>11 DEF SetReturns, SoloInv, HeldInv
  <2>2. pc[s] = "done" /\ call[s] = "listen"
    BY <1>11 DEF SetReturns, Listened, NotListened, Returned, CallerInv
  <2>3. CASE t = s
    <3>1. want[s] # NULL /\ EntryFor(s) # NULL /\ Points(s, want[s])
      BY <2>1, <2>2 DEF Held, HeldByListen
    <3>2. srcState'[s] = "started" /\ listening'[s] /\ listenTo'[s] = want[s]
      BY <1>11, <2>2 DEF SetReturns, Listened, CallerInv
    <3>3. nodes' = nodes /\ listeners' = listeners /\ attached' = attached
      BY <1>11 DEF SetReturns
    <3>4. Registered(s)' /\ Points(s, listenTo[s])'
      BY <3>1, <3>2, <3>3 DEF Registered, Points, EntryFor
    <3>5. QED
      BY <2>3, <3>4 DEF InPlace, Settled
  <2>4. CASE t # s
    <3>1. Untouched(t)' => Untouched(t)
      BY <1>11, <2>1, <2>4 DEF SetReturns, Finish, ForgetCall, Untouched
    <3>2. \A k \in Sinks : op'[k] = op[k] /\ todo'[k] = todo[k]
      BY <1>11 DEF SetReturns, Finish
    <3>3. listenTo'[t] = listenTo[t] /\ srcState'[t] = srcState[t] /\ listening'[t] = listening[t]
      BY <1>11, <2>4 DEF SetReturns
    <3>4. QED
      BY <1>11, <3>1, <3>2, <3>3, StillInPlace DEF SetReturns
  <2>5. QED
    BY <2>3, <2>4
<1>12. ASSUME NEW s \in Srcs, UnsetReturns(s) PROVE InPlace(t)'
  <2>1. cur[s] = s /\ s # NULL /\ Held(s)
    BY <1>12 DEF UnsetReturns, SoloInv, HeldInv
  <2>2. Returned(s) /\ call[s] = "leave" /\ ~Removing(s)
    BY <1>12 DEF UnsetReturns, Left, Removing
  <2>3. CASE t = s
    <3>1. EntryFor(s) = NULL
      BY <2>1, <2>2 DEF Held, HeldByLeave
    <3>2. QED
      BY <1>12, <2>3, <3>1 DEF UnsetReturns, InPlace, EntryFor
  <2>4. CASE t # s
    <3>1. Untouched(t)' => Untouched(t)
      BY <1>12, <2>1, <2>4 DEF UnsetReturns, Finish, ForgetCall, Untouched
    <3>2. \A k \in Sinks : op'[k] = op[k] /\ todo'[k] = todo[k]
      BY <1>12 DEF UnsetReturns, Finish
    <3>3. listenTo'[t] = listenTo[t] /\ srcState'[t] = srcState[t] /\ listening'[t] = listening[t]
      BY <1>12, <2>4 DEF UnsetReturns
    <3>4. QED
      BY <1>12, <3>1, <3>2, <3>3, StillInPlace DEF UnsetReturns
  <2>5. QED
    BY <2>3, <2>4
<1>13. ASSUME NEW s \in Srcs, StartReturns(s) PROVE InPlace(t)'
  <2>1. cur[s] = s /\ s # NULL /\ Held(s)
    BY <1>13 DEF StartReturns, SoloInv, HeldInv
  <2>2. pc[s] = "done" /\ call[s] = "listen"
    BY <1>13 DEF StartReturns, Listened, CallerInv
  <2>3. CASE t = s
    <3>1. want[s] # NULL /\ EntryFor(s) # NULL /\ Points(s, want[s])
      BY <2>1, <2>2 DEF Held, HeldByListen
    <3>2. srcState'[s] = "started" /\ listening'[s] /\ listenTo'[s] = want[s]
      BY <1>13, <2>2 DEF StartReturns, Listened, CallerInv
    <3>3. nodes' = nodes /\ listeners' = listeners /\ attached' = attached
      BY <1>13 DEF StartReturns
    <3>4. Registered(s)' /\ Points(s, listenTo[s])'
      BY <3>1, <3>2, <3>3 DEF Registered, Points, EntryFor
    <3>5. QED
      BY <2>3, <3>4 DEF InPlace, Settled
  <2>4. CASE t # s
    <3>1. Untouched(t)' => Untouched(t)
      BY <1>13, <2>1, <2>4 DEF StartReturns, Finish, ForgetCall, Untouched
    <3>2. \A k \in Sinks : op'[k] = op[k] /\ todo'[k] = todo[k]
      BY <1>13 DEF StartReturns, Finish
    <3>3. listenTo'[t] = listenTo[t] /\ srcState'[t] = srcState[t] /\ listening'[t] = listening[t]
      BY <1>13, <2>4 DEF StartReturns
    <3>4. QED
      BY <1>13, <3>1, <3>2, <3>3, StillInPlace DEF StartReturns
  <2>5. QED
    BY <2>3, <2>4
<1>14. ASSUME NEW s \in Srcs, StartFails(s) PROVE InPlace(t)'
  <2>1. FALSE
    BY <1>14 DEF StartFails, NotListened, Returned, CallerInv
  <2>2. QED
    BY <2>1
<1>15. ASSUME NEW s \in Srcs, StopReturns(s) PROVE InPlace(t)'
  <2>1. cur[s] = s /\ s # NULL /\ Held(s)
    BY <1>15 DEF StopReturns, SoloInv, HeldInv
  <2>2. Returned(s) /\ call[s] = "leave" /\ ~Removing(s)
    BY <1>15 DEF StopReturns, Left, Removing
  <2>3. CASE t = s
    <3>1. EntryFor(s) = NULL
      BY <2>1, <2>2 DEF Held, HeldByLeave
    <3>2. QED
      BY <1>15, <2>3, <3>1 DEF StopReturns, InPlace, EntryFor
  <2>4. CASE t # s
    <3>1. Untouched(t)' => Untouched(t)
      BY <1>15, <2>1, <2>4 DEF StopReturns, Finish, ForgetCall, Untouched
    <3>2. \A k \in Sinks : op'[k] = op[k] /\ todo'[k] = todo[k]
      BY <1>15 DEF StopReturns, Finish
    <3>3. listenTo'[t] = listenTo[t] /\ srcState'[t] = srcState[t] /\ listening'[t] = listening[t]
      BY <1>15, <2>4 DEF StopReturns
    <3>4. QED
      BY <1>15, <3>1, <3>2, <3>3, StillInPlace DEF StopReturns
  <2>5. QED
    BY <2>3, <2>4
<1>16. ASSUME NEW k \in Sinks, NEW n \in NodeNames, CreateSink(k, n) PROVE InPlace(t)'
  <2>1. Quiet
    BY <1>16, NobodyBusy DEF CreateSink
  <2>2. EntryFor(t) = NULL => InPlace(t)'
    BY <1>16 DEF CreateSink, EntryFor, InPlace
  <2>3. ASSUME EntryFor(t) # NULL PROVE Registered(t) /\ Points(t, listenTo[t])
    BY <2>1, <2>3, QuietPlaces DEF PlacesInv
  <2>4. CASE nodes[n] = NULL
    <3>1. nodes' = [nodes EXCEPT ![n] = k] /\ op'[k] = "name" /\ nodeName'[k] = n /\ todo'[k] = ListenerNames
      BY <1>16, <2>4 DEF CreateSink, AddNode
    <3>2. QED
      BY <1>16, <2>2, <2>3, <2>4, <3>1, NewNode, NameOfAssumption DEF CreateSink
  <2>5. CASE nodes[n] # NULL
    <3>1. nodes' = nodes
      BY <1>16, <2>5 DEF CreateSink, AddNode
    <3>2. QED
      BY <1>16, <2>2, <2>3, <3>1 DEF CreateSink, InPlace, Settled, Registered, Points, EntryFor
  <2>6. QED
    BY <2>4, <2>5
<1>17. ASSUME NEW k \in Sinks, NEW n \in NodeNames, RenameSink(k, n) PROVE InPlace(t)'
  <2>1. Quiet
    BY <1>17, NobodyBusy DEF RenameSink
  <2>2. EntryFor(t) = NULL => InPlace(t)'
    BY <1>17 DEF RenameSink, EntryFor, InPlace
  <2>3. ASSUME EntryFor(t) # NULL PROVE Registered(t) /\ Points(t, listenTo[t])
    BY <2>1, <2>3, QuietPlaces DEF PlacesInv
  <2>4. nodeName[k] # NULL
    BY <1>17 DEF RenameSink, LiveInv
  <2>5. nodes' = [nodes EXCEPT ![nodeName[k]] = NULL] /\ nodeName' = nodeName
    BY <1>17 DEF RenameSink, RemoveNode
  <2>6. op'[k] \in {"unname", "finalize"} /\ (nodes[nodeName[k]] # NULL => todo'[k] = ListenerNames)
    BY <1>17 DEF RenameSink, RemoveNode
  <2>7. QED
    BY <1>17, <2>2, <2>3, <2>4, <2>5, <2>6, NodeGone, NameOfAssumption DEF RenameSink
<1>18. ASSUME NEW k \in Sinks, FinalizeSink(k) PROVE InPlace(t)'
  <2>1. Quiet
    BY <1>18, NobodyBusy DEF FinalizeSink
  <2>2. EntryFor(t) = NULL => InPlace(t)'
    BY <1>18 DEF FinalizeSink, EntryFor, InPlace
  <2>3. ASSUME EntryFor(t) # NULL PROVE Registered(t) /\ Points(t, listenTo[t])
    BY <2>1, <2>3, QuietPlaces DEF PlacesInv
  <2>4. nodeName[k] # NULL
    BY <1>18 DEF FinalizeSink, LiveInv
  <2>5. nodes' = [nodes EXCEPT ![nodeName[k]] = NULL] /\ nodeName' = nodeName
    BY <1>18 DEF FinalizeSink, RemoveNode
  <2>6. op'[k] \in {"unname", "finalize"} /\ (nodes[nodeName[k]] # NULL => todo'[k] = ListenerNames)
    BY <1>18 DEF FinalizeSink, RemoveNode
  <2>7. QED
    BY <1>18, <2>2, <2>3, <2>4, <2>5, <2>6, NodeGone, NameOfAssumption DEF FinalizeSink
<1>19. ASSUME NEW k \in Sinks, Kick(k) PROVE InPlace(t)'
  <2>1. Quiet
    BY <1>19, NobodyBusy DEF Kick
  <2>2. EntryFor(t) # NULL => Registered(t) /\ Points(t, listenTo[t])
    BY <2>1, QuietPlaces DEF PlacesInv
  <2>3. QED
    BY <1>19, <2>2 DEF Kick, InPlace, Settled, Registered, Points, EntryFor
<1>20. ASSUME NEW k \in Sinks, NEW l \in ListenerNames, SkipListener(k, l) PROVE InPlace(t)'
  <2>1. \A j \in Sinks : EntryFor(t) # NULL /\ ToBeTold(j, t) => ToBeTold(j, t)'
    <3> SUFFICES ASSUME NEW j \in Sinks, EntryFor(t) # NULL, ToBeTold(j, t) PROVE ToBeTold(j, t)'
      OBVIOUS
    <3>1. NameOf[t] \in todo'[j]
      BY <1>20, OwnEntry DEF SkipListener, ToBeTold, EntryFor
    <3>2. QED
      BY <1>20, <3>1 DEF SkipListener, ToBeTold, Removing, EntryFor
  <2>2. QED
    BY <1>20, <2>1, WalkGoesOn DEF SkipListener, Untouched
<1>21. ASSUME NEW k \in Sinks, NEW l \in ListenerNames, NotifyAdded(k, l) PROVE InPlace(t)'
  <2>1. cur' = [cur EXCEPT ![k] = listeners[l].listener] /\ cur[k] = NULL
    BY <1>21 DEF NotifyAdded, SrcListenNode, CallerInv
  <2>2. Untouched(t)' => Untouched(t) /\ t # listeners[l].listener
    BY <2>1, NullAssumption DEF Untouched
  <2>3. ASSUME Untouched(t)', NEW j \in Sinks, EntryFor(t) # NULL, ToBeTold(j, t) PROVE ToBeTold(j, t)'
    <3>1. NameOf[t] # l
      BY <2>2, <2>3, OwnEntry DEF EntryFor
    <3>2. NameOf[t] \in todo'[j]
      BY <1>21, <2>3, <3>1 DEF NotifyAdded, ToBeTold
    <3>3. QED
      BY <1>21, <2>3, <3>2 DEF NotifyAdded, ToBeTold, Removing, EntryFor
  <2>4. QED
    BY <1>21, <2>2, <2>3, WalkGoesOn DEF NotifyAdded, SrcListenNode
<1>22. ASSUME NEW k \in Sinks, NEW l \in ListenerNames, NotifyRemoved(k, l) PROVE InPlace(t)'
  <2>1. cur' = [cur EXCEPT ![k] = listeners[l].listener] /\ cur[k] = NULL
    BY <1>22 DEF NotifyRemoved, CallLeave, CallerInv
  <2>2. Untouched(t)' => Untouched(t) /\ t # listeners[l].listener
    BY <2>1, NullAssumption DEF Untouched
  <2>3. ASSUME Untouched(t)', NEW j \in Sinks, EntryFor(t) # NULL, ToBeTold(j, t) PROVE ToBeTold(j, t)'
    <3>1. NameOf[t] # l
      BY <2>2, <2>3, OwnEntry DEF EntryFor
    <3>2. NameOf[t] \in todo'[j]
      BY <1>22, <2>3, <3>1 DEF NotifyRemoved, ToBeTold
    <3>3. QED
      BY <1>22, <2>3, <3>2 DEF NotifyRemoved, ToBeTold, Removing, EntryFor
  <2>4. QED
    BY <1>22, <2>2, <2>3, WalkGoesOn DEF NotifyRemoved, CallLeave
<1>23. ASSUME NEW k \in Sinks, NEW s \in Srcs, KickNext(k, s) PROVE InPlace(t)'
  <2>1. cur' = [cur EXCEPT ![k] = s] /\ cur[k] = NULL
    BY <1>23 DEF KickNext, CallLeave, CallerInv
  <2>2. Untouched(t)' => Untouched(t)
    BY <2>1, NullAssumption DEF Untouched
  <2>3. \A j \in Sinks : ToBeTold(j, t) => ToBeTold(j, t)'
    BY <1>23 DEF KickNext, CallLeave, ToBeTold, Removing, EntryFor
  <2>4. QED
    BY <1>23, <2>2, <2>3, WalkGoesOn DEF KickNext
<1>24. ASSUME NEW k \in Sinks, CallbackReturns(k) PROVE InPlace(t)'
  <2>1. op[k] # "idle" /\ Returned(k) /\ cur[k] # NULL /\ Held(k)
    BY <1>24 DEF CallbackReturns, Listened, NotListened, Left, Returned, WalkOps, CallInv, HeldInv
  <2>2. Untouched(t)' => Untouched(t) \/ t = cur[k]
    BY <1>24 DEF CallbackReturns, ForgetCall, Untouched
  <2>3. nodes' = nodes /\ listeners' = listeners /\ attached' = attached /\ listenTo' = listenTo
        /\ srcState' = srcState /\ listening' = listening
    BY <1>24 DEF CallbackReturns
  <2>4. CASE t # cur[k]
    <3>1. \A j \in Sinks : ToBeTold(j, t) => ToBeTold(j, t)'
      BY <1>24 DEF CallbackReturns, ToBeTold, Removing, EntryFor
    <3>2. QED
      BY <2>2, <2>3, <2>4, <3>1, WalkGoesOn
  <2>5. CASE t = cur[k]
    <3>1. CASE op[k] = "name"
      <4>1. call[k] = "listen" /\ pc[k] = "done"
        BY <2>1, <3>1 DEF Returned, CallerInv
      <4>2. Registered(t) /\ Points(t, listenTo[t])
        BY <2>1, <2>5, <3>1, <4>1 DEF Held, HeldByListen
      <4>3. QED
        BY <2>3, <4>2 DEF InPlace, Settled, Registered, Points, EntryFor
    <3>2. CASE Removing(k)
      <4>1. call[k] = "leave"
        BY <2>1, <3>2 DEF Returned, CallerInv
      <4>2. EntryFor(t) # NULL /\ listenTo[t] = nodeName[k] /\ nodes[nodeName[k]] = NULL /\ EntryFor(t).listen_to = NULL
        BY <2>1, <2>5, <3>2, <4>1 DEF Held, HeldByLeave
      <4>3. Registered(t)
        BY <2>1, <2>5, <4>1, <4>2 DEF Held, HeldByLeave
      <4>4. QED
        BY <2>3, <4>2, <4>3 DEF InPlace, Settled, Registered, Points, EntryFor
    <3>3. CASE op[k] = "kick"
      <4>1. call[k] = "leave" /\ ~Removing(k)
        BY <2>1, <3>3 DEF Returned, CallerInv, Removing
      <4>2. EntryFor(t) = NULL
        BY <2>1, <2>5, <4>1 DEF Held, HeldByLeave
      <4>3. QED
        BY <2>3, <4>2 DEF InPlace, EntryFor
    <3>4. QED
      BY <1>24, <3>1, <3>2, <3>3 DEF CallbackReturns, WalkOps, Removing
  <2>6. QED
    BY <2>4, <2>5
<1>25. ASSUME NEW k \in Sinks, NameReturns(k) PROVE InPlace(t)'
  <2>1. cur[k] = NULL
    BY <1>25 DEF NameReturns, WalkOver, CallerInv
  <2>2. Untouched(t)' => Untouched(t)
    BY <1>25, <2>1, NullAssumption DEF NameReturns, Finish, ForgetCall, Untouched
  <2>3. EntryFor(t) # NULL /\ Untouched(t) => Registered(t) /\ Points(t, listenTo[t])
    BY <1>25, NobodyLeft DEF NameReturns
  <2>4. QED
    BY <1>25, <2>2, <2>3 DEF NameReturns, InPlace, Settled, Registered, Points, EntryFor
<1>26. ASSUME NEW k \in Sinks, RenameRegisters(k) PROVE InPlace(t)'
  <2>1. cur[k] = NULL
    BY <1>26 DEF RenameRegisters, WalkOver, CallerInv
  <2>2. Untouched(t)' => Untouched(t)
    BY <1>26, <2>1, NullAssumption DEF RenameRegisters, Finish, ForgetCall, Untouched
  <2>3. EntryFor(t) # NULL /\ Untouched(t) => Registered(t) /\ Points(t, listenTo[t])
    BY <1>26, NobodyLeft DEF RenameRegisters
  <2>4. objName[k] \in NodeNames
    BY <1>26 DEF RenameRegisters, WalkOver, LiveInv
  <2>5. CASE nodes[objName[k]] = NULL
    <3>1. nodes' = [nodes EXCEPT ![objName[k]] = k] /\ op'[k] = "name" /\ nodeName'[k] = objName[k] /\ todo'[k] = ListenerNames
      BY <1>26, <2>5 DEF RenameRegisters, AddNode
    <3>2. EntryFor(t) = NULL \/ ~Untouched(t) => InPlace(t)'
      BY <1>26, <2>2 DEF RenameRegisters, InPlace, EntryFor
    <3>3. QED
      BY <1>26, <2>3, <2>4, <2>5, <3>1, <3>2, NewNode, NameOfAssumption DEF RenameRegisters
  <2>6. CASE nodes[objName[k]] # NULL
    <3>1. nodes' = nodes
      BY <1>26, <2>4, <2>6 DEF RenameRegisters, AddNode
    <3>2. QED
      BY <1>26, <2>2, <2>3, <3>1 DEF RenameRegisters, InPlace, Settled, Registered, Points, EntryFor
  <2>7. QED
    BY <2>5, <2>6
<1>27. ASSUME NEW k \in Sinks, FinalizeReturns(k) PROVE InPlace(t)'
  <2>1. cur[k] = NULL
    BY <1>27 DEF FinalizeReturns, WalkOver, CallerInv
  <2>2. Untouched(t)' => Untouched(t)
    BY <1>27, <2>1, NullAssumption DEF FinalizeReturns, Finish, ForgetCall, Untouched
  <2>3. EntryFor(t) # NULL /\ Untouched(t) => Registered(t) /\ Points(t, listenTo[t])
    BY <1>27, NobodyLeft DEF FinalizeReturns
  <2>4. \A n \in NodeNames : nodes[n] # k
    BY <1>27 DEF FinalizeReturns, TableInv, Removing
  <2>5. Points(t, listenTo[t]) /\ Registered(t) => Points(t, listenTo[t])'
    BY <1>27, <2>4 DEF FinalizeReturns, Points, Registered, EntryFor
  <2>6. Registered(t) => Registered(t)'
    BY <1>27 DEF FinalizeReturns, Registered
  <2>7. QED
    BY <1>27, <2>2, <2>3, <2>5, <2>6 DEF FinalizeReturns, InPlace, Settled, EntryFor
<1>28. ASSUME NEW k \in Sinks, KickReturns(k) PROVE InPlace(t)'
  <2>1. cur[k] = NULL
    BY <1>28 DEF KickReturns, CallerInv
  <2>2. Untouched(t)' => Untouched(t)
    BY <1>28, <2>1, NullAssumption DEF KickReturns, Finish, ForgetCall, Untouched
  <2>3. \A j \in Sinks : ToBeTold(j, t) => ToBeTold(j, t)'
    BY <1>28 DEF KickReturns, Finish, ToBeTold, Removing, EntryFor
  <2>4. QED
    BY <1>28, <2>2, <2>3, WalkGoesOn DEF KickReturns
<1>29. ASSUME NEW p \in Procs, AlreadyListening(p) PROVE InPlace(t)'
  BY <1>29, StillInPlace DEF AlreadyListening, Untouched, Goto
<1>30. ASSUME NEW p \in Procs, ListenLock(p) PROVE InPlace(t)'
  BY <1>30, StillInPlace DEF ListenLock, Untouched, Goto
<1>31. ASSUME NEW p \in Procs, LeaveUnknown(p) PROVE InPlace(t)'
  BY <1>31, StillInPlace DEF LeaveUnknown, Untouched, Goto
<1>32. ASSUME NEW p \in Procs, LeavePending(p) PROVE InPlace(t)'
  <2>1. cur[p] # NULL
    BY <1>32 DEF LeavePending, CallInv, Locked
  <2>2. \A s \in Srcs : NameOf[s] # NameOf[cur[p]] => listeners'[NameOf[s]] = listeners[NameOf[s]]
    BY <1>32, EntryGone DEF LeavePending
  <2>3. QED
    BY <1>32, <2>1, <2>2, OthersInPlace DEF LeavePending
<1>33. ASSUME NEW p \in Procs, LeaveLock(p) PROVE InPlace(t)'
  BY <1>33, StillInPlace DEF LeaveLock, Untouched, Goto
<1>34. ASSUME NEW p \in Procs, LookupMissing(p) PROVE InPlace(t)'
  <2>1. cur[p] # NULL
    BY <1>34 DEF LookupMissing, CallInv, Locked
  <2>2. \A s \in Srcs : NameOf[s] # NameOf[cur[p]] => listeners'[NameOf[s]] = listeners[NameOf[s]]
    BY <1>34, MissingNode DEF LookupMissing
  <2>3. QED
    BY <1>34, <2>1, <2>2, OthersInPlace DEF LookupMissing
<1>35. ASSUME NEW p \in Procs, LookupFound(p) PROVE InPlace(t)'
  BY <1>35, StillInPlace DEF LookupFound, Untouched, Goto
<1>36. ASSUME NEW p \in Procs, Attach(p) PROVE InPlace(t)'
  <2>1. cur[p] # NULL
    BY <1>36 DEF Attach, CallInv, Locked
  <2>2. \A s \in Srcs : NameOf[s] # NameOf[cur[p]] => listeners'[NameOf[s]] = listeners[NameOf[s]]
    BY <1>36, AttachedNode DEF Attach
  <2>3. QED
    BY <1>36, <2>1, <2>2, OthersInPlace DEF Attach
<1>37. ASSUME NEW p \in Procs, AttachRefused(p) PROVE InPlace(t)'
  BY <1>37, StillInPlace DEF AttachRefused, Untouched, Goto
<1>38. ASSUME NEW p \in Procs, PrivNoNode(p) PROVE InPlace(t)'
  <2>1. cur[p] # NULL
    BY <1>38 DEF PrivNoNode, CallInv, Locked
  <2>2. \A s \in Srcs : NameOf[s] # NameOf[cur[p]] => listeners'[NameOf[s]] = listeners[NameOf[s]]
    BY <1>38, FailedLeave DEF PrivNoNode
  <2>3. QED
    BY <1>38, <2>1, <2>2, OthersInPlace DEF PrivNoNode
<1>39. ASSUME NEW p \in Procs, PrivGetNode(p) PROVE InPlace(t)'
  BY <1>39, StillInPlace DEF PrivGetNode, Untouched, Goto
<1>40. ASSUME NEW p \in Procs, PrivNotThere(p) PROVE InPlace(t)'
  <2>1. cur[p] # NULL
    BY <1>40 DEF PrivNotThere, CallInv, Locked
  <2>2. \A s \in Srcs : NameOf[s] # NameOf[cur[p]] => listeners'[NameOf[s]] = listeners[NameOf[s]]
    BY <1>40, FailedLeave DEF PrivNotThere
  <2>3. QED
    BY <1>40, <2>1, <2>2, OthersInPlace DEF PrivNotThere
<1>41. ASSUME NEW p \in Procs, PrivDropAndListen(p) PROVE InPlace(t)'
  <2>1. cur[p] # NULL
    BY <1>41 DEF PrivDropAndListen, CallInv, Locked
  <2>2. \A s \in Srcs : NameOf[s] # NameOf[cur[p]] => listeners'[NameOf[s]] = listeners[NameOf[s]]
    BY <1>41 DEF PrivDropAndListen
  <2>3. QED
    BY <1>41, <2>1, <2>2, OthersInPlace DEF PrivDropAndListen
<1>42. ASSUME NEW p \in Procs, PrivDropAndLeave(p) PROVE InPlace(t)'
  <2>1. cur[p] # NULL
    BY <1>42 DEF PrivDropAndLeave, CallInv, Locked
  <2>2. \A s \in Srcs : NameOf[s] # NameOf[cur[p]] => listeners'[NameOf[s]] = listeners[NameOf[s]]
    BY <1>42, EntryGone DEF PrivDropAndLeave
  <2>3. QED
    BY <1>42, <2>1, <2>2, OthersInPlace DEF PrivDropAndLeave
<1>43. ASSUME NEW p \in Procs, UndoListen(p) PROVE InPlace(t)'
  BY <1>43, StillInPlace DEF UndoListen, Untouched, Goto
<1>44. ASSUME NEW p \in Procs, Relisten(p) PROVE InPlace(t)'
  BY <1>44, StillInPlace DEF Relisten, Untouched, Goto
<1>45. ASSUME NEW k \in Sinks, NEW s \in Srcs, CapsChange(k, s) PROVE InPlace(t)'
  BY <1>45, StillInPlace DEF CapsChange, Untouched
<1>46. CASE AllFreed
  BY <1>46, StillInPlace DEF AllFreed, Untouched, vars
<1>47. CASE UNCHANGED vars
  BY <1>47, StillInPlace DEF vars, Untouched
<1>48. QED
  BY <1>1, <1>2, <1>3, <1>4, <1>5, <1>6, <1>7, <1>8, <1>9, <1>10, <1>11, <1>12, <1>13,
      <1>14, <1>15, <1>16, <1>17, <1>18, <1>19, <1>20, <1>21, <1>22, <1>23, <1>24, <1>25,
      <1>26, <1>27, <1>28, <1>29, <1>30, <1>31, <1>32, <1>33, <1>34, <1>35, <1>36, <1>37,
      <1>38, <1>39, <1>40, <1>41, <1>42, <1>43, <1>44, <1>45, <1>46, <1>47 DEF Next,
      SrcBegins, SrcReturns, SinkBegins, SinkWalks, CoreLocks, CoreHoldsLock, CoreUnlocked

-----------------------------------------------------------------------------
(* The walks over the table of listeners *)

\* While an element is at work every other is idle and holds no source.
LEMMA OthersIdle ==
  ASSUME SoloInv, NEW p \in Procs, op[p] # "idle"
  PROVE  \A q \in Procs : q # p => op[q] = "idle" /\ cur[q] = NULL
  BY DEF SoloInv

\* Only the walk of the element at work can be waiting.
LEMMA NoWalk ==
  ASSUME NEW k \in Sinks, NEW s \in Srcs, op'[k] \notin WalkOps \/ todo'[k] = {}
  PROVE  Awaits(k, s)'
  BY DEF Awaits

\* What a walk waits for stays when its element goes on.
LEMMA StillAwaits ==
  ASSUME NEW k \in Sinks, NEW s \in Srcs, Awaits(k, s),
         nodes' = nodes, nodeName' = nodeName, op' = op, listenTo' = listenTo,
         todo'[k] \subseteq todo[k],
         op[k] \in WalkOps /\ NameOf[s] \in todo'[k] => cur'[k] # s,
         op[k] \in WalkOps /\ NameOf[s] \in todo'[k] /\ cur[k] # s => listeners'[NameOf[s]] = listeners[NameOf[s]]
  PROVE  Awaits(k, s)'
<1>1. SUFFICES ASSUME op[k] \in WalkOps, NameOf[s] \in todo'[k], EntryFor(s)' # NULL, listenTo[s] = nodeName[k]
               PROVE  ToBeTold(k, s)'
  BY DEF Awaits
<1>2. cur[k] # s
  BY <1>1 DEF Awaits
<1>3. EntryFor(s)' = EntryFor(s)
  BY <1>1, <1>2 DEF EntryFor
<1>4. ToBeTold(k, s)
  BY <1>1, <1>3 DEF Awaits
<1>5. QED
  BY <1>1, <1>3, <1>4 DEF ToBeTold, Removing

\* Every action leaves the walks with nothing else to do.
LEMMA WalkStep ==
  ASSUME Peaceful, TypeOK, LockInv, LiveInv, CallInv, TableInv, FreshInv, OwnerInv, SoloInv, PlacesInv,
         NEW j \in Sinks, NEW t \in Srcs, [Next]_vars
  PROVE  Awaits(j, t)'
<1> USE NullAssumption, KindsAssumption DEF Peaceful, TypeOK, Procs, PlacesInv, WalkInv,
    MayBegin, coreVars, sinkVars, srcVars, callVars, walkVars
<1>1. ASSUME NEW s \in Srcs, NEW n \in NodeNames, PresetListenTo(s, n) PROVE Awaits(j, t)'
  <2>1. op[j] = "idle" /\ op'[j] = op[j]
    BY <1>1, NobodyBusy DEF PresetListenTo, Quiet
  <2>2. QED
    BY <2>1, NoWalk DEF WalkOps
<1>2. ASSUME NEW s \in Srcs, NEW n \in NodeNames, SetListenTo(s, n) PROVE Awaits(j, t)'
  <2>1. op[j] = "idle" /\ op'[j] = op[j]
    BY <1>2, NobodyBusy DEF SetListenTo, Quiet
  <2>2. QED
    BY <2>1, NoWalk DEF WalkOps
<1>3. ASSUME NEW s \in Srcs, DropListenTo(s) PROVE Awaits(j, t)'
  <2>1. op[j] = "idle" /\ op'[j] = op[j]
    BY <1>3, NobodyBusy DEF DropListenTo, Quiet
  <2>2. QED
    BY <2>1, NoWalk DEF WalkOps
<1>4. ASSUME NEW s \in Srcs, UnsetListenTo(s) PROVE Awaits(j, t)'
  <2>1. op[j] = "idle" /\ op'[j] = op[j]
    BY <1>4, NobodyBusy DEF UnsetListenTo, Quiet
  <2>2. QED
    BY <2>1, NoWalk DEF WalkOps
<1>5. ASSUME NEW s \in Srcs, SetBlockSwitch(s) PROVE Awaits(j, t)'
  <2>1. op[j] = "idle" /\ op'[j] = op[j]
    BY <1>5, NobodyBusy DEF SetBlockSwitch, Quiet
  <2>2. QED
    BY <2>1, NoWalk DEF WalkOps
<1>6. ASSUME NEW s \in Srcs, StartAlone(s) PROVE Awaits(j, t)'
  <2>1. op[j] = "idle" /\ op'[j] = op[j]
    BY <1>6, NobodyBusy DEF StartAlone, Quiet
  <2>2. QED
    BY <2>1, NoWalk DEF WalkOps
<1>7. ASSUME NEW s \in Srcs, Start(s) PROVE Awaits(j, t)'
  <2>1. op[j] = "idle" /\ op'[j] = op[j]
    BY <1>7, NobodyBusy DEF Start, Quiet
  <2>2. QED
    BY <2>1, NoWalk DEF WalkOps
<1>8. ASSUME NEW s \in Srcs, StopAlone(s) PROVE Awaits(j, t)'
  <2>1. op[j] = "idle" /\ op'[j] = op[j]
    BY <1>8, NobodyBusy DEF StopAlone, Quiet
  <2>2. QED
    BY <2>1, NoWalk DEF WalkOps
<1>9. ASSUME NEW s \in Srcs, Stop(s) PROVE Awaits(j, t)'
  <2>1. op[j] = "idle" /\ op'[j] = op[j]
    BY <1>9, NobodyBusy DEF Stop, Quiet
  <2>2. QED
    BY <2>1, NoWalk DEF WalkOps
<1>10. ASSUME NEW s \in Srcs, FinalizeSrc(s) PROVE Awaits(j, t)'
  <2>1. op[j] = "idle" /\ op'[j] = op[j]
    BY <1>10, NobodyBusy DEF FinalizeSrc, Quiet
  <2>2. QED
    BY <2>1, NoWalk DEF WalkOps
<1>11. ASSUME NEW s \in Srcs, SetReturns(s) PROVE Awaits(j, t)'
  <2>1. op[s] # "idle" /\ op'[j] = op[j]
    BY <1>11 DEF SetReturns, Finish
  <2>2. op[j] = "idle"
    BY <2>1, OthersIdle
  <2>3. QED
    BY <2>1, <2>2, NoWalk DEF WalkOps
<1>12. ASSUME NEW s \in Srcs, UnsetReturns(s) PROVE Awaits(j, t)'
  <2>1. op[s] # "idle" /\ op'[j] = op[j]
    BY <1>12 DEF UnsetReturns, Finish
  <2>2. op[j] = "idle"
    BY <2>1, OthersIdle
  <2>3. QED
    BY <2>1, <2>2, NoWalk DEF WalkOps
<1>13. ASSUME NEW s \in Srcs, StartReturns(s) PROVE Awaits(j, t)'
  <2>1. op[s] # "idle" /\ op'[j] = op[j]
    BY <1>13 DEF StartReturns, Finish
  <2>2. op[j] = "idle"
    BY <2>1, OthersIdle
  <2>3. QED
    BY <2>1, <2>2, NoWalk DEF WalkOps
<1>14. ASSUME NEW s \in Srcs, StartFails(s) PROVE Awaits(j, t)'
  <2>1. op[s] # "idle" /\ op'[j] = op[j]
    BY <1>14 DEF StartFails, Finish
  <2>2. op[j] = "idle"
    BY <2>1, OthersIdle
  <2>3. QED
    BY <2>1, <2>2, NoWalk DEF WalkOps
<1>15. ASSUME NEW s \in Srcs, StopReturns(s) PROVE Awaits(j, t)'
  <2>1. op[s] # "idle" /\ op'[j] = op[j]
    BY <1>15 DEF StopReturns, Finish
  <2>2. op[j] = "idle"
    BY <2>1, OthersIdle
  <2>3. QED
    BY <2>1, <2>2, NoWalk DEF WalkOps
<1>16. ASSUME NEW k \in Sinks, NEW n \in NodeNames, CreateSink(k, n) PROVE Awaits(j, t)'
  <2>1. Quiet /\ cur[k] = NULL /\ \A q \in Sinks : q # k => op[q] = "idle"
    BY <1>16, NobodyBusy DEF CreateSink, Quiet, SoloInv
  <2>3. EntryFor(t) # NULL => Points(t, listenTo[t])
    BY <2>1, QuietPlaces
  <2>4. CASE j = k
    <3>1. IF nodes[n] = NULL THEN NameOf[t] \in todo'[j] ELSE todo'[j] = {}
      BY <1>16, <2>4, NameOfAssumption DEF CreateSink, AddNode
    <3>2. op'[j] = "name" /\ nodeName'[j] = n /\ cur'[j] # t /\ listeners' = listeners /\ listenTo' = listenTo
      BY <1>16, <2>1, <2>4, NullAssumption DEF CreateSink, AddNode
    <3>3. QED
      BY <2>3, <2>4, <3>1, <3>2 DEF Awaits, ToBeTold, Points, EntryFor
  <2>5. CASE j # k
    <3>1. op'[j] = "idle"
      BY <1>16, <2>1, <2>5 DEF CreateSink, AddNode
    <3>2. QED
      BY <3>1, NoWalk DEF WalkOps
  <2>6. QED
    BY <2>4, <2>5
<1>17. ASSUME NEW k \in Sinks, NEW n \in NodeNames, RenameSink(k, n) PROVE Awaits(j, t)'
  <2>1. Quiet /\ cur[k] = NULL /\ nodeName[k] # NULL
    BY <1>17, NobodyBusy DEF RenameSink, Quiet, SoloInv, LiveInv
  <2>2. EntryFor(t) # NULL => Points(t, listenTo[t])
    BY <2>1, QuietPlaces
  <2>3. nodes' = [nodes EXCEPT ![nodeName[k]] = NULL] /\ nodeName' = nodeName /\ listeners' = listeners /\ listenTo' = listenTo
    BY <1>17 DEF RenameSink, RemoveNode
  <2>4. CASE j = k
    <3>1. nodes[nodeName[k]] = NULL => todo'[j] = {}
      BY <1>17, <2>4 DEF RenameSink, RemoveNode
    <3>2. op'[j] \in {"unname", "finalize"} /\ cur'[j] # t
      BY <1>17, <2>1, <2>4, NullAssumption DEF RenameSink, RemoveNode
    <3>3. nodes'[nodeName[k]] = NULL
      BY <2>1, <2>3
    <3>4. QED
      BY <2>2, <2>3, <2>4, <3>1, <3>2, <3>3 DEF Awaits, ToBeTold, Removing, Points, EntryFor
  <2>5. CASE j # k
    <3>1. op'[j] = "idle"
      BY <1>17, <2>1, <2>5 DEF RenameSink, RemoveNode, Quiet
    <3>2. QED
      BY <3>1, NoWalk DEF WalkOps
  <2>6. QED
    BY <2>4, <2>5
<1>18. ASSUME NEW k \in Sinks, FinalizeSink(k) PROVE Awaits(j, t)'
  <2>1. Quiet /\ cur[k] = NULL /\ nodeName[k] # NULL
    BY <1>18, NobodyBusy DEF FinalizeSink, Quiet, SoloInv, LiveInv
  <2>2. EntryFor(t) # NULL => Points(t, listenTo[t])
    BY <2>1, QuietPlaces
  <2>3. nodes' = [nodes EXCEPT ![nodeName[k]] = NULL] /\ nodeName' = nodeName /\ listeners' = listeners /\ listenTo' = listenTo
    BY <1>18 DEF FinalizeSink, RemoveNode
  <2>4. CASE j = k
    <3>1. nodes[nodeName[k]] = NULL => todo'[j] = {}
      BY <1>18, <2>4 DEF FinalizeSink, RemoveNode
    <3>2. op'[j] \in {"unname", "finalize"} /\ cur'[j] # t
      BY <1>18, <2>1, <2>4, NullAssumption DEF FinalizeSink, RemoveNode
    <3>3. nodes'[nodeName[k]] = NULL
      BY <2>1, <2>3
    <3>4. QED
      BY <2>2, <2>3, <2>4, <3>1, <3>2, <3>3 DEF Awaits, ToBeTold, Removing, Points, EntryFor
  <2>5. CASE j # k
    <3>1. op'[j] = "idle"
      BY <1>18, <2>1, <2>5 DEF FinalizeSink, RemoveNode, Quiet
    <3>2. QED
      BY <3>1, NoWalk DEF WalkOps
  <2>6. QED
    BY <2>4, <2>5
<1>19. ASSUME NEW k \in Sinks, Kick(k) PROVE Awaits(j, t)'
  <2>1. op[j] = "idle" /\ (op'[j] = op[j] \/ op'[j] = "kick")
    BY <1>19, NobodyBusy DEF Kick, Quiet
  <2>2. QED
    BY <2>1, NoWalk DEF WalkOps
<1>20. ASSUME NEW k \in Sinks, NEW l \in ListenerNames, SkipListener(k, l) PROVE Awaits(j, t)'
  BY <1>20, StillAwaits DEF SkipListener, Awaits
<1>21. ASSUME NEW k \in Sinks, NEW l \in ListenerNames, NotifyAdded(k, l) PROVE Awaits(j, t)'
  <2>1. op[j] \in WalkOps /\ NameOf[t] \in todo'[j] => cur'[j] # t
    <3> SUFFICES ASSUME op[j] \in WalkOps, NameOf[t] \in todo'[j], cur'[j] = t PROVE FALSE
      OBVIOUS
    <3>1. j = k
      BY <1>21, OthersIdle, NullAssumption DEF NotifyAdded, SrcListenNode, WalkOps
    <3>2. t = listeners[l].listener /\ NameOf[t] # l
      BY <1>21, <3>1 DEF NotifyAdded, SrcListenNode
    <3>3. QED
      BY <1>21, <3>2 DEF NotifyAdded, OwnerInv
  <2>2. todo'[j] \subseteq todo[j]
    BY <1>21 DEF NotifyAdded
  <2>3. QED
    BY <1>21, <2>1, <2>2, StillAwaits DEF NotifyAdded
<1>22. ASSUME NEW k \in Sinks, NEW l \in ListenerNames, NotifyRemoved(k, l) PROVE Awaits(j, t)'
  <2>1. op[j] \in WalkOps /\ NameOf[t] \in todo'[j] => cur'[j] # t
    <3> SUFFICES ASSUME op[j] \in WalkOps, NameOf[t] \in todo'[j], cur'[j] = t PROVE FALSE
      OBVIOUS
    <3>1. j = k
      BY <1>22, OthersIdle, NullAssumption DEF NotifyRemoved, CallLeave, WalkOps
    <3>2. t = listeners[l].listener /\ NameOf[t] # l
      BY <1>22, <3>1 DEF NotifyRemoved, CallLeave
    <3>3. QED
      BY <1>22, <3>2 DEF NotifyRemoved, OwnerInv
  <2>2. todo'[j] \subseteq todo[j]
    BY <1>22 DEF NotifyRemoved
  <2>3. QED
    BY <1>22, <2>1, <2>2, StillAwaits DEF NotifyRemoved
<1>23. ASSUME NEW k \in Sinks, NEW s \in Srcs, KickNext(k, s) PROVE Awaits(j, t)'
  <2>1. op[k] # "idle" /\ op'[j] = op[j] /\ op[k] \notin WalkOps
    BY <1>23 DEF KickNext, WalkOps
  <2>2. QED
    BY <2>1, OthersIdle, NoWalk DEF WalkOps
<1>24. ASSUME NEW k \in Sinks, CallbackReturns(k) PROVE Awaits(j, t)'
  <2>1. op[j] \in WalkOps /\ NameOf[t] \in todo'[j] => cur'[j] # t
    BY <1>24, NullAssumption DEF CallbackReturns, ForgetCall, Awaits
  <2>2. QED
    BY <1>24, <2>1, StillAwaits DEF CallbackReturns
<1>25. ASSUME NEW k \in Sinks, NameReturns(k) PROVE Awaits(j, t)'
  <2>1. op[k] # "idle" /\ op'[k] = "idle" /\ (j # k => op'[j] = op[j])
    BY <1>25 DEF NameReturns, Finish
  <2>2. QED
    BY <2>1, OthersIdle, NoWalk DEF WalkOps
<1>26. ASSUME NEW k \in Sinks, RenameRegisters(k) PROVE Awaits(j, t)'
  <2>1. cur[k] = NULL /\ \A q \in Sinks : q # k => op[q] = "idle"
    BY <1>26, OthersIdle DEF RenameRegisters, WalkOver, CallerInv
  <2>2. Untouched(t)
    BY <1>26, <2>1, OthersIdle, NullAssumption DEF RenameRegisters, Untouched
  <2>3. EntryFor(t) # NULL => Points(t, listenTo[t])
    BY <1>26, <2>2, NobodyLeft DEF RenameRegisters, PlaceInv
  <2>4. CASE j = k
    <3>1. IF nodes[objName[k]] = NULL THEN NameOf[t] \in todo'[j] ELSE todo'[j] = {}
      BY <1>26, <2>4, NameOfAssumption DEF RenameRegisters, AddNode
    <3>2. op'[j] = "name" /\ nodeName'[j] = objName[k] /\ cur'[j] # t /\ listeners' = listeners /\ listenTo' = listenTo
      BY <1>26, <2>1, <2>4, NullAssumption DEF RenameRegisters, AddNode
    <3>3. QED
      BY <2>3, <2>4, <3>1, <3>2 DEF Awaits, ToBeTold, Points, EntryFor
  <2>5. CASE j # k
    <3>1. op'[j] = "idle"
      BY <1>26, <2>1, <2>5 DEF RenameRegisters, AddNode
    <3>2. QED
      BY <3>1, NoWalk DEF WalkOps
  <2>6. QED
    BY <2>4, <2>5
<1>27. ASSUME NEW k \in Sinks, FinalizeReturns(k) PROVE Awaits(j, t)'
  <2>1. op[k] # "idle" /\ op'[k] = "idle" /\ (j # k => op'[j] = op[j])
    BY <1>27 DEF FinalizeReturns, Finish
  <2>2. QED
    BY <2>1, OthersIdle, NoWalk DEF WalkOps
<1>28. ASSUME NEW k \in Sinks, KickReturns(k) PROVE Awaits(j, t)'
  <2>1. op[k] # "idle" /\ op'[k] = "idle" /\ (j # k => op'[j] = op[j])
    BY <1>28 DEF KickReturns, Finish
  <2>2. QED
    BY <2>1, OthersIdle, NoWalk DEF WalkOps
<1>29. ASSUME NEW p \in Procs, AlreadyListening(p) PROVE Awaits(j, t)'
  BY <1>29 DEF AlreadyListening, Awaits, ToBeTold, Removing, EntryFor, vars
<1>30. ASSUME NEW p \in Procs, ListenLock(p) PROVE Awaits(j, t)'
  BY <1>30 DEF ListenLock, Awaits, ToBeTold, Removing, EntryFor, vars
<1>31. ASSUME NEW p \in Procs, LeaveUnknown(p) PROVE Awaits(j, t)'
  BY <1>31 DEF LeaveUnknown, Awaits, ToBeTold, Removing, EntryFor, vars
<1>32. ASSUME NEW p \in Procs, LeavePending(p) PROVE Awaits(j, t)'
  <2>1. cur[p] # NULL /\ op[p] # "idle"
    BY <1>32 DEF LeavePending, CallInv, LockInv, Locked
  <2>2. CASE j # p
    <3>1. op'[j] = "idle"
      BY <1>32, <2>1, <2>2, OthersIdle DEF LeavePending
    <3>2. QED
      BY <3>1, NoWalk DEF WalkOps
  <2>3. CASE j = p
    <3>1. \A s \in Srcs : NameOf[s] # NameOf[cur[p]] => listeners'[NameOf[s]] = listeners[NameOf[s]]
      BY <1>32, EntryGone DEF LeavePending
    <3>2. cur[j] # t => listeners'[NameOf[t]] = listeners[NameOf[t]]
      BY <2>1, <2>3, <3>1 DEF DistinctNames
    <3>3. NameOf[t] \in todo[j] /\ op[j] \in WalkOps => cur[j] # t
      BY DEF Awaits
    <3>4. QED
      BY <1>32, <2>3, <3>2, <3>3, StillAwaits DEF LeavePending
  <2>4. QED
    BY <2>2, <2>3
<1>33. ASSUME NEW p \in Procs, LeaveLock(p) PROVE Awaits(j, t)'
  BY <1>33 DEF LeaveLock, Awaits, ToBeTold, Removing, EntryFor, vars
<1>34. ASSUME NEW p \in Procs, LookupMissing(p) PROVE Awaits(j, t)'
  <2>1. cur[p] # NULL /\ op[p] # "idle"
    BY <1>34 DEF LookupMissing, CallInv, LockInv, Locked
  <2>2. CASE j # p
    <3>1. op'[j] = "idle"
      BY <1>34, <2>1, <2>2, OthersIdle DEF LookupMissing
    <3>2. QED
      BY <3>1, NoWalk DEF WalkOps
  <2>3. CASE j = p
    <3>1. \A s \in Srcs : NameOf[s] # NameOf[cur[p]] => listeners'[NameOf[s]] = listeners[NameOf[s]]
      BY <1>34, MissingNode DEF LookupMissing
    <3>2. cur[j] # t => listeners'[NameOf[t]] = listeners[NameOf[t]]
      BY <2>1, <2>3, <3>1 DEF DistinctNames
    <3>3. NameOf[t] \in todo[j] /\ op[j] \in WalkOps => cur[j] # t
      BY DEF Awaits
    <3>4. QED
      BY <1>34, <2>3, <3>2, <3>3, StillAwaits DEF LookupMissing
  <2>4. QED
    BY <2>2, <2>3
<1>35. ASSUME NEW p \in Procs, LookupFound(p) PROVE Awaits(j, t)'
  BY <1>35 DEF LookupFound, Awaits, ToBeTold, Removing, EntryFor, vars
<1>36. ASSUME NEW p \in Procs, Attach(p) PROVE Awaits(j, t)'
  <2>1. cur[p] # NULL /\ op[p] # "idle"
    BY <1>36 DEF Attach, CallInv, LockInv, Locked
  <2>2. CASE j # p
    <3>1. op'[j] = "idle"
      BY <1>36, <2>1, <2>2, OthersIdle DEF Attach
    <3>2. QED
      BY <3>1, NoWalk DEF WalkOps
  <2>3. CASE j = p
    <3>1. \A s \in Srcs : NameOf[s] # NameOf[cur[p]] => listeners'[NameOf[s]] = listeners[NameOf[s]]
      BY <1>36, AttachedNode DEF Attach
    <3>2. cur[j] # t => listeners'[NameOf[t]] = listeners[NameOf[t]]
      BY <2>1, <2>3, <3>1 DEF DistinctNames
    <3>3. NameOf[t] \in todo[j] /\ op[j] \in WalkOps => cur[j] # t
      BY DEF Awaits
    <3>4. QED
      BY <1>36, <2>3, <3>2, <3>3, StillAwaits DEF Attach
  <2>4. QED
    BY <2>2, <2>3
<1>37. ASSUME NEW p \in Procs, AttachRefused(p) PROVE Awaits(j, t)'
  BY <1>37 DEF AttachRefused, Awaits, ToBeTold, Removing, EntryFor, vars
<1>38. ASSUME NEW p \in Procs, PrivNoNode(p) PROVE Awaits(j, t)'
  <2>1. cur[p] # NULL /\ op[p] # "idle"
    BY <1>38 DEF PrivNoNode, CallInv, LockInv, Locked
  <2>2. CASE j # p
    <3>1. op'[j] = "idle"
      BY <1>38, <2>1, <2>2, OthersIdle DEF PrivNoNode
    <3>2. QED
      BY <3>1, NoWalk DEF WalkOps
  <2>3. CASE j = p
    <3>1. \A s \in Srcs : NameOf[s] # NameOf[cur[p]] => listeners'[NameOf[s]] = listeners[NameOf[s]]
      BY <1>38, FailedLeave DEF PrivNoNode
    <3>2. cur[j] # t => listeners'[NameOf[t]] = listeners[NameOf[t]]
      BY <2>1, <2>3, <3>1 DEF DistinctNames
    <3>3. NameOf[t] \in todo[j] /\ op[j] \in WalkOps => cur[j] # t
      BY DEF Awaits
    <3>4. QED
      BY <1>38, <2>3, <3>2, <3>3, StillAwaits DEF PrivNoNode
  <2>4. QED
    BY <2>2, <2>3
<1>39. ASSUME NEW p \in Procs, PrivGetNode(p) PROVE Awaits(j, t)'
  BY <1>39 DEF PrivGetNode, Awaits, ToBeTold, Removing, EntryFor, vars
<1>40. ASSUME NEW p \in Procs, PrivNotThere(p) PROVE Awaits(j, t)'
  <2>1. cur[p] # NULL /\ op[p] # "idle"
    BY <1>40 DEF PrivNotThere, CallInv, LockInv, Locked
  <2>2. CASE j # p
    <3>1. op'[j] = "idle"
      BY <1>40, <2>1, <2>2, OthersIdle DEF PrivNotThere
    <3>2. QED
      BY <3>1, NoWalk DEF WalkOps
  <2>3. CASE j = p
    <3>1. \A s \in Srcs : NameOf[s] # NameOf[cur[p]] => listeners'[NameOf[s]] = listeners[NameOf[s]]
      BY <1>40, FailedLeave DEF PrivNotThere
    <3>2. cur[j] # t => listeners'[NameOf[t]] = listeners[NameOf[t]]
      BY <2>1, <2>3, <3>1 DEF DistinctNames
    <3>3. NameOf[t] \in todo[j] /\ op[j] \in WalkOps => cur[j] # t
      BY DEF Awaits
    <3>4. QED
      BY <1>40, <2>3, <3>2, <3>3, StillAwaits DEF PrivNotThere
  <2>4. QED
    BY <2>2, <2>3
<1>41. ASSUME NEW p \in Procs, PrivDropAndListen(p) PROVE Awaits(j, t)'
  BY <1>41 DEF PrivDropAndListen, Awaits, ToBeTold, Removing, EntryFor, vars
<1>42. ASSUME NEW p \in Procs, PrivDropAndLeave(p) PROVE Awaits(j, t)'
  <2>1. cur[p] # NULL /\ op[p] # "idle"
    BY <1>42 DEF PrivDropAndLeave, CallInv, LockInv, Locked
  <2>2. CASE j # p
    <3>1. op'[j] = "idle"
      BY <1>42, <2>1, <2>2, OthersIdle DEF PrivDropAndLeave
    <3>2. QED
      BY <3>1, NoWalk DEF WalkOps
  <2>3. CASE j = p
    <3>1. \A s \in Srcs : NameOf[s] # NameOf[cur[p]] => listeners'[NameOf[s]] = listeners[NameOf[s]]
      BY <1>42, EntryGone DEF PrivDropAndLeave
    <3>2. cur[j] # t => listeners'[NameOf[t]] = listeners[NameOf[t]]
      BY <2>1, <2>3, <3>1 DEF DistinctNames
    <3>3. NameOf[t] \in todo[j] /\ op[j] \in WalkOps => cur[j] # t
      BY DEF Awaits
    <3>4. QED
      BY <1>42, <2>3, <3>2, <3>3, StillAwaits DEF PrivDropAndLeave
  <2>4. QED
    BY <2>2, <2>3
<1>43. ASSUME NEW p \in Procs, UndoListen(p) PROVE Awaits(j, t)'
  BY <1>43 DEF UndoListen, Awaits, ToBeTold, Removing, EntryFor, vars
<1>44. ASSUME NEW p \in Procs, Relisten(p) PROVE Awaits(j, t)'
  BY <1>44 DEF Relisten, Awaits, ToBeTold, Removing, EntryFor, vars
<1>45. ASSUME NEW k \in Sinks, NEW s \in Srcs, CapsChange(k, s) PROVE Awaits(j, t)'
  BY <1>45 DEF CapsChange, Awaits, ToBeTold, Removing, EntryFor, vars
<1>46. CASE AllFreed
  BY <1>46 DEF AllFreed, Awaits, ToBeTold, Removing, EntryFor, vars
<1>47. CASE UNCHANGED vars
  BY <1>47 DEF vars, Awaits, ToBeTold, Removing, EntryFor, vars
<1>48. QED
  BY <1>1, <1>2, <1>3, <1>4, <1>5, <1>6, <1>7, <1>8, <1>9, <1>10, <1>11, <1>12, <1>13,
      <1>14, <1>15, <1>16, <1>17, <1>18, <1>19, <1>20, <1>21, <1>22, <1>23, <1>24, <1>25,
      <1>26, <1>27, <1>28, <1>29, <1>30, <1>31, <1>32, <1>33, <1>34, <1>35, <1>36, <1>37,
      <1>38, <1>39, <1>40, <1>41, <1>42, <1>43, <1>44, <1>45, <1>46, <1>47 DEF Next,
      SrcBegins, SrcReturns, SinkBegins, SinkWalks, CoreLocks, CoreHoldsLock, CoreUnlocked

-----------------------------------------------------------------------------
(* The source that a call is about *)

\* Who moves is the only one with a source in hand.
LEMMA OneHand ==
  ASSUME SoloInv, NEW p \in Procs, op[p] # "idle", \A q \in Procs : q # p => cur'[q] = cur[q],
         cur'[p] # NULL => Held(p)'
  PROVE  HeldInv'
<1>1. \A q \in Procs : q # p => cur'[q] = NULL
  BY OthersIdle
<1>2. QED
  BY <1>1 DEF HeldInv

\* The first of an operation likewise.
LEMMA FirstHand ==
  ASSUME SoloInv, Quiet, NEW p \in Procs, \A q \in Procs : q # p => cur'[q] = cur[q],
         cur'[p] # NULL => Held(p)'
  PROVE  HeldInv'
<1>1. \A q \in Procs : q # p => cur'[q] = NULL
  BY DEF SoloInv, Quiet
<1>2. QED
  BY <1>1 DEF HeldInv

\* Whom a walk that goes on with an entry calls the core for.
LEMMA NextOfWalk ==
  ASSUME DistinctNames, TypeOK, OwnerInv, SoloInv, PlaceInv, WalkInv, CallerInv,
         NEW k \in Sinks, NEW l \in todo[k], l \in ListenerNames, listeners[l] # NULL,
         listenTo[listeners[l].listener] = nodeName[k], pc[k] = "walk", op[k] \in WalkOps
  PROVE  LET s == listeners[l].listener IN
         s \in Srcs /\ EntryFor(s) # NULL /\ Registered(s) /\ ToBeTold(k, s)
<1> DEFINE s == listeners[l].listener
<1>1. listeners[l] \in Entry /\ s \in Srcs /\ NameOf[s] = l
  BY DEF TypeOK, Entry, OwnerInv
<1>2. ToBeTold(k, s)
  BY <1>1 DEF WalkInv, Awaits, EntryFor
<1>3. Untouched(s)
  BY <1>1, OthersIdle, NullAssumption DEF Untouched, Procs, WalkOps, CallerInv
<1>4. QED
  BY <1>1, <1>2, <1>3 DEF PlaceInv, InPlace, Settled, EntryFor

\* A call is one of a listen or of a leave, by an operation that makes it.
LEMMA CallKinds ==
  ASSUME NEW p \in Procs, TypeOK, LockInv, CallerInv, pc[p] \notin {"idle", "walk"}
  PROVE  \/ call[p] = "listen" /\ op[p] \in {"set", "start", "name"} /\ pc[p] # "failed"
         \/ call[p] = "leave" /\ op[p] \in {"unset", "stop", "kick", "unname", "finalize"}
  BY DEF Procs, LockInv, CallerInv, Removing, TypeOK

\* A step of the core, by the two kinds of call.
LEMMA CoreStep ==
  ASSUME NEW p \in Procs, TypeOK, LockInv, CallInv, SoloInv, CallerInv, HeldInv,
         cur' = cur, call' = call, pc[p] \notin {"idle", "walk"}, cur[p] # NULL,
         \A c \in Srcs : c = cur[p] /\ HeldByListen(p, c) /\ op[p] \in {"set", "start", "name"}
                         /\ call[p] = "listen" => HeldByListen(p, c)',
         \A c \in Srcs : c = cur[p] /\ HeldByLeave(p, c) /\ op[p] \notin {"set", "start", "name"}
                         /\ call[p] = "leave" => HeldByLeave(p, c)'
  PROVE  HeldInv'
<1>1. cur[p] \in Srcs /\ Held(p) /\ op[p] # "idle"
  BY DEF TypeOK, HeldInv, LockInv
<1>2. PICK c \in Srcs : c = cur[p]
  BY <1>1
<1>3. CASE call[p] = "listen" /\ op[p] \in {"set", "start", "name"}
  <2>1. HeldByListen(p, c)'
    BY <1>1, <1>2, <1>3 DEF Held
  <2>2. Held(p)'
    BY <1>2, <1>3, <2>1 DEF Held
  <2>3. QED
    BY <1>1, <2>2, OneHand
<1>4. CASE call[p] = "leave" /\ op[p] \notin {"set", "start", "name"}
  <2>1. HeldByLeave(p, c)'
    BY <1>1, <1>2, <1>4 DEF Held
  <2>2. Held(p)'
    BY <1>2, <1>4, <2>1 DEF Held
  <2>3. QED
    BY <1>1, <2>2, OneHand
<1>5. QED
  BY <1>3, <1>4, CallKinds

\* Every action keeps what is known of the source that a call is about.
LEMMA HeldStep ==
  ASSUME Peaceful, TypeOK, LockInv, LiveInv, CallInv, TableInv, FreshInv, OwnerInv, SoloInv, PlacesInv, [Next]_vars
  PROVE  HeldInv'
<1> USE NullAssumption, KindsAssumption DEF Peaceful, TypeOK, Procs, PlacesInv, MayBegin,
    coreVars, sinkVars, srcVars, callVars, walkVars
<1>1. ASSUME NEW s \in Srcs, NEW n \in NodeNames, PresetListenTo(s, n) PROVE HeldInv'
  <2>1. Quiet
    BY <1>1, NobodyBusy DEF PresetListenTo
  <2>2. QED
    BY <1>1, <2>1 DEF PresetListenTo, HeldInv, Quiet, SoloInv
<1>2. ASSUME NEW s \in Srcs, NEW n \in NodeNames, SetListenTo(s, n) PROVE HeldInv'
  <2>1. Quiet /\ s \notin blocking /\ n # NULL
    BY <1>2, NobodyBusy DEF SetListenTo, CalmInv
  <2>2. cur' = [cur EXCEPT ![s] = s] /\ want'[s] = n /\ call'[s] = "listen" /\ pc'[s] = "listen" /\ op'[s] = "set"
    BY <1>2, <2>1 DEF SetListenTo, SrcListenNode, Goto
  <2>3. EntryFor(s) # NULL => Registered(s) /\ Points(s, listenTo[s])
    BY <2>1, QuietPlaces
  <2>4. HeldByListen(s, s)'
    BY <1>2, <2>1, <2>2, <2>3 DEF SetListenTo, HeldByListen, Registered, Points, EntryFor
  <2>5. QED
    BY <2>1, <2>2, <2>4, FirstHand DEF Held
<1>3. ASSUME NEW s \in Srcs, DropListenTo(s) PROVE HeldInv'
  <2>1. Quiet
    BY <1>3, NobodyBusy DEF DropListenTo
  <2>2. QED
    BY <1>3, <2>1 DEF DropListenTo, HeldInv, Quiet, SoloInv
<1>4. ASSUME NEW s \in Srcs, UnsetListenTo(s) PROVE HeldInv'
  <2>1. Quiet
    BY <1>4, NobodyBusy DEF UnsetListenTo
  <2>2. cur' = [cur EXCEPT ![s] = s] /\ call'[s] = "leave" /\ pc'[s] = "leave" /\ op'[s] = "unset"
    BY <1>4, <2>1 DEF UnsetListenTo, CallLeave, Goto
  <2>3. EntryFor(s) # NULL => Registered(s) /\ Points(s, listenTo[s])
    BY <2>1, QuietPlaces
  <2>4. HeldByLeave(s, s)'
    BY <1>4, <2>2, <2>3 DEF UnsetListenTo, HeldByLeave, Registered, Points, EntryFor,
        Removing, Returned
  <2>5. QED
    BY <2>1, <2>2, <2>4, FirstHand DEF Held
<1>5. ASSUME NEW s \in Srcs, SetBlockSwitch(s) PROVE HeldInv'
  <2>1. Quiet
    BY <1>5, NobodyBusy DEF SetBlockSwitch
  <2>2. QED
    BY <1>5, <2>1 DEF SetBlockSwitch, HeldInv, Quiet, SoloInv
<1>6. ASSUME NEW s \in Srcs, StartAlone(s) PROVE HeldInv'
  <2>1. Quiet
    BY <1>6, NobodyBusy DEF StartAlone
  <2>2. QED
    BY <1>6, <2>1 DEF StartAlone, HeldInv, Quiet, SoloInv
<1>7. ASSUME NEW s \in Srcs, Start(s) PROVE HeldInv'
  <2>1. Quiet /\ s \notin blocking /\ listenTo[s] # NULL
    BY <1>7, NobodyBusy DEF Start, CalmInv
  <2>2. cur' = [cur EXCEPT ![s] = s] /\ want'[s] = listenTo[s] /\ call'[s] = "listen" /\ pc'[s] = "listen" /\ op'[s] = "start"
    BY <1>7, <2>1 DEF Start, SrcListenNode, Goto
  <2>3. EntryFor(s) # NULL => Registered(s) /\ Points(s, listenTo[s])
    BY <2>1, QuietPlaces
  <2>4. HeldByListen(s, s)'
    BY <1>7, <2>1, <2>2, <2>3 DEF Start, HeldByListen, Registered, Points, EntryFor
  <2>5. QED
    BY <2>1, <2>2, <2>4, FirstHand DEF Held
<1>8. ASSUME NEW s \in Srcs, StopAlone(s) PROVE HeldInv'
  <2>1. Quiet
    BY <1>8, NobodyBusy DEF StopAlone
  <2>2. QED
    BY <1>8, <2>1 DEF StopAlone, HeldInv, Quiet, SoloInv
<1>9. ASSUME NEW s \in Srcs, Stop(s) PROVE HeldInv'
  <2>1. Quiet
    BY <1>9, NobodyBusy DEF Stop
  <2>2. cur' = [cur EXCEPT ![s] = s] /\ call'[s] = "leave" /\ pc'[s] = "leave" /\ op'[s] = "stop"
    BY <1>9, <2>1 DEF Stop, CallLeave, Goto
  <2>3. EntryFor(s) # NULL => Registered(s) /\ Points(s, listenTo[s])
    BY <2>1, QuietPlaces
  <2>4. HeldByLeave(s, s)'
    BY <1>9, <2>2, <2>3 DEF Stop, HeldByLeave, Registered, Points, EntryFor, Removing, Returned
  <2>5. QED
    BY <2>1, <2>2, <2>4, FirstHand DEF Held
<1>10. ASSUME NEW s \in Srcs, FinalizeSrc(s) PROVE HeldInv'
  <2>1. Quiet
    BY <1>10, NobodyBusy DEF FinalizeSrc
  <2>2. QED
    BY <1>10, <2>1 DEF FinalizeSrc, HeldInv, Quiet, SoloInv
<1>11. ASSUME NEW s \in Srcs, SetReturns(s) PROVE HeldInv'
  <2>1. op[s] # "idle" /\ cur' = [cur EXCEPT ![s] = NULL]
    BY <1>11 DEF SetReturns, Finish, ForgetCall
  <2>2. QED
    BY <2>1, OneHand
<1>12. ASSUME NEW s \in Srcs, UnsetReturns(s) PROVE HeldInv'
  <2>1. op[s] # "idle" /\ cur' = [cur EXCEPT ![s] = NULL]
    BY <1>12 DEF UnsetReturns, Finish, ForgetCall
  <2>2. QED
    BY <2>1, OneHand
<1>13. ASSUME NEW s \in Srcs, StartReturns(s) PROVE HeldInv'
  <2>1. op[s] # "idle" /\ cur' = [cur EXCEPT ![s] = NULL]
    BY <1>13 DEF StartReturns, Finish, ForgetCall
  <2>2. QED
    BY <2>1, OneHand
<1>14. ASSUME NEW s \in Srcs, StartFails(s) PROVE HeldInv'
  <2>1. op[s] # "idle" /\ cur' = [cur EXCEPT ![s] = NULL]
    BY <1>14 DEF StartFails, Finish, ForgetCall
  <2>2. QED
    BY <2>1, OneHand
<1>15. ASSUME NEW s \in Srcs, StopReturns(s) PROVE HeldInv'
  <2>1. op[s] # "idle" /\ cur' = [cur EXCEPT ![s] = NULL]
    BY <1>15 DEF StopReturns, Finish, ForgetCall
  <2>2. QED
    BY <2>1, OneHand
<1>16. ASSUME NEW k \in Sinks, NEW n \in NodeNames, CreateSink(k, n) PROVE HeldInv'
  <2>1. Quiet
    BY <1>16, NobodyBusy DEF CreateSink
  <2>2. QED
    BY <1>16, <2>1 DEF CreateSink, HeldInv, Quiet, SoloInv
<1>17. ASSUME NEW k \in Sinks, NEW n \in NodeNames, RenameSink(k, n) PROVE HeldInv'
  <2>1. Quiet
    BY <1>17, NobodyBusy DEF RenameSink
  <2>2. QED
    BY <1>17, <2>1 DEF RenameSink, HeldInv, Quiet, SoloInv
<1>18. ASSUME NEW k \in Sinks, FinalizeSink(k) PROVE HeldInv'
  <2>1. Quiet
    BY <1>18, NobodyBusy DEF FinalizeSink
  <2>2. QED
    BY <1>18, <2>1 DEF FinalizeSink, HeldInv, Quiet, SoloInv
<1>19. ASSUME NEW k \in Sinks, Kick(k) PROVE HeldInv'
  <2>1. Quiet
    BY <1>19, NobodyBusy DEF Kick
  <2>2. QED
    BY <1>19, <2>1 DEF Kick, HeldInv, Quiet, SoloInv
<1>20. ASSUME NEW k \in Sinks, NEW l \in ListenerNames, SkipListener(k, l) PROVE HeldInv'
  <2>1. op[k] # "idle" /\ cur' = cur /\ cur[k] = NULL
    BY <1>20 DEF SkipListener, WalkOps, CallerInv
  <2>2. QED
    BY <2>1, OneHand
<1>21. ASSUME NEW k \in Sinks, NEW l \in ListenerNames, NotifyAdded(k, l) PROVE HeldInv'
  <2>1. PICK s \in Srcs : s = listeners[l].listener /\ EntryFor(s) # NULL /\ Registered(s) /\ ToBeTold(k, s)
    BY <1>21, NextOfWalk DEF NotifyAdded, WalkOps
  <2>2. op[k] = "name" /\ s \notin blocking /\ nodeName[k] # NULL
    BY <1>21 DEF NotifyAdded, CalmInv, LiveInv
  <2>3. cur' = [cur EXCEPT ![k] = s] /\ want'[k] = nodeName[k] /\ call'[k] = "listen" /\ pc'[k] = "listen" /\ op' = op
    BY <1>21, <2>1, <2>2 DEF NotifyAdded, SrcListenNode, Goto
  <2>4. EntryFor(s).listen_to = NULL /\ listenTo[s] = nodeName[k]
    BY <2>1, <2>2 DEF ToBeTold, Removing
  <2>5. HeldByListen(k, s)'
    BY <1>21, <2>1, <2>2, <2>3, <2>4 DEF NotifyAdded, HeldByListen, Registered, EntryFor
  <2>6. QED
    BY <2>1, <2>2, <2>3, <2>5, OneHand DEF Held
<1>22. ASSUME NEW k \in Sinks, NEW l \in ListenerNames, NotifyRemoved(k, l) PROVE HeldInv'
  <2>1. PICK s \in Srcs : s = listeners[l].listener /\ EntryFor(s) # NULL /\ Registered(s) /\ ToBeTold(k, s)
    BY <1>22, NextOfWalk DEF NotifyRemoved, WalkOps
  <2>2. op[k] # "name" /\ op[k] # "idle" /\ Removing(k)
    BY <1>22 DEF NotifyRemoved, Removing
  <2>3. cur' = [cur EXCEPT ![k] = s] /\ call'[k] = "leave" /\ pc'[k] = "leave" /\ op' = op
    BY <1>22, <2>1 DEF NotifyRemoved, CallLeave, Goto
  <2>4. EntryFor(s).listen_to = nodeName[k] /\ listenTo[s] = nodeName[k] /\ nodes[nodeName[k]] = NULL
    BY <2>1, <2>2 DEF ToBeTold
  <2>5. HeldByLeave(k, s)'
    BY <1>22, <2>1, <2>2, <2>3, <2>4 DEF NotifyRemoved, HeldByLeave, Registered, EntryFor,
        Removing, Returned
  <2>6. QED
    BY <2>1, <2>2, <2>3, <2>5, OneHand DEF Held
<1>23. ASSUME NEW k \in Sinks, NEW s \in Srcs, KickNext(k, s) PROVE HeldInv'
  <2>1. op[k] = "kick" /\ cur[k] = NULL /\ \A q \in Procs : q # k => op[q] = "idle" /\ cur[q] = NULL
    BY <1>23, OthersIdle DEF KickNext, CallerInv
  <2>2. InPlace(s) /\ Untouched(s) /\ ~ToBeTold(k, s)
    BY <2>1, NullAssumption DEF PlaceInv, Untouched, ToBeTold, Removing
  <2>3. EntryFor(s) # NULL => Registered(s) /\ Points(s, listenTo[s])
    BY <2>1, <2>2, Told
  <2>4. cur' = [cur EXCEPT ![k] = s] /\ call'[k] = "leave" /\ pc'[k] = "leave" /\ op' = op
    BY <1>23 DEF KickNext, CallLeave, Goto
  <2>5. HeldByLeave(k, s)'
    BY <1>23, <2>1, <2>3, <2>4 DEF KickNext, HeldByLeave, Registered, Points, EntryFor,
        Removing, Returned
  <2>6. QED
    BY <2>1, <2>4, <2>5, OneHand DEF Held
<1>24. ASSUME NEW k \in Sinks, CallbackReturns(k) PROVE HeldInv'
  <2>1. op[k] # "idle" /\ cur' = [cur EXCEPT ![k] = NULL]
    BY <1>24 DEF CallbackReturns, ForgetCall, WalkOps
  <2>2. QED
    BY <2>1, OneHand
<1>25. ASSUME NEW k \in Sinks, NameReturns(k) PROVE HeldInv'
  <2>1. op[k] # "idle" /\ cur' = [cur EXCEPT ![k] = NULL]
    BY <1>25 DEF NameReturns, Finish, ForgetCall
  <2>2. QED
    BY <2>1, OneHand
<1>26. ASSUME NEW k \in Sinks, RenameRegisters(k) PROVE HeldInv'
  <2>1. op[k] # "idle" /\ cur' = cur /\ cur[k] = NULL
    BY <1>26 DEF RenameRegisters, WalkOver, CallerInv
  <2>2. QED
    BY <2>1, OneHand
<1>27. ASSUME NEW k \in Sinks, FinalizeReturns(k) PROVE HeldInv'
  <2>1. op[k] # "idle" /\ cur' = [cur EXCEPT ![k] = NULL]
    BY <1>27 DEF FinalizeReturns, Finish, ForgetCall
  <2>2. QED
    BY <2>1, OneHand
<1>28. ASSUME NEW k \in Sinks, KickReturns(k) PROVE HeldInv'
  <2>1. op[k] # "idle" /\ cur' = [cur EXCEPT ![k] = NULL]
    BY <1>28 DEF KickReturns, Finish, ForgetCall
  <2>2. QED
    BY <2>1, OneHand
<1>29. ASSUME NEW p \in Procs, AlreadyListening(p) PROVE HeldInv'
  <2>1. cur' = cur /\ call' = call /\ want' = want /\ op' = op /\ cur[p] # NULL /\ pc[p] \notin {"idle", "walk"}
    BY <1>29 DEF AlreadyListening, CallInv, Locked
  <2>2. ASSUME NEW c \in Srcs, c = cur[p], HeldByListen(p, c), op[p] \in {"set", "start", "name"}, call[p] = "listen"
        PROVE  HeldByListen(p, c)'
    BY <1>29, <2>1, <2>2 DEF AlreadyListening, Goto, HeldByListen, Registered, Points,
        EntryFor, EntryOf, MustLeaveFirst, Leaving
  <2>3. call[p] # "leave"
    BY <1>29 DEF AlreadyListening, CallInv, Leaving
  <2>4. QED
    BY <2>1, <2>2, <2>3, CoreStep
<1>30. ASSUME NEW p \in Procs, ListenLock(p) PROVE HeldInv'
  <2>1. cur' = cur /\ call' = call /\ want' = want /\ op' = op /\ cur[p] # NULL /\ pc[p] \notin {"idle", "walk"}
    BY <1>30 DEF ListenLock, CallInv, Locked
  <2>2. ASSUME NEW c \in Srcs, c = cur[p], HeldByListen(p, c), op[p] \in {"set", "start", "name"}, call[p] = "listen"
        PROVE  HeldByListen(p, c)'
    BY <1>30, <2>1, <2>2 DEF ListenLock, Goto, HeldByListen, Registered, Points, EntryFor,
        EntryOf, MustLeaveFirst, Leaving
  <2>3. call[p] # "leave"
    BY <1>30 DEF ListenLock, CallInv, Leaving
  <2>4. QED
    BY <2>1, <2>2, <2>3, CoreStep
<1>31. ASSUME NEW p \in Procs, LeaveUnknown(p) PROVE HeldInv'
  <2>1. cur' = cur /\ call' = call /\ want' = want /\ op' = op /\ cur[p] # NULL /\ pc[p] \notin {"idle", "walk"}
    BY <1>31 DEF LeaveUnknown, CallInv, Locked
  <2>2. call[p] # "listen"
    BY <1>31 DEF LeaveUnknown, CallInv, Leaving
  <2>3. ASSUME NEW c \in Srcs, c = cur[p], HeldByLeave(p, c), op[p] \notin {"set", "start", "name"}, call[p] = "leave"
        PROVE  HeldByLeave(p, c)'
    BY <1>31, <2>1, <2>3 DEF LeaveUnknown, Goto, HeldByLeave, Registered, Points, EntryFor,
        EntryOf, Leaving, Removing, Returned, LiveInv
  <2>4. QED
    BY <2>1, <2>2, <2>3, CoreStep
<1>32. ASSUME NEW p \in Procs, LeavePending(p) PROVE HeldInv'
  <2>1. cur' = cur /\ call' = call /\ want' = want /\ op' = op /\ cur[p] # NULL /\ pc[p] \notin {"idle", "walk"}
    BY <1>32 DEF LeavePending, CallInv, Locked
  <2>2. call[p] # "listen"
    BY <1>32 DEF LeavePending, CallInv, Leaving
  <2>3. ASSUME NEW c \in Srcs, c = cur[p], HeldByLeave(p, c), op[p] \notin {"set", "start", "name"}, call[p] = "leave"
        PROVE  HeldByLeave(p, c)'
    BY <1>32, <2>1, <2>3, EntryGone DEF LeavePending, Goto, HeldByLeave, Registered, Points,
        EntryFor, EntryOf, Leaving, Removing, Returned, LiveInv
  <2>4. QED
    BY <2>1, <2>2, <2>3, CoreStep
<1>33. ASSUME NEW p \in Procs, LeaveLock(p) PROVE HeldInv'
  <2>1. cur' = cur /\ call' = call /\ want' = want /\ op' = op /\ cur[p] # NULL /\ pc[p] \notin {"idle", "walk"}
    BY <1>33 DEF LeaveLock, CallInv, Locked
  <2>2. call[p] # "listen"
    BY <1>33 DEF LeaveLock, CallInv, Leaving
  <2>3. ASSUME NEW c \in Srcs, c = cur[p], HeldByLeave(p, c), op[p] \notin {"set", "start", "name"}, call[p] = "leave"
        PROVE  HeldByLeave(p, c)'
    BY <1>33, <2>1, <2>3 DEF LeaveLock, Goto, HeldByLeave, Registered, Points, EntryFor,
        EntryOf, Leaving, Removing, Returned, LiveInv
  <2>4. QED
    BY <2>1, <2>2, <2>3, CoreStep
<1>34. ASSUME NEW p \in Procs, LookupMissing(p) PROVE HeldInv'
  <2>1. cur' = cur /\ call' = call /\ want' = want /\ op' = op /\ cur[p] # NULL /\ pc[p] \notin {"idle", "walk"}
    BY <1>34 DEF LookupMissing, CallInv, Locked
  <2>2. ASSUME NEW c \in Srcs, c = cur[p], HeldByListen(p, c), op[p] \in {"set", "start", "name"}, call[p] = "listen"
        PROVE  HeldByListen(p, c)'
    BY <1>34, <2>1, <2>2, MissingNode DEF LookupMissing, Goto, HeldByListen, Registered,
        Points, EntryFor, EntryOf, MustLeaveFirst, Leaving
  <2>3. call[p] # "leave"
    BY <1>34 DEF LookupMissing, CallInv, Leaving
  <2>4. QED
    BY <2>1, <2>2, <2>3, CoreStep
<1>35. ASSUME NEW p \in Procs, LookupFound(p) PROVE HeldInv'
  <2>1. cur' = cur /\ call' = call /\ want' = want /\ op' = op /\ cur[p] # NULL /\ pc[p] \notin {"idle", "walk"}
    BY <1>35 DEF LookupFound, CallInv, Locked
  <2>2. ASSUME NEW c \in Srcs, c = cur[p], HeldByListen(p, c), op[p] \in {"set", "start", "name"}, call[p] = "listen"
        PROVE  HeldByListen(p, c)'
    BY <1>35, <2>1, <2>2 DEF LookupFound, Goto, HeldByListen, Registered, Points, EntryFor,
        EntryOf, MustLeaveFirst, Leaving
  <2>3. call[p] # "leave"
    BY <1>35 DEF LookupFound, CallInv, Leaving
  <2>4. QED
    BY <2>1, <2>2, <2>3, CoreStep
<1>36. ASSUME NEW p \in Procs, Attach(p) PROVE HeldInv'
  <2>1. cur' = cur /\ call' = call /\ want' = want /\ op' = op /\ cur[p] # NULL /\ pc[p] \notin {"idle", "walk"}
    BY <1>36 DEF Attach, CallInv, Locked
  <2>2. pc[p] = "attach" /\ pc'[p] = "done" /\ UNCHANGED <<nodes, srcState, listenTo, listening, node>>
    BY <1>36 DEF Attach, Goto
  <2>3. ASSUME NEW c \in Srcs, c = cur[p], HeldByListen(p, c), op[p] \in {"set", "start", "name"}, call[p] = "listen"
        PROVE  HeldByListen(p, c)'
    <3>1. EntryFor(c)' # NULL /\ EntryFor(c).listen_to' = want[p] /\ node[p] \in Sinks /\ c \in attached'[node[p]]
      BY <1>36, <2>3, AttachedNode DEF EntryFor
    <3>2. node[p] = nodes[want[p]] /\ want[p] # NULL
      BY <2>2, <2>3 DEF HeldByListen
    <3>3. Points(c, want[p])'
      BY <2>1, <2>2, <3>1, <3>2 DEF Points
    <3>4. QED
      BY <2>1, <2>2, <2>3, <3>1, <3>2, <3>3 DEF HeldByListen, Registered
  <2>4. call[p] # "leave"
    BY <1>36 DEF Attach, CallInv, Leaving
  <2>5. QED
    BY <2>1, <2>3, <2>4, CoreStep
<1>37. ASSUME NEW p \in Procs, AttachRefused(p) PROVE HeldInv'
  <2>1. FALSE
    BY <1>37 DEF AttachRefused, CalmInv
  <2>2. QED
    BY <2>1
<1>38. ASSUME NEW p \in Procs, PrivNoNode(p) PROVE HeldInv'
  <2>1. cur' = cur /\ call' = call /\ want' = want /\ op' = op /\ cur[p] # NULL /\ pc[p] \notin {"idle", "walk"}
    BY <1>38 DEF PrivNoNode, CallInv, Locked
  <2>2. /\ pc[p] = "priv_get" /\ pc'[p] = (IF Leaving(p) THEN "failed" ELSE "lookup")
        /\ UNCHANGED <<nodes, attached, nodeName, srcState, listenTo, listening, node>>
        /\ EntryOf(p) # NULL /\ EntryOf(p).listen_to # NULL
    BY <1>38 DEF PrivNoNode, PrivFailed, Goto, CallInv
  <2>3. ASSUME NEW c \in Srcs, c = cur[p], HeldByListen(p, c), op[p] \in {"set", "start", "name"}, call[p] = "listen"
        PROVE  HeldByListen(p, c)'
    BY <2>1, <2>2, <2>3 DEF HeldByListen, Registered, EntryFor, EntryOf, Leaving
  <2>4. ASSUME NEW c \in Srcs, c = cur[p], HeldByLeave(p, c), op[p] \notin {"set", "start", "name"}, call[p] = "leave"
        PROVE  HeldByLeave(p, c)'
    <3>1. EntryFor(c)' # NULL /\ EntryFor(c).listen_to' = NULL
      BY <1>38, <2>4, FailedLeave DEF EntryFor
    <3>2. Removing(p)
      BY <1>38, <2>2, <2>4 DEF PrivNoNode, HeldByLeave, Points, EntryFor, EntryOf
    <3>3. pc'[p] = "failed" /\ Registered(c)'
      BY <2>2, <2>4 DEF Leaving, HeldByLeave, Registered, EntryFor, EntryOf
    <3>4. Removing(p)' /\ listenTo'[c] = nodeName'[p] /\ nodes'[nodeName'[p]] = NULL
      BY <2>1, <2>2, <2>4, <3>2 DEF HeldByLeave, Removing
    <3>5. QED
      BY <3>1, <3>3, <3>4 DEF HeldByLeave
  <2>5. QED
    BY <2>1, <2>3, <2>4, CoreStep
<1>39. ASSUME NEW p \in Procs, PrivGetNode(p) PROVE HeldInv'
  <2>1. cur' = cur /\ call' = call /\ want' = want /\ op' = op /\ cur[p] # NULL /\ pc[p] \notin {"idle", "walk"}
    BY <1>39 DEF PrivGetNode, CallInv, Locked
  <2>2. ASSUME NEW c \in Srcs, c = cur[p], HeldByListen(p, c), op[p] \in {"set", "start", "name"}, call[p] = "listen"
        PROVE  HeldByListen(p, c)'
    BY <1>39, <2>1, <2>2 DEF PrivGetNode, Goto, HeldByListen, Registered, Points, EntryFor,
        EntryOf, MustLeaveFirst, Leaving
  <2>3. ASSUME NEW c \in Srcs, c = cur[p], HeldByLeave(p, c), op[p] \notin {"set", "start", "name"}, call[p] = "leave"
        PROVE  HeldByLeave(p, c)'
    BY <1>39, <2>1, <2>3 DEF PrivGetNode, Goto, HeldByLeave, Registered, Points, EntryFor,
        EntryOf, Leaving, Removing, Returned, LiveInv
  <2>4. QED
    BY <2>1, <2>2, <2>3, CoreStep
<1>40. ASSUME NEW p \in Procs, PrivNotThere(p) PROVE HeldInv'
  <2>1. cur' = cur /\ call' = call /\ want' = want /\ op' = op /\ cur[p] # NULL /\ pc[p] \notin {"idle", "walk"}
    BY <1>40 DEF PrivNotThere, CallInv, Locked
  <2>2. /\ pc[p] = "priv_drop" /\ pc'[p] = (IF Leaving(p) THEN "failed" ELSE "lookup")
        /\ UNCHANGED <<nodes, attached, nodeName, srcState, listenTo, listening, node>>
        /\ EntryOf(p) # NULL /\ EntryOf(p).listen_to # NULL
    BY <1>40 DEF PrivNotThere, PrivFailed, Goto, CallInv
  <2>3. ASSUME NEW c \in Srcs, c = cur[p], HeldByListen(p, c), op[p] \in {"set", "start", "name"}, call[p] = "listen"
        PROVE  HeldByListen(p, c)'
    BY <2>1, <2>2, <2>3 DEF HeldByListen, Registered, EntryFor, EntryOf, Leaving
  <2>4. ASSUME NEW c \in Srcs, c = cur[p], HeldByLeave(p, c), op[p] \notin {"set", "start", "name"}, call[p] = "leave"
        PROVE  HeldByLeave(p, c)'
    <3>1. EntryFor(c)' # NULL /\ EntryFor(c).listen_to' = NULL
      BY <1>40, <2>4, FailedLeave DEF EntryFor
    <3>2. Removing(p)
      BY <1>40, <2>2, <2>4 DEF PrivNotThere, HeldByLeave, Points, EntryFor, EntryOf
    <3>3. pc'[p] = "failed" /\ Registered(c)'
      BY <2>2, <2>4 DEF Leaving, HeldByLeave, Registered, EntryFor, EntryOf
    <3>4. Removing(p)' /\ listenTo'[c] = nodeName'[p] /\ nodes'[nodeName'[p]] = NULL
      BY <2>1, <2>2, <2>4, <3>2 DEF HeldByLeave, Removing
    <3>5. QED
      BY <3>1, <3>3, <3>4 DEF HeldByLeave
  <2>5. QED
    BY <2>1, <2>3, <2>4, CoreStep
<1>41. ASSUME NEW p \in Procs, PrivDropAndListen(p) PROVE HeldInv'
  <2>1. cur' = cur /\ call' = call /\ want' = want /\ op' = op /\ cur[p] # NULL /\ pc[p] \notin {"idle", "walk"}
    BY <1>41 DEF PrivDropAndListen, CallInv, Locked
  <2>2. ASSUME NEW c \in Srcs, c = cur[p], HeldByListen(p, c), op[p] \in {"set", "start", "name"}, call[p] = "listen"
        PROVE  HeldByListen(p, c)'
    BY <1>41, <2>1, <2>2 DEF PrivDropAndListen, Goto, HeldByListen, Registered, Points,
        EntryFor, EntryOf, MustLeaveFirst, Leaving
  <2>3. call[p] # "leave"
    BY <1>41 DEF PrivDropAndListen, CallInv, Leaving
  <2>4. QED
    BY <2>1, <2>2, <2>3, CoreStep
<1>42. ASSUME NEW p \in Procs, PrivDropAndLeave(p) PROVE HeldInv'
  <2>1. cur' = cur /\ call' = call /\ want' = want /\ op' = op /\ cur[p] # NULL /\ pc[p] \notin {"idle", "walk"}
    BY <1>42 DEF PrivDropAndLeave, CallInv, Locked
  <2>2. call[p] # "listen"
    BY <1>42 DEF PrivDropAndLeave, CallInv, Leaving
  <2>3. ASSUME NEW c \in Srcs, c = cur[p], HeldByLeave(p, c), op[p] \notin {"set", "start", "name"}, call[p] = "leave"
        PROVE  HeldByLeave(p, c)'
    BY <1>42, <2>1, <2>3, EntryGone DEF PrivDropAndLeave, Goto, HeldByLeave, Registered,
        Points, EntryFor, EntryOf, Leaving, Removing, Returned, LiveInv
  <2>4. QED
    BY <2>1, <2>2, <2>3, CoreStep
<1>43. ASSUME NEW p \in Procs, UndoListen(p) PROVE HeldInv'
  <2>1. FALSE
    BY <1>43, CallKinds DEF UndoListen, Returned
  <2>2. QED
    BY <2>1
<1>44. ASSUME NEW p \in Procs, Relisten(p) PROVE HeldInv'
  <2>1. FALSE
    BY <1>44, CallKinds DEF Relisten, Returned
  <2>2. QED
    BY <2>1
<1>45. ASSUME NEW k \in Sinks, NEW s \in Srcs, CapsChange(k, s) PROVE HeldInv'
  BY <1>45 DEF CapsChange, vars, HeldInv, Held, HeldByListen, HeldByLeave, Registered,
      Points, EntryFor, Removing, Returned
<1>46. CASE AllFreed
  BY <1>46 DEF AllFreed, vars, HeldInv, Held, HeldByListen, HeldByLeave, Registered, Points,
      EntryFor, Removing, Returned
<1>47. CASE UNCHANGED vars
  BY <1>47 DEF vars, vars, HeldInv, Held, HeldByListen, HeldByLeave, Registered, Points,
      EntryFor, Removing, Returned
<1>48. QED
  BY <1>1, <1>2, <1>3, <1>4, <1>5, <1>6, <1>7, <1>8, <1>9, <1>10, <1>11, <1>12, <1>13,
      <1>14, <1>15, <1>16, <1>17, <1>18, <1>19, <1>20, <1>21, <1>22, <1>23, <1>24, <1>25,
      <1>26, <1>27, <1>28, <1>29, <1>30, <1>31, <1>32, <1>33, <1>34, <1>35, <1>36, <1>37,
      <1>38, <1>39, <1>40, <1>41, <1>42, <1>43, <1>44, <1>45, <1>46, <1>47 DEF Next,
      SrcBegins, SrcReturns, SinkBegins, SinkWalks, CoreLocks, CoreHoldsLock, CoreUnlocked

\* Every action leaves no walk that has seen a key come or go.
LEMMA StaleStep ==
  ASSUME Peaceful, TypeOK, LockInv, LiveInv, CallInv, TableInv, FreshInv, OwnerInv, SoloInv, PlacesInv, [Next]_vars
  PROVE  StaleInv'
<1> USE NullAssumption, KindsAssumption DEF Peaceful, TypeOK, Procs, PlacesInv, StaleInv,
    MayBegin, coreVars, sinkVars, srcVars, callVars, walkVars
<1>1. ASSUME NEW s \in Srcs, NEW n \in NodeNames, PresetListenTo(s, n) PROVE StaleInv'
  BY <1>1 DEF PresetListenTo
<1>2. ASSUME NEW s \in Srcs, NEW n \in NodeNames, SetListenTo(s, n) PROVE StaleInv'
  BY <1>2 DEF SetListenTo, SrcListenNode, Goto
<1>3. ASSUME NEW s \in Srcs, DropListenTo(s) PROVE StaleInv'
  BY <1>3 DEF DropListenTo
<1>4. ASSUME NEW s \in Srcs, UnsetListenTo(s) PROVE StaleInv'
  BY <1>4 DEF UnsetListenTo, CallLeave, Goto
<1>5. ASSUME NEW s \in Srcs, SetBlockSwitch(s) PROVE StaleInv'
  BY <1>5 DEF SetBlockSwitch
<1>6. ASSUME NEW s \in Srcs, StartAlone(s) PROVE StaleInv'
  BY <1>6 DEF StartAlone
<1>7. ASSUME NEW s \in Srcs, Start(s) PROVE StaleInv'
  BY <1>7 DEF Start, SrcListenNode, Goto
<1>8. ASSUME NEW s \in Srcs, StopAlone(s) PROVE StaleInv'
  BY <1>8 DEF StopAlone
<1>9. ASSUME NEW s \in Srcs, Stop(s) PROVE StaleInv'
  BY <1>9 DEF Stop, CallLeave, Goto
<1>10. ASSUME NEW s \in Srcs, FinalizeSrc(s) PROVE StaleInv'
  BY <1>10 DEF FinalizeSrc
<1>11. ASSUME NEW s \in Srcs, SetReturns(s) PROVE StaleInv'
  BY <1>11 DEF SetReturns, Listened, NotListened, Returned, Finish, ForgetCall, Goto
<1>12. ASSUME NEW s \in Srcs, UnsetReturns(s) PROVE StaleInv'
  BY <1>12 DEF UnsetReturns, Left, Returned, Finish, ForgetCall, Goto
<1>13. ASSUME NEW s \in Srcs, StartReturns(s) PROVE StaleInv'
  BY <1>13 DEF StartReturns, Listened, Finish, ForgetCall, Goto
<1>14. ASSUME NEW s \in Srcs, StartFails(s) PROVE StaleInv'
  BY <1>14 DEF StartFails, NotListened, Returned, Finish, ForgetCall, Goto
<1>15. ASSUME NEW s \in Srcs, StopReturns(s) PROVE StaleInv'
  BY <1>15 DEF StopReturns, Left, Returned, Finish, ForgetCall, Goto
<1>16. ASSUME NEW k \in Sinks, NEW n \in NodeNames, CreateSink(k, n) PROVE StaleInv'
  BY <1>16 DEF CreateSink, AddNode, Goto
<1>17. ASSUME NEW k \in Sinks, NEW n \in NodeNames, RenameSink(k, n) PROVE StaleInv'
  BY <1>17 DEF RenameSink, RemoveNode, Goto
<1>18. ASSUME NEW k \in Sinks, FinalizeSink(k) PROVE StaleInv'
  BY <1>18 DEF FinalizeSink, RemoveNode, Goto
<1>19. ASSUME NEW k \in Sinks, Kick(k) PROVE StaleInv'
  BY <1>19 DEF Kick, Goto
<1>20. ASSUME NEW k \in Sinks, NEW l \in ListenerNames, SkipListener(k, l) PROVE StaleInv'
  BY <1>20 DEF SkipListener
<1>21. ASSUME NEW k \in Sinks, NEW l \in ListenerNames, NotifyAdded(k, l) PROVE StaleInv'
  BY <1>21 DEF NotifyAdded, SrcListenNode, Goto
<1>22. ASSUME NEW k \in Sinks, NEW l \in ListenerNames, NotifyRemoved(k, l) PROVE StaleInv'
  BY <1>22 DEF NotifyRemoved, CallLeave, Goto
<1>23. ASSUME NEW k \in Sinks, NEW s \in Srcs, KickNext(k, s) PROVE StaleInv'
  BY <1>23 DEF KickNext, CallLeave, Goto
<1>24. ASSUME NEW k \in Sinks, CallbackReturns(k) PROVE StaleInv'
  BY <1>24 DEF CallbackReturns, Listened, NotListened, Left, Returned, ForgetCall, Goto
<1>25. ASSUME NEW k \in Sinks, NameReturns(k) PROVE StaleInv'
  BY <1>25 DEF NameReturns, WalkOver, Finish, ForgetCall, Goto
<1>26. ASSUME NEW k \in Sinks, RenameRegisters(k) PROVE StaleInv'
  BY <1>26 DEF RenameRegisters, WalkOver, AddNode, Goto
<1>27. ASSUME NEW k \in Sinks, FinalizeReturns(k) PROVE StaleInv'
  BY <1>27 DEF FinalizeReturns, WalkOver, Finish, ForgetCall, Goto
<1>28. ASSUME NEW k \in Sinks, KickReturns(k) PROVE StaleInv'
  BY <1>28 DEF KickReturns, Finish, ForgetCall, Goto
<1>29. ASSUME NEW p \in Procs, AlreadyListening(p) PROVE StaleInv'
  BY <1>29 DEF AlreadyListening, EntryOf, Goto
<1>30. ASSUME NEW p \in Procs, ListenLock(p) PROVE StaleInv'
  BY <1>30 DEF ListenLock, MustLeaveFirst, EntryOf, Goto
<1>31. ASSUME NEW p \in Procs, LeaveUnknown(p) PROVE StaleInv'
  BY <1>31 DEF LeaveUnknown, EntryOf, Goto
<1>32. ASSUME NEW p \in Procs, LeavePending(p) PROVE StaleInv'
  <2>1. cur[p] # NULL /\ op[p] # "idle" /\ Held(p) /\ call[p] = "leave"
    BY <1>32, CallKinds DEF LeavePending, CallInv, LockInv, Locked, HeldInv, Leaving
  <2>2. op[p] \notin WalkOps
    BY <2>1, CallKinds, <1>32 DEF LeavePending, Held, HeldByLeave, EntryFor, EntryOf,
        WalkOps, Removing, LiveInv, CallerInv
  <2>3. \A k \in Sinks : op[k] \notin WalkOps
    BY <2>1, <2>2, OthersIdle DEF WalkOps
  <2>4. QED
    BY <1>32, <2>3 DEF LeavePending, RemoveEntry, KeysChanged
<1>33. ASSUME NEW p \in Procs, LeaveLock(p) PROVE StaleInv'
  BY <1>33 DEF LeaveLock, EntryOf, Goto
<1>34. ASSUME NEW p \in Procs, LookupMissing(p) PROVE StaleInv'
  <2>1. cur[p] # NULL /\ op[p] # "idle" /\ Held(p) /\ call[p] = "listen"
    BY <1>34, CallKinds DEF LookupMissing, CallInv, LockInv, Locked, HeldInv, Leaving
  <2>2. op[p] \in WalkOps => EntryOf(p) # NULL
    BY <2>1, CallKinds, <1>34 DEF LookupMissing, Held, HeldByListen, EntryFor, EntryOf, WalkOps
  <2>3. \A k \in Sinks : op[k] \in WalkOps => k = p
    BY <2>1, OthersIdle DEF WalkOps
  <2>4. QED
    BY <1>34, <2>2, <2>3 DEF LookupMissing, InsertEntry, KeysChanged
<1>35. ASSUME NEW p \in Procs, LookupFound(p) PROVE StaleInv'
  BY <1>35 DEF LookupFound, Goto
<1>36. ASSUME NEW p \in Procs, Attach(p) PROVE StaleInv'
  <2>1. cur[p] # NULL /\ op[p] # "idle" /\ Held(p) /\ call[p] = "listen"
    BY <1>36, CallKinds DEF Attach, CallInv, LockInv, Locked, HeldInv, Leaving
  <2>2. op[p] \in WalkOps => EntryOf(p) # NULL
    BY <2>1, CallKinds, <1>36 DEF Attach, Held, HeldByListen, EntryFor, EntryOf, WalkOps
  <2>3. \A k \in Sinks : op[k] \in WalkOps => k = p
    BY <2>1, OthersIdle DEF WalkOps
  <2>4. QED
    BY <1>36, <2>2, <2>3 DEF Attach, InsertEntry, KeysChanged
<1>37. ASSUME NEW p \in Procs, AttachRefused(p) PROVE StaleInv'
  BY <1>37 DEF AttachRefused, Goto
<1>38. ASSUME NEW p \in Procs, PrivNoNode(p) PROVE StaleInv'
  BY <1>38 DEF PrivNoNode, EntryOf, PrivFailed, Point, Leaving, Goto
<1>39. ASSUME NEW p \in Procs, PrivGetNode(p) PROVE StaleInv'
  BY <1>39 DEF PrivGetNode, EntryOf, Goto
<1>40. ASSUME NEW p \in Procs, PrivNotThere(p) PROVE StaleInv'
  BY <1>40 DEF PrivNotThere, EntryOf, PrivFailed, Point, Leaving, Goto
<1>41. ASSUME NEW p \in Procs, PrivDropAndListen(p) PROVE StaleInv'
  BY <1>41 DEF PrivDropAndListen, EntryOf, Leaving, Goto
<1>42. ASSUME NEW p \in Procs, PrivDropAndLeave(p) PROVE StaleInv'
  <2>1. cur[p] # NULL /\ op[p] # "idle" /\ Held(p) /\ call[p] = "leave"
    BY <1>42, CallKinds DEF PrivDropAndLeave, CallInv, LockInv, Locked, HeldInv, Leaving
  <2>2. op[p] \notin WalkOps
    BY <2>1, CallKinds, <1>42 DEF PrivDropAndLeave, Held, HeldByLeave, EntryFor, EntryOf,
        WalkOps, Removing, LiveInv, CallerInv
  <2>3. \A k \in Sinks : op[k] \notin WalkOps
    BY <2>1, <2>2, OthersIdle DEF WalkOps
  <2>4. QED
    BY <1>42, <2>3 DEF PrivDropAndLeave, RemoveEntry, KeysChanged
<1>43. ASSUME NEW p \in Procs, UndoListen(p) PROVE StaleInv'
  BY <1>43 DEF UndoListen, Goto
<1>44. ASSUME NEW p \in Procs, Relisten(p) PROVE StaleInv'
  BY <1>44 DEF Relisten, Returned, Goto
<1>45. ASSUME NEW k \in Sinks, NEW s \in Srcs, CapsChange(k, s) PROVE StaleInv'
  BY <1>45 DEF CapsChange
<1>46. CASE AllFreed
  BY <1>46 DEF AllFreed, vars
<1>47. CASE UNCHANGED vars
  BY <1>47 DEF vars
<1>48. QED
  BY <1>1, <1>2, <1>3, <1>4, <1>5, <1>6, <1>7, <1>8, <1>9, <1>10, <1>11, <1>12, <1>13,
      <1>14, <1>15, <1>16, <1>17, <1>18, <1>19, <1>20, <1>21, <1>22, <1>23, <1>24, <1>25,
      <1>26, <1>27, <1>28, <1>29, <1>30, <1>31, <1>32, <1>33, <1>34, <1>35, <1>36, <1>37,
      <1>38, <1>39, <1>40, <1>41, <1>42, <1>43, <1>44, <1>45, <1>46, <1>47 DEF Next,
      SrcBegins, SrcReturns, SinkBegins, SinkWalks, CoreLocks, CoreHoldsLock, CoreUnlocked

\* All of it, in every behaviour.
LEMMA PlacesAlways ==
  ASSUME Peaceful
  PROVE  Spec => []PlacesInv
<1>1. Init => PlacesInv
  BY NullAssumption, NameOfAssumption DEF Init, PlacesInv, CalmInv, CallerInv, PlaceInv,
      InPlace, HeldInv, StaleInv, WalkInv, Awaits,
     EntryFor, Procs, WalkOps, Removing
<1>2. ControlInv /\ TableInv /\ FreshInv /\ OwnerInv /\ SoloInv /\ PlacesInv /\ [Next]_vars => PlacesInv'
  <2> SUFFICES ASSUME ControlInv, TableInv, FreshInv, OwnerInv, SoloInv, PlacesInv, [Next]_vars
               PROVE  PlacesInv'
    OBVIOUS
  <2> USE DEF ControlInv
  <2>1. CalmInv' /\ CallerInv'
    BY CalmStep, CallerStep DEF PlacesInv
  <2>2. PlaceInv'
    BY PlaceStep DEF PlaceInv
  <2>3. HeldInv' /\ StaleInv'
    BY HeldStep, StaleStep
  <2>4. WalkInv'
    BY WalkStep DEF WalkInv
  <2>5. QED
    BY <2>1, <2>2, <2>3, <2>4 DEF PlacesInv
<1>3. QED
  BY <1>1, <1>2, TableAlways, FreshAlways, OwnerAlways, SoloAlways, PTL DEF Spec, Peaceful

-----------------------------------------------------------------------------
(* The entry of a started source, and the listeners of a sink that is gone *)

\* Without evictions a started source that has a node to listen to is in the
\* table of listeners.
KeepsEntryInv ==
  \A s \in Srcs :
    srcState[s] = "started" /\ listenTo[s] # NULL /\ op[s] \notin {"unset", "stop"} => EntryFor(s) # NULL

\* A sink that does not live has no listeners.
GoneInv == \A k \in Sinks : sinkState[k] # "live" => attached[k] = {}

\* No sink throws its listeners out.
NoKickInv == \A p \in Procs : op[p] # "kick"

\* Without peers that narrow their caps nothing is thrown out.
LEMMA NoKickStep ==
  ASSUME MayKick = {}, TypeOK, NoKickInv, [Next]_vars
  PROVE  NoKickInv'
<1> USE NullAssumption, KindsAssumption DEF TypeOK, Procs, NoKickInv, coreVars, sinkVars,
    srcVars, callVars, walkVars
<1>1. ASSUME NEW s \in Srcs, NEW n \in NodeNames, PresetListenTo(s, n) PROVE NoKickInv'
  BY <1>1 DEF PresetListenTo
<1>2. ASSUME NEW s \in Srcs, NEW n \in NodeNames, SetListenTo(s, n) PROVE NoKickInv'
  BY <1>2 DEF SetListenTo, SrcListenNode, Goto
<1>3. ASSUME NEW s \in Srcs, DropListenTo(s) PROVE NoKickInv'
  BY <1>3 DEF DropListenTo
<1>4. ASSUME NEW s \in Srcs, UnsetListenTo(s) PROVE NoKickInv'
  BY <1>4 DEF UnsetListenTo, CallLeave, Goto
<1>5. ASSUME NEW s \in Srcs, SetBlockSwitch(s) PROVE NoKickInv'
  BY <1>5 DEF SetBlockSwitch
<1>6. ASSUME NEW s \in Srcs, StartAlone(s) PROVE NoKickInv'
  BY <1>6 DEF StartAlone
<1>7. ASSUME NEW s \in Srcs, Start(s) PROVE NoKickInv'
  BY <1>7 DEF Start, SrcListenNode, Goto
<1>8. ASSUME NEW s \in Srcs, StopAlone(s) PROVE NoKickInv'
  BY <1>8 DEF StopAlone
<1>9. ASSUME NEW s \in Srcs, Stop(s) PROVE NoKickInv'
  BY <1>9 DEF Stop, CallLeave, Goto
<1>10. ASSUME NEW s \in Srcs, FinalizeSrc(s) PROVE NoKickInv'
  BY <1>10 DEF FinalizeSrc
<1>11. ASSUME NEW s \in Srcs, SetReturns(s) PROVE NoKickInv'
  BY <1>11 DEF SetReturns, Listened, NotListened, Returned, Finish, ForgetCall, Goto
<1>12. ASSUME NEW s \in Srcs, UnsetReturns(s) PROVE NoKickInv'
  BY <1>12 DEF UnsetReturns, Left, Returned, Finish, ForgetCall, Goto
<1>13. ASSUME NEW s \in Srcs, StartReturns(s) PROVE NoKickInv'
  BY <1>13 DEF StartReturns, Listened, Finish, ForgetCall, Goto
<1>14. ASSUME NEW s \in Srcs, StartFails(s) PROVE NoKickInv'
  BY <1>14 DEF StartFails, NotListened, Returned, Finish, ForgetCall, Goto
<1>15. ASSUME NEW s \in Srcs, StopReturns(s) PROVE NoKickInv'
  BY <1>15 DEF StopReturns, Left, Returned, Finish, ForgetCall, Goto
<1>16. ASSUME NEW k \in Sinks, NEW n \in NodeNames, CreateSink(k, n) PROVE NoKickInv'
  BY <1>16 DEF CreateSink, AddNode, Goto
<1>17. ASSUME NEW k \in Sinks, NEW n \in NodeNames, RenameSink(k, n) PROVE NoKickInv'
  BY <1>17 DEF RenameSink, RemoveNode, Goto
<1>18. ASSUME NEW k \in Sinks, FinalizeSink(k) PROVE NoKickInv'
  BY <1>18 DEF FinalizeSink, RemoveNode, Goto
<1>19. ASSUME NEW k \in Sinks, Kick(k) PROVE NoKickInv'
  BY <1>19 DEF Kick, Goto
<1>20. ASSUME NEW k \in Sinks, NEW l \in ListenerNames, SkipListener(k, l) PROVE NoKickInv'
  BY <1>20 DEF SkipListener
<1>21. ASSUME NEW k \in Sinks, NEW l \in ListenerNames, NotifyAdded(k, l) PROVE NoKickInv'
  BY <1>21 DEF NotifyAdded, SrcListenNode, Goto
<1>22. ASSUME NEW k \in Sinks, NEW l \in ListenerNames, NotifyRemoved(k, l) PROVE NoKickInv'
  BY <1>22 DEF NotifyRemoved, CallLeave, Goto
<1>23. ASSUME NEW k \in Sinks, NEW s \in Srcs, KickNext(k, s) PROVE NoKickInv'
  BY <1>23 DEF KickNext, CallLeave, Goto
<1>24. ASSUME NEW k \in Sinks, CallbackReturns(k) PROVE NoKickInv'
  BY <1>24 DEF CallbackReturns, Listened, NotListened, Left, Returned, ForgetCall, Goto
<1>25. ASSUME NEW k \in Sinks, NameReturns(k) PROVE NoKickInv'
  BY <1>25 DEF NameReturns, WalkOver, Finish, ForgetCall, Goto
<1>26. ASSUME NEW k \in Sinks, RenameRegisters(k) PROVE NoKickInv'
  BY <1>26 DEF RenameRegisters, WalkOver, AddNode, Goto
<1>27. ASSUME NEW k \in Sinks, FinalizeReturns(k) PROVE NoKickInv'
  BY <1>27 DEF FinalizeReturns, WalkOver, Finish, ForgetCall, Goto
<1>28. ASSUME NEW k \in Sinks, KickReturns(k) PROVE NoKickInv'
  BY <1>28 DEF KickReturns, Finish, ForgetCall, Goto
<1>29. ASSUME NEW p \in Procs, AlreadyListening(p) PROVE NoKickInv'
  BY <1>29 DEF AlreadyListening, EntryOf, Goto
<1>30. ASSUME NEW p \in Procs, ListenLock(p) PROVE NoKickInv'
  BY <1>30 DEF ListenLock, MustLeaveFirst, EntryOf, Goto
<1>31. ASSUME NEW p \in Procs, LeaveUnknown(p) PROVE NoKickInv'
  BY <1>31 DEF LeaveUnknown, EntryOf, Goto
<1>32. ASSUME NEW p \in Procs, LeavePending(p) PROVE NoKickInv'
  BY <1>32 DEF LeavePending, EntryOf, RemoveEntry, KeysChanged, Goto
<1>33. ASSUME NEW p \in Procs, LeaveLock(p) PROVE NoKickInv'
  BY <1>33 DEF LeaveLock, EntryOf, Goto
<1>34. ASSUME NEW p \in Procs, LookupMissing(p) PROVE NoKickInv'
  BY <1>34 DEF LookupMissing, EntryOf, InsertEntry, Point, KeysChanged, Goto
<1>35. ASSUME NEW p \in Procs, LookupFound(p) PROVE NoKickInv'
  BY <1>35 DEF LookupFound, Goto
<1>36. ASSUME NEW p \in Procs, Attach(p) PROVE NoKickInv'
  BY <1>36 DEF Attach, EntryOf, InsertEntry, Point, KeysChanged, Goto
<1>37. ASSUME NEW p \in Procs, AttachRefused(p) PROVE NoKickInv'
  BY <1>37 DEF AttachRefused, Goto
<1>38. ASSUME NEW p \in Procs, PrivNoNode(p) PROVE NoKickInv'
  BY <1>38 DEF PrivNoNode, EntryOf, PrivFailed, Point, Leaving, Goto
<1>39. ASSUME NEW p \in Procs, PrivGetNode(p) PROVE NoKickInv'
  BY <1>39 DEF PrivGetNode, EntryOf, Goto
<1>40. ASSUME NEW p \in Procs, PrivNotThere(p) PROVE NoKickInv'
  BY <1>40 DEF PrivNotThere, EntryOf, PrivFailed, Point, Leaving, Goto
<1>41. ASSUME NEW p \in Procs, PrivDropAndListen(p) PROVE NoKickInv'
  BY <1>41 DEF PrivDropAndListen, EntryOf, Leaving, Goto
<1>42. ASSUME NEW p \in Procs, PrivDropAndLeave(p) PROVE NoKickInv'
  BY <1>42 DEF PrivDropAndLeave, EntryOf, Leaving, RemoveEntry, KeysChanged, Goto
<1>43. ASSUME NEW p \in Procs, UndoListen(p) PROVE NoKickInv'
  BY <1>43 DEF UndoListen, Goto
<1>44. ASSUME NEW p \in Procs, Relisten(p) PROVE NoKickInv'
  BY <1>44 DEF Relisten, Returned, Goto
<1>45. ASSUME NEW k \in Sinks, NEW s \in Srcs, CapsChange(k, s) PROVE NoKickInv'
  BY <1>45 DEF CapsChange
<1>46. CASE AllFreed
  BY <1>46 DEF AllFreed, vars
<1>47. CASE UNCHANGED vars
  BY <1>47 DEF vars
<1>48. QED
  BY <1>1, <1>2, <1>3, <1>4, <1>5, <1>6, <1>7, <1>8, <1>9, <1>10, <1>11, <1>12, <1>13,
      <1>14, <1>15, <1>16, <1>17, <1>18, <1>19, <1>20, <1>21, <1>22, <1>23, <1>24, <1>25,
      <1>26, <1>27, <1>28, <1>29, <1>30, <1>31, <1>32, <1>33, <1>34, <1>35, <1>36, <1>37,
      <1>38, <1>39, <1>40, <1>41, <1>42, <1>43, <1>44, <1>45, <1>46, <1>47 DEF Next,
      SrcBegins, SrcReturns, SinkBegins, SinkWalks, CoreLocks, CoreHoldsLock, CoreUnlocked

\* Every action leaves a started source that has a node to listen to its entry.
LEMMA KeepsEntryStep ==
  ASSUME Peaceful, TypeOK, LockInv, LiveInv, CallInv, TableInv, FreshInv, OwnerInv, SoloInv, PlacesInv, NoKickInv, KeepsEntryInv, [Next]_vars
  PROVE  KeepsEntryInv'
<1> USE NullAssumption, KindsAssumption DEF Peaceful, TypeOK, Procs, PlacesInv,
    KeepsEntryInv, EntryFor, MayBegin, coreVars, sinkVars, srcVars, callVars, walkVars
<1>1. ASSUME NEW s \in Srcs, NEW n \in NodeNames, PresetListenTo(s, n) PROVE KeepsEntryInv'
  BY <1>1 DEF PresetListenTo
<1>2. ASSUME NEW s \in Srcs, NEW n \in NodeNames, SetListenTo(s, n) PROVE KeepsEntryInv'
  BY <1>2 DEF SetListenTo, SrcListenNode, Goto
<1>3. ASSUME NEW s \in Srcs, DropListenTo(s) PROVE KeepsEntryInv'
  BY <1>3 DEF DropListenTo
<1>4. ASSUME NEW s \in Srcs, UnsetListenTo(s) PROVE KeepsEntryInv'
  BY <1>4 DEF UnsetListenTo, CallLeave, Goto
<1>5. ASSUME NEW s \in Srcs, SetBlockSwitch(s) PROVE KeepsEntryInv'
  BY <1>5 DEF SetBlockSwitch
<1>6. ASSUME NEW s \in Srcs, StartAlone(s) PROVE KeepsEntryInv'
  BY <1>6 DEF StartAlone
<1>7. ASSUME NEW s \in Srcs, Start(s) PROVE KeepsEntryInv'
  BY <1>7 DEF Start, SrcListenNode, Goto
<1>8. ASSUME NEW s \in Srcs, StopAlone(s) PROVE KeepsEntryInv'
  BY <1>8 DEF StopAlone
<1>9. ASSUME NEW s \in Srcs, Stop(s) PROVE KeepsEntryInv'
  BY <1>9 DEF Stop, CallLeave, Goto
<1>10. ASSUME NEW s \in Srcs, FinalizeSrc(s) PROVE KeepsEntryInv'
  BY <1>10 DEF FinalizeSrc
<1>11. ASSUME NEW s \in Srcs, SetReturns(s) PROVE KeepsEntryInv'
  <2>1. cur[s] = s /\ s # NULL /\ pc[s] = "done" /\ call[s] = "listen" /\ Held(s)
    BY <1>11 DEF SetReturns, Listened, NotListened, Returned, SoloInv, CallerInv, HeldInv
  <2>2. EntryFor(s) # NULL
    BY <2>1 DEF Held, HeldByListen
  <2>3. QED
    BY <1>11, <2>2 DEF SetReturns, Finish, EntryFor
<1>12. ASSUME NEW s \in Srcs, UnsetReturns(s) PROVE KeepsEntryInv'
  BY <1>12 DEF UnsetReturns, Left, Returned, Finish, ForgetCall, Goto, EntryFor
<1>13. ASSUME NEW s \in Srcs, StartReturns(s) PROVE KeepsEntryInv'
  <2>1. cur[s] = s /\ s # NULL /\ pc[s] = "done" /\ call[s] = "listen" /\ Held(s)
    BY <1>13 DEF StartReturns, Listened, NotListened, Returned, SoloInv, CallerInv, HeldInv
  <2>2. EntryFor(s) # NULL
    BY <2>1 DEF Held, HeldByListen
  <2>3. QED
    BY <1>13, <2>2 DEF StartReturns, Finish, EntryFor
<1>14. ASSUME NEW s \in Srcs, StartFails(s) PROVE KeepsEntryInv'
  <2>1. FALSE
    BY <1>14 DEF StartFails, NotListened, Returned, CallerInv
  <2>2. QED
    BY <2>1
<1>15. ASSUME NEW s \in Srcs, StopReturns(s) PROVE KeepsEntryInv'
  BY <1>15 DEF StopReturns, Left, Returned, Finish, ForgetCall, Goto, EntryFor
<1>16. ASSUME NEW k \in Sinks, NEW n \in NodeNames, CreateSink(k, n) PROVE KeepsEntryInv'
  BY <1>16 DEF CreateSink, AddNode, Goto
<1>17. ASSUME NEW k \in Sinks, NEW n \in NodeNames, RenameSink(k, n) PROVE KeepsEntryInv'
  BY <1>17 DEF RenameSink, RemoveNode, Goto
<1>18. ASSUME NEW k \in Sinks, FinalizeSink(k) PROVE KeepsEntryInv'
  BY <1>18 DEF FinalizeSink, RemoveNode, Goto
<1>19. ASSUME NEW k \in Sinks, Kick(k) PROVE KeepsEntryInv'
  BY <1>19 DEF Kick, Goto
<1>20. ASSUME NEW k \in Sinks, NEW l \in ListenerNames, SkipListener(k, l) PROVE KeepsEntryInv'
  BY <1>20 DEF SkipListener
<1>21. ASSUME NEW k \in Sinks, NEW l \in ListenerNames, NotifyAdded(k, l) PROVE KeepsEntryInv'
  BY <1>21 DEF NotifyAdded, SrcListenNode, Goto
<1>22. ASSUME NEW k \in Sinks, NEW l \in ListenerNames, NotifyRemoved(k, l) PROVE KeepsEntryInv'
  BY <1>22 DEF NotifyRemoved, CallLeave, Goto
<1>23. ASSUME NEW k \in Sinks, NEW s \in Srcs, KickNext(k, s) PROVE KeepsEntryInv'
  BY <1>23 DEF KickNext, CallLeave, Goto
<1>24. ASSUME NEW k \in Sinks, CallbackReturns(k) PROVE KeepsEntryInv'
  BY <1>24 DEF CallbackReturns, Listened, NotListened, Left, Returned, ForgetCall, Goto
<1>25. ASSUME NEW k \in Sinks, NameReturns(k) PROVE KeepsEntryInv'
  BY <1>25 DEF NameReturns, WalkOver, Finish, ForgetCall, Goto
<1>26. ASSUME NEW k \in Sinks, RenameRegisters(k) PROVE KeepsEntryInv'
  BY <1>26 DEF RenameRegisters, WalkOver, AddNode, Goto
<1>27. ASSUME NEW k \in Sinks, FinalizeReturns(k) PROVE KeepsEntryInv'
  BY <1>27 DEF FinalizeReturns, WalkOver, Finish, ForgetCall, Goto
<1>28. ASSUME NEW k \in Sinks, KickReturns(k) PROVE KeepsEntryInv'
  BY <1>28 DEF KickReturns, Finish, ForgetCall, Goto
<1>29. ASSUME NEW p \in Procs, AlreadyListening(p) PROVE KeepsEntryInv'
  BY <1>29 DEF AlreadyListening, EntryOf, Goto
<1>30. ASSUME NEW p \in Procs, ListenLock(p) PROVE KeepsEntryInv'
  BY <1>30 DEF ListenLock, MustLeaveFirst, EntryOf, Goto
<1>31. ASSUME NEW p \in Procs, LeaveUnknown(p) PROVE KeepsEntryInv'
  BY <1>31 DEF LeaveUnknown, EntryOf, Goto
<1>32. ASSUME NEW p \in Procs, LeavePending(p) PROVE KeepsEntryInv'
  <2>1. cur[p] # NULL /\ op[p] # "idle" /\ Held(p) /\ call[p] = "leave"
    BY <1>32, CallKinds DEF LeavePending, CallInv, LockInv, Locked, HeldInv, Leaving
  <2>2. ~Removing(p)
    BY <2>1, <1>32 DEF LeavePending, Held, HeldByLeave, EntryFor, EntryOf, Removing,
        LiveInv, CallerInv
  <2>3. op[p] # "kick"
    BY DEF NoKickInv
  <2>4. p \in Srcs /\ cur[p] = p /\ op[p] \in {"unset", "stop"}
    BY <2>1, <2>2, <2>3, CallKinds, <1>32 DEF LeavePending, Removing, CallerInv, SoloInv
  <2>5. \A s \in Srcs : s # p => listeners'[NameOf[s]] = listeners[NameOf[s]]
    <3>1. \A s \in Srcs : NameOf[s] # NameOf[cur[p]] => listeners'[NameOf[s]] = listeners[NameOf[s]]
      BY <1>32, EntryGone
    <3>2. QED
      BY <2>4, <3>1 DEF DistinctNames
  <2>6. QED
    BY <1>32, <2>4, <2>5 DEF LeavePending, EntryFor
<1>33. ASSUME NEW p \in Procs, LeaveLock(p) PROVE KeepsEntryInv'
  BY <1>33 DEF LeaveLock, EntryOf, Goto
<1>34. ASSUME NEW p \in Procs, LookupMissing(p) PROVE KeepsEntryInv'
  <2>1. listeners'[NameOf[cur[p]]] # NULL /\ \A s \in Srcs : NameOf[s] # NameOf[cur[p]] => listeners'[NameOf[s]] = listeners[NameOf[s]]
    BY <1>34, MissingNode
  <2>2. QED
    BY <1>34, <2>1 DEF LookupMissing, EntryFor
<1>35. ASSUME NEW p \in Procs, LookupFound(p) PROVE KeepsEntryInv'
  BY <1>35 DEF LookupFound, Goto
<1>36. ASSUME NEW p \in Procs, Attach(p) PROVE KeepsEntryInv'
  <2>1. listeners'[NameOf[cur[p]]] # NULL /\ \A s \in Srcs : NameOf[s] # NameOf[cur[p]] => listeners'[NameOf[s]] = listeners[NameOf[s]]
    BY <1>36, AttachedNode
  <2>2. QED
    BY <1>36, <2>1 DEF Attach, EntryFor
<1>37. ASSUME NEW p \in Procs, AttachRefused(p) PROVE KeepsEntryInv'
  BY <1>37 DEF AttachRefused, Goto
<1>38. ASSUME NEW p \in Procs, PrivNoNode(p) PROVE KeepsEntryInv'
  <2>1. listeners'[NameOf[cur[p]]] # NULL /\ \A s \in Srcs : NameOf[s] # NameOf[cur[p]] => listeners'[NameOf[s]] = listeners[NameOf[s]]
    BY <1>38, FailedLeave
  <2>2. QED
    BY <1>38, <2>1 DEF PrivNoNode, EntryFor
<1>39. ASSUME NEW p \in Procs, PrivGetNode(p) PROVE KeepsEntryInv'
  BY <1>39 DEF PrivGetNode, EntryOf, Goto
<1>40. ASSUME NEW p \in Procs, PrivNotThere(p) PROVE KeepsEntryInv'
  <2>1. listeners'[NameOf[cur[p]]] # NULL /\ \A s \in Srcs : NameOf[s] # NameOf[cur[p]] => listeners'[NameOf[s]] = listeners[NameOf[s]]
    BY <1>40, FailedLeave
  <2>2. QED
    BY <1>40, <2>1 DEF PrivNotThere, EntryFor
<1>41. ASSUME NEW p \in Procs, PrivDropAndListen(p) PROVE KeepsEntryInv'
  BY <1>41 DEF PrivDropAndListen, EntryOf, Leaving, Goto
<1>42. ASSUME NEW p \in Procs, PrivDropAndLeave(p) PROVE KeepsEntryInv'
  <2>1. cur[p] # NULL /\ op[p] # "idle" /\ Held(p) /\ call[p] = "leave"
    BY <1>42, CallKinds DEF PrivDropAndLeave, CallInv, LockInv, Locked, HeldInv, Leaving
  <2>2. ~Removing(p)
    BY <2>1, <1>42 DEF PrivDropAndLeave, Held, HeldByLeave, EntryFor, EntryOf, Removing,
        LiveInv, CallerInv
  <2>3. op[p] # "kick"
    BY DEF NoKickInv
  <2>4. p \in Srcs /\ cur[p] = p /\ op[p] \in {"unset", "stop"}
    BY <2>1, <2>2, <2>3, CallKinds, <1>42 DEF PrivDropAndLeave, Removing, CallerInv, SoloInv
  <2>5. \A s \in Srcs : s # p => listeners'[NameOf[s]] = listeners[NameOf[s]]
    <3>1. \A s \in Srcs : NameOf[s] # NameOf[cur[p]] => listeners'[NameOf[s]] = listeners[NameOf[s]]
      BY <1>42, EntryGone
    <3>2. QED
      BY <2>4, <3>1 DEF DistinctNames
  <2>6. QED
    BY <1>42, <2>4, <2>5 DEF PrivDropAndLeave, EntryFor
<1>43. ASSUME NEW p \in Procs, UndoListen(p) PROVE KeepsEntryInv'
  BY <1>43 DEF UndoListen, Goto
<1>44. ASSUME NEW p \in Procs, Relisten(p) PROVE KeepsEntryInv'
  BY <1>44 DEF Relisten, Returned, Goto
<1>45. ASSUME NEW k \in Sinks, NEW s \in Srcs, CapsChange(k, s) PROVE KeepsEntryInv'
  BY <1>45 DEF CapsChange
<1>46. CASE AllFreed
  BY <1>46 DEF AllFreed, vars
<1>47. CASE UNCHANGED vars
  BY <1>47 DEF vars
<1>48. QED
  BY <1>1, <1>2, <1>3, <1>4, <1>5, <1>6, <1>7, <1>8, <1>9, <1>10, <1>11, <1>12, <1>13,
      <1>14, <1>15, <1>16, <1>17, <1>18, <1>19, <1>20, <1>21, <1>22, <1>23, <1>24, <1>25,
      <1>26, <1>27, <1>28, <1>29, <1>30, <1>31, <1>32, <1>33, <1>34, <1>35, <1>36, <1>37,
      <1>38, <1>39, <1>40, <1>41, <1>42, <1>43, <1>44, <1>45, <1>46, <1>47 DEF Next,
      SrcBegins, SrcReturns, SinkBegins, SinkWalks, CoreLocks, CoreHoldsLock, CoreUnlocked

\* Every action leaves the sinks that do not live without listeners.
LEMMA GoneStep ==
  ASSUME TypeOK, LiveInv, CallInv, TableInv, NodeAlive, GoneInv, [Next]_vars
  PROVE  GoneInv'
<1> USE NullAssumption, KindsAssumption DEF TypeOK, Procs, LiveInv, CallInv, NodeAlive,
    GoneInv, MayBegin, Locked, coreVars, sinkVars, srcVars, callVars, walkVars
<1>1. ASSUME NEW s \in Srcs, NEW n \in NodeNames, PresetListenTo(s, n) PROVE GoneInv'
  BY <1>1 DEF PresetListenTo
<1>2. ASSUME NEW s \in Srcs, NEW n \in NodeNames, SetListenTo(s, n) PROVE GoneInv'
  BY <1>2 DEF SetListenTo, SrcListenNode, Goto
<1>3. ASSUME NEW s \in Srcs, DropListenTo(s) PROVE GoneInv'
  BY <1>3 DEF DropListenTo
<1>4. ASSUME NEW s \in Srcs, UnsetListenTo(s) PROVE GoneInv'
  BY <1>4 DEF UnsetListenTo, CallLeave, Goto
<1>5. ASSUME NEW s \in Srcs, SetBlockSwitch(s) PROVE GoneInv'
  BY <1>5 DEF SetBlockSwitch
<1>6. ASSUME NEW s \in Srcs, StartAlone(s) PROVE GoneInv'
  BY <1>6 DEF StartAlone
<1>7. ASSUME NEW s \in Srcs, Start(s) PROVE GoneInv'
  BY <1>7 DEF Start, SrcListenNode, Goto
<1>8. ASSUME NEW s \in Srcs, StopAlone(s) PROVE GoneInv'
  BY <1>8 DEF StopAlone
<1>9. ASSUME NEW s \in Srcs, Stop(s) PROVE GoneInv'
  BY <1>9 DEF Stop, CallLeave, Goto
<1>10. ASSUME NEW s \in Srcs, FinalizeSrc(s) PROVE GoneInv'
  BY <1>10 DEF FinalizeSrc
<1>11. ASSUME NEW s \in Srcs, SetReturns(s) PROVE GoneInv'
  BY <1>11 DEF SetReturns, Listened, NotListened, Returned, Finish, ForgetCall, Goto
<1>12. ASSUME NEW s \in Srcs, UnsetReturns(s) PROVE GoneInv'
  BY <1>12 DEF UnsetReturns, Left, Returned, Finish, ForgetCall, Goto
<1>13. ASSUME NEW s \in Srcs, StartReturns(s) PROVE GoneInv'
  BY <1>13 DEF StartReturns, Listened, Finish, ForgetCall, Goto
<1>14. ASSUME NEW s \in Srcs, StartFails(s) PROVE GoneInv'
  BY <1>14 DEF StartFails, NotListened, Returned, Finish, ForgetCall, Goto
<1>15. ASSUME NEW s \in Srcs, StopReturns(s) PROVE GoneInv'
  BY <1>15 DEF StopReturns, Left, Returned, Finish, ForgetCall, Goto
<1>16. ASSUME NEW k \in Sinks, NEW n \in NodeNames, CreateSink(k, n) PROVE GoneInv'
  BY <1>16 DEF CreateSink, AddNode, Goto
<1>17. ASSUME NEW k \in Sinks, NEW n \in NodeNames, RenameSink(k, n) PROVE GoneInv'
  BY <1>17 DEF RenameSink, RemoveNode, Goto
<1>18. ASSUME NEW k \in Sinks, FinalizeSink(k) PROVE GoneInv'
  BY <1>18 DEF FinalizeSink, RemoveNode, Goto
<1>19. ASSUME NEW k \in Sinks, Kick(k) PROVE GoneInv'
  BY <1>19 DEF Kick, Goto
<1>20. ASSUME NEW k \in Sinks, NEW l \in ListenerNames, SkipListener(k, l) PROVE GoneInv'
  BY <1>20 DEF SkipListener
<1>21. ASSUME NEW k \in Sinks, NEW l \in ListenerNames, NotifyAdded(k, l) PROVE GoneInv'
  BY <1>21 DEF NotifyAdded, SrcListenNode, Goto
<1>22. ASSUME NEW k \in Sinks, NEW l \in ListenerNames, NotifyRemoved(k, l) PROVE GoneInv'
  BY <1>22 DEF NotifyRemoved, CallLeave, Goto
<1>23. ASSUME NEW k \in Sinks, NEW s \in Srcs, KickNext(k, s) PROVE GoneInv'
  BY <1>23 DEF KickNext, CallLeave, Goto
<1>24. ASSUME NEW k \in Sinks, CallbackReturns(k) PROVE GoneInv'
  BY <1>24 DEF CallbackReturns, Listened, NotListened, Left, Returned, ForgetCall, Goto
<1>25. ASSUME NEW k \in Sinks, NameReturns(k) PROVE GoneInv'
  BY <1>25 DEF NameReturns, WalkOver, Finish, ForgetCall, Goto
<1>26. ASSUME NEW k \in Sinks, RenameRegisters(k) PROVE GoneInv'
  BY <1>26 DEF RenameRegisters, WalkOver, AddNode, Goto
<1>27. ASSUME NEW k \in Sinks, FinalizeReturns(k) PROVE GoneInv'
  BY <1>27 DEF FinalizeReturns, WalkOver, Finish, ForgetCall, Goto
<1>28. ASSUME NEW k \in Sinks, KickReturns(k) PROVE GoneInv'
  BY <1>28 DEF KickReturns, Finish, ForgetCall, Goto
<1>29. ASSUME NEW p \in Procs, AlreadyListening(p) PROVE GoneInv'
  BY <1>29 DEF AlreadyListening, EntryOf, Goto
<1>30. ASSUME NEW p \in Procs, ListenLock(p) PROVE GoneInv'
  BY <1>30 DEF ListenLock, MustLeaveFirst, EntryOf, Goto
<1>31. ASSUME NEW p \in Procs, LeaveUnknown(p) PROVE GoneInv'
  BY <1>31 DEF LeaveUnknown, EntryOf, Goto
<1>32. ASSUME NEW p \in Procs, LeavePending(p) PROVE GoneInv'
  BY <1>32 DEF LeavePending, EntryOf, RemoveEntry, KeysChanged, Goto
<1>33. ASSUME NEW p \in Procs, LeaveLock(p) PROVE GoneInv'
  BY <1>33 DEF LeaveLock, EntryOf, Goto
<1>34. ASSUME NEW p \in Procs, LookupMissing(p) PROVE GoneInv'
  BY <1>34 DEF LookupMissing, EntryOf, InsertEntry, Point, KeysChanged, Goto
<1>35. ASSUME NEW p \in Procs, LookupFound(p) PROVE GoneInv'
  BY <1>35 DEF LookupFound, Goto
<1>36. ASSUME NEW p \in Procs, Attach(p) PROVE GoneInv'
  BY <1>36 DEF Attach, EntryOf, InsertEntry, Point, KeysChanged, Goto
<1>37. ASSUME NEW p \in Procs, AttachRefused(p) PROVE GoneInv'
  BY <1>37 DEF AttachRefused, Goto
<1>38. ASSUME NEW p \in Procs, PrivNoNode(p) PROVE GoneInv'
  BY <1>38 DEF PrivNoNode, EntryOf, PrivFailed, Point, Leaving, Goto
<1>39. ASSUME NEW p \in Procs, PrivGetNode(p) PROVE GoneInv'
  BY <1>39 DEF PrivGetNode, EntryOf, Goto
<1>40. ASSUME NEW p \in Procs, PrivNotThere(p) PROVE GoneInv'
  BY <1>40 DEF PrivNotThere, EntryOf, PrivFailed, Point, Leaving, Goto
<1>41. ASSUME NEW p \in Procs, PrivDropAndListen(p) PROVE GoneInv'
  BY <1>41 DEF PrivDropAndListen, EntryOf, Leaving, Goto
<1>42. ASSUME NEW p \in Procs, PrivDropAndLeave(p) PROVE GoneInv'
  BY <1>42 DEF PrivDropAndLeave, EntryOf, Leaving, RemoveEntry, KeysChanged, Goto
<1>43. ASSUME NEW p \in Procs, UndoListen(p) PROVE GoneInv'
  BY <1>43 DEF UndoListen, Goto
<1>44. ASSUME NEW p \in Procs, Relisten(p) PROVE GoneInv'
  BY <1>44 DEF Relisten, Returned, Goto
<1>45. ASSUME NEW k \in Sinks, NEW s \in Srcs, CapsChange(k, s) PROVE GoneInv'
  BY <1>45 DEF CapsChange
<1>46. CASE AllFreed
  BY <1>46 DEF AllFreed, vars
<1>47. CASE UNCHANGED vars
  BY <1>47 DEF vars
<1>48. QED
  BY <1>1, <1>2, <1>3, <1>4, <1>5, <1>6, <1>7, <1>8, <1>9, <1>10, <1>11, <1>12, <1>13,
      <1>14, <1>15, <1>16, <1>17, <1>18, <1>19, <1>20, <1>21, <1>22, <1>23, <1>24, <1>25,
      <1>26, <1>27, <1>28, <1>29, <1>30, <1>31, <1>32, <1>33, <1>34, <1>35, <1>36, <1>37,
      <1>38, <1>39, <1>40, <1>41, <1>42, <1>43, <1>44, <1>45, <1>46, <1>47 DEF Next,
      SrcBegins, SrcReturns, SinkBegins, SinkWalks, CoreLocks, CoreHoldsLock, CoreUnlocked

\* With one thread, no sink that is gone has listeners.
LEMMA GoneAlways ==
  ASSUME MaxBusy = 1
  PROVE  Spec => []GoneInv
<1>1. Init => GoneInv
  BY DEF Init, GoneInv
<1>2. ControlInv /\ TableInv /\ NodeAlive /\ GoneInv /\ [Next]_vars => GoneInv'
  BY GoneStep DEF ControlInv
<1>3. QED
  BY <1>1, <1>2, TableAlways, HandsAlive, PTL DEF Spec

\* Without evictions started sources keep their entries, in every behaviour.
LEMMA KeepsEntryAlways ==
  ASSUME Peaceful, MayKick = {}
  PROVE  Spec => []KeepsEntryInv
<1>1. Init => KeepsEntryInv /\ NoKickInv
  BY DEF Init, KeepsEntryInv, NoKickInv, Procs
<1>2. ControlInv /\ NoKickInv /\ [Next]_vars => NoKickInv'
  BY NoKickStep DEF ControlInv
<1>3. ControlInv /\ TableInv /\ FreshInv /\ OwnerInv /\ SoloInv /\ PlacesInv /\ NoKickInv /\ KeepsEntryInv /\ [Next]_vars
        => KeepsEntryInv'
  BY KeepsEntryStep DEF ControlInv
<1>4. QED
  BY <1>1, <1>2, <1>3, TableAlways, FreshAlways, OwnerAlways, SoloAlways, PlacesAlways, PTL
      DEF Spec, Peaceful

-----------------------------------------------------------------------------
(* The theorems *)

\* The names in order and nothing refused: what the properties of quiet states
\* rest on.
Orderly == Peaceful /\ ~Renames

\* Orderly is more than OrderlyNames.
LEMMA OrderlyIs == ASSUME Orderly PROVE OrderlyNames
  BY DEF Orderly, Peaceful, OrderlyNames, DistinctNames

\* No started source whose entry waits for a node (gst_inter_pipe_listen_node
\* found none) is passed over by the walk of gst_inter_pipe_add_node, also when
\* sinks are renamed and listeners thrown out.
THEOREM PendingHearsAlways ==
  ASSUME Peaceful
  PROVE  Spec => []PendingHears
<1>1. TypeOK /\ OwnerInv /\ SoloInv /\ PlacesInv => PendingHears
  <2> SUFFICES ASSUME TypeOK, OwnerInv, SoloInv, PlacesInv, Quiet,
                      NEW l \in ListenerNames, listeners[l] # NULL, listeners[l].listen_to = NULL
               PROVE  LET s == listeners[l].listener
                          n == listenTo[s] IN
                      ~(srcState[s] = "started" /\ n # NULL /\ nodes[n] # NULL)
    BY DEF PendingHears
  <2>1. PICK s \in Srcs : s = listeners[l].listener /\ NameOf[s] = l
    BY DEF TypeOK, Entry, OwnerInv
  <2>2. Points(s, listenTo[s])
    BY <2>1, QuietPlaces DEF PlacesInv, EntryFor
  <2>3. QED
    BY <2>1, <2>2 DEF Points, EntryFor
<1>2. QED
  BY <1>1, ControlAlways, OwnerAlways, SoloAlways, PlacesAlways, PTL DEF Peaceful, ControlInv

\* What Connected says, from the entry of the source.
LEMMA EntryConnects == SoloInv /\ PlacesInv /\ KeepsEntryInv => Connected
<1> SUFFICES ASSUME SoloInv, PlacesInv, KeepsEntryInv, Quiet, NEW s \in Srcs, NEW k \in Sinks,
                    srcState[s] = "started", listenTo[s] # NULL, nodes[listenTo[s]] = k
             PROVE  s \in attached[k]
  BY DEF Connected
<1>1. EntryFor(s) # NULL
  BY DEF KeepsEntryInv, Quiet, Procs
<1>2. Points(s, listenTo[s]) /\ k # NULL
  BY <1>1, QuietPlaces, NullAssumption DEF PlacesInv
<1>3. QED
  BY <1>2 DEF Points

\* Whichever comes first, node or listener (gst_inter_pipe_add_node or
\* gst_inter_pipe_listen_node), and whatever is renamed, a started source is
\* attached to the node of its listen-to when that node is there.
THEOREM ConnectedAlways ==
  ASSUME Peaceful, MayKick = {}
  PROVE  Spec => []Connected
  BY EntryConnects, SoloAlways, PlacesAlways, KeepsEntryAlways, PTL DEF Peaceful

\* What the properties of quiet states rest on.
QuietInv == FeedInv /\ OwnerInv /\ SoloInv /\ PlacesInv /\ GoneInv

\* They hold in every behaviour.
LEMMA QuietInvAlways ==
  ASSUME Orderly
  PROVE  Spec => []QuietInv
<1>1. Peaceful /\ OrderlyNames /\ MaxBusy = 1
  BY OrderlyIs DEF Orderly, Peaceful
<1>2. QED
  BY <1>1, FeedAlways, OwnerAlways, SoloAlways, PlacesAlways, GoneAlways, PTL DEF QuietInv

\* Who is attached to a sink: its entry, its property and the table of nodes
\* all name that sink.
LEMMA AttachedPlace ==
  ASSUME QuietInv, Quiet, NEW k \in Sinks, NEW s \in attached[k]
  PROVE  /\ s \in Srcs /\ Live(k) /\ Registered(s)
         /\ EntryFor(s) # NULL /\ EntryFor(s).listen_to = nodeName[k] /\ nodeName[k] # NULL
         /\ listenTo[s] = nodeName[k] /\ nodes[nodeName[k]] = k
<1>1. s \in Srcs /\ Live(k)
  BY DEF QuietInv, FeedInv, TypeOK, GoneInv, Live, Quiet, Procs
<1>2. EntryFor(s) # NULL /\ EntryFor(s).listen_to = nodeName[k] /\ nodeName[k] # NULL /\ nodes[nodeName[k]] = k
  BY <1>1 DEF QuietInv, FeedInv, EntryInv, NodesInv, EntryFor
<1>3. Registered(s) /\ Points(s, listenTo[s])
  BY <1>1, <1>2, QuietPlaces DEF QuietInv, PlacesInv
<1>4. QED
  BY <1>1, <1>2, <1>3 DEF Points

\* The sink that feeds a source is the one its listen-to names.
THEOREM FedByNameAlways ==
  ASSUME Orderly
  PROVE  Spec => []FedByName
<1>1. QuietInv => FedByName
  BY AttachedPlace DEF FedByName
<1>2. QED
  BY <1>1, QuietInvAlways, PTL

\* A source that is not listening is in neither table: its stop and its
\* listen-to := NULL (gst_inter_pipe_leave_node) leave nothing behind, although
\* what leave_node returns is not looked at.
THEOREM DetachedUnlessListeningAlways ==
  ASSUME Orderly
  PROVE  Spec => []DetachedUnlessListening
<1>1. QuietInv => DetachedUnlessListening
  <2> SUFFICES ASSUME QuietInv, Quiet, NEW s \in Srcs, ~listening[s]
               PROVE  /\ \A k \in Sinks : s \notin attached[k]
                      /\ \A l \in ListenerNames : listeners[l] # NULL => listeners[l].listener # s
    BY DEF DetachedUnlessListening
  <2>1. \A k \in Sinks : s \notin attached[k]
    BY AttachedPlace DEF Registered
  <2>2. EntryFor(s) = NULL
    BY QuietPlaces DEF QuietInv, PlacesInv, Registered
  <2>3. QED
    BY <2>1, <2>2 DEF QuietInv, OwnerInv, EntryFor
<1>2. QED
  BY <1>1, QuietInvAlways, PTL

\* The entries of the core and the listeners of the sinks tell the same.
THEOREM TablesAgreeAlways ==
  ASSUME Orderly
  PROVE  Spec => []TablesAgree
<1>1. QuietInv => TablesAgree
  <2> SUFFICES ASSUME QuietInv, Quiet, NEW k \in Sinks, NEW s \in Srcs, Live(k)
               PROVE  s \in attached[k] <=>
                        EntryFor(s) # NULL /\ EntryFor(s).listen_to # NULL /\ nodes[EntryFor(s).listen_to] = k
    BY DEF TablesAgree, EntryFor
  <2>1. s \in attached[k] => EntryFor(s) # NULL /\ EntryFor(s).listen_to # NULL /\ nodes[EntryFor(s).listen_to] = k
    BY AttachedPlace
  <2>2. ASSUME EntryFor(s) # NULL, EntryFor(s).listen_to # NULL, nodes[EntryFor(s).listen_to] = k
        PROVE  s \in attached[k]
    BY <2>2, QuietPlaces DEF QuietInv, PlacesInv, Points
  <2>3. QED
    BY <2>1, <2>2
<1>2. QED
  BY <1>1, QuietInvAlways, PTL

\* gst_inter_pipe_src_event asks the table of nodes, and
\* gst_inter_pipe_sink_receive_event only counts listeners: together they let an
\* event of a started source through exactly when it is the one listener.
THEOREM UpstreamFromListenerAlways ==
  ASSUME Orderly, MayKick = {}, IsFiniteSet(Srcs)
  PROVE  Spec => []UpstreamFromListener
<1>1. QuietInv /\ KeepsEntryInv => UpstreamFromListener
  <2> SUFFICES ASSUME QuietInv, KeepsEntryInv, Quiet, NEW s \in Srcs, NEW k \in Sinks, srcState[s] = "started"
               PROVE  UpstreamNode(s) = k /\ Receives(k) <=> Live(k) /\ attached[k] = {s}
    BY DEF UpstreamFromListener
  <2>1. ASSUME UpstreamNode(s) = k, Receives(k) PROVE Live(k) /\ attached[k] = {s}
    <3>1. k # NULL
      BY NullAssumption
    <3>2. listenTo[s] # NULL /\ nodes[listenTo[s]] = k
      BY <2>1, <3>1 DEF UpstreamNode
    <3>3. s \in attached[k]
      <4>1. EntryFor(s) # NULL
        BY <3>2 DEF KeepsEntryInv, Quiet, Procs
      <4>2. QED
        BY <3>1, <3>2, <4>1, QuietPlaces DEF QuietInv, PlacesInv, Points
    <3>4. IsFiniteSet(attached[k])
      BY FS_Subset DEF QuietInv, FeedInv, TypeOK
    <3>5. \E x : attached[k] = {x}
      BY <2>1, <3>4, FS_Singleton DEF Receives
    <3>6. QED
      BY <3>3, <3>5, AttachedPlace
  <2>2. ASSUME Live(k), attached[k] = {s} PROVE UpstreamNode(s) = k /\ Receives(k)
    <3>1. listenTo[s] = nodeName[k] /\ nodeName[k] # NULL /\ nodes[nodeName[k]] = k
      BY <2>2, AttachedPlace
    <3>2. QED
      BY <2>2, <3>1, FS_Singleton DEF UpstreamNode, Receives
  <2>3. QED
    BY <2>1, <2>2
<1>2. Peaceful
  BY DEF Orderly
<1>3. QED
  BY <1>1, <1>2, QuietInvAlways, KeepsEntryAlways, PTL
=============================================================================
