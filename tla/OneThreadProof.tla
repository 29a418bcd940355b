--------------------------- MODULE OneThreadProof ---------------------------
(***************************************************************************)
(* Proofs about module InterPipe when one thread at a time runs operations *)
(* (MaxBusy = 1), as in an application that controls its pipelines from    *)
(* one thread: the properties of quiet states, for any number of sources,  *)
(* sinks and names.                                                        *)
(***************************************************************************)
EXTENDS NamesProof, FiniteSetTheorems

\* At most one element runs an operation; an element that runs none holds no
\* source, and a source is the one that its own operations are about.
SoloInv ==
  /\ \A p, q \in Procs : op[p] # "idle" /\ op[q] # "idle" => p = q
  /\ \A p \in Procs : op[p] = "idle" => cur[p] = NULL
  /\ \A s \in Srcs : op[s] # "idle" => cur[s] = s

\* The sink that the core fetched from the table of nodes is alive when the core
\* calls it.
NodeAlive ==
  \A p \in Procs : pc[p] \in {"attach", "priv_drop"} => sinkState[node[p]] = "live"

-----------------------------------------------------------------------------
(* One operation at a time *)

\* An operation begins, and caps change, only when every element is idle.
LEMMA NobodyBusy ==
  ASSUME MaxBusy = 1, SoloInv, Cardinality({q \in Procs : op[q] # "idle"}) < MaxBusy
  PROVE  Quiet
<1> DEFINE B == {q \in Procs : op[q] # "idle"}
<1>1. SUFFICES ASSUME NEW p \in Procs, op[p] # "idle" PROVE FALSE
  BY DEF Quiet
<1>2. B = {p}
  BY <1>1 DEF SoloInv
<1>3. Cardinality(B) = 1
  BY <1>2, FS_Singleton
<1>4. QED
  BY <1>3

\* Every action leaves at most one element busy.
LEMMA SoloStep ==
  ASSUME MaxBusy = 1, TypeOK, LockInv, SoloInv, [Next]_vars
  PROVE  SoloInv'
<1> USE NullAssumption, KindsAssumption DEF TypeOK, Procs, LockInv, SoloInv, Locked, Ops,
    WalkOps, MayBegin, coreVars, sinkVars, srcVars, callVars, walkVars
<1>1. ASSUME NEW s \in Srcs, NEW n \in NodeNames, PresetListenTo(s, n) PROVE SoloInv'
  BY <1>1, NobodyBusy DEF PresetListenTo, Quiet
<1>2. ASSUME NEW s \in Srcs, NEW n \in NodeNames, SetListenTo(s, n) PROVE SoloInv'
  BY <1>2, NobodyBusy DEF SetListenTo, SrcListenNode, Goto, Quiet
<1>3. ASSUME NEW s \in Srcs, DropListenTo(s) PROVE SoloInv'
  BY <1>3, NobodyBusy DEF DropListenTo, Quiet
<1>4. ASSUME NEW s \in Srcs, UnsetListenTo(s) PROVE SoloInv'
  BY <1>4, NobodyBusy DEF UnsetListenTo, CallLeave, Goto, Quiet
<1>5. ASSUME NEW s \in Srcs, SetBlockSwitch(s) PROVE SoloInv'
  BY <1>5, NobodyBusy DEF SetBlockSwitch, Quiet
<1>6. ASSUME NEW s \in Srcs, StartAlone(s) PROVE SoloInv'
  BY <1>6, NobodyBusy DEF StartAlone, Quiet
<1>7. ASSUME NEW s \in Srcs, Start(s) PROVE SoloInv'
  BY <1>7, NobodyBusy DEF Start, SrcListenNode, Goto, Quiet
<1>8. ASSUME NEW s \in Srcs, StopAlone(s) PROVE SoloInv'
  BY <1>8, NobodyBusy DEF StopAlone, Quiet
<1>9. ASSUME NEW s \in Srcs, Stop(s) PROVE SoloInv'
  BY <1>9, NobodyBusy DEF Stop, CallLeave, Goto, Quiet
<1>10. ASSUME NEW s \in Srcs, FinalizeSrc(s) PROVE SoloInv'
  BY <1>10, NobodyBusy DEF FinalizeSrc, Quiet
<1>11. ASSUME NEW s \in Srcs, SetReturns(s) PROVE SoloInv'
  BY <1>11 DEF SetReturns, Listened, NotListened, Returned, Finish, ForgetCall, Goto
<1>12. ASSUME NEW s \in Srcs, UnsetReturns(s) PROVE SoloInv'
  BY <1>12 DEF UnsetReturns, Left, Returned, Finish, ForgetCall, Goto
<1>13. ASSUME NEW s \in Srcs, StartReturns(s) PROVE SoloInv'
  BY <1>13 DEF StartReturns, Listened, Finish, ForgetCall, Goto
<1>14. ASSUME NEW s \in Srcs, StartFails(s) PROVE SoloInv'
  BY <1>14 DEF StartFails, NotListened, Returned, Finish, ForgetCall, Goto
<1>15. ASSUME NEW s \in Srcs, StopReturns(s) PROVE SoloInv'
  BY <1>15 DEF StopReturns, Left, Returned, Finish, ForgetCall, Goto
<1>16. ASSUME NEW k \in Sinks, NEW n \in NodeNames, CreateSink(k, n) PROVE SoloInv'
  BY <1>16, NobodyBusy DEF CreateSink, AddNode, Goto, Quiet
<1>17. ASSUME NEW k \in Sinks, NEW n \in NodeNames, RenameSink(k, n) PROVE SoloInv'
  BY <1>17, NobodyBusy DEF RenameSink, RemoveNode, Goto, Quiet
<1>18. ASSUME NEW k \in Sinks, FinalizeSink(k) PROVE SoloInv'
  BY <1>18, NobodyBusy DEF FinalizeSink, RemoveNode, Goto, Quiet
<1>19. ASSUME NEW k \in Sinks, Kick(k) PROVE SoloInv'
  BY <1>19, NobodyBusy DEF Kick, Goto, Quiet
<1>20. ASSUME NEW k \in Sinks, NEW l \in ListenerNames, SkipListener(k, l) PROVE SoloInv'
  BY <1>20 DEF SkipListener
<1>21. ASSUME NEW k \in Sinks, NEW l \in ListenerNames, NotifyAdded(k, l) PROVE SoloInv'
  BY <1>21 DEF NotifyAdded, SrcListenNode, Goto
<1>22. ASSUME NEW k \in Sinks, NEW l \in ListenerNames, NotifyRemoved(k, l) PROVE SoloInv'
  BY <1>22 DEF NotifyRemoved, CallLeave, Goto
<1>23. ASSUME NEW k \in Sinks, NEW s \in Srcs, KickNext(k, s) PROVE SoloInv'
  BY <1>23 DEF KickNext, CallLeave, Goto
<1>24. ASSUME NEW k \in Sinks, CallbackReturns(k) PROVE SoloInv'
  BY <1>24 DEF CallbackReturns, Listened, NotListened, Left, Returned, ForgetCall, Goto
<1>25. ASSUME NEW k \in Sinks, NameReturns(k) PROVE SoloInv'
  BY <1>25 DEF NameReturns, WalkOver, Finish, ForgetCall, Goto
<1>26. ASSUME NEW k \in Sinks, RenameRegisters(k) PROVE SoloInv'
  BY <1>26 DEF RenameRegisters, WalkOver, AddNode, Goto
<1>27. ASSUME NEW k \in Sinks, FinalizeReturns(k) PROVE SoloInv'
  BY <1>27 DEF FinalizeReturns, WalkOver, Finish, ForgetCall, Goto
<1>28. ASSUME NEW k \in Sinks, KickReturns(k) PROVE SoloInv'
  BY <1>28 DEF KickReturns, Finish, ForgetCall, Goto
<1>29. ASSUME NEW p \in Procs, AlreadyListening(p) PROVE SoloInv'
  BY <1>29 DEF AlreadyListening, EntryOf, Goto
<1>30. ASSUME NEW p \in Procs, ListenLock(p) PROVE SoloInv'
  BY <1>30 DEF ListenLock, MustLeaveFirst, EntryOf, Goto
<1>31. ASSUME NEW p \in Procs, LeaveUnknown(p) PROVE SoloInv'
  BY <1>31 DEF LeaveUnknown, EntryOf, Goto
<1>32. ASSUME NEW p \in Procs, LeavePending(p) PROVE SoloInv'
  BY <1>32 DEF LeavePending, EntryOf, RemoveEntry, KeysChanged, Goto
<1>33. ASSUME NEW p \in Procs, LeaveLock(p) PROVE SoloInv'
  BY <1>33 DEF LeaveLock, EntryOf, Goto
<1>34. ASSUME NEW p \in Procs, LookupMissing(p) PROVE SoloInv'
  BY <1>34 DEF LookupMissing, EntryOf, InsertEntry, Point, KeysChanged, Goto
<1>35. ASSUME NEW p \in Procs, LookupFound(p) PROVE SoloInv'
  BY <1>35 DEF LookupFound, Goto
<1>36. ASSUME NEW p \in Procs, Attach(p) PROVE SoloInv'
  BY <1>36 DEF Attach, EntryOf, InsertEntry, Point, KeysChanged, Goto
<1>37. ASSUME NEW p \in Procs, AttachRefused(p) PROVE SoloInv'
  BY <1>37 DEF AttachRefused, Goto
<1>38. ASSUME NEW p \in Procs, PrivNoNode(p) PROVE SoloInv'
  BY <1>38 DEF PrivNoNode, EntryOf, PrivFailed, Point, Leaving, Goto
<1>39. ASSUME NEW p \in Procs, PrivGetNode(p) PROVE SoloInv'
  BY <1>39 DEF PrivGetNode, EntryOf, Goto
<1>40. ASSUME NEW p \in Procs, PrivNotThere(p) PROVE SoloInv'
  BY <1>40 DEF PrivNotThere, EntryOf, PrivFailed, Point, Leaving, Goto
<1>41. ASSUME NEW p \in Procs, PrivDropAndListen(p) PROVE SoloInv'
  BY <1>41 DEF PrivDropAndListen, EntryOf, Leaving, Goto
<1>42. ASSUME NEW p \in Procs, PrivDropAndLeave(p) PROVE SoloInv'
  BY <1>42 DEF PrivDropAndLeave, EntryOf, Leaving, RemoveEntry, KeysChanged, Goto
<1>43. ASSUME NEW p \in Procs, UndoListen(p) PROVE SoloInv'
  BY <1>43 DEF UndoListen, Goto
<1>44. ASSUME NEW p \in Procs, Relisten(p) PROVE SoloInv'
  BY <1>44 DEF Relisten, Returned, Goto
<1>45. ASSUME NEW k \in Sinks, NEW s \in Srcs, CapsChange(k, s) PROVE SoloInv'
  BY <1>45 DEF CapsChange
<1>46. CASE AllFreed
  BY <1>46 DEF AllFreed, vars
<1>47. CASE UNCHANGED vars
  BY <1>47 DEF vars
<1>48. QED
  BY <1>1, <1>2, <1>3, <1>4, <1>5, <1>6, <1>7, <1>8, <1>9, <1>10, <1>11, <1>12, <1>13,
      <1>14, <1>15, <1>16, <1>17, <1>18, <1>19, <1>20, <1>21, <1>22, <1>23, <1>24, <1>25,
      <1>26, <1>27, <1>28, <1>29, <1>30, <1>31, <1>32, <1>33, <1>34, <1>35, <1>36, <1>37,
      <1>38, <1>39, <1>40, <1>41, <1>42, <1>43, <1>44, <1>45, <1>46, <1>47 DEF Next,
      SrcBegins, SrcReturns, SinkBegins, SinkWalks, CoreLocks, CoreHoldsLock, CoreUnlocked

\* One operation at a time, in every behaviour.
LEMMA SoloAlways ==
  ASSUME MaxBusy = 1
  PROVE  Spec => []SoloInv
<1>1. Init => SoloInv
  BY DEF Init, SoloInv, Procs
<1>2. ControlInv /\ SoloInv /\ [Next]_vars => SoloInv'
  BY SoloStep DEF ControlInv
<1>3. QED
  BY <1>1, <1>2, ControlAlways, PTL DEF Spec

-----------------------------------------------------------------------------
(* Nodes in hand, and refused switches *)

\* Every action leaves the nodes in hand alive: they come from the table of
\* nodes, and no sink is finalized before the call is over.
LEMMA AliveStep ==
  ASSUME TypeOK, LockInv, LiveInv, CallInv, TableInv, SoloInv, NodeAlive, [Next]_vars
  PROVE  NodeAlive'
<1> USE NullAssumption, KindsAssumption DEF TypeOK, Procs, LockInv, LiveInv, CallInv,
    TableInv, SoloInv, NodeAlive, Locked, Labels, Leaving, Returned, Ops, WalkOps, MayBegin,
    coreVars, sinkVars, srcVars, callVars, walkVars
<1>1. ASSUME NEW s \in Srcs, NEW n \in NodeNames, PresetListenTo(s, n) PROVE NodeAlive'
  BY <1>1 DEF PresetListenTo
<1>2. ASSUME NEW s \in Srcs, NEW n \in NodeNames, SetListenTo(s, n) PROVE NodeAlive'
  BY <1>2 DEF SetListenTo, SrcListenNode, Goto
<1>3. ASSUME NEW s \in Srcs, DropListenTo(s) PROVE NodeAlive'
  BY <1>3 DEF DropListenTo
<1>4. ASSUME NEW s \in Srcs, UnsetListenTo(s) PROVE NodeAlive'
  BY <1>4 DEF UnsetListenTo, CallLeave, Goto
<1>5. ASSUME NEW s \in Srcs, SetBlockSwitch(s) PROVE NodeAlive'
  BY <1>5 DEF SetBlockSwitch
<1>6. ASSUME NEW s \in Srcs, StartAlone(s) PROVE NodeAlive'
  BY <1>6 DEF StartAlone
<1>7. ASSUME NEW s \in Srcs, Start(s) PROVE NodeAlive'
  BY <1>7 DEF Start, SrcListenNode, Goto
<1>8. ASSUME NEW s \in Srcs, StopAlone(s) PROVE NodeAlive'
  BY <1>8 DEF StopAlone
<1>9. ASSUME NEW s \in Srcs, Stop(s) PROVE NodeAlive'
  BY <1>9 DEF Stop, CallLeave, Goto
<1>10. ASSUME NEW s \in Srcs, FinalizeSrc(s) PROVE NodeAlive'
  BY <1>10 DEF FinalizeSrc
<1>11. ASSUME NEW s \in Srcs, SetReturns(s) PROVE NodeAlive'
  BY <1>11 DEF SetReturns, Listened, NotListened, Returned, Finish, ForgetCall, Goto
<1>12. ASSUME NEW s \in Srcs, UnsetReturns(s) PROVE NodeAlive'
  BY <1>12 DEF UnsetReturns, Left, Returned, Finish, ForgetCall, Goto
<1>13. ASSUME NEW s \in Srcs, StartReturns(s) PROVE NodeAlive'
  BY <1>13 DEF StartReturns, Listened, Finish, ForgetCall, Goto
<1>14. ASSUME NEW s \in Srcs, StartFails(s) PROVE NodeAlive'
  BY <1>14 DEF StartFails, NotListened, Returned, Finish, ForgetCall, Goto
<1>15. ASSUME NEW s \in Srcs, StopReturns(s) PROVE NodeAlive'
  BY <1>15 DEF StopReturns, Left, Returned, Finish, ForgetCall, Goto
<1>16. ASSUME NEW k \in Sinks, NEW n \in NodeNames, CreateSink(k, n) PROVE NodeAlive'
  BY <1>16 DEF CreateSink, AddNode, Goto
<1>17. ASSUME NEW k \in Sinks, NEW n \in NodeNames, RenameSink(k, n) PROVE NodeAlive'
  BY <1>17 DEF RenameSink, RemoveNode, Goto
<1>18. ASSUME NEW k \in Sinks, FinalizeSink(k) PROVE NodeAlive'
  BY <1>18 DEF FinalizeSink, RemoveNode, Goto
<1>19. ASSUME NEW k \in Sinks, Kick(k) PROVE NodeAlive'
  BY <1>19 DEF Kick, Goto
<1>20. ASSUME NEW k \in Sinks, NEW l \in ListenerNames, SkipListener(k, l) PROVE NodeAlive'
  BY <1>20 DEF SkipListener
<1>21. ASSUME NEW k \in Sinks, NEW l \in ListenerNames, NotifyAdded(k, l) PROVE NodeAlive'
  BY <1>21 DEF NotifyAdded, SrcListenNode, Goto
<1>22. ASSUME NEW k \in Sinks, NEW l \in ListenerNames, NotifyRemoved(k, l) PROVE NodeAlive'
  BY <1>22 DEF NotifyRemoved, CallLeave, Goto
<1>23. ASSUME NEW k \in Sinks, NEW s \in Srcs, KickNext(k, s) PROVE NodeAlive'
  BY <1>23 DEF KickNext, CallLeave, Goto
<1>24. ASSUME NEW k \in Sinks, CallbackReturns(k) PROVE NodeAlive'
  BY <1>24 DEF CallbackReturns, Listened, NotListened, Left, Returned, ForgetCall, Goto
<1>25. ASSUME NEW k \in Sinks, NameReturns(k) PROVE NodeAlive'
  BY <1>25 DEF NameReturns, WalkOver, Finish, ForgetCall, Goto
<1>26. ASSUME NEW k \in Sinks, RenameRegisters(k) PROVE NodeAlive'
  BY <1>26 DEF RenameRegisters, WalkOver, AddNode, Goto
<1>27. ASSUME NEW k \in Sinks, FinalizeReturns(k) PROVE NodeAlive'
  BY <1>27 DEF FinalizeReturns, WalkOver, Finish, ForgetCall, Goto
<1>28. ASSUME NEW k \in Sinks, KickReturns(k) PROVE NodeAlive'
  BY <1>28 DEF KickReturns, Finish, ForgetCall, Goto
<1>29. ASSUME NEW p \in Procs, AlreadyListening(p) PROVE NodeAlive'
  BY <1>29 DEF AlreadyListening, EntryOf, Goto
<1>30. ASSUME NEW p \in Procs, ListenLock(p) PROVE NodeAlive'
  BY <1>30 DEF ListenLock, MustLeaveFirst, EntryOf, Goto
<1>31. ASSUME NEW p \in Procs, LeaveUnknown(p) PROVE NodeAlive'
  BY <1>31 DEF LeaveUnknown, EntryOf, Goto
<1>32. ASSUME NEW p \in Procs, LeavePending(p) PROVE NodeAlive'
  BY <1>32 DEF LeavePending, EntryOf, RemoveEntry, KeysChanged, Goto
<1>33. ASSUME NEW p \in Procs, LeaveLock(p) PROVE NodeAlive'
  BY <1>33 DEF LeaveLock, EntryOf, Goto
<1>34. ASSUME NEW p \in Procs, LookupMissing(p) PROVE NodeAlive'
  BY <1>34 DEF LookupMissing, EntryOf, InsertEntry, Point, KeysChanged, Goto
<1>35. ASSUME NEW p \in Procs, LookupFound(p) PROVE NodeAlive'
  BY <1>35 DEF LookupFound, Goto
<1>36. ASSUME NEW p \in Procs, Attach(p) PROVE NodeAlive'
  BY <1>36 DEF Attach, EntryOf, InsertEntry, Point, KeysChanged, Goto
<1>37. ASSUME NEW p \in Procs, AttachRefused(p) PROVE NodeAlive'
  BY <1>37 DEF AttachRefused, Goto
<1>38. ASSUME NEW p \in Procs, PrivNoNode(p) PROVE NodeAlive'
  BY <1>38 DEF PrivNoNode, EntryOf, PrivFailed, Point, Leaving, Goto
<1>39. ASSUME NEW p \in Procs, PrivGetNode(p) PROVE NodeAlive'
  BY <1>39, NameOfAssumption DEF Entry, PrivGetNode, EntryOf, Goto
<1>40. ASSUME NEW p \in Procs, PrivNotThere(p) PROVE NodeAlive'
  BY <1>40 DEF PrivNotThere, EntryOf, PrivFailed, Point, Leaving, Goto
<1>41. ASSUME NEW p \in Procs, PrivDropAndListen(p) PROVE NodeAlive'
  BY <1>41 DEF PrivDropAndListen, EntryOf, Leaving, Goto
<1>42. ASSUME NEW p \in Procs, PrivDropAndLeave(p) PROVE NodeAlive'
  BY <1>42 DEF PrivDropAndLeave, EntryOf, Leaving, RemoveEntry, KeysChanged, Goto
<1>43. ASSUME NEW p \in Procs, UndoListen(p) PROVE NodeAlive'
  BY <1>43 DEF UndoListen, Goto
<1>44. ASSUME NEW p \in Procs, Relisten(p) PROVE NodeAlive'
  BY <1>44 DEF Relisten, Returned, Goto
<1>45. ASSUME NEW k \in Sinks, NEW s \in Srcs, CapsChange(k, s) PROVE NodeAlive'
  BY <1>45 DEF CapsChange
<1>46. CASE AllFreed
  BY <1>46 DEF AllFreed, vars
<1>47. CASE UNCHANGED vars
  BY <1>47 DEF vars
<1>48. QED
  BY <1>1, <1>2, <1>3, <1>4, <1>5, <1>6, <1>7, <1>8, <1>9, <1>10, <1>11, <1>12, <1>13,
      <1>14, <1>15, <1>16, <1>17, <1>18, <1>19, <1>20, <1>21, <1>22, <1>23, <1>24, <1>25,
      <1>26, <1>27, <1>28, <1>29, <1>30, <1>31, <1>32, <1>33, <1>34, <1>35, <1>36, <1>37,
      <1>38, <1>39, <1>40, <1>41, <1>42, <1>43, <1>44, <1>45, <1>46, <1>47 DEF Next,
      SrcBegins, SrcReturns, SinkBegins, SinkWalks, CoreLocks, CoreHoldsLock, CoreUnlocked

\* With one operation at a time the sink in hand is alive until the call is over, on
\* which GoneInv of QuietProof rests.  With two it may be gone: nobody holds a reference.
LEMMA HandsAlive ==
  ASSUME MaxBusy = 1
  PROVE  Spec => []NodeAlive
<1>1. Init => NodeAlive
  BY DEF Init, NodeAlive, Procs
<1>2. ControlInv /\ TableInv /\ SoloInv /\ NodeAlive /\ [Next]_vars => NodeAlive'
  BY AliveStep DEF ControlInv
<1>3. QED
  BY <1>1, <1>2, TableAlways, SoloAlways, PTL DEF Spec

\* The entry of source s in the table of listeners.
EntryFor(s) == listeners[NameOf[s]]

\* What pointing an entry at a node, inserting and removing it do to the entries
\* of the source in hand and of sources with other names.
LEMMA PointEntry ==
  ASSUME NEW p \in Procs, TypeOK, cur[p] # NULL, EntryOf(p) # NULL,
         NEW n \in NodeNames \union {NULL}, Point(p, n)
  PROVE  /\ listeners'[NameOf[cur[p]]] # NULL /\ listeners'[NameOf[cur[p]]].listen_to = n
         /\ \A s \in Srcs : NameOf[s] # NameOf[cur[p]] => listeners'[NameOf[s]] = listeners[NameOf[s]]
  BY PointEffect, NameOfAssumption

\* Inserting the entry of the source in hand, or updating it, likewise.
LEMMA InsertedEntry ==
  ASSUME NEW p \in Procs, TypeOK, cur[p] # NULL,
         NEW n \in NodeNames \union {NULL}, InsertEntry(p, n)
  PROVE  /\ listeners'[NameOf[cur[p]]] # NULL /\ listeners'[NameOf[cur[p]]].listen_to = n
         /\ \A s \in Srcs : NameOf[s] # NameOf[cur[p]] => listeners'[NameOf[s]] = listeners[NameOf[s]]
  BY InsertEffect, NameOfAssumption

\* Removing it leaves the entries of sources with other names.
LEMMA RemovedEntry ==
  ASSUME NEW p \in Procs, TypeOK, cur[p] # NULL, RemoveEntry(p)
  PROVE  /\ listeners'[NameOf[cur[p]]] = NULL
         /\ \A s \in Srcs : NameOf[s] # NameOf[cur[p]] => listeners'[NameOf[s]] = listeners[NameOf[s]]
  BY NameOfAssumption DEF RemoveEntry, TypeOK

\* The same, action by action.
LEMMA FailedLeave ==
  ASSUME NEW p \in Procs, TypeOK, CallInv, PrivNoNode(p) \/ PrivNotThere(p)
  PROVE  /\ listeners'[NameOf[cur[p]]] # NULL /\ listeners'[NameOf[cur[p]]].listen_to = NULL
         /\ \A s \in Srcs : NameOf[s] # NameOf[cur[p]] => listeners'[NameOf[s]] = listeners[NameOf[s]]
<1>1. cur[p] # NULL /\ EntryOf(p) # NULL
  BY DEF PrivNoNode, PrivNotThere, CallInv, Locked
<1>2. Point(p, NULL)
  BY DEF PrivNoNode, PrivNotThere, PrivFailed
<1>3. QED
  BY <1>1, <1>2, PointEntry

\* A look-up that finds no node leaves an entry without one.
LEMMA MissingNode ==
  ASSUME NEW p \in Procs, TypeOK, CallInv, LookupMissing(p)
  PROVE  /\ listeners'[NameOf[cur[p]]] # NULL /\ listeners'[NameOf[cur[p]]].listen_to = NULL
         /\ \A s \in Srcs : NameOf[s] # NameOf[cur[p]] => listeners'[NameOf[s]] = listeners[NameOf[s]]
<1>1. cur[p] # NULL /\ InsertEntry(p, NULL)
  BY DEF LookupMissing, CallInv, Locked
<1>2. QED
  BY <1>1, InsertedEntry

\* A source that was attached has an entry that points at its node.
LEMMA AttachedNode ==
  ASSUME NEW p \in Procs, TypeOK, CallInv, Attach(p)
  PROVE  /\ listeners'[NameOf[cur[p]]] # NULL /\ listeners'[NameOf[cur[p]]].listen_to = want[p]
         /\ \A s \in Srcs : NameOf[s] # NameOf[cur[p]] => listeners'[NameOf[s]] = listeners[NameOf[s]]
         /\ node[p] \in Sinks /\ cur[p] \in attached'[node[p]]
<1>1. cur[p] # NULL /\ want[p] \in NodeNames /\ InsertEntry(p, want[p])
  BY DEF Attach, CallInv, Locked, Leaving, TypeOK
<1>2. node[p] \in Sinks /\ cur[p] \in attached'[node[p]]
  BY DEF Attach, CallInv, TypeOK
<1>3. QED
  BY <1>1, <1>2, InsertedEntry

\* A leave that succeeds leaves no entry.
LEMMA EntryGone ==
  ASSUME NEW p \in Procs, TypeOK, CallInv, LeavePending(p) \/ PrivDropAndLeave(p)
  PROVE  /\ listeners'[NameOf[cur[p]]] = NULL
         /\ \A s \in Srcs : NameOf[s] # NameOf[cur[p]] => listeners'[NameOf[s]] = listeners[NameOf[s]]
<1>1. cur[p] # NULL /\ RemoveEntry(p)
  BY DEF LeavePending, PrivDropAndLeave, CallInv, Locked
<1>2. QED
  BY <1>1, RemovedEntry

\* Source s has no entry, or one without a node.
Unplaced(s) == EntryFor(s) = NULL \/ EntryFor(s).listen_to = NULL

\* A source that was refused leaves and asks for the node of its property again:
\* from its leave on it is in no table under a node, so the second call does not
\* stop at "already listening", and it fails only if that node refuses it too.
GoingBack(p) ==
  /\ call[p] = "undo" /\ Returned(p) => Unplaced(cur[p])
  /\ call[p] = "again" => want[p] = listenTo[cur[p]] /\ pc[p] \notin {"priv_get", "priv_drop"}
  /\ call[p] = "again" /\ pc[p] \in {"listen", "lookup", "attach"} => Unplaced(cur[p])
  /\ pc[p] = "attach" => node[p] = nodes[want[p]]
  /\ call[p] = "again" /\ Returned(p) /\ listenTo[cur[p]] # NULL =>
       LET k == nodes[listenTo[cur[p]]] IN
       /\ pc[p] = "done" => k = NULL \/ cur[p] \in attached[k]
       /\ pc[p] = "failed" => <<k, cur[p]>> \in clash

UndoInv == \A p \in Procs : cur[p] # NULL => GoingBack(p)

\* A node that refuses the source on its way back is that of its property.
LEMMA RefusedAgain ==
  ASSUME NEW p \in Procs, TypeOK, CallInv, UndoInv, AttachRefused(p)
  PROVE  GoingBack(p)'
<1>1. pc[p] = "attach" /\ cur[p] # NULL /\ GoingBack(p) /\ ~Leaving(p)
  BY DEF AttachRefused, CallInv, Locked, UndoInv
<1>2. call[p] # "undo" /\ (call[p] = "again" => want[p] = listenTo[cur[p]] /\ node[p] = nodes[want[p]])
  BY <1>1 DEF GoingBack, Leaving
<1>3. pc'[p] = "failed" /\ call' = call /\ cur' = cur /\ want' = want
  BY DEF AttachRefused, Goto, callVars, TypeOK
<1>4. call[p] = "again" => <<nodes[listenTo[cur[p]]], cur[p]>> \in clash
  BY <1>2 DEF AttachRefused
<1>5. nodes' = nodes /\ listenTo' = listenTo /\ clash' = clash
  BY DEF AttachRefused, srcVars
<1>6. QED
  BY <1>2, <1>3, <1>4, <1>5 DEF GoingBack

\* Every action keeps what is known of a source on its way back.
LEMMA UndoStep ==
  ASSUME MaxBusy = 1, TypeOK, LockInv, LiveInv, CallInv, SoloInv, UndoInv, [Next]_vars
  PROVE  UndoInv'
<1> USE NameOfAssumption, NullAssumption, KindsAssumption DEF TypeOK, Procs, LockInv,
    LiveInv, CallInv, SoloInv, UndoInv, GoingBack, EntryFor, EntryOf, Unplaced, Locked,
    Labels, Calls, Leaving, Returned, Ops, WalkOps, MayBegin, coreVars, sinkVars, srcVars,
    callVars, walkVars
<1>1. ASSUME NEW s \in Srcs, NEW n \in NodeNames, PresetListenTo(s, n) PROVE UndoInv'
  BY <1>1, NobodyBusy DEF PresetListenTo, Quiet
<1>2. ASSUME NEW s \in Srcs, NEW n \in NodeNames, SetListenTo(s, n) PROVE UndoInv'
  BY <1>2, NobodyBusy DEF SetListenTo, SrcListenNode, Goto, Quiet
<1>3. ASSUME NEW s \in Srcs, DropListenTo(s) PROVE UndoInv'
  BY <1>3, NobodyBusy DEF DropListenTo, Quiet
<1>4. ASSUME NEW s \in Srcs, UnsetListenTo(s) PROVE UndoInv'
  BY <1>4, NobodyBusy DEF UnsetListenTo, CallLeave, Goto, Quiet
<1>5. ASSUME NEW s \in Srcs, SetBlockSwitch(s) PROVE UndoInv'
  BY <1>5, NobodyBusy DEF SetBlockSwitch, Quiet
<1>6. ASSUME NEW s \in Srcs, StartAlone(s) PROVE UndoInv'
  BY <1>6, NobodyBusy DEF StartAlone, Quiet
<1>7. ASSUME NEW s \in Srcs, Start(s) PROVE UndoInv'
  BY <1>7, NobodyBusy DEF Start, SrcListenNode, Goto, Quiet
<1>8. ASSUME NEW s \in Srcs, StopAlone(s) PROVE UndoInv'
  BY <1>8, NobodyBusy DEF StopAlone, Quiet
<1>9. ASSUME NEW s \in Srcs, Stop(s) PROVE UndoInv'
  BY <1>9, NobodyBusy DEF Stop, CallLeave, Goto, Quiet
<1>10. ASSUME NEW s \in Srcs, FinalizeSrc(s) PROVE UndoInv'
  BY <1>10, NobodyBusy DEF FinalizeSrc, Quiet
<1>11. ASSUME NEW s \in Srcs, SetReturns(s) PROVE UndoInv'
  BY <1>11 DEF SetReturns, Listened, NotListened, Returned, Finish, ForgetCall, Goto
<1>12. ASSUME NEW s \in Srcs, UnsetReturns(s) PROVE UndoInv'
  BY <1>12 DEF UnsetReturns, Left, Returned, Finish, ForgetCall, Goto
<1>13. ASSUME NEW s \in Srcs, StartReturns(s) PROVE UndoInv'
  BY <1>13 DEF StartReturns, Listened, Finish, ForgetCall, Goto
<1>14. ASSUME NEW s \in Srcs, StartFails(s) PROVE UndoInv'
  BY <1>14 DEF StartFails, NotListened, Returned, Finish, ForgetCall, Goto
<1>15. ASSUME NEW s \in Srcs, StopReturns(s) PROVE UndoInv'
  BY <1>15 DEF StopReturns, Left, Returned, Finish, ForgetCall, Goto
<1>16. ASSUME NEW k \in Sinks, NEW n \in NodeNames, CreateSink(k, n) PROVE UndoInv'
  BY <1>16, NobodyBusy DEF CreateSink, AddNode, Goto, Quiet
<1>17. ASSUME NEW k \in Sinks, NEW n \in NodeNames, RenameSink(k, n) PROVE UndoInv'
  BY <1>17, NobodyBusy DEF RenameSink, RemoveNode, Goto, Quiet
<1>18. ASSUME NEW k \in Sinks, FinalizeSink(k) PROVE UndoInv'
  BY <1>18, NobodyBusy DEF FinalizeSink, RemoveNode, Goto, Quiet
<1>19. ASSUME NEW k \in Sinks, Kick(k) PROVE UndoInv'
  BY <1>19, NobodyBusy DEF Kick, Goto, Quiet
<1>20. ASSUME NEW k \in Sinks, NEW l \in ListenerNames, SkipListener(k, l) PROVE UndoInv'
  BY <1>20 DEF SkipListener
<1>21. ASSUME NEW k \in Sinks, NEW l \in ListenerNames, NotifyAdded(k, l) PROVE UndoInv'
  BY <1>21 DEF NotifyAdded, SrcListenNode, Goto
<1>22. ASSUME NEW k \in Sinks, NEW l \in ListenerNames, NotifyRemoved(k, l) PROVE UndoInv'
  BY <1>22 DEF NotifyRemoved, CallLeave, Goto
<1>23. ASSUME NEW k \in Sinks, NEW s \in Srcs, KickNext(k, s) PROVE UndoInv'
  BY <1>23 DEF KickNext, CallLeave, Goto
<1>24. ASSUME NEW k \in Sinks, CallbackReturns(k) PROVE UndoInv'
  BY <1>24 DEF CallbackReturns, Listened, NotListened, Left, Returned, ForgetCall, Goto
<1>25. ASSUME NEW k \in Sinks, NameReturns(k) PROVE UndoInv'
  BY <1>25 DEF NameReturns, WalkOver, Finish, ForgetCall, Goto
<1>26. ASSUME NEW k \in Sinks, RenameRegisters(k) PROVE UndoInv'
  BY <1>26 DEF RenameRegisters, WalkOver, AddNode, Goto
<1>27. ASSUME NEW k \in Sinks, FinalizeReturns(k) PROVE UndoInv'
  BY <1>27 DEF FinalizeReturns, WalkOver, Finish, ForgetCall, Goto
<1>28. ASSUME NEW k \in Sinks, KickReturns(k) PROVE UndoInv'
  BY <1>28 DEF KickReturns, Finish, ForgetCall, Goto
<1>29. ASSUME NEW p \in Procs, AlreadyListening(p) PROVE UndoInv'
  BY <1>29 DEF AlreadyListening, EntryOf, Goto
<1>30. ASSUME NEW p \in Procs, ListenLock(p) PROVE UndoInv'
  BY <1>30 DEF ListenLock, MustLeaveFirst, EntryOf, Goto
<1>31. ASSUME NEW p \in Procs, LeaveUnknown(p) PROVE UndoInv'
  BY <1>31 DEF LeaveUnknown, EntryOf, Goto
<1>32. ASSUME NEW p \in Procs, LeavePending(p) PROVE UndoInv'
  <2>1. \A q \in Procs : q # p => cur'[q] = NULL
    BY <1>32 DEF LeavePending
  <2>2. GoingBack(p)'
    BY <1>32, EntryGone DEF LeavePending, Goto
  <2>3. QED
    BY <2>1, <2>2
<1>33. ASSUME NEW p \in Procs, LeaveLock(p) PROVE UndoInv'
  BY <1>33 DEF LeaveLock, EntryOf, Goto
<1>34. ASSUME NEW p \in Procs, LookupMissing(p) PROVE UndoInv'
  BY <1>34, MissingNode DEF LookupMissing, Goto
<1>35. ASSUME NEW p \in Procs, LookupFound(p) PROVE UndoInv'
  BY <1>35 DEF LookupFound, Goto
<1>36. ASSUME NEW p \in Procs, Attach(p) PROVE UndoInv'
  BY <1>36, AttachedNode DEF Attach, Goto
<1>37. ASSUME NEW p \in Procs, AttachRefused(p) PROVE UndoInv'
  <2>1. \A q \in Procs : q # p => cur'[q] = NULL
    BY <1>37 DEF AttachRefused
  <2>2. GoingBack(p)'
    BY <1>37, RefusedAgain
  <2>3. QED
    BY <2>1, <2>2
<1>38. ASSUME NEW p \in Procs, PrivNoNode(p) PROVE UndoInv'
  <2>1. \A q \in Procs : q # p => cur'[q] = NULL
    BY <1>38 DEF PrivNoNode
  <2>2. GoingBack(p)'
    BY <1>38, FailedLeave DEF PrivNoNode, PrivFailed, Goto
  <2>3. QED
    BY <2>1, <2>2
<1>39. ASSUME NEW p \in Procs, PrivGetNode(p) PROVE UndoInv'
  BY <1>39 DEF PrivGetNode, EntryOf, Goto
<1>40. ASSUME NEW p \in Procs, PrivNotThere(p) PROVE UndoInv'
  <2>1. \A q \in Procs : q # p => cur'[q] = NULL
    BY <1>40 DEF PrivNotThere
  <2>2. GoingBack(p)'
    BY <1>40, FailedLeave DEF PrivNotThere, PrivFailed, Goto
  <2>3. QED
    BY <2>1, <2>2
<1>41. ASSUME NEW p \in Procs, PrivDropAndListen(p) PROVE UndoInv'
  BY <1>41 DEF PrivDropAndListen, EntryOf, Leaving, Goto
<1>42. ASSUME NEW p \in Procs, PrivDropAndLeave(p) PROVE UndoInv'
  <2>1. \A q \in Procs : q # p => cur'[q] = NULL
    BY <1>42 DEF PrivDropAndLeave
  <2>2. GoingBack(p)'
    BY <1>42, EntryGone DEF PrivDropAndLeave, Goto
  <2>3. QED
    BY <2>1, <2>2
<1>43. ASSUME NEW p \in Procs, UndoListen(p) PROVE UndoInv'
  BY <1>43 DEF UndoListen, Goto
<1>44. ASSUME NEW p \in Procs, Relisten(p) PROVE UndoInv'
  BY <1>44 DEF Relisten, Returned, Goto
<1>45. ASSUME NEW k \in Sinks, NEW s \in Srcs, CapsChange(k, s) PROVE UndoInv'
  BY <1>45, NobodyBusy DEF CapsChange, Quiet
<1>46. CASE AllFreed
  BY <1>46 DEF AllFreed, vars
<1>47. CASE UNCHANGED vars
  BY <1>47 DEF vars
<1>48. QED
  BY <1>1, <1>2, <1>3, <1>4, <1>5, <1>6, <1>7, <1>8, <1>9, <1>10, <1>11, <1>12, <1>13,
      <1>14, <1>15, <1>16, <1>17, <1>18, <1>19, <1>20, <1>21, <1>22, <1>23, <1>24, <1>25,
      <1>26, <1>27, <1>28, <1>29, <1>30, <1>31, <1>32, <1>33, <1>34, <1>35, <1>36, <1>37,
      <1>38, <1>39, <1>40, <1>41, <1>42, <1>43, <1>44, <1>45, <1>46, <1>47 DEF Next,
      SrcBegins, SrcReturns, SinkBegins, SinkWalks, CoreLocks, CoreHoldsLock, CoreUnlocked

\* A refused switch goes back (gst_inter_pipe_src_listen_node): unless it refuses
\* the source too, the node of listen-to has it again when the call returns,
\* whatever the names, the refusals and the evictions.
THEOREM RefusedGoesBackAlways ==
  ASSUME MaxBusy = 1
  PROVE  Spec => []RefusedGoesBack
<1>1. Init => UndoInv
  BY DEF Init, UndoInv, Procs
<1>2. ControlInv /\ SoloInv /\ UndoInv /\ [Next]_vars => UndoInv'
  BY UndoStep DEF ControlInv
<1>3. ControlInv /\ SoloInv /\ UndoInv => RefusedGoesBack
  <2> SUFFICES ASSUME ControlInv, SoloInv, UndoInv, NEW s \in Srcs, op[s] = "set",
                      NotListened(s), call[s] = "again", listenTo[s] # NULL,
                      NEW k \in Sinks, nodes[listenTo[s]] = k, <<k, s>> \notin clash
               PROVE  s \in attached[k]
    BY DEF RefusedGoesBack
  <2>1. cur[s] = s /\ s # NULL
    BY NullAssumption DEF SoloInv
  <2>2. QED
    BY <2>1, NullAssumption DEF UndoInv, GoingBack, NotListened, Returned, Procs
<1>4. QED
  BY <1>1, <1>2, <1>3, ControlAlways, SoloAlways, PTL DEF Spec

=============================================================================
