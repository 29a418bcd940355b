-------------------------- MODULE InterPipeProof --------------------------
(***************************************************************************)
(* Proofs about module InterPipe, for any number of sources, sinks, names  *)
(* and operations in flight.  ControlInv (types, lock, locals) holds       *)
(* whatever names the application gives.  FeedInv, which adds the three    *)
(* parts that relate the tables, the sinks and the threads, needs          *)
(* OrderlyNames; it is inductive and implies OneFeed.                      *)
(*                                                                         *)
(* Each "Step" lemma takes the actions one by one, in the order of Next.   *)
(***************************************************************************)
EXTENDS InterPipe, TLAPS

\* Pointing an entry at node name n (hash table update in listen_node and
\* leave_node_priv) keeps the table well typed, keeps the entry, and leaves the
\* entries of other names alone.
LEMMA PointEffect ==
  ASSUME NEW p \in Procs, TypeOK, cur[p] # NULL, EntryOf(p) # NULL,
         NEW n \in NodeNames \union {NULL}, Point(p, n)
  PROVE  /\ listeners' \in [ListenerNames -> Entry \union {NULL}]
         /\ listeners'[NameOf[cur[p]]] # NULL
         /\ listeners'[NameOf[cur[p]]].listen_to = n
         /\ \A l \in ListenerNames : l # NameOf[cur[p]] => listeners'[l] = listeners[l]
<1> DEFINE e == listeners[NameOf[cur[p]]]
<1>1. NameOf[cur[p]] \in ListenerNames
  BY NameOfAssumption DEF TypeOK
<1>2. e \in Entry
  BY <1>1 DEF TypeOK, EntryOf
<1>3. [e EXCEPT !.listen_to = n] = [listener |-> e.listener, listen_to |-> n]
  BY <1>2 DEF Entry
<1>4. [listener |-> e.listener, listen_to |-> n] \in Entry
  BY <1>2 DEF Entry
<1>5. listeners' = [listeners EXCEPT ![NameOf[cur[p]]] = [listener |-> e.listener, listen_to |-> n]]
  BY <1>3 DEF Point
<1>6. [listener |-> e.listener, listen_to |-> n] # NULL
  BY <1>4, NullAssumption
<1>7. QED
  BY <1>1, <1>4, <1>5, <1>6 DEF TypeOK

\* The same of g_hash_table_insert in listen_node, which may also create the
\* entry.
LEMMA InsertEffect ==
  ASSUME NEW p \in Procs, TypeOK, cur[p] # NULL,
         NEW n \in NodeNames \union {NULL}, InsertEntry(p, n)
  PROVE  /\ listeners' \in [ListenerNames -> Entry \union {NULL}]
         /\ listeners'[NameOf[cur[p]]] # NULL
         /\ listeners'[NameOf[cur[p]]].listen_to = n
         /\ \A l \in ListenerNames : l # NameOf[cur[p]] => listeners'[l] = listeners[l]
         /\ stale' \in SUBSET Sinks
<1>1. CASE EntryOf(p) # NULL /\ Point(p, n) /\ UNCHANGED stale
  BY <1>1, PointEffect DEF TypeOK
<1>2. CASE /\ EntryOf(p) = NULL
           /\ listeners' = [listeners EXCEPT
                ![NameOf[cur[p]]] = [listener |-> cur[p], listen_to |-> n]]
           /\ KeysChanged
  <2>1. NameOf[cur[p]] \in ListenerNames /\ cur[p] \in Srcs
    BY NameOfAssumption DEF TypeOK
  <2>2. [listener |-> cur[p], listen_to |-> n] \in Entry
    BY <2>1 DEF Entry
  <2>3. [listener |-> cur[p], listen_to |-> n] # NULL
    BY <2>2, NullAssumption
  <2>4. stale' \in SUBSET Sinks
    BY <1>2 DEF KeysChanged, TypeOK
  <2>5. QED
    BY <1>2, <2>1, <2>2, <2>3, <2>4 DEF TypeOK
<1>3. QED
  BY <1>1, <1>2 DEF InsertEntry

\* Every action keeps the types, given what CallInv says of the locals.
LEMMA TypeStep ==
  ASSUME TypeOK, CallInv, [Next]_vars
  PROVE  TypeOK'
<1> USE NameOfAssumption, NullAssumption, OptionsAssumption DEF TypeOK, Procs, Entry, Ops,
    WalkOps, Labels, Locked, Calls, CallInv, Returned, coreVars, sinkVars, srcVars,
    callVars, walkVars
<1>1. ASSUME NEW s \in Srcs, NEW n \in NodeNames, PresetListenTo(s, n) PROVE TypeOK'
  BY <1>1 DEF PresetListenTo
<1>2. ASSUME NEW s \in Srcs, NEW n \in NodeNames, SetListenTo(s, n) PROVE TypeOK'
  BY <1>2 DEF SetListenTo, SrcListenNode, Goto
<1>3. ASSUME NEW s \in Srcs, DropListenTo(s) PROVE TypeOK'
  BY <1>3 DEF DropListenTo
<1>4. ASSUME NEW s \in Srcs, UnsetListenTo(s) PROVE TypeOK'
  BY <1>4 DEF UnsetListenTo, CallLeave, Goto
<1>5. ASSUME NEW s \in Srcs, SetBlockSwitch(s) PROVE TypeOK'
  BY <1>5 DEF SetBlockSwitch
<1>6. ASSUME NEW s \in Srcs, StartAlone(s) PROVE TypeOK'
  BY <1>6 DEF StartAlone
<1>7. ASSUME NEW s \in Srcs, Start(s) PROVE TypeOK'
  BY <1>7 DEF Start, SrcListenNode, Goto
<1>8. ASSUME NEW s \in Srcs, StopAlone(s) PROVE TypeOK'
  BY <1>8 DEF StopAlone
<1>9. ASSUME NEW s \in Srcs, Stop(s) PROVE TypeOK'
  BY <1>9 DEF Stop, CallLeave, Goto
<1>10. ASSUME NEW s \in Srcs, FinalizeSrc(s) PROVE TypeOK'
  BY <1>10 DEF FinalizeSrc
<1>11. ASSUME NEW s \in Srcs, SetReturns(s) PROVE TypeOK'
  BY <1>11 DEF SetReturns, Listened, NotListened, Returned, Finish, ForgetCall, Goto
<1>12. ASSUME NEW s \in Srcs, UnsetReturns(s) PROVE TypeOK'
  BY <1>12 DEF UnsetReturns, Left, Returned, Finish, ForgetCall, Goto
<1>13. ASSUME NEW s \in Srcs, StartReturns(s) PROVE TypeOK'
  BY <1>13 DEF StartReturns, Listened, Finish, ForgetCall, Goto
<1>14. ASSUME NEW s \in Srcs, StartFails(s) PROVE TypeOK'
  BY <1>14 DEF StartFails, NotListened, Returned, Finish, ForgetCall, Goto
<1>15. ASSUME NEW s \in Srcs, StopReturns(s) PROVE TypeOK'
  BY <1>15 DEF StopReturns, Left, Returned, Finish, ForgetCall, Goto
<1>16. ASSUME NEW k \in Sinks, NEW n \in NodeNames, CreateSink(k, n) PROVE TypeOK'
  BY <1>16 DEF CreateSink, AddNode, Goto
<1>17. ASSUME NEW k \in Sinks, NEW n \in NodeNames, RenameSink(k, n) PROVE TypeOK'
  BY <1>17 DEF RenameSink, RemoveNode, Goto
<1>18. ASSUME NEW k \in Sinks, FinalizeSink(k) PROVE TypeOK'
  BY <1>18 DEF FinalizeSink, RemoveNode, Goto
<1>19. ASSUME NEW k \in Sinks, Kick(k) PROVE TypeOK'
  BY <1>19 DEF Kick, Goto
<1>20. ASSUME NEW k \in Sinks, NEW l \in ListenerNames, SkipListener(k, l) PROVE TypeOK'
  BY <1>20 DEF SkipListener
<1>21. ASSUME NEW k \in Sinks, NEW l \in ListenerNames, NotifyAdded(k, l) PROVE TypeOK'
  BY <1>21 DEF NotifyAdded, SrcListenNode, Goto
<1>22. ASSUME NEW k \in Sinks, NEW l \in ListenerNames, NotifyRemoved(k, l) PROVE TypeOK'
  BY <1>22 DEF NotifyRemoved, CallLeave, Goto
<1>23. ASSUME NEW k \in Sinks, NEW s \in Srcs, KickNext(k, s) PROVE TypeOK'
  BY <1>23 DEF KickNext, CallLeave, Goto
<1>24. ASSUME NEW k \in Sinks, CallbackReturns(k) PROVE TypeOK'
  BY <1>24 DEF CallbackReturns, Listened, NotListened, Left, Returned, ForgetCall, Goto
<1>25. ASSUME NEW k \in Sinks, NameReturns(k) PROVE TypeOK'
  BY <1>25 DEF NameReturns, WalkOver, Finish, ForgetCall, Goto
<1>26. ASSUME NEW k \in Sinks, RenameRegisters(k) PROVE TypeOK'
  BY <1>26 DEF RenameRegisters, WalkOver, AddNode, Goto
<1>27. ASSUME NEW k \in Sinks, FinalizeReturns(k) PROVE TypeOK'
  BY <1>27 DEF FinalizeReturns, WalkOver, Finish, ForgetCall, Goto
<1>28. ASSUME NEW k \in Sinks, KickReturns(k) PROVE TypeOK'
  BY <1>28 DEF KickReturns, Finish, ForgetCall, Goto
<1>29. ASSUME NEW p \in Procs, AlreadyListening(p) PROVE TypeOK'
  BY <1>29 DEF AlreadyListening, EntryOf, Goto
<1>30. ASSUME NEW p \in Procs, ListenLock(p) PROVE TypeOK'
  BY <1>30 DEF ListenLock, MustLeaveFirst, EntryOf, Goto
<1>31. ASSUME NEW p \in Procs, LeaveUnknown(p) PROVE TypeOK'
  BY <1>31 DEF LeaveUnknown, EntryOf, Goto
<1>32. ASSUME NEW p \in Procs, LeavePending(p) PROVE TypeOK'
  BY <1>32 DEF LeavePending, EntryOf, RemoveEntry, KeysChanged, Goto
<1>33. ASSUME NEW p \in Procs, LeaveLock(p) PROVE TypeOK'
  BY <1>33 DEF LeaveLock, EntryOf, Goto
<1>34. ASSUME NEW p \in Procs, LookupMissing(p) PROVE TypeOK'
  <2>1. cur[p] # NULL /\ NULL \in NodeNames \union {NULL} /\ InsertEntry(p, NULL)
    BY <1>34 DEF LookupMissing, CallInv, Locked
  <2>2. listeners' \in [ListenerNames -> Entry \union {NULL}] /\ stale' \in SUBSET Sinks
    BY <2>1, InsertEffect
  <2>3. QED
    BY <1>34, <2>2 DEF LookupMissing, Goto
<1>35. ASSUME NEW p \in Procs, LookupFound(p) PROVE TypeOK'
  BY <1>35 DEF LookupFound, Goto
<1>36. ASSUME NEW p \in Procs, Attach(p) PROVE TypeOK'
  <2>1. cur[p] # NULL /\ want[p] \in NodeNames \union {NULL} /\ InsertEntry(p, want[p])
    BY <1>36 DEF Attach, CallInv, Locked
  <2>2. listeners' \in [ListenerNames -> Entry \union {NULL}] /\ stale' \in SUBSET Sinks
    BY <2>1, InsertEffect
  <2>3. QED
    BY <1>36, <2>2 DEF Attach, Goto, CallInv, Locked
<1>37. ASSUME NEW p \in Procs, AttachRefused(p) PROVE TypeOK'
  BY <1>37 DEF AttachRefused, Goto
<1>38. ASSUME NEW p \in Procs, PrivNoNode(p) PROVE TypeOK'
  <2>1. cur[p] # NULL /\ EntryOf(p) # NULL /\ Point(p, NULL)
    BY <1>38 DEF PrivNoNode, PrivFailed, CallInv, Locked
  <2>2. listeners' \in [ListenerNames -> Entry \union {NULL}]
    BY <2>1, PointEffect
  <2>3. QED
    BY <1>38, <2>2 DEF PrivNoNode, PrivFailed, Goto
<1>39. ASSUME NEW p \in Procs, PrivGetNode(p) PROVE TypeOK'
  BY <1>39 DEF PrivGetNode, EntryOf, Goto
<1>40. ASSUME NEW p \in Procs, PrivNotThere(p) PROVE TypeOK'
  <2>1. cur[p] # NULL /\ EntryOf(p) # NULL /\ Point(p, NULL)
    BY <1>40 DEF PrivNotThere, PrivFailed, CallInv, Locked
  <2>2. listeners' \in [ListenerNames -> Entry \union {NULL}]
    BY <2>1, PointEffect
  <2>3. QED
    BY <1>40, <2>2 DEF PrivNotThere, PrivFailed, Goto
<1>41. ASSUME NEW p \in Procs, PrivDropAndListen(p) PROVE TypeOK'
  BY <1>41 DEF PrivDropAndListen, EntryOf, Leaving, Goto
<1>42. ASSUME NEW p \in Procs, PrivDropAndLeave(p) PROVE TypeOK'
  BY <1>42 DEF PrivDropAndLeave, EntryOf, Leaving, RemoveEntry, KeysChanged, Goto
<1>43. ASSUME NEW p \in Procs, UndoListen(p) PROVE TypeOK'
  BY <1>43 DEF UndoListen, Goto
<1>44. ASSUME NEW p \in Procs, Relisten(p) PROVE TypeOK'
  BY <1>44 DEF Relisten, Returned, Goto
<1>45. ASSUME NEW k \in Sinks, NEW s \in Srcs, CapsChange(k, s) PROVE TypeOK'
  BY <1>45 DEF CapsChange
<1>46. CASE AllFreed
  BY <1>46 DEF AllFreed, vars
<1>47. CASE UNCHANGED vars
  BY <1>47 DEF vars
<1>48. QED
  BY <1>1, <1>2, <1>3, <1>4, <1>5, <1>6, <1>7, <1>8, <1>9, <1>10, <1>11, <1>12, <1>13,
      <1>14, <1>15, <1>16, <1>17, <1>18, <1>19, <1>20, <1>21, <1>22, <1>23, <1>24, <1>25,
      <1>26, <1>27, <1>28, <1>29, <1>30, <1>31, <1>32, <1>33, <1>34, <1>35, <1>36, <1>37,
      <1>38, <1>39, <1>40, <1>41, <1>42, <1>43, <1>44, <1>45, <1>46, <1>47 DEF Next,
      SrcBegins, SrcReturns, SinkBegins, SinkWalks, CoreLocks, CoreHoldsLock, CoreUnlocked

\* Every action keeps the lock discipline: each path through listen_node and
\* leave_node unlocks exactly once, the error paths too.
LEMMA LockStep ==
  ASSUME TypeOK, LockInv, [Next]_vars
  PROVE  LockInv'
<1> USE NullAssumption DEF TypeOK, Procs, LockInv, Locked, Labels, Ops, WalkOps, MayBegin,
    Returned, coreVars, sinkVars, srcVars, callVars, walkVars
<1>1. ASSUME NEW s \in Srcs, NEW n \in NodeNames, PresetListenTo(s, n) PROVE LockInv'
  BY <1>1 DEF PresetListenTo
<1>2. ASSUME NEW s \in Srcs, NEW n \in NodeNames, SetListenTo(s, n) PROVE LockInv'
  BY <1>2 DEF SetListenTo, SrcListenNode, Goto
<1>3. ASSUME NEW s \in Srcs, DropListenTo(s) PROVE LockInv'
  BY <1>3 DEF DropListenTo
<1>4. ASSUME NEW s \in Srcs, UnsetListenTo(s) PROVE LockInv'
  BY <1>4 DEF UnsetListenTo, CallLeave, Goto
<1>5. ASSUME NEW s \in Srcs, SetBlockSwitch(s) PROVE LockInv'
  BY <1>5 DEF SetBlockSwitch
<1>6. ASSUME NEW s \in Srcs, StartAlone(s) PROVE LockInv'
  BY <1>6 DEF StartAlone
<1>7. ASSUME NEW s \in Srcs, Start(s) PROVE LockInv'
  BY <1>7 DEF Start, SrcListenNode, Goto
<1>8. ASSUME NEW s \in Srcs, StopAlone(s) PROVE LockInv'
  BY <1>8 DEF StopAlone
<1>9. ASSUME NEW s \in Srcs, Stop(s) PROVE LockInv'
  BY <1>9 DEF Stop, CallLeave, Goto
<1>10. ASSUME NEW s \in Srcs, FinalizeSrc(s) PROVE LockInv'
  BY <1>10 DEF FinalizeSrc
<1>11. ASSUME NEW s \in Srcs, SetReturns(s) PROVE LockInv'
  BY <1>11 DEF SetReturns, Listened, NotListened, Returned, Finish, ForgetCall, Goto
<1>12. ASSUME NEW s \in Srcs, UnsetReturns(s) PROVE LockInv'
  BY <1>12 DEF UnsetReturns, Left, Returned, Finish, ForgetCall, Goto
<1>13. ASSUME NEW s \in Srcs, StartReturns(s) PROVE LockInv'
  BY <1>13 DEF StartReturns, Listened, Finish, ForgetCall, Goto
<1>14. ASSUME NEW s \in Srcs, StartFails(s) PROVE LockInv'
  BY <1>14 DEF StartFails, NotListened, Returned, Finish, ForgetCall, Goto
<1>15. ASSUME NEW s \in Srcs, StopReturns(s) PROVE LockInv'
  BY <1>15 DEF StopReturns, Left, Returned, Finish, ForgetCall, Goto
<1>16. ASSUME NEW k \in Sinks, NEW n \in NodeNames, CreateSink(k, n) PROVE LockInv'
  BY <1>16 DEF CreateSink, AddNode, Goto
<1>17. ASSUME NEW k \in Sinks, NEW n \in NodeNames, RenameSink(k, n) PROVE LockInv'
  BY <1>17 DEF RenameSink, RemoveNode, Goto
<1>18. ASSUME NEW k \in Sinks, FinalizeSink(k) PROVE LockInv'
  BY <1>18 DEF FinalizeSink, RemoveNode, Goto
<1>19. ASSUME NEW k \in Sinks, Kick(k) PROVE LockInv'
  BY <1>19 DEF Kick, Goto
<1>20. ASSUME NEW k \in Sinks, NEW l \in ListenerNames, SkipListener(k, l) PROVE LockInv'
  BY <1>20 DEF SkipListener
<1>21. ASSUME NEW k \in Sinks, NEW l \in ListenerNames, NotifyAdded(k, l) PROVE LockInv'
  BY <1>21 DEF NotifyAdded, SrcListenNode, Goto
<1>22. ASSUME NEW k \in Sinks, NEW l \in ListenerNames, NotifyRemoved(k, l) PROVE LockInv'
  BY <1>22 DEF NotifyRemoved, CallLeave, Goto
<1>23. ASSUME NEW k \in Sinks, NEW s \in Srcs, KickNext(k, s) PROVE LockInv'
  BY <1>23 DEF KickNext, CallLeave, Goto
<1>24. ASSUME NEW k \in Sinks, CallbackReturns(k) PROVE LockInv'
  BY <1>24 DEF CallbackReturns, Listened, NotListened, Left, Returned, ForgetCall, Goto
<1>25. ASSUME NEW k \in Sinks, NameReturns(k) PROVE LockInv'
  BY <1>25 DEF NameReturns, WalkOver, Finish, ForgetCall, Goto
<1>26. ASSUME NEW k \in Sinks, RenameRegisters(k) PROVE LockInv'
  BY <1>26 DEF RenameRegisters, WalkOver, AddNode, Goto
<1>27. ASSUME NEW k \in Sinks, FinalizeReturns(k) PROVE LockInv'
  BY <1>27 DEF FinalizeReturns, WalkOver, Finish, ForgetCall, Goto
<1>28. ASSUME NEW k \in Sinks, KickReturns(k) PROVE LockInv'
  BY <1>28 DEF KickReturns, Finish, ForgetCall, Goto
<1>29. ASSUME NEW p \in Procs, AlreadyListening(p) PROVE LockInv'
  BY <1>29 DEF AlreadyListening, EntryOf, Goto
<1>30. ASSUME NEW p \in Procs, ListenLock(p) PROVE LockInv'
  BY <1>30 DEF ListenLock, MustLeaveFirst, EntryOf, Goto
<1>31. ASSUME NEW p \in Procs, LeaveUnknown(p) PROVE LockInv'
  BY <1>31 DEF LeaveUnknown, EntryOf, Goto
<1>32. ASSUME NEW p \in Procs, LeavePending(p) PROVE LockInv'
  BY <1>32 DEF LeavePending, EntryOf, RemoveEntry, KeysChanged, Goto
<1>33. ASSUME NEW p \in Procs, LeaveLock(p) PROVE LockInv'
  BY <1>33 DEF LeaveLock, EntryOf, Goto
<1>34. ASSUME NEW p \in Procs, LookupMissing(p) PROVE LockInv'
  BY <1>34 DEF LookupMissing, EntryOf, InsertEntry, Point, KeysChanged, Goto
<1>35. ASSUME NEW p \in Procs, LookupFound(p) PROVE LockInv'
  BY <1>35 DEF LookupFound, Goto
<1>36. ASSUME NEW p \in Procs, Attach(p) PROVE LockInv'
  BY <1>36 DEF Attach, EntryOf, InsertEntry, Point, KeysChanged, Goto
<1>37. ASSUME NEW p \in Procs, AttachRefused(p) PROVE LockInv'
  BY <1>37 DEF AttachRefused, Goto
<1>38. ASSUME NEW p \in Procs, PrivNoNode(p) PROVE LockInv'
  BY <1>38 DEF PrivNoNode, EntryOf, PrivFailed, Point, Leaving, Goto
<1>39. ASSUME NEW p \in Procs, PrivGetNode(p) PROVE LockInv'
  BY <1>39 DEF PrivGetNode, EntryOf, Goto
<1>40. ASSUME NEW p \in Procs, PrivNotThere(p) PROVE LockInv'
  BY <1>40 DEF PrivNotThere, EntryOf, PrivFailed, Point, Leaving, Goto
<1>41. ASSUME NEW p \in Procs, PrivDropAndListen(p) PROVE LockInv'
  BY <1>41 DEF PrivDropAndListen, EntryOf, Leaving, Goto
<1>42. ASSUME NEW p \in Procs, PrivDropAndLeave(p) PROVE LockInv'
  BY <1>42 DEF PrivDropAndLeave, EntryOf, Leaving, RemoveEntry, KeysChanged, Goto
<1>43. ASSUME NEW p \in Procs, UndoListen(p) PROVE LockInv'
  BY <1>43 DEF UndoListen, Goto
<1>44. ASSUME NEW p \in Procs, Relisten(p) PROVE LockInv'
  BY <1>44 DEF Relisten, Returned, Goto
<1>45. ASSUME NEW k \in Sinks, NEW s \in Srcs, CapsChange(k, s) PROVE LockInv'
  BY <1>45 DEF CapsChange
<1>46. CASE AllFreed
  BY <1>46 DEF AllFreed, vars
<1>47. CASE UNCHANGED vars
  BY <1>47 DEF vars
<1>48. QED
  BY <1>1, <1>2, <1>3, <1>4, <1>5, <1>6, <1>7, <1>8, <1>9, <1>10, <1>11, <1>12, <1>13,
      <1>14, <1>15, <1>16, <1>17, <1>18, <1>19, <1>20, <1>21, <1>22, <1>23, <1>24, <1>25,
      <1>26, <1>27, <1>28, <1>29, <1>30, <1>31, <1>32, <1>33, <1>34, <1>35, <1>36, <1>37,
      <1>38, <1>39, <1>40, <1>41, <1>42, <1>43, <1>44, <1>45, <1>46, <1>47 DEF Next,
      SrcBegins, SrcReturns, SinkBegins, SinkWalks, CoreLocks, CoreHoldsLock, CoreUnlocked

\* Every action keeps the life of the sinks in order: named while alive, busy
\* only while alive.
LEMMA LiveStep ==
  ASSUME TypeOK, LiveInv, [Next]_vars
  PROVE  LiveInv'
<1> USE NullAssumption, KindsAssumption DEF TypeOK, Procs, LiveInv, Ops, WalkOps, MayBegin,
    coreVars, sinkVars, srcVars, callVars, walkVars
<1>1. ASSUME NEW s \in Srcs, NEW n \in NodeNames, PresetListenTo(s, n) PROVE LiveInv'
  BY <1>1 DEF PresetListenTo
<1>2. ASSUME NEW s \in Srcs, NEW n \in NodeNames, SetListenTo(s, n) PROVE LiveInv'
  BY <1>2 DEF SetListenTo, SrcListenNode, Goto
<1>3. ASSUME NEW s \in Srcs, DropListenTo(s) PROVE LiveInv'
  BY <1>3 DEF DropListenTo
<1>4. ASSUME NEW s \in Srcs, UnsetListenTo(s) PROVE LiveInv'
  BY <1>4 DEF UnsetListenTo, CallLeave, Goto
<1>5. ASSUME NEW s \in Srcs, SetBlockSwitch(s) PROVE LiveInv'
  BY <1>5 DEF SetBlockSwitch
<1>6. ASSUME NEW s \in Srcs, StartAlone(s) PROVE LiveInv'
  BY <1>6 DEF StartAlone
<1>7. ASSUME NEW s \in Srcs, Start(s) PROVE LiveInv'
  BY <1>7 DEF Start, SrcListenNode, Goto
<1>8. ASSUME NEW s \in Srcs, StopAlone(s) PROVE LiveInv'
  BY <1>8 DEF StopAlone
<1>9. ASSUME NEW s \in Srcs, Stop(s) PROVE LiveInv'
  BY <1>9 DEF Stop, CallLeave, Goto
<1>10. ASSUME NEW s \in Srcs, FinalizeSrc(s) PROVE LiveInv'
  BY <1>10 DEF FinalizeSrc
<1>11. ASSUME NEW s \in Srcs, SetReturns(s) PROVE LiveInv'
  BY <1>11 DEF SetReturns, Listened, NotListened, Returned, Finish, ForgetCall, Goto
<1>12. ASSUME NEW s \in Srcs, UnsetReturns(s) PROVE LiveInv'
  BY <1>12 DEF UnsetReturns, Left, Returned, Finish, ForgetCall, Goto
<1>13. ASSUME NEW s \in Srcs, StartReturns(s) PROVE LiveInv'
  BY <1>13 DEF StartReturns, Listened, Finish, ForgetCall, Goto
<1>14. ASSUME NEW s \in Srcs, StartFails(s) PROVE LiveInv'
  BY <1>14 DEF StartFails, NotListened, Returned, Finish, ForgetCall, Goto
<1>15. ASSUME NEW s \in Srcs, StopReturns(s) PROVE LiveInv'
  BY <1>15 DEF StopReturns, Left, Returned, Finish, ForgetCall, Goto
<1>16. ASSUME NEW k \in Sinks, NEW n \in NodeNames, CreateSink(k, n) PROVE LiveInv'
  BY <1>16 DEF CreateSink, AddNode, Goto
<1>17. ASSUME NEW k \in Sinks, NEW n \in NodeNames, RenameSink(k, n) PROVE LiveInv'
  BY <1>17 DEF RenameSink, RemoveNode, Goto
<1>18. ASSUME NEW k \in Sinks, FinalizeSink(k) PROVE LiveInv'
  BY <1>18 DEF FinalizeSink, RemoveNode, Goto
<1>19. ASSUME NEW k \in Sinks, Kick(k) PROVE LiveInv'
  BY <1>19 DEF Kick, Goto
<1>20. ASSUME NEW k \in Sinks, NEW l \in ListenerNames, SkipListener(k, l) PROVE LiveInv'
  BY <1>20 DEF SkipListener
<1>21. ASSUME NEW k \in Sinks, NEW l \in ListenerNames, NotifyAdded(k, l) PROVE LiveInv'
  BY <1>21 DEF NotifyAdded, SrcListenNode, Goto
<1>22. ASSUME NEW k \in Sinks, NEW l \in ListenerNames, NotifyRemoved(k, l) PROVE LiveInv'
  BY <1>22 DEF NotifyRemoved, CallLeave, Goto
<1>23. ASSUME NEW k \in Sinks, NEW s \in Srcs, KickNext(k, s) PROVE LiveInv'
  BY <1>23 DEF KickNext, CallLeave, Goto
<1>24. ASSUME NEW k \in Sinks, CallbackReturns(k) PROVE LiveInv'
  BY <1>24 DEF CallbackReturns, Listened, NotListened, Left, Returned, ForgetCall, Goto
<1>25. ASSUME NEW k \in Sinks, NameReturns(k) PROVE LiveInv'
  BY <1>25 DEF NameReturns, WalkOver, Finish, ForgetCall, Goto
<1>26. ASSUME NEW k \in Sinks, RenameRegisters(k) PROVE LiveInv'
  BY <1>26 DEF RenameRegisters, WalkOver, AddNode, Goto
<1>27. ASSUME NEW k \in Sinks, FinalizeReturns(k) PROVE LiveInv'
  BY <1>27 DEF FinalizeReturns, WalkOver, Finish, ForgetCall, Goto
<1>28. ASSUME NEW k \in Sinks, KickReturns(k) PROVE LiveInv'
  BY <1>28 DEF KickReturns, Finish, ForgetCall, Goto
<1>29. ASSUME NEW p \in Procs, AlreadyListening(p) PROVE LiveInv'
  BY <1>29 DEF AlreadyListening, EntryOf, Goto
<1>30. ASSUME NEW p \in Procs, ListenLock(p) PROVE LiveInv'
  BY <1>30 DEF ListenLock, MustLeaveFirst, EntryOf, Goto
<1>31. ASSUME NEW p \in Procs, LeaveUnknown(p) PROVE LiveInv'
  BY <1>31 DEF LeaveUnknown, EntryOf, Goto
<1>32. ASSUME NEW p \in Procs, LeavePending(p) PROVE LiveInv'
  BY <1>32 DEF LeavePending, EntryOf, RemoveEntry, KeysChanged, Goto
<1>33. ASSUME NEW p \in Procs, LeaveLock(p) PROVE LiveInv'
  BY <1>33 DEF LeaveLock, EntryOf, Goto
<1>34. ASSUME NEW p \in Procs, LookupMissing(p) PROVE LiveInv'
  BY <1>34 DEF LookupMissing, EntryOf, InsertEntry, Point, KeysChanged, Goto
<1>35. ASSUME NEW p \in Procs, LookupFound(p) PROVE LiveInv'
  BY <1>35 DEF LookupFound, Goto
<1>36. ASSUME NEW p \in Procs, Attach(p) PROVE LiveInv'
  BY <1>36 DEF Attach, EntryOf, InsertEntry, Point, KeysChanged, Goto
<1>37. ASSUME NEW p \in Procs, AttachRefused(p) PROVE LiveInv'
  BY <1>37 DEF AttachRefused, Goto
<1>38. ASSUME NEW p \in Procs, PrivNoNode(p) PROVE LiveInv'
  BY <1>38 DEF PrivNoNode, EntryOf, PrivFailed, Point, Leaving, Goto
<1>39. ASSUME NEW p \in Procs, PrivGetNode(p) PROVE LiveInv'
  BY <1>39 DEF PrivGetNode, EntryOf, Goto
<1>40. ASSUME NEW p \in Procs, PrivNotThere(p) PROVE LiveInv'
  BY <1>40 DEF PrivNotThere, EntryOf, PrivFailed, Point, Leaving, Goto
<1>41. ASSUME NEW p \in Procs, PrivDropAndListen(p) PROVE LiveInv'
  BY <1>41 DEF PrivDropAndListen, EntryOf, Leaving, Goto
<1>42. ASSUME NEW p \in Procs, PrivDropAndLeave(p) PROVE LiveInv'
  BY <1>42 DEF PrivDropAndLeave, EntryOf, Leaving, RemoveEntry, KeysChanged, Goto
<1>43. ASSUME NEW p \in Procs, UndoListen(p) PROVE LiveInv'
  BY <1>43 DEF UndoListen, Goto
<1>44. ASSUME NEW p \in Procs, Relisten(p) PROVE LiveInv'
  BY <1>44 DEF Relisten, Returned, Goto
<1>45. ASSUME NEW k \in Sinks, NEW s \in Srcs, CapsChange(k, s) PROVE LiveInv'
  BY <1>45 DEF CapsChange
<1>46. CASE AllFreed
  BY <1>46 DEF AllFreed, vars
<1>47. CASE UNCHANGED vars
  BY <1>47 DEF vars
<1>48. QED
  BY <1>1, <1>2, <1>3, <1>4, <1>5, <1>6, <1>7, <1>8, <1>9, <1>10, <1>11, <1>12, <1>13,
      <1>14, <1>15, <1>16, <1>17, <1>18, <1>19, <1>20, <1>21, <1>22, <1>23, <1>24, <1>25,
      <1>26, <1>27, <1>28, <1>29, <1>30, <1>31, <1>32, <1>33, <1>34, <1>35, <1>36, <1>37,
      <1>38, <1>39, <1>40, <1>41, <1>42, <1>43, <1>44, <1>45, <1>46, <1>47 DEF Next,
      SrcBegins, SrcReturns, SinkBegins, SinkWalks, CoreLocks, CoreHoldsLock, CoreUnlocked

\* Every action keeps the locals of the calls into the core meaningful: in
\* particular the entry that leave_node_priv works on stays in the table and
\* pointed at a node as long as its thread holds listeners_mutex.
LEMMA CallStep ==
  ASSUME TypeOK, LockInv, LiveInv, CallInv, [Next]_vars
  PROVE  CallInv'
<1> USE NameOfAssumption, NullAssumption DEF TypeOK, Procs, LockInv, LiveInv, CallInv,
    Locked, Labels, Calls, Ops, WalkOps, MayBegin, Returned, Leaving, EntryOf, coreVars,
    sinkVars, srcVars, callVars, walkVars
<1>1. ASSUME NEW s \in Srcs, NEW n \in NodeNames, PresetListenTo(s, n) PROVE CallInv'
  BY <1>1 DEF PresetListenTo
<1>2. ASSUME NEW s \in Srcs, NEW n \in NodeNames, SetListenTo(s, n) PROVE CallInv'
  BY <1>2 DEF SetListenTo, SrcListenNode, Goto
<1>3. ASSUME NEW s \in Srcs, DropListenTo(s) PROVE CallInv'
  BY <1>3 DEF DropListenTo
<1>4. ASSUME NEW s \in Srcs, UnsetListenTo(s) PROVE CallInv'
  BY <1>4 DEF UnsetListenTo, CallLeave, Goto
<1>5. ASSUME NEW s \in Srcs, SetBlockSwitch(s) PROVE CallInv'
  BY <1>5 DEF SetBlockSwitch
<1>6. ASSUME NEW s \in Srcs, StartAlone(s) PROVE CallInv'
  BY <1>6 DEF StartAlone
<1>7. ASSUME NEW s \in Srcs, Start(s) PROVE CallInv'
  BY <1>7 DEF Start, SrcListenNode, Goto
<1>8. ASSUME NEW s \in Srcs, StopAlone(s) PROVE CallInv'
  BY <1>8 DEF StopAlone
<1>9. ASSUME NEW s \in Srcs, Stop(s) PROVE CallInv'
  BY <1>9 DEF Stop, CallLeave, Goto
<1>10. ASSUME NEW s \in Srcs, FinalizeSrc(s) PROVE CallInv'
  BY <1>10 DEF FinalizeSrc
<1>11. ASSUME NEW s \in Srcs, SetReturns(s) PROVE CallInv'
  BY <1>11 DEF SetReturns, Listened, NotListened, Returned, Finish, ForgetCall, Goto
<1>12. ASSUME NEW s \in Srcs, UnsetReturns(s) PROVE CallInv'
  BY <1>12 DEF UnsetReturns, Left, Returned, Finish, ForgetCall, Goto
<1>13. ASSUME NEW s \in Srcs, StartReturns(s) PROVE CallInv'
  BY <1>13 DEF StartReturns, Listened, Finish, ForgetCall, Goto
<1>14. ASSUME NEW s \in Srcs, StartFails(s) PROVE CallInv'
  BY <1>14 DEF StartFails, NotListened, Returned, Finish, ForgetCall, Goto
<1>15. ASSUME NEW s \in Srcs, StopReturns(s) PROVE CallInv'
  BY <1>15 DEF StopReturns, Left, Returned, Finish, ForgetCall, Goto
<1>16. ASSUME NEW k \in Sinks, NEW n \in NodeNames, CreateSink(k, n) PROVE CallInv'
  BY <1>16 DEF CreateSink, AddNode, Goto
<1>17. ASSUME NEW k \in Sinks, NEW n \in NodeNames, RenameSink(k, n) PROVE CallInv'
  BY <1>17 DEF RenameSink, RemoveNode, Goto
<1>18. ASSUME NEW k \in Sinks, FinalizeSink(k) PROVE CallInv'
  BY <1>18 DEF FinalizeSink, RemoveNode, Goto
<1>19. ASSUME NEW k \in Sinks, Kick(k) PROVE CallInv'
  BY <1>19 DEF Kick, Goto
<1>20. ASSUME NEW k \in Sinks, NEW l \in ListenerNames, SkipListener(k, l) PROVE CallInv'
  BY <1>20 DEF SkipListener
<1>21. ASSUME NEW k \in Sinks, NEW l \in ListenerNames, NotifyAdded(k, l) PROVE CallInv'
  <2>1. listeners[l].listener \in Srcs /\ listeners[l].listener # NULL
    BY <1>21 DEF NotifyAdded, Entry
  <2>2. QED
    BY <1>21, <2>1 DEF NotifyAdded, SrcListenNode, Goto
<1>22. ASSUME NEW k \in Sinks, NEW l \in ListenerNames, NotifyRemoved(k, l) PROVE CallInv'
  <2>1. listeners[l].listener \in Srcs /\ listeners[l].listener # NULL
    BY <1>22 DEF NotifyRemoved, Entry
  <2>2. QED
    BY <1>22, <2>1 DEF NotifyRemoved, CallLeave, Goto
<1>23. ASSUME NEW k \in Sinks, NEW s \in Srcs, KickNext(k, s) PROVE CallInv'
  BY <1>23 DEF KickNext, CallLeave, Goto
<1>24. ASSUME NEW k \in Sinks, CallbackReturns(k) PROVE CallInv'
  BY <1>24 DEF CallbackReturns, Listened, NotListened, Left, Returned, ForgetCall, Goto
<1>25. ASSUME NEW k \in Sinks, NameReturns(k) PROVE CallInv'
  BY <1>25 DEF NameReturns, WalkOver, Finish, ForgetCall, Goto
<1>26. ASSUME NEW k \in Sinks, RenameRegisters(k) PROVE CallInv'
  BY <1>26 DEF RenameRegisters, WalkOver, AddNode, Goto
<1>27. ASSUME NEW k \in Sinks, FinalizeReturns(k) PROVE CallInv'
  BY <1>27 DEF FinalizeReturns, WalkOver, Finish, ForgetCall, Goto
<1>28. ASSUME NEW k \in Sinks, KickReturns(k) PROVE CallInv'
  BY <1>28 DEF KickReturns, Finish, ForgetCall, Goto
<1>29. ASSUME NEW p \in Procs, AlreadyListening(p) PROVE CallInv'
  BY <1>29 DEF AlreadyListening, EntryOf, Goto
<1>30. ASSUME NEW p \in Procs, ListenLock(p) PROVE CallInv'
  BY <1>30 DEF ListenLock, MustLeaveFirst, EntryOf, Goto
<1>31. ASSUME NEW p \in Procs, LeaveUnknown(p) PROVE CallInv'
  BY <1>31 DEF LeaveUnknown, EntryOf, Goto
<1>32. ASSUME NEW p \in Procs, LeavePending(p) PROVE CallInv'
  BY <1>32 DEF LeavePending, EntryOf, RemoveEntry, KeysChanged, Goto
<1>33. ASSUME NEW p \in Procs, LeaveLock(p) PROVE CallInv'
  BY <1>33 DEF LeaveLock, EntryOf, Goto
<1>34. ASSUME NEW p \in Procs, LookupMissing(p) PROVE CallInv'
  BY <1>34 DEF LookupMissing, EntryOf, InsertEntry, Point, KeysChanged, Goto
<1>35. ASSUME NEW p \in Procs, LookupFound(p) PROVE CallInv'
  BY <1>35 DEF LookupFound, Goto
<1>36. ASSUME NEW p \in Procs, Attach(p) PROVE CallInv'
  BY <1>36 DEF Attach, EntryOf, InsertEntry, Point, KeysChanged, Goto
<1>37. ASSUME NEW p \in Procs, AttachRefused(p) PROVE CallInv'
  BY <1>37 DEF AttachRefused, Goto
<1>38. ASSUME NEW p \in Procs, PrivNoNode(p) PROVE CallInv'
  BY <1>38 DEF PrivNoNode, EntryOf, PrivFailed, Point, Leaving, Goto
<1>39. ASSUME NEW p \in Procs, PrivGetNode(p) PROVE CallInv'
  BY <1>39 DEF PrivGetNode, EntryOf, Goto
<1>40. ASSUME NEW p \in Procs, PrivNotThere(p) PROVE CallInv'
  BY <1>40 DEF PrivNotThere, EntryOf, PrivFailed, Point, Leaving, Goto
<1>41. ASSUME NEW p \in Procs, PrivDropAndListen(p) PROVE CallInv'
  BY <1>41 DEF PrivDropAndListen, EntryOf, Leaving, Goto
<1>42. ASSUME NEW p \in Procs, PrivDropAndLeave(p) PROVE CallInv'
  BY <1>42 DEF PrivDropAndLeave, EntryOf, Leaving, RemoveEntry, KeysChanged, Goto
<1>43. ASSUME NEW p \in Procs, UndoListen(p) PROVE CallInv'
  BY <1>43 DEF UndoListen, Goto
<1>44. ASSUME NEW p \in Procs, Relisten(p) PROVE CallInv'
  BY <1>44 DEF Relisten, Returned, Goto
<1>45. ASSUME NEW k \in Sinks, NEW s \in Srcs, CapsChange(k, s) PROVE CallInv'
  BY <1>45 DEF CapsChange
<1>46. CASE AllFreed
  BY <1>46 DEF AllFreed, vars
<1>47. CASE UNCHANGED vars
  BY <1>47 DEF vars
<1>48. QED
  BY <1>1, <1>2, <1>3, <1>4, <1>5, <1>6, <1>7, <1>8, <1>9, <1>10, <1>11, <1>12, <1>13,
      <1>14, <1>15, <1>16, <1>17, <1>18, <1>19, <1>20, <1>21, <1>22, <1>23, <1>24, <1>25,
      <1>26, <1>27, <1>28, <1>29, <1>30, <1>31, <1>32, <1>33, <1>34, <1>35, <1>36, <1>37,
      <1>38, <1>39, <1>40, <1>41, <1>42, <1>43, <1>44, <1>45, <1>46, <1>47 DEF Next,
      SrcBegins, SrcReturns, SinkBegins, SinkWalks, CoreLocks, CoreHoldsLock, CoreUnlocked

\* The names are in order: live sinks have different names and are not renamed,
\* and each source has a name of its own.
OrderlyNames ==
  /\ FreshNames /\ ~Renames
  /\ \A s, t \in Srcs : NameOf[s] = NameOf[t] => s = t

\* With orderly names every action keeps the table of nodes and the live sinks
\* in agreement.
LEMMA NodesStep ==
  ASSUME OrderlyNames, TypeOK, LiveInv, CallInv, NodesInv, [Next]_vars
  PROVE  NodesInv'
<1> USE NullAssumption, KindsAssumption DEF OrderlyNames, TypeOK, Procs, LiveInv, CallInv,
    NodesInv, Live, Locked, Leaving, Entry, Ops, WalkOps, MayBegin, Available, coreVars,
    sinkVars, srcVars, callVars, walkVars
<1>1. ASSUME NEW s \in Srcs, NEW n \in NodeNames, PresetListenTo(s, n) PROVE NodesInv'
  BY <1>1 DEF PresetListenTo
<1>2. ASSUME NEW s \in Srcs, NEW n \in NodeNames, SetListenTo(s, n) PROVE NodesInv'
  BY <1>2 DEF SetListenTo, SrcListenNode, Goto
<1>3. ASSUME NEW s \in Srcs, DropListenTo(s) PROVE NodesInv'
  BY <1>3 DEF DropListenTo
<1>4. ASSUME NEW s \in Srcs, UnsetListenTo(s) PROVE NodesInv'
  BY <1>4 DEF UnsetListenTo, CallLeave, Goto
<1>5. ASSUME NEW s \in Srcs, SetBlockSwitch(s) PROVE NodesInv'
  BY <1>5 DEF SetBlockSwitch
<1>6. ASSUME NEW s \in Srcs, StartAlone(s) PROVE NodesInv'
  BY <1>6 DEF StartAlone
<1>7. ASSUME NEW s \in Srcs, Start(s) PROVE NodesInv'
  BY <1>7 DEF Start, SrcListenNode, Goto
<1>8. ASSUME NEW s \in Srcs, StopAlone(s) PROVE NodesInv'
  BY <1>8 DEF StopAlone
<1>9. ASSUME NEW s \in Srcs, Stop(s) PROVE NodesInv'
  BY <1>9 DEF Stop, CallLeave, Goto
<1>10. ASSUME NEW s \in Srcs, FinalizeSrc(s) PROVE NodesInv'
  BY <1>10 DEF FinalizeSrc
<1>11. ASSUME NEW s \in Srcs, SetReturns(s) PROVE NodesInv'
  BY <1>11 DEF SetReturns, Listened, NotListened, Returned, Finish, ForgetCall, Goto
<1>12. ASSUME NEW s \in Srcs, UnsetReturns(s) PROVE NodesInv'
  BY <1>12 DEF UnsetReturns, Left, Returned, Finish, ForgetCall, Goto
<1>13. ASSUME NEW s \in Srcs, StartReturns(s) PROVE NodesInv'
  BY <1>13 DEF StartReturns, Listened, Finish, ForgetCall, Goto
<1>14. ASSUME NEW s \in Srcs, StartFails(s) PROVE NodesInv'
  BY <1>14 DEF StartFails, NotListened, Returned, Finish, ForgetCall, Goto
<1>15. ASSUME NEW s \in Srcs, StopReturns(s) PROVE NodesInv'
  BY <1>15 DEF StopReturns, Left, Returned, Finish, ForgetCall, Goto
<1>16. ASSUME NEW k \in Sinks, NEW n \in NodeNames, CreateSink(k, n) PROVE NodesInv'
  BY <1>16 DEF CreateSink, AddNode, Goto
<1>17. ASSUME NEW k \in Sinks, NEW n \in NodeNames, RenameSink(k, n) PROVE NodesInv'
  BY <1>17 DEF RenameSink, RemoveNode, Goto
<1>18. ASSUME NEW k \in Sinks, FinalizeSink(k) PROVE NodesInv'
  BY <1>18 DEF FinalizeSink, RemoveNode, Goto
<1>19. ASSUME NEW k \in Sinks, Kick(k) PROVE NodesInv'
  BY <1>19 DEF Kick, Goto
<1>20. ASSUME NEW k \in Sinks, NEW l \in ListenerNames, SkipListener(k, l) PROVE NodesInv'
  BY <1>20 DEF SkipListener
<1>21. ASSUME NEW k \in Sinks, NEW l \in ListenerNames, NotifyAdded(k, l) PROVE NodesInv'
  BY <1>21 DEF NotifyAdded, SrcListenNode, Goto
<1>22. ASSUME NEW k \in Sinks, NEW l \in ListenerNames, NotifyRemoved(k, l) PROVE NodesInv'
  BY <1>22 DEF NotifyRemoved, CallLeave, Goto
<1>23. ASSUME NEW k \in Sinks, NEW s \in Srcs, KickNext(k, s) PROVE NodesInv'
  BY <1>23 DEF KickNext, CallLeave, Goto
<1>24. ASSUME NEW k \in Sinks, CallbackReturns(k) PROVE NodesInv'
  BY <1>24 DEF CallbackReturns, Listened, NotListened, Left, Returned, ForgetCall, Goto
<1>25. ASSUME NEW k \in Sinks, NameReturns(k) PROVE NodesInv'
  BY <1>25 DEF NameReturns, WalkOver, Finish, ForgetCall, Goto
<1>26. ASSUME NEW k \in Sinks, RenameRegisters(k) PROVE NodesInv'
  BY <1>26 DEF RenameRegisters, WalkOver, AddNode, Goto
<1>27. ASSUME NEW k \in Sinks, FinalizeReturns(k) PROVE NodesInv'
  BY <1>27 DEF FinalizeReturns, WalkOver, Finish, ForgetCall, Goto
<1>28. ASSUME NEW k \in Sinks, KickReturns(k) PROVE NodesInv'
  BY <1>28 DEF KickReturns, Finish, ForgetCall, Goto
<1>29. ASSUME NEW p \in Procs, AlreadyListening(p) PROVE NodesInv'
  BY <1>29 DEF AlreadyListening, EntryOf, Goto
<1>30. ASSUME NEW p \in Procs, ListenLock(p) PROVE NodesInv'
  BY <1>30 DEF ListenLock, MustLeaveFirst, EntryOf, Goto
<1>31. ASSUME NEW p \in Procs, LeaveUnknown(p) PROVE NodesInv'
  BY <1>31 DEF LeaveUnknown, EntryOf, Goto
<1>32. ASSUME NEW p \in Procs, LeavePending(p) PROVE NodesInv'
  BY <1>32 DEF LeavePending, EntryOf, RemoveEntry, KeysChanged, Goto
<1>33. ASSUME NEW p \in Procs, LeaveLock(p) PROVE NodesInv'
  BY <1>33 DEF LeaveLock, EntryOf, Goto
<1>34. ASSUME NEW p \in Procs, LookupMissing(p) PROVE NodesInv'
  BY <1>34 DEF LookupMissing, EntryOf, InsertEntry, Point, KeysChanged, Goto
<1>35. ASSUME NEW p \in Procs, LookupFound(p) PROVE NodesInv'
  BY <1>35 DEF LookupFound, Goto
<1>36. ASSUME NEW p \in Procs, Attach(p) PROVE NodesInv'
  BY <1>36 DEF Attach, EntryOf, InsertEntry, Point, KeysChanged, Goto
<1>37. ASSUME NEW p \in Procs, AttachRefused(p) PROVE NodesInv'
  BY <1>37 DEF AttachRefused, Goto
<1>38. ASSUME NEW p \in Procs, PrivNoNode(p) PROVE NodesInv'
  BY <1>38 DEF PrivNoNode, EntryOf, PrivFailed, Point, Leaving, Goto
<1>39. ASSUME NEW p \in Procs, PrivGetNode(p) PROVE NodesInv'
  <2>1. EntryOf(p) # NULL /\ EntryOf(p).listen_to # NULL /\ cur[p] \in Srcs
    BY <1>39 DEF PrivGetNode
  <2>2. EntryOf(p) \in Entry
    BY <2>1, NameOfAssumption DEF EntryOf
  <2>3. EntryOf(p).listen_to \in NodeNames
    BY <2>1, <2>2
  <2>4. QED
    BY <1>39, <2>3 DEF PrivGetNode, Goto
<1>40. ASSUME NEW p \in Procs, PrivNotThere(p) PROVE NodesInv'
  BY <1>40 DEF PrivNotThere, EntryOf, PrivFailed, Point, Leaving, Goto
<1>41. ASSUME NEW p \in Procs, PrivDropAndListen(p) PROVE NodesInv'
  BY <1>41 DEF PrivDropAndListen, EntryOf, Leaving, Goto
<1>42. ASSUME NEW p \in Procs, PrivDropAndLeave(p) PROVE NodesInv'
  BY <1>42 DEF PrivDropAndLeave, EntryOf, Leaving, RemoveEntry, KeysChanged, Goto
<1>43. ASSUME NEW p \in Procs, UndoListen(p) PROVE NodesInv'
  BY <1>43 DEF UndoListen, Goto
<1>44. ASSUME NEW p \in Procs, Relisten(p) PROVE NodesInv'
  BY <1>44 DEF Relisten, Returned, Goto
<1>45. ASSUME NEW k \in Sinks, NEW s \in Srcs, CapsChange(k, s) PROVE NodesInv'
  BY <1>45 DEF CapsChange
<1>46. CASE AllFreed
  BY <1>46 DEF AllFreed, vars
<1>47. CASE UNCHANGED vars
  BY <1>47 DEF vars
<1>48. QED
  BY <1>1, <1>2, <1>3, <1>4, <1>5, <1>6, <1>7, <1>8, <1>9, <1>10, <1>11, <1>12, <1>13,
      <1>14, <1>15, <1>16, <1>17, <1>18, <1>19, <1>20, <1>21, <1>22, <1>23, <1>24, <1>25,
      <1>26, <1>27, <1>28, <1>29, <1>30, <1>31, <1>32, <1>33, <1>34, <1>35, <1>36, <1>37,
      <1>38, <1>39, <1>40, <1>41, <1>42, <1>43, <1>44, <1>45, <1>46, <1>47 DEF Next,
      SrcBegins, SrcReturns, SinkBegins, SinkWalks, CoreLocks, CoreHoldsLock, CoreUnlocked

\* With orderly names every action keeps this: the entry of a source that a
\* live sink feeds names that sink.
LEMMA EntryStep ==
  ASSUME OrderlyNames, TypeOK, LockInv, LiveInv, CallInv, NodesInv, HandInv, EntryInv, [Next]_vars
  PROVE  EntryInv'
<1> USE NameOfAssumption, NullAssumption, KindsAssumption DEF OrderlyNames, TypeOK, Procs,
    LockInv, CallInv, NodesInv, HandInv, EntryInv, Live, Locked, Ops, WalkOps, MayBegin,
    Leaving, coreVars, sinkVars, srcVars, callVars, walkVars
<1>1. ASSUME NEW s \in Srcs, NEW n \in NodeNames, PresetListenTo(s, n) PROVE EntryInv'
  BY <1>1 DEF PresetListenTo
<1>2. ASSUME NEW s \in Srcs, NEW n \in NodeNames, SetListenTo(s, n) PROVE EntryInv'
  BY <1>2 DEF SetListenTo, SrcListenNode, Goto
<1>3. ASSUME NEW s \in Srcs, DropListenTo(s) PROVE EntryInv'
  BY <1>3 DEF DropListenTo
<1>4. ASSUME NEW s \in Srcs, UnsetListenTo(s) PROVE EntryInv'
  BY <1>4 DEF UnsetListenTo, CallLeave, Goto
<1>5. ASSUME NEW s \in Srcs, SetBlockSwitch(s) PROVE EntryInv'
  BY <1>5 DEF SetBlockSwitch
<1>6. ASSUME NEW s \in Srcs, StartAlone(s) PROVE EntryInv'
  BY <1>6 DEF StartAlone
<1>7. ASSUME NEW s \in Srcs, Start(s) PROVE EntryInv'
  BY <1>7 DEF Start, SrcListenNode, Goto
<1>8. ASSUME NEW s \in Srcs, StopAlone(s) PROVE EntryInv'
  BY <1>8 DEF StopAlone
<1>9. ASSUME NEW s \in Srcs, Stop(s) PROVE EntryInv'
  BY <1>9 DEF Stop, CallLeave, Goto
<1>10. ASSUME NEW s \in Srcs, FinalizeSrc(s) PROVE EntryInv'
  BY <1>10 DEF FinalizeSrc
<1>11. ASSUME NEW s \in Srcs, SetReturns(s) PROVE EntryInv'
  BY <1>11 DEF SetReturns, Listened, NotListened, Returned, Finish, ForgetCall, Goto
<1>12. ASSUME NEW s \in Srcs, UnsetReturns(s) PROVE EntryInv'
  BY <1>12 DEF UnsetReturns, Left, Returned, Finish, ForgetCall, Goto
<1>13. ASSUME NEW s \in Srcs, StartReturns(s) PROVE EntryInv'
  BY <1>13 DEF StartReturns, Listened, Finish, ForgetCall, Goto
<1>14. ASSUME NEW s \in Srcs, StartFails(s) PROVE EntryInv'
  BY <1>14 DEF StartFails, NotListened, Returned, Finish, ForgetCall, Goto
<1>15. ASSUME NEW s \in Srcs, StopReturns(s) PROVE EntryInv'
  BY <1>15 DEF StopReturns, Left, Returned, Finish, ForgetCall, Goto
<1>16. ASSUME NEW k \in Sinks, NEW n \in NodeNames, CreateSink(k, n) PROVE EntryInv'
  BY <1>16 DEF CreateSink, AddNode, Goto
<1>17. ASSUME NEW k \in Sinks, NEW n \in NodeNames, RenameSink(k, n) PROVE EntryInv'
  BY <1>17 DEF RenameSink, RemoveNode, Goto
<1>18. ASSUME NEW k \in Sinks, FinalizeSink(k) PROVE EntryInv'
  BY <1>18 DEF FinalizeSink, RemoveNode, Goto
<1>19. ASSUME NEW k \in Sinks, Kick(k) PROVE EntryInv'
  BY <1>19 DEF Kick, Goto
<1>20. ASSUME NEW k \in Sinks, NEW l \in ListenerNames, SkipListener(k, l) PROVE EntryInv'
  BY <1>20 DEF SkipListener
<1>21. ASSUME NEW k \in Sinks, NEW l \in ListenerNames, NotifyAdded(k, l) PROVE EntryInv'
  BY <1>21 DEF NotifyAdded, SrcListenNode, Goto
<1>22. ASSUME NEW k \in Sinks, NEW l \in ListenerNames, NotifyRemoved(k, l) PROVE EntryInv'
  BY <1>22 DEF NotifyRemoved, CallLeave, Goto
<1>23. ASSUME NEW k \in Sinks, NEW s \in Srcs, KickNext(k, s) PROVE EntryInv'
  BY <1>23 DEF KickNext, CallLeave, Goto
<1>24. ASSUME NEW k \in Sinks, CallbackReturns(k) PROVE EntryInv'
  BY <1>24 DEF CallbackReturns, Listened, NotListened, Left, Returned, ForgetCall, Goto
<1>25. ASSUME NEW k \in Sinks, NameReturns(k) PROVE EntryInv'
  BY <1>25 DEF NameReturns, WalkOver, Finish, ForgetCall, Goto
<1>26. ASSUME NEW k \in Sinks, RenameRegisters(k) PROVE EntryInv'
  BY <1>26 DEF RenameRegisters, WalkOver, AddNode, Goto
<1>27. ASSUME NEW k \in Sinks, FinalizeReturns(k) PROVE EntryInv'
  BY <1>27 DEF FinalizeReturns, WalkOver, Finish, ForgetCall, Goto
<1>28. ASSUME NEW k \in Sinks, KickReturns(k) PROVE EntryInv'
  BY <1>28 DEF KickReturns, Finish, ForgetCall, Goto
<1>29. ASSUME NEW p \in Procs, AlreadyListening(p) PROVE EntryInv'
  BY <1>29 DEF AlreadyListening, EntryOf, Goto
<1>30. ASSUME NEW p \in Procs, ListenLock(p) PROVE EntryInv'
  BY <1>30 DEF ListenLock, MustLeaveFirst, EntryOf, Goto
<1>31. ASSUME NEW p \in Procs, LeaveUnknown(p) PROVE EntryInv'
  BY <1>31 DEF LeaveUnknown, EntryOf, Goto
<1>32. ASSUME NEW p \in Procs, LeavePending(p) PROVE EntryInv'
  BY <1>32 DEF LeavePending, EntryOf, RemoveEntry, KeysChanged, Goto
<1>33. ASSUME NEW p \in Procs, LeaveLock(p) PROVE EntryInv'
  BY <1>33 DEF LeaveLock, EntryOf, Goto
<1>34. ASSUME NEW p \in Procs, LookupMissing(p) PROVE EntryInv'
  <2>1. /\ \A l \in ListenerNames : l # NameOf[cur[p]] => listeners'[l] = listeners[l]
        /\ cur[p] \in Srcs
    <3>1. cur[p] # NULL /\ NULL \in NodeNames \union {NULL} /\ InsertEntry(p, NULL)
      BY <1>34 DEF LookupMissing
    <3>2. \A l \in ListenerNames : l # NameOf[cur[p]] => listeners'[l] = listeners[l]
      BY ONLY <3>1, InsertEffect, TypeOK, p \in Procs
    <3>3. QED
      BY <3>1, <3>2
  <2>2. \A k \in Sinks : Live(k) => cur[p] \notin attached[k]
    BY <1>34, <2>1 DEF LookupMissing, Locked
  <2>3. UNCHANGED <<attached, sinkState, op, nodeName>>
    BY <1>34 DEF LookupMissing
  <2>4. ASSUME NEW k \in Sinks, NEW s \in attached[k], Live(k)
        PROVE  listeners'[NameOf[s]] # NULL /\ listeners'[NameOf[s]].listen_to = nodeName[k]
    <3>1. s \in Srcs /\ NameOf[s] \in ListenerNames /\ NameOf[s] # NameOf[cur[p]]
      BY <2>1, <2>2, <2>4
    <3>2. QED
      BY <2>1, <2>4, <3>1
  <2>5. QED
    BY <2>3, <2>4
<1>35. ASSUME NEW p \in Procs, LookupFound(p) PROVE EntryInv'
  BY <1>35 DEF LookupFound, Goto
<1>36. ASSUME NEW p \in Procs, Attach(p) PROVE EntryInv'
  <2>1. cur[p] # NULL /\ want[p] \in NodeNames \union {NULL} /\ InsertEntry(p, want[p])
    BY <1>36 DEF Attach
  <2>2. /\ listeners'[NameOf[cur[p]]] # NULL
        /\ listeners'[NameOf[cur[p]]].listen_to = want[p]
        /\ \A l \in ListenerNames : l # NameOf[cur[p]] => listeners'[l] = listeners[l]
    BY ONLY <2>1, InsertEffect, TypeOK, p \in Procs
  <2>3. ASSUME NEW k \in Sinks, NEW s \in attached'[k], Live(k)
        PROVE  listeners'[NameOf[s]] # NULL /\ listeners'[NameOf[s]].listen_to = nodeName[k]
    <3>1. CASE s = cur[p]
      <4>1. k = node[p] /\ nodeName[k] = want[p]
        BY <1>36, <2>3, <3>1 DEF Attach
      <4>2. QED
        BY <2>2, <3>1, <4>1
    <3>2. CASE s # cur[p]
      <4>1. s \in attached[k] /\ NameOf[s] # NameOf[cur[p]] /\ NameOf[s] \in ListenerNames
        BY <1>36, <2>1, <2>3, <3>2 DEF Attach
      <4>2. QED
        BY <2>2, <2>3, <4>1
    <3>3. QED
      BY <3>1, <3>2
  <2>4. QED
    BY <1>36, <2>3 DEF Attach, Goto
<1>37. ASSUME NEW p \in Procs, AttachRefused(p) PROVE EntryInv'
  BY <1>37 DEF AttachRefused, Goto
<1>38. ASSUME NEW p \in Procs, PrivNoNode(p) PROVE EntryInv'
  <2>1. /\ \A l \in ListenerNames : l # NameOf[cur[p]] => listeners'[l] = listeners[l]
        /\ cur[p] \in Srcs
    <3>1. cur[p] # NULL /\ EntryOf(p) # NULL /\ NULL \in NodeNames \union {NULL} /\ Point(p, NULL)
      BY <1>38 DEF PrivNoNode, PrivFailed
    <3>2. \A l \in ListenerNames : l # NameOf[cur[p]] => listeners'[l] = listeners[l]
      BY ONLY <3>1, PointEffect, TypeOK, p \in Procs
    <3>3. QED
      BY <3>1, <3>2
  <2>2. \A k \in Sinks : Live(k) => cur[p] \notin attached[k]
    BY <1>38, <2>1 DEF PrivNoNode, EntryOf
  <2>3. UNCHANGED <<attached, sinkState, op, nodeName>>
    BY <1>38 DEF PrivNoNode, PrivFailed
  <2>4. ASSUME NEW k \in Sinks, NEW s \in attached[k], Live(k)
        PROVE  listeners'[NameOf[s]] # NULL /\ listeners'[NameOf[s]].listen_to = nodeName[k]
    <3>1. s \in Srcs /\ NameOf[s] \in ListenerNames /\ NameOf[s] # NameOf[cur[p]]
      BY <2>1, <2>2, <2>4
    <3>2. QED
      BY <2>1, <2>4, <3>1
  <2>5. QED
    BY <2>3, <2>4
<1>39. ASSUME NEW p \in Procs, PrivGetNode(p) PROVE EntryInv'
  BY <1>39 DEF PrivGetNode, EntryOf, Goto
<1>40. ASSUME NEW p \in Procs, PrivNotThere(p) PROVE EntryInv'
  <2>1. /\ \A l \in ListenerNames : l # NameOf[cur[p]] => listeners'[l] = listeners[l]
        /\ cur[p] \in Srcs
    <3>1. cur[p] # NULL /\ EntryOf(p) # NULL /\ NULL \in NodeNames \union {NULL} /\ Point(p, NULL)
      BY <1>40 DEF PrivNotThere, PrivFailed
    <3>2. \A l \in ListenerNames : l # NameOf[cur[p]] => listeners'[l] = listeners[l]
      BY ONLY <3>1, PointEffect, TypeOK, p \in Procs
    <3>3. QED
      BY <3>1, <3>2
  <2>2. \A k \in Sinks : Live(k) => cur[p] \notin attached[k]
    <3>1. pc[p] = "priv_drop" /\ cur[p] \notin attached[node[p]]
      BY <1>40 DEF PrivNotThere
    <3>2. ASSUME NEW k \in Sinks, Live(k), cur[p] \in attached[k] PROVE FALSE
      <4>1. node[p] = k
        BY ONLY <3>1, <3>2, HandInv, p \in Procs DEF HandInv
      <4>2. QED
        BY ONLY <3>1, <3>2, <4>1
    <3>3. QED
      BY <3>2
  <2>3. UNCHANGED <<attached, sinkState, op, nodeName>>
    BY <1>40 DEF PrivNotThere, PrivFailed
  <2>4. ASSUME NEW k \in Sinks, NEW s \in attached[k], Live(k)
        PROVE  listeners'[NameOf[s]] # NULL /\ listeners'[NameOf[s]].listen_to = nodeName[k]
    <3>1. s \in Srcs /\ NameOf[s] \in ListenerNames /\ NameOf[s] # NameOf[cur[p]]
      BY <2>1, <2>2, <2>4
    <3>2. QED
      BY <2>1, <2>4, <3>1
  <2>5. QED
    BY <2>3, <2>4
<1>41. ASSUME NEW p \in Procs, PrivDropAndListen(p) PROVE EntryInv'
  BY <1>41 DEF PrivDropAndListen, EntryOf, Leaving, Goto
<1>42. ASSUME NEW p \in Procs, PrivDropAndLeave(p) PROVE EntryInv'
  BY <1>42 DEF PrivDropAndLeave, EntryOf, Leaving, RemoveEntry, KeysChanged, Goto
<1>43. ASSUME NEW p \in Procs, UndoListen(p) PROVE EntryInv'
  BY <1>43 DEF UndoListen, Goto
<1>44. ASSUME NEW p \in Procs, Relisten(p) PROVE EntryInv'
  BY <1>44 DEF Relisten, Returned, Goto
<1>45. ASSUME NEW k \in Sinks, NEW s \in Srcs, CapsChange(k, s) PROVE EntryInv'
  BY <1>45 DEF CapsChange
<1>46. CASE AllFreed
  BY <1>46 DEF AllFreed, vars
<1>47. CASE UNCHANGED vars
  BY <1>47 DEF vars
<1>48. QED
  BY <1>1, <1>2, <1>3, <1>4, <1>5, <1>6, <1>7, <1>8, <1>9, <1>10, <1>11, <1>12, <1>13,
      <1>14, <1>15, <1>16, <1>17, <1>18, <1>19, <1>20, <1>21, <1>22, <1>23, <1>24, <1>25,
      <1>26, <1>27, <1>28, <1>29, <1>30, <1>31, <1>32, <1>33, <1>34, <1>35, <1>36, <1>37,
      <1>38, <1>39, <1>40, <1>41, <1>42, <1>43, <1>44, <1>45, <1>46, <1>47 DEF Next,
      SrcBegins, SrcReturns, SinkBegins, SinkWalks, CoreLocks, CoreHoldsLock, CoreUnlocked

\* With orderly names every action keeps what a thread inside listen_node or
\* leave_node knows of the source it moves and of the node it fetched.
LEMMA HandStep ==
  ASSUME OrderlyNames, TypeOK, LockInv, LiveInv, CallInv, NodesInv, EntryInv, HandInv, [Next]_vars
  PROVE  HandInv'
<1> USE NameOfAssumption, NullAssumption, KindsAssumption DEF OrderlyNames, TypeOK, Procs,
    LockInv, CallInv, NodesInv, HandInv, EntryInv, Live, Locked, Labels, Ops, WalkOps,
    MayBegin, Returned, Leaving, coreVars, sinkVars, srcVars, callVars, walkVars
<1>1. ASSUME NEW s \in Srcs, NEW n \in NodeNames, PresetListenTo(s, n) PROVE HandInv'
  BY <1>1 DEF PresetListenTo
<1>2. ASSUME NEW s \in Srcs, NEW n \in NodeNames, SetListenTo(s, n) PROVE HandInv'
  BY <1>2 DEF SetListenTo, SrcListenNode, Goto
<1>3. ASSUME NEW s \in Srcs, DropListenTo(s) PROVE HandInv'
  BY <1>3 DEF DropListenTo
<1>4. ASSUME NEW s \in Srcs, UnsetListenTo(s) PROVE HandInv'
  BY <1>4 DEF UnsetListenTo, CallLeave, Goto
<1>5. ASSUME NEW s \in Srcs, SetBlockSwitch(s) PROVE HandInv'
  BY <1>5 DEF SetBlockSwitch
<1>6. ASSUME NEW s \in Srcs, StartAlone(s) PROVE HandInv'
  BY <1>6 DEF StartAlone
<1>7. ASSUME NEW s \in Srcs, Start(s) PROVE HandInv'
  BY <1>7 DEF Start, SrcListenNode, Goto
<1>8. ASSUME NEW s \in Srcs, StopAlone(s) PROVE HandInv'
  BY <1>8 DEF StopAlone
<1>9. ASSUME NEW s \in Srcs, Stop(s) PROVE HandInv'
  BY <1>9 DEF Stop, CallLeave, Goto
<1>10. ASSUME NEW s \in Srcs, FinalizeSrc(s) PROVE HandInv'
  BY <1>10 DEF FinalizeSrc
<1>11. ASSUME NEW s \in Srcs, SetReturns(s) PROVE HandInv'
  BY <1>11 DEF SetReturns, Listened, NotListened, Returned, Finish, ForgetCall, Goto
<1>12. ASSUME NEW s \in Srcs, UnsetReturns(s) PROVE HandInv'
  BY <1>12 DEF UnsetReturns, Left, Returned, Finish, ForgetCall, Goto
<1>13. ASSUME NEW s \in Srcs, StartReturns(s) PROVE HandInv'
  BY <1>13 DEF StartReturns, Listened, Finish, ForgetCall, Goto
<1>14. ASSUME NEW s \in Srcs, StartFails(s) PROVE HandInv'
  BY <1>14 DEF StartFails, NotListened, Returned, Finish, ForgetCall, Goto
<1>15. ASSUME NEW s \in Srcs, StopReturns(s) PROVE HandInv'
  BY <1>15 DEF StopReturns, Left, Returned, Finish, ForgetCall, Goto
<1>16. ASSUME NEW k \in Sinks, NEW n \in NodeNames, CreateSink(k, n) PROVE HandInv'
  BY <1>16 DEF CreateSink, AddNode, Goto
<1>17. ASSUME NEW k \in Sinks, NEW n \in NodeNames, RenameSink(k, n) PROVE HandInv'
  BY <1>17 DEF RenameSink, RemoveNode, Goto
<1>18. ASSUME NEW k \in Sinks, FinalizeSink(k) PROVE HandInv'
  BY <1>18 DEF FinalizeSink, RemoveNode, Goto
<1>19. ASSUME NEW k \in Sinks, Kick(k) PROVE HandInv'
  BY <1>19 DEF Kick, Goto
<1>20. ASSUME NEW k \in Sinks, NEW l \in ListenerNames, SkipListener(k, l) PROVE HandInv'
  BY <1>20 DEF SkipListener
<1>21. ASSUME NEW k \in Sinks, NEW l \in ListenerNames, NotifyAdded(k, l) PROVE HandInv'
  BY <1>21 DEF NotifyAdded, SrcListenNode, Goto
<1>22. ASSUME NEW k \in Sinks, NEW l \in ListenerNames, NotifyRemoved(k, l) PROVE HandInv'
  BY <1>22 DEF NotifyRemoved, CallLeave, Goto
<1>23. ASSUME NEW k \in Sinks, NEW s \in Srcs, KickNext(k, s) PROVE HandInv'
  BY <1>23 DEF KickNext, CallLeave, Goto
<1>24. ASSUME NEW k \in Sinks, CallbackReturns(k) PROVE HandInv'
  BY <1>24 DEF CallbackReturns, Listened, NotListened, Left, Returned, ForgetCall, Goto
<1>25. ASSUME NEW k \in Sinks, NameReturns(k) PROVE HandInv'
  BY <1>25 DEF NameReturns, WalkOver, Finish, ForgetCall, Goto
<1>26. ASSUME NEW k \in Sinks, RenameRegisters(k) PROVE HandInv'
  BY <1>26 DEF RenameRegisters, WalkOver, AddNode, Goto
<1>27. ASSUME NEW k \in Sinks, FinalizeReturns(k) PROVE HandInv'
  BY <1>27 DEF FinalizeReturns, WalkOver, Finish, ForgetCall, Goto
<1>28. ASSUME NEW k \in Sinks, KickReturns(k) PROVE HandInv'
  BY <1>28 DEF KickReturns, Finish, ForgetCall, Goto
<1>29. ASSUME NEW p \in Procs, AlreadyListening(p) PROVE HandInv'
  BY <1>29 DEF AlreadyListening, EntryOf, Goto
<1>30. ASSUME NEW p \in Procs, ListenLock(p) PROVE HandInv'
  BY <1>30 DEF ListenLock, MustLeaveFirst, EntryOf, Goto
<1>31. ASSUME NEW p \in Procs, LeaveUnknown(p) PROVE HandInv'
  BY <1>31 DEF LeaveUnknown, EntryOf, Goto
<1>32. ASSUME NEW p \in Procs, LeavePending(p) PROVE HandInv'
  BY <1>32 DEF LeavePending, EntryOf, RemoveEntry, KeysChanged, Goto
<1>33. ASSUME NEW p \in Procs, LeaveLock(p) PROVE HandInv'
  BY <1>33 DEF LeaveLock, EntryOf, Goto
<1>34. ASSUME NEW p \in Procs, LookupMissing(p) PROVE HandInv'
  BY <1>34 DEF LookupMissing, EntryOf, InsertEntry, Point, KeysChanged, Goto
<1>35. ASSUME NEW p \in Procs, LookupFound(p) PROVE HandInv'
  BY <1>35 DEF LookupFound, Goto
<1>36. ASSUME NEW p \in Procs, Attach(p) PROVE HandInv'
  BY <1>36 DEF Attach, EntryOf, InsertEntry, Point, KeysChanged, Goto
<1>37. ASSUME NEW p \in Procs, AttachRefused(p) PROVE HandInv'
  BY <1>37 DEF AttachRefused, Goto
<1>38. ASSUME NEW p \in Procs, PrivNoNode(p) PROVE HandInv'
  BY <1>38 DEF PrivNoNode, EntryOf, PrivFailed, Point, Leaving, Goto
<1>39. ASSUME NEW p \in Procs, PrivGetNode(p) PROVE HandInv'
  BY <1>39 DEF PrivGetNode, EntryOf, Goto
<1>40. ASSUME NEW p \in Procs, PrivNotThere(p) PROVE HandInv'
  BY <1>40 DEF PrivNotThere, EntryOf, PrivFailed, Point, Leaving, Goto
<1>41. ASSUME NEW p \in Procs, PrivDropAndListen(p) PROVE HandInv'
  BY <1>41 DEF PrivDropAndListen, EntryOf, Leaving, Goto
<1>42. ASSUME NEW p \in Procs, PrivDropAndLeave(p) PROVE HandInv'
  BY <1>42 DEF PrivDropAndLeave, EntryOf, Leaving, RemoveEntry, KeysChanged, Goto
<1>43. ASSUME NEW p \in Procs, UndoListen(p) PROVE HandInv'
  BY <1>43 DEF UndoListen, Goto
<1>44. ASSUME NEW p \in Procs, Relisten(p) PROVE HandInv'
  BY <1>44 DEF Relisten, Returned, Goto
<1>45. ASSUME NEW k \in Sinks, NEW s \in Srcs, CapsChange(k, s) PROVE HandInv'
  BY <1>45 DEF CapsChange
<1>46. CASE AllFreed
  BY <1>46 DEF AllFreed, vars
<1>47. CASE UNCHANGED vars
  BY <1>47 DEF vars
<1>48. QED
  BY <1>1, <1>2, <1>3, <1>4, <1>5, <1>6, <1>7, <1>8, <1>9, <1>10, <1>11, <1>12, <1>13,
      <1>14, <1>15, <1>16, <1>17, <1>18, <1>19, <1>20, <1>21, <1>22, <1>23, <1>24, <1>25,
      <1>26, <1>27, <1>28, <1>29, <1>30, <1>31, <1>32, <1>33, <1>34, <1>35, <1>36, <1>37,
      <1>38, <1>39, <1>40, <1>41, <1>42, <1>43, <1>44, <1>45, <1>46, <1>47 DEF Next,
      SrcBegins, SrcReturns, SinkBegins, SinkWalks, CoreLocks, CoreHoldsLock, CoreUnlocked

\* leave_node returns TRUE in one of two places.
LEMMA TrueFromLeave ==
  ASSUME NEW q \in Procs, TypeOK, LockInv, LiveInv, pc[q] \in {"leave", "priv_drop"}, pc'[q] = "done", [Next]_vars
  PROVE  LeavePending(q) \/ PrivDropAndLeave(q)
<1> USE DEF TypeOK, Procs, LockInv, LiveInv, Locked, Labels, MayBegin, Returned, Leaving,
    coreVars, sinkVars, srcVars, callVars, walkVars
<1>1. ASSUME NEW s \in Srcs, NEW n \in NodeNames, PresetListenTo(s, n) PROVE LeavePending(q) \/ PrivDropAndLeave(q)
  BY <1>1 DEF PresetListenTo
<1>2. ASSUME NEW s \in Srcs, NEW n \in NodeNames, SetListenTo(s, n) PROVE LeavePending(q) \/ PrivDropAndLeave(q)
  BY <1>2 DEF SetListenTo, SrcListenNode, Goto
<1>3. ASSUME NEW s \in Srcs, DropListenTo(s) PROVE LeavePending(q) \/ PrivDropAndLeave(q)
  BY <1>3 DEF DropListenTo
<1>4. ASSUME NEW s \in Srcs, UnsetListenTo(s) PROVE LeavePending(q) \/ PrivDropAndLeave(q)
  BY <1>4 DEF UnsetListenTo, CallLeave, Goto
<1>5. ASSUME NEW s \in Srcs, SetBlockSwitch(s) PROVE LeavePending(q) \/ PrivDropAndLeave(q)
  BY <1>5 DEF SetBlockSwitch
<1>6. ASSUME NEW s \in Srcs, StartAlone(s) PROVE LeavePending(q) \/ PrivDropAndLeave(q)
  BY <1>6 DEF StartAlone
<1>7. ASSUME NEW s \in Srcs, Start(s) PROVE LeavePending(q) \/ PrivDropAndLeave(q)
  BY <1>7 DEF Start, SrcListenNode, Goto
<1>8. ASSUME NEW s \in Srcs, StopAlone(s) PROVE LeavePending(q) \/ PrivDropAndLeave(q)
  BY <1>8 DEF StopAlone
<1>9. ASSUME NEW s \in Srcs, Stop(s) PROVE LeavePending(q) \/ PrivDropAndLeave(q)
  BY <1>9 DEF Stop, CallLeave, Goto
<1>10. ASSUME NEW s \in Srcs, FinalizeSrc(s) PROVE LeavePending(q) \/ PrivDropAndLeave(q)
  BY <1>10 DEF FinalizeSrc
<1>11. ASSUME NEW s \in Srcs, SetReturns(s) PROVE LeavePending(q) \/ PrivDropAndLeave(q)
  BY <1>11 DEF SetReturns, Listened, NotListened, Returned, Finish, ForgetCall, Goto
<1>12. ASSUME NEW s \in Srcs, UnsetReturns(s) PROVE LeavePending(q) \/ PrivDropAndLeave(q)
  BY <1>12 DEF UnsetReturns, Left, Returned, Finish, ForgetCall, Goto
<1>13. ASSUME NEW s \in Srcs, StartReturns(s) PROVE LeavePending(q) \/ PrivDropAndLeave(q)
  BY <1>13 DEF StartReturns, Listened, Finish, ForgetCall, Goto
<1>14. ASSUME NEW s \in Srcs, StartFails(s) PROVE LeavePending(q) \/ PrivDropAndLeave(q)
  BY <1>14 DEF StartFails, NotListened, Returned, Finish, ForgetCall, Goto
<1>15. ASSUME NEW s \in Srcs, StopReturns(s) PROVE LeavePending(q) \/ PrivDropAndLeave(q)
  BY <1>15 DEF StopReturns, Left, Returned, Finish, ForgetCall, Goto
<1>16. ASSUME NEW k \in Sinks, NEW n \in NodeNames, CreateSink(k, n) PROVE LeavePending(q) \/ PrivDropAndLeave(q)
  BY <1>16 DEF CreateSink, AddNode, Goto
<1>17. ASSUME NEW k \in Sinks, NEW n \in NodeNames, RenameSink(k, n) PROVE LeavePending(q) \/ PrivDropAndLeave(q)
  BY <1>17 DEF RenameSink, RemoveNode, Goto
<1>18. ASSUME NEW k \in Sinks, FinalizeSink(k) PROVE LeavePending(q) \/ PrivDropAndLeave(q)
  BY <1>18 DEF FinalizeSink, RemoveNode, Goto
<1>19. ASSUME NEW k \in Sinks, Kick(k) PROVE LeavePending(q) \/ PrivDropAndLeave(q)
  BY <1>19 DEF Kick, Goto
<1>20. ASSUME NEW k \in Sinks, NEW l \in ListenerNames, SkipListener(k, l) PROVE LeavePending(q) \/ PrivDropAndLeave(q)
  BY <1>20 DEF SkipListener
<1>21. ASSUME NEW k \in Sinks, NEW l \in ListenerNames, NotifyAdded(k, l) PROVE LeavePending(q) \/ PrivDropAndLeave(q)
  BY <1>21 DEF NotifyAdded, SrcListenNode, Goto
<1>22. ASSUME NEW k \in Sinks, NEW l \in ListenerNames, NotifyRemoved(k, l) PROVE LeavePending(q) \/ PrivDropAndLeave(q)
  BY <1>22 DEF NotifyRemoved, CallLeave, Goto
<1>23. ASSUME NEW k \in Sinks, NEW s \in Srcs, KickNext(k, s) PROVE LeavePending(q) \/ PrivDropAndLeave(q)
  BY <1>23 DEF KickNext, CallLeave, Goto
<1>24. ASSUME NEW k \in Sinks, CallbackReturns(k) PROVE LeavePending(q) \/ PrivDropAndLeave(q)
  BY <1>24 DEF CallbackReturns, Listened, NotListened, Left, Returned, ForgetCall, Goto
<1>25. ASSUME NEW k \in Sinks, NameReturns(k) PROVE LeavePending(q) \/ PrivDropAndLeave(q)
  BY <1>25 DEF NameReturns, WalkOver, Finish, ForgetCall, Goto
<1>26. ASSUME NEW k \in Sinks, RenameRegisters(k) PROVE LeavePending(q) \/ PrivDropAndLeave(q)
  BY <1>26 DEF RenameRegisters, WalkOver, AddNode, Goto
<1>27. ASSUME NEW k \in Sinks, FinalizeReturns(k) PROVE LeavePending(q) \/ PrivDropAndLeave(q)
  BY <1>27 DEF FinalizeReturns, WalkOver, Finish, ForgetCall, Goto
<1>28. ASSUME NEW k \in Sinks, KickReturns(k) PROVE LeavePending(q) \/ PrivDropAndLeave(q)
  BY <1>28 DEF KickReturns, Finish, ForgetCall, Goto
<1>29. ASSUME NEW p \in Procs, AlreadyListening(p) PROVE LeavePending(q) \/ PrivDropAndLeave(q)
  BY <1>29 DEF AlreadyListening, EntryOf, Goto
<1>30. ASSUME NEW p \in Procs, ListenLock(p) PROVE LeavePending(q) \/ PrivDropAndLeave(q)
  BY <1>30 DEF ListenLock, MustLeaveFirst, EntryOf, Goto
<1>31. ASSUME NEW p \in Procs, LeaveUnknown(p) PROVE LeavePending(q) \/ PrivDropAndLeave(q)
  BY <1>31 DEF LeaveUnknown, EntryOf, Goto
<1>32. ASSUME NEW p \in Procs, LeavePending(p) PROVE LeavePending(q) \/ PrivDropAndLeave(q)
  <2>1. CASE p = q
    BY <1>32, <2>1
  <2>2. CASE p # q
    BY <1>32, <2>2 DEF LeavePending, Goto
  <2>3. QED
    BY <2>1, <2>2
<1>33. ASSUME NEW p \in Procs, LeaveLock(p) PROVE LeavePending(q) \/ PrivDropAndLeave(q)
  BY <1>33 DEF LeaveLock, EntryOf, Goto
<1>34. ASSUME NEW p \in Procs, LookupMissing(p) PROVE LeavePending(q) \/ PrivDropAndLeave(q)
  BY <1>34 DEF LookupMissing, EntryOf, InsertEntry, Point, KeysChanged, Goto
<1>35. ASSUME NEW p \in Procs, LookupFound(p) PROVE LeavePending(q) \/ PrivDropAndLeave(q)
  BY <1>35 DEF LookupFound, Goto
<1>36. ASSUME NEW p \in Procs, Attach(p) PROVE LeavePending(q) \/ PrivDropAndLeave(q)
  BY <1>36 DEF Attach, EntryOf, InsertEntry, Point, KeysChanged, Goto
<1>37. ASSUME NEW p \in Procs, AttachRefused(p) PROVE LeavePending(q) \/ PrivDropAndLeave(q)
  BY <1>37 DEF AttachRefused, Goto
<1>38. ASSUME NEW p \in Procs, PrivNoNode(p) PROVE LeavePending(q) \/ PrivDropAndLeave(q)
  BY <1>38 DEF PrivNoNode, EntryOf, PrivFailed, Point, Leaving, Goto
<1>39. ASSUME NEW p \in Procs, PrivGetNode(p) PROVE LeavePending(q) \/ PrivDropAndLeave(q)
  BY <1>39 DEF PrivGetNode, EntryOf, Goto
<1>40. ASSUME NEW p \in Procs, PrivNotThere(p) PROVE LeavePending(q) \/ PrivDropAndLeave(q)
  BY <1>40 DEF PrivNotThere, EntryOf, PrivFailed, Point, Leaving, Goto
<1>41. ASSUME NEW p \in Procs, PrivDropAndListen(p) PROVE LeavePending(q) \/ PrivDropAndLeave(q)
  BY <1>41 DEF PrivDropAndListen, EntryOf, Leaving, Goto
<1>42. ASSUME NEW p \in Procs, PrivDropAndLeave(p) PROVE LeavePending(q) \/ PrivDropAndLeave(q)
  <2>1. CASE p = q
    BY <1>42, <2>1
  <2>2. CASE p # q
    BY <1>42, <2>2 DEF PrivDropAndLeave, Goto
  <2>3. QED
    BY <2>1, <2>2
<1>43. ASSUME NEW p \in Procs, UndoListen(p) PROVE LeavePending(q) \/ PrivDropAndLeave(q)
  BY <1>43 DEF UndoListen, Goto
<1>44. ASSUME NEW p \in Procs, Relisten(p) PROVE LeavePending(q) \/ PrivDropAndLeave(q)
  BY <1>44 DEF Relisten, Returned, Goto
<1>45. ASSUME NEW k \in Sinks, NEW s \in Srcs, CapsChange(k, s) PROVE LeavePending(q) \/ PrivDropAndLeave(q)
  BY <1>45 DEF CapsChange
<1>46. CASE AllFreed
  BY <1>46 DEF AllFreed, vars
<1>47. CASE UNCHANGED vars
  BY <1>47 DEF vars
<1>48. QED
  BY <1>1, <1>2, <1>3, <1>4, <1>5, <1>6, <1>7, <1>8, <1>9, <1>10, <1>11, <1>12, <1>13,
      <1>14, <1>15, <1>16, <1>17, <1>18, <1>19, <1>20, <1>21, <1>22, <1>23, <1>24, <1>25,
      <1>26, <1>27, <1>28, <1>29, <1>30, <1>31, <1>32, <1>33, <1>34, <1>35, <1>36, <1>37,
      <1>38, <1>39, <1>40, <1>41, <1>42, <1>43, <1>44, <1>45, <1>46, <1>47 DEF Next,
      SrcBegins, SrcReturns, SinkBegins, SinkWalks, CoreLocks, CoreHoldsLock, CoreUnlocked

-----------------------------------------------------------------------------
(* The theorems *)

\* What holds without any assumption on names: types, the lock, the locals.
ControlInv == TypeOK /\ LockInv /\ LiveInv /\ CallInv

\* The initial state satisfies the control invariant.
LEMMA ControlInit == Init => ControlInv
<1> SUFFICES ASSUME Init PROVE ControlInv
  OBVIOUS
<1>1. TypeOK
  BY DEF Init, TypeOK, Procs, Entry, Ops, WalkOps, Labels, Locked, Calls
<1>2. LockInv /\ LiveInv /\ CallInv
  BY NullAssumption DEF Init, LockInv, LiveInv, CallInv, Procs, Locked, Returned, Leaving
<1>3. QED
  BY <1>1, <1>2 DEF ControlInv

\* The control invariant is inductive.
LEMMA ControlStep == ControlInv /\ [Next]_vars => ControlInv'
  BY TypeStep, LockStep, LiveStep, CallStep DEF ControlInv

\* The control invariant holds of every behaviour, whatever the names.
LEMMA ControlAlways == Spec => []ControlInv
  BY ControlInit, ControlStep, PTL DEF Spec

\* Type correctness of the registry and its elements (TypeOK), for any number
\* of sources, sinks and names, and any names the application gives.
THEOREM TypeCorrect == Spec => []TypeOK
  BY ControlAlways, PTL DEF ControlInv

\* listeners_mutex is held by the one thread that is between its lock and its
\* unlock in listen_node or leave_node (gstinterpipe.c), by nobody otherwise.
THEOREM LockDiscipline == Spec => []LockInv
  BY ControlAlways, PTL DEF ControlInv

\* The initial state satisfies the invariant behind OneFeed.
LEMMA FeedInit == Init => FeedInv
<1> SUFFICES ASSUME Init PROVE FeedInv
  OBVIOUS
<1>1. NodesInv /\ EntryInv /\ HandInv
  BY DEF Init, NodesInv, EntryInv, HandInv, Live, Procs
<1>2. QED
  BY <1>1, ControlInit DEF FeedInv, ControlInv

\* The invariant behind OneFeed is inductive when names are orderly.
LEMMA FeedStep == OrderlyNames /\ FeedInv /\ [Next]_vars => FeedInv'
  BY TypeStep, LockStep, LiveStep, CallStep, NodesStep, EntryStep, HandStep DEF FeedInv

\* The invariant behind OneFeed holds of every behaviour with orderly names.
LEMMA FeedAlways ==
  ASSUME OrderlyNames
  PROVE  Spec => []FeedInv
<1>1. FeedInv /\ [Next]_vars => FeedInv'
  BY FeedStep
<1>2. QED
  BY <1>1, FeedInit, PTL DEF Spec

\* Two live sinks that both hold a source are named by the same entry of the
\* table of listeners, and the table of nodes holds one sink per name.
LEMMA FeedInvOneFeed == FeedInv => OneFeed
<1> SUFFICES ASSUME FeedInv,
                    NEW k1 \in Sinks, NEW k2 \in Sinks, NEW s \in Srcs,
                    Live(k1), Live(k2), s \in attached[k1], s \in attached[k2]
             PROVE  k1 = k2
  BY DEF OneFeed
<1>1. nodeName[k1] = nodeName[k2]
  BY DEF FeedInv, EntryInv
<1>2. nodes[nodeName[k1]] = k1 /\ nodes[nodeName[k2]] = k2
  BY DEF FeedInv, NodesInv
<1>3. QED
  BY <1>1, <1>2

\* No source is ever in the listeners of two live sinks, whatever the threads
\* do (listen_node and leave_node of gstinterpipe.c, add_listener and
\* remove_listener of gstinterpipesink.c).
THEOREM OneFeedAlways ==
  ASSUME OrderlyNames
  PROVE  Spec => []OneFeed
  BY FeedAlways, FeedInvOneFeed, PTL

\* When gst_inter_pipe_leave_node returns TRUE, no live sink feeds the source.
THEOREM LeaveDetachesAlways ==
  ASSUME OrderlyNames
  PROVE  Spec => LeaveDetaches
<1> DEFINE Detached(p) ==
      pc[p] \in {"leave", "priv_drop"} /\ pc'[p] = "done" /\ Leaving(p) =>
        \A k \in Sinks : Live(k) => cur[p] \notin attached'[k]
<1>1. ASSUME FeedInv, [Next]_vars, NEW p \in Procs PROVE Detached(p)
  <2> SUFFICES ASSUME pc[p] \in {"leave", "priv_drop"}, pc'[p] = "done", Leaving(p),
                      NEW k \in Sinks, Live(k)
               PROVE  cur[p] \notin attached'[k]
    OBVIOUS
  <2>1. cur[p] \in Srcs /\ cur[p] # NULL
    BY <1>1 DEF FeedInv, CallInv, TypeOK, Locked
  <2>2. CASE LeavePending(p)
    BY <1>1, <2>1, <2>2, NullAssumption DEF LeavePending, EntryOf, FeedInv, EntryInv, NodesInv
  <2>3. CASE PrivDropAndLeave(p)
    BY <1>1, <2>1, <2>3 DEF PrivDropAndLeave, FeedInv, HandInv, CallInv, TypeOK
  <2>4. QED
    BY <1>1, <2>2, <2>3, TrueFromLeave DEF FeedInv
<1>2. QED
  <2>1. FeedInv /\ [Next]_vars => [\A p \in Procs : Detached(p)]_vars
    BY <1>1
  <2>2. QED
    BY <2>1, FeedAlways, PTL DEF Spec, LeaveDetaches

-----------------------------------------------------------------------------
(* A source whose switches are blocked *)

\* A thread in a call that may attach its source.
Attaching(p, s) ==
  /\ cur[p] = s /\ call[p] \in {"listen", "undo", "again"}
  /\ pc[p] \in Locked \union {"listen", "leave", "done", "failed"}

\* Source s is blocked, and neither attached to sink k nor on its way there.
BlockedFrom(s, k) ==
  /\ s \in blocking /\ ~firstSwitch[s] /\ s \notin attached[k]
  /\ \A p \in Procs : ~Attaching(p, s)

\* As long as block-switch is set, no action attaches a blocked source to the
\* sink, and no call is made that could.
LEMMA BlockedStep ==
  ASSUME TypeOK, CallInv, NEW b \in Srcs, NEW m \in Sinks, BlockedFrom(b, m), [Next]_vars
  PROVE  (b \in blocking => BlockedFrom(b, m))'
<1> USE NullAssumption, KindsAssumption DEF TypeOK, Procs, CallInv, BlockedFrom, Attaching,
    Locked, Labels, Leaving, Returned, coreVars, sinkVars, srcVars, callVars, walkVars
<1>1. ASSUME NEW s \in Srcs, NEW n \in NodeNames, PresetListenTo(s, n) PROVE (b \in blocking => BlockedFrom(b, m))'
  BY <1>1 DEF PresetListenTo
<1>2. ASSUME NEW s \in Srcs, NEW n \in NodeNames, SetListenTo(s, n) PROVE (b \in blocking => BlockedFrom(b, m))'
  BY <1>2 DEF SetListenTo, SrcListenNode, Goto
<1>3. ASSUME NEW s \in Srcs, DropListenTo(s) PROVE (b \in blocking => BlockedFrom(b, m))'
  BY <1>3 DEF DropListenTo
<1>4. ASSUME NEW s \in Srcs, UnsetListenTo(s) PROVE (b \in blocking => BlockedFrom(b, m))'
  BY <1>4 DEF UnsetListenTo, CallLeave, Goto
<1>5. ASSUME NEW s \in Srcs, SetBlockSwitch(s) PROVE (b \in blocking => BlockedFrom(b, m))'
  BY <1>5 DEF SetBlockSwitch
<1>6. ASSUME NEW s \in Srcs, StartAlone(s) PROVE (b \in blocking => BlockedFrom(b, m))'
  BY <1>6 DEF StartAlone
<1>7. ASSUME NEW s \in Srcs, Start(s) PROVE (b \in blocking => BlockedFrom(b, m))'
  BY <1>7 DEF Start, SrcListenNode, Goto
<1>8. ASSUME NEW s \in Srcs, StopAlone(s) PROVE (b \in blocking => BlockedFrom(b, m))'
  BY <1>8 DEF StopAlone
<1>9. ASSUME NEW s \in Srcs, Stop(s) PROVE (b \in blocking => BlockedFrom(b, m))'
  BY <1>9 DEF Stop, CallLeave, Goto
<1>10. ASSUME NEW s \in Srcs, FinalizeSrc(s) PROVE (b \in blocking => BlockedFrom(b, m))'
  BY <1>10 DEF FinalizeSrc
<1>11. ASSUME NEW s \in Srcs, SetReturns(s) PROVE (b \in blocking => BlockedFrom(b, m))'
  BY <1>11 DEF SetReturns, Listened, NotListened, Returned, Finish, ForgetCall, Goto
<1>12. ASSUME NEW s \in Srcs, UnsetReturns(s) PROVE (b \in blocking => BlockedFrom(b, m))'
  BY <1>12 DEF UnsetReturns, Left, Returned, Finish, ForgetCall, Goto
<1>13. ASSUME NEW s \in Srcs, StartReturns(s) PROVE (b \in blocking => BlockedFrom(b, m))'
  BY <1>13 DEF StartReturns, Listened, Finish, ForgetCall, Goto
<1>14. ASSUME NEW s \in Srcs, StartFails(s) PROVE (b \in blocking => BlockedFrom(b, m))'
  BY <1>14 DEF StartFails, NotListened, Returned, Finish, ForgetCall, Goto
<1>15. ASSUME NEW s \in Srcs, StopReturns(s) PROVE (b \in blocking => BlockedFrom(b, m))'
  BY <1>15 DEF StopReturns, Left, Returned, Finish, ForgetCall, Goto
<1>16. ASSUME NEW k \in Sinks, NEW n \in NodeNames, CreateSink(k, n) PROVE (b \in blocking => BlockedFrom(b, m))'
  BY <1>16 DEF CreateSink, AddNode, Goto
<1>17. ASSUME NEW k \in Sinks, NEW n \in NodeNames, RenameSink(k, n) PROVE (b \in blocking => BlockedFrom(b, m))'
  BY <1>17 DEF RenameSink, RemoveNode, Goto
<1>18. ASSUME NEW k \in Sinks, FinalizeSink(k) PROVE (b \in blocking => BlockedFrom(b, m))'
  BY <1>18 DEF FinalizeSink, RemoveNode, Goto
<1>19. ASSUME NEW k \in Sinks, Kick(k) PROVE (b \in blocking => BlockedFrom(b, m))'
  BY <1>19 DEF Kick, Goto
<1>20. ASSUME NEW k \in Sinks, NEW l \in ListenerNames, SkipListener(k, l) PROVE (b \in blocking => BlockedFrom(b, m))'
  BY <1>20 DEF SkipListener
<1>21. ASSUME NEW k \in Sinks, NEW l \in ListenerNames, NotifyAdded(k, l) PROVE (b \in blocking => BlockedFrom(b, m))'
  BY <1>21 DEF NotifyAdded, SrcListenNode, Goto
<1>22. ASSUME NEW k \in Sinks, NEW l \in ListenerNames, NotifyRemoved(k, l) PROVE (b \in blocking => BlockedFrom(b, m))'
  BY <1>22 DEF NotifyRemoved, CallLeave, Goto
<1>23. ASSUME NEW k \in Sinks, NEW s \in Srcs, KickNext(k, s) PROVE (b \in blocking => BlockedFrom(b, m))'
  BY <1>23 DEF KickNext, CallLeave, Goto
<1>24. ASSUME NEW k \in Sinks, CallbackReturns(k) PROVE (b \in blocking => BlockedFrom(b, m))'
  BY <1>24 DEF CallbackReturns, Listened, NotListened, Left, Returned, ForgetCall, Goto
<1>25. ASSUME NEW k \in Sinks, NameReturns(k) PROVE (b \in blocking => BlockedFrom(b, m))'
  BY <1>25 DEF NameReturns, WalkOver, Finish, ForgetCall, Goto
<1>26. ASSUME NEW k \in Sinks, RenameRegisters(k) PROVE (b \in blocking => BlockedFrom(b, m))'
  BY <1>26 DEF RenameRegisters, WalkOver, AddNode, Goto
<1>27. ASSUME NEW k \in Sinks, FinalizeReturns(k) PROVE (b \in blocking => BlockedFrom(b, m))'
  BY <1>27 DEF FinalizeReturns, WalkOver, Finish, ForgetCall, Goto
<1>28. ASSUME NEW k \in Sinks, KickReturns(k) PROVE (b \in blocking => BlockedFrom(b, m))'
  BY <1>28 DEF KickReturns, Finish, ForgetCall, Goto
<1>29. ASSUME NEW p \in Procs, AlreadyListening(p) PROVE (b \in blocking => BlockedFrom(b, m))'
  BY <1>29 DEF AlreadyListening, EntryOf, Goto
<1>30. ASSUME NEW p \in Procs, ListenLock(p) PROVE (b \in blocking => BlockedFrom(b, m))'
  BY <1>30 DEF ListenLock, MustLeaveFirst, EntryOf, Goto
<1>31. ASSUME NEW p \in Procs, LeaveUnknown(p) PROVE (b \in blocking => BlockedFrom(b, m))'
  BY <1>31 DEF LeaveUnknown, EntryOf, Goto
<1>32. ASSUME NEW p \in Procs, LeavePending(p) PROVE (b \in blocking => BlockedFrom(b, m))'
  BY <1>32 DEF LeavePending, EntryOf, RemoveEntry, KeysChanged, Goto
<1>33. ASSUME NEW p \in Procs, LeaveLock(p) PROVE (b \in blocking => BlockedFrom(b, m))'
  BY <1>33 DEF LeaveLock, EntryOf, Goto
<1>34. ASSUME NEW p \in Procs, LookupMissing(p) PROVE (b \in blocking => BlockedFrom(b, m))'
  BY <1>34 DEF LookupMissing, EntryOf, InsertEntry, Point, KeysChanged, Goto
<1>35. ASSUME NEW p \in Procs, LookupFound(p) PROVE (b \in blocking => BlockedFrom(b, m))'
  BY <1>35 DEF LookupFound, Goto
<1>36. ASSUME NEW p \in Procs, Attach(p) PROVE (b \in blocking => BlockedFrom(b, m))'
  <2>1. cur[p] # b
    BY <1>36 DEF Attach, Calls
  <2>2. b \notin attached'[m] /\ UNCHANGED <<blocking, firstSwitch, cur, call>>
    BY <1>36, <2>1 DEF Attach
  <2>3. \A q \in Procs : ~Attaching(q, b)'
    BY <1>36, <2>1, <2>2 DEF Attach, Goto
  <2>4. QED
    BY <2>2, <2>3
<1>37. ASSUME NEW p \in Procs, AttachRefused(p) PROVE (b \in blocking => BlockedFrom(b, m))'
  BY <1>37 DEF AttachRefused, Goto
<1>38. ASSUME NEW p \in Procs, PrivNoNode(p) PROVE (b \in blocking => BlockedFrom(b, m))'
  BY <1>38 DEF PrivNoNode, EntryOf, PrivFailed, Point, Leaving, Goto
<1>39. ASSUME NEW p \in Procs, PrivGetNode(p) PROVE (b \in blocking => BlockedFrom(b, m))'
  BY <1>39 DEF PrivGetNode, EntryOf, Goto
<1>40. ASSUME NEW p \in Procs, PrivNotThere(p) PROVE (b \in blocking => BlockedFrom(b, m))'
  BY <1>40 DEF PrivNotThere, EntryOf, PrivFailed, Point, Leaving, Goto
<1>41. ASSUME NEW p \in Procs, PrivDropAndListen(p) PROVE (b \in blocking => BlockedFrom(b, m))'
  BY <1>41 DEF PrivDropAndListen, EntryOf, Leaving, Goto
<1>42. ASSUME NEW p \in Procs, PrivDropAndLeave(p) PROVE (b \in blocking => BlockedFrom(b, m))'
  BY <1>42 DEF PrivDropAndLeave, EntryOf, Leaving, RemoveEntry, KeysChanged, Goto
<1>43. ASSUME NEW p \in Procs, UndoListen(p) PROVE (b \in blocking => BlockedFrom(b, m))'
  BY <1>43 DEF UndoListen, Goto
<1>44. ASSUME NEW p \in Procs, Relisten(p) PROVE (b \in blocking => BlockedFrom(b, m))'
  BY <1>44 DEF Relisten, Returned, Goto
<1>45. ASSUME NEW k \in Sinks, NEW s \in Srcs, CapsChange(k, s) PROVE (b \in blocking => BlockedFrom(b, m))'
  BY <1>45 DEF CapsChange
<1>46. CASE AllFreed
  BY <1>46 DEF AllFreed, vars
<1>47. CASE UNCHANGED vars
  BY <1>47 DEF vars
<1>48. QED
  BY <1>1, <1>2, <1>3, <1>4, <1>5, <1>6, <1>7, <1>8, <1>9, <1>10, <1>11, <1>12, <1>13,
      <1>14, <1>15, <1>16, <1>17, <1>18, <1>19, <1>20, <1>21, <1>22, <1>23, <1>24, <1>25,
      <1>26, <1>27, <1>28, <1>29, <1>30, <1>31, <1>32, <1>33, <1>34, <1>35, <1>36, <1>37,
      <1>38, <1>39, <1>40, <1>41, <1>42, <1>43, <1>44, <1>45, <1>46, <1>47 DEF Next,
      SrcBegins, SrcReturns, SinkBegins, SinkWalks, CoreLocks, CoreHoldsLock, CoreUnlocked

\* block-switch holds (gst_inter_pipe_src_listen_node, gstinterpipesrc.c): once a
\* source has used its first switch, no call of its own, no new node and no
\* other thread attaches it to a sink until block-switch is unset, whatever the
\* names, refusals and evictions.
THEOREM BlockedForGoodAlways == Spec => BlockedForGood
<1>1. ASSUME NEW s \in MayBlock, NEW k \in Sinks
      PROVE  Spec => [](Quiet /\ s \in blocking /\ ~firstSwitch[s] /\ s \notin attached[k] =>
                         [](s \notin attached[k]) \/ <>(s \notin blocking))
  <2>1. s \in Srcs
    BY <1>1, OptionsAssumption
  <2>2. ControlInv /\ BlockedFrom(s, k) /\ [Next]_vars => BlockedFrom(s, k)' \/ (s \notin blocking)'
    BY <2>1, <1>1, BlockedStep DEF ControlInv
  <2>3. ControlInv /\ Quiet /\ s \in blocking /\ ~firstSwitch[s] /\ s \notin attached[k] => BlockedFrom(s, k)
    BY DEF ControlInv, LockInv, Quiet, BlockedFrom, Attaching, Locked
  <2>4. BlockedFrom(s, k) => s \notin attached[k]
    BY DEF BlockedFrom
  <2>5. QED
    BY <2>2, <2>3, <2>4, ControlAlways, PTL DEF Spec
<1>2. QED
  BY <1>1 DEF BlockedForGood

=============================================================================
