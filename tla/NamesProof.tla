----------------------------- MODULE NamesProof -----------------------------
(***************************************************************************)
(* Proofs about the two tables of module InterPipe, for any number of      *)
(* sources, sinks, names and operations in flight, with renames or         *)
(* without: what the table of nodes holds, and whose the entries of the    *)
(* table of listeners are.                                                 *)
(***************************************************************************)
EXTENDS InterPipeProof

\* gst_inter_pipe_remove_node is under way: the sink is not in the table.
Removing(k) == op[k] \in {"unname", "finalize"}

\* Whatever names are given, a sink in the table of nodes is alive, is there
\* under the name it has, and has not begun to remove itself.
TableInv ==
  \A n \in NodeNames : nodes[n] # NULL =>
    nodeName[nodes[n]] = n /\ sinkState[nodes[n]] = "live" /\ ~Removing(nodes[n])

\* When a sink only gets a name no other has, no two live sinks are about to
\* have the same name, and each of them is in the table unless a rename has just
\* taken it out.
FreshInv ==
  /\ \A k \in Sinks : Live(k) /\ op[k] # "unname" =>
       nodes[nodeName[k]] = k /\ objName[k] = nodeName[k]
  /\ \A j, k \in Sinks : Live(j) /\ Live(k) /\ objName[j] = objName[k] => j = k

\* An entry of the table of listeners is under the name of its source.
OwnerInv == \A l \in ListenerNames : listeners[l] # NULL => NameOf[listeners[l].listener] = l

-----------------------------------------------------------------------------
(* The table of nodes *)

\* Every action keeps what the table of nodes holds alive and named.
LEMMA TableStep ==
  ASSUME TypeOK, LiveInv, TableInv, [Next]_vars
  PROVE  TableInv'
<1> USE NullAssumption, KindsAssumption DEF TypeOK, Procs, LiveInv, TableInv, Removing, Ops,
    WalkOps, MayBegin, coreVars, sinkVars, srcVars, callVars, walkVars
<1>1. ASSUME NEW s \in Srcs, NEW n \in NodeNames, PresetListenTo(s, n) PROVE TableInv'
  BY <1>1 DEF PresetListenTo
<1>2. ASSUME NEW s \in Srcs, NEW n \in NodeNames, SetListenTo(s, n) PROVE TableInv'
  BY <1>2 DEF SetListenTo, SrcListenNode, Goto
<1>3. ASSUME NEW s \in Srcs, DropListenTo(s) PROVE TableInv'
  BY <1>3 DEF DropListenTo
<1>4. ASSUME NEW s \in Srcs, UnsetListenTo(s) PROVE TableInv'
  BY <1>4 DEF UnsetListenTo, CallLeave, Goto
<1>5. ASSUME NEW s \in Srcs, SetBlockSwitch(s) PROVE TableInv'
  BY <1>5 DEF SetBlockSwitch
<1>6. ASSUME NEW s \in Srcs, StartAlone(s) PROVE TableInv'
  BY <1>6 DEF StartAlone
<1>7. ASSUME NEW s \in Srcs, Start(s) PROVE TableInv'
  BY <1>7 DEF Start, SrcListenNode, Goto
<1>8. ASSUME NEW s \in Srcs, StopAlone(s) PROVE TableInv'
  BY <1>8 DEF StopAlone
<1>9. ASSUME NEW s \in Srcs, Stop(s) PROVE TableInv'
  BY <1>9 DEF Stop, CallLeave, Goto
<1>10. ASSUME NEW s \in Srcs, FinalizeSrc(s) PROVE TableInv'
  BY <1>10 DEF FinalizeSrc
<1>11. ASSUME NEW s \in Srcs, SetReturns(s) PROVE TableInv'
  BY <1>11 DEF SetReturns, Listened, NotListened, Returned, Finish, ForgetCall, Goto
<1>12. ASSUME NEW s \in Srcs, UnsetReturns(s) PROVE TableInv'
  BY <1>12 DEF UnsetReturns, Left, Returned, Finish, ForgetCall, Goto
<1>13. ASSUME NEW s \in Srcs, StartReturns(s) PROVE TableInv'
  BY <1>13 DEF StartReturns, Listened, Finish, ForgetCall, Goto
<1>14. ASSUME NEW s \in Srcs, StartFails(s) PROVE TableInv'
  BY <1>14 DEF StartFails, NotListened, Returned, Finish, ForgetCall, Goto
<1>15. ASSUME NEW s \in Srcs, StopReturns(s) PROVE TableInv'
  BY <1>15 DEF StopReturns, Left, Returned, Finish, ForgetCall, Goto
<1>16. ASSUME NEW k \in Sinks, NEW n \in NodeNames, CreateSink(k, n) PROVE TableInv'
  BY <1>16 DEF CreateSink, AddNode, Goto
<1>17. ASSUME NEW k \in Sinks, NEW n \in NodeNames, RenameSink(k, n) PROVE TableInv'
  BY <1>17 DEF RenameSink, RemoveNode, Goto
<1>18. ASSUME NEW k \in Sinks, FinalizeSink(k) PROVE TableInv'
  BY <1>18 DEF FinalizeSink, RemoveNode, Goto
<1>19. ASSUME NEW k \in Sinks, Kick(k) PROVE TableInv'
  BY <1>19 DEF Kick, Goto
<1>20. ASSUME NEW k \in Sinks, NEW l \in ListenerNames, SkipListener(k, l) PROVE TableInv'
  BY <1>20 DEF SkipListener
<1>21. ASSUME NEW k \in Sinks, NEW l \in ListenerNames, NotifyAdded(k, l) PROVE TableInv'
  BY <1>21 DEF NotifyAdded, SrcListenNode, Goto
<1>22. ASSUME NEW k \in Sinks, NEW l \in ListenerNames, NotifyRemoved(k, l) PROVE TableInv'
  BY <1>22 DEF NotifyRemoved, CallLeave, Goto
<1>23. ASSUME NEW k \in Sinks, NEW s \in Srcs, KickNext(k, s) PROVE TableInv'
  BY <1>23 DEF KickNext, CallLeave, Goto
<1>24. ASSUME NEW k \in Sinks, CallbackReturns(k) PROVE TableInv'
  BY <1>24 DEF CallbackReturns, Listened, NotListened, Left, Returned, ForgetCall, Goto
<1>25. ASSUME NEW k \in Sinks, NameReturns(k) PROVE TableInv'
  BY <1>25 DEF NameReturns, WalkOver, Finish, ForgetCall, Goto
<1>26. ASSUME NEW k \in Sinks, RenameRegisters(k) PROVE TableInv'
  BY <1>26 DEF RenameRegisters, WalkOver, AddNode, Goto
<1>27. ASSUME NEW k \in Sinks, FinalizeReturns(k) PROVE TableInv'
  BY <1>27 DEF FinalizeReturns, WalkOver, Finish, ForgetCall, Goto
<1>28. ASSUME NEW k \in Sinks, KickReturns(k) PROVE TableInv'
  BY <1>28 DEF KickReturns, Finish, ForgetCall, Goto
<1>29. ASSUME NEW p \in Procs, AlreadyListening(p) PROVE TableInv'
  BY <1>29 DEF AlreadyListening, EntryOf, Goto
<1>30. ASSUME NEW p \in Procs, ListenLock(p) PROVE TableInv'
  BY <1>30 DEF ListenLock, MustLeaveFirst, EntryOf, Goto
<1>31. ASSUME NEW p \in Procs, LeaveUnknown(p) PROVE TableInv'
  BY <1>31 DEF LeaveUnknown, EntryOf, Goto
<1>32. ASSUME NEW p \in Procs, LeavePending(p) PROVE TableInv'
  BY <1>32 DEF LeavePending, EntryOf, RemoveEntry, KeysChanged, Goto
<1>33. ASSUME NEW p \in Procs, LeaveLock(p) PROVE TableInv'
  BY <1>33 DEF LeaveLock, EntryOf, Goto
<1>34. ASSUME NEW p \in Procs, LookupMissing(p) PROVE TableInv'
  BY <1>34 DEF LookupMissing, EntryOf, InsertEntry, Point, KeysChanged, Goto
<1>35. ASSUME NEW p \in Procs, LookupFound(p) PROVE TableInv'
  BY <1>35 DEF LookupFound, Goto
<1>36. ASSUME NEW p \in Procs, Attach(p) PROVE TableInv'
  BY <1>36 DEF Attach, EntryOf, InsertEntry, Point, KeysChanged, Goto
<1>37. ASSUME NEW p \in Procs, AttachRefused(p) PROVE TableInv'
  BY <1>37 DEF AttachRefused, Goto
<1>38. ASSUME NEW p \in Procs, PrivNoNode(p) PROVE TableInv'
  BY <1>38 DEF PrivNoNode, EntryOf, PrivFailed, Point, Leaving, Goto
<1>39. ASSUME NEW p \in Procs, PrivGetNode(p) PROVE TableInv'
  BY <1>39 DEF PrivGetNode, EntryOf, Goto
<1>40. ASSUME NEW p \in Procs, PrivNotThere(p) PROVE TableInv'
  BY <1>40 DEF PrivNotThere, EntryOf, PrivFailed, Point, Leaving, Goto
<1>41. ASSUME NEW p \in Procs, PrivDropAndListen(p) PROVE TableInv'
  BY <1>41 DEF PrivDropAndListen, EntryOf, Leaving, Goto
<1>42. ASSUME NEW p \in Procs, PrivDropAndLeave(p) PROVE TableInv'
  BY <1>42 DEF PrivDropAndLeave, EntryOf, Leaving, RemoveEntry, KeysChanged, Goto
<1>43. ASSUME NEW p \in Procs, UndoListen(p) PROVE TableInv'
  BY <1>43 DEF UndoListen, Goto
<1>44. ASSUME NEW p \in Procs, Relisten(p) PROVE TableInv'
  BY <1>44 DEF Relisten, Returned, Goto
<1>45. ASSUME NEW k \in Sinks, NEW s \in Srcs, CapsChange(k, s) PROVE TableInv'
  BY <1>45 DEF CapsChange
<1>46. CASE AllFreed
  BY <1>46 DEF AllFreed, vars
<1>47. CASE UNCHANGED vars
  BY <1>47 DEF vars
<1>48. QED
  BY <1>1, <1>2, <1>3, <1>4, <1>5, <1>6, <1>7, <1>8, <1>9, <1>10, <1>11, <1>12, <1>13,
      <1>14, <1>15, <1>16, <1>17, <1>18, <1>19, <1>20, <1>21, <1>22, <1>23, <1>24, <1>25,
      <1>26, <1>27, <1>28, <1>29, <1>30, <1>31, <1>32, <1>33, <1>34, <1>35, <1>36, <1>37,
      <1>38, <1>39, <1>40, <1>41, <1>42, <1>43, <1>44, <1>45, <1>46, <1>47 DEF Next,
      SrcBegins, SrcReturns, SinkBegins, SinkWalks, CoreLocks, CoreHoldsLock, CoreUnlocked

\* Every action keeps the names of the live sinks apart: a rename and a
\* registration find their name free.
LEMMA FreshStep ==
  ASSUME FreshNames, TypeOK, LiveInv, TableInv, FreshInv, [Next]_vars
  PROVE  FreshInv'
<1> USE NullAssumption, KindsAssumption DEF TypeOK, Procs, LiveInv, TableInv, FreshInv,
    Live, Removing, Ops, WalkOps, MayBegin, Available, coreVars, sinkVars, srcVars,
    callVars, walkVars
<1>1. ASSUME NEW s \in Srcs, NEW n \in NodeNames, PresetListenTo(s, n) PROVE FreshInv'
  BY <1>1 DEF PresetListenTo
<1>2. ASSUME NEW s \in Srcs, NEW n \in NodeNames, SetListenTo(s, n) PROVE FreshInv'
  BY <1>2 DEF SetListenTo, SrcListenNode, Goto
<1>3. ASSUME NEW s \in Srcs, DropListenTo(s) PROVE FreshInv'
  BY <1>3 DEF DropListenTo
<1>4. ASSUME NEW s \in Srcs, UnsetListenTo(s) PROVE FreshInv'
  BY <1>4 DEF UnsetListenTo, CallLeave, Goto
<1>5. ASSUME NEW s \in Srcs, SetBlockSwitch(s) PROVE FreshInv'
  BY <1>5 DEF SetBlockSwitch
<1>6. ASSUME NEW s \in Srcs, StartAlone(s) PROVE FreshInv'
  BY <1>6 DEF StartAlone
<1>7. ASSUME NEW s \in Srcs, Start(s) PROVE FreshInv'
  BY <1>7 DEF Start, SrcListenNode, Goto
<1>8. ASSUME NEW s \in Srcs, StopAlone(s) PROVE FreshInv'
  BY <1>8 DEF StopAlone
<1>9. ASSUME NEW s \in Srcs, Stop(s) PROVE FreshInv'
  BY <1>9 DEF Stop, CallLeave, Goto
<1>10. ASSUME NEW s \in Srcs, FinalizeSrc(s) PROVE FreshInv'
  BY <1>10 DEF FinalizeSrc
<1>11. ASSUME NEW s \in Srcs, SetReturns(s) PROVE FreshInv'
  BY <1>11 DEF SetReturns, Listened, NotListened, Returned, Finish, ForgetCall, Goto
<1>12. ASSUME NEW s \in Srcs, UnsetReturns(s) PROVE FreshInv'
  BY <1>12 DEF UnsetReturns, Left, Returned, Finish, ForgetCall, Goto
<1>13. ASSUME NEW s \in Srcs, StartReturns(s) PROVE FreshInv'
  BY <1>13 DEF StartReturns, Listened, Finish, ForgetCall, Goto
<1>14. ASSUME NEW s \in Srcs, StartFails(s) PROVE FreshInv'
  BY <1>14 DEF StartFails, NotListened, Returned, Finish, ForgetCall, Goto
<1>15. ASSUME NEW s \in Srcs, StopReturns(s) PROVE FreshInv'
  BY <1>15 DEF StopReturns, Left, Returned, Finish, ForgetCall, Goto
<1>16. ASSUME NEW k \in Sinks, NEW n \in NodeNames, CreateSink(k, n) PROVE FreshInv'
  BY <1>16 DEF CreateSink, AddNode, Goto
<1>17. ASSUME NEW k \in Sinks, NEW n \in NodeNames, RenameSink(k, n) PROVE FreshInv'
  BY <1>17 DEF RenameSink, RemoveNode, Goto
<1>18. ASSUME NEW k \in Sinks, FinalizeSink(k) PROVE FreshInv'
  BY <1>18 DEF FinalizeSink, RemoveNode, Goto
<1>19. ASSUME NEW k \in Sinks, Kick(k) PROVE FreshInv'
  BY <1>19 DEF Kick, Goto
<1>20. ASSUME NEW k \in Sinks, NEW l \in ListenerNames, SkipListener(k, l) PROVE FreshInv'
  BY <1>20 DEF SkipListener
<1>21. ASSUME NEW k \in Sinks, NEW l \in ListenerNames, NotifyAdded(k, l) PROVE FreshInv'
  BY <1>21 DEF NotifyAdded, SrcListenNode, Goto
<1>22. ASSUME NEW k \in Sinks, NEW l \in ListenerNames, NotifyRemoved(k, l) PROVE FreshInv'
  BY <1>22 DEF NotifyRemoved, CallLeave, Goto
<1>23. ASSUME NEW k \in Sinks, NEW s \in Srcs, KickNext(k, s) PROVE FreshInv'
  BY <1>23 DEF KickNext, CallLeave, Goto
<1>24. ASSUME NEW k \in Sinks, CallbackReturns(k) PROVE FreshInv'
  BY <1>24 DEF CallbackReturns, Listened, NotListened, Left, Returned, ForgetCall, Goto
<1>25. ASSUME NEW k \in Sinks, NameReturns(k) PROVE FreshInv'
  BY <1>25 DEF NameReturns, WalkOver, Finish, ForgetCall, Goto
<1>26. ASSUME NEW k \in Sinks, RenameRegisters(k) PROVE FreshInv'
  BY <1>26 DEF RenameRegisters, WalkOver, AddNode, Goto
<1>27. ASSUME NEW k \in Sinks, FinalizeReturns(k) PROVE FreshInv'
  BY <1>27 DEF FinalizeReturns, WalkOver, Finish, ForgetCall, Goto
<1>28. ASSUME NEW k \in Sinks, KickReturns(k) PROVE FreshInv'
  BY <1>28 DEF KickReturns, Finish, ForgetCall, Goto
<1>29. ASSUME NEW p \in Procs, AlreadyListening(p) PROVE FreshInv'
  BY <1>29 DEF AlreadyListening, EntryOf, Goto
<1>30. ASSUME NEW p \in Procs, ListenLock(p) PROVE FreshInv'
  BY <1>30 DEF ListenLock, MustLeaveFirst, EntryOf, Goto
<1>31. ASSUME NEW p \in Procs, LeaveUnknown(p) PROVE FreshInv'
  BY <1>31 DEF LeaveUnknown, EntryOf, Goto
<1>32. ASSUME NEW p \in Procs, LeavePending(p) PROVE FreshInv'
  BY <1>32 DEF LeavePending, EntryOf, RemoveEntry, KeysChanged, Goto
<1>33. ASSUME NEW p \in Procs, LeaveLock(p) PROVE FreshInv'
  BY <1>33 DEF LeaveLock, EntryOf, Goto
<1>34. ASSUME NEW p \in Procs, LookupMissing(p) PROVE FreshInv'
  BY <1>34 DEF LookupMissing, EntryOf, InsertEntry, Point, KeysChanged, Goto
<1>35. ASSUME NEW p \in Procs, LookupFound(p) PROVE FreshInv'
  BY <1>35 DEF LookupFound, Goto
<1>36. ASSUME NEW p \in Procs, Attach(p) PROVE FreshInv'
  BY <1>36 DEF Attach, EntryOf, InsertEntry, Point, KeysChanged, Goto
<1>37. ASSUME NEW p \in Procs, AttachRefused(p) PROVE FreshInv'
  BY <1>37 DEF AttachRefused, Goto
<1>38. ASSUME NEW p \in Procs, PrivNoNode(p) PROVE FreshInv'
  BY <1>38 DEF PrivNoNode, EntryOf, PrivFailed, Point, Leaving, Goto
<1>39. ASSUME NEW p \in Procs, PrivGetNode(p) PROVE FreshInv'
  BY <1>39 DEF PrivGetNode, EntryOf, Goto
<1>40. ASSUME NEW p \in Procs, PrivNotThere(p) PROVE FreshInv'
  BY <1>40 DEF PrivNotThere, EntryOf, PrivFailed, Point, Leaving, Goto
<1>41. ASSUME NEW p \in Procs, PrivDropAndListen(p) PROVE FreshInv'
  BY <1>41 DEF PrivDropAndListen, EntryOf, Leaving, Goto
<1>42. ASSUME NEW p \in Procs, PrivDropAndLeave(p) PROVE FreshInv'
  BY <1>42 DEF PrivDropAndLeave, EntryOf, Leaving, RemoveEntry, KeysChanged, Goto
<1>43. ASSUME NEW p \in Procs, UndoListen(p) PROVE FreshInv'
  BY <1>43 DEF UndoListen, Goto
<1>44. ASSUME NEW p \in Procs, Relisten(p) PROVE FreshInv'
  BY <1>44 DEF Relisten, Returned, Goto
<1>45. ASSUME NEW k \in Sinks, NEW s \in Srcs, CapsChange(k, s) PROVE FreshInv'
  BY <1>45 DEF CapsChange
<1>46. CASE AllFreed
  BY <1>46 DEF AllFreed, vars
<1>47. CASE UNCHANGED vars
  BY <1>47 DEF vars
<1>48. QED
  BY <1>1, <1>2, <1>3, <1>4, <1>5, <1>6, <1>7, <1>8, <1>9, <1>10, <1>11, <1>12, <1>13,
      <1>14, <1>15, <1>16, <1>17, <1>18, <1>19, <1>20, <1>21, <1>22, <1>23, <1>24, <1>25,
      <1>26, <1>27, <1>28, <1>29, <1>30, <1>31, <1>32, <1>33, <1>34, <1>35, <1>36, <1>37,
      <1>38, <1>39, <1>40, <1>41, <1>42, <1>43, <1>44, <1>45, <1>46, <1>47 DEF Next,
      SrcBegins, SrcReturns, SinkBegins, SinkWalks, CoreLocks, CoreHoldsLock, CoreUnlocked

\* The table of nodes in every behaviour, whatever the names.
LEMMA TableAlways == Spec => [](ControlInv /\ TableInv)
<1>1. Init => TableInv
  BY DEF Init, TableInv
<1>2. ControlInv /\ TableInv /\ [Next]_vars => TableInv'
  BY TableStep DEF ControlInv
<1>3. QED
  BY <1>1, <1>2, ControlAlways, PTL DEF Spec

\* The names of the sinks in every behaviour that gives fresh names.
LEMMA FreshAlways ==
  ASSUME FreshNames
  PROVE  Spec => []FreshInv
<1>1. Init => FreshInv
  BY DEF Init, FreshInv, Live
<1>2. ControlInv /\ TableInv /\ FreshInv /\ [Next]_vars => FreshInv'
  BY FreshStep DEF ControlInv
<1>3. QED
  BY <1>1, <1>2, TableAlways, PTL DEF Spec

\* The table of nodes holds exactly the live sinks, each under its own name
\* (add_node, remove_node, and the notify::name handler of the sink), also with
\* renames and with any number of threads, when names are fresh.
THEOREM NamesAgreeAlways ==
  ASSUME FreshNames
  PROVE  Spec => []NamesAgree
<1>1. ControlInv /\ TableInv /\ FreshInv => NamesAgree
  <2> SUFFICES ASSUME ControlInv, TableInv, FreshInv, Quiet, NEW n \in NodeNames, NEW k \in Sinks
               PROVE  nodes[n] = k <=> Live(k) /\ nodeName[k] = n /\ objName[k] = n
    BY DEF NamesAgree
  <2>1. op[k] = "idle"
    BY DEF Quiet, Procs
  <2>2. ASSUME nodes[n] = k PROVE Live(k) /\ nodeName[k] = n
    BY <2>1, <2>2, NullAssumption DEF TableInv, Live
  <2>3. QED
    BY <2>1, <2>2 DEF FreshInv
<1>2. QED
  BY <1>1, TableAlways, FreshAlways, PTL

-----------------------------------------------------------------------------
(* The table of listeners *)

\* Pointing an entry elsewhere leaves it to its source.
LEMMA PointOwner ==
  ASSUME NEW p \in Procs, TypeOK, OwnerInv, cur[p] # NULL, EntryOf(p) # NULL,
         NEW n \in NodeNames \union {NULL}, Point(p, n)
  PROVE  OwnerInv'
<1> DEFINE e == listeners[NameOf[cur[p]]]
<1>1. NameOf[cur[p]] \in ListenerNames /\ cur[p] \in Srcs
  BY NameOfAssumption DEF TypeOK
<1>2. e # NULL /\ e \in Entry
  BY <1>1 DEF TypeOK, EntryOf
<1>3. [e EXCEPT !.listen_to = n] = [listener |-> e.listener, listen_to |-> n]
  BY <1>2 DEF Entry
<1>4. listeners' = [listeners EXCEPT ![NameOf[cur[p]]] = [listener |-> e.listener, listen_to |-> n]]
  BY <1>3 DEF Point
<1>5. NameOf[e.listener] = NameOf[cur[p]]
  BY <1>1, <1>2 DEF OwnerInv
<1>6. QED
  BY <1>1, <1>4, <1>5 DEF OwnerInv, TypeOK

\* What InsertEntry puts into the table is the entry of the source in hand.
LEMMA InsertOwner ==
  ASSUME NEW p \in Procs, TypeOK, OwnerInv, cur[p] # NULL,
         NEW n \in NodeNames \union {NULL}, InsertEntry(p, n)
  PROVE  OwnerInv'
<1>1. NameOf[cur[p]] \in ListenerNames /\ cur[p] \in Srcs
  BY NameOfAssumption DEF TypeOK
<1>2. listeners[NameOf[cur[p]]] # NULL => listeners[NameOf[cur[p]]] \in Entry
  BY <1>1 DEF TypeOK
<1>3. CASE EntryOf(p) # NULL /\ Point(p, n)
  BY <1>3, PointOwner
<1>4. CASE listeners' = [listeners EXCEPT ![NameOf[cur[p]]] = [listener |-> cur[p], listen_to |-> n]]
  BY <1>1, <1>4 DEF OwnerInv, TypeOK
<1>5. QED
  BY <1>3, <1>4 DEF InsertEntry

\* Every action leaves each entry to its source.
LEMMA OwnerStep ==
  ASSUME TypeOK, CallInv, OwnerInv, [Next]_vars
  PROVE  OwnerInv'
<1> USE DEF coreVars, sinkVars, srcVars, callVars, walkVars
<1>1. ASSUME NEW s \in Srcs, NEW n \in NodeNames, PresetListenTo(s, n) PROVE OwnerInv'
  BY <1>1 DEF PresetListenTo, OwnerInv
<1>2. ASSUME NEW s \in Srcs, NEW n \in NodeNames, SetListenTo(s, n) PROVE OwnerInv'
  BY <1>2 DEF SetListenTo, SrcListenNode, Goto, OwnerInv
<1>3. ASSUME NEW s \in Srcs, DropListenTo(s) PROVE OwnerInv'
  BY <1>3 DEF DropListenTo, OwnerInv
<1>4. ASSUME NEW s \in Srcs, UnsetListenTo(s) PROVE OwnerInv'
  BY <1>4 DEF UnsetListenTo, CallLeave, Goto, OwnerInv
<1>5. ASSUME NEW s \in Srcs, SetBlockSwitch(s) PROVE OwnerInv'
  BY <1>5 DEF SetBlockSwitch, OwnerInv
<1>6. ASSUME NEW s \in Srcs, StartAlone(s) PROVE OwnerInv'
  BY <1>6 DEF StartAlone, OwnerInv
<1>7. ASSUME NEW s \in Srcs, Start(s) PROVE OwnerInv'
  BY <1>7 DEF Start, SrcListenNode, Goto, OwnerInv
<1>8. ASSUME NEW s \in Srcs, StopAlone(s) PROVE OwnerInv'
  BY <1>8 DEF StopAlone, OwnerInv
<1>9. ASSUME NEW s \in Srcs, Stop(s) PROVE OwnerInv'
  BY <1>9 DEF Stop, CallLeave, Goto, OwnerInv
<1>10. ASSUME NEW s \in Srcs, FinalizeSrc(s) PROVE OwnerInv'
  BY <1>10 DEF FinalizeSrc, OwnerInv
<1>11. ASSUME NEW s \in Srcs, SetReturns(s) PROVE OwnerInv'
  BY <1>11 DEF SetReturns, Listened, NotListened, Returned, Finish, ForgetCall, Goto, OwnerInv
<1>12. ASSUME NEW s \in Srcs, UnsetReturns(s) PROVE OwnerInv'
  BY <1>12 DEF UnsetReturns, Left, Returned, Finish, ForgetCall, Goto, OwnerInv
<1>13. ASSUME NEW s \in Srcs, StartReturns(s) PROVE OwnerInv'
  BY <1>13 DEF StartReturns, Listened, Finish, ForgetCall, Goto, OwnerInv
<1>14. ASSUME NEW s \in Srcs, StartFails(s) PROVE OwnerInv'
  BY <1>14 DEF StartFails, NotListened, Returned, Finish, ForgetCall, Goto, OwnerInv
<1>15. ASSUME NEW s \in Srcs, StopReturns(s) PROVE OwnerInv'
  BY <1>15 DEF StopReturns, Left, Returned, Finish, ForgetCall, Goto, OwnerInv
<1>16. ASSUME NEW k \in Sinks, NEW n \in NodeNames, CreateSink(k, n) PROVE OwnerInv'
  BY <1>16 DEF CreateSink, AddNode, Goto, OwnerInv
<1>17. ASSUME NEW k \in Sinks, NEW n \in NodeNames, RenameSink(k, n) PROVE OwnerInv'
  BY <1>17 DEF RenameSink, RemoveNode, Goto, OwnerInv
<1>18. ASSUME NEW k \in Sinks, FinalizeSink(k) PROVE OwnerInv'
  BY <1>18 DEF FinalizeSink, RemoveNode, Goto, OwnerInv
<1>19. ASSUME NEW k \in Sinks, Kick(k) PROVE OwnerInv'
  BY <1>19 DEF Kick, Goto, OwnerInv
<1>20. ASSUME NEW k \in Sinks, NEW l \in ListenerNames, SkipListener(k, l) PROVE OwnerInv'
  BY <1>20 DEF SkipListener, OwnerInv
<1>21. ASSUME NEW k \in Sinks, NEW l \in ListenerNames, NotifyAdded(k, l) PROVE OwnerInv'
  BY <1>21 DEF NotifyAdded, SrcListenNode, Goto, OwnerInv
<1>22. ASSUME NEW k \in Sinks, NEW l \in ListenerNames, NotifyRemoved(k, l) PROVE OwnerInv'
  BY <1>22 DEF NotifyRemoved, CallLeave, Goto, OwnerInv
<1>23. ASSUME NEW k \in Sinks, NEW s \in Srcs, KickNext(k, s) PROVE OwnerInv'
  BY <1>23 DEF KickNext, CallLeave, Goto, OwnerInv
<1>24. ASSUME NEW k \in Sinks, CallbackReturns(k) PROVE OwnerInv'
  BY <1>24 DEF CallbackReturns, Listened, NotListened, Left, Returned, ForgetCall, Goto, OwnerInv
<1>25. ASSUME NEW k \in Sinks, NameReturns(k) PROVE OwnerInv'
  BY <1>25 DEF NameReturns, WalkOver, Finish, ForgetCall, Goto, OwnerInv
<1>26. ASSUME NEW k \in Sinks, RenameRegisters(k) PROVE OwnerInv'
  BY <1>26 DEF RenameRegisters, WalkOver, AddNode, Goto, OwnerInv
<1>27. ASSUME NEW k \in Sinks, FinalizeReturns(k) PROVE OwnerInv'
  BY <1>27 DEF FinalizeReturns, WalkOver, Finish, ForgetCall, Goto, OwnerInv
<1>28. ASSUME NEW k \in Sinks, KickReturns(k) PROVE OwnerInv'
  BY <1>28 DEF KickReturns, Finish, ForgetCall, Goto, OwnerInv
<1>29. ASSUME NEW p \in Procs, AlreadyListening(p) PROVE OwnerInv'
  BY <1>29 DEF AlreadyListening, EntryOf, Goto, OwnerInv
<1>30. ASSUME NEW p \in Procs, ListenLock(p) PROVE OwnerInv'
  BY <1>30 DEF ListenLock, MustLeaveFirst, EntryOf, Goto, OwnerInv
<1>31. ASSUME NEW p \in Procs, LeaveUnknown(p) PROVE OwnerInv'
  BY <1>31 DEF LeaveUnknown, EntryOf, Goto, OwnerInv
<1>32. ASSUME NEW p \in Procs, LeavePending(p) PROVE OwnerInv'
  BY <1>32, NameOfAssumption, NullAssumption DEF LeavePending, RemoveEntry, OwnerInv, TypeOK
<1>33. ASSUME NEW p \in Procs, LeaveLock(p) PROVE OwnerInv'
  BY <1>33 DEF LeaveLock, EntryOf, Goto, OwnerInv
<1>34. ASSUME NEW p \in Procs, LookupMissing(p) PROVE OwnerInv'
  <2>1. cur[p] # NULL /\ NULL \in NodeNames \union {NULL} /\ InsertEntry(p, NULL)
    BY <1>34 DEF LookupMissing, CallInv, Locked, Leaving, TypeOK
  <2>2. QED
    BY <2>1, InsertOwner
<1>35. ASSUME NEW p \in Procs, LookupFound(p) PROVE OwnerInv'
  BY <1>35 DEF LookupFound, Goto, OwnerInv
<1>36. ASSUME NEW p \in Procs, Attach(p) PROVE OwnerInv'
  <2>1. cur[p] # NULL /\ want[p] \in NodeNames \union {NULL} /\ InsertEntry(p, want[p])
    BY <1>36 DEF Attach, CallInv, Locked, Leaving, TypeOK
  <2>2. QED
    BY <2>1, InsertOwner
<1>37. ASSUME NEW p \in Procs, AttachRefused(p) PROVE OwnerInv'
  BY <1>37 DEF AttachRefused, Goto, OwnerInv
<1>38. ASSUME NEW p \in Procs, PrivNoNode(p) PROVE OwnerInv'
  <2>1. cur[p] # NULL /\ EntryOf(p) # NULL /\ Point(p, NULL)
    BY <1>38 DEF PrivNoNode, PrivFailed, CallInv, Locked
  <2>2. QED
    BY <2>1, PointOwner
<1>39. ASSUME NEW p \in Procs, PrivGetNode(p) PROVE OwnerInv'
  BY <1>39 DEF PrivGetNode, EntryOf, Goto, OwnerInv
<1>40. ASSUME NEW p \in Procs, PrivNotThere(p) PROVE OwnerInv'
  <2>1. cur[p] # NULL /\ EntryOf(p) # NULL /\ Point(p, NULL)
    BY <1>40 DEF PrivNotThere, PrivFailed, CallInv, Locked
  <2>2. QED
    BY <2>1, PointOwner
<1>41. ASSUME NEW p \in Procs, PrivDropAndListen(p) PROVE OwnerInv'
  BY <1>41 DEF PrivDropAndListen, EntryOf, Leaving, Goto, OwnerInv
<1>42. ASSUME NEW p \in Procs, PrivDropAndLeave(p) PROVE OwnerInv'
  BY <1>42, NameOfAssumption, NullAssumption DEF PrivDropAndLeave, RemoveEntry, OwnerInv, TypeOK
<1>43. ASSUME NEW p \in Procs, UndoListen(p) PROVE OwnerInv'
  BY <1>43 DEF UndoListen, Goto, OwnerInv
<1>44. ASSUME NEW p \in Procs, Relisten(p) PROVE OwnerInv'
  BY <1>44 DEF Relisten, Returned, Goto, OwnerInv
<1>45. ASSUME NEW k \in Sinks, NEW s \in Srcs, CapsChange(k, s) PROVE OwnerInv'
  BY <1>45 DEF CapsChange, OwnerInv
<1>46. CASE AllFreed
  BY <1>46 DEF AllFreed, vars, OwnerInv
<1>47. CASE UNCHANGED vars
  BY <1>47 DEF vars, OwnerInv
<1>48. QED
  BY <1>1, <1>2, <1>3, <1>4, <1>5, <1>6, <1>7, <1>8, <1>9, <1>10, <1>11, <1>12, <1>13,
      <1>14, <1>15, <1>16, <1>17, <1>18, <1>19, <1>20, <1>21, <1>22, <1>23, <1>24, <1>25,
      <1>26, <1>27, <1>28, <1>29, <1>30, <1>31, <1>32, <1>33, <1>34, <1>35, <1>36, <1>37,
      <1>38, <1>39, <1>40, <1>41, <1>42, <1>43, <1>44, <1>45, <1>46, <1>47 DEF Next,
      SrcBegins, SrcReturns, SinkBegins, SinkWalks, CoreLocks, CoreHoldsLock, CoreUnlocked

\* The entries of the table of listeners in every behaviour.
LEMMA OwnerAlways == Spec => []OwnerInv
<1>1. Init => OwnerInv
  BY DEF Init, OwnerInv
<1>2. ControlInv /\ OwnerInv /\ [Next]_vars => OwnerInv'
  BY OwnerStep DEF ControlInv
<1>3. QED
  BY <1>1, <1>2, ControlAlways, PTL DEF Spec

\* listen_node comes to say TRUE in three places.
LEMMA TrueFromListen ==
  ASSUME NEW q \in Procs, TypeOK, LockInv, LiveInv, CallInv, ~Leaving(q), pc[q] # "done", pc'[q] = "done", [Next]_vars
  PROVE  AlreadyListening(q) \/ LookupMissing(q) \/ Attach(q)
<1> USE DEF TypeOK, Procs, LockInv, LiveInv, CallInv, Locked, Labels, MayBegin, Returned,
    Leaving, coreVars, sinkVars, srcVars, callVars, walkVars
<1>1. ASSUME NEW s \in Srcs, NEW n \in NodeNames, PresetListenTo(s, n) PROVE AlreadyListening(q) \/ LookupMissing(q) \/ Attach(q)
  BY <1>1 DEF PresetListenTo
<1>2. ASSUME NEW s \in Srcs, NEW n \in NodeNames, SetListenTo(s, n) PROVE AlreadyListening(q) \/ LookupMissing(q) \/ Attach(q)
  BY <1>2 DEF SetListenTo, SrcListenNode, Goto
<1>3. ASSUME NEW s \in Srcs, DropListenTo(s) PROVE AlreadyListening(q) \/ LookupMissing(q) \/ Attach(q)
  BY <1>3 DEF DropListenTo
<1>4. ASSUME NEW s \in Srcs, UnsetListenTo(s) PROVE AlreadyListening(q) \/ LookupMissing(q) \/ Attach(q)
  BY <1>4 DEF UnsetListenTo, CallLeave, Goto
<1>5. ASSUME NEW s \in Srcs, SetBlockSwitch(s) PROVE AlreadyListening(q) \/ LookupMissing(q) \/ Attach(q)
  BY <1>5 DEF SetBlockSwitch
<1>6. ASSUME NEW s \in Srcs, StartAlone(s) PROVE AlreadyListening(q) \/ LookupMissing(q) \/ Attach(q)
  BY <1>6 DEF StartAlone
<1>7. ASSUME NEW s \in Srcs, Start(s) PROVE AlreadyListening(q) \/ LookupMissing(q) \/ Attach(q)
  BY <1>7 DEF Start, SrcListenNode, Goto
<1>8. ASSUME NEW s \in Srcs, StopAlone(s) PROVE AlreadyListening(q) \/ LookupMissing(q) \/ Attach(q)
  BY <1>8 DEF StopAlone
<1>9. ASSUME NEW s \in Srcs, Stop(s) PROVE AlreadyListening(q) \/ LookupMissing(q) \/ Attach(q)
  BY <1>9 DEF Stop, CallLeave, Goto
<1>10. ASSUME NEW s \in Srcs, FinalizeSrc(s) PROVE AlreadyListening(q) \/ LookupMissing(q) \/ Attach(q)
  BY <1>10 DEF FinalizeSrc
<1>11. ASSUME NEW s \in Srcs, SetReturns(s) PROVE AlreadyListening(q) \/ LookupMissing(q) \/ Attach(q)
  BY <1>11 DEF SetReturns, Listened, NotListened, Returned, Finish, ForgetCall, Goto
<1>12. ASSUME NEW s \in Srcs, UnsetReturns(s) PROVE AlreadyListening(q) \/ LookupMissing(q) \/ Attach(q)
  BY <1>12 DEF UnsetReturns, Left, Returned, Finish, ForgetCall, Goto
<1>13. ASSUME NEW s \in Srcs, StartReturns(s) PROVE AlreadyListening(q) \/ LookupMissing(q) \/ Attach(q)
  BY <1>13 DEF StartReturns, Listened, Finish, ForgetCall, Goto
<1>14. ASSUME NEW s \in Srcs, StartFails(s) PROVE AlreadyListening(q) \/ LookupMissing(q) \/ Attach(q)
  BY <1>14 DEF StartFails, NotListened, Returned, Finish, ForgetCall, Goto
<1>15. ASSUME NEW s \in Srcs, StopReturns(s) PROVE AlreadyListening(q) \/ LookupMissing(q) \/ Attach(q)
  BY <1>15 DEF StopReturns, Left, Returned, Finish, ForgetCall, Goto
<1>16. ASSUME NEW k \in Sinks, NEW n \in NodeNames, CreateSink(k, n) PROVE AlreadyListening(q) \/ LookupMissing(q) \/ Attach(q)
  BY <1>16 DEF CreateSink, AddNode, Goto
<1>17. ASSUME NEW k \in Sinks, NEW n \in NodeNames, RenameSink(k, n) PROVE AlreadyListening(q) \/ LookupMissing(q) \/ Attach(q)
  BY <1>17 DEF RenameSink, RemoveNode, Goto
<1>18. ASSUME NEW k \in Sinks, FinalizeSink(k) PROVE AlreadyListening(q) \/ LookupMissing(q) \/ Attach(q)
  BY <1>18 DEF FinalizeSink, RemoveNode, Goto
<1>19. ASSUME NEW k \in Sinks, Kick(k) PROVE AlreadyListening(q) \/ LookupMissing(q) \/ Attach(q)
  BY <1>19 DEF Kick, Goto
<1>20. ASSUME NEW k \in Sinks, NEW l \in ListenerNames, SkipListener(k, l) PROVE AlreadyListening(q) \/ LookupMissing(q) \/ Attach(q)
  BY <1>20 DEF SkipListener
<1>21. ASSUME NEW k \in Sinks, NEW l \in ListenerNames, NotifyAdded(k, l) PROVE AlreadyListening(q) \/ LookupMissing(q) \/ Attach(q)
  BY <1>21 DEF NotifyAdded, SrcListenNode, Goto
<1>22. ASSUME NEW k \in Sinks, NEW l \in ListenerNames, NotifyRemoved(k, l) PROVE AlreadyListening(q) \/ LookupMissing(q) \/ Attach(q)
  BY <1>22 DEF NotifyRemoved, CallLeave, Goto
<1>23. ASSUME NEW k \in Sinks, NEW s \in Srcs, KickNext(k, s) PROVE AlreadyListening(q) \/ LookupMissing(q) \/ Attach(q)
  BY <1>23 DEF KickNext, CallLeave, Goto
<1>24. ASSUME NEW k \in Sinks, CallbackReturns(k) PROVE AlreadyListening(q) \/ LookupMissing(q) \/ Attach(q)
  BY <1>24 DEF CallbackReturns, Listened, NotListened, Left, Returned, ForgetCall, Goto
<1>25. ASSUME NEW k \in Sinks, NameReturns(k) PROVE AlreadyListening(q) \/ LookupMissing(q) \/ Attach(q)
  BY <1>25 DEF NameReturns, WalkOver, Finish, ForgetCall, Goto
<1>26. ASSUME NEW k \in Sinks, RenameRegisters(k) PROVE AlreadyListening(q) \/ LookupMissing(q) \/ Attach(q)
  BY <1>26 DEF RenameRegisters, WalkOver, AddNode, Goto
<1>27. ASSUME NEW k \in Sinks, FinalizeReturns(k) PROVE AlreadyListening(q) \/ LookupMissing(q) \/ Attach(q)
  BY <1>27 DEF FinalizeReturns, WalkOver, Finish, ForgetCall, Goto
<1>28. ASSUME NEW k \in Sinks, KickReturns(k) PROVE AlreadyListening(q) \/ LookupMissing(q) \/ Attach(q)
  BY <1>28 DEF KickReturns, Finish, ForgetCall, Goto
<1>29. ASSUME NEW p \in Procs, AlreadyListening(p) PROVE AlreadyListening(q) \/ LookupMissing(q) \/ Attach(q)
  BY <1>29 DEF AlreadyListening, EntryOf, Goto
<1>30. ASSUME NEW p \in Procs, ListenLock(p) PROVE AlreadyListening(q) \/ LookupMissing(q) \/ Attach(q)
  BY <1>30 DEF ListenLock, MustLeaveFirst, EntryOf, Goto
<1>31. ASSUME NEW p \in Procs, LeaveUnknown(p) PROVE AlreadyListening(q) \/ LookupMissing(q) \/ Attach(q)
  BY <1>31 DEF LeaveUnknown, EntryOf, Goto
<1>32. ASSUME NEW p \in Procs, LeavePending(p) PROVE AlreadyListening(q) \/ LookupMissing(q) \/ Attach(q)
  BY <1>32 DEF LeavePending, EntryOf, RemoveEntry, KeysChanged, Goto
<1>33. ASSUME NEW p \in Procs, LeaveLock(p) PROVE AlreadyListening(q) \/ LookupMissing(q) \/ Attach(q)
  BY <1>33 DEF LeaveLock, EntryOf, Goto
<1>34. ASSUME NEW p \in Procs, LookupMissing(p) PROVE AlreadyListening(q) \/ LookupMissing(q) \/ Attach(q)
  BY <1>34 DEF LookupMissing, EntryOf, InsertEntry, Point, KeysChanged, Goto
<1>35. ASSUME NEW p \in Procs, LookupFound(p) PROVE AlreadyListening(q) \/ LookupMissing(q) \/ Attach(q)
  BY <1>35 DEF LookupFound, Goto
<1>36. ASSUME NEW p \in Procs, Attach(p) PROVE AlreadyListening(q) \/ LookupMissing(q) \/ Attach(q)
  BY <1>36 DEF Attach, EntryOf, InsertEntry, Point, KeysChanged, Goto
<1>37. ASSUME NEW p \in Procs, AttachRefused(p) PROVE AlreadyListening(q) \/ LookupMissing(q) \/ Attach(q)
  BY <1>37 DEF AttachRefused, Goto
<1>38. ASSUME NEW p \in Procs, PrivNoNode(p) PROVE AlreadyListening(q) \/ LookupMissing(q) \/ Attach(q)
  BY <1>38 DEF PrivNoNode, EntryOf, PrivFailed, Point, Leaving, Goto
<1>39. ASSUME NEW p \in Procs, PrivGetNode(p) PROVE AlreadyListening(q) \/ LookupMissing(q) \/ Attach(q)
  BY <1>39 DEF PrivGetNode, EntryOf, Goto
<1>40. ASSUME NEW p \in Procs, PrivNotThere(p) PROVE AlreadyListening(q) \/ LookupMissing(q) \/ Attach(q)
  BY <1>40 DEF PrivNotThere, EntryOf, PrivFailed, Point, Leaving, Goto
<1>41. ASSUME NEW p \in Procs, PrivDropAndListen(p) PROVE AlreadyListening(q) \/ LookupMissing(q) \/ Attach(q)
  BY <1>41 DEF PrivDropAndListen, EntryOf, Leaving, Goto
<1>42. ASSUME NEW p \in Procs, PrivDropAndLeave(p) PROVE AlreadyListening(q) \/ LookupMissing(q) \/ Attach(q)
  BY <1>42 DEF PrivDropAndLeave, EntryOf, Leaving, RemoveEntry, KeysChanged, Goto
<1>43. ASSUME NEW p \in Procs, UndoListen(p) PROVE AlreadyListening(q) \/ LookupMissing(q) \/ Attach(q)
  BY <1>43 DEF UndoListen, Goto
<1>44. ASSUME NEW p \in Procs, Relisten(p) PROVE AlreadyListening(q) \/ LookupMissing(q) \/ Attach(q)
  BY <1>44 DEF Relisten, Returned, Goto
<1>45. ASSUME NEW k \in Sinks, NEW s \in Srcs, CapsChange(k, s) PROVE AlreadyListening(q) \/ LookupMissing(q) \/ Attach(q)
  BY <1>45 DEF CapsChange
<1>46. CASE AllFreed
  BY <1>46 DEF AllFreed, vars
<1>47. CASE UNCHANGED vars
  BY <1>47 DEF vars
<1>48. QED
  BY <1>1, <1>2, <1>3, <1>4, <1>5, <1>6, <1>7, <1>8, <1>9, <1>10, <1>11, <1>12, <1>13,
      <1>14, <1>15, <1>16, <1>17, <1>18, <1>19, <1>20, <1>21, <1>22, <1>23, <1>24, <1>25,
      <1>26, <1>27, <1>28, <1>29, <1>30, <1>31, <1>32, <1>33, <1>34, <1>35, <1>36, <1>37,
      <1>38, <1>39, <1>40, <1>41, <1>42, <1>43, <1>44, <1>45, <1>46, <1>47 DEF Next,
      SrcBegins, SrcReturns, SinkBegins, SinkWalks, CoreLocks, CoreHoldsLock, CoreUnlocked

\* No two sources have the same name (the core keeps entries by name).
DistinctNames == \A s, t \in Srcs : NameOf[s] = NameOf[t] => s = t

\* When gst_inter_pipe_listen_node says TRUE, its caller is attached or has an
\* entry of its own by which it will hear of its node, with any number of threads
\* and whatever the names of the sinks.
THEOREM ListenRegistersAlways ==
  ASSUME DistinctNames
  PROVE  Spec => ListenRegisters
<1> DEFINE Heard(p) ==
      pc'[p] = "done" /\ pc[p] # "done" /\ ~Leaving(p) =>
        \/ \E k \in Sinks : cur[p] \in attached'[k]
        \/ \E l \in ListenerNames : listeners'[l] # NULL /\ listeners'[l].listener = cur[p]
<1>1. ASSUME ControlInv, OwnerInv, [Next]_vars, NEW p \in Procs PROVE Heard(p)
  <2> SUFFICES ASSUME pc'[p] = "done", pc[p] # "done", ~Leaving(p)
               PROVE  \/ \E k \in Sinks : cur[p] \in attached'[k]
                      \/ \E l \in ListenerNames : listeners'[l] # NULL /\ listeners'[l].listener = cur[p]
    OBVIOUS
  <2>1. CASE AlreadyListening(p)
    <3>1. cur[p] \in Srcs /\ NameOf[cur[p]] \in ListenerNames /\ listeners' = listeners
      BY <1>1, <2>1, NameOfAssumption DEF AlreadyListening, ControlInv, CallInv, TypeOK, coreVars
    <3>2. listeners[NameOf[cur[p]]] # NULL
      BY <2>1 DEF AlreadyListening, EntryOf
    <3>3. listeners[NameOf[cur[p]]] \in Entry
      BY <1>1, <3>1, <3>2 DEF ControlInv, TypeOK
    <3>4. listeners[NameOf[cur[p]]].listener \in Srcs
      BY <3>3 DEF Entry
    <3>5. listeners[NameOf[cur[p]]].listener = cur[p]
      BY <1>1, <3>1, <3>2, <3>4 DEF OwnerInv, DistinctNames
    <3>6. QED
      BY <3>1, <3>2, <3>5
  <2>2. CASE LookupMissing(p)
    <3>1. cur[p] \in Srcs /\ cur[p] # NULL /\ NameOf[cur[p]] \in ListenerNames
      BY <1>1, <2>2, NameOfAssumption DEF LookupMissing, ControlInv, CallInv, TypeOK, Locked
    <3>2. listeners'[NameOf[cur[p]]] # NULL /\ OwnerInv' /\ listeners' \in [ListenerNames -> Entry \union {NULL}]
      BY <1>1, <2>2, <3>1, InsertEffect, InsertOwner DEF LookupMissing, ControlInv
    <3>3. listeners'[NameOf[cur[p]]].listener \in Srcs
      BY <3>1, <3>2 DEF Entry
    <3>4. listeners'[NameOf[cur[p]]].listener = cur[p]
      BY <3>1, <3>2, <3>3 DEF OwnerInv, DistinctNames
    <3>5. QED
      BY <3>1, <3>2, <3>4
  <2>3. CASE Attach(p)
    <3>1. node[p] \in Sinks
      BY <1>1, <2>3 DEF Attach, ControlInv, CallInv, TypeOK
    <3>2. cur[p] \in attached'[node[p]]
      BY <1>1, <2>3, <3>1 DEF Attach, ControlInv, TypeOK
    <3>3. QED
      BY <3>1, <3>2
  <2>4. QED
    BY <1>1, <2>1, <2>2, <2>3, TrueFromListen DEF ControlInv
<1>2. QED
  <2>1. ControlInv /\ OwnerInv /\ [Next]_vars => [\A p \in Procs : Heard(p)]_vars
    BY <1>1
  <2>2. QED
    BY <2>1, ControlAlways, OwnerAlways, PTL DEF Spec, ListenRegisters

=============================================================================
