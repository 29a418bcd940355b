-------------------------- MODULE NegotiationProof --------------------------
(***************************************************************************)
(* For any sources, formats, tastes and filters: the types of Negotiation, *)
(* that what was negotiated goes with the last listener, and that nobody   *)
(* is told caps he did not offer.                                          *)
(*                                                                         *)
(* The invariant is about who was asked.  What was negotiated lies within  *)
(* every answer given by those who still listen, so it may only be         *)
(* forgotten when no such answer is left: when the last listener has gone, *)
(* or at the end of an eviction.                                           *)
(***************************************************************************)
EXTENDS Negotiation, TLAPS

\* A scan asks listeners only: none can go while it holds the mutex.
AsksListeners == At("scan") => serve.todo \subseteq listeners

\* While the sink makes its listeners leave, those who answered still have to.
Leaving(s) == s \in serve.todo \/ (core # NULL /\ core.by = "sink" /\ core.src = s)

AnswersEvicted ==
  At("evict") => \A s \in listeners : answer[s] # NULL => Leaving(s)

\* What was negotiated is within the answers of those who listen.
AnswersBind ==
  \A s \in listeners : answer[s] # NULL => negotiated # NULL /\ negotiated \subseteq answer[s]

\* The inductive invariant.
IInv ==
  /\ TypeOK
  /\ NegotiatedByListeners
  /\ AsksListeners
  /\ AnswersEvicted
  /\ AnswersBind

USE NegotiationAssumption, NullAssumption

LEMMA NullNotCaps == NULL \notin Caps
BY DEF Caps

LEMMA OfferTyped ==
  ASSUME TypeOK, NEW s \in Srcs
  PROVE  Offer(s) \in Caps
BY DEF TypeOK, Offer, MaybeCaps, Caps

LEMMA MeetTyped ==
  ASSUME NEW a \in MaybeCaps, NEW b \in MaybeCaps
  PROVE  /\ Meet(a, b) \in MaybeCaps
         /\ a # NULL \/ b # NULL => Meet(a, b) \in Caps
         /\ a # NULL => Meet(a, b) \subseteq a
         /\ b # NULL => Meet(a, b) \subseteq b
BY DEF Meet, MaybeCaps, Caps

LEMMA InitInv == Init => IInv
BY DEF Init, IInv, TypeOK, NegotiatedByListeners, AsksListeners, AnswersEvicted,
       AnswersBind, At, MaybeCaps

-----------------------------------------------------------------------------
(* The sink *)

LEMMA QueryInv ==
  ASSUME IInv, NEW filter \in Filters \union {NULL}, Query(filter) PROVE IInv'
<1>1. serve' \in Serving /\ serve'.step = "scan" /\ serve'.todo = listeners
  BY DEF IInv, TypeOK, Query, Serving, MaybeCaps
<1>2. TypeOK'
  BY <1>1 DEF IInv, TypeOK, Query
<1> QED BY <1>1, <1>2 DEF IInv, Query, NegotiatedByListeners, AsksListeners,
           AnswersEvicted, AnswersBind, At

LEMMA CapsEventInv ==
  ASSUME IInv, NEW f \in Formats, CapsEvent(f) PROVE IInv'
<1>1. serve' \in Serving /\ serve'.step \in {"set", "scan"} /\ serve'.todo = listeners
  BY DEF IInv, TypeOK, CapsEvent, Serving, MaybeCaps
<1>2. TypeOK'
  BY <1>1 DEF IInv, TypeOK, CapsEvent
<1> QED BY <1>1, <1>2 DEF IInv, CapsEvent, NegotiatedByListeners, AsksListeners,
           AnswersEvicted, AnswersBind, At

LEMMA AskListenerInv ==
  ASSUME IInv, NEW s \in Srcs, AskListener(s) PROVE IInv'
<1>1. /\ serve' \in Serving /\ serve'.step = "scan" /\ serve' # NULL
      /\ serve'.todo = serve.todo \ {s}
  BY NullNotCaps DEF IInv, TypeOK, AskListener, At, Serving
<1>2. /\ Offer(s) \in Caps /\ Offer(s) # NULL
      /\ negotiated' \in Caps /\ negotiated' # NULL
      /\ negotiated' \subseteq Offer(s)
      /\ negotiated # NULL => negotiated' \subseteq negotiated
  BY OfferTyped, MeetTyped, NullNotCaps DEF IInv, TypeOK, AskListener, MaybeCaps
<1>3. TypeOK'
  BY <1>1, <1>2 DEF IInv, TypeOK, AskListener, MaybeCaps, At
<1>4. NegotiatedByListeners' /\ AsksListeners' /\ AnswersEvicted'
  BY <1>1 DEF IInv, AskListener, NegotiatedByListeners, AsksListeners, AnswersEvicted, At
<1>5. AnswersBind'
  BY <1>2 DEF IInv, TypeOK, AskListener, AnswersBind
<1> QED BY <1>3, <1>4, <1>5 DEF IInv

LEMMA StepInv ==
  ASSUME IInv, Scanned \/ Agree \/ Disagree \/ CountListeners \/ RefuseCaps \/ KeepCaps
  PROVE  IInv'
<1>1. CASE Scanned
  <2>1. serve' \in Serving /\ serve'.step = "check"
    BY <1>1 DEF IInv, TypeOK, Scanned, At, Go, Serving
  <2> QED BY <1>1, <2>1 DEF IInv, TypeOK, Scanned, At, NegotiatedByListeners,
             AsksListeners, AnswersEvicted, AnswersBind
<1>2. CASE Agree
  <2>1. Result \subseteq Formats /\ serve \in Serving /\ serve.filter \in MaybeCaps
    <3>1. serve \in Serving
      BY <1>2 DEF IInv, TypeOK, Agree, At
    <3>2. negotiated \in Caps /\ serve.filter \in MaybeCaps
      BY <1>2, <3>1 DEF IInv, TypeOK, Agree, NoIntersection, MaybeCaps, Serving
    <3> QED BY <3>1, <3>2, NullNotCaps DEF Result, Meet, MaybeCaps, Caps
  <2>2. serve.format \in Result => serve.format # NULL
    BY <2>1
  <2>3. \/ serve' = NULL
        \/ serve' \in Serving /\ serve'.step = "set" /\ serve'.format # NULL
    BY <1>2, <2>1, <2>2 DEF Agree, Go, Serving
  <2> QED BY <1>2, <2>3 DEF IInv, TypeOK, Agree, At, NegotiatedByListeners,
             AsksListeners, AnswersEvicted, AnswersBind
<1>3. CASE Disagree
  <2>1. serve' \in Serving /\ serve'.step = "evict" /\ serve'.todo = listeners
    BY <1>3 DEF IInv, TypeOK, Disagree, At, Serving
  <2> QED BY <1>3, <2>1 DEF IInv, TypeOK, Disagree, At, NegotiatedByListeners,
             AsksListeners, AnswersEvicted, AnswersBind, Leaving
<1>4. CASE CountListeners
  <2>1. /\ serve' \in Serving /\ serve'.step \in {"out", "update"}
        /\ serve'.format = serve.format
    BY <1>4 DEF IInv, TypeOK, CountListeners, At, Go, Serving
  <2> QED BY <1>4, <2>1 DEF IInv, TypeOK, CountListeners, At, NegotiatedByListeners,
             AsksListeners, AnswersEvicted, AnswersBind
<1>5. CASE RefuseCaps
  BY <1>5 DEF IInv, TypeOK, RefuseCaps, At, NegotiatedByListeners,
     AsksListeners, AnswersEvicted, AnswersBind
<1>6. CASE KeepCaps
  <2>1. serve.format \in Formats
    BY <1>6 DEF IInv, TypeOK, KeepCaps, At, Serving
  <2>2. sinkCaps' \in MaybeCaps
    BY <1>6, <2>1 DEF KeepCaps, MaybeCaps, Caps
  <2> QED BY <1>6, <2>2 DEF IInv, TypeOK, KeepCaps, At, NegotiatedByListeners,
             AsksListeners, AnswersEvicted, AnswersBind
<1> QED BY <1>1, <1>2, <1>3, <1>4, <1>5, <1>6

LEMMA EvictInv ==
  ASSUME IInv, NEW s \in Srcs, Evict(s) PROVE IInv'
<1>1. /\ serve' \in Serving /\ serve' # NULL /\ serve'.step = "evict"
      /\ serve'.todo = serve.todo \ {s}
      /\ core' \in Calling /\ core' # NULL
      /\ core'.op = "leave" /\ core'.by = "sink" /\ core'.src = s
  BY DEF IInv, TypeOK, Evict, At, Serving, Calling, MaybeCaps
<1>2. TypeOK'
  BY <1>1 DEF IInv, TypeOK, Evict
<1>3. AnswersEvicted'
  BY <1>1 DEF IInv, Evict, AnswersEvicted, Leaving, At
<1> QED BY <1>1, <1>2, <1>3 DEF IInv, Evict, NegotiatedByListeners, AsksListeners,
           AnswersBind, At

LEMMA EvictedInv ==
  ASSUME IInv, Evicted PROVE IInv'
<1>0. serve \in Serving
  BY DEF IInv, TypeOK, Evicted, At
<1>1. serve' = NULL \/ (serve' \in Serving /\ serve'.step = "set" /\ serve'.format # NULL)
  <2>1. CASE serve.format = NULL
    BY <2>1 DEF Evicted
  <2>2. CASE serve.format # NULL
    BY <1>0, <2>2 DEF Evicted, Go, Serving
  <2> QED BY <2>1, <2>2
<1>2. \A s \in listeners : answer[s] = NULL
  BY DEF IInv, AnswersEvicted, Evicted, Leaving
<1>5. ~(core # NULL /\ core.by = "sink")
  BY DEF Evicted
<1>3. TypeOK'
  BY <1>1, <1>5 DEF IInv, TypeOK, Evicted, MaybeCaps
<1>4. NegotiatedByListeners' /\ AnswersBind'
  BY <1>2 DEF Evicted, NegotiatedByListeners, AnswersBind
<1> QED BY <1>1, <1>3, <1>4 DEF IInv, AsksListeners, AnswersEvicted, At

LEMMA ToldTyped ==
  ASSUME TypeOK, NEW s \in Srcs, NEW c \in MaybeCaps
  PROVE  Told(s, c) \in MaybeCaps
BY DEF TypeOK, Told

LEMMA UpdateListenersInv ==
  ASSUME IInv, UpdateListeners PROVE IInv'
<1>1. serve \in Serving /\ serve.format \in Formats /\ {serve.format} \in MaybeCaps
  BY DEF IInv, TypeOK, UpdateListeners, At, Serving, MaybeCaps, Caps
<1>2. srcCaps' \in [Srcs -> MaybeCaps]
  BY <1>1, ToldTyped DEF IInv, TypeOK, UpdateListeners
<1>3. serve' \in Serving /\ serve'.step = "out" /\ serve'.format # NULL
  BY <1>1 DEF UpdateListeners, Go, Serving
<1>4. TypeOK'
  BY <1>2, <1>3 DEF IInv, TypeOK, UpdateListeners, At
<1> QED BY <1>3, <1>4 DEF IInv, UpdateListeners, NegotiatedByListeners, AsksListeners,
           AnswersEvicted, AnswersBind, At

LEMMA ServeInv == ASSUME IInv, Serve PROVE IInv'
BY AskListenerInv, StepInv, EvictInv, EvictedInv, UpdateListenersInv
   DEF Serve, GetCaps, SetCaps

-----------------------------------------------------------------------------
(* Joins and leaves *)

\* A step of a join up to the insertion, and one that takes or gives up the mutex,
\* leaves the table alone.
LEMMA JoiningInv ==
  ASSUME IInv,
         core = NULL \/ core.by = "app",
         srcCaps' \in [Srcs -> MaybeCaps],
         \/ core' = NULL
         \/ /\ core' \in Calling /\ core'.by = "app"
            /\ core'.op = "leave" <=> core'.step = "remove",
         UNCHANGED <<listeners, negotiated, sinkCaps, serve, answer>>
  PROVE  IInv'
<1>1. TypeOK'
  BY DEF IInv, TypeOK
<1>2. AnswersEvicted'
  BY DEF IInv, AnswersEvicted, At, Leaving
<1> QED BY <1>1, <1>2 DEF IInv, NegotiatedByListeners, AsksListeners, AnswersBind, At

LEMMA BeginInv ==
  ASSUME IInv, NEW s \in Srcs, Join(s) \/ Leave(s) PROVE IInv'
<1>1. /\ core' \in Calling /\ core'.by = "app"
      /\ core'.op = "leave" <=> core'.step = "remove"
  <2>1. CASE Join(s)
    BY <2>1 DEF Join, Calling, MaybeCaps
  <2>2. CASE Leave(s)
    BY <2>2 DEF Leave, Calling, MaybeCaps
  <2> QED BY <2>1, <2>2
<1> QED BY <1>1, JoiningInv DEF IInv, TypeOK, Join, Leave

LEMMA ElsewhereInv ==
  ASSUME IInv, NEW s \in Srcs, NEW f \in Formats, Elsewhere(s, f) PROVE IInv'
<1>1. {f} \in MaybeCaps
  BY DEF MaybeCaps, Caps
<1>2. srcCaps' \in [Srcs -> MaybeCaps]
  BY <1>1, ToldTyped DEF IInv, TypeOK, Elsewhere
<1> QED BY <1>2, JoiningInv DEF Elsewhere

LEMMA JoinInv ==
  ASSUME IInv, AddListener, ~Insert PROVE IInv'
<1>1. /\ core \in Calling /\ core # NULL /\ core.op = "join" /\ core.by = "app"
      /\ core.src \in Srcs /\ core.sink \in MaybeCaps
  BY DEF IInv, TypeOK, AddListener, AskJoining, GiveSticky, HasListeners, Reconfigure,
     Renegotiate, JoinFails, JoinAsItIs, Doing, Calling
<1>2. srcCaps' \in [Srcs -> MaybeCaps]
  BY <1>1 DEF IInv, TypeOK, AddListener, AskJoining, GiveSticky, HasListeners, Reconfigure,
     Renegotiate, JoinFails, JoinAsItIs
<1>3. Offer(core.src) \in MaybeCaps /\ sinkCaps \in MaybeCaps
  BY <1>1, OfferTyped DEF IInv, TypeOK, MaybeCaps
<1>4. \/ core' = NULL
      \/ /\ core' \in Calling /\ core'.by = "app"
         /\ core'.op = "join" /\ core'.step # "remove" /\ core'.src = core.src
  BY <1>1, <1>3 DEF AddListener, AskJoining, GiveSticky, HasListeners, Reconfigure,
     Renegotiate, JoinFails, JoinAsItIs, Step, Calling
<1>5. UNCHANGED <<listeners, negotiated, sinkCaps, serve, answer>>
  BY DEF AddListener, AskJoining, GiveSticky, HasListeners, Reconfigure,
     Renegotiate, JoinFails, JoinAsItIs
<1> QED BY <1>1, <1>2, <1>4, <1>5, JoiningInv

LEMMA InsertInv == ASSUME IInv, Insert PROVE IInv'
<1>1. core \in Calling /\ core.src \in Srcs /\ core # NULL /\ core.by = "app"
  BY DEF IInv, TypeOK, Insert, Doing, Calling
<1>2. TypeOK'
  BY <1>1 DEF IInv, TypeOK, Insert, MaybeCaps
<1>3. AnswersEvicted' /\ AnswersBind'
  BY <1>1 DEF IInv, TypeOK, Insert, AnswersEvicted, AnswersBind, At, Leaving
<1> QED BY <1>1, <1>2, <1>3 DEF IInv, Insert, NegotiatedByListeners, AsksListeners, At, Free

LEMMA RemoveInv == ASSUME IInv, Remove PROVE IInv'
<1>1. core \in Calling /\ core.src \in Srcs /\ core # NULL
  BY DEF IInv, TypeOK, Remove, Doing, Calling
<1>2. TypeOK'
  BY <1>1 DEF IInv, TypeOK, Remove, MaybeCaps
<1>3. NegotiatedByListeners'
  BY DEF IInv, Remove, NegotiatedByListeners
<1>4. AnswersBind' /\ AnswersEvicted'
  BY <1>1 DEF IInv, TypeOK, Remove, AnswersEvicted, AnswersBind, At, Leaving
<1> QED BY <1>2, <1>3, <1>4 DEF IInv, Remove, AsksListeners, At, Free

-----------------------------------------------------------------------------
LEMMA NextInv == ASSUME IInv, [Next]_vars PROVE IInv'
<1>1. CASE UNCHANGED vars
  BY <1>1 DEF vars, IInv, TypeOK, NegotiatedByListeners, AsksListeners, AnswersEvicted,
     AnswersBind, At, Leaving
<1>2. CASE Next
  BY <1>2, QueryInv, CapsEventInv, ElsewhereInv, BeginInv, ServeInv, JoinInv, InsertInv,
     RemoveInv DEF Next, Call
<1> QED BY <1>1, <1>2

THEOREM Invariance == Spec => []IInv
BY InitInv, NextInv, PTL DEF Spec

\* Types, and who may hold which mutex at which step.
THEOREM TypesKept == Spec => []TypeOK
BY Invariance, PTL DEF IInv

\* What was negotiated is gone with the last listener: remove_listener resets it
\* under the mutex, and get_caps never sets it for a sink without listeners.
THEOREM NegotiatedWithListeners == Spec => []NegotiatedByListeners
BY Invariance, PTL DEF IInv

\* set_caps tells no listener caps that it did not offer when it was asked.
THEOREM OffersRespected == Spec => ToldWhatItOffered
<1>1. ASSUME IInv, [Next]_vars
      PROVE  [\A s \in Srcs :
                At("update") /\ serve' # serve
                /\ s \in listeners /\ answer[s] # NULL /\ srcCaps'[s] # srcCaps[s] =>
                  srcCaps'[s] \subseteq answer[s]]_vars
  <2> SUFFICES ASSUME Next, NEW s \in Srcs,
                      At("update"), serve' # serve,
                      s \in listeners, answer[s] # NULL,
                      srcCaps'[s] # srcCaps[s]
               PROVE  srcCaps'[s] \subseteq answer[s]
    BY <1>1
  <2>1. CASE UpdateListeners
    <3>1. srcCaps'[s] = {serve.format} /\ serve.format \in negotiated
      BY <2>1 DEF UpdateListeners, Meets, Told
    <3>2. negotiated \subseteq answer[s]
      BY <1>1 DEF IInv, AnswersBind
    <3> QED BY <3>1, <3>2
  <2>2. CASE UNCHANGED serve
    BY <2>2
  <2>3. CASE UNCHANGED srcCaps
    BY <2>3
  <2> QED BY <2>1, <2>2, <2>3 DEF Next, Serve, GetCaps, SetCaps, Call, AddListener, Query,
             CapsEvent, Join, Leave, Elsewhere, AskListener, Evict, Scanned, Agree, Disagree,
             Evicted, CountListeners, RefuseCaps, KeepCaps, AskJoining, GiveSticky,
             HasListeners, Reconfigure, Renegotiate, JoinFails, JoinAsItIs, Insert, Remove
<1> QED BY <1>1, Invariance, PTL DEF Spec, ToldWhatItOffered
=============================================================================
