-------------------------------- MODULE Feed --------------------------------
(***************************************************************************)
(* What the registry promises to pipelines: which sink feeds which source. *)
(* A source has one feed at a time, gets it only from a sink that is up,   *)
(* never goes from one sink to another without letting the first one go,   *)
(* and a sink that goes down takes its feeds, and no others, with it.      *)
(***************************************************************************)
CONSTANTS Srcs, Sinks, NULL

VARIABLES
  up,     \* the sinks that are up
  feed    \* the sink that feeds each source

Init ==
  /\ up = {}
  /\ feed = [s \in Srcs |-> NULL]

Open(k) ==
  /\ k \notin up
  /\ up' = up \union {k}
  /\ UNCHANGED feed

Close(k) ==
  /\ k \in up
  /\ up' = up \ {k}
  /\ feed' = [s \in Srcs |-> IF feed[s] = k THEN NULL ELSE feed[s]]

Connect(s, k) ==
  /\ k \in up
  /\ feed[s] = NULL
  /\ feed' = [feed EXCEPT ![s] = k]
  /\ UNCHANGED up

Disconnect(s) ==
  /\ feed[s] # NULL
  /\ feed' = [feed EXCEPT ![s] = NULL]
  /\ UNCHANGED up

Next ==
  \/ \E k \in Sinks : Open(k) \/ Close(k)
  \/ \E s \in Srcs : Disconnect(s) \/ \E k \in Sinks : Connect(s, k)

Spec == Init /\ [][Next]_<<up, feed>>
=============================================================================
