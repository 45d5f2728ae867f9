----------------------------- MODULE CheckPool -----------------------------
(***************************************************************************)
(* What the status server promises of the workers that check its keys, be  *)
(* they applications or nodes, and of the statuses they show.  A key has   *)
(* one active worker at most; a worker that is told to stop leaves some    *)
(* time later and takes the key's status with it, its successor's too;     *)
(* and only a worker of a key, active or leaving, shows its status.        *)
(***************************************************************************)
CONSTANTS Key, Worker, Nobody

VARIABLES
  active,   \* the worker of each key
  leaving,  \* the key of each worker that was told to stop
  shown     \* the keys with a status

vars == <<active, leaving, shown>>

Empty(a, l, s) ==
  /\ a = [k \in Key |-> Nobody] /\ l = [w \in Worker |-> Nobody] /\ s = {}

Init == Empty(active, leaving, shown)

Idle(w) == leaving[w] = Nobody /\ \A k \in Key : active[k] # w

Start(k, w) ==
  /\ active[k] = Nobody /\ Idle(w)
  /\ active' = [active EXCEPT ![k] = w]
  /\ UNCHANGED <<leaving, shown>>

\* The status may be removed at once.
Stop(k) ==
  /\ active[k] # Nobody
  /\ active' = [active EXCEPT ![k] = Nobody]
  /\ leaving' = [leaving EXCEPT ![active[k]] = k]
  /\ shown' \in {shown, shown \ {k}}

Show(k, w) ==
  /\ active[k] = w \/ leaving[w] = k
  /\ shown' = shown \cup {k}
  /\ UNCHANGED <<active, leaving>>

Leave(w) ==
  /\ leaving[w] # Nobody
  /\ leaving' = [leaving EXCEPT ![w] = Nobody]
  /\ shown' = shown \ {leaving[w]}
  /\ UNCHANGED active

\* The server ends with all of its workers and statuses.
Clear == Empty(active', leaving', shown')

Next ==
  \/ \E k \in Key, w \in Worker : Start(k, w) \/ Show(k, w)
  \/ \E k \in Key : Stop(k)
  \/ \E w \in Worker : Leave(w)
  \/ Clear

Spec == Init /\ [][Next]_vars
=============================================================================
