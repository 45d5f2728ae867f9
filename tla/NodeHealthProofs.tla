-------------------------- MODULE NodeHealthProofs --------------------------
(***************************************************************************)
(* The server's check goroutines and the statuses they publish, for any    *)
(* number of nodes, addresses, restarts and goroutines.                    *)
(***************************************************************************)
EXTENDS NodeHealth, TLAPS

\* The nodes that updateClusterList goes through have an address.
UpdaterOK == \A n \in updater.todo : updater.listed[n] # None

\* The tracker names each node's goroutine, which is its own and runs on.
TrackerOK ==
  \A n \in Node : Tracked(n) => LET g == tracker[n] IN
    Live(g) /\ ~checker[g].cancelled /\ checker[g].node = n

\* A goroutine that was not told to stop is the one its node has.
CheckersOK ==
  \A g \in Goroutine : Live(g) =>
    /\ checker[g].node \in Node
    /\ ~checker[g].cancelled => tracker[checker[g].node] = g

IInv == TypeOK /\ UpdaterOK /\ TrackerOK /\ CheckersOK /\ ResultsOwned

\* The server has just been started.
Fresh ==
  /\ updater = NewUpdater
  /\ stored = [n \in Node |-> None] /\ tracker = [n \in Node |-> None]
  /\ checker = [g \in Goroutine |-> NoChecker]
  /\ results = [n \in Node |-> "none"]

LEMMA FreshInv ==
  ASSUME Fresh, nodes \in [Node -> Address \cup {None}], calm \in BOOLEAN,
         daemon \in [Node -> Daemon]
  PROVE  IInv
  <1>1. NoChecker \in Checker /\ NoChecker.pc = "none" /\ NewUpdater \in Updater
    BY DEF NoChecker, Checker, Status, NewUpdater, Updater
  <1>2. TypeOK
    BY <1>1 DEF Fresh, TypeOK, Status
  <1>3. UpdaterOK /\ TrackerOK /\ CheckersOK /\ ResultsOwned
    BY <1>1 DEF Fresh, NewUpdater, UpdaterOK, TrackerOK, CheckersOK, ResultsOwned, Tracked,
                Live, Named
  <1>4. QED
    BY <1>2, <1>3 DEF IInv

LEMMA InvInit == Init => IInv
  <1> SUFFICES ASSUME Init
               PROVE  IInv
    OBVIOUS
  <1>1. NewDaemon \in Daemon
    BY DEF NewDaemon, Daemon
  <1>2. calm \in BOOLEAN /\ daemon \in [Node -> Daemon]
    BY <1>1 DEF Init
  <1>3. Fresh /\ nodes \in [Node -> Address \cup {None}]
    BY DEF Init, Fresh
  <1>4. QED
    BY <1>2, <1>3, FreshInv

\* A step after which the server starts anew.
LEMMA StartsInv ==
  ASSUME IInv, ServerStarts
  PROVE  IInv'
  <1>1. Fresh' /\ UNCHANGED <<nodes, calm, daemon>>
    BY DEF ServerStarts, Fresh
  <1>2. NoChecker \in Checker /\ NoChecker.pc = "none" /\ NewUpdater \in Updater
    BY DEF NoChecker, Checker, Status, NewUpdater, Updater
  <1>3. TypeOK'
    BY <1>1, <1>2 DEF IInv, Fresh, TypeOK, Status
  <1>4. UpdaterOK' /\ TrackerOK' /\ CheckersOK' /\ ResultsOwned'
    BY <1>1, <1>2 DEF Fresh, NewUpdater, UpdaterOK, TrackerOK, CheckersOK, ResultsOwned,
                      Tracked, Live, Named
  <1>5. QED
    BY <1>3, <1>4 DEF IInv

\* A step that leaves the server alone.
LEMMA OutsideInv ==
  ASSUME IInv, UNCHANGED server,
         nodes' \in [Node -> Address \cup {None}], calm' \in BOOLEAN,
         daemon' \in [Node -> Daemon]
  PROVE  IInv'
  <1>1. UNCHANGED <<updater, stored, tracker, checker, results>>
    BY DEF server
  <1>2. TypeOK'
    BY <1>1 DEF IInv, TypeOK
  <1>3. UpdaterOK' /\ TrackerOK' /\ CheckersOK' /\ ResultsOwned'
    BY <1>1 DEF IInv, UpdaterOK, TrackerOK, CheckersOK, ResultsOwned, Tracked, Live, Named
  <1>4. QED
    BY <1>2, <1>3 DEF IInv

-----------------------------------------------------------------------------
(* updateClusterList *)

LEMMA UpdateInv ==
  ASSUME IInv, List \/ EndCreate \/ EndStop
  PROVE  IInv'
  <1>1. UNCHANGED <<nodes, calm, daemon, stored, tracker, checker, results>>
    BY DEF List, EndCreate, EndStop, Update
  <1>2. updater' \in Updater
    BY DEF IInv, TypeOK, List, EndCreate, EndStop, Update, Updater
  <1>3. TypeOK'
    BY <1>1, <1>2 DEF IInv, TypeOK
  <1>4. UpdaterOK'
    <2>1. CASE List
      BY <2>1 DEF List, Update, UpdaterOK
    <2>2. CASE EndCreate \/ EndStop
      BY <2>2 DEF EndCreate, EndStop, Update, UpdaterOK, IInv, TypeOK, Updater
    <2>3. QED
      BY <2>1, <2>2
  <1>5. TrackerOK' /\ CheckersOK' /\ ResultsOwned'
    BY <1>1 DEF IInv, TrackerOK, CheckersOK, ResultsOwned, Tracked, Live, Named
  <1>6. QED
    BY <1>3, <1>4, <1>5 DEF IInv

\* A listed node that has a goroutine.
LEMMA RefreshInv ==
  ASSUME IInv, NEW n \in Node, StoreNode(n), UNCHANGED <<tracker, checker>>
  PROVE  IInv'
  <1>1. /\ UNCHANGED <<nodes, calm, daemon, tracker, checker, results>>
        /\ updater' = [updater EXCEPT !.todo = @ \ {n}]
        /\ stored' = [stored EXCEPT ![n] = updater.listed[n]]
    BY DEF StoreNode, Update
  <1>2. TypeOK'
    BY <1>1 DEF IInv, TypeOK, Updater
  <1>3. UpdaterOK'
    BY <1>1 DEF IInv, UpdaterOK, TypeOK, Updater
  <1>4. TrackerOK' /\ CheckersOK' /\ ResultsOwned'
    BY <1>1 DEF IInv, TrackerOK, CheckersOK, ResultsOwned, Tracked, Live, Named
  <1>5. QED
    BY <1>2, <1>3, <1>4 DEF IInv

\* A new node gets a goroutine.
LEMMA StartInv ==
  ASSUME IInv, NEW n \in Node, NEW g \in Goroutine, StoreNode(n), ~Tracked(n), ~Live(g),
         tracker' = [tracker EXCEPT ![n] = g],
         checker' = [checker EXCEPT ![g] = NewChecker(n)]
  PROVE  IInv'
  <1> USE DEF IInv, Tracked, Live
  <1>1. /\ UNCHANGED <<nodes, calm, daemon, results>>
        /\ updater' = [updater EXCEPT !.todo = @ \ {n}]
        /\ stored' = [stored EXCEPT ![n] = updater.listed[n]]
        /\ checker[g].pc = "none" /\ tracker[n] = None
    BY DEF StoreNode, Update
  <1>2. g # None
    BY NoneAssumption
  <1>3. /\ NewChecker(n) \in Checker /\ NewChecker(n).pc = "load"
        /\ NewChecker(n).node = n /\ NewChecker(n).cancelled = FALSE
    BY DEF NewChecker, NoChecker, Checker, Status
  <1>4. TypeOK'
    <2>1. tracker' \in [Node -> Goroutine \cup {None}] /\ stored' \in [Node -> Address \cup {None}]
      BY <1>1 DEF TypeOK, Updater
    <2>2. checker' \in [Goroutine -> Checker] /\ updater' \in Updater
      BY <1>1, <1>3 DEF TypeOK, Updater
    <2>3. \A h \in Goroutine : checker'[h].pc = "ask" => checker'[h].addr \in Address
      BY <1>1, <1>3 DEF TypeOK
    <2>4. QED
      BY <1>1, <2>1, <2>2, <2>3 DEF TypeOK
  <1>5. UpdaterOK'
    BY <1>1 DEF UpdaterOK, TypeOK, Updater
  <1>6. TrackerOK'
    <2> SUFFICES ASSUME NEW m \in Node, tracker'[m] # None
                 PROVE  LET h == tracker'[m] IN
                          checker'[h].pc # "none" /\ ~checker'[h].cancelled /\ checker'[h].node = m
      BY DEF TrackerOK
    <2>1. CASE m = n
      BY <1>3, <2>1 DEF TypeOK
    <2>2. CASE m # n
      <3>1. tracker'[m] = tracker[m] /\ tracker[m] \in Goroutine
        BY <2>2 DEF TypeOK
      <3>2. tracker[m] # g
        BY <1>1, <3>1 DEF TrackerOK
      <3>3. QED
        BY <3>1, <3>2 DEF TrackerOK, TypeOK
    <2>3. QED
      BY <2>1, <2>2
  <1>7. CheckersOK'
    <2> SUFFICES ASSUME NEW h \in Goroutine, checker'[h].pc # "none"
                 PROVE  /\ checker'[h].node \in Node
                        /\ ~checker'[h].cancelled => tracker'[checker'[h].node] = h
      BY DEF CheckersOK
    <2>1. CASE h = g
      BY <1>3, <2>1 DEF TypeOK
    <2>2. CASE h # g
      <3>1. checker'[h] = checker[h]
        BY <2>2 DEF TypeOK
      <3>2. /\ checker[h].node \in Node
            /\ ~checker[h].cancelled => tracker[checker[h].node] = h
        BY <3>1 DEF CheckersOK
      <3>3. checker[h].node = n => checker[h].cancelled
        BY <1>1, <3>2, NoneAssumption
      <3>4. QED
        BY <3>1, <3>2, <3>3 DEF TypeOK
    <2>3. QED
      BY <2>1, <2>2
  <1>8. ResultsOwned'
    <2> SUFFICES ASSUME NEW m \in Node, results[m] # "none"
                 PROVE  \E h \in Goroutine : checker'[h].pc # "none" /\ checker'[h].node = m
      BY <1>1 DEF ResultsOwned, Named
    <2>1. PICK h \in Goroutine : checker[h].pc # "none" /\ checker[h].node = m
      BY DEF ResultsOwned, Named
    <2>2. QED
      BY <1>1, <2>1 DEF TypeOK
  <1>9. QED
    BY <1>4, <1>5, <1>6, <1>7, <1>8

LEMMA StopInv ==
  ASSUME IInv, NEW n \in Node, StopCheck(n)
  PROVE  IInv'
  <1> USE DEF IInv, Tracked, Live
  <1> DEFINE g == tracker[n]
  <1>1. /\ UNCHANGED <<nodes, calm, daemon, updater>>
        /\ tracker' = [tracker EXCEPT ![n] = None]
        /\ stored' = [stored EXCEPT ![n] = None]
        /\ results' = [results EXCEPT ![n] = "none"]
        /\ checker' = [checker EXCEPT ![g].cancelled = TRUE]
        /\ g # None
    BY DEF StopCheck, Update, Gone
  <1>2. g \in Goroutine
    BY <1>1 DEF TypeOK
  <1>3. /\ checker' \in [Goroutine -> Checker]
        /\ \A h \in Goroutine :
             /\ checker'[h].pc = checker[h].pc /\ checker'[h].node = checker[h].node
             /\ checker'[h].addr = checker[h].addr
             /\ checker'[h].cancelled <=> (checker[h].cancelled \/ h = g)
    <2>1. \A h \in Goroutine :
            checker'[h] = IF h = g THEN [checker[h] EXCEPT !.cancelled = TRUE] ELSE checker[h]
      BY <1>1, <1>2 DEF TypeOK
    <2>2. \A h \in Goroutine : checker[h] \in Checker
      BY DEF TypeOK
    <2>3. ASSUME NEW k \in Checker
          PROVE  LET e == [k EXCEPT !.cancelled = TRUE] IN
                 e \in Checker /\ e.cancelled /\ e.pc = k.pc /\ e.node = k.node /\ e.addr = k.addr
      BY DEF Checker
    <2>4. checker' = [h \in Goroutine |-> checker'[h]]
      BY <1>1 DEF TypeOK
    <2>5. \A h \in Goroutine : checker'[h] \in Checker
      BY <2>1, <2>2, <2>3
    <2>6. checker' \in [Goroutine -> Checker]
      BY <2>4, <2>5
    <2>7. QED
      BY <2>1, <2>2, <2>3, <2>6
  <1>4. TypeOK'
    BY <1>1, <1>3 DEF TypeOK, Status
  <1>5. UpdaterOK'
    BY <1>1 DEF UpdaterOK
  <1>6. TrackerOK'
    <2> SUFFICES ASSUME NEW m \in Node, tracker'[m] # None
                 PROVE  LET h == tracker'[m] IN
                          checker'[h].pc # "none" /\ ~checker'[h].cancelled /\ checker'[h].node = m
      BY DEF TrackerOK
    <2>1. m # n /\ tracker'[m] = tracker[m] /\ tracker[m] \in Goroutine
      BY <1>1 DEF TypeOK
    <2>2. tracker[m] # g
      BY <1>1, <2>1 DEF TrackerOK
    <2>3. /\ checker[tracker[m]].pc # "none" /\ ~checker[tracker[m]].cancelled
          /\ checker[tracker[m]].node = m
      BY <2>1 DEF TrackerOK
    <2>4. QED
      BY <1>3, <2>1, <2>2, <2>3
  <1>7. CheckersOK'
    <2> SUFFICES ASSUME NEW h \in Goroutine, checker'[h].pc # "none"
                 PROVE  /\ checker'[h].node \in Node
                        /\ ~checker'[h].cancelled => tracker'[checker'[h].node] = h
      BY DEF CheckersOK
    <2>1. checker[h].pc # "none" /\ checker'[h].node = checker[h].node /\ checker[h].node \in Node
      BY <1>3 DEF CheckersOK
    <2>2. ASSUME ~checker'[h].cancelled
          PROVE  tracker'[checker[h].node] = h
      <3>1. h # g /\ tracker[checker[h].node] = h
        BY <1>3, <2>1, <2>2 DEF CheckersOK
      <3>2. checker[h].node # n
        BY <3>1
      <3>3. QED
        BY <1>1, <2>1, <3>1, <3>2 DEF TypeOK
    <2>3. QED
      BY <2>1, <2>2
  <1>8. ResultsOwned'
    BY <1>1, <1>3 DEF ResultsOwned, Named, TypeOK
  <1>9. QED
    BY <1>4, <1>5, <1>6, <1>7, <1>8

-----------------------------------------------------------------------------
(* runNodeCheck *)

\* A step in which a goroutine runs on and the results may get an entry for its
\* node.
LEMMA RunsOnInv ==
  ASSUME IInv, NEW g \in Goroutine, Live(g),
         UNCHANGED <<nodes, calm, updater, stored, tracker, daemon>>,
         NEW c \in Checker, checker' = [checker EXCEPT ![g] = c],
         c.pc # "none", c.node = checker[g].node, c.cancelled = checker[g].cancelled,
         c.pc = "ask" => c.addr \in Address,
         NEW s \in Status,
         UNCHANGED results \/ results' = [results EXCEPT ![checker[g].node] = s]
  PROVE  IInv'
  <1> USE DEF IInv, Tracked, Live
  <1>1. /\ checker' \in [Goroutine -> Checker]
        /\ \A h \in Goroutine :
             /\ checker'[h].node = checker[h].node
             /\ checker'[h].cancelled = checker[h].cancelled
             /\ checker'[h].pc # "none" <=> checker[h].pc # "none"
             /\ checker'[h].pc = "ask" => checker'[h].addr \in Address
    BY DEF TypeOK
  <1>2. TypeOK'
    BY <1>1 DEF TypeOK
  <1>3. UpdaterOK'
    BY DEF UpdaterOK
  <1>4. TrackerOK'
    BY <1>1 DEF TrackerOK, TypeOK
  <1>5. CheckersOK'
    BY <1>1 DEF CheckersOK
  <1>6. ResultsOwned'
    <2> SUFFICES ASSUME NEW n \in Node, results'[n] # "none"
                 PROVE  \E h \in Goroutine : checker'[h].pc # "none" /\ checker'[h].node = n
      BY DEF ResultsOwned, Named
    <2>1. CASE n = checker[g].node
      BY <1>1, <2>1
    <2>2. CASE n # checker[g].node
      BY <1>1, <2>2 DEF ResultsOwned, Named, TypeOK
    <2>3. QED
      BY <2>1, <2>2
  <1>7. QED
    BY <1>2, <1>3, <1>4, <1>5, <1>6

LEMMA LoadInv ==
  ASSUME IInv, NEW g \in Goroutine, Load(g)
  PROVE  IInv'
  <1> DEFINE c == [checker[g] EXCEPT !.pc = "ask", !.addr = stored[checker[g].node]]
  <1>1. /\ checker[g].pc = "load" /\ stored[checker[g].node] # None
        /\ checker' = [checker EXCEPT ![g] = c]
        /\ UNCHANGED <<nodes, calm, updater, stored, tracker, daemon, results>>
    BY DEF Load, Check, Found
  <1>2. Live(g) /\ checker[g] \in Checker /\ checker[g].node \in Node
    BY <1>1 DEF IInv, TypeOK, CheckersOK, Live
  <1>3. stored[checker[g].node] \in Address
    BY <1>1, <1>2 DEF IInv, TypeOK
  <1>4. /\ c \in Checker /\ c.pc = "ask" /\ c.addr \in Address
        /\ c.node = checker[g].node /\ c.cancelled = checker[g].cancelled
    BY <1>2, <1>3 DEF Checker
  <1>5. "none" \in Status
    BY DEF Status
  <1> HIDE DEF c
  <1>6. QED
    BY <1>1, <1>2, <1>4, <1>5, RunsOnInv

LEMMA AskInv ==
  ASSUME IInv, NEW g \in Goroutine, Ask(g)
  PROVE  IInv'
  <1>1. PICK s \in {"answer", "unavailable"} :
          checker' = [checker EXCEPT ![g] =
                       [checker[g] EXCEPT !.pc = "store", !.addr = None, !.answer = s]]
    BY DEF Ask, Check, NotAvailable
  <1> DEFINE c == [checker[g] EXCEPT !.pc = "store", !.addr = None, !.answer = s]
  <1>2. /\ checker[g].pc = "ask" /\ checker' = [checker EXCEPT ![g] = c]
        /\ UNCHANGED <<nodes, calm, updater, stored, tracker, daemon, results>>
    BY <1>1 DEF Ask, Check
  <1>3. Live(g) /\ checker[g] \in Checker
    BY <1>2 DEF IInv, TypeOK, Live
  <1>4. /\ c \in Checker /\ c.pc = "store"
        /\ c.node = checker[g].node /\ c.cancelled = checker[g].cancelled
    BY <1>3 DEF Checker, Status
  <1>5. "none" \in Status
    BY DEF Status
  <1> HIDE DEF c
  <1>6. QED
    BY <1>2, <1>3, <1>4, <1>5, RunsOnInv

LEMMA StoreInv ==
  ASSUME IInv, NEW g \in Goroutine, StoreStatus(g)
  PROVE  IInv'
  <1> DEFINE c == [checker[g] EXCEPT !.pc = "select", !.answer = "none"]
  <1>1. /\ checker[g].pc = "store" /\ checker' = [checker EXCEPT ![g] = c]
        /\ results' = [results EXCEPT ![checker[g].node] = checker[g].answer]
        /\ UNCHANGED <<nodes, calm, updater, stored, tracker, daemon>>
    BY DEF StoreStatus, Check
  <1>2. Live(g) /\ checker[g] \in Checker
    BY <1>1 DEF IInv, TypeOK, Live
  <1>3. /\ c \in Checker /\ c.pc = "select" /\ checker[g].answer \in Status
        /\ c.node = checker[g].node /\ c.cancelled = checker[g].cancelled
    BY <1>2 DEF Checker, Status
  <1> HIDE DEF c
  <1>4. QED
    BY <1>1, <1>2, <1>3, RunsOnInv

LEMMA WaitInv ==
  ASSUME IInv, NEW g \in Goroutine, Select(g) \/ Tick(g)
  PROVE  IInv'
  <1>1. PICK p \in {"load", "wait"} :
          checker' = [checker EXCEPT ![g] = [checker[g] EXCEPT !.pc = p]]
    BY DEF Select, Tick, Check
  <1> DEFINE c == [checker[g] EXCEPT !.pc = p]
  <1>2. /\ checker[g].pc # "none" /\ checker' = [checker EXCEPT ![g] = c]
        /\ UNCHANGED <<nodes, calm, updater, stored, tracker, daemon, results>>
    BY <1>1 DEF Select, Tick, Check
  <1>3. Live(g) /\ checker[g] \in Checker
    BY <1>2 DEF IInv, TypeOK, Live
  <1>4. /\ c \in Checker /\ c.pc \in {"load", "wait"}
        /\ c.node = checker[g].node /\ c.cancelled = checker[g].cancelled
    BY <1>3 DEF Checker
  <1>5. "none" \in Status
    BY DEF Status
  <1> HIDE DEF c
  <1>6. QED
    BY <1>2, <1>3, <1>4, <1>5, RunsOnInv

\* A goroutine that ends owns no status of another node.
LEMMA ReturnInv ==
  ASSUME IInv, NEW g \in Goroutine, Return(g)
  PROVE  IInv'
  <1> USE DEF IInv, Tracked, Live
  <1> DEFINE n == checker[g].node
  <1>1. /\ UNCHANGED <<nodes, calm, updater, tracker, daemon>>
        /\ checker[g].pc # "none" /\ checker[g].cancelled
        /\ checker' = [checker EXCEPT ![g] = NoChecker]
        /\ stored' = [stored EXCEPT ![n] = None]
        /\ results' = [results EXCEPT ![n] = "none"]
    BY DEF Return, Check, ResultsWithout
  <1>2. NoChecker \in Checker /\ NoChecker.pc = "none"
    BY DEF NoChecker, Checker, Status
  <1>3. TypeOK'
    BY <1>1, <1>2 DEF TypeOK, Status
  <1>4. UpdaterOK'
    BY <1>1 DEF UpdaterOK
  <1>5. TrackerOK'
    <2> SUFFICES ASSUME NEW m \in Node, tracker[m] # None
                 PROVE  LET h == tracker[m] IN
                          checker'[h].pc # "none" /\ ~checker'[h].cancelled /\ checker'[h].node = m
      BY <1>1 DEF TrackerOK
    <2>1. tracker[m] # g
      BY <1>1 DEF TrackerOK
    <2>2. tracker[m] \in Goroutine
      BY DEF TypeOK
    <2>3. QED
      BY <1>1, <2>1, <2>2 DEF TrackerOK, TypeOK
  <1>6. CheckersOK'
    BY <1>1, <1>2 DEF CheckersOK, TypeOK
  <1>7. ResultsOwned'
    <2> SUFFICES ASSUME NEW m \in Node, results'[m] # "none"
                 PROVE  \E h \in Goroutine : checker'[h].pc # "none" /\ checker'[h].node = m
      BY DEF ResultsOwned, Named
    <2>1. m # n /\ results[m] # "none"
      BY <1>1 DEF TypeOK
    <2>2. PICK h \in Goroutine : checker[h].pc # "none" /\ checker[h].node = m
      BY <2>1 DEF ResultsOwned, Named
    <2>3. QED
      BY <1>1, <2>1, <2>2 DEF TypeOK
  <1>8. QED
    BY <1>3, <1>4, <1>5, <1>6, <1>7

-----------------------------------------------------------------------------
(* The daemons and the cluster *)

LEMMA DaemonInv ==
  ASSUME IInv, NEW n \in Node, UpdateClusterNodes(n) \/ GetStatus(n) \/ RestartDaemon(n)
  PROVE  IInv'
  <1>1. PICK d \in Daemon : Become(n, d)
    <2>1. daemon[n] \in Daemon
      BY DEF IInv, TypeOK
    <2>2. QED
      BY <2>1 DEF UpdateClusterNodes, GetStatus, RestartDaemon, NewDaemon, Daemon
  <1>2. UNCHANGED <<nodes, calm, server>> /\ daemon' \in [Node -> Daemon]
    BY <1>1 DEF Become, IInv, TypeOK
  <1>3. QED
    BY <1>2, OutsideInv DEF IInv, TypeOK

LEMMA ClusterInv ==
  ASSUME IInv, CalmDown \/ \E n \in Node, a \in Address \cup {None} : ChangeNode(n, a)
  PROVE  IInv'
  <1>1. /\ UNCHANGED server /\ daemon' \in [Node -> Daemon]
        /\ nodes' \in [Node -> Address \cup {None}] /\ calm' \in BOOLEAN
    BY DEF CalmDown, ChangeNode, IInv, TypeOK
  <1>2. QED
    BY <1>1, OutsideInv

LEMMA InvStep == IInv /\ [Next]_vars => IInv'
  <1> SUFFICES ASSUME IInv, [Next]_vars
               PROVE  IInv'
    OBVIOUS
  <1>1. CASE List \/ EndCreate \/ EndStop
    BY <1>1, UpdateInv
  <1>2. ASSUME NEW n \in Node, StoreNode(n)
        PROVE  IInv'
    BY <1>2, RefreshInv, StartInv DEF StoreNode
  <1>3. ASSUME NEW n \in Node, StopCheck(n)
        PROVE  IInv'
    BY <1>3, StopInv
  <1>4. ASSUME NEW g \in Goroutine, RunNodeCheck(g)
        PROVE  IInv'
    BY <1>4, LoadInv, StartsInv, AskInv, StoreInv, WaitInv, ReturnInv
    DEF RunNodeCheck, Panic
  <1>5. ASSUME NEW n \in Node, UpdateClusterNodes(n) \/ GetStatus(n) \/ RestartDaemon(n)
        PROVE  IInv'
    BY <1>5, DaemonInv
  <1>6. CASE RestartServer
    BY <1>6, StartsInv DEF RestartServer
  <1>7. CASE CalmDown \/ \E n \in Node, a \in Address \cup {None} : ChangeNode(n, a)
    BY <1>7, ClusterInv
  <1>8. CASE UNCHANGED vars
    <2>1. UNCHANGED server /\ UNCHANGED <<nodes, calm, daemon>>
      BY <1>8 DEF vars, server
    <2>2. QED
      BY <2>1, OutsideInv DEF IInv, TypeOK
  <1>9. QED
    BY <1>1, <1>2, <1>3, <1>4, <1>5, <1>6, <1>7, <1>8 DEF Next, UpdateClusterList

LEMMA InvCorrect == Spec => []IInv
  BY InvInit, InvStep, PTL DEF Spec

\* Every variable of NodeHealth keeps its type; a check goroutine that passed the
\* assertion has an address to ask.
THEOREM TypeCorrect == Spec => []TypeOK
  BY InvCorrect, PTL DEF IInv

\* No check goroutine of the server leaks, whatever nodes come and go and however
\* often it panics.
THEOREM CheckersAreTracked == Spec => []OneChecker
  <1>1. IInv => OneChecker
    <2> SUFFICES ASSUME IInv, NEW g \in Goroutine
                 PROVE  Live(g) /\ ~checker[g].cancelled <=> \E n \in Node : tracker[n] = g
      BY DEF OneChecker
    <2>1. g # None
      BY NoneAssumption
    <2>2. QED
      BY <2>1 DEF IInv, TrackerOK, CheckersOK, Tracked
  <1>2. QED
    BY <1>1, InvCorrect, PTL

\* No published status outlives the goroutines that could delete it.
THEOREM ResultsAreOwned == Spec => []ResultsOwned
  BY InvCorrect, PTL DEF IInv

-----------------------------------------------------------------------------
(* The pool of workers *)

Leaving == [g \in Goroutine |-> IF Live(g) /\ checker[g].cancelled THEN checker[g].node ELSE None]
Shown == {n \in Node : Named(n)}

PoolMoves == Pool!Next \/ UNCHANGED <<tracker, Leaving, Shown>>

\* Who comes to publish an answer has one.
Answered == \A g \in Goroutine : checker[g].pc = "store" => checker[g].answer # "none"

LEMMA AnsweredInit == Init => Answered
  BY DEF Init, Answered, NoChecker

LEMMA AnsweredStep ==
  ASSUME IInv, Answered, [Next]_vars
  PROVE  Answered'
  <1>1. CASE UNCHANGED checker
    BY <1>1 DEF Answered
  <1>2. ASSUME NEW g \in Goroutine, NEW c, checker' = [checker EXCEPT ![g] = c],
               c.pc = "store" => c.answer # "none"
        PROVE  Answered'
    BY <1>2 DEF Answered, IInv, TypeOK
  <1>3. CASE UpdateClusterList
    <2>1. ASSUME NEW n \in Node, NEW g \in Goroutine,
                 checker' = [checker EXCEPT ![g] = NewChecker(n)]
          PROVE  Answered'
      BY <1>2, <2>1 DEF NewChecker, NoChecker
    <2>2. ASSUME NEW n \in Node, StopCheck(n)
          PROVE  Answered'
      <3>1. /\ tracker[n] \in Goroutine
            /\ checker' = [checker EXCEPT ![tracker[n]].cancelled = TRUE]
        BY <2>2 DEF StopCheck, Gone, Tracked, IInv, TypeOK
      <3>2. \A k \in Checker : LET e == [k EXCEPT !.cancelled = TRUE] IN
              e.pc = k.pc /\ e.answer = k.answer
        BY DEF Checker
      <3>3. \A g \in Goroutine : checker[g] \in Checker
        BY DEF IInv, TypeOK
      <3>4. \A g \in Goroutine :
              checker'[g].pc = checker[g].pc /\ checker'[g].answer = checker[g].answer
        BY <3>1, <3>2, <3>3 DEF IInv, TypeOK
      <3>5. QED
        BY <3>4 DEF Answered
    <2>3. QED
      BY <1>1, <1>3, <2>1, <2>2 DEF UpdateClusterList, List, EndCreate, EndStop, StoreNode
  <1>4. ASSUME NEW g \in Goroutine, RunNodeCheck(g)
        PROVE  Answered'
    <2>1. checker[g] \in Checker
      BY DEF IInv, TypeOK
    <2>2. CASE Load(g)
      BY <1>2, <2>1, <2>2 DEF Load, Check, Checker
    <2>3. CASE Ask(g)
      <3>1. PICK s \in {"answer", "unavailable"} :
              Check(g, [checker[g] EXCEPT !.pc = "store", !.addr = None, !.answer = s])
        BY <2>3 DEF Ask, NotAvailable
      <3>2. QED
        BY <1>2, <2>1, <3>1 DEF Check, Checker
    <2>4. CASE StoreStatus(g)
      BY <1>2, <2>1, <2>4 DEF StoreStatus, Check, Checker
    <2>5. CASE Select(g) \/ Tick(g)
      BY <1>2, <2>1, <2>5 DEF Select, Tick, Check, Checker
    <2>6. CASE Return(g)
      BY <1>2, <2>6 DEF Return, Check, NoChecker
    <2>7. CASE Panic(g)
      BY <2>7 DEF Panic, ServerStarts, NoChecker, Answered
    <2>8. QED
      BY <1>4, <2>2, <2>3, <2>4, <2>5, <2>6, <2>7 DEF RunNodeCheck
  <1>5. CASE RestartServer
    BY <1>5 DEF RestartServer, ServerStarts, NoChecker, Answered
  <1>6. CASE UNCHANGED server
    BY <1>1, <1>6 DEF server
  <1>7. QED
    BY <1>3, <1>4, <1>5, <1>6
    DEF Next, UpdateClusterNodes, GetStatus, RestartDaemon, Become, ChangeNode, CalmDown,
        vars, server

LEMMA AnsweredCorrect == Spec => []Answered
  BY InvCorrect, AnsweredInit, AnsweredStep, PTL DEF Spec

LEMMA PoolInit == Init => Pool!Init
  BY DEF Init, Pool!Init, Pool!Empty, NoChecker, Live, Named

\* A goroutine runs on and publishes nothing.
LEMMA Unseen ==
  ASSUME IInv, NEW g \in Goroutine, NEW c, checker' = [checker EXCEPT ![g] = c],
         c.pc # "none", checker[g].pc # "none", c.node = checker[g].node,
         c.cancelled = checker[g].cancelled
  PROVE  Leaving' = Leaving
  BY DEF Leaving, Live, IInv, TypeOK

LEMMA PoolStarts ==
  ASSUME IInv, NEW n \in Node, NEW g \in Goroutine, StoreNode(n), ~Tracked(n), ~Live(g),
         tracker' = [tracker EXCEPT ![n] = g],
         checker' = [checker EXCEPT ![g] = NewChecker(n)]
  PROVE  Pool!Next
  <1>1. NewChecker(n).cancelled = FALSE
    BY DEF NewChecker, NoChecker
  <1>2. Leaving' = Leaving /\ Leaving[g] = None
    BY <1>1 DEF Leaving, Live, IInv, TypeOK
  <1>3. \A m \in Node : tracker[m] # g
    BY NoneAssumption DEF IInv, TrackerOK, Tracked
  <1>4. Shown' = Shown
    BY DEF Shown, Named, StoreNode
  <1>5. Pool!Start(n, g)
    BY <1>2, <1>3, <1>4 DEF Pool!Start, Pool!Idle, Leaving, Shown, Tracked
  <1>6. QED
    BY <1>5 DEF Pool!Next

LEMMA PoolStops ==
  ASSUME IInv, NEW n \in Node, StopCheck(n)
  PROVE  Pool!Next
  <1> DEFINE g == tracker[n]
  <1>1. /\ tracker' = [tracker EXCEPT ![n] = None]
        /\ checker' = [checker EXCEPT ![g].cancelled = TRUE]
        /\ results' = [results EXCEPT ![n] = "none"]
        /\ g # None
    BY DEF StopCheck, Gone, Tracked
  <1>2. g \in Goroutine /\ checker[g].pc # "none" /\ checker[g].node = n
    BY <1>1 DEF IInv, TypeOK, TrackerOK, Tracked, Live
  <1>3. \A h \in Goroutine :
          checker'[h] = IF h = g THEN [checker[h] EXCEPT !.cancelled = TRUE] ELSE checker[h]
    BY <1>1, <1>2 DEF IInv, TypeOK
  <1>4. /\ checker'[g].pc # "none" /\ checker'[g].cancelled /\ checker'[g].node = n
        /\ \A h \in Goroutine \ {g} : checker'[h] = checker[h]
    <2>1. checker[g] \in Checker
      BY <1>2 DEF IInv, TypeOK
    <2>2. ASSUME NEW k \in Checker
          PROVE  LET e == [k EXCEPT !.cancelled = TRUE] IN
                 e.cancelled /\ e.pc = k.pc /\ e.node = k.node
      BY DEF Checker
    <2>3. /\ checker'[g] = [checker[g] EXCEPT !.cancelled = TRUE]
          /\ \A h \in Goroutine \ {g} : checker'[h] = checker[h]
      BY <1>2, <1>3
    <2>4. QED
      BY <1>2, <2>1, <2>2, <2>3
  <1>5. Leaving' = [Leaving EXCEPT ![g] = n]
    BY <1>2, <1>4 DEF Leaving, Live
  <1>6. Shown' = Shown \ {n}
    BY <1>1 DEF Shown, Named, IInv, TypeOK
  <1>7. Pool!Stop(n)
    BY <1>1, <1>5, <1>6 DEF Pool!Stop, Leaving, Shown
  <1>8. QED
    BY <1>7 DEF Pool!Next

LEMMA PoolShows ==
  ASSUME IInv, Answered, NEW g \in Goroutine, StoreStatus(g)
  PROVE  Pool!Next
  <1> DEFINE n == checker[g].node
  <1> DEFINE c == [checker[g] EXCEPT !.pc = "select", !.answer = "none"]
  <1>1. /\ UNCHANGED tracker
        /\ checker[g].pc = "store" /\ checker' = [checker EXCEPT ![g] = c]
        /\ results' = [results EXCEPT ![n] = checker[g].answer]
    BY DEF StoreStatus, Check
  <1>2. n \in Node /\ checker[g].answer # "none" /\ checker[g] \in Checker
    BY <1>1 DEF IInv, TypeOK, CheckersOK, Live, Answered
  <1>3. c.pc = "select" /\ c.node = n /\ c.cancelled = checker[g].cancelled
    BY <1>2 DEF Checker
  <1> HIDE DEF c
  <1>4. Leaving' = Leaving
    BY <1>1, <1>3, Unseen
  <1>5. Shown' = Shown \cup {n}
    BY <1>1, <1>2 DEF Shown, Named, IInv, TypeOK
  <1>6. tracker[n] = g \/ Leaving[g] = n
    BY <1>1, <1>2 DEF Leaving, Live, IInv, CheckersOK
  <1>7. Pool!Show(n, g)
    BY <1>1, <1>4, <1>5, <1>6 DEF Pool!Show, Leaving, Shown
  <1>8. QED
    BY <1>2, <1>7 DEF Pool!Next

LEMMA PoolLeaves ==
  ASSUME IInv, NEW g \in Goroutine, Return(g)
  PROVE  Pool!Next
  <1> DEFINE n == checker[g].node
  <1>1. /\ UNCHANGED tracker
        /\ checker[g].pc # "none" /\ checker[g].cancelled
        /\ checker' = [checker EXCEPT ![g] = NoChecker]
        /\ results' = [results EXCEPT ![n] = "none"]
    BY DEF Return, Check, ResultsWithout
  <1>2. n \in Node /\ n # None /\ Leaving[g] = n
    BY <1>1, NoneAssumption DEF IInv, CheckersOK, Live, Leaving
  <1>3. Leaving' = [Leaving EXCEPT ![g] = None]
    BY <1>1 DEF Leaving, Live, IInv, TypeOK, NoChecker
  <1>4. Shown' = Shown \ {n}
    BY <1>1, <1>2 DEF Shown, Named, IInv, TypeOK
  <1>5. Pool!Leave(g)
    BY <1>1, <1>2, <1>3, <1>4 DEF Pool!Leave, Leaving, Shown
  <1>6. QED
    BY <1>5 DEF Pool!Next

LEMMA PoolClears ==
  ASSUME ServerStarts
  PROVE  Pool!Next
  <1>1. Pool!Clear
    BY DEF ServerStarts, Pool!Clear, Pool!Empty, NoChecker, Live, Named
  <1>2. QED
    BY <1>1 DEF Pool!Next

LEMMA PoolStep ==
  ASSUME IInv, Answered, [Next]_vars
  PROVE  PoolMoves
  <1>1. CASE UNCHANGED <<tracker, checker, results>>
    BY <1>1 DEF PoolMoves, Leaving, Live, Shown, Named
  <1>2. CASE UpdateClusterList
    <2>1. CASE List \/ EndCreate \/ EndStop
      BY <1>1, <2>1 DEF List, EndCreate, EndStop
    <2>2. ASSUME NEW n \in Node, StoreNode(n)
          PROVE  PoolMoves
      BY <1>1, <2>2, PoolStarts DEF StoreNode, PoolMoves
    <2>3. QED
      BY <1>2, <2>1, <2>2, PoolStops DEF UpdateClusterList, PoolMoves
  <1>3. ASSUME NEW g \in Goroutine, RunNodeCheck(g)
        PROVE  PoolMoves
    <2>1. CASE Load(g) \/ Ask(g) \/ Select(g) \/ Tick(g)
      <3>1. tracker' = tracker /\ Shown' = Shown /\ checker[g].pc # "none"
        BY <2>1 DEF Load, Ask, Select, Tick, Check, Shown, Named
      <3>2. checker[g] \in Checker
        BY DEF IInv, TypeOK
      <3>3. Leaving' = Leaving
        <4>1. CASE Load(g)
          <5> DEFINE c == [checker[g] EXCEPT !.pc = "ask", !.addr = stored[checker[g].node]]
          <5>1. checker' = [checker EXCEPT ![g] = c]
            BY <4>1 DEF Load, Check
          <5>2. c.pc # "none" /\ c.node = checker[g].node /\ c.cancelled = checker[g].cancelled
            BY <3>2 DEF Checker
          <5> HIDE DEF c
          <5>3. QED
            BY <3>1, <5>1, <5>2, Unseen
        <4>2. CASE Ask(g)
          <5>1. PICK s \in {"answer", "unavailable"} :
                  Check(g, [checker[g] EXCEPT !.pc = "store", !.addr = None, !.answer = s])
            BY <4>2 DEF Ask, NotAvailable
          <5> DEFINE c == [checker[g] EXCEPT !.pc = "store", !.addr = None, !.answer = s]
          <5>2. checker' = [checker EXCEPT ![g] = c]
            BY <5>1 DEF Check
          <5>3. c.pc # "none" /\ c.node = checker[g].node /\ c.cancelled = checker[g].cancelled
            BY <3>2 DEF Checker
          <5> HIDE DEF c
          <5>4. QED
            BY <3>1, <5>2, <5>3, Unseen
        <4>3. CASE Select(g) \/ Tick(g)
          <5>1. PICK p \in {"load", "wait"} :
                  checker' = [checker EXCEPT ![g] = [checker[g] EXCEPT !.pc = p]]
            BY <4>3 DEF Select, Tick, Check
          <5> DEFINE c == [checker[g] EXCEPT !.pc = p]
          <5>2. checker' = [checker EXCEPT ![g] = c]
            BY <5>1
          <5>3. c.pc # "none" /\ c.node = checker[g].node /\ c.cancelled = checker[g].cancelled
            BY <3>2 DEF Checker
          <5> HIDE DEF c
          <5>4. QED
            BY <3>1, <5>2, <5>3, Unseen
        <4>4. QED
          BY <2>1, <4>1, <4>2, <4>3
      <3>4. QED
        BY <3>1, <3>3 DEF PoolMoves
    <2>2. QED
      BY <1>3, <2>1, PoolShows, PoolLeaves, PoolClears DEF RunNodeCheck, Panic, PoolMoves
  <1>4. CASE RestartServer
    BY <1>4, PoolClears DEF RestartServer, PoolMoves
  <1>5. QED
    BY <1>1, <1>2, <1>3, <1>4
    DEF Next, UpdateClusterNodes, GetStatus, RestartDaemon, Become, ChangeNode, CalmDown,
        vars, server

\* The server's maps and check goroutines implement the pool of workers that CheckPool
\* describes, with panics as its ends.
THEOREM ChecksArePooled == Spec => ImplementsPool
  <1>1. IInv /\ Answered /\ [Next]_vars => [Pool!Next]_(Pool!vars)
    BY PoolStep DEF PoolMoves, Pool!vars, Leaving, Shown
  <1>2. QED
    BY <1>1, PoolInit, InvCorrect, AnsweredCorrect, PTL DEF Spec, ImplementsPool, Pool!Spec
=============================================================================
