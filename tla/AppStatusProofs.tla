-------------------------- MODULE AppStatusProofs --------------------------
(***************************************************************************)
(* The check goroutines and the statuses they publish, for any number of   *)
(* applications, changes, restarts and goroutines.                         *)
(***************************************************************************)
EXTENDS AppStatus, TLAPS

\* What updateAppList knows of the applications it goes through.
UpdaterOK ==
  /\ \A a \in updater.todo : updater.listed[a] # None
  /\ updater.writing # None => updater.writing \in updater.todo /\ Tracked(updater.writing)

\* The tracker names each application's goroutine, which is its own and runs on.
TrackerOK ==
  \A a \in App : Tracked(a) => LET g == tracker[a].by IN
    Live(g) /\ ~checker[g].cancelled /\ checker[g].app = a

\* A goroutine that was not told to stop is the one its application has.
CheckersOK ==
  \A g \in Goroutine : Live(g) =>
    /\ checker[g].app \in App
    /\ ~checker[g].cancelled => tracker[checker[g].app].by = g

IInv == TypeOK /\ UpdaterOK /\ TrackerOK /\ CheckersOK /\ ResultsOwned

LEMMA InvInit == Init => IInv
  <1> SUFFICES ASSUME Init
               PROVE  IInv
    OBVIOUS
  <1>1. TypeOK
    BY NoneAssumption DEF Init, TypeOK, NewUpdater, Updater, NoEntry, Entry, NoChecker, Checker
  <1>2. UpdaterOK /\ TrackerOK /\ CheckersOK /\ ResultsOwned
    BY DEF Init, UpdaterOK, TrackerOK, CheckersOK, ResultsOwned, NewUpdater, NoEntry,
           NoChecker, Tracked, Live
  <1>3. QED
    BY <1>1, <1>2 DEF IInv

-----------------------------------------------------------------------------
(* updateAppList *)

\* Its steps that leave the tracker and the goroutines alone.
LEMMA UpdateInv ==
  ASSUME IInv, List \/ EndCreate \/ EndStop \/ \E a \in App : BeginRefresh(a)
  PROVE  IInv'
  <1>1. UNCHANGED <<apps, changes, restarts, tracker, checker, results>>
    BY DEF List, EndCreate, EndStop, BeginRefresh, Update
  <1>2. TypeOK'
    BY <1>1, NoneAssumption
    DEF IInv, TypeOK, List, EndCreate, EndStop, BeginRefresh, Update, Updater, Live
  <1>3. UpdaterOK'
    <2>1. CASE List
      BY <2>1 DEF List, Update, UpdaterOK
    <2>2. CASE EndCreate \/ EndStop
      BY <1>1, <2>2 DEF EndCreate, EndStop, Update, UpdaterOK, IInv, Tracked, TypeOK, Updater
    <2>3. ASSUME NEW a \in App, BeginRefresh(a)
          PROVE  UpdaterOK'
      BY <1>1, <2>3 DEF BeginRefresh, Update, UpdaterOK, IInv, Tracked, TypeOK, Updater
    <2>4. QED
      BY <2>1, <2>2, <2>3
  <1>4. TrackerOK' /\ CheckersOK' /\ ResultsOwned'
    BY <1>1 DEF IInv, TrackerOK, CheckersOK, ResultsOwned, Tracked, Live
  <1>5. QED
    BY <1>2, <1>3, <1>4 DEF IInv

LEMMA StartInv ==
  ASSUME IInv, NEW a \in App, NEW g \in Goroutine, StartCheck(a, g)
  PROVE  IInv'
  <1> USE DEF IInv, Tracked, Live
  <1>1. /\ UNCHANGED <<apps, changes, restarts, results>>
        /\ updater' = [updater EXCEPT !.todo = @ \ {a}] /\ updater.writing = None
        /\ a \in updater.todo
        /\ tracker' = [tracker EXCEPT ![a] = [spec |-> updater.listed[a], by |-> g]]
        /\ checker' = [checker EXCEPT ![g] = NewChecker(a)]
        /\ checker[g].pc = "none" /\ tracker[a].by = None
    BY DEF StartCheck, Update
  <1>2. updater.listed[a] \in AppSpec /\ g # None
    BY <1>1, NoneAssumption DEF UpdaterOK, TypeOK, Updater
  <1>3. /\ NewChecker(a) \in Checker /\ NewChecker(a).pc = "load"
        /\ NewChecker(a).app = a /\ NewChecker(a).cancelled = FALSE
    BY DEF NewChecker, NoChecker, Checker
  <1>4. TypeOK'
    <2>1. tracker' \in [App -> Entry]
      BY <1>1, <1>2 DEF TypeOK, Entry
    <2>2. checker' \in [Goroutine -> Checker] /\ updater' \in Updater
      BY <1>1, <1>3 DEF TypeOK, Updater
    <2>3. \A h \in Goroutine : checker'[h].pc = "check" => checker'[h].read \in Status
      BY <1>1, <1>3 DEF TypeOK
    <2>4. QED
      BY <1>1, <2>1, <2>2, <2>3 DEF TypeOK
  <1>5. UpdaterOK'
    BY <1>1 DEF UpdaterOK, TypeOK, Updater
  <1>6. TrackerOK'
    <2> SUFFICES ASSUME NEW b \in App, tracker'[b].by # None
                 PROVE  LET h == tracker'[b].by IN
                          checker'[h].pc # "none" /\ ~checker'[h].cancelled /\ checker'[h].app = b
      BY DEF TrackerOK
    <2>1. CASE b = a
      BY <1>1, <1>3, <2>1 DEF TypeOK
    <2>2. CASE b # a
      <3>1. tracker'[b] = tracker[b] /\ tracker[b].by \in Goroutine
        BY <1>1, <2>2 DEF TypeOK, Entry, NoEntry
      <3>2. tracker[b].by # g
        BY <1>1, <3>1 DEF TrackerOK
      <3>3. QED
        BY <1>1, <3>1, <3>2 DEF TrackerOK, TypeOK
    <2>3. QED
      BY <2>1, <2>2
  <1>7. CheckersOK'
    <2> SUFFICES ASSUME NEW h \in Goroutine, checker'[h].pc # "none"
                 PROVE  /\ checker'[h].app \in App
                        /\ ~checker'[h].cancelled => tracker'[checker'[h].app].by = h
      BY DEF CheckersOK
    <2>1. CASE h = g
      BY <1>1, <1>3, <2>1 DEF TypeOK
    <2>2. CASE h # g
      <3>1. checker'[h] = checker[h]
        BY <1>1, <2>2 DEF TypeOK
      <3>2. /\ checker[h].app \in App
            /\ ~checker[h].cancelled => tracker[checker[h].app].by = h
        BY <3>1 DEF CheckersOK
      <3>3. checker[h].app = a => checker[h].cancelled
        BY <1>1, <1>2, <3>2, NoneAssumption
      <3>4. QED
        BY <1>1, <3>1, <3>2, <3>3 DEF TypeOK
    <2>3. QED
      BY <2>1, <2>2
  <1>8. ResultsOwned'
    BY <1>1 DEF ResultsOwned, TypeOK
  <1>9. QED
    BY <1>4, <1>5, <1>6, <1>7, <1>8

LEMMA RefreshInv ==
  ASSUME IInv, EndRefresh
  PROVE  IInv'
  <1> USE DEF IInv, Tracked, Live
  <1> DEFINE a == updater.writing
  <1>1. /\ UNCHANGED <<apps, changes, restarts, results, checker>>
        /\ updater' = [updater EXCEPT !.todo = @ \ {a}, !.writing = None]
        /\ tracker' = [tracker EXCEPT ![a].spec = updater.listed[a]]
        /\ a \in App /\ a \in updater.todo /\ tracker[a].by # None
    BY DEF EndRefresh, Update, NewestSpec, UpdaterOK, TypeOK, Updater
  <1>2. updater.listed[a] \in AppSpec /\ tracker[a] \in [spec: AppSpec, by: Goroutine]
    BY <1>1 DEF UpdaterOK, TypeOK, Updater, Entry, NoEntry
  <1>3. tracker' \in [App -> Entry] /\ \A b \in App : tracker'[b].by = tracker[b].by
    BY <1>1, <1>2 DEF TypeOK, Entry
  <1>4. TypeOK'
    BY <1>1, <1>3 DEF TypeOK, Updater
  <1>5. UpdaterOK'
    BY <1>1 DEF UpdaterOK, TypeOK, Updater
  <1>6. TrackerOK'
    BY <1>1, <1>3 DEF TrackerOK
  <1>7. CheckersOK' /\ ResultsOwned'
    BY <1>1, <1>3 DEF CheckersOK, ResultsOwned
  <1>8. QED
    BY <1>4, <1>5, <1>6, <1>7

LEMMA StopInv ==
  ASSUME IInv, NEW a \in App, StopCheck(a)
  PROVE  IInv'
  <1> USE DEF IInv, Tracked, Live
  <1> DEFINE g == tracker[a].by
  <1>1. /\ UNCHANGED <<apps, changes, restarts, results, updater>>
        /\ tracker' = [tracker EXCEPT ![a] = NoEntry]
        /\ checker' = [checker EXCEPT ![g].cancelled = TRUE]
        /\ g # None /\ updater.pc = "stop" /\ updater.listed[a] = None
    BY DEF StopCheck, Update, Gone
  <1>2. g \in Goroutine
    BY <1>1 DEF TypeOK, Entry, NoEntry
  <1>3. /\ checker' \in [Goroutine -> Checker]
        /\ \A h \in Goroutine :
             /\ checker'[h].pc = checker[h].pc /\ checker'[h].app = checker[h].app
             /\ checker'[h].read = checker[h].read
             /\ checker'[h].cancelled <=> (checker[h].cancelled \/ h = g)
    <2>1. \A h \in Goroutine :
            checker'[h] = IF h = g THEN [checker[h] EXCEPT !.cancelled = TRUE] ELSE checker[h]
      BY <1>1, <1>2 DEF TypeOK
    <2>2. \A h \in Goroutine : checker[h] \in Checker
      BY DEF TypeOK
    <2>3. ASSUME NEW k \in Checker
          PROVE  LET e == [k EXCEPT !.cancelled = TRUE] IN
                 e \in Checker /\ e.cancelled /\ e.pc = k.pc /\ e.app = k.app /\ e.read = k.read
      BY DEF Checker
    <2>4. checker' = [h \in Goroutine |-> checker'[h]]
      BY <1>1 DEF TypeOK
    <2>5. \A h \in Goroutine : checker'[h] \in Checker
      BY <2>1, <2>2, <2>3
    <2>6. checker' \in [Goroutine -> Checker]
      BY <2>4, <2>5
    <2>7. QED
      BY <2>1, <2>2, <2>3, <2>6
  <1>4. TypeOK'
    BY <1>1, <1>3 DEF TypeOK, Entry
  <1>5. UpdaterOK'
    <2>1. updater.writing # a
      BY <1>1, NoneAssumption DEF UpdaterOK, TypeOK, Updater
    <2>2. QED
      BY <1>1, <2>1 DEF UpdaterOK, TypeOK, Updater
  <1>6. TrackerOK'
    <2> SUFFICES ASSUME NEW b \in App, tracker'[b].by # None
                 PROVE  LET h == tracker'[b].by IN
                          checker'[h].pc # "none" /\ ~checker'[h].cancelled /\ checker'[h].app = b
      BY DEF TrackerOK
    <2>1. b # a /\ tracker'[b] = tracker[b] /\ tracker[b].by \in Goroutine
      BY <1>1 DEF TypeOK, Entry, NoEntry
    <2>2. tracker[b].by # g
      BY <1>1, <2>1 DEF TrackerOK
    <2>3. /\ checker[tracker[b].by].pc # "none" /\ ~checker[tracker[b].by].cancelled
          /\ checker[tracker[b].by].app = b
      BY <2>1 DEF TrackerOK
    <2>4. QED
      BY <1>3, <2>1, <2>2, <2>3
  <1>7. CheckersOK'
    <2> SUFFICES ASSUME NEW h \in Goroutine, checker'[h].pc # "none"
                 PROVE  /\ checker'[h].app \in App
                        /\ ~checker'[h].cancelled => tracker'[checker'[h].app].by = h
      BY DEF CheckersOK
    <2>1. checker[h].pc # "none" /\ checker'[h].app = checker[h].app /\ checker[h].app \in App
      BY <1>3 DEF CheckersOK
    <2>2. ASSUME ~checker'[h].cancelled
          PROVE  tracker'[checker[h].app].by = h
      <3>1. h # g /\ tracker[checker[h].app].by = h
        BY <1>3, <2>1, <2>2 DEF CheckersOK
      <3>2. checker[h].app # a
        BY <3>1
      <3>3. QED
        BY <1>1, <2>1, <3>1, <3>2 DEF TypeOK
    <2>3. QED
      BY <2>1, <2>2
  <1>8. ResultsOwned'
    BY <1>1, <1>3 DEF ResultsOwned
  <1>9. QED
    BY <1>4, <1>5, <1>6, <1>7, <1>8

-----------------------------------------------------------------------------
(* runApplicationCheck *)

\* Its steps that leave the results alone keep who runs for what.
LEMMA RunsOn ==
  ASSUME IInv, NEW g \in Goroutine, Load(g) \/ Select(g) \/ Tick(g)
  PROVE  /\ checker' \in [Goroutine -> Checker]
         /\ \A h \in Goroutine :
              /\ checker'[h].app = checker[h].app
              /\ checker'[h].cancelled = checker[h].cancelled
              /\ checker'[h].pc # "none" <=> checker[h].pc # "none"
              /\ checker'[h].pc = "check" => checker'[h].read \in Status
  <1> USE DEF IInv, Tracked, Live
  <1>1. checker[g].pc # "none"
    BY DEF Load, Select, Tick
  <1>2. CASE Select(g) \/ Tick(g)
    BY <1>2 DEF Select, Tick, Check, TypeOK, Checker
  <1>3. CASE Load(g) /\ ~Tracked(checker[g].app)
    BY <1>3 DEF Load, Check, TypeOK, Checker
  <1>4. CASE Load(g) /\ Tracked(checker[g].app)
    <2> DEFINE a == checker[g].app
    <2>1. a \in App /\ tracker[a].spec \in AppSpec
      BY <1>1, <1>4 DEF CheckersOK, TypeOK, Entry, NoEntry
    <2>2. updater.writing = a => updater.listed[a] \in AppSpec
      BY <2>1, NoneAssumption DEF UpdaterOK, TypeOK, Updater
    <2>3. Readable(a) \subseteq Status
      BY <2>1, <2>2 DEF Readable, Status
    <2>4. PICK s \in Readable(a) : Check(g, [checker[g] EXCEPT !.pc = "check", !.read = s])
      BY <1>4 DEF Load
    <2>5. s \in Status
      BY <2>3, <2>4
    <2> DEFINE c == [checker[g] EXCEPT !.pc = "check", !.read = s]
    <2>6. checker[g] \in Checker /\ checker' = [checker EXCEPT ![g] = c]
      BY <2>4 DEF Check, TypeOK
    <2>7. /\ c \in Checker /\ c.pc = "check" /\ c.read \in Status
          /\ c.app = checker[g].app /\ c.cancelled = checker[g].cancelled
      BY <2>5, <2>6 DEF Checker
    <2> HIDE DEF c
    <2>8. QED
      BY <1>1, <2>6, <2>7 DEF TypeOK
  <1>5. QED
    BY <1>2, <1>3, <1>4

LEMMA LoadInv ==
  ASSUME IInv, NEW g \in Goroutine, Load(g) \/ Select(g) \/ Tick(g)
  PROVE  IInv'
  <1> USE DEF IInv, Tracked, Live
  <1>1. UNCHANGED <<apps, changes, restarts, updater, tracker, results>>
    BY DEF Load, Select, Tick, Check
  <1>2. /\ checker' \in [Goroutine -> Checker]
        /\ \A h \in Goroutine :
             /\ checker'[h].app = checker[h].app
             /\ checker'[h].cancelled = checker[h].cancelled
             /\ checker'[h].pc # "none" <=> checker[h].pc # "none"
             /\ checker'[h].pc = "check" => checker'[h].read \in Status
    BY RunsOn
  <1>3. TypeOK' /\ UpdaterOK'
    BY <1>1, <1>2 DEF TypeOK, UpdaterOK
  <1>4. TrackerOK'
    BY <1>1, <1>2 DEF TrackerOK, TypeOK, Entry, NoEntry
  <1>5. CheckersOK' /\ ResultsOwned'
    BY <1>1, <1>2 DEF CheckersOK, ResultsOwned
  <1>6. QED
    BY <1>3, <1>4, <1>5

LEMMA StoreInv ==
  ASSUME IInv, NEW g \in Goroutine, StoreStatus(g)
  PROVE  IInv'
  <1> USE DEF IInv, Tracked, Live
  <1> DEFINE a == checker[g].app
  <1>1. /\ UNCHANGED <<apps, changes, restarts, updater, tracker>>
        /\ checker[g].pc = "check"
        /\ checker' = [checker EXCEPT ![g] = [checker[g] EXCEPT !.pc = "select", !.read = None]]
        /\ results' = [results EXCEPT ![a] = checker[g].read]
    BY DEF StoreStatus, Check
  <1>2. a \in App /\ checker[g].read \in Status
    BY <1>1 DEF CheckersOK, TypeOK
  <1>3. /\ checker' \in [Goroutine -> Checker]
        /\ \A h \in Goroutine :
             /\ checker'[h].app = checker[h].app
             /\ checker'[h].cancelled = checker[h].cancelled
             /\ checker'[h].pc # "none" <=> checker[h].pc # "none"
             /\ checker'[h].pc = "check" => checker'[h].read \in Status
    BY <1>1 DEF TypeOK, Checker
  <1>4. TypeOK' /\ UpdaterOK'
    BY <1>1, <1>2, <1>3 DEF TypeOK, UpdaterOK
  <1>5. TrackerOK'
    BY <1>1, <1>3 DEF TrackerOK, TypeOK, Entry, NoEntry
  <1>6. CheckersOK'
    BY <1>1, <1>3 DEF CheckersOK
  <1>7. ResultsOwned'
    <2> SUFFICES ASSUME NEW b \in App, results'[b] # None
                 PROVE  \E h \in Goroutine : checker'[h].pc # "none" /\ checker'[h].app = b
      BY DEF ResultsOwned
    <2>1. CASE b = a
      BY <1>1, <1>3, <2>1
    <2>2. CASE b # a
      BY <1>1, <1>3, <2>2 DEF ResultsOwned, TypeOK
    <2>3. QED
      BY <2>1, <2>2
  <1>8. QED
    BY <1>4, <1>5, <1>6, <1>7

\* A goroutine that ends owns no status of another application.
LEMMA ReturnInv ==
  ASSUME IInv, NEW g \in Goroutine, Return(g)
  PROVE  IInv'
  <1> USE DEF IInv, Tracked, Live
  <1> DEFINE a == checker[g].app
  <1>1. /\ UNCHANGED <<apps, changes, restarts, updater, tracker>>
        /\ checker[g].pc # "none" /\ checker[g].cancelled
        /\ checker' = [checker EXCEPT ![g] = NoChecker]
        /\ results' = [results EXCEPT ![a] = None]
    BY DEF Return, Check, ResultsWithout
  <1>2. NoChecker \in Checker /\ NoChecker.pc = "none"
    BY DEF NoChecker, Checker
  <1>3. TypeOK' /\ UpdaterOK'
    BY <1>1, <1>2 DEF TypeOK, UpdaterOK
  <1>4. TrackerOK'
    <2> SUFFICES ASSUME NEW b \in App, tracker[b].by # None
                 PROVE  LET h == tracker[b].by IN
                          checker'[h].pc # "none" /\ ~checker'[h].cancelled /\ checker'[h].app = b
      BY <1>1 DEF TrackerOK
    <2>1. tracker[b].by # g
      BY <1>1 DEF TrackerOK
    <2>2. tracker[b].by \in Goroutine
      BY DEF TypeOK, Entry, NoEntry
    <2>3. QED
      BY <1>1, <2>1, <2>2 DEF TrackerOK, TypeOK
  <1>5. CheckersOK'
    BY <1>1, <1>2 DEF CheckersOK, TypeOK
  <1>6. ResultsOwned'
    <2> SUFFICES ASSUME NEW b \in App, results'[b] # None
                 PROVE  \E h \in Goroutine : checker'[h].pc # "none" /\ checker'[h].app = b
      BY DEF ResultsOwned
    <2>1. b # a /\ results[b] # None
      BY <1>1 DEF TypeOK
    <2>2. PICK h \in Goroutine : checker[h].pc # "none" /\ checker[h].app = b
      BY <2>1 DEF ResultsOwned
    <2>3. QED
      BY <1>1, <2>1, <2>2 DEF TypeOK
  <1>7. QED
    BY <1>3, <1>4, <1>5, <1>6

-----------------------------------------------------------------------------
\* A new server, after a restart or a panic.
LEMMA NewServerInv ==
  ASSUME IInv, NewServer, restarts' \in Nat
  PROVE  IInv'
  <1>1. TypeOK'
    BY NoneAssumption
    DEF IInv, TypeOK, NewServer, NewUpdater, Updater, NoEntry, Entry, NoChecker, Checker
  <1>2. UpdaterOK' /\ TrackerOK' /\ CheckersOK' /\ ResultsOwned'
    BY DEF NewServer, UpdaterOK, TrackerOK, CheckersOK, ResultsOwned, NewUpdater,
           NoEntry, NoChecker, Tracked, Live
  <1>3. QED
    BY <1>1, <1>2 DEF IInv

LEMMA ClusterInv ==
  ASSUME IInv, Restart \/ \E a \in App, s \in AppSpec \cup {None} : ChangeApp(a, s)
  PROVE  IInv'
  <1>1. CASE Restart
    <2>1. NewServer /\ restarts' \in Nat
      BY <1>1 DEF Restart, IInv, TypeOK
    <2>2. QED
      BY <2>1, NewServerInv
  <1>2. ASSUME NEW a \in App, NEW s \in AppSpec \cup {None}, ChangeApp(a, s)
        PROVE  IInv'
    <2>1. UNCHANGED <<restarts, updater, tracker, checker, results>>
      BY <1>2 DEF ChangeApp
    <2>2. TypeOK'
      BY <1>2, <2>1 DEF IInv, TypeOK, ChangeApp
    <2>3. UpdaterOK' /\ TrackerOK' /\ CheckersOK' /\ ResultsOwned'
      BY <2>1 DEF IInv, UpdaterOK, TrackerOK, CheckersOK, ResultsOwned, Tracked, Live
    <2>4. QED
      BY <2>2, <2>3 DEF IInv
  <1>3. QED
    BY <1>1, <1>2

LEMMA InvStep == IInv /\ [Next]_vars => IInv'
  <1> SUFFICES ASSUME IInv, [Next]_vars
               PROVE  IInv'
    OBVIOUS
  <1>1. CASE UpdateAppList
    BY <1>1, UpdateInv, StartInv, RefreshInv, StopInv DEF UpdateAppList
  <1>2. ASSUME NEW g \in Goroutine, RunApplicationCheck(g)
        PROVE  IInv'
    <2>1. CASE Panic(g)
      BY <2>1, NewServerInv DEF Panic, IInv, TypeOK
    <2>2. QED
      BY <1>2, <2>1, LoadInv, StoreInv, ReturnInv DEF RunApplicationCheck
  <1>3. CASE Restart \/ \E a \in App, s \in AppSpec \cup {None} : ChangeApp(a, s)
    BY <1>3, ClusterInv
  <1>4. CASE UNCHANGED vars
    BY <1>4 DEF vars, IInv, TypeOK, UpdaterOK, TrackerOK, CheckersOK, ResultsOwned, Tracked, Live
  <1>5. QED
    BY <1>1, <1>2, <1>3, <1>4 DEF Next

LEMMA InvCorrect == Spec => []IInv
  BY InvInit, InvStep, PTL DEF Spec

\* Every variable of AppStatus keeps its type; no goroutine copies an AppContext
\* that is not there.
THEOREM TypeCorrect == Spec => []TypeOK
  BY InvCorrect, PTL DEF IInv

\* No check goroutine leaks, however many applications come and go.
THEOREM CheckersAreTracked == Spec => []OneChecker
  <1>1. IInv => OneChecker
    <2> SUFFICES ASSUME IInv, NEW g \in Goroutine
                 PROVE  Live(g) /\ ~checker[g].cancelled <=> \E a \in App : tracker[a].by = g
      BY DEF OneChecker
    <2>1. g # None
      BY NoneAssumption
    <2>2. QED
      BY <2>1 DEF IInv, TrackerOK, CheckersOK, Tracked
  <1>2. QED
    BY <1>1, InvCorrect, PTL

\* No published status outlives the goroutines that could delete it.
THEOREM ResultsAreOwned == Spec => []ResultsOwned
  BY InvCorrect, PTL DEF IInv

-----------------------------------------------------------------------------
(* The pool of workers *)

Active == [a \in App |-> tracker[a].by]
Leaving == [g \in Goroutine |-> IF Live(g) /\ checker[g].cancelled THEN checker[g].app ELSE None]
Shown == {a \in App : results[a] # None}

PoolMoves == Pool!Next \/ UNCHANGED <<Active, Leaving, Shown>>

LEMMA PoolInit == Init => Pool!Init
  BY DEF Init, Pool!Init, Pool!Empty, NoEntry, NoChecker, Live

\* What the pool sees does not change.
LEMMA Unseen ==
  ASSUME \A a \in App : tracker'[a].by = tracker[a].by,
         \A g \in Goroutine :
           /\ (checker'[g].pc # "none") <=> (checker[g].pc # "none")
           /\ checker'[g].cancelled = checker[g].cancelled /\ checker'[g].app = checker[g].app,
         results' = results
  PROVE  UNCHANGED <<Active, Leaving, Shown>>
  <1>1. Active' = Active
    BY DEF Active
  <1>2. Leaving' = Leaving
    BY DEF Leaving, Live
  <1>3. Shown' = Shown
    BY DEF Shown
  <1>4. QED
    BY <1>1, <1>2, <1>3

LEMMA PoolStarts ==
  ASSUME IInv, NEW a \in App, NEW g \in Goroutine, StartCheck(a, g)
  PROVE  Pool!Next
  <1>1. /\ UNCHANGED results
        /\ tracker' = [tracker EXCEPT ![a] = [spec |-> updater.listed[a], by |-> g]]
        /\ checker' = [checker EXCEPT ![g] = NewChecker(a)]
        /\ checker[g].pc = "none" /\ tracker[a].by = None
    BY DEF StartCheck, Update, Tracked, Live
  <1>2. NewChecker(a).cancelled = FALSE
    BY DEF NewChecker, NoChecker
  <1>3. Active' = [Active EXCEPT ![a] = g] /\ Active[a] = None
    BY <1>1 DEF Active, IInv, TypeOK
  <1>4. Leaving' = Leaving /\ Leaving[g] = None
    BY <1>1, <1>2 DEF Leaving, Live, IInv, TypeOK
  <1>5. \A b \in App : Active[b] # g
    BY <1>1, NoneAssumption DEF Active, IInv, TrackerOK, Tracked, Live
  <1>6. Shown' = Shown
    BY <1>1 DEF Shown
  <1>7. Pool!Start(a, g)
    BY <1>3, <1>4, <1>5, <1>6 DEF Pool!Start, Pool!Idle, Active, Leaving, Shown
  <1>8. QED
    BY <1>7 DEF Pool!Next

LEMMA PoolStops ==
  ASSUME IInv, NEW a \in App, StopCheck(a)
  PROVE  Pool!Next
  <1> DEFINE g == tracker[a].by
  <1>1. /\ UNCHANGED results
        /\ tracker' = [tracker EXCEPT ![a] = NoEntry]
        /\ checker' = [checker EXCEPT ![g].cancelled = TRUE]
        /\ g # None
    BY DEF StopCheck, Update, Gone, Tracked
  <1>2. g \in Goroutine /\ checker[g].pc # "none" /\ checker[g].app = a
    BY <1>1 DEF IInv, TypeOK, Entry, NoEntry, TrackerOK, Tracked, Live
  <1>3. Active' = [Active EXCEPT ![a] = None] /\ Active[a] = g
    BY <1>1 DEF Active, IInv, TypeOK, NoEntry
  <1>4. \A h \in Goroutine :
          checker'[h] = IF h = g THEN [checker[h] EXCEPT !.cancelled = TRUE] ELSE checker[h]
    BY <1>1, <1>2 DEF IInv, TypeOK
  <1>5. /\ checker'[g].pc # "none" /\ checker'[g].cancelled /\ checker'[g].app = a
        /\ \A h \in Goroutine \ {g} : checker'[h] = checker[h]
    <2>1. checker[g] \in Checker
      BY <1>2 DEF IInv, TypeOK
    <2>2. ASSUME NEW k \in Checker
          PROVE  LET e == [k EXCEPT !.cancelled = TRUE] IN
                 e.cancelled /\ e.pc = k.pc /\ e.app = k.app
      BY DEF Checker
    <2>3. /\ checker'[g] = [checker[g] EXCEPT !.cancelled = TRUE]
          /\ \A h \in Goroutine \ {g} : checker'[h] = checker[h]
      BY <1>2, <1>4
    <2>4. QED
      BY <1>2, <2>1, <2>2, <2>3
  <1>6. Leaving' = [Leaving EXCEPT ![g] = a]
    BY <1>2, <1>5 DEF Leaving, Live
  <1>7. Shown' = Shown
    BY <1>1 DEF Shown
  <1>8. Pool!Stop(a)
    BY <1>1, <1>3, <1>6, <1>7 DEF Pool!Stop, Active, Leaving, Shown
  <1>9. QED
    BY <1>8 DEF Pool!Next

LEMMA PoolShows ==
  ASSUME IInv, NEW g \in Goroutine, StoreStatus(g)
  PROVE  Pool!Next
  <1> DEFINE a == checker[g].app
  <1>1. /\ UNCHANGED tracker
        /\ checker[g].pc = "check"
        /\ checker' = [checker EXCEPT ![g] = [checker[g] EXCEPT !.pc = "select", !.read = None]]
        /\ results' = [results EXCEPT ![a] = checker[g].read]
    BY DEF StoreStatus, Check
  <1>2. a \in App /\ checker[g].read # None
    BY <1>1, NoneAssumption DEF IInv, TypeOK, CheckersOK, Live, Status
  <1>3. Active' = Active
    BY <1>1 DEF Active
  <1>4. Leaving' = Leaving
    BY <1>1 DEF Leaving, Live, IInv, TypeOK, Checker
  <1>5. Shown' = Shown \cup {a}
    BY <1>1, <1>2 DEF Shown, IInv, TypeOK
  <1>6. Active[a] = g \/ Leaving[g] = a
    BY <1>1, <1>2 DEF Active, Leaving, Live, IInv, CheckersOK
  <1>7. Pool!Show(a, g)
    BY <1>3, <1>4, <1>5, <1>6 DEF Pool!Show, Active, Leaving, Shown
  <1>8. QED
    BY <1>2, <1>7 DEF Pool!Next

LEMMA PoolLeaves ==
  ASSUME IInv, NEW g \in Goroutine, Return(g)
  PROVE  Pool!Next
  <1> DEFINE a == checker[g].app
  <1>1. /\ UNCHANGED tracker
        /\ checker[g].pc # "none" /\ checker[g].cancelled
        /\ checker' = [checker EXCEPT ![g] = NoChecker]
        /\ results' = [results EXCEPT ![a] = None]
    BY DEF Return, Check, ResultsWithout
  <1>2. a \in App /\ a # None /\ Leaving[g] = a
    BY <1>1, NoneAssumption DEF IInv, CheckersOK, Live, Leaving
  <1>3. Active' = Active
    BY <1>1 DEF Active
  <1>4. Leaving' = [Leaving EXCEPT ![g] = None]
    BY <1>1 DEF Leaving, Live, IInv, TypeOK, NoChecker
  <1>5. Shown' = Shown \ {a}
    BY <1>1, <1>2 DEF Shown, IInv, TypeOK
  <1>6. Pool!Leave(g)
    BY <1>2, <1>3, <1>4, <1>5 DEF Pool!Leave, Active, Leaving, Shown
  <1>7. QED
    BY <1>6 DEF Pool!Next

LEMMA PoolClears == NewServer => PoolMoves
  <1>1. NewServer => Pool!Clear
    BY DEF NewServer, Pool!Clear, Pool!Empty, NoEntry, NoChecker, Live
  <1>2. QED
    BY <1>1 DEF PoolMoves, Pool!Next

LEMMA PoolStep ==
  ASSUME IInv, [Next]_vars
  PROVE  PoolMoves
  <1>1. CASE List \/ EndCreate \/ EndStop \/ \E a \in App : BeginRefresh(a)
    BY <1>1, Unseen DEF List, EndCreate, EndStop, BeginRefresh, Update, PoolMoves
  <1>2. CASE EndRefresh
    <2>1. checker' = checker /\ results' = results
      BY <1>2 DEF EndRefresh, Update
    <2>2. \A a \in App : tracker[a] \in Entry
      BY DEF IInv, TypeOK
    <2>3. \A a \in App : tracker'[a].by = tracker[a].by
      BY <1>2, <2>2 DEF EndRefresh, IInv, TypeOK, Entry, NoEntry
    <2>4. QED
      BY <2>1, <2>3, Unseen DEF PoolMoves
  <1>3. ASSUME NEW a \in App, StopCheck(a) \/ \E g \in Goroutine : StartCheck(a, g)
        PROVE  PoolMoves
    BY <1>3, PoolStarts, PoolStops DEF PoolMoves
  <1>4. ASSUME NEW g \in Goroutine, RunApplicationCheck(g)
        PROVE  PoolMoves
    <2>1. CASE Load(g) \/ Select(g) \/ Tick(g)
      <3>1. tracker' = tracker /\ results' = results
        BY <2>1 DEF Load, Select, Tick, Check
      <3>2. QED
        BY <2>1, <3>1, RunsOn, Unseen DEF PoolMoves
    <2>3. CASE Panic(g)
      BY <2>3, PoolClears DEF Panic
    <2>4. QED
      BY <1>4, <2>1, <2>3, PoolShows, PoolLeaves DEF RunApplicationCheck, PoolMoves
  <1>5. CASE Restart
    BY <1>5, PoolClears DEF Restart
  <1>6. CASE \E a \in App, s \in AppSpec \cup {None} : ChangeApp(a, s)
    BY <1>6, Unseen DEF ChangeApp, PoolMoves
  <1>7. CASE UNCHANGED vars
    BY <1>7, Unseen DEF vars, PoolMoves
  <1>8. QED
    BY <1>1, <1>2, <1>3, <1>4, <1>5, <1>6, <1>7 DEF Next, UpdateAppList

\* updateAppList and the check goroutines, with their two maps and no lock, implement
\* the pool of workers that CheckPool describes.
THEOREM ChecksArePooled == Spec => ImplementsPool
  <1>1. IInv /\ [Next]_vars => [Pool!Next]_(Pool!vars)
    BY PoolStep DEF PoolMoves, Pool!vars, Active, Leaving, Shown
  <1>2. QED
    BY <1>1, PoolInit, InvCorrect, PTL DEF Spec, ImplementsPool, Pool!Spec
=============================================================================
