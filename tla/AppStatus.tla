----------------------------- MODULE AppStatus -----------------------------
(***************************************************************************)
(* The application checks of kb server health-status                       *)
(* (managers/status_app.go).  updateAppList follows the Application        *)
(* resources and keeps one goroutine per application, runApplicationCheck, *)
(* which publishes the application's status.  They share two sync.Maps and *)
(* no lock.  What an endpoint answers is left out: a status is the         *)
(* specification that it was computed from.                                *)
(***************************************************************************)
EXTENDS Naturals

CONSTANTS App,         \* names of applications
          AppSpec,     \* what their specifications can be
          Malformed,   \* those with an endpoint that is no template
          Torn,        \* a mixture of two of them
          None,
          Goroutine,   \* bound: check goroutines at one time
          MaxChanges,  \* bound: changes of the Application resources
          MaxRestarts  \* bound: restarts of the server, its own panics apart

ASSUME MalformedAssumption == Malformed \subseteq AppSpec
ASSUME NoneAssumption == None \notin App \cup AppSpec \cup {Torn} \cup Goroutine
ASSUME BoundAssumption == MaxChanges \in Nat /\ MaxRestarts \in Nat

Status == AppSpec \cup {Torn}
NoEntry == [spec |-> None, by |-> None]
Entry == [spec: AppSpec, by: Goroutine] \cup {NoEntry}
Checker == [pc: {"none", "load", "check", "select", "wait"},
            app: App \cup {None}, read: Status \cup {None}, cancelled: BOOLEAN]
Updater == [pc: {"list", "create", "stop"},
            listed: [App -> AppSpec \cup {None}],
            todo: SUBSET App,           \* listed applications to go through
            writing: App \cup {None}]   \* AppContext being overwritten

VARIABLES
  apps,     \* the Application resources
  changes,  \* how often they changed
  restarts,
  updater,  \* updateAppList
  tracker,  \* appListTracker: the AppContext of each application
  checker,  \* the runApplicationCheck goroutines
  results   \* appStatusResults

vars == <<apps, changes, restarts, updater, tracker, checker, results>>

NoChecker == [pc |-> "none", app |-> None, read |-> None, cancelled |-> FALSE]
NewChecker(a) == [NoChecker EXCEPT !.pc = "load", !.app = a]
NewUpdater == [pc |-> "list", listed |-> [a \in App |-> None], todo |-> {}, writing |-> None]

-----------------------------------------------------------------------------
(* Helpers *)

Live(g) == checker[g].pc # "none"

\* Is there an AppContext of the application, so that no goroutine is started?
NeverTracked(a) == FALSE
AlwaysTracked(a) == TRUE
Tracked(a) == tracker[a].by # None

\* Applications whose goroutine is to be stopped.
Gone(a) == Tracked(a) /\ updater.listed[a] = None

\* What overwriting the AppContext leaves in it.
FirstSpec(a) == tracker[a].spec
NewestSpec(a) == updater.listed[a]

\* What the AppContext of application a is read as.  updateAppList overwrites it
\* while the goroutine copies it: a data race.
Readable(a) ==
  LET old == tracker[a].spec
      new == updater.listed[a] IN
  IF updater.writing = a /\ old # new THEN {old, new, Torn} ELSE {old}

\* Which specifications a check gets to the end of.
ChecksAny(s) == TRUE
Checkable(s) == s \notin Malformed

\* The results when a goroutine for application a returns.
ResultsKept(a) == results
ResultsWithout(a) == [results EXCEPT ![a] = None]

-----------------------------------------------------------------------------
(* updateAppList *)

Update(u) == updater' = u /\ UNCHANGED <<apps, changes, restarts, results>>

\* A List that fails is tried again; nothing is remembered of it.
List ==
  /\ updater.pc = "list"
  /\ Update([pc |-> "create", listed |-> apps, todo |-> {a \in App : apps[a] # None},
             writing |-> None])
  /\ UNCHANGED <<tracker, checker>>

StartCheck(a, g) ==
  /\ updater.pc = "create" /\ a \in updater.todo /\ updater.writing = None
  /\ ~Tracked(a) /\ ~Live(g)
  /\ tracker' = [tracker EXCEPT ![a] = [spec |-> updater.listed[a], by |-> g]]
  /\ checker' = [checker EXCEPT ![g] = NewChecker(a)]
  /\ Update([updater EXCEPT !.todo = @ \ {a}])

\* The assignment of the Application is no atomic write.
BeginRefresh(a) ==
  /\ updater.pc = "create" /\ a \in updater.todo /\ updater.writing = None
  /\ Tracked(a)
  /\ Update([updater EXCEPT !.writing = a])
  /\ UNCHANGED <<tracker, checker>>

EndRefresh ==
  LET a == updater.writing IN
  /\ a # None
  /\ tracker' = [tracker EXCEPT ![a].spec = NewestSpec(a)]
  /\ Update([updater EXCEPT !.todo = @ \ {a}, !.writing = None])
  /\ UNCHANGED checker

EndCreate ==
  /\ updater.pc = "create" /\ updater.todo = {}
  /\ Update([updater EXCEPT !.pc = "stop"])
  /\ UNCHANGED <<tracker, checker>>

\* CancelFunc, then Delete from the tracker.
StopCheck(a) ==
  /\ updater.pc = "stop" /\ Gone(a)
  /\ checker' = [checker EXCEPT ![tracker[a].by].cancelled = TRUE]
  /\ tracker' = [tracker EXCEPT ![a] = NoEntry]
  /\ Update(updater)

\* Sleeps until the next List.
EndStop ==
  /\ updater.pc = "stop" /\ \A a \in App : ~Gone(a)
  /\ Update([updater EXCEPT !.pc = "list"])
  /\ UNCHANGED <<tracker, checker>>

UpdateAppList ==
  \/ List \/ EndRefresh \/ EndCreate \/ EndStop
  \/ \E a \in App : BeginRefresh(a) \/ StopCheck(a) \/ \E g \in Goroutine : StartCheck(a, g)

-----------------------------------------------------------------------------
(* runApplicationCheck *)

Check(g, c) ==
  /\ checker' = [checker EXCEPT ![g] = c]
  /\ UNCHANGED <<apps, changes, restarts, updater, tracker>>

\* The tracker may have no entry, or that of a successor.
Load(g) ==
  LET a == checker[g].app IN
  /\ checker[g].pc = "load"
  /\ IF Tracked(a)
     THEN \E s \in Readable(a) : Check(g, [checker[g] EXCEPT !.pc = "check", !.read = s])
     ELSE Check(g, [checker[g] EXCEPT !.pc = "select"])
  /\ UNCHANGED results

\* The endpoints have answered.
StoreStatus(g) ==
  /\ checker[g].pc = "check" /\ Checkable(checker[g].read)
  /\ results' = [results EXCEPT ![checker[g].app] = checker[g].read]
  /\ Check(g, [checker[g] EXCEPT !.pc = "select", !.read = None])

\* The server ends with all of its goroutines and maps, and the deployment starts
\* another.
NewServer ==
  /\ updater' = NewUpdater
  /\ tracker' = [a \in App |-> NoEntry]
  /\ checker' = [g \in Goroutine |-> NoChecker]
  /\ results' = [a \in App |-> None]
  /\ UNCHANGED <<apps, changes>>

\* The error of Parse is dropped with the template, and Execute on nil panics.
Panic(g) ==
  /\ checker[g].pc = "check" /\ ~Checkable(checker[g].read)
  /\ NewServer /\ UNCHANGED restarts

\* ctx.Done() is the only channel that can be ready when the select is reached.
Select(g) ==
  /\ checker[g].pc = "select" /\ ~checker[g].cancelled
  /\ Check(g, [checker[g] EXCEPT !.pc = "wait"])
  /\ UNCHANGED results

Return(g) ==
  /\ checker[g].pc \in {"select", "wait"} /\ checker[g].cancelled
  /\ results' = ResultsWithout(checker[g].app)
  /\ Check(g, NoChecker)

\* The timer may beat a cancellation.
Tick(g) ==
  /\ checker[g].pc = "wait"
  /\ Check(g, [checker[g] EXCEPT !.pc = "load"])
  /\ UNCHANGED results

RunApplicationCheck(g) ==
  Load(g) \/ StoreStatus(g) \/ Panic(g) \/ Select(g) \/ Return(g) \/ Tick(g)

-----------------------------------------------------------------------------
(* The cluster *)

\* kb registers, changes or removes an application.
ChangeApp(a, s) ==
  /\ changes < MaxChanges /\ s # apps[a]
  /\ apps' = [apps EXCEPT ![a] = s] /\ changes' = changes + 1
  /\ UNCHANGED <<restarts, updater, tracker, checker, results>>

\* The process is ended, or a torn read ends it.
Restart == restarts < MaxRestarts /\ restarts' = restarts + 1 /\ NewServer

Init ==
  /\ apps \in [App -> AppSpec \cup {None}] /\ changes = 0 /\ restarts = 0
  /\ updater = NewUpdater
  /\ tracker = [a \in App |-> NoEntry]
  /\ checker = [g \in Goroutine |-> NoChecker]
  /\ results = [a \in App |-> None]

Next ==
  \/ UpdateAppList \/ Restart
  \/ \E g \in Goroutine : RunApplicationCheck(g)
  \/ \E a \in App, s \in AppSpec \cup {None} : ChangeApp(a, s)

Spec == Init /\ [][Next]_vars

\* Every goroutine is scheduled, every check ends (its requests have a timeout),
\* and a List succeeds at last.
FairSpec ==
  Spec /\ WF_vars(UpdateAppList) /\ \A g \in Goroutine : WF_vars(RunApplicationCheck(g))

-----------------------------------------------------------------------------
(* Properties *)

TypeOK ==
  /\ apps \in [App -> AppSpec \cup {None}]
  /\ changes \in Nat /\ restarts \in Nat
  /\ updater \in Updater
  /\ tracker \in [App -> Entry]
  /\ checker \in [Goroutine -> Checker]
  /\ \A g \in Goroutine : checker[g].pc = "check" => checker[g].read \in Status
  /\ results \in [App -> Status \cup {None}]

\* An application has at most one goroutine that was not told to stop, and the
\* tracker can stop it; however fast it is removed and registered again, none
\* leaks.
OneChecker ==
  \A g \in Goroutine :
    Live(g) /\ ~checker[g].cancelled <=> \E a \in App : tracker[a].by = g

\* A published status always has a goroutine left that will replace or delete it:
\* a check that was under way when its application was removed leaves nothing
\* behind for good.
ResultsOwned ==
  \A a \in App : results[a] # None => \E g \in Goroutine : Live(g) /\ checker[g].app = a

\* Once the applications stay as they are and none is malformed any more, the
\* published statuses become theirs and stay so, although a goroutine that is stopped
\* late deletes the status that its successor has published, a refresh races with the
\* checks, and a check of what was malformed ends the server late.  As long as one is
\* malformed, the server's panics take the statuses of all the others with them.
Converges ==
  <>[](\A a \in App : apps[a] \notin Malformed) => <>[](results = apps)

\* The tracker, the goroutines and the published statuses are such a pool of workers
\* as CheckPool describes: no start meets a goroutine that runs on, a cancellation
\* reaches the application's own goroutine, and a status is removed by a goroutine that
\* was told to stop, or with the server.
Pool == INSTANCE CheckPool WITH
  Key <- App, Worker <- Goroutine, Nobody <- None,
  active <- [a \in App |-> tracker[a].by],
  leaving <- [g \in Goroutine |-> IF Live(g) /\ checker[g].cancelled THEN checker[g].app ELSE None],
  shown <- {a \in App : results[a] # None}
ImplementsPool == Pool!Spec
=============================================================================
