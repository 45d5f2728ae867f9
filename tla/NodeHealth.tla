----------------------------- MODULE NodeHealth -----------------------------
(***************************************************************************)
(* The status of the nodes: kb server health-status                        *)
(* (managers/status_node.go) and the cluster-status daemon on every node   *)
(* (cmd/cluster-status).  The server lists the cluster's nodes and asks    *)
(* each node's daemon for its status; a daemon has a status only after the *)
(* server's own list of nodes, made of the statuses, has named its node.   *)
(* What a status says of the node is left out, and so are the daemons'     *)
(* requests to each other.  No two nodes ever share an address: the name   *)
(* in an answer, under which it is published, is that of the node asked.   *)
(***************************************************************************)
CONSTANTS Node,
          Address,   \* a node's address may change
          None,
          Goroutine  \* bound: check goroutines at one time

ASSUME NoneAssumption == None \notin Node \cup Address \cup Goroutine

\* What is published for a node: nothing, "Not Available", or the daemon's answer.
Status == {"none", "unavailable", "answer"}

Checker == [pc: {"none", "load", "ask", "store", "select", "wait"},
            node: Node \cup {None}, addr: Address \cup {None},
            answer: Status, cancelled: BOOLEAN]
Updater == [pc: {"list", "create", "stop"}, listed: [Node -> Address \cup {None}],
            todo: SUBSET Node]
Daemon == [tracked: BOOLEAN,  \* nodeListTracker has the own node
           running: BOOLEAN,  \* there are getStatus goroutines
           status: BOOLEAN]   \* they published one in NodeStatusResults

VARIABLES
  nodes,    \* the cluster's nodes and their addresses
  calm,     \* nothing fails, restarts or changes any more
  updater,  \* updateClusterList
  stored,   \* k0sNode: the address of each
  tracker,  \* clusterListTracker
  checker,  \* the runNodeCheck goroutines
  results,  \* clusterNodesResults
  daemon    \* the daemon of each node

server == <<updater, stored, tracker, checker, results>>
vars == <<nodes, calm, updater, stored, tracker, checker, results, daemon>>

NoChecker == [pc |-> "none", node |-> None, addr |-> None, answer |-> "none",
              cancelled |-> FALSE]
NewChecker(n) == [NoChecker EXCEPT !.pc = "load", !.node = n]
NewUpdater == [pc |-> "list", listed |-> [n \in Node |-> None], todo |-> {}]
NewDaemon == [tracked |-> FALSE, running |-> FALSE, status |-> FALSE]

-----------------------------------------------------------------------------
(* Helpers *)

Live(g) == checker[g].pc # "none"

NeverTracked(n) == FALSE
Tracked(n) == tracker[n] # None

Gone(n) == Tracked(n) /\ updater.listed[n] = None

\* Does a check goroutine find its node in k0sNode?
FoundAlways(n) == TRUE
Found(n) == stored[n] # None

\* What a check publishes when the daemon did not answer with a status.
NothingPublished == "none"
NotAvailable == "unavailable"

\* The results when the goroutine of node n returns.
ResultsKept(n) == results
ResultsWithout(n) == [results EXCEPT ![n] = "none"]

\* Does a request to address a reach the daemon of node n?  A node that was
\* removed may still run.
MayReach(n, a) == nodes[n] \in {a, None}
MustReach(n, a) == calm /\ nodes[n] = a

\* Does retrieveNodeStatus send a status, or an empty body?
HasStatus(n) == daemon[n].status

\* The daemon's list of nodes: those that have a result.
Named(n) == results[n] # "none"

-----------------------------------------------------------------------------
(* updateClusterList *)

Update(u) == updater' = u /\ UNCHANGED <<nodes, calm, daemon>>

\* A List that fails is tried again; nothing is remembered of it.
List ==
  /\ updater.pc = "list"
  /\ Update([pc |-> "create", listed |-> nodes, todo |-> {n \in Node : nodes[n] # None}])
  /\ UNCHANGED <<stored, tracker, checker, results>>

\* A listed node is stored; a new one gets a goroutine.
StoreNode(n) ==
  /\ updater.pc = "create" /\ n \in updater.todo
  /\ stored' = [stored EXCEPT ![n] = updater.listed[n]]
  /\ Update([updater EXCEPT !.todo = @ \ {n}])
  /\ UNCHANGED results
  /\ \/ Tracked(n) /\ UNCHANGED <<tracker, checker>>
     \/ /\ ~Tracked(n)
        /\ \E g \in Goroutine :
             /\ ~Live(g)
             /\ tracker' = [tracker EXCEPT ![n] = g]
             /\ checker' = [checker EXCEPT ![g] = NewChecker(n)]

EndCreate ==
  /\ updater.pc = "create" /\ updater.todo = {}
  /\ Update([updater EXCEPT !.pc = "stop"])
  /\ UNCHANGED <<stored, tracker, checker, results>>

\* CancelFunc, then Delete from the three maps.
StopCheck(n) ==
  /\ updater.pc = "stop" /\ Gone(n)
  /\ checker' = [checker EXCEPT ![tracker[n]].cancelled = TRUE]
  /\ tracker' = [tracker EXCEPT ![n] = None]
  /\ stored' = [stored EXCEPT ![n] = None]
  /\ results' = [results EXCEPT ![n] = "none"]
  /\ Update(updater)

\* Sleeps until the next List.
EndStop ==
  /\ updater.pc = "stop" /\ \A n \in Node : ~Gone(n)
  /\ Update([updater EXCEPT !.pc = "list"])
  /\ UNCHANGED <<stored, tracker, checker, results>>

UpdateClusterList ==
  List \/ EndCreate \/ EndStop \/ \E n \in Node : StoreNode(n) \/ StopCheck(n)

-----------------------------------------------------------------------------
(* runNodeCheck *)

Check(g, c) ==
  /\ checker' = [checker EXCEPT ![g] = c]
  /\ UNCHANGED <<nodes, calm, updater, tracker, daemon>>

Load(g) ==
  /\ checker[g].pc = "load" /\ Found(checker[g].node)
  /\ Check(g, [checker[g] EXCEPT !.pc = "ask", !.addr = stored[checker[g].node]])
  /\ UNCHANGED <<stored, results>>

\* The process ends with all of its goroutines and maps; another is started.
ServerStarts ==
  /\ updater' = NewUpdater
  /\ stored' = [n \in Node |-> None]
  /\ tracker' = [n \in Node |-> None]
  /\ checker' = [g \in Goroutine |-> NoChecker]
  /\ results' = [n \in Node |-> "none"]
  /\ UNCHANGED <<nodes, calm, daemon>>

\* The assertion that k0sNode has a v1.Node.
Panic(g) ==
  /\ checker[g].pc = "load" /\ ~Found(checker[g].node)
  /\ ServerStarts

\* An empty body cannot be decoded.
Ask(g) ==
  LET n == checker[g].node
      a == checker[g].addr
      Answer(s) == Check(g, [checker[g] EXCEPT !.pc = "store", !.addr = None, !.answer = s])
  IN
  /\ checker[g].pc = "ask"
  /\ \/ MayReach(n, a) /\ HasStatus(n) /\ Answer("answer")
     \/ ~(MustReach(n, a) /\ HasStatus(n)) /\ Answer(NotAvailable)
  /\ UNCHANGED <<stored, results>>

StoreStatus(g) ==
  /\ checker[g].pc = "store"
  /\ results' = [results EXCEPT ![checker[g].node] = checker[g].answer]
  /\ Check(g, [checker[g] EXCEPT !.pc = "select", !.answer = "none"])
  /\ UNCHANGED stored

Select(g) ==
  /\ checker[g].pc = "select" /\ ~checker[g].cancelled
  /\ Check(g, [checker[g] EXCEPT !.pc = "wait"])
  /\ UNCHANGED <<stored, results>>

Return(g) ==
  /\ checker[g].pc \in {"select", "wait"} /\ checker[g].cancelled
  /\ stored' = [stored EXCEPT ![checker[g].node] = None]
  /\ results' = ResultsWithout(checker[g].node)
  /\ Check(g, NoChecker)

\* The timer may beat a cancellation.
Tick(g) ==
  /\ checker[g].pc = "wait"
  /\ Check(g, [checker[g] EXCEPT !.pc = "load"])
  /\ UNCHANGED <<stored, results>>

RunNodeCheck(g) ==
  Load(g) \/ Panic(g) \/ Ask(g) \/ StoreStatus(g) \/ Select(g) \/ Return(g) \/ Tick(g)

-----------------------------------------------------------------------------
(* The daemon of node n *)

Become(n, d) ==
  /\ daemon' = [daemon EXCEPT ![n] = d]
  /\ UNCHANGED <<nodes, calm, server>>

\* updateClusterNodes, as far as the own node goes: one request to the server and
\* what the answer makes of the tracker, which nobody else uses.  getStatus does
\* not listen to its context, so that cancelling it ends nothing.
UpdateClusterNodes(n) ==
  \/ /\ Named(n) /\ ~daemon[n].tracked
     /\ Become(n, [daemon[n] EXCEPT !.tracked = TRUE, !.running = TRUE])
  \/ /\ ~Named(n) /\ daemon[n].tracked
     /\ Become(n, [daemon[n] EXCEPT !.tracked = FALSE])

GetStatus(n) == daemon[n].running /\ Become(n, [daemon[n] EXCEPT !.status = TRUE])

-----------------------------------------------------------------------------
(* The cluster *)

\* A node joins, leaves or changes its address.
ChangeNode(n, a) ==
  /\ ~calm /\ nodes' = [nodes EXCEPT ![n] = a]
  /\ UNCHANGED <<calm, server, daemon>>

RestartServer == ~calm /\ ServerStarts

RestartDaemon(n) == ~calm /\ Become(n, NewDaemon)

CalmDown == ~calm /\ calm' = TRUE /\ UNCHANGED <<nodes, server, daemon>>

Init ==
  /\ nodes \in [Node -> Address \cup {None}] /\ calm = FALSE
  /\ updater = NewUpdater
  /\ stored = [n \in Node |-> None] /\ tracker = [n \in Node |-> None]
  /\ checker = [g \in Goroutine |-> NoChecker]
  /\ results = [n \in Node |-> "none"]
  /\ daemon = [n \in Node |-> NewDaemon]

Next ==
  \/ UpdateClusterList
  \/ \E g \in Goroutine : RunNodeCheck(g)
  \/ \E n \in Node : UpdateClusterNodes(n) \/ GetStatus(n) \/ RestartDaemon(n)
  \/ \E n \in Node, a \in Address \cup {None} : ChangeNode(n, a)
  \/ RestartServer \/ CalmDown

Spec == Init /\ [][Next]_vars

\* Every goroutine is scheduled, requests have a timeout, and a List or a request
\* to the server succeeds at last.
FairSpec ==
  /\ Spec /\ WF_vars(UpdateClusterList)
  /\ \A g \in Goroutine : WF_vars(RunNodeCheck(g))
  /\ \A n \in Node : WF_vars(UpdateClusterNodes(n)) /\ WF_vars(GetStatus(n))

-----------------------------------------------------------------------------
(* Properties *)

TypeOK ==
  /\ nodes \in [Node -> Address \cup {None}] /\ calm \in BOOLEAN
  /\ updater \in Updater
  /\ stored \in [Node -> Address \cup {None}]
  /\ tracker \in [Node -> Goroutine \cup {None}]
  /\ checker \in [Goroutine -> Checker]
  /\ \A g \in Goroutine : checker[g].pc = "ask" => checker[g].addr \in Address
  /\ results \in [Node -> Status]
  /\ daemon \in [Node -> Daemon]

\* A node has at most one goroutine that was not told to stop, and the tracker can
\* stop it, whatever joins, leaves and panics.
OneChecker ==
  \A g \in Goroutine : Live(g) /\ ~checker[g].cancelled <=> \E n \in Node : tracker[n] = g

\* A published status has a goroutine left that will replace or delete it, so that
\* a node that left the cluster does not stay in what the daemons are told.
ResultsOwned ==
  \A n \in Node : Named(n) => \E g \in Goroutine : Live(g) /\ checker[g].node = n

\* Once nothing changes or fails any more, exactly the cluster's nodes have a status
\* and each is the one its daemon gave: server and daemons do not wait for each
\* other's first answer for ever, whatever restarts, panics and late goroutines were
\* before.
Converges ==
  <>calm => <>[](\A n \in Node : Named(n) <=> nodes[n] # None) /\
            <>[](\A n \in Node : nodes[n] # None => results[n] = "answer")

\* As in AppStatus, the goroutines and the published statuses are a pool of workers as
\* CheckPool describes, which a panic clears: what is published of a node is never
\* nothing, and only goroutines that were told to stop and the pass that tells them
\* remove it.
Pool == INSTANCE CheckPool WITH
  Key <- Node, Worker <- Goroutine, Nobody <- None,
  active <- tracker,
  leaving <- [g \in Goroutine |-> IF Live(g) /\ checker[g].cancelled THEN checker[g].node ELSE None],
  shown <- {n \in Node : Named(n)}
ImplementsPool == Pool!Spec
=============================================================================
