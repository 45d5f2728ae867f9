---------------------------- MODULE GlobalSecret ----------------------------
(***************************************************************************)
(* The secret "global-secrets" in which ParameterManager keeps the values  *)
(* it generates for parameters with generateSecret (managers/parameter.go).*)
(* Every command that merges the parameters of an install (deploy, config  *)
(* list, get and set) reads it, once per generated parameter, and adds the *)
(* values that are missing; config remove only reads it.  Each creates it  *)
(* when its Get fails.  Any number of processes do so at the same time.    *)
(***************************************************************************)
EXTENDS Naturals

CONSTANTS Proc,    \* kb processes
          Key,     \* install-name.parameter-name
          Value,   \* what generateSecretValue can return
          NoValue, \* no value under that key
          MaxRuns  \* bound: commands run by one process

ASSUME ValueAssumption == NoValue \notin Value
ASSUME RunsAssumption == MaxRuns \in Nat

Data == [Key -> Value \cup {NoValue}]
Empty == [k \in Key |-> NoValue]
Absent == 0     \* resourceVersion of a secret that does not exist, or of a
                \* local object that was never read

Process == [pc: {"idle", "get", "create", "update", "panicked"},
            todo: SUBSET Key,   \* generated parameters still to be merged
            key: Key \cup {NoValue},
            version: Nat,       \* resourceVersion of the local secret
            data: Data]         \* its Data

NoProcess == [pc |-> "idle", todo |-> {}, key |-> NoValue,
              version |-> Absent, data |-> Empty]

VARIABLES secret,  \* the stored secret
          kb,      \* the processes
          given,   \* values getSecretValue has returned for each key
          runs     \* commands started

vars == <<secret, kb, given, runs>>

-----------------------------------------------------------------------------
Exists == secret.version # Absent

\* Secrets can be updated unconditionally: an object without resourceVersion
\* overwrites whatever is stored.
Accepted(v) == v = Absent \/ v = secret.version

\* What the Create of a secret that exists leaves the caller with: an error, and
\* not the empty secret that it tried to create.
EmptySecret(q) ==
  IF q.todo = {} THEN NoProcess
  ELSE LET k == CHOOSE x \in q.todo : TRUE IN
       [q EXCEPT !.pc = "update", !.key = k,
                 !.data = [Empty EXCEPT ![k] = CHOOSE v \in Value : TRUE]]
AlreadyExists(q) == NoProcess

\* The secret with one more entry.
OnlyEntry(data, k, v) == [Empty EXCEPT ![k] = v]
AddEntry(data, k, v) == [data EXCEPT ![k] = v]

\* generateSecretValue; a format that it does not know is an error.
GeneratedOrNone == Value \cup {NoValue}
Generated == Value

Become(p, q) == kb' = [kb EXCEPT ![p] = q] /\ UNCHANGED runs

\* getSecretValue returns v for k; GetMergedMap goes on to the next parameter.
Return(p, k, v) ==
  LET rest == kb[p].todo \ {k} IN
  /\ given' = [given EXCEPT ![k] = @ \cup {v}]
  /\ Become(p, IF rest = {} THEN NoProcess ELSE [NoProcess EXCEPT !.pc = "get", !.todo = rest])

\* getGlobalSecret has returned a secret with this version and data.  A secret
\* read without entries has a nil map, and an assignment to one panics.
Obtained(p, version, data, nilMap) ==
  \/ /\ kb[p].todo = {}
     /\ Become(p, NoProcess) /\ UNCHANGED given
  \/ \E k \in kb[p].todo :
       \/ data[k] # NoValue /\ Return(p, k, data[k])
       \/ /\ data[k] = NoValue /\ nilMap
          /\ Become(p, [NoProcess EXCEPT !.pc = "panicked"]) /\ UNCHANGED given
       \/ /\ data[k] = NoValue /\ ~nilMap
          /\ \E v \in Generated :
               Become(p, [kb[p] EXCEPT !.pc = "update", !.key = k, !.version = version,
                                       !.data = AddEntry(data, k, v)])
          /\ UNCHANGED given

-----------------------------------------------------------------------------
\* A command that needs the generated parameters ks; none: config remove.
Start(p, ks) ==
  /\ kb[p].pc = "idle" /\ runs[p] < MaxRuns
  /\ kb' = [kb EXCEPT ![p] = [NoProcess EXCEPT !.pc = "get", !.todo = ks]]
  /\ runs' = [runs EXCEPT ![p] = @ + 1]
  /\ UNCHANGED <<secret, given>>

\* Every error of the Get, NotFound or not, is taken for a missing secret.
GetSecret(p) ==
  /\ kb[p].pc = "get"
  /\ UNCHANGED secret
  /\ \/ Exists /\ Obtained(p, secret.version, secret.data, secret.data = Empty)
     \/ Become(p, [kb[p] EXCEPT !.pc = "create"]) /\ UNCHANGED given

\* The object that Create returns is dropped: the local one has no version.
CreateSecret(p) ==
  /\ kb[p].pc = "create"
  /\ \/ Exists /\ Become(p, AlreadyExists(kb[p])) /\ UNCHANGED <<secret, given>>
     \/ /\ ~Exists
        /\ secret' = [version |-> 1, data |-> Empty]
        /\ Obtained(p, Absent, Empty, FALSE)

UpdateSecret(p) ==
  /\ kb[p].pc = "update"
  /\ \/ /\ ~Accepted(kb[p].version)
        /\ Become(p, NoProcess) /\ UNCHANGED <<secret, given>>
     \/ /\ Accepted(kb[p].version)
        /\ secret' = [version |-> secret.version + 1, data |-> kb[p].data]
        /\ Return(p, kb[p].key, kb[p].data[kb[p].key])

\* The call fails, before or after the server carried it out, or the process is
\* interrupted: the command ends with an error.
Abort(p) ==
  /\ kb[p].pc \in {"get", "create", "update"}
  /\ Become(p, NoProcess) /\ UNCHANGED given
  /\ \/ UNCHANGED secret
     \/ /\ kb[p].pc = "create" /\ ~Exists
        /\ secret' = [version |-> 1, data |-> Empty]
     \/ /\ kb[p].pc = "update" /\ Accepted(kb[p].version)
        /\ secret' = [version |-> secret.version + 1, data |-> kb[p].data]

Next ==
  \E p \in Proc : \/ \E ks \in SUBSET Key : Start(p, ks)
                  \/ GetSecret(p) \/ CreateSecret(p) \/ UpdateSecret(p) \/ Abort(p)

\* A cluster that never saw kb, or whose global secret was left by earlier
\* commands, with entries or without.
Init ==
  /\ secret \in [version: {1}, data: Data] \cup {[version |-> Absent, data |-> Empty]}
  /\ kb = [p \in Proc |-> NoProcess] /\ runs = [p \in Proc |-> 0]
  /\ given = [k \in Key |-> {}]

Spec == Init /\ [][Next]_vars

-----------------------------------------------------------------------------
(* Properties *)

TypeOK ==
  /\ secret \in [version: Nat, data: Data]
  /\ kb \in [Proc -> Process]
  /\ given \in [Key -> SUBSET Value]
  /\ runs \in [Proc -> Nat]

\* A value handed out for a key is the stored one: two commands never work with
\* different secrets of one install and no secret in use is lost, although the
\* process that creates the global secret updates it unconditionally.
Agreed == \A k \in Key : given[k] \subseteq {secret.data[k]}

\* The secret implements the write-once store of SecretVault: an Update only
\* adds, whoever else writes between the Get and the Update.
Vault == INSTANCE SecretVault WITH value <- secret.data
ImplementsVault == Vault!Spec

\* managers/parameter.go, "If not found, generate new secret value": a command
\* that misses its entry generates it.
GeneratesMissing == \A p \in Proc : kb[p].pc # "panicked"
=============================================================================
