------------------------- MODULE GlobalSecretProofs -------------------------
(***************************************************************************)
(* The global secret implements the write-once store SecretVault, for any  *)
(* number of processes, keys and values.                                   *)
(***************************************************************************)
EXTENDS GlobalSecret, TLAPS

\* An accepted Update adds one missing entry to what is stored.
AddsMissing(q) ==
  /\ q.key \in Key /\ secret.data[q.key] = NoValue
  /\ \E v \in Value : q.data = AddEntry(secret.data, q.key, v)

Blind(q) == q.pc = "update" /\ q.version = Absent

PendingOK(q) ==
  q.pc = "update" => /\ Exists /\ q.version <= secret.version
                     /\ q.version = secret.version => secret.data # Empty
                     /\ Blind(q) => secret.data = Empty
                     /\ Accepted(q.version) => AddsMissing(q)

\* At most one process, the creator, updates without a version, and nobody else
\* can write before it has: the others read a secret without entries, and end
\* there.
IInv ==
  /\ ~Exists => secret.data = Empty
  /\ \A p \in Proc : PendingOK(kb[p])
  /\ \A p, q \in Proc : Blind(kb[p]) /\ Blind(kb[q]) => p = q
  /\ Agreed

-----------------------------------------------------------------------------
(* Type correctness *)

\* A process, with a value to hand out when it is about to update.
LocalOK(q) ==
  /\ q \in Process
  /\ q.pc = "update" => q.key \in Key /\ q.data[q.key] \in Value

TypeInv == TypeOK /\ \A p \in Proc : LocalOK(kb[p])

\* TypeInv without the secret.
ProcessesOK ==
  /\ kb \in [Proc -> Process] /\ runs \in [Proc -> Nat]
  /\ given \in [Key -> SUBSET Value]
  /\ \A p \in Proc : LocalOK(kb[p])

LEMMA DataType ==
  /\ Empty \in Data
  /\ \A d \in Data, k \in Key, v \in Value :
       AddEntry(d, k, v) \in Data /\ AddEntry(d, k, v)[k] = v
  BY DEF Data, Empty, AddEntry

LEMMA NoProcessType == LocalOK(NoProcess)
  BY DataType DEF LocalOK, NoProcess, Process, Absent

LEMMA NewProcessType ==
  \A ks \in SUBSET Key : LocalOK([NoProcess EXCEPT !.pc = "get", !.todo = ks])
  BY NoProcessType DEF LocalOK, NoProcess, Process

LEMMA BecomeType ==
  ASSUME TypeInv, NEW p \in Proc, NEW q, LocalOK(q), Become(p, q),
         given' \in [Key -> SUBSET Value]
  PROVE  ProcessesOK'
  BY DEF TypeInv, TypeOK, Become, ProcessesOK, LocalOK

LEMMA ReturnType ==
  ASSUME TypeInv, NEW p \in Proc, NEW k \in Key, NEW v \in Value, Return(p, k, v)
  PROVE  ProcessesOK'
  <1>1. kb[p].todo \ {k} \subseteq Key
    BY DEF TypeInv, TypeOK, Process
  <1>2. LocalOK([NoProcess EXCEPT !.pc = "get", !.todo = kb[p].todo \ {k}])
    BY <1>1, NewProcessType
  <1>3. given' \in [Key -> SUBSET Value]
    BY DEF Return, TypeInv, TypeOK
  <1>4. QED
    BY <1>2, <1>3, NoProcessType, BecomeType DEF Return

LEMMA ObtainedType ==
  ASSUME TypeInv, NEW p \in Proc, NEW version \in Nat, NEW data \in Data,
         NEW nilMap \in BOOLEAN, Obtained(p, version, data, nilMap)
  PROVE  ProcessesOK'
  <1>0. given \in [Key -> SUBSET Value] /\ kb[p] \in Process /\ kb[p].todo \subseteq Key
    BY DEF TypeInv, TypeOK, Process
  <1>1. CASE Become(p, NoProcess) /\ UNCHANGED given
    BY <1>0, <1>1, NoProcessType, BecomeType
  <1>2. ASSUME NEW k \in kb[p].todo, data[k] # NoValue, Return(p, k, data[k])
        PROVE  ProcessesOK'
    <2>1. k \in Key /\ data[k] \in Value
      BY <1>0, <1>2 DEF Data
    <2>2. QED
      BY <1>2, <2>1, ReturnType
  <1>3. CASE Become(p, [NoProcess EXCEPT !.pc = "panicked"]) /\ UNCHANGED given
    <2>1. LocalOK([NoProcess EXCEPT !.pc = "panicked"])
      BY NoProcessType DEF LocalOK, Process
    <2>2. QED
      BY <1>0, <1>3, <2>1, BecomeType
  <1>4. ASSUME NEW k \in kb[p].todo, NEW v \in Generated, UNCHANGED given,
               Become(p, [kb[p] EXCEPT !.pc = "update", !.key = k, !.version = version,
                                       !.data = AddEntry(data, k, v)])
        PROVE  ProcessesOK'
    <2>1. /\ k \in Key /\ v \in Value
          /\ AddEntry(data, k, v) \in Data /\ AddEntry(data, k, v)[k] = v
      BY <1>0, DataType DEF Generated
    <2>2. LocalOK([kb[p] EXCEPT !.pc = "update", !.key = k, !.version = version,
                                !.data = AddEntry(data, k, v)])
      BY <1>0, <2>1 DEF LocalOK, Process
    <2>3. QED
      BY <1>0, <1>4, <2>2, BecomeType
  <1>5. QED
    BY <1>1, <1>2, <1>3, <1>4 DEF Obtained

LEMMA TypeInit == Init => TypeInv
  <1>1. [k \in Key |-> {}] \in [Key -> SUBSET Value]
    OBVIOUS
  <1>2. NoProcess \in Process
    BY NoProcessType DEF LocalOK
  <1>3. QED
    BY <1>1, <1>2, NoProcessType, DataType DEF Init, TypeInv, TypeOK, Absent

LEMMA TypeStep == TypeInv /\ [Next]_vars => TypeInv'
  <1> SUFFICES ASSUME TypeInv, [Next]_vars
               PROVE  TypeInv'
    OBVIOUS
  <1> /\ secret.version \in Nat /\ secret.data \in Data
      /\ secret \in [version: Nat, data: Data]
      /\ given \in [Key -> SUBSET Value]
    BY DEF TypeInv, TypeOK
  <1>0. ASSUME ProcessesOK', secret' \in [version: Nat, data: Data]
        PROVE  TypeInv'
    BY <1>0 DEF ProcessesOK, TypeInv, TypeOK
  <1>1. ASSUME NEW p \in Proc, NEW ks \in SUBSET Key, Start(p, ks)
        PROVE  TypeInv'
    <2>1. LocalOK([NoProcess EXCEPT !.pc = "get", !.todo = ks])
      BY NewProcessType
    <2>2. QED
      BY <1>1, <2>1 DEF Start, TypeInv, TypeOK, LocalOK
  <1>2. ASSUME NEW p \in Proc, GetSecret(p)
        PROVE  TypeInv'
    <2>1. CASE Obtained(p, secret.version, secret.data, secret.data = Empty)
      BY <1>0, <1>2, <2>1, ObtainedType DEF GetSecret
    <2>2. CASE Become(p, [kb[p] EXCEPT !.pc = "create"]) /\ UNCHANGED given
      <3>1. LocalOK([kb[p] EXCEPT !.pc = "create"])
        BY DEF TypeInv, TypeOK, LocalOK, Process
      <3>2. QED
        BY <1>0, <1>2, <2>2, <3>1, BecomeType DEF GetSecret
    <2>3. QED
      BY <1>2, <2>1, <2>2 DEF GetSecret
  <1>3. ASSUME NEW p \in Proc, CreateSecret(p)
        PROVE  TypeInv'
    <2>1. CASE Become(p, AlreadyExists(kb[p])) /\ UNCHANGED <<secret, given>>
      BY <1>0, <2>1, NoProcessType, BecomeType DEF AlreadyExists
    <2>2. CASE /\ secret' = [version |-> 1, data |-> Empty]
               /\ Obtained(p, Absent, Empty, FALSE)
      BY <1>0, <2>2, DataType, ObtainedType DEF Absent
    <2>3. QED
      BY <1>3, <2>1, <2>2 DEF CreateSecret
  <1>4. ASSUME NEW p \in Proc, UpdateSecret(p)
        PROVE  TypeInv'
    <2>1. CASE Become(p, NoProcess) /\ UNCHANGED <<secret, given>>
      BY <1>0, <2>1, NoProcessType, BecomeType
    <2>2. CASE /\ secret' = [version |-> secret.version + 1, data |-> kb[p].data]
               /\ Return(p, kb[p].key, kb[p].data[kb[p].key])
      <3>1. kb[p].data \in Data /\ kb[p].key \in Key /\ kb[p].data[kb[p].key] \in Value
        BY <1>4 DEF UpdateSecret, TypeInv, LocalOK, Process
      <3>2. QED
        BY <1>0, <2>2, <3>1, ReturnType
    <2>3. QED
      BY <1>4, <2>1, <2>2 DEF UpdateSecret
  <1>5. ASSUME NEW p \in Proc, Abort(p)
        PROVE  TypeInv'
    <2>1. ProcessesOK'
      BY <1>5, NoProcessType, BecomeType DEF Abort
    <2>2. kb[p].data \in Data
      BY DEF TypeInv, LocalOK, Process
    <2>3. secret' \in [version: Nat, data: Data]
      BY <1>5, <2>2, DataType DEF Abort
    <2>4. QED
      BY <1>0, <2>1, <2>3
  <1>6. CASE UNCHANGED vars
    BY <1>6 DEF vars, TypeInv, TypeOK, LocalOK
  <1>7. QED
    BY <1>1, <1>2, <1>3, <1>4, <1>5, <1>6 DEF Next

LEMMA TypeInvCorrect == Spec => []TypeInv
  BY TypeInit, TypeStep, PTL DEF Spec

\* Every variable of GlobalSecret keeps its type, in every behaviour.
THEOREM TypeCorrect == Spec => []TypeOK
  <1>1. TypeInv => TypeOK
    BY DEF TypeInv
  <1>2. QED
    BY <1>1, TypeInvCorrect, PTL

-----------------------------------------------------------------------------
(* The invariant *)

\* A step that leaves the secret alone and process p without a pending Update.
LEMMA QuietInv ==
  ASSUME TypeInv, IInv, NEW p \in Proc, NEW q, Become(p, q), q.pc # "update",
         UNCHANGED secret, Agreed'
  PROVE  IInv'
  <1>1. \A r \in Proc : kb'[r] = IF r = p THEN q ELSE kb[r]
    BY DEF TypeInv, TypeOK, Become
  <1>2. \A r \in Proc : PendingOK(kb[r])'
    BY <1>1 DEF IInv, PendingOK, Blind, Accepted, AddsMissing, Exists
  <1>3. QED
    BY <1>1, <1>2 DEF IInv, Blind, Exists

\* getSecretValue returns what is stored.
LEMMA HandOutInv ==
  ASSUME TypeInv, IInv, NEW p \in Proc, NEW k \in Key, Return(p, k, secret.data[k]),
         UNCHANGED secret
  PROVE  IInv'
  <1>1. Agreed'
    BY DEF Return, IInv, Agreed, TypeInv, TypeOK
  <1>2. QED
    BY <1>1, QuietInv DEF Return, NoProcess

LEMMA GetInv ==
  ASSUME TypeInv, IInv, NEW p \in Proc, GetSecret(p)
  PROVE  IInv'
  <1>0. UNCHANGED secret /\ kb[p] \in Process /\ kb[p].todo \subseteq Key
    BY DEF GetSecret, TypeInv, TypeOK, Process
  <1>1. ASSUME UNCHANGED given
        PROVE  Agreed'
    BY <1>0, <1>1 DEF IInv, Agreed
  <1>2. CASE /\ UNCHANGED given
             /\ \/ Become(p, NoProcess) \/ Become(p, [NoProcess EXCEPT !.pc = "panicked"])
                \/ Become(p, [kb[p] EXCEPT !.pc = "create"])
    <2>1. /\ NoProcess.pc # "update" /\ [NoProcess EXCEPT !.pc = "panicked"].pc # "update"
          /\ [kb[p] EXCEPT !.pc = "create"].pc # "update"
      BY <1>0 DEF NoProcess, Process
    <2>2. QED
      BY <1>0, <1>1, <1>2, <2>1, QuietInv
  <1>3. ASSUME NEW k \in kb[p].todo, Return(p, k, secret.data[k])
        PROVE  IInv'
    BY <1>0, <1>3, HandOutInv
  <1>4. ASSUME NEW k \in kb[p].todo, NEW v \in Value, Exists,
               secret.data[k] = NoValue, secret.data # Empty, UNCHANGED given,
               Become(p, [kb[p] EXCEPT !.pc = "update", !.key = k,
                            !.version = secret.version, !.data = AddEntry(secret.data, k, v)])
        PROVE  IInv'
    <2> DEFINE q == [kb[p] EXCEPT !.pc = "update", !.key = k,
                       !.version = secret.version, !.data = AddEntry(secret.data, k, v)]
    <2>1. /\ q.pc = "update" /\ q.key = k /\ q.version = secret.version
          /\ q.data = AddEntry(secret.data, k, v)
      BY <1>0 DEF Process
    <2>2. \A r \in Proc : kb'[r] = IF r = p THEN q ELSE kb[r]
      BY <1>4 DEF TypeInv, TypeOK, Become
    <2>3. /\ secret.version \in Nat /\ k \in Key
          /\ ~Blind(q)
      BY <1>0, <1>4, <2>1 DEF TypeInv, TypeOK, Blind, Exists
    <2>4. PendingOK(q)
      BY <1>4, <2>1, <2>3 DEF PendingOK, AddsMissing
    <2>5. PendingOK(q)'
      BY <1>0, <2>1, <2>4 DEF PendingOK, Blind, Accepted, AddsMissing, Exists
    <2>6. \A r \in Proc : PendingOK(kb[r])'
      <3> SUFFICES ASSUME NEW r \in Proc
                   PROVE  PendingOK(kb[r])'
        OBVIOUS
      <3>1. CASE r = p
        <4>1. kb'[r] = q
          BY <2>2, <3>1
        <4>2. QED
          BY <4>1, <1>0, <2>1, <2>4 DEF PendingOK, Blind, Accepted, AddsMissing, Exists
      <3>2. CASE r # p
        <4>1. kb'[r] = kb[r]
          BY <2>2, <3>2
        <4>2. QED
          BY <1>0, <4>1 DEF IInv, PendingOK, Blind, Accepted, AddsMissing, Exists
      <3>3. QED
        BY <3>1, <3>2
    <2>7. \A r, t \in Proc : Blind(kb[r])' /\ Blind(kb[t])' => r = t
      BY <2>2, <2>3 DEF IInv, Blind
    <2>8. QED
      BY <1>0, <1>1, <1>4, <2>6, <2>7 DEF IInv, Exists
  <1>5. QED
    BY <1>0, <1>2, <1>3, <1>4 DEF GetSecret, Obtained, Generated

LEMMA CreateInv ==
  ASSUME TypeInv, IInv, NEW p \in Proc, CreateSecret(p)
  PROVE  IInv'
  <1>0. kb[p] \in Process /\ kb[p].todo \subseteq Key
    BY DEF TypeInv, TypeOK, Process
  <1>1. CASE Become(p, AlreadyExists(kb[p])) /\ UNCHANGED <<secret, given>>
    BY <1>1, QuietInv DEF AlreadyExists, NoProcess, IInv, Agreed
  <1>2. CASE /\ ~Exists
             /\ secret' = [version |-> 1, data |-> Empty]
             /\ Obtained(p, Absent, Empty, FALSE)
    <2>1. /\ secret.data = Empty
          /\ \A r \in Proc : kb[r].pc # "update"
          /\ \A k \in Key : Empty[k] = NoValue
      BY <1>2 DEF IInv, PendingOK, Empty
    <2>2. UNCHANGED given
      BY <1>0, <1>2, <2>1 DEF Obtained
    <2>3. Agreed' /\ Exists' /\ secret'.data = Empty /\ secret'.version = 1
      BY <1>2, <2>1, <2>2 DEF IInv, Agreed, Exists, Absent
    <2>4. CASE Become(p, NoProcess)
      <3>1. \A r \in Proc : kb'[r].pc # "update"
        BY <2>1, <2>4 DEF Become, NoProcess, TypeInv, TypeOK
      <3>2. QED
        BY <2>3, <3>1 DEF IInv, PendingOK, Blind
    <2>5. ASSUME NEW k \in Key, NEW v \in Value,
                 Become(p, [kb[p] EXCEPT !.pc = "update", !.key = k, !.version = Absent,
                                         !.data = AddEntry(Empty, k, v)])
          PROVE  IInv'
      <3> DEFINE q == [kb[p] EXCEPT !.pc = "update", !.key = k, !.version = Absent,
                                    !.data = AddEntry(Empty, k, v)]
      <3>1. /\ q.pc = "update" /\ q.key = k /\ q.version = Absent
            /\ q.data = AddEntry(Empty, k, v)
        BY <1>0 DEF Process
      <3>2. \A r \in Proc : kb'[r] = IF r = p THEN q ELSE kb[r]
        BY <2>5 DEF TypeInv, TypeOK, Become
      <3>3. \A r \in Proc : kb'[r].pc = "update" => r = p
        BY <2>1, <3>2
      <3>4. PendingOK(kb[p])'
        <4>1. kb'[p] = q
          BY <3>2
        <4>2. AddsMissing(kb[p])'
          BY <2>1, <2>3, <3>1, <4>1 DEF AddsMissing
        <4>3. QED
          BY <2>3, <3>1, <4>1, <4>2 DEF PendingOK, Absent
      <3>5. QED
        BY <2>3, <3>3, <3>4 DEF IInv, PendingOK, Blind
    <2>6. QED
      BY <1>0, <1>2, <2>1, <2>4, <2>5 DEF Obtained, Generated
  <1>3. QED
    BY <1>1, <1>2 DEF CreateSecret

\* An Update that the server carries out.
LEMMA StoredInv ==
  ASSUME TypeInv, IInv, NEW p \in Proc, kb[p].pc = "update", Accepted(kb[p].version),
         secret' = [version |-> secret.version + 1, data |-> kb[p].data],
         NEW q, Become(p, q), q.pc # "update", Agreed'
  PROVE  IInv'
  <1>0. secret.version \in Nat /\ \A r \in Proc : kb[r] \in Process
    BY DEF TypeInv, TypeOK
  <1>1. \A r \in Proc : kb'[r] = IF r = p THEN q ELSE kb[r]
    BY DEF TypeInv, TypeOK, Become
  <1>2. /\ Exists' /\ secret'.version = secret.version + 1 /\ secret'.data = kb[p].data
    BY <1>0 DEF Exists, Absent
  <1>3. \A r \in Proc : r # p => ~Blind(kb[r])
    BY DEF IInv, PendingOK, Blind, Accepted
  <1>4. ASSUME NEW r \in Proc
        PROVE  PendingOK(kb[r])'
    <2>1. CASE kb'[r].pc # "update"
      BY <2>1 DEF PendingOK
    <2>2. CASE kb'[r].pc = "update"
      <3>1. r # p /\ kb'[r] = kb[r] /\ kb[r].version \in Nat
        BY <1>0, <1>1, <2>2 DEF Process
      <3>2. kb[r].version <= secret.version /\ kb[r].version # Absent
        BY <1>3, <2>2, <3>1 DEF IInv, PendingOK, Blind
      <3>3. ~Accepted(kb[r].version)' /\ kb'[r].version # secret'.version
        BY <1>0, <1>2, <3>1, <3>2 DEF Accepted
      <3>4. QED
        BY <1>0, <1>2, <3>1, <3>2, <3>3 DEF PendingOK, Blind
    <2>3. QED
      BY <2>1, <2>2
  <1>5. \A r, t \in Proc : Blind(kb[r])' /\ Blind(kb[t])' => r = t
    BY <1>1, <1>3 DEF Blind
  <1>6. QED
    BY <1>2, <1>4, <1>5 DEF IInv

\* What such an Update does to the entries.
LEMMA StoredEntry ==
  ASSUME TypeInv, IInv, NEW p \in Proc, kb[p].pc = "update", Accepted(kb[p].version)
  PROVE  /\ kb[p].key \in Key /\ kb[p].data[kb[p].key] \in Value
         /\ secret.data[kb[p].key] = NoValue /\ given[kb[p].key] = {}
         /\ kb[p].data = [secret.data EXCEPT ![kb[p].key] = kb[p].data[kb[p].key]]
  <1>1. AddsMissing(kb[p])
    BY DEF IInv, PendingOK
  <1>2. PICK v \in Value : kb[p].data = AddEntry(secret.data, kb[p].key, v)
    BY <1>1 DEF AddsMissing
  <1>3. secret.data \in Data /\ kb[p].key \in Key
    BY <1>1 DEF TypeInv, TypeOK, AddsMissing
  <1>4. kb[p].data[kb[p].key] = v
    BY <1>2, <1>3, DataType
  <1>5. given[kb[p].key] \subseteq {NoValue} /\ given[kb[p].key] \subseteq Value
    BY <1>1, <1>3 DEF AddsMissing, IInv, Agreed, TypeInv, TypeOK
  <1>6. QED
    BY <1>1, <1>2, <1>3, <1>4, <1>5, ValueAssumption DEF AddsMissing, AddEntry

LEMMA UpdateInv ==
  ASSUME TypeInv, IInv, NEW p \in Proc, UpdateSecret(p)
  PROVE  IInv'
  <1>1. CASE Become(p, NoProcess) /\ UNCHANGED <<secret, given>>
    BY <1>1, QuietInv DEF NoProcess, IInv, Agreed
  <1>2. CASE /\ Accepted(kb[p].version)
             /\ secret' = [version |-> secret.version + 1, data |-> kb[p].data]
             /\ Return(p, kb[p].key, kb[p].data[kb[p].key])
    <2> DEFINE k == kb[p].key
               v == kb[p].data[k]
    <2>1. /\ kb[p].pc = "update" /\ k \in Key /\ v \in Value /\ given[k] = {}
          /\ secret'.data = [secret.data EXCEPT ![k] = v]
      BY <1>2, StoredEntry DEF UpdateSecret
    <2>2. secret.data \in Data /\ given \in [Key -> SUBSET Value]
      BY DEF TypeInv, TypeOK
    <2>3. given' = [given EXCEPT ![k] = {v}]
      BY <1>2, <2>1, <2>2 DEF Return
    <2>4. Agreed'
      BY <2>1, <2>2, <2>3 DEF IInv, Agreed, Data
    <2>5. QED
      BY <1>2, <2>1, <2>4, StoredInv DEF Return, NoProcess
  <1>3. QED
    BY <1>1, <1>2 DEF UpdateSecret

LEMMA AbortInv ==
  ASSUME TypeInv, IInv, NEW p \in Proc, Abort(p)
  PROVE  IInv'
  <1>0. Become(p, NoProcess) /\ NoProcess.pc # "update" /\ UNCHANGED given
    BY DEF Abort, NoProcess
  <1>1. CASE UNCHANGED secret
    BY <1>0, <1>1, QuietInv DEF IInv, Agreed
  <1>2. CASE ~Exists /\ secret' = [version |-> 1, data |-> Empty]
    <2>1. \A r \in Proc : kb'[r].pc # "update"
      BY <1>0, <1>2 DEF IInv, PendingOK, Become, TypeInv, TypeOK
    <2>2. Agreed' /\ Exists'
      BY <1>0, <1>2 DEF IInv, Agreed, Exists, Absent
    <2>3. QED
      BY <2>1, <2>2 DEF IInv, PendingOK, Blind
  <1>3. CASE /\ kb[p].pc = "update" /\ Accepted(kb[p].version)
             /\ secret' = [version |-> secret.version + 1, data |-> kb[p].data]
    <2>1. Agreed'
      <3>1. secret'.data = kb[p].data /\ secret.data \in Data
        BY <1>3 DEF TypeInv, TypeOK
      <3>2. QED
        BY <1>0, <1>3, <3>1, StoredEntry DEF IInv, Agreed, Data
    <2>2. QED
      BY <1>0, <1>3, <2>1, StoredInv
  <1>4. QED
    BY <1>1, <1>2, <1>3 DEF Abort

LEMMA InvInit == Init => IInv
  BY DEF Init, IInv, PendingOK, Blind, Agreed, NoProcess, Exists, Absent, Empty

LEMMA InvStep == TypeInv /\ IInv /\ [Next]_vars => IInv'
  <1> SUFFICES ASSUME TypeInv, IInv, [Next]_vars
               PROVE  IInv'
    OBVIOUS
  <1>1. ASSUME NEW p \in Proc, NEW ks \in SUBSET Key, Start(p, ks)
        PROVE  IInv'
    <2>1. /\ UNCHANGED <<secret, given>>
          /\ \A r \in Proc : r # p => kb'[r] = kb[r]
          /\ kb'[p].pc = "get"
      BY <1>1 DEF Start, NoProcess, TypeInv, TypeOK
    <2>2. QED
      BY <2>1 DEF IInv, PendingOK, Blind, Accepted, AddsMissing, Exists, Agreed
  <1>2. CASE UNCHANGED vars
    BY <1>2 DEF vars, IInv, PendingOK, Blind, Accepted, AddsMissing, Exists, Agreed
  <1>3. QED
    BY <1>1, <1>2, GetInv, CreateInv, UpdateInv, AbortInv DEF Next

LEMMA InvCorrect == Spec => []IInv
  BY InvInit, InvStep, TypeInvCorrect, PTL DEF Spec

\* Any number of commands, creating the global secret or using it, agree on every
\* generated value, and no value in use is ever replaced.
THEOREM SecretsAgree == Spec => []Agreed
  <1>1. IInv => Agreed
    BY DEF IInv
  <1>2. QED
    BY <1>1, InvCorrect, PTL

-----------------------------------------------------------------------------
(* Refinement *)

LEMMA VaultInit == Init => Vault!Init
  BY TypeInit DEF Init, Vault!Init, TypeInv, TypeOK, Data

\* Returning what is stored is a step of Vault!Hand.
LEMMA HandStep ==
  ASSUME NEW k \in Key, NEW p \in Proc, secret.data[k] # NoValue,
         Return(p, k, secret.data[k]), UNCHANGED secret
  PROVE  Vault!Next
  BY DEF Return, Vault!Next, Vault!Hand

\* An accepted Update is a step of Vault!Choose, whether its answer arrives or not.
LEMMA ChooseStep ==
  ASSUME TypeInv, IInv, NEW p \in Proc, kb[p].pc = "update", Accepted(kb[p].version),
         secret' = [version |-> secret.version + 1, data |-> kb[p].data],
         \/ UNCHANGED given
         \/ Return(p, kb[p].key, kb[p].data[kb[p].key])
  PROVE  Vault!Next
  <1> DEFINE k == kb[p].key
             v == kb[p].data[k]
  <1>1. /\ k \in Key /\ v \in Value /\ secret.data[k] = NoValue
        /\ secret'.data = [secret.data EXCEPT ![k] = v]
    BY StoredEntry
  <1>2. given' = given \/ given' = [given EXCEPT ![k] = @ \cup {v}]
    BY DEF Return
  <1>3. Vault!Choose(k, v)
    BY <1>1, <1>2 DEF Vault!Choose
  <1>4. QED
    BY <1>1, <1>3 DEF Vault!Next

LEMMA VaultStep ==
  ASSUME TypeInv, IInv, [Next]_vars
  PROVE  Vault!Next \/ UNCHANGED <<secret.data, given>>
  <1>1. ASSUME NEW p \in Proc, NEW ks \in SUBSET Key, Start(p, ks)
        PROVE  UNCHANGED <<secret.data, given>>
    BY <1>1 DEF Start
  <1>2. ASSUME NEW p \in Proc, GetSecret(p)
        PROVE  Vault!Next \/ UNCHANGED <<secret.data, given>>
    <2>1. UNCHANGED secret /\ kb[p].todo \subseteq Key
      BY <1>2 DEF GetSecret, TypeInv, TypeOK, Process
    <2>2. ASSUME NEW k \in kb[p].todo, secret.data[k] # NoValue, Return(p, k, secret.data[k])
          PROVE  Vault!Next
      BY <2>1, <2>2, HandStep
    <2>3. QED
      BY <1>2, <2>1, <2>2 DEF GetSecret, Obtained
  <1>3. ASSUME NEW p \in Proc, CreateSecret(p)
        PROVE  UNCHANGED <<secret.data, given>>
    <2>1. kb[p].todo \subseteq Key /\ \A k \in Key : Empty[k] = NoValue
      BY DEF TypeInv, TypeOK, Process, Empty
    <2>2. CASE UNCHANGED <<secret, given>>
      BY <2>2
    <2>3. CASE /\ ~Exists /\ secret' = [version |-> 1, data |-> Empty]
               /\ Obtained(p, Absent, Empty, FALSE)
      <3>1. UNCHANGED given
        BY <2>1, <2>3 DEF Obtained
      <3>2. QED
        BY <2>3, <3>1 DEF IInv
    <2>4. QED
      BY <1>3, <2>2, <2>3 DEF CreateSecret
  <1>4. ASSUME NEW p \in Proc, UpdateSecret(p)
        PROVE  Vault!Next \/ UNCHANGED <<secret.data, given>>
    BY <1>4, ChooseStep DEF UpdateSecret
  <1>5. ASSUME NEW p \in Proc, Abort(p)
        PROVE  Vault!Next \/ UNCHANGED <<secret.data, given>>
    <2>1. CASE ~Exists /\ secret' = [version |-> 1, data |-> Empty]
      BY <1>5, <2>1 DEF Abort, IInv
    <2>2. QED
      BY <1>5, <2>1, ChooseStep DEF Abort
  <1>6. CASE UNCHANGED vars
    BY <1>6 DEF vars
  <1>7. QED
    BY <1>1, <1>2, <1>3, <1>4, <1>5, <1>6 DEF Next

\* The optimistic Updates of any number of commands, with lost answers and
\* crashes, implement the write-once store.
THEOREM SecretImplementsVault == Spec => ImplementsVault
  <1>1. TypeInv /\ IInv /\ [Next]_vars => [Vault!Next]_(Vault!vars)
    BY VaultStep DEF Vault!vars
  <1>2. QED
    BY <1>1, VaultInit, TypeInvCorrect, InvCorrect, PTL DEF Spec, ImplementsVault, Vault!Spec
=============================================================================
