--------------------------- MODULE InstallConfig ---------------------------
(***************************************************************************)
(* The parameters of one Install resource and the commands that write      *)
(* them: InstallManager.Install (managers/install.go) by server-side       *)
(* apply, ConfigManager.Set and Remove (managers/config.go) by a merge     *)
(* patch that holds the whole list, and the deletion of the install.  Each *)
(* reads the install in one API call and writes it in a later one, without *)
(* a resourceVersion.                                                      *)
(***************************************************************************)
CONSTANTS Proc,    \* kb processes
          Name,    \* parameter names that users and manifests may give
          Param,   \* those the application defines
          Value,
          NoValue  \* the list has no entry for the parameter

ASSUME ParamAssumption == Param \subseteq Name

Unset == [k \in Name |-> NoValue]

\* A list, which names a parameter at most once.  Nothing keeps it to what the
\* application defines: Install takes a manifest's parameters as they are.
Params == [Name -> Value \cup {NoValue}]

\* Field managers of spec.parameters: kb through apply, kb through patches.
Manager == {"apply", "update"}

Process == [pc: {"idle", "list", "apply", "check", "get", "secret", "patch"},
            cmd: {"none", "install", "set", "remove"},
            params: Params,   \* arguments of install, then what it will apply
            key: Name \cup {NoValue}, value: Value \cup {NoValue},
            read: Params]     \* the list the merge patch is computed from

VARIABLES exists,    \* there is an Install resource
          params,    \* its spec.parameters
          managers,  \* who owns that field
          secret,    \* the install's entries in the global secret
          passed,    \* history: undefined names that a kb install was given
          kb

configVars == <<exists, params, managers, secret, passed, kb>>

NoProcess == [pc |-> "idle", cmd |-> "none", params |-> Unset, key |-> NoValue,
              value |-> NoValue, read |-> Unset]

-----------------------------------------------------------------------------
Become(p, q) == kb' = [kb EXCEPT ![p] = q] /\ UNCHANGED secret

Local(p, q) == Become(p, q) /\ UNCHANGED <<exists, params, managers, passed>>

\* The names that a list has an entry for.
Listed(f) == {k \in Name : f[k] # NoValue}

\* GetMergedMap: the definitions and the list.
MergedKeys == Param \cup Listed(params)

\* Set only takes these.
AnyKey(k) == TRUE
KnownKey(k) == k \in MergedKeys

\* What Install will apply: the arguments for a new install, else what it found.
ArgumentsOnly(args) == args
WantedParams(args) == IF exists THEN params ELSE args

\* Server-side apply with forced ownership.  An empty list is left out of the
\* request; the field then goes only if nobody but kb's applies ever set it.
Apply(wanted) ==
  IF wanted # Unset
  THEN /\ params' = wanted
       /\ managers' = IF wanted = params THEN managers \cup {"apply"} ELSE {"apply"}
  ELSE /\ params' = IF managers = {"apply"} THEN Unset ELSE params
       /\ managers' = managers \ {"apply"}

\* The list that Set and Remove ask for.  Remove has taken the generated value,
\* if there is one, and leaves that in place of the entry.
OnlyKey(q) == [Unset EXCEPT ![q.key] = q.value]
Edited(q) ==
  IF q.cmd = "remove" /\ q.read[q.key] = NoValue THEN q.read
  ELSE [q.read EXCEPT ![q.key] = q.value]

-----------------------------------------------------------------------------
\* kb install bundle gives no parameters, kb install manifest those it has for the
\* bundle, whoever defines them.
StartInstall(p, args) ==
  /\ kb[p].pc = "idle"
  /\ passed' = passed \cup (Listed(args) \ Param)
  /\ Become(p, [NoProcess EXCEPT !.pc = "list", !.cmd = "install", !.params = args])
  /\ UNCHANGED <<exists, params, managers>>

ListInstalls(p) ==
  /\ kb[p].pc = "list"
  /\ Local(p, [kb[p] EXCEPT !.pc = "apply", !.params = WantedParams(@)])

ApplyInstall(p) ==
  /\ kb[p].pc = "apply"
  /\ exists' = TRUE
  /\ Apply(kb[p].params)
  /\ Become(p, NoProcess) /\ UNCHANGED passed

StartSet(p, k, v) ==
  /\ kb[p].pc = "idle"
  /\ Local(p, [NoProcess EXCEPT !.pc = "check", !.cmd = "set", !.key = k, !.value = v])

\* Set lists the configuration first: the install must exist and know the key.
CheckKey(p) ==
  /\ kb[p].pc = "check"
  /\ Local(p, IF exists /\ KnownKey(kb[p].key)
              THEN [kb[p] EXCEPT !.pc = "get"] ELSE NoProcess)

StartRemove(p, k) ==
  /\ kb[p].pc = "idle"
  /\ Local(p, [NoProcess EXCEPT !.pc = "get", !.cmd = "remove", !.key = k])

GetInstall(p) ==
  /\ kb[p].pc = "get"
  /\ Local(p, IF exists
              THEN [kb[p] EXCEPT !.pc = IF kb[p].cmd = "remove" THEN "secret" ELSE "patch",
                                 !.read = params]
              ELSE NoProcess)

GetSecret(p) ==
  /\ kb[p].pc = "secret"
  /\ Local(p, [kb[p] EXCEPT !.pc = "patch", !.value = secret[kb[p].key]])

\* The patch is empty when nothing is to change; else it replaces the list.
PatchInstall(p) ==
  LET wanted == Edited(kb[p]) IN
  /\ kb[p].pc = "patch"
  /\ \/ /\ ~exists \/ wanted = kb[p].read
        /\ Local(p, NoProcess)
     \/ /\ exists /\ wanted # kb[p].read
        /\ params' = wanted
        /\ managers' = IF wanted = params THEN managers
                       ELSE IF wanted = Unset THEN {} ELSE {"update"}
        /\ Become(p, NoProcess) /\ UNCHANGED <<exists, passed>>

\* kb delete installs, or the end of kb uninstall.
DeleteInstall(p) ==
  /\ kb[p].pc = "idle" /\ exists
  /\ exists' = FALSE /\ params' = Unset /\ managers' = {}
  /\ UNCHANGED <<secret, passed, kb>>

\* An API call fails without effect, or the process is interrupted.
CommandFails(p) == kb[p].pc # "idle" /\ Local(p, NoProcess)

\* A deploy or config command generates the value of a parameter; its format may
\* come from the definitions or from the list.
Generate(k, v) ==
  /\ exists /\ k \in MergedKeys /\ secret[k] = NoValue
  /\ secret' = [secret EXCEPT ![k] = v]
  /\ UNCHANGED <<exists, params, managers, passed, kb>>

ConfigInit ==
  /\ exists = FALSE /\ params = Unset /\ managers = {}
  /\ secret = Unset /\ passed = {}
  /\ kb = [p \in Proc |-> NoProcess]

ConfigNext ==
  \/ \E p \in Proc :
       \/ \E args \in Params : StartInstall(p, args)
       \/ \E k \in Name, v \in Value : StartSet(p, k, v)
       \/ \E k \in Name : StartRemove(p, k)
       \/ ListInstalls(p) \/ ApplyInstall(p) \/ CheckKey(p) \/ GetInstall(p)
       \/ GetSecret(p) \/ PatchInstall(p) \/ DeleteInstall(p) \/ CommandFails(p)
  \/ \E k \in Name, v \in Value : Generate(k, v)

ConfigSpec == ConfigInit /\ [][ConfigNext]_configVars

-----------------------------------------------------------------------------
(* Properties *)

\* Where an install's parameters may come from.
Known == Param \cup passed

\* Types.  What an install's list, the secret and any process hold is defined by the
\* application or was given to an install, by a manifest say: config set, which
\* checks its key some calls before it writes, and config remove, which may put a
\* generated value in place, bring in no other name, however many run at once.
ConfigTypeOK ==
  /\ exists \in BOOLEAN /\ params \in Params /\ managers \subseteq Manager
  /\ secret \in Params /\ passed \subseteq Name /\ kb \in [Proc -> Process]
  /\ Listed(params) \subseteq Known /\ Listed(secret) \subseteq Known
  /\ \A p \in Proc : Listed(kb[p].params) \cup Listed(kb[p].read) \subseteq Known

\* An install over an existing one keeps its parameters, whatever sets, removes,
\* installs and deletions the field's owners went through before
\* (managers/install.go: "Subsequent calls to Install do not modify the Install
\* with the provided parameters argument").  Holds when one process runs at a time,
\* interruptions included; a set between the List and the Apply of another is undone.
PreservesExisting ==
  [][\A p \in Proc : kb[p].pc = "apply" /\ kb'[p] # kb[p] /\ exists => params' = params]_configVars

\* config set and remove change the value of no other parameter than their own
\* (cmd/kb/subcommands/config.go: "Set a config value", "Remove a config value").
\* Holds when one process runs at a time; of two sets at once one is lost.
EditsOwnKey ==
  [][\A p \in Proc : kb[p].pc = "patch" /\ kb'[p] # kb[p] =>
       \A k \in Name : k # kb[p].key => params'[k] = params[k]]_configVars
=============================================================================
