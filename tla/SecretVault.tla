---------------------------- MODULE SecretVault ----------------------------
(***************************************************************************)
(* What the global secret promises the installs: the value generated for a *)
(* key is chosen once, and everybody who asks for the key is handed it.    *)
(***************************************************************************)
CONSTANTS Key, Value, NoValue

VARIABLES
  value,  \* the value chosen for each key
  given   \* the values handed out for each key

vars == <<value, given>>

Init == value \in [Key -> Value \cup {NoValue}] /\ given = [k \in Key |-> {}]

\* The chooser may be gone before it is handed the value.
Choose(k, v) ==
  /\ value[k] = NoValue
  /\ value' = [value EXCEPT ![k] = v]
  /\ given' = given \/ given' = [given EXCEPT ![k] = @ \cup {v}]

Hand(k) ==
  /\ value[k] # NoValue
  /\ given' = [given EXCEPT ![k] = @ \cup {value[k]}]
  /\ UNCHANGED value

Next == \E k \in Key : Hand(k) \/ \E v \in Value : Choose(k, v)

Spec == Init /\ [][Next]_vars
=============================================================================
