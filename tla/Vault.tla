-------------------------------- MODULE Vault --------------------------------
(***************************************************************************)
(* What the remote server promises about accounts and backups, with no     *)
(* sessions, locks, directories or failures in sight: the abstract         *)
(* specification that BackupStore implements.                              *)
(*                                                                         *)
(* An account is the credential registered under a user name.  A backup is *)
(* shown when the owner's history lists it, and acknowledged when an       *)
(* uploader has been told it is stored.                                    *)
(***************************************************************************)
EXTENDS Naturals, FiniteSets

CONSTANTS
  Users,        \* account names
  Creds,        \* what identifies a registration (salt and verifier)
  Ids,          \* backup identifiers
  NoCred,       \* "this name is not registered"
  MaxAccounts,  \* accounts the database may hold
  MaxHistory    \* entries a history response can carry

VARIABLES
  account,      \* [Users -> Creds or NoCred]
  shown,        \* [Users -> set of backups the history lists]
  acknowledged  \* [Users -> set of backups reported stored]

vars == <<account, shown, acknowledged>>

Init ==
  /\ account = [u \in Users |-> NoCred]
  /\ shown = [u \in Users |-> {}]
  /\ acknowledged = [u \in Users |-> {}]

Registered == {u \in Users : account[u] # NoCred}

Register(u, c) ==
  /\ account[u] = NoCred
  /\ Cardinality(Registered) < MaxAccounts
  /\ account' = [account EXCEPT ![u] = c]
  /\ UNCHANGED <<shown, acknowledged>>

\* An account disappears only while its owner has no backup left to lose.
Remove(u) ==
  /\ account[u] # NoCred
  /\ shown[u] = {}
  /\ account' = [account EXCEPT ![u] = NoCred]
  /\ UNCHANGED <<shown, acknowledged>>

\* A backup appears once, in one registered owner's history, if it fits.
Publish(u, id) ==
  /\ account[u] # NoCred
  /\ \A v \in Users : id \notin shown[v]
  /\ Cardinality(shown[u]) < MaxHistory
  /\ shown' = [shown EXCEPT ![u] = @ \cup {id}]
  /\ UNCHANGED <<account, acknowledged>>

\* A backup nobody was promised may be withdrawn again.
Retract(u, id) ==
  /\ id \in shown[u] \ acknowledged[u]
  /\ shown' = [shown EXCEPT ![u] = @ \ {id}]
  /\ UNCHANGED <<account, acknowledged>>

Acknowledge(u, id) ==
  /\ id \in shown[u] \ acknowledged[u]
  /\ acknowledged' = [acknowledged EXCEPT ![u] = @ \cup {id}]
  /\ UNCHANGED <<account, shown>>

Next ==
  \E u \in Users :
    \/ \E c \in Creds : Register(u, c)
    \/ Remove(u)
    \/ \E id \in Ids : Publish(u, id) \/ Retract(u, id) \/ Acknowledge(u, id)

Spec == Init /\ [][Next]_vars
=============================================================================
