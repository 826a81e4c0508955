---------------------------- MODULE MCBackupStore ----------------------------
(***************************************************************************)
(* Small instances of BackupStore for TLC.                                 *)
(***************************************************************************)
EXTENDS BackupStore, TLC

\* Connections, credentials and backup identifiers are interchangeable.
Symmetry ==
  Permutations(Sessions) \cup Permutations(Creds) \cup Permutations(Ids)

\* So are the users, of whom the vault has three for two accounts and the store
\* one: nothing but the limit of accounts relates them.
UserSymmetry == Symmetry \cup Permutations(Users)
=============================================================================
