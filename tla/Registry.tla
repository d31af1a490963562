------------------------------ MODULE Registry ------------------------------
(***************************************************************************)
(* The device registry of slimhub/ble/registry.py: the sessions by the BLE *)
(* address they were created for, and the aliases learned from frames.     *)
(* Nothing is ever removed.  Its lock is never contended, because nothing  *)
(* done under it suspends, so every operation is one step.                 *)
(***************************************************************************)
CONSTANTS
  Addresses,     \* normalized MAC addresses
  None           \* no session, no alias, no peripheral

VARIABLES
  sessions,      \* the keys of _sessions
  aliases        \* _aliases, None where there is no entry

registryVars == <<sessions, aliases>>

Init ==
  /\ sessions = {}
  /\ aliases = [a \in Addresses |-> None]

\* Mutant: aliases are not looked up.
GetBySession(a) == IF a \in sessions THEN a ELSE None

\* get(): the session created for the address, else the one it is an alias of.
Get(a) ==
  IF a \in sessions THEN a
  ELSE IF aliases[a] \in sessions THEN aliases[a]
  ELSE None

\* resolve_address(): the address devices lists the files of an address under.
Resolve(a) ==
  IF a \in sessions \/ aliases[a] = None THEN a ELSE aliases[a]

Add(S) ==
  /\ sessions' = sessions \cup S
  /\ UNCHANGED aliases

\* Mutant: the canonical address is not checked to be a session's.
RegisterAliasUnchecked(alias, canonical) ==
  /\ aliases' = [aliases EXCEPT ![alias] = canonical]
  /\ UNCHANGED sessions

\* An alias of an address that no session was created for is not kept.
RegisterAlias(alias, canonical) ==
  /\ \/ canonical \in sessions /\ aliases' = [aliases EXCEPT ![alias] = canonical]
     \/ canonical \notin sessions /\ UNCHANGED aliases
  /\ UNCHANGED sessions
=============================================================================
