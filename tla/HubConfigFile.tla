---------------------------- MODULE HubConfigFile ---------------------------
(***************************************************************************)
(* The configuration file of the hub, programdata/config.json: class       *)
(* HubConfigStore of slimhub/config.py.  A daemon that starts loads it or  *)
(* creates it, and a field is set by hub.config.set in the daemon or by    *)
(* slimhub-v2 --hubconfig in a process of its own (cli/app.py).  Nothing   *)
(* keeps these processes from working on the file at the same time.        *)
(*                                                                         *)
(* Steps are the system calls on the file: look whether it exists, read    *)
(* it, open it for writing, which truncates it, and the write of the       *)
(* buffered text when it is closed, at the offset 0 of each writer.        *)
(***************************************************************************)
EXTENDS FiniteSets

CONSTANTS
  Procs,         \* processes that may work on the file
  Fields,        \* address, type, owner, name
  Required,      \* the fields load gives a default if they are empty: address, type
  Values,        \* what an operator sets a field to
  Blank,         \* the empty text
  Default,       \* what a new configuration has in a field
  None,          \* no value
  Absent,        \* there is no file
  Empty,         \* a file that was truncated
  Torn,          \* a file with text that is no configuration
  Start          \* the operation of a daemon that starts: load_or_create()

Configs == [Fields -> Values \cup {Blank, Default}]
Defaults == [f \in Fields |-> Default]
Sets == [field : Fields, value : Values \cup {Blank}]

ASSUME FieldsOK == Required \subseteq Fields
ASSUME ValuesOK ==
  /\ None \notin Values \cup {Blank, Default}
  /\ Absent # Empty /\ Absent # Torn /\ Empty # Torn
  /\ {Absent, Empty, Torn} \cap Configs = {}
  /\ Start \notin Sets

VARIABLES
  file,          \* the file
  pc,            \* what each process does next with the file
  op,            \* its operation: Start, or the field and the value to set
  config,        \* its HubConfig
  alone,         \* history: no other process has been at work since this one began
  settled,       \* history: the last value set of a field, by a process that was alone
  disturbed      \* history: two processes overlapped, or one ended in a write

vars == <<file, pc, op, config, alone, settled, disturbed>>

Busy(p) == pc[p] # "idle"
Readable == file \in Configs

Init ==
  /\ file = Absent
  /\ pc = [p \in Procs |-> "idle"]
  /\ op = [p \in Procs |-> Start]
  /\ config = [p \in Procs |-> Defaults]
  /\ alone = [p \in Procs |-> FALSE]
  /\ settled = [f \in Fields |-> None]
  /\ disturbed = FALSE

-----------------------------------------------------------------------------
(* Steps of an operation                                                     *)

\* What load reads in a field that holds v.
Reading(f, v) == IF f \in Required /\ v = Blank THEN Default ELSE v
Loaded(text) == [f \in Fields |-> Reading(f, text[f])]

\* exists(): a file that is absent is created with the defaults first.
Begin(p, o) ==
  LET others == \E q \in Procs \ {p} : Busy(q)
  IN  /\ ~Busy(p)
      /\ op' = [op EXCEPT ![p] = o]
      /\ \/ /\ file = Absent
            /\ pc' = [pc EXCEPT ![p] = "open_new"]
            /\ config' = [config EXCEPT ![p] = Defaults]
         \/ /\ file # Absent
            /\ pc' = [pc EXCEPT ![p] = "read"]
            /\ UNCHANGED config
      /\ alone' = [q \in Procs |-> q = p /\ ~others]
      /\ disturbed' = (disturbed \/ others)
      /\ settled' = IF o = Start THEN settled ELSE [settled EXCEPT ![o.field] = None]
      /\ UNCHANGED file

\* The operation returns or raises; its HubConfig is gone.
Return(p) ==
  /\ pc' = [pc EXCEPT ![p] = "idle"]
  /\ op' = [op EXCEPT ![p] = Start]
  /\ config' = [config EXCEPT ![p] = Defaults]
  /\ alone' = [alone EXCEPT ![p] = FALSE]

\* The operation goes on with configuration c: set_field saves it with the new
\* value, a daemon that starts is done with the file.
Continue(p, c) ==
  \/ op[p] = Start /\ Return(p)
  \/ /\ op[p] # Start
     /\ config' = [config EXCEPT ![p] = [c EXCEPT ![op[p].field] = op[p].value]]
     /\ pc' = [pc EXCEPT ![p] = "open"]
     /\ UNCHANGED <<op, alone>>

\* Mutant: set_field makes a new configuration with the one field.
ReadForgets(p) ==
  /\ pc[p] = "read" /\ Readable
  /\ Continue(p, Defaults)
  /\ UNCHANGED <<file, settled, disturbed>>

\* Mutant: a file that cannot be read is taken for a new one.
ReadFallsBack(p) ==
  /\ pc[p] = "read"
  /\ Continue(p, IF Readable THEN Loaded(file) ELSE Defaults)
  /\ UNCHANGED <<file, settled, disturbed>>

Read(p) ==
  /\ pc[p] = "read" /\ Readable
  /\ Continue(p, Loaded(file))
  /\ UNCHANGED <<file, settled, disturbed>>

\* Mutant: the file is opened for update, which does not truncate it.
OpenKeeps(p) ==
  /\ pc[p] \in {"open_new", "open"}
  /\ file' = IF file = Absent THEN Empty ELSE file
  /\ pc' = [pc EXCEPT ![p] = IF @ = "open" THEN "write" ELSE "write_new"]
  /\ UNCHANGED <<op, config, alone, settled, disturbed>>

Open(p) ==
  /\ pc[p] \in {"open_new", "open"}
  /\ file' = Empty
  /\ pc' = [pc EXCEPT ![p] = IF @ = "open" THEN "write" ELSE "write_new"]
  /\ UNCHANGED <<op, config, alone, settled, disturbed>>

\* The text of another writer is overwritten from its beginning; what is longer
\* than the new text stays behind it.
Overwrite(p) ==
  \/ file' = config[p]
  \/ file # Empty /\ file' = Torn

\* The file with the defaults is there.
WriteNew(p) ==
  /\ pc[p] = "write_new"
  /\ Overwrite(p)
  /\ Continue(p, config[p])
  /\ UNCHANGED <<settled, disturbed>>

\* The field is set and the operator is told so.
Write(p) ==
  /\ pc[p] = "write"
  /\ Overwrite(p)
  /\ Return(p)
  /\ settled' = IF alone[p] THEN [settled EXCEPT ![op[p].field] = op[p].value] ELSE settled
  /\ UNCHANGED disturbed

\* The process is killed, or a call raises: json.load() for a file that is empty
\* or torn, or the write when the disk is full, which may come to a part of it.
Fail(p) ==
  /\ Busy(p)
  /\ \/ pc[p] \notin {"write_new", "write"} /\ UNCHANGED <<file, disturbed>>
     \/ pc[p] \in {"write_new", "write"} /\ file' \in {file, Torn} /\ disturbed' = TRUE
  /\ Return(p)
  /\ UNCHANGED settled

Next ==
  \E p \in Procs :
    \/ \E o \in Sets \cup {Start} : Begin(p, o)
    \/ Read(p) \/ Open(p) \/ WriteNew(p) \/ Write(p) \/ Fail(p)

Spec == Init /\ [][Next]_vars

-----------------------------------------------------------------------------
(* Properties *)

\* Every variable keeps its type.
TypeOK ==
  /\ file \in Configs \cup {Absent, Empty, Torn}
  /\ pc \in [Procs -> {"idle", "read", "open_new", "write_new", "open", "write"}]
  /\ op \in [Procs -> Sets \cup {Start}]
  /\ config \in [Procs -> Configs]
  /\ alone \in [Procs -> BOOLEAN]
  /\ settled \in [Fields -> Values \cup {Blank, None}]
  /\ disturbed \in BOOLEAN
  /\ \A p \in Procs : pc[p] \in {"open", "write"} => op[p] # Start

\* A value that was set by a process that had the file to itself is what every
\* later load reads, until the field is set again: operations on other fields,
\* daemons that start, processes that overlap, fail or are killed do not bring
\* back an older value or the default.
SettledSurvives ==
  \A f \in Fields : settled[f] # None =>
    /\ file # Absent
    /\ Readable => Reading(f, file[f]) = Reading(f, settled[f])

\* The file is unreadable between operations only if processes overlapped or one
\* ended in a write; then the hub does not start (SlimHubDaemon.run).
UnreadableHasCause ==
  file \in {Empty, Torn} => disturbed \/ \E p \in Procs : pc[p] \in {"write_new", "write"}

\* The file is unreadable and nobody has read it in time to write it again.
Stuck == file \in {Empty, Torn} /\ \A p \in Procs : pc[p] \in {"idle", "read"}

\* Then it stays as it is, for whoever can repair it: no operation replaces it by
\* a new configuration, and none gets past reading it.
UnreadableIsKept == [][Stuck => Stuck' /\ UNCHANGED file]_vars
=============================================================================
