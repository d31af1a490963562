------------------------ MODULE HubConfigFile_proofs ------------------------
(***************************************************************************)
(* Proofs about HubConfigFile, for any number of processes, any fields and *)
(* any values: what was set in peace survives, and an unreadable file has  *)
(* a cause and is kept.                                                    *)
(*                                                                         *)
(* SettledSurvives speaks of the file only; it is inductive together with  *)
(* the same claim about the configurations that processes are about to     *)
(* write (Inv).  UnreadableHasCause needs that without overlap at most one *)
(* process is at work and what it overwrites is empty (Peace).             *)
(***************************************************************************)
EXTENDS HubConfigFile, TLAPS

LEMMA TextsDiffer ==
  /\ Absent \notin Configs /\ Empty \notin Configs /\ Torn \notin Configs
  /\ Absent # Empty /\ Absent # Torn /\ Empty # Torn
BY ValuesOK

LEMMA ReadingTyped ==
  ASSUME NEW f, NEW v
  PROVE  /\ Reading(f, Reading(f, v)) = Reading(f, v)
         /\ v \in Values \cup {Blank, Default} => Reading(f, v) \in Values \cup {Blank, Default}
BY DEF Reading

LEMMA LoadedTyped ==
  ASSUME NEW c \in Configs
  PROVE  /\ Loaded(c) \in Configs
         /\ \A f \in Fields : Reading(f, Loaded(c)[f]) = Reading(f, c[f])
BY DEF Loaded, Configs, Reading

LEMMA DefaultsTyped == Defaults \in Configs
BY DEF Defaults, Configs

-----------------------------------------------------------------------------
(* Types                                                                     *)

LEMMA ReturnTyped ==
  ASSUME TypeOK, NEW p \in Procs, Return(p)
  PROVE  /\ pc' \in [Procs -> {"idle", "read", "open_new", "write_new", "open", "write"}]
         /\ op' \in [Procs -> Sets \cup {Start}]
         /\ config' \in [Procs -> Configs]
         /\ alone' \in [Procs -> BOOLEAN]
         /\ \A q \in Procs : pc'[q] \in {"open", "write"} => op'[q] # Start
BY DefaultsTyped DEF TypeOK, Return

LEMMA ContinueTyped ==
  ASSUME TypeOK, NEW p \in Procs, NEW c \in Configs, Continue(p, c)
  PROVE  /\ pc' \in [Procs -> {"idle", "read", "open_new", "write_new", "open", "write"}]
         /\ op' \in [Procs -> Sets \cup {Start}]
         /\ config' \in [Procs -> Configs]
         /\ alone' \in [Procs -> BOOLEAN]
         /\ \A q \in Procs : pc'[q] \in {"open", "write"} => op'[q] # Start
<1>1. CASE Return(p)
  BY <1>1, ReturnTyped
<1>2. CASE op[p] # Start /\ ~Return(p)
  <2>1. op[p] \in Sets
    BY <1>2 DEF TypeOK
  <2>2. [c EXCEPT ![op[p].field] = op[p].value] \in Configs
    BY <2>1 DEF Sets, Configs
  <2>3. QED
    BY <1>2, <2>2 DEF Continue, TypeOK
<1>3. QED
  BY <1>1, <1>2 DEF Continue

LEMMA OverwriteTyped ==
  ASSUME TypeOK, NEW p \in Procs, Overwrite(p)
  PROVE  file' \in Configs \cup {Torn}
BY DEF TypeOK, Overwrite

LEMMA InitTyped == Init => TypeOK
BY DefaultsTyped DEF Init, TypeOK

LEMMA NextTyped ==
  ASSUME TypeOK, [Next]_vars
  PROVE  TypeOK'
<1>1. ASSUME NEW p \in Procs, NEW o \in Sets \cup {Start}, Begin(p, o) PROVE TypeOK'
  <2>1. alone' \in [Procs -> BOOLEAN] /\ disturbed' \in BOOLEAN
    BY <1>1 DEF Begin, TypeOK, Busy
  <2>2. settled' \in [Fields -> Values \cup {Blank, None}]
    BY <1>1 DEF Begin, TypeOK, Sets
  <2>3. pc' \in [Procs -> {"idle", "read", "open_new", "write_new", "open", "write"}]
        /\ config' \in [Procs -> Configs]
    BY <1>1, DefaultsTyped DEF Begin, TypeOK
  <2>4. \A q \in Procs : pc'[q] \in {"open", "write"} => op'[q] # Start
    BY <1>1 DEF Begin, TypeOK
  <2>5. QED
    BY <1>1, <2>1, <2>2, <2>3, <2>4 DEF Begin, TypeOK
<1>2. ASSUME NEW p \in Procs, Read(p) PROVE TypeOK'
  <2>1. Loaded(file) \in Configs
    BY <1>2, LoadedTyped DEF Read, Readable
  <2>2. QED
    BY <1>2, <2>1, ContinueTyped DEF Read, TypeOK
<1>3. ASSUME NEW p \in Procs, Open(p) PROVE TypeOK'
  <2>1. CASE pc[p] = "open"
    BY <1>3, <2>1 DEF Open, TypeOK
  <2>2. CASE pc[p] = "open_new"
    BY <1>3, <2>2 DEF Open, TypeOK
  <2>3. QED
    BY <1>3, <2>1, <2>2 DEF Open
<1>4. ASSUME NEW p \in Procs, WriteNew(p) PROVE TypeOK'
  <2>1. config[p] \in Configs
    BY DEF TypeOK
  <2>2. QED
    BY <1>4, <2>1, ContinueTyped, OverwriteTyped DEF WriteNew, TypeOK
<1>5. ASSUME NEW p \in Procs, Write(p) PROVE TypeOK'
  <2>1. settled' \in [Fields -> Values \cup {Blank, None}]
    BY <1>5 DEF Write, TypeOK, Sets
  <2>2. QED
    BY <1>5, <2>1, ReturnTyped, OverwriteTyped DEF Write, TypeOK
<1>6. ASSUME NEW p \in Procs, Fail(p) PROVE TypeOK'
  <2>1. file' \in Configs \cup {Absent, Empty, Torn} /\ disturbed' \in BOOLEAN
    BY <1>6 DEF Fail, TypeOK
  <2>2. QED
    BY <1>6, <2>1, ReturnTyped DEF Fail, TypeOK
<1>7. CASE UNCHANGED vars
  BY <1>7 DEF vars, TypeOK
<1>8. QED
  BY <1>1, <1>2, <1>3, <1>4, <1>5, <1>6, <1>7 DEF Next

\* Every variable keeps its type.
THEOREM TypeCorrect == Spec => []TypeOK
BY InitTyped, NextTyped, PTL DEF Spec

-----------------------------------------------------------------------------
(* What was settled                                                          *)

\* Who has been alone is.
AloneIsAlone ==
  \A p \in Procs : alone[p] => Busy(p) /\ \A q \in Procs : q # p => ~Busy(q)

\* A process that is about to save has its value in its configuration.
ChangeMade ==
  \A p \in Procs : pc[p] \in {"open", "write"} => config[p][op[p].field] = op[p].value

\* Nobody who is at work has anything else for a settled field.
SettledFor(f, p) ==
  /\ pc[p] \notin {"open_new", "write_new"}
  /\ Busy(p) /\ op[p] # Start => op[p].field # f
  /\ pc[p] \in {"open", "write"} => Reading(f, config[p][f]) = Reading(f, settled[f])

Inv ==
  /\ AloneIsAlone
  /\ ChangeMade
  /\ SettledSurvives
  /\ \A f \in Fields : settled[f] # None => \A p \in Procs : SettledFor(f, p)

LEMMA InitInv == Init => Inv
BY DEF Init, Inv, AloneIsAlone, ChangeMade, SettledSurvives, Busy

\* A process that returns leaves the others as they were.
LEMMA ReturnKeeps ==
  ASSUME TypeOK, Inv, NEW p \in Procs, Return(p)
  PROVE  /\ AloneIsAlone' /\ ChangeMade'
         /\ \A f \in Fields : settled[f] # None /\ settled'[f] = settled[f] =>
              \A q \in Procs : SettledFor(f, q)'
<1>1. \A q \in Procs : q # p =>
        pc'[q] = pc[q] /\ op'[q] = op[q] /\ config'[q] = config[q] /\ alone'[q] = alone[q]
  BY DEF Return, TypeOK
<1>2. pc'[p] = "idle" /\ ~alone'[p]
  BY DEF Return, TypeOK
<1>3. AloneIsAlone'
  BY <1>1, <1>2 DEF Inv, AloneIsAlone, Busy
<1>4. ChangeMade'
  BY <1>1, <1>2 DEF Inv, ChangeMade
<1>5. ASSUME NEW f \in Fields, settled[f] # None, settled'[f] = settled[f], NEW q \in Procs
      PROVE  SettledFor(f, q)'
  BY <1>1, <1>2, <1>5 DEF Inv, SettledFor, Busy
<1>6. QED
  BY <1>3, <1>4, <1>5

\* A process that goes on to save goes on with what it was given, but for its field.
LEMMA ContinueKeeps ==
  ASSUME TypeOK, Inv, NEW p \in Procs, Busy(p), NEW c \in Configs, Continue(p, c),
         settled' = settled,
         \A f \in Fields : settled[f] # None => Reading(f, c[f]) = Reading(f, settled[f])
  PROVE  /\ AloneIsAlone' /\ ChangeMade'
         /\ \A f \in Fields : settled'[f] # None => \A q \in Procs : SettledFor(f, q)'
<1>1. CASE Return(p)
  BY <1>1, ReturnKeeps
<1>2. CASE op[p] # Start /\ ~Return(p)
  <2>1. op[p].field \in Fields /\ c \in [Fields -> Values \cup {Blank, Default}]
    BY <1>2 DEF TypeOK, Sets, Configs
  <2>2. PICK d : d = [c EXCEPT ![op[p].field] = op[p].value]
    OBVIOUS
  <2>3. d[op[p].field] = op[p].value /\ \A f \in Fields : f # op[p].field => d[f] = c[f]
    BY <2>1, <2>2
  <2>4. \A q \in Procs : q # p => pc'[q] = pc[q] /\ config'[q] = config[q]
    BY <1>2 DEF Continue, TypeOK
  <2>5. pc'[p] = "open" /\ config'[p] = d /\ op' = op /\ alone' = alone
    BY <1>2, <2>2 DEF Continue, TypeOK
  <2>6. AloneIsAlone'
    BY <2>4, <2>5 DEF Inv, AloneIsAlone, Busy
  <2>7. ChangeMade'
    BY <2>3, <2>4, <2>5 DEF Inv, ChangeMade
  <2>8. ASSUME NEW f \in Fields, settled'[f] # None, NEW q \in Procs PROVE SettledFor(f, q)'
    <3>1. CASE q # p
      BY <2>4, <2>5, <2>8, <3>1 DEF Inv, SettledFor, Busy
    <3>2. CASE q = p
      <4>1. op[p].field # f
        BY <1>2, <2>8 DEF Inv, SettledFor
      <4>2. QED
        BY <2>3, <2>5, <2>8, <3>2, <4>1 DEF SettledFor, Busy
    <3>3. QED
      BY <3>1, <3>2
  <2>9. QED
    BY <2>6, <2>7, <2>8
<1>3. QED
  BY <1>1, <1>2 DEF Continue

LEMMA BeginInv ==
  ASSUME TypeOK, Inv, NEW p \in Procs, NEW o \in Sets \cup {Start}, Begin(p, o)
  PROVE  Inv'
<1>1. \A q \in Procs : q # p => pc'[q] = pc[q] /\ op'[q] = op[q] /\ config'[q] = config[q]
  BY DEF Begin, TypeOK
<1>2. op'[p] = o /\ file' = file /\ Busy(p)'
      /\ pc'[p] = IF file = Absent THEN "open_new" ELSE "read"
  BY DEF Begin, TypeOK, Busy
<1>3. \A f \in Fields : settled'[f] # None =>
        settled'[f] = settled[f] /\ (o # Start => o.field # f)
  BY DEF Begin, TypeOK, Sets
<1>4. AloneIsAlone'
  BY <1>1, <1>2 DEF Begin, AloneIsAlone, Busy
<1>5. ChangeMade'
  BY <1>1, <1>2 DEF Inv, ChangeMade
<1>6. SettledSurvives'
  BY <1>2, <1>3 DEF Inv, SettledSurvives, Readable
<1>7. ASSUME NEW f \in Fields, settled'[f] # None, NEW q \in Procs PROVE SettledFor(f, q)'
  <2>1. CASE q = p
    <3>1. pc'[p] = "read"
      BY <1>2, <1>3, <1>7 DEF Inv, SettledSurvives
    <3>2. QED
      BY <1>2, <1>3, <1>7, <2>1, <3>1 DEF SettledFor
  <2>2. CASE q # p
    BY <1>1, <1>3, <1>7, <2>2 DEF Inv, SettledFor, Busy
  <2>3. QED
    BY <2>1, <2>2
<1>8. QED
  BY <1>4, <1>5, <1>6, <1>7 DEF Inv

LEMMA ReadInv ==
  ASSUME TypeOK, Inv, NEW p \in Procs, Read(p)
  PROVE  Inv'
<1>1. file \in Configs /\ file' = file /\ settled' = settled /\ Busy(p)
  BY DEF Read, Readable, Busy
<1>2. \A f \in Fields : settled[f] # None => Reading(f, Loaded(file)[f]) = Reading(f, settled[f])
  BY <1>1, LoadedTyped DEF Inv, SettledSurvives, Readable
<1>3. SettledSurvives'
  BY <1>1 DEF Inv, SettledSurvives, Readable
<1>4. Loaded(file) \in Configs /\ Continue(p, Loaded(file))
  BY <1>1, LoadedTyped DEF Read
<1>5. QED
  BY <1>1, <1>2, <1>3, <1>4, ContinueKeeps DEF Inv

LEMMA OpenInv ==
  ASSUME TypeOK, Inv, NEW p \in Procs, Open(p)
  PROVE  Inv'
<1>1. \A q \in Procs : q # p => pc'[q] = pc[q]
  BY DEF Open, TypeOK
<1>2. pc'[p] = IF pc[p] = "open" THEN "write" ELSE "write_new"
  BY DEF Open, TypeOK
<1>3. /\ pc[p] \in {"open_new", "open"} /\ file' = Empty
      /\ op' = op /\ config' = config /\ alone' = alone /\ settled' = settled
  BY DEF Open
<1>4. \A q \in Procs : Busy(q)' = Busy(q)
  BY <1>1, <1>2, <1>3 DEF Busy
<1>5. AloneIsAlone'
  BY <1>3, <1>4 DEF Inv, AloneIsAlone
<1>6. ChangeMade'
  BY <1>1, <1>2, <1>3 DEF Inv, ChangeMade
<1>7. SettledSurvives'
  BY <1>3, TextsDiffer DEF SettledSurvives, Readable
<1>8. ASSUME NEW f \in Fields, settled'[f] # None, NEW q \in Procs PROVE SettledFor(f, q)'
  BY <1>1, <1>2, <1>3, <1>4, <1>8 DEF Inv, SettledFor
<1>9. QED
  BY <1>5, <1>6, <1>7, <1>8 DEF Inv

\* Nothing is settled while a file is created.
LEMMA WriteNewInv ==
  ASSUME TypeOK, Inv, NEW p \in Procs, WriteNew(p)
  PROVE  Inv'
<1>1. settled' = settled /\ \A f \in Fields : settled[f] = None
  BY DEF WriteNew, Inv, SettledFor
<1>2. config[p] \in Configs /\ Continue(p, config[p]) /\ Busy(p)
  BY DEF WriteNew, TypeOK, Busy
<1>3. SettledSurvives'
  BY <1>1 DEF SettledSurvives
<1>4. QED
  BY <1>1, <1>2, <1>3, ContinueKeeps DEF Inv

LEMMA WriteInv ==
  ASSUME TypeOK, Inv, NEW p \in Procs, Write(p)
  PROVE  Inv'
<1>1. pc[p] = "write" /\ Return(p) /\ op[p] \in Sets /\ op[p].field \in Fields /\ Busy(p)
  BY DEF Write, TypeOK, Sets, Busy
<1>2. \A f \in Fields : settled'[f] # None =>
        settled'[f] = settled[f] \/ (alone[p] /\ f = op[p].field /\ settled'[f] = op[p].value)
  BY <1>1 DEF Write, TypeOK
<1>3. file' = config[p] \/ file' = Torn
  BY DEF Write, Overwrite
<1>4. config[p] \in Configs /\ config[p][op[p].field] = op[p].value
  BY <1>1 DEF TypeOK, Inv, ChangeMade
<1>5. \A f \in Fields : settled'[f] # None => Reading(f, config[p][f]) = Reading(f, settled'[f])
  <2> SUFFICES ASSUME NEW f \in Fields, settled'[f] # None
               PROVE  Reading(f, config[p][f]) = Reading(f, settled'[f])
    OBVIOUS
  <2>1. CASE settled'[f] = settled[f]
    BY <1>1, <2>1 DEF Inv, SettledFor
  <2>2. CASE f = op[p].field /\ settled'[f] = op[p].value
    BY <1>4, <2>2
  <2>3. QED
    BY <1>2, <2>1, <2>2
<1>6. SettledSurvives'
  BY <1>3, <1>4, <1>5, TextsDiffer DEF SettledSurvives, Readable
<1>7. ASSUME NEW f \in Fields, settled'[f] # None, NEW q \in Procs PROVE SettledFor(f, q)'
  <2>1. CASE settled'[f] = settled[f]
    BY <1>1, <1>7, <2>1, ReturnKeeps
  <2>2. CASE alone[p]
    <3>1. pc'[q] = "idle"
      BY <1>1, <2>2 DEF Inv, AloneIsAlone, Busy, Return, TypeOK
    <3>2. QED
      BY <3>1 DEF SettledFor, Busy
  <2>3. QED
    BY <1>2, <1>7, <2>1, <2>2
<1>8. QED
  BY <1>1, <1>6, <1>7, ReturnKeeps DEF Inv

LEMMA FailInv ==
  ASSUME TypeOK, Inv, NEW p \in Procs, Fail(p)
  PROVE  Inv'
<1>1. Return(p) /\ settled' = settled /\ file' \in {file, Torn}
  BY DEF Fail
<1>2. SettledSurvives'
  BY <1>1, TextsDiffer DEF Inv, SettledSurvives, Readable
<1>3. QED
  BY <1>1, <1>2, ReturnKeeps DEF Inv

LEMMA NextInv ==
  ASSUME TypeOK, Inv, [Next]_vars
  PROVE  Inv'
<1>1. CASE UNCHANGED vars
  BY <1>1 DEF vars, Inv, AloneIsAlone, ChangeMade, SettledSurvives, SettledFor, Busy, Readable
<1>2. QED
  BY <1>1, BeginInv, ReadInv, OpenInv, WriteNewInv, WriteInv, FailInv DEF Next

\* A value that was set in peace is what every later load reads.
THEOREM SettledAlwaysSurvives == Spec => []SettledSurvives
<1>1. Inv => SettledSurvives
  BY DEF Inv
<1>2. QED
  BY <1>1, InitTyped, NextTyped, InitInv, NextInv, PTL DEF Spec

-----------------------------------------------------------------------------
(* Unreadable files                                                          *)

\* As long as nothing was disturbed one process at most is at work, and what it
\* overwrites is the file it has truncated.
Peace ==
  ~disturbed =>
    /\ \A p, q \in Procs : Busy(p) /\ Busy(q) => p = q
    /\ \A p \in Procs : pc[p] \in {"write_new", "write"} => file = Empty
    /\ file \in {Empty, Torn} => \E p \in Procs : pc[p] \in {"write_new", "write"}

LEMMA InitPeace == Init => Peace
BY TextsDiffer DEF Init, Peace, Busy

\* In peace a write makes the file readable, and the writer was the only one.
LEMMA WritePeace ==
  ASSUME TypeOK, Peace, NEW p \in Procs, pc[p] \in {"write_new", "write"}, Overwrite(p),
         disturbed' = disturbed, \A q \in Procs : q # p => pc'[q] = pc[q],
         pc'[p] \notin {"write_new", "write"}
  PROVE  Peace'
<1>1. SUFFICES ASSUME ~disturbed PROVE Peace'
  BY DEF Peace
<1>2. \A q \in Procs : q # p => ~Busy(q)
  BY <1>1 DEF Peace, Busy
<1>3. file' \in Configs
  BY <1>1 DEF Peace, Overwrite, TypeOK
<1>4. QED
  BY <1>2, <1>3, TextsDiffer DEF Peace, Busy

LEMMA NextPeace ==
  ASSUME TypeOK, Peace, [Next]_vars
  PROVE  Peace'
<1>1. ASSUME NEW p \in Procs, NEW o \in Sets \cup {Start}, Begin(p, o) PROVE Peace'
  <2>1. \A q \in Procs : q # p => pc'[q] = pc[q]
    BY <1>1 DEF Begin, TypeOK
  <2>2. pc[p] = "idle" /\ pc'[p] \in {"open_new", "read"} /\ file' = file
    BY <1>1 DEF Begin, TypeOK, Busy
  <2>3. ~disturbed' => ~disturbed /\ \A q \in Procs : q # p => ~Busy(q)
    BY <1>1 DEF Begin
  <2>4. QED
    BY <2>1, <2>2, <2>3 DEF Peace, Busy
<1>2. ASSUME NEW p \in Procs, Read(p) PROVE Peace'
  <2>1. \A q \in Procs : q # p => pc'[q] = pc[q]
    BY <1>2 DEF Read, Continue, Return, TypeOK
  <2>2. pc[p] = "read" /\ pc'[p] \in {"idle", "open"} /\ file' = file /\ disturbed' = disturbed
    BY <1>2 DEF Read, Continue, Return, TypeOK
  <2>3. QED
    BY <2>1, <2>2 DEF Peace, Busy
<1>3. ASSUME NEW p \in Procs, Open(p) PROVE Peace'
  <2>1. \A q \in Procs : q # p => pc'[q] = pc[q]
    BY <1>3 DEF Open, TypeOK
  <2>2. /\ pc[p] \in {"open_new", "open"} /\ pc'[p] \in {"write_new", "write"}
        /\ file' = Empty /\ disturbed' = disturbed
    BY <1>3 DEF Open, TypeOK
  <2>3. QED
    BY <2>1, <2>2 DEF Peace, Busy
<1>4. ASSUME NEW p \in Procs, WriteNew(p) PROVE Peace'
  <2>1. \A q \in Procs : q # p => pc'[q] = pc[q]
    BY <1>4 DEF WriteNew, Continue, Return, TypeOK
  <2>2. pc'[p] \in {"idle", "open"}
    BY <1>4 DEF WriteNew, Continue, Return, TypeOK
  <2>3. QED
    BY <1>4, <2>1, <2>2, WritePeace DEF WriteNew
<1>5. ASSUME NEW p \in Procs, Write(p) PROVE Peace'
  <2>1. pc'[p] = "idle" /\ \A q \in Procs : q # p => pc'[q] = pc[q]
    BY <1>5 DEF Write, Return, TypeOK
  <2>2. QED
    BY <1>5, <2>1, WritePeace DEF Write
<1>6. ASSUME NEW p \in Procs, Fail(p) PROVE Peace'
  <2>1. pc'[p] = "idle" /\ \A q \in Procs : q # p => pc'[q] = pc[q]
    BY <1>6 DEF Fail, Return, TypeOK
  <2>2. CASE disturbed' = TRUE
    BY <2>2 DEF Peace
  <2>3. CASE UNCHANGED <<file, disturbed>> /\ pc[p] \notin {"write_new", "write"}
    BY <2>1, <2>3 DEF Peace, Busy
  <2>4. QED
    BY <1>6, <2>2, <2>3 DEF Fail
<1>7. CASE UNCHANGED vars
  BY <1>7 DEF vars, Peace, Busy
<1>8. QED
  BY <1>1, <1>2, <1>3, <1>4, <1>5, <1>6, <1>7 DEF Next

\* Processes that take turns and are not interrupted leave a file that can be read.
THEOREM UnreadableAlwaysHasCause == Spec => []UnreadableHasCause
<1>1. Peace => UnreadableHasCause
  BY DEF Peace, UnreadableHasCause
<1>2. QED
  BY <1>1, InitTyped, NextTyped, InitPeace, NextPeace, PTL DEF Spec

\* No step gets past reading an unreadable file, and so none replaces it.
THEOREM UnreadableIsAlwaysKept == Spec => UnreadableIsKept
<1>1. TypeOK /\ [Next]_vars => [Stuck => Stuck' /\ UNCHANGED file]_vars
  <2> SUFFICES ASSUME TypeOK, Next, Stuck
               PROVE  UNCHANGED file /\ \A q \in Procs : pc'[q] \in {"idle", "read"}
    BY DEF Stuck
  <2>1. ASSUME NEW p \in Procs, NEW o \in Sets \cup {Start}, Begin(p, o)
        PROVE  UNCHANGED file /\ \A q \in Procs : pc'[q] \in {"idle", "read"}
    BY <2>1, TextsDiffer DEF Begin, Stuck, TypeOK
  <2>2. ASSUME NEW p \in Procs, Fail(p)
        PROVE  UNCHANGED file /\ \A q \in Procs : pc'[q] \in {"idle", "read"}
    BY <2>2 DEF Fail, Return, Stuck, TypeOK
  <2>3. ASSUME NEW p \in Procs PROVE ~Read(p) /\ ~Open(p) /\ ~WriteNew(p) /\ ~Write(p)
    BY TextsDiffer DEF Stuck, Read, Readable, Open, WriteNew, Write
  <2>4. QED
    BY <2>1, <2>2, <2>3 DEF Next
<1>2. QED
  BY <1>1, InitTyped, NextTyped, PTL DEF Spec, UnreadableIsKept
=============================================================================
