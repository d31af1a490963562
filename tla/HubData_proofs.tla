--------------------------- MODULE HubData_proofs ---------------------------
(***************************************************************************)
(* Proofs about HubData, for any peripherals, addresses, settings and      *)
(* texts, and any number of kills, restarts, failed saves and lost         *)
(* answers: a readable file has the settings that were acknowledged last   *)
(* or asked for since, data is written where they say, torn files are      *)
(* kept, and what the daemon knows of a device agrees with its files.      *)
(*                                                                         *)
(* The steps are first brought to three forms: what a step makes of the    *)
(* files (Follows, or Sets for an operator's request), of the queue and of *)
(* the log.  What the daemon knows of sessions, names and aliases (Known)  *)
(* is proved from the actions, the rest of Inv from these forms.  That     *)
(* data is where it was asked for rests on the settings that survive, and  *)
(* on what is queued being due at its path already.                        *)
(***************************************************************************)
EXTENDS HubData, WellFoundedInduction, FiniteSetTheorems, TLAPS

\* Among the files that are listed one is the last.
LEMMA LastListedExists ==
  ASSUME NEW A \in SUBSET Addresses, A # {}
  PROVE  LastListed(A) \in A
<1> DEFINE Below == { Len(Listing) - Position(a) : a \in A }
<1>1. ASSUME NEW a \in Addresses
      PROVE  Position(a) \in 1..Len(Listing)
  <2>1. \E i \in DOMAIN Listing : Listing[i] = a
    BY <1>1, AddressesOK DEF ToSet
  <2>2. QED
    BY <2>1, AddressesOK DEF Position
<1>2. Below \subseteq Nat /\ Below # {}
  BY <1>1, AddressesOK
<1>3. \E x \in Below : \A y \in Below : <<y, x>> \notin OpToRel(<, Nat)
  <2> HIDE DEF Below
  <2> QED BY <1>2, WFMin, NatLessThanWellFounded
<1>4. PICK x \in Below : \A y \in Below : ~(y < x)
  BY <1>2, <1>3 DEF OpToRel
<1>5. PICK a \in A : x = Len(Listing) - Position(a)
  BY <1>4
<1>6. ASSUME NEW b \in A
      PROVE  Position(b) <= Position(a)
  <2>1. ~(Len(Listing) - Position(b) < Len(Listing) - Position(a))
    BY <1>4, <1>5
  <2>2. Position(a) \in 1..Len(Listing) /\ Position(b) \in 1..Len(Listing) /\ Len(Listing) \in Nat
    BY <1>1, AddressesOK
  <2>3. QED
    BY <2>1, <2>2
<1>7. QED
  BY <1>6 DEF LastListed

-----------------------------------------------------------------------------
(* Files *)

Contents == Configs \cup {Absent, Torn}

\* The types that devices have by themselves or are given.
Types ==
  { DefaultType } \cup { Advertised[p] : p \in Peripherals }
    \cup { s[3] : s \in { t \in Settings : t[2] = "type" } }

\* What ensure() may be told the type of a is; it is of no account where a file is.
TypesFor(a) == { t \in Texts \ {Blank} : t \in Types \/ files[a] # Absent \/ refused }

\* What a step may make of the files unless an operator sets something.
Follows(F) ==
  /\ F \in [Addresses -> Contents]
  /\ \A a \in Addresses :
       \/ F[a] = files[a]
       \/ F[a] = Torn
       \/ /\ files[a] # Torn
          /\ \E t \in TypesFor(a), n \in Texts : F[a] = Store!Ensured(a, t, n)

\* What load() returns can be written: no field of a path is empty.
LEMMA LoadTyped ==
  ASSUME TypeOK, NEW a \in Addresses
  PROVE  /\ Store!Load(a) \in Configs
         /\ Blank \notin {Store!Load(a).type, Store!Load(a).location}
         /\ files[a] \notin {Absent, Torn} => Store!Load(a) = files[a]
<1>1. Store!Defaults \in Configs /\ Blank \notin {Store!Defaults.type, Store!Defaults.location}
  BY TextsOK DEF Store!Defaults, Configs, Texts
<1>2. QED
  BY <1>1 DEF TypeOK, Store!Load

\* What ensure() makes of the contents it loads.
LEMMA EnsuredIs ==
  ASSUME NEW a, NEW t \in Texts, NEW n \in Texts,
         NEW ty \in Texts, NEW na \in Texts, NEW lo \in Texts,
         Store!Load(a) = [type |-> ty, name |-> na, location |-> lo]
  PROVE  Store!Ensured(a, t, n) = [type |-> IF files[a] = Absent THEN t ELSE ty,
                                   name |-> IF na = Blank THEN n ELSE na,
                                   location |-> lo]
<1>1. Store!Load(a) \in Configs
  BY DEF Configs
<1>2. ASSUME NEW l \in Configs, NEW x \in Texts, NEW y \in Texts
      PROVE  [l EXCEPT !.type = x, !.name = y] = [type |-> x, name |-> y, location |-> l.location]
  <2>1. [l EXCEPT !.type = x, !.name = y] \in Configs
    BY DEF Configs
  <2>2. /\ [l EXCEPT !.type = x, !.name = y].type = x
        /\ [l EXCEPT !.type = x, !.name = y].name = y
        /\ [l EXCEPT !.type = x, !.name = y].location = l.location
    BY DEF Configs
  <2>3. \A m \in Configs : m = [type |-> m.type, name |-> m.name, location |-> m.location]
    BY DEF Configs
  <2>4. QED
    BY <2>1, <2>2, <2>3
<1>3. Store!Ensured(a, t, n) =
        [Store!Load(a) EXCEPT !.type = IF files[a] = Absent THEN t ELSE ty,
                              !.name = IF na = Blank THEN n ELSE na]
  BY DEF Store!Ensured
<1>4. (IF files[a] = Absent THEN t ELSE ty) \in Texts /\ (IF na = Blank THEN n ELSE na) \in Texts
  OBVIOUS
<1>5. Store!Load(a).location = lo
  OBVIOUS
<1>6. QED
  BY <1>1, <1>2, <1>3, <1>4, <1>5

\* ensure() changes no field that an operator may have set.
LEMMA EnsuredTyped ==
  ASSUME TypeOK, NEW a \in Addresses, NEW t \in Texts \ {Blank}, NEW n \in Texts
  PROVE  LET c == Store!Ensured(a, t, n) IN
         /\ c \in Configs /\ Blank \notin {c.type, c.location}
         /\ c.location = Store!Load(a).location
         /\ files[a] # Absent => c.type = Store!Load(a).type
         /\ c.name \in {Store!Load(a).name, n}
         /\ Store!Load(a).name # Blank => c.name = Store!Load(a).name
<1> DEFINE l == Store!Load(a)
<1>1. l \in Configs /\ Blank \notin {l.type, l.location}
  BY LoadTyped
<1>2. PICK ty \in Texts, na \in Texts, lo \in Texts : l = [type |-> ty, name |-> na, location |-> lo]
  BY <1>1 DEF Configs
<1>3. Store!Ensured(a, t, n) = [type |-> IF files[a] = Absent THEN t ELSE ty,
                                name |-> IF na = Blank THEN n ELSE na,
                                location |-> lo]
  BY <1>2, EnsuredIs
<1>4. QED
  BY <1>1, <1>2, <1>3 DEF Configs

\* Load and save is an ensure() of nothing new.
LEMMA LoadIsEnsured ==
  ASSUME TypeOK, NEW a \in Addresses
  PROVE  Store!Load(a) = Store!Ensured(a, DefaultType, Blank)
<1>1. PICK ty \in Texts, na \in Texts, lo \in Texts :
        Store!Load(a) = [type |-> ty, name |-> na, location |-> lo]
  BY LoadTyped DEF Configs
<1>2. files[a] = Absent => ty = DefaultType
  BY <1>1 DEF Store!Load, Store!Defaults
<1>3. DefaultType \in Texts /\ Blank \in Texts
  BY DEF Texts
<1>4. QED
  BY <1>1, <1>2, <1>3, EnsuredIs

\* A save of F that ends early or is not known to have ended.
LEMMA InterruptedFollows ==
  ASSUME NEW F, NEW a, NEW c, Follows(F), Follows([F EXCEPT ![a] = c]),
         NEW G \in Store!Interrupted(F, a, c)
  PROVE  Follows(G)
<1>1. F \in [Addresses -> Contents]
  BY DEF Follows
<1>2. Follows([F EXCEPT ![a] = Torn])
  BY <1>1 DEF Follows, Contents
<1>3. QED
  BY <1>2 DEF Store!Interrupted

LEMMA NothingFollows ==
  ASSUME TypeOK
  PROVE  Follows(files)
BY DEF Follows, TypeOK, Contents

\* One file that is saved.
LEMMA SaveFollows ==
  ASSUME TypeOK, NEW F, Follows(F), NEW a \in Addresses, files[a] # Torn,
         NEW t \in TypesFor(a), NEW n \in Texts
  PROVE  Follows([F EXCEPT ![a] = Store!Ensured(a, t, n)])
<1>1. Store!Ensured(a, t, n) \in Contents
  BY EnsuredTyped DEF Contents, TypesFor
<1>2. PICK c \in Contents : c = Store!Ensured(a, t, n)
  BY <1>1
<1>3. [F EXCEPT ![a] = c] \in [Addresses -> Contents]
  BY <1>2 DEF Follows
<1>4. ASSUME NEW b \in Addresses
      PROVE  \/ [F EXCEPT ![a] = c][b] = files[b]
             \/ [F EXCEPT ![a] = c][b] = Torn
             \/ /\ files[b] # Torn
                /\ \E u \in TypesFor(b), m \in Texts : [F EXCEPT ![a] = c][b] = Store!Ensured(b, u, m)
  <2>1. CASE b = a
    BY <1>2, <2>1 DEF Follows
  <2>2. CASE b # a
    BY <2>2 DEF Follows
  <2>3. QED
    BY <2>1, <2>2
<1>5. QED
  BY <1>2, <1>3, <1>4 DEF Follows

\* A device that is found is given no type but its own.
LEMMA FoundType ==
  ASSUME NEW p \in Peripherals
  PROVE  /\ Advertised[p] \in Texts /\ Ble[p] \in Addresses
         /\ IfBlank(Advertised[p], DefaultType) \in TypesFor(Ble[p])
<1>1. Advertised[p] \in Texts /\ IfBlank(Advertised[p], DefaultType) \in Texts \ {Blank}
  BY TextsOK DEF Texts, IfBlank
<1>2. IfBlank(Advertised[p], DefaultType) \in Types
  BY DEF Types, IfBlank
<1>3. QED
  BY <1>1, <1>2, AddressesOK DEF TypesFor

\* The files after a scan round.
LEMMA EnsuredFollow ==
  ASSUME TypeOK, NEW S \in SUBSET Peripherals, \A p \in S : Store!Readable(Ble[p])
  PROVE  Follows(FilesEnsured(S))
<1>1. ASSUME NEW a \in Addresses, NEW p \in S, Ble[p] = a
      PROVE  /\ FilesEnsured(S)[a] \in Contents /\ files[a] # Torn
             /\ \E t \in TypesFor(a), n \in Texts : FilesEnsured(S)[a] = Store!Ensured(a, t, n)
  <2>1. PICK q \in S : Ble[q] = a /\ FilesEnsured(S)[a] = FoundFile(q)
    BY <1>1 DEF FilesEnsured
  <2>2. /\ Advertised[q] \in Texts /\ IfBlank(Advertised[q], DefaultType) \in TypesFor(a)
        /\ FoundFile(q) = Store!Ensured(a, IfBlank(Advertised[q], DefaultType), Advertised[q])
    BY <2>1, FoundType DEF FoundFile
  <2>3. FoundFile(q) \in Configs
    BY <2>2, EnsuredTyped DEF TypesFor
  <2>4. QED
    BY <2>1, <2>2, <2>3 DEF Store!Readable, Contents
<1>2. ASSUME NEW a \in Addresses, ~ \E p \in S : Ble[p] = a
      PROVE  FilesEnsured(S)[a] = files[a]
  BY <1>2 DEF FilesEnsured
<1>3. \A a \in Addresses : FilesEnsured(S)[a] \in Contents
  BY <1>1, <1>2 DEF TypeOK, Contents
<1>4. FilesEnsured(S) \in [Addresses -> Contents]
  BY <1>3 DEF FilesEnsured
<1>5. QED
  BY <1>1, <1>2, <1>4 DEF Follows

\* What operators know may have come true may become more.
Grows ==
  /\ asked' \in [Addresses -> [Fields -> Values]]
  /\ \A a \in Addresses, f \in Fields : asked[a][f] \subseteq asked'[a][f]

\* What a step that follows does not change.
LEMMA FollowedBySettings ==
  ASSUME TypeOK, SettingsSurvive, Follows(files'), Grows
  PROVE  /\ SettingsSurvive'
         /\ files' \in [Addresses -> Contents]
         /\ \A a \in Addresses : files'[a] \in Configs => Blank \notin {files'[a].type, files'[a].location}
<1>1. files' \in [Addresses -> Contents]
  BY DEF Follows
<1>2. ASSUME NEW a \in Addresses, files'[a] \in Configs
      PROVE  Blank \notin {files'[a].type, files'[a].location}
  <2>1. CASE files'[a] = files[a]
    BY <1>2, <2>1 DEF TypeOK
  <2>2. CASE files'[a] = Torn
    BY <1>2, <2>2, TextsOK
  <2>3. CASE files'[a] # files[a] /\ files'[a] # Torn
    BY <1>2, <2>3, EnsuredTyped DEF Follows, TypesFor
  <2>4. QED
    BY <2>1, <2>2, <2>3
<1>3. ASSUME NEW a \in Addresses, NEW f \in Fields, None \notin asked'[a][f]
      PROVE  /\ files'[a] # Absent
             /\ \/ files'[a] = Torn
                \/ \E v \in asked'[a][f] : files'[a][f] = Store!Setting(f, v)
                \/ f = "name" /\ Blank \in asked'[a][f]
  <2>1. asked[a][f] \subseteq asked'[a][f] /\ None \notin asked[a][f]
    BY <1>3 DEF Grows
  <2>2. /\ files[a] # Absent
        /\ \/ files[a] = Torn
           \/ \E v \in asked[a][f] : files[a][f] = Store!Setting(f, v)
           \/ f = "name" /\ Blank \in asked[a][f]
    BY <2>1 DEF SettingsSurvive, Store!Readable, Meant
  <2>3. CASE files'[a] = files[a]
    BY <2>1, <2>2, <2>3
  <2>4. CASE files'[a] = Torn
    BY <2>4, TextsOK
  <2>5. CASE files'[a] # files[a] /\ files'[a] # Torn
    <3>1. PICK t \in Texts \ {Blank}, n \in Texts : files[a] # Torn /\ files'[a] = Store!Ensured(a, t, n)
      BY <2>5 DEF Follows, TypesFor
    <3>2. /\ files'[a] \in Configs /\ Store!Load(a) = files[a]
          /\ files'[a].location = files[a].location /\ files'[a].type = files[a].type
          /\ files[a].name # Blank => files'[a].name = files[a].name
      BY <2>2, <3>1, EnsuredTyped, LoadTyped
    <3>3. files'[a] # Absent
      BY <3>2, TextsOK
    <3>4. CASE f = "name" /\ Blank \in asked[a][f]
      BY <2>1, <3>3, <3>4
    <3>5. CASE ~(f = "name" /\ Blank \in asked[a][f])
      <4>1. PICK v \in asked[a][f] : files[a][f] = Store!Setting(f, v)
        BY <2>2, <3>1, <3>5
      <4>2. f = "name" => Store!Setting(f, v) # Blank
        BY <3>5 DEF Store!Setting
      <4>3. files'[a][f] = Store!Setting(f, v)
        BY <3>2, <4>1, <4>2 DEF Fields
      <4>4. QED
        BY <2>1, <3>3, <4>3
    <3>6. QED
      BY <3>4, <3>5
  <2>6. QED
    BY <2>3, <2>4, <2>5
<1>4. SettingsSurvive'
  BY <1>3 DEF SettingsSurvive, Store!Readable, Meant, Store!Setting, Store!Defaults
<1>5. QED
  BY <1>1, <1>2, <1>4

-----------------------------------------------------------------------------
(* What the steps have in common *)

\* An operator sets a field, and may come to know.
Sets(a, f, v) ==
  /\ files[a] # Torn
  /\ files' = [files EXCEPT ![a] = Store!Changed(a, f, v)]
  /\ Acknowledged(a, f, v) \/ NotAcknowledged(a, f, v)

\* A request that is not acknowledged adds to what may have come true.
LEMMA NotAcknowledgedGrows ==
  ASSUME TypeOK, NEW s \in Settings, NotAcknowledged(s[1], s[2], s[3])
  PROVE  Grows
<1>1. PICK a \in Addresses, f \in Fields, v \in Texts : a = s[1] /\ f = s[2] /\ v = s[3]
  BY SettingsOK DEF Texts
<1>2. asked \in [Addresses -> [Fields -> Values]] /\ asked' = [asked EXCEPT ![a][f] = @ \cup {v}]
  BY <1>1 DEF TypeOK, NotAcknowledged
<1>3. asked[a][f] \cup {v} \in Values
  BY <1>2 DEF Values
<1>4. asked' \in [Addresses -> [Fields -> Values]]
  BY <1>2, <1>3
<1>5. ASSUME NEW b \in Addresses, NEW g \in Fields
      PROVE  asked[b][g] \subseteq asked'[b][g]
  <2>1. CASE b = a /\ g = f
    BY <1>2, <2>1
  <2>2. CASE ~(b = a /\ g = f)
    BY <1>2, <2>2
  <2>3. QED
    BY <2>1, <2>2
<1>6. QED
  BY <1>4, <1>5 DEF Grows

LEMMA UnchangedGrows ==
  ASSUME TypeOK, asked' = asked
  PROVE  Grows
BY DEF Grows, TypeOK

\* The peripherals that a scan round finds, up to and at the n-th.
LEMMA RoundsFind ==
  ASSUME NEW found \in Rounds
  PROVE  /\ ToSet(found) \subseteq Peripherals
         /\ \A n \in DOMAIN found :
              ToSet(SubSeq(found, 1, n - 1)) \subseteq Peripherals /\ found[n] \in Peripherals
<1>1. Cardinality(Peripherals) \in Nat
  BY PeripheralsOK, FS_CardinalityType
<1>2. PICK m \in 0..Cardinality(Peripherals) : found \in [1..m -> Peripherals]
  BY DEF Rounds, SeqOf
<1>3. found \in Seq(Peripherals) /\ Len(found) = m
  BY <1>1, <1>2
<1>4. ASSUME NEW n \in DOMAIN found
      PROVE  ToSet(SubSeq(found, 1, n - 1)) \subseteq Peripherals
  <2>1. n \in 1..m
    BY <1>2, <1>4
  <2>2. SubSeq(found, 1, n - 1) \in Seq(Peripherals)
    BY <1>3, <2>1
  <2>3. QED
    BY <2>2 DEF ToSet
<1>5. QED
  BY <1>2, <1>4 DEF ToSet

\* An alias leads from the MAC in the frames of a peripheral to its BLE address.
AliasesOwned ==
  \A a \in Addresses : aliases[a] # None => \E q \in Peripherals : a = Mac[q] /\ aliases[a] = Ble[q]

\* Who has a session or an alias has a file, unless a new one could not be opened.
KnownHaveFile ==
  \A a \in Addresses : a \in sessions \/ aliases[a] # None => files[a] # Absent \/ refused

\* Names are those of sessions.
NamedAreSessions == \A k \in Addresses : names[k] # Blank => k \in sessions

Known == refused \in BOOLEAN /\ raised \in BOOLEAN /\ AliasesOwned /\ KnownHaveFile /\ NamedAreSessions

\* A session that is not there yet is made for the address itself.
LEMMA KeyIs ==
  ASSUME NEW a
  PROVE  Key(a) \in sessions \/ (Key(a) = a /\ a \notin sessions)
BY DEF Key, Reg!Get

\* A connect request names no new file after a device.
LEMMA RequestedType ==
  ASSUME TypeOK, Known, NEW a \in Addresses
  PROVE  IfBlank(names[Key(a)], DefaultType) \in TypesFor(a)
<1>1. Key(a) \in Addresses
  BY DEF TypeOK, Key, Reg!Get
<1>2. IfBlank(names[Key(a)], DefaultType) \in Texts \ {Blank}
  BY <1>1, TextsOK DEF TypeOK, IfBlank, Texts
<1>3. ASSUME files[a] = Absent, ~refused
      PROVE  names[Key(a)] = Blank
  <2>1. a \notin sessions /\ aliases[a] = None
    BY <1>3 DEF Known, KnownHaveFile
  <2>2. Key(a) = a
    BY <2>1, AddressesOK DEF Key, Reg!Get, TypeOK
  <2>3. QED
    BY <2>1, <2>2 DEF Known, NamedAreSessions
<1>4. ASSUME files[a] = Absent, ~refused
      PROVE  IfBlank(names[Key(a)], DefaultType) \in Types
  BY <1>3, <1>4 DEF IfBlank, Types
<1>5. QED
  BY <1>2, <1>4 DEF TypesFor

\* The files that the saves of the daemon are about.
LEMMA SavesFollow ==
  ASSUME TypeOK, Known
  PROVE  /\ \A a \in Addresses : files[a] # Torn => Follows([files EXCEPT ![a] = RequestedFile(a)])
         /\ \A a \in Addresses : files[a] # Torn => Follows([files EXCEPT ![a] = Store!Load(a)])
         /\ \A F : \A p \in Peripherals :
              Follows(F) /\ files[Ble[p]] # Torn => Follows([F EXCEPT ![Ble[p]] = FoundFile(p)])
<1>1. Follows(files) /\ Blank \in Texts
  BY NothingFollows DEF Texts
<1>2. ASSUME NEW a \in Addresses, files[a] # Torn
      PROVE  Follows([files EXCEPT ![a] = RequestedFile(a)])
  BY <1>1, <1>2, RequestedType, SaveFollows DEF RequestedFile
<1>3. ASSUME NEW a \in Addresses, files[a] # Torn
      PROVE  Follows([files EXCEPT ![a] = Store!Load(a)])
  <2>1. DefaultType \in TypesFor(a)
    BY TextsOK DEF Texts, TypesFor, Types
  <2>2. QED
    BY <1>1, <1>3, <2>1, LoadIsEnsured, SaveFollows
<1>4. ASSUME NEW F, NEW p \in Peripherals, Follows(F), files[Ble[p]] # Torn
      PROVE  Follows([F EXCEPT ![Ble[p]] = FoundFile(p)])
  <2>1. /\ Ble[p] \in Addresses /\ Advertised[p] \in Texts
        /\ IfBlank(Advertised[p], DefaultType) \in TypesFor(Ble[p])
    BY FoundType
  <2>2. QED
    BY <1>4, <2>1, SaveFollows DEF FoundFile
<1>5. QED
  BY <1>2, <1>3, <1>4

\* A step changes the files as Follows says, or an operator sets a field.
LEMMA FilesStep ==
  ASSUME TypeOK, Known, Next
  PROVE  \/ Follows(files') /\ Grows
         \/ \E s \in Settings : Sets(s[1], s[2], s[3])
<1>1. ASSUME NEW F, NEW a, NEW c, Follows(F), Follows([F EXCEPT ![a] = c]), CannotSave(F, a, c)
      PROVE  Follows(files')
  BY <1>1, InterruptedFollows DEF CannotSave
<1>2. ASSUME NEW found \in Rounds, Scan(found)
      PROVE  Follows(files') /\ Grows
  BY <1>2, RoundsFind, EnsuredFollow, UnchangedGrows DEF Scan, Serve
<1>3. ASSUME NEW found \in Rounds, NEW n \in DOMAIN found, ScanCut(found, n)
      PROVE  Follows(files') /\ Grows
  <2> DEFINE S == ToSet(SubSeq(found, 1, n - 1))
  <2>1. CutOff(S, found[n]) /\ Grows
    BY <1>3, UnchangedGrows DEF ScanCut, Serve
  <2>2. S \in SUBSET Peripherals /\ found[n] \in Peripherals
    BY RoundsFind
  <2>3. Follows(FilesEnsured(S))
    BY <2>1, <2>2, EnsuredFollow DEF CutOff
  <2>4. Store!Readable(Ble[found[n]]) =>
          Follows([FilesEnsured(S) EXCEPT ![Ble[found[n]]] = FoundFile(found[n])])
    <3>1. PICK q \in Peripherals : q = found[n]
      BY <2>2
    <3>2. PICK F : F = FilesEnsured(S)
      OBVIOUS
    <3>3. Follows(F)
      BY <2>3, <3>2
    <3>4. files[Ble[q]] # Torn => Follows([F EXCEPT ![Ble[q]] = FoundFile(q)])
      BY <3>3, SavesFollow
    <3>5. QED
      BY <3>1, <3>2, <3>4 DEF Store!Readable
  <2>5. QED
    BY <1>1, <2>1, <2>3, <2>4 DEF CutOff
<1>4. ASSUME NEW a \in Addresses, ConnectRequest(a)
      PROVE  Follows(files') /\ Grows
  <2>1. Store!Readable(a) => Follows([files EXCEPT ![a] = RequestedFile(a)])
    BY SavesFollow DEF Store!Readable
  <2>2. Follows(files) /\ Grows
    BY <1>4, NothingFollows, UnchangedGrows DEF ConnectRequest
  <2>3. QED
    BY <1>1, <1>4, <2>1, <2>2 DEF ConnectRequest, Store!Save
<1>5. ASSUME NEW s \in Settings, files[s[1]] # Torn, NotAcknowledged(s[1], s[2], s[3]),
             files' \in Store!Interrupted(files, s[1], Store!Changed(s[1], s[2], s[3]))
      PROVE  (Follows(files') /\ Grows) \/ Sets(s[1], s[2], s[3])
  <2>1. Follows(files) /\ Grows
    BY <1>5, NothingFollows, NotAcknowledgedGrows
  <2>2. CASE files' = [files EXCEPT ![s[1]] = Store!Changed(s[1], s[2], s[3])]
    BY <1>5, <2>2 DEF Sets
  <2>3. CASE files' \in { files, [files EXCEPT ![s[1]] = Torn] }
    BY <2>1, <2>3 DEF Follows, Contents
  <2>4. QED
    BY <1>5, <2>2, <2>3 DEF Store!Interrupted
<1>6. ASSUME NEW s \in Settings, ConfigSet(s[1], s[2], s[3])
      PROVE  (Follows(files') /\ Grows) \/ Sets(s[1], s[2], s[3])
  <2>1. files[s[1]] # Torn
    BY <1>6 DEF ConfigSet, Request, Store!Readable
  <2>2. CASE CannotSave(files, s[1], Store!Changed(s[1], s[2], s[3])) /\ NotAcknowledged(s[1], s[2], s[3])
    BY <1>5, <2>1, <2>2 DEF CannotSave
  <2>3. QED
    BY <1>6, <2>1, <2>2 DEF ConfigSet, Sets, Store!Save
<1>7. ASSUME NEW p \in Peripherals, NEW kind \in Kinds, HandleFrame(p, kind)
      PROVE  Follows(files') /\ Grows
  <2>1. Store!Readable(Mac[p]) => Follows([files EXCEPT ![Mac[p]] = Store!Load(Mac[p])])
    BY AddressesOK, SavesFollow DEF Store!Readable
  <2>2. Follows(files) /\ Grows
    BY <1>7, NothingFollows, UnchangedGrows DEF HandleFrame
  <2>3. QED
    BY <1>1, <1>7, <2>1, <2>2 DEF HandleFrame, Store!Save
<1>8. ASSUME Crash
      PROVE  \/ Follows(files') /\ Grows
             \/ \E s \in Settings : Sets(s[1], s[2], s[3])
  <2>1. CASE UNCHANGED <<files, asked>>
    BY <2>1, NothingFollows, UnchangedGrows
  <2>2. ASSUME NEW s \in Saves, Store!Readable(s[1]), files' \in Store!Interrupted(files, s[1], s[2]),
               UNCHANGED asked
        PROVE  Follows(files') /\ Grows
    <3>1. Follows([files EXCEPT ![s[1]] = s[2]])
      <4>1. CASE \E p \in Peripherals : s = << Ble[p], FoundFile(p) >>
        <5>1. PICK p \in Peripherals : s = << Ble[p], FoundFile(p) >>
          BY <4>1
        <5>2. s[1] = Ble[p] /\ s[2] = FoundFile(p) /\ files[Ble[p]] # Torn
          BY <2>2, <5>1 DEF Store!Readable
        <5>3. PICK F : F = files
          OBVIOUS
        <5>4. Follows([F EXCEPT ![Ble[p]] = FoundFile(p)])
          BY <5>2, <5>3, NothingFollows, SavesFollow
        <5>5. QED
          BY ONLY <5>2, <5>3, <5>4
      <4>2. CASE \E a \in Addresses : s = << a, RequestedFile(a) >>
        <5>1. PICK a \in Addresses : s = << a, RequestedFile(a) >>
          BY <4>2
        <5>2. s[1] = a /\ s[2] = RequestedFile(a) /\ files[a] # Torn
          BY <2>2, <5>1 DEF Store!Readable
        <5>3. Follows([files EXCEPT ![a] = RequestedFile(a)])
          BY <5>2, SavesFollow
        <5>4. QED
          BY ONLY <5>2, <5>3
      <4>3. CASE \E p \in Peripherals : s = << Mac[p], Store!Load(Mac[p]) >>
        BY <2>2, <4>3, AddressesOK, SavesFollow DEF Store!Readable
      <4>4. QED
        BY <4>1, <4>2, <4>3 DEF Saves
    <3>2. QED
      BY <2>2, <3>1, NothingFollows, InterruptedFollows, UnchangedGrows
  <2>3. ASSUME NEW s \in Settings, Request(s[1]), NotAcknowledged(s[1], s[2], s[3]),
               files' \in Store!Interrupted(files, s[1], Store!Changed(s[1], s[2], s[3]))
        PROVE  (Follows(files') /\ Grows) \/ Sets(s[1], s[2], s[3])
    BY <1>5, <2>3 DEF Request, Store!Readable
  <2>4. QED
    BY <1>8, <2>1, <2>2, <2>3 DEF Crash
<1>9. ASSUME ConfigApply \/ WriteNext \/ Stop \/ Start
      PROVE  Follows(files') /\ Grows
  <2>1. files' = files /\ asked' = asked
    BY <1>9 DEF ConfigApply, WriteNext, Stop, Start
  <2>2. QED
    BY <2>1, NothingFollows, UnchangedGrows
<1>10. QED
  BY <1>2, <1>3, <1>4, <1>6, <1>7, <1>8, <1>9 DEF Next

\* Only a frame puts an event into the queue, and only if its file could be read.
LEMMA QueueStep ==
  ASSUME Next
  PROVE  \/ queue' = queue
         \/ queue' = <<>>
         \/ queue # <<>> /\ queue' = Tail(queue)
         \/ \E p \in Peripherals, kind \in Kinds :
              files[Mac[p]] # Torn /\ queue' = Append(queue, Event(Mac[p], kind))
<1>1. ASSUME NEW found \in Rounds, Scan(found) \/ \E n \in DOMAIN found : ScanCut(found, n)
      PROVE  queue' = queue
  BY <1>1 DEF Scan, ScanCut, Serve
<1>2. ASSUME NEW a \in Addresses, ConnectRequest(a)
      PROVE  queue' = queue
  BY <1>2 DEF ConnectRequest
<1>3. ASSUME NEW s \in Settings, ConfigSet(s[1], s[2], s[3])
      PROVE  queue' = queue
  BY <1>3 DEF ConfigSet, volatile
<1>4. ASSUME NEW p \in Peripherals, NEW kind \in Kinds, HandleFrame(p, kind)
      PROVE  \/ queue' = queue
             \/ files[Mac[p]] # Torn /\ queue' = Append(queue, Event(Mac[p], kind))
  BY <1>4 DEF HandleFrame, Store!Readable
<1>5. ASSUME ConfigApply \/ Start
      PROVE  queue' = queue
  BY <1>5 DEF ConfigApply, Start
<1>6. ASSUME WriteNext
      PROVE  queue # <<>> /\ queue' = Tail(queue)
  BY <1>6 DEF WriteNext
<1>7. ASSUME Stop \/ Crash
      PROVE  queue' = <<>>
  BY <1>7 DEF Stop, Crash, Down
<1>8. QED
  BY <1>1, <1>2, <1>3, <1>4, <1>5, <1>6, <1>7 DEF Next

\* What is written is the first event of the queue, whole or in part.
LEMMA LogStep ==
  ASSUME Next
  PROVE  \/ log' = log
         \/ /\ queue # <<>>
            /\ \E part \in Parts(Head(queue)) \cup {Whole(Head(queue))} : log' = log \o part
<1>1. ASSUME NEW found \in Rounds, Scan(found) \/ \E n \in DOMAIN found : ScanCut(found, n)
      PROVE  log' = log
  BY <1>1 DEF Scan, ScanCut, Serve
<1>2. ASSUME NEW a \in Addresses, ConnectRequest(a)
      PROVE  log' = log
  BY <1>2 DEF ConnectRequest
<1>3. ASSUME NEW s \in Settings, ConfigSet(s[1], s[2], s[3])
      PROVE  log' = log
  BY <1>3 DEF ConfigSet
<1>4. ASSUME NEW p \in Peripherals, NEW kind \in Kinds, HandleFrame(p, kind)
      PROVE  log' = log
  BY <1>4 DEF HandleFrame
<1>5. ASSUME ConfigApply \/ Start \/ Stop
      PROVE  log' = log
  BY <1>5 DEF ConfigApply, Start, Stop
<1>6. ASSUME WriteNext
      PROVE  /\ queue # <<>>
             /\ \E part \in Parts(Head(queue)) \cup {Whole(Head(queue))} : log' = log \o part
  BY <1>6 DEF WriteNext
<1>7. ASSUME Crash
      PROVE  \/ log' = log
             \/ queue # <<>> /\ \E part \in Parts(Head(queue)) : log' = log \o part
  BY <1>7 DEF Crash
<1>8. QED
  BY <1>1, <1>2, <1>3, <1>4, <1>5, <1>6, <1>7 DEF Next

-----------------------------------------------------------------------------
(* Types *)

\* A setting that is stored, and those of the same file that stay.
LEMMA SetsTyped ==
  ASSUME TypeOK, NEW s \in Settings, Sets(s[1], s[2], s[3])
  PROVE  /\ s[1] \in Addresses /\ s[2] \in Fields
         /\ files'[s[1]] \in Configs /\ Blank \notin {files'[s[1]].type, files'[s[1]].location}
         /\ files'[s[1]][s[2]] = Store!Setting(s[2], s[3])
         /\ \A f \in Fields \ {s[2]} : files'[s[1]][f] = Store!Load(s[1])[f]
         /\ \A a \in Addresses \ {s[1]} : files'[a] = files[a] /\ asked'[a] = asked[a]
         /\ s[3] \in asked'[s[1]][s[2]]
         /\ \A f \in Fields \ {s[2]} : asked'[s[1]][f] = asked[s[1]][f]
         /\ files' \in [Addresses -> Contents]
         /\ asked' \in [Addresses -> [Fields -> Values]]
<1> DEFINE a == s[1]  f == s[2]  v == s[3]
<1>1. a \in Addresses /\ f \in Fields /\ v \in Texts
  BY SettingsOK DEF Texts
<1>2. Store!Setting(f, v) \in Texts /\ (f # "name" => Store!Setting(f, v) # Blank)
  BY <1>1, TextsOK DEF Store!Setting, Store!Defaults, Texts, Fields
<1>3. Store!Load(a) \in Configs /\ Blank \notin {Store!Load(a).type, Store!Load(a).location}
  BY <1>1, LoadTyped
<1> DEFINE c == Store!Changed(a, f, v)
<1>4. /\ c \in Configs /\ c[f] = Store!Setting(f, v)
      /\ \A g \in Fields \ {f} : c[g] = Store!Load(a)[g]
  BY <1>1, <1>2, <1>3 DEF Store!Changed, Configs, Fields
<1>5. Blank \notin {c.type, c.location}
  BY <1>2, <1>3, <1>4 DEF Fields
<1> HIDE DEF c
<1>6. /\ files' = [files EXCEPT ![a] = c]
      /\ files \in [Addresses -> Contents] /\ asked \in [Addresses -> [Fields -> Values]]
  BY DEF Sets, c, TypeOK, Contents
<1>7. files' \in [Addresses -> Contents] /\ files'[a] = c
      /\ \A b \in Addresses \ {a} : files'[b] = files[b]
  BY <1>1, <1>4, <1>6 DEF Contents
<1>8. /\ asked' \in [Addresses -> [Fields -> Values]]
      /\ v \in asked'[a][f]
      /\ \A g \in Fields \ {f} : asked'[a][g] = asked[a][g]
      /\ \A b \in Addresses \ {a} : asked'[b] = asked[b]
  <2>1. PICK V \in Values : v \in V /\ asked' = [asked EXCEPT ![a][f] = V]
    <3>1. {v} \in Values /\ asked[a][f] \cup {v} \in Values
      BY <1>1, <1>6 DEF Values
    <3>2. QED
      BY <3>1 DEF Sets, Acknowledged, NotAcknowledged
  <2>2. QED
    BY <1>1, <1>6, <2>1
<1>9. QED
  BY <1>1, <1>4, <1>5, <1>7, <1>8

Events == [path: Paths, due: Dues]
Entries == [path: Paths, due: Dues, item: {"header", "row", "torn", "empty"}]

\* An event and what is written of it.
LEMMA EventTyped ==
  ASSUME TypeOK, NEW a \in Addresses, NEW kind \in Kinds
  PROVE  Event(a, kind) \in Events
<1>1. /\ Store!Load(a).location \in Texts /\ Store!Load(a).type \in Texts
      /\ asked[a].location \in Values /\ asked[a].type \in Values
  BY LoadTyped DEF Configs, TypeOK, Fields
<1>2. QED
  BY <1>1 DEF Event, Events, Paths, Dues

LEMMA PartTyped ==
  ASSUME NEW e \in Events, NEW part \in Parts(e) \cup {Whole(e)}
  PROVE  /\ part \in Seq(Entries)
         /\ \A i \in DOMAIN part : part[i].path = e.path /\ part[i].due = e.due
<1>1. \A item \in {"header", "row", "torn", "empty"} :
        /\ Entry(e, item) \in Entries
        /\ Entry(e, item).path = e.path /\ Entry(e, item).due = e.due
  BY DEF Entry, Events, Entries
<1>2. \/ part = <<>>
      \/ \E x \in {"header", "row", "torn", "empty"} : part = << Entry(e, x) >>
      \/ \E x, y \in {"header", "row", "torn", "empty"} : part = << Entry(e, x), Entry(e, y) >>
  <2>1. CASE NeedsHeader(e.path)
    BY <2>1 DEF Parts, Whole
  <2>2. CASE ~NeedsHeader(e.path)
    BY <2>2 DEF Parts, Whole
  <2>3. QED
    BY <2>1, <2>2
<1>3. ASSUME NEW x \in Entries, NEW y \in Entries, x.path = e.path, y.path = e.path, x.due = e.due, y.due = e.due
      PROVE  /\ << x >> \in Seq(Entries) /\ << x, y >> \in Seq(Entries)
             /\ \A i \in DOMAIN << x >> : << x >>[i].path = e.path /\ << x >>[i].due = e.due
             /\ \A i \in DOMAIN << x, y >> : << x, y >>[i].path = e.path /\ << x, y >>[i].due = e.due
  BY <1>3
<1>4. CASE part = <<>>
  BY <1>4
<1>5. CASE \E x \in {"header", "row", "torn", "empty"} : part = << Entry(e, x) >>
  BY <1>1, <1>3, <1>5
<1>6. CASE \E x, y \in {"header", "row", "torn", "empty"} : part = << Entry(e, x), Entry(e, y) >>
  BY <1>1, <1>3, <1>6
<1>7. QED
  BY <1>2, <1>4, <1>5, <1>6

\* Sequences that grow and shrink.
LEMMA QueueTyped ==
  ASSUME TypeOK, Next
  PROVE  queue' \in Seq(Events)
<1>1. queue \in Seq(Events)
  BY DEF TypeOK, Events
<1>2. \A p \in Peripherals, kind \in Kinds : Event(Mac[p], kind) \in Events
  BY AddressesOK, EventTyped
<1>3. \A e \in Events : Append(queue, e) \in Seq(Events)
  BY <1>1
<1>4. queue # <<>> => Tail(queue) \in Seq(Events)
  BY <1>1
<1>5. CASE queue' = queue \/ queue' = <<>> \/ (queue # <<>> /\ queue' = Tail(queue))
  <2>1. <<>> \in Seq(Events)
    OBVIOUS
  <2>2. CASE queue' = queue
    BY <1>1, <2>2
  <2>3. CASE queue' = <<>>
    BY <2>1, <2>3, Zenon
  <2>4. CASE queue # <<>> /\ queue' = Tail(queue)
    BY <1>4, <2>4, Zenon
  <2>5. QED
    BY <1>5, <2>2, <2>3, <2>4
<1>6. ASSUME NEW p \in Peripherals, NEW kind \in Kinds, queue' = Append(queue, Event(Mac[p], kind))
      PROVE  queue' \in Seq(Events)
  <2>1. PICK e \in Events : e = Event(Mac[p], kind)
    BY <1>2
  <2>2. queue' = Append(queue, e)
    BY <1>6, <2>1
  <2>3. QED
    BY <1>3, <2>2
<1>7. QED
  BY <1>5, <1>6, QueueStep

LEMMA LogTyped ==
  ASSUME TypeOK, Next
  PROVE  log' \in Seq(Entries)
<1>1. queue \in Seq(Events) /\ log \in Seq(Entries)
  BY DEF TypeOK, Events, Entries
<1>2. queue # <<>> => Head(queue) \in Events
  BY <1>1
<1>3. CASE log' = log
  BY <1>1, <1>3
<1>4. CASE queue # <<>> /\ \E part \in Parts(Head(queue)) \cup {Whole(Head(queue))} : log' = log \o part
  BY <1>1, <1>2, <1>4, PartTyped
<1>5. QED
  BY <1>3, <1>4, LogStep

\* The sessions, their names, and who is missed.
LEMMA SessionsTyped ==
  ASSUME TypeOK, Next
  PROVE  /\ sessions' \subseteq Addresses /\ missed' \subseteq Peripherals
         /\ aliases' \in [Addresses -> Addresses \cup {None}]
         /\ names' \in [Addresses -> Texts]
         /\ worker' \in {"down", "running", "failed"}
<1> USE DEF TypeOK
<1>1. \A a \in Addresses : Key(a) \in Addresses
  BY DEF Key, Reg!Get
<1>2. ASSUME NEW found \in Rounds, NEW S \in SUBSET Peripherals, Serve(found, S)
      PROVE  /\ sessions' \subseteq Addresses /\ missed' \subseteq Peripherals
             /\ aliases' = aliases /\ worker' = worker
             /\ names' \in [Addresses -> Texts]
  <2>1. sessions' \subseteq Addresses /\ aliases' = aliases /\ worker' = worker
    BY <1>1, <1>2, AddressesOK DEF Serve, EnsureTargets, Reg!Add
  <2>2. missed' \subseteq Peripherals
    BY <1>2, RoundsFind DEF Serve
  <2>3. ASSUME NEW k \in Addresses
        PROVE  (IF \E p \in S : Key(Ble[p]) = k /\ Advertised[p] # Blank
                THEN Advertised[CHOOSE p \in S : Key(Ble[p]) = k] ELSE names[k]) \in Texts
    BY <2>3, TextsOK
  <2>4. names' \in [Addresses -> Texts]
    BY <1>2, <2>3 DEF Serve, NamesHeard
  <2>5. QED
    BY <2>1, <2>2, <2>4
<1>3. ASSUME NEW found \in Rounds, Scan(found)
      PROVE  \E S \in SUBSET Peripherals : Serve(found, S)
  BY <1>3, RoundsFind DEF Scan
<1>4. ASSUME NEW found \in Rounds, NEW n \in DOMAIN found, ScanCut(found, n)
      PROVE  \E S \in SUBSET Peripherals : Serve(found, S)
  BY <1>4, RoundsFind DEF ScanCut
<1>5. ASSUME NEW a \in Addresses, ConnectRequest(a)
      PROVE  /\ sessions' \subseteq Addresses
             /\ UNCHANGED <<aliases, names, worker, missed>>
  BY <1>1, <1>5 DEF ConnectRequest, EnsureTargets, Reg!Add
<1>6. ASSUME NEW s \in Settings, ConfigSet(s[1], s[2], s[3])
      PROVE  UNCHANGED <<sessions, aliases, names, worker, missed>>
  BY <1>6 DEF ConfigSet, volatile
<1>7. ASSUME NEW p \in Peripherals, NEW kind \in Kinds, HandleFrame(p, kind)
      PROVE  /\ aliases' \in [Addresses -> Addresses \cup {None}]
             /\ UNCHANGED <<sessions, names, worker, missed>>
  BY <1>7, AddressesOK DEF HandleFrame, Reg!RegisterAlias
<1>8. ASSUME ConfigApply
      PROVE  names' \in [Addresses -> Texts] /\ UNCHANGED <<sessions, aliases, worker, missed>>
  <2>1. ASSUME NEW named \in SUBSET Addresses, named # {}
        PROVE  Store!Load(LastListed(named)).name \in Texts
    BY <2>1, LastListedExists, LoadTyped DEF Configs
  <2>2. ASSUME NEW k \in Addresses
        PROVE  (LET named == { a \in Addresses : Reg!Get(a) = k /\ Store!Load(a).name # Blank }
                IN  IF named = {} THEN names[k] ELSE Store!Load(LastListed(named)).name) \in Texts
    BY <2>1
  <2>3. QED
    BY <1>8, <2>2 DEF ConfigApply
<1>9. ASSUME Stop \/ Crash
      PROVE  /\ sessions' = {} /\ missed' = {} /\ worker' = "down"
             /\ aliases' = [a \in Addresses |-> None] /\ names' = [a \in Addresses |-> Blank]
  BY <1>9 DEF Stop, Crash, Down
<1>10. ASSUME WriteNext \/ Start
       PROVE  /\ UNCHANGED <<sessions, aliases, names, missed>>
              /\ worker' \in {"down", "running", "failed"}
  BY <1>10 DEF WriteNext, Start
<1>11. Blank \in Texts
  BY DEF Texts
<1>12. QED
  BY <1>2, <1>3, <1>4, <1>5, <1>6, <1>7, <1>8, <1>9, <1>10, <1>11 DEF Next

-----------------------------------------------------------------------------
(* Who is known, and who has a file                                          *)

\* That a save raised is not forgotten.
LEMMA RaisesGrow ==
  ASSUME refused \in BOOLEAN, raised \in BOOLEAN, Next
  PROVE  /\ refused' \in BOOLEAN /\ (refused => refused')
         /\ raised' \in BOOLEAN /\ (raised => raised')
<1> DEFINE Grow == /\ refused' \in BOOLEAN /\ (refused => refused')
                   /\ raised' \in BOOLEAN /\ (raised => raised')
<1>1. ASSUME NEW F, NEW a, NEW c, CannotSave(F, a, c)
      PROVE  Grow
  BY <1>1 DEF CannotSave
<1>2. ASSUME UNCHANGED raises
      PROVE  Grow
  BY <1>2 DEF raises
<1> HIDE DEF Grow
<1>3. ASSUME NEW found \in Rounds, Scan(found) \/ \E n \in DOMAIN found : ScanCut(found, n)
      PROVE  Grow
  BY <1>1, <1>2, <1>3 DEF Scan, ScanCut, CutOff, NothingFails
<1>4. ASSUME NEW a \in Addresses, ConnectRequest(a)
      PROVE  Grow
  BY <1>1, <1>2, <1>4 DEF ConnectRequest, NothingFails
<1>5. ASSUME NEW s \in Settings, ConfigSet(s[1], s[2], s[3])
      PROVE  Grow
  BY <1>1, <1>2, <1>5 DEF ConfigSet, NothingFails
<1>6. ASSUME NEW p \in Peripherals, NEW kind \in Kinds, HandleFrame(p, kind)
      PROVE  Grow
  BY <1>1, <1>2, <1>6 DEF HandleFrame, NothingFails
<1>7. ASSUME ConfigApply \/ WriteNext \/ Stop \/ Crash \/ Start
      PROVE  Grow
  BY <1>2, <1>7 DEF ConfigApply, WriteNext, Stop, Crash, Start
<1>8. Grow
  BY <1>3, <1>4, <1>5, <1>6, <1>7 DEF Next
<1>9. QED
  BY <1>8 DEF Grow

\* A file that is there stays, and stays torn if it is torn.
LEMMA FilesStay ==
  ASSUME TypeOK, Known, Next, NEW a \in Addresses
  PROVE  /\ files[a] # Absent => files'[a] # Absent
         /\ files[a] = Torn => files'[a] = Torn
<1>1. CASE Follows(files')
  <2>1. ASSUME NEW t \in TypesFor(a), NEW n \in Texts
        PROVE  Store!Ensured(a, t, n) # Absent
    BY EnsuredTyped, TextsOK DEF TypesFor
  <2>2. QED
    BY <1>1, <2>1, TextsOK DEF Follows
<1>2. ASSUME NEW s \in Settings, Sets(s[1], s[2], s[3])
      PROVE  /\ files[a] # Absent => files'[a] # Absent
             /\ files[a] = Torn => files'[a] = Torn
  <2>1. CASE a = s[1]
    BY <1>2, <2>1, SetsTyped, TextsOK DEF Sets
  <2>2. CASE a # s[1]
    BY <1>2, <2>2, SetsTyped
  <2>3. QED
    BY <2>1, <2>2
<1>3. QED
  BY <1>1, <1>2, FilesStep

\* A save that raises has torn the file or says that it has not, and has made it or
\* says that it has not.
LEMMA FailedSave ==
  ASSUME NEW F \in [Addresses -> Contents], NEW a \in Addresses, NEW c \in Contents \ {Absent},
         CannotSave(F, a, c), refused \in BOOLEAN, raised \in BOOLEAN
  PROVE  /\ files'[a] = Torn \/ raised'
         /\ files'[a] # Absent \/ refused'
         /\ \A b \in Addresses : F[b] # Absent => files'[b] # Absent
BY TextsOK DEF CannotSave, Store!Interrupted

\* A peripheral that a round has dealt with has a file, and one that ended a round
\* has a torn one, or one that could not be opened.
LEMMA EnsuredThere ==
  ASSUME TypeOK
  PROVE  /\ \A p \in Peripherals : FoundFile(p) \in Configs
         /\ \A S \in SUBSET Peripherals : (\A p \in S : Store!Readable(Ble[p])) =>
              \A q \in S : FilesEnsured(S)[Ble[q]] \notin {Absent, Torn}
<1>1. ASSUME NEW p \in Peripherals
      PROVE  FoundFile(p) \in Configs
  BY FoundType, EnsuredTyped DEF FoundFile, TypesFor
<1>2. ASSUME NEW S \in SUBSET Peripherals, NEW q \in S
      PROVE  FilesEnsured(S)[Ble[q]] \notin {Absent, Torn}
  <2>1. PICK p \in S : FilesEnsured(S)[Ble[q]] = FoundFile(p)
    BY AddressesOK DEF FilesEnsured
  <2>2. QED
    BY <1>1, <2>1, TextsOK
<1>3. QED
  BY <1>1, <1>2

LEMMA CutOffLeaves ==
  ASSUME TypeOK, refused \in BOOLEAN, raised \in BOOLEAN,
         NEW S \in SUBSET Peripherals, NEW q \in Peripherals, CutOff(S, q)
  PROVE  /\ files'[Ble[q]] = Torn \/ raised'
         /\ files'[Ble[q]] # Absent \/ refused'
         /\ \A p \in S : files'[Ble[p]] # Absent
<1>1. Follows(FilesEnsured(S)) /\ \A p \in S : Store!Readable(Ble[p])
  BY EnsuredFollow DEF CutOff
<1>2. FilesEnsured(S) \in [Addresses -> Contents] /\ Ble \in [Peripherals -> Addresses]
  BY <1>1, AddressesOK DEF Follows
<1>3. /\ \A p \in S : FilesEnsured(S)[Ble[p]] # Absent
      /\ FoundFile(q) \in Contents \ {Absent}
  BY <1>1, EnsuredThere, TextsOK DEF Contents
<1>4. CASE ~Store!Readable(Ble[q]) /\ files' = FilesEnsured(S)
  <2>1. ~ \E p \in S : Ble[p] = Ble[q]
    BY <1>1, <1>4
  <2>2. FilesEnsured(S)[Ble[q]] = files[Ble[q]]
    BY <1>2, <2>1 DEF FilesEnsured
  <2>3. QED
    BY <1>3, <1>4, <2>2, TextsOK DEF Store!Readable
<1>5. CASE CannotSave(FilesEnsured(S), Ble[q], FoundFile(q))
  BY <1>2, <1>3, <1>5, FailedSave
<1>6. QED
  BY <1>4, <1>5 DEF CutOff

\* A session is made for a device that has, or gets, its file in the same step.
LEMMA NewSession ==
  ASSUME TypeOK, Known, Next, NEW a \in sessions' \ sessions
  PROVE  files'[a] # Absent \/ refused'
<1>1. ASSUME NEW A, EnsureTargets(A)
      PROVE  a \in A
  BY <1>1, KeyIs DEF EnsureTargets, Reg!Add
<1>2. ASSUME NEW found \in Rounds, Scan(found)
      PROVE  files'[a] # Absent
  <2>1. PICK p \in ToSet(found) : a = Ble[p]
    BY <1>1, <1>2 DEF Scan, Serve
  <2>2. ToSet(found) \in SUBSET Peripherals /\ \A q \in ToSet(found) : Store!Readable(Ble[q])
    BY <1>2, RoundsFind DEF Scan
  <2>3. FilesEnsured(ToSet(found))[Ble[p]] # Absent
    BY <2>2, EnsuredThere
  <2>4. QED
    BY <1>2, <2>1, <2>3 DEF Scan
<1>3. ASSUME NEW found \in Rounds, NEW n \in DOMAIN found, ScanCut(found, n)
      PROVE  files'[a] # Absent \/ refused'
  <2> DEFINE S == ToSet(SubSeq(found, 1, n - 1))
  <2>1. EnsureTargets({ Ble[p] : p \in S \cup {found[n]} }) /\ CutOff(S, found[n])
    BY <1>3 DEF ScanCut, Serve
  <2>2. PICK p \in S \cup {found[n]} : a = Ble[p]
    BY <1>1, <2>1
  <2>3. S \in SUBSET Peripherals /\ found[n] \in Peripherals
    BY RoundsFind
  <2> HIDE DEF S
  <2>4. files'[Ble[found[n]]] # Absent \/ refused'
    BY <2>1, <2>3, CutOffLeaves DEF Known
  <2>5. \A q \in S : files'[Ble[q]] # Absent
    BY <2>1, <2>3, CutOffLeaves DEF Known
  <2>6. QED
    BY <2>2, <2>4, <2>5, TextsOK
<1>4. ASSUME NEW b \in Addresses, ConnectRequest(b)
      PROVE  files'[a] # Absent \/ refused'
  <2>1. a = b
    BY <1>1, <1>4 DEF ConnectRequest
  <2>2. CASE ~Store!Readable(a) /\ UNCHANGED files
    BY <2>2, TextsOK DEF Store!Readable
  <2>3. RequestedFile(b) \in Contents \ {Absent}
    <3>1. IfBlank(names[Key(b)], DefaultType) \in Texts \ {Blank} /\ Blank \in Texts
      BY RequestedType DEF TypesFor, Texts
    <3>2. QED
      BY <3>1, EnsuredTyped, TextsOK DEF RequestedFile, Contents
  <2>4. CASE Store!Save(b, RequestedFile(b)) \/ CannotSave(files, b, RequestedFile(b))
    BY <2>1, <2>3, <2>4, FailedSave DEF Store!Save, TypeOK, Known, Contents
  <2>5. QED
    BY <1>4, <2>1, <2>2, <2>4 DEF ConnectRequest
<1>5. ASSUME NEW s \in Settings, ConfigSet(s[1], s[2], s[3])
      PROVE  FALSE
  BY <1>5 DEF ConfigSet, volatile
<1>6. ASSUME NEW p \in Peripherals, NEW kind \in Kinds, HandleFrame(p, kind)
      PROVE  FALSE
  BY <1>6 DEF HandleFrame, Reg!RegisterAlias
<1>7. ASSUME ConfigApply \/ WriteNext \/ Stop \/ Crash \/ Start
      PROVE  FALSE
  BY <1>7 DEF ConfigApply, WriteNext, Stop, Crash, Start, Down
<1>8. QED
  BY <1>2, <1>3, <1>4, <1>5, <1>6, <1>7 DEF Next

\* An alias is registered for a MAC that has, or gets, its file in the same step.
LEMMA NewAlias ==
  ASSUME TypeOK, Known, Next, NEW a \in Addresses, aliases'[a] # aliases[a], aliases'[a] # None
  PROVE  /\ \E q \in Peripherals : a = Mac[q] /\ aliases'[a] = Ble[q]
         /\ files'[a] # Absent \/ refused'
<1>1. ASSUME NEW found \in Rounds, Scan(found) \/ \E n \in DOMAIN found : ScanCut(found, n)
      PROVE  FALSE
  BY <1>1 DEF Scan, ScanCut, Serve
<1>2. ASSUME NEW b \in Addresses, ConnectRequest(b)
      PROVE  FALSE
  BY <1>2 DEF ConnectRequest
<1>3. ASSUME NEW s \in Settings, ConfigSet(s[1], s[2], s[3])
      PROVE  FALSE
  BY <1>3 DEF ConfigSet, volatile
<1>4. ASSUME NEW p \in Peripherals, NEW kind \in Kinds, HandleFrame(p, kind)
      PROVE  /\ \E q \in Peripherals : a = Mac[q] /\ aliases'[a] = Ble[q]
             /\ files'[a] # Absent \/ refused'
  <2>1. a = Mac[p] /\ aliases'[a] = Ble[p]
    BY <1>4 DEF HandleFrame, Reg!RegisterAlias, TypeOK
  <2>2. ASSUME ~Store!Readable(a), UNCHANGED files
        PROVE  files'[a] # Absent
    BY <2>2, TextsOK DEF Store!Readable
  <2>3. ASSUME Store!Save(a, Store!Load(a))
        PROVE  files'[a] # Absent
    <3>1. Store!Load(a) # Absent
      BY LoadTyped, TextsOK
    <3>2. QED
      BY <2>3, <3>1 DEF Store!Save, TypeOK
  <2>4. ASSUME CannotSave(files, a, Store!Load(a))
        PROVE  files'[a] # Absent \/ refused'
    <3>1. Store!Load(a) \in Contents \ {Absent}
      BY LoadTyped, TextsOK DEF Contents
    <3>2. QED
      BY <2>4, <3>1, FailedSave DEF TypeOK, Known, Contents
  <2>5. QED
    BY <1>4, <2>1, <2>2, <2>3, <2>4 DEF HandleFrame
<1>5. ASSUME ConfigApply \/ WriteNext \/ Start
      PROVE  FALSE
  BY <1>5 DEF ConfigApply, WriteNext, Start
<1>6. ASSUME Stop \/ Crash
      PROVE  FALSE
  BY <1>6 DEF Stop, Crash, Down
<1>7. QED
  BY <1>1, <1>2, <1>3, <1>4, <1>5, <1>6 DEF Next

\* A name is given to a session, and sessions go only with all names.
LEMMA NamesStep ==
  ASSUME TypeOK, Known, Next
  PROVE  NamedAreSessions'
<1>1. NamedAreSessions
  BY DEF Known
<1>2. ASSUME NEW found \in Rounds, NEW S \in SUBSET Peripherals, Serve(found, S)
      PROVE  NamedAreSessions'
  <2>1. sessions' = sessions \cup { Key(Ble[p]) : p \in S }
    BY <1>2 DEF Serve, EnsureTargets, Reg!Add
  <2>2. ASSUME NEW k \in Addresses, names'[k] # Blank
        PROVE  k \in sessions'
    <3>1. CASE \E p \in S : Key(Ble[p]) = k /\ Advertised[p] # Blank
      BY <2>1, <3>1
    <3>2. CASE ~ \E p \in S : Key(Ble[p]) = k /\ Advertised[p] # Blank
      <4>1. names'[k] = names[k]
        BY <1>2, <3>2 DEF Serve, NamesHeard
      <4>2. QED
        BY <1>1, <2>1, <2>2, <4>1 DEF NamedAreSessions
    <3>3. QED
      BY <3>1, <3>2
  <2>3. QED
    BY <2>2 DEF NamedAreSessions
<1>3. ASSUME NEW found \in Rounds, Scan(found)
      PROVE  NamedAreSessions'
  BY <1>2, <1>3, RoundsFind DEF Scan
<1>4. ASSUME NEW found \in Rounds, NEW n \in DOMAIN found, ScanCut(found, n)
      PROVE  NamedAreSessions'
  BY <1>2, <1>4, RoundsFind DEF ScanCut
<1>5. ASSUME NEW a \in Addresses, ConnectRequest(a)
      PROVE  NamedAreSessions'
  BY <1>1, <1>5 DEF ConnectRequest, EnsureTargets, Reg!Add, NamedAreSessions
<1>6. ASSUME NEW s \in Settings, ConfigSet(s[1], s[2], s[3])
      PROVE  NamedAreSessions'
  BY <1>1, <1>6 DEF ConfigSet, volatile, NamedAreSessions
<1>7. ASSUME NEW p \in Peripherals, NEW kind \in Kinds, HandleFrame(p, kind)
      PROVE  NamedAreSessions'
  BY <1>1, <1>7 DEF HandleFrame, Reg!RegisterAlias, NamedAreSessions
<1>8. ASSUME ConfigApply
      PROVE  NamedAreSessions'
  <2>1. ASSUME NEW k \in Addresses, names'[k] # Blank
        PROVE  k \in sessions
    <3> DEFINE named == { a \in Addresses : Reg!Get(a) = k /\ Store!Load(a).name # Blank }
    <3>1. names'[k] = IF named = {} THEN names[k] ELSE Store!Load(LastListed(named)).name
      BY <1>8 DEF ConfigApply
    <3>2. CASE named = {}
      BY <1>1, <2>1, <3>1, <3>2 DEF NamedAreSessions
    <3>3. ASSUME NEW a \in named
          PROVE  k \in sessions
      BY <3>3, AddressesOK DEF Reg!Get
    <3>4. QED
      BY <3>2, <3>3
  <2>2. QED
    BY <1>8, <2>1 DEF NamedAreSessions, ConfigApply
<1>9. ASSUME Stop \/ Crash
      PROVE  NamedAreSessions'
  BY <1>9 DEF Stop, Crash, Down, NamedAreSessions
<1>10. ASSUME WriteNext \/ Start
       PROVE  NamedAreSessions'
  BY <1>1, <1>10 DEF WriteNext, Start, NamedAreSessions
<1>11. QED
  BY <1>3, <1>4, <1>5, <1>6, <1>7, <1>8, <1>9, <1>10 DEF Next

LEMMA KnownStep ==
  ASSUME TypeOK, Known, Next
  PROVE  Known'
<1>1. refused' \in BOOLEAN /\ (refused => refused') /\ raised' \in BOOLEAN
  BY RaisesGrow DEF Known
<1>2. AliasesOwned'
  BY NewAlias DEF Known, AliasesOwned
<1>3. ASSUME NEW a \in Addresses, a \in sessions' \/ aliases'[a] # None
      PROVE  files'[a] # Absent \/ refused'
  <2>1. CASE a \in sessions' \ sessions
    BY <2>1, NewSession
  <2>2. CASE aliases'[a] # aliases[a] /\ aliases'[a] # None
    BY <2>2, NewAlias
  <2>3. CASE a \in sessions \/ (aliases'[a] = aliases[a] /\ aliases'[a] # None)
    <3>1. files[a] # Absent \/ refused
      BY <2>3 DEF Known, KnownHaveFile
    <3>2. QED
      BY <1>1, <3>1, FilesStay
  <2>4. QED
    BY <1>3, <2>1, <2>2, <2>3
<1>4. KnownHaveFile'
  BY <1>3 DEF KnownHaveFile
<1>5. QED
  BY <1>1, <1>2, <1>4, NamesStep DEF Known

\* A round misses nobody but behind a device whose file failed it.
LEMMA MissedStep ==
  ASSUME TypeOK, Known, MissedForAnother, Next
  PROVE  MissedForAnother'
<1>1. CASE missed' \subseteq missed
  <2>1. ASSUME NEW p \in missed'
        PROVE  raised' \/ \E q \in Peripherals \ {p} : files'[Ble[q]] = Torn
    <3>1. CASE raised
      BY <3>1, RaisesGrow DEF Known
    <3>2. CASE \E q \in Peripherals \ {p} : files[Ble[q]] = Torn
      BY <3>2, FilesStay, AddressesOK
    <3>3. QED
      BY <1>1, <2>1, <3>1, <3>2 DEF MissedForAnother
  <2>2. QED
    BY <2>1 DEF MissedForAnother
<1>2. ASSUME NEW found \in Rounds, Scan(found)
      PROVE  missed' = {}
  BY <1>2 DEF Scan, Serve, EnsureTargets, Reg!Add
<1>3. ASSUME NEW found \in Rounds, NEW n \in DOMAIN found, ScanCut(found, n)
      PROVE  MissedForAnother'
  <2> DEFINE S == ToSet(SubSeq(found, 1, n - 1))
  <2>1. S \in SUBSET Peripherals /\ found[n] \in Peripherals
    BY RoundsFind
  <2>2. Serve(found, S \cup {found[n]}) /\ CutOff(S, found[n])
    BY <1>3 DEF ScanCut
  <2> HIDE DEF S
  <2>3. files'[Ble[found[n]]] = Torn \/ raised'
    BY <2>1, <2>2, CutOffLeaves DEF Known
  <2>4. found[n] \notin missed'
    BY <2>2 DEF Serve, EnsureTargets, Reg!Add
  <2>5. QED
    BY <2>1, <2>3, <2>4 DEF MissedForAnother
<1>4. ASSUME NEW a \in Addresses, ConnectRequest(a)
      PROVE  missed' = missed
  BY <1>4 DEF ConnectRequest
<1>5. ASSUME NEW s \in Settings, ConfigSet(s[1], s[2], s[3])
      PROVE  missed' = missed
  BY <1>5 DEF ConfigSet
<1>6. ASSUME NEW p \in Peripherals, NEW kind \in Kinds, HandleFrame(p, kind)
      PROVE  missed' = missed
  BY <1>6 DEF HandleFrame
<1>7. ASSUME ConfigApply \/ WriteNext \/ Start
      PROVE  missed' = missed
  BY <1>7 DEF ConfigApply, WriteNext, Start
<1>8. ASSUME Stop \/ Crash
      PROVE  missed' = {}
  BY <1>8 DEF Stop, Crash, Down
<1>9. QED
  BY <1>1, <1>2, <1>3, <1>4, <1>5, <1>6, <1>7, <1>8 DEF Next

\* A new file gets a type that is one, and only a setting changes it.
LEMMA TypeStep ==
  ASSUME TypeOK, Known, TypeIsNoName, Next
  PROVE  TypeIsNoName'
<1>1. ASSUME NEW a \in Addresses, files'[a] \notin {Absent, Torn}, ~refused'
      PROVE  files'[a].type \in Types
  <2>1. ~refused
    BY <1>1, RaisesGrow DEF Known
  <2>2. files[a] \notin {Absent, Torn} => files[a].type \in Types
    BY <2>1 DEF TypeIsNoName, Types
  <2>3. files[a] # Torn
    BY <1>1, FilesStay
  <2>4. Store!Load(a).type \in Types
    BY <2>2, <2>3 DEF Store!Load, Store!Defaults, Types
  <2>5. CASE Follows(files')
    <3>1. CASE files'[a] = files[a]
      BY <1>1, <2>2, <3>1
    <3>2. ASSUME NEW t \in TypesFor(a), NEW n \in Texts, files'[a] = Store!Ensured(a, t, n)
          PROVE  files'[a].type \in Types
      <4>1. CASE files[a] # Absent
        BY <2>4, <3>2, <4>1, EnsuredTyped DEF TypesFor
      <4>2. CASE files[a] = Absent
        <5>1. t \in Types
          BY <2>1, <4>2 DEF TypesFor
        <5>2. PICK ty \in Texts, na \in Texts, lo \in Texts :
                Store!Load(a) = [type |-> ty, name |-> na, location |-> lo]
          BY LoadTyped DEF Configs
        <5>3. files'[a].type = t
          BY <3>2, <4>2, <5>2, EnsuredIs DEF TypesFor
        <5>4. QED
          BY <5>1, <5>3
      <4>3. QED
        BY <4>1, <4>2
    <3>3. QED
      BY <1>1, <2>5, <3>1, <3>2 DEF Follows
  <2>6. ASSUME NEW s \in Settings, Sets(s[1], s[2], s[3])
        PROVE  files'[a].type \in Types
    <3>1. CASE a # s[1]
      BY <1>1, <2>2, <2>6, <3>1, SetsTyped
    <3>2. CASE a = s[1] /\ s[2] = "type"
      <4>1. Store!Setting("type", s[3]) \in Types
        BY <3>2 DEF Store!Setting, Store!Defaults, Types
      <4>2. files'[s[1]][s[2]] = Store!Setting(s[2], s[3])
        BY <2>6, SetsTyped
      <4>3. QED
        BY <3>2, <4>1, <4>2
    <3>3. CASE a = s[1] /\ s[2] # "type"
      <4>1. "type" \in Fields \ {s[2]}
        BY <3>3 DEF Fields
      <4>2. files'[a]["type"] = Store!Load(a)["type"]
        BY <2>6, <3>3, <4>1, SetsTyped
      <4>3. QED
        BY <2>4, <4>2
    <3>4. QED
      BY <3>1, <3>2, <3>3
  <2>7. QED
    BY <2>5, <2>6, FilesStep
<1>2. QED
  BY <1>1 DEF TypeIsNoName, Types

-----------------------------------------------------------------------------
(* Headers                                                                   *)

\* What HeaderFirst says of the i-th item of a log.
HeadedAt(l, i) ==
  l[i].path.kind = "rawdata" =>
    /\ l[i].item = "header" =>
         \A j \in 1..(i - 1) : l[j].path # l[i].path \/ l[j].item = "empty"
    /\ l[i].item = "row" =>
         \E j \in 1..(i - 1) : l[j].path = l[i].path /\ l[j].item \in {"header", "torn"}

LEMMA HeaderFirstIs ==
  /\ HeaderFirst <=> \A i \in DOMAIN log : HeadedAt(log, i)
  /\ HeaderFirst' <=> \A i \in DOMAIN log' : HeadedAt(log', i)
<1>1. ASSUME NEW l, NEW i
      PROVE  LET before == { j \in 1..(i - 1) : l[j].path = l[i].path /\ l[j].item # "empty" }
             IN  (l[i].path.kind = "rawdata" =>
                    /\ l[i].item = "header" => before = {}
                    /\ l[i].item = "row" => \E j \in before : l[j].item \in {"header", "torn"})
                 <=> HeadedAt(l, i)
  BY DEF HeadedAt
<1>2. QED
  BY <1>1 DEF HeaderFirst

\* The items that were there are headed as before.
LEMMA StillHeaded ==
  ASSUME NEW l \in Seq(Entries), NEW m \in Seq(Entries), NEW n \in Nat, n = Len(l),
         \A j \in 1..n : m[j] = l[j], NEW i \in 1..n, HeadedAt(l, i)
  PROVE  HeadedAt(m, i)
<1>1. \A j \in 1..(i - 1) : j \in 1..n
  OBVIOUS
<1>2. m[i] = l[i] /\ \A j \in 1..(i - 1) : m[j] = l[j]
  BY <1>1
<1>3. QED
  BY <1>2 DEF HeadedAt

\* The items that may be written behind a log of n items.
LEMMA NewHeaded ==
  ASSUME NEW e \in Events, NEW m, NEW n \in Nat,
         m[n + 1].path = e.path,
         m[n + 1].item = "header" => \A j \in 1..n : m[j].path # e.path \/ m[j].item = "empty",
         m[n + 1].item = "row" /\ e.path.kind = "rawdata" =>
           \E j \in 1..n : m[j].path = e.path /\ m[j].item \in {"header", "torn"}
  PROVE  HeadedAt(m, n + 1)
<1>1. (n + 1) - 1 = n
  OBVIOUS
<1>2. QED
  BY <1>1 DEF HeadedAt

\* What is written of an event: a header comes first and only where it is needed, a row
\* only behind it or where it is not needed.
LEMMA PartForms ==
  ASSUME NEW e \in Events, NEW part \in Parts(e) \cup {Whole(e)}
  PROVE  \/ part = <<>>
         \/ \E x \in {"torn", "empty", "header", "row"} :
              /\ part = << Entry(e, x) >>
              /\ x = "header" => NeedsHeader(e.path)
              /\ x = "row" => ~NeedsHeader(e.path)
         \/ \E x \in {"row", "torn"} :
              /\ part = << Entry(e, "header"), Entry(e, x) >>
              /\ NeedsHeader(e.path)
<1>1. CASE NeedsHeader(e.path)
  BY <1>1 DEF Parts, Whole
<1>2. CASE ~NeedsHeader(e.path)
  BY <1>2 DEF Parts, Whole
<1>3. QED
  BY <1>1, <1>2

\* A file that needs no header has one, or the beginning of one.
LEMMA HeaderIsThere ==
  ASSUME log \in Seq(Entries), HeaderFirst, NEW e \in Events, e.path.kind = "rawdata", ~NeedsHeader(e.path)
  PROVE  \E j \in 1..Len(log) : log[j].path = e.path /\ log[j].item \in {"header", "torn"}
<1>1. PICK i \in 1..Len(log) : log[i].path = e.path /\ log[i].item # "empty"
  BY DEF NeedsHeader
<1>2. log[i].item \in {"header", "row", "torn", "empty"}
  <2>1. log[i] \in Entries
    BY <1>1
  <2>2. QED
    BY <2>1 DEF Entries
<1>3. CASE log[i].item = "row"
  <2>1. HeadedAt(log, i)
    BY <1>1, HeaderFirstIs
  <2>2. PICK j \in 1..(i - 1) : log[j].path = e.path /\ log[j].item \in {"header", "torn"}
    BY <1>1, <1>3, <2>1 DEF HeadedAt
  <2>3. j \in 1..Len(log)
    BY <1>1, <2>2
  <2>4. QED
    BY <2>2, <2>3
<1>4. QED
  BY <1>1, <1>2, <1>3

\* Whatever part of an event is written, headers stay at the beginning.
LEMMA HeaderStep ==
  ASSUME log \in Seq(Entries), HeaderFirst, NEW e \in Events,
         NEW part \in Parts(e) \cup {Whole(e)}, log' = log \o part
  PROVE  HeaderFirst'
<1>1. PICK n \in Nat : n = Len(log)
  OBVIOUS
<1>2. part \in Seq(Entries) /\ log' \in Seq(Entries)
  BY PartTyped
<1>3. /\ Len(log') = n + Len(part)
      /\ \A j \in 1..n : log'[j] = log[j]
      /\ \A j \in 1..Len(part) : log'[n + j] = part[j]
  BY <1>1, <1>2
<1>4. ASSUME NEW i \in 1..n
      PROVE  HeadedAt(log', i)
  <2>1. HeadedAt(log, i)
    BY <1>1, HeaderFirstIs
  <2>2. QED
    BY <1>1, <1>2, <1>3, <2>1, StillHeaded
<1>5. NeedsHeader(e.path) => \A j \in 1..n : log'[j].path # e.path \/ log'[j].item = "empty"
  BY <1>1, <1>3 DEF NeedsHeader
<1>6. e.path.kind = "rawdata" /\ ~NeedsHeader(e.path) =>
        \E j \in 1..n : log'[j].path = e.path /\ log'[j].item \in {"header", "torn"}
  BY <1>1, <1>3, HeaderIsThere
<1>7. \A x : Entry(e, x).path = e.path /\ Entry(e, x).item = x
  BY DEF Entry
<1>8. CASE part = <<>>
  <2>1. DOMAIN log' = 1..n
    BY <1>2, <1>3, <1>8
  <2>2. QED
    BY <1>4, <2>1, HeaderFirstIs
<1>9. ASSUME NEW x \in {"torn", "empty", "header", "row"}, part = << Entry(e, x) >>,
             x = "header" => NeedsHeader(e.path), x = "row" => ~NeedsHeader(e.path)
      PROVE  HeaderFirst'
  <2>1. DOMAIN log' = 1..(n + 1) /\ log'[n + 1] = Entry(e, x)
    BY <1>2, <1>3, <1>9
  <2>2. log'[n + 1].path = e.path /\ log'[n + 1].item = x
    BY <1>7, <2>1
  <2>3. HeadedAt(log', n + 1)
    BY <1>5, <1>6, <1>9, <2>2, NewHeaded
  <2>4. \A i \in 1..(n + 1) : i \in 1..n \/ i = n + 1
    OBVIOUS
  <2>5. QED
    BY <1>4, <2>1, <2>3, <2>4, HeaderFirstIs
<1>10. ASSUME NEW x \in {"row", "torn"}, part = << Entry(e, "header"), Entry(e, x) >>, NeedsHeader(e.path)
       PROVE  HeaderFirst'
  <2>1. DOMAIN log' = 1..(n + 2) /\ log'[n + 1] = Entry(e, "header") /\ log'[n + 2] = Entry(e, x)
    <3>1. Len(part) = 2 /\ part[1] = Entry(e, "header") /\ part[2] = Entry(e, x)
      BY <1>10
    <3>2. 1 \in 1..Len(part) /\ 2 \in 1..Len(part)
      BY <3>1
    <3>3. DOMAIN log' = 1..(n + 2)
      BY <1>2, <1>3, <3>1
    <3>4. QED
      BY <1>3, <3>1, <3>2, <3>3
  <2>2. /\ log'[n + 1].path = e.path /\ log'[n + 1].item = "header"
        /\ log'[n + 2].path = e.path /\ log'[n + 2].item = x
    BY <1>7, <2>1
  <2>3. HeadedAt(log', n + 1)
    BY <1>5, <1>10, <2>2, NewHeaded
  <2>4. HeadedAt(log', (n + 1) + 1)
    <3>1. (n + 1) + 1 = n + 2 /\ n + 1 \in 1..(n + 1) /\ n + 1 \in Nat
      OBVIOUS
    <3>2. \E j \in 1..(n + 1) : log'[j].path = e.path /\ log'[j].item \in {"header", "torn"}
      BY <2>2, <3>1
    <3>3. log'[(n + 1) + 1].path = e.path /\ log'[(n + 1) + 1].item = x
      BY <2>2, <3>1
    <3>4. QED
      BY <3>1, <3>2, <3>3, NewHeaded
  <2>5. \A i \in 1..(n + 2) : i \in 1..n \/ i = n + 1 \/ i = (n + 1) + 1
    OBVIOUS
  <2>6. QED
    BY <1>4, <2>1, <2>3, <2>4, <2>5, HeaderFirstIs
<1>11. QED
  BY <1>8, <1>9, <1>10, PartForms

-----------------------------------------------------------------------------
(* Invariants *)

\* What is on its way is due at the path it has.
Due(e) ==
  \A f \in {"location", "type"} : None \notin e.due[f] => e.path[f] \in Meant(f, e.due[f])

QueuedWhereAsked == \A i \in DOMAIN queue : Due(queue[i])

Inv ==
  /\ TypeOK /\ Known
  /\ SettingsSurvive /\ QueuedWhereAsked /\ LoggedWhereAsked
  /\ HeaderFirst /\ MissedForAnother /\ TypeIsNoName

LEMMA Initially ==
  ASSUME Init
  PROVE  Inv
<1>1. TypeOK
  <2>1. /\ files \in [Addresses -> Configs \cup {Absent, Torn}]
        /\ \A a \in Addresses : files[a] \notin Configs
    BY TextsOK DEF Init, Store!Init
  <2>2. Blank \in Texts
    BY DEF Texts
  <2>3. names \in [Addresses -> Texts]
    BY <2>2 DEF Init
  <2>4. asked \in [Addresses -> [Fields -> Values]]
    BY DEF Init, Values
  <2>5. aliases \in [Addresses -> Addresses \cup {None}] /\ sessions = {}
    BY DEF Init, Reg!Init
  <2>6. queue = <<>> /\ log = <<>> /\ worker = "down" /\ missed = {}
    BY DEF Init
  <2>7. QED
    BY <2>1, <2>3, <2>4, <2>5, <2>6 DEF TypeOK
<1>2. SettingsSurvive /\ QueuedWhereAsked /\ LoggedWhereAsked
  BY DEF Init, SettingsSurvive, QueuedWhereAsked, LoggedWhereAsked
<1>3. Known
  BY DEF Init, Reg!Init, Known, AliasesOwned, KnownHaveFile, NamedAreSessions
<1>4. HeaderFirst /\ MissedForAnother /\ TypeIsNoName
  BY DEF Init, Store!Init, HeaderFirst, MissedForAnother, TypeIsNoName
<1>5. QED
  BY <1>1, <1>2, <1>3, <1>4 DEF Inv

\* An event gets the path that was asked for.
LEMMA EventDue ==
  ASSUME TypeOK, SettingsSurvive, NEW a \in Addresses, files[a] # Torn, NEW kind \in Kinds
  PROVE  Due(Event(a, kind))
<1>1. ASSUME NEW f \in {"location", "type"}, None \notin asked[a][f]
      PROVE  Store!Load(a)[f] \in Meant(f, asked[a][f])
  BY <1>1, LoadTyped DEF SettingsSurvive, Store!Readable, Fields, TypeOK
<1>2. \A f \in {"location", "type"} :
        Event(a, kind).due[f] = asked[a][f] /\ Event(a, kind).path[f] = Store!Load(a)[f]
  BY DEF Event
<1>3. QED
  BY <1>1, <1>2 DEF Due

\* A field that is set survives like those that were set before.
LEMMA SetsSurvive ==
  ASSUME TypeOK, SettingsSurvive, NEW s \in Settings, Sets(s[1], s[2], s[3])
  PROVE  SettingsSurvive'
<1>1. ASSUME NEW a \in Addresses, NEW f \in Fields, None \notin asked'[a][f]
      PROVE  /\ files'[a] # Absent
             /\ \/ files'[a] = Torn
                \/ \E v \in asked'[a][f] : files'[a][f] = Store!Setting(f, v)
                \/ f = "name" /\ Blank \in asked'[a][f]
  <2>1. CASE a # s[1]
    BY <1>1, <2>1, SetsTyped DEF SettingsSurvive, Store!Readable, Meant
  <2>2. CASE a = s[1] /\ f = s[2]
    BY <2>2, SetsTyped, TextsOK
  <2>3. CASE a = s[1] /\ f # s[2]
    <3>1. files'[a] # Absent /\ files'[a][f] = Store!Load(a)[f] /\ asked'[a][f] = asked[a][f]
      BY <2>3, SetsTyped, TextsOK
    <3>2. files[a] \notin {Absent, Torn} /\ Store!Load(a) = files[a]
      BY <1>1, <2>3, <3>1, LoadTyped DEF SettingsSurvive, Sets
    <3>3. QED
      BY <1>1, <3>1, <3>2 DEF SettingsSurvive, Store!Readable, Meant
  <2>4. QED
    BY <2>1, <2>2, <2>3
<1>2. QED
  BY <1>1 DEF SettingsSurvive, Store!Readable, Meant, Store!Setting, Store!Defaults

LEMMA Inductive ==
  ASSUME Inv, [Next]_vars
  PROVE  Inv'
<1> SUFFICES ASSUME Next PROVE Inv'
  <2>1. CASE UNCHANGED vars
    <3>1. TypeOK' /\ SettingsSurvive' /\ QueuedWhereAsked' /\ LoggedWhereAsked'
      BY <2>1 DEF vars, volatile, raises, Inv, TypeOK, SettingsSurvive, QueuedWhereAsked, LoggedWhereAsked,
                  Due, Store!Readable, Meant, Store!Setting, Store!Defaults
    <3>2. Known'
      BY <2>1 DEF vars, volatile, raises, Inv, Known, AliasesOwned, KnownHaveFile, NamedAreSessions
    <3>3. HeaderFirst' /\ MissedForAnother' /\ TypeIsNoName'
      BY <2>1 DEF vars, volatile, raises, Inv, HeaderFirst, MissedForAnother, TypeIsNoName
    <3>4. QED
      BY <3>1, <3>2, <3>3 DEF Inv
  <2>2. QED
    BY <2>1
<1> USE DEF Inv
<1>1. /\ SettingsSurvive' /\ files' \in [Addresses -> Contents]
      /\ \A a \in Addresses : files'[a] \in Configs => Blank \notin {files'[a].type, files'[a].location}
      /\ asked' \in [Addresses -> [Fields -> Values]]
  <2>1. CASE Follows(files') /\ Grows
    BY <2>1, FollowedBySettings DEF TypeOK, Grows
  <2>2. ASSUME NEW s \in Settings, Sets(s[1], s[2], s[3])
        PROVE  /\ files' \in [Addresses -> Contents]
               /\ asked' \in [Addresses -> [Fields -> Values]]
               /\ \A a \in Addresses : files'[a] \in Configs => Blank \notin {files'[a].type, files'[a].location}
    BY <2>2, SetsTyped DEF TypeOK
  <2>3. QED
    BY <2>1, <2>2, FilesStep, SetsSurvive
<1>2. TypeOK'
  BY <1>1, QueueTyped, LogTyped, SessionsTyped DEF TypeOK, Events, Entries, Contents
<1>3. QueuedWhereAsked'
  <2>1. queue \in Seq(Events)
    BY DEF TypeOK, Events
  <2>2. CASE queue' = queue \/ queue' = <<>>
    BY <2>2 DEF QueuedWhereAsked, Due, Meant, Store!Setting, Store!Defaults
  <2>3. CASE queue # <<>> /\ queue' = Tail(queue)
    <3>1. \A i \in DOMAIN queue' : queue'[i] = queue[i + 1] /\ i + 1 \in DOMAIN queue
      BY <2>1, <2>3
    <3>2. QED
      BY <3>1 DEF QueuedWhereAsked, Due, Meant, Store!Setting, Store!Defaults
  <2>4. ASSUME NEW p \in Peripherals, NEW kind \in Kinds, files[Mac[p]] # Torn,
               queue' = Append(queue, Event(Mac[p], kind))
        PROVE  QueuedWhereAsked'
    <3>1. Due(Event(Mac[p], kind))
      BY <2>4, AddressesOK, EventDue
    <3>2. PICK e : e = Event(Mac[p], kind)
      OBVIOUS
    <3>3. queue' = Append(queue, e) /\ Due(e)
      BY <2>4, <3>1, <3>2
    <3>4. \A i \in DOMAIN queue' : (i \in DOMAIN queue /\ queue'[i] = queue[i]) \/ queue'[i] = e
      BY <2>1, <3>3
    <3>5. QED
      BY <3>3, <3>4 DEF QueuedWhereAsked, Due, Meant, Store!Setting, Store!Defaults
  <2>5. QED
    BY <2>2, <2>3, <2>4, QueueStep
<1>4. LoggedWhereAsked'
  <2>1. queue \in Seq(Events) /\ log \in Seq(Entries)
    BY DEF TypeOK, Events, Entries
  <2>2. CASE log' = log
    BY <2>2 DEF LoggedWhereAsked, Meant, Store!Setting, Store!Defaults
  <2>3. ASSUME queue # <<>>, NEW part \in Parts(Head(queue)) \cup {Whole(Head(queue))}, log' = log \o part
        PROVE  LoggedWhereAsked'
    <3>1. PICK e \in Events : e = Head(queue) /\ Due(e)
      BY <2>1, <2>3 DEF QueuedWhereAsked
    <3>2. part \in Seq(Entries) /\ \A i \in DOMAIN part : part[i].path = e.path /\ part[i].due = e.due
      BY <2>3, <3>1, PartTyped
    <3>3. \A i \in DOMAIN log' : \/ i \in DOMAIN log /\ log'[i] = log[i]
                                 \/ log'[i].path = e.path /\ log'[i].due = e.due
      BY <2>1, <2>3, <3>2
    <3>4. QED
      BY <3>1, <3>3 DEF LoggedWhereAsked, Due, Meant, Store!Setting, Store!Defaults
  <2>4. QED
    BY <2>2, <2>3, LogStep
<1>5. HeaderFirst'
  <2>1. queue \in Seq(Events) /\ log \in Seq(Entries)
    BY DEF TypeOK, Events, Entries
  <2>2. CASE log' = log
    BY <2>2, HeaderFirstIs
  <2>3. ASSUME queue # <<>>, NEW part \in Parts(Head(queue)) \cup {Whole(Head(queue))}, log' = log \o part
        PROVE  HeaderFirst'
    <3>1. Head(queue) \in Events
      BY <2>1, <2>3
    <3>2. QED
      BY <2>1, <2>3, <3>1, HeaderStep
  <2>4. QED
    BY <2>2, <2>3, LogStep
<1>6. Known' /\ MissedForAnother' /\ TypeIsNoName'
  BY KnownStep, MissedStep, TypeStep
<1>7. QED
  BY <1>1, <1>2, <1>3, <1>4, <1>5, <1>6

-----------------------------------------------------------------------------
(* Theorems *)

\* The invariant holds of the daemon, the files and the logger together.
LEMMA Invariant == Spec => []Inv
BY Initially, Inductive, PTL DEF Spec

\* Every variable of HubData keeps its type; no file has an empty type or location.
THEOREM TypeCorrect == Spec => []TypeOK
<1>1. Inv => TypeOK
  BY DEF Inv
<1>2. QED
  BY <1>1, Invariant, PTL

\* Whatever nodes, settings and files there are, a device file that can be read has for
\* each field the value that config.set acknowledged last or one that was asked for since
\* and not acknowledged, or a name of the device where the name was emptied.
THEOREM SettingsAlwaysSurvive == Spec => []SettingsSurvive
<1>1. Inv => SettingsSurvive
  BY DEF Inv
<1>2. QED
  BY <1>1, Invariant, PTL

\* Data is written where the setting says that was acknowledged last before its frame
\* was handled, or one asked for since and not acknowledged, however late it is written.
THEOREM AlwaysLoggedWhereAsked == Spec => []LoggedWhereAsked
<1>1. Inv => LoggedWhereAsked
  BY DEF Inv
<1>2. QED
  BY <1>1, Invariant, PTL

\* _write() puts a header at the beginning of a raw data file and nowhere else, whatever
\* failed before, unless it was the header itself that was cut off.
THEOREM HeaderIsAlwaysFirst == Spec => []HeaderFirst
<1>1. Inv => HeaderFirst
  BY DEF Inv
<1>2. QED
  BY <1>1, Invariant, PTL

\* A scan round misses a device only because the file of another is torn or a save
\* raised that did not tear its file.
THEOREM MissedOnlyForAnother == Spec => []MissedForAnother
<1>1. Inv => MissedForAnother
  BY DEF Inv
<1>2. QED
  BY <1>1, Invariant, PTL

\* As long as every new file could be opened, the names of config.apply never become
\* types, whichever request makes a file.
THEOREM TypeIsNeverAName == Spec => []TypeIsNoName
<1>1. Inv => TypeIsNoName
  BY DEF Inv
<1>2. QED
  BY <1>1, Invariant, PTL

\* A torn file is replaced by nobody, and nothing of its node is logged.
THEOREM TornIsAlwaysKept == Spec => TornIsKept
<1>1. ASSUME Inv, [Next]_vars, NEW a \in Addresses, files[a] = Torn
      PROVE  files'[a] = Torn /\ (Len(queue') > Len(queue) => Last(queue').path.mac # a)
  <2>1. CASE UNCHANGED vars
    BY <1>1, <2>1 DEF vars, volatile, raises, Inv, TypeOK
  <2>2. CASE Next
    <3>1. files'[a] = Torn
      <4>1. CASE Follows(files')
        BY <1>1, <4>1 DEF Follows
      <4>2. ASSUME NEW s \in Settings, Sets(s[1], s[2], s[3])
            PROVE  files'[a] = Torn
        BY <1>1, <4>2, SetsTyped DEF Sets, Inv
      <4>3. QED
        BY <1>1, <2>2, <4>1, <4>2, FilesStep DEF Inv
    <3>2. queue \in Seq(Events)
      BY <1>1 DEF Inv, TypeOK, Events
    <3>3. ASSUME NEW p \in Peripherals, NEW kind \in Kinds, files[Mac[p]] # Torn,
                 queue' = Append(queue, Event(Mac[p], kind))
          PROVE  Last(queue').path.mac # a
      <4>1. Event(Mac[p], kind) \in Events /\ Event(Mac[p], kind).path.mac = Mac[p]
        BY <1>1, AddressesOK, EventTyped DEF Inv, Event
      <4>2. Last(queue') = Event(Mac[p], kind)
        BY <3>2, <3>3, <4>1 DEF Last
      <4>3. QED
        BY <1>1, <3>3, <4>1, <4>2
    <3>4. QED
      BY <2>2, <3>1, <3>2, <3>3, QueueStep
  <2>3. QED
    BY <1>1, <2>1, <2>2
<1>2. ASSUME Inv, [Next]_vars
      PROVE  [\A a \in Addresses : files[a] = Torn =>
                /\ files'[a] = Torn
                /\ Len(queue') > Len(queue) => Last(queue').path.mac # a]_vars
  BY <1>1, <1>2
<1>3. QED
  BY <1>2, Invariant, PTL DEF Spec, TornIsKept
=============================================================================
