------------------------------ MODULE HubData -------------------------------
(***************************************************************************)
(* The data of the hub on disk, across crashes, restarts and a full disk:  *)
(* what operators configure, what the daemon makes of it when it hears a   *)
(* node (slimhub/daemon.py with slimhub/config.py), and where the raw data *)
(* logger writes (slimhub/logging/raw_logger.py).                          *)
(*                                                                         *)
(* Registry and DeviceConfigStore are composed here.  A device has a file  *)
(* for its BLE address, made when it is found, and one for the MAC in its  *)
(* frames, made when a frame is handled; only the latter says where its    *)
(* data goes.  Every request, frame and scan round works on the files in   *)
(* one step of the event loop.  The days in the names of data files are    *)
(* left out: all is written on one day.                                    *)
(***************************************************************************)
EXTENDS Integers, FiniteSets, SequencesExt

CONSTANTS
  Peripherals, Addresses, None,
  Ble, Mac,      \* the two addresses of each peripheral
  Advertised,    \* the name in its advertisement, or Blank
  Listing,       \* all addresses in the order in which files are listed
  Settings,      \* what operators set: <<address, field, value>>
  Blank, DefaultType, DefaultLocation, Absent, Torn,   \* DeviceConfigStore
  MaxInputs,     \* bound: config.set requests and frames handled
  MaxFailures    \* bound: writes that fail, answers that are lost, daemons that are killed

Fields == {"type", "name", "location"}

\* The texts that occur, the contents of a readable file, and the data events.
Texts ==
  { Blank, DefaultType, DefaultLocation } \cup { Advertised[p] : p \in Peripherals }
    \cup { s[3] : s \in Settings }
Configs == [type: Texts, name: Texts, location: Texts]
Kinds == { "rawdata", "debugstr" }
Paths == [location: Texts, type: Texts, mac: Addresses, kind: Kinds]
Values == SUBSET (Texts \cup {None})
Dues == [location: Values, type: Values]

ASSUME PeripheralsOK == IsFiniteSet(Peripherals)
ASSUME AddressesOK ==
  /\ Ble \in [Peripherals -> Addresses] /\ Mac \in [Peripherals -> Addresses]
  /\ \A p, q \in Peripherals :
       Ble[p] = Ble[q] \/ Mac[p] = Mac[q] \/ Ble[p] = Mac[q] => p = q
  /\ ToSet(Listing) = Addresses /\ Listing \in Seq(Addresses)
  /\ None \notin Addresses
ASSUME TextsOK ==
  /\ Advertised \in [Peripherals -> Texts]
  /\ Blank \notin {DefaultType, DefaultLocation} /\ None \notin Texts
  /\ Absent # Torn /\ Absent \notin Configs /\ Torn \notin Configs
ASSUME SettingsOK == \A s \in Settings : s[1] \in Addresses /\ s[2] \in Fields
ASSUME BoundsOK == MaxInputs \in Nat /\ MaxFailures \in Nat

VARIABLES
  files,         \* DeviceConfigStore
  sessions,      \* Registry
  aliases,       \* Registry
  names,         \* session.name of the session of a key
  queue,         \* events on their way to the logger's worker
  worker,        \* "down" without a daemon, else "running" or "failed"
  log,           \* all that was written to data files: <<path, item>>, oldest first
  asked,         \* history: for each field the value acknowledged last, None if none
                 \* was, and those of later requests that nobody acknowledged
  missed,        \* history: peripherals the last scan found and made no session for
  refused,       \* history: a new file could not be opened
  raised,        \* history: a save raised that did not tear its file
  inputs, failures   \* history, for the bounds

Reg == INSTANCE Registry
Store == INSTANCE DeviceConfigStore

volatile == <<sessions, aliases, names, queue, worker>>
bounded == <<inputs, failures>>
raises == <<refused, raised>>
vars == <<files, volatile, log, asked, missed, raises, bounded>>

Init ==
  /\ Store!Init /\ Reg!Init
  /\ names = [a \in Addresses |-> Blank]
  /\ queue = <<>> /\ worker = "down" /\ log = <<>>
  /\ asked = [a \in Addresses |-> [f \in Fields |-> {None}]]
  /\ missed = {} /\ refused = FALSE /\ raised = FALSE
  /\ inputs = 0 /\ failures = 0

Running == worker # "down"
IfBlank(text, other) == IF text = Blank THEN other ELSE text

\* Among addresses, the one whose file list_all() comes to last.
Position(a) == CHOOSE i \in DOMAIN Listing : Listing[i] = a
LastListed(A) == CHOOSE a \in A : \A b \in A : Position(b) <= Position(a)

\* A save of config as the file of a raises when the files have become F.
CannotSave(F, a, config) ==
  /\ failures < MaxFailures /\ failures' = failures + 1
  /\ files' \in Store!Interrupted(F, a, config)
  /\ refused' = (refused \/ files'[a] = Absent)
  /\ raised' = (raised \/ files'[a] # Torn)

NothingFails == UNCHANGED <<failures, raises>>

-----------------------------------------------------------------------------
(* Devices that are found or named                                           *)

\* ensure_target(): the session that is found for an address or is made for it.
Key(a) == IF Reg!Get(a) = None THEN a ELSE Reg!Get(a)
EnsureTargets(A) == Reg!Add({ Key(a) : a \in A })

\* update_target(): a session has the name its device has advertised last.
NamesHeard(S) ==
  names' = [k \in Addresses |->
    IF \E p \in S : Key(Ble[p]) = k /\ Advertised[p] # Blank
    THEN Advertised[CHOOSE p \in S : Key(Ble[p]) = k] ELSE names[k]]

\* What ensure() saves for a device that is found, and for an address that is to be
\* connected, where a new file gets the name of the session as its type.
FoundFile(p) == Store!Ensured(Ble[p], IfBlank(Advertised[p], DefaultType), Advertised[p])
RequestedFile(a) == Store!Ensured(a, IfBlank(names[Key(a)], DefaultType), Blank)

\* The files after ensure() for the peripherals in S.
FilesEnsured(S) ==
  [a \in Addresses |->
    IF \E p \in S : Ble[p] = a THEN FoundFile(CHOOSE p \in S : Ble[p] = a) ELSE files[a]]

\* What a scan round that found the peripherals of a sequence does for those in S,
\* whose files can be read.
Serve(found, S) ==
  /\ Running
  /\ EnsureTargets({ Ble[p] : p \in S }) /\ NamesHeard(S)
  /\ missed' = { p \in ToSet(found) : Key(Ble[p]) \notin sessions' }
  /\ UNCHANGED <<aliases, queue, worker, log, asked, inputs>>

\* _start_or_update_session() for each device found, in their order.
Scan(found) ==
  /\ \A p \in ToSet(found) : Store!Readable(Ble[p])
  /\ Serve(found, ToSet(found))
  /\ files' = FilesEnsured(ToSet(found))
  /\ NothingFails

\* The file of p is torn or cannot be saved, after those of the peripherals in S were
\* saved; that ends the round.
CutOff(S, p) ==
  /\ \A q \in S : Store!Readable(Ble[q])
  /\ \/ ~Store!Readable(Ble[p]) /\ files' = FilesEnsured(S) /\ NothingFails
     \/ Store!Readable(Ble[p]) /\ CannotSave(FilesEnsured(S), Ble[p], FoundFile(p))

\* Mutant: the file is looked after before the session.
ScanCutFileFirst(found, n) ==
  LET S == ToSet(SubSeq(found, 1, n - 1))
  IN  Serve(found, S) /\ CutOff(S, found[n])

\* The round ends at the n-th device, which has its session by then.
ScanCut(found, n) ==
  LET S == ToSet(SubSeq(found, 1, n - 1))
  IN  Serve(found, S \cup {found[n]}) /\ CutOff(S, found[n])

\* connect_address(): the session is made in any case.
ConnectRequest(a) ==
  /\ Running
  /\ EnsureTargets({a})
  /\ \/ ~Store!Readable(a) /\ UNCHANGED files /\ NothingFails
     \/ Store!Readable(a) /\ Store!Save(a, RequestedFile(a)) /\ NothingFails
     \/ Store!Readable(a) /\ CannotSave(files, a, RequestedFile(a))
  /\ UNCHANGED <<aliases, names, queue, worker, log, asked, missed, inputs>>

-----------------------------------------------------------------------------
(* Settings                                                                  *)

\* What operators know of a field: its value, or that it may have become v.
Acknowledged(a, field, v) == asked' = [asked EXCEPT ![a][field] = {v}]
NotAcknowledged(a, field, v) == asked' = [asked EXCEPT ![a][field] = @ \cup {v}]

\* A config.set request of a file that can be read.
Request(a) == Running /\ inputs < MaxInputs /\ inputs' = inputs + 1 /\ Store!Readable(a)

\* config.set: it is answered after the save, with an error if the save raised, and
\* in vain if the client has gone.
ConfigSet(a, field, v) ==
  /\ Request(a)
  /\ \/ /\ Store!Save(a, Store!Changed(a, field, v))
        /\ Acknowledged(a, field, v) /\ NothingFails
     \/ /\ Store!Save(a, Store!Changed(a, field, v))
        /\ NotAcknowledged(a, field, v)
        /\ failures < MaxFailures /\ failures' = failures + 1 /\ UNCHANGED raises
     \/ /\ CannotSave(files, a, Store!Changed(a, field, v))
        /\ NotAcknowledged(a, field, v)
  /\ UNCHANGED <<volatile, log, missed>>

\* config.apply: sessions get the names that are configured, unless a file is torn.
ConfigApply ==
  /\ Running
  /\ \A a \in Addresses : Store!Readable(a)
  /\ names' = [k \in Addresses |->
       LET named == { a \in Addresses : Reg!Get(a) = k /\ Store!Load(a).name # Blank }
       IN  IF named = {} THEN names[k] ELSE Store!Load(LastListed(named)).name]
  /\ UNCHANGED <<files, sessions, aliases, queue, worker, log, asked, missed, raises, bounded>>

-----------------------------------------------------------------------------
(* Frames and their data                                                     *)

\* An event is for the place the file of its MAC says; what operators know of that
\* place by then is recorded with it.
Event(mac, kind) ==
  [path |-> [location |-> Store!Load(mac).location, type |-> Store!Load(mac).type,
             mac |-> mac, kind |-> kind],
   due |-> [location |-> asked[mac].location, type |-> asked[mac].type]]

\* handle_frame(): alias, load, save, log, of which a file may prevent the last two.
HandleFrame(p, kind) ==
  /\ Running /\ Ble[p] \in sessions
  /\ inputs < MaxInputs /\ inputs' = inputs + 1
  /\ Reg!RegisterAlias(Mac[p], Ble[p])
  /\ \/ ~Store!Readable(Mac[p]) /\ UNCHANGED <<files, queue>> /\ NothingFails
     \/ /\ Store!Readable(Mac[p])
        /\ \/ /\ Store!Save(Mac[p], Store!Load(Mac[p])) /\ NothingFails
              /\ queue' = Append(queue, Event(Mac[p], kind))
           \/ CannotSave(files, Mac[p], Store!Load(Mac[p])) /\ UNCHANGED queue
  /\ UNCHANGED <<names, worker, log, asked, missed>>

Entry(e, item) == [path |-> e.path, due |-> e.due, item |-> item]

\* Mutant: a file that exists has its header.
NeedsHeaderIfNew(path) ==
  path.kind = "rawdata" /\ \A i \in DOMAIN log : log[i].path # path

\* The file is absent or of size 0.
NeedsHeader(path) ==
  path.kind = "rawdata" /\ \A i \in DOMAIN log : log[i].path = path => log[i].item = "empty"

\* Mutant: the place of an event is looked up when it is written.
WholeLate(e) ==
  LET now == [e EXCEPT !.path.location = Store!Load(e.path.mac).location]
  IN  IF NeedsHeader(now.path) THEN << Entry(now, "header"), Entry(now, "row") >>
      ELSE << Entry(now, "row") >>

\* What is written of an event, and what a part of it may come to.
Whole(e) ==
  IF NeedsHeader(e.path) THEN << Entry(e, "header"), Entry(e, "row") >> ELSE << Entry(e, "row") >>
Parts(e) ==
  { <<>>, << Entry(e, "torn") >> } \cup
  IF NeedsHeader(e.path)
  THEN { << Entry(e, "empty") >>, << Entry(e, "header") >>, << Entry(e, "header"), Entry(e, "torn") >> }
  ELSE {}

WriteNext ==
  /\ worker = "running" /\ queue # <<>>
  /\ queue' = Tail(queue)
  /\ \/ log' = log \o Whole(Head(queue)) /\ UNCHANGED <<worker, failures>>
     \/ /\ failures < MaxFailures /\ failures' = failures + 1
        /\ \E part \in Parts(Head(queue)) : log' = log \o part
        /\ worker' = "failed"
  /\ UNCHANGED <<files, sessions, aliases, names, asked, missed, raises, inputs>>

-----------------------------------------------------------------------------
(* Daemons that end and start                                                *)

Down ==
  /\ sessions' = {} /\ aliases' = [a \in Addresses |-> None]
  /\ names' = [a \in Addresses |-> Blank]
  /\ queue' = <<>> /\ worker' = "down" /\ missed' = {}

\* raw_logger.stop() waits for the worker, which has written everything or failed.
Stop ==
  /\ Running /\ (queue = <<>> \/ worker = "failed")
  /\ Down
  /\ UNCHANGED <<files, log, asked, raises, bounded>>

\* The saves of scans, of connect requests and of frames that may be under way; a scan
\* that is killed later on is one that was done before.
Saves ==
  { << Ble[p], FoundFile(p) >> : p \in Peripherals }
    \cup { << a, RequestedFile(a) >> : a \in Addresses }
    \cup { << Mac[p], Store!Load(Mac[p]) >> : p \in { q \in Peripherals : Ble[q] \in sessions } }

\* The process of the daemon is killed, maybe while it saves or writes, or before it
\* has answered.
Crash ==
  /\ Running /\ failures < MaxFailures /\ failures' = failures + 1
  /\ Down
  /\ \/ UNCHANGED <<files, log, asked, inputs>>
     \/ /\ \E s \in Saves : Store!Readable(s[1]) /\ files' \in Store!Interrupted(files, s[1], s[2])
        /\ UNCHANGED <<log, asked, inputs>>
     \/ /\ \E s \in Settings :
             /\ Request(s[1]) /\ NotAcknowledged(s[1], s[2], s[3])
             /\ files' \in Store!Interrupted(files, s[1], Store!Changed(s[1], s[2], s[3]))
        /\ UNCHANGED log
     \/ /\ worker = "running" /\ queue # <<>>
        /\ \E part \in Parts(Head(queue)) : log' = log \o part
        /\ UNCHANGED <<files, asked, inputs>>
  /\ UNCHANGED raises

Start ==
  /\ ~Running /\ worker' = "running"
  /\ UNCHANGED <<files, sessions, aliases, names, queue, log, asked, missed, raises, bounded>>

Rounds == { s \in SeqOf(Peripherals, Cardinality(Peripherals)) : IsInjective(s) }

Next ==
  \/ \E found \in Rounds : Scan(found) \/ \E n \in DOMAIN found : ScanCut(found, n)
  \/ \E a \in Addresses : ConnectRequest(a)
  \/ \E s \in Settings : ConfigSet(s[1], s[2], s[3])
  \/ \E p \in Peripherals, kind \in Kinds : HandleFrame(p, kind)
  \/ ConfigApply \/ WriteNext \/ Stop \/ Crash \/ Start

Spec == Init /\ [][Next]_vars

-----------------------------------------------------------------------------
(* Properties *)

\* Every variable keeps its type; what has a place in the path of data files is
\* never empty.
TypeOK ==
  /\ files \in [Addresses -> Configs \cup {Absent, Torn}]
  /\ \A a \in Addresses : files[a] \in Configs => Blank \notin {files[a].type, files[a].location}
  /\ sessions \subseteq Addresses /\ missed \subseteq Peripherals
  /\ aliases \in [Addresses -> Addresses \cup {None}]
  /\ names \in [Addresses -> Texts]
  /\ queue \in Seq([path: Paths, due: Dues])
  /\ worker \in {"down", "running", "failed"}
  /\ log \in Seq([path: Paths, due: Dues, item: {"header", "row", "torn", "empty"}])
  /\ asked \in [Addresses -> [Fields -> Values]]

\* The values a field has if it was set to one of V.
Meant(field, V) == { Store!Setting(field, v) : v \in V }

\* What an operator has set stays set: a file that can be read has the value that
\* config.set acknowledged last, or one that was asked for since and not acknowledged,
\* because the save raised, the daemon was killed or the client had gone; never an
\* older one or another, however often the device was found, connected to or heard.
\* Only an emptied name is replaced, by the one the device advertises.  A torn file has
\* lost what was set: that is what TornIsKept is about.
SettingsSurvive ==
  \A a \in Addresses, f \in Fields :
    None \notin asked[a][f] =>
      /\ files[a] # Absent
      /\ Store!Readable(a) => \/ files[a][f] \in Meant(f, asked[a][f])
                              \/ f = "name" /\ Blank \in asked[a][f]

\* README.md: raw data goes to data/<location>/<type>/<MAC>.  Data is where the setting
\* says that was acknowledged last before its frame was handled, or one asked for since
\* and not acknowledged; a setting between frame and writing does not count.
LoggedWhereAsked ==
  \A i \in DOMAIN log : \A f \in {"location", "type"} :
    None \notin log[i].due[f] => log[i].path[f] \in Meant(f, log[i].due[f])

\* A raw data file starts with the header and has no other, also if the first write
\* to it failed; the exception is a header that was itself cut off.
HeaderFirst ==
  \A i \in DOMAIN log :
    LET before == { j \in 1..(i - 1) : log[j].path = log[i].path /\ log[j].item # "empty" }
    IN  log[i].path.kind = "rawdata" =>
          /\ log[i].item = "header" => before = {}
          /\ log[i].item = "row" => \E j \in before : log[j].item \in {"header", "torn"}

\* A torn file is replaced by nobody, so that whoever repairs it finds what is left;
\* until then nothing of the node whose frames have that MAC is logged.
TornIsKept ==
  [][\A a \in Addresses : files[a] = Torn =>
       /\ files'[a] = Torn
       /\ Len(queue') > Len(queue) => Last(queue').path.mac # a]_vars

\* A device that is found has a session after the round, even if its own file is
\* torn: only the torn file of another device, or a save that raised without tearing
\* its file, can prevent it.
MissedForAnother ==
  \A p \in missed : raised \/ \E q \in Peripherals \ {p} : files[Ble[q]] = Torn

\* The type of a device is what it advertises, the default, or what an operator set:
\* the name that config.apply gives a session never becomes the type of a device,
\* as long as every new file could be opened.
TypeIsNoName ==
  \A a \in Addresses :
    files[a] \notin {Absent, Torn} /\ ~refused =>
      files[a].type \in { DefaultType } \cup { Advertised[p] : p \in Peripherals }
                        \cup { s[3] : s \in { t \in Settings : t[2] = "type" } }
=============================================================================
