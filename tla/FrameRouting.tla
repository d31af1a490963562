---------------------------- MODULE FrameRouting ----------------------------
(***************************************************************************)
(* The way of a frame through the hub and of the commands it causes back   *)
(* to the peripherals: sessions hand frames to SlimHubDaemon.handle_frame, *)
(* which learns an alias, asks the estimator for commands and routes them  *)
(* through the registry.  A peripheral is connected to by its BLE address  *)
(* and puts another address, its frame MAC, in its frames.                 *)
(*                                                                         *)
(* Registry and Unitspace are composed here: one step of handle_frame is a *)
(* step of both, with the registry looked up as it is after the alias was  *)
(* learned.  Connections are abstracted to their effect on routing.        *)
(***************************************************************************)
EXTENDS Integers, SequencesExt

CONSTANTS
  Peripherals,
  Addresses,
  None,
  Ble,           \* the BLE address of each peripheral
  Mac,           \* the MAC in the frames of each peripheral, often the same
  MaxFrames      \* bound: frames waiting to be handled

BleAddresses == { Ble[p] : p \in Peripherals }
FrameMacs == { Mac[p] : p \in Peripherals }

ASSUME AddressesAreDistinct ==
  /\ None \notin Addresses \cup Peripherals
  /\ Ble \in [Peripherals -> Addresses] /\ Mac \in [Peripherals -> Addresses]
  /\ \A p, q \in Peripherals :
       Ble[p] = Ble[q] \/ Mac[p] = Mac[q] \/ Ble[p] = Mac[q] => p = q
ASSUME FramesAreBounded == MaxFrames \in Nat

VARIABLES
  sessions,      \* Registry
  aliases,       \* Registry
  last,          \* Unitspace
  address,       \* session.address of the session created for a key
  client,        \* the peripheral the session's client is for, None without one
  frames,        \* tasks of on_frame that have not run, in the order of creation
  routed         \* history: <<session, command>> for every command put in a queue

Reg == INSTANCE Registry
Unit == INSTANCE Unitspace

vars == <<sessions, aliases, last, address, client, frames, routed>>

Init ==
  /\ Reg!Init
  /\ Unit!Init
  /\ address = [k \in Addresses |-> k]
  /\ client = [k \in Addresses |-> None]
  /\ frames = <<>>
  /\ routed = {}

-----------------------------------------------------------------------------
(* Operations *)

\* ensure_target for the addresses in A: one that get() does not find gets a
\* session of its own, else update_target() makes it the address of the session
\* that was found.
EnsureTargets(A) ==
  /\ Reg!Add({ a \in A : Reg!Get(a) = None })
  /\ address' = [k \in Addresses |->
       IF \E a \in A : Reg!Get(a) = k THEN CHOOSE a \in A : Reg!Get(a) = k ELSE address[k]]

\* The scan found the peripherals in S.
Scan(S) ==
  /\ EnsureTargets({ Ble[p] : p \in S })
  /\ UNCHANGED <<last, client, frames, routed>>

\* A connect request, or the address daemon.run was given: any address.
ConnectRequest(a) ==
  /\ EnsureTargets({a})
  /\ UNCHANGED <<last, client, frames, routed>>

\* Mutant: the session connects to anything of the right device name.
AttachByName(k, p) ==
  /\ k \in sessions /\ client[k] = None
  /\ client' = [client EXCEPT ![k] = p]
  /\ UNCHANGED <<sessions, aliases, last, address, frames, routed>>

\* The session connects to what advertises under its address, if anything does.
Attach(k, p) ==
  /\ k \in sessions /\ client[k] = None
  /\ address[k] = Ble[p]
  /\ client' = [client EXCEPT ![k] = p]
  /\ UNCHANGED <<sessions, aliases, last, address, frames, routed>>

Detach(k) ==
  /\ client[k] # None
  /\ client' = [client EXCEPT ![k] = None]
  /\ UNCHANGED <<sessions, aliases, last, address, frames, routed>>

\* handle_notify creates a task for a complete frame, with the address the
\* session has at that time.
Notify(k, signal) ==
  /\ client[k] # None
  /\ Len(frames) < MaxFrames
  /\ frames' = Append(frames,
       [source |-> address[k], mac |-> Mac[client[k]], signal |-> signal])
  /\ UNCHANGED <<sessions, aliases, last, address, client, routed>>

\* registry.send_command: the command goes to the session of its address, or is
\* dropped with a warning, which is recorded as a command of no session.
Route(commands) ==
  routed' = routed \cup { [session |-> Reg!Get(c.address)', command |-> c] : c \in commands }

\* Mutant: every command goes to the session the frame came from.
HandleFrameToSource ==
  /\ frames # <<>>
  /\ frames' = Tail(frames)
  /\ LET f == Head(frames) IN
       /\ Reg!RegisterAlias(f.mac, f.source)
       /\ routed' = routed \cup { [session |-> f.source, command |-> c]
                                  : c \in ToSet(Unit!Commands(f.mac, f.signal)) }
       /\ Unit!Remember(f.mac, f.signal)
  /\ UNCHANGED <<address, client>>

\* handle_frame: the alias is learned first; an error of the config store ends
\* the task there, else the estimator's commands are routed.
HandleFrame ==
  /\ frames # <<>>
  /\ frames' = Tail(frames)
  /\ LET f == Head(frames) IN
       /\ Reg!RegisterAlias(f.mac, f.source)
       /\ \/ /\ Route(ToSet(Unit!Commands(f.mac, f.signal)))
             /\ Unit!Remember(f.mac, f.signal)
          \/ UNCHANGED <<last, routed>>
  /\ UNCHANGED <<address, client>>

\* A command.send request is refused if there is no session for the address.
SendCommand(a) ==
  /\ Reg!Get(a) # None
  /\ UNCHANGED <<sessions, aliases>>
  /\ Route({ Unit!Command(a, "strong_enter") })
  /\ UNCHANGED <<last, address, client, frames>>

Next ==
  \/ \E S \in SUBSET Peripherals : Scan(S)
  \/ \E a \in Addresses : ConnectRequest(a) \/ SendCommand(a)
  \/ \E k \in Addresses : Detach(k) \/ \E p \in Peripherals : Attach(k, p)
  \/ \E k \in Addresses, signal \in Unit!Signals : Notify(k, signal)
  \/ HandleFrame

Spec == Init /\ [][Next]_vars

-----------------------------------------------------------------------------
(* Properties *)

\* Every variable keeps its type.
TypeOK ==
  /\ sessions \subseteq Addresses
  /\ aliases \in [Addresses -> Addresses \cup {None}]
  /\ last \in Addresses \cup {None}
  /\ address \in [Addresses -> Addresses]
  /\ client \in [Addresses -> Peripherals \cup {None}]
  /\ frames \in Seq([source : Addresses, mac : Addresses, signal : Unit!Signals])
  /\ \A r \in routed : r.session \in Addresses \cup {None} /\ r.command.address \in Addresses

\* No command of the estimator is dropped for want of a session, neither for the
\* node that was just heard nor for the one it remembers, whatever connect
\* requests have done to the addresses of the sessions.
NoCommandDropped == \A r \in routed : r.session # None

\* The sessions are those of BLE addresses: no connect request has created one
\* for an address that nothing advertises.
BleSessions == sessions \subseteq BleAddresses

\* README.md: aliases make unitspace commands "still route to the correct
\* peripheral".  A command for a frame MAC or a BLE address goes to the session
\* that connects to the peripheral of that name, even if connect requests for
\* frame MACs have renamed that session.
RoutedToOwner ==
  BleSessions => \A r \in routed : \E p \in Peripherals :
    r.session = Ble[p] /\ r.command.address \in {Ble[p], Mac[p]}

\* The node the estimator remembers can be sent its exit command.
LastRoutesToPeripheral ==
  last # None => \E p \in Peripherals : Mac[p] = last /\ Reg!Get(last) = Ble[p]

\* The same of the sessions that have an advertiser: the exit command a node will
\* get when the occupant moves on goes to the session of the peripheral it names.
LastIsReachable == BleSessions => LastRoutesToPeripheral

\* What devices says of the peripheral of address a, if that leads to a session:
\* the row of the session, listed under the address the session has by now.
ShownConnected(a) ==
  \E k \in sessions : address[k] = Reg!Resolve(a) /\ client[k] # None

\* devices (_devices_payload) finds a peripheral by either of its addresses and
\* says "connected" of it exactly if some session is connected to it, as long as
\* no connect request has renamed a session to a frame MAC.
DevicesTruthful ==
  BleSessions /\ (\A k \in Addresses : address[k] = k) =>
    \A p \in Peripherals : \A a \in {Ble[p], Mac[p]} :
      Reg!Resolve(a) \in sessions =>
        (ShownConnected(a) <=> \E k \in sessions : client[k] = p)
=============================================================================
