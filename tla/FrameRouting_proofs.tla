------------------------ MODULE FrameRouting_proofs -------------------------
(***************************************************************************)
(* Proofs about FrameRouting, for any peripherals and any addresses: no    *)
(* command is dropped, and while every session has an advertiser every      *)
(* command reaches the peripheral it is for.                               *)
(*                                                                         *)
(* Types come first.  Everything else rests on one invariant, Resolved:    *)
(* an alias leads from the frame MAC of a peripheral to the session of its *)
(* BLE address, also if the address of that session was replaced by the    *)
(* frame MAC, and what is on its way is resolved the same way.             *)
(***************************************************************************)
EXTENDS FrameRouting, TLAPS

Frame == [source : Addresses, mac : Addresses, signal : Unit!Signals]

\* What registry.get may return.
LEMMA GetTyped ==
  ASSUME sessions \subseteq Addresses, NEW a
  PROVE  Reg!Get(a) \in sessions \cup {None}
BY DEF Reg!Get

\* The first frame and those after it.
LEMMA FramesPopped ==
  ASSUME frames \in Seq(Frame), frames # <<>>
  PROVE  /\ Head(frames) \in Frame /\ Tail(frames) \in Seq(Frame)
         /\ Head(frames) = frames[1]
         /\ Len(frames) \in Nat /\ 1 \in 1..Len(frames)
         /\ Len(Tail(frames)) = Len(frames) - 1
         /\ \A i \in 1..Len(Tail(frames)) :
              i + 1 \in 1..Len(frames) /\ Tail(frames)[i] = frames[i + 1]
OBVIOUS

\* The commands of the estimator are for the node heard and the one before.
LEMMA CommandsAddressed ==
  ASSUME NEW mac, NEW signal, NEW c \in ToSet(Unit!Commands(mac, signal))
  PROVE  c.address = mac \/ (c.address = last /\ last # None)
<1>1. PICK i \in DOMAIN Unit!Commands(mac, signal) : c = Unit!Commands(mac, signal)[i]
  BY DEF ToSet
<1>2. CASE signal = "exit"
  BY <1>1, <1>2 DEF Unit!Commands, Unit!Command
<1>3. CASE signal = "enter" /\ last = None
  BY <1>1, <1>3 DEF Unit!Commands, Unit!Command
<1>4. CASE signal = "enter" /\ last \notin {None, mac}
  BY <1>1, <1>4 DEF Unit!Commands, Unit!Command
<1>5. CASE signal # "exit" /\ ~(signal = "enter" /\ (last = None \/ last \notin {None, mac}))
  BY <1>1, <1>5 DEF Unit!Commands
<1>6. QED
  BY <1>2, <1>3, <1>4, <1>5

\* ensure_target keeps the address of a session, or makes it one of those that
\* the session was found by; it adds sessions for those that none was found by.
LEMMA TargetsEnsured ==
  ASSUME TypeOK, NEW A \in SUBSET Addresses, EnsureTargets(A)
  PROVE  /\ sessions' = sessions \cup { a \in A : Reg!Get(a) = None }
         /\ aliases' = aliases
         /\ address' \in [Addresses -> Addresses]
         /\ \A k \in Addresses : address'[k] = address[k] \/ Reg!Get(address'[k]) = k
<1>1. ASSUME NEW k \in Addresses
      PROVE  address'[k] \in Addresses /\ (address'[k] = address[k] \/ Reg!Get(address'[k]) = k)
  <2>1. CASE \E a \in A : Reg!Get(a) = k
    <3>1. address'[k] = CHOOSE a \in A : Reg!Get(a) = k
      BY <2>1 DEF EnsureTargets
    <3>2. (CHOOSE a \in A : Reg!Get(a) = k) \in A
          /\ Reg!Get(CHOOSE a \in A : Reg!Get(a) = k) = k
      BY <2>1
    <3>3. QED
      BY <3>1, <3>2
  <2>2. CASE ~\E a \in A : Reg!Get(a) = k
    BY <2>2 DEF EnsureTargets, TypeOK
  <2>3. QED
    BY <2>1, <2>2
<1>2. address' \in [Addresses -> Addresses]
  <2>1. DOMAIN address' = Addresses /\ address' = [k \in Addresses |-> address'[k]]
    BY DEF EnsureTargets
  <2>2. QED
    BY <1>1, <2>1
<1>3. QED
  BY <1>1, <1>2 DEF EnsureTargets, Reg!Add

-----------------------------------------------------------------------------
(* Types                                                                     *)

LEMMA NamesTyped ==
  ASSUME NEW p \in Peripherals
  PROVE  Ble[p] \in Addresses /\ Mac[p] \in Addresses
BY AddressesAreDistinct

LEMMA InitTyped == Init => TypeOK
BY AddressesAreDistinct DEF Init, Reg!Init, Unit!Init, TypeOK

LEMMA HandleFrameTyped ==
  ASSUME TypeOK, HandleFrame
  PROVE  TypeOK'
<1>1. PICK f : f = Head(frames)
  OBVIOUS
<1>2. f \in Frame /\ frames' \in Seq(Frame)
  BY <1>1, FramesPopped DEF HandleFrame, TypeOK, Frame
<1>3. sessions' = sessions /\ aliases' \in [Addresses -> Addresses \cup {None}]
  BY <1>1, <1>2 DEF HandleFrame, Reg!RegisterAlias, TypeOK, Frame
<1>4. last' \in Addresses \cup {None}
  BY <1>1, <1>2 DEF HandleFrame, Unit!Remember, TypeOK, Frame
<1>5. \A r \in routed' : r.session \in Addresses \cup {None} /\ r.command.address \in Addresses
  <2>1. CASE routed' = routed
    BY <2>1 DEF TypeOK
  <2>2. CASE Route(ToSet(Unit!Commands(f.mac, f.signal)))
    <3>1. \A c \in ToSet(Unit!Commands(f.mac, f.signal)) : c.address \in Addresses
      BY <1>2, CommandsAddressed DEF TypeOK, Frame
    <3>2. \A a : Reg!Get(a)' \in Addresses \cup {None}
      BY <1>3 DEF Reg!Get, TypeOK
    <3>3. QED
      BY <2>2, <3>1, <3>2 DEF Route, TypeOK
  <2>3. QED
    BY <1>1, <2>1, <2>2 DEF HandleFrame
<1>6. QED
  BY <1>2, <1>3, <1>4, <1>5 DEF HandleFrame, TypeOK, Frame

LEMMA NextTyped ==
  ASSUME TypeOK, [Next]_vars
  PROVE  TypeOK'
<1>1. ASSUME NEW A \in SUBSET Addresses, EnsureTargets(A),
             UNCHANGED <<last, client, frames, routed>>
      PROVE  TypeOK'
  BY <1>1, TargetsEnsured DEF TypeOK
<1>2. CASE \E S \in SUBSET Peripherals : Scan(S)
  BY <1>1, <1>2, NamesTyped DEF Scan
<1>3. CASE \E a \in Addresses : ConnectRequest(a)
  BY <1>1, <1>3 DEF ConnectRequest
<1>4. ASSUME NEW a \in Addresses, SendCommand(a) PROVE TypeOK'
  <2>1. \A b : Reg!Get(b)' \in Addresses \cup {None}
    BY <1>4 DEF SendCommand, Reg!Get, TypeOK
  <2>2. QED
    BY <1>4, <2>1 DEF SendCommand, Route, Unit!Command, TypeOK
<1>5. CASE \E k \in Addresses : Detach(k)
  BY <1>5 DEF Detach, TypeOK
<1>6. CASE \E k \in Addresses, p \in Peripherals : Attach(k, p)
  BY <1>6 DEF Attach, TypeOK
<1>7. ASSUME NEW k \in Addresses, NEW signal \in Unit!Signals, Notify(k, signal) PROVE TypeOK'
  <2>1. client[k] \in Peripherals
    BY <1>7 DEF Notify, TypeOK
  <2>2. [source |-> address[k], mac |-> Mac[client[k]], signal |-> signal] \in Frame
    BY <2>1, NamesTyped DEF TypeOK, Frame
  <2>3. frames' \in Seq(Frame)
    BY <1>7, <2>2 DEF Notify, TypeOK, Frame
  <2>4. QED
    BY <1>7, <2>3 DEF Notify, TypeOK, Frame
<1>8. CASE UNCHANGED vars
  BY <1>8 DEF vars, TypeOK
<1>9. QED
  BY <1>2, <1>3, <1>4, <1>5, <1>6, <1>7, <1>8, HandleFrameTyped DEF Next

\* Every variable keeps its type.
THEOREM TypeCorrect == Spec => []TypeOK
BY InitTyped, NextTyped, PTL DEF Spec

-----------------------------------------------------------------------------
(* Resolution                                                                *)

AliasesResolve ==
  \A a \in Addresses : aliases[a] # None =>
    \E p \in Peripherals : a = Mac[p] /\ aliases[a] = Ble[p] /\ Ble[p] \in sessions

\* The address of a session is its key or, once that is its alias, the frame MAC.
AddressesResolve ==
  \A k \in Addresses :
    address[k] = k \/ (address[k] \notin sessions /\ aliases[address[k]] = k)

ClientsResolve ==
  \A k \in Addresses : client[k] # None => k = Ble[client[k]] /\ k \in sessions

\* A frame on its way: its alias can be learned from it, or is known already.
ResolvesTo(f, p) ==
  /\ f.mac = Mac[p] /\ Ble[p] \in sessions
  /\ \/ f.source = Ble[p]
     \/ f.source = Mac[p] /\ Mac[p] \notin sessions /\ aliases[Mac[p]] = Ble[p]

FramesResolve == \A i \in 1..Len(frames) : \E p \in Peripherals : ResolvesTo(frames[i], p)

LastResolves ==
  last # None => \E p \in Peripherals : last = Mac[p] /\ aliases[last] = Ble[p]

Resolved ==
  AliasesResolve /\ AddressesResolve /\ ClientsResolve /\ FramesResolve /\ LastResolves

\* Addresses tell the peripherals apart.
LEMMA Distinct ==
  ASSUME NEW p \in Peripherals, NEW q \in Peripherals,
         Ble[p] = Ble[q] \/ Mac[p] = Mac[q] \/ Ble[p] = Mac[q]
  PROVE  p = q
BY AddressesAreDistinct

LEMMA NoneIsNoName ==
  ASSUME NEW a \in Addresses \cup Peripherals
  PROVE  a # None
BY AddressesAreDistinct

\* A frame that was resolved remains so while sessions are added for addresses
\* that are not aliases and aliases are kept.
LEMMA FrameStaysResolved ==
  ASSUME NEW f, NEW p \in Peripherals, ResolvesTo(f, p),
         sessions \subseteq sessions',
         aliases'[Mac[p]] = aliases[Mac[p]] \/ aliases'[Mac[p]] = Ble[p],
         aliases[Mac[p]] = Ble[p] /\ Mac[p] \notin sessions => Mac[p] \notin sessions'
  PROVE  ResolvesTo(f, p)'
BY DEF ResolvesTo

\* A new session takes no alias: the address of an alias is found.
LEMMA EnsureResolved ==
  ASSUME TypeOK, Resolved, NEW A \in SUBSET Addresses, EnsureTargets(A),
         UNCHANGED <<last, client, frames, routed>>
  PROVE  Resolved'
<1>1. /\ sessions \subseteq sessions' /\ aliases' = aliases
      /\ address' \in [Addresses -> Addresses]
      /\ \A k \in Addresses : address'[k] = address[k] \/ Reg!Get(address'[k]) = k
  BY TargetsEnsured
<1>2. \A a \in Addresses : aliases[a] # None /\ a \notin sessions => a \notin sessions'
  <2>1. ASSUME NEW a \in Addresses, aliases[a] # None, a \notin sessions
        PROVE  Reg!Get(a) # None
    <3>1. aliases[a] \in sessions
      BY <2>1 DEF Resolved, AliasesResolve
    <3>2. QED
      BY <2>1, <3>1 DEF Reg!Get
  <2>2. QED
    BY <2>1, TargetsEnsured
<1>3. AliasesResolve'
  BY <1>1 DEF Resolved, AliasesResolve
<1>4. AddressesResolve'
  <2> SUFFICES ASSUME NEW k \in Addresses, address'[k] # k
               PROVE  address'[k] \notin sessions' /\ aliases'[address'[k]] = k
    BY DEF AddressesResolve
  <2>1. CASE address'[k] = address[k]
    BY <1>1, <1>2, <2>1, NoneIsNoName DEF Resolved, AddressesResolve, TypeOK
  <2>2. CASE Reg!Get(address'[k]) = k
    <3>1. address'[k] \notin sessions /\ aliases[address'[k]] = k
      BY <2>2, NoneIsNoName DEF Reg!Get
    <3>2. QED
      BY <1>1, <1>2, <3>1, NoneIsNoName
  <2>3. QED
    BY <1>1, <2>1, <2>2
<1>5. ClientsResolve'
  BY <1>1 DEF Resolved, ClientsResolve
<1>6. FramesResolve'
  <2> SUFFICES ASSUME NEW i \in 1..Len(frames)
               PROVE  \E p \in Peripherals : ResolvesTo(frames[i], p)'
    BY DEF FramesResolve, ResolvesTo
  <2>1. PICK p \in Peripherals : ResolvesTo(frames[i], p)
    BY DEF Resolved, FramesResolve
  <2>2. aliases[Mac[p]] = Ble[p] /\ Mac[p] \notin sessions => Mac[p] \notin sessions'
    BY <1>2, NamesTyped, NoneIsNoName
  <2>3. PICK f : f = frames[i]
    OBVIOUS
  <2>4. ResolvesTo(f, p)'
    BY <1>1, <2>1, <2>2, <2>3, FrameStaysResolved
  <2>5. QED
    BY <2>3, <2>4 DEF ResolvesTo
<1>7. LastResolves'
  BY <1>1 DEF Resolved, LastResolves
<1>8. QED
  BY <1>3, <1>4, <1>5, <1>6, <1>7 DEF Resolved

\* What advertises under the address of a session is the peripheral of its key.
LEMMA AttachResolved ==
  ASSUME TypeOK, Resolved, NEW k \in Addresses, NEW p \in Peripherals, Attach(k, p)
  PROVE  Resolved'
<1>1. k = Ble[p]
  <2>1. CASE address[k] = k
    BY <2>1 DEF Attach
  <2>2. CASE address[k] # k
    <3>1. aliases[Ble[p]] = k
      BY <2>2 DEF Resolved, AddressesResolve, Attach
    <3>2. PICK q \in Peripherals : Ble[p] = Mac[q] /\ k = Ble[q]
      BY <3>1, NamesTyped, NoneIsNoName DEF Resolved, AliasesResolve
    <3>3. QED
      BY <3>2, Distinct
  <2>3. QED
    BY <2>1, <2>2
<1>2. ClientsResolve'
  BY <1>1, NoneIsNoName DEF Resolved, ClientsResolve, Attach, TypeOK
<1>3. UNCHANGED <<sessions, aliases, last, address, frames>>
  BY DEF Attach
<1>4. QED
  BY <1>2, <1>3 DEF Resolved, AliasesResolve, AddressesResolve, FramesResolve, LastResolves,
                    ResolvesTo

\* A frame has the address of its session, which resolves.
LEMMA NotifyResolved ==
  ASSUME TypeOK, Resolved, NEW k \in Addresses, NEW signal \in Unit!Signals, Notify(k, signal)
  PROVE  Resolved'
<1>1. PICK p \in Peripherals : p = client[k]
  BY DEF Notify, TypeOK
<1>2. PICK f : f = [source |-> address[k], mac |-> Mac[p], signal |-> signal]
  OBVIOUS
<1>3. f \in Frame /\ frames \in Seq(Frame) /\ frames' = Append(frames, f)
  BY <1>1, <1>2, NamesTyped DEF Notify, Frame, TypeOK
<1>4. UNCHANGED <<sessions, aliases, last, address, client>>
  BY DEF Notify
<1>5. ResolvesTo(f, p)
  <2>1. k = Ble[p] /\ k \in sessions
    BY <1>1, NoneIsNoName DEF Resolved, ClientsResolve
  <2>2. CASE address[k] = k
    BY <1>2, <2>1, <2>2 DEF ResolvesTo
  <2>3. CASE address[k] # k
    <3>1. address[k] \in Addresses /\ address[k] \notin sessions /\ aliases[address[k]] = k
      BY <2>3 DEF Resolved, AddressesResolve, TypeOK
    <3>2. PICK q \in Peripherals : address[k] = Mac[q] /\ k = Ble[q]
      BY <3>1, NoneIsNoName DEF Resolved, AliasesResolve
    <3>3. q = p
      BY <2>1, <3>2, Distinct
    <3>4. QED
      BY <1>2, <2>1, <3>1, <3>2, <3>3 DEF ResolvesTo
  <2>4. QED
    BY <2>2, <2>3
<1>6. FramesResolve'
  <2> SUFFICES ASSUME NEW i \in 1..Len(frames')
               PROVE  \E q \in Peripherals : ResolvesTo(frames'[i], q)
    BY <1>4 DEF FramesResolve, ResolvesTo
  <2>1. (i \in 1..Len(frames) /\ frames'[i] = frames[i]) \/ frames'[i] = f
    BY <1>3
  <2>2. QED
    BY <1>5, <2>1 DEF Resolved, FramesResolve
<1>7. QED
  BY <1>4, <1>6 DEF Resolved, AliasesResolve, AddressesResolve, ClientsResolve, LastResolves

\* After the first frame was handled its MAC is an alias of the session of its
\* peripheral, and nothing else has changed.
LEMMA FrameLearned ==
  ASSUME TypeOK, Resolved, HandleFrame
  PROVE  \E p \in Peripherals :
           /\ Head(frames).mac = Mac[p] /\ Ble[p] \in sessions
           /\ sessions' = sessions
           /\ aliases' = [aliases EXCEPT ![Mac[p]] = Ble[p]]
<1>1. PICK f : f = Head(frames)
  OBVIOUS
<1>2. 1 \in 1..Len(frames) /\ f = frames[1] /\ f \in Frame
  BY <1>1, FramesPopped DEF HandleFrame, TypeOK, Frame
<1>3. PICK p \in Peripherals : ResolvesTo(f, p)
  BY <1>2 DEF Resolved, FramesResolve
<1>4. Reg!RegisterAlias(Mac[p], f.source)
  BY <1>1, <1>3 DEF HandleFrame, ResolvesTo
<1>5. sessions' = sessions
  BY <1>4 DEF Reg!RegisterAlias
<1>6. aliases' = [aliases EXCEPT ![Mac[p]] = Ble[p]]
  <2>1. CASE f.source = Ble[p]
    BY <1>3, <1>4, <2>1 DEF ResolvesTo, Reg!RegisterAlias
  <2>2. CASE f.source = Mac[p] /\ Mac[p] \notin sessions /\ aliases[Mac[p]] = Ble[p]
    BY <1>4, <2>2, NamesTyped DEF Reg!RegisterAlias, TypeOK
  <2>3. QED
    BY <1>3, <2>1, <2>2 DEF ResolvesTo
<1>7. QED
  BY <1>1, <1>3, <1>5, <1>6 DEF ResolvesTo

LEMMA HandleFrameResolved ==
  ASSUME TypeOK, Resolved, HandleFrame
  PROVE  Resolved'
<1>1. PICK p \in Peripherals :
        /\ Head(frames).mac = Mac[p] /\ Ble[p] \in sessions
        /\ sessions' = sessions
        /\ aliases' = [aliases EXCEPT ![Mac[p]] = Ble[p]]
  BY FrameLearned
<1>2. /\ aliases'[Mac[p]] = Ble[p]
      /\ \A a \in Addresses : a # Mac[p] => aliases'[a] = aliases[a]
  BY <1>1, NamesTyped DEF TypeOK
<1>3. UNCHANGED <<address, client>>
  BY DEF HandleFrame
<1>4. AliasesResolve'
  BY <1>1, <1>2 DEF Resolved, AliasesResolve
<1>5. AddressesResolve'
  <2> SUFFICES ASSUME NEW k \in Addresses, address[k] # k
               PROVE  address[k] \notin sessions' /\ aliases'[address[k]] = k
    BY <1>3 DEF AddressesResolve
  <2>1. address[k] \in Addresses /\ address[k] \notin sessions /\ aliases[address[k]] = k
    BY DEF Resolved, AddressesResolve, TypeOK
  <2>2. PICK q \in Peripherals : address[k] = Mac[q] /\ k = Ble[q]
    BY <2>1, NoneIsNoName DEF Resolved, AliasesResolve
  <2>3. address[k] = Mac[p] => k = Ble[p]
    BY <2>2, Distinct
  <2>4. QED
    BY <1>1, <1>2, <2>1, <2>3
<1>6. ClientsResolve'
  BY <1>1, <1>3 DEF Resolved, ClientsResolve
<1>7. FramesResolve'
  <2> SUFFICES ASSUME NEW i \in 1..Len(frames')
               PROVE  \E q \in Peripherals : ResolvesTo(frames[i], q)'
    BY DEF FramesResolve, ResolvesTo
  <2>1. i + 1 \in 1..Len(frames) /\ frames'[i] = frames[i + 1]
    BY FramesPopped DEF HandleFrame, TypeOK, Frame
  <2>2. PICK f : f = frames[i + 1]
    OBVIOUS
  <2>3. PICK q \in Peripherals : ResolvesTo(f, q)
    BY <2>1, <2>2 DEF Resolved, FramesResolve
  <2>4. aliases'[Mac[q]] = aliases[Mac[q]] \/ aliases'[Mac[q]] = Ble[q]
    BY <1>2, NamesTyped, Distinct
  <2>5. ResolvesTo(f, q)'
    BY <1>1, <2>3, <2>4, FrameStaysResolved
  <2>6. QED
    BY <2>1, <2>2, <2>5 DEF ResolvesTo
<1>8. LastResolves'
  <2>1. CASE last' = Mac[p]
    BY <1>2, <2>1 DEF LastResolves
  <2>2. CASE last' = last
    <3>1. last # None => aliases'[last] = aliases[last] \/ last = Mac[p]
      BY <1>2 DEF TypeOK
    <3>2. QED
      BY <1>2, <2>2, <3>1 DEF Resolved, LastResolves
  <2>3. QED
    BY <1>1, <2>1, <2>2 DEF HandleFrame, Unit!Remember
<1>9. QED
  BY <1>4, <1>5, <1>6, <1>7, <1>8 DEF Resolved

LEMMA NextResolved ==
  ASSUME TypeOK, Resolved, [Next]_vars
  PROVE  Resolved'
<1>1. CASE \E S \in SUBSET Peripherals : Scan(S)
  BY <1>1, EnsureResolved, NamesTyped DEF Scan
<1>2. CASE \E a \in Addresses : ConnectRequest(a)
  BY <1>2, EnsureResolved DEF ConnectRequest
<1>3. CASE UNCHANGED <<sessions, aliases, last, address, frames>>
           /\ \A k \in Addresses : client'[k] \in {client[k], None}
  BY <1>3 DEF Resolved, AliasesResolve, AddressesResolve, ClientsResolve, FramesResolve,
              LastResolves, ResolvesTo
<1>4. CASE \E k \in Addresses : Detach(k)
  BY <1>3, <1>4 DEF Detach, TypeOK
<1>5. CASE \E a \in Addresses : SendCommand(a)
  BY <1>3, <1>5 DEF SendCommand
<1>6. CASE UNCHANGED vars
  BY <1>3, <1>6 DEF vars
<1>7. QED
  BY <1>1, <1>2, <1>4, <1>5, <1>6, AttachResolved, NotifyResolved, HandleFrameResolved DEF Next

LEMMA InitResolved == Init => Resolved
BY DEF Init, Reg!Init, Unit!Init, Resolved, AliasesResolve, AddressesResolve,
   ClientsResolve, FramesResolve, LastResolves

-----------------------------------------------------------------------------
(* What happens to commands                                                  *)

\* Of the actions only HandleFrame and SendCommand put commands in queues.
LEMMA Routers ==
  ASSUME [Next]_vars, routed' # routed
  PROVE  HandleFrame \/ \E a \in Addresses : SendCommand(a)
BY DEF Next, vars, Scan, ConnectRequest, Attach, Detach, Notify

\* A command HandleFrame routes is for the frame MAC of a peripheral, its alias is
\* known, and the registry is asked after the alias of this frame was learned.
LEMMA RoutedByFrame ==
  ASSUME TypeOK, Resolved, HandleFrame, NEW r \in routed' \ routed
  PROVE  \E p \in Peripherals :
           /\ r.command.address = Mac[p] /\ Ble[p] \in sessions
           /\ r.session = IF Mac[p] \in sessions THEN Mac[p] ELSE Ble[p]
<1>1. PICK f : f = Head(frames)
  OBVIOUS
<1>2. PICK c \in ToSet(Unit!Commands(f.mac, f.signal)) :
        r = [session |-> Reg!Get(c.address)', command |-> c]
  BY <1>1 DEF HandleFrame, Route
<1>3. sessions' = sessions /\ AliasesResolve'
  BY FrameLearned, HandleFrameResolved DEF Resolved
<1>4. \E p \in Peripherals : c.address = Mac[p] /\ Ble[p] \in sessions /\ aliases'[Mac[p]] = Ble[p]
  <2>1. PICK q \in Peripherals :
          /\ f.mac = Mac[q] /\ Ble[q] \in sessions
          /\ aliases' = [aliases EXCEPT ![Mac[q]] = Ble[q]]
    BY <1>1, FrameLearned
  <2>2. /\ aliases'[Mac[q]] = Ble[q]
        /\ \A a \in Addresses : a # Mac[q] => aliases'[a] = aliases[a]
    BY <2>1, NamesTyped DEF TypeOK
  <2>3. CASE c.address = f.mac
    BY <2>1, <2>2, <2>3
  <2>4. CASE c.address = last /\ last # None
    <3>1. PICK p \in Peripherals : last = Mac[p] /\ aliases[last] = Ble[p]
      BY <2>4 DEF Resolved, LastResolves
    <3>2. Ble[p] \in sessions
      BY <3>1, NamesTyped, NoneIsNoName, Distinct DEF Resolved, AliasesResolve
    <3>3. aliases'[Mac[p]] = Ble[p]
      BY <2>2, <3>1, NamesTyped, Distinct
    <3>4. QED
      BY <2>4, <3>1, <3>2, <3>3
  <2>5. QED
    BY <1>2, <2>3, <2>4, CommandsAddressed
<1>5. QED
  BY <1>2, <1>3, <1>4 DEF Reg!Get

\* A request's command is refused or routed to the session that was found.
LEMMA RoutedByRequest ==
  ASSUME TypeOK, NEW a \in Addresses, SendCommand(a), NEW r \in routed' \ routed
  PROVE  r.command.address = a /\ r.session = Reg!Get(a) /\ r.session # None
<1>1. sessions' = sessions /\ aliases' = aliases /\ Reg!Get(a) # None
  BY DEF SendCommand
<1>2. r = [session |-> Reg!Get(a)', command |-> Unit!Command(a, "strong_enter")]
  BY DEF SendCommand, Route, Unit!Command
<1>3. Reg!Get(a)' = Reg!Get(a)
  BY <1>1 DEF Reg!Get
<1>4. QED
  BY <1>1, <1>2, <1>3 DEF Unit!Command

\* No command is dropped, whatever addresses connect requests name.
THEOREM CommandsAreNotDropped == Spec => []NoCommandDropped
<1>1. Init => NoCommandDropped
  BY DEF Init, NoCommandDropped
<1>2. TypeOK /\ Resolved /\ NoCommandDropped /\ [Next]_vars => NoCommandDropped'
  <2> SUFFICES ASSUME TypeOK, Resolved, NoCommandDropped, [Next]_vars, NEW r \in routed' \ routed
               PROVE  r.session # None
    BY DEF NoCommandDropped
  <2>1. CASE HandleFrame
    BY <2>1, RoutedByFrame, NamesTyped, NoneIsNoName
  <2>2. CASE \E a \in Addresses : SendCommand(a)
    BY <2>2, RoutedByRequest
  <2>3. QED
    BY <2>1, <2>2, Routers
<1>3. QED
  BY <1>1, <1>2, InitTyped, NextTyped, InitResolved, NextResolved, PTL DEF Spec

-----------------------------------------------------------------------------
(* Sessions created for BLE addresses only                                   *)

\* Sessions are never removed: where there are only those of BLE addresses, there
\* never were others.
LEMMA SessionsStay ==
  ASSUME TypeOK, [Next]_vars
  PROVE  sessions \subseteq sessions'
<1>1. ASSUME NEW S \in SUBSET Peripherals, Scan(S) PROVE sessions \subseteq sessions'
  BY <1>1 DEF Scan, EnsureTargets, Reg!Add
<1>2. ASSUME NEW a \in Addresses, ConnectRequest(a) PROVE sessions \subseteq sessions'
  BY <1>2 DEF ConnectRequest, EnsureTargets, Reg!Add
<1>3. CASE UNCHANGED sessions
  BY <1>3
<1>4. QED
  BY <1>1, <1>2, <1>3
     DEF Next, vars, Attach, Detach, Notify, HandleFrame, SendCommand, Reg!RegisterAlias

\* Then no frame MAC but a BLE address is the key of a session.
LEMMA OwnLookup ==
  ASSUME BleSessions, NEW p \in Peripherals, Mac[p] \in sessions
  PROVE  Mac[p] = Ble[p]
BY Distinct DEF BleSessions, BleAddresses

\* Every command reaches the session that connects to the peripheral it is for,
\* while connect requests have created no session for another address.
THEOREM CommandsReachTheirPeripheral == Spec => []RoutedToOwner
<1>1. Init => RoutedToOwner
  BY DEF Init, RoutedToOwner
<1>2. TypeOK /\ Resolved /\ RoutedToOwner /\ [Next]_vars => RoutedToOwner'
  <2> SUFFICES ASSUME TypeOK, Resolved, RoutedToOwner, [Next]_vars, BleSessions',
                      NEW r \in routed' \ routed
               PROVE  \E p \in Peripherals :
                        r.session = Ble[p] /\ r.command.address \in {Ble[p], Mac[p]}
    BY SessionsStay DEF RoutedToOwner, BleSessions
  <2>1. BleSessions
    BY SessionsStay DEF BleSessions
  <2>2. CASE HandleFrame
    BY <2>1, <2>2, RoutedByFrame, OwnLookup
  <2>3. ASSUME NEW a \in Addresses, SendCommand(a)
        PROVE  \E p \in Peripherals : r.session = Ble[p] /\ r.command.address \in {Ble[p], Mac[p]}
    <3>1. r.command.address = a /\ r.session = Reg!Get(a) /\ Reg!Get(a) # None
      BY <2>3, RoutedByRequest
    <3>2. CASE a \in sessions
      BY <2>1, <3>1, <3>2 DEF Reg!Get, BleSessions, BleAddresses
    <3>3. CASE a \notin sessions
      BY <3>1, <3>3 DEF Reg!Get, Resolved, AliasesResolve
    <3>4. QED
      BY <3>2, <3>3
  <2>4. QED
    BY <2>2, <2>3, Routers
<1>3. QED
  BY <1>1, <1>2, InitTyped, NextTyped, InitResolved, NextResolved, PTL DEF Spec

\* Under the same condition the node heard last can be sent its exit command, which
\* a session created for its frame MAC prevents.
THEOREM LastStaysReachable == Spec => []LastIsReachable
<1>1. TypeOK /\ Resolved => LastIsReachable
  <2> SUFFICES ASSUME TypeOK, Resolved, BleSessions, last # None
               PROVE  \E p \in Peripherals : Mac[p] = last /\ Reg!Get(last) = Ble[p]
    BY DEF LastIsReachable, LastRoutesToPeripheral
  <2>1. PICK p \in Peripherals : last = Mac[p] /\ aliases[last] = Ble[p]
    BY DEF Resolved, LastResolves
  <2>2. Ble[p] \in sessions
    BY <2>1, NamesTyped, NoneIsNoName, Distinct DEF Resolved, AliasesResolve
  <2>3. QED
    BY <2>1, <2>2, OwnLookup DEF Reg!Get
<1>2. QED
  BY <1>1, InitTyped, NextTyped, InitResolved, NextResolved, PTL DEF Spec

\* devices lists the peripheral of either address in the row of its session, which
\* is the only one that connects to it.
THEOREM DevicesStayTruthful == Spec => []DevicesTruthful
<1>1. TypeOK /\ Resolved => DevicesTruthful
  <2> SUFFICES ASSUME TypeOK, Resolved, BleSessions, \A k \in Addresses : address[k] = k,
                      NEW p \in Peripherals, NEW a \in {Ble[p], Mac[p]},
                      Reg!Resolve(a) \in sessions
               PROVE  ShownConnected(a) <=> \E k \in sessions : client[k] = p
    BY DEF DevicesTruthful
  <2>1. a \in Addresses /\ sessions \subseteq Addresses
    BY NamesTyped DEF TypeOK
  <2>2. Reg!Resolve(a) = Ble[p]
    <3>1. CASE a \in sessions
      BY <3>1, OwnLookup DEF Reg!Resolve
    <3>2. CASE a \notin sessions
      <4>1. aliases[a] # None /\ Reg!Resolve(a) = aliases[a]
        BY <2>1, <3>2 DEF Reg!Resolve
      <4>2. PICK q \in Peripherals : a = Mac[q] /\ aliases[a] = Ble[q]
        BY <2>1, <4>1 DEF Resolved, AliasesResolve
      <4>3. QED
        BY <4>1, <4>2, Distinct
    <3>3. QED
      BY <3>1, <3>2
  <2>3. \A k \in sessions : client[k] # None => k = Ble[client[k]] /\ client[k] \in Peripherals
    BY <2>1 DEF Resolved, ClientsResolve, TypeOK
  <2>4. ASSUME NEW k \in sessions, client[k] = p
        PROVE  ShownConnected(a)
    BY <2>1, <2>2, <2>3, <2>4, NoneIsNoName DEF ShownConnected
  <2>5. ASSUME NEW k \in sessions, address[k] = Reg!Resolve(a), client[k] # None
        PROVE  client[k] = p
    BY <2>1, <2>2, <2>3, <2>5, Distinct
  <2>6. QED
    BY <2>4, <2>5 DEF ShownConnected
<1>2. QED
  BY <1>1, InitTyped, NextTyped, InitResolved, NextResolved, PTL DEF Spec
=============================================================================
