----------------------- MODULE FrameAssembler_proofs -----------------------
(***************************************************************************)
(* Proofs about FrameAssembler, for bytes of any number of values, any     *)
(* lengths, any end flag and streams of any length.                        *)
(*                                                                         *)
(* Assemble is a recursive function over byte sequences.  That there is a  *)
(* function that satisfies its equation is proved here from approximations *)
(* for short buffers, and what it returns by looking at a shortest buffer  *)
(* for which the claim would be wrong (Least).                             *)
(***************************************************************************)
EXTENDS FrameAssembler, SequenceTheorems, WellFoundedInduction, TLAPS

\* A set of natural numbers has a least element.
LEMMA Least ==
  ASSUME NEW T \in SUBSET Nat, T # {}
  PROVE  \E n \in T : \A m \in T : n <= m
<1>1. PICK n \in T : \A m \in T : ~ (<<m, n>> \in OpToRel(<, Nat))
  BY NatLessThanWellFounded, WFMin
<1>2. \A p \in Nat \X Nat : p[1] < p[2] => p \in OpToRel(<, Nat)
  BY DEF OpToRel
<1>3. \A i, j \in Nat : i < j => <<i, j>> \in OpToRel(<, Nat)
  BY <1>2
<1>4. \A m \in T : ~ (m < n) /\ m \in Nat /\ n \in Nat
  BY <1>1, <1>3
<1>5. \A m \in T : n <= m
  BY <1>4
<1>6. QED
  BY <1>5

-----------------------------------------------------------------------------
(* The equation of Assemble *)

Bytes == Seq(Byte)
Outcomes == [frames: Seq(Bytes), rest: Bytes]

\* One turn of the loop of push(), the turns after it being done by g.
Turn(g, b) ==
  IF Len(b) < OverheadLen THEN [frames |-> <<>>, rest |-> b]
  ELSE IF Impossible(b) THEN g[Tail(b)]
  ELSE IF ~Complete(b) THEN [frames |-> <<>>, rest |-> b]
  ELSE LET more == g[SubSeq(b, FrameLen(b) + 1, Len(b))]
       IN  [more EXCEPT !.frames = << SubSeq(b, 1, FrameLen(b)) >> \o @]

LEMMA Times ==
  ASSUME NEW m \in Nat, NEW n \in Nat
  PROVE  m * n \in Nat
OBVIOUS

\* The length in a header is at least that of a frame without payload.
LEMMA HeaderRead ==
  ASSUME NEW b \in Bytes, Len(b) >= OverheadLen
  PROVE  /\ FrameLen(b) \in Nat /\ OverheadLen \in Nat /\ Len(b) \in Nat
         /\ FrameLen(b) >= OverheadLen /\ OverheadLen >= 4
         /\ b # <<>>
<1>1. Len(EndFlag) \in Nat /\ Len(b) \in Nat
  BY FormatOK, LenProperties DEF Bytes
<1>2. OverheadLen \in Nat /\ OverheadLen >= 4
  BY <1>1 DEF OverheadLen, HeaderLen
<1>3. b[3] \in Byte /\ b[4] \in Byte
  BY <1>1, <1>2, ElementOfSeq DEF Bytes
<1>4. b[3] \in Nat /\ b[4] \in Nat /\ Base \in Nat
  BY <1>3, FormatOK DEF Byte
<1>5. PICK y \in Nat : y = Base * b[4]
  BY <1>4, Times
<1>6. FrameLen(b) = OverheadLen + b[3] + y
  BY <1>5, Zenon DEF FrameLen
<1>7. FrameLen(b) \in Nat /\ FrameLen(b) >= OverheadLen
  BY ONLY <1>2, <1>4, <1>5, <1>6
<1>8. b # <<>>
  BY <1>1, <1>2, EmptySeq
<1>9. QED
  BY <1>1, <1>2, <1>7, <1>8

\* What is left of a buffer after a turn is shorter.
LEMMA LeftOver ==
  ASSUME NEW b \in Bytes, Len(b) >= OverheadLen
  PROVE  /\ Tail(b) \in Bytes /\ Len(Tail(b)) < Len(b)
         /\ Complete(b) =>
              /\ SubSeq(b, 1, FrameLen(b)) \in Bytes
              /\ Len(SubSeq(b, 1, FrameLen(b))) = FrameLen(b)
              /\ SubSeq(b, FrameLen(b) + 1, Len(b)) \in Bytes
              /\ Len(SubSeq(b, FrameLen(b) + 1, Len(b))) < Len(b)
<1>1. /\ FrameLen(b) \in Nat /\ Len(b) \in Nat /\ FrameLen(b) >= 4 /\ b # <<>>
  BY HeaderRead
<1>2. Tail(b) \in Bytes /\ Len(Tail(b)) = Len(b) - 1
  BY <1>1, HeadTailProperties DEF Bytes
<1>3. ASSUME Complete(b)
      PROVE  /\ SubSeq(b, 1, FrameLen(b)) \in Bytes
             /\ Len(SubSeq(b, 1, FrameLen(b))) = FrameLen(b)
             /\ SubSeq(b, FrameLen(b) + 1, Len(b)) \in Bytes
             /\ Len(SubSeq(b, FrameLen(b) + 1, Len(b))) = Len(b) - FrameLen(b)
  <2>1. FrameLen(b) <= Len(b)
    BY <1>1, <1>3 DEF Complete
  <2>2. \A i \in 1..Len(b) : b[i] \in Byte
    BY ElementOfSeq DEF Bytes
  <2>3. /\ SubSeq(b, 1, FrameLen(b)) \in Bytes
        /\ Len(SubSeq(b, 1, FrameLen(b))) = FrameLen(b)
    <3>1. \A i \in 1..FrameLen(b) : b[i] \in Byte
      BY <1>1, <2>1, <2>2
    <3>2. QED
      BY <1>1, <3>1, SubSeqProperties DEF Bytes
  <2>4. /\ SubSeq(b, FrameLen(b) + 1, Len(b)) \in Bytes
        /\ Len(SubSeq(b, FrameLen(b) + 1, Len(b))) = Len(b) - FrameLen(b)
    <3>1. \A i \in (FrameLen(b) + 1)..Len(b) : b[i] \in Byte
      BY <1>1, <2>1, <2>2
    <3>2. QED
      BY <1>1, <2>1, <3>1, SubSeqProperties DEF Bytes
  <2>5. QED
    BY <2>3, <2>4
<1>4. QED
  BY <1>1, <1>2, <1>3

\* A turn looks at g for shorter buffers only.
LEMMA TurnIsLocal ==
  ASSUME NEW b \in Bytes, NEW g, NEW h,
         \A c \in Bytes : Len(c) < Len(b) => g[c] = h[c]
  PROVE  Turn(g, b) = Turn(h, b)
<1>1. CASE Len(b) < OverheadLen
  BY <1>1 DEF Turn
<1>2. CASE ~(Len(b) < OverheadLen)
  <2>1. Len(b) >= OverheadLen
    <3>1. Len(b) \in Nat /\ OverheadLen \in Nat
      BY FormatOK, LenProperties DEF Bytes, OverheadLen, HeaderLen
    <3>2. QED
      BY <1>2, <3>1
  <2>3. g[Tail(b)] = h[Tail(b)]
    BY <2>1, LeftOver
  <2>4. Complete(b) => g[SubSeq(b, FrameLen(b) + 1, Len(b))] = h[SubSeq(b, FrameLen(b) + 1, Len(b))]
    BY <2>1, LeftOver
  <2>5. QED
    BY <1>2, <2>3, <2>4 DEF Turn
<1>3. QED
  BY <1>1, <1>2

LEMMA TurnTyped ==
  ASSUME NEW b \in Bytes, NEW g,
         \A c \in Bytes : Len(c) < Len(b) => g[c] \in Outcomes
  PROVE  Turn(g, b) \in Outcomes
<1>1. [frames |-> <<>>, rest |-> b] \in Outcomes
  BY EmptySeq DEF Outcomes
<1>2. CASE ~(Len(b) < OverheadLen)
  <2>1. Len(b) >= OverheadLen
    <3>1. Len(b) \in Nat /\ OverheadLen \in Nat
      BY FormatOK, LenProperties DEF Bytes, OverheadLen, HeaderLen
    <3>2. QED
      BY <1>2, <3>1
  <2>3. g[Tail(b)] \in Outcomes
    BY <2>1, LeftOver
  <2>4. ASSUME Complete(b)
        PROVE  [g[SubSeq(b, FrameLen(b) + 1, Len(b))] EXCEPT
                 !.frames = << SubSeq(b, 1, FrameLen(b)) >> \o @] \in Outcomes
    <3>1. PICK o \in Outcomes : o = g[SubSeq(b, FrameLen(b) + 1, Len(b))]
      BY <2>1, <2>4, LeftOver
    <3>2. PICK f \in Bytes : f = SubSeq(b, 1, FrameLen(b))
      BY <2>1, <2>4, LeftOver
    <3>3. << f >> \o o.frames \in Seq(Bytes)
      BY <3>1, ConcatProperties DEF Outcomes
    <3>4. [o EXCEPT !.frames = << f >> \o @] \in Outcomes
      BY <3>1, <3>3 DEF Outcomes
    <3>5. QED
      BY <3>1, <3>2, <3>4
  <2>5. QED
    BY <1>1, <1>2, <2>3, <2>4 DEF Turn
<1>3. QED
  BY <1>1, <1>2 DEF Turn

\* What satisfies the equation for buffers of fewer than n bytes.
Shorter(n) == { b \in Bytes : Len(b) < n }
Solves(g, n) ==
  /\ g \in [Shorter(n) -> Outcomes]
  /\ \A b \in Shorter(n) : g[b] = Turn(g, b)

\* There is no more than one such function.
LEMMA SolutionIsUnique ==
  ASSUME NEW m \in Nat, NEW n \in Nat, NEW g, NEW h, Solves(g, m), Solves(h, n)
  PROVE  \A b \in Shorter(m) \cap Shorter(n) : g[b] = h[b]
<1> DEFINE Wrong == { l \in Nat : \E b \in Shorter(m) \cap Shorter(n) : Len(b) = l /\ g[b] # h[b] }
<1>1. SUFFICES ASSUME Wrong # {} PROVE FALSE
  BY LenProperties DEF Shorter, Bytes
<1>2. PICK l \in Wrong : \A k \in Wrong : l <= k
  <2>1. Wrong \in SUBSET Nat
    OBVIOUS
  <2> HIDE DEF Wrong
  <2>2. QED
    BY <1>1, <2>1, Least
<1>3. PICK b \in Shorter(m) \cap Shorter(n) : Len(b) = l /\ g[b] # h[b]
  BY <1>2
<1>4. ASSUME NEW c \in Bytes, Len(c) < Len(b)
      PROVE  g[c] = h[c]
  <2>1. Len(c) \in Nat /\ Len(b) \in Nat
    BY LenProperties DEF Bytes, Shorter
  <2>2. c \in Shorter(m) \cap Shorter(n)
    BY <1>4, <2>1 DEF Shorter
  <2>3. Len(c) \notin Wrong
    BY <1>2, <1>3, <1>4, <2>1
  <2>4. QED
    BY <2>1, <2>2, <2>3
<1>5. Turn(g, b) = Turn(h, b)
  BY <1>4, TurnIsLocal DEF Shorter
<1>6. QED
  BY <1>3, <1>5 DEF Solves

\* There is one for every length.
LEMMA SolutionExists ==
  ASSUME NEW n \in Nat
  PROVE  \E g : Solves(g, n)
<1> DEFINE Wrong == { k \in Nat : ~ \E g : Solves(g, k) }
<1>1. SUFFICES ASSUME Wrong # {} PROVE FALSE
  OBVIOUS
<1>2. PICK k \in Wrong : \A j \in Wrong : k <= j
  <2>1. Wrong \in SUBSET Nat
    OBVIOUS
  <2> HIDE DEF Wrong
  <2>2. QED
    BY <1>1, <2>1, Least
<1>3. k # 0
  <2>1. Shorter(0) = {}
    BY LenProperties DEF Shorter, Bytes
  <2>2. Solves([b \in Shorter(0) |-> b], 0)
    BY <2>1 DEF Solves
  <2>3. QED
    BY <2>2
<1>4. PICK g : Solves(g, k - 1)
  BY <1>2, <1>3
<1> DEFINE h == [b \in Shorter(k) |-> Turn(g, b)]
<1>5. ASSUME NEW b \in Shorter(k), NEW c \in Bytes, Len(c) < Len(b)
      PROVE  /\ c \in Shorter(k - 1) /\ c \in Shorter(k)
             /\ g[c] \in Outcomes /\ g[c] = Turn(g, c)
  <2>1. Len(c) \in Nat /\ Len(b) \in Nat
    BY LenProperties DEF Bytes, Shorter
  <2>2. c \in Shorter(k - 1) /\ c \in Shorter(k)
    BY <1>2, <1>5, <2>1 DEF Shorter
  <2>3. QED
    BY <1>4, <2>2 DEF Solves
<1>6. ASSUME NEW b \in Shorter(k)
      PROVE  h[b] \in Outcomes /\ h[b] = Turn(h, b)
  <2>1. b \in Bytes
    BY DEF Shorter
  <2>2. Turn(g, b) \in Outcomes
    BY <1>5, <2>1, TurnTyped
  <2>3. Turn(g, b) = Turn(h, b)
    BY <1>5, <2>1, TurnIsLocal
  <2>4. QED
    BY <2>2, <2>3
<1>7. Solves(h, k)
  BY <1>6 DEF Solves
<1>8. QED
  BY <1>2, <1>7

\* Assemble satisfies its equation.
LEMMA AssembleIs ==
  /\ Assemble \in [Bytes -> Outcomes]
  /\ \A b \in Bytes : Assemble[b] = Turn(Assemble, b)
<1> DEFINE Upto(n) == CHOOSE g : Solves(g, n)
           a == [b \in Bytes |-> Upto(Len(b) + 1)[b]]
<1>1. ASSUME NEW n \in Nat
      PROVE  Solves(Upto(n), n)
  BY SolutionExists
<1> HIDE DEF Upto
<1>2. ASSUME NEW b \in Bytes
      PROVE  a[b] \in Outcomes /\ a[b] = Turn(a, b)
  <2>1. Len(b) \in Nat /\ b \in Shorter(Len(b) + 1) /\ Solves(Upto(Len(b) + 1), Len(b) + 1)
    BY <1>1, LenProperties DEF Bytes, Shorter
  <2>2. a[b] = Turn(Upto(Len(b) + 1), b) /\ a[b] \in Outcomes
    BY <2>1 DEF Solves
  <2>3. ASSUME NEW c \in Bytes, Len(c) < Len(b)
        PROVE  Upto(Len(b) + 1)[c] = a[c]
    <3>1. Len(c) \in Nat /\ c \in Shorter(Len(c) + 1) /\ Solves(Upto(Len(c) + 1), Len(c) + 1)
      BY <1>1, LenProperties DEF Bytes, Shorter
    <3>2. c \in Shorter(Len(b) + 1)
      BY <2>1, <2>3, <3>1 DEF Shorter
    <3>3. Upto(Len(b) + 1)[c] = Upto(Len(c) + 1)[c]
      BY <2>1, <3>1, <3>2, SolutionIsUnique
    <3>4. QED
      BY <3>3
  <2>4. Turn(Upto(Len(b) + 1), b) = Turn(a, b)
    BY <2>3, TurnIsLocal
  <2>5. QED
    BY <2>2, <2>4
<1> HIDE DEF a
<1>3. a = [b \in Bytes |-> Turn(a, b)]
  <2>1. a = [b \in Bytes |-> a[b]]
    BY DEF a
  <2>2. QED
    BY <1>2, <2>1
<1>4. Assemble = CHOOSE g : g = [b \in Bytes |-> Turn(g, b)]
  BY DEF Assemble, Turn, Bytes
<1>5. Assemble = [b \in Bytes |-> Turn(Assemble, b)]
  BY <1>3, <1>4
<1>6. \A b \in Bytes : Assemble[b] = Turn(Assemble, b)
  BY <1>5
<1>7. ASSUME NEW b \in Bytes, Assemble[b] \notin Outcomes
      PROVE  FALSE
  <2> DEFINE Wrong == { n \in Nat : \E c \in Bytes : Len(c) = n /\ Assemble[c] \notin Outcomes }
  <2>1. Wrong \in SUBSET Nat /\ Wrong # {}
    BY <1>7, LenProperties DEF Bytes
  <2>2. PICK n \in Wrong : \A m \in Wrong : n <= m
    <3> HIDE DEF Wrong
    <3> QED BY <2>1, Least
  <2>3. PICK c \in Bytes : Len(c) = n /\ Assemble[c] \notin Outcomes
    BY <2>2
  <2>4. ASSUME NEW d \in Bytes, Len(d) < Len(c)
        PROVE  Assemble[d] \in Outcomes
    <3>1. Len(d) \in Nat /\ Len(c) \in Nat
      BY LenProperties DEF Bytes
    <3>2. Len(d) \notin Wrong
      BY <2>2, <2>3, <2>4, <3>1
    <3>3. QED
      BY <3>1, <3>2
  <2>5. QED
    BY <1>6, <2>3, <2>4, TurnTyped
<1>8. Assemble \in [Bytes -> Outcomes]
  BY <1>5, <1>7
<1>9. QED
  BY <1>6, <1>8

-----------------------------------------------------------------------------
(* What Assemble returns *)

\* Where two sequences were joined they come apart again.
LEMMA SplitConcat ==
  ASSUME NEW S, NEW s \in Seq(S), NEW t \in Seq(S)
  PROVE  /\ SubSeq(s \o t, 1, Len(s)) = s
         /\ SubSeq(s \o t, Len(s) + 1, Len(s \o t)) = t
<1>1. /\ Len(s) \in Nat /\ Len(t) \in Nat /\ Len(s \o t) = Len(s) + Len(t) /\ s \o t \in Seq(S)
      /\ \A i \in 1..(Len(s) + Len(t)) : (s \o t)[i] = IF i <= Len(s) THEN s[i] ELSE t[i - Len(s)]
      /\ \A i \in 1..(Len(s) + Len(t)) : (s \o t)[i] \in S
  BY ConcatProperties, LenProperties, ElementOfSeq
<1>2. /\ SubSeq(s \o t, 1, Len(s)) \in Seq(S) /\ Len(SubSeq(s \o t, 1, Len(s))) = Len(s)
      /\ \A i \in 1..Len(s) : SubSeq(s \o t, 1, Len(s))[i] = s[i]
  <2>1. \A i \in 1..Len(s) : (s \o t)[i] \in S
    BY <1>1
  <2>2. QED
    BY <1>1, <2>1, SubSeqProperties
<1>3. /\ SubSeq(s \o t, Len(s) + 1, Len(s \o t)) \in Seq(S)
      /\ Len(SubSeq(s \o t, Len(s) + 1, Len(s \o t))) = Len(t)
      /\ \A i \in 1..Len(t) : SubSeq(s \o t, Len(s) + 1, Len(s \o t))[i] = t[i]
  <2>1. \A i \in (Len(s) + 1)..(Len(s) + Len(t)) : (s \o t)[i] \in S
    BY <1>1
  <2>2. QED
    BY <1>1, <2>1, SubSeqProperties
<1>4. QED
  BY <1>2, <1>3, SeqEqual

\* A sequence that is cut, then the same with something behind it.
LEMMA CutAndFollowed ==
  ASSUME NEW S, NEW s \in Seq(S), NEW t \in Seq(S), NEW k \in 1..Len(s)
  PROVE  /\ s = SubSeq(s, 1, k) \o SubSeq(s, k + 1, Len(s))
         /\ SubSeq(s \o t, 1, k) = SubSeq(s, 1, k)
         /\ SubSeq(s \o t, k + 1, Len(s \o t)) = SubSeq(s, k + 1, Len(s)) \o t
<1>1. Len(s) \in Nat /\ \A i \in 1..Len(s) : s[i] \in S
  BY LenProperties, ElementOfSeq
<1>2. PICK f \in Seq(S) : f = SubSeq(s, 1, k) /\ Len(f) = k
  <2>1. \A i \in 1..k : s[i] \in S
    BY <1>1
  <2>2. 1 \in Int /\ k \in Int /\ 1 <= k /\ k - 1 + 1 = k
    OBVIOUS
  <2>3. SubSeq(s, 1, k) \in Seq(S) /\ Len(SubSeq(s, 1, k)) = k
    BY <2>1, <2>2, SubSeqProperties
  <2>4. QED
    BY <2>3
<1>3. PICK r \in Seq(S) : r = SubSeq(s, k + 1, Len(s))
  <2>1. \A i \in (k + 1)..Len(s) : s[i] \in S
    BY <1>1
  <2>2. k + 1 \in Int /\ Len(s) \in Int
    BY <1>1
  <2>3. SubSeq(s, k + 1, Len(s)) \in Seq(S)
    BY <2>1, <2>2, SubSeqProperties
  <2>4. QED
    BY <2>3
<1>4. s = f \o r
  <2>1. 1 \in 1..(Len(s) + 1) /\ k \in (1 - 1)..Len(s) /\ Len(s) \in k..Len(s)
    BY <1>1
  <2>2. SubSeq(s, 1, k) \o SubSeq(s, k + 1, Len(s)) = SubSeq(s, 1, Len(s))
    BY <2>1, ConcatAdjacentSubSeq
  <2>3. QED
    BY <1>2, <1>3, <2>2, SubSeqFull
<1>5. r \o t \in Seq(S) /\ s \o t = f \o (r \o t)
  BY <1>4, ConcatProperties, ConcatAssociative
<1>6. SubSeq(s \o t, 1, k) = f /\ SubSeq(s \o t, k + 1, Len(s \o t)) = r \o t
  <2>1. PICK u \in Seq(S) : u = r \o t /\ s \o t = f \o u
    BY <1>5
  <2>2. /\ SubSeq(f \o u, 1, Len(f)) = f
        /\ SubSeq(f \o u, Len(f) + 1, Len(f \o u)) = u
    BY SplitConcat
  <2>3. QED
    BY <1>2, <2>1, <2>2
<1>7. QED
  BY <1>2, <1>3, <1>4, <1>6

LEMMA WithFrames ==
  ASSUME NEW o \in Outcomes, NEW fs \in Seq(Bytes)
  PROVE  [o EXCEPT !.frames = fs] = [frames |-> fs, rest |-> o.rest]
<1>1. /\ [o EXCEPT !.frames = fs] \in Outcomes
      /\ [o EXCEPT !.frames = fs].frames = fs /\ [o EXCEPT !.frames = fs].rest = o.rest
  BY DEF Outcomes
<1>2. \A x \in Outcomes : x = [frames |-> x.frames, rest |-> x.rest]
  BY DEF Outcomes
<1>3. QED
  BY <1>1, <1>2

\* What the loop has taken out and kept of b does not depend on what follows b.
LEMMA AssembleContinues ==
  ASSUME NEW b \in Bytes, NEW c \in Bytes
  PROVE  LET first == Assemble[b]
             next == Assemble[first.rest \o c]
         IN  Assemble[b \o c] = [frames |-> first.frames \o next.frames, rest |-> next.rest]
<1> DEFINE Joined(d) == [frames |-> Assemble[d].frames \o Assemble[Assemble[d].rest \o c].frames,
                         rest |-> Assemble[Assemble[d].rest \o c].rest]
           Wrong == { n \in Nat : \E d \in Bytes : Len(d) = n /\ Assemble[d \o c] # Joined(d) }
<1>1. SUFFICES ASSUME Wrong # {} PROVE FALSE
  BY LenProperties DEF Bytes
<1>2. PICK n \in Wrong : \A m \in Wrong : n <= m
  <2>1. Wrong \in SUBSET Nat
    OBVIOUS
  <2> HIDE DEF Wrong
  <2>2. QED
    BY <1>1, <2>1, Least
<1>3. PICK d \in Bytes : Len(d) = n /\ Assemble[d \o c] # Joined(d)
  BY <1>2
<1>4. ASSUME NEW e \in Bytes, Len(e) < Len(d)
      PROVE  Assemble[e \o c] = Joined(e)
  <2>1. Len(e) \in Nat /\ Len(d) \in Nat
    BY LenProperties DEF Bytes
  <2>2. Len(e) \notin Wrong
    <3> HIDE DEF Wrong
    <3> QED BY <1>2, <1>3, <1>4, <2>1
  <2>3. QED
    BY <2>1, <2>2
<1>5. d \o c \in Bytes
  BY ConcatProperties DEF Bytes
<1>6. ASSUME Assemble[d] = [frames |-> <<>>, rest |-> d]
      PROVE  FALSE
  <2>1. Assemble[d \o c] \in Outcomes
    BY <1>5, AssembleIs
  <2>2. PICK o \in Outcomes : o = Assemble[d \o c]
    BY <2>1
  <2>3. <<>> \o o.frames = o.frames
    BY ConcatEmptySeq DEF Outcomes
  <2>4. o = [frames |-> o.frames, rest |-> o.rest]
    BY DEF Outcomes
  <2>5. Joined(d) = [frames |-> <<>> \o o.frames, rest |-> o.rest]
    BY <1>6, <2>2
  <2>6. QED
    BY <1>3, <2>2, <2>3, <2>4, <2>5
<1>7. Len(d) >= OverheadLen
  <2>1. Len(d) \in Nat /\ OverheadLen \in Nat
    BY FormatOK, LenProperties DEF Bytes, OverheadLen, HeaderLen
  <2>2. Len(d) < OverheadLen => Assemble[d] = [frames |-> <<>>, rest |-> d]
    BY AssembleIs DEF Turn
  <2>3. QED
    BY <1>6, <2>1, <2>2
<1>8. /\ Len(d \o c) = Len(d) + Len(c) /\ Len(d) \in Nat /\ Len(c) \in Nat
      /\ OverheadLen \in Nat /\ FrameLen(d) \in Nat /\ FrameLen(d) >= 4
      /\ FrameLen(d \o c) = FrameLen(d)
  <2>1. /\ Len(d \o c) = Len(d) + Len(c) /\ Len(d) \in Nat /\ Len(c) \in Nat
        /\ \A i \in 1 .. Len(d) + Len(c) : (d \o c)[i] = IF i <= Len(d) THEN d[i] ELSE c[i - Len(d)]
    BY ConcatProperties, LenProperties DEF Bytes
  <2>2. OverheadLen \in Nat /\ OverheadLen >= 4 /\ FrameLen(d) \in Nat /\ FrameLen(d) >= 4
    BY <1>7, HeaderRead
  <2>3. (d \o c)[3] = d[3] /\ (d \o c)[4] = d[4]
    BY <1>7, <2>1, <2>2
  <2>4. FrameLen(d \o c) = FrameLen(d)
    BY <2>3 DEF FrameLen
  <2>5. QED
    BY <2>1, <2>2, <2>4
<1>9. Len(d \o c) >= OverheadLen /\ ~(Len(d) < OverheadLen) /\ ~(Len(d \o c) < OverheadLen)
  BY <1>7, <1>8
<1>10. (Impossible(d \o c) <=> Impossible(d)) /\ (Complete(d) => Complete(d \o c))
  BY <1>8 DEF Impossible, Complete
<1>11. CASE Impossible(d)
  <2>1. Assemble[d] = Assemble[Tail(d)] /\ Assemble[d \o c] = Assemble[Tail(d \o c)]
    BY <1>5, <1>9, <1>10, <1>11, AssembleIs DEF Turn
  <2>2. Tail(d) \in Bytes /\ Len(Tail(d)) < Len(d)
    BY <1>7, LeftOver
  <2>3. Tail(d \o c) = Tail(d) \o c
    BY <1>7, <1>8, HeaderRead DEF Bytes
  <2>4. Assemble[Tail(d) \o c] = Joined(Tail(d))
    BY <1>4, <2>2
  <2>5. QED
    BY <1>3, <2>1, <2>3, <2>4
<1>12. CASE ~Impossible(d) /\ Complete(d)
  <2> DEFINE f == SubSeq(d, 1, FrameLen(d))
             r == SubSeq(d, FrameLen(d) + 1, Len(d))
  <2>1. /\ f \in Bytes /\ Len(f) = FrameLen(d) /\ r \in Bytes /\ Len(r) < Len(d)
        /\ FrameLen(d) <= Len(d)
    BY <1>7, <1>8, <1>12, LeftOver DEF Complete
  <2>2. d = f \o r
    <3>1. FrameLen(d) \in 1..Len(d)
      BY <1>8, <2>1
    <3>2. QED
      BY <3>1, CutAndFollowed DEF Bytes
  <2>3. r \o c \in Bytes
    BY <2>1, ConcatProperties DEF Bytes
  <2>4. SubSeq(d \o c, 1, FrameLen(d)) = f /\ SubSeq(d \o c, FrameLen(d) + 1, Len(d \o c)) = r \o c
    <3>1. FrameLen(d) \in 1..Len(d)
      BY <1>8, <2>1
    <3>2. QED
      BY <3>1, CutAndFollowed DEF Bytes
  <2> HIDE DEF f, r
  <2>5. Assemble[d] = [Assemble[r] EXCEPT !.frames = << f >> \o @]
    BY <1>9, <1>12, AssembleIs DEF Turn, f, r
  <2>6. Assemble[d \o c] = [Assemble[r \o c] EXCEPT !.frames = << f >> \o @]
    <3>1. Assemble[d \o c] = Turn(Assemble, d \o c) /\ Complete(d \o c) /\ ~Impossible(d \o c)
      BY <1>5, <1>10, <1>12, AssembleIs
    <3>2. FrameLen(d \o c) = FrameLen(d)
      BY <1>8
    <3>3. Turn(Assemble, d \o c) = [Assemble[r \o c] EXCEPT !.frames = << f >> \o @]
      BY <1>9, <2>4, <3>1, <3>2, Zenon DEF Turn
    <3>4. QED
      BY <3>1, <3>3
  <2>7. Assemble[r \o c] = Joined(r)
    BY <1>4, <2>1
  <2>8. PICK o \in Outcomes : o = Assemble[r]
    BY <2>1, AssembleIs
  <2>9. PICK x \in Outcomes : x = Assemble[o.rest \o c]
    <3>1. o.rest \o c \in Bytes
      BY <2>8, ConcatProperties DEF Outcomes, Bytes
    <3>2. QED
      BY <3>1, AssembleIs
  <2>10. Assemble[d] = [frames |-> << f >> \o o.frames, rest |-> o.rest]
    BY <2>5, <2>8 DEF Outcomes
  <2>11. Joined(d) = [frames |-> (<< f >> \o o.frames) \o x.frames, rest |-> x.rest]
    BY <2>9, <2>10
  <2>12. Assemble[r \o c] = [frames |-> o.frames \o x.frames, rest |-> x.rest]
    BY <2>7, <2>8, <2>9
  <2>13. Assemble[d \o c] = [frames |-> << f >> \o (o.frames \o x.frames), rest |-> x.rest]
    <3>1. o.frames \o x.frames \in Seq(Bytes) /\ << f >> \o (o.frames \o x.frames) \in Seq(Bytes)
      BY <2>1, ConcatProperties DEF Outcomes
    <3>2. PICK y \in Outcomes : y = [frames |-> o.frames \o x.frames, rest |-> x.rest]
      BY <3>1 DEF Outcomes
    <3>3. [y EXCEPT !.frames = << f >> \o @] = [frames |-> << f >> \o y.frames, rest |-> y.rest]
      BY <3>1, <3>2, WithFrames
    <3>4. QED
      BY <2>6, <2>12, <3>2, <3>3
  <2>14. << f >> \o (o.frames \o x.frames) = (<< f >> \o o.frames) \o x.frames
    BY <2>1, ConcatAssociative DEF Outcomes
  <2>15. QED
    BY <1>3, <2>11, <2>13, <2>14
<1>13. CASE ~Impossible(d) /\ ~Complete(d)
  BY <1>6, <1>9, <1>13, AssembleIs DEF Turn
<1>14. QED
  BY <1>11, <1>12, <1>13

LEMMA ContinuedParts ==
  ASSUME NEW b \in Bytes, NEW c \in Bytes
  PROVE  /\ Assemble[b \o c].frames = Assemble[b].frames \o Assemble[Assemble[b].rest \o c].frames
         /\ Assemble[b \o c].rest = Assemble[Assemble[b].rest \o c].rest
<1>1. PICK fs : fs = Assemble[b].frames \o Assemble[Assemble[b].rest \o c].frames
  OBVIOUS
<1>2. PICK left : left = Assemble[Assemble[b].rest \o c].rest
  OBVIOUS
<1>3. Assemble[b \o c] = [frames |-> fs, rest |-> left]
  BY <1>1, <1>2, AssembleContinues
<1>4. Assemble[b \o c].frames = fs /\ Assemble[b \o c].rest = left
  BY ONLY <1>3
<1>5. QED
  BY <1>1, <1>2, <1>4

\* What the loop keeps is less than a frame.
LEMMA RestIsShort ==
  ASSUME NEW b \in Bytes
  PROVE  Len(Assemble[b].rest) < MaxFrameLen
<1> DEFINE Wrong == { n \in Nat : \E d \in Bytes : Len(d) = n /\ ~(Len(Assemble[d].rest) < MaxFrameLen) }
<1>1. SUFFICES ASSUME Wrong # {} PROVE FALSE
  BY LenProperties DEF Bytes
<1>2. PICK n \in Wrong : \A m \in Wrong : n <= m
  <2>1. Wrong \in SUBSET Nat
    OBVIOUS
  <2> HIDE DEF Wrong
  <2>2. QED
    BY <1>1, <2>1, Least
<1>3. PICK d \in Bytes : Len(d) = n /\ ~(Len(Assemble[d].rest) < MaxFrameLen)
  BY <1>2
<1>4. ASSUME NEW e \in Bytes, Len(e) < Len(d)
      PROVE  Len(Assemble[e].rest) < MaxFrameLen
  <2>1. Len(e) \in Nat /\ Len(d) \in Nat
    BY LenProperties DEF Bytes
  <2>2. Len(e) \notin Wrong
    <3> HIDE DEF Wrong
    <3> QED BY <1>2, <1>3, <1>4, <2>1
  <2>3. QED
    BY <2>1, <2>2
<1>5. Len(d) \in Nat /\ OverheadLen \in Nat /\ OverheadLen <= MaxFrameLen /\ MaxFrameLen \in Nat
  <2>1. Len(d) \in Nat /\ OverheadLen \in Nat
    BY FormatOK, LenProperties DEF Bytes, OverheadLen, HeaderLen
  <2>2. QED
    BY <2>1, FormatOK
<1>6. CASE Len(d) < OverheadLen
  <2>1. Assemble[d] = [frames |-> <<>>, rest |-> d]
    BY <1>6, AssembleIs DEF Turn
  <2>2. Assemble[d].rest = d
    BY <2>1
  <2>3. QED
    BY <1>3, <1>5, <1>6, <2>2
<1>7. CASE Len(d) >= OverheadLen
  <2>1. ~(Len(d) < OverheadLen) /\ FrameLen(d) \in Nat
    BY <1>5, <1>7, HeaderRead
  <2>2. CASE Impossible(d)
    BY <1>3, <1>4, <1>7, <2>1, <2>2, LeftOver, AssembleIs DEF Turn
  <2>3. CASE ~Impossible(d) /\ ~Complete(d)
    <3>1. Assemble[d] = [frames |-> <<>>, rest |-> d]
      BY <2>1, <2>3, AssembleIs DEF Turn
    <3>2. Assemble[d].rest = d
      BY <3>1
    <3>3. QED
      BY <1>3, <1>5, <2>1, <2>3, <3>2 DEF Impossible, Complete
  <2>4. CASE ~Impossible(d) /\ Complete(d)
    <3>1. PICK r \in Bytes : r = SubSeq(d, FrameLen(d) + 1, Len(d)) /\ Len(r) < Len(d)
      BY <1>7, <2>4, LeftOver
    <3>2. PICK f : f = << SubSeq(d, 1, FrameLen(d)) >>
      OBVIOUS
    <3>3. Assemble[d] = [Assemble[r] EXCEPT !.frames = f \o @]
      BY <2>1, <2>4, <3>1, <3>2, AssembleIs DEF Turn
    <3>4. Assemble[r] \in Outcomes
      BY <3>1, AssembleIs
    <3>5. Assemble[d].rest = Assemble[r].rest
      BY <3>3, <3>4 DEF Outcomes
    <3>6. QED
      BY <1>3, <1>4, <3>1, <3>5
  <2>5. QED
    BY <2>2, <2>3, <2>4
<1>8. QED
  BY <1>5, <1>6, <1>7

-----------------------------------------------------------------------------
(* FlattenSeq, and what it makes of frames *)

\* Its recursive function, for the first n elements of s.
Flattens(s, g, n) ==
  g = [i \in 1..n |-> IF i = 1 THEN s[i] ELSE g[i - 1] \o s[i]]

\* There is no more than one such function.
LEMMA FlattensOnce ==
  ASSUME NEW s, NEW n \in Nat, NEW g, NEW h, Flattens(s, g, n), Flattens(s, h, n)
  PROVE  g = h
<1> DEFINE Wrong == { i \in 1..n : g[i] # h[i] }
<1>1. CASE Wrong = {}
  <2>1. g = [i \in 1..n |-> g[i]] /\ h = [i \in 1..n |-> h[i]]
    <3>1. DOMAIN g = 1..n /\ DOMAIN h = 1..n
      BY DEF Flattens
    <3>2. g = [i \in DOMAIN g |-> g[i]] /\ h = [i \in DOMAIN h |-> h[i]]
      BY DEF Flattens
    <3>3. QED
      BY <3>1, <3>2
  <2>2. \A i \in 1..n : g[i] = h[i]
    BY <1>1
  <2>3. QED
    BY <2>1, <2>2
<1>2. CASE Wrong # {}
  <2>1. PICK i \in Wrong : \A j \in Wrong : i <= j
    <3>1. Wrong \in SUBSET Nat
      OBVIOUS
    <3> HIDE DEF Wrong
    <3>2. QED
      BY <1>2, <3>1, Least
  <2>2. i \in 1..n /\ g[i] # h[i]
    BY <2>1
  <2>3. i # 1 => g[i - 1] = h[i - 1]
    <3>1. ASSUME i # 1
          PROVE  i - 1 \in 1..n /\ i - 1 \notin Wrong
      <4>1. i - 1 \in 1..n /\ ~(i <= i - 1)
        BY <2>2, <3>1
      <4> HIDE DEF Wrong
      <4>2. QED
        BY <2>1, <4>1
    <3>2. QED
      BY <3>1
  <2>4. /\ g[i] = IF i = 1 THEN s[i] ELSE g[i - 1] \o s[i]
        /\ h[i] = IF i = 1 THEN s[i] ELSE h[i - 1] \o s[i]
    BY <2>2 DEF Flattens
  <2>5. QED
    BY <2>2, <2>3, <2>4
<1>3. QED
  BY <1>1, <1>2

LEMMA FlattensExists ==
  ASSUME NEW S, NEW s \in Seq(Seq(S))
  PROVE  \E g \in [1..Len(s) -> Seq(S)] : Flattens(s, g, Len(s))
<1> DEFINE Wrong == { n \in 0..Len(s) : ~ \E g \in [1..n -> Seq(S)] : Flattens(s, g, n) }
<1>1. Len(s) \in Nat /\ \A i \in 1..Len(s) : s[i] \in Seq(S)
  BY LenProperties, ElementOfSeq
<1>2. SUFFICES ASSUME Wrong # {} PROVE FALSE
  BY <1>1
<1>3. PICK n \in Wrong : \A m \in Wrong : n <= m
  <2>1. Wrong \in SUBSET Nat
    BY <1>1
  <2> HIDE DEF Wrong
  <2>2. QED
    BY <1>2, <2>1, Least
<1>4. n \in 0..Len(s) /\ n \in Nat
  BY <1>1, <1>3
<1>5. n # 0
  <2>1. ASSUME n = 0
        PROVE  <<>> \in [1..n -> Seq(S)] /\ Flattens(s, <<>>, n)
    BY <2>1 DEF Flattens
  <2>2. QED
    BY <1>3, <2>1
<1>6. n - 1 \in 0..Len(s) /\ n - 1 \notin Wrong
  <2>1. n - 1 \in 0..Len(s) /\ ~(n <= n - 1)
    BY <1>1, <1>4, <1>5
  <2> HIDE DEF Wrong
  <2>2. QED
    BY <1>3, <2>1
<1>7. PICK g \in [1..(n - 1) -> Seq(S)] : Flattens(s, g, n - 1)
  BY <1>6
<1> DEFINE h == [i \in 1..n |-> IF i = n THEN (IF n = 1 THEN s[n] ELSE g[n - 1] \o s[n]) ELSE g[i]]
<1>8. \A i \in 1..n : h[i] \in Seq(S)
  <2>1. s[n] \in Seq(S)
    BY <1>1, <1>4, <1>5
  <2>2. n # 1 => g[n - 1] \in Seq(S) /\ g[n - 1] \o s[n] \in Seq(S)
    BY <1>4, <1>5, <1>7, <2>1, ConcatProperties
  <2>3. QED
    BY <1>4, <1>5, <1>7, <2>1, <2>2
<1>9. ASSUME NEW i \in 1..n
      PROVE  h[i] = IF i = 1 THEN s[i] ELSE h[i - 1] \o s[i]
  <2>1. CASE i = n
    <3>1. n # 1 => n - 1 \in 1..n /\ h[n - 1] = g[n - 1]
      BY <1>4, <1>5
    <3>2. QED
      BY <2>1, <3>1
  <2>2. CASE i # n
    <3>1. i \in 1..(n - 1) /\ h[i] = g[i]
      BY <1>4, <2>2
    <3>2. i # 1 => i - 1 \in 1..n /\ i - 1 # n /\ h[i - 1] = g[i - 1]
      BY <1>4, <3>1
    <3>3. g[i] = IF i = 1 THEN s[i] ELSE g[i - 1] \o s[i]
      BY <1>7, <3>1 DEF Flattens
    <3>4. QED
      BY <3>1, <3>2, <3>3
  <2>3. QED
    BY <2>1, <2>2
<1>10. h \in [1..n -> Seq(S)] /\ Flattens(s, h, n)
  <2>1. h = [i \in 1..n |-> h[i]]
    OBVIOUS
  <2> HIDE DEF h
  <2>2. QED
    BY <1>8, <1>9, <2>1 DEF Flattens
<1>11. QED
  BY <1>3, <1>10

\* FlattenSeq of a sequence that is not empty.
LEMMA FlattenIs ==
  ASSUME NEW S, NEW s \in Seq(Seq(S)), s # <<>>
  PROVE  \E g \in [1..Len(s) -> Seq(S)] : Flattens(s, g, Len(s)) /\ FlattenSeq(s) = g[Len(s)]
<1>1. Len(s) \in Nat \ {0}
  BY EmptySeq
<1> DEFINE g == CHOOSE f : Flattens(s, f, Len(s))
<1>2. FlattenSeq(s) = g[Len(s)]
  BY <1>1 DEF FlattenSeq, Flattens
<1>3. PICK h \in [1..Len(s) -> Seq(S)] : Flattens(s, h, Len(s))
  BY FlattensExists
<1>4. Flattens(s, g, Len(s))
  BY <1>3
<1> HIDE DEF g
<1>5. g = h
  BY <1>1, <1>3, <1>4, FlattensOnce
<1>6. g \in [1..Len(s) -> Seq(S)]
  BY <1>5
<1>7. QED
  BY <1>2, <1>4, <1>6

LEMMA FlattenTyped ==
  ASSUME NEW S, NEW s \in Seq(Seq(S))
  PROVE  FlattenSeq(s) \in Seq(S)
<1>1. CASE s = <<>>
  BY <1>1, EmptySeq DEF FlattenSeq
<1>2. CASE s # <<>>
  <2>1. Len(s) \in Nat \ {0}
    BY <1>2, EmptySeq
  <2>2. PICK g \in [1..Len(s) -> Seq(S)] : FlattenSeq(s) = g[Len(s)]
    BY <1>2, FlattenIs
  <2>3. g[Len(s)] \in Seq(S)
    <3>1. PICK n \in Nat \ {0} : n = Len(s)
      BY <2>1
    <3>2. g \in [1..n -> Seq(S)]
      BY <3>1
    <3>3. g[n] \in Seq(S)
      BY <3>2
    <3>4. QED
      BY <3>1, <3>3
  <2>4. QED
    BY <2>2, <2>3
<1>3. QED
  BY <1>1, <1>2

LEMMA FlattenAppend ==
  ASSUME NEW S, NEW s \in Seq(Seq(S)), NEW x \in Seq(S)
  PROVE  FlattenSeq(Append(s, x)) = FlattenSeq(s) \o x
<1> DEFINE t == Append(s, x)
           n == Len(s) + 1
<1>1. /\ t \in Seq(Seq(S)) /\ t # <<>> /\ Len(t) = n /\ Len(s) \in Nat /\ n = Len(s) + 1
      /\ t[n] = x /\ \A i \in 1..Len(s) : t[i] = s[i]
  BY AppendProperties, LenProperties
<1> HIDE DEF t, n
<1>2. PICK h \in [1..n -> Seq(S)] : Flattens(t, h, n) /\ FlattenSeq(t) = h[n]
  BY <1>1, FlattenIs
<1>3. CASE s = <<>>
  <2>1. n = 1 /\ FlattenSeq(s) = <<>>
    BY <1>3, EmptySeq DEF FlattenSeq, n
  <2>2. h[n] = t[n]
    BY <1>2, <2>1 DEF Flattens
  <2>3. FlattenSeq(t) = x /\ <<>> \o x = x
    BY <1>1, <1>2, <2>2, ConcatEmptySeq
  <2>4. QED
    BY <2>1, <2>3 DEF t
<1>4. CASE s # <<>>
  <2>1. PICK g \in [1..Len(s) -> Seq(S)] : Flattens(s, g, Len(s)) /\ FlattenSeq(s) = g[Len(s)]
    BY <1>4, FlattenIs
  <2>2. Len(s) \in 1..Len(s) /\ n # 1 /\ n \in 1..n /\ n - 1 = Len(s) /\ Len(s) <= n /\ n \in Nat
    BY <1>1, <1>4, EmptySeq DEF n
  <2>3. \A i \in 1..Len(s) : s[i] = t[i]
    BY <1>1
  <2>4. PICK m \in Nat : m = Len(s)
    BY <1>1
  <2> DEFINE front == [i \in 1..m |-> h[i]]
  <2>5. ASSUME NEW i \in 1..m
        PROVE  front[i] = IF i = 1 THEN s[i] ELSE front[i - 1] \o s[i]
    <3>1. i \in 1..n /\ (i # 1 => i - 1 \in 1..m)
      BY <2>2, <2>4
    <3>2. h[i] = IF i = 1 THEN t[i] ELSE h[i - 1] \o t[i]
      BY <1>2, <3>1 DEF Flattens
    <3>3. t[i] = s[i]
      BY <2>3, <2>4
    <3>4. QED
      BY <3>1, <3>2, <3>3
  <2>6. Flattens(s, front, m)
    BY <2>5 DEF Flattens
  <2> HIDE DEF front
  <2>7. g = front
    BY <2>1, <2>4, <2>6, FlattensOnce
  <2>8. g[Len(s)] = h[Len(s)]
    BY <2>2, <2>4, <2>7 DEF front
  <2>9. h[n] = h[n - 1] \o t[n]
    BY <1>2, <2>2 DEF Flattens
  <2>10. FlattenSeq(t) = FlattenSeq(s) \o x
    BY <1>1, <1>2, <2>1, <2>2, <2>8, <2>9
  <2>11. QED
    BY <2>10 DEF t
<1>5. QED
  BY <1>3, <1>4

LEMMA FlattenConcatAppend ==
  ASSUME NEW S, NEW s \in Seq(Seq(S)), NEW v \in Seq(Seq(S)), NEW x \in Seq(S),
         FlattenSeq(s \o v) = FlattenSeq(s) \o FlattenSeq(v)
  PROVE  FlattenSeq(s \o Append(v, x)) = FlattenSeq(s) \o FlattenSeq(Append(v, x))
<1>1. /\ << x >> \in Seq(Seq(S)) /\ s \o v \in Seq(Seq(S))
      /\ Append(v, x) = v \o << x >> /\ Append(s \o v, x) = (s \o v) \o << x >>
  BY ConcatProperties, AppendIsConcat
<1>2. s \o Append(v, x) = Append(s \o v, x)
  BY <1>1, ConcatAssociative
<1>3. FlattenSeq(s \o Append(v, x)) = (FlattenSeq(s) \o FlattenSeq(v)) \o x
  BY <1>1, <1>2, FlattenAppend
<1>4. FlattenSeq(Append(v, x)) = FlattenSeq(v) \o x
  BY FlattenAppend
<1>5. (FlattenSeq(s) \o FlattenSeq(v)) \o x = FlattenSeq(s) \o (FlattenSeq(v) \o x)
  <2>1. PICK a \in Seq(S), b \in Seq(S) : a = FlattenSeq(s) /\ b = FlattenSeq(v)
    BY FlattenTyped
  <2>2. (a \o b) \o x = a \o (b \o x)
    BY ConcatAssociative
  <2>3. QED
    BY <2>1, <2>2
<1>6. QED
  BY <1>3, <1>4, <1>5

LEMMA FlattenConcat ==
  ASSUME NEW S, NEW s \in Seq(Seq(S)), NEW t \in Seq(Seq(S))
  PROVE  FlattenSeq(s \o t) = FlattenSeq(s) \o FlattenSeq(t)
<1> DEFINE Wrong == { n \in Nat : \E u \in Seq(Seq(S)) :
                        Len(u) = n /\ FlattenSeq(s \o u) # FlattenSeq(s) \o FlattenSeq(u) }
<1>1. SUFFICES ASSUME Wrong # {} PROVE FALSE
  BY LenProperties
<1>2. PICK n \in Wrong : \A m \in Wrong : n <= m
  <2>1. Wrong \in SUBSET Nat
    OBVIOUS
  <2> HIDE DEF Wrong
  <2>2. QED
    BY <1>1, <2>1, Least
<1>3. PICK u \in Seq(Seq(S)) : Len(u) = n /\ FlattenSeq(s \o u) # FlattenSeq(s) \o FlattenSeq(u)
  BY <1>2
<1> HIDE DEF Wrong
<1>4. u # <<>>
  <2>1. FlattenSeq(s) \in Seq(S) /\ FlattenSeq(<<>>) = <<>>
    BY FlattenTyped DEF FlattenSeq
  <2>2. s \o <<>> = s /\ FlattenSeq(s) \o <<>> = FlattenSeq(s)
    BY <2>1, ConcatEmptySeq
  <2>3. QED
    BY <1>3, <2>1, <2>2
<1>5. PICK v \in Seq(Seq(S)), x \in Seq(S) : u = Append(v, x)
  BY <1>4, SequenceEmptyOrAppend
<1>6. FlattenSeq(s \o v) = FlattenSeq(s) \o FlattenSeq(v)
  <2>1. Len(v) \in Nat /\ Len(u) = Len(v) + 1
    BY <1>5, AppendProperties, LenProperties
  <2>2. Len(v) \notin Wrong
    BY <1>2, <1>3, <2>1
  <2>3. QED
    BY <2>1, <2>2 DEF Wrong
<1>7. QED
  BY <1>3, <1>5, <1>6, FlattenConcatAppend

LEMMA ThatParseTyped ==
  ASSUME NEW s \in Seq(Bytes)
  PROVE  /\ [i \in DOMAIN s |-> IF Parses(s[i]) THEN << s[i] >> ELSE <<>>] \in Seq(Seq(Bytes))
         /\ ThatParse(s) \in Seq(Bytes)
<1> DEFINE picks == [i \in DOMAIN s |-> IF Parses(s[i]) THEN << s[i] >> ELSE <<>>]
<1>1. picks \in Seq(Seq(Bytes))
  <2>1. PICK n \in Nat : n = Len(s) /\ DOMAIN s = 1..n /\ \A i \in 1..n : s[i] \in Bytes
    BY LenProperties, ElementOfSeq
  <2>2. \A x \in Bytes : << x >> \in Seq(Bytes) /\ <<>> \in Seq(Bytes)
    OBVIOUS
  <2>3. picks \in [1..n -> Seq(Bytes)]
    BY <2>1, <2>2
  <2>4. QED
    BY <2>3, SeqDef
<1>2. QED
  BY <1>1, FlattenTyped DEF ThatParse

\* The handler's loop treats the frames one by one.
LEMMA ThatParseConcat ==
  ASSUME NEW s \in Seq(Bytes), NEW t \in Seq(Bytes)
  PROVE  ThatParse(s \o t) = ThatParse(s) \o ThatParse(t)
<1> DEFINE Picks(u) == [i \in DOMAIN u |-> IF Parses(u[i]) THEN << u[i] >> ELSE <<>>]
<1>1. /\ s \o t \in Seq(Bytes) /\ Len(s \o t) = Len(s) + Len(t) /\ Len(s) \in Nat /\ Len(t) \in Nat
      /\ \A i \in 1..(Len(s) + Len(t)) : (s \o t)[i] = IF i <= Len(s) THEN s[i] ELSE t[i - Len(s)]
  BY ConcatProperties, LenProperties
<1>2. ASSUME NEW u \in Seq(Bytes)
      PROVE  /\ Picks(u) \in Seq(Seq(Bytes)) /\ Len(Picks(u)) = Len(u)
             /\ \A i \in 1..Len(u) : Picks(u)[i] = IF Parses(u[i]) THEN << u[i] >> ELSE <<>>
  <2>1. Picks(u) \in Seq(Seq(Bytes))
    BY ThatParseTyped
  <2>2. DOMAIN u = 1..Len(u) /\ Len(u) \in Nat /\ DOMAIN Picks(u) = DOMAIN u
    BY LenProperties
  <2>3. DOMAIN Picks(u) = 1..Len(Picks(u)) /\ Len(Picks(u)) \in Nat
    <3> HIDE DEF Picks
    <3> QED BY <2>1, LenProperties
  <2>4. Len(Picks(u)) = Len(u)
    <3> HIDE DEF Picks
    <3> QED BY <2>2, <2>3
  <2>5. QED
    BY <2>1, <2>2, <2>4
<1> HIDE DEF Picks
<1>3. PICK a \in Seq(Seq(Bytes)), b \in Seq(Seq(Bytes)), c \in Seq(Seq(Bytes)) :
        a = Picks(s) /\ b = Picks(t) /\ c = Picks(s \o t)
  BY <1>1, <1>2
<1>4. Len(a) = Len(s) /\ Len(b) = Len(t) /\ Len(c) = Len(s) + Len(t)
  BY <1>1, <1>2, <1>3
<1>5. /\ a \o b \in Seq(Seq(Bytes)) /\ Len(a \o b) = Len(s) + Len(t)
      /\ \A i \in 1..(Len(s) + Len(t)) : (a \o b)[i] = IF i <= Len(s) THEN a[i] ELSE b[i - Len(s)]
  <2>1. /\ a \o b \in Seq(Seq(Bytes)) /\ Len(a \o b) = Len(a) + Len(b)
        /\ \A i \in 1..(Len(a) + Len(b)) : (a \o b)[i] = IF i <= Len(a) THEN a[i] ELSE b[i - Len(a)]
    BY ConcatProperties
  <2>2. QED
    BY <1>4, <2>1, Zenon
<1>6. ASSUME NEW i \in 1..(Len(s) + Len(t))
      PROVE  (a \o b)[i] = c[i]
  <2>1. CASE i <= Len(s)
    <3>1. i \in 1..Len(s) /\ (s \o t)[i] = s[i]
      BY <1>1, <2>1
    <3>2. a[i] = IF Parses(s[i]) THEN << s[i] >> ELSE <<>>
      BY <1>2, <1>3, <3>1
    <3>3. c[i] = IF Parses(s[i]) THEN << s[i] >> ELSE <<>>
      BY <1>1, <1>2, <1>3, <3>1
    <3>4. QED
      BY <1>5, <2>1, <3>2, <3>3
  <2>2. CASE ~(i <= Len(s))
    <3>1. PICK j \in 1..Len(t) : j = i - Len(s) /\ (s \o t)[i] = t[j]
      BY <1>1, <2>2
    <3>2. b[j] = IF Parses(t[j]) THEN << t[j] >> ELSE <<>>
      BY <1>2, <1>3
    <3>3. c[i] = IF Parses(t[j]) THEN << t[j] >> ELSE <<>>
      BY <1>1, <1>2, <1>3, <3>1
    <3>4. QED
      BY <1>5, <2>2, <3>1, <3>2, <3>3
  <2>3. QED
    BY <2>1, <2>2
<1>7. a \o b = c
  BY <1>1, <1>4, <1>5, <1>6, SeqEqual
<1>8. FlattenSeq(a \o b) = FlattenSeq(a) \o FlattenSeq(b)
  BY FlattenConcat
<1>9. ThatParse(s) = FlattenSeq(a) /\ ThatParse(t) = FlattenSeq(b) /\ ThatParse(s \o t) = FlattenSeq(c)
  BY <1>3 DEF ThatParse, Picks
<1>10. QED
  BY <1>7, <1>8, <1>9

LEMMA ThatParseOne ==
  ASSUME NEW f \in Bytes, Parses(f)
  PROVE  ThatParse(<< f >>) = << f >>
<1> DEFINE picks == [i \in DOMAIN << f >> |-> IF Parses(<< f >>[i]) THEN << << f >>[i] >> ELSE <<>>]
<1>1. picks = << << f >> >>
  <2>1. << f >> \in Seq(Bytes) /\ << << f >> >> \in Seq(Seq(Bytes))
    OBVIOUS
  <2>2. picks \in Seq(Seq(Bytes))
    BY <2>1, ThatParseTyped
  <2>3. DOMAIN picks = 1..1 /\ picks[1] = << f >>
    OBVIOUS
  <2> HIDE DEF picks
  <2>4. Len(picks) = 1
    BY <2>2, <2>3, LenProperties
  <2>5. QED
    BY <2>1, <2>2, <2>3, <2>4, SeqEqual
<1>2. << << f >> >> = Append(<<>>, << f >>)
  OBVIOUS
<1>3. FlattenSeq(Append(<<>>, << f >>)) = FlattenSeq(<<>>) \o << f >>
  <2>1. <<>> \in Seq(Seq(Bytes)) /\ << f >> \in Seq(Bytes)
    OBVIOUS
  <2>2. QED
    BY <2>1, FlattenAppend
<1>4. FlattenSeq(<<>>) = <<>>
  BY DEF FlattenSeq
<1>5. <<>> \o << f >> = << f >>
  OBVIOUS
<1>6. QED
  BY <1>1, <1>2, <1>3, <1>4, <1>5 DEF ThatParse

\* Frames that all parse are all handed over.
LEMMA ThatParseAll ==
  ASSUME NEW G \in SUBSET Bytes, \A f \in G : Parses(f), NEW s \in Seq(G)
  PROVE  ThatParse(s) = s
<1> DEFINE Wrong == { n \in Nat : \E u \in Seq(G) : Len(u) = n /\ ThatParse(u) # u }
<1>1. SUFFICES ASSUME Wrong # {} PROVE FALSE
  BY LenProperties
<1>2. PICK n \in Wrong : \A m \in Wrong : n <= m
  <2>1. Wrong \in SUBSET Nat
    OBVIOUS
  <2> HIDE DEF Wrong
  <2>2. QED
    BY <1>1, <2>1, Least
<1>3. PICK u \in Seq(G) : Len(u) = n /\ ThatParse(u) # u
  BY <1>2
<1> HIDE DEF Wrong
<1>4. u # <<>>
  <2>1. ThatParse(<<>>) = <<>>
    <3>1. [i \in DOMAIN <<>> |-> IF Parses(<<>>[i]) THEN << <<>>[i] >> ELSE <<>>] = <<>>
      OBVIOUS
    <3>2. QED
      BY <3>1 DEF ThatParse, FlattenSeq
  <2>2. QED
    BY <1>3, <2>1
<1>5. PICK v \in Seq(G), f \in G : u = Append(v, f)
  BY <1>4, SequenceEmptyOrAppend
<1>6. ThatParse(v) = v
  <2>1. Len(v) \in Nat /\ Len(u) = Len(v) + 1
    BY <1>5, AppendProperties, LenProperties
  <2>2. Len(v) \notin Wrong
    BY <1>2, <1>3, <2>1
  <2>3. QED
    BY <2>1, <2>2 DEF Wrong
<1>7. v \in Seq(Bytes) /\ f \in Bytes /\ << f >> \in Seq(Bytes) /\ Parses(f)
  BY SeqMonotonic
<1>8. u = v \o << f >>
  BY <1>5, AppendIsConcat
<1>9. ThatParse(u) = ThatParse(v) \o ThatParse(<< f >>)
  BY <1>7, <1>8, ThatParseConcat
<1>10. QED
  BY <1>3, <1>6, <1>7, <1>8, <1>9, ThatParseOne

-----------------------------------------------------------------------------
(* Frames and streams of them *)

LEMMA SuffixOfConcat ==
  ASSUME NEW S, NEW s \in Seq(S), NEW t \in Seq(S)
  PROVE  IsSuffix(t, s \o t)
<1>1. PICK m \in Nat, n \in Nat, u \in Seq(S) :
        /\ m = Len(s) /\ n = Len(t) /\ u = s \o t /\ Len(u) = m + n
        /\ \A i \in 1..(m + n) : u[i] = IF i <= m THEN s[i] ELSE t[i - m]
        /\ \A i \in 1..(m + n) : u[i] \in S
        /\ \A i \in 1..n : t[i] \in S
  BY ConcatProperties, LenProperties, ElementOfSeq
<1> DEFINE rt == [i \in 1..n |-> t[(n - i) + 1]]
           ru == [i \in 1..(m + n) |-> u[((m + n) - i) + 1]]
<1>2. rt = Reverse(t) /\ ru = Reverse(u)
  BY <1>1 DEF Reverse
<1>3. rt \in Seq(S) /\ Len(rt) = n /\ ru \in Seq(S) /\ Len(ru) = m + n
  <2>1. rt \in [1..n -> S] /\ ru \in [1..(m + n) -> S]
    <3>1. \A i \in 1..n : (n - i) + 1 \in 1..n
      OBVIOUS
    <3>2. \A i \in 1..(m + n) : ((m + n) - i) + 1 \in 1..(m + n)
      OBVIOUS
    <3>3. QED
      BY <1>1, <3>1, <3>2
  <2>2. m + n \in Nat
    OBVIOUS
  <2> HIDE DEF rt, ru
  <2>3. QED
    BY <2>1, <2>2
<1>4. \A i \in 1..n : rt[i] = ru[i]
  <2>1. ASSUME NEW i \in 1..n
        PROVE  rt[i] = ru[i]
    <3>1. PICK j \in 1..(m + n) : j = ((m + n) - i) + 1 /\ ~(j <= m) /\ j - m = (n - i) + 1
      OBVIOUS
    <3>2. u[j] = t[j - m]
      BY <1>1, <3>1
    <3>3. i \in 1..(m + n)
      OBVIOUS
    <3>4. QED
      BY <3>1, <3>2, <3>3
  <2>2. QED
    BY <2>1
<1> HIDE DEF rt, ru
<1>5. SubSeq(rt, 1, n) = SubSeq(ru, 1, n)
  <2>1. /\ SubSeq(rt, 1, n) \in Seq(S) /\ SubSeq(ru, 1, n) \in Seq(S)
        /\ Len(SubSeq(rt, 1, n)) = n /\ Len(SubSeq(ru, 1, n)) = n
        /\ \A i \in 1..n : SubSeq(rt, 1, n)[i] = rt[i] /\ SubSeq(ru, 1, n)[i] = ru[i]
    BY <1>3
  <2>2. QED
    BY <1>4, <2>1, SeqEqual
<1>6. IsPrefix(rt, ru)
  BY <1>3, <1>5 DEF IsPrefix
<1>7. QED
  BY <1>1, <1>2, <1>6 DEF IsSuffix

\* The two bytes of a length say it again.
LEMMA LowByte ==
  ASSUME NEW B \in Nat, B > 1, NEW n \in Nat
  PROVE  n % B \in 0 .. B - 1
OBVIOUS

LEMMA HighByte ==
  ASSUME NEW B \in Nat, B > 1, NEW n \in Nat, n < B * B
  PROVE  n \div B \in 0 .. B - 1
OBVIOUS

LEMMA LengthOfBytes ==
  ASSUME NEW B \in Nat, B > 1, NEW n \in Nat
  PROVE  (n % B) + B * (n \div B) = n
OBVIOUS

\* Two sequences one after the other: the elements of the first keep their place.
LEMMA HeadKept ==
  ASSUME NEW S, NEW s \in Seq(S), NEW t \in Seq(S), NEW m \in Nat, Len(s) = m, NEW n \in Nat, Len(t) = n
  PROVE  /\ s \o t \in Seq(S) /\ Len(s \o t) = m + n
         /\ \A i \in 1..m : (s \o t)[i] = s[i]
<1>1. s \o t \in Seq(S) /\ Len(s \o t) = Len(s) + Len(t)
      /\ \A i \in 1 .. Len(s) + Len(t) : (s \o t)[i] = IF i <= Len(s) THEN s[i] ELSE t[i - Len(s)]
  BY ConcatProperties
<1>2. \A i \in 1..m : i \in 1 .. m + n /\ i <= m
  OBVIOUS
<1>3. QED
  BY <1>1, <1>2

\* The header is four bytes.
LEMMA FourBytes ==
  ASSUME NEW S, NEW a \in S, NEW b \in S, NEW c \in S, NEW d \in S
  PROVE  /\ << a, b, c, d >> \in Seq(S) /\ Len(<< a, b, c, d >>) = 4
         /\ << a, b, c, d >>[2] = b /\ << a, b, c, d >>[3] = c /\ << a, b, c, d >>[4] = d
OBVIOUS

\* A frame of a header, a payload and the end flag, whose header says the
\* length of the payload.
LEMMA WholeFrame ==
  ASSUME NEW type \in Byte, NEW p \in Bytes, NEW lo \in Byte, NEW hi \in Byte,
         NEW n \in Nat, n = Len(p), lo + Base * hi = n
  PROVE  LET f == << Mac, type, lo, hi >> \o p \o EndFlag IN
         /\ f \in Bytes /\ Len(f) = OverheadLen + n
         /\ FrameLen(f) = Len(f) /\ f[2] = type
<1>1. PICK k \in Nat : k = Len(EndFlag) /\ EndFlag \in Bytes /\ OverheadLen = 4 + k
  BY FormatOK, LenProperties DEF Bytes, OverheadLen, HeaderLen
<1>2. PICK h \in Bytes : /\ h = << Mac, type, lo, hi >> /\ Len(h) = 4
                         /\ h[2] = type /\ h[3] = lo /\ h[4] = hi
  <2>1. Mac \in Byte
    BY FormatOK
  <2>2. /\ << Mac, type, lo, hi >> \in Seq(Byte) /\ Len(<< Mac, type, lo, hi >>) = 4
        /\ << Mac, type, lo, hi >>[2] = type /\ << Mac, type, lo, hi >>[3] = lo
        /\ << Mac, type, lo, hi >>[4] = hi
    BY <2>1, FourBytes
  <2>3. QED
    BY <2>2, Zenon DEF Bytes
<1>3. h \o p \in Bytes /\ Len(h \o p) = 4 + n /\ \A i \in 1..4 : (h \o p)[i] = h[i]
  BY <1>2, HeadKept DEF Bytes
<1>4. PICK g \in Bytes : g = h \o p /\ Len(g) = 4 + n /\ \A i \in 1..4 : g[i] = h[i]
  BY <1>3
<1>5. /\ g \o EndFlag \in Bytes /\ Len(g \o EndFlag) = (4 + n) + k
      /\ \A i \in 1 .. 4 + n : (g \o EndFlag)[i] = g[i]
  <2>1. PICK m \in Nat : m = 4 + n
    OBVIOUS
  <2>2. Len(g) = m
    BY <1>4, <2>1
  <2>3. /\ g \o EndFlag \in Bytes /\ Len(g \o EndFlag) = m + k
        /\ \A i \in 1 .. m : (g \o EndFlag)[i] = g[i]
    <3>1. g \in Seq(Byte) /\ EndFlag \in Seq(Byte) /\ m \in Nat /\ k \in Nat /\ Len(EndFlag) = k
      BY <1>1, <2>1 DEF Bytes
    <3>2. /\ g \o EndFlag \in Seq(Byte) /\ Len(g \o EndFlag) = m + k
          /\ \A i \in 1 .. m : (g \o EndFlag)[i] = g[i]
      BY ONLY <2>2, <3>1, HeadKept
    <3>3. QED
      BY ONLY <3>2 DEF Bytes
  <2>4. QED
    BY <2>1, <2>3
<1>6. PICK f \in Bytes : f = g \o EndFlag /\ Len(f) = (4 + n) + k /\ \A i \in 1..4 : f[i] = h[i]
  <2>1. \A i \in 1..4 : i \in 1 .. 4 + n
    OBVIOUS
  <2>2. QED
    BY <1>4, <1>5, <2>1
<1>7. f[2] = type /\ f[3] = lo /\ f[4] = hi
  BY <1>2, <1>6
<1>8. FrameLen(f) = Len(f) /\ Len(f) = OverheadLen + n
  <2>1. PICK x \in Nat, y \in Nat : x = lo /\ y = Base * hi /\ x + y = n
    <3>1. lo \in Nat /\ hi \in Nat /\ Base \in Nat
      BY FormatOK DEF Byte
    <3>2. Base * hi \in Nat
      BY <3>1, Times
    <3>3. QED
      BY <3>1, <3>2
  <2>2. FrameLen(f) = OverheadLen + x + y
    BY <1>7, <2>1 DEF FrameLen
  <2>3. OverheadLen + x + y = OverheadLen + n
    BY <1>1, <2>1
  <2>4. Len(f) = OverheadLen + n
    BY <1>1, <1>6
  <2>5. QED
    BY <2>2, <2>3, <2>4
<1>9. QED
  BY <1>2, <1>4, <1>6, <1>7, <1>8

\* A frame that build_frame() makes says its own length, and parse_frame() takes it.
LEMMA FrameIsWhole ==
  ASSUME NEW type \in {Rawdata, Alert}, NEW p \in Bytes,
         OverheadLen + Len(p) <= MaxFrameLen, type = Rawdata => Len(p) = RawdataLen
  PROVE  LET f == Frame(type, p) IN
         /\ f \in Bytes /\ Len(f) = OverheadLen + Len(p)
         /\ FrameLen(f) = Len(f) /\ Parses(f)
<1>1. PICK n \in Nat : n = Len(p) /\ n < Base * Base
  <2>1. Len(p) \in Nat /\ OverheadLen \in Nat /\ MaxFrameLen \in Nat /\ Base \in Nat
    BY FormatOK, LenProperties DEF Bytes, OverheadLen, HeaderLen
  <2>2. PICK q \in Nat : q = Base * Base
    BY <2>1, Times
  <2>3. MaxFrameLen < OverheadLen + q
    BY <2>2, FormatOK
  <2>4. OverheadLen + Len(p) <= MaxFrameLen
    OBVIOUS
  <2>5. Len(p) < q
    BY ONLY <2>1, <2>2, <2>3, <2>4
  <2>6. QED
    BY <2>1, <2>2, <2>5
<1>2. PICK lo \in Byte, hi \in Byte : lo = n % Base /\ hi = n \div Base /\ lo + Base * hi = n
  <2>1. Base \in Nat /\ Base > 1
    BY FormatOK
  <2>2. n % Base \in 0 .. Base - 1
    BY <2>1, LowByte, Zenon
  <2>3. n \div Base \in 0 .. Base - 1
    BY <1>1, <2>1, HighByte, Zenon
  <2>4. (n % Base) + Base * (n \div Base) = n
    BY <2>1, LengthOfBytes, Zenon
  <2>5. QED
    BY <2>2, <2>3, <2>4, Zenon DEF Byte
<1>3. type \in Byte
  BY FormatOK
<1>4. PICK f : f = Frame(type, p)
  OBVIOUS
<1>5. f = << Mac, type, lo, hi >> \o p \o EndFlag
  BY <1>1, <1>2, <1>4 DEF Frame
<1>6. f \in Bytes /\ Len(f) = OverheadLen + n /\ FrameLen(f) = Len(f) /\ f[2] = type
  BY <1>1, <1>2, <1>3, <1>5, WholeFrame
<1>7. IsSuffix(EndFlag, f)
  <2>1. << Mac, type, lo, hi >> \o p \in Bytes
    <3>1. << Mac, type, lo, hi >> \in Bytes
      BY <1>3, FormatOK DEF Bytes
    <3>2. QED
      BY <3>1, ConcatProperties DEF Bytes
  <2>2. EndFlag \in Bytes
    BY FormatOK DEF Bytes
  <2>3. QED
    BY <1>5, <2>1, <2>2, SuffixOfConcat DEF Bytes
<1>8. type = Rawdata => Len(f) = OverheadLen + RawdataLen
  BY <1>1, <1>6
<1>9. Parses(f)
  BY <1>6, <1>7, <1>8 DEF Parses
<1>10. QED
  BY <1>1, <1>4, <1>6, <1>9

LEMMA FramesAreWhole ==
  /\ Frames \subseteq Bytes
  /\ \A f \in Frames : /\ Len(f) >= OverheadLen /\ FrameLen(f) = Len(f) /\ Len(f) <= MaxFrameLen
                       /\ Parses(f)
<1>1. ASSUME NEW f \in Frames
      PROVE  /\ f \in Bytes /\ Len(f) >= OverheadLen /\ FrameLen(f) = Len(f) /\ Len(f) <= MaxFrameLen
             /\ Parses(f)
  <2>1. OverheadLen \in Nat /\ OverheadLen + RawdataLen <= MaxFrameLen /\ MaxFrameLen \in Nat
    BY FormatOK, LenProperties DEF OverheadLen, HeaderLen
  <2>2. PICK type \in {Rawdata, Alert}, p \in Payloads :
          /\ f = Frame(type, p) /\ OverheadLen + Len(p) <= MaxFrameLen
          /\ type = Rawdata => Len(p) = RawdataLen
    BY <2>1, FormatOK DEF Frames
  <2>3. p \in Bytes /\ Len(p) \in Nat
    BY EnvironmentOK, LenProperties DEF Bytes
  <2>4. QED
    BY <2>1, <2>2, <2>3, FrameIsWhole
<1>2. QED
  BY <1>1

LEMMA AssembleNothing == Assemble[<<>>] = [frames |-> <<>>, rest |-> <<>>]
<1>1. <<>> \in Bytes /\ Len(<<>>) = 0 /\ OverheadLen \in Nat /\ OverheadLen >= 4
  BY FormatOK, LenProperties DEF Bytes, OverheadLen, HeaderLen
<1>2. Len(<<>>) < OverheadLen
  BY <1>1
<1>3. QED
  BY <1>1, <1>2, AssembleIs DEF Turn

LEMMA AssembleFrame ==
  ASSUME NEW f \in Frames
  PROVE  Assemble[f] = [frames |-> << f >>, rest |-> <<>>]
<1>1. /\ f \in Bytes /\ Len(f) >= OverheadLen /\ FrameLen(f) = Len(f) /\ Len(f) <= MaxFrameLen
      /\ Len(f) \in Nat /\ OverheadLen \in Nat /\ MaxFrameLen \in Nat
  BY FormatOK, FramesAreWhole, HeaderRead
<1>2. ~(Len(f) < OverheadLen) /\ ~Impossible(f) /\ Complete(f)
  BY <1>1 DEF Impossible, Complete
<1>3. SubSeq(f, 1, FrameLen(f)) = f /\ SubSeq(f, FrameLen(f) + 1, Len(f)) = <<>>
  BY <1>1, SubSeqFull, SubSeqEmpty DEF Bytes
<1>4. Assemble[f] = [Assemble[<<>>] EXCEPT !.frames = << f >> \o @]
  BY <1>1, <1>2, <1>3, AssembleIs DEF Turn
<1>5. Assemble[f] = [frames |-> << f >> \o <<>>, rest |-> <<>>]
  BY <1>4, AssembleNothing
<1>6. << f >> \o <<>> = << f >>
  OBVIOUS
<1>7. QED
  BY <1>5, <1>6

\* One more frame after a buffer that was taken apart without a rest.
LEMMA AssembleOneMore ==
  ASSUME NEW b \in Bytes, NEW v \in Seq(Bytes), NEW f \in Frames,
         Assemble[b] = [frames |-> v, rest |-> <<>>]
  PROVE  Assemble[b \o f] = [frames |-> v \o << f >>, rest |-> <<>>]
<1>1. f \in Bytes /\ <<>> \o f = f
  BY FramesAreWhole DEF Bytes
<1>2. Assemble[b].rest \o f = f /\ Assemble[b].frames = v
  BY <1>1
<1>3. Assemble[b \o f] = [frames |-> Assemble[b].frames \o Assemble[Assemble[b].rest \o f].frames,
                          rest |-> Assemble[Assemble[b].rest \o f].rest]
  BY <1>1, AssembleContinues
<1>4. Assemble[f].frames = << f >> /\ Assemble[f].rest = <<>>
  <2>1. Assemble[f] = [frames |-> << f >>, rest |-> <<>>]
    BY AssembleFrame
  <2>2. QED
    BY ONLY <2>1
<1>5. QED
  BY <1>2, <1>3, <1>4

\* A stream of frames is taken apart into these frames, and nothing is left.
LEMMA AssembleStream ==
  ASSUME NEW s \in Seq(Frames)
  PROVE  /\ FlattenSeq(s) \in Bytes
         /\ Assemble[FlattenSeq(s)] = [frames |-> s, rest |-> <<>>]
<1>0. ASSUME NEW u \in Seq(Frames)
      PROVE  u \in Seq(Bytes) /\ FlattenSeq(u) \in Bytes
  BY FramesAreWhole, SeqMonotonic, FlattenTyped DEF Bytes
<1> DEFINE Wrong == { n \in Nat : \E u \in Seq(Frames) :
                        Len(u) = n /\ Assemble[FlattenSeq(u)] # [frames |-> u, rest |-> <<>>] }
<1>1. SUFFICES ASSUME Wrong # {} PROVE FALSE
  BY <1>0, LenProperties
<1>2. PICK n \in Wrong : \A m \in Wrong : n <= m
  <2>1. Wrong \in SUBSET Nat
    OBVIOUS
  <2> HIDE DEF Wrong
  <2>2. QED
    BY <1>1, <2>1, Least
<1>3. PICK u \in Seq(Frames) : Len(u) = n /\ Assemble[FlattenSeq(u)] # [frames |-> u, rest |-> <<>>]
  BY <1>2
<1> HIDE DEF Wrong
<1>4. u # <<>>
  <2>1. FlattenSeq(<<>>) = <<>>
    BY DEF FlattenSeq
  <2>2. QED
    BY <1>3, <2>1, AssembleNothing
<1>5. PICK v \in Seq(Frames), f \in Frames : u = Append(v, f)
  BY <1>4, SequenceEmptyOrAppend
<1>6. Assemble[FlattenSeq(v)] = [frames |-> v, rest |-> <<>>]
  <2>1. Len(v) \in Nat /\ Len(u) = Len(v) + 1
    BY <1>5, AppendProperties, LenProperties
  <2>2. Len(v) \notin Wrong
    BY <1>2, <1>3, <2>1
  <2>3. QED
    BY <2>1, <2>2 DEF Wrong
<1>7. v \in Seq(Bytes) /\ f \in Bytes /\ FlattenSeq(v) \in Bytes
  BY <1>0, FramesAreWhole
<1>8. FlattenSeq(u) = FlattenSeq(v) \o f
  BY <1>5, <1>7, FlattenAppend DEF Bytes
<1>10. Assemble[FlattenSeq(v) \o f] = [frames |-> v \o << f >>, rest |-> <<>>]
  BY <1>6, <1>7, AssembleOneMore
<1>11. u = v \o << f >>
  BY <1>5, AppendIsConcat
<1>12. QED
  BY <1>3, <1>8, <1>10, <1>11

\* What a prefix is followed by.
LEMMA PrefixRest ==
  ASSUME NEW S, NEW s \in Seq(S), NEW t \in Seq(S), IsPrefix(s, t)
  PROVE  \E r \in Seq(S) : t = s \o r
<1>1. PICK m \in Nat, n \in Nat : m = Len(s) /\ n = Len(t) /\ m <= n
  BY LenProperties DEF IsPrefix
<1>2. SubSeq(s, 1, m) = s /\ SubSeq(t, 1, n) = t
  BY <1>1, SubSeqFull
<1>3. SubSeq(t, 1, m) = s
  BY <1>1, <1>2 DEF IsPrefix
<1>4. SubSeq(t, 1, m) \o SubSeq(t, m + 1, n) = SubSeq(t, 1, n)
  <2>1. 1 \in 1 .. Len(t) + 1 /\ m \in 1 - 1 .. Len(t) /\ n \in m .. Len(t)
    BY <1>1
  <2>2. QED
    BY <2>1, ConcatAdjacentSubSeq
<1>5. SubSeq(t, m + 1, n) \in Seq(S)
  <2>1. \A i \in m + 1 .. n : t[i] \in S
    BY <1>1, ElementOfSeq
  <2>2. QED
    BY <1>1, <2>1, SubSeqProperties
<1>6. QED
  BY <1>2, <1>3, <1>4, <1>5

LEMMA ConcatIsPrefix ==
  ASSUME NEW S, NEW s \in Seq(S), NEW t \in Seq(S)
  PROVE  IsPrefix(s, s \o t)
<1>1. SubSeq(s \o t, 1, Len(s)) = s /\ SubSeq(s, 1, Len(s)) = s
  BY SplitConcat, SubSeqFull
<1>2. Len(s) \in Nat /\ Len(t) \in Nat /\ Len(s \o t) = Len(s) + Len(t)
  BY ConcatProperties, LenProperties
<1>3. QED
  BY <1>1, <1>2 DEF IsPrefix

\* What a sequence of frames starts with are frames.
LEMMA FrontOfFrames ==
  ASSUME NEW early \in Seq(Bytes), NEW late \in Seq(Bytes), early \o late \in Seq(Frames)
  PROVE  early \in Seq(Frames)
<1>1. PICK m \in Nat, n \in Nat : /\ m = Len(early) /\ n = Len(late) /\ Len(early \o late) = m + n
                                  /\ \A i \in 1 .. m + n : (early \o late)[i] \in Frames
                                  /\ \A i \in 1 .. m + n : i <= m => (early \o late)[i] = early[i]
  BY ConcatProperties, LenProperties, ElementOfSeq
<1>2. \A i \in 1..m : early[i] \in Frames
  <2>1. \A i \in 1..m : i \in 1 .. m + n /\ i <= m
    OBVIOUS
  <2>2. QED
    BY <1>1, <2>1
<1>3. early = [i \in 1..m |-> early[i]]
  BY <1>1
<1>4. QED
  BY <1>2, <1>3

-----------------------------------------------------------------------------
(* The inductive invariant *)

Inv == TypeOK /\ ChunkingInvisible

LEMMA Initially == Init => Inv
<1> SUFFICES ASSUME Init PROVE Inv
  OBVIOUS
<1>1. TypeOK
  BY EmptySeq DEF Init, TypeOK
<1>2. ThatParse(<<>>) = <<>>
  <2>1. <<>> \in Seq(Frames)
    BY EmptySeq
  <2>2. Frames \subseteq Bytes /\ \A f \in Frames : Parses(f)
    BY FramesAreWhole
  <2>3. QED
    BY <2>1, <2>2, ThatParseAll
<1>3. Assemble[<<>>].frames = <<>> /\ Assemble[<<>>].rest = <<>>
  BY AssembleNothing
<1>4. ChunkingInvisible
  BY <1>2, <1>3 DEF Init, ChunkingInvisible
<1>5. QED
  BY <1>1, <1>4 DEF Inv

\* A notification, of whatever bytes.
LEMMA AfterNotify ==
  ASSUME Inv, NEW chunk \in Bytes, Notify(chunk)
  PROVE  Inv'
<1>1. received \in Bytes /\ buffer \in Bytes /\ handed \in Seq(Bytes)
  BY DEF Inv, TypeOK, Bytes
<1>2. received \o chunk \in Bytes /\ buffer \o chunk \in Bytes
  BY <1>1, ConcatProperties DEF Bytes
<1>3. /\ Assemble[received].frames \in Seq(Bytes) /\ Assemble[received].rest = buffer
      /\ Assemble[buffer \o chunk].frames \in Seq(Bytes) /\ Assemble[buffer \o chunk].rest \in Bytes
  BY <1>1, <1>2, AssembleIs DEF Inv, ChunkingInvisible, Outcomes
<1>4. /\ Assemble[received \o chunk].frames
           = Assemble[received].frames \o Assemble[buffer \o chunk].frames
      /\ Assemble[received \o chunk].rest = Assemble[buffer \o chunk].rest
  BY <1>1, <1>3, ContinuedParts
<1>5. ThatParse(Assemble[received].frames \o Assemble[buffer \o chunk].frames)
        = handed \o ThatParse(Assemble[buffer \o chunk].frames)
  BY <1>3, ThatParseConcat DEF Inv, ChunkingInvisible
<1>6. /\ received' = received \o chunk /\ buffer' = Assemble[buffer \o chunk].rest
      /\ handed' = handed \o ThatParse(Assemble[buffer \o chunk].frames)
  BY DEF Notify, Push
<1>7. TypeOK'
  <2>1. ThatParse(Assemble[buffer \o chunk].frames) \in Seq(Bytes)
    BY <1>3, ThatParseTyped
  <2>2. handed' \in Seq(Bytes)
    BY <1>1, <1>6, <2>1, ConcatProperties
  <2>3. QED
    BY <1>2, <1>3, <1>6, <2>2 DEF TypeOK, Bytes
<1>8. ChunkingInvisible'
  <2>1. Assemble[received'] = Assemble[received \o chunk]
    BY <1>6
  <2>3. handed' = ThatParse(Assemble[received'].frames) /\ buffer' = Assemble[received'].rest
    BY <1>4, <1>5, <1>6, <2>1, Zenon
  <2>4. QED
    BY <2>3 DEF ChunkingInvisible
<1>9. QED
  BY <1>7, <1>8 DEF Inv

LEMMA Inductive == Inv /\ [Next]_vars => Inv'
<1> SUFFICES ASSUME Inv, [Next]_vars PROVE Inv'
  OBVIOUS
<1>1. ASSUME NEW n \in 1 .. MaxReceived - Len(received), NEW chunk \in [1..n -> Byte], Notify(chunk)
      PROVE  Inv'
  <2>1. n \in Nat
    BY EnvironmentOK, LenProperties DEF Inv, TypeOK
  <2>2. chunk \in Bytes
    BY <2>1 DEF Bytes
  <2>3. QED
    BY <1>1, <2>2, AfterNotify
<1>2. CASE Reconnect
  <2>1. Init'
    BY <1>2 DEF Reconnect, Init
  <2>2. Init' => Inv'
    BY Initially, PTL
  <2>3. QED
    BY <2>1, <2>2
<1>3. CASE UNCHANGED vars
  BY <1>3 DEF Inv, TypeOK, ChunkingInvisible, vars
<1>4. QED
  BY <1>1, <1>2, <1>3 DEF Next

LEMMA Invariant == Spec => []Inv
<1>1. QED
  BY Initially, Inductive, PTL DEF Spec

-----------------------------------------------------------------------------
(* The theorems *)

\* The assembler keeps bytes and hands over sequences of bytes.
THEOREM TypeCorrect == Spec => []TypeOK
<1>1. Inv => TypeOK
  BY DEF Inv
<1>2. QED
  BY <1>1, Invariant, PTL

\* However the notifications cut the stream, push() makes of it what one push of
\* all of it would have made.
THEOREM CutsDoNotMatter == Spec => []ChunkingInvisible
<1>1. Inv => ChunkingInvisible
  BY DEF Inv
<1>2. QED
  BY <1>1, Invariant, PTL

\* push() keeps less than a frame of the largest length, whatever was received.
THEOREM BufferStaysShort == Spec => []BufferBounded
<1>1. Inv => BufferBounded
  BY RestIsShort DEF Inv, TypeOK, ChunkingInvisible, BufferBounded, Bytes
<1>2. QED
  BY <1>1, Invariant, PTL

\* A stream is made of frames, and taken apart into them.
LEMMA StreamOfFrames ==
  ASSUME NEW s \in Streams
  PROVE  s.sent \in Seq(Frames) /\ s.bytes \in Bytes /\ Assemble[s.bytes].frames = s.sent
<1>1. PICK u \in SeqOf(Frames, MaxSent) : s = [sent |-> u, bytes |-> FlattenSeq(u)]
  BY DEF Streams
<1>2. u \in Seq(Frames)
  BY EnvironmentOK DEF SeqOf
<1>3. PICK b \in Bytes : b = FlattenSeq(u) /\ Assemble[b] = [frames |-> u, rest |-> <<>>]
  BY <1>2, AssembleStream
<1>4. s.sent = u /\ s.bytes = b
  BY <1>1, <1>3
<1>5. Assemble[b].frames = u
  BY ONLY <1>3
<1>6. QED
  BY <1>2, <1>4, <1>5

\* Of a stream of well-formed frames, all that have arrived were handed over.
THEOREM NothingIsWithheld == Spec => []NothingWithheld
<1>1. ASSUME Inv, NEW s \in Streams, received = s.bytes
      PROVE  handed = s.sent
  <2>1. s.sent \in Seq(Frames) /\ Assemble[s.bytes].frames = s.sent
    BY StreamOfFrames
  <2>2. Assemble[received].frames = s.sent
    BY <1>1, <2>1
  <2>3. ThatParse(s.sent) = s.sent
    BY <2>1, FramesAreWhole, ThatParseAll
  <2>4. QED
    BY <1>1, <2>2, <2>3 DEF Inv, ChunkingInvisible
<1>2. Inv => NothingWithheld
  BY <1>1 DEF NothingWithheld
<1>3. QED
  BY <1>2, Invariant, PTL

\* Of a stream of well-formed frames, cut anywhere, the frames are handed over
\* in the order they were sent, none of them twice and none left out.
THEOREM FramesAsSent == Spec => []HandedAsSent
<1>1. ASSUME Inv, NEW s \in Streams, IsPrefix(received, s.bytes)
      PROVE  IsPrefix(handed, s.sent)
  <2>1. s.sent \in Seq(Frames)
    BY StreamOfFrames
  <2>2. s.bytes \in Bytes /\ Assemble[s.bytes].frames = s.sent
    BY StreamOfFrames
  <2>3. received \in Bytes
    BY <1>1 DEF Inv, TypeOK, Bytes
  <2>4. PICK r \in Bytes : s.bytes = received \o r
    BY <1>1, <2>2, <2>3, PrefixRest DEF Bytes
  <2>5. PICK early \in Seq(Bytes), late \in Seq(Bytes) :
          early = Assemble[received].frames /\ s.sent = early \o late
    <3>1. Assemble[received].frames \in Seq(Bytes) /\ Assemble[received].rest \o r \in Bytes
      BY <2>3, AssembleIs, ConcatProperties DEF Outcomes, Bytes
    <3>2. Assemble[Assemble[received].rest \o r].frames \in Seq(Bytes)
      BY <3>1, AssembleIs DEF Outcomes
    <3>3. s.sent = Assemble[received].frames \o Assemble[Assemble[received].rest \o r].frames
      BY <2>2, <2>3, <2>4, ContinuedParts
    <3>4. QED
      BY <3>1, <3>2, <3>3
  <2>6. early \in Seq(Frames)
    BY <2>1, <2>5, FrontOfFrames
  <2>7. handed = early
    BY <1>1, <2>5, <2>6, FramesAreWhole, ThatParseAll DEF Inv, ChunkingInvisible
  <2>8. QED
    BY <2>5, <2>7, ConcatIsPrefix
<1>2. Inv => HandedAsSent
  BY <1>1 DEF HandedAsSent
<1>3. QED
  BY <1>2, Invariant, PTL
=============================================================================
