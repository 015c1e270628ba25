--------------------------- MODULE SlipLinkProof ---------------------------
(***************************************************************************)
(* Theorems about SlipLink, for every size of the decoder's buffer and     *)
(* every set of packets.                                                   *)
(***************************************************************************)
EXTENDS SlipLink, SequenceTheorems, WellFoundedInduction, TLAPS

-----------------------------------------------------------------------------
(* The encoder.  slip_encode is a loop over the packet, here a recursive   *)
(* function of how far it has come; what it computes is proved by taking   *)
(* the first index at which it would not.                                  *)

(* A set of natural numbers that is not empty has a least element.         *)
LEMMA LeastNatural ==
  ASSUME NEW T, T \subseteq Nat, T # {}
  PROVE  \E n \in T : \A m \in T : n <= m
<1> DEFINE R == {ss \in Nat \X Nat : ss[1] < ss[2]}
<1>1. OpToRel(<, Nat) = R
  BY Zenon DEF OpToRel
<1>2. IsWellFoundedOn(R, Nat)
  BY <1>1, NatLessThanWellFounded, Zenon
<1>3. \A m, n \in Nat : m < n => <<m, n>> \in R
  BY DEF R
<1> HIDE DEF R
<1>4. PICK n \in T : \A m \in T : ~(<<m, n>> \in R)
  BY <1>2, WFMin
<1>5. ASSUME NEW m \in T PROVE n <= m
  <2>1. m \in Nat /\ n \in Nat
    OBVIOUS
  <2>2. ~(m < n)
    BY <1>3, <1>4, <2>1, Zenon
  <2>3. QED BY <2>1, <2>2
<1>6. QED BY <1>5

(* Induction, for a set instead of a predicate: a set of indices that      *)
(* holds 0 and with every index the next one holds all of them.            *)
LEMMA IndexInduction ==
  ASSUME NEW n \in Nat, NEW T, 0 \in T, \A k \in 0 .. n - 1 : k \in T => k + 1 \in T
  PROVE  \A k \in 0 .. n : k \in T
<1> DEFINE Missing == {k \in 0 .. n : k \notin T}
<1>1. ASSUME Missing # {} PROVE FALSE
  <2>1. Missing \subseteq Nat
    OBVIOUS
  <2> HIDE DEF Missing
  <2>2. PICK k \in Missing : \A m \in Missing : k <= m
    BY <1>1, <2>1, LeastNatural, Zenon
  <2> USE DEF Missing
  <2>3. k # 0 /\ k - 1 \in 0 .. n - 1
    OBVIOUS
  <2>4. k - 1 \in T
    BY <2>2, <2>3
  <2>5. (k - 1) + 1 \in T
    BY <2>3, <2>4, Zenon
  <2>6. QED BY <2>5
<1>2. QED BY <1>1

(* Sequences are put together in any grouping.                             *)
LEMMA Associative ==
  ASSUME NEW B, NEW s \in Seq(B), NEW t \in Seq(B), NEW u \in Seq(B)
  PROVE  (s \o t) \o u = s \o (t \o u)
BY ConcatAssociative

(* The first element of a sequence, and what comes behind it.              *)
LEMMA FirstAndRest ==
  ASSUME NEW B, NEW b \in B, NEW t \in Seq(B)
  PROVE  /\ <<b>> \o t \in Seq(B)
         /\ <<b>> \o t # <<>>
         /\ Head(<<b>> \o t) = b
         /\ Tail(<<b>> \o t) = t
<1> DEFINE u == <<b>> \o t
<1>1. /\ u \in Seq(B) /\ Len(u) = Len(t) + 1 /\ Len(t) \in Nat
      /\ \A i \in 1 .. Len(u) : u[i] = IF i = 1 THEN b ELSE t[i - 1]
  <2>1. <<b>> \in Seq(B) /\ Len(<<b>>) = 1 /\ <<b>>[1] = b
    OBVIOUS
  <2>2. Len(t) \in Nat
    BY LenProperties
  <2>3. QED BY <2>1, <2>2, ConcatProperties
<1> HIDE DEF u
<1>2. u # <<>>
  BY <1>1, EmptySeq
<1>3. Head(u) = b
  BY <1>1, <1>2, HeadTailProperties
<1>4. /\ Tail(u) \in Seq(B) /\ Len(Tail(u)) = Len(t)
      /\ \A i \in 1 .. Len(t) : Tail(u)[i] = t[i]
  BY <1>1, <1>2, HeadTailProperties
<1>5. Tail(u) = t
  BY <1>4, SeqEqual
<1>6. QED BY <1>1, <1>2, <1>3, <1>5 DEF u

(* A pair of bytes is put before the rest one byte at a time.              *)
LEMMA TwoAndRest ==
  ASSUME NEW B, NEW a \in B, NEW b \in B, NEW t \in Seq(B)
  PROVE  <<a, b>> \o t = <<a>> \o (<<b>> \o t)
<1> DEFINE ab == <<a, b>>
           bt == <<b>> \o t
<1>1. ab \in Seq(B) /\ Len(ab) = 2 /\ ab[1] = a /\ ab[2] = b
  OBVIOUS
<1>2. /\ <<a>> \in Seq(B) /\ Len(<<a>>) = 1 /\ <<a>>[1] = a
      /\ <<b>> \in Seq(B) /\ Len(<<b>>) = 1 /\ <<b>>[1] = b
  OBVIOUS
<1>3. Len(t) \in Nat
  BY LenProperties
<1>4. /\ bt \in Seq(B) /\ Len(bt) = Len(t) + 1
      /\ \A i \in 1 .. Len(t) + 1 : bt[i] = IF i = 1 THEN b ELSE t[i - 1]
  BY <1>2, <1>3, ConcatProperties
<1> HIDE DEF ab, bt
<1>5. /\ ab \o t \in Seq(B) /\ Len(ab \o t) = Len(t) + 2
      /\ \A i \in 1 .. Len(t) + 2 : (ab \o t)[i] = IF i <= 2 THEN ab[i] ELSE t[i - 2]
  <2>1. /\ ab \o t \in Seq(B) /\ Len(ab \o t) = Len(ab) + Len(t)
        /\ \A i \in 1 .. Len(ab) + Len(t) :
             (ab \o t)[i] = IF i <= Len(ab) THEN ab[i] ELSE t[i - Len(ab)]
    BY <1>1, ConcatProperties
  <2>2. Len(ab) + Len(t) = Len(t) + 2
    BY <1>1, <1>3
  <2>3. QED BY <1>1, <2>1, <2>2
<1>6. /\ <<a>> \o bt \in Seq(B) /\ Len(<<a>> \o bt) = Len(t) + 2
      /\ \A i \in 1 .. Len(t) + 2 : (<<a>> \o bt)[i] = IF i = 1 THEN a ELSE bt[i - 1]
  <2>1. /\ <<a>> \o bt \in Seq(B) /\ Len(<<a>> \o bt) = 1 + Len(bt)
        /\ \A i \in 1 .. 1 + Len(bt) :
             (<<a>> \o bt)[i] = IF i <= 1 THEN <<a>>[i] ELSE bt[i - 1]
    BY <1>2, <1>4, ConcatProperties
  <2>2. 1 + Len(bt) = Len(t) + 2
    BY <1>3, <1>4
  <2>3. \A i \in 1 .. Len(t) + 2 : (i <= 1) = (i = 1)
    BY <1>3
  <2>4. QED BY <1>2, <2>1, <2>2, <2>3
<1>7. ASSUME NEW i \in 1 .. Len(t) + 2
      PROVE  (ab \o t)[i] = (<<a>> \o bt)[i]
  <2>1. CASE i = 1
    BY <1>1, <1>3, <1>5, <1>6, <2>1
  <2>2. CASE i = 2
    BY <1>1, <1>3, <1>4, <1>5, <1>6, <2>2
  <2>3. CASE i > 2
    <3>1. i - 1 \in 1 .. Len(t) + 1 /\ i - 1 # 1 /\ (i - 1) - 1 = i - 2
      BY <1>3, <2>3
    <3>2. bt[i - 1] = t[i - 2]
      BY <1>4, <3>1
    <3>3. QED BY <1>3, <1>5, <1>6, <2>3, <3>2
  <2>4. i = 1 \/ i = 2 \/ i > 2
    BY <1>3
  <2>5. QED BY <2>1, <2>2, <2>3, <2>4
<1>8. ab \o t = <<a>> \o bt
  BY <1>3, <1>5, <1>6, <1>7, SeqEqual
<1>9. QED BY <1>8 DEF ab, bt

(* The same for lines.                                                     *)
LEMMA LineLaws ==
  /\ \A s, t, u \in Seq(Bytes) : (s \o t) \o u = s \o (t \o u)
  /\ \A a, b \in Bytes, t \in Seq(Bytes) : <<a, b>> \o t = <<a>> \o (<<b>> \o t)
<1>1. \A s, t, u \in Seq(Bytes) : (s \o t) \o u = s \o (t \o u)
  BY Associative
<1>2. ASSUME NEW a \in Bytes, NEW b \in Bytes, NEW t \in Seq(Bytes)
      PROVE  <<a, b>> \o t = <<a>> \o (<<b>> \o t)
  BY TwoAndRest
<1>3. QED BY <1>1, <1>2, Zenon

(* A byte is encoded by one byte or two.                                   *)
LEMMA EncodeByteType ==
  ASSUME NEW c \in Bytes
  PROVE  /\ EncodeByte(c) \in Seq(Bytes)
         /\ c = END => EncodeByte(c) = <<ESC, ESC_END>>
         /\ c = ESC => EncodeByte(c) = <<ESC, ESC_ESC>>
         /\ c \notin {END, ESC} => EncodeByte(c) = <<c>>
<1>1. {END, ESC, ESC_END, ESC_ESC} \subseteq Bytes /\ END # ESC
  BY SlipAssumption DEF Bytes, Special
<1>2. /\ c = END => EncodeByte(c) = <<ESC, ESC_END>>
      /\ c = ESC => EncodeByte(c) = <<ESC, ESC_ESC>>
      /\ c \notin {END, ESC} => EncodeByte(c) = <<c>>
  BY <1>1 DEF EncodeByte
<1>3. /\ <<ESC, ESC_END>> \in Seq(Bytes) /\ <<ESC, ESC_ESC>> \in Seq(Bytes)
      /\ <<c>> \in Seq(Bytes)
  BY <1>1
<1>4. QED BY <1>2, <1>3, Zenon

Encoded(p) ==
  CHOOSE f : f = [i \in 0 .. Len(p) |->
                    IF i = 0 THEN <<>> ELSE f[i - 1] \o EncodeByte(p[i])]

(* slip_encode is what it made of all the bytes, and an END.               *)
LEMMA EncodeByEncoded ==
  \A p : slip_encode(p) = Encoded(p)[Len(p)] \o <<END>>
BY DEF slip_encode, Encoded

(* There is such a function for every packet.                              *)
LEMMA EncodedDefined ==
  ASSUME NEW p \in Seq(Bytes)
  PROVE  Encoded(p) =
           [i \in 0 .. Len(p) |->
              IF i = 0 THEN <<>> ELSE Encoded(p)[i - 1] \o EncodeByte(p[i])]
<1> DEFINE IsEncoded(f, n) ==
             f = [i \in 0 .. n |-> IF i = 0 THEN <<>> ELSE f[i - 1] \o EncodeByte(p[i])]
           T == {n \in Nat : \E f : IsEncoded(f, n)}
<1>1. 0 \in T
  <2>1. IsEncoded([i \in 0 .. 0 |-> <<>>], 0)
    OBVIOUS
  <2> HIDE DEF IsEncoded
  <2>2. QED BY <2>1
<1>2. ASSUME NEW k \in 0 .. Len(p) - 1, k \in T PROVE k + 1 \in T
  <2> HIDE DEF IsEncoded
  <2>1. PICK g : IsEncoded(g, k)
    BY <1>2
  <2> DEFINE n == k + 1
             h == [i \in 0 .. n |-> IF i = n THEN g[k] \o EncodeByte(p[n]) ELSE g[i]]
  <2>2. ASSUME NEW i \in 0 .. n
        PROVE  h[i] = IF i = 0 THEN <<>> ELSE h[i - 1] \o EncodeByte(p[i])
    <3>1. CASE i = n
      <4>1. h[i] = g[k] \o EncodeByte(p[n])
        BY <3>1
      <4>2. i # 0 /\ h[i - 1] = g[k]
        BY <3>1
      <4>3. QED BY <3>1, <4>1, <4>2
    <3>2. CASE i # n
      <4>1. i \in 0 .. k /\ h[i] = g[i]
        BY <3>2
      <4>2. i # 0 => h[i - 1] = g[i - 1]
        BY <4>1
      <4>3. g[i] = IF i = 0 THEN <<>> ELSE g[i - 1] \o EncodeByte(p[i])
        BY <2>1, <4>1, Zenon DEF IsEncoded
      <4>4. QED BY <4>1, <4>2, <4>3
    <3>3. QED BY <3>1, <3>2
  <2>3. IsEncoded(h, n)
    BY <2>2 DEF IsEncoded
  <2>4. n \in Nat
    OBVIOUS
  <2> HIDE DEF h, n
  <2>5. n \in T
    BY <2>3, <2>4, Zenon
  <2>6. QED BY <2>5 DEF n
<1> HIDE DEF T
<1>3. Len(p) \in Nat
  BY LenProperties
<1>4. \A k \in 0 .. Len(p) : k \in T
  BY <1>1, <1>2, <1>3, IndexInduction
<1>5. Len(p) \in T
  BY <1>3, <1>4
<1>6. \E f : IsEncoded(f, Len(p))
  BY <1>5, Zenon DEF T
<1>7. QED
  BY <1>6, Zenon DEF Encoded

(* It goes through the packet one byte at a time.                          *)
LEMMA EncodedStep ==
  ASSUME NEW p \in Seq(Bytes)
  PROVE  /\ Encoded(p)[0] = <<>>
         /\ \A k \in 0 .. Len(p) - 1 :
              Encoded(p)[k + 1] = Encoded(p)[k] \o EncodeByte(p[k + 1])
<1> DEFINE f == Encoded(p)
<1>1. f = [i \in 0 .. Len(p) |->
             IF i = 0 THEN <<>> ELSE f[i - 1] \o EncodeByte(p[i])]
  BY EncodedDefined
<1>2. Len(p) \in Nat
  BY LenProperties
<1> HIDE DEF f
<1>3. f[0] = <<>>
  BY <1>1, <1>2
<1>4. ASSUME NEW k \in 0 .. Len(p) - 1
      PROVE  f[k + 1] = f[k] \o EncodeByte(p[k + 1])
  BY <1>1, <1>2
<1>5. QED BY <1>3, <1>4 DEF f

(* What is still to come of a packet on the line, by the number of its     *)
(* bytes that were received.                                               *)
IsRests(r, p) ==
  /\ r \in [0 .. Len(p) -> Seq(Bytes)]
  /\ r[0] = slip_encode(p)
  /\ \A k \in 0 .. Len(p) - 1 : r[k] = EncodeByte(p[k + 1]) \o r[k + 1]
  /\ r[Len(p)] = <<END>>

Rests(p) == CHOOSE r : IsRests(r, p)

(* What is left to encode from each place of a packet on.                  *)
LEMMA RestsDefined ==
  ASSUME NEW p \in Seq(Bytes)
  PROVE  IsRests(Rests(p), p)
<1> DEFINE Leads(r, n, t) ==
             /\ r \in [0 .. n -> Seq(Bytes)]
             /\ r[0] = Encoded(p)[n] \o t
             /\ \A k \in 0 .. n - 1 : r[k] = EncodeByte(p[k + 1]) \o r[k + 1]
             /\ r[n] = t
           T == {n \in 0 .. Len(p) :
                   /\ Encoded(p)[n] \in Seq(Bytes)
                   /\ \A t \in Seq(Bytes) : \E r : Leads(r, n, t)}
<1>1. Len(p) \in Nat /\ \A k \in 1 .. Len(p) : p[k] \in Bytes
  BY LenProperties, ElementOfSeq
<1> HIDE DEF Leads
<1>2. 0 \in T
  <2>1. Encoded(p)[0] = <<>>
    BY EncodedStep
  <2>2. Encoded(p)[0] \in Seq(Bytes)
    BY <2>1, EmptySeq
  <2>3. ASSUME NEW t \in Seq(Bytes) PROVE \E r : Leads(r, 0, t)
    <3>1. <<>> \o t = t
      BY ConcatEmptySeq
    <3> DEFINE r0 == [k \in 0 .. 0 |-> t]
    <3>2. r0 \in [0 .. 0 -> Seq(Bytes)] /\ r0[0] = t
      OBVIOUS
    <3> HIDE DEF r0
    <3>3. \A k \in 0 .. 0 - 1 : r0[k] = EncodeByte(p[k + 1]) \o r0[k + 1]
      OBVIOUS
    <3>4. Leads(r0, 0, t)
      BY <2>1, <3>1, <3>2, <3>3, Zenon DEF Leads
    <3>5. QED BY <3>4
  <2>4. 0 \in 0 .. Len(p)
    BY <1>1
  <2>5. QED BY <2>2, <2>3, <2>4, Zenon
<1>3. ASSUME NEW n \in 0 .. Len(p) - 1, n \in T PROVE n + 1 \in T
  <2> DEFINE e == EncodeByte(p[n + 1])
             f == Encoded(p)[n]
             m == n + 1
  <2>1. e \in Seq(Bytes)
    BY <1>1, EncodeByteType
  <2>2. Encoded(p)[m] = f \o e
    BY EncodedStep
  <2>3. f \in Seq(Bytes) /\ \A t \in Seq(Bytes) : \E r : Leads(r, n, t)
    BY <1>3, Zenon
  <2>4. m \in 0 .. Len(p) /\ n \in Nat
    BY <1>1
  <2> HIDE DEF e, f, T
  <2>5. Encoded(p)[m] \in Seq(Bytes)
    BY <2>1, <2>2, <2>3, ConcatProperties
  <2>6. ASSUME NEW t \in Seq(Bytes) PROVE \E r : Leads(r, m, t)
    <3>1. e \o t \in Seq(Bytes)
      BY <2>1, ConcatProperties
    <3>2. PICK r : Leads(r, n, e \o t)
      BY <2>3, <3>1, Zenon
    <3>3. /\ r \in [0 .. n -> Seq(Bytes)]
          /\ r[0] = f \o (e \o t)
          /\ \A k \in 0 .. n - 1 : r[k] = EncodeByte(p[k + 1]) \o r[k + 1]
          /\ r[n] = e \o t
      BY <3>2, Zenon DEF Leads, f
    <3> DEFINE q == [k \in 0 .. m |-> IF k = m THEN t ELSE r[k]]
    <3>4. q[m] = t /\ \A k \in 0 .. n : q[k] = r[k]
      OBVIOUS
    <3>5. q \in [0 .. m -> Seq(Bytes)]
      BY <3>3
    <3> HIDE DEF q
    <3>6. q[0] = Encoded(p)[m] \o t
      <4>1. q[0] = r[0]
        BY <2>4, <3>4
      <4>2. f \in Seq(Bytes)
        BY <2>3
      <4>3. (f \o e) \o t = f \o (e \o t)
        BY <2>1, <4>2, Associative
      <4>4. QED BY <2>2, <3>3, <4>1, <4>3, Zenon
    <3>7. \A k \in 0 .. m - 1 : q[k] = EncodeByte(p[k + 1]) \o q[k + 1]
      <4> TAKE k \in 0 .. m - 1
      <4>1. CASE k = n
        <5>1. q[k] = r[n] /\ q[k + 1] = t
          BY <2>4, <3>4, <4>1
        <5>2. QED BY <3>3, <4>1, <5>1, Zenon DEF e
      <4>2. CASE k # n
        <5>1. k \in 0 .. n - 1 /\ q[k] = r[k] /\ q[k + 1] = r[k + 1]
          BY <3>4, <4>2
        <5>2. QED BY <3>3, <5>1, Zenon
      <4>3. QED BY <4>1, <4>2
    <3>8. Leads(q, m, t)
      BY <3>4, <3>5, <3>6, <3>7, Zenon DEF Leads
    <3>9. QED BY <3>8, Zenon
  <2>7. m \in T
    BY <2>4, <2>5, <2>6, Zenon DEF T
  <2>8. QED BY <2>7
<1> HIDE DEF T
<1>4. \A n \in 0 .. Len(p) : n \in T
  BY <1>1, <1>2, <1>3, IndexInduction
<1>5. <<END>> \in Seq(Bytes)
  BY DEF Bytes, Special
<1>6. Len(p) \in T
  BY <1>1, <1>4
<1>7. PICK r : Leads(r, Len(p), <<END>>)
  BY <1>5, <1>6, Zenon DEF T
<1>8. IsRests(r, p)
  BY <1>7, EncodeByEncoded, Zenon DEF IsRests, Leads
<1>9. QED
  BY <1>8, Zenon DEF Rests

(* What slip_encode makes of bytes is bytes.                               *)
LEMMA EncodeType ==
  ASSUME NEW p \in Seq(Bytes)
  PROVE  slip_encode(p) \in Seq(Bytes)
<1>1. Rests(p) \in [0 .. Len(p) -> Seq(Bytes)] /\ Rests(p)[0] = slip_encode(p)
  BY RestsDefined DEF IsRests
<1>2. 0 \in 0 .. Len(p)
  BY LenProperties
<1>3. QED BY <1>1, <1>2

-----------------------------------------------------------------------------
(* The decoder started over, and its buffer cleared as well.               *)
LEMMA RecordUpdate ==
  ASSUME NEW X, NEW Y, NEW Z, NEW s \in [state : X, p_buffer : Y, current_index : Z],
         NEW x \in X, NEW y \in Y, NEW z \in Z
  PROVE  /\ [s EXCEPT !.state = x] \in [state : X, p_buffer : Y, current_index : Z]
         /\ [s EXCEPT !.state = x, !.current_index = z]
              \in [state : X, p_buffer : Y, current_index : Z]
         /\ [s EXCEPT !.p_buffer = y] \in [state : X, p_buffer : Y, current_index : Z]
OBVIOUS

(* The decoder keeps its type where it starts again.                       *)
LEMMA RestartedType ==
  ASSUME NEW s \in SlipT
  PROVE  Restarted(s) \in SlipT /\ Cleared(s) \in SlipT
<1>1. 0 \in 0 .. BufferLen /\ ZERO \in Bytes
  BY SlipAssumption DEF Bytes, Special
<1>2. EmptyBuffer \in [1 .. BufferLen -> Bytes]
  BY <1>1 DEF EmptyBuffer
<1>3. Restarted(s) \in SlipT
  BY <1>1, RecordUpdate, Zenon DEF Restarted, SlipT
<1>4. Cleared(s) \in SlipT
  BY <1>2, <1>3, RecordUpdate, Zenon DEF Cleared, SlipT
<1>5. QED BY <1>3, <1>4

(* The decoder's next state, whatever byte it is given.                    *)
LEMMA AddByteType ==
  ASSUME NEW s \in SlipT, NEW c \in Bytes
  PROVE  AddByte(s, c) \in SlipT
<1>1. /\ s.state \in {"DECODING", "ESC_RECEIVED", "CLEARING_INVALID_PACKET"}
      /\ s.p_buffer \in [1 .. BufferLen -> Bytes]
      /\ s.current_index \in 0 .. BufferLen
      /\ BufferLen \in Nat
  BY SlipAssumption DEF SlipT
<1>2. ASSUME NEW b \in Bytes, ~Full(s) PROVE Stored(s, b) \in SlipT
  <2>1. s.current_index + 1 \in 1 .. BufferLen
    BY <1>1, <1>2 DEF Full
  <2>2. [s.p_buffer EXCEPT ![s.current_index + 1] = b] \in [1 .. BufferLen -> Bytes]
    BY <1>1
  <2>3. QED BY <2>1, <2>2 DEF Stored, SlipT
<1>3. END \in Bytes /\ ESC \in Bytes
  BY DEF Bytes, Special
<1>4. /\ [s EXCEPT !.state = "ESC_RECEIVED"] \in SlipT
      /\ [s EXCEPT !.state = "CLEARING_INVALID_PACKET"] \in SlipT
      /\ [s EXCEPT !.state = "DECODING", !.current_index = 0] \in SlipT
  <2>1. 0 \in 0 .. BufferLen
    BY <1>1
  <2>2. QED BY <2>1, RecordUpdate, Zenon DEF SlipT
<1>5. CASE Full(s)
  BY <1>5 DEF AddByte
<1>6. CASE ~Full(s)
  <2>1. Decoding(s, c) \in SlipT
    BY <1>2, <1>4, <1>6 DEF Decoding
  <2>2. EscReceived(s, c) \in SlipT
    BY <1>2, <1>3, <1>4, <1>6 DEF EscReceived
  <2>3. Clearing(s, c) \in SlipT
    BY <1>4 DEF Clearing
  <2>4. QED BY <1>6, <2>1, <2>2, <2>3 DEF AddByte
<1>7. QED BY <1>5, <1>6

(* What a byte leads to in rx_process.  slip_decode_add_byte never returns *)
(* ERROR_NO_MEM itself, so the buffer is never started over because it is  *)
(* full.                                                                   *)
Completes(c) == ~Full(m_slip) /\ m_slip.state = "DECODING" /\ c = END

(* A byte either completes a packet, which is handled at once, or changes  *)
(* the decoder alone.                                                      *)
LEMMA DecodeOutcome ==
  ASSUME NEW c, DecodeByte(c)
  PROVE  \/ Completes(c) /\ Dispatch(m_slip)
         \/ /\ ~Completes(c)
            /\ m_slip' = AddByte(m_slip, c) /\ UNCHANGED <<transfer_mode, history>>
<1> DEFINE s == AddByte(m_slip, c)
<1>1. CASE Completes(c)
  <2>1. AddByteRet(m_slip, c) = NRF_SUCCESS
    BY <1>1 DEF Completes, AddByteRet
  <2>2. s = m_slip
    BY <1>1, SlipAssumption DEF Completes, AddByte, Decoding
  <2>3. NRF_SUCCESS # ERROR_NO_MEM
    BY DEF NRF_SUCCESS, ERROR_NO_MEM
  <2>4. Dispatch(s)
    BY <2>1, <2>3, Zenon DEF DecodeByte
  <2>5. QED
    BY <1>1, <2>2, <2>4, Zenon
<1>2. CASE ~Completes(c)
  <2>1. AddByteRet(m_slip, c) \in {-4, -11, 17}
    BY <1>2 DEF Completes, AddByteRet, NoRoom, ERROR_NO_MEM, ERROR_INVALID_DATA, ERROR_BUSY
  <2>2. AddByteRet(m_slip, c) # NRF_SUCCESS /\ AddByteRet(m_slip, c) # ERROR_NO_MEM
    BY <2>1 DEF NRF_SUCCESS, ERROR_NO_MEM
  <2>3. QED
    BY <1>2, <2>2 DEF DecodeByte
<1>3. QED BY <1>1, <1>2

(* The packet is what the first bytes of the buffer are.                   *)
LEMMA PacketType ==
  ASSUME m_slip \in SlipT
  PROVE  LET packet == SubSeq(m_slip.p_buffer, 1, m_slip.current_index)
         IN  /\ packet \in Seq(Bytes) /\ Len(packet) = m_slip.current_index
             /\ \A i \in 1 .. m_slip.current_index : packet[i] = m_slip.p_buffer[i]
             /\ packet # <<>> => m_slip.current_index \in Nat \ {0}
<1> DEFINE k == m_slip.current_index
           buffer == m_slip.p_buffer
           packet == SubSeq(buffer, 1, k)
<1>1. k \in 0 .. BufferLen /\ BufferLen \in Nat /\ buffer \in [1 .. BufferLen -> Bytes]
  BY SlipAssumption DEF SlipT
<1>2. \A i \in 1 .. k : buffer[i] \in Bytes
  BY <1>1
<1>3. 1 \in Int /\ k \in Int /\ k \in Nat
  BY <1>1
<1> HIDE DEF k, buffer
<1>4. /\ packet \in Seq(Bytes) /\ Len(packet) = IF 1 <= k THEN k - 1 + 1 ELSE 0
      /\ \A i \in 1 .. k - 1 + 1 : packet[i] = buffer[1 + i - 1]
  BY <1>2, <1>3, SubSeqProperties
<1> HIDE DEF packet
<1>5. Len(packet) = k /\ \A i \in 1 .. k : packet[i] = buffer[i]
  BY <1>3, <1>4
<1>6. packet # <<>> => k \in Nat \ {0}
  BY <1>3, <1>4, <1>5, EmptySeq
<1>7. QED
  BY <1>4, <1>5, <1>6, Zenon DEF packet, k, buffer

(* A command takes its argument from the buffer or from behind it.         *)
LEMMA ObeyedType ==
  ASSUME NEW buffer \in [1 .. BufferLen -> Bytes], NEW length \in Nat \ {0}
  PROVE  Obeyed(buffer, length)
           \in [word : Words \cup {"none"}, message : Seq(Bytes \cup {"unknown"})]
<1>1. UploadLen(length) \in Nat
  BY DispatchAssumption DEF UploadLen
<1>2. \A j : (IF j \in DOMAIN buffer THEN buffer[j] ELSE "unknown") \in Bytes \cup {"unknown"}
  OBVIOUS
<1>3. Argument(buffer, length) \in Seq(Bytes \cup {"unknown"})
  BY <1>1, <1>2, IsASeq DEF Argument
<1>4. <<>> \in Seq(Bytes \cup {"unknown"})
  BY EmptySeq
<1>5. QED
  BY <1>3, <1>4 DEF Obeyed, Words

-----------------------------------------------------------------------------
(* Types.                                                                  *)
LEMMA InitTypeOK == Init => TypeOK
<1> SUFFICES ASSUME Init PROVE TypeOK
  OBVIOUS
<1>1. good \in BOOLEAN /\ transfer_mode \in BOOLEAN /\ decoding \in BOOLEAN
  BY Zenon DEF Init
<1>2. line \in Seq(Bytes) /\ sent \in Seq(Packets) /\ got \in Seq(Bytes)
  BY EmptySeq DEF Init
<1>3. done \in [word : Words \cup {"none"}, message : Seq(Bytes \cup {"unknown"})]
  BY EmptySeq DEF Init, Nothing
<1>4. m_slip \in SlipT
  <2>1. 0 \in 0 .. BufferLen /\ ZERO \in Bytes
    BY SlipAssumption DEF Bytes, Special
  <2>2. EmptyBuffer \in [1 .. BufferLen -> Bytes]
    BY <2>1 DEF EmptyBuffer
  <2>3. QED BY <2>1, <2>2 DEF Init, SlipInit, SlipT
<1>5. QED
  BY <1>1, <1>2, <1>3, <1>4 DEF TypeOK

(* A byte keeps the types.                                                 *)
LEMMA DecodeType ==
  ASSUME TypeOK, NEW c \in Bytes, DecodeByte(c)
  PROVE  /\ m_slip' \in SlipT /\ sent' \in Seq(Packets) /\ got' \in Seq(Bytes)
         /\ done' \in [word : Words \cup {"none"}, message : Seq(Bytes \cup {"unknown"})]
<1> USE DEF TypeOK
<1>1. CASE m_slip' = AddByte(m_slip, c) /\ UNCHANGED history
  BY <1>1, AddByteType DEF history
<1>2. CASE Dispatch(m_slip)
  <2> DEFINE packet == SubSeq(m_slip.p_buffer, 1, m_slip.current_index)
  <2>1. m_slip' \in SlipT
    BY <1>2, RestartedType DEF Dispatch
  <2>2. CASE UNCHANGED <<sent, got, done>>
    BY <2>1, <2>2
  <2>3. CASE /\ packet # <<>> /\ got' = packet
             /\ done' = Obeyed(m_slip.p_buffer, m_slip.current_index)
             /\ sent' = (IF sent = <<>> THEN sent ELSE Tail(sent))
    <3>1. packet \in Seq(Bytes) /\ m_slip.current_index \in Nat \ {0}
      BY <2>3, PacketType
    <3>2. m_slip.p_buffer \in [1 .. BufferLen -> Bytes]
      BY DEF SlipT
    <3>3. done' \in [word : Words \cup {"none"}, message : Seq(Bytes \cup {"unknown"})]
      BY <2>3, <3>1, <3>2, ObeyedType
    <3>4. sent' \in Seq(Packets)
      BY <2>3, HeadTailProperties
    <3>5. QED BY <2>1, <2>3, <3>1, <3>3, <3>4
  <2>4. QED BY <1>2, <2>2, <2>3 DEF Dispatch, history
<1>3. QED BY <1>1, <1>2, DecodeOutcome

(* A byte of an event keeps them, whether it is decoded or not.            *)
LEMMA RxType ==
  ASSUME TypeOK, NEW c \in Bytes, RxByte(c)
  PROVE  /\ m_slip' \in SlipT /\ sent' \in Seq(Packets) /\ got' \in Seq(Bytes)
         /\ done' \in [word : Words \cup {"none"}, message : Seq(Bytes \cup {"unknown"})]
<1>1. CASE DecodeByte(c)
  BY <1>1, DecodeType
<1>2. CASE UNCHANGED <<m_slip, transfer_mode, history>>
  BY <1>2 DEF history, TypeOK
<1>3. QED BY <1>1, <1>2 DEF RxByte

(* transfer_mode and decoding are truth values, whatever is decoded.       *)
LEMMA ModeType ==
  ASSUME TypeOK, [Next]_vars
  PROVE  transfer_mode' \in BOOLEAN /\ decoding' \in BOOLEAN
<1>1. /\ transfer_mode \in BOOLEAN /\ decoding \in BOOLEAN
      /\ \A x : (transfer_mode \/ x) \in BOOLEAN
  BY Zenon DEF TypeOK
<1>2. ASSUME NEW c, RxByte(c) PROVE transfer_mode' \in BOOLEAN /\ decoding' \in BOOLEAN
  <2>1. CASE DecodeByte(c)
    <3>1. UNCHANGED transfer_mode \/ Dispatch(m_slip)
      BY <2>1, DecodeOutcome, Zenon
    <3>2. transfer_mode' \in BOOLEAN
      BY <1>1, <3>1, Zenon DEF Dispatch
    <3>3. QED BY <1>1, <1>2, <3>2, Zenon DEF RxByte
  <2>2. CASE UNCHANGED <<m_slip, transfer_mode, history>>
    BY <1>1, <1>2, <2>2, Zenon DEF RxByte
  <2>3. QED BY <1>2, <2>1, <2>2, Zenon DEF RxByte
<1>3. CASE SendPacket \/ LineError \/ UNCHANGED vars
  BY <1>1, <1>3, Zenon DEF SendPacket, LineError, vars, mode
<1>4. CASE RxEvent
  BY <1>1, <1>4, Zenon DEF RxEvent
<1>5. CASE ReceiveByte \/ ReceiveNoise
  BY <1>2, <1>5, Zenon DEF ReceiveByte, ReceiveNoise, ReceiveAny
<1>6. QED
  BY <1>3, <1>4, <1>5, Zenon DEF Next

(* Every step does.                                                        *)
LEMMA NextTypeOK == TypeOK /\ [Next]_vars => TypeOK'
<1> SUFFICES ASSUME TypeOK, [Next]_vars PROVE TypeOK'
  OBVIOUS
<1> USE DEF TypeOK
<1>1. good' \in BOOLEAN /\ transfer_mode' \in BOOLEAN /\ decoding' \in BOOLEAN
  <2>1. good' \in BOOLEAN
    BY Zenon DEF Next, SendPacket, RxEvent, ReceiveByte, LineError, ReceiveNoise,
                 ReceiveAny, vars
  <2>2. QED BY <2>1, ModeType
<1>2. CASE SendPacket
  <2>1. PICK p \in Packets, lead \in {<<>>, <<END>>} :
          line' = line \o lead \o slip_encode(p) /\ sent' = Append(sent, p)
    BY <1>2 DEF SendPacket
  <2>2. p \in Seq(Bytes)
    BY LinkAssumption
  <2>3. lead \in Seq(Bytes)
    <3>1. END \in Bytes
      BY DEF Bytes, Special
    <3>2. <<END>> \in Seq(Bytes) /\ <<>> \in Seq(Bytes)
      BY <3>1, EmptySeq
    <3>3. QED BY <3>2, Zenon
  <2>4. line \o lead \in Seq(Bytes)
    BY <2>3, ConcatProperties
  <2>5. line' \in Seq(Bytes)
    BY <2>1, <2>2, <2>4, EncodeType, ConcatProperties
  <2>6. sent' \in Seq(Packets)
    BY <2>1, AppendProperties
  <2>7. QED
    BY <1>1, <1>2, <2>5, <2>6 DEF SendPacket
<1>3. CASE ReceiveByte
  <2>1. line # <<>> /\ RxByte(Head(line)) /\ line' = Tail(line)
    BY <1>3 DEF ReceiveByte
  <2>2. Head(line) \in Bytes /\ line' \in Seq(Bytes)
    BY <2>1, HeadTailProperties
  <2>3. QED BY <1>1, <2>1, <2>2, RxType
<1>4. CASE LineError
  <2>1. done' \in [word : Words \cup {"none"}, message : Seq(Bytes \cup {"unknown"})]
    BY <1>4, EmptySeq DEF LineError, Nothing
  <2>2. line' \in Seq(Bytes) /\ sent' \in Seq(Packets) /\ got' \in Seq(Bytes)
    BY <1>4, EmptySeq DEF LineError
  <2>3. QED BY <1>1, <1>4, <2>1, <2>2 DEF LineError
<1>5. CASE ReceiveNoise
  <2>1. PICK c \in Bytes : RxByte(c) /\ UNCHANGED line
    BY <1>5 DEF ReceiveNoise, ReceiveAny
  <2>2. QED BY <1>1, <2>1, RxType
<1>6. CASE RxEvent \/ UNCHANGED vars
  BY <1>1, <1>6 DEF RxEvent, vars, history
<1>7. QED
  BY <1>2, <1>3, <1>4, <1>5, <1>6 DEF Next

(* Every variable keeps its type, whatever comes over the line.            *)
THEOREM TypeCorrect == Spec => []TypeOK
BY InitTypeOK, NextTypeOK, PTL DEF Spec

-----------------------------------------------------------------------------
(* The last byte of the buffer is written only when the buffer gets full,  *)
(* and then nothing happens any more: clearing an invalid packet starts    *)
(* over without clearing the buffer, but the last byte is still zero.      *)
LastByteInv == ~Full(m_slip) => m_slip.p_buffer[BufferLen] = ZERO

(* A byte that is decoded leaves a terminator behind what is handled.      *)
LEMMA LastByteStep ==
  ASSUME TypeOK, LastByteInv, NEW c \in Bytes, DecodeByte(c)
  PROVE  LastByteInv'
<1>1. /\ m_slip.p_buffer \in [1 .. BufferLen -> Bytes]
      /\ m_slip.current_index \in 0 .. BufferLen
      /\ BufferLen \in Nat \ {0}
  BY SlipAssumption DEF TypeOK, SlipT
<1>2. CASE m_slip' = Cleared(m_slip)
  <2>1. m_slip'.p_buffer = EmptyBuffer
    BY <1>2, RestartedType DEF Cleared, SlipT, TypeOK
  <2>2. QED BY <1>1, <2>1 DEF LastByteInv, EmptyBuffer
<1>3. CASE m_slip' = AddByte(m_slip, c)
  <2>1. ASSUME NEW b \in Bytes, ~Full(m_slip), m_slip' = Stored(m_slip, b)
        PROVE  LastByteInv'
    <3>1. /\ m_slip'.current_index = m_slip.current_index + 1
          /\ m_slip'.p_buffer = [m_slip.p_buffer EXCEPT ![m_slip.current_index + 1] = b]
      BY <2>1 DEF Stored
    <3>2. m_slip.p_buffer[BufferLen] = ZERO
      BY <2>1 DEF LastByteInv
    <3>3. ASSUME m_slip.current_index + 1 # BufferLen
          PROVE  m_slip'.p_buffer[BufferLen] = ZERO
      BY <1>1, <3>1, <3>2, <3>3
    <3>4. QED BY <3>1, <3>3 DEF LastByteInv, Full
  <2>2. CASE /\ m_slip'.p_buffer = m_slip.p_buffer
             /\ Full(m_slip) => m_slip'.current_index = m_slip.current_index
    BY <2>2 DEF LastByteInv, Full
  <2>3. CASE Full(m_slip)
    BY <1>3, <2>2, <2>3 DEF AddByte
  <2>4. CASE ~Full(m_slip)
    <3>1. AddByte(m_slip, c) \in {Decoding(m_slip, c), EscReceived(m_slip, c), Clearing(m_slip, c)}
      BY <2>4 DEF AddByte
    <3>2. \/ \E b \in Bytes : m_slip' = Stored(m_slip, b)
          \/ m_slip' \in {m_slip, [m_slip EXCEPT !.state = "ESC_RECEIVED"],
                          [m_slip EXCEPT !.state = "CLEARING_INVALID_PACKET"],
                          [m_slip EXCEPT !.state = "DECODING", !.current_index = 0]}
      BY <1>3, <3>1 DEF Decoding, EscReceived, Clearing, Bytes, Special
    <3>3. CASE m_slip' \in {m_slip, [m_slip EXCEPT !.state = "ESC_RECEIVED"],
                            [m_slip EXCEPT !.state = "CLEARING_INVALID_PACKET"],
                            [m_slip EXCEPT !.state = "DECODING", !.current_index = 0]}
      BY <2>2, <2>4, <3>3 DEF TypeOK, SlipT
    <3>4. QED BY <2>1, <2>4, <3>2, <3>3
  <2>5. QED BY <2>3, <2>4
<1>4. QED BY <1>2, <1>3, DecodeOutcome DEF Dispatch

(* Whenever an END may end a packet, the buffer handle_uart_data searches  *)
(* with strstr holds a NUL byte, whatever came over the line: noise, a     *)
(* packet of the buffer's length, one that is longer, a broken escape.     *)
THEOREM AlwaysTerminated == Spec => []DispatchTerminated
<1>1. Init => LastByteInv
  BY SlipAssumption DEF Init, SlipInit, EmptyBuffer, LastByteInv
<1>2. TypeOK /\ LastByteInv /\ [Next]_vars => LastByteInv'
  <2> SUFFICES ASSUME TypeOK, LastByteInv, [Next]_vars PROVE LastByteInv'
    OBVIOUS
  <2>1. CASE UNCHANGED m_slip
    BY <2>1 DEF LastByteInv, Full
  <2>2. CASE ReceiveByte
    <3>1. Head(line) \in Bytes
      BY <2>2, HeadTailProperties DEF ReceiveByte, TypeOK
    <3>2. QED BY <2>1, <2>2, <3>1, LastByteStep DEF ReceiveByte, RxByte
  <2>3. CASE ReceiveNoise
    BY <2>1, <2>3, LastByteStep DEF ReceiveNoise, ReceiveAny, RxByte
  <2>4. QED
    BY <2>1, <2>2, <2>3 DEF Next, SendPacket, RxEvent, LineError, vars
<1>3. TypeOK /\ LastByteInv => DispatchTerminated
  BY SlipAssumption DEF TypeOK, SlipT, LastByteInv, DispatchTerminated, IsString
<1>4. QED BY <1>1, <1>2, <1>3, TypeCorrect, PTL DEF Spec
-----------------------------------------------------------------------------
(* A good line.  Until the buffer is full, what is on the line is what is  *)
(* left of the oldest packet that was sent and not yet handled, and the    *)
(* others after it in order; and the decoder has the beginning of the      *)
(* oldest, with zero bytes behind it.  s[i] is the line from packet i on.  *)
Padded(p, k) == [i \in 1 .. BufferLen |-> IF i <= k THEN p[i] ELSE ZERO]

(* A packet may have an END before it, or none.                            *)
Ahead(p, t) == {slip_encode(p) \o t, <<END>> \o (slip_encode(p) \o t)}

(* The decoder d has some bytes of p, and the line l the others, then t.   *)
Arrives(d, l, p, t) ==
  LET k == d.current_index IN
  /\ k \in 0 .. Len(p)
  /\ d.p_buffer = Padded(p, k)
  /\ \/ d.state = "DECODING" /\ k = 0 /\ l = <<END>> \o (Rests(p)[0] \o t)
     \/ d.state = "DECODING" /\ l = Rests(p)[k] \o t
     \/ /\ d.state = "ESC_RECEIVED" /\ k < Len(p)
        /\ \/ p[k + 1] = END /\ l = <<ESC_END>> \o (Rests(p)[k + 1] \o t)
           \/ p[k + 1] = ESC /\ l = <<ESC_ESC>> \o (Rests(p)[k + 1] \o t)

Frames(s, q, l, d) ==
  /\ s \in [1 .. Len(q) + 1 -> Seq(Bytes)]
  /\ s[Len(q) + 1] = <<>>
  /\ l = s[1]
  /\ \A i \in 2 .. Len(q) : s[i] \in Ahead(q[i], s[i + 1])
  /\ q = <<>> => d = SlipInit
  /\ q # <<>> => Arrives(d, l, q[1], s[2])

FrameInv ==
  good /\ decoding => Full(m_slip) \/ \E s : Frames(s, sent, line, m_slip)

(* Once events are taken for an image, the decoder stays as it was, with   *)
(* zero bytes behind what it has received; and only a transfer does that.  *)
FrozenInv ==
  /\ decoding \/ transfer_mode
  /\ good /\ ~decoding =>
       \A i \in m_slip.current_index + 1 .. BufferLen : m_slip.p_buffer[i] = ZERO

(* What was made of the packet handled last.                               *)
DoneInv ==
  good /\ got # <<>> =>
    /\ Len(got) < BufferLen
    /\ done = Obeyed(Padded(got, Len(got)), Len(got))

(* What is on the line when a packet is about to arrive, with an END       *)
(* before it or none.                                                      *)
LEMMA FreshArrives ==
  ASSUME NEW p \in Seq(Bytes), NEW t \in Seq(Bytes), NEW l \in Ahead(p, t),
         NEW d, d.state = "DECODING", d.current_index = 0, d.p_buffer = EmptyBuffer
  PROVE  Arrives(d, l, p, t)
<1>1. Rests(p)[0] = slip_encode(p)
  BY RestsDefined DEF IsRests
<1>2. 0 \in 0 .. Len(p)
  BY LenProperties
<1>3. Padded(p, 0) = EmptyBuffer
  BY DEF Padded, EmptyBuffer
<1>4. l = Rests(p)[0] \o t \/ l = <<END>> \o (Rests(p)[0] \o t)
  BY <1>1 DEF Ahead
<1>5. QED
  BY <1>2, <1>3, <1>4 DEF Arrives

(* A byte of a packet arrives: either it is not the last and the decoder   *)
(* has come further, or the packet is complete.                            *)
LEMMA ByteArrives ==
  ASSUME NEW d \in SlipT, ~Full(d), NEW p \in Seq(Bytes), NEW t \in Seq(Bytes),
         NEW l \in Seq(Bytes), Arrives(d, l, p, t)
  PROVE  /\ l # <<>>
         /\ \/ /\ ~(d.state = "DECODING" /\ Head(l) = END)
               /\ Arrives(AddByte(d, Head(l)), Tail(l), p, t)
            \/ /\ d.state = "DECODING" /\ Head(l) = END
               /\ d.current_index = 0 /\ d.p_buffer = EmptyBuffer
               /\ Tail(l) = Rests(p)[0] \o t
            \/ /\ d.state = "DECODING" /\ Head(l) = END
               /\ d.current_index = Len(p) /\ Tail(l) = t
<1> DEFINE k == d.current_index
           r == Rests(p)
<1>1. /\ k \in 0 .. Len(p) /\ k \in 0 .. BufferLen - 1 /\ k \in Nat /\ Len(p) \in Nat
      /\ d.p_buffer = Padded(p, k)
      /\ \A i \in 1 .. Len(p) : p[i] \in Bytes
  <2>1. BufferLen \in Nat /\ d.current_index \in 0 .. BufferLen
    BY SlipAssumption DEF SlipT
  <2>2. Len(p) \in Nat /\ \A i \in 1 .. Len(p) : p[i] \in Bytes
    BY LenProperties, ElementOfSeq
  <2>3. k \in 0 .. Len(p) /\ d.p_buffer = Padded(p, k)
    BY DEF Arrives
  <2>4. k # BufferLen
    BY DEF Full
  <2>5. QED BY <2>1, <2>2, <2>3, <2>4
<1>2. /\ r \in [0 .. Len(p) -> Seq(Bytes)]
      /\ \A i \in 0 .. Len(p) - 1 : r[i] = EncodeByte(p[i + 1]) \o r[i + 1]
      /\ r[Len(p)] = <<END>>
  BY RestsDefined, Zenon DEF IsRests
<1>3. {END, ESC, ESC_END, ESC_ESC} \subseteq Bytes
  BY DEF Bytes, Special
<1>4. \A i \in 0 .. Len(p) : r[i] \o t \in Seq(Bytes)
  <2> TAKE i \in 0 .. Len(p)
  <2>1. r[i] \in Seq(Bytes)
    BY <1>2
  <2>2. QED BY <2>1, ConcatProperties
<1>5. \A b \in Bytes, u \in Seq(Bytes) :
        l = <<b>> \o u => l # <<>> /\ Head(l) = b /\ Tail(l) = u
  BY FirstAndRest
<1>6. ASSUME k < Len(p), NEW b, b = p[k + 1]
      PROVE  /\ Stored(d, b).p_buffer = Padded(p, k + 1)
             /\ Stored(d, b).current_index = k + 1
             /\ Stored(d, b).state = "DECODING"
             /\ k + 1 \in 0 .. Len(p)
             /\ Arrives(Stored(d, b), r[k + 1] \o t, p, t)
  <2>1. [d.p_buffer EXCEPT ![k + 1] = b] = Padded(p, k + 1)
    <3>1. d.p_buffer \in [1 .. BufferLen -> Bytes] /\ BufferLen \in Nat
      BY SlipAssumption DEF SlipT
    <3> DEFINE g == [d.p_buffer EXCEPT ![k + 1] = b]
               h == Padded(p, k + 1)
    <3>2. /\ g = [i \in 1 .. BufferLen |-> IF i = k + 1 THEN b ELSE d.p_buffer[i]]
          /\ h = [i \in 1 .. BufferLen |-> IF i <= k + 1 THEN p[i] ELSE ZERO]
      BY <3>1 DEF Padded
    <3>3. \A i \in 1 .. BufferLen : d.p_buffer[i] = IF i <= k THEN p[i] ELSE ZERO
      BY <1>1 DEF Padded
    <3> HIDE DEF g, h, k
    <3>4. ASSUME NEW i \in 1 .. BufferLen
          PROVE  (IF i = k + 1 THEN b ELSE d.p_buffer[i]) = IF i <= k + 1 THEN p[i] ELSE ZERO
      BY <1>1, <1>6, <3>1, <3>3
    <3>5. g = h
      BY <3>2, <3>4
    <3>6. QED BY <3>5 DEF g, h
  <2>2. k + 1 \in 0 .. Len(p)
    BY <1>1, <1>6
  <2>3. /\ Stored(d, b).p_buffer = Padded(p, k + 1)
        /\ Stored(d, b).current_index = k + 1
        /\ Stored(d, b).state = "DECODING"
    BY <1>1, <2>1 DEF Stored
  <2>4. QED
    BY <2>2, <2>3, Zenon DEF Arrives
<1> HIDE DEF r
<1>7. CASE d.state = "DECODING" /\ k = 0 /\ l = <<END>> \o (r[0] \o t)
  <2>1. r[0] \o t \in Seq(Bytes)
    BY <1>1, <1>4
  <2>2. l # <<>> /\ Head(l) = END /\ Tail(l) = r[0] \o t
    BY <1>3, <1>5, <1>7, <2>1
  <2>3. d.p_buffer = EmptyBuffer
    BY <1>1, <1>7 DEF Padded, EmptyBuffer
  <2>4. QED BY <1>7, <2>2, <2>3, Zenon DEF r
<1>8. CASE d.state = "DECODING" /\ l = r[k] \o t /\ k = Len(p)
  <2>1. l = <<END>> \o t
    BY <1>2, <1>8, Zenon
  <2>2. l # <<>> /\ Head(l) = END /\ Tail(l) = t
    BY <1>3, <1>5, <2>1
  <2>3. QED BY <1>8, <2>2, Zenon
<1>9. CASE d.state = "DECODING" /\ l = r[k] \o t /\ k # Len(p)
  <2> DEFINE b == p[k + 1]
             u == r[k + 1] \o t
  <2>1. k < Len(p) /\ k \in 0 .. Len(p) - 1 /\ k + 1 \in 0 .. Len(p) /\ k + 1 \in 1 .. Len(p)
    BY <1>1, <1>9
  <2>2. b \in Bytes /\ u \in Seq(Bytes) /\ r[k + 1] \in Seq(Bytes)
    BY <1>1, <1>2, <1>4, <2>1
  <2>3. EncodeByte(b) \in Seq(Bytes)
    BY <2>2, EncodeByteType
  <2>4. l = EncodeByte(b) \o u
    <3>1. r[k] = EncodeByte(b) \o r[k + 1]
      BY <1>2, <2>1
    <3> DEFINE e == EncodeByte(b)
               q == r[k + 1]
    <3>2. e \in Seq(Bytes) /\ q \in Seq(Bytes)
      BY <2>2, <2>3
    <3> HIDE DEF e, q
    <3>3. (e \o q) \o t = e \o (q \o t)
      BY <3>2, LineLaws, Zenon
    <3>4. QED BY <1>9, <3>1, <3>3, Zenon DEF e, q
  <2>5. Arrives(Stored(d, b), u, p, t)
    BY <1>6, <2>1
  <2>6. /\ Padded(p, k) = d.p_buffer
        /\ \A x : [d EXCEPT !.state = x].p_buffer = d.p_buffer
        /\ \A x : [d EXCEPT !.state = x].current_index = k
        /\ [d EXCEPT !.state = "ESC_RECEIVED"].state = "ESC_RECEIVED"
    BY <1>1 DEF SlipT
  <2>7. ASSUME NEW e \in Bytes, l = <<ESC, e>> \o u,
               \/ b = END /\ e = ESC_END
               \/ b = ESC /\ e = ESC_ESC
        PROVE  /\ l # <<>> /\ Head(l) = ESC
               /\ Arrives(AddByte(d, Head(l)), Tail(l), p, t)
    <3>1. l = <<ESC>> \o (<<e>> \o u)
      <4>1. u \in Seq(Bytes)
        BY <2>2
      <4> HIDE DEF u
      <4>2. <<ESC, e>> \o u = <<ESC>> \o (<<e>> \o u)
        BY <1>3, <4>1, LineLaws
      <4>3. QED BY <2>7, <4>2, Zenon
    <3>2. <<e>> \o u \in Seq(Bytes)
      BY <2>2, FirstAndRest
    <3>3. l # <<>> /\ Head(l) = ESC /\ Tail(l) = <<e>> \o u
      BY <1>3, <1>5, <3>1, <3>2
    <3>4. AddByte(d, ESC) = [d EXCEPT !.state = "ESC_RECEIVED"]
      BY <1>9, SlipAssumption DEF AddByte, Decoding
    <3> DEFINE dd == [d EXCEPT !.state = "ESC_RECEIVED"]
    <3>5. /\ dd.current_index = k /\ dd.p_buffer = Padded(p, k)
          /\ dd.state = "ESC_RECEIVED"
      BY <2>6
    <3> HIDE DEF dd
    <3>6. \/ b = END /\ Tail(l) = <<ESC_END>> \o u
          \/ b = ESC /\ Tail(l) = <<ESC_ESC>> \o u
      BY <2>7, <3>3
    <3>7. Arrives(dd, Tail(l), p, t)
      BY <1>1, <2>1, <3>5, <3>6, Zenon DEF Arrives, r
    <3>8. QED BY <3>3, <3>4, <3>7, Zenon DEF dd
  <2>8. CASE b = END
    <3>1. l = <<ESC, ESC_END>> \o u
      BY <2>2, <2>4, <2>8, EncodeByteType
    <3>2. ESC # END
      BY SlipAssumption
    <3>3. QED BY <1>3, <2>7, <2>8, <3>1, <3>2
  <2>9. CASE b = ESC
    <3>1. l = <<ESC, ESC_ESC>> \o u
      BY <2>2, <2>4, <2>9, EncodeByteType
    <3>2. ESC # END
      BY SlipAssumption
    <3>3. QED BY <1>3, <2>7, <2>9, <3>1, <3>2
  <2>10. CASE b \notin {END, ESC}
    <3>1. l = <<b>> \o u
      BY <2>2, <2>4, <2>10, EncodeByteType
    <3>2. l # <<>> /\ Head(l) = b /\ Tail(l) = u
      BY <1>5, <2>2, <3>1
    <3>3. AddByte(d, b) = Stored(d, b)
      BY <1>9, <2>10 DEF AddByte, Decoding
    <3>4. Head(l) # END
      BY <2>10, <3>2
    <3>5. QED BY <2>5, <3>2, <3>3, <3>4, Zenon
  <2>11. QED BY <2>8, <2>9, <2>10
<1>10. CASE /\ d.state = "ESC_RECEIVED" /\ k < Len(p)
            /\ \/ p[k + 1] = END /\ l = <<ESC_END>> \o (r[k + 1] \o t)
               \/ p[k + 1] = ESC /\ l = <<ESC_ESC>> \o (r[k + 1] \o t)
  <2>1. k + 1 \in 0 .. Len(p) /\ ESC_END # ESC_ESC /\ d.state # "DECODING"
    BY <1>1, <1>10, SlipAssumption
  <2> DEFINE b == p[k + 1]
             StartsWith(e) == l = <<e>> \o (r[k + 1] \o t)
  <2>2. ASSUME NEW e \in Bytes, StartsWith(e),
               \/ e = ESC_END /\ b = END
               \/ e = ESC_ESC /\ b = ESC
        PROVE  l # <<>> /\ Arrives(AddByte(d, Head(l)), Tail(l), p, t)
    <3>1. r[k + 1] \o t \in Seq(Bytes)
      BY <1>4, <2>1
    <3>2. l # <<>> /\ Head(l) = e /\ Tail(l) = r[k + 1] \o t
      BY <1>5, <2>2, <3>1
    <3>3. AddByte(d, e) = Stored(d, b)
      BY <1>10, <2>1, <2>2 DEF AddByte, EscReceived
    <3>4. Arrives(Stored(d, b), r[k + 1] \o t, p, t)
      BY <1>6, <1>10, <2>2
    <3>5. QED BY <3>2, <3>3, <3>4, Zenon
  <2> HIDE DEF b, StartsWith
  <2>3. ESC_END \in Bytes /\ ESC_ESC \in Bytes
    BY <1>3
  <2>4. CASE b = END /\ StartsWith(ESC_END)
    BY <2>1, <2>2, <2>3, <2>4, Zenon
  <2>5. CASE b = ESC /\ StartsWith(ESC_ESC)
    BY <2>1, <2>2, <2>3, <2>5, Zenon
  <2>6. QED BY <1>10, <2>4, <2>5, Zenon DEF b, StartsWith
<1>11. QED
  BY <1>7, <1>8, <1>9, <1>10, Zenon DEF Arrives, r

(* After a packet the decoder is as at the beginning.                      *)
LEMMA ClearedIsInit ==
  ASSUME NEW d \in SlipT
  PROVE  Cleared(d) = SlipInit
<1> DEFINE c == Cleared(d)
<1>1. c \in SlipT
  BY RestartedType
<1>2. c.state = "DECODING" /\ c.current_index = 0 /\ c.p_buffer = EmptyBuffer
  BY DEF Cleared, Restarted, SlipT
<1> HIDE DEF c
<1>3. c = [state |-> c.state, p_buffer |-> c.p_buffer, current_index |-> c.current_index]
  BY <1>1 DEF SlipT
<1>4. c = SlipInit
  BY <1>2, <1>3, Zenon DEF SlipInit
<1>5. QED BY <1>4 DEF c

(* More on the line behind a packet, behind the rest of one.               *)
LEMMA MoreBehind ==
  ASSUME NEW p \in Seq(Bytes), NEW t \in Seq(Bytes), NEW x \in Seq(Bytes)
  PROVE  /\ \A u \in Ahead(p, t) : u \in Seq(Bytes) /\ u \o x \in Ahead(p, t \o x)
         /\ \A d \in SlipT : \A l : Arrives(d, l, p, t) => Arrives(d, l \o x, p, t \o x)
<1>1. END \in Bytes /\ ESC_END \in Bytes /\ ESC_ESC \in Bytes
  BY DEF Bytes, Special
<1>2. /\ <<END>> \in Seq(Bytes) /\ <<ESC_END>> \in Seq(Bytes)
      /\ <<ESC_ESC>> \in Seq(Bytes)
  BY <1>1
<1>3. \A r, e \in Seq(Bytes) :
        /\ r \o t \in Seq(Bytes) /\ e \o (r \o t) \in Seq(Bytes)
        /\ (r \o t) \o x = r \o (t \o x)
        /\ (e \o (r \o t)) \o x = e \o (r \o (t \o x))
  <2> TAKE r, e \in Seq(Bytes)
  <2>1. r \o t \in Seq(Bytes)
    BY ConcatProperties
  <2>2. e \o (r \o t) \in Seq(Bytes)
    BY <2>1, ConcatProperties
  <2>3. (r \o t) \o x = r \o (t \o x)
    BY LineLaws, Zenon
  <2>4. (e \o (r \o t)) \o x = e \o ((r \o t) \o x)
    BY <2>1, LineLaws, ZenonT(40)
  <2>5. QED BY <2>1, <2>2, <2>3, <2>4, Zenon
<1>4. slip_encode(p) \in Seq(Bytes)
  BY EncodeType
<1>5. ASSUME NEW u \in Ahead(p, t)
      PROVE  u \in Seq(Bytes) /\ u \o x \in Ahead(p, t \o x)
  <2>1. CASE u = slip_encode(p) \o t
    BY <1>2, <1>3, <1>4, <2>1, Zenon DEF Ahead
  <2>2. CASE u = <<END>> \o (slip_encode(p) \o t)
    BY <1>2, <1>3, <1>4, <2>2, Zenon DEF Ahead
  <2>3. QED BY <2>1, <2>2 DEF Ahead
<1>6. ASSUME NEW d \in SlipT, NEW l, Arrives(d, l, p, t)
      PROVE  Arrives(d, l \o x, p, t \o x)
  <2> DEFINE k == d.current_index
  <2>1. /\ k \in 0 .. Len(p) /\ k \in Nat /\ Len(p) \in Nat
        /\ d.p_buffer = Padded(p, k)
    <3>1. k \in 0 .. Len(p) /\ d.p_buffer = Padded(p, k)
      BY <1>6, Zenon DEF Arrives
    <3>2. Len(p) \in Nat
      BY LenProperties
    <3>3. k \in Nat
      BY <3>1, <3>2
    <3>4. QED BY <3>1, <3>2, <3>3
  <2>2. /\ 0 \in 0 .. Len(p)
        /\ k < Len(p) => k + 1 \in 0 .. Len(p)
    BY <2>1
  <2>3. \A i \in 0 .. Len(p) : Rests(p)[i] \in Seq(Bytes)
    BY RestsDefined DEF IsRests
  <2>4. CASE d.state = "DECODING" /\ k = 0 /\ l = <<END>> \o (Rests(p)[0] \o t)
    <3>1. l \o x = <<END>> \o (Rests(p)[0] \o (t \o x))
      BY <1>2, <1>3, <2>2, <2>3, <2>4, Zenon
    <3>2. QED BY <2>1, <2>4, <3>1, Zenon DEF Arrives
  <2>5. CASE d.state = "DECODING" /\ l = Rests(p)[k] \o t
    <3>1. l \o x = Rests(p)[k] \o (t \o x)
      BY <1>2, <1>3, <2>1, <2>3, <2>5, Zenon
    <3>2. QED BY <2>1, <2>5, <3>1, Zenon DEF Arrives
  <2>6. CASE /\ d.state = "ESC_RECEIVED" /\ k < Len(p) /\ p[k + 1] = END
             /\ l = <<ESC_END>> \o (Rests(p)[k + 1] \o t)
    <3>1. l \o x = <<ESC_END>> \o (Rests(p)[k + 1] \o (t \o x))
      BY <1>2, <1>3, <2>2, <2>3, <2>6, Zenon
    <3>2. QED BY <2>1, <2>6, <3>1, Zenon DEF Arrives
  <2>7. CASE /\ d.state = "ESC_RECEIVED" /\ k < Len(p) /\ p[k + 1] = ESC
             /\ l = <<ESC_ESC>> \o (Rests(p)[k + 1] \o t)
    <3>1. l \o x = <<ESC_ESC>> \o (Rests(p)[k + 1] \o (t \o x))
      BY <1>2, <1>3, <2>2, <2>3, <2>7, Zenon
    <3>2. QED BY <2>1, <2>7, <3>1, Zenon DEF Arrives
  <2>8. QED
    BY <1>6, <2>4, <2>5, <2>6, <2>7, Zenon DEF Arrives
<1>7. QED BY <1>5, <1>6, Zenon

(* The peer sends another packet.                                          *)
LEMMA FramesAppend ==
  ASSUME NEW q \in Seq(Seq(Bytes)), NEW p \in Seq(Bytes),
         NEW s, NEW l \in Seq(Bytes), NEW d \in SlipT, Frames(s, q, l, d),
         NEW x \in {slip_encode(p), <<END>> \o slip_encode(p)}
  PROVE  \E z : Frames(z, Append(q, p), l \o x, d)
<1> DEFINE n == Len(q)
           more == Append(q, p)
           z == [i \in 1 .. n + 2 |-> IF i = n + 2 THEN <<>> ELSE s[i] \o x]
<1>1. n \in Nat /\ \A i \in 1 .. n : q[i] \in Seq(Bytes)
  BY LenProperties, ElementOfSeq
<1>2. /\ more \in Seq(Seq(Bytes)) /\ Len(more) = n + 1
      /\ \A i \in 1 .. n : more[i] = q[i]
      /\ more[n + 1] = p
  BY AppendProperties
<1>3. more # <<>>
  BY <1>1, <1>2, EmptySeq
<1>4. x \in Seq(Bytes) /\ x \in Ahead(p, <<>>)
  <2>1. slip_encode(p) \in Seq(Bytes) /\ END \in Bytes
    BY EncodeType DEF Bytes, Special
  <2>2. slip_encode(p) \o <<>> = slip_encode(p)
    BY <2>1, ConcatEmptySeq
  <2>3. <<END>> \o slip_encode(p) \in Seq(Bytes)
    BY <2>1, FirstAndRest
  <2>4. QED BY <2>1, <2>2, <2>3, Zenon DEF Ahead
<1>5. /\ s \in [1 .. n + 1 -> Seq(Bytes)]
      /\ s[n + 1] = <<>>
      /\ l = s[1]
      /\ \A i \in 2 .. n : s[i] \in Ahead(q[i], s[i + 1])
  BY DEF Frames
<1>6. <<>> \in Seq(Bytes) /\ <<>> \o x = x
  BY <1>4, EmptySeq, ConcatEmptySeq
<1> HIDE DEF n, more
<1>7. /\ z \in [1 .. n + 2 -> Seq(Bytes)]
      /\ z[n + 2] = <<>>
      /\ \A i \in 1 .. n + 1 : z[i] = s[i] \o x
  <2>1. \A i \in 1 .. n + 1 : s[i] \o x \in Seq(Bytes)
    <3> TAKE i \in 1 .. n + 1
    <3>1. s[i] \in Seq(Bytes)
      BY <1>5
    <3>2. QED BY <1>4, <3>1, ConcatProperties
  <2>2. \A i \in 1 .. n + 2 : i # n + 2 => i \in 1 .. n + 1
    BY <1>1
  <2>3. z \in [1 .. n + 2 -> Seq(Bytes)]
    BY <1>6, <2>1, <2>2
  <2>4. QED BY <1>1, <2>3
<1> HIDE DEF z
<1>8. z[n + 1] = x
  <2>1. n + 1 \in 1 .. n + 1
    BY <1>1
  <2>2. z[n + 1] = <<>> \o x
    BY <1>5, <1>7, <2>1, Zenon
  <2>3. QED BY <1>6, <2>2, Zenon
<1>9. l \o x = z[1]
  <2>1. 1 \in 1 .. n + 1
    BY <1>1
  <2>2. QED BY <1>5, <1>7, <2>1, Zenon
<1>10. ASSUME NEW i \in 2 .. n + 1
       PROVE  z[i] \in Ahead(more[i], z[i + 1])
  <2>1. CASE i = n + 1
    <3>1. i + 1 = n + 2 /\ z[i] = x /\ more[i] = p
      BY <1>1, <1>2, <1>8, <2>1
    <3>2. z[i + 1] = <<>>
      BY <1>7, <3>1
    <3>3. QED BY <1>4, <3>1, <3>2, Zenon
  <2>2. CASE i # n + 1
    <3>1. i \in 2 .. n /\ i \in 1 .. n /\ i \in 1 .. n + 1 /\ i + 1 \in 1 .. n + 1
      BY <1>1, <2>2
    <3>2. q[i] \in Seq(Bytes) /\ s[i + 1] \in Seq(Bytes)
      BY <1>1, <1>5, <3>1
    <3>3. s[i] \o x \in Ahead(q[i], s[i + 1] \o x)
      BY <1>4, <1>5, <3>1, <3>2, MoreBehind, Zenon
    <3>4. QED BY <1>2, <1>7, <3>1, <3>3, Zenon
  <2>3. QED BY <2>1, <2>2
<1>11. Arrives(d, l \o x, more[1], z[2])
  <2>1. CASE q = <<>>
    <3>1. n = 0
      BY <2>1, EmptySeq DEF n
    <3>2. more[1] = p /\ z[2] = <<>> /\ l = <<>>
      BY <1>2, <1>5, <1>7, <3>1
    <3>3. l \o x \in Ahead(p, <<>>)
      BY <1>4, <1>6, <3>2, Zenon
    <3>4. d = SlipInit
      BY <2>1, Zenon DEF Frames
    <3>5. d.state = "DECODING" /\ d.current_index = 0 /\ d.p_buffer = EmptyBuffer
      BY <3>4 DEF SlipInit
    <3>6. Arrives(d, l \o x, p, <<>>)
      BY <1>6, <3>3, <3>5, FreshArrives, Zenon
    <3>7. QED BY <3>2, <3>6, Zenon
  <2>2. CASE q # <<>>
    <3>1. n # 0
      BY <2>2, EmptySeq DEF n
    <3>2. 1 \in 1 .. n /\ 2 \in 1 .. n + 1
      BY <1>1, <3>1
    <3>3. q[1] \in Seq(Bytes) /\ s[2] \in Seq(Bytes) /\ more[1] = q[1] /\ z[2] = s[2] \o x
      BY <1>1, <1>2, <1>5, <1>7, <3>2
    <3>4. Arrives(d, l, q[1], s[2])
      BY <2>2, Zenon DEF Frames
    <3>5. Arrives(d, l \o x, q[1], s[2] \o x)
      BY <1>4, <3>3, <3>4, MoreBehind, Zenon
    <3>6. QED BY <3>3, <3>5, Zenon
  <2>3. QED BY <2>1, <2>2
<1>12. z \in [1 .. Len(more) + 1 -> Seq(Bytes)] /\ z[Len(more) + 1] = <<>>
  BY <1>1, <1>2, <1>7
<1>13. \A i \in 2 .. Len(more) : z[i] \in Ahead(more[i], z[i + 1])
  BY <1>1, <1>2, <1>10
<1>14. Frames(z, more, l \o x, d)
  BY <1>3, <1>9, <1>11, <1>12, <1>13, Zenon DEF Frames
<1>15. QED BY <1>14 DEF more

(* A packet is handled: the next is the oldest.                            *)
LEMMA FramesTail ==
  ASSUME NEW q \in Seq(Seq(Bytes)), q # <<>>, NEW s, NEW l, NEW d, Frames(s, q, l, d)
  PROVE  \E z : Frames(z, Tail(q), s[2], SlipInit)
<1> DEFINE n == Len(q)
           rest == Tail(q)
           z == [i \in 1 .. n |-> s[i + 1]]
<1>1. n \in Nat \ {0} /\ \A i \in 1 .. n : q[i] \in Seq(Bytes)
  BY LenProperties, ElementOfSeq, EmptySeq
<1>2. /\ rest \in Seq(Seq(Bytes)) /\ Len(rest) = n - 1
      /\ \A i \in 1 .. n - 1 : rest[i] = q[i + 1]
  BY HeadTailProperties
<1>3. /\ s \in [1 .. n + 1 -> Seq(Bytes)]
      /\ s[n + 1] = <<>>
      /\ \A i \in 2 .. n : s[i] \in Ahead(q[i], s[i + 1])
  BY DEF Frames
<1> HIDE DEF n, rest
<1>4. z \in [1 .. n -> Seq(Bytes)] /\ z[n] = <<>> /\ \A i \in 1 .. n : z[i] = s[i + 1]
  BY <1>1, <1>3
<1> HIDE DEF z
<1>5. z \in [1 .. Len(rest) + 1 -> Seq(Bytes)] /\ z[Len(rest) + 1] = <<>> /\ s[2] = z[1]
  BY <1>1, <1>2, <1>4, SMTT(20)
<1>6. ASSUME NEW i \in 1 .. Len(rest)
      PROVE  z[i] \in Ahead(rest[i], z[i + 1])
  <2>1. i \in 1 .. n - 1 /\ i \in 1 .. n /\ i + 1 \in 1 .. n /\ i + 1 \in 2 .. n
    BY <1>1, <1>2
  <2>2. z[i] = s[i + 1] /\ z[i + 1] = s[(i + 1) + 1] /\ rest[i] = q[i + 1]
    BY <1>2, <1>4, <2>1
  <2>3. QED BY <1>3, <2>1, <2>2, Zenon
<1>7. /\ SlipInit.state = "DECODING" /\ SlipInit.current_index = 0
      /\ SlipInit.p_buffer = EmptyBuffer
  BY DEF SlipInit
<1>8. ASSUME rest # <<>> PROVE Arrives(SlipInit, s[2], rest[1], z[2])
  <2>1. Len(rest) # 0 /\ Len(rest) \in Nat
    BY <1>2, <1>8, EmptySeq, LenProperties
  <2>2. 1 \in 1 .. Len(rest) /\ 1 \in 1 .. n - 1 /\ 2 \in 1 .. n
    BY <1>1, <1>2, <2>1
  <2>3. rest[1] \in Seq(Bytes) /\ z[2] \in Seq(Bytes)
    BY <1>1, <1>2, <1>4, <2>2
  <2>4. z[1] \in Ahead(rest[1], z[2])
    BY <1>6, <2>2
  <2>5. QED BY <1>5, <1>7, <2>3, <2>4, FreshArrives, Zenon
<1>9. \A i \in 2 .. Len(rest) : z[i] \in Ahead(rest[i], z[i + 1])
  BY <1>1, <1>2, <1>6
<1>10. Frames(z, rest, s[2], SlipInit)
  BY <1>5, <1>8, <1>9, Zenon DEF Frames
<1>11. QED BY <1>10 DEF rest

(* A byte of a good line: either no packet is handled, or the oldest is,   *)
(* and what handle_uart_data sees of it is all of it.                      *)
HandlesOldest ==
  /\ sent # <<>> /\ sent' = Tail(sent) /\ got' = Head(sent)
  /\ transfer_mode' = (transfer_mode \/ Transfers(got'))
  /\ Len(got') < BufferLen
  /\ done' = Obeyed(Padded(got', Len(got')), Len(got'))

(* What handle_uart_data makes of the zero bytes of an empty packet, and   *)
(* of those behind a packet: nothing.                                      *)
LEMMA TransferInPacket ==
  /\ ~Transfers(EmptyBuffer)
  /\ \A p \in Seq(Bytes) :
       Len(p) < BufferLen => Transfers(Padded(p, Len(p))) = Transfers(p)
<1>1. ASSUME NEW w \in Words PROVE ~Holds(EmptyBuffer, w)
  BY <1>1, DispatchAssumption DEF Holds, Found, EmptyBuffer
<1>2. ASSUME NEW p \in Seq(Bytes), Len(p) < BufferLen, NEW w \in Words
      PROVE  Holds(Padded(p, Len(p)), w) <=> Holds(p, w)
  <2> DEFINE n == Len(p)
             buffer == Padded(p, n)
  <2>1. n \in Nat /\ DOMAIN p = 1 .. n /\ BufferLen \in Nat /\ n < BufferLen
    BY <1>2, LenProperties, SlipAssumption
  <2>2. /\ DOMAIN buffer = 1 .. BufferLen
        /\ \A i \in 1 .. BufferLen : buffer[i] = IF i <= n THEN p[i] ELSE ZERO
    BY DEF Padded
  <2>3. w # ZERO
    BY DispatchAssumption
  <2> HIDE DEF n, buffer
  <2>4. ASSUME NEW i \in DOMAIN buffer, buffer[i] = w,
               \A j \in 1 .. i : buffer[j] # ZERO
        PROVE  Holds(p, w)
    <3>1. i \in 1 .. n /\ p[i] = w
      BY <2>1, <2>2, <2>3, <2>4
    <3>2. \A j \in 1 .. i : p[j] # ZERO
      BY <2>1, <2>2, <2>4, <3>1
    <3>3. QED BY <2>1, <3>1, <3>2 DEF Holds, Found
  <2>5. ASSUME NEW i \in DOMAIN p, p[i] = w, \A j \in 1 .. i : p[j] # ZERO
        PROVE  Holds(buffer, w)
    <3>1. i \in 1 .. n /\ i \in DOMAIN buffer /\ buffer[i] = w
      BY <2>1, <2>2, <2>5
    <3>2. \A j \in 1 .. i : buffer[j] # ZERO
      BY <2>1, <2>2, <2>5, <3>1
    <3>3. QED BY <3>1, <3>2 DEF Holds, Found
  <2>6. Holds(buffer, w) => Holds(p, w)
    BY <2>4 DEF Holds, Found
  <2>7. Holds(p, w) => Holds(buffer, w)
    BY <2>5 DEF Holds, Found
  <2>8. QED BY <2>6, <2>7 DEF n, buffer
<1>3. DOWNLOAD \in Words /\ TRANSFER \in Words
  BY DEF Words
<1>4. ~Transfers(EmptyBuffer)
  BY <1>1, <1>3, Zenon DEF Transfers
<1>5. ASSUME NEW p \in Seq(Bytes), Len(p) < BufferLen
      PROVE  Transfers(Padded(p, Len(p))) = Transfers(p)
  BY <1>2, <1>3, <1>5, Zenon DEF Transfers
<1>6. QED BY <1>4, <1>5

(* A byte that no error precedes continues the frame, or ends it and has   *)
(* the oldest packet handled.                                              *)
LEMMA GoodByte ==
  ASSUME TypeOK, FrameInv, good, decoding, ReceiveByte
  PROVE  FrameInv' /\ (UNCHANGED <<transfer_mode, history>> \/ HandlesOldest)
<1> DEFINE c == Head(line)
<1>1. DecodeByte(c) /\ line' = Tail(line) /\ good' /\ decoding'
  BY Zenon DEF ReceiveByte, RxByte
<1>2. /\ m_slip \in SlipT /\ line \in Seq(Bytes) /\ sent \in Seq(Packets) /\ line # <<>>
      /\ transfer_mode \in BOOLEAN
  BY DEF TypeOK, ReceiveByte
<1>3. sent \in Seq(Seq(Bytes))
  BY <1>2, LinkAssumption
<1>4. CASE Full(m_slip)
  <2>1. ~Completes(c)
    BY <1>4 DEF Completes
  <2>2. m_slip' = AddByte(m_slip, c) /\ UNCHANGED <<transfer_mode, history>>
    BY <1>1, <2>1, DecodeOutcome
  <2>3. m_slip' = m_slip
    BY <1>4, <2>2 DEF AddByte
  <2>4. Full(m_slip)'
    BY <1>4, <2>3 DEF Full
  <2>5. QED BY <2>2, <2>4 DEF FrameInv
<1>5. CASE ~Full(m_slip)
  <2>1. PICK s : Frames(s, sent, line, m_slip)
    BY <1>5, Zenon DEF FrameInv
  <2> DEFINE n == Len(sent)
             p == sent[1]
             t == s[2]
  <2>2. n \in Nat
    BY <1>2, LenProperties
  <2>3. s \in [1 .. n + 1 -> Seq(Bytes)] /\ s[n + 1] = <<>> /\ line = s[1]
    BY <2>1 DEF Frames
  <2>4. sent # <<>>
    <3>1. SUFFICES ASSUME sent = <<>> PROVE FALSE
      OBVIOUS
    <3>2. n + 1 = 1
      BY <3>1, EmptySeq
    <3>3. QED BY <1>2, <2>3, <3>2, Zenon
  <2>5. n \in Nat \ {0} /\ Head(sent) = p
    BY <1>2, <2>2, <2>4, EmptySeq, HeadTailProperties
  <2>6. p \in Packets /\ p \in Seq(Bytes) /\ p # <<>>
    <3>1. p \in Packets
      BY <1>2, <2>5, ElementOfSeq
    <3>2. QED BY <3>1, LinkAssumption
  <2>7. t \in Seq(Bytes)
    BY <2>3, <2>5
  <2>8. Arrives(m_slip, line, p, t)
    BY <2>1, <2>4, Zenon DEF Frames
  <2>9. c \in Bytes
    BY <1>2, HeadTailProperties
  <2>10. ASSUME NEW l, NEW d, Arrives(d, l, p, t), line' = l, m_slip' = d,
                UNCHANGED <<transfer_mode, history>>
         PROVE  FrameInv'
    <3> DEFINE z == [s EXCEPT ![1] = l]
    <3>1. l \in Seq(Bytes)
      BY <1>1, <1>2, <2>10, HeadTailProperties
    <3>2. /\ z \in [1 .. n + 1 -> Seq(Bytes)] /\ z[1] = l
          /\ \A i \in 2 .. n + 1 : z[i] = s[i]
      BY <2>3, <2>5, <3>1
    <3> HIDE DEF z
    <3>3. z[n + 1] = <<>> /\ z[2] = t
      BY <2>3, <2>5, <3>2
    <3>4. \A i \in 2 .. n : i \in 2 .. n + 1 /\ i + 1 \in 2 .. n + 1
      BY <2>2
    <3>5. \A i \in 2 .. n : s[i] \in Ahead(sent[i], s[i + 1])
      BY <2>1, Zenon DEF Frames
    <3>6. \A i \in 2 .. n : z[i] \in Ahead(sent[i], z[i + 1])
      BY <3>2, <3>4, <3>5, Zenon
    <3>7. Frames(z, sent, l, d)
      BY <2>4, <2>10, <3>2, <3>3, <3>6, Zenon DEF Frames
    <3>8. Frames(z, sent', line', m_slip')
      BY <2>10, <3>7, Zenon DEF history
    <3>9. QED BY <3>8, Zenon DEF FrameInv
  <2>11. CASE ~(m_slip.state = "DECODING" /\ c = END)
              /\ Arrives(AddByte(m_slip, c), Tail(line), p, t)
    <3>1. ~Completes(c)
      BY <2>11, Zenon DEF Completes
    <3>2. m_slip' = AddByte(m_slip, c) /\ UNCHANGED <<transfer_mode, history>>
      BY <1>1, <3>1, DecodeOutcome
    <3>3. FrameInv'
      BY <1>1, <2>10, <2>11, <3>2, Zenon
    <3>4. QED BY <3>2, <3>3, Zenon
  <2>12. ASSUME m_slip.state = "DECODING", c = END
         PROVE  /\ Dispatch(m_slip) /\ m_slip' = SlipInit
    <3>1. Completes(c)
      BY <1>5, <2>12, Zenon DEF Completes
    <3>2. Dispatch(m_slip)
      BY <1>1, <3>1, DecodeOutcome, Zenon
    <3>3. QED BY <1>2, <3>2, ClearedIsInit, Zenon DEF Dispatch
  <2> DEFINE packet == SubSeq(m_slip.p_buffer, 1, m_slip.current_index)
  <2>13. CASE /\ m_slip.state = "DECODING" /\ c = END
              /\ m_slip.current_index = 0 /\ m_slip.p_buffer = EmptyBuffer
              /\ Tail(line) = Rests(p)[0] \o t
    <3>1. Dispatch(m_slip) /\ m_slip' = SlipInit
      BY <2>12, <2>13
    <3>2. packet = <<>>
      BY <1>2, <2>13, PacketType, EmptySeq
    <3>3. UNCHANGED <<transfer_mode, history>>
      <4>1. UNCHANGED history
        BY <3>1, <3>2, Zenon DEF Dispatch
      <4>2. ~Transfers(m_slip.p_buffer)
        BY <2>13, TransferInPacket, Zenon
      <4>3. transfer_mode' = transfer_mode
        BY <1>2, <3>1, <4>2, Zenon DEF Dispatch
      <4>4. QED BY <4>1, <4>3
    <3>4. line' = Rests(p)[0] \o t
      BY <1>1, <2>13
    <3>5. Rests(p)[0] = slip_encode(p)
      BY <2>6, RestsDefined DEF IsRests
    <3>6. line' \in Ahead(p, t)
      BY <3>4, <3>5, Zenon DEF Ahead
    <3>7. /\ SlipInit.state = "DECODING" /\ SlipInit.current_index = 0
          /\ SlipInit.p_buffer = EmptyBuffer
      BY DEF SlipInit
    <3>8. Arrives(SlipInit, line', p, t)
      BY <2>6, <2>7, <3>6, <3>7, FreshArrives, Zenon
    <3>9. FrameInv'
      BY <2>10, <3>1, <3>3, <3>8, Zenon
    <3>10. QED BY <3>3, <3>9, Zenon
  <2>14. CASE /\ m_slip.state = "DECODING" /\ c = END
              /\ m_slip.current_index = Len(p) /\ Tail(line) = t
    <3>1. Dispatch(m_slip) /\ m_slip' = SlipInit
      BY <2>12, <2>14
    <3>2. Len(p) \in Nat /\ m_slip.p_buffer = Padded(p, Len(p))
      BY <2>6, <2>8, <2>14, LenProperties DEF Arrives
    <3>3. Len(p) < BufferLen
      BY <1>2, <1>5, <2>14, SlipAssumption DEF SlipT, Full
    <3>4. packet = p
      <4>1. packet \in Seq(Bytes) /\ Len(packet) = Len(p)
        BY <1>2, <2>14, PacketType
      <4>2. \A i \in 1 .. Len(p) : packet[i] = m_slip.p_buffer[i]
        BY <1>2, <2>14, PacketType
      <4>3. \A i \in 1 .. Len(p) : m_slip.p_buffer[i] = p[i]
        BY <3>2, <3>3, SlipAssumption DEF Padded
      <4> HIDE DEF packet, p
      <4>4. \A i \in 1 .. Len(p) : packet[i] = p[i]
        BY <4>2, <4>3, Zenon
      <4>5. QED BY <2>6, <4>1, <4>4, SeqEqual, Zenon
    <3>5. /\ got' = p /\ done' = Obeyed(m_slip.p_buffer, m_slip.current_index)
          /\ sent' = Tail(sent)
      BY <2>4, <2>6, <3>1, <3>4, Zenon DEF Dispatch
    <3>6. HandlesOldest
      <4>1. transfer_mode' = (transfer_mode \/ Transfers(m_slip.p_buffer))
        BY <3>1, Zenon DEF Dispatch
      <4>2. Transfers(m_slip.p_buffer) = Transfers(p)
        BY <2>6, <3>2, <3>3, TransferInPacket, Zenon
      <4>3. transfer_mode' = (transfer_mode \/ Transfers(got'))
        BY <3>5, <4>1, <4>2, Zenon
      <4>4. QED
        BY <2>4, <2>5, <2>14, <3>2, <3>3, <3>5, <4>3, Zenon DEF HandlesOldest
    <3>7. PICK z : Frames(z, Tail(sent), s[2], SlipInit)
      BY <1>3, <2>1, <2>4, FramesTail
    <3>8. Frames(z, sent', line', m_slip')
      BY <1>1, <2>14, <3>1, <3>5, <3>7, Zenon
    <3>9. FrameInv'
      BY <3>8, Zenon DEF FrameInv
    <3>10. QED BY <3>6, <3>9
  <2> HIDE DEF packet
  <2> HIDE DEF p, t
  <2>15. \/ /\ ~(m_slip.state = "DECODING" /\ c = END)
            /\ Arrives(AddByte(m_slip, c), Tail(line), p, t)
         \/ /\ m_slip.state = "DECODING" /\ c = END
            /\ m_slip.current_index = 0 /\ m_slip.p_buffer = EmptyBuffer
            /\ Tail(line) = Rests(p)[0] \o t
         \/ /\ m_slip.state = "DECODING" /\ c = END
            /\ m_slip.current_index = Len(p) /\ Tail(line) = t
    BY <1>2, <1>5, <2>6, <2>7, <2>8, ByteArrives
  <2>16. QED
    BY <2>11, <2>13, <2>14, <2>15, Zenon
<1>6. QED BY <1>4, <1>5

(* A packet is put on a good line.                                         *)
LEMMA GoodSend ==
  ASSUME TypeOK, FrameInv, SendPacket
  PROVE  FrameInv'
<1>1. PICK p \in Packets, lead \in {<<>>, <<END>>} :
        line' = line \o lead \o slip_encode(p) /\ sent' = Append(sent, p)
  BY DEF SendPacket
<1>2. /\ m_slip \in SlipT /\ line \in Seq(Bytes)
      /\ p \in Seq(Bytes) /\ sent \in Seq(Seq(Bytes))
  BY LinkAssumption DEF TypeOK
<1>3. good /\ m_slip' = m_slip /\ good' = good /\ decoding' = decoding
  BY Zenon DEF SendPacket, mode
<1>4. CASE Full(m_slip) \/ ~decoding
  BY <1>3, <1>4 DEF FrameInv, Full
<1>5. CASE ~Full(m_slip) /\ decoding
  <2>1. PICK s : Frames(s, sent, line, m_slip)
    BY <1>3, <1>5, Zenon DEF FrameInv
  <2>2. slip_encode(p) \in Seq(Bytes) /\ END \in Bytes
    BY <1>2, EncodeType DEF Bytes, Special
  <2>3. <<END>> \in Seq(Bytes)
    BY <2>2
  <2>4. PICK x \in {slip_encode(p), <<END>> \o slip_encode(p)} : line' = line \o x
    <3>1. CASE lead = <<>>
      <4>1. line \o <<>> = line
        BY <1>2, ConcatEmptySeq
      <4>2. line' = line \o slip_encode(p)
        BY <1>1, <3>1, <4>1, Zenon
      <4>3. QED BY <4>2
    <3>2. CASE lead = <<END>>
      <4>1. (line \o <<END>>) \o slip_encode(p) = line \o (<<END>> \o slip_encode(p))
        BY <1>2, <2>2, <2>3, LineLaws, Zenon
      <4>2. line' = line \o (<<END>> \o slip_encode(p))
        BY <1>1, <3>2, <4>1, Zenon
      <4>3. QED BY <4>2
    <3>3. QED BY <3>1, <3>2
  <2>5. \E z : Frames(z, Append(sent, p), line \o x, m_slip)
    BY <1>2, <2>1, FramesAppend
  <2>6. \E z : Frames(z, sent', line', m_slip')
    BY <1>1, <1>3, <2>4, <2>5, Zenon
  <2>7. QED BY <2>6, Zenon DEF FrameInv
<1>6. QED BY <1>4, <1>5

LinkInv == FrameInv /\ FrozenInv /\ DoneInv

(* The line and the decoder agree at the start ...                         *)
LEMMA InitLinkInv == Init => LinkInv
<1> SUFFICES ASSUME Init PROVE LinkInv
  OBVIOUS
<1>1. got = <<>> /\ sent = <<>> /\ line = <<>> /\ m_slip = SlipInit /\ decoding
  BY Zenon DEF Init
<1> DEFINE s == [i \in 1 .. 1 |-> <<>>]
<1>2. s \in [1 .. 1 -> Seq(Bytes)] /\ s[1] = <<>>
  BY EmptySeq
<1> HIDE DEF s
<1>3. Len(sent) = 0
  BY <1>1, EmptySeq
<1>4. /\ s \in [1 .. Len(sent) + 1 -> Seq(Bytes)] /\ s[Len(sent) + 1] = <<>>
      /\ \A i \in 2 .. Len(sent) : s[i] \in Ahead(sent[i], s[i + 1])
  BY <1>2, <1>3
<1>5. Frames(s, sent, line, m_slip)
  BY <1>1, <1>2, <1>4, Zenon DEF Frames
<1>6. QED
  BY <1>1, <1>5, Zenon DEF LinkInv, FrameInv, FrozenInv, DoneInv

(* While events are decoded, what is behind the received bytes is zero.    *)
LEMMA ZeroBehind ==
  ASSUME TypeOK, FrameInv, good, decoding
  PROVE  \A i \in m_slip.current_index + 1 .. BufferLen : m_slip.p_buffer[i] = ZERO
<1> DEFINE k == m_slip.current_index
<1> SUFFICES ASSUME NEW i \in k + 1 .. BufferLen PROVE m_slip.p_buffer[i] = ZERO
  OBVIOUS
<1>1. k \in 0 .. BufferLen /\ BufferLen \in Nat
  BY SlipAssumption DEF TypeOK, SlipT
<1>2. k # BufferLen
  BY <1>1
<1>3. PICK s : Frames(s, sent, line, m_slip)
  BY <1>2, Zenon DEF FrameInv, Full
<1>4. m_slip.p_buffer \in {EmptyBuffer} \cup {Padded(p, k) : p \in {sent[1]}}
  <2>1. CASE sent = <<>>
    BY <1>3, <2>1 DEF Frames, SlipInit
  <2>2. CASE sent # <<>>
    BY <1>3, <2>2 DEF Frames, Arrives
  <2>3. QED BY <2>1, <2>2
<1>5. QED
  BY <1>1, <1>4 DEF EmptyBuffer, Padded

(* A byte that a transfer has taken for an image changes nothing here.     *)
LEMMA ImageByte ==
  ASSUME ReceiveByte, ~decoding
  PROVE  UNCHANGED <<m_slip, mode, history, good>>
BY Zenon DEF ReceiveByte, RxByte, mode

(* ... and after every step, ...                                           *)
LEMMA NextLinkInv ==
  ASSUME TypeOK, LinkInv, [Next]_vars
  PROVE  LinkInv'
<1> USE DEF LinkInv
<1>1. CASE SendPacket
  <2>1. UNCHANGED <<m_slip, mode, got, done, good>>
    BY <1>1, Zenon DEF SendPacket
  <2>2. DoneInv' /\ FrozenInv'
    BY <2>1, Zenon DEF DoneInv, FrozenInv, mode
  <2>3. QED BY <1>1, <2>2, GoodSend, Zenon
<1>2. CASE ReceiveByte /\ good /\ decoding
  <2>1. FrameInv' /\ (UNCHANGED <<transfer_mode, history>> \/ HandlesOldest)
    BY <1>2, GoodByte
  <2>2. good' /\ decoding'
    BY <1>2, Zenon DEF ReceiveByte, RxByte
  <2>3. FrozenInv'
    BY <2>2, Zenon DEF FrozenInv
  <2>4. CASE UNCHANGED <<transfer_mode, history>>
    BY <1>2, <2>1, <2>3, <2>4, Zenon DEF DoneInv, history
  <2>5. CASE HandlesOldest
    BY <2>1, <2>3, <2>5, Zenon DEF DoneInv, HandlesOldest
  <2>6. QED BY <2>1, <2>4, <2>5, Zenon
<1>3. CASE ~decoding /\ UNCHANGED <<m_slip, mode, history, good>>
  BY <1>3, Zenon DEF FrameInv, FrozenInv, DoneInv, mode, history
<1>4. CASE RxEvent
  <2>1. decoding' = ~transfer_mode /\ UNCHANGED <<line, m_slip, transfer_mode, history, good>>
    BY <1>4, Zenon DEF RxEvent
  <2>2. DoneInv'
    BY <2>1, Zenon DEF DoneInv, history
  <2>3. CASE transfer_mode
    <3>1. ~decoding' /\ transfer_mode'
      BY <2>1, <2>3, Zenon
    <3>2. FrameInv'
      BY <3>1, Zenon DEF FrameInv
    <3>3. good => \A i \in m_slip.current_index + 1 .. BufferLen :
                    m_slip.p_buffer[i] = ZERO
      BY ZeroBehind, Zenon DEF FrozenInv
    <3>4. FrozenInv'
      BY <2>1, <3>1, <3>3, Zenon DEF FrozenInv
    <3>5. QED BY <2>2, <3>2, <3>4, Zenon
  <2>4. CASE ~transfer_mode
    <3>1. decoding /\ decoding'
      BY <2>1, <2>4, Zenon DEF FrozenInv
    <3>2. FrameInv' /\ FrozenInv'
      BY <2>1, <3>1, Zenon DEF FrameInv, FrozenInv, Full, history
    <3>3. QED BY <2>2, <3>2, Zenon
  <2>5. QED BY <2>3, <2>4
<1>5. CASE UNCHANGED vars
  BY <1>5, Zenon DEF FrameInv, FrozenInv, DoneInv, Full, vars, mode, history
<1>6. ASSUME ~good', decoding' \/ transfer_mode' PROVE LinkInv'
  BY <1>6, Zenon DEF FrameInv, FrozenInv, DoneInv
<1>7. CASE LineError
  BY <1>6, <1>7, Zenon DEF LineError, FrozenInv, mode
<1>8. ASSUME NEW c, RxByte(c) PROVE decoding' \/ transfer_mode'
  <2>1. CASE decoding
    BY <1>8, <2>1, Zenon DEF RxByte
  <2>2. CASE ~decoding
    BY <1>8, <2>2, Zenon DEF RxByte, FrozenInv
  <2>3. QED BY <2>1, <2>2
<1>9. CASE ReceiveNoise
  <2>1. PICK c \in Bytes : ~good /\ RxByte(c) /\ good' = good
    BY <1>9, Zenon DEF ReceiveNoise, ReceiveAny
  <2>2. ~good'
    BY <2>1, Zenon
  <2>3. decoding' \/ transfer_mode'
    BY <1>8, <2>1, Zenon
  <2>4. QED BY <1>6, <2>2, <2>3, Zenon
<1>10. CASE ReceiveByte /\ ~good
  BY <1>6, <1>8, <1>10, Zenon DEF ReceiveByte
<1>11. CASE ReceiveByte /\ ~decoding
  BY <1>3, <1>11, ImageByte
<1>12. QED
  BY <1>1, <1>2, <1>4, <1>5, <1>7, <1>9, <1>10, <1>11, Zenon DEF Next

(* ... so they always do.                                                  *)
LEMMA LinkSafe == Spec => [](TypeOK /\ LinkInv)
<1>1. TypeOK /\ LinkInv /\ [Next]_vars => LinkInv'
  BY NextLinkInv
<1>2. QED BY <1>1, InitLinkInv, TypeCorrect, PTL DEF Spec

-----------------------------------------------------------------------------
(* What handle_uart_data sees is the packet and nothing else, as long as   *)
(* the line is good.  Packets of any length: one that fills the buffer     *)
(* leaves no byte behind it.                                               *)
THEOREM OnlyThePacketSeen == Spec => []DispatchSeesPacketOnly
<1>1. TypeOK /\ LinkInv => DispatchSeesPacketOnly
  BY ZeroBehind, Zenon DEF LinkInv, FrozenInv, DispatchSeesPacketOnly
<1>2. QED BY <1>1, LinkSafe, PTL

(* A number below the modulus is its own remainder, and no remainder is    *)
(* greater than the number.                                                *)
LEMMA Remainder ==
  ASSUME NEW a \in Nat, NEW m \in Nat \ {0}
  PROVE  a % m \in 0 .. a /\ (a < m => a % m = a)
OBVIOUS

(* An upload that arrives on a good line reaches on_packet_received with   *)
(* its argument: what handle_uart_data computes from the whole buffer, the *)
(* place of the word and a uint8_t is the packet behind its first word.    *)
THEOREM UploadsReach == Spec => []UploadsArgument
<1>1. TypeOK /\ LinkInv => UploadsArgument
  <2> SUFFICES ASSUME TypeOK, LinkInv, good, got # <<>>, Head(got) = UPLOAD,
                      ~Holds(got, DOWNLOAD), ~Holds(got, TRANSFER)
               PROVE  /\ done.word = UPLOAD
                      /\ \E n \in 1 .. Len(got) : done.message = SubSeq(got, 2, n)
                      /\ Len(got) - 1 < LenMod => done.message = Tail(got)
    BY Zenon DEF UploadsArgument
  <2> DEFINE n == Len(got)
             buffer == Padded(got, n)
             m == UploadLen(n)
  <2>1. got \in Seq(Bytes) /\ n \in Nat \ {0} /\ DOMAIN got = 1 .. n /\ got[1] = UPLOAD
    BY LenProperties, EmptySeq, HeadTailProperties DEF TypeOK
  <2>2. n < BufferLen /\ done = Obeyed(buffer, n) /\ BufferLen \in Nat
    BY SlipAssumption DEF LinkInv, DoneInv
  <2>3. /\ DOMAIN buffer = 1 .. BufferLen
        /\ \A i \in 1 .. BufferLen : buffer[i] = IF i <= n THEN got[i] ELSE ZERO
    BY DEF Padded
  <2> HIDE DEF n, buffer
  <2>4. ASSUME NEW w \in Words, Holds(buffer, w) PROVE Holds(got, w)
    <3>1. PICK i \in DOMAIN buffer : buffer[i] = w /\ \A j \in 1 .. i : buffer[j] # ZERO
      BY <2>4 DEF Holds, Found
    <3>2. w # ZERO
      BY DispatchAssumption
    <3>3. i \in 1 .. n /\ got[i] = w
      BY <2>1, <2>2, <2>3, <3>1, <3>2
    <3>4. \A j \in 1 .. i : j \in 1 .. BufferLen /\ buffer[j] = got[j]
      BY <2>1, <2>2, <2>3, <3>3
    <3>5. \A j \in 1 .. i : got[j] # ZERO
      BY <3>1, <3>4
    <3>6. QED BY <2>1, <3>3, <3>5 DEF Holds, Found
  <2>5. ~Holds(buffer, DOWNLOAD) /\ ~Holds(buffer, TRANSFER)
    BY <2>4 DEF Words
  <2>6. 1 \in Found(buffer, UPLOAD) /\ Found(buffer, UPLOAD) \subseteq 1 .. BufferLen
    <3>1. buffer[1] = UPLOAD /\ 1 \in DOMAIN buffer
      BY <2>1, <2>2, <2>3
    <3>2. UPLOAD # ZERO
      BY DispatchAssumption DEF Words
    <3>3. QED BY <2>3, <3>1, <3>2 DEF Found
  <2>7. Holds(buffer, UPLOAD)
    BY <2>6 DEF Holds
  <2>8. First(Found(buffer, UPLOAD)) = 1
    BY <2>2, <2>6 DEF First
  <2>9. done = [word |-> UPLOAD, message |-> Argument(buffer, n)]
    BY <2>2, <2>5, <2>7, DispatchAssumption DEF Obeyed, Words
  <2>10. m \in 0 .. n - 1 /\ (n - 1 < LenMod => m = n - 1)
    <3>1. n - 1 \in Nat
      BY <2>1
    <3>2. QED BY <3>1, DispatchAssumption, Remainder DEF UploadLen
  <2> DEFINE arg == [i \in 1 .. m |-> got[i + 1]]
  <2>11. Argument(buffer, n) = arg
    <3>1. ASSUME NEW i \in 1 .. m
          PROVE  (IF 1 + i \in DOMAIN buffer THEN buffer[1 + i] ELSE "unknown") = got[i + 1]
      BY <2>1, <2>2, <2>3, <2>10
    <3>2. QED BY <2>8, <3>1 DEF Argument
  <2> HIDE DEF m
  <2>12. /\ arg \in Seq(Bytes) /\ Len(arg) = m /\ m \in Nat
         /\ \A i \in 1 .. m : arg[i] = got[i + 1]
    <3>1. m \in Nat /\ \A i \in 1 .. m : i + 1 \in 1 .. n
      BY <2>1, <2>10
    <3>2. \A i \in 1 .. m : got[i + 1] \in Bytes
      BY <2>1, <3>1, ElementOfSeq DEF n
    <3>3. QED BY <3>1, <3>2, IsASeq
  <2> HIDE DEF arg
  <2>13. SubSeq(got, 2, m + 1) = arg /\ m + 1 \in 1 .. n
    <3> DEFINE e == m + 1
               sub == SubSeq(got, 2, e)
    <3>1. e \in 1 .. n /\ 2 \in Int /\ e \in Int /\ e = m + 1
      BY <2>1, <2>10, <2>12
    <3>2. \A i \in 2 .. e : got[i] \in Bytes
      BY <2>1, <2>12, <3>1, ElementOfSeq DEF n
    <3> HIDE DEF e
    <3>3. /\ sub \in Seq(Bytes)
          /\ Len(sub) = IF 2 <= e THEN e - 2 + 1 ELSE 0
          /\ \A i \in 1 .. e - 2 + 1 : sub[i] = got[2 + i - 1]
      BY <3>1, <3>2, SubSeqProperties
    <3> HIDE DEF sub
    <3>4. Len(sub) = m /\ \A i \in 1 .. m : sub[i] = got[i + 1]
      BY <2>12, <3>1, <3>3
    <3>5. sub = arg
      BY <2>12, <3>3, <3>4, SeqEqual
    <3>6. QED BY <3>1, <3>5 DEF sub, e
  <2>14. m = n - 1 => Tail(got) = arg
    <3> DEFINE tail == Tail(got)
    <3>1. /\ tail \in Seq(Bytes) /\ Len(tail) = n - 1
          /\ \A i \in 1 .. Len(tail) : tail[i] = got[i + 1]
      BY <2>1, HeadTailProperties DEF n
    <3> HIDE DEF tail
    <3>2. m = n - 1 => tail = arg
      BY <2>12, <3>1, SeqEqual
    <3>3. QED BY <3>2 DEF tail
  <2>15. done.word = UPLOAD /\ done.message = arg
    BY <2>9, <2>11
  <2>16. QED
    BY <2>10, <2>13, <2>14, <2>15 DEF n
<1>2. QED BY <1>1, LinkSafe, PTL

(* Framing is transparent, the safety part: in PacketChannel's terms every *)
(* step is one of these four or none.  That all arrive is left to TLC.     *)
ChannelStep == Channel!Send \/ Channel!Receive \/ Channel!Stop \/ Channel!Break

(* The link is a channel of packets: every step of the encoder, the line   *)
(* and the decoder puts a packet on the channel, takes the oldest from it  *)
(* just as it was sent, or changes neither; rx_process stops listening     *)
(* only after a packet that begins a transfer, and takes none from then    *)
(* on.  From an error of the line on nothing is promised.                  *)
THEOREM ChannelSafe == Spec => Channel!Init /\ [][ChannelStep]_Channel!vars
<1>1. Init => Channel!Init
  BY Zenon DEF Init, Channel!Init
<1>2. ASSUME TypeOK, LinkInv, [Next]_vars PROVE [ChannelStep]_Channel!vars
  <2> USE DEF ChannelStep
  <2>1. CASE SendPacket
    <3>1. good' = good /\ good /\ UNCHANGED <<got, transfer_mode, decoding>>
      BY <2>1, Zenon DEF SendPacket, mode
    <3>2. good' = TRUE
      BY <1>2, <3>1, Zenon DEF TypeOK
    <3>3. \E p \in Packets : sent' = Append(sent, p)
      BY <2>1 DEF SendPacket
    <3>4. Channel!Send
      BY <3>1, <3>2, <3>3, Zenon DEF Channel!Send
    <3>5. QED BY <3>4
  <2>2. CASE ReceiveByte /\ good /\ decoding
    <3>1. UNCHANGED <<transfer_mode, history>> \/ HandlesOldest
      BY <1>2, <2>2, GoodByte, Zenon DEF LinkInv
    <3>2. good' = good /\ decoding' = decoding
      BY <2>2, Zenon DEF ReceiveByte, RxByte
    <3>3. good' = TRUE
      BY <1>2, <2>2, <3>2, Zenon DEF TypeOK
    <3>4. CASE UNCHANGED <<transfer_mode, history>>
      BY <3>2, <3>4, Zenon DEF Channel!vars, history
    <3>5. CASE HandlesOldest
      <4>1. sent \in Seq(Packets) /\ sent # <<>>
        BY <1>2, <3>5 DEF TypeOK, HandlesOldest
      <4>2. got' \in Packets
        BY <3>5, <4>1, HeadTailProperties DEF HandlesOldest
      <4>3. Transfers(got') = (got' \in {p \in Packets : Transfers(p)})
        <5>1. Transfers(got') \in BOOLEAN
          BY Zenon DEF Transfers
        <5>2. QED BY <4>2, <5>1
      <4>4. transfer_mode' =
              (transfer_mode \/ got' \in {p \in Packets : Transfers(p)})
        BY <3>5, <4>3, Zenon DEF HandlesOldest
      <4>5. Channel!Receive
        BY <2>2, <3>2, <3>3, <3>5, <4>4, Zenon DEF HandlesOldest, Channel!Receive
      <4>6. QED BY <4>5
    <3>6. QED BY <3>1, <3>4, <3>5
  <2>3. ASSUME ~good', good' \in BOOLEAN PROVE Channel!Break
    BY <2>3, Zenon DEF Channel!Break
  <2>4. TypeOK'
    BY <1>2, NextTypeOK
  <2>5. good' \in BOOLEAN
    BY <2>4, Zenon DEF TypeOK
  <2>6. CASE LineError
    BY <2>3, <2>5, <2>6, Zenon DEF LineError
  <2>7. CASE ReceiveNoise
    <3>1. ~good'
      BY <2>7 DEF ReceiveNoise, ReceiveAny
    <3>2. QED BY <2>3, <2>5, <3>1, Zenon
  <2>8. CASE ReceiveByte /\ ~good
    <3>1. ~good'
      BY <2>8, Zenon DEF ReceiveByte
    <3>2. QED BY <2>3, <2>5, <3>1, Zenon
  <2>9. CASE UNCHANGED vars
    BY <2>9, Zenon DEF vars, mode, history, Channel!vars
  <2>10. CASE ReceiveByte /\ ~decoding
    <3>1. UNCHANGED <<m_slip, mode, history, good>>
      BY <2>10, ImageByte
    <3>2. QED BY <3>1, Zenon DEF mode, history, Channel!vars
  <2>11. CASE RxEvent
    <3>1. /\ decoding' = ~transfer_mode
          /\ UNCHANGED <<sent, got, transfer_mode, good>>
      BY <2>11, Zenon DEF RxEvent, history
    <3>2. CASE ~good
      BY <2>3, <2>5, <3>1, <3>2, Zenon
    <3>3. CASE good /\ transfer_mode
      <4>1. good' = TRUE /\ decoding' = FALSE
        BY <1>2, <3>1, <3>3, Zenon DEF TypeOK
      <4>2. Channel!Stop
        BY <3>1, <3>3, <4>1, Zenon DEF Channel!Stop
      <4>3. QED BY <4>2
    <3>4. CASE ~transfer_mode
      <4>1. decoding = TRUE /\ decoding' = TRUE
        BY <1>2, <3>1, <3>4, Zenon DEF LinkInv, FrozenInv, TypeOK
      <4>2. QED BY <3>1, <4>1, Zenon DEF Channel!vars
    <3>5. QED BY <3>2, <3>3, <3>4
  <2>12. QED
    BY <1>2, <2>1, <2>2, <2>6, <2>7, <2>8, <2>9, <2>10, <2>11, Zenon DEF Next
<1>3. QED BY <1>1, <1>2, LinkSafe, PTL DEF Spec
=============================================================================
