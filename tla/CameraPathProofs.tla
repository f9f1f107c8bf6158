-------------------------- MODULE CameraPathProofs --------------------------
(***************************************************************************)
(* The camera path, for every depth of the buffer and every size of frame.  *)
(* First the buffer by itself: it neither overruns nor underruns, whatever  *)
(* the interleaving of its two clocks, and is a first-in first-out queue.   *)
(* Then the capture in front of it: it never offers a word the buffer       *)
(* cannot take, every word joins the two bytes of one pixel, and the words  *)
(* that leave are frames that may be cut short but have no hole.            *)
(***************************************************************************)
EXTENDS CameraPath, SequenceTheorems, TLAPS

FifoInv == FifoTypeOK /\ PointersInOrder

LEMMA FifoInitInv == FifoInit => FifoInv
  BY DepthAssumption, BlankAssumption DEF FifoInit, FifoInv, FifoTypeOK, PointersInOrder, Pointers, Slots, Gap

LEMMA IncPointer == \A p \in Pointers : Inc(p) \in Pointers
  BY DepthAssumption DEF Inc, Pointers
(* Distances round the pointers: between two pointers, to oneself, after a   *)
(* step of the far one or of the near one.                                 *)
LEMMA GapFacts ==
  ASSUME NEW p \in Pointers, NEW q \in Pointers
  PROVE  /\ Gap(p, q) \in 0 .. 2 * Depth - 1
         /\ Gap(p, p) = 0
         /\ Gap(p, q) < 2 * Depth - 1 => Gap(p, Inc(q)) = Gap(p, q) + 1
         /\ p # q => Gap(Inc(p), q) = Gap(p, q) - 1
  BY DepthAssumption DEF Gap, Inc, Pointers

(* Two stretches that together are less than a full turn add up.            *)
LEMMA GapSum ==
  ASSUME NEW p \in Pointers, NEW q \in Pointers, NEW r \in Pointers,
         Gap(p, q) + Gap(q, r) < 2 * Depth
  PROVE  Gap(p, r) = Gap(p, q) + Gap(q, r)
  BY DepthAssumption DEF Gap, Pointers

(* full says that the write pointer is Depth - 1 words past the read pointer *)
(* it knows of.                                                            *)
LEMMA FullMeans ==
  ASSUME FifoTypeOK
  PROVE  Full <=> Gap(rd_wr2, wr_bin) = Depth - 1
  BY DepthAssumption DEF Full, FifoTypeOK, Gap, Inc, Opposite, Pointers

(* The way round the pointers, stretch by stretch, is the way straight on.   *)
LEMMA WholeGap ==
  ASSUME FifoInv
  PROVE  /\ Gap(rd_wr2, wr_bin)
              = Gap(rd_wr2, rd_wr1) + Gap(rd_wr1, rd_bin) + Gap(rd_bin, wr_bin)
         /\ Gap(rd_bin, wr_bin)
              = Gap(rd_bin, wr_rd2) + Gap(wr_rd2, wr_rd1) + Gap(wr_rd1, wr_bin)
         /\ Gap(rd_wr2, wr_bin) <= Depth - 1
  <1> DEFINE a == Gap(rd_wr2, rd_wr1)
             b == Gap(rd_wr1, rd_bin)
             c == Gap(rd_bin, wr_rd2)
             d == Gap(wr_rd2, wr_rd1)
             e == Gap(wr_rd1, wr_bin)
  <1>1. {wr_bin, rd_wr1, rd_wr2, rd_bin, wr_rd1, wr_rd2} \subseteq Pointers
    BY DEF FifoInv, FifoTypeOK
  <1>2. a \in Nat /\ b \in Nat /\ c \in Nat /\ d \in Nat /\ e \in Nat
    BY <1>1, GapFacts, DepthAssumption
  <1>3. a + b + c + d + e <= Depth - 1
    BY DEF FifoInv, PointersInOrder
  <1> HIDE DEF a, b, c, d, e
  <1>4. Gap(rd_bin, wr_rd1) = c + d
    BY <1>1, <1>2, <1>3, GapSum, DepthAssumption DEF c, d
  <1>5. Gap(rd_bin, wr_bin) = c + d + e
    BY <1>1, <1>2, <1>3, <1>4, GapSum, DepthAssumption DEF e
  <1>6. Gap(rd_wr2, rd_bin) = a + b
    BY <1>1, <1>2, <1>3, GapSum, DepthAssumption DEF a, b
  <1>7. Gap(rd_wr2, wr_bin) = a + b + c + d + e
    BY <1>1, <1>2, <1>3, <1>5, <1>6, GapSum, DepthAssumption
  <1> QED BY <1>2, <1>3, <1>5, <1>7, DepthAssumption DEF a, b, c, d, e

(* What a synchroniser catches lies between what it held and the pointer.     *)
LEMMA CaughtBetween ==
  ASSUME NEW last \in Pointers, NEW now \in Pointers, NEW p \in Caught(last, now)
  PROVE  p \in Pointers /\ Gap(last, p) + Gap(p, now) = Gap(last, now)
  BY DepthAssumption DEF Caught, Gap, Inc, Pointers

-----------------------------------------------------------------------------
(* A write clock edge moves the image of the read pointer forward and the    *)
(* write pointer only when there is room as far as that image tells.       *)
LEMMA WriteEdgeInv ==
  ASSUME FifoInv, NEW valid \in BOOLEAN, NEW data \in Data, WriteEdge(valid, data)
  PROVE  FifoInv'
  <1>1. {wr_bin, rd_wr1, rd_wr2, rd_bin, wr_rd1, wr_rd2} \subseteq Pointers
    BY DEF FifoInv, FifoTypeOK
  <1>2. /\ rd_wr2' = rd_wr1 /\ rd_wr1' \in Pointers
        /\ Gap(rd_wr1, rd_wr1') + Gap(rd_wr1', rd_bin) = Gap(rd_wr1, rd_bin)
        /\ rd_bin' = rd_bin /\ wr_rd1' = wr_rd1 /\ wr_rd2' = wr_rd2
    BY <1>1, CaughtBetween DEF WriteEdge, readVars
  <1>3. wr_bin' = wr_bin \/ (~Full /\ wr_bin' = Inc(wr_bin))
    BY DEF WriteEdge
  <1>4. FifoTypeOK'
    <2>1. mem' \in [Slots -> Data]
      BY DEF WriteEdge, FifoInv, FifoTypeOK
    <2>2. wr_bin' \in Pointers
      BY <1>1, <1>3, IncPointer
    <2> QED BY <1>1, <1>2, <2>1, <2>2 DEF FifoTypeOK
  <1>5. Gap(wr_rd1, wr_bin') <= Gap(wr_rd1, wr_bin) \/
        (~Full /\ Gap(wr_rd1, wr_bin') <= Gap(wr_rd1, wr_bin) + 1)
    <2>1. Gap(wr_rd1, wr_bin) < 2 * Depth - 1
      BY <1>1, WholeGap, GapFacts, DepthAssumption DEF FifoInv, PointersInOrder
    <2>2. Gap(wr_rd1, wr_bin) \in Nat
      BY <1>1, GapFacts, DepthAssumption
    <2> QED BY <1>1, <1>3, <2>1, <2>2, GapFacts
  <1>6. Full <=> Gap(rd_wr2, wr_bin) = Depth - 1
    BY FullMeans DEF FifoInv
  <1>7. PointersInOrder'
    <2>1. Gap(rd_wr1, rd_bin) + Gap(rd_bin, wr_rd2) + Gap(wr_rd2, wr_rd1)
            + Gap(wr_rd1, wr_bin') <= Depth - 1
      <3>1. /\ Gap(rd_wr2, rd_wr1) \in Nat /\ Gap(rd_wr1, rd_bin) \in Nat
            /\ Gap(rd_bin, wr_rd2) \in Nat /\ Gap(wr_rd2, wr_rd1) \in Nat
            /\ Gap(wr_rd1, wr_bin) \in Nat /\ Gap(wr_rd1, wr_bin') \in Nat
        BY <1>1, <1>4, GapFacts, DepthAssumption DEF FifoTypeOK
      <3>2. Gap(rd_wr2, wr_bin)
              = Gap(rd_wr2, rd_wr1) + Gap(rd_wr1, rd_bin) + Gap(rd_bin, wr_rd2)
                + Gap(wr_rd2, wr_rd1) + Gap(wr_rd1, wr_bin)
        BY <3>1, WholeGap, GapFacts, <1>1
      <3>3. Gap(rd_wr2, wr_bin) <= Depth - 1 /\ Depth \in Nat
        BY WholeGap, DepthAssumption
      <3>4. \A a, b, c, d, e, f, n \in Nat :
              /\ a + b + c + d + e <= n - 1
              /\ f <= e \/ (a + b + c + d + e # n - 1 /\ f <= e + 1)
              => b + c + d + f <= n - 1
        OBVIOUS
      <3>5. \/ Gap(wr_rd1, wr_bin') <= Gap(wr_rd1, wr_bin)
            \/ Gap(rd_wr2, wr_bin) # Depth - 1 /\ Gap(wr_rd1, wr_bin') <= Gap(wr_rd1, wr_bin) + 1
        BY <1>5, <1>6
      <3> QED BY <3>1, <3>2, <3>3, <3>4, <3>5
    <2> QED BY <1>2, <2>1 DEF PointersInOrder
  <1> QED BY <1>4, <1>7 DEF FifoInv

(* A read clock edge moves the image of the write pointer forward and the    *)
(* read pointer only towards that image.                                   *)
LEMMA ReadEdgeInv ==
  ASSUME FifoInv, NEW ready \in BOOLEAN, ReadEdge(ready)
  PROVE  FifoInv'
  <1>1. {wr_bin, rd_wr1, rd_wr2, rd_bin, wr_rd1, wr_rd2} \subseteq Pointers
    BY DEF FifoInv, FifoTypeOK
  <1>2. /\ wr_rd2' = wr_rd1 /\ wr_rd1' \in Pointers
        /\ Gap(wr_rd1, wr_rd1') + Gap(wr_rd1', wr_bin) = Gap(wr_rd1, wr_bin)
        /\ wr_bin' = wr_bin /\ rd_wr1' = rd_wr1 /\ rd_wr2' = rd_wr2 /\ mem' = mem
    BY <1>1, CaughtBetween DEF ReadEdge, writeVars
  <1>3. rd_bin' = rd_bin \/ (rd_bin # wr_rd2 /\ rd_bin' = Inc(rd_bin))
    BY DEF ReadEdge, Empty
  <1>4. FifoTypeOK'
    <2>1. rd_bin' \in Pointers
      BY <1>1, <1>3, IncPointer
    <2> QED BY <1>1, <1>2, <2>1 DEF FifoTypeOK, FifoInv
  <1>5. PointersInOrder'
    <2>1. /\ Gap(rd_wr2, rd_wr1) \in Nat /\ Gap(rd_wr1, rd_bin) \in Nat
          /\ Gap(rd_bin, wr_rd2) \in Nat /\ Gap(wr_rd2, wr_rd1) \in Nat
          /\ Gap(wr_rd1, wr_bin) \in Nat
          /\ Gap(wr_rd1, wr_rd1') \in Nat /\ Gap(wr_rd1', wr_bin) \in Nat
      BY <1>1, <1>2, GapFacts, DepthAssumption
    <2>2. Gap(rd_bin, wr_rd2) + Gap(wr_rd2, wr_rd1) = Gap(rd_bin, wr_rd1)
      BY <1>1, <2>1, GapSum, DepthAssumption DEF FifoInv, PointersInOrder
    <2>3. CASE rd_bin' = rd_bin
      BY <1>2, <2>1, <2>2, <2>3, DepthAssumption DEF FifoInv, PointersInOrder
    <2>4. CASE rd_bin # wr_rd2 /\ rd_bin' = Inc(rd_bin)
      <3>1. Gap(rd_wr1, Inc(rd_bin)) = Gap(rd_wr1, rd_bin) + 1
        BY <1>1, <2>1, GapFacts, DepthAssumption DEF FifoInv, PointersInOrder
      <3>2. Gap(Inc(rd_bin), wr_rd2) = Gap(rd_bin, wr_rd2) - 1
        BY <1>1, <2>4, GapFacts
      <3>3. Gap(Inc(rd_bin), wr_rd1) = Gap(Inc(rd_bin), wr_rd2) + Gap(wr_rd2, wr_rd1)
        BY <1>1, <2>1, <3>2, IncPointer, GapSum, GapFacts, DepthAssumption
        DEF FifoInv, PointersInOrder
      <3> QED BY <1>2, <2>1, <2>4, <3>1, <3>2, <3>3, DepthAssumption
          DEF FifoInv, PointersInOrder
    <2> QED BY <1>3, <2>3, <2>4
  <1> QED BY <1>4, <1>5 DEF FifoInv

-----------------------------------------------------------------------------
(* Contents, as an operator of the memory and the two pointers.              *)
Stretch(m, p, n) == [i \in 1 .. n |-> m[SlotOf(Ahead(p, i - 1))]]

(* A pointer some words ahead of another is that many words away from it.    *)
LEMMA AheadFacts ==
  ASSUME NEW p \in Pointers, NEW n \in 0 .. 2 * Depth - 1
  PROVE  /\ Ahead(p, n) \in Pointers
         /\ Ahead(p, 0) = p
         /\ n < 2 * Depth - 1 => Ahead(Inc(p), n) = Ahead(p, n + 1)
         /\ \A q \in Pointers : n = Gap(p, q) => Ahead(p, n) = q
  BY DepthAssumption DEF Ahead, Pointers, Inc, Gap

LEMMA SlotFacts ==
  ASSUME NEW p \in Pointers, NEW n \in 0 .. Depth - 1
  PROVE  /\ SlotOf(p) \in Slots
         /\ n # 0 => SlotOf(Ahead(p, n)) # SlotOf(p)
         /\ \A k \in 0 .. n - 1 : SlotOf(Ahead(p, k)) # SlotOf(Ahead(p, n))
  BY DepthAssumption DEF Ahead, Pointers, SlotOf, Slots

LEMMA StretchSeq ==
  ASSUME NEW m \in [Slots -> Data], NEW p \in Pointers, NEW n \in 0 .. Depth
  PROVE  /\ Stretch(m, p, n) \in Seq(Data)
         /\ Len(Stretch(m, p, n)) = n
         /\ \A i \in 1 .. n : Stretch(m, p, n)[i] = m[SlotOf(Ahead(p, i - 1))]
  <1>1. n \in Nat /\ n <= Depth
    BY DepthAssumption
  <1>2. \A i \in 1 .. n : SlotOf(Ahead(p, i - 1)) \in Slots
    <2> SUFFICES ASSUME NEW i \in 1 .. n PROVE SlotOf(Ahead(p, i - 1)) \in Slots
      OBVIOUS
    <2>1. i - 1 \in 0 .. 2 * Depth - 1
      BY <1>1, DepthAssumption
    <2>2. Ahead(p, i - 1) \in Pointers
      BY <2>1, AheadFacts
    <2> QED BY <2>2, SlotFacts, DepthAssumption
  <1>3. Stretch(m, p, n) \in [1 .. n -> Data]
    BY <1>2 DEF Stretch
  <1> QED BY <1>1, <1>3 DEF Stretch

(* Storing a word in the slot after the last one appends it.                 *)
LEMMA StretchPut ==
  ASSUME NEW m \in [Slots -> Data], NEW p \in Pointers, NEW n \in 0 .. Depth - 1,
         NEW d \in Data
  PROVE  Stretch([m EXCEPT ![SlotOf(Ahead(p, n))] = d], p, n + 1) = Append(Stretch(m, p, n), d)
  <1> DEFINE w == SlotOf(Ahead(p, n))
             mm == [m EXCEPT ![w] = d]
             s == Stretch(mm, p, n + 1)
             t == Append(Stretch(m, p, n), d)
  <1>1. n \in Nat /\ n + 1 \in 0 .. Depth /\ n \in 0 .. Depth /\ n \in 0 .. 2 * Depth - 1
    BY DepthAssumption
  <1>2. w \in Slots
    BY <1>1, AheadFacts, SlotFacts, DepthAssumption
  <1>3. mm \in [Slots -> Data] /\ mm[w] = d /\ \A x \in Slots \ {w} : mm[x] = m[x]
    BY <1>2
  <1>4. /\ s \in Seq(Data) /\ Len(s) = n + 1
        /\ \A i \in 1 .. n + 1 : s[i] = mm[SlotOf(Ahead(p, i - 1))]
    BY <1>1, <1>3, StretchSeq
  <1>5. /\ t \in Seq(Data) /\ Len(t) = n + 1
        /\ \A i \in 1 .. n : t[i] = m[SlotOf(Ahead(p, i - 1))]
        /\ t[n + 1] = d
    <2>1. /\ Stretch(m, p, n) \in Seq(Data) /\ Len(Stretch(m, p, n)) = n
          /\ \A i \in 1 .. n : Stretch(m, p, n)[i] = m[SlotOf(Ahead(p, i - 1))]
      BY <1>1, StretchSeq
    <2> QED BY <1>1, <2>1, AppendProperties
  <1>6. \A i \in 1 .. n : SlotOf(Ahead(p, i - 1)) \in Slots \ {w}
    <2> SUFFICES ASSUME NEW i \in 1 .. n PROVE SlotOf(Ahead(p, i - 1)) \in Slots \ {w}
      OBVIOUS
    <2>1. i - 1 \in 0 .. n - 1 /\ i - 1 \in 0 .. 2 * Depth - 1
      BY <1>1, DepthAssumption
    <2> QED BY <2>1, AheadFacts, SlotFacts, DepthAssumption
  <1>7. s[n + 1] = d
    <2>1. n + 1 \in 1 .. n + 1 /\ (n + 1) - 1 = n
      BY <1>1
    <2> QED BY <1>3, <1>4, <2>1
  <1> HIDE DEF s, t, w, mm
  <1>8. \A i \in 1 .. Len(s) : s[i] = t[i]
    <2> SUFFICES ASSUME NEW i \in 1 .. n + 1 PROVE s[i] = t[i]
      BY <1>4
    <2>1. CASE i = n + 1
      BY <2>1, <1>5, <1>7
    <2>2. CASE i # n + 1
      <3>1. i \in 1 .. n
        BY <2>2, <1>1
      <3> QED BY <3>1, <1>3, <1>4, <1>5, <1>6
    <2> QED BY <2>1, <2>2
  <1>9. s = t
    BY <1>4, <1>5, <1>8, SeqEqual
  <1> QED BY <1>9 DEF s, t, w, mm

(* Moving the read pointer over one word leaves the tail.                    *)
LEMMA StretchGet ==
  ASSUME NEW m \in [Slots -> Data], NEW p \in Pointers, NEW n \in 1 .. Depth
  PROVE  /\ Stretch(m, Inc(p), n - 1) = Tail(Stretch(m, p, n))
         /\ Stretch(m, p, n) # <<>>
         /\ m[SlotOf(p)] = Stretch(m, p, n)[1]
  <1> DEFINE s == Stretch(m, Inc(p), n - 1)
             u == Stretch(m, p, n)
  <1>1. n \in Nat /\ n - 1 \in 0 .. Depth /\ n \in 0 .. Depth /\ 1 \in 1 .. n
    BY DepthAssumption
  <1>2. Inc(p) \in Pointers
    BY IncPointer
  <1>3. /\ s \in Seq(Data) /\ Len(s) = n - 1
        /\ \A i \in 1 .. n - 1 : s[i] = m[SlotOf(Ahead(Inc(p), i - 1))]
    BY <1>1, <1>2, StretchSeq
  <1>4. /\ u \in Seq(Data) /\ Len(u) = n
        /\ \A i \in 1 .. n : u[i] = m[SlotOf(Ahead(p, i - 1))]
    BY <1>1, StretchSeq
  <1>5. u[1] = m[SlotOf(p)]
    BY <1>1, <1>4, AheadFacts, DepthAssumption
  <1> HIDE DEF s, u
  <1>6. u # <<>>
    BY <1>1, <1>4
  <1>7. /\ Tail(u) \in Seq(Data) /\ Len(Tail(u)) = n - 1
        /\ \A i \in 1 .. n - 1 : Tail(u)[i] = u[i + 1]
    BY <1>4, <1>6, HeadTailProperties
  <1>8. \A i \in 1 .. n - 1 : s[i] = Tail(u)[i]
    <2> SUFFICES ASSUME NEW i \in 1 .. n - 1 PROVE s[i] = Tail(u)[i]
      OBVIOUS
    <2>1. i + 1 \in 1 .. n /\ (i + 1) - 1 = i /\ (i - 1) + 1 = i
          /\ i - 1 \in 0 .. 2 * Depth - 1 /\ i - 1 < 2 * Depth - 1
      BY <1>1, DepthAssumption
    <2>2. Ahead(Inc(p), i - 1) = Ahead(p, i)
      BY <2>1, AheadFacts
    <2>3. u[i + 1] = m[SlotOf(Ahead(p, i))]
      BY <2>1, <1>4
    <2> QED BY <1>3, <1>7, <2>2, <2>3
  <1>9. s = Tail(u)
    BY <1>3, <1>7, <1>8, SeqEqual
  <1> QED BY <1>5, <1>6, <1>9 DEF s, u

LEMMA ContentsIsStretch ==
  ASSUME FifoInv
  PROVE  /\ Contents = Stretch(mem, rd_bin, Gap(rd_bin, wr_bin))
         /\ Gap(rd_bin, wr_bin) \in 0 .. Depth - 1
         /\ Contents \in Seq(Data)
         /\ Len(Contents) = Gap(rd_bin, wr_bin)
  <1>1. Contents = Stretch(mem, rd_bin, Gap(rd_bin, wr_bin))
    BY DEF Contents, Stretch
  <1>2. mem \in [Slots -> Data] /\ {wr_bin, rd_wr1, rd_wr2, rd_bin} \subseteq Pointers
    BY DEF FifoInv, FifoTypeOK
  <1>3. /\ Gap(rd_bin, wr_bin) \in Nat /\ Gap(rd_wr2, rd_wr1) \in Nat
        /\ Gap(rd_wr1, rd_bin) \in Nat /\ Gap(rd_wr2, wr_bin) \in Nat
    BY <1>2, GapFacts, DepthAssumption
  <1>4. Gap(rd_bin, wr_bin) \in 0 .. Depth - 1 /\ Gap(rd_bin, wr_bin) \in 0 .. Depth
    BY <1>3, WholeGap, DepthAssumption
  <1> QED BY <1>1, <1>2, <1>4, StretchSeq

LEMMA NoOverrunInv == FifoInv => NoOverrun
  <1> SUFFICES ASSUME FifoInv, ~Full PROVE Gap(rd_bin, wr_bin) < Depth - 1
    BY DEF NoOverrun
  <1>1. {wr_bin, rd_wr1, rd_wr2, rd_bin} \subseteq Pointers
    BY DEF FifoInv, FifoTypeOK
  <1>2. Gap(rd_wr2, rd_wr1) \in Nat /\ Gap(rd_wr1, rd_bin) \in Nat
        /\ Gap(rd_bin, wr_bin) \in Nat /\ Gap(rd_wr2, wr_bin) \in Nat
    BY <1>1, GapFacts, DepthAssumption
  <1>3. Gap(rd_wr2, wr_bin) # Depth - 1
    BY FullMeans DEF FifoInv
  <1> QED BY <1>2, <1>3, WholeGap, DepthAssumption

LEMMA NoUnderrunInv == FifoInv => NoUnderrun
  <1> SUFFICES ASSUME FifoInv, rd_bin # wr_rd2, rd_bin = wr_bin PROVE FALSE
    BY DEF NoUnderrun, Empty
  <1>1. {wr_bin, rd_bin, wr_rd1, wr_rd2} \subseteq Pointers
    BY DEF FifoInv, FifoTypeOK
  <1>2. Gap(rd_bin, wr_bin) = 0
    BY <1>1, GapFacts
  <1>3. Gap(rd_bin, wr_rd2) \in Nat /\ Gap(wr_rd2, wr_rd1) \in Nat
        /\ Gap(wr_rd1, wr_bin) \in Nat
    BY <1>1, GapFacts, DepthAssumption
  <1>4. Gap(rd_bin, wr_rd2) = 0
    BY <1>2, <1>3, WholeGap
  <1> QED BY <1>1, <1>4, DepthAssumption DEF Gap, Pointers

(* What a write clock edge does to the words inside: it puts the offered     *)
(* word at the end, when there is room for it.                             *)
LEMMA WriteEdgeContents ==
  ASSUME FifoInv, NEW valid \in BOOLEAN, NEW data \in Data, WriteEdge(valid, data)
  PROVE  /\ valid /\ ~Full => /\ Contents' = Append(Contents, data)
                              /\ Len(Contents) < Depth - 1
         /\ ~(valid /\ ~Full) => Contents' = Contents
  <1>1. mem \in [Slots -> Data] /\ wr_bin \in Pointers /\ rd_bin \in Pointers
    BY DEF FifoInv, FifoTypeOK
  <1>2. Contents' = [i \in 1 .. Gap(rd_bin, wr_bin') |-> mem'[SlotOf(Ahead(rd_bin, i - 1))]]
    BY DEF Contents, WriteEdge, readVars
  <1>3. CASE valid /\ ~Full
    <2> DEFINE n == Gap(rd_bin, wr_bin)
    <2>1. n < Depth - 1 /\ n \in 0 .. Depth - 1 /\ Len(Contents) = n
      BY <1>3, NoOverrunInv, ContentsIsStretch DEF NoOverrun
    <2>2. Ahead(rd_bin, n) = wr_bin
      <3>1. n \in 0 .. 2 * Depth - 1
        BY <2>1, DepthAssumption
      <3> QED BY <1>1, <3>1, AheadFacts
    <2>3. Gap(rd_bin, wr_bin') = n + 1
      BY <1>1, <1>3, <2>1, GapFacts, DepthAssumption DEF WriteEdge
    <2>4. mem' = [mem EXCEPT ![SlotOf(Ahead(rd_bin, n))] = data]
      BY <1>3, <2>2 DEF WriteEdge
    <2> HIDE DEF n
    <2>5. Contents' = Stretch([mem EXCEPT ![SlotOf(Ahead(rd_bin, n))] = data], rd_bin, n + 1)
      BY <1>2, <2>3, <2>4 DEF Stretch
    <2>6. Contents' = Append(Stretch(mem, rd_bin, n), data)
      BY <1>1, <2>1, <2>5, StretchPut
    <2>7. Contents = Stretch(mem, rd_bin, n)
      BY ContentsIsStretch DEF n
    <2> QED BY <1>3, <2>1, <2>6, <2>7
  <1>4. CASE ~(valid /\ ~Full)
    <2>1. mem' = mem /\ wr_bin' = wr_bin
      BY <1>4 DEF WriteEdge
    <2>2. Contents' = Contents
      BY <1>2, <2>1 DEF Contents
    <2> QED BY <1>4, <2>2
  <1> QED BY <1>3, <1>4

(* What a read clock edge does to them: it takes the first one, when the     *)
(* reader is ready and the buffer is not empty as far as it knows.          *)
LEMMA ReadEdgeContents ==
  ASSUME FifoInv, NEW ready \in BOOLEAN, ReadEdge(ready)
  PROVE  /\ ~Empty => Contents # <<>> /\ RdData = Contents[1]
         /\ ready /\ ~Empty => Contents' = Tail(Contents) /\ rd_bin' # rd_bin
         /\ ~(ready /\ ~Empty) => Contents' = Contents /\ rd_bin' = rd_bin
  <1>1. mem \in [Slots -> Data] /\ wr_bin \in Pointers /\ rd_bin \in Pointers
    BY DEF FifoInv, FifoTypeOK
  <1>2. Contents' = [i \in 1 .. Gap(rd_bin', wr_bin) |-> mem[SlotOf(Ahead(rd_bin', i - 1))]]
    BY DEF Contents, ReadEdge, writeVars
  <1> DEFINE n == Gap(rd_bin, wr_bin)
  <1>3. Contents = Stretch(mem, rd_bin, n) /\ n \in 0 .. Depth - 1
    BY ContentsIsStretch
  <1>4. ASSUME ~Empty
        PROVE  n \in 1 .. Depth /\ rd_bin # wr_bin
    <2>1. rd_bin # wr_bin
      BY <1>4, NoUnderrunInv DEF NoUnderrun
    <2>2. n # 0
      BY <1>1, <2>1, DepthAssumption DEF Gap, Pointers
    <2> QED BY <1>3, <2>1, <2>2, DepthAssumption
  <1>5. ~Empty => Contents # <<>> /\ RdData = Contents[1]
    BY <1>1, <1>3, <1>4, StretchGet DEF RdData
  <1>6. CASE ready /\ ~Empty
    <2>1. rd_bin' = Inc(rd_bin)
      BY <1>6 DEF ReadEdge
    <2>2. Gap(rd_bin', wr_bin) = n - 1
      BY <1>1, <1>4, <1>6, <2>1, GapFacts
    <2>3. rd_bin' # rd_bin
      BY <1>1, <2>1, DepthAssumption DEF Inc, Pointers
    <2> HIDE DEF n
    <2>4. Contents' = Stretch(mem, Inc(rd_bin), n - 1)
      BY <1>2, <2>1, <2>2 DEF Stretch
    <2>5. Contents' = Tail(Contents)
      BY <1>1, <1>3, <1>4, <1>6, <2>4, StretchGet
    <2> QED BY <1>5, <1>6, <2>3, <2>5
  <1>7. CASE ~(ready /\ ~Empty)
    <2>1. rd_bin' = rd_bin
      BY <1>7 DEF ReadEdge
    <2>2. Contents' = Contents
      BY <1>2, <2>1 DEF Contents
    <2> QED BY <1>5, <1>7, <2>1, <2>2
  <1> QED BY <1>6, <1>7

LEMMA InitContents == FifoInit => Contents = <<>>
  <1> SUFFICES ASSUME FifoInit PROVE Contents = <<>>
    OBVIOUS
  <1>1. Gap(rd_bin, wr_bin) = 0
    BY DEF FifoInit, Gap
  <1>2. FifoInv
    BY FifoInitInv
  <1> QED BY <1>1, <1>2, ContentsIsStretch

(* A step of either clock is a step of the abstract queue, or none of it.    *)
LEMMA WriteEdgeIsQueueStep ==
  ASSUME FifoInv, NEW valid \in BOOLEAN, NEW data \in Data, WriteEdge(valid, data)
  PROVE  [Queue!Next]_Contents
  BY WriteEdgeContents DEF Queue!Next, Queue!Put

LEMMA ReadEdgeIsQueueStep ==
  ASSUME FifoInv, NEW ready \in BOOLEAN, ReadEdge(ready)
  PROVE  [Queue!Next]_Contents
  BY ReadEdgeContents DEF Queue!Next, Queue!Get

(* The images of the pointers stay in order and in range for ever.           *)
THEOREM FifoInvariance == FifoSpec => []FifoInv
  <1>1. FifoInv /\ [FifoNext]_fifoVars => FifoInv'
    <2>1. ASSUME FifoInv, FifoNext PROVE FifoInv'
      BY <2>1, WriteEdgeInv, ReadEdgeInv DEF FifoNext
    <2>2. ASSUME FifoInv, UNCHANGED fifoVars PROVE FifoInv'
      BY <2>2 DEF FifoInv, FifoTypeOK, PointersInOrder, fifoVars, writeVars, readVars
    <2> QED BY <2>1, <2>2
  <1> QED BY FifoInitInv, <1>1, PTL DEF FifoSpec

(* No accepted write overwrites an unread word and no offered read is of a   *)
(* slot nothing was written to.                                            *)
THEOREM FifoSafety == FifoSpec => [](PointersInOrder /\ NoOverrun /\ NoUnderrun)
  <1>1. FifoInv => PointersInOrder
    BY DEF FifoInv
  <1> QED BY FifoInvariance, <1>1, NoOverrunInv, NoUnderrunInv, PTL

(* The buffer implements the queue of FifoQueue: from outside, words leave in *)
(* the order they entered, none lost, none twice, at most Depth - 1 inside,  *)
(* whatever the two clocks do and whatever the synchronisers catch.        *)
THEOREM FifoIsQueue == FifoSpec => IsQueue
  <1>1. FifoInit => Queue!Init
    BY InitContents DEF Queue!Init
  <1>2. ASSUME FifoInv, [FifoNext]_fifoVars PROVE [Queue!Next]_Contents
    <2>1. CASE FifoNext
      BY <1>2, <2>1, WriteEdgeIsQueueStep, ReadEdgeIsQueueStep DEF FifoNext
    <2>2. CASE UNCHANGED fifoVars
      BY <2>2 DEF fifoVars, writeVars, readVars, Contents
    <2> QED BY <1>2, <2>1, <2>2
  <1>3. FifoSpec => []FifoInv
    BY FifoInvariance
  <1> QED BY <1>1, <1>2, <1>3, PTL DEF FifoSpec, IsQueue, Queue!Spec
-----------------------------------------------------------------------------
(* The capture in front of the buffer.                                      *)
CaptureTypeOK ==
  /\ cam_pixel \in 0 .. FramePixels /\ cam_byte \in {0, 1}
  /\ first_byte \in Pixels
  /\ have_first_byte \in BOOLEAN /\ seen_frame_gap \in BOOLEAN /\ frame_active \in BOOLEAN
  /\ drop_frame \in BOOLEAN /\ fifo_wr_valid \in BOOLEAN
  /\ fifo_wr_data \in Words

(* A frame has begun since reset.                                           *)
Synced == seen_frame_gap \/ frame_active

(* From the first gap between frames on, the capture holds a first byte just *)
(* when the camera is in the middle of a pixel, and it is that pixel's.     *)
Aligned ==
  /\ drop_frame => Synced /\ ~have_first_byte
  /\ Synced /\ ~drop_frame => (have_first_byte <=> cam_byte = 1)
  /\ Synced /\ have_first_byte => first_byte = cam_pixel

(* A word is offered only in the clock after a second byte, while the next    *)
(* first byte is at best arriving, and there was room for it.              *)
OfferInv == fifo_wr_valid => ~have_first_byte /\ ~Full

(* A word may come after another one in the stream of frames.                *)
Follows(w, prev) == IF w.sof THEN w.hi = 0 ELSE w.hi = prev.hi + 1
Chain(l, s)  == \A i \in 1 .. Len(s) : Follows(s[i], IF i = 1 THEN l ELSE s[i - 1])
LastOf(l, s) == IF s = <<>> THEN l ELSE s[Len(s)]
Whole(s)     == \A i \in 1 .. Len(s) : s[i].hi = s[i].lo

LastOffered == IF fifo_wr_valid THEN fifo_wr_data ELSE LastOf(last_word, Contents)

(* The word read last, the words inside, the offered word and the pixel the   *)
(* camera is at are consecutive, unless the rest of the frame is dropped.   *)
ChainInv ==
  /\ Chain(last_word, Contents)
  /\ fifo_wr_valid => Follows(fifo_wr_data, LastOf(last_word, Contents))
  /\ ~drop_frame /\ seen_frame_gap => cam_pixel = 0
  /\ ~drop_frame /\ ~seen_frame_gap /\ frame_active => cam_pixel = LastOffered.hi + 1

WholeInv ==
  /\ Whole(Contents)
  /\ fifo_wr_valid => fifo_wr_data.hi = fifo_wr_data.lo

PathInv ==
  /\ FifoInv /\ CaptureTypeOK
  /\ Aligned /\ OfferInv /\ ChainInv /\ WholeInv
-----------------------------------------------------------------------------
(* What Append and Tail do to a chain of words.                              *)
LEMMA ChainPut ==
  ASSUME NEW s \in Seq(Data), NEW l, NEW w \in Data
  PROVE  /\ Chain(l, s) /\ Follows(w, LastOf(l, s)) => Chain(l, Append(s, w))
         /\ LastOf(l, Append(s, w)) = w
         /\ Whole(s) /\ w.hi = w.lo => Whole(Append(s, w))
  <1> DEFINE t == Append(s, w)
  <1>1. /\ t \in Seq(Data) /\ t # <<>> /\ Len(t) = Len(s) + 1 /\ Len(s) \in Nat
        /\ \A i \in 1 .. Len(s) : t[i] = s[i]
        /\ t[Len(s) + 1] = w
    BY AppendProperties, LenProperties
  <1> HIDE DEF t
  <1>2. LastOf(l, t) = w
    BY <1>1 DEF LastOf
  <1>3. Whole(s) /\ w.hi = w.lo => Whole(t)
    <2> SUFFICES ASSUME Whole(s), w.hi = w.lo, NEW i \in 1 .. Len(t) PROVE t[i].hi = t[i].lo
      BY DEF Whole
    <2>1. i \in 1 .. Len(s) \/ i = Len(s) + 1
      BY <1>1
    <2> QED BY <1>1, <2>1 DEF Whole
  <1>4. ASSUME Chain(l, s), Follows(w, LastOf(l, s)) PROVE Chain(l, t)
    <2> SUFFICES ASSUME NEW i \in 1 .. Len(t)
                 PROVE  Follows(t[i], IF i = 1 THEN l ELSE t[i - 1])
      BY DEF Chain
    <2>1. CASE i = Len(s) + 1
      <3>1. t[i] = w
        BY <1>1, <2>1
      <3>2. (IF i = 1 THEN l ELSE t[i - 1]) = LastOf(l, s)
        <4>1. CASE s = <<>>
          BY <2>1, <4>1 DEF LastOf
        <4>2. CASE s # <<>>
          <5>1. Len(s) \in 1 .. Len(s) /\ i # 1 /\ i - 1 = Len(s)
            BY <1>1, <2>1, <4>2
          <5> QED BY <1>1, <4>2, <5>1 DEF LastOf
        <4> QED BY <4>1, <4>2
      <3> QED BY <1>4, <3>1, <3>2
    <2>2. CASE i # Len(s) + 1
      <3>1. i \in 1 .. Len(s) /\ t[i] = s[i]
        BY <1>1, <2>2
      <3>2. (IF i = 1 THEN l ELSE t[i - 1]) = (IF i = 1 THEN l ELSE s[i - 1])
        <4>1. i # 1 => i - 1 \in 1 .. Len(s)
          BY <1>1, <3>1
        <4> QED BY <1>1, <4>1
      <3>3. Follows(s[i], IF i = 1 THEN l ELSE s[i - 1])
        BY <1>4, <3>1 DEF Chain
      <3> QED BY <3>1, <3>2, <3>3
    <2> QED BY <2>1, <2>2
  <1> QED BY <1>2, <1>3, <1>4 DEF t

LEMMA ChainGet ==
  ASSUME NEW s \in Seq(Data), s # <<>>, NEW l
  PROVE  /\ Chain(l, s) => Follows(s[1], l) /\ Chain(s[1], Tail(s))
         /\ LastOf(s[1], Tail(s)) = LastOf(l, s)
         /\ Whole(s) => Whole(Tail(s))
  <1> DEFINE t == Tail(s)
  <1>1. /\ t \in Seq(Data) /\ Len(t) = Len(s) - 1 /\ Len(s) \in Nat /\ Len(s) # 0
        /\ \A i \in 1 .. Len(t) : t[i] = s[i + 1]
    BY HeadTailProperties, LenProperties, EmptySeq
  <1> HIDE DEF t
  <1>2. LastOf(s[1], t) = LastOf(l, s)
    <2>1. CASE t = <<>>
      <3>1. Len(s) = 1
        BY <1>1, <2>1, EmptySeq
      <3> QED BY <2>1, <3>1 DEF LastOf
    <2>2. CASE t # <<>>
      <3>1. Len(t) \in 1 .. Len(t) /\ Len(t) + 1 = Len(s)
        BY <1>1, <2>2, EmptySeq
      <3> QED BY <1>1, <2>2, <3>1 DEF LastOf
    <2> QED BY <2>1, <2>2
  <1>3. Whole(s) => Whole(t)
    <2> SUFFICES ASSUME Whole(s), NEW i \in 1 .. Len(t) PROVE t[i].hi = t[i].lo
      BY DEF Whole
    <2>1. i + 1 \in 1 .. Len(s)
      BY <1>1
    <2> QED BY <1>1, <2>1 DEF Whole
  <1>4. ASSUME Chain(l, s) PROVE Follows(s[1], l) /\ Chain(s[1], t)
    <2>1. Follows(s[1], l)
      <3>1. 1 \in 1 .. Len(s)
        BY <1>1
      <3> QED BY <1>4, <3>1 DEF Chain
    <2>2. ASSUME NEW i \in 1 .. Len(t)
          PROVE  Follows(t[i], IF i = 1 THEN s[1] ELSE t[i - 1])
      <3>1. i + 1 \in 1 .. Len(s) /\ i + 1 # 1 /\ (i + 1) - 1 = i
        BY <1>1
      <3>2. Follows(s[i + 1], s[i])
        BY <1>4, <3>1 DEF Chain
      <3>3. (IF i = 1 THEN s[1] ELSE t[i - 1]) = s[i]
        <4>1. i # 1 => i - 1 \in 1 .. Len(t) /\ (i - 1) + 1 = i
          BY <1>1
        <4> QED BY <1>1, <4>1
      <3> QED BY <1>1, <3>2, <3>3
    <2> QED BY <2>1, <2>2 DEF Chain
  <1> QED BY <1>2, <1>3, <1>4 DEF t

-----------------------------------------------------------------------------
LEMMA PathInit == Init => PathInv
  <1> SUFFICES ASSUME Init PROVE PathInv
    OBVIOUS
  <1>1. FifoInv /\ Contents = <<>>
    BY FifoInitInv, InitContents DEF Init
  <1>2. 0 \in Pixels
    BY FrameAssumption DEF Pixels
  <1>3. CaptureTypeOK
    <2>1. NoWord \in Words
      BY <1>2 DEF Words, NoWord
    <2>2. cam_pixel \in 0 .. FramePixels
      BY FrameAssumption DEF Init, Pixels
    <2> QED BY <1>2, <2>1, <2>2 DEF Init, CaptureTypeOK
  <1>4. Aligned /\ OfferInv
    BY DEF Init, Aligned, OfferInv, Synced
  <1>5. Chain(last_word, Contents) /\ Whole(Contents)
    BY <1>1 DEF Chain, Whole
  <1>6. ChainInv /\ WholeInv
    BY <1>5 DEF Init, ChainInv, WholeInv
  <1> QED BY <1>1, <1>3, <1>4, <1>6 DEF PathInv

(* Room in the buffer does not go away at an edge that writes nothing.        *)
LEMMA RoomStays ==
  ASSUME FifoInv, ~Full, NEW data, WriteEdge(FALSE, data)
  PROVE  ~Full'
  <1>1. {wr_bin, rd_wr1, rd_wr2, rd_bin} \subseteq Pointers
    BY DEF FifoInv, FifoTypeOK
  <1>2. rd_wr2' = rd_wr1 /\ wr_bin' = wr_bin
    BY DEF WriteEdge
  <1>3. Gap(rd_wr2, wr_bin) # Depth - 1
    BY FullMeans DEF FifoInv
  <1>4. Gap(rd_wr1, wr_bin) # Depth - 1
    <2>1. /\ Gap(rd_wr2, rd_wr1) \in Nat /\ Gap(rd_wr1, rd_bin) \in Nat
          /\ Gap(rd_bin, wr_bin) \in Nat /\ Gap(rd_wr2, wr_bin) \in Nat
      BY <1>1, GapFacts, DepthAssumption
    <2>2. Gap(rd_wr1, wr_bin) = Gap(rd_wr1, rd_bin) + Gap(rd_bin, wr_bin)
      BY <1>1, <2>1, WholeGap, GapSum, DepthAssumption
    <2> QED BY <1>3, <2>1, <2>2, WholeGap, DepthAssumption
  <1>5. (Inc(wr_bin) = Opposite(rd_wr1)) <=> Gap(rd_wr1, wr_bin) = Depth - 1
    BY <1>1, DepthAssumption DEF Gap, Inc, Opposite, Pointers
  <1> QED BY <1>2, <1>4, <1>5 DEF Full

(* At a camera edge the offered word goes into the buffer.                   *)
LEMMA CameraEdgeBuffer ==
  ASSUME PathInv, CameraEdge
  PROVE  /\ FifoInv'
         /\ fifo_wr_valid => Contents' = Append(Contents, fifo_wr_data)
         /\ ~fifo_wr_valid => Contents' = Contents
         /\ ~Full /\ have_first_byte => ~Full'
         /\ rd_bin' = rd_bin
  <1>1. FifoInv /\ fifo_wr_valid \in BOOLEAN /\ fifo_wr_data \in Data
    BY WordAssumption DEF PathInv, CaptureTypeOK
  <1>2. WriteEdge(fifo_wr_valid, fifo_wr_data)
    BY DEF CameraEdge
  <1>3. fifo_wr_valid => ~Full
    BY DEF PathInv, OfferInv
  <1>4. FifoInv'
    BY <1>1, <1>2, WriteEdgeInv
  <1>5. /\ fifo_wr_valid => Contents' = Append(Contents, fifo_wr_data)
        /\ ~fifo_wr_valid => Contents' = Contents
    BY <1>1, <1>2, <1>3, WriteEdgeContents
  <1>6. ASSUME ~Full, have_first_byte PROVE ~Full'
    <2>1. fifo_wr_valid = FALSE
      BY <1>6, <1>1 DEF PathInv, OfferInv
    <2>2. WriteEdge(FALSE, fifo_wr_data)
      BY <1>2, <2>1
    <2> QED BY <1>1, <1>6, <2>2, RoomStays
  <1>7. rd_bin' = rd_bin
    BY <1>2 DEF WriteEdge, readVars
  <1> QED BY <1>4, <1>5, <1>6, <1>7

(* So the word offered last is the last word inside afterwards.              *)
LEMMA CameraEdgeLast ==
  ASSUME PathInv, CameraEdge
  PROVE  /\ Chain(last_word, Contents)'
         /\ Whole(Contents)'
         /\ LastOf(last_word, Contents)' = LastOffered
  <1>1. /\ FifoInv /\ fifo_wr_data \in Data
        /\ Chain(last_word, Contents) /\ Whole(Contents)
        /\ fifo_wr_valid => Follows(fifo_wr_data, LastOf(last_word, Contents))
        /\ fifo_wr_valid => fifo_wr_data.hi = fifo_wr_data.lo
    BY WordAssumption DEF PathInv, CaptureTypeOK, ChainInv, WholeInv
  <1>2. Contents \in Seq(Data)
    BY <1>1, ContentsIsStretch
  <1>3. last_word' = last_word
    BY DEF CameraEdge
  <1> DEFINE s == Contents'
  <1>4. Chain(last_word, s) /\ Whole(s) /\ LastOf(last_word, s) = LastOffered
    <2>1. CASE fifo_wr_valid
      <3>1. s = Append(Contents, fifo_wr_data)
        BY <2>1, CameraEdgeBuffer
      <3>2. LastOffered = fifo_wr_data
        BY <2>1 DEF LastOffered
      <3> QED BY <1>1, <1>2, <2>1, <3>1, <3>2, ChainPut
    <2>2. CASE ~fifo_wr_valid
      BY <1>1, <2>2, CameraEdgeBuffer DEF LastOffered
    <2> QED BY <2>1, <2>2
  <1>5. /\ Chain(last_word, Contents)' <=> Chain(last_word', s)
        /\ Whole(Contents)' <=> Whole(s)
        /\ LastOf(last_word, Contents)' = LastOf(last_word', s)
    BY DEF Chain, Whole, LastOf
  <1> QED BY <1>3, <1>4, <1>5
-----------------------------------------------------------------------------
Capture == FrameGap \/ LineGap \/ DroppedByte \/ FirstByte \/ SecondByte

(* The second byte's three outcomes.                                         *)
LEMMA SecondByteCases ==
  ASSUME SecondByte
  PROVE  \/ /\ ~Synced /\ fifo_wr_valid' = FALSE
            /\ UNCHANGED <<seen_frame_gap, frame_active, drop_frame, fifo_wr_data>>
         \/ /\ Synced /\ ~Full /\ fifo_wr_valid' = TRUE
            /\ fifo_wr_data' = [sof |-> seen_frame_gap, hi |-> cam_pixel, lo |-> first_byte]
            /\ seen_frame_gap' = FALSE /\ frame_active' = TRUE /\ drop_frame' = drop_frame
         \/ /\ Synced /\ Full /\ fifo_wr_valid' = FALSE /\ drop_frame' = TRUE
            /\ UNCHANGED <<seen_frame_gap, frame_active, fifo_wr_data>>
  BY DEF SecondByte, Synced, fifo_wr_ready, DropRestOfFrame

LEMMA CaptureTypeStep ==
  ASSUME CaptureTypeOK, Capture
  PROVE  CaptureTypeOK'
  <1> USE DEF CaptureTypeOK
  <1>1. ASSUME NextByte
        PROVE  cam_pixel' \in 0 .. FramePixels /\ cam_byte' \in {0, 1}
    BY <1>1, FrameAssumption DEF NextByte, Pixels
  <1>2. CASE FrameGap
    <2>1. 0 \in 0 .. FramePixels
      BY FrameAssumption
    <2> QED BY <1>2, <2>1 DEF FrameGap
  <1>3. CASE LineGap
    BY <1>3 DEF LineGap, camVars
  <1>4. CASE DroppedByte
    BY <1>1, <1>4 DEF DroppedByte
  <1>5. CASE FirstByte
    BY <1>1, <1>5 DEF FirstByte, NextByte
  <1>6. CASE SecondByte
    <2>1. /\ cam_pixel' \in 0 .. FramePixels /\ cam_byte' \in {0, 1}
          /\ first_byte' = first_byte /\ have_first_byte' = FALSE /\ cam_pixel \in Pixels
      BY <1>1, <1>6 DEF SecondByte, NextByte
    <2>2. [sof |-> seen_frame_gap, hi |-> cam_pixel, lo |-> first_byte] \in Words
      BY <2>1 DEF Words
    <2> QED BY <1>6, <2>1, <2>2, SecondByteCases
  <1> QED BY <1>2, <1>3, <1>4, <1>5, <1>6 DEF Capture

LEMMA AlignedStep ==
  ASSUME CaptureTypeOK, Aligned, Capture
  PROVE  Aligned'
  <1>1. have_first_byte \in BOOLEAN /\ cam_byte \in {0, 1} /\ cam_pixel \in 0 .. FramePixels
    BY DEF CaptureTypeOK
  <1>2. CASE FrameGap
    BY <1>2 DEF FrameGap, Aligned, Synced
  <1>3. CASE LineGap
    BY <1>3 DEF LineGap, camVars, Aligned, Synced
  <1>4. CASE DroppedByte
    BY <1>4 DEF DroppedByte, Aligned, Synced
  <1>5. CASE FirstByte
    BY <1>1, <1>5, FrameAssumption DEF FirstByte, NextByte, Aligned, Synced, Pixels
  <1>6. CASE SecondByte
    <2>1. /\ have_first_byte /\ ~drop_frame /\ have_first_byte' = FALSE
          /\ cam_byte' = 1 - cam_byte
      BY <1>6 DEF SecondByte, NextByte
    <2>2. Synced => cam_byte' = 0
      BY <1>1, <2>1 DEF Aligned
    <2>3. CASE ~Synced
      <3>1. UNCHANGED <<seen_frame_gap, frame_active, drop_frame>>
        BY <1>6, <2>3, SecondByteCases
      <3> QED BY <2>1, <2>3, <3>1 DEF Aligned, Synced
    <2>4. CASE Synced
      <3>1. drop_frame' \in BOOLEAN /\ Synced'
        BY <1>6, <2>4, CaptureTypeStep, SecondByteCases DEF Synced, Capture, CaptureTypeOK
      <3> QED BY <2>1, <2>2, <2>4, <3>1 DEF Aligned
    <2> QED BY <2>3, <2>4
  <1> QED BY <1>2, <1>3, <1>4, <1>5, <1>6 DEF Capture

(* What an edge offers is a word of the pixel just finished, and the camera   *)
(* is at the one after it.                                                 *)
LEMMA OfferStep ==
  ASSUME PathInv, CameraEdge
  PROVE  OfferInv'
  <1>1. CASE SecondByte
    <2>1. have_first_byte /\ have_first_byte' = FALSE
      BY <1>1 DEF SecondByte
    <2>2. fifo_wr_valid' => ~Full
      BY <1>1, SecondByteCases
    <2> QED BY <2>1, <2>2, CameraEdgeBuffer DEF OfferInv
  <1>2. CASE ~SecondByte
    BY <1>2 DEF CameraEdge, FrameGap, LineGap, DroppedByte, FirstByte, OfferInv
  <1> QED BY <1>1, <1>2

LEMMA WholeStep ==
  ASSUME PathInv, CameraEdge
  PROVE  WholeInv'
  <1>1. Whole(Contents)'
    BY CameraEdgeLast
  <1>2. ASSUME fifo_wr_valid' PROVE (fifo_wr_data.hi = fifo_wr_data.lo)'
    <2>1. SecondByte
      BY <1>2 DEF CameraEdge, FrameGap, LineGap, DroppedByte, FirstByte
    <2>2. have_first_byte
      BY <2>1 DEF SecondByte
    <2>3. Synced /\ fifo_wr_data' = [sof |-> seen_frame_gap, hi |-> cam_pixel, lo |-> first_byte]
      BY <1>2, <2>1, SecondByteCases
    <2>4. first_byte = cam_pixel
      BY <2>2, <2>3 DEF PathInv, Aligned
    <2> QED BY <2>3, <2>4
  <1> QED BY <1>1, <1>2 DEF WholeInv

LEMMA ChainStep ==
  ASSUME PathInv, CameraEdge
  PROVE  ChainInv'
  <1>1. /\ Chain(last_word, Contents)'
        /\ LastOf(last_word, Contents)' = LastOffered
    BY CameraEdgeLast
  <1>2. /\ ~drop_frame /\ seen_frame_gap => cam_pixel = 0
        /\ ~drop_frame /\ ~seen_frame_gap /\ frame_active => cam_pixel = LastOffered.hi + 1
        /\ Aligned /\ CaptureTypeOK
    BY DEF PathInv, ChainInv
  <1>3. LastOffered' = IF fifo_wr_valid' THEN fifo_wr_data' ELSE LastOffered
    BY <1>1 DEF LastOffered
  <1> HIDE DEF LastOffered
  <1>4. CASE FrameGap
    BY <1>1, <1>4 DEF FrameGap, ChainInv
  <1>5. CASE LineGap
    BY <1>1, <1>2, <1>3, <1>5 DEF LineGap, camVars, ChainInv
  <1>6. CASE DroppedByte
    BY <1>1, <1>6 DEF DroppedByte, ChainInv
  <1>7. CASE FirstByte
    <2>1. Synced => cam_byte = 0
      BY <1>2, <1>7 DEF FirstByte, Aligned, CaptureTypeOK
    <2>2. Synced => cam_pixel' = cam_pixel
      BY <1>2, <1>7, <2>1 DEF FirstByte, NextByte, CaptureTypeOK
    <2> QED BY <1>1, <1>2, <1>3, <1>7, <2>2 DEF FirstByte, ChainInv, Synced
  <1>8. CASE SecondByte
    <2>1. have_first_byte /\ ~drop_frame /\ cam_pixel' = cam_pixel + cam_byte
      BY <1>8 DEF SecondByte, NextByte
    <2>2. CASE ~Synced
      <3>1. fifo_wr_valid' = FALSE /\ UNCHANGED <<seen_frame_gap, frame_active>>
        BY <1>8, <2>2, SecondByteCases
      <3>2. ~Synced'
        BY <2>2, <3>1 DEF Synced
      <3> QED BY <1>1, <3>1, <3>2 DEF ChainInv, Synced
    <2>3. CASE Synced /\ Full
      <3>1. drop_frame' = TRUE /\ fifo_wr_valid' = FALSE
        BY <1>8, <2>3, SecondByteCases
      <3> QED BY <1>1, <3>1 DEF ChainInv
    <2>4. CASE Synced /\ ~Full
      <3>1. /\ fifo_wr_valid' = TRUE /\ seen_frame_gap' = FALSE
            /\ fifo_wr_data' = [sof |-> seen_frame_gap, hi |-> cam_pixel, lo |-> first_byte]
        BY <1>8, <2>4, SecondByteCases
      <3>2. cam_pixel' = cam_pixel + 1
        BY <1>2, <2>1, <2>4 DEF Aligned, CaptureTypeOK
      <3>3. fifo_wr_data'.hi = cam_pixel /\ fifo_wr_data'.sof = seen_frame_gap
        BY <3>1
      <3>4. LastOffered' = fifo_wr_data'
        BY <1>3, <3>1
      <3>5. Follows(fifo_wr_data', LastOffered)
        BY <1>2, <2>1, <2>4, <3>3 DEF Follows, Synced
      <3>6. Follows(fifo_wr_data, LastOf(last_word, Contents))'
        BY <1>1, <3>5 DEF Follows
      <3> QED BY <1>1, <3>1, <3>2, <3>3, <3>4, <3>6 DEF ChainInv
    <2> QED BY <2>2, <2>3, <2>4
  <1> QED BY <1>4, <1>5, <1>6, <1>7, <1>8 DEF CameraEdge

LEMMA CameraEdgeInv == PathInv /\ CameraEdge => PathInv'
  <1> SUFFICES ASSUME PathInv, CameraEdge PROVE PathInv'
    OBVIOUS
  <1>1. Capture
    BY DEF CameraEdge, Capture
  <1>2. CaptureTypeOK' /\ Aligned'
    BY <1>1, CaptureTypeStep, AlignedStep DEF PathInv
  <1> QED BY <1>2, CameraEdgeBuffer, OfferStep, ChainStep, WholeStep DEF PathInv

-----------------------------------------------------------------------------
(* At a read edge the first word becomes the last one read.                  *)
LEMMA ReaderEdgeFacts ==
  ASSUME PathInv, ReaderEdge
  PROVE  /\ FifoInv'
         /\ (rd_bin' # rd_bin) => Follows(RdData, last_word)
         /\ Chain(last_word, Contents)' /\ Whole(Contents)'
         /\ LastOf(last_word, Contents)' = LastOf(last_word, Contents)
  <1>1. PICK ready \in BOOLEAN :
          /\ ReadEdge(ready)
          /\ last_word' = IF ready /\ ~Empty THEN RdData ELSE last_word
    BY DEF ReaderEdge
  <1>2. FifoInv /\ Chain(last_word, Contents) /\ Whole(Contents)
    BY DEF PathInv, ChainInv, WholeInv
  <1>3. Contents \in Seq(Data)
    BY <1>2, ContentsIsStretch
  <1>4. FifoInv'
    BY <1>1, <1>2, ReadEdgeInv
  <1> DEFINE s == Contents'
             l == last_word'
  <1>5. /\ Chain(last_word, Contents)' <=> Chain(l, s)
        /\ Whole(Contents)' <=> Whole(s)
        /\ LastOf(last_word, Contents)' = LastOf(l, s)
    BY DEF Chain, Whole, LastOf
  <1>6. CASE ready /\ ~Empty
    <2>1. Contents # <<>> /\ l = Contents[1] /\ RdData = Contents[1] /\ s = Tail(Contents)
      BY <1>1, <1>2, <1>6, ReadEdgeContents
    <2>2. /\ Follows(RdData, last_word)
          /\ Chain(l, s) /\ Whole(s) /\ LastOf(l, s) = LastOf(last_word, Contents)
      BY <1>2, <1>3, <2>1, ChainGet
    <2> QED BY <1>4, <1>5, <2>2
  <1>7. CASE ~(ready /\ ~Empty)
    <2>1. s = Contents /\ l = last_word /\ rd_bin' = rd_bin
      BY <1>1, <1>2, <1>7, ReadEdgeContents
    <2> QED BY <1>2, <1>4, <1>5, <2>1
  <1> QED BY <1>6, <1>7

LEMMA ReaderEdgeInv == PathInv /\ ReaderEdge => PathInv'
  <1> SUFFICES ASSUME PathInv, ReaderEdge PROVE PathInv'
    OBVIOUS
  <1>1. UNCHANGED <<camVars, captureVars>> /\ Full' = Full
    BY DEF ReaderEdge, ReadEdge, writeVars, Full
  <1>2. CaptureTypeOK' /\ Aligned'
    BY <1>1 DEF PathInv, CaptureTypeOK, Aligned, Synced, camVars, captureVars
  <1>3. OfferInv'
    BY <1>1 DEF PathInv, OfferInv, captureVars
  <1>4. WholeInv'
    BY <1>1, ReaderEdgeFacts DEF PathInv, WholeInv, captureVars
  <1>5. LastOffered' = LastOffered
    BY <1>1, ReaderEdgeFacts DEF LastOffered, captureVars
  <1>6. ChainInv'
    <2>1. fifo_wr_valid' => Follows(fifo_wr_data, LastOf(last_word, Contents))'
      BY <1>1, ReaderEdgeFacts DEF PathInv, ChainInv, captureVars, Follows
    <2>2. /\ ~drop_frame' /\ seen_frame_gap' => cam_pixel' = 0
          /\ ~drop_frame' /\ ~seen_frame_gap' /\ frame_active' => cam_pixel' = LastOffered'.hi + 1
      BY <1>1, <1>5 DEF PathInv, ChainInv, camVars, captureVars
    <2> QED BY <2>1, <2>2, ReaderEdgeFacts DEF ChainInv
  <1> QED BY <1>2, <1>3, <1>4, <1>6, ReaderEdgeFacts DEF PathInv

LEMMA PathStutter == PathInv /\ UNCHANGED vars => PathInv'
  <1> SUFFICES ASSUME PathInv, UNCHANGED vars PROVE PathInv'
    OBVIOUS
  <1> USE DEF vars, fifoVars, writeVars, readVars, camVars, captureVars
  <1>1. Contents' = Contents /\ Full' = Full
    BY DEF Contents, Full
  <1>2. FifoInv'
    BY DEF PathInv, FifoInv, FifoTypeOK, PointersInOrder
  <1>3. CaptureTypeOK' /\ Aligned' /\ OfferInv'
    BY <1>1 DEF PathInv, CaptureTypeOK, Aligned, OfferInv, Synced
  <1>4. ChainInv' /\ WholeInv'
    BY <1>1 DEF PathInv, ChainInv, WholeInv, LastOffered
  <1> QED BY <1>2, <1>3, <1>4 DEF PathInv

(* The buffer and the capture keep in step for ever.                         *)
THEOREM CameraPathInvariance == Spec => []PathInv
  <1>1. PathInv /\ [Next]_vars => PathInv'
    BY CameraEdgeInv, ReaderEdgeInv, PathStutter DEF Next
  <1> QED BY PathInit, <1>1, PTL DEF Spec

(* No word the capture offers is refused by the buffer: wr_ready, looked at   *)
(* one clock before the word is written, still holds when it is.           *)
THEOREM OfferTheorem == Spec => []OfferedIsTaken
  <1>1. PathInv => OfferedIsTaken
    BY DEF PathInv, OfferInv, OfferedIsTaken
  <1> QED BY CameraPathInvariance, <1>1, PTL

(* The words offered and stored join the two bytes of one pixel, wherever in  *)
(* the byte stream the capture left reset.                                 *)
THEOREM PixelTheorem == Spec => []WholePixels
  <1>1. PathInv => WholePixels
    <2> SUFFICES ASSUME PathInv PROVE WholePixels
      OBVIOUS
    <2>1. DOMAIN Contents = 1 .. Len(Contents)
      BY ContentsIsStretch, LenProperties DEF PathInv
    <2> QED BY <2>1 DEF PathInv, WholeInv, Whole, WholePixels
  <1> QED BY CameraPathInvariance, <1>1, PTL

(* What leaves the buffer are frames from their first pixel on, pixel by      *)
(* pixel, whatever overflows were met.                                     *)
THEOREM FramesTheorem == Spec => FramesArePrefixes
  <1>1. ASSUME PathInv, [Next]_vars, rd_bin' # rd_bin
        PROVE  IF RdData.sof THEN RdData.hi = 0 ELSE RdData.hi = last_word.hi + 1
    <2>1. CASE CameraEdge
      BY <1>1, <2>1, CameraEdgeBuffer
    <2>2. CASE ReaderEdge
      BY <1>1, <2>2, ReaderEdgeFacts DEF Follows
    <2>3. CASE UNCHANGED vars
      BY <1>1, <2>3 DEF vars, fifoVars, readVars
    <2> QED BY <1>1, <2>1, <2>2, <2>3 DEF Next
  <1> QED BY <1>1, CameraPathInvariance, PTL DEF Spec, FramesArePrefixes

(* With the camera in front of it the buffer still is a queue of words.       *)
THEOREM QueueTheorem == Spec => IsQueue
  <1>1. Init => Queue!Init
    BY InitContents DEF Init, Queue!Init
  <1>2. ASSUME PathInv, [Next]_vars PROVE [Queue!Next]_Contents
    <2>1. FifoInv /\ fifo_wr_valid \in BOOLEAN /\ fifo_wr_data \in Data
      BY <1>2, WordAssumption DEF PathInv, CaptureTypeOK
    <2>2. CASE CameraEdge
      BY <2>1, <2>2, WriteEdgeIsQueueStep DEF CameraEdge
    <2>3. CASE ReaderEdge
      BY <2>1, <2>3, ReadEdgeIsQueueStep DEF ReaderEdge
    <2>4. CASE UNCHANGED vars
      BY <2>4 DEF vars, fifoVars, writeVars, readVars, Contents
    <2> QED BY <1>2, <2>2, <2>3, <2>4 DEF Next
  <1> QED BY <1>1, <1>2, CameraPathInvariance, PTL DEF Spec, IsQueue, Queue!Spec
=============================================================================
