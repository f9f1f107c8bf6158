------------------------- MODULE AsyncFifoGrayProofs -------------------------
(***************************************************************************)
(* The registers of the dual-clock buffer behave as the pointers of         *)
(* AsyncFifo, for every width of address: a pointer that crosses in Gray     *)
(* code arrives as it was or as it is, whatever bits are caught in change,  *)
(* and the flags computed from codes are those of the numbers.              *)
(***************************************************************************)
EXTENDS AsyncFifoGray, FiniteSetTheorems, TLAPS

(* A set that holds 0, and with n also n + 1, holds every number: the shift   *)
(* of what is below a gap would be an injection into a smaller set.        *)
LEMMA SetInduction ==
  ASSUME NEW S, 0 \in S, \A n \in Nat : n \in S => n + 1 \in S
  PROVE  Nat \subseteq S
  <1> SUFFICES ASSUME NEW m \in Nat, m \notin S PROVE FALSE
    OBVIOUS
  <1> DEFINE T == {n \in 0 .. m : n \in S}
             shift == [n \in T |-> n + 1]
  <1>1. IsFiniteSet(T) /\ Cardinality(T) \in Nat /\ 0 \in T
    <2>1. IsFiniteSet(0 .. m) /\ T \in SUBSET (0 .. m)
      BY FS_Interval
    <2>2. IsFiniteSet(T)
      BY <2>1, FS_Subset
    <2>3. 0 \in T
      OBVIOUS
    <2> QED BY <2>2, <2>3, FS_CardinalityType
  <1>2. IsFiniteSet(T \ {0}) /\ Cardinality(T \ {0}) = Cardinality(T) - 1
    BY <1>1, FS_RemoveElement
  <1>3. shift \in [T -> T \ {0}]
    <2> SUFFICES ASSUME NEW n \in T PROVE n + 1 \in T \ {0}
      OBVIOUS
    <2>1. n \in Nat /\ n \in S /\ n # m /\ n <= m
      OBVIOUS
    <2> QED BY <2>1
  <1> HIDE DEF T
  <1>4. PICK x \in T, y \in T : x # y /\ shift[x] = shift[y]
    <2> HIDE DEF shift
    <2> QED BY <1>1, <1>2, <1>3, FS_PigeonHole
  <1> QED BY <1>4 DEF T

(* A finite set of n elements has 2 ^ n subsets, which says how powers grow.  *)
LEMMA Powers ==
  /\ 2 ^ 0 = 1
  /\ \A n \in Nat : 2 ^ n \in Nat /\ 2 ^ n # 0
  /\ \A n \in Nat : 2 ^ (n + 1) = 2 * 2 ^ n
  <1>0. SUBSET {} = {{}}
    OBVIOUS
  <1>1. 2 ^ 0 = 1
    BY <1>0, FS_EmptySet, FS_SUBSET, FS_Singleton
  <1> DEFINE P(n) == SUBSET (1 .. n)
  <1>2. ASSUME NEW n \in Nat
        PROVE  IsFiniteSet(P(n)) /\ Cardinality(P(n)) = 2 ^ n /\ 2 ^ n \in Nat
    <2>1. IsFiniteSet(1 .. n) /\ Cardinality(1 .. n) = n
      BY FS_Interval
    <2> QED BY <2>1, FS_SUBSET, FS_CardinalityType
  <1>3. ASSUME NEW n \in Nat PROVE 2 ^ n # 0
    <2>1. P(n) # {}
      OBVIOUS
    <2> HIDE DEF P
    <2> QED BY <1>2, <2>1, FS_EmptySet
  <1>4. ASSUME NEW n \in Nat PROVE 2 ^ (n + 1) = 2 * 2 ^ n
    <2> DEFINE A == P(n)
               B == {x \in P(n + 1) : n + 1 \in x}
               f == [x \in A |-> x \cup {n + 1}]
    <2>0. 1 .. (n + 1) = (1 .. n) \cup {n + 1} /\ n + 1 \notin 1 .. n /\ n + 1 \in Nat
      OBVIOUS
    <2>1. P(n + 1) = A \cup B /\ A \cap B = {}
      BY <2>0
    <2>2. f \in Bijection(A, B)
      <3>1. f \in [A -> B]
        BY <2>0
      <3>2. \A x, y \in A : f[x] = f[y] => x = y
        <4> SUFFICES ASSUME NEW x \in A, NEW y \in A, f[x] = f[y] PROVE x = y
          OBVIOUS
        <4>1. x \cup {n + 1} = y \cup {n + 1}
          OBVIOUS
        <4>2. n + 1 \notin x /\ n + 1 \notin y
          BY <2>0
        <4> QED BY <4>1, <4>2
      <3>3. \A y \in B : \E x \in A : f[x] = y
        <4> SUFFICES ASSUME NEW y \in B PROVE \E x \in A : f[x] = y
          OBVIOUS
        <4>1. y \ {n + 1} \in A
          BY <2>0
        <4>2. f[y \ {n + 1}] = y
          BY <4>1
        <4> QED BY <4>1, <4>2
      <3> HIDE DEF A, B, f
      <3> QED BY <3>1, <3>2, <3>3 DEF Bijection, Injection, Surjection, IsInjective
    <2>3. IsFiniteSet(A) /\ Cardinality(A) = 2 ^ n /\ 2 ^ n \in Nat
      BY <1>2
    <2>4. IsFiniteSet(B) /\ Cardinality(B) = 2 ^ n
      BY <2>2, <2>3, FS_Bijection DEF ExistsBijection
    <2>5. Cardinality(P(n + 1)) = 2 ^ (n + 1)
      BY <2>0, <1>2
    <2> HIDE DEF A, B, P
    <2>6. Cardinality(A \cup B) = Cardinality(A) + Cardinality(B) - Cardinality({})
      BY <2>1, <2>3, <2>4, FS_Union
    <2>7. Cardinality(P(n + 1)) = 2 ^ n + 2 ^ n
      <3>1. Cardinality({}) = 0
        BY FS_EmptySet
      <3>2. 2 ^ n + 2 ^ n - 0 = 2 ^ n + 2 ^ n
        BY <2>3
      <3> QED BY <2>1, <2>3, <2>4, <2>6, <3>1, <3>2
    <2> QED BY <2>3, <2>5, <2>7
  <1> QED BY <1>1, <1>2, <1>3, <1>4

(* Quotient and remainder are the only pair that gives the number back.      *)
LEMMA Division ==
  ASSUME NEW n \in Nat, NEW p \in Nat \ {0}
  PROVE  /\ n \div p \in Nat /\ n % p \in 0 .. p - 1
         /\ n = p * (n \div p) + (n % p)
         /\ \A q \in Nat, r \in 0 .. p - 1 : n = p * q + r => n \div p = q /\ n % p = r
  <1>1. n \div p \in Nat /\ n % p \in 0 .. p - 1
    OBVIOUS
  <1>2. n = p * (n \div p) + (n % p)
    OBVIOUS
  <1>3. ASSUME NEW q \in Nat, NEW r \in 0 .. p - 1, n = p * q + r
        PROVE  n \div p = q /\ n % p = r
    <2> DEFINE d == n \div p
               m == n % p
    <2>1. d \in Nat /\ m \in 0 .. p - 1 /\ p * d + m = p * q + r
      BY <1>1, <1>2, <1>3
    <2> HIDE DEF d, m
    <2>2. \A x, y \in Nat : x < y => p * x + p <= p * y
      <3> SUFFICES ASSUME NEW x \in Nat, NEW y \in Nat, x < y PROVE p * x + p <= p * y
        OBVIOUS
      <3>1. PICK k \in Nat : y = x + 1 + k
        <4>1. y - x - 1 \in Nat /\ y = x + 1 + (y - x - 1)
          OBVIOUS
        <4> QED BY <4>1
      <3>2. p * y = p * x + p + p * k /\ p * k \in Nat
        BY <3>1
      <3> QED BY <3>2
    <2>3. ~ (d < q) /\ ~ (q < d)
      <3>1. p * d \in Nat /\ p * q \in Nat
        BY <2>1
      <3> QED BY <2>1, <2>2, <3>1
    <2>4. d = q
      BY <2>1, <2>3
    <2> QED BY <2>1, <2>4 DEF d, m
  <1> QED BY <1>1, <1>2, <1>3

-----------------------------------------------------------------------------
(* A number without its i lowest bits.                                      *)
Half(n, i) == n \div 2 ^ i

LEMMA Halves ==
  ASSUME NEW n \in Nat, NEW i \in Nat
  PROVE  /\ Half(n, i) \in Nat /\ Bit(n, i) \in {0, 1}
         /\ Half(n, 0) = n
         /\ Half(n, i) = 2 * Half(n, i + 1) + Bit(n, i)
         /\ n < 2 ^ i => Half(n, i) = 0
  <1>1. 2 ^ i \in Nat \ {0} /\ 2 ^ (i + 1) = 2 * 2 ^ i /\ 2 ^ 0 = 1
    BY Powers
  <1> DEFINE p == 2 ^ i
             q == n \div p
             r == n % p
             h == q \div 2
             t == q % 2
  <1> HIDE DEF p
  <1>2. p \in Nat \ {0} /\ q \in Nat /\ r \in 0 .. p - 1 /\ n = p * q + r
    BY <1>1, Division DEF p
  <1> HIDE DEF q, r
  <1>3. h \in Nat /\ t \in {0, 1} /\ q = 2 * h + t
    BY <1>2
  <1> HIDE DEF h, t
  <1>4. n = (2 * p) * h + (p * t + r)
    <2>1. p * q = p * (2 * h) + p * t
      BY <1>2, <1>3
    <2>2. p * (2 * h) = (2 * p) * h
      BY <1>2, <1>3
    <2> QED BY <1>2, <1>3, <2>1, <2>2
  <1>5. p * t + r \in 0 .. 2 * p - 1 /\ 2 * p \in Nat \ {0}
    BY <1>2, <1>3
  <1>6. n \div (2 * p) = h
    BY <1>2, <1>3, <1>4, <1>5, Division
  <1>7. Half(n, i) = q /\ Half(n, i + 1) = h /\ Bit(n, i) = t
    BY <1>1, <1>6 DEF Half, Bit, p, q, h, t
  <1>8. Half(n, 0) = n
    BY <1>1 DEF Half
  <1>9. ASSUME n < 2 ^ i PROVE q = 0
    <2>1. n = p * 0 + n /\ n \in 0 .. p - 1
      BY <1>2, <1>9 DEF p
    <2> QED BY <1>2, <2>1, Division DEF q
  <1> QED BY <1>2, <1>3, <1>7, <1>8, <1>9

(* The depth, and the pointers as numbers of AddrWidth + 1 bits.             *)
LEMMA Widths ==
  /\ AddrWidth \in Nat /\ AddrWidth >= 2 /\ AddrWidth \in Bits /\ Bits \subseteq Nat
  /\ Depth \in Nat \ {0} /\ Depth >= 2 /\ Depth = 2 ^ AddrWidth
  /\ 2 * Depth = 2 ^ (AddrWidth + 1)
  /\ Pointers \subseteq Nat /\ 0 \in Pointers
  /\ \A n \in Nat : n \in Pointers <=> n < 2 * Depth
  <1>1. AddrWidth \in Nat /\ AddrWidth >= 2 /\ AddrWidth - 1 \in Nat
    BY WidthAssumption
  <1>2. Depth \in Nat \ {0} /\ Depth = 2 ^ AddrWidth /\ 2 * Depth = 2 ^ (AddrWidth + 1)
    BY <1>1, Powers DEF Depth
  <1>3. 2 ^ (AddrWidth - 1) \in Nat /\ 2 ^ (AddrWidth - 1) # 0 /\ (AddrWidth - 1) + 1 = AddrWidth
    BY <1>1, Powers
  <1>4. Depth = 2 * 2 ^ (AddrWidth - 1)
    BY <1>1, <1>2, <1>3, Powers
  <1>5. Depth >= 2
    BY <1>3, <1>4
  <1> QED BY <1>1, <1>2, <1>5 DEF Bits, Pointers

LEMMA BitOfHalf == \A n, i \in Nat : Bit(n, i) = Half(n, i) % 2
  BY DEF Bit, Half

LEMMA ZeroBits == \A i \in Nat : Bit(0, i) = 0
  <1> SUFFICES ASSUME NEW i \in Nat PROVE Bit(0, i) = 0
    OBVIOUS
  <1>1. 2 ^ i \in Nat /\ 0 < 2 ^ i
    BY Powers
  <1>2. Half(0, i) = 0
    BY <1>1, Halves
  <1> QED BY <1>2, BitOfHalf

(* The codes of the pointers: of bits, and different for different pointers. *)
LEMMA GrayCode ==
  ASSUME NEW b \in Pointers
  PROVE  /\ bin_to_gray(b) \in Codes
         /\ \A i \in Bits : bin_to_gray(b)[i] = Xor(Bit(b, i + 1), Bit(b, i))
         /\ Bit(b, AddrWidth + 1) = 0
  <1>1. \A i \in Bits : Bit(b, i) \in {0, 1} /\ Bit(b, i + 1) \in {0, 1}
    BY Widths, Halves
  <1>2. b \in Nat /\ AddrWidth + 1 \in Nat /\ b < 2 ^ (AddrWidth + 1)
    BY Widths
  <1>3. Half(b, AddrWidth + 1) = 0
    BY <1>2, Halves
  <1>4. Bit(b, AddrWidth + 1) = 0
    BY <1>2, <1>3, BitOfHalf
  <1> QED BY <1>1, <1>4 DEF bin_to_gray, Codes, Xor

LEMMA GrayInjective ==
  ASSUME NEW b \in Pointers, NEW c \in Pointers, bin_to_gray(b) = bin_to_gray(c)
  PROVE  b = c
  <1> DEFINE top == AddrWidth + 1
             S == {k \in Nat : k <= top => Half(b, top - k) = Half(c, top - k)}
  <1>1. b \in Nat /\ c \in Nat /\ top \in Nat /\ b < 2 ^ top /\ c < 2 ^ top
    BY Widths
  <1>2. 0 \in S
    BY <1>1, Halves
  <1>3. ASSUME NEW k \in Nat, k \in S PROVE k + 1 \in S
    <2> SUFFICES ASSUME k + 1 <= top
                 PROVE  Half(b, top - (k + 1)) = Half(c, top - (k + 1))
      OBVIOUS
    <2> DEFINE i == top - (k + 1)
    <2>1. i \in Nat /\ i \in Bits /\ i + 1 = top - k /\ i + 1 \in Nat
      BY Widths DEF Bits
    <2>2. Half(b, i + 1) = Half(c, i + 1)
      <3>1. k <= top
        BY <1>1
      <3> QED BY <1>3, <2>1, <3>1
    <2> HIDE DEF i, S, top
    <2>3. Bit(b, i + 1) = Bit(c, i + 1)
      BY <1>1, <2>1, <2>2, BitOfHalf
    <2>4. Xor(Bit(b, i + 1), Bit(b, i)) = Xor(Bit(c, i + 1), Bit(c, i))
      BY <2>1, GrayCode
    <2>5. Bit(b, i) \in {0, 1} /\ Bit(c, i) \in {0, 1} /\ Bit(b, i + 1) \in {0, 1}
      BY <1>1, <2>1, Halves
    <2>6. Bit(b, i) = Bit(c, i)
      BY <2>3, <2>4, <2>5 DEF Xor
    <2>7. Half(b, i) = Half(c, i)
      BY <1>1, <2>1, <2>2, <2>6, Halves
    <2> QED BY <2>7 DEF i
  <1>4. top \in S
    <2> HIDE DEF S
    <2> QED BY <1>1, <1>2, <1>3, SetInduction
  <1>5. Half(b, 0) = Half(c, 0)
    BY <1>1, <1>4
  <1> QED BY <1>1, <1>5, Halves

LEMMA Decoded ==
  ASSUME NEW b \in Pointers
  PROVE  gray_to_bin(bin_to_gray(b)) = b
  <1> DEFINE Equations(c) ==
        \A i \in Bits : Bit(c, i) = IF i = AddrWidth THEN bin_to_gray(b)[i]
                                    ELSE Xor(Bit(c, i + 1), bin_to_gray(b)[i])
  <1>1. \A c \in Pointers, i \in Bits : Bit(c, i) \in {0, 1} /\ Bit(c, i + 1) \in {0, 1}
    BY Widths, Halves
  <1>2. Equations(b)
    <2> SUFFICES ASSUME NEW i \in Bits
                 PROVE  Bit(b, i) = IF i = AddrWidth THEN bin_to_gray(b)[i]
                                    ELSE Xor(Bit(b, i + 1), bin_to_gray(b)[i])
      OBVIOUS
    <2> QED BY <1>1, GrayCode DEF Xor
  <1>3. ASSUME NEW c \in Pointers, Equations(c) PROVE c = b
    <2>1. ASSUME NEW i \in Bits PROVE bin_to_gray(c)[i] = bin_to_gray(b)[i]
      <3>1. bin_to_gray(c)[i] = Xor(Bit(c, i + 1), Bit(c, i))
        BY GrayCode
      <3>2. bin_to_gray(b)[i] \in {0, 1}
        BY GrayCode DEF Codes
      <3>3. Bit(c, i) = IF i = AddrWidth THEN bin_to_gray(b)[i]
                        ELSE Xor(Bit(c, i + 1), bin_to_gray(b)[i])
        BY <1>3
      <3> QED BY <1>1, <3>1, <3>2, <3>3, GrayCode DEF Xor
    <2>2. bin_to_gray(c) = bin_to_gray(b)
      BY <2>1 DEF bin_to_gray
    <2> QED BY <2>2, GrayInjective
  <1>4. gray_to_bin(bin_to_gray(b)) = CHOOSE c \in Pointers : Equations(c)
    BY DEF gray_to_bin
  <1> HIDE DEF Equations
  <1> QED BY <1>2, <1>3, <1>4

(* All bits below bit i are one: adding one carries into it.                *)
Carries(n, i) == \A j \in 0 .. i - 1 : Bit(n, j) = 1

LEMMA Increment ==
  ASSUME NEW n \in Nat, NEW i \in Nat
  PROVE  /\ Half(n + 1, i) = IF Carries(n, i) THEN Half(n, i) + 1 ELSE Half(n, i)
         /\ Bit(n + 1, i) = IF Carries(n, i) THEN 1 - Bit(n, i) ELSE Bit(n, i)
         /\ Carries(n, i + 1) <=> Carries(n, i) /\ Bit(n, i) = 1
  <1> DEFINE S == {k \in Nat : Half(n + 1, k) = IF Carries(n, k) THEN Half(n, k) + 1 ELSE Half(n, k)}
  <1>1. 0 \in S
    <2>1. Half(n, 0) = n /\ Half(n + 1, 0) = n + 1 /\ Carries(n, 0)
      BY Halves DEF Carries
    <2> QED BY <2>1
  <1>2. ASSUME NEW k \in Nat PROVE Carries(n, k + 1) <=> Carries(n, k) /\ Bit(n, k) = 1
    <2>1. 0 .. (k + 1) - 1 = (0 .. k - 1) \cup {k}
      OBVIOUS
    <2> QED BY <2>1 DEF Carries
  <1>3. ASSUME NEW k \in Nat, Half(n + 1, k) = IF Carries(n, k) THEN Half(n, k) + 1 ELSE Half(n, k)
        PROVE  /\ Bit(n + 1, k) = IF Carries(n, k) THEN 1 - Bit(n, k) ELSE Bit(n, k)
               /\ Half(n + 1, k + 1) = IF Carries(n, k + 1) THEN Half(n, k + 1) + 1 ELSE Half(n, k + 1)
    <2>1. /\ Half(n, k) = 2 * Half(n, k + 1) + Bit(n, k) /\ Bit(n, k) \in {0, 1}
          /\ Half(n + 1, k) = 2 * Half(n + 1, k + 1) + Bit(n + 1, k) /\ Bit(n + 1, k) \in {0, 1}
          /\ Half(n, k + 1) \in Nat /\ Half(n + 1, k + 1) \in Nat
      <3>1. n + 1 \in Nat /\ k + 1 \in Nat
        OBVIOUS
      <3>2. Half(n, k + 1) \in Nat /\ Half(n + 1, k + 1) \in Nat
        BY <3>1, Halves
      <3> QED BY <3>1, <3>2, Halves
    <2> QED BY <1>2, <1>3, <2>1
  <1>4. i \in S
    <2>1. \A k \in Nat : k \in S => k + 1 \in S
      BY <1>3
    <2> HIDE DEF S
    <2> QED BY <1>1, <2>1, SetInduction
  <1> QED BY <1>2, <1>3, <1>4

(* A pointer that moves on changes one bit of its code.                      *)
LEMMA OneBitChanges ==
  ASSUME NEW b \in Pointers
  PROVE  /\ Plus1(b) \in Pointers
         /\ Plus1(b) = IF b = 2 * Depth - 1 THEN 0 ELSE b + 1
         /\ \E k \in Bits : \A i \in Bits \ {k} : bin_to_gray(Plus1(b))[i] = bin_to_gray(b)[i]
  <1>1. b \in Nat /\ b + 1 \in Nat /\ b < 2 * Depth /\ 2 * Depth \in Nat \ {0}
    BY Widths
  <1>2. CASE b # 2 * Depth - 1
    <2>1. b + 1 < 2 * Depth /\ b + 1 \in Pointers
      BY <1>1, <1>2, Widths
    <2>2. Plus1(b) = b + 1
      <3>1. b + 1 = (2 * Depth) * 0 + (b + 1) /\ b + 1 \in 0 .. 2 * Depth - 1
        BY <1>1, <2>1
      <3> QED BY <1>1, <3>1, Division DEF Plus1
    <2>3. ASSUME NEW i \in Bits, bin_to_gray(b + 1)[i] # bin_to_gray(b)[i]
          PROVE  Carries(b, i) /\ Bit(b, i) = 0
      <3>1. i \in Nat /\ i + 1 \in Nat
        BY Widths
      <3>2. /\ Bit(b, i) \in {0, 1} /\ Bit(b, i + 1) \in {0, 1}
            /\ Bit(b + 1, i) = IF Carries(b, i) THEN 1 - Bit(b, i) ELSE Bit(b, i)
            /\ Bit(b + 1, i + 1) = IF Carries(b, i + 1) THEN 1 - Bit(b, i + 1) ELSE Bit(b, i + 1)
            /\ Carries(b, i + 1) <=> Carries(b, i) /\ Bit(b, i) = 1
        BY <1>1, <3>1, Halves, Increment
      <3>3. Xor(Bit(b + 1, i + 1), Bit(b + 1, i)) # Xor(Bit(b, i + 1), Bit(b, i))
        BY <2>1, <2>3, GrayCode
      <3> QED BY <3>2, <3>3 DEF Xor
    <2>4. ASSUME NEW i \in Bits, NEW j \in Bits, Carries(b, i), Bit(b, i) = 0, Carries(b, j), Bit(b, j) = 0
          PROVE  i = j
      <3>1. i \in Nat /\ j \in Nat
        BY Widths
      <3> QED BY <2>4, <3>1 DEF Carries
    <2>5. \E k \in Bits : \A i \in Bits \ {k} : bin_to_gray(b + 1)[i] = bin_to_gray(b)[i]
      <3>1. CASE \E k \in Bits : Carries(b, k) /\ Bit(b, k) = 0
        BY <2>3, <2>4, <3>1
      <3>2. CASE ~ \E k \in Bits : Carries(b, k) /\ Bit(b, k) = 0
        BY <2>3, <3>2, Widths
      <3> QED BY <3>1, <3>2
    <2> QED BY <1>2, <2>1, <2>2, <2>5
  <1>3. CASE b = 2 * Depth - 1
    <2> DEFINE top == AddrWidth + 1
    <2>1. b + 1 = 2 * Depth /\ top \in Nat /\ b < 2 ^ top
      BY <1>1, <1>3, Widths
    <2>2. Plus1(b) = 0
      <3>1. b + 1 = (2 * Depth) * 1 + 0 /\ 0 \in 0 .. 2 * Depth - 1
        BY <1>1, <2>1
      <3> QED BY <1>1, <3>1, Division DEF Plus1
    <2>3. Half(b, top) = 0 /\ Half(b + 1, top) = 1
      <3>1. b + 1 = (2 ^ top) * 1 + 0 /\ 0 \in 0 .. 2 ^ top - 1 /\ 2 ^ top \in Nat \ {0}
        BY <1>1, <2>1, Widths
      <3>2. Half(b + 1, top) = 1
        BY <1>1, <3>1, Division DEF Half
      <3> QED BY <1>1, <2>1, <3>2, Halves
    <2> HIDE DEF top
    <2>4. Carries(b, top)
      BY <1>1, <2>1, <2>3, Increment
    <2>5. \A i \in Bits : Bit(b, i) = 1
      BY <2>4, Widths DEF Carries, Bits, top
    <2>6. ASSUME NEW i \in Bits \ {AddrWidth}
          PROVE  bin_to_gray(0)[i] = bin_to_gray(b)[i]
      <3>1. i \in Nat /\ i + 1 \in Nat /\ i + 1 \in Bits
        BY Widths DEF Bits
      <3>2. bin_to_gray(0)[i] = Xor(0, 0) /\ bin_to_gray(b)[i] = Xor(1, 1)
        BY <2>5, <3>1, ZeroBits, GrayCode, Widths
      <3> QED BY <3>2 DEF Xor
    <2> QED BY <1>3, <2>2, <2>6, Widths
  <1> QED BY <1>2, <1>3

LEMMA MixesOfNeighbours ==
  ASSUME NEW b \in Pointers, NEW gray \in Mixes(bin_to_gray(b), bin_to_gray(Plus1(b)))
  PROVE  gray \in {bin_to_gray(b), bin_to_gray(Plus1(b))}
  <1> DEFINE old == bin_to_gray(b)
             new == bin_to_gray(Plus1(b))
  <1>1. old \in [Bits -> {0, 1}] /\ new \in [Bits -> {0, 1}] /\ gray \in [Bits -> {0, 1}]
    BY OneBitChanges, GrayCode DEF Mixes, Codes
  <1>2. \A i \in Bits : gray[i] = old[i] \/ gray[i] = new[i]
    BY DEF Mixes
  <1>3. PICK k \in Bits : \A i \in Bits \ {k} : new[i] = old[i]
    BY OneBitChanges
  <1> HIDE DEF old, new
  <1>4. CASE gray[k] = old[k]
    <2>1. \A i \in Bits : gray[i] = old[i]
      BY <1>2, <1>3, <1>4
    <2> QED BY <1>1, <2>1 DEF old
  <1>5. CASE gray[k] = new[k]
    <2>1. \A i \in Bits : gray[i] = new[i]
      BY <1>2, <1>3, <1>5
    <2> QED BY <1>1, <2>1 DEF new
  <1> QED BY <1>2, <1>4, <1>5

(* The pointer half a turn away.                                              *)
Across(b) == IF b < Depth THEN b + Depth ELSE b - Depth

LEMMA HalfTurn ==
  ASSUME NEW n \in Nat, n < Depth, NEW i \in Nat, i <= AddrWidth
  PROVE  /\ Half(n + Depth, i) = Half(n, i) + 2 ^ (AddrWidth - i)
         /\ Bit(n + Depth, i) = IF i = AddrWidth THEN 1 - Bit(n, i) ELSE Bit(n, i)
  <1>1. AddrWidth \in Nat /\ Depth \in Nat /\ Depth = 2 ^ AddrWidth /\ n + Depth \in Nat
    BY Widths
  <1> DEFINE S == {k \in Nat : k <= AddrWidth =>
                     Half(n + Depth, k) = Half(n, k) + 2 ^ (AddrWidth - k)}
  <1>2. 0 \in S
    <2>1. Half(n, 0) = n /\ Half(n + Depth, 0) = n + Depth /\ AddrWidth - 0 = AddrWidth
      BY <1>1, Halves
    <2> QED BY <1>1, <2>1
  <1>3. ASSUME NEW k \in Nat, k < AddrWidth,
               Half(n + Depth, k) = Half(n, k) + 2 ^ (AddrWidth - k)
        PROVE  /\ Half(n + Depth, k + 1) = Half(n, k + 1) + 2 ^ (AddrWidth - (k + 1))
               /\ Bit(n + Depth, k) = Bit(n, k)
    <2> DEFINE p == 2 ^ (AddrWidth - (k + 1))
    <2>1. AddrWidth - (k + 1) \in Nat /\ AddrWidth - k = (AddrWidth - (k + 1)) + 1
      BY <1>1, <1>3
    <2>2. p \in Nat /\ 2 ^ (AddrWidth - k) = 2 * p
      BY <2>1, Powers
    <2> HIDE DEF p
    <2>3. /\ Half(n, k) = 2 * Half(n, k + 1) + Bit(n, k) /\ Bit(n, k) \in {0, 1}
          /\ Half(n + Depth, k) = 2 * Half(n + Depth, k + 1) + Bit(n + Depth, k)
          /\ Bit(n + Depth, k) \in {0, 1}
          /\ Half(n, k + 1) \in Nat /\ Half(n + Depth, k + 1) \in Nat
      <3>1. k + 1 \in Nat
        OBVIOUS
      <3>2. Half(n, k + 1) \in Nat /\ Half(n + Depth, k + 1) \in Nat
        BY <1>1, <3>1, Halves
      <3> QED BY <1>1, <3>1, <3>2, Halves
    <2>4. Half(n + Depth, k + 1) = Half(n, k + 1) + p /\ Bit(n + Depth, k) = Bit(n, k)
      <3>1. Half(n + Depth, k) = Half(n, k) + 2 * p
        BY <1>3, <2>2
      <3>2. \A x, y, v, w, q \in Nat, s, t \in {0, 1} :
              x = 2 * v + s /\ y = 2 * w + t /\ y = x + 2 * q => w = v + q /\ t = s
        OBVIOUS
      <3>3. Half(n, k) \in Nat /\ Half(n + Depth, k) \in Nat
        BY <2>3
      <3> QED BY <2>2, <2>3, <3>1, <3>2, <3>3
    <2> QED BY <2>4 DEF p
  <1>4. i \in S
    <2>1. \A k \in Nat : k \in S => k + 1 \in S
      BY <1>1, <1>3
    <2> HIDE DEF S
    <2> QED BY <1>2, <2>1, SetInduction
  <1>5. Half(n + Depth, i) = Half(n, i) + 2 ^ (AddrWidth - i)
    BY <1>4
  <1>6. CASE i < AddrWidth
    BY <1>3, <1>5, <1>6
  <1>7. CASE i = AddrWidth
    <2>1. Half(n, i) = 0 /\ 2 ^ (AddrWidth - i) = 1
      BY <1>1, <1>7, Halves, Powers
    <2>2. Bit(n, i) = 0 /\ Bit(n + Depth, i) = 1
      BY <1>1, <1>5, <2>1, BitOfHalf
    <2> QED BY <1>5, <1>7, <2>2
  <1> QED BY <1>1, <1>5, <1>6, <1>7

LEMMA InvertedIsAcross ==
  ASSUME NEW b \in Pointers
  PROVE  Across(b) \in Pointers /\ TopInverted(bin_to_gray(b)) = bin_to_gray(Across(b))
  <1> DEFINE n == IF b < Depth THEN b ELSE b - Depth
  <1>1. n \in Nat /\ n < Depth /\ n \in Pointers /\ n + Depth \in Pointers
    BY Widths
  <1>2. {b, Across(b)} = {n, n + Depth} /\ Across(b) \in Pointers
    BY <1>1, Widths DEF Across
  <1> HIDE DEF n
  <1>3. ASSUME NEW i \in Bits
        PROVE  /\ bin_to_gray(n)[i] \in {0, 1} /\ bin_to_gray(n + Depth)[i] \in {0, 1}
               /\ bin_to_gray(n + Depth)[i]
                    = IF i >= AddrWidth - 1 THEN 1 - bin_to_gray(n)[i] ELSE bin_to_gray(n)[i]
    <2>1. i \in Nat /\ i <= AddrWidth /\ i + 1 \in Nat /\ AddrWidth \in Nat
      BY Widths DEF Bits
    <2>2. /\ bin_to_gray(n)[i] = Xor(Bit(n, i + 1), Bit(n, i))
          /\ bin_to_gray(n + Depth)[i] = Xor(Bit(n + Depth, i + 1), Bit(n + Depth, i))
          /\ Bit(n, AddrWidth + 1) = 0 /\ Bit(n + Depth, AddrWidth + 1) = 0
      BY <1>1, GrayCode
    <2>3. Bit(n, i) \in {0, 1} /\ Bit(n, i + 1) \in {0, 1}
      BY <1>1, <2>1, Halves
    <2>4. Bit(n + Depth, i) = IF i = AddrWidth THEN 1 - Bit(n, i) ELSE Bit(n, i)
      BY <1>1, <2>1, HalfTurn
    <2>5. Bit(n + Depth, i + 1) = IF i + 1 = AddrWidth THEN 1 - Bit(n, i + 1) ELSE Bit(n, i + 1)
      <3>1. CASE i = AddrWidth
        BY <2>1, <2>2, <3>1
      <3>2. CASE i # AddrWidth
        <4>1. i + 1 <= AddrWidth
          BY <2>1, <3>2
        <4> QED BY <1>1, <2>1, <4>1, HalfTurn
      <3> QED BY <3>1, <3>2
    <2> QED BY <2>1, <2>2, <2>3, <2>4, <2>5 DEF Xor
  <1>4. ASSUME NEW i \in Bits
        PROVE  TopInverted(bin_to_gray(b))[i] = bin_to_gray(Across(b))[i]
    <2>1. TopInverted(bin_to_gray(b))[i]
            = IF i >= AddrWidth - 1 THEN 1 - bin_to_gray(b)[i] ELSE bin_to_gray(b)[i]
      BY DEF TopInverted
    <2>2. CASE b = n /\ Across(b) = n + Depth
      BY <1>3, <2>1, <2>2
    <2>3. CASE b = n + Depth /\ Across(b) = n
      BY <1>3, <2>1, <2>3
    <2> QED BY <1>1, <1>2, <2>2, <2>3, Widths
  <1> QED BY <1>2, <1>4 DEF TopInverted, bin_to_gray

-----------------------------------------------------------------------------
(* The registers hold pointers that have gone round: they are numbers that    *)
(* only grow, modulo a turn.                                               *)
Wrap(n) == n % (2 * Depth)
Code(n) == bin_to_gray(Wrap(n))

LEMMA WrapFacts ==
  ASSUME NEW n \in Nat
  PROVE  /\ Wrap(n) \in Pointers
         /\ Wrap(n + 1) = Plus1(Wrap(n))
         /\ Wrap(n + Depth) = Across(Wrap(n))
         /\ \A m \in Nat : n <= m /\ m < n + 2 * Depth
              => /\ (Wrap(m) + 2 * Depth - Wrap(n)) % (2 * Depth) = m - n
                 /\ Wrap(m) = Wrap(n) => m = n
  <1> DEFINE M == 2 * Depth
  <1>1. M \in Nat \ {0} /\ Depth \in Nat \ {0} /\ M = Depth + Depth
    BY Widths
  <1> HIDE DEF M
  <1>2. PICK q \in Nat, r \in 0 .. M - 1 : n = M * q + r /\ Wrap(n) = r
    <2>1. n \div M \in Nat /\ n % M \in 0 .. M - 1 /\ n = M * (n \div M) + (n % M)
      BY <1>1, Division
    <2>2. Wrap(n) = n % M
      BY DEF Wrap, M
    <2> QED BY <2>1, <2>2
  <1>3. \A k, p \in Nat, s \in 0 .. M - 1 : k = M * p + s => k % M = s
    BY <1>1, Division
  <1>4. M * (q + 1) = M * q + M /\ M * q \in Nat
    BY <1>1
  <1>5. Wrap(n) \in Pointers
    BY <1>2 DEF Pointers, M
  <1>6. \A k \in Nat : k <= M => (n + k) % M = IF r + k < M THEN r + k ELSE r + k - M
    <2> SUFFICES ASSUME NEW k \in Nat, k <= M
                 PROVE  (n + k) % M = IF r + k < M THEN r + k ELSE r + k - M
      OBVIOUS
    <2>1. CASE r + k < M
      <3>1. n + k = M * q + (r + k) /\ r + k \in 0 .. M - 1 /\ n + k \in Nat
        BY <1>1, <1>2, <1>4, <2>1
      <3> QED BY <1>3, <2>1, <3>1
    <2>2. CASE ~ (r + k < M)
      <3>1. n + k = M * (q + 1) + (r + k - M) /\ r + k - M \in 0 .. M - 1 /\ n + k \in Nat
        BY <1>1, <1>2, <1>4, <2>2
      <3> QED BY <1>3, <2>2, <3>1
    <2> QED BY <2>1, <2>2
  <1>7. \A k \in Nat : k < M => k % M = k /\ (k + M) % M = k
    <2> SUFFICES ASSUME NEW k \in Nat, k < M PROVE k % M = k /\ (k + M) % M = k
      OBVIOUS
    <2>1. k = M * 0 + k /\ k + M = M * 1 + k /\ k \in 0 .. M - 1 /\ k + M \in Nat
      BY <1>1
    <2> QED BY <1>3, <2>1
  <1>8. Wrap(n + 1) = Plus1(Wrap(n))
    <2>1. Wrap(n + 1) = IF r + 1 < M THEN r + 1 ELSE r + 1 - M
      BY <1>1, <1>6 DEF Wrap, M
    <2>2. Plus1(Wrap(n)) = (r + 1) % M
      BY <1>2 DEF Plus1, M
    <2>3. r + 1 < M \/ r + 1 = 0 + M
      BY <1>1
    <2> QED BY <1>1, <1>7, <2>1, <2>2, <2>3
  <1>9. Wrap(n + Depth) = Across(Wrap(n))
    <2>1. Wrap(n + Depth) = IF r + Depth < M THEN r + Depth ELSE r + Depth - M
      BY <1>1, <1>6 DEF Wrap, M
    <2> QED BY <1>1, <1>2, <2>1 DEF Across
  <1>10. ASSUME NEW m \in Nat, n <= m, m < n + M
         PROVE  (Wrap(m) + M - Wrap(n)) % M = m - n /\ (Wrap(m) = Wrap(n) => m = n)
    <2> DEFINE k == m - n
    <2>1. k \in Nat /\ k < M /\ n + k = m
      BY <1>1, <1>10
    <2> HIDE DEF k
    <2>2. Wrap(m) = IF r + k < M THEN r + k ELSE r + k - M
      <3>1. (n + k) % M = Wrap(m)
        BY <2>1 DEF Wrap, M
      <3>2. k <= M
        BY <1>1, <2>1
      <3>3. (n + k) % M = IF r + k < M THEN r + k ELSE r + k - M
        BY <1>6, <2>1, <3>2
      <3> QED BY <3>1, <3>3
    <2>3. Wrap(m) + M - Wrap(n) = k \/ Wrap(m) + M - Wrap(n) = k + M
      BY <1>1, <1>2, <2>1, <2>2
    <2>4. (Wrap(m) + M - Wrap(n)) % M = k
      BY <1>7, <2>1, <2>3
    <2>5. Wrap(m) = Wrap(n) => k = 0
      BY <1>1, <1>2, <2>1, <2>2
    <2> QED BY <1>10, <2>4, <2>5 DEF k
  <1> QED BY <1>5, <1>8, <1>9, <1>10 DEF M

LEMMA CodeFacts ==
  ASSUME NEW n \in Nat
  PROVE  /\ gray_to_bin(Code(n)) = Wrap(n)
         /\ TopInverted(Code(n)) = Code(n + Depth)
         /\ \A m \in Nat : n <= m /\ m < n + 2 * Depth => (Code(m) = Code(n) => m = n)
         /\ Mixes(Code(n), Code(n)) \subseteq {Code(n)}
         /\ Mixes(Code(n), Code(n + 1)) \subseteq {Code(n), Code(n + 1)}
  <1>1. Wrap(n) \in Pointers /\ Depth \in Nat
    BY WrapFacts, Widths
  <1>2. gray_to_bin(Code(n)) = Wrap(n)
    BY <1>1, Decoded DEF Code
  <1>3. TopInverted(Code(n)) = Code(n + Depth)
    BY <1>1, InvertedIsAcross, WrapFacts DEF Code
  <1>4. ASSUME NEW m \in Nat, n <= m, m < n + 2 * Depth, Code(m) = Code(n) PROVE m = n
    <2>1. Wrap(m) \in Pointers
      BY WrapFacts
    <2>2. Wrap(m) = Wrap(n)
      BY <1>1, <1>4, <2>1, GrayInjective DEF Code
    <2> QED BY <1>4, <2>2, WrapFacts
  <1>5. ASSUME NEW gray \in Mixes(Code(n), Code(n)) PROVE gray = Code(n)
    <2>1. gray \in [Bits -> {0, 1}] /\ \A i \in Bits : gray[i] = Code(n)[i]
      BY DEF Mixes, Codes
    <2>2. Code(n) \in [Bits -> {0, 1}]
      BY <1>1, GrayCode DEF Code, Codes
    <2> QED BY <2>1, <2>2
  <1>6. Code(n + 1) = bin_to_gray(Plus1(Wrap(n)))
    BY WrapFacts DEF Code
  <1>7. Mixes(Code(n), Code(n + 1)) \subseteq {Code(n), Code(n + 1)}
    BY <1>1, <1>6, MixesOfNeighbours DEF Code
  <1> QED BY <1>2, <1>3, <1>4, <1>5, <1>7

LEMMA ZeroCode == Wrap(0) = 0 /\ Code(0) = Zero
  <1>1. Wrap(0) = 0
    <2>1. 2 * Depth \in Nat \ {0} /\ 0 = (2 * Depth) * 0 + 0 /\ 0 \in 0 .. 2 * Depth - 1
      BY Widths
    <2> QED BY <2>1, Division DEF Wrap
  <1>2. \A i \in Bits : Bit(0, i) = 0 /\ Bit(0, i + 1) = 0
    BY ZeroBits, Widths
  <1>3. bin_to_gray(0) = Zero
    BY <1>2 DEF bin_to_gray, Zero, Xor
  <1> QED BY <1>1, <1>3 DEF Code
-----------------------------------------------------------------------------
(* From the oldest image of the read pointer to the write pointer: a2 and a1  *)
(* are the images of the read pointer r, b2 and b1 of the write pointer w;  *)
(* ro and wo are what the pointers were before their clock's last edge, as  *)
(* long as the other clock may still catch that.                           *)
InOrder(a2, a1, ro, r, b2, b1, wo, w) ==
  /\ a2 <= a1 /\ a1 <= ro /\ ro <= r /\ r <= b2 /\ b2 <= b1 /\ b1 <= wo /\ wo <= w
  /\ r <= ro + 1 /\ w <= wo + 1
  /\ w + 1 <= a2 + Depth

Holds(a2, a1, ro, r, b2, b1, wo, w) ==
  /\ rd_gray_wr2 = Code(a2) /\ rd_gray_wr1 = Code(a1) /\ rd_before = Code(ro)
  /\ rd_bin = Wrap(r) /\ rd_gray = Code(r)
  /\ wr_gray_rd2 = Code(b2) /\ wr_gray_rd1 = Code(b1) /\ wr_before = Code(wo)
  /\ wr_bin = Wrap(w) /\ wr_gray = Code(w)

(* The inductive invariant.                                                *)
GrayInv ==
  \E a2, a1, ro, r, b2, b1, wo, w \in Nat :
    /\ InOrder(a2, a1, ro, r, b2, b1, wo, w)
    /\ Holds(a2, a1, ro, r, b2, b1, wo, w)

LEMMA GrayInit == Init => GrayInv
  <1> SUFFICES ASSUME Init PROVE GrayInv
    OBVIOUS
  <1>1. InOrder(0, 0, 0, 0, 0, 0, 0, 0)
    BY Widths DEF InOrder
  <1>2. Holds(0, 0, 0, 0, 0, 0, 0, 0)
    BY ZeroCode DEF Holds, Init
  <1> QED BY <1>1, <1>2 DEF GrayInv

(* What the flags and the levels, computed from the registers, say of the     *)
(* growing pointers.                                                       *)
LEMMA FullFact ==
  ASSUME NEW a2 \in Nat, NEW w \in Nat, a2 <= w, w + 1 <= a2 + Depth,
         rd_gray_wr2 = Code(a2), wr_bin = Wrap(w)
  PROVE  full <=> w + 1 = a2 + Depth
  <1>1. Depth \in Nat \ {0} /\ a2 + Depth \in Nat /\ w + 1 \in Nat
    BY Widths
  <1>2. bin_to_gray(Plus1(wr_bin)) = Code(w + 1) /\ TopInverted(rd_gray_wr2) = Code(a2 + Depth)
    BY WrapFacts, CodeFacts DEF Code
  <1>3. w + 1 <= a2 + Depth /\ a2 + Depth < (w + 1) + 2 * Depth
    BY <1>1
  <1> QED BY <1>1, <1>2, <1>3, CodeFacts DEF full

LEMMA EmptyFact ==
  ASSUME NEW r \in Nat, NEW b2 \in Nat, r <= b2, b2 < r + 2 * Depth,
         rd_gray = Code(r), wr_gray_rd2 = Code(b2)
  PROVE  empty <=> r = b2
  BY CodeFacts DEF empty

LEMMA LevelFacts ==
  ASSUME NEW a2 \in Nat, NEW r \in Nat, NEW b2 \in Nat, NEW w \in Nat,
         a2 <= r, r <= b2, b2 <= w, w < a2 + 2 * Depth,
         rd_gray_wr2 = Code(a2), wr_gray_rd2 = Code(b2), wr_bin = Wrap(w), rd_bin = Wrap(r)
  PROVE  /\ wr_level = w - a2
         /\ rd_level = b2 - r
         /\ (wr_bin + 2 * Depth - rd_bin) % (2 * Depth) = w - r
  <1>1. Depth \in Nat
    BY Widths
  <1>2. wr_level = w - a2
    <2>1. a2 <= w /\ w < a2 + 2 * Depth
      BY <1>1
    <2> QED BY <2>1, CodeFacts, WrapFacts DEF wr_level
  <1>3. rd_level = b2 - r
    <2>1. r <= b2 /\ b2 < r + 2 * Depth
      BY <1>1
    <2> QED BY <2>1, CodeFacts, WrapFacts DEF rd_level
  <1>4. (wr_bin + 2 * Depth - rd_bin) % (2 * Depth) = w - r
    <2>1. r <= w /\ w < r + 2 * Depth
      BY <1>1
    <2> QED BY <2>1, WrapFacts
  <1> QED BY <1>2, <1>3, <1>4

(* A register that catches a pointer takes what it was or what it is.        *)
LEMMA CaughtCode ==
  ASSUME NEW o \in Nat, NEW n \in Nat, o <= n, n <= o + 1, NEW gray \in Mixes(Code(o), Code(n))
  PROVE  \E c \in {o, n} : gray = Code(c)
  <1>1. n = o \/ n = o + 1
    OBVIOUS
  <1>2. CASE n = o
    BY <1>2, CodeFacts
  <1>3. CASE n = o + 1
    BY <1>3, CodeFacts
  <1> QED BY <1>1, <1>2, <1>3

LEMMA WriteEdgeStep ==
  ASSUME GrayInv, NEW valid \in BOOLEAN, NEW data \in Data, WriteEdge(valid, data)
  PROVE  GrayInv'
  <1>1. PICK a2, a1, ro, r, b2, b1, wo, w \in Nat :
          InOrder(a2, a1, ro, r, b2, b1, wo, w) /\ Holds(a2, a1, ro, r, b2, b1, wo, w)
    BY DEF GrayInv
  <1>2. PICK c \in {ro, r} : rd_gray_wr1' = Code(c)
    <2>1. ro <= r /\ r <= ro + 1 /\ rd_gray_wr1' \in Mixes(Code(ro), Code(r))
      BY <1>1 DEF InOrder, Holds, WriteEdge
    <2> QED BY <2>1, CaughtCode
  <1>3. full <=> w + 1 = a2 + Depth
    <2>1. a2 <= w /\ w + 1 <= a2 + Depth /\ rd_gray_wr2 = Code(a2) /\ wr_bin = Wrap(w)
      BY <1>1, Widths DEF InOrder, Holds
    <2> QED BY <2>1, FullFact
  <1>4. PICK n \in {w, w + 1} : n = w + 1 <=> valid /\ ~full
    OBVIOUS
  <1>5. Depth \in Nat /\ c \in Nat /\ n \in Nat /\ ro <= c /\ c <= r
    BY <1>1, Widths DEF InOrder
  <1>6. InOrder(a1, c, r, r, b2, b1, w, n)
    <2>1. n # w + 1 \/ w + 1 # a2 + Depth
      BY <1>3, <1>4
    <2> QED BY <1>1, <1>5, <2>1 DEF InOrder
  <1>7. wr_bin' = Wrap(n) /\ wr_gray' = Code(n)
    <2>1. CASE valid /\ ~full
      <3>1. wr_bin' = Plus1(Wrap(w)) /\ wr_gray' = bin_to_gray(Plus1(Wrap(w))) /\ n = w + 1
        BY <1>1, <1>4, <2>1 DEF WriteEdge, Holds
      <3> QED BY <3>1, WrapFacts DEF Code
    <2>2. CASE ~(valid /\ ~full)
      <3>1. n = w
        BY <1>4, <2>2
      <3> QED BY <1>1, <2>2, <3>1 DEF WriteEdge, Holds
    <2> QED BY <2>1, <2>2
  <1>8. Holds(a1, c, r, r, b2, b1, w, n)'
    BY <1>1, <1>2, <1>7 DEF Holds, WriteEdge
  <1> QED BY <1>5, <1>6, <1>8 DEF GrayInv

LEMMA ReadEdgeStep ==
  ASSUME GrayInv, NEW ready \in BOOLEAN, ReadEdge(ready)
  PROVE  GrayInv'
  <1>1. PICK a2, a1, ro, r, b2, b1, wo, w \in Nat :
          InOrder(a2, a1, ro, r, b2, b1, wo, w) /\ Holds(a2, a1, ro, r, b2, b1, wo, w)
    BY DEF GrayInv
  <1>2. PICK c \in {wo, w} : wr_gray_rd1' = Code(c)
    <2>1. wo <= w /\ w <= wo + 1 /\ wr_gray_rd1' \in Mixes(Code(wo), Code(w))
      BY <1>1 DEF InOrder, Holds, ReadEdge
    <2> QED BY <2>1, CaughtCode
  <1>3. empty <=> r = b2
    <2>1. r <= b2 /\ b2 < r + 2 * Depth /\ rd_gray = Code(r) /\ wr_gray_rd2 = Code(b2)
      BY <1>1, Widths DEF InOrder, Holds
    <2> QED BY <2>1, EmptyFact
  <1>4. PICK n \in {r, r + 1} : n = r + 1 <=> ~empty /\ ready
    OBVIOUS
  <1>5. Depth \in Nat /\ c \in Nat /\ n \in Nat /\ wo <= c /\ c <= w
    BY <1>1, Widths DEF InOrder
  <1>6. InOrder(a2, a1, r, n, b1, c, w, w)
    <2>1. n # r + 1 \/ r # b2
      BY <1>3, <1>4
    <2> QED BY <1>1, <1>5, <2>1 DEF InOrder
  <1>7. rd_bin' = Wrap(n) /\ rd_gray' = Code(n)
    <2>1. CASE ~empty /\ ready
      <3>1. rd_bin' = Plus1(Wrap(r)) /\ rd_gray' = bin_to_gray(Plus1(Wrap(r))) /\ n = r + 1
        BY <1>1, <1>4, <2>1 DEF ReadEdge, Holds
      <3> QED BY <3>1, WrapFacts DEF Code
    <2>2. CASE ~(~empty /\ ready)
      <3>1. n = r
        BY <1>4, <2>2
      <3> QED BY <1>1, <2>2, <3>1 DEF ReadEdge, Holds
    <2> QED BY <2>1, <2>2
  <1>8. Holds(a2, a1, r, n, b1, c, w, w)'
    BY <1>1, <1>2, <1>7 DEF Holds, ReadEdge
  <1> QED BY <1>5, <1>6, <1>8 DEF GrayInv

LEMMA GrayStep ==
  ASSUME GrayInv, [Next]_vars
  PROVE  GrayInv'
  <1>1. CASE \E valid \in BOOLEAN, data \in Data : WriteEdge(valid, data)
    BY <1>1, WriteEdgeStep
  <1>2. CASE \E ready \in BOOLEAN : ReadEdge(ready)
    BY <1>2, ReadEdgeStep
  <1>3. CASE UNCHANGED vars
    <2>1. PICK a2, a1, ro, r, b2, b1, wo, w \in Nat :
            InOrder(a2, a1, ro, r, b2, b1, wo, w) /\ Holds(a2, a1, ro, r, b2, b1, wo, w)
      BY DEF GrayInv
    <2>2. Holds(a2, a1, ro, r, b2, b1, wo, w)'
      BY <1>3, <2>1 DEF Holds, vars
    <2> QED BY <2>1, <2>2 DEF GrayInv
  <1> QED BY <1>1, <1>2, <1>3 DEF Next

(* The registers hold codes of pointers in order, for ever.                  *)
THEOREM GrayInvariance == Spec => []GrayInv
  BY GrayInit, GrayStep, PTL DEF Spec

(* The levels the two sides report err towards full and towards empty only.  *)
THEOREM LevelsTheorem == Spec => []LevelsAreSafe
  <1>1. ASSUME GrayInv PROVE LevelsAreSafe
    <2>1. PICK a2, a1, ro, r, b2, b1, wo, w \in Nat :
            InOrder(a2, a1, ro, r, b2, b1, wo, w) /\ Holds(a2, a1, ro, r, b2, b1, wo, w)
      BY <1>1 DEF GrayInv
    <2>2. /\ wr_level = w - a2 /\ rd_level = b2 - r
          /\ (wr_bin + 2 * Depth - rd_bin) % (2 * Depth) = w - r
      <3>1. a2 <= r /\ r <= b2 /\ b2 <= w /\ w < a2 + 2 * Depth
        BY <2>1, Widths DEF InOrder
      <3> QED BY <2>1, <3>1, LevelFacts DEF Holds
    <2>3. b2 - r <= w - r /\ w - r <= w - a2 /\ w - a2 <= Depth - 1
      BY <2>1, Widths DEF InOrder
    <2> QED BY <2>2, <2>3 DEF LevelsAreSafe
  <1> QED BY <1>1, GrayInvariance, PTL
-----------------------------------------------------------------------------
(* The arithmetic of AsyncFifo on the pointers is that of the registers.     *)
LEMMA SmallRemainder ==
  ASSUME NEW d \in Nat \ {0}, NEW k \in 0 .. d - 1
  PROVE  k % d = k /\ (k + d) % d = k
  <1>1. k \in Nat /\ k + d \in Nat /\ k = d * 0 + k /\ k + d = d * 1 + k
    OBVIOUS
  <1>2. \A n, p \in Nat, s \in 0 .. d - 1 : n = d * p + s => n % d = s
    BY Division
  <1> QED BY <1>1, <1>2

LEMMA SameArithmetic ==
  ASSUME NEW p \in Pointers
  PROVE  /\ Numbers!Inc(p) = Plus1(p)
         /\ Numbers!Opposite(p) = Across(p)
         /\ Numbers!SlotOf(p) = p % Depth
  <1> DEFINE M == 2 * Depth
  <1>1. Depth \in Nat \ {0} /\ M \in Nat \ {0} /\ M = Depth + Depth /\ p \in 0 .. M - 1
    BY Widths DEF Pointers
  <1> HIDE DEF M
  <1>2. (p + 1) % M = IF p = M - 1 THEN 0 ELSE p + 1
    <2>1. CASE p = M - 1
      <3>1. p + 1 = 0 + M /\ 0 \in 0 .. M - 1
        BY <1>1, <2>1
      <3>2. (0 + M) % M = 0
        BY <1>1, <3>1, SmallRemainder
      <3> QED BY <2>1, <3>1, <3>2
    <2>2. CASE p # M - 1
      <3>1. p + 1 \in 0 .. M - 1
        BY <1>1, <2>2
      <3> QED BY <1>1, <2>2, <3>1, SmallRemainder
    <2> QED BY <2>1, <2>2
  <1>3. p % Depth = IF p < Depth THEN p ELSE p - Depth
    <2>1. CASE p < Depth
      <3>1. p \in 0 .. Depth - 1
        BY <1>1, <2>1
      <3> QED BY <1>1, <2>1, <3>1, SmallRemainder
    <2>2. CASE ~ (p < Depth)
      <3>1. p - Depth \in 0 .. Depth - 1 /\ (p - Depth) + Depth = p
        BY <1>1, <2>2
      <3>2. ((p - Depth) + Depth) % Depth = p - Depth
        BY <1>1, <3>1, SmallRemainder
      <3> QED BY <2>2, <3>1, <3>2
    <2> QED BY <2>1, <2>2
  <1>4. Numbers!Inc(p) = Plus1(p)
    BY <1>2 DEF Numbers!Inc, Plus1, M
  <1> QED BY <1>3, <1>4 DEF Numbers!SlotOf, Numbers!Opposite, Across

(* What a register catches of a pointer is what AsyncFifo lets it catch.     *)
LEMMA CaughtNumber ==
  ASSUME NEW i \in Nat, NEW o \in Nat, NEW n \in Nat,
         i <= o, o <= n, n <= o + 1, n < i + 2 * Depth, NEW c \in {o, n}
  PROVE  Wrap(c) \in Numbers!Caught(Wrap(i), Wrap(n))
  <1>1. CASE c = n
    BY <1>1 DEF Numbers!Caught
  <1>2. CASE c = o /\ n = o + 1
    <2>1. Wrap(o) \in Pointers /\ Numbers!Inc(Wrap(o)) = Wrap(n)
      BY <1>2, WrapFacts, SameArithmetic
    <2>2. i <= n /\ i # n
      BY <1>2
    <2>3. Wrap(i) # Wrap(n)
      BY <2>2, WrapFacts
    <2> QED BY <1>2, <2>1, <2>3 DEF Numbers!Caught, Numbers!Pointers, Pointers
  <1> QED BY <1>1, <1>2

LEMMA NumbersInit == Init => Numbers!FifoInit
  <1> SUFFICES ASSUME Init PROVE Numbers!FifoInit
    OBVIOUS
  <1>1. gray_to_bin(Zero) = 0
    BY ZeroCode, CodeFacts
  <1> QED BY <1>1 DEF Init, Numbers!FifoInit, Numbers!Slots

LEMMA NumbersWrite ==
  ASSUME GrayInv, NEW valid \in BOOLEAN, NEW data \in Data, WriteEdge(valid, data)
  PROVE  Numbers!WriteEdge(valid, data)
  <1>1. PICK a2, a1, ro, r, b2, b1, wo, w \in Nat :
          InOrder(a2, a1, ro, r, b2, b1, wo, w) /\ Holds(a2, a1, ro, r, b2, b1, wo, w)
    BY DEF GrayInv
  <1>2. PICK c \in {ro, r} : rd_gray_wr1' = Code(c)
    <2>1. ro <= r /\ r <= ro + 1 /\ rd_gray_wr1' \in Mixes(Code(ro), Code(r))
      BY <1>1 DEF InOrder, Holds, WriteEdge
    <2> QED BY <2>1, CaughtCode
  <1>3. gray_to_bin(rd_gray_wr1)' \in Numbers!Caught(gray_to_bin(rd_gray_wr1), rd_bin)
    <2>1. a1 <= ro /\ ro <= r /\ r <= ro + 1 /\ r < a1 + 2 * Depth
      BY <1>1, Widths DEF InOrder
    <2>2. Wrap(c) \in Numbers!Caught(Wrap(a1), Wrap(r))
      BY <2>1, CaughtNumber
    <2>3. gray_to_bin(rd_gray_wr1) = Wrap(a1) /\ rd_bin = Wrap(r)
      BY <1>1, CodeFacts DEF Holds
    <2>4. gray_to_bin(rd_gray_wr1)' = Wrap(c)
      BY <1>2, CodeFacts
    <2> QED BY <2>2, <2>3, <2>4
  <1>4. gray_to_bin(rd_gray_wr2)' = gray_to_bin(rd_gray_wr1)
    BY DEF WriteEdge
  <1>5. wr_bin \in Pointers
    BY <1>1, WrapFacts DEF Holds
  <1>6. Numbers!Full <=> full
    <2>1. a2 <= w /\ w + 1 <= a2 + Depth /\ rd_gray_wr2 = Code(a2) /\ wr_bin = Wrap(w)
      BY <1>1, Widths DEF InOrder, Holds
    <2>2. full <=> w + 1 = a2 + Depth
      BY <2>1, FullFact
    <2>3. Numbers!Inc(wr_bin) = Wrap(w + 1)
      BY <1>5, <2>1, SameArithmetic, WrapFacts
    <2>4. Numbers!Opposite(gray_to_bin(rd_gray_wr2)) = Wrap(a2 + Depth)
      BY <2>1, SameArithmetic, WrapFacts, CodeFacts
    <2>5. /\ w + 1 \in Nat /\ a2 + Depth \in Nat
          /\ w + 1 <= a2 + Depth /\ a2 + Depth < (w + 1) + 2 * Depth
      BY <2>1, Widths
    <2>6. Wrap(a2 + Depth) = Wrap(w + 1) => a2 + Depth = w + 1
      BY <2>5, WrapFacts
    <2> QED BY <2>2, <2>3, <2>4, <2>6 DEF Numbers!Full
  <1>7. IF valid /\ ~Numbers!Full
        THEN /\ mem' = [mem EXCEPT ![Numbers!SlotOf(wr_bin)] = data]
             /\ wr_bin' = Numbers!Inc(wr_bin)
        ELSE UNCHANGED <<mem, wr_bin>>
    BY <1>5, <1>6, SameArithmetic DEF WriteEdge
  <1>8. UNCHANGED <<rd_bin, gray_to_bin(wr_gray_rd1), gray_to_bin(wr_gray_rd2)>>
    BY DEF WriteEdge
  <1> QED BY <1>3, <1>4, <1>7, <1>8 DEF Numbers!WriteEdge, Numbers!readVars

LEMMA NumbersRead ==
  ASSUME GrayInv, NEW ready \in BOOLEAN, ReadEdge(ready)
  PROVE  Numbers!ReadEdge(ready)
  <1>1. PICK a2, a1, ro, r, b2, b1, wo, w \in Nat :
          InOrder(a2, a1, ro, r, b2, b1, wo, w) /\ Holds(a2, a1, ro, r, b2, b1, wo, w)
    BY DEF GrayInv
  <1>2. PICK c \in {wo, w} : wr_gray_rd1' = Code(c)
    <2>1. wo <= w /\ w <= wo + 1 /\ wr_gray_rd1' \in Mixes(Code(wo), Code(w))
      BY <1>1 DEF InOrder, Holds, ReadEdge
    <2> QED BY <2>1, CaughtCode
  <1>3. gray_to_bin(wr_gray_rd1)' \in Numbers!Caught(gray_to_bin(wr_gray_rd1), wr_bin)
    <2>1. b1 <= wo /\ wo <= w /\ w <= wo + 1 /\ w < b1 + 2 * Depth
      BY <1>1, Widths DEF InOrder
    <2>2. Wrap(c) \in Numbers!Caught(Wrap(b1), Wrap(w))
      BY <2>1, CaughtNumber
    <2>3. gray_to_bin(wr_gray_rd1) = Wrap(b1) /\ wr_bin = Wrap(w)
      BY <1>1, CodeFacts DEF Holds
    <2>4. gray_to_bin(wr_gray_rd1)' = Wrap(c)
      BY <1>2, CodeFacts
    <2> QED BY <2>2, <2>3, <2>4
  <1>4. gray_to_bin(wr_gray_rd2)' = gray_to_bin(wr_gray_rd1)
    BY DEF ReadEdge
  <1>5. rd_bin \in Pointers
    BY <1>1, WrapFacts DEF Holds
  <1>6. Numbers!Empty <=> empty
    <2>1. r <= b2 /\ b2 < r + 2 * Depth /\ rd_gray = Code(r) /\ wr_gray_rd2 = Code(b2)
      BY <1>1, Widths DEF InOrder, Holds
    <2>2. empty <=> r = b2
      BY <2>1, EmptyFact
    <2>3. rd_bin = Wrap(r) /\ gray_to_bin(wr_gray_rd2) = Wrap(b2)
      BY <1>1, <2>1, CodeFacts DEF Holds
    <2>4. Wrap(b2) = Wrap(r) => b2 = r
      BY <2>1, WrapFacts
    <2> QED BY <2>2, <2>3, <2>4 DEF Numbers!Empty
  <1>7. rd_bin' = IF ~Numbers!Empty /\ ready THEN Numbers!Inc(rd_bin) ELSE rd_bin
    BY <1>5, <1>6, SameArithmetic DEF ReadEdge
  <1>8. UNCHANGED <<mem, wr_bin, gray_to_bin(rd_gray_wr1), gray_to_bin(rd_gray_wr2)>>
    BY DEF ReadEdge
  <1> QED BY <1>3, <1>4, <1>7, <1>8 DEF Numbers!ReadEdge, Numbers!writeVars

(* Gray pointers that are caught half changed behave as numbers that are     *)
(* caught old or new.                                                      *)
THEOREM GrayImplementsNumbers == Spec => ImplementsAsyncFifo
  <1>1. ASSUME GrayInv, [Next]_vars PROVE [Numbers!FifoNext]_(Numbers!fifoVars)
    <2>1. CASE \E valid \in BOOLEAN, data \in Data : WriteEdge(valid, data)
      BY <1>1, <2>1, NumbersWrite DEF Numbers!FifoNext
    <2>2. CASE \E ready \in BOOLEAN : ReadEdge(ready)
      BY <1>1, <2>2, NumbersRead DEF Numbers!FifoNext
    <2>3. CASE UNCHANGED vars
      BY <2>3 DEF vars, Numbers!fifoVars, Numbers!writeVars, Numbers!readVars
    <2> QED BY <1>1, <2>1, <2>2, <2>3 DEF Next
  <1> QED BY <1>1, NumbersInit, GrayInvariance, PTL DEF Spec, ImplementsAsyncFifo, Numbers!FifoSpec
=============================================================================
