----------------------------- MODULE ProbingProofs -----------------------------
(***************************************************************************)
(* Arithmetic of triangular probing: in a table whose size is a power of   *)
(* two the probe for a key visits every slot, so a probe of a table with a *)
(* free slot finds one.                                                    *)
(***************************************************************************)
EXTENDS HashTable, FiniteSetTheorems, WellFoundedInduction, NaturalsInduction,
        TLAPS

-------------------------------------------------------------------------------
(* Naturals *)

\* What \div and % compute.
LEMMA Division ==
    ASSUME NEW a \in Nat, NEW b \in Nat \ {0}
    PROVE  /\ a = b * (a \div b) + (a % b)
           /\ (a % b) \in 0..(b - 1)
           /\ a \div b \in Nat
    OBVIOUS

\* A nonempty set of naturals has a least element: induction by way of the least
\* counterexample.
LEMMA Minimum ==
    ASSUME NEW T, T \subseteq Nat, T # {}
    PROVE  \E x \in T : \A y \in T : x <= y
<1>1. PICK m \in T : \A k \in T : <<k, m>> \notin OpToRel(<, Nat)
    BY WFMin, NatLessThanWellFounded, Zenon
<1>2. \A k \in T : ~(k < m)
    BY <1>1, Zenon DEF OpToRel
<1> QED
    BY <1>2

\* Two naturals with the same remainder differ by a multiple of the divisor.
LEMMA SameRemainder ==
    ASSUME NEW a \in Nat, NEW b \in Nat, NEW s \in Nat \ {0}, a % s = b % s,
           a <= b
    PROVE  \E q \in Nat : b - a = s * q
<1>1. PICK x \in Nat, y \in Nat, r \in Nat : a = s * x + r /\ b = s * y + r
    <2>1. /\ a = s * (a \div s) + (a % s)
          /\ a \div s \in Nat /\ a % s \in Nat
        OBVIOUS
    <2>2. /\ b = s * (b \div s) + (b % s)
          /\ b \div s \in Nat
        OBVIOUS
    <2> WITNESS a \div s \in Nat, b \div s \in Nat, a % s \in Nat
    <2> QED
        BY <2>1, <2>2
<1>2. b - a = s * (y - x)
    BY <1>1
<1>3. y - x \in Nat
    BY <1>2
<1> QED
    BY <1>2, <1>3

-------------------------------------------------------------------------------
(* Powers of two *)

\* Half of a power of two is one.
LEMMA Half ==
    ASSUME NEW n \in Nat \ {0, 1}, PowerOfTwo(n)
    PROVE  \E h \in Nat \ {0} : n = 2 * h /\ PowerOfTwo(h)
<1>1. n % 2 = 0
    BY DEF PowerOfTwo
<1>2. PICK h \in Nat \ {0} : n = 2 * h
    BY <1>1
<1>3. ASSUME NEW d \in 1..h, NEW q \in 1..h, d * q = h
      PROVE  d = 1 \/ d % 2 = 0
    <2>1. d * (2 * q) = n /\ 2 * q \in 1..n /\ d \in 1..n
        BY <1>2, <1>3
    <2> QED
        BY <2>1 DEF PowerOfTwo
<1> QED
    BY <1>2, <1>3 DEF PowerOfTwo

\* So is its double.
LEMMA Double ==
    ASSUME NEW n \in Nat \ {0}, PowerOfTwo(n)
    PROVE  PowerOfTwo(2 * n)
<1> SUFFICES ASSUME NEW d \in 1..(2 * n), NEW q \in 1..(2 * n), d * q = 2 * n,
                    d % 2 = 1
             PROVE  d = 1
    BY DEF PowerOfTwo
<1>1. PICK c \in Nat : d = 2 * c + 1
    BY Division
<1>2. q = 2 * (n - c * q)
    <2>1. d * q = 2 * (c * q) + q
        BY <1>1
    <2> QED
        BY <2>1
<1>3. PICK r \in Int : q = 2 * r
    <2>1. n - c * q \in Int
        OBVIOUS
    <2> QED
        BY <1>2, <2>1
<1>4. r \in 1..n
    BY <1>3
<1>5. d * r = n
    BY <1>3, <1>4
<1>6. d \in 1..n
    BY <1>4, <1>5
<1> QED
    BY <1>4, <1>5, <1>6 DEF PowerOfTwo

\* An odd factor shares nothing with a power of two.
LEMMA OddFactor ==
    ASSUME NEW n \in Nat \ {0}, PowerOfTwo(n),
           NEW a \in Nat, NEW b \in Nat, NEW q \in Nat,
           a % 2 = 1, a * b = n * q
    PROVE  \E r \in Nat : b = n * r
<1> DEFINE Divides(i) ==
               \A c, p \in Nat : a * c = i * p => \E r \in Nat : c = i * r
           Bad == {i \in Nat \ {0} : PowerOfTwo(i) /\ ~Divides(i)}
<1>1. Bad = {}
    <2> SUFFICES ASSUME Bad # {} PROVE FALSE
        OBVIOUS
    <2>1. PICK m \in Bad : \A y \in Bad : m <= y
        BY Minimum
    <2>2. m \in Nat \ {0, 1} /\ PowerOfTwo(m) /\ ~Divides(m)
        OBVIOUS
    <2>3. PICK h \in Nat \ {0} : m = 2 * h /\ PowerOfTwo(h)
        BY <2>2, Half
    <2>4. Divides(h)
        <3>1. h \notin Bad
            <4> HIDE DEF Bad
            <4> QED
                BY <2>1, <2>2, <2>3
        <3> HIDE DEF Divides
        <3> QED
            BY <2>3, <3>1
    <2>5. PICK c \in Nat, p \in Nat :
              a * c = m * p /\ \A r \in Nat : c # m * r
        BY <2>2
    <2>6. PICK e \in Nat : a = 2 * e + 1
        BY Division
    <2>7. c = 2 * (h * p - e * c)
        <3>1. a * c = 2 * (e * c) + c
            BY <2>6
        <3>2. m * p = 2 * (h * p)
            BY <2>3
        <3> QED
            BY <2>5, <3>1, <3>2
    <2>8. PICK d \in Nat : c = 2 * d
        <3>1. h * p - e * c \in Int
            OBVIOUS
        <3>2. h * p - e * c \in Nat
            BY <2>7, <3>1
        <3> QED
            BY <2>7, <3>2
    <2>9. a * d = h * p
        <3>1. a * c = 2 * (a * d)
            BY <2>8
        <3>2. m * p = 2 * (h * p)
            BY <2>3
        <3> QED
            BY <2>5, <3>1, <3>2
    <2>10. PICK r \in Nat : d = h * r
        BY <2>4, <2>9
    <2>11. c = m * r
        BY <2>3, <2>8, <2>10
    <2> QED
        BY <2>5, <2>11
<1>2. Divides(n)
    BY <1>1
<1> QED
    BY <1>2

-------------------------------------------------------------------------------
(* The probe *)

Triangle(n) == (n * (n + 1)) \div 2

\* Half of a product of neighbours, exactly.
LEMMA TriangleExact ==
    ASSUME NEW n \in Nat
    PROVE  Triangle(n) \in Nat /\ 2 * Triangle(n) = n * (n + 1)
<1>1. PICK c \in Nat : n = 2 * c \/ n = 2 * c + 1
    <2>1. n = 2 * (n \div 2) + (n % 2) /\ n \div 2 \in Nat /\ n % 2 \in 0..1
        OBVIOUS
    <2> WITNESS n \div 2 \in Nat
    <2> QED
        BY <2>1
<1>2. PICK z \in Nat : n * (n + 1) = 2 * z
    <2>1. CASE n = 2 * c
        <3>1. n * (n + 1) = 2 * (c * (n + 1)) /\ c * (n + 1) \in Nat
            BY <2>1
        <3> QED
            BY <3>1
    <2>2. CASE n = 2 * c + 1
        <3>1. n * (n + 1) = 2 * (n * (c + 1)) /\ n * (c + 1) \in Nat
            BY <2>2
        <3> QED
            BY <3>1
    <2> QED
        BY <1>1, <2>1, <2>2
<1>3. (2 * z) \div 2 = z
    OBVIOUS
<1> QED
    BY <1>2, <1>3 DEF Triangle

\* A probe stays in the table.
LEMMA SlotInTable ==
    ASSUME NEW k \in Keys, NEW n \in Nat, NEW size \in Nat \ {0}
    PROVE  Slot(k, n, size) \in 0..(size - 1)
<1>1. hash_func[k] + Triangle(n) \in Nat
    BY HashTableAssumption, TriangleExact
<1> QED
    BY <1>1, Division DEF Slot, Triangle

\* An odd and an even number, both small, do not multiply to a multiple of twice
\* a power of two.
LEMMA NoCommonMultiple ==
    ASSUME NEW n \in Nat \ {0}, PowerOfTwo(n),
           NEW odd \in Nat, odd % 2 = 1,
           NEW even \in 1..(2 * n - 1), even % 2 = 0,
           NEW q \in Nat
    PROVE  odd * even # 2 * (n * q)
<1> SUFFICES ASSUME odd * even = 2 * (n * q) PROVE FALSE
    OBVIOUS
<1>1. PICK c \in 1..(n - 1) : even = 2 * c
    OBVIOUS
<1>2. odd * c = n * q
    <2>1. odd * even = 2 * (odd * c)
        BY <1>1
    <2> QED
        BY <2>1
<1>3. PICK r \in Nat : c = n * r
    <2>1. c \in Nat
        OBVIOUS
    <2> QED
        BY <1>2, <2>1, OddFactor, Zenon
<1>4. r >= 1
    BY <1>3
<1>5. n * r >= n
    BY <1>4
<1> QED
    BY <1>3, <1>5

\* Two steps of a probe of size slots never meet: the difference of their
\* triangular numbers is half the product of an odd and an even number below
\* 2 * size.
LEMMA StepsApart ==
    ASSUME NEW k \in Keys, NEW size \in Nat \ {0}, PowerOfTwo(size),
           NEW m \in 0..(size - 1), NEW n \in 0..(size - 1), m < n
    PROVE  Slot(k, m, size) # Slot(k, n, size)
<1> SUFFICES ASSUME Slot(k, m, size) = Slot(k, n, size) PROVE FALSE
    OBVIOUS
<1>1. PICK x \in 1..(2 * size - 1), y \in 1..(2 * size - 1) :
          /\ x = n - m /\ y = n + m + 1
          /\ \/ x % 2 = 1 /\ y % 2 = 0
             \/ x % 2 = 0 /\ y % 2 = 1
    <2>1. n - m \in 1..(2 * size - 1) /\ n + m + 1 \in 1..(2 * size - 1)
        OBVIOUS
    <2>2. \/ (n - m) % 2 = 1 /\ (n + m + 1) % 2 = 0
          \/ (n - m) % 2 = 0 /\ (n + m + 1) % 2 = 1
        OBVIOUS
    <2> WITNESS n - m \in 1..(2 * size - 1), n + m + 1 \in 1..(2 * size - 1)
    <2> QED
        BY <2>2, Zenon
<1>2. PICK h \in Nat, tm \in Nat, tn \in Nat :
          /\ h = hash_func[k]
          /\ tm = Triangle(m) /\ 2 * tm = m * (m + 1)
          /\ tn = Triangle(n) /\ 2 * tn = n * (n + 1)
    <2>1. hash_func[k] \in Nat /\ m \in Nat /\ n \in Nat
        BY HashTableAssumption
    <2> QED
        BY <2>1, TriangleExact, Zenon
<1>3. x * y = 2 * (tn - tm)
    <2>1. x * y = n * (n + 1) - m * (m + 1)
        BY <1>1
    <2> QED
        BY <1>2, <2>1
<1>4. tm <= tn
    <2>1. x * y >= 0
        OBVIOUS
    <2> QED
        BY <1>3, <2>1
<1>5. (h + tm) % size = (h + tn) % size
    BY <1>2 DEF Slot, Triangle
<1>6. PICK q \in Nat : (h + tn) - (h + tm) = size * q
    <2>1. h + tm \in Nat /\ h + tn \in Nat /\ h + tm <= h + tn
        BY <1>4
    <2> QED
        BY <1>5, <2>1, SameRemainder, Zenon
<1>7. x * y = 2 * (size * q) /\ y * x = 2 * (size * q)
    BY <1>3, <1>6
<1>8. x \in Nat /\ y \in Nat
    OBVIOUS
<1> QED
    BY <1>1, <1>7, <1>8, NoCommonMultiple, Zenon

\* Triangular probing visits every slot of a table whose size is a power of two:
\* the comment in hash_table_grow, and what find_or_create relies on when it takes
\* a probe that found no end for a table without a free slot.
THEOREM ProbeVisitsEverySlot ==
    ASSUME NEW k \in Keys, NEW size \in Nat \ {0}, PowerOfTwo(size),
           NEW i \in 0..(size - 1)
    PROVE  \E n \in 0..(size - 1) : Slot(k, n, size) = i
<1> DEFINE S == 0..(size - 1)
           f == [n \in S |-> Slot(k, n, size)]
<1>1. f \in Injection(S, S)
    <2>1. f \in [S -> S]
        BY SlotInTable
    <2>2. ASSUME NEW m \in S, NEW n \in S, m # n
          PROVE  f[m] # f[n]
        BY <2>2, StepsApart
    <2> QED
        BY <2>1, <2>2 DEF Injection, IsInjective
<1>2. IsFiniteSet(S)
    BY FS_Interval
<1>3. f \in Surjection(S, S)
    BY <1>1, <1>2, FS_Injection
<1> QED
    BY <1>3 DEF Surjection
===============================================================================
