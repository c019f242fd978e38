---------------------------- MODULE PagingProofs ----------------------------
(***************************************************************************)
(* The page tables for every number of entries and all pages outside the   *)
(* recursive slot: the loader's indices are the processor's, the indices   *)
(* of a page tell it from every other, the tables form a tree, and so a    *)
(* call changes one translation only.                                      *)
(***************************************************************************)
EXTENDS Paging, TLAPS, FiniteSetTheorems, Integers

\* Division with remainder.
LEMMA DivMod ==
    ASSUME NEW a \in Nat, NEW b \in Nat \ {0}
    PROVE  /\ a \div b \in Nat /\ a % b \in 0 .. b - 1
           /\ a = b * (a \div b) + (a % b)
    BY Z3

\* Multiples of b are at least b apart.
LEMMA Smaller ==
    ASSUME NEW b \in Nat \ {0}, NEW q \in Int, NEW s \in Int, q < s
    PROVE  b * q + b <= b * s
<1>1. s - q - 1 \in Nat
    OBVIOUS
<1>2. b * (s - q - 1) >= 0
    BY <1>1, Z3
<1> QED
    BY <1>2, Z3

\* Quotient and remainder are unique.
LEMMA DivUnique ==
    ASSUME NEW a \in Nat, NEW b \in Nat \ {0}, NEW q \in Int, NEW r \in 0 .. b - 1, a = b * q + r
    PROVE  a \div b = q /\ a % b = r
<1> DEFINE s == a \div b
           t == a % b
<1>1. s \in Nat /\ t \in 0 .. b - 1 /\ a = b * s + t
    BY DivMod
<1> HIDE DEF s, t
<1>2. ~(q < s)
    BY <1>1, Smaller
<1>3. ~(s < q)
    BY <1>1, Smaller
<1>4. s = q
    BY <1>1, <1>2, <1>3
<1>5. t = r
    BY <1>1, <1>4
<1> QED
    BY <1>4, <1>5 DEF s, t

\* Dividing twice is dividing by the product.
LEMMA DivDiv ==
    ASSUME NEW a \in Nat, NEW b \in Nat \ {0}, NEW c \in Nat \ {0}
    PROVE  a \div (b * c) = (a \div b) \div c
<1> DEFINE s == a \div b
           r == a % b
           u == s \div c
           v == s % c
<1>1. s \in Nat /\ r \in 0 .. b - 1 /\ a = b * s + r
    BY DivMod
<1>2. u \in Nat /\ v \in 0 .. c - 1 /\ s = c * u + v
    BY <1>1, DivMod
<1> HIDE DEF s, r, u, v
<1>3. b * c \in Nat \ {0}
    BY Z3
<1>4. b * v + b <= b * c /\ b * v \in Nat
    BY <1>2, Smaller, Z3
<1>5. b * v + r \in 0 .. (b * c) - 1
    BY <1>1, <1>3, <1>4
<1>6. a = (b * c) * u + (b * v + r)
    BY <1>1, <1>2, Z3
<1>7. a \div (b * c) = u
    BY <1>2, <1>3, <1>5, <1>6, DivUnique
<1> QED
    BY <1>7 DEF s, u

\* Adding a multiple of the divisor.
LEMMA Multiples ==
    ASSUME NEW a \in Nat, NEW b \in Nat \ {0}, NEW n \in Nat
    PROVE  (a + b * n) \div b = (a \div b) + n /\ (a + b * n) % b = a % b
<1> DEFINE q == a \div b
           r == a % b
<1>1. q \in Nat /\ r \in 0 .. b - 1 /\ a = b * q + r
    BY DivMod
<1> HIDE DEF q, r
<1>2. b * n \in Nat /\ a + b * n = b * (q + n) + r
    BY <1>1, Z3
<1>3. (a + b * n) \div b = q + n /\ (a + b * n) % b = r
    BY <1>1, <1>2, DivUnique
<1> QED
    BY <1>3 DEF q, r

\* A page's index does not change when a multiple of the reach of a whole table
\* is added.
LEMMA Shifted ==
    ASSUME NEW a \in Nat, NEW b \in Nat \ {0}, NEW e \in Nat \ {0}, NEW n \in Nat
    PROVE  ((a + b * (e * n)) \div b) % e = (a \div b) % e
<1>1. e * n \in Nat /\ a \div b \in Nat
    BY DivMod, Z3
<1>2. (a + b * (e * n)) \div b = (a \div b) + e * n
    BY <1>1, Multiples
<1>3. ((a \div b) + e * n) % e = (a \div b) % e
    BY <1>1, Multiples, Zenon
<1> QED
    BY <1>2, <1>3, Zenon

-----------------------------------------------------------------------------
H == Entries \div 2
Square == Entries * Entries
Cube == Entries * Entries * Entries

\* The sizes of the tables and of the halves of the address space.
LEMMA Sizes ==
    /\ Entries \in Nat \ {0} /\ H \in Nat \ {0} /\ Entries = 2 * H
    /\ Square \in Nat \ {0} /\ Cube \in Nat \ {0}
    /\ Reach[1] = 1 /\ Reach[2] = Entries /\ Reach[3] = Square /\ Reach[4] = Cube
    /\ Half = H * Cube /\ Half \in Nat \ {0}
    /\ Spans \in Nat \ {0}
    /\ VirtualPages = HighHalf + Half
    /\ HighHalf = Cube * (Entries * (Spans - 1) + H)
    /\ HighHalf \in Nat /\ Half <= HighHalf
<1>1. Entries \in Nat \ {0} /\ Entries > 2 /\ Entries % 2 = 0 /\ Spans \in Nat \ {0}
    BY PagesAssumption
<1>2. H \in Nat /\ Entries = 2 * H + 0
    BY <1>1, DivMod DEF H
<1>3. H \in Nat \ {0} /\ Entries = 2 * H
    BY <1>1, <1>2
<1>4. Square \in Nat \ {0} /\ Cube = Square * Entries
    BY <1>1, Z3 DEF Square, Cube
<1>5. Cube \in Nat \ {0}
    BY <1>1, <1>4, Z3
<1>6. Reach[1] = 1 /\ Reach[2] = Entries /\ Reach[3] = Square /\ Reach[4] = Cube
    BY DEF Reach, Square, Cube
<1>7. Half = H * Cube
    BY <1>6 DEF Half, H
<1>8. Half \in Nat \ {0}
    BY <1>3, <1>5, <1>7, Z3
<1>9. VirtualPages = Spans * (2 * Half) /\ HighHalf = VirtualPages - Half
    BY DEF VirtualPages, HighHalf
<1>10. VirtualPages = HighHalf + Half
    BY <1>1, <1>8, <1>9, Z3
<1>11. HighHalf = Cube * (Entries * (Spans - 1) + H)
    BY <1>1, <1>3, <1>5, <1>7, <1>9, Z3
<1>12. Spans - 1 \in Nat /\ (Spans - 1) * (2 * Half) \in Nat
    BY <1>1, <1>8, Z3
<1>13. HighHalf = (Spans - 1) * (2 * Half) + Half
    BY <1>1, <1>8, <1>9, Z3
<1>14. HighHalf \in Nat /\ Half <= HighHalf
    BY <1>8, <1>12, <1>13
<1> QED
    BY <1>1, <1>3, <1>4, <1>5, <1>6, <1>7, <1>8, <1>10, <1>11, <1>14

\* What PagesAssumption says of a page.
LEMMA PageType ==
    ASSUME NEW p \in Pages
    PROVE  /\ p \in Nat /\ p < VirtualPages
           /\ p < Half \/ p >= HighHalf
           /\ HardwareIndex(p, 4) # Entries - 2
<1>1. p \in 0 .. VirtualPages - 1 /\ Canonical(p) /\ HardwareIndex(p, 4) # RecursiveSlot
    BY PagesAssumption
<1>2. VirtualPages \in Nat
    BY Sizes
<1> QED
    BY <1>1, <1>2 DEF Canonical, RecursiveSlot

\* The loader's indices are the processor's, in both halves and at every level.
LEMMA SameIndices ==
    ASSUME NEW p \in Pages, NEW level \in 1 .. 4
    PROVE  /\ mm_virtual_indices(p, level) = HardwareIndex(p, level)
           /\ HardwareIndex(p, level) \in 0 .. Entries - 1
<1> DEFINE a == p - HighHalf
           c == Entries * (Spans - 1) + H
<1>1. Reach[level] \in Nat \ {0}
    BY Sizes
<1>2. HardwareIndex(p, level) \in 0 .. Entries - 1
    BY <1>1, PageType, Sizes, DivMod DEF HardwareIndex
<1>3. CASE ~(p >= HighHalf)
    <2>1. (p \div Reach[level]) % Entries \in Nat
        BY <1>2, Sizes DEF HardwareIndex
    <2> QED
        BY <1>2, <1>3, <2>1 DEF mm_virtual_indices, HardwareIndex
<1>4. CASE p >= HighHalf
    <2>1. a \in Nat /\ a < Half /\ p = a + Cube * c /\ c \in Nat
        <3>1. Spans - 1 \in Nat /\ Entries * (Spans - 1) \in Nat
            BY Sizes, Z3
        <3> QED
            BY <1>4, <3>1, PageType, Sizes
    <2>2. mm_virtual_indices(p, level) =
             (IF level = 4 THEN H ELSE 0) + ((a \div Reach[level]) % Entries)
        BY <1>4 DEF mm_virtual_indices, H
    <2> HIDE DEF a
    <2>3. CASE level = 1
        <3>1. Square * c \in Nat /\ Cube * c = Entries * (Square * c)
            BY <2>1, Sizes, Z3 DEF Cube, Square
        <3>2. (p \div 1) % Entries = (a \div 1) % Entries
            <4>1. p = a + Entries * (Square * c)
                BY <2>1, <3>1, Zenon
            <4>2. p % Entries = a % Entries
                <5>1. a \in Nat /\ Square * c \in Nat /\ Entries \in Nat \ {0}
                    BY <2>1, <3>1, Sizes
                <5>2. (a + Entries * (Square * c)) % Entries = a % Entries
                    BY <5>1, Multiples, Zenon
                <5> QED
                    BY <4>1, <5>2, Zenon
            <4>3. p \div 1 = p /\ a \div 1 = a
                BY <2>1, PageType, Z3
            <4> QED
                BY <4>2, <4>3, Zenon
        <3>3. (a \div 1) % Entries \in Nat
            BY <2>1, Sizes, DivMod
        <3> QED
            BY <1>2, <2>2, <2>3, <3>2, <3>3, Sizes DEF HardwareIndex
    <2>4. CASE level = 2
        <3>1. Entries * c \in Nat /\ Cube * c = Entries * (Entries * (Entries * c))
            BY <2>1, Sizes, Z3 DEF Cube
        <3>2. (p \div Entries) % Entries = (a \div Entries) % Entries
            <4>1. p = a + Entries * (Entries * (Entries * c))
                BY <2>1, <3>1, Zenon
            <4>2. Entries \in Nat \ {0} /\ a \in Nat /\ Entries * c \in Nat
                BY <2>1, <3>1, Sizes
            <4> HIDE DEF c
            <4>3. ((a + Entries * (Entries * (Entries * c))) \div Entries) % Entries
                     = (a \div Entries) % Entries
                BY <4>2, Shifted, ZenonT(60)
            <4> QED
                BY <4>1, <4>3, Zenon
        <3>3. (a \div Entries) % Entries \in Nat
            BY <2>1, Sizes, DivMod
        <3> QED
            BY <1>2, <2>2, <2>4, <3>2, <3>3, Sizes DEF HardwareIndex
    <2>5. CASE level = 3
        <3>1. Cube * c = Square * (Entries * c)
            BY <2>1, Sizes, Z3 DEF Cube, Square
        <3>2. (p \div Square) % Entries = (a \div Square) % Entries
            <4>1. p = a + Square * (Entries * c)
                BY <2>1, <3>1, Zenon
            <4>2. Square \in Nat \ {0} /\ Entries \in Nat \ {0} /\ a \in Nat /\ c \in Nat
                BY <2>1, Sizes
            <4> HIDE DEF c
            <4>3. ((a + Square * (Entries * c)) \div Square) % Entries = (a \div Square) % Entries
                BY <4>2, Shifted, ZenonT(60)
            <4> QED
                BY <4>1, <4>3, Zenon
        <3>3. (a \div Square) % Entries \in Nat
            BY <2>1, Sizes, DivMod
        <3> QED
            BY <1>2, <2>2, <2>5, <3>2, <3>3, Sizes DEF HardwareIndex
    <2>6. CASE level = 4
        <3> DEFINE x == a \div Cube
        <3>1. x \in Nat /\ a % Cube \in 0 .. Cube - 1 /\ a = Cube * x + (a % Cube)
            BY <2>1, Sizes, DivMod
        <3>2. p \div Cube = x + c
            <4>1. Cube \in Nat \ {0}
                BY Sizes
            <4> QED
                BY <2>1, <4>1, Multiples, Zenon
        <3> HIDE DEF x
        <3>3. x < H
            <4>1. SUFFICES ASSUME H <= x PROVE FALSE
                BY <3>1, Sizes
            <4>2. Cube * H <= Cube * x
                BY <3>1, <4>1, Sizes, Z3
            <4>3. Half = Cube * H
                BY Sizes, Z3
            <4>4. Cube * H \in Nat /\ Cube * x \in Nat
                BY <3>1, Sizes, Z3
            <4> QED
                BY <2>1, <3>1, <4>2, <4>3, <4>4, Sizes
        <3>4. x + H \in 0 .. Entries - 1 /\ x \in 0 .. Entries - 1
            BY <3>1, <3>3, Sizes
        <3>5. (p \div Cube) % Entries = x + H
            <4>1. Spans - 1 \in Nat /\ Entries * (Spans - 1) \in Nat
                BY Sizes, Z3
            <4>2. p \div Cube = (x + H) + Entries * (Spans - 1)
                BY <3>1, <3>2, <4>1, Sizes
            <4>3. ((x + H) + Entries * (Spans - 1)) % Entries = (x + H) % Entries
                <5>1. x + H \in Nat /\ Entries \in Nat \ {0}
                    BY <3>4, Sizes
                <5> QED
                    BY <4>1, <5>1, Multiples, Zenon
            <4>4. /\ x + H \in Nat /\ x + H = Entries * 0 + (x + H) /\ x + H \in 0 .. Entries - 1
                  /\ Entries \in Nat \ {0} /\ 0 \in Int
                BY <3>4, Sizes
            <4>5. (x + H) % Entries = x + H
                BY <4>4, DivUnique, Zenon
            <4> QED
                BY <4>2, <4>3, <4>5
        <3>6. x % Entries = x
            <4>1. x = Entries * 0 + x /\ Entries \in Nat \ {0} /\ 0 \in Int
                BY <3>1, Sizes
            <4> QED
                BY <3>1, <3>4, <4>1, DivUnique, Zenon
        <3> QED
            BY <2>2, <2>6, <3>1, <3>5, <3>6, <1>2, Sizes DEF HardwareIndex, x
    <2> QED
        BY <2>3, <2>4, <2>5, <2>6
<1> QED
    BY <1>2, <1>3, <1>4

\* No multiple of d but 0 lies between -d and d.
LEMMA NoMultiple ==
    ASSUME NEW d \in Nat \ {0}, NEW k \in Int, -d < d * k, d * k < d
    PROVE  k = 0
<1>1. ~(0 < k)
    BY Smaller, Z3
<1>2. ~(k < 0)
    BY Smaller, Z3
<1> QED
    BY <1>1, <1>2

\* The four indices of a page add up to the page, up to a multiple of the reach
\* of the tables.
LEMMA Digits ==
    ASSUME NEW p \in Pages
    PROVE  \E n \in Nat :
              p = Cube * (Entries * n) + Cube * HardwareIndex(p, 4) + Square * HardwareIndex(p, 3)
                  + Entries * HardwareIndex(p, 2) + HardwareIndex(p, 1)
<1> DEFINE p1 == p \div Entries
           p2 == p1 \div Entries
           p3 == p2 \div Entries
           p4 == p3 \div Entries
<1>1. Entries \in Nat \ {0} /\ p \in Nat /\ Square \in Nat \ {0}
    BY Sizes, PageType
<1>2. p1 \in Nat /\ p = Entries * p1 + (p % Entries)
    BY <1>1, DivMod
<1>3. p2 \in Nat /\ p1 = Entries * p2 + (p1 % Entries)
    BY <1>1, <1>2, DivMod
<1>4. p3 \in Nat /\ p2 = Entries * p3 + (p2 % Entries)
    BY <1>1, <1>3, DivMod
<1>5. p4 \in Nat /\ p3 = Entries * p4 + (p3 % Entries)
    BY <1>1, <1>4, DivMod
<1>6. p \div Square = p2
    BY <1>1, DivDiv, Zenon DEF Square
<1>7. p \div Cube = p3
    <2>1. Cube = Square * Entries
        BY DEF Cube, Square
    <2>2. p \div (Square * Entries) = (p \div Square) \div Entries
        BY <1>1, DivDiv, Zenon
    <2> QED
        BY <1>6, <2>1, <2>2, Zenon
<1>8. /\ HardwareIndex(p, 1) = p % Entries /\ HardwareIndex(p, 2) = p1 % Entries
      /\ HardwareIndex(p, 3) = p2 % Entries /\ HardwareIndex(p, 4) = p3 % Entries
    <2>1. p \div 1 = p
        BY <1>1, Z3
    <2>2. Reach[1] = 1 /\ Reach[2] = Entries /\ Reach[3] = Square /\ Reach[4] = Cube
        BY Sizes
    <2> QED
        BY <1>6, <1>7, <2>1, <2>2, Zenon DEF HardwareIndex
<1>9. /\ p % Entries \in Nat /\ p1 % Entries \in Nat /\ p2 % Entries \in Nat
      /\ p3 % Entries \in Nat
    BY <1>1, <1>2, <1>3, <1>4, DivMod
<1> DEFINE i1 == HardwareIndex(p, 1)
           i2 == HardwareIndex(p, 2)
           i3 == HardwareIndex(p, 3)
           i4 == HardwareIndex(p, 4)
<1>10. /\ p = Entries * p1 + i1 /\ p1 = Entries * p2 + i2
       /\ p2 = Entries * p3 + i3 /\ p3 = Entries * p4 + i4
       /\ i1 \in Nat /\ i2 \in Nat /\ i3 \in Nat /\ i4 \in Nat
    BY <1>2, <1>3, <1>4, <1>5, <1>8, <1>9, Zenon
<1> HIDE DEF p1, p2, p3, p4, i1, i2, i3, i4
<1>11. p = Cube * (Entries * p4) + Cube * i4 + Square * i3 + Entries * i2 + i1
    <2>1. p = Square * p2 + Entries * i2 + i1
        BY <1>1, <1>3, <1>10, Z3 DEF Square
    <2>2. Square * p2 = Cube * p3 + Square * i3
        BY <1>1, <1>3, <1>4, <1>10, Z3 DEF Square, Cube
    <2>3. Cube * p3 = Cube * (Entries * p4) + Cube * i4
        BY <1>1, <1>4, <1>5, <1>10, Z3 DEF Cube
    <2> QED
        BY <2>1, <2>2, <2>3, Zenon
<1> QED
    BY <1>5, <1>11, Zenon DEF i1, i2, i3, i4

\* No two pages have the same indices at all levels.
LEMMA Distinct ==
    ASSUME NEW p \in Pages, NEW q \in Pages,
           \A level \in 1 .. 4 : HardwareIndex(p, level) = HardwareIndex(q, level)
    PROVE  p = q
<1> DEFINE d == 2 * Half
<1>1. PICK m \in Nat :
         p = Cube * (Entries * m) + Cube * HardwareIndex(p, 4) + Square * HardwareIndex(p, 3)
             + Entries * HardwareIndex(p, 2) + HardwareIndex(p, 1)
    BY Digits
<1>2. PICK n \in Nat :
         q = Cube * (Entries * n) + Cube * HardwareIndex(q, 4) + Square * HardwareIndex(q, 3)
             + Entries * HardwareIndex(q, 2) + HardwareIndex(q, 1)
    BY Digits
<1>3. /\ HardwareIndex(p, 1) \in Nat /\ HardwareIndex(p, 2) \in Nat
      /\ HardwareIndex(p, 3) \in Nat /\ HardwareIndex(p, 4) \in Nat
    BY SameIndices, Sizes
<1>4. /\ HardwareIndex(p, 1) = HardwareIndex(q, 1) /\ HardwareIndex(p, 2) = HardwareIndex(q, 2)
      /\ HardwareIndex(p, 3) = HardwareIndex(q, 3) /\ HardwareIndex(p, 4) = HardwareIndex(q, 4)
    OBVIOUS
<1>5. d \in Nat \ {0} /\ Cube * (Entries * m) = d * m /\ Cube * (Entries * n) = d * n
    BY Sizes, Z3
<1>6. /\ Cube * HardwareIndex(p, 4) \in Nat /\ Square * HardwareIndex(p, 3) \in Nat
      /\ Entries * HardwareIndex(p, 2) \in Nat /\ d * m \in Nat /\ d * n \in Nat
    BY <1>3, <1>5, Sizes, Z3
<1>7. p - q = d * m - d * n
    BY <1>1, <1>2, <1>3, <1>4, <1>5, <1>6
<1>8. p \in Nat /\ q \in Nat /\ Half \in Nat \ {0} /\ d = Half + Half
    BY PageType, Sizes
<1>9. Spans - 1 \in Nat /\ HighHalf = d * (Spans - 1) + Half /\ VirtualPages = HighHalf + Half
    BY Sizes, Z3
<1>10. \A k \in Int : d * k \in Int
    BY <1>5, Z3
<1> HIDE DEF d
<1>11. d * (m - n) = d * m - d * n
    BY <1>5, Z3
<1>12. CASE (p < Half /\ q < Half) \/ (p >= HighHalf /\ q >= HighHalf)
    <2>1. p < VirtualPages /\ q < VirtualPages /\ d * (Spans - 1) \in Int
        BY PageType, <1>9, <1>10
    <2>2. -d < p - q /\ p - q < d
        BY <1>12, <1>8, <1>9, <2>1
    <2>3. m - n = 0
        BY <1>5, <1>7, <1>11, <2>2, NoMultiple
    <2> QED
        BY <1>6, <1>7, <1>8, <2>3
<1>13. ASSUME NEW a \in Nat, NEW b \in Nat, NEW j \in Int, a < Half, b >= HighHalf,
              b < VirtualPages, b - a = d * j
       PROVE  FALSE
    <2> DEFINE k == j - (Spans - 1)
    <2>1. k \in Int /\ d * k = d * j - d * (Spans - 1)
        BY <1>5, <1>9, Z3
    <2>2. d * j \in Int /\ d * (Spans - 1) \in Int /\ d * k \in Int
        BY <1>9, <1>10, <2>1
    <2>3. d * k = (b - (HighHalf - Half)) - a
        BY <1>8, <1>9, <1>13, <2>1, <2>2
    <2>4. 0 < d * k /\ d * k < d
        BY <1>8, <1>9, <1>13, <2>2, <2>3
    <2>5. k = 0
        BY <1>5, <2>1, <2>2, <2>4, NoMultiple
    <2> QED
        BY <1>5, <2>4, <2>5, Z3
<1>14. CASE p < Half /\ q >= HighHalf
    <2>1. q - p = d * (n - m) /\ n - m \in Int
        <3>1. d * (n - m) = d * n - d * m
            BY <1>5, Z3
        <3> QED
            BY <1>6, <1>7, <1>8, <3>1
    <2> QED
        BY <1>8, <1>13, <1>14, <2>1, PageType
<1>15. CASE q < Half /\ p >= HighHalf
    <2>1. p - q = d * (m - n) /\ m - n \in Int
        BY <1>7, <1>11
    <2> QED
        BY <1>8, <1>13, <1>15, <2>1, PageType
<1> QED
    BY <1>12, <1>14, <1>15, PageType

-----------------------------------------------------------------------------
Indices    == 0 .. Entries - 1
TableFlags == {"PRESENT", "WRITE"}
Slots      == {Absent} \cup
                 [present : {TRUE}, frame : Frames \cup Nat, flags : Flags \cup {TableFlags}]

\* Entry x of table t leads to another table.  L gives the levels of the tables.
Leads(T, L, t, x) == L[t] > 1 /\ <<t, x>> # <<0, RecursiveSlot>> /\ T[t][x].present

\* The n tables T have the levels L: an entry that leads to a table leads to one
\* of the next level, and no other entry leads there.
Tree(T, n, L) ==
    /\ n \in Nat \ {0} /\ L \in [0 .. n - 1 -> 1 .. 4] /\ L[0] = 4
    /\ T \in [0 .. n - 1 -> [Indices -> Slots]]
    /\ \A t \in 0 .. n - 1, x \in Indices : Leads(T, L, t, x) =>
          T[t][x].frame \in 0 .. n - 1 /\ L[T[t][x].frame] = L[t] - 1
    /\ \A t, u \in 0 .. n - 1, x, y \in Indices :
          /\ Leads(T, L, t, x) /\ Leads(T, L, u, y)
          /\ T[t][x].frame = T[u][y].frame
          => t = u /\ x = y

\* An entry is absent or present, and a new table holds absent ones.
LEMMA SlotCases ==
    ASSUME NEW e \in Slots
    PROVE  /\ e = Absent \/ e.present = TRUE
           /\ Absent.present = FALSE /\ Absent \in Slots
           /\ Zeroed \in [Indices -> Slots]
           /\ \A x \in Indices : Zeroed[x] = Absent
<1>1. e = Absent \/ e.present = TRUE
    BY DEF Slots, Entry
<1>2. Absent.present = FALSE
    BY DEF Absent
<1>3. Absent \in Slots
    BY DEF Slots
<1> QED
    BY <1>1, <1>2, <1>3 DEF Zeroed, Indices

\* The fields of a present entry.
LEMMA EntryFields ==
    ASSUME NEW f \in Frames \cup Nat, NEW a \in Flags \cup {TableFlags}
    PROVE  /\ Entry(f, a) \in Slots /\ Entry(f, a).present = TRUE
           /\ Entry(f, a).frame = f
<1>1. Entry(f, a) \in Slots
    BY DEF Slots, Entry
<1>2. Entry(f, a).present = TRUE /\ Entry(f, a).frame = f
    BY DEF Entry
<1> QED
    BY <1>1, <1>2

\* What loader_paging_map does to the tables when an entry is not present: a
\* new table of zeroes, one entry that leads to it, and nothing else.
LEMMA NewTable ==
    ASSUME NEW T, NEW n, NEW L, Tree(T, n, L),
           NEW t \in 0 .. n - 1, NEW x \in Indices, ~T[t][x].present
    PROVE  /\ Link(T, t, x) \in [0 .. n -> [Indices -> Slots]]
           /\ Link(T, t, x)[t][x] = Entry(n, TableFlags)
           /\ Link(T, t, x)[n] = Zeroed
           /\ \A s \in 0 .. n - 1 : s # t => Link(T, t, x)[s] = T[s]
           /\ \A y \in Indices : y # x => Link(T, t, x)[t][y] = T[t][y]
<1> DEFINE W == WithTable(T)
<1>1. n \in Nat \ {0} /\ T \in [0 .. n - 1 -> [Indices -> Slots]] /\ DOMAIN T = 0 .. n - 1
    BY DEF Tree
<1>2. Cardinality(DOMAIN T) = n
    <2>1. Cardinality(0 .. n - 1) = (n - 1) - 0 + 1
        <3>1. 0 <= n - 1 /\ 0 \in Int /\ n - 1 \in Int
            BY <1>1
        <3> QED
            BY <3>1, FS_Interval
    <2> QED
        BY <1>1, <2>1
<1>3. W = [s \in 0 .. n |-> IF s \in 0 .. n - 1 THEN T[s] ELSE Zeroed]
    BY <1>1, <1>2 DEF WithTable
<1>4. W \in [0 .. n -> [Indices -> Slots]] /\ W[n] = Zeroed
    <2>1. Zeroed \in [Indices -> Slots]
        BY DEF Slots, Zeroed, Indices
    <2>2. n \notin 0 .. n - 1 /\ n \in 0 .. n
        BY <1>1
    <2> QED
        BY <1>1, <1>3, <2>1, <2>2
<1>5. \A s \in 0 .. n - 1 : W[s] = T[s] /\ s \in 0 .. n /\ s # n
    BY <1>1, <1>3
<1>6. Link(T, t, x) = [W EXCEPT ![t][x] = Entry(n, TableFlags)]
    BY <1>2 DEF Link, TableFlags
<1>7. Entry(n, TableFlags) \in Slots
    BY <1>1, EntryFields
<1>8. W[t] = T[t] /\ t \in 0 .. n /\ n \in 0 .. n /\ t # n
    BY <1>1, <1>5
<1> HIDE DEF W
<1> QED
    BY <1>4, <1>5, <1>6, <1>7, <1>8

\* Making the table an entry leads to keeps the tables a tree.
LEMMA LinkKeepsTree ==
    ASSUME NEW T, NEW n, NEW L, Tree(T, n, L),
           NEW t \in 0 .. n - 1, NEW x \in Indices, L[t] > 1, <<t, x>> # <<0, RecursiveSlot>>,
           ~T[t][x].present
    PROVE  Tree(Link(T, t, x), n + 1, [s \in 0 .. n |-> IF s = n THEN L[t] - 1 ELSE L[s]])
<1> DEFINE U == Link(T, t, x)
           M == [s \in 0 .. n |-> IF s = n THEN L[t] - 1 ELSE L[s]]
<1>1. /\ n \in Nat \ {0} /\ L \in [0 .. n - 1 -> 1 .. 4] /\ L[0] = 4
      /\ T \in [0 .. n - 1 -> [Indices -> Slots]]
    BY DEF Tree
<1>2. /\ U \in [0 .. n -> [Indices -> Slots]] /\ U[t][x] = Entry(n, TableFlags)
      /\ U[n] = Zeroed
      /\ \A s \in 0 .. n - 1 : s # t => U[s] = T[s]
      /\ \A y \in Indices : y # x => U[t][y] = T[t][y]
    BY NewTable
<1>3. /\ (n + 1) - 1 = n /\ 0 \in 0 .. n - 1 /\ n \in 0 .. n /\ n \notin 0 .. n - 1
      /\ 0 .. n - 1 \subseteq 0 .. n /\ \A s \in 0 .. n : s = n \/ s \in 0 .. n - 1
    BY <1>1
<1>4. /\ M[n] = L[t] - 1 /\ \A s \in 0 .. n - 1 : M[s] = L[s]
      /\ L[t] - 1 \in 1 .. 4
    BY <1>1, <1>3
<1>5. M \in [0 .. n -> 1 .. 4] /\ M[0] = 4
    BY <1>1, <1>3, <1>4
<1>6. U[t][x].present = TRUE /\ U[t][x].frame = n
    <2>1. Entry(n, TableFlags).present = TRUE /\ Entry(n, TableFlags).frame = n
        BY <1>1, EntryFields, Zenon
    <2> QED
        BY <1>2, <2>1
<1> HIDE DEF U, M
<1>7. ASSUME NEW s \in 0 .. n, NEW y \in Indices, Leads(U, M, s, y)
      PROVE  \/ s = t /\ y = x
             \/ s \in 0 .. n - 1 /\ Leads(T, L, s, y) /\ U[s][y] = T[s][y]
    <2>1. s # n
        BY <1>2, <1>7, SlotCases DEF Leads
    <2>2. s \in 0 .. n - 1
        BY <1>3, <2>1
    <2>3. CASE s = t /\ y = x
        BY <2>3
    <2>4. CASE ~(s = t /\ y = x)
        <3>1. U[s][y] = T[s][y]
            BY <1>2, <2>2, <2>4
        <3> QED
            BY <1>4, <1>7, <2>2, <3>1 DEF Leads
    <2> QED
        BY <2>3, <2>4
<1>8. ASSUME NEW s \in 0 .. n, NEW y \in Indices, Leads(U, M, s, y)
      PROVE  U[s][y].frame \in 0 .. n /\ M[U[s][y].frame] = M[s] - 1
    <2>1. CASE s = t /\ y = x
        BY <1>3, <1>4, <1>6, <2>1
    <2>2. CASE s \in 0 .. n - 1 /\ Leads(T, L, s, y) /\ U[s][y] = T[s][y]
        <3>1. T[s][y].frame \in 0 .. n - 1 /\ L[T[s][y].frame] = L[s] - 1
            BY <2>2 DEF Tree
        <3> QED
            BY <1>3, <1>4, <2>2, <3>1
    <2> QED
        BY <1>7, <1>8, <2>1, <2>2
<1>9. ASSUME NEW s \in 0 .. n, NEW y \in Indices, NEW u \in 0 .. n, NEW z \in Indices,
             Leads(U, M, s, y), Leads(U, M, u, z), U[s][y].frame = U[u][z].frame
      PROVE  s = u /\ y = z
    <2>1. \A r \in 0 .. n - 1, w \in Indices :
             Leads(T, L, r, w) => T[r][w].frame \in 0 .. n - 1
        BY DEF Tree
    <2>2. CASE s = t /\ y = x
        BY <1>3, <1>6, <1>7, <1>9, <2>1, <2>2
    <2>3. CASE u = t /\ z = x
        BY <1>3, <1>6, <1>7, <1>9, <2>1, <2>3
    <2>4. CASE ~(s = t /\ y = x) /\ ~(u = t /\ z = x)
        <3>1. /\ s \in 0 .. n - 1 /\ Leads(T, L, s, y) /\ U[s][y] = T[s][y]
              /\ u \in 0 .. n - 1 /\ Leads(T, L, u, z) /\ U[u][z] = T[u][z]
            BY <1>7, <1>9, <2>4
        <3> QED
            BY <1>9, <3>1 DEF Tree
    <2> QED
        BY <2>2, <2>3, <2>4
<1>10. n + 1 \in Nat \ {0}
    BY <1>1
<1>11. Tree(U, n + 1, M)
    BY <1>2, <1>3, <1>5, <1>8, <1>9, <1>10, Zenon DEF Tree
<1> QED
    BY <1>11 DEF U, M

\* It changes no translation, for the new table is zeroed.
LEMMA LinkKeepsWalks ==
    ASSUME NEW T, NEW n, NEW L, Tree(T, n, L),
           NEW t \in 0 .. n - 1, NEW x \in Indices, L[t] > 1, <<t, x>> # <<0, RecursiveSlot>>,
           ~T[t][x].present, NEW q \in Pages
    PROVE  WalkIn(Link(T, t, x), q) = WalkIn(T, q)
<1> DEFINE U == Link(T, t, x)
           Same(e, f, l) ==
              \/ e = Absent /\ f = Entry(n, TableFlags)
              \/ f = Absent /\ e = Absent
              \/ f = e /\ e.present /\ e.frame \in 0 .. n - 1 /\ L[e.frame] = l
<1>1. /\ n \in Nat \ {0} /\ L \in [0 .. n - 1 -> 1 .. 4] /\ L[0] = 4
      /\ T \in [0 .. n - 1 -> [Indices -> Slots]]
    BY DEF Tree
<1>2. /\ U \in [0 .. n -> [Indices -> Slots]] /\ U[t][x] = Entry(n, TableFlags)
      /\ U[n] = Zeroed
      /\ \A s \in 0 .. n - 1 : s # t => U[s] = T[s]
      /\ \A y \in Indices : y # x => U[t][y] = T[t][y]
    BY NewTable
<1>3. Entry(n, TableFlags).present = TRUE /\ Entry(n, TableFlags).frame = n
    BY <1>1, EntryFields, Zenon
<1>4. Absent.present = FALSE /\ \A y \in Indices : Zeroed[y] = Absent
    BY DEF Absent, Zeroed, Indices
<1>5. \A l \in 1 .. 4 : HardwareIndex(q, l) \in Indices
    BY SameIndices DEF Indices
<1> HIDE DEF U
<1>6. ASSUME NEW s \in 0 .. n - 1, NEW y \in Indices, L[s] > 1, <<s, y>> # <<0, RecursiveSlot>>
      PROVE  Same(T[s][y], U[s][y], L[s] - 1)
    <2>1. T[s][y] \in Slots
        BY <1>1
    <2>2. CASE s = t /\ y = x
        BY <1>2, <2>1, <2>2, SlotCases
    <2>3. CASE ~(s = t /\ y = x)
        <3>1. U[s][y] = T[s][y]
            BY <1>2, <2>3
        <3>2. CASE T[s][y] = Absent
            BY <3>1, <3>2
        <3>3. CASE T[s][y].present
            <4>1. Leads(T, L, s, y)
                BY <1>6, <3>3 DEF Leads
            <4>2. T[s][y].frame \in 0 .. n - 1 /\ L[T[s][y].frame] = L[s] - 1
                BY <4>1 DEF Tree
            <4> QED
                BY <3>1, <3>3, <4>2
        <3> QED
            BY <2>1, <3>2, <3>3, SlotCases
    <2> QED
        BY <2>2, <2>3
<1>7. ASSUME NEW e, NEW f, NEW l \in 2 .. 3, Same(e, f, l)
      PROVE  Same(Below(T, e, q, l), Below(U, f, q, l), l - 1)
    <2>1. CASE e = Absent /\ f = Entry(n, TableFlags)
        <3>1. Below(T, e, q, l) = Absent
            BY <1>4, <2>1 DEF Below
        <3>2. Below(U, f, q, l) = Absent
            BY <1>2, <1>3, <1>4, <1>5, <2>1 DEF Below
        <3> QED
            BY <3>1, <3>2
    <2>2. CASE f = Absent /\ e = Absent
        BY <1>4, <2>2 DEF Below
    <2>3. CASE f = e /\ e.present /\ e.frame \in 0 .. n - 1 /\ L[e.frame] = l
        <3>1. HardwareIndex(q, l) \in Indices /\ e.frame # 0 /\ L[e.frame] > 1
            BY <1>1, <1>5, <2>3
        <3>2. Same(T[e.frame][HardwareIndex(q, l)], U[e.frame][HardwareIndex(q, l)], l - 1)
            BY <1>6, <2>3, <3>1
        <3> QED
            BY <2>3, <3>2 DEF Below
    <2> QED
        BY <1>7, <2>1, <2>2, <2>3
<1>8. ASSUME NEW e, NEW f, Same(e, f, 1)
      PROVE  Below(U, f, q, 1) = Below(T, e, q, 1)
    <2>1. CASE e = Absent /\ f = Entry(n, TableFlags)
        <3>1. Below(T, e, q, 1) = Absent
            BY <1>4, <2>1 DEF Below
        <3>2. Below(U, f, q, 1) = Absent
            BY <1>2, <1>3, <1>4, <1>5, <2>1 DEF Below
        <3> QED
            BY <3>1, <3>2
    <2>2. CASE f = Absent /\ e = Absent
        BY <1>4, <2>2 DEF Below
    <2>3. CASE f = e /\ e.present /\ e.frame \in 0 .. n - 1 /\ L[e.frame] = 1
        <3>1. U[e.frame] = T[e.frame]
            BY <1>2, <2>3
        <3> QED
            BY <2>3, <3>1 DEF Below
    <2> QED
        BY <1>8, <2>1, <2>2, <2>3
<1> DEFINE e4 == T[0][HardwareIndex(q, 4)]
           e3 == Below(T, e4, q, 3)
           e2 == Below(T, e3, q, 2)
           f4 == U[0][HardwareIndex(q, 4)]
           f3 == Below(U, f4, q, 3)
           f2 == Below(U, f3, q, 2)
<1>9. Same(e4, f4, 3)
    <2>1. 0 \in 0 .. n - 1 /\ L[0] > 1 /\ L[0] - 1 = 3 /\ HardwareIndex(q, 4) \in Indices
        BY <1>1, <1>5
    <2>2. <<0, HardwareIndex(q, 4)>> # <<0, RecursiveSlot>>
        BY PageType DEF RecursiveSlot
    <2>3. Same(e4, f4, L[0] - 1)
        BY <1>6, <2>1, <2>2
    <2> QED
        BY <2>1, <2>3
<1> HIDE DEF Same
<1>10. Same(e3, f3, 2)
    <2>1. 3 \in 2 .. 3 /\ 3 - 1 = 2
        OBVIOUS
    <2>2. Same(e3, f3, 3 - 1)
        BY <1>7, <1>9, <2>1, Zenon
    <2> QED
        BY <2>1, <2>2
<1>11. Same(e2, f2, 1)
    <2>1. 2 \in 2 .. 3 /\ 2 - 1 = 1
        OBVIOUS
    <2>2. Same(e2, f2, 2 - 1)
        BY <1>7, <1>10, <2>1, Zenon
    <2> QED
        BY <2>1, <2>2
<1>12. Below(U, f2, q, 1) = Below(T, e2, q, 1)
    BY <1>8, <1>11, Zenon
<1> QED
    BY <1>12, Zenon DEF WalkIn, U

\* U, with its levels, has all that T has and translates every page alike.
Extends(T, n, L, U, m, M) ==
    /\ Tree(U, m, M)
    /\ \A s \in 0 .. n - 1 : s \in 0 .. m - 1 /\ M[s] = L[s]
    /\ \A s \in 0 .. n - 1, y \in Indices : T[s][y].present => U[s][y] = T[s][y]
    /\ \A q \in Pages : WalkIn(U, q) = WalkIn(T, q)

\* Entry x of table t is one that leads to a table, or may.
Downward(T, n, L, t, x) ==
    /\ Tree(T, n, L) /\ t \in 0 .. n - 1 /\ x \in Indices /\ L[t] > 1
    /\ <<t, x>> # <<0, RecursiveSlot>>

\* The tables U that extend T have a table below entry x of table t.
Joined(T, n, L, t, x, U, m, M) ==
    /\ Extends(T, n, L, U, m, M)
    /\ U[t][x].present /\ U[t][x].frame \in 0 .. m - 1
    /\ M[U[t][x].frame] = L[t] - 1

\* One turn of loader_paging_map: from a table to one of the next level.
LEMMA OneLevel ==
    ASSUME NEW T, NEW n, NEW L, NEW t, NEW x, Downward(T, n, L, t, x)
    PROVE  \E m, M : Joined(T, n, L, t, x, Link(T, t, x), m, M)
<1> DEFINE U == Link(T, t, x)
<1>0. /\ Tree(T, n, L) /\ t \in 0 .. n - 1 /\ x \in Indices /\ L[t] > 1
      /\ <<t, x>> # <<0, RecursiveSlot>>
    BY DEF Downward
<1>1. /\ n \in Nat \ {0} /\ L \in [0 .. n - 1 -> 1 .. 4]
      /\ T \in [0 .. n - 1 -> [Indices -> Slots]]
    BY <1>0 DEF Tree
<1>2. ASSUME NEW m, NEW M, Extends(T, n, L, U, m, M), U[t][x].present
      PROVE  U[t][x].frame \in 0 .. m - 1 /\ M[U[t][x].frame] = L[t] - 1
    <2>1. t \in 0 .. m - 1 /\ M[t] = L[t] /\ Tree(U, m, M)
        BY <1>0, <1>2 DEF Extends
    <2>2. Leads(U, M, t, x)
        BY <1>0, <1>2, <2>1 DEF Leads
    <2> QED
        BY <1>0, <2>1, <2>2, Zenon DEF Tree
<1>3. CASE T[t][x].present
    <2>1. U = T
        BY <1>3 DEF Link
    <2>2. Extends(T, n, L, U, n, L)
        BY <1>0, <2>1, Zenon DEF Extends
    <2>3. U[t][x].present
        BY <1>3, <2>1
    <2>4. U[t][x].frame \in 0 .. n - 1 /\ L[U[t][x].frame] = L[t] - 1
        BY <1>2, <2>2, <2>3, Zenon
    <2> QED
        BY <2>2, <2>3, <2>4, Zenon DEF Joined
<1>4. CASE ~T[t][x].present
    <2> DEFINE M == [s \in 0 .. n |-> IF s = n THEN L[t] - 1 ELSE L[s]]
    <2>1. Tree(U, n + 1, M)
        BY <1>0, <1>4, LinkKeepsTree
    <2>2. \A q \in Pages : WalkIn(U, q) = WalkIn(T, q)
        BY <1>0, <1>4, LinkKeepsWalks
    <2>3. /\ U[t][x] = Entry(n, TableFlags)
          /\ \A s \in 0 .. n - 1 : s # t => U[s] = T[s]
          /\ \A y \in Indices : y # x => U[t][y] = T[t][y]
        BY <1>0, <1>4, NewTable
    <2>4. U[t][x].present
        <3>1. Entry(n, TableFlags).present = TRUE
            BY <1>1, EntryFields, Zenon
        <3> QED
            BY <2>3, <3>1
    <2>5. \A s \in 0 .. n - 1 : s \in 0 .. (n + 1) - 1 /\ M[s] = L[s]
        BY <1>1
    <2>6. \A s \in 0 .. n - 1, y \in Indices : T[s][y].present => U[s][y] = T[s][y]
        BY <1>0, <1>4, <2>3
    <2> HIDE DEF U, M
    <2>7. Extends(T, n, L, U, n + 1, M)
        BY <2>1, <2>2, <2>5, <2>6, Zenon DEF Extends
    <2>8. U[t][x].frame \in 0 .. (n + 1) - 1 /\ M[U[t][x].frame] = L[t] - 1
        BY <1>2, <2>4, <2>7, Zenon
    <2> QED
        BY <2>4, <2>7, <2>8, Zenon DEF Joined, U
<1> QED
    BY <1>3, <1>4

\* Extending tables that extend T extends T.
LEMMA ExtendsTransitive ==
    ASSUME NEW T, NEW n, NEW L, NEW U, NEW m, NEW M, NEW V, NEW k, NEW K,
           Tree(T, n, L), Extends(T, n, L, U, m, M), Extends(U, m, M, V, k, K)
    PROVE  Extends(T, n, L, V, k, K)
<1>1. \A s \in 0 .. n - 1 : s \in 0 .. k - 1 /\ K[s] = L[s]
    BY Zenon DEF Extends
<1>2. \A s \in 0 .. n - 1, y \in Indices : T[s][y].present => V[s][y] = T[s][y]
    <2> SUFFICES ASSUME NEW s \in 0 .. n - 1, NEW y \in Indices, T[s][y].present
                 PROVE  V[s][y] = T[s][y]
        OBVIOUS
    <2>1. s \in 0 .. m - 1 /\ U[s][y] = T[s][y]
        BY Zenon DEF Extends
    <2>2. U[s][y].present
        BY <2>1, Zenon
    <2> QED
        BY <2>1, <2>2, Zenon DEF Extends
<1>3. Tree(V, k, K) /\ \A q \in Pages : WalkIn(V, q) = WalkIn(T, q)
    BY Zenon DEF Extends
<1> QED
    BY <1>1, <1>2, <1>3, Zenon DEF Extends

\* Entry x of table t leads to table u.
To(T, t, x, u) == T[t][x].present /\ T[t][x].frame = u

\* The tables of the walk of page p.
Path(T, n, L, p, a3, a2, a1) ==
    /\ a3 \in 0 .. n - 1 /\ a2 \in 0 .. n - 1 /\ a1 \in 0 .. n - 1
    /\ L[a3] = 3 /\ L[a2] = 2 /\ L[a1] = 1
    /\ To(T, 0, HardwareIndex(p, 4), a3)
    /\ To(T, a3, HardwareIndex(p, 3), a2)
    /\ To(T, a2, HardwareIndex(p, 2), a1)

\* The three turns of loader_paging_map lead to the last table of the page's walk
\* and, wherever they stop, change no translation.
LEMMA DescentKeeps ==
    ASSUME NEW n, NEW L, Tree(tables, n, L), NEW p \in Pages
    PROVE  /\ \A level \in 1 .. 4 :
                 \E m, M : Extends(tables, n, L, Descent(p)[level].tables, m, M)
           /\ \E m, M, a3, a2 :
                 /\ Extends(tables, n, L, Descent(p)[1].tables, m, M)
                 /\ Path(Descent(p)[1].tables, m, M, p, a3, a2, Descent(p)[1].at)
<1> DEFINE i4 == HardwareIndex(p, 4)
           i3 == HardwareIndex(p, 3)
           i2 == HardwareIndex(p, 2)
           T3 == Link(tables, 0, i4)
           a3 == T3[0][i4].frame
           T2 == Link(T3, a3, i3)
           a2 == T2[a3][i3].frame
           T1 == Link(T2, a2, i2)
           a1 == T1[a2][i2].frame
<1>1. /\ i4 \in Indices /\ i3 \in Indices /\ i2 \in Indices
      /\ mm_virtual_indices(p, 4) = i4 /\ mm_virtual_indices(p, 3) = i3
      /\ mm_virtual_indices(p, 2) = i2
    BY SameIndices DEF Indices
<1>2. /\ Descent(p)[4].tables = tables /\ Descent(p)[3].tables = T3
      /\ Descent(p)[2].tables = T2 /\ Descent(p)[1].tables = T1 /\ Descent(p)[1].at = a1
    BY <1>1 DEF Descent, Descend
<1> HIDE DEF i4, i3, i2
<1>3. 0 \in 0 .. n - 1 /\ L[0] = 4
    BY DEF Tree
<1>4. PICK m3, M3 : Joined(tables, n, L, 0, i4, T3, m3, M3)
    <2>1. <<0, i4>> # <<0, RecursiveSlot>>
        BY PageType DEF RecursiveSlot, i4
    <2>2. L[0] > 1
        BY <1>3
    <2>3. Downward(tables, n, L, 0, i4)
        BY <1>1, <1>3, <2>1, <2>2, Zenon DEF Downward
    <2> QED
        BY <2>3, OneLevel, Zenon
<1>5. /\ Extends(tables, n, L, T3, m3, M3) /\ T3[0][i4].present /\ a3 \in 0 .. m3 - 1
      /\ M3[a3] = L[0] - 1 /\ Tree(T3, m3, M3) /\ 0 \in 0 .. m3 - 1 /\ M3[0] = L[0]
    BY <1>3, <1>4, Zenon DEF Extends, Joined
<1> HIDE DEF T3, a3
<1>6. M3[0] = 4 /\ M3[a3] = 3 /\ a3 # 0
    BY <1>3, <1>5
<1>7. PICK m2, M2 : Joined(T3, m3, M3, a3, i3, T2, m2, M2)
    <2>1. M3[a3] > 1 /\ <<a3, i3>> # <<0, RecursiveSlot>>
        BY <1>6
    <2>2. Downward(T3, m3, M3, a3, i3)
        BY <1>1, <1>5, <2>1, Zenon DEF Downward
    <2> QED
        BY <2>2, OneLevel, Zenon
<1>8. /\ Extends(T3, m3, M3, T2, m2, M2) /\ T2[a3][i3].present /\ a2 \in 0 .. m2 - 1
      /\ M2[a2] = M3[a3] - 1 /\ Tree(T2, m2, M2) /\ 0 \in 0 .. m2 - 1 /\ M2[0] = M3[0]
    BY <1>5, <1>7, Zenon DEF Extends, Joined
<1> HIDE DEF T2, a2
<1>9. M2[0] = 4 /\ M2[a2] = 2 /\ a2 # 0
    BY <1>6, <1>8
<1>10. PICK m1, M1 : Joined(T2, m2, M2, a2, i2, T1, m1, M1)
    <2>1. M2[a2] > 1 /\ <<a2, i2>> # <<0, RecursiveSlot>>
        BY <1>9
    <2>2. Downward(T2, m2, M2, a2, i2)
        BY <1>1, <1>8, <2>1, Zenon DEF Downward
    <2> QED
        BY <2>2, OneLevel, Zenon
<1>11. /\ Extends(T2, m2, M2, T1, m1, M1) /\ T1[a2][i2].present /\ a1 \in 0 .. m1 - 1
       /\ M1[a1] = M2[a2] - 1
    BY <1>10, Zenon DEF Joined
<1> HIDE DEF T1, a1
<1>12. M1[a1] = 1
    BY <1>9, <1>11
<1>13. Extends(tables, n, L, T2, m2, M2)
    BY <1>5, <1>8, ExtendsTransitive
<1>14. Extends(tables, n, L, T1, m1, M1)
    BY <1>11, <1>13, ExtendsTransitive
<1>15. Extends(tables, n, L, tables, n, L)
    BY Zenon DEF Extends
<1>16. \A level \in 1 .. 4 : \E m, M : Extends(tables, n, L, Descent(p)[level].tables, m, M)
    <2>1. \A level \in 1 .. 4 : level = 1 \/ level = 2 \/ level = 3 \/ level = 4
        OBVIOUS
    <2> QED
        BY <1>2, <1>5, <1>13, <1>14, <1>15, <2>1, Zenon
<1>17. Extends(T3, m3, M3, T1, m1, M1)
    BY <1>5, <1>8, <1>11, ExtendsTransitive
<1>18. Path(T1, m1, M1, p, a3, a2, a1)
    <2>1. a3 \in 0 .. m1 - 1 /\ M1[a3] = 3
        BY <1>5, <1>6, <1>17, Zenon DEF Extends
    <2>2. a2 \in 0 .. m1 - 1 /\ M1[a2] = 2
        BY <1>8, <1>9, <1>11, Zenon DEF Extends
    <2>3. To(T1, 0, i4, a3)
        <3>1. T1[0][i4] = T3[0][i4]
            BY <1>1, <1>5, <1>17, Zenon DEF Extends
        <3> QED
            BY <1>5, <3>1, Zenon DEF To, a3
    <2>4. To(T1, a3, i3, a2)
        <3>1. a3 \in 0 .. m2 - 1
            BY <1>5, <1>8, Zenon DEF Extends
        <3>2. T1[a3][i3] = T2[a3][i3]
            BY <1>1, <1>8, <1>11, <3>1, Zenon DEF Extends
        <3> QED
            BY <1>8, <3>2, Zenon DEF To, a2
    <2>5. To(T1, a2, i2, a1)
        BY <1>11, Zenon DEF To, a1
    <2> QED
        BY <1>11, <1>12, <2>1, <2>2, <2>3, <2>4, <2>5, Zenon DEF Path, i4, i3, i2
<1> QED
    BY <1>2, <1>14, <1>16, <1>18, Zenon

\* The tables T after the last write of loader_paging_map.
Written(T, t, x, e) == [T EXCEPT ![t][x] = e]

\* Tables U translate page p to entry e and all other pages as T does.
MapsOnly(T, U, n, L, p, e) ==
    /\ Tree(U, n, L) /\ WalkIn(U, p) = e
    /\ \A q \in Pages : q # p => WalkIn(U, q) = WalkIn(T, q)

\* The last write of loader_paging_map maps its page and no other.
LEMMA WriteMaps ==
    ASSUME NEW T, NEW n, NEW L, Tree(T, n, L), NEW p \in Pages, NEW a3, NEW a2, NEW a1,
           Path(T, n, L, p, a3, a2, a1), NEW f \in Frames, NEW a \in Flags
    PROVE  MapsOnly(T, Written(T, a1, HardwareIndex(p, 1), Entry(f, a)), n, L, p, Entry(f, a))
<1> DEFINE i1 == HardwareIndex(p, 1)
           U == Written(T, a1, i1, Entry(f, a))
<1>0. \A t, u \in 0 .. n - 1, x, y \in Indices :
         Leads(T, L, t, x) /\ Leads(T, L, u, y) /\ T[t][x].frame = T[u][y].frame
         => t = u /\ x = y
    BY Zenon DEF Tree
<1>1. /\ n \in Nat \ {0} /\ L \in [0 .. n - 1 -> 1 .. 4] /\ L[0] = 4
      /\ T \in [0 .. n - 1 -> [Indices -> Slots]]
    BY DEF Tree
<1>2. \A q \in Pages : /\ HardwareIndex(q, 1) \in Indices /\ HardwareIndex(q, 2) \in Indices
                       /\ HardwareIndex(q, 3) \in Indices /\ HardwareIndex(q, 4) \in Indices
    BY SameIndices DEF Indices
<1>3. /\ a3 \in 0 .. n - 1 /\ a2 \in 0 .. n - 1 /\ a1 \in 0 .. n - 1
      /\ L[a3] = 3 /\ L[a2] = 2 /\ L[a1] = 1 /\ 0 \in 0 .. n - 1
    BY <1>1 DEF Path
<1>4. Entry(f, a) \in Slots
    BY EntryFields
<1>5. i1 \in Indices
    BY <1>2
<1> HIDE DEF i1
<1>6. /\ U \in [0 .. n - 1 -> [Indices -> Slots]] /\ U[a1][i1] = Entry(f, a)
      /\ \A s \in 0 .. n - 1 : s # a1 => U[s] = T[s]
      /\ \A y \in Indices : y # i1 => U[a1][y] = T[a1][y]
    BY <1>1, <1>3, <1>4, <1>5 DEF Written
<1> HIDE DEF U
<1>7. \A s \in 0 .. n - 1 : L[s] > 1 => U[s] = T[s]
    <2>1. \A s \in 0 .. n - 1 : s # a1 => U[s] = T[s]
        BY <1>6, Zenon
    <2>2. L[a1] = 1
        BY <1>3, Zenon
    <2>3. \A s : L[s] > 1 => s # a1
        BY <2>2
    <2> QED
        BY <2>1, <2>3, Zenon
<1>8. Tree(U, n, L)
    <2>1. \A s, y : s \in 0 .. n - 1 /\ Leads(U, L, s, y) => Leads(T, L, s, y) /\ U[s] = T[s]
        BY <1>7 DEF Leads
    <2>2. \A t \in 0 .. n - 1, x \in Indices : Leads(U, L, t, x) =>
             U[t][x].frame \in 0 .. n - 1 /\ L[U[t][x].frame] = L[t] - 1
        BY <2>1, Zenon DEF Tree
    <2>3. \A t, u \in 0 .. n - 1, x, y \in Indices :
             /\ Leads(U, L, t, x) /\ Leads(U, L, u, y)
             /\ U[t][x].frame = U[u][y].frame
             => t = u /\ x = y
        <3> SUFFICES ASSUME NEW t \in 0 .. n - 1, NEW u \in 0 .. n - 1,
                            NEW x \in Indices, NEW y \in Indices,
                            Leads(U, L, t, x), Leads(U, L, u, y),
                            U[t][x].frame = U[u][y].frame
                     PROVE  t = u /\ x = y
            OBVIOUS
        <3>1. Leads(T, L, t, x) /\ Leads(T, L, u, y) /\ U[t] = T[t] /\ U[u] = T[u]
            BY <2>1, Zenon
        <3>2. T[t][x].frame = T[u][y].frame
            BY <3>1, Zenon
        <3> QED
            BY <3>1, <3>2, Zenon DEF Tree
    <2> QED
        BY <1>1, <1>6, <2>2, <2>3, Zenon DEF Tree
<1>9. WalkIn(U, p) = Entry(f, a)
    <2>1. /\ To(U, 0, HardwareIndex(p, 4), a3) /\ To(U, a3, HardwareIndex(p, 3), a2)
          /\ To(U, a2, HardwareIndex(p, 2), a1)
        <3>1. L[0] = 4 /\ L[a3] = 3 /\ L[a2] = 2
            BY <1>1, <1>3, Zenon
        <3>2. L[0] > 1 /\ L[a3] > 1 /\ L[a2] > 1
            BY <3>1
        <3>3. U[0] = T[0] /\ U[a3] = T[a3] /\ U[a2] = T[a2]
            BY <1>3, <1>7, <3>2, Zenon
        <3> QED
            BY <3>3, Zenon DEF Path, To
    <2> QED
        BY <1>6, <2>1 DEF WalkIn, Below, To, i1
<1>10. ASSUME NEW q \in Pages, q # p
       PROVE  WalkIn(U, q) = WalkIn(T, q)
    <2> DEFINE e4 == T[0][HardwareIndex(q, 4)]
               e3 == Below(T, e4, q, 3)
               e2 == Below(T, e3, q, 2)
               f4 == U[0][HardwareIndex(q, 4)]
               f3 == Below(U, f4, q, 3)
               f2 == Below(U, f3, q, 2)
    <2>1. f4 = e4
        <3>1. L[0] > 1
            BY <1>1
        <3> QED
            BY <1>3, <1>7, <3>1, Zenon
    <2>2. CASE ~e4.present
        <3>1. e3 = Absent /\ f3 = Absent
            BY <2>1, <2>2, Zenon DEF Below
        <3>2. WalkIn(T, q) = Below(T, e2, q, 1) /\ WalkIn(U, q) = Below(U, f2, q, 1)
            BY Zenon DEF WalkIn
        <3>3. Absent.present = FALSE
            BY DEF Absent
        <3> QED
            BY <3>1, <3>2, <3>3 DEF Below
    <2>3. CASE e4.present
        <3> DEFINE b3 == e4.frame
        <3>1. Leads(T, L, 0, HardwareIndex(q, 4))
            <4>1. <<0, HardwareIndex(q, 4)>> # <<0, RecursiveSlot>>
                BY PageType DEF RecursiveSlot
            <4> QED
                BY <1>1, <2>3, <4>1 DEF Leads
        <3>2. b3 \in 0 .. n - 1 /\ L[b3] = L[0] - 1
            BY <1>2, <1>3, <3>1, Zenon DEF Tree
        <3>3. L[b3] = 3 /\ U[b3] = T[b3] /\ b3 # 0 /\ L[b3] > 1
            <4>1. L[0] = 4 /\ L[b3] = L[0] - 1
                BY <1>1, <3>2, Zenon
            <4> HIDE DEF b3
            <4>2. L[b3] = 3 /\ b3 # 0 /\ L[b3] > 1
                BY <4>1
            <4> QED
                BY <1>7, <3>2, <4>2, Zenon
        <3>4. e3 = T[b3][HardwareIndex(q, 3)] /\ f3 = U[b3][HardwareIndex(q, 3)]
            BY <2>1, <2>3, Zenon DEF Below
        <3> HIDE DEF b3, e4, f4
        <3>5. f3 = e3
            BY <3>3, <3>4
        <3>6. CASE ~e3.present
            <4>1. e2 = Absent /\ f2 = Absent
                BY <3>5, <3>6, Zenon DEF Below
            <4>2. WalkIn(T, q) = Below(T, e2, q, 1) /\ WalkIn(U, q) = Below(U, f2, q, 1)
                BY Zenon DEF WalkIn, e4, f4
            <4>3. Absent.present = FALSE
                BY DEF Absent
            <4> QED
                BY <4>1, <4>2, <4>3 DEF Below
        <3>7. CASE e3.present
            <4> DEFINE b2 == e3.frame
            <4>1. Leads(T, L, b3, HardwareIndex(q, 3))
                BY <3>3, <3>4, <3>7 DEF Leads
            <4>2. b2 \in 0 .. n - 1 /\ L[b2] = L[b3] - 1
                BY <1>2, <3>2, <3>4, <4>1, Zenon DEF Tree
            <4>3. L[b2] = 2 /\ U[b2] = T[b2] /\ b2 # 0 /\ L[b2] > 1
                <5>1. L[0] = 4 /\ L[b3] = 3 /\ L[b2] = L[b3] - 1
                    BY <1>1, <3>3, <4>2, Zenon
                <5> HIDE DEF b2
                <5>2. L[b2] = 2 /\ b2 # 0 /\ L[b2] > 1
                    BY <5>1
                <5> QED
                    BY <1>7, <4>2, <5>2, Zenon
            <4>4. e2 = T[b2][HardwareIndex(q, 2)] /\ f2 = U[b2][HardwareIndex(q, 2)]
                BY <3>5, <3>7, Zenon DEF Below
            <4>5. b2 = T[b3][HardwareIndex(q, 3)].frame
                BY <3>4, Zenon
            <4> HIDE DEF b2, e3, f3
            <4>6. f2 = e2
                BY <4>3, <4>4
            <4>7. WalkIn(T, q) = Below(T, e2, q, 1) /\ WalkIn(U, q) = Below(U, f2, q, 1)
                BY Zenon DEF WalkIn, e4, f4, e3, f3
            <4>8. CASE ~e2.present
                BY <4>6, <4>7, <4>8, Zenon DEF Below
            <4>9. CASE e2.present
                <5> DEFINE b1 == e2.frame
                <5>1. Leads(T, L, b2, HardwareIndex(q, 2))
                    BY <4>3, <4>4, <4>9 DEF Leads
                <5>2. b1 \in 0 .. n - 1
                    BY <1>2, <4>2, <4>4, <5>1, Zenon DEF Tree
                <5>3. /\ WalkIn(T, q) = T[b1][HardwareIndex(q, 1)]
                      /\ WalkIn(U, q) = U[b1][HardwareIndex(q, 1)]
                    BY <4>6, <4>7, <4>9, Zenon DEF Below
                <5>4. ~(b1 = a1 /\ HardwareIndex(q, 1) = i1)
                    <6> SUFFICES ASSUME b1 = a1, HardwareIndex(q, 1) = i1
                                 PROVE  FALSE
                        OBVIOUS
                    <6>1. /\ Leads(T, L, a2, HardwareIndex(p, 2))
                          /\ Leads(T, L, a3, HardwareIndex(p, 3))
                          /\ Leads(T, L, 0, HardwareIndex(p, 4))
                        <7>1. /\ T[a2][HardwareIndex(p, 2)].present
                              /\ T[a3][HardwareIndex(p, 3)].present
                              /\ T[0][HardwareIndex(p, 4)].present
                            BY DEF Path, To
                        <7>2. a2 # 0 /\ a3 # 0 /\ L[a2] > 1 /\ L[a3] > 1 /\ L[0] > 1
                            BY <1>1, <1>3
                        <7>3. HardwareIndex(p, 4) # RecursiveSlot
                            BY PageType DEF RecursiveSlot
                        <7> QED
                            BY <7>1, <7>2, <7>3 DEF Leads
                    <6>2. b2 = a2 /\ HardwareIndex(q, 2) = HardwareIndex(p, 2)
                        <7>1. T[b2][HardwareIndex(q, 2)].frame = T[a2][HardwareIndex(p, 2)].frame
                            BY <4>4 DEF Path, To
                        <7>2. /\ b2 \in 0 .. n - 1 /\ a2 \in 0 .. n - 1
                              /\ HardwareIndex(q, 2) \in Indices /\ HardwareIndex(p, 2) \in Indices
                            BY <1>2, <1>3, <4>2, Zenon
                        <7>3. /\ Leads(T, L, b2, HardwareIndex(q, 2))
                              /\ Leads(T, L, a2, HardwareIndex(p, 2))
                            BY <5>1, <6>1, Zenon
                        <7> QED
                            BY <1>0, <7>1, <7>2, <7>3
                    <6>3. b3 = a3 /\ HardwareIndex(q, 3) = HardwareIndex(p, 3)
                        <7>1. T[b3][HardwareIndex(q, 3)].frame = T[a3][HardwareIndex(p, 3)].frame
                            BY <4>5, <6>2 DEF Path, To
                        <7>2. /\ b3 \in 0 .. n - 1 /\ a3 \in 0 .. n - 1
                              /\ HardwareIndex(q, 3) \in Indices /\ HardwareIndex(p, 3) \in Indices
                            BY <1>2, <1>3, <3>2, Zenon
                        <7>3. /\ Leads(T, L, b3, HardwareIndex(q, 3))
                              /\ Leads(T, L, a3, HardwareIndex(p, 3))
                            BY <4>1, <6>1, Zenon
                        <7> QED
                            BY <1>0, <7>1, <7>2, <7>3
                    <6>4. HardwareIndex(q, 4) = HardwareIndex(p, 4)
                        <7>1. T[0][HardwareIndex(q, 4)].frame = T[0][HardwareIndex(p, 4)].frame
                            BY <6>3 DEF Path, To, b3, e4
                        <7>2. /\ 0 \in 0 .. n - 1
                              /\ HardwareIndex(q, 4) \in Indices /\ HardwareIndex(p, 4) \in Indices
                            BY <1>2, <1>3, Zenon
                        <7>3. /\ Leads(T, L, 0, HardwareIndex(q, 4))
                              /\ Leads(T, L, 0, HardwareIndex(p, 4))
                            BY <3>1, <6>1, Zenon
                        <7> QED
                            BY <1>0, <7>1, <7>2, <7>3
                    <6>5. \A level \in 1 .. 4 : HardwareIndex(q, level) = HardwareIndex(p, level)
                        <7>1. \A level \in 1 .. 4 :
                                 level = 1 \/ level = 2 \/ level = 3 \/ level = 4
                            OBVIOUS
                        <7> QED
                            BY <6>2, <6>3, <6>4, <7>1, Zenon DEF i1
                    <6> QED
                        BY <1>10, <6>5, Distinct
                <5> QED
                    BY <1>2, <1>6, <5>2, <5>3, <5>4
            <4> QED
                BY <4>8, <4>9
        <3> QED
            BY <3>6, <3>7
    <2> QED
        BY <2>2, <2>3
<1> QED
    BY <1>8, <1>9, <1>10 DEF MapsOnly, U, i1

-----------------------------------------------------------------------------
\* The inductive invariant: the tables are a tree of four levels.
IsTree == \E n, L : Tree(tables, n, L)

\* loader_paging_setup makes a tree that translates nothing.
LEMMA InitTree == Init => IsTree /\ \A p \in Pages : Walk(p) = Absent
<1> SUFFICES ASSUME Init
             PROVE  IsTree /\ \A p \in Pages : Walk(p) = Absent
    OBVIOUS
<1> DEFINE L == [t \in 0 .. 0 |-> 4]
           R == Entry(0, TableFlags)
<1>1. Entries \in Nat /\ Entries > 2 /\ RecursiveSlot \in Indices
    BY PagesAssumption DEF RecursiveSlot, Indices
<1>2. tables = [t \in {0} |-> [Zeroed EXCEPT ![RecursiveSlot] = R]]
    BY DEF Init, loader_paging_setup, TableFlags
<1>3. R \in Slots /\ Zeroed \in [Indices -> Slots] /\ \A x \in Indices : Zeroed[x] = Absent
    BY EntryFields DEF Slots, Zeroed, Indices
<1> HIDE DEF R
<1>4. 0 .. 0 = {0} /\ 1 - 1 = 0 /\ 1 \in Nat \ {0} /\ 4 \in 1 .. 4
    OBVIOUS
<1>5. /\ tables \in [{0} -> [Indices -> Slots]]
      /\ \A x \in Indices : x # RecursiveSlot => tables[0][x] = Absent
    BY <1>1, <1>2, <1>3
<1>6. Absent.present = FALSE
    BY DEF Absent
<1>7. L \in [{0} -> 1 .. 4] /\ L[0] = 4
    OBVIOUS
<1>8. \A t \in {0}, x \in Indices : ~Leads(tables, L, t, x)
    BY <1>5, <1>6 DEF Leads
<1> HIDE DEF L
<1>9. Tree(tables, 1, L)
    BY <1>4, <1>5, <1>7, <1>8 DEF Tree
<1>10. ASSUME NEW p \in Pages
       PROVE  Walk(p) = Absent
    <2>1. HardwareIndex(p, 4) \in Indices /\ HardwareIndex(p, 4) # RecursiveSlot
        BY SameIndices, PageType DEF Indices, RecursiveSlot
    <2>2. tables[0][HardwareIndex(p, 4)] = Absent
        BY <1>5, <2>1
    <2> QED
        BY <1>6, <2>2 DEF Walk, WalkIn, Below
<1> QED
    BY <1>9, <1>10 DEF IsTree

\* A call of loader_paging_map keeps the tree and does what it is asked.
LEMMA MapStep ==
    ASSUME IsTree, NEW p \in Pages, NEW f \in Frames, NEW a \in Flags, loader_paging_map(f, p, a)
    PROVE  IsTree' /\ Translation!MapPage(p, f, a)
<1>1. PICK n, L : Tree(tables, n, L)
    BY DEF IsTree
<1> DEFINE T == Descent(p)[1].tables
           at == Descent(p)[1].at
           i1 == HardwareIndex(p, 1)
           U == Written(T, at, i1, Entry(f, a))
<1>2. PICK m, M, a3, a2 : Extends(tables, n, L, T, m, M) /\ Path(T, m, M, p, a3, a2, at)
    BY <1>1, DescentKeeps, Zenon
<1>3. tables' = U
    <2>1. mm_virtual_indices(p, 1) = i1
        BY SameIndices
    <2> QED
        BY <2>1 DEF loader_paging_map, Written
<1>4. Tree(T, m, M) /\ \A q \in Pages : WalkIn(T, q) = WalkIn(tables, q)
    BY <1>2, Zenon DEF Extends
<1> HIDE DEF T, at
<1>5. /\ Tree(U, m, M) /\ WalkIn(U, p) = Entry(f, a)
      /\ \A q \in Pages : q # p => WalkIn(U, q) = WalkIn(T, q)
    <2>1. MapsOnly(T, U, m, M, p, Entry(f, a))
        BY <1>2, <1>4, WriteMaps, Zenon
    <2> QED
        BY <2>1, Zenon DEF MapsOnly
<1> HIDE DEF U
<1>6. IsTree'
    BY <1>3, <1>5 DEF IsTree
<1>7. Walk(p)' = Entry(f, a) /\ \A q \in Pages : q # p => Walk(q)' = Walk(q)
    BY <1>3, <1>4, <1>5 DEF Walk
<1>8. [q \in Pages |-> Walk(q)'] = [[q \in Pages |-> Walk(q)] EXCEPT ![p] = Entry(f, a)]
    BY <1>7
<1> QED
    BY <1>6, <1>8 DEF Translation!MapPage, Entry

\* A call that runs out of memory keeps the tree and every translation.
LEMMA FailStep ==
    ASSUME IsTree, NEW p \in Pages, MapFails(p)
    PROVE  IsTree' /\ \A q \in Pages : Walk(q)' = Walk(q)
<1>1. PICK n, L : Tree(tables, n, L)
    BY DEF IsTree
<1>2. PICK level \in 2 .. 4 : tables' = Descent(p)[level].tables
    BY DEF MapFails
<1>3. level \in 1 .. 4
    OBVIOUS
<1>4. PICK m, M : Extends(tables, n, L, Descent(p)[level].tables, m, M)
    BY <1>1, <1>3, DescentKeeps, Zenon
<1>5. Extends(tables, n, L, tables', m, M)
    BY <1>2, <1>4
<1>6. Tree(tables', m, M) /\ \A q \in Pages : WalkIn(tables', q) = WalkIn(tables, q)
    BY <1>5, Zenon DEF Extends
<1> QED
    BY <1>6 DEF IsTree, Walk

\* Every step keeps the tree.
LEMMA TreeStep == IsTree /\ [Next]_vars => IsTree'
<1> SUFFICES ASSUME IsTree, [Next]_vars
             PROVE  IsTree'
    OBVIOUS
<1>1. CASE UNCHANGED vars
    BY <1>1 DEF IsTree, vars
<1>2. CASE Next
    BY <1>2, MapStep, FailStep DEF Next
<1> QED
    BY <1>1, <1>2

\* The tables always form a tree.
LEMMA TreeAlways == Spec => []IsTree
<1>1. Init => IsTree
    BY InitTree
<1> QED
    BY <1>1, TreeStep, PTL DEF Spec

\* loader_paging_map(frame, page, flags) makes the processor translate page to
\* frame with flags and leaves all other translations alone, and a call that
\* runs out of memory changes none: for tables of any even size, and any set of
\* canonical pages outside the recursive slot.
THEOREM CallsDoAsAsked == Spec => MapsWhatIsAsked
<1>1. IsTree /\ [Next]_vars =>
         [/\ \A p \in Pages, f \in Frames, a \in Flags :
                loader_paging_map(f, p, a) => Translation!MapPage(p, f, a)
          /\ exited' => \A p \in Pages : UNCHANGED Walk(p)]_vars
    <2> SUFFICES ASSUME IsTree, Next
                 PROVE  /\ \A p \in Pages, f \in Frames, a \in Flags :
                              loader_paging_map(f, p, a) => Translation!MapPage(p, f, a)
                        /\ exited' => \A p \in Pages : UNCHANGED Walk(p)
        OBVIOUS
    <2>1. \A p \in Pages, f \in Frames, a \in Flags :
             loader_paging_map(f, p, a) => Translation!MapPage(p, f, a)
        BY MapStep
    <2>2. ASSUME exited'
          PROVE  \A p \in Pages : UNCHANGED Walk(p)
        <3>1. PICK p \in Pages : MapFails(p)
            BY <2>2 DEF Next, loader_paging_map
        <3> QED
            BY <3>1, FailStep
    <2> QED
        BY <2>1, <2>2
<1> QED
    BY <1>1, TreeAlways, PTL DEF Spec, MapsWhatIsAsked

\* The tables loader/paging.c builds implement a flat address space.
THEOREM TablesImplementAddressSpace == Spec => TranslationSpec
<1>1. Init => Translation!Init
    <2> SUFFICES ASSUME Init
                 PROVE  Translation!Init
        OBVIOUS
    <2>1. \A p \in Pages : Walk(p) = Absent
        BY InitTree
    <2> QED
        BY <2>1 DEF Translation!Init, Translation!Unmapped, Absent
<1>2. IsTree /\ [Next]_vars => [Translation!Next]_([p \in Pages |-> Walk(p)])
    <2> SUFFICES ASSUME IsTree, [Next]_vars
                 PROVE  Translation!Next \/ UNCHANGED [p \in Pages |-> Walk(p)]
        OBVIOUS
    <2>1. CASE UNCHANGED vars
        BY <2>1 DEF vars, Walk
    <2>2. ASSUME NEW p \in Pages, NEW f \in Frames, NEW a \in Flags, loader_paging_map(f, p, a)
          PROVE  Translation!Next
        BY <2>2, MapStep DEF Translation!Next
    <2>3. ASSUME NEW p \in Pages, MapFails(p)
          PROVE  UNCHANGED [q \in Pages |-> Walk(q)]
        BY <2>3, FailStep
    <2> QED
        BY <2>1, <2>2, <2>3 DEF Next
<1> QED
    BY <1>1, <1>2, TreeAlways, PTL DEF Spec, TranslationSpec, Translation!Spec
=============================================================================
