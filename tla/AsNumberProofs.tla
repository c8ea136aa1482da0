--------------------------- MODULE AsNumberProofs ----------------------------
(***************************************************************************)
(* Proofs about AsNumber, for every AS number from 0 to 2^48 - 1: its      *)
(* text, its URL, its column and its bytes lead back to the same number.   *)
(* A number is taken apart into groups or bytes by one division at a time, *)
(* and put together again from linear equations.                           *)
(***************************************************************************)
EXTENDS AsNumber, TLAPS

\* Shifting out a group and the group itself.
LEMMA Division ==
    ASSUME NEW n \in Nat
    PROVE  /\ n \div GroupSize \in Nat
           /\ n % GroupSize \in Nat /\ n % GroupSize < 65536
           /\ n = 65536 * (n \div GroupSize) + (n % GroupSize)
BY DEF GroupSize

LEMMA Shift ==
    ASSUME NEW a \in Int, NEW b \in Int
    PROVE  ShiftIn(a, b) = 65536 * a + b
BY DEF ShiftIn, GroupSize

\* A number below 2^48 has a third group below 2^16.
LEMMA Highest ==
    ASSUME NEW n \in Nat, NEW q \in Nat, NEW p \in Nat, NEW r \in Nat, NEW s \in Nat,
           n = 65536 * q + r, q = 65536 * p + s, n < 65536 * (65536 * 65536)
    PROVE  p < 65536
OBVIOUS

\* The three groups of a number.
LEMMA GroupsOf ==
    ASSUME NEW n \in Numbers, NEW q, NEW p,
           q = n \div GroupSize, p = q \div GroupSize
    PROVE  /\ IsGroup(p % GroupSize) /\ IsGroup(q % GroupSize) /\ IsGroup(n % GroupSize)
           /\ ShiftIn(ShiftIn(ShiftIn(0, p % GroupSize), q % GroupSize), n % GroupSize) = n
<1> DEFINE r == n % GroupSize
           s == q % GroupSize
<1>1. n \in Nat /\ n < 65536 * (65536 * 65536)
  BY DEF Numbers, MAX_VALUE, GroupSize
<1>2. q \in Nat /\ r \in Nat /\ r < 65536 /\ n = 65536 * q + r
  BY <1>1, Division
<1>3. p \in Nat /\ s \in Nat /\ s < 65536 /\ q = 65536 * p + s
  BY <1>2, Division
<1> HIDE DEF r, s
<1>4. p < 65536
  BY <1>1, <1>2, <1>3, Highest
<1>5. p % GroupSize = p
  BY <1>3, <1>4 DEF GroupSize
<1>6. IsGroup(p) /\ IsGroup(s) /\ IsGroup(r)
  BY <1>2, <1>3, <1>4 DEF IsGroup, GroupSize
<1>7. ShiftIn(0, p) = p
  BY <1>3, Shift
<1>8. ShiftIn(p, s) = q
  BY <1>3, Shift
<1>9. ShiftIn(q, r) = n
  BY <1>2, Shift
<1> QED  BY <1>5, <1>6, <1>7, <1>8, <1>9 DEF r, s

\* What __str__ writes, __init__ reads back as the same number: a policy or a
\* client's metadata that quotes the coordinator's text names the same AS
\* (scion_addr.py:13-56).
THEOREM TextRoundTrip ==
    ASSUME NEW n \in Numbers
    PROVE  FromText(ToText(n)) = n
<1>1. CASE n <= MAX_BGP_ASN
  <2>1. ToText(n) = Decimal(n)
    BY <1>1 DEF ToText
  <2>2. 0 <= n /\ n <= MAX_BGP_ASN
    BY <1>1 DEF Numbers
  <2> QED  BY <2>1, <2>2 DEF FromText, Decimal
<1>2. CASE ~(n <= MAX_BGP_ASN)
  <2> DEFINE c == n % GroupSize
             b == (n \div GroupSize) % GroupSize
             a == ((n \div GroupSize) \div GroupSize) % GroupSize
  <2>1. ToText(n) = Groups(":", a, b, c)
    BY <1>2 DEF ToText
  <2>2. IsGroup(a) /\ IsGroup(b) /\ IsGroup(c) /\ ShiftIn(ShiftIn(ShiftIn(0, a), b), c) = n
    BY GroupsOf
  <2> HIDE DEF a, b, c
  <2>3. \A i \in 1..3 : IsGroup(<<a, b, c>>[i])
    BY <2>2
  <2>4. FromText(Groups(":", a, b, c)) = ShiftIn(ShiftIn(ShiftIn(0, a), b), c)
    BY <2>3 DEF FromText, Groups
  <2> QED  BY <2>1, <2>2, <2>4
<1> QED  BY <1>1, <1>2

\* Different AS numbers have different texts, so that the text comparisons of
\* the policy RPCs never take another AS for the caller (peering.py:148-149,
\* 194-196, 223-225, 290-293).
THEOREM TextsDiffer ==
    ASSUME NEW m \in Numbers, NEW n \in Numbers, ToText(m) = ToText(n)
    PROVE  m = n
BY TextRoundTrip

\* A link to the page of an AS leads to that AS (path_converters.py:10-15).
THEOREM UrlRoundTrip ==
    ASSUME NEW n \in Numbers
    PROVE  FromUrl(ToUrl(n)) = n
<1>1. Replace(Replace(ToText(n), ":", "-"), "-", ":") = ToText(n)
  <2>1. CASE n <= MAX_BGP_ASN
    BY <2>1 DEF ToText, Decimal, Replace
  <2>2. CASE ~(n <= MAX_BGP_ASN)
    BY <2>2 DEF ToText, Groups, Replace
  <2> QED  BY <2>1, <2>2
<1> QED  BY <1>1, TextRoundTrip DEF FromUrl, ToUrl

\* Every AS number fits in its column, below its sign, and is read back as the
\* same number (custom_fields.py:21-35).
THEOREM ColumnRoundTrip ==
    ASSUME NEW n \in Numbers
    PROVE  n \in BigInteger /\ FromColumn(n) = n
<1>1. n \in Nat /\ n < 65536 * (65536 * 65536)
  BY SMT DEF Numbers, MAX_VALUE, GroupSize
<1>2. HalfRange \in Nat /\ 65536 * (65536 * 65536) <= HalfRange
  <2>1. \A k \in Nat : 32768 * k \in Nat /\ k <= 32768 * k
    OBVIOUS
  <2>2. GroupSize * (GroupSize * GroupSize) \in Nat
    BY SMT DEF GroupSize
  <2>3. GroupSize = 65536
    BY DEF GroupSize
  <2>4. GroupSize * (GroupSize * GroupSize) = 65536 * (65536 * 65536)
    BY <2>3
  <2>5. HalfRange \in Nat /\ GroupSize * (GroupSize * GroupSize) <= HalfRange
    BY <2>1, <2>2 DEF HalfRange
  <2> QED  BY <2>4, <2>5
<1>3. n \in BigInteger
  BY <1>1, <1>2 DEF BigInteger
<1>4. FromInt(n) = n
  BY DEF FromInt, Numbers
<1> QED  BY <1>3, <1>4 DEF FromColumn

\* A shift by one byte, and the byte.
LEMMA ByteDivision ==
    ASSUME NEW n \in Nat
    PROVE  \E m, r : /\ m \in Nat /\ r \in Nat /\ n = 256 * m + r
                     /\ m = High(n) /\ r = Low(n)
<1>1. n \div 256 \in Nat /\ n % 256 \in Nat /\ n = 256 * (n \div 256) + (n % 256)
  OBVIOUS
<1> QED  BY <1>1, Zenon DEF High, Low

\* The bytes of an AS number, whatever follows them, are read back as the same
\* number (scion_addr.py:61-66).
THEOREM BytesRoundTrip ==
    ASSUME NEW n \in Numbers, NEW more \in Seq(Nat)
    PROVE  FromBytes(ToBytes(n) \o more) = n
<1>1. n \in Nat /\ n < 281474976710656
  BY SMT DEF Numbers, MAX_VALUE, GroupSize
<1>2. PICK n1, r0 : /\ n1 \in Nat /\ r0 \in Nat /\ n = 256 * n1 + r0
                    /\ n1 = High(n) /\ r0 = Low(n)
  BY <1>1, ByteDivision
<1>3. PICK n2, r1 : /\ n2 \in Nat /\ r1 \in Nat /\ n1 = 256 * n2 + r1
                    /\ n2 = High(n1) /\ r1 = Low(n1)
  BY <1>2, ByteDivision
<1>4. PICK n3, r2 : /\ n3 \in Nat /\ r2 \in Nat /\ n2 = 256 * n3 + r2
                    /\ n3 = High(n2) /\ r2 = Low(n2)
  BY <1>3, ByteDivision
<1>5. PICK n4, r3 : /\ n4 \in Nat /\ r3 \in Nat /\ n3 = 256 * n4 + r3
                    /\ n4 = High(n3) /\ r3 = Low(n3)
  BY <1>4, ByteDivision
<1>6. PICK n5, r4 : /\ n5 \in Nat /\ r4 \in Nat /\ n4 = 256 * n5 + r4
                    /\ n5 = High(n4) /\ r4 = Low(n4)
  BY <1>5, ByteDivision
<1>7. PICK n6, r5 : /\ n6 \in Nat /\ r5 \in Nat /\ n5 = 256 * n6 + r5
                    /\ n6 = High(n5) /\ r5 = Low(n5)
  BY <1>6, ByteDivision
<1>8. ToBytes(n) = <<r5, r4, r3, r2, r1, r0>>
  <2>1. n1 = High(n) /\ n2 = High(n1) /\ n3 = High(n2) /\ n4 = High(n3) /\ n5 = High(n4)
    BY <1>2, <1>3, <1>4, <1>5, <1>6
  <2>2. /\ r0 = Low(n) /\ r1 = Low(n1) /\ r2 = Low(n2)
        /\ r3 = Low(n3) /\ r4 = Low(n4) /\ r5 = Low(n5)
    BY <1>2, <1>3, <1>4, <1>5, <1>6, <1>7
  <2> QED  BY <2>1, <2>2 DEF ToBytes
<1>9. n6 = 0
  <2>1. n1 < 1099511627776
    BY <1>1, <1>2, SMT
  <2>2. n2 < 4294967296
    BY <1>3, <2>1, SMT
  <2>3. n3 < 16777216
    BY <1>4, <2>2, SMT
  <2>4. n4 < 65536
    BY <1>5, <2>3, SMT
  <2>5. n5 < 256
    BY <1>6, <2>4, SMT
  <2> QED  BY <1>7, <2>5, SMT
<1>10. PICK b : b = <<r5, r4, r3, r2, r1, r0>> \o more
  BY Zenon
<1>11. b[1] = r5 /\ b[2] = r4 /\ b[3] = r3 /\ b[4] = r2 /\ b[5] = r1 /\ b[6] = r0
  <2>1. r0 \in Nat /\ r1 \in Nat /\ r2 \in Nat /\ r3 \in Nat /\ r4 \in Nat /\ r5 \in Nat
    BY <1>2, <1>3, <1>4, <1>5, <1>6, <1>7
  <2>2. <<r5, r4, r3, r2, r1, r0>> \in Seq(Nat)
    BY <2>1
  <2> QED  BY <1>10, <2>2
<1>12. 256 * (256 * (256 * (256 * (256 * r5 + r4) + r3) + r2) + r1) + r0 = n
  <2>1. n5 = 256 * 0 + r5 /\ r5 \in Nat
    BY <1>7, <1>9
  <2>2. n5 = r5
    BY <2>1
  <2>3. n4 = 256 * r5 + r4
    BY <1>6, <2>2
  <2>4. n3 = 256 * (256 * r5 + r4) + r3
    BY <1>5, <2>3
  <2>5. n2 = 256 * (256 * (256 * r5 + r4) + r3) + r2
    BY <1>4, <2>4
  <2>6. n1 = 256 * (256 * (256 * (256 * r5 + r4) + r3) + r2) + r1
    BY <1>3, <2>5
  <2> QED  BY <1>2, <2>6
<1>13. FromBytes(b) = FromInt(n)
  BY <1>11, <1>12 DEF FromBytes
<1>14. FromInt(n) = n
  BY DEF FromInt, Numbers
<1> QED  BY <1>8, <1>10, <1>13, <1>14
=============================================================================
