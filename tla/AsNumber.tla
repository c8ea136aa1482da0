------------------------------ MODULE AsNumber -------------------------------
(***************************************************************************)
(* AS numbers: the texts users and clients write, the number behind them,  *)
(* and the forms the database, URLs and byte strings store.  Numbers are   *)
(* compared as numbers, but the policy RPCs compare the texts.             *)
(*                                                                         *)
(* A text is what splitting it at its separator gives: one decimal number, *)
(* three hexadecimal groups, or something else.                            *)
(***************************************************************************)
EXTENDS Integers, Sequences

GroupSize == 65536                                     \* 2^GROUP_BITS
MAX_BGP_ASN == GroupSize * GroupSize - 1
MAX_VALUE == GroupSize * (GroupSize * GroupSize) - 1
Numbers == {n \in Nat : n <= MAX_VALUE}

ValueError == [error |-> "ValueError"]

Decimal(n) == [kind |-> "decimal", value |-> n]
Groups(sep, a, b, c) == [kind |-> "groups", sep |-> sep, groups |-> <<a, b, c>>]

IsGroup(g) == g \in Nat /\ g < GroupSize

\* ASN.__init__ for an integer.
FromInt(n) == IF 0 <= n /\ n <= MAX_VALUE THEN n ELSE ValueError

\* One turn of the loop over the groups: a shift and a bitwise or.
ShiftIn(n, group) == n * GroupSize + group

\* ASN.__init__ for a text.
FromText(text) ==
    IF text.kind = "decimal" THEN
        IF 0 <= text.value /\ text.value <= MAX_BGP_ASN THEN text.value ELSE ValueError
    ELSE IF text.kind = "groups" /\ text.sep = ":" /\ (\A i \in 1..3 : IsGroup(text.groups[i])) THEN
        ShiftIn(ShiftIn(ShiftIn(0, text.groups[1]), text.groups[2]), text.groups[3])
    ELSE ValueError

\* ASN.__str__
ToText(n) ==
    IF n <= MAX_BGP_ASN THEN Decimal(n)
    ELSE Groups(":", ((n \div GroupSize) \div GroupSize) % GroupSize,
                     (n \div GroupSize) % GroupSize, n % GroupSize)

\* Replacing one separator by the other.
Replace(text, old, new) ==
    IF text.kind = "groups" /\ text.sep = old THEN [text EXCEPT !.sep = new] ELSE text

\* AsnConverter, and the template filter url_format_asn.
ToUrl(n) == Replace(ToText(n), ":", "-")
FromUrl(text) == FromText(Replace(text, "-", ":"))

\* ASN.to_bytes and from_bytes: six bytes, the highest first.
Low(n) == n % 256
High(n) == n \div 256
ToBytes(n) ==
    <<Low(High(High(High(High(High(n)))))), Low(High(High(High(High(n))))),
      Low(High(High(High(n)))), Low(High(High(n))), Low(High(n)), Low(n)>>

FromBytes(bytes) ==
    FromInt(256 * (256 * (256 * (256 * (256 * bytes[1] + bytes[2]) + bytes[3]) + bytes[4])
                   + bytes[5]) + bytes[6])

\* AsnField: None, an ASN, an integer or a text in, what the program works with
\* out; and the column it is stored in, of type BIGINT.
None == [kind |-> "none"]
ValidationError == [error |-> "ValidationError"]

ToPython(x) ==
    IF x.kind = "none" THEN None
    ELSE IF x.kind = "asn" THEN x.value
    ELSE LET n == IF x.kind = "integer" THEN FromInt(x.value) ELSE FromText(x)
         IN  IF n = ValueError THEN ValidationError ELSE n

HalfRange == 32768 * (GroupSize * (GroupSize * GroupSize))    \* 2^63
BigInteger == {n \in Int : -HalfRange <= n /\ n < HalfRange}

FromColumn(n) == IF n \in BigInteger THEN FromInt(n) ELSE None
=============================================================================
