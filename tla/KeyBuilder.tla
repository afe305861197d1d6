----------------------------- MODULE KeyBuilder -----------------------------
(***************************************************************************)
(* The key strings of the "fkvb" key type (StringBuilder.hh               *)
(* prefix_key_string_builder): the prefix "U: " followed by the key index *)
(* in decimal, left-padded with '0' to payload_size = key_size - 3        *)
(* characters.  A key is its byte sequence (ASCII codes); the comparison  *)
(* of two keys is strcmp's, byte by byte.                                 *)
(***************************************************************************)
EXTENDS Naturals, Sequences

\* PREFIX "U: " as bytes; strlen(PREFIX) = sizeof(PREFIX) - 1 = 3.
Prefix == <<85, 58, 32>>
PrefixLen == Len(Prefix)
Zero == 48   \* '0'

\* payload_size = key_size - sizeof(PREFIX) + 1.
PayloadSize(keySize) == keySize - PrefixLen

\* Mutant: "x <= 10 ? 1 : ...", one threshold off.
DigitsOffByOne(x) == IF x <= 10 THEN 1
                     ELSE LET t == {d \in 2 .. 9 : x < 10^d}
                          IN IF t = {} THEN 10 ELSE CHOOSE d \in t : \A e \in t : d <= e

\* string_builder::digits: the nested "x < 10 ? 1 : (x < 100 ? 2 : ...)",
\* 10 for anything of ten digits or more.
Digits(x) == LET t == {d \in 1 .. 9 : x < 10^d}
             IN IF t = {} THEN 10 ELSE CHOOSE d \in t : \A e \in t : d <= e

\* The prefix_key_string_builder constructor FATALs unless the payload can
\* hold digits(num_keys) characters and the key is longer than the prefix.
Accepted(numKeys, keySize) ==
    keySize > PrefixLen /\ PayloadSize(keySize) >= Digits(numKeys)

\* Mutant: the digit loop writes forward from the end of the zero fill,
\* least significant digit first.
BuildForward(key, keySize) ==
    LET dig == Digits(key)
        zeroes == PayloadSize(keySize) - dig
    IN [i \in 1 .. keySize |->
          IF i <= PrefixLen THEN Prefix[i]
          ELSE IF i <= PrefixLen + zeroes THEN Zero
          ELSE Zero + ((key \div 10^(i - PrefixLen - zeroes - 1)) % 10)]

\* prefix_key_string_builder::build for a key whose digits fit the payload:
\* copy the prefix, write "zeroes = payload_size - dig" '0's, then write
\* the digits backwards from out_buf[key_size - 1], "d = k % 10;
\* k = (k - d) / 10".  *out_size = key_size.
Build(key, keySize) ==
    LET dig == Digits(key)
        zeroes == PayloadSize(keySize) - dig
    IN [i \in 1 .. keySize |->
          IF i <= PrefixLen THEN Prefix[i]
          ELSE IF i <= PrefixLen + zeroes THEN Zero
          ELSE Zero + ((key \div 10^(keySize - i)) % 10)]

-----------------------------------------------------------------------------
(* Reference: what sprintf("%s%0*d", prefix, payload_size, key) writes,    *)
(* the private _build the class keeps beside build.                       *)

RECURSIVE Decimal(_)
Decimal(n) == IF n < 10 THEN <<Zero + n>> ELSE Decimal(n \div 10) \o <<Zero + (n % 10)>>

PadTo(s, w) == [i \in 1 .. (w - Len(s)) |-> Zero] \o s

KeyRef(key, keySize) == Prefix \o PadTo(Decimal(key), PayloadSize(keySize))

\* strcmp(a, b) < 0 for two keys of the same length.
StrLess(a, b) ==
    \E i \in DOMAIN a : a[i] < b[i] /\ \A j \in 1 .. (i - 1) : a[j] = b[j]
=============================================================================
