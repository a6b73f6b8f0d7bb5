---------------------------- MODULE NativeNames ----------------------------
(***************************************************************************)
(* Names as the platform spells them, UTF-16 units or bytes, and as code   *)
(* points (src/crates/globazog/src/syntax/decode.rs and sys.rs, D-46).     *)
(* Enumeration decodes a name; the engine encodes it again to open the     *)
(* child. A unit that no character accounts for is kept as a lone          *)
(* surrogate: itself in UTF-16, U+DC00 and the byte in a Unix name         *)
(* (PEP 383).                                                              *)
(***************************************************************************)
EXTENDS Integers, Sequences, SequencesExt

IsHighSurrogate(unit) == 55296 <= unit /\ unit <= 56319     \* U+D800..U+DBFF
IsLowSurrogate(unit) == 56320 <= unit /\ unit <= 57343      \* U+DC00..U+DFFF
IsEscapedByte(cp) == 56448 <= cp /\ cp <= 56575             \* U+DC80..U+DCFF
Replacement == 65533                                       \* U+FFFD
IsChar(cp) == cp \in Nat /\ cp <= 1114111 /\ ~IsHighSurrogate(cp) /\ ~IsLowSurrogate(cp)

-----------------------------------------------------------------------------
(* UTF-16 *)

UnitWidth(units) ==
    IF Len(units) > 1 /\ IsHighSurrogate(units[1]) /\ IsLowSurrogate(units[2]) THEN 2 ELSE 1

UnitsCodePoint(units) ==
    IF Len(units) = 1 THEN units[1]
    ELSE 65536 + (units[1] - 55296) * 1024 + (units[2] - 56320)

UnitsOf(cp) ==
    IF cp > 65535 THEN <<55296 + (cp - 65536) \div 1024, 56320 + ((cp - 65536) % 1024)>> ELSE <<cp>>

EncodeUtf16(name) == FlattenSeq([i \in DOMAIN name |-> UnitsOf(name[i])])

-----------------------------------------------------------------------------
(* UTF-8 *)

\* char::encode_utf8
Utf8(cp) ==
    LET Continued(weight) == 128 + ((cp \div weight) % 64) IN
    CASE cp < 128 -> <<cp>>
      [] 128 <= cp /\ cp < 2048 -> <<192 + cp \div 64, Continued(1)>>
      [] 2048 <= cp /\ cp < 65536 -> <<224 + cp \div 4096, Continued(64), Continued(1)>>
      [] OTHER -> <<240 + cp \div 262144, Continued(4096), Continued(64), Continued(1)>>

\* The bits that two to four bytes carry, be they well formed or not.
Payload(bytes) ==
    CASE Len(bytes) = 1 -> bytes[1]
      [] Len(bytes) = 2 -> (bytes[1] % 32) * 64 + (bytes[2] % 64)
      [] Len(bytes) = 3 -> (bytes[1] % 16) * 4096 + (bytes[2] % 64) * 64 + (bytes[3] % 64)
      [] OTHER -> (bytes[1] % 8) * 262144 + (bytes[2] % 64) * 4096 + (bytes[3] % 64) * 64
                      + (bytes[4] % 64)

\* str::from_utf8 takes these bytes for one character: no overlong form, no surrogate.
IsUtf8Char(bytes) == IsChar(Payload(bytes)) /\ Utf8(Payload(bytes)) = bytes

ByteWidth(bytes) ==
    LET wellFormed == {k \in 1..4 : k <= Len(bytes) /\ IsUtf8Char(SubSeq(bytes, 1, k))}
    IN IF wellFormed = {} THEN 1 ELSE CHOOSE k \in wellFormed : TRUE

BytesCodePoint(bytes) == IF IsUtf8Char(bytes) THEN Payload(bytes) ELSE 56320 + bytes[1]

\* Mutant: an escaped byte is not known again.
BytesOfChars(cp) == IF IsChar(cp) THEN Utf8(cp) ELSE Utf8(Replacement)

BytesOf(cp) ==
    IF IsEscapedByte(cp) THEN <<cp - 56320>>
    ELSE IF IsChar(cp) THEN Utf8(cp) ELSE Utf8(Replacement)

EncodeBytes(name) == FlattenSeq([i \in DOMAIN name |-> BytesOf(name[i])])

-----------------------------------------------------------------------------
(* decode_name, which is decode_utf16 or decode_bytes, and encode_os_name *)

Width(backend, units) == IF backend = "windows" THEN UnitWidth(units) ELSE ByteWidth(units)
CodePoint(backend, units) ==
    IF backend = "windows" THEN UnitsCodePoint(units) ELSE BytesCodePoint(units)

\* Cut the spelling greedily into characters and ill-formed units, one code point for each.
DecodeName(backend, spelling) ==
    LET From(k) == SubSeq(spelling, k, Len(spelling))
        decoded[k \in 1..(Len(spelling) + 1)] ==
            IF k > Len(spelling) THEN <<>>
            ELSE LET next == k + Width(backend, From(k))
                 IN <<CodePoint(backend, SubSeq(spelling, k, next - 1))>> \o decoded[next]
    IN decoded[1]

EncodeName(backend, name) == IF backend = "windows" THEN EncodeUtf16(name) ELSE EncodeBytes(name)
=============================================================================
