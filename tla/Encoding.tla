------------------------------ MODULE Encoding ------------------------------
(***************************************************************************)
(* Bytes and the texts that carry them (crypto/utils.ts,                   *)
(* crypto/encryption/digest.ts): ciphertexts and nonces are stored as      *)
(* base64, read as base64 or as hexadecimal, and the digits of the one are *)
(* characters of the other.                                                *)
(*                                                                         *)
(* A byte is a number; a text is the sequence of its characters.  The 64   *)
(* characters of base64 stand as their positions in its alphabet, 0..63;   *)
(* the other characters that matter have numbers of their own.             *)
(***************************************************************************)
EXTENDS Integers, Sequences, FiniteSets

LOCAL INSTANCE SequencesExt

Pad == 64         \* =
Dash == 65        \* -, which is 62 in a URL
Underscore == 66  \* _, which is 63 in a URL
Blank == 67       \* white space
Invalid == <<-1>> \* the conversion throws

Flatten(ss) == FlattenSeq(ss)

Trimmed(text) ==
    LET ink == {i \in DOMAIN text : text[i] # Blank} IN
    IF ink = {} THEN <<>>
    ELSE SubSeq(text, CHOOSE i \in ink : \A j \in ink : i <= j,
                      CHOOSE i \in ink : \A j \in ink : i >= j)

-----------------------------------------------------------------------------
(* Hexadecimal *)

\* Small letters; capitals are read as well.
HexDigit(n) == IF n < 10 THEN 52 + n ELSE 26 + n - 10

HexDigits == (0..5) \cup (26..31) \cup (52..61)

HexValue(c) == CASE c \in 52..61 -> c - 52 [] c \in 26..31 -> c - 16 [] c \in 0..5 -> c + 10

IsHex(text) == \A i \in DOMAIN text : text[i] \in HexDigits

bytesToHex(bytes) ==
    Flatten([i \in DOMAIN bytes |-> <<HexDigit(bytes[i] \div 16), HexDigit(bytes[i] % 16)>>])

\* hexToBytes, and hexToUint8Array where its callers have looked at the digits.
hexToBytes(text) ==
    LET t == Trimmed(text) IN
    IF Len(t) % 2 # 0 \/ ~IsHex(t) THEN Invalid
    ELSE [i \in 1..(Len(t) \div 2) |-> 16 * HexValue(t[2 * i - 1]) + HexValue(t[2 * i])]

-----------------------------------------------------------------------------
(* Base64 *)

\* Three bytes, the missing ones 0, as four characters.
Sextets(a, b, c) ==
    << a \div 4, (a % 4) * 16 + b \div 16, (b % 16) * 4 + c \div 64, c % 64 >>

uint8ArrayToBase64(bytes) ==
    Flatten([i \in 1..((Len(bytes) + 2) \div 3) |->
        LET at(j) == IF 3 * (i - 1) + j \in DOMAIN bytes THEN bytes[3 * (i - 1) + j] ELSE 0
            left  == Len(bytes) - 3 * (i - 1)
            four  == Sextets(at(1), at(2), at(3)) IN
        CASE left = 1 -> SubSeq(four, 1, 2) \o <<Pad, Pad>>
          [] left = 2 -> SubSeq(four, 1, 3) \o <<Pad>>
          [] OTHER    -> four])

\* btoa for a URL: no padding, and two other characters.
uint8ArrayToBase64Url(bytes) ==
    LET text == SelectSeq(uint8ArrayToBase64(bytes), LAMBDA c : c # Pad) IN
    [i \in DOMAIN text |-> IF text[i] = 62 THEN Dash ELSE IF text[i] = 63 THEN Underscore ELSE text[i]]

\* atob of a text whose length is a multiple of 4: at most two = end it, and
\* one character alone cannot be a byte.
DecodeBase64(text) ==
    LET pads == {i \in DOMAIN text : text[i] = Pad}
        body == SubSeq(text, 1, Len(text) - Cardinality(pads))
        bit(j) == IF j \in DOMAIN body THEN body[j] ELSE 0
        three(i) == << bit(4*i + 1) * 4 + bit(4*i + 2) \div 16,
                       (bit(4*i + 2) % 16) * 16 + bit(4*i + 3) \div 4,
                       (bit(4*i + 3) % 4) * 64 + bit(4*i + 4) >>
    IN  IF Cardinality(pads) > 2 \/ (\E i \in DOMAIN body : body[i] \notin 0..63)
        THEN Invalid
        ELSE SubSeq(Flatten([i \in 1..((Len(body) + 3) \div 4) |-> three(i - 1)]),
                    1, (Len(body) * 3) \div 4)

base64ToUint8Array(text) ==
    LET t == Trimmed(text)
        standard == [i \in DOMAIN t |->
                        IF t[i] = Dash THEN 62 ELSE IF t[i] = Underscore THEN 63 ELSE t[i]]
        padding == [i \in 1..((4 - (Len(t) % 4)) % 4) |-> Pad]
    IN  DecodeBase64(standard \o padding)

-----------------------------------------------------------------------------
(* digest.ts *)

AnyLength == 0

\* Wrong: whatever is made of hexadecimal digits is read as such.
HexFirst(text, expectedLength) ==
    LET t == Trimmed(text) IN
    IF IsHex(t) /\ Len(t) % 2 = 0 THEN hexToBytes(t) ELSE base64ToUint8Array(t)

\* Hexadecimal if it has the length of that, else base64 of the right length,
\* else hexadecimal if it can be, else base64 of any length.
decodeBase64OrHex(text, expectedLength) ==
    LET t == Trimmed(text)
        bytes == base64ToUint8Array(t) IN
    CASE expectedLength # AnyLength /\ Len(t) = 2 * expectedLength /\ IsHex(t) -> hexToBytes(t)
      [] bytes # Invalid /\ expectedLength \in {AnyLength, Len(bytes)} -> bytes
      [] IsHex(t) /\ Len(t) % 2 = 0 -> hexToBytes(t)
      [] OTHER -> bytes

-----------------------------------------------------------------------------
(* Comparing, and random texts *)

\* The lengths, then every byte, whatever the ones before it were.
timingSafeEqual(a, b) ==
    Len(a) = Len(b) /\ {i \in DOMAIN a : a[i] # b[i]} = {}

\* The bytes that are not rejected, so that each letter has as many.
maxValidByte(alphabetLen) == 256 - (256 % alphabetLen)

\* The letter that a byte stands for, or none.
secureRandomString(byte, alphabetLen) ==
    IF byte < maxValidByte(alphabetLen) THEN byte % alphabetLen ELSE -1

-----------------------------------------------------------------------------
(* Properties *)

\* Every text is read as the bytes it was made of: base64 with and without a URL
\* in mind, hexadecimal, blanks around it, and either of the two where the length
\* of the bytes is known; where it is not, base64 is never taken for hexadecimal.
ReadAsWritten(byteStrings) ==
    \A b \in byteStrings :
        LET b64 == uint8ArrayToBase64(b) IN
        /\ base64ToUint8Array(<<Blank>> \o b64) = b
        /\ base64ToUint8Array(uint8ArrayToBase64Url(b)) = b
        /\ hexToBytes(bytesToHex(b) \o <<Blank>>) = b
        /\ Len(b) > 0 => /\ decodeBase64OrHex(b64, Len(b)) = b
                         /\ decodeBase64OrHex(bytesToHex(b), Len(b)) = b
        /\ decodeBase64OrHex(b64, AnyLength) = b

\* Two byte strings compare as equal exactly if they are, and each letter of an
\* alphabet is as likely as any other.
ComparesRight(byteStrings) ==
    \A a, b \in byteStrings : timingSafeEqual(a, b) <=> a = b

EvenlySpread(alphabets) ==
    \A n \in alphabets : \A letter \in 0..(n - 1) :
        Cardinality({byte \in 0..255 : secureRandomString(byte, n) = letter})
            = maxValidByte(n) \div n
=============================================================================
