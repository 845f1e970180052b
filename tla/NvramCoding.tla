----------------------------- MODULE NvramCoding -----------------------------
(***************************************************************************)
(* The escape coding of binary data in NVRAM variables                     *)
(* (lib/jevmachopp/NVRAM.cpp): no byte of it is 0, because a run of up to  *)
(* MAX_RUN bytes 0x00 or 0xFF is written as 0xFF and its length, with the  *)
(* upper bit set for 0xFF.  NVRAM.h offers it, but the one call in the     *)
(* repository is disabled; here a client encodes data and decodes them     *)
(* again, with buffers of several sizes and with the terminating 0 or      *)
(* without.                                                                *)
(***************************************************************************)
EXTENDS Integers, SequencesExt

CONSTANTS
    UPPER,      \* 0x80, or less to have short runs that are too long for a count
    MaxBytes,   \* length of the data (a bound)
    DataBytes   \* the bytes in them

MAX_RUN == UPPER - 1        \* 0x7F
FF == 2 * UPPER - 1         \* 0xFF

ASSUME NvramCodingAssumption ==
    /\ UPPER \in Nat \ {0, 1} /\ MaxBytes \in Nat
    /\ DataBytes \subseteq 0 .. FF

VARIABLES
    coding,     \* "escape", "unescape", "decoding", "done" or how it has ended
    plain,      \* what is encoded
    enc_size,   \* bytes in the buffer for the encoded data
    escaped,    \* the encoded bytes; then the span of them that is decoded
    dec_size,   \* bytes in the buffer for the decoded data
    offset,     \* encoded bytes read so far
    decoded     \* bytes written into that buffer so far

codingVars == <<coding, plain, enc_size, escaped, dec_size, offset, decoded>>

\* The assertion that the buffer has room for the data as they are.
CodingInit ==
    /\ plain \in BoundedSeq(DataBytes, MaxBytes)
    /\ enc_size \in {Len(plain), 2 * Len(plain) + 1}
    /\ coding = "escape" /\ escaped = <<>> /\ dec_size = 0 /\ offset = 0 /\ decoded = <<>>

\* Mutation of RunGoesOn: one more than a count can say.
RunGoesOnTooLong(acc, byte) == acc.run > 0 /\ byte = acc.byte /\ acc.run <= MAX_RUN

RunGoesOn(acc, byte) == acc.run > 0 /\ byte = acc.byte /\ acc.run < MAX_RUN

\* The next byte lengthens a run, begins one, or stands for itself.
EscapeByte(acc, byte) ==
    LET first == <<FF, (IF byte = FF THEN UPPER ELSE 0) + 1>>
    IN CASE byte \notin {0, FF} ->
                [out |-> Append(acc.out, byte), byte |-> byte, run |-> 0]
         [] byte \in {0, FF} /\ ~RunGoesOn(acc, byte) ->
                [out |-> acc.out \o first, byte |-> byte, run |-> 1]
         [] OTHER ->
                [out |-> [acc.out EXCEPT ![Len(acc.out)] = @ + 1], byte |-> byte, run |-> acc.run + 1]

\* It writes first, then asserts that there was room.
escapeDataToData ==
    /\ coding = "escape"
    /\ escaped' = Append(FoldLeft(EscapeByte, [out |-> <<>>, byte |-> 0, run |-> 0], plain).out, 0)
    /\ coding' = IF Len(escaped') <= enc_size THEN "unescape" ELSE "overrun"
    /\ UNCHANGED <<plain, enc_size, dec_size, offset, decoded>>

\* How many bytes the byte behind an 0xFF stands for.
Count(byte) == byte % UPPER

\* 0 when a count of 0 is found.
decodedDataLen(bytes) ==
    LET bad == -1
        len[o \in 1 .. Len(bytes) + 2] ==
            CASE o > Len(bytes) -> 0
              [] o <= Len(bytes) /\ bytes[o] # FF -> IF len[o + 1] = bad THEN bad ELSE 1 + len[o + 1]
              [] OTHER -> IF bytes[o + 1] = 0 \/ len[o + 2] = bad THEN bad
                          ELSE Count(bytes[o + 1]) + len[o + 2]
    IN IF len[1] = bad THEN 0 ELSE len[1]

\* The client passes a span of what it has encoded and a buffer that is at
\* least as long.
UnescapeBegin ==
    /\ coding = "unescape"
    /\ \E span \in {escaped, Front(escaped)}, extra \in 0 .. 1 :
          /\ escaped' = span /\ dec_size' = Len(span) + extra
          /\ coding' = CASE decodedDataLen(span) = 0 -> "done"
                         [] decodedDataLen(span) > dec_size' -> "aborted"
                         [] OTHER -> "decoding"
    /\ UNCHANGED <<plain, enc_size, offset, decoded>>

\* One round of unescapeBytesToData, which counts the encoded bytes up to the
\* length of the DECODED buffer: one that is longer makes it read on.
UnescapeRound ==
    /\ coding = "decoding"
    /\ \/ offset = dec_size /\ coding' = "done" /\ UNCHANGED <<offset, decoded>>
       \/ /\ offset < dec_size /\ offset = Len(escaped)
          /\ coding' = "overread" /\ UNCHANGED <<offset, decoded>>
       \/ /\ offset < dec_size /\ offset < Len(escaped)
          /\ LET byte == escaped[offset + 1]
                 count == escaped[offset + 2]
             IN IF byte = FF
                  THEN /\ offset' = offset + 2
                       /\ decoded' = decoded \o [k \in 1 .. Count(count) |-> IF count >= UPPER THEN FF ELSE 0]
                  ELSE offset' = offset + 1 /\ decoded' = Append(decoded, byte)
          /\ UNCHANGED coding
    /\ UNCHANGED <<plain, enc_size, escaped, dec_size>>

CodingNext == escapeDataToData \/ UnescapeBegin \/ UnescapeRound

-----------------------------------------------------------------------------
\* Decoding what was encoded gives the data back, also for runs that one count
\* cannot say, whenever it returns: provided that the terminating 0 is not
\* passed (it would be decoded as a byte) and the buffer has the length of the
\* encoded bytes; then it reads no byte behind them.
CodingRoundTrips ==
    dec_size = Len(escaped) /\ (escaped # <<>> => Last(escaped) # 0) =>
        /\ coding = "done" => decoded = plain /\ decodedDataLen(escaped) = Len(plain)
        /\ coding # "overread"
=============================================================================
