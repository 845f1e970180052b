--------------------------------- MODULE Hex ---------------------------------
(***************************************************************************)
(* sv2int: unsigned integers from texts (lib/jevmachopp/Hex.cpp and .h).   *)
(* A text says whether it starts with "0x" and has more behind it, and has *)
(* a value for each other character: 0 .. 15 for a digit, NotADigit for    *)
(* what is none, upper case included.                                      *)
(***************************************************************************)
EXTENDS Integers, SequencesExt

NotADigit == 16

\* What an empty std::optional is.
NoInt == -1

is_decimal_digit(d) == d < 10
is_hex_digit(d) == d < 16

\* Digit i, from the last one on, goes into half a byte: an even one is put
\* into the upper half and shifted down, an odd one stays.
PutNibble(bytes, i, d) ==
    LET byte == bytes[(i \div 2) + 1] + 16 * d
    IN [bytes EXCEPT ![(i \div 2) + 1] = IF i % 2 = 0 THEN byte \div 16 ELSE byte]

\* The bytes of the integer, the lowest first; <<>> is failure.
sv2int_hex_helper(digits, int_buf_sz) ==
    LET n == Len(digits)
        bytes[i \in 0 .. n] ==
            IF i = 0 THEN [k \in 1 .. int_buf_sz |-> 0]
            ELSE PutNibble(bytes[i - 1], i - 1, digits[n + 1 - i])
    IN IF n > 2 * int_buf_sz \/ \E i \in DOMAIN digits : ~is_hex_digit(digits[i])
         THEN <<>> ELSE bytes[n]

\* The integer whose bytes they are.
LittleEndian(bytes) ==
    LET from[k \in 1 .. Len(bytes) + 1] ==
            IF k > Len(bytes) THEN 0 ELSE bytes[k] + 256 * from[k + 1]
    IN from[1]

\* How many integers there are of a size in bytes.
Integers256(size) ==
    LET power[k \in 0 .. size] == IF k = 0 THEN 1 ELSE 256 * power[k - 1]
    IN power[size]

\* Decimal digits are accumulated in the integer itself, which wraps.
Accumulated(digits, size) ==
    LET res[i \in 0 .. Len(digits)] ==
            IF i = 0 THEN 0 ELSE (10 * res[i - 1] + digits[i]) % Integers256(size)
    IN res[Len(digits)]

sv2int(text, size) ==
    LET bytes == sv2int_hex_helper(text.digits, size)
        allowed == \A i \in DOMAIN text.digits : is_decimal_digit(text.digits[i])
    IN IF text.hex
         THEN IF bytes = <<>> THEN NoInt ELSE LittleEndian(bytes)
         ELSE IF allowed THEN Accumulated(text.digits, size) ELSE NoInt

\* The number that a text of digits denotes.
Denotes(text) ==
    LET base == IF text.hex THEN 16 ELSE 10
        upto[i \in 0 .. Len(text.digits)] ==
            IF i = 0 THEN 0 ELSE base * upto[i - 1] + text.digits[i]
    IN upto[Len(text.digits)]
=============================================================================
