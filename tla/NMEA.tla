-------------------------------- MODULE NMEA --------------------------------
(***************************************************************************)
(* Lines of the GPS receiver and how they are read (Tele/Src/NMEA.cpp).    *)
(*                                                                         *)
(* A line is a sequence of bytes, none of them NUL when it is sent; its    *)
(* checksum, the exclusive or of its contents, is written with two         *)
(* hexadecimal digits.  A day has Hours * Minutes * Seconds seconds, and a *)
(* time two decimal digits for each.  The fraction of a second is left     *)
(* out, and times fit their 32 bits, as they do until 2038.                *)
(***************************************************************************)
EXTENDS Integers, Sequences, SequencesExt

CONSTANTS
    Hours, Minutes, Seconds,  \* 24, 60, 60
    Noise                     \* what a damaged character may become

Bytes == 0..255

ASSUME NMEAAssumption ==
    /\ {Hours, Minutes, Seconds} \subseteq 1..100
    /\ Noise \subseteq Bytes

Day == Hours * Minutes * Seconds

\* Characters of a line, by their codes.
Digit(n) == 48 + n
HexDigit(n) == IF n < 10 THEN 48 + n ELSE 55 + n
Dollar == 36
Star == 42
Comma == 44
Dot == 46
East == 69
Metres == 77
North == 78
GP == <<71, 80>>
GGA == <<71, 71, 65>>

Error == [error |-> TRUE]
IsError(res) == "error" \in DOMAIN res

-----------------------------------------------------------------------------
(* Reading a line.                                                         *)

\* The exclusive or, of the halves of two bytes and of bytes.
HalfXor(a, b) ==
    LET Bit(w) == w * ((a \div w + b \div w) % 2)
    IN  Bit(1) + Bit(2) + Bit(4) + Bit(8)
XorOf == [a \in 0..15 |-> [b \in 0..15 |-> HalfXor(a, b)]]
Xor(a, b) == 16 * XorOf[a \div 16][b \div 16] + XorOf[a % 16][b % 16]

Checksum(str) ==
    LET sum[n \in 0..Len(str)] ==
            IF n = 0 THEN 0 ELSE Xor(sum[n - 1], str[n])
    IN  sum[Len(str)]

\* Digits of either case.
CharToHex(c) ==
    CASE c \in 48..57 -> c - 48
      [] c \in 97..102 -> 10 + c - 97
      [] c \in 65..70 -> 10 + c - 65
      [] OTHER -> 255
ExtractChecksum(str) ==
    LET lhs == CharToHex(str[1])
        rhs == CharToHex(str[2])
    IN  IF 255 \in {lhs, rhs} THEN -1 ELSE lhs * 16 + rhs

\* What successive calls of consume_csv return: an empty field at the very
\* end does not count.
Fields(csv) ==
    LET ends == {0, Len(csv) + 1} \cup {k \in DOMAIN csv : csv[k] = Comma}
        End(i) == CHOOSE k \in ends : Cardinality({j \in ends : j < k}) = i
        all == [i \in 1..(Cardinality(ends) - 1) |->
                   SubSeq(csv, End(i - 1) + 1, End(i) - 1)]
    IN  IF Last(all) = <<>> THEN Front(all) ELSE all

\* Mutant: only the first digit of the sum is compared.
ParseRawByHalf(str) ==
    LET contents == SubSeq(str, 2, Len(str) - 3)
        sum == ExtractChecksum(SubSeq(str, Len(str) - 1, Len(str)))
        head == Fields(contents)[1]
    IN  IF \/ Len(str) < 6
           \/ str[1] # Dollar
           \/ str[Len(str) - 2] # Star
           \/ sum = -1 \/ sum \div 16 # Checksum(contents) \div 16
           \/ Fields(contents) = <<>>
           \/ Len(head) < 3
        THEN Error
        ELSE [type |-> SubSeq(head, 3, Len(head)),
              fields |-> Tail(Fields(contents))]

\* parse_raw_message.
ParseRaw(str) ==
    LET contents == SubSeq(str, 2, Len(str) - 3)
        head == Fields(contents)[1]
    IN  IF \/ Len(str) < 6
           \/ str[1] # Dollar
           \/ str[Len(str) - 2] # Star
           \/ ExtractChecksum(SubSeq(str, Len(str) - 1, Len(str)))
                # Checksum(contents)
           \/ Fields(contents) = <<>>
           \/ Len(head) < 3
        THEN Error
        ELSE [type |-> SubSeq(head, 3, Len(head)),
              fields |-> Tail(Fields(contents))]

\* parse_time: what comes after the six digits, and the ranges, are not
\* looked at.
ParseTime(str) ==
    LET Value(k) == (str[k] - 48) * 10 + (str[k + 1] - 48)
    IN  IF Len(str) < 6 \/ \E k \in 1..6 : str[k] \notin 48..57 THEN Error
        ELSE [time |-> Value(5) + Value(3) * Seconds
                           + Value(1) * Minutes * Seconds]

\* The part of parse_line before the clock is set: a GGA line whose twelve
\* fields are there, and its time.
ParseLine(str) ==
    LET raw == ParseRaw(str)
    IN  IF IsError(raw) THEN Error
        ELSE IF raw.type # GGA \/ Len(raw.fields) < 12 THEN Error
        ELSE ParseTime(raw.fields[1])

-----------------------------------------------------------------------------
(* The receiver, and the wire.                                             *)

TwoDigits(n) == <<Digit(n \div 10), Digit(n % 10)>>
TimeText(tod) ==
    TwoDigits(tod \div (Minutes * Seconds))
        \o TwoDigits((tod \div Seconds) % Minutes) \o TwoDigits(tod % Seconds)

\* What is in the line for a position: time; latitude, N or S, longitude, E
\* or W and fix; satellites, dilution, altitude, unit, separation, unit; and
\* two that are empty.  Without a fix there is a time, if any, and no
\* position.
PositionFields(fix) ==
    IF fix THEN <<Digit(3), Digit(2), Dot, Digit(1), Comma, North, Comma,
                  Digit(3), Digit(2), Dot, Digit(1), Comma, East, Comma,
                  Digit(1)>>
    ELSE <<Comma, Comma, Comma, Comma, Digit(0)>>
OtherFields == <<Comma, Digit(7), Comma, Digit(2), Comma, Digit(9), Comma,
                 Metres, Comma, Digit(5), Comma, Metres, Comma, Comma>>
Contents(time, fix) ==
    GP \o GGA \o <<Comma>> \o time \o <<Comma>> \o PositionFields(fix)
       \o OtherFields

\* The line with these contents.
Framed(contents) ==
    LET sum == Checksum(contents)
    IN  <<Dollar>> \o contents
            \o <<Star, HexDigit(sum \div 16), HexDigit(sum % 16)>>

Sentence(time, fix) == Framed(Contents(time, fix))

\* One character lost, or become another one.
Damaged(str) ==
    ({RemoveAt(str, k) : k \in DOMAIN str}
        \cup {[str EXCEPT ![k] = c] : k \in DOMAIN str, c \in Noise}) \ {str}

\* What the lines for each time of day are read as, and damaged ones.
Position(tod) == Sentence(TimeText(tod), TRUE)
Readings(lines(_)) ==
    UNION {{[of |-> tod, res |-> ParseLine(str)] : str \in lines(tod)} :
              tod \in 0..(Day - 1)}
WholeReadings == Readings(LAMBDA tod : {Position(tod)})
DamagedReadings == Readings(LAMBDA tod : Damaged(Position(tod)))

\* A receiver without a fix sends no time or that of its own clock.
ReadWithoutFix ==
    {ParseLine(Sentence(text, FALSE)) : text \in {<<>>, TimeText(0)}}
=============================================================================
