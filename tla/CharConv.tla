------------------------------ MODULE CharConv ------------------------------
(***************************************************************************)
(* Big numbers written as text: from_chars of Tele/CharConv.hpp, which     *)
(* reads a text of any length, from its end, into an array of words.       *)
(* A character is a number; those below Radix are the digits.              *)
(***************************************************************************)
EXTENDS Integers, Sequences, SequencesExt

CONSTANTS
    Radix,        \* 16
    SegmentSize   \* digits in a word, sizeof(T) * 2

ASSUME CharConvAssumption ==
    /\ Radix \in Nat /\ Radix > 1
    /\ SegmentSize \in Nat \ {0}

Digits == 0..(Radix - 1)
Number(digits) ==
    LET upTo[n \in 0..Len(digits)] ==
            IF n = 0 THEN 0 ELSE upTo[n - 1] * Radix + digits[n]
    IN  upTo[Len(digits)]

\* s up to, and from, its first character outside a set.
Before(s, chars) ==
    LET n == SelectInSeq(s, LAMBDA c : c \notin chars)
    IN  IF n = 0 THEN s ELSE SubSeq(s, 1, n - 1)
From(s, chars) == SubSeq(s, Len(Before(s, chars)) + 1, Len(s))

\* Mutant: the digits that do not fill a word are forgotten.
SegmentCountFull(input) == Len(input) \div SegmentSize

SegmentCount(input) == (Len(input) + SegmentSize - 1) \div SegmentSize

\* The word number i, counted from the end of the text, its leading zeros
\* removed; the first one of the text may be short.
Segment(input, i) ==
    LET last == Len(input) - (i - 1) * SegmentSize
        first == IF last < SegmentSize THEN 1 ELSE last - SegmentSize + 1
        rest == From(SubSeq(input, first, last), {0})
    IN  IF rest = <<>> THEN <<0>> ELSE rest

\* std::from_chars takes the digits a text begins with, and fails when there
\* are none; what follows them is not looked at.
Word(segment) == Number(Before(segment, Digits))
Unreadable(segment) == Before(segment, Digits) = <<>>

\* The array after from_chars, in the little order, the only one asked for.
\* A text that is too long changes nothing, one with an unreadable word
\* leaves the words before it written.
FromChars(output, input) ==
    LET count == SegmentCount(input)
        bad == {i \in 1..count : Unreadable(Segment(input, i))}
        written == {i \in 1..count : \A j \in bad : i < j}
    IN  IF count > Len(output) THEN output
        ELSE [i \in DOMAIN output |->
                 IF i \in written THEN Word(Segment(input, i))
                 ELSE IF bad = {} THEN 0 ELSE output[i]]

\* A word has as many values.
WordRange ==
    LET power[n \in 0..SegmentSize] ==
            IF n = 0 THEN 1 ELSE power[n - 1] * Radix
    IN  power[SegmentSize]

\* What an array of words is worth, the low word first.
Worth(words) ==
    LET last[n \in 0..Len(words)] ==
            IF n = 0 THEN 0
            ELSE last[n - 1] * WordRange + words[Len(words) - n + 1]
    IN  last[Len(words)]
=============================================================================
