-------------------------- MODULE DelimitedReader --------------------------
(***************************************************************************)
(* The line reader (Tele/Inc/Tele/Delimited.hpp): it is given one          *)
(* character at a time and calls back with a line when it has matched the  *)
(* delimiter.                                                              *)
(*                                                                         *)
(* A byte is a record: its character `c' and `n', how many-th the peer has *)
(* sent.  The reader looks at `c' alone; `n' tells bytes apart.            *)
(***************************************************************************)
EXTENDS Naturals, Sequences

CONSTANTS
    Delimiter,  \* m_delimiter: a sequence of characters
    LineSize    \* the size of m_buffer

ASSUME ReaderAssumption ==
    /\ Delimiter \in Seq(STRING) /\ Delimiter # <<>>
    /\ LineSize \in Nat

\* A reader at the start of a line.
EmptyReader == [matched |-> 0, text |-> <<>>, overflown |-> FALSE]

\* ready: the callback is due, and try_finish follows at once.
Ready(r) == r.matched = Len(Delimiter)

\* Mutant: a character that breaks a match starts it again.
AddByteRestarting(r, b) ==
    IF b.c = Delimiter[r.matched + 1] THEN [r EXCEPT !.matched = @ + 1]
    ELSE IF Len(r.text) >= LineSize THEN [r EXCEPT !.overflown = TRUE]
    ELSE [r EXCEPT !.text = Append(@, b), !.matched = 0]

\* add_char_impl.  The delimiter is matched a character at a time, whatever
\* stands between its characters; what does not fit the buffer is left out.
AddByte(r, b) ==
    IF b.c = Delimiter[r.matched + 1] THEN [r EXCEPT !.matched = @ + 1]
    ELSE IF Len(r.text) >= LineSize THEN [r EXCEPT !.overflown = TRUE]
    ELSE [r EXCEPT !.text = Append(@, b)]

\* Mutant: the reader is not reset after the callback.
NextReaderUnfinished(r, b) == AddByte(r, b)

\* The state add_char leaves behind.
NextReader(r, b) == IF Ready(AddByte(r, b)) THEN EmptyReader ELSE AddByte(r, b)

\* The lines handed to the callback: none or one.
LinesOut(r, b) ==
    LET s == AddByte(r, b)
    IN  IF Ready(s) THEN <<[text |-> s.text, overflown |-> s.overflown]>> ELSE <<>>
=============================================================================
