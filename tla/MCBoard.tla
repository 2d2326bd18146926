------------------------------ MODULE MCBoard ------------------------------
(* A small instance of Board: days of twelve seconds of two ticks, keys of *)
(* two words of two binary digits.                                         *)
EXTENDS Board

MCStarts == {[date |-> [y |-> 2024, m |-> 2, d |-> 29], days |-> 19782],
             [date |-> [y |-> 2023, m |-> 12, d |-> 31], days |-> 19722]}
\* Every byte.
MCNoise == 0..255

\* A key that does not fill its words; one that is too great; one with a
\* character that is no digit in its low word, or in its high word; none; one
\* that is too long; and public keys that belong and do not belong to the key,
\* cannot be read, and are too long.
Plain(text) == [sk |-> text, pkx |-> <<>>, pky |-> <<>>]
Checked(y) == [sk |-> <<1, 0, 1>>, pkx |-> <<0, 1, 0, 1>>, pky |-> y]
MCConfigs ==
    {Plain(text) : text \in {<<1, 0, 1>>, <<1, 1, 1, 0>>, <<1, 0, 1, 9>>,
                             <<9, 0, 1>>, <<0, 0>>, <<1, 0, 1, 0, 1>>}}
        \cup {Checked(y) : y \in {<<1, 0, 1>>, <<1>>, <<9>>,
                                  <<1, 0, 0, 1, 1>>}}
MCWatched == {Plain(<<1, 0, 1>>)}

\* One is the key of the configurations.
MCRubbish == {<<1, 1>>, <<0, 3>>}
=============================================================================
