------------------------------ MODULE MCFlash ------------------------------
(* Instances of Flash for TLC. *)
EXTENDS Flash

CONSTANTS Start0, Start1, Counts0, Counts1, low
MCStart == [b \in Banks |-> IF b = 0 THEN Start0 ELSE Start1]
MCFound == {[b \in Banks |-> IF b = 0 THEN n ELSE m] : n \in Counts0, m \in Counts1}

\* All erased, or programmed before.
MCContents == {[a \in Addresses |-> Bits], [a \in Addresses |-> {low}]}

\* Data that differ from word to word, and zeros.
MCSources == {[a \in Addresses |-> IF a % 4 \in {0, 3} THEN {D7} ELSE {low}],
              [a \in Addresses |-> {}]}

\* Relative to the first address of flash: a sector, the middle two, a length
\* that is rounded up, and an end that is not on a boundary.
Range(first, arg, plus) == [first |-> Start0 + first, arg |-> arg, plus |-> plus]
MCRanges == {Range(0, Start0 + 1, FALSE), Range(2, Start1 + 1, FALSE),
             Range(4, 3, TRUE), Range(0, Start0 + 2, FALSE)}

\* Unaligned at both ends, across the banks, the last sector, a length that
\* wraps around the address space, one that leaves flash, and a byte count of
\* 2^32, which is 0.
Copy(dest, cnt) == [dest |-> dest, cnt |-> cnt]
MCCopies == {Copy(Start0 + 1, 2), Copy(Start0 + 1, Start1 - Start0 + 1),
             Copy(Start1 + 2, 2), Copy(Start1 + 1, AddrSpace - 2),
             Copy(Start1, 5), Copy(Start1, 0)}

\* One more, which wraps around into the bank it began in.
MCCopiesBack == MCCopies \cup {Copy(Start1 + 2, AddrSpace - 1)}

MCWorn == {<<0, 1>>}
MCMonitorAt == [b \in Banks |-> IF b = 1 THEN Start1 ELSE NoAddr]

============================================================================
