---------------------------- MODULE FlashCommand ----------------------------
(***************************************************************************)
(* One erase or protect command: a user types any pair of arguments in     *)
(* either form, on a board with any of the pairs of chips, and the command *)
(* picks its sectors once.                                                 *)
(***************************************************************************)
EXTENDS FlashRange

VARIABLES
  first, arg, plus,   \* what was typed
  out                 \* what the command did; rcode 2 before it ran

rangeVars == <<SectorCount, first, arg, plus, out>>

RangeInit ==
  /\ SectorCount \in Found
  /\ first \in Addresses
  /\ arg \in Addresses
  /\ plus \in BOOLEAN
  /\ out = [rcode |-> 2, sel |-> {}]

RunCommand ==
  /\ out.rcode = 2
  /\ out' = Command(first, arg, plus)
  /\ UNCHANGED <<SectorCount, first, arg, plus>>

RangeSpec == RangeInit /\ [][RunCommand]_rangeVars

---------------------------------------------------------------------------
Bytes(sectors) == {a \in Addresses : \E x \in sectors : x \in At(a)}
InFlash == {a \in Addresses : At(a) # {}}

\* What was asked for.  The end address itself belongs to the range: the help
\* text says "from addr 'start' to addr 'end'", and the end must be the last
\* address of a sector.  The comment on addr_spec() writes <'start', 'end'),
\* which would leave it out.
AskedBytes ==
  IF plus THEN {a \in Addresses : \E i \in 0 .. arg - 1 : a = first + i} ELSE first .. arg

\* An erase or protect command never touches a sector that reaches out of the
\* range asked for, both addresses included; the form with a length may go on
\* to the end of the sector its last byte is in, and no further
\* (flash_fill_sect_ranges, addr_spec).
NeverBeyond ==
  out.rcode = 0 =>
    Bytes(out.sel) \subseteq
      IF plus THEN {a \in InFlash : \E c \in AskedBytes : At(a) = At(c)} ELSE AskedBytes

\* The range goes on from the first bank over a gap into the second: bank 1 is
\* then passed over without an error unless the range ends with a sector.
OverGap ==
  /\ \A b \in Banks : Known(b)
  /\ b_end(0) + 1 # Start[1]
  /\ \E a \in AskedBytes : a \in Start[0] .. b_end(0)
  /\ \E a \in AskedBytes : a \in Start[1] .. b_end(1)

\* When the command does not report an error, every byte of flash that was
\* asked for is in a sector it picked, with wrapping lengths, ends in the
\* middle of a sector, banks of different size and ranges that span both banks
\* among the arguments (flash_fill_sect_ranges).
CoversRange == out.rcode = 0 /\ ~OverGap => AskedBytes \cap InFlash \subseteq Bytes(out.sel)

=============================================================================
