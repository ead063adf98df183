----------------------------- MODULE FlashRange -----------------------------
(***************************************************************************)
(* Which sectors an erase or protect command is about: flash_sect_roundb,  *)
(* addr_spec and flash_fill_sect_ranges of common/cmd_flash.c over the two *)
(* banks that flash_get_size (board/eltec/bab7xx/flash.c) found; either    *)
(* bank may have other chips than the other, or none that are known.       *)
(*                                                                         *)
(* Addresses are ulong, taken modulo AddrSpace: the end of a bank at the   *)
(* top of the address space is 0.                                          *)
(***************************************************************************)
EXTENDS Integers

CONSTANTS
  AddrSpace,      \* 2^32
  SectorSize,     \* 64 KiB for the three chips that are known
  Start,          \* Start[b]: FLASH_BASE0_PRELIM and FLASH_BASE1_PRELIM
  Found           \* the pairs of sector counts that flash_get_size() may return

VARIABLE
  SectorCount     \* SectorCount[b]: 0 for a bank that is FLASH_UNKNOWN

Banks == {0, 1}   \* CONFIG_SYS_MAX_FLASH_BANKS

ASSUME FlashRangeAssumption ==
  /\ AddrSpace \in Nat \ {0}
  /\ SectorSize \in Nat \ {0, 1}
  /\ Start \in [Banks -> 1 .. AddrSpace - 1]
  /\ Found \subseteq [Banks -> Nat]
  /\ \A n \in Found : \A b \in Banks : Start[b] + n[b] * SectorSize <= AddrSpace
  /\ \A n \in Found : Start[0] + n[0] * SectorSize <= Start[1]

Addresses == 0 .. AddrSpace - 1
NoAddr == AddrSpace
Ulong(n) == n % AddrSpace

Known(b) == SectorCount[b] > 0
LastSector(b) == SectorCount[b] - 1
SectorsOf(b) == 0 .. LastSector(b)
Sectors == {x \in Banks \X (0 .. SectorCount[0] + SectorCount[1]) : x[2] \in SectorsOf(x[1])}

start(b, s) == Ulong(Start[b] + s * SectorSize)
b_end(b) == Ulong(Start[b] + SectorCount[b] * SectorSize - 1)
end(b, s) == IF s = LastSector(b) THEN b_end(b) ELSE Ulong(start(b, s + 1) - 1)

\* The sectors that the address is in: at most one.
At(addr) == {x \in Sectors : start(x[1], x[2]) <= addr /\ addr <= end(x[1], x[2])}

\* Adjust addr to the end of its sector; NoAddr when it is not in flash.
flash_sect_roundb(addr) ==
  IF At(addr) = {} THEN NoAddr
  ELSE LET at == CHOOSE x \in At(addr) : TRUE IN end(at[1], at[2])

\* The second argument is the last address, or with a '+' the length.
addr_spec(first, arg, plus) ==
  IF plus THEN flash_sect_roundb(Ulong(first + arg - 1)) ELSE arg

---------------------------------------------------------------------------
(***************************************************************************)
(* One turn of the loop of flash_fill_sect_ranges: first is what is left   *)
(* of the range after the banks before.  rcode 1 ends the loop.            *)
(***************************************************************************)
Touched(b, first, last) == {s \in SectorsOf(b) : first <= end(b, s) /\ start(b, s) <= last}

\* Mutant: a range that ends inside a sector is cut to the sectors before.
s_last_cut(b, first, last) ==
  IF last > b_end(b) THEN {LastSector(b)}
  ELSE {s \in Touched(b, first, last) : end(b, s) <= last
                                    /\ \A t \in Touched(b, first, last) : end(b, t) <= last => t <= s}

\* Mutant: a range may begin anywhere in a sector.
s_first_any(b, first, last) ==
  {s \in Touched(b, first, last) : start(b, s) <= first /\ first <= end(b, s)}

s_first(b, first, last) == {s \in Touched(b, first, last) : first = start(b, s)}
s_last(b, first, last) ==
  LET exact == {s \in Touched(b, first, last) : last = end(b, s)}
  IN IF exact = {} /\ s_first(b, first, last) # {} /\ last > b_end(b)
       THEN {LastSector(b)} ELSE exact

BankRange(b, first, last) ==
  LET f == s_first(b, first, last)
      l == s_last(b, first, last)
      chosen == {s \in SectorsOf(b) : (\E x \in f : x <= s) /\ (\E y \in l : s <= y)}
  IN IF ~Known(b) \/ first > last
       THEN [rcode |-> 0, sel |-> {}, next |-> first]
     ELSE IF f # {}
       THEN IF chosen = {}                       \* not on a boundary, or reversed
              THEN [rcode |-> 1, sel |-> {}, next |-> first]
              ELSE [rcode |-> 0, sel |-> chosen,
                    next |-> IF LastSector(b) \in l THEN Ulong(b_end(b) + 1)
                             ELSE start(b, 1 + CHOOSE y \in l : TRUE)]
     ELSE [rcode |-> IF (Start[b] <= first /\ first < b_end(b)) \/ l # {} THEN 1 ELSE 0,
           sel |-> {}, next |-> first]

flash_fill_sect_ranges(first, last) ==
  LET r0 == BankRange(0, first, last)
      r1 == BankRange(1, r0.next, last)
  IN IF r0.rcode = 1 \/ r1.rcode = 1 THEN [rcode |-> 1, sel |-> {}]
     ELSE [rcode |-> 0,
           sel   |-> {x \in Sectors : x[2] \in IF x[1] = 0 THEN r0.sel ELSE r1.sel}]

\* What do_flerase and do_protect make of "<first> <arg>" or "<first> +<arg>":
\* the sectors, or no sectors and an error.
Command(first, arg, plus) ==
  LET last == addr_spec(first, arg, plus)
  IN IF last = NoAddr \/ first >= last
       THEN [rcode |-> 1, sel |-> {}]
     ELSE LET r == flash_fill_sect_ranges(first, last)
          IN IF r.rcode = 0 /\ r.sel = {} THEN [rcode |-> 1, sel |-> {}] ELSE r

=============================================================================
