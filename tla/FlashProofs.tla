----------------------------- MODULE FlashProofs -----------------------------
(***************************************************************************)
(* The properties of protect, erase and cp for banks of any size, words of *)
(* any size and any contents.  First which sectors a command is about:     *)
(* where they lie, that they do not overlap, and that the ones             *)
(* flash_fill_sect_ranges() picks are those of the range.  Then that       *)
(* FlashInv is inductive, and that each step that changes cells changes    *)
(* only those the properties allow.                                        *)
(***************************************************************************)
EXTENDS Flash, FlashCommand, TLAPS

---------------------------------------------------------------------------
(* Arithmetic. *)

\* Multiplication by a sector size keeps the order.
LEMMA TimesMonotone ==
  ASSUME NEW m \in Nat, NEW n \in Nat, NEW k \in Nat, m <= n
  PROVE  m * k <= n * k
<1>1. (n - m) * k >= 0
  OBVIOUS
<1>2. n * k = m * k + (n - m) * k
  OBVIOUS
<1>. QED  BY <1>1, <1>2

\* A ulong that does not overflow is the number itself.
LEMMA UlongIs ==
  ASSUME NEW n \in 0 .. AddrSpace - 1
  PROVE  Ulong(n) = n
  BY FlashRangeAssumption DEF Ulong

\* A ulong that overflows once.
LEMMA UlongOver ==
  ASSUME NEW n \in Int, AddrSpace <= n, n < 2 * AddrSpace
  PROVE  Ulong(n) = n - AddrSpace
  BY FlashRangeAssumption DEF Ulong

\* A ulong that underflows once.
LEMMA UlongUnder ==
  ASSUME NEW n \in Int, -AddrSpace <= n, n < 0
  PROVE  Ulong(n) = n + AddrSpace
  BY FlashRangeAssumption DEF Ulong

---------------------------------------------------------------------------
(* Where the sectors lie. *)

\* The first address of a sector, and the address after a bank.
Low(b, s) == Start[b] + s * SectorSize
High(b) == Low(b, SectorCount[b])

\* The banks are where the assumption puts them.
LEMMA BankPlace ==
  ASSUME SectorCount \in Found
  PROVE  /\ \A b \in Banks : /\ SectorCount[b] \in Nat /\ Start[b] \in Nat /\ 0 < Start[b]
                              /\ Start[b] < AddrSpace
                              /\ High(b) \in Nat /\ Start[b] <= High(b) /\ High(b) <= AddrSpace
         /\ High(0) <= Start[1]
         /\ 0 \in Banks /\ 1 \in Banks
         /\ AddrSpace \in Nat /\ SectorSize \in Nat /\ SectorSize > 1
<1>1. /\ SectorCount \in [Banks -> Nat] /\ Start \in [Banks -> 1 .. AddrSpace - 1]
      /\ AddrSpace \in Nat /\ SectorSize \in Nat /\ SectorSize > 1
      /\ 0 \in Banks /\ 1 \in Banks
  BY FlashRangeAssumption DEF Banks
<1>2. /\ \A b \in Banks : High(b) <= AddrSpace
      /\ High(0) <= Start[1]
  BY FlashRangeAssumption, Zenon DEF High, Low
<1>3. ASSUME NEW b \in Banks
      PROVE  SectorCount[b] * SectorSize \in Nat
  <2>1. SectorCount[b] \in Nat
    BY <1>1, Zenon
  <2>. QED  BY <1>1, <2>1
<1>4. ASSUME NEW b \in Banks
      PROVE  /\ SectorCount[b] \in Nat /\ Start[b] \in Nat /\ 0 < Start[b]
             /\ Start[b] < AddrSpace
             /\ High(b) \in Nat /\ Start[b] <= High(b) /\ High(b) <= AddrSpace
  BY <1>1, <1>2, <1>3 DEF High, Low
<1>. QED  BY <1>1, <1>2, <1>4, Zenon

\* A sector is the addresses from Low on, without overflow, and within its bank.
LEMMA SectorPlace ==
  ASSUME SectorCount \in Found, NEW b \in Banks, NEW s \in SectorsOf(b)
  PROVE  /\ s \in Nat /\ s < SectorCount[b] /\ LastSector(b) \in SectorsOf(b)
         /\ Low(b, s) \in Nat /\ Start[b] <= Low(b, s) /\ Low(b, s) + SectorSize <= High(b)
         /\ start(b, s) = Low(b, s)
         /\ end(b, s) = Low(b, s) + SectorSize - 1
         /\ b_end(b) = High(b) - 1
         /\ s = LastSector(b) => end(b, s) = b_end(b)
         /\ s # LastSector(b) => s + 1 \in SectorsOf(b) /\ start(b, s + 1) = end(b, s) + 1
<1>1. /\ SectorCount[b] \in Nat /\ Start[b] \in Nat /\ High(b) \in Nat
      /\ High(b) <= AddrSpace /\ AddrSpace \in Nat /\ SectorSize \in Nat /\ SectorSize > 1
  BY BankPlace, Zenon
<1>2. s \in Nat /\ s < SectorCount[b] /\ s + 1 <= SectorCount[b] /\ LastSector(b) \in SectorsOf(b)
  BY <1>1 DEF SectorsOf, LastSector
<1>3. ASSUME NEW t \in Nat, t < SectorCount[b]
      PROVE  /\ Low(b, t) \in Nat /\ Start[b] <= Low(b, t) /\ Low(b, t) + SectorSize <= High(b)
             /\ Low(b, t + 1) = Low(b, t) + SectorSize
             /\ start(b, t) = Low(b, t)
  <2>1. t * SectorSize \in Nat
    BY <1>1
  <2>2. (t + 1) * SectorSize = t * SectorSize + SectorSize
    BY <1>1
  <2>3. (t + 1) * SectorSize <= SectorCount[b] * SectorSize
    BY <1>1, <1>3, TimesMonotone
  <2>4. SectorCount[b] * SectorSize \in Nat
    BY <1>1
  <2>5. /\ Low(b, t) \in Nat /\ Start[b] <= Low(b, t) /\ Low(b, t) + SectorSize <= High(b)
        /\ Low(b, t + 1) = Low(b, t) + SectorSize
    BY <1>1, <2>1, <2>2, <2>3, <2>4 DEF High, Low
  <2>6. start(b, t) = Ulong(Low(b, t)) /\ Low(b, t) \in 0 .. AddrSpace - 1
    BY <1>1, <2>5 DEF start, Low
  <2>. QED  BY <2>5, <2>6, UlongIs, Zenon
<1>4. b_end(b) = High(b) - 1
  <2>1. b_end(b) = Ulong(High(b) - 1) /\ High(b) - 1 \in 0 .. AddrSpace - 1
    BY <1>1, <1>2, <1>3 DEF b_end, High, Low
  <2>. QED  BY <2>1, UlongIs, Zenon
<1>5. CASE s = LastSector(b)
  <2>1. s + 1 = SectorCount[b]
    BY <1>1, <1>5 DEF LastSector
  <2>2. Low(b, s) + SectorSize = High(b)
    BY <1>2, <1>3, <2>1, Zenon DEF High
  <2>. QED  BY <1>1, <1>2, <1>3, <1>4, <1>5, <2>2 DEF end
<1>6. CASE s # LastSector(b)
  <2>1. s + 1 \in Nat /\ s + 1 < SectorCount[b] /\ s + 1 \in SectorsOf(b)
    BY <1>1, <1>2, <1>6 DEF LastSector, SectorsOf
  <2>2. start(b, s + 1) = Low(b, s) + SectorSize
    BY <1>2, <1>3, <2>1, Zenon
  <2>3. end(b, s) = Ulong(Low(b, s) + SectorSize - 1)
    BY <1>1, <1>2, <1>3, <1>6, <2>2 DEF end
  <2>4. Low(b, s) + SectorSize - 1 \in 0 .. AddrSpace - 1
    BY <1>1, <1>2, <1>3
  <2>. QED  BY <1>1, <1>2, <1>3, <1>4, <1>6, <2>1, <2>2, <2>3, <2>4, UlongIs
<1>. QED  BY <1>5, <1>6, Zenon

\* The sectors of a bank are in order.
LEMMA SectorOrder ==
  ASSUME SectorCount \in Found, NEW b \in Banks, NEW s \in SectorsOf(b), NEW t \in SectorsOf(b)
  PROVE  s < t <=> end(b, s) < start(b, t)
<1>1. /\ s \in Nat /\ t \in Nat /\ Low(b, s) \in Nat /\ Low(b, t) \in Nat
      /\ end(b, s) = Low(b, s) + SectorSize - 1 /\ start(b, t) = Low(b, t)
      /\ SectorSize \in Nat /\ SectorSize > 1 /\ Start[b] \in Nat
  BY SectorPlace, BankPlace, Zenon
<1>2. CASE s < t
  <2>1. (s + 1) * SectorSize <= t * SectorSize
    BY <1>1, <1>2, TimesMonotone
  <2>2. (s + 1) * SectorSize = s * SectorSize + SectorSize
    BY <1>1
  <2>3. s * SectorSize \in Nat /\ t * SectorSize \in Nat
    BY <1>1
  <2>. QED  BY <1>1, <1>2, <2>1, <2>2, <2>3 DEF Low
<1>3. CASE t <= s
  <2>1. t * SectorSize <= s * SectorSize
    BY <1>1, <1>3, TimesMonotone, Zenon
  <2>2. s * SectorSize \in Nat /\ t * SectorSize \in Nat
    BY <1>1
  <2>. QED  BY <1>1, <1>3, <2>1, <2>2 DEF Low
<1>. QED  BY <1>1, <1>2, <1>3

\* Bank 0 comes before bank 1.
LEMMA BankOrder ==
  ASSUME SectorCount \in Found, NEW s \in SectorsOf(0), NEW t \in SectorsOf(1)
  PROVE  end(0, s) < start(1, t)
<1>1. Low(0, s) \in Nat /\ Low(0, s) + SectorSize <= High(0) /\ end(0, s) = Low(0, s) + SectorSize - 1
  BY SectorPlace, BankPlace, Zenon
<1>2. Start[1] <= Low(1, t) /\ start(1, t) = Low(1, t) /\ Low(1, t) \in Nat
  BY SectorPlace, BankPlace, Zenon
<1>3. High(0) <= Start[1] /\ High(0) \in Nat /\ Start[1] \in Nat /\ SectorSize \in Nat
  BY BankPlace, Zenon
<1>. QED  BY <1>1, <1>2, <1>3

\* A sector is named by its bank and its number.
LEMMA SectorName ==
  /\ \A x \in Sectors : x[1] \in Banks /\ x[2] \in SectorsOf(x[1]) /\ x = <<x[1], x[2]>>
  /\ SectorCount \in Found => \A b \in Banks : \A s \in SectorsOf(b) : <<b, s>> \in Sectors
<1>1. \A x \in Sectors : x[1] \in Banks /\ x[2] \in SectorsOf(x[1]) /\ x = <<x[1], x[2]>>
  BY DEF Sectors
<1>2. ASSUME SectorCount \in Found, NEW b \in Banks, NEW s \in SectorsOf(b)
      PROVE  <<b, s>> \in Sectors
  <2>1. s \in Nat /\ s < SectorCount[b] /\ SectorCount[0] \in Nat /\ SectorCount[1] \in Nat
    BY <1>2, SectorPlace, BankPlace, Zenon
  <2>2. s \in 0 .. SectorCount[0] + SectorCount[1]
    BY <2>1 DEF Banks
  <2>. QED  BY <2>2, Zenon DEF Sectors
<1>. QED  BY <1>1, <1>2, Zenon

\* No address is in two sectors.
LEMMA OneSector ==
  ASSUME SectorCount \in Found, NEW a \in Addresses, NEW x \in At(a), NEW y \in At(a)
  PROVE  x = y
<1>1. /\ x[1] \in Banks /\ x[2] \in SectorsOf(x[1]) /\ x = <<x[1], x[2]>>
      /\ start(x[1], x[2]) <= a /\ a <= end(x[1], x[2])
  BY SectorName, Zenon DEF At
<1>2. /\ y[1] \in Banks /\ y[2] \in SectorsOf(y[1]) /\ y = <<y[1], y[2]>>
      /\ start(y[1], y[2]) <= a /\ a <= end(y[1], y[2])
  BY SectorName, Zenon DEF At
<1>3. /\ a \in Nat /\ start(x[1], x[2]) \in Nat /\ end(x[1], x[2]) \in Int
      /\ start(y[1], y[2]) \in Nat /\ end(y[1], y[2]) \in Int
  BY <1>1, <1>2, SectorPlace, BankPlace DEF Addresses
<1>4. CASE x[1] = y[1]
  <2>1. x[2] \in Nat /\ y[2] \in Nat /\ ~(x[2] < y[2]) /\ ~(y[2] < x[2])
    BY <1>1, <1>2, <1>3, <1>4, SectorOrder, SectorPlace
  <2>. QED  BY <1>1, <1>2, <1>4, <2>1
<1>5. CASE x[1] # y[1]
  BY <1>1, <1>2, <1>3, <1>5, BankOrder DEF Banks
<1>. QED  BY <1>4, <1>5, Zenon

\* The chips stay where they are.
LEMMA PlaceFixed ==
  ASSUME UNCHANGED SectorCount
  PROVE  /\ \A b : b_end(b)' = b_end(b) /\ LastSector(b)' = LastSector(b) /\ Known(b)' = Known(b)
         /\ \A b, s : start(b, s)' = start(b, s) /\ end(b, s)' = end(b, s)
         /\ \A b : SectorsOf(b)' = SectorsOf(b)
         /\ Sectors' = Sectors
         /\ \A a : At(a)' = At(a)
<1>1. \A b : b_end(b)' = b_end(b) /\ LastSector(b)' = LastSector(b) /\ Known(b)' = Known(b)
  BY Zenon DEF b_end, LastSector, Known
<1>2. \A b, s : start(b, s)' = start(b, s) /\ end(b, s)' = end(b, s)
  BY <1>1, Zenon DEF start, end
<1>3. (\A b : SectorsOf(b)' = SectorsOf(b)) /\ Sectors' = Sectors
  BY <1>1, Zenon DEF SectorsOf, Sectors
<1>4. \A a : At(a)' = At(a)
  BY <1>2, <1>3, Zenon DEF At
<1>. QED  BY <1>1, <1>2, <1>3, <1>4, Zenon

\* The bytes of a sector, and that it has some.
LEMMA BytesOfSector ==
  ASSUME SectorCount \in Found, NEW x \in Sectors
  PROVE  /\ start(x[1], x[2]) \in Addresses /\ end(x[1], x[2]) \in Addresses
         /\ start(x[1], x[2]) < end(x[1], x[2])
         /\ \A a \in Addresses : x \in At(a) <=> start(x[1], x[2]) <= a /\ a <= end(x[1], x[2])
<1>1. x[1] \in Banks /\ x[2] \in SectorsOf(x[1])
  BY SectorName, Zenon
<1>2. /\ Low(x[1], x[2]) \in Nat /\ Low(x[1], x[2]) + SectorSize <= High(x[1])
      /\ start(x[1], x[2]) = Low(x[1], x[2]) /\ end(x[1], x[2]) = Low(x[1], x[2]) + SectorSize - 1
      /\ High(x[1]) \in Nat /\ High(x[1]) <= AddrSpace
      /\ SectorSize \in Nat /\ SectorSize > 1 /\ AddrSpace \in Nat
  BY <1>1, SectorPlace, BankPlace, Zenon
<1>. QED  BY <1>2 DEF Addresses, At

---------------------------------------------------------------------------
(* Which sectors are picked. *)

\* The sectors x to y of a bank are the ones for the range from lo to hi: the
\* range begins with x, and ends with y or beyond the bank, of which y is then
\* the last; next is where the range goes on.
Picks(b, lo, hi, x, y, next) ==
  /\ x \in SectorsOf(b) /\ y \in SectorsOf(b) /\ x <= y
  /\ lo = start(b, x)
  /\ hi = end(b, y) \/ (y = LastSector(b) /\ b_end(b) < hi)
  /\ y = LastSector(b) => next = Ulong(b_end(b) + 1)
  /\ y # LastSector(b) => next = end(b, y) + 1

\* A range begins with at most one sector, and ends with at most one.
LEMMA FirstAndLast ==
  ASSUME SectorCount \in Found, NEW b \in Banks, NEW lo \in Addresses, NEW hi \in Addresses
  PROVE  /\ \A s, t \in s_first(b, lo, hi) : s = t
         /\ \A s, t \in s_last(b, lo, hi) : s = t
<1>1. ASSUME NEW s \in SectorsOf(b), NEW t \in SectorsOf(b),
             start(b, s) = start(b, t) \/ end(b, s) = end(b, t)
      PROVE  s = t
  <2>1. /\ s \in Nat /\ t \in Nat /\ start(b, s) \in Nat /\ start(b, t) \in Nat
        /\ end(b, s) = start(b, s) + SectorSize - 1 /\ end(b, t) = start(b, t) + SectorSize - 1
        /\ SectorSize \in Nat /\ SectorSize > 1
    BY SectorPlace, BankPlace
  <2>2. ~(s < t) /\ ~(t < s)
    BY <1>1, <2>1, SectorOrder
  <2>. QED  BY <2>1, <2>2
<1>2. \A s, t \in s_first(b, lo, hi) : s = t
  BY <1>1, Zenon DEF s_first, Touched
<1>3. s_last(b, lo, hi) = {LastSector(b)} \/ \A s \in s_last(b, lo, hi) : s \in SectorsOf(b) /\ hi = end(b, s)
  BY Zenon DEF s_last, Touched
<1>4. \A s, t \in s_last(b, lo, hi) : s = t
  BY <1>1, <1>3, Zenon
<1>. QED  BY <1>2, <1>4, Zenon

\* What one turn of the loop over the banks picks.
LEMMA BankPicks ==
  ASSUME SectorCount \in Found, NEW b \in Banks, NEW lo \in Addresses, NEW hi \in Addresses,
         BankRange(b, lo, hi).rcode = 0
  PROVE  \/ /\ BankRange(b, lo, hi).sel = {} /\ BankRange(b, lo, hi).next = lo
            /\ \/ ~Known(b) \/ lo > hi
               \/ /\ s_first(b, lo, hi) = {} /\ s_last(b, lo, hi) = {}
                  /\ ~(Start[b] <= lo /\ lo < b_end(b))
         \/ \E x, y \in SectorsOf(b) :
              /\ Picks(b, lo, hi, x, y, BankRange(b, lo, hi).next)
              /\ BankRange(b, lo, hi).sel = {s \in SectorsOf(b) : x <= s /\ s <= y}
<1> DEFINE r == BankRange(b, lo, hi)
           f == s_first(b, lo, hi)
           l == s_last(b, lo, hi)
           chosen == {s \in SectorsOf(b) : (\E x \in f : x <= s) /\ (\E y \in l : s <= y)}
<1>1. r = IF ~Known(b) \/ lo > hi
            THEN [rcode |-> 0, sel |-> {}, next |-> lo]
          ELSE IF f # {}
            THEN IF chosen = {}
                   THEN [rcode |-> 1, sel |-> {}, next |-> lo]
                   ELSE [rcode |-> 0, sel |-> chosen,
                         next |-> IF LastSector(b) \in l THEN Ulong(b_end(b) + 1)
                                  ELSE start(b, 1 + CHOOSE y \in l : TRUE)]
          ELSE [rcode |-> IF (Start[b] <= lo /\ lo < b_end(b)) \/ l # {} THEN 1 ELSE 0,
                sel |-> {}, next |-> lo]
  BY Zenon DEF BankRange
<1>2. CASE ~Known(b) \/ lo > hi
  BY <1>1, <1>2
<1>3. CASE ~(~Known(b) \/ lo > hi) /\ f = {}
  BY <1>1, <1>3
<1>4. CASE ~(~Known(b) \/ lo > hi) /\ f # {}
  <2>1. chosen # {} /\ r.sel = chosen
        /\ r.next = IF LastSector(b) \in l THEN Ulong(b_end(b) + 1)
                    ELSE start(b, 1 + CHOOSE y \in l : TRUE)
    BY <1>1, <1>4
  <2>2. PICK s \in SectorsOf(b), x \in f, y \in l : x <= s /\ s <= y
    BY <2>1, Zenon
  <2>3. f = {x} /\ l = {y}
    BY <2>2, FirstAndLast
  <2>4. x \in SectorsOf(b) /\ lo = start(b, x)
    BY <2>2, Zenon DEF s_first, Touched
  <2>5. /\ y \in SectorsOf(b)
        /\ hi = end(b, y) \/ (y = LastSector(b) /\ b_end(b) < hi)
    BY <2>2, <2>4, SectorPlace, Zenon DEF s_last, Touched
  <2>6. x <= y
    <3>1. \A t \in SectorsOf(b) : t \in Nat
      BY SectorPlace, Zenon
    <3>. QED  BY <2>2, <2>4, <2>5, <3>1
  <2>7. y # LastSector(b) => r.next = end(b, y) + 1
    <3>1. (CHOOSE z \in l : TRUE) = y
      BY <2>3, Zenon
    <3>2. y # LastSector(b) => r.next = start(b, 1 + y)
      BY <2>1, <2>3, <3>1, Zenon
    <3>3. y \in Nat /\ 1 + y = y + 1
      BY <2>5, SectorPlace
    <3>. QED  BY <2>5, <3>2, <3>3, SectorPlace
  <2>8. y = LastSector(b) => r.next = Ulong(b_end(b) + 1)
    BY <2>1, <2>3, Zenon
  <2>9. chosen = {t \in SectorsOf(b) : x <= t /\ t <= y}
    BY <2>3, Zenon
  <2>. QED  BY <2>1, <2>4, <2>5, <2>6, <2>7, <2>8, <2>9, Zenon DEF Picks
<1>. QED  BY <1>2, <1>3, <1>4, Zenon

\* The picked sectors of a bank are in the range, and those that the range
\* touches are picked.
LEMMA PicksExactly ==
  ASSUME SectorCount \in Found, NEW b \in Banks, NEW lo \in Addresses, NEW hi \in Addresses,
         NEW x, NEW y, NEW n, Picks(b, lo, hi, x, y, n), NEW s \in SectorsOf(b)
  PROVE  /\ x <= s /\ s <= y => lo <= start(b, s) /\ end(b, s) <= hi
         /\ lo <= end(b, s) /\ start(b, s) <= hi => x <= s /\ s <= y
<1>1. /\ x \in SectorsOf(b) /\ y \in SectorsOf(b) /\ lo = start(b, x)
      /\ hi = end(b, y) \/ (y = LastSector(b) /\ b_end(b) < hi)
  BY Zenon DEF Picks
<1>2. ASSUME NEW t \in SectorsOf(b)
      PROVE  /\ t \in Nat /\ t <= LastSector(b) /\ LastSector(b) \in Nat
             /\ start(b, t) \in Nat /\ end(b, t) \in Nat
             /\ start(b, t) < end(b, t) /\ (t = LastSector(b) => end(b, t) = b_end(b))
  <2>1. /\ t \in Nat /\ LastSector(b) \in SectorsOf(b) /\ start(b, t) \in Nat
        /\ end(b, t) = start(b, t) + SectorSize - 1
        /\ (t = LastSector(b) => end(b, t) = b_end(b)) /\ SectorSize \in Nat /\ SectorSize > 1
    BY SectorPlace, BankPlace
  <2>2. t <= LastSector(b) /\ LastSector(b) \in Nat
    BY <2>1 DEF SectorsOf
  <2>. QED  BY <2>1, <2>2
<1>3. /\ x < s <=> end(b, x) < start(b, s)
      /\ s < x <=> end(b, s) < start(b, x)
      /\ y < s <=> end(b, y) < start(b, s)
      /\ s < y <=> end(b, s) < start(b, y)
  BY <1>1, SectorOrder, Zenon
<1>4. /\ x \in Nat /\ y \in Nat /\ s \in Nat /\ lo \in Nat /\ hi \in Nat /\ s <= LastSector(b)
      /\ start(b, x) \in Nat /\ start(b, s) \in Nat /\ start(b, y) \in Nat
      /\ end(b, x) \in Nat /\ end(b, s) \in Nat /\ end(b, y) \in Nat
      /\ start(b, x) < end(b, x) /\ start(b, s) < end(b, s) /\ start(b, y) < end(b, y)
      /\ hi = end(b, y) \/ (y = LastSector(b) /\ end(b, y) < hi)
  BY <1>1, <1>2 DEF Addresses
<1>5. ASSUME x <= s, s <= y PROVE lo <= start(b, s) /\ end(b, s) <= hi
  <2>1. start(b, x) <= start(b, s)
    BY <1>3, <1>4, <1>5
  <2>2. end(b, s) <= end(b, y)
    BY <1>3, <1>4, <1>5
  <2>. QED  BY <1>1, <1>4, <2>1, <2>2
<1>6. ASSUME lo <= end(b, s), start(b, s) <= hi PROVE x <= s /\ s <= y
  <2>1. x <= s
    BY <1>1, <1>3, <1>4, <1>6
  <2>2. s <= y
    BY <1>1, <1>3, <1>4, <1>6
  <2>. QED  BY <2>1, <2>2, Zenon
<1>. QED  BY <1>5, <1>6, Zenon

\* After bank 0 the range goes on without overflow, behind the bank or, if it
\* ends in the bank, behind its end.
LEMMA PicksNext ==
  ASSUME SectorCount \in Found, NEW lo \in Addresses, NEW hi \in Addresses,
         NEW x, NEW y, NEW n, Picks(0, lo, hi, x, y, n)
  PROVE  /\ n \in Addresses /\ lo < n
         /\ Start[0] <= lo /\ lo <= b_end(0) /\ b_end(0) + 1 = High(0)
         /\ y = LastSector(0) => n = High(0)
         /\ y # LastSector(0) => hi < High(0)
<1>1. /\ x \in SectorsOf(0) /\ y \in SectorsOf(0) /\ lo = start(0, x) /\ 0 \in Banks
      /\ hi = end(0, y) \/ y = LastSector(0)
      /\ y = LastSector(0) => n = Ulong(b_end(0) + 1)
      /\ y # LastSector(0) => n = end(0, y) + 1
  BY Zenon DEF Picks, Banks
<1>2. /\ Low(0, x) \in Nat /\ Start[0] <= Low(0, x) /\ Low(0, x) + SectorSize <= High(0)
      /\ start(0, x) = Low(0, x) /\ b_end(0) = High(0) - 1
  BY <1>1, SectorPlace, Zenon
<1>3. /\ Low(0, y) \in Nat /\ Low(0, y) + SectorSize <= High(0)
      /\ end(0, y) = Low(0, y) + SectorSize - 1
  BY <1>1, SectorPlace, Zenon
<1>4. /\ High(0) \in Nat /\ High(0) < AddrSpace /\ AddrSpace \in Nat /\ Start[0] \in Nat
      /\ SectorSize \in Nat /\ SectorSize > 1
  BY BankPlace
<1>5. y = LastSector(0) => n = High(0)
  <2>1. b_end(0) + 1 = High(0) /\ High(0) \in 0 .. AddrSpace - 1
    BY <1>2, <1>4
  <2>. QED  BY <1>1, <2>1, UlongIs, Zenon
<1>6. lo <= start(0, y) /\ start(0, y) = Low(0, y)
  <2>1. x <= y /\ y <= y
    BY <1>1, SectorPlace DEF Picks
  <2>. QED  BY <1>1, <2>1, PicksExactly, SectorPlace, Zenon
<1>. QED  BY <1>1, <1>2, <1>3, <1>4, <1>5, <1>6 DEF Addresses

\* flash_fill_sect_ranges() without an error picks sectors that lie in the
\* range, the first of which begins it, and all that the range touches unless
\* it runs over a gap between the banks.
LEMMA RangePicks ==
  ASSUME SectorCount \in Found, NEW lo \in Addresses, NEW hi \in Addresses,
         flash_fill_sect_ranges(lo, hi).rcode = 0, flash_fill_sect_ranges(lo, hi).sel # {}
  PROVE  /\ \A z \in flash_fill_sect_ranges(lo, hi).sel :
              z \in Sectors /\ lo <= start(z[1], z[2]) /\ end(z[1], z[2]) <= hi
         /\ \E z \in flash_fill_sect_ranges(lo, hi).sel : lo = start(z[1], z[2])
         /\ \A z \in Sectors :
              /\ lo <= end(z[1], z[2]) /\ start(z[1], z[2]) <= hi
              /\ ~(/\ z[1] = 1 /\ b_end(0) + 1 # Start[1] /\ Known(0)
                   /\ Start[0] <= lo /\ lo <= b_end(0))
              => z \in flash_fill_sect_ranges(lo, hi).sel
<1> DEFINE r0 == BankRange(0, lo, hi)
           r1 == BankRange(1, r0.next, hi)
           r == flash_fill_sect_ranges(lo, hi)
<1>1. /\ r0.rcode # 1 /\ r1.rcode # 1
      /\ r.sel = {z \in Sectors : z[2] \in IF z[1] = 0 THEN r0.sel ELSE r1.sel}
  BY Zenon DEF flash_fill_sect_ranges
<1>2. r0.rcode = 0 /\ r1.rcode = 0
  BY <1>1, Zenon DEF BankRange
<1>3. r0.next \in Addresses
  BY <1>2, BankPicks, PicksNext, Zenon DEF Banks
<1>4. \/ r0.sel = {} /\ r0.next = lo
      \/ \E x, y \in SectorsOf(0) : /\ Picks(0, lo, hi, x, y, r0.next)
                                   /\ r0.sel = {s \in SectorsOf(0) : x <= s /\ s <= y}
  BY <1>2, BankPicks DEF Banks
<1>5. \/ r1.sel = {} /\ (~Known(1) \/ r0.next > hi \/ s_first(1, r0.next, hi) = {})
      \/ \E x, y \in SectorsOf(1) : /\ Picks(1, r0.next, hi, x, y, r1.next)
                                   /\ r1.sel = {s \in SectorsOf(1) : x <= s /\ s <= y}
  BY <1>2, <1>3, BankPicks DEF Banks
<1>6. ASSUME NEW s \in r0.sel
      PROVE  s \in SectorsOf(0) /\ lo <= start(0, s) /\ end(0, s) <= hi
  <2>1. PICK x, y \in SectorsOf(0) : /\ Picks(0, lo, hi, x, y, r0.next)
                                     /\ r0.sel = {t \in SectorsOf(0) : x <= t /\ t <= y}
    BY <1>4, <1>6, Zenon
  <2>. QED  BY <2>1, PicksExactly DEF Banks
<1>7. ASSUME NEW s \in r1.sel
      PROVE  s \in SectorsOf(1) /\ lo <= start(1, s) /\ end(1, s) <= hi
  <2>1. PICK x, y \in SectorsOf(1) : /\ Picks(1, r0.next, hi, x, y, r1.next)
                                     /\ r1.sel = {t \in SectorsOf(1) : x <= t /\ t <= y}
    BY <1>5, <1>7, Zenon
  <2>2. s \in SectorsOf(1) /\ r0.next <= start(1, s) /\ end(1, s) <= hi
    BY <1>3, <2>1, PicksExactly DEF Banks
  <2>3. lo <= r0.next
    BY <1>4, PicksNext DEF Addresses
  <2>4. start(1, s) \in Nat
    BY <2>2, SectorPlace DEF Banks
  <2>. QED  BY <1>3, <2>2, <2>3, <2>4 DEF Addresses
<1>8. \A z \in r.sel : z \in Sectors /\ lo <= start(z[1], z[2]) /\ end(z[1], z[2]) <= hi
  BY <1>1, <1>6, <1>7, SectorName, Zenon DEF Banks
<1>9. ASSUME r0.sel = {}
      PROVE  /\ r0.next = lo
             /\ \E x, y \in SectorsOf(1) : /\ Picks(1, lo, hi, x, y, r1.next)
                                          /\ r1.sel = {s \in SectorsOf(1) : x <= s /\ s <= y}
  <2>1. r0.next = lo
    <3>1. ASSUME NEW x \in SectorsOf(0), NEW y \in SectorsOf(0), Picks(0, lo, hi, x, y, r0.next),
                 r0.sel = {s \in SectorsOf(0) : x <= s /\ s <= y}
          PROVE  FALSE
      <4>1. x <= x /\ x <= y
        BY <3>1, SectorPlace DEF Picks, Banks
      <4>. QED  BY <1>9, <3>1, <4>1, Zenon
    <3>. QED  BY <1>4, <3>1, Zenon
  <2>2. r1.sel # {}
    BY <1>1, <1>9, Zenon
  <2>3. PICK x, y \in SectorsOf(1) : /\ Picks(1, r0.next, hi, x, y, r1.next)
                                     /\ r1.sel = {s \in SectorsOf(1) : x <= s /\ s <= y}
    BY <1>5, <2>2, Zenon
  <2>4. Picks(1, lo, hi, x, y, r1.next)
    BY <2>1, <2>3, Zenon
  <2>. QED  BY <2>1, <2>3, <2>4, Zenon
<1>10. \E z \in r.sel : lo = start(z[1], z[2])
  <2>1. ASSUME NEW b \in Banks, NEW x \in SectorsOf(b), NEW y \in SectorsOf(b), NEW n,
               Picks(b, lo, hi, x, y, n),
               (IF b = 0 THEN r0.sel ELSE r1.sel) = {s \in SectorsOf(b) : x <= s /\ s <= y}
        PROVE  <<b, x>> \in r.sel /\ lo = start(b, x)
    <3>1. x <= x /\ x <= y /\ lo = start(b, x)
      BY <2>1, SectorPlace DEF Picks
    <3>2. <<b, x>> \in Sectors /\ <<b, x>>[1] = b /\ <<b, x>>[2] = x
      BY SectorName, Zenon
    <3>. QED  BY <1>1, <2>1, <3>1, <3>2, Zenon
  <2>2. \E b \in Banks : \E x \in SectorsOf(b) : <<b, x>> \in r.sel /\ lo = start(b, x)
    <3>1. CASE r0.sel = {}
      BY <1>9, <2>1, <3>1 DEF Banks
    <3>2. CASE r0.sel # {}
      BY <1>4, <2>1, <3>2 DEF Banks
    <3>. QED  BY <3>1, <3>2, Zenon
  <2>3. PICK b \in Banks : \E x \in SectorsOf(b) : <<b, x>> \in r.sel /\ lo = start(b, x)
    BY <2>2, Zenon
  <2>4. PICK x \in SectorsOf(b) : <<b, x>> \in r.sel /\ lo = start(b, x)
    BY <2>3, Zenon
  <2>5. lo = start(<<b, x>>[1], <<b, x>>[2])
    BY <2>4, Zenon
  <2>. QED  BY <2>4, <2>5, Zenon
<1>11. ASSUME NEW s \in SectorsOf(0), lo <= end(0, s), start(0, s) <= hi
       PROVE  s \in r0.sel
  <2>1. CASE r0.sel = {}
    <3>1. PICK x, y \in SectorsOf(1) : Picks(1, lo, hi, x, y, r1.next)
      BY <1>9, <2>1, Zenon
    <3>2. end(0, s) < start(1, x) /\ lo = start(1, x)
      BY <3>1, BankOrder, Zenon DEF Picks
    <3>3. end(0, s) \in Int /\ lo \in Int
      BY SectorPlace, BankPlace DEF Banks, Addresses
    <3>. QED  BY <1>11, <3>2, <3>3
  <2>2. CASE r0.sel # {}
    <3>1. PICK x, y \in SectorsOf(0) : /\ Picks(0, lo, hi, x, y, r0.next)
                                       /\ r0.sel = {t \in SectorsOf(0) : x <= t /\ t <= y}
      BY <1>4, <2>2, Zenon
    <3>. QED  BY <1>11, <3>1, PicksExactly DEF Banks
  <2>. QED  BY <2>1, <2>2, Zenon
<1>12. ASSUME NEW s \in SectorsOf(1), lo <= end(1, s), start(1, s) <= hi,
              ~(/\ b_end(0) + 1 # Start[1] /\ Known(0) /\ Start[0] <= lo /\ lo <= b_end(0))
       PROVE  s \in r1.sel
  <2>1. CASE r0.sel = {}
    <3>1. PICK x, y \in SectorsOf(1) : /\ Picks(1, lo, hi, x, y, r1.next)
                                       /\ r1.sel = {t \in SectorsOf(1) : x <= t /\ t <= y}
      BY <1>9, <2>1, Zenon
    <3>. QED  BY <1>12, <3>1, PicksExactly DEF Banks
  <2>2. CASE r0.sel # {}
    <3>1. PICK x, y \in SectorsOf(0) : Picks(0, lo, hi, x, y, r0.next)
      BY <1>4, <2>2, Zenon
    <3>2. /\ Start[0] <= lo /\ lo <= b_end(0) /\ b_end(0) + 1 = High(0)
          /\ y = LastSector(0) => r0.next = High(0)
          /\ y # LastSector(0) => hi < High(0)
      BY <3>1, PicksNext, Zenon
    <3>3. /\ Start[1] <= start(1, s) /\ start(1, s) \in Nat /\ end(1, s) = start(1, s) + SectorSize - 1
          /\ SectorSize \in Nat /\ SectorSize > 1
          /\ 0 < SectorCount[0] /\ High(0) <= Start[1] /\ High(0) \in Nat /\ Start[1] \in Nat
      BY <3>1, SectorPlace, BankPlace DEF Picks, Banks
    <3>4. y = LastSector(0) /\ High(0) = Start[1] /\ r0.next = Start[1]
      BY <1>12, <3>2, <3>3 DEF Known, Addresses
    <3>5. 0 \in SectorsOf(1) /\ start(1, 0) = Start[1] /\ Start[1] <= end(1, 0)
      <4>1. s \in Nat /\ s < SectorCount[1] /\ SectorCount[1] \in Nat /\ 1 \in Banks
        BY SectorPlace, BankPlace, Zenon DEF Banks
      <4>2. 0 \in SectorsOf(1)
        BY <4>1 DEF SectorsOf, LastSector
      <4>3. Low(1, 0) = Start[1]
        BY <3>3 DEF Low
      <4>. QED  BY <3>3, <4>1, <4>2, <4>3, SectorPlace
    <3>6. Known(1) /\ r0.next <= hi /\ 0 \in s_first(1, r0.next, hi)
      <4>1. Start[1] <= hi
        BY <1>12, <3>3 DEF Addresses
      <4>2. Known(1)
        BY SectorPlace, BankPlace DEF Known, Banks
      <4>. QED  BY <3>3, <3>4, <3>5, <4>1, <4>2, Zenon DEF s_first, Touched
    <3>7. PICK u, v \in SectorsOf(1) : /\ Picks(1, r0.next, hi, u, v, r1.next)
                                       /\ r1.sel = {t \in SectorsOf(1) : u <= t /\ t <= v}
      BY <1>3, <1>5, <3>6 DEF Addresses
    <3>8. r0.next <= end(1, s)
      BY <3>3, <3>4, SMTT(30)
    <3>. QED  BY <1>3, <1>12, <3>7, <3>8, PicksExactly DEF Banks
  <2>. QED  BY <2>1, <2>2, Zenon
<1>13. ASSUME NEW z \in Sectors, lo <= end(z[1], z[2]), start(z[1], z[2]) <= hi,
              ~(/\ z[1] = 1 /\ b_end(0) + 1 # Start[1] /\ Known(0)
                /\ Start[0] <= lo /\ lo <= b_end(0))
       PROVE  z \in r.sel
  <2>1. z[1] \in {0, 1} /\ z[2] \in SectorsOf(z[1])
    BY SectorName, Zenon DEF Banks
  <2>2. CASE z[1] = 0
    BY <1>1, <1>11, <1>13, <2>1, <2>2, Zenon
  <2>3. CASE z[1] = 1
    BY <1>1, <1>12, <1>13, <2>1, <2>3
  <2>. QED  BY <2>1, <2>2, <2>3, Zenon
<1>. QED  BY <1>8, <1>10, <1>13, Zenon

---------------------------------------------------------------------------
(* The command. *)

\* A command without an error has picked sectors of the range up to last, its
\* second argument or the end of the sector that the last byte of the length is
\* in.  A length that is 0 or wraps around never gets so far.
LEMMA CommandPicks ==
  ASSUME SectorCount \in Found, NEW f \in Addresses, NEW g \in Addresses, NEW p \in BOOLEAN,
         Command(f, g, p).rcode = 0
  PROVE  \E last \in Addresses :
           /\ f < last
           /\ flash_fill_sect_ranges(f, last).rcode = 0
           /\ flash_fill_sect_ranges(f, last).sel # {}
           /\ Command(f, g, p).sel = flash_fill_sect_ranges(f, last).sel
           /\ ~p => last = g
           /\ p => /\ 1 <= g /\ f + g - 1 \in Addresses
                   /\ \E q \in At(f + g - 1) : last = end(q[1], q[2])
<1> DEFINE last == addr_spec(f, g, p)
           r == flash_fill_sect_ranges(f, last)
<1>1. /\ last # NoAddr /\ ~(f >= last) /\ r.rcode = 0 /\ r.sel # {}
      /\ Command(f, g, p).sel = r.sel
  <2>1. Command(f, g, p) = IF last = NoAddr \/ f >= last THEN [rcode |-> 1, sel |-> {}]
                           ELSE IF r.rcode = 0 /\ r.sel = {} THEN [rcode |-> 1, sel |-> {}] ELSE r
    BY Zenon DEF Command
  <2>2. r.rcode \in {0, 1}
    BY Zenon DEF flash_fill_sect_ranges
  <2>. QED  BY <2>1, <2>2
<1>2. CASE ~p
  <2>1. last = g
    BY <1>2, Zenon DEF addr_spec
  <2>2. f < g
    BY <1>1, <2>1 DEF Addresses
  <2>. QED  BY <1>1, <1>2, <2>1, <2>2, Zenon
<1>3. CASE p
  <2> DEFINE c == Ulong(f + g - 1)
  <2>1. At(c) # {} /\ last = LET q == CHOOSE x \in At(c) : TRUE IN end(q[1], q[2])
    BY <1>1, <1>3, Zenon DEF addr_spec, flash_sect_roundb
  <2>2. PICK q \in At(c) : last = end(q[1], q[2])
    BY <2>1, Zenon
  <2>3. AddrSpace \in Nat /\ AddrSpace > 0 /\ f \in Nat /\ g \in Nat /\ f < AddrSpace /\ g < AddrSpace
    BY FlashRangeAssumption DEF Addresses
  <2>4. c \in Addresses /\ c \in Nat
    BY <2>3, FlashRangeAssumption DEF Ulong, Addresses
  <2>5. /\ q \in Sectors /\ start(q[1], q[2]) <= c /\ c <= end(q[1], q[2])
        /\ start(q[1], q[2]) \in Nat /\ last \in Addresses /\ last \in Nat
    BY <2>2, BytesOfSector DEF At, Addresses
  <2>6. f < last
    BY <1>1, <2>3, <2>5
  <2>7. PICK z \in r.sel : f = start(z[1], z[2])
    BY <1>1, <2>5, RangePicks, Zenon
  <2>8. z \in Sectors /\ end(z[1], z[2]) <= last
    BY <1>1, <2>5, <2>7, RangePicks, Zenon
  <2>9. /\ f < end(z[1], z[2]) /\ end(z[1], z[2]) \in Nat /\ z \in At(f)
    BY <2>3, <2>7, <2>8, BytesOfSector DEF Addresses
  <2>10. f <= c
    <3>1. SUFFICES ASSUME c < f PROVE FALSE
      BY <2>3, <2>4
    <3>2. q \in At(f)
      <4>1. start(q[1], q[2]) <= f /\ f <= last
        BY <2>3, <2>4, <2>5, <2>6, <3>1
      <4>. QED  BY <2>2, <2>5, <4>1, Zenon DEF At
    <3>3. q = z
      BY <2>9, <3>2, OneSector, Zenon
    <3>. QED  BY <2>3, <2>4, <2>5, <2>7, <3>1, <3>3
  <2>11. 0 < f
    <3>1. z[1] \in Banks /\ z[2] \in SectorsOf(z[1])
      BY <2>8, SectorName, Zenon
    <3>2. /\ Start[z[1]] <= start(z[1], z[2]) /\ start(z[1], z[2]) \in Nat
          /\ Start[z[1]] \in Nat /\ 0 < Start[z[1]]
      <4>1. /\ Start[z[1]] <= Low(z[1], z[2]) /\ Low(z[1], z[2]) \in Nat
            /\ start(z[1], z[2]) = Low(z[1], z[2])
        BY <3>1, SectorPlace, Zenon
      <4>2. Start[z[1]] \in Nat /\ 0 < Start[z[1]]
        BY <3>1, BankPlace, Zenon
      <4>. QED  BY <4>1, <4>2, Zenon
    <3>. QED  BY <2>7, <3>2
  <2>12. f + g - 1 < AddrSpace
    <3>1. SUFFICES ASSUME AddrSpace <= f + g - 1 PROVE FALSE
      BY <2>3
    <3>2. c = f + g - 1 - AddrSpace
      BY <2>3, <3>1, UlongOver
    <3>. QED  BY <2>3, <2>10, <3>2
  <2>13. c = f + g - 1 /\ f + g - 1 \in Addresses
    <3>1. f + g - 1 \in 0 .. AddrSpace - 1
      BY <2>3, <2>11, <2>12
    <3>. QED  BY <3>1, UlongIs, Zenon DEF Addresses
  <2>14. 1 <= g
    BY <2>3, <2>10, <2>13
  <2>. QED  BY <1>1, <1>3, <2>2, <2>5, <2>6, <2>13, <2>14, Zenon
<1>. QED  BY <1>2, <1>3, Zenon

\* The type of what the command does.
LEMMA CommandType ==
  ASSUME NEW f, NEW g, NEW p
  PROVE  Command(f, g, p).rcode \in {0, 1} /\ Command(f, g, p).sel \subseteq Sectors
<1> DEFINE r == flash_fill_sect_ranges(f, addr_spec(f, g, p))
<1>1. r.rcode \in {0, 1} /\ r.sel \subseteq Sectors
  BY Zenon DEF flash_fill_sect_ranges
<1>2. Command(f, g, p) \in {[rcode |-> 1, sel |-> {}], r}
  BY Zenon DEF Command
<1>. QED  BY <1>1, <1>2

\* The invariant of the run: the command has not run yet, or has done what
\* Command says.
CommandInv ==
  /\ SectorCount \in Found /\ first \in Addresses /\ arg \in Addresses /\ plus \in BOOLEAN
  /\ out.rcode = 2 \/ out = Command(first, arg, plus)

\* It holds in every behaviour.
LEMMA CommandRuns == RangeSpec => []CommandInv
<1>1. RangeInit => CommandInv
  BY DEF RangeInit, CommandInv
<1>2. CommandInv /\ [RunCommand]_rangeVars => CommandInv'
  <2>. SUFFICES ASSUME CommandInv, [RunCommand]_rangeVars PROVE CommandInv'
    BY Zenon
  <2>1. UNCHANGED <<SectorCount, first, arg, plus>>
    BY Zenon DEF RunCommand, rangeVars
  <2>2. Command(first, arg, plus)' = Command(first, arg, plus)
    <3>1. /\ \A b : b_end(b)' = b_end(b) /\ LastSector(b)' = LastSector(b) /\ Known(b)' = Known(b)
          /\ \A b, s : start(b, s)' = start(b, s) /\ end(b, s)' = end(b, s)
          /\ \A b : SectorsOf(b)' = SectorsOf(b)
          /\ Sectors' = Sectors
          /\ \A a : At(a)' = At(a)
      BY <2>1, PlaceFixed, Zenon
    <3>2. addr_spec(first, arg, plus)' = addr_spec(first, arg, plus)
      <4>1. ASSUME NEW a PROVE flash_sect_roundb(a)' = flash_sect_roundb(a)
        <5>1. (CHOOSE x \in At(a)' : TRUE) = (CHOOSE x \in At(a) : TRUE)
          BY <3>1, Zenon
        <5>. QED  BY <3>1, <5>1, Zenon DEF flash_sect_roundb
      <4>. QED  BY <2>1, <4>1, Zenon DEF addr_spec
    <3>3. \A b, lo, hi : s_first(b, lo, hi)' = s_first(b, lo, hi) /\ s_last(b, lo, hi)' = s_last(b, lo, hi)
      BY <3>1 DEF s_first, s_last, Touched
    <3>4. ASSUME NEW b, NEW lo, NEW hi PROVE BankRange(b, lo, hi)' = BankRange(b, lo, hi)
      <4>1. /\ s_first(b, lo, hi)' = s_first(b, lo, hi) /\ s_last(b, lo, hi)' = s_last(b, lo, hi)
            /\ SectorsOf(b)' = SectorsOf(b) /\ LastSector(b)' = LastSector(b)
            /\ b_end(b)' = b_end(b) /\ Known(b)' = Known(b)
        BY <3>1, <3>3, Zenon
      <4>2. (CHOOSE y \in s_last(b, lo, hi)' : TRUE) = (CHOOSE y \in s_last(b, lo, hi) : TRUE)
        BY <4>1, Zenon
      <4>3. \A s : start(b, s)' = start(b, s)
        BY <3>1, Zenon
      <4>. QED  BY <4>1, <4>2, <4>3, Zenon DEF BankRange
    <3>5. ASSUME NEW lo, NEW hi
          PROVE  flash_fill_sect_ranges(lo, hi)' = flash_fill_sect_ranges(lo, hi)
      <4> DEFINE r0 == BankRange(0, lo, hi)
                 r1 == BankRange(1, r0.next, hi)
      <4>1. BankRange(0, lo, hi)' = BankRange(0, lo, hi)
        BY <3>4, Zenon
      <4>2. BankRange(1, r0.next, hi)' = BankRange(1, r0.next, hi)
        BY <3>4, <4>1, Zenon
      <4>3. Sectors' = Sectors
        BY <3>1, Zenon
      <4>. QED  BY <4>1, <4>2, <4>3, Zenon DEF flash_fill_sect_ranges
    <3>. QED  BY <2>1, <3>2, <3>5, Zenon DEF Command
  <2>3. out' = out \/ out' = Command(first, arg, plus)
    BY Zenon DEF RunCommand, rangeVars
  <2>. QED  BY <2>1, <2>2, <2>3, Zenon DEF CommandInv
<1>. QED  BY <1>1, <1>2, PTL DEF RangeSpec

\* No sector that reaches out of the range is touched, wherever the banks are
\* and however many sectors they have (flash_fill_sect_ranges, addr_spec).
THEOREM RangeNeverExceeded == RangeSpec => []NeverBeyond
<1>1. CommandInv => NeverBeyond
  <2>. SUFFICES ASSUME CommandInv, out.rcode = 0, NEW a \in Bytes(out.sel)
                PROVE  a \in IF plus THEN {e \in InFlash : \E c \in AskedBytes : At(e) = At(c)}
                                     ELSE AskedBytes
    BY Zenon DEF NeverBeyond
  <2>1. /\ SectorCount \in Found /\ first \in Addresses /\ arg \in Addresses /\ plus \in BOOLEAN
        /\ out = Command(first, arg, plus)
    BY DEF CommandInv
  <2>2. PICK last \in Addresses :
           /\ first < last
           /\ flash_fill_sect_ranges(first, last).rcode = 0
           /\ flash_fill_sect_ranges(first, last).sel # {}
           /\ Command(first, arg, plus).sel = flash_fill_sect_ranges(first, last).sel
           /\ ~plus => last = arg
           /\ plus => /\ 1 <= arg /\ first + arg - 1 \in Addresses
                      /\ \E q \in At(first + arg - 1) : last = end(q[1], q[2])
    <3>1. Command(first, arg, plus).rcode = 0
      BY <2>1, Zenon
    <3>. QED  BY <2>1, <3>1, CommandPicks, ZenonT(40)
  <2>3. PICK z \in out.sel : z \in At(a)
    BY Zenon DEF Bytes
  <2>4. z \in Sectors /\ first <= start(z[1], z[2]) /\ end(z[1], z[2]) <= last
    BY <2>1, <2>2, <2>3, RangePicks, Zenon
  <2>5. a \in Addresses /\ start(z[1], z[2]) <= a /\ a <= end(z[1], z[2])
    BY <2>3, Zenon DEF Bytes, At
  <2>6. /\ start(z[1], z[2]) \in Nat /\ end(z[1], z[2]) \in Nat /\ a \in Nat /\ last \in Nat
        /\ first \in Nat /\ arg \in Nat
    BY <2>1, <2>4, <2>5, BytesOfSector DEF Addresses
  <2>7. first <= a /\ a <= last
    BY <2>4, <2>5, <2>6
  <2>8. CASE ~plus
    BY <2>2, <2>6, <2>7, <2>8 DEF AskedBytes
  <2>9. CASE plus
    <3>1. a \in InFlash
      BY <2>3, <2>5, Zenon DEF InFlash
    <3>2. PICK q \in At(first + arg - 1) : last = end(q[1], q[2])
      BY <2>2, <2>9, Zenon
    <3>3. first + arg - 1 \in AskedBytes
      BY <2>2, <2>6, <2>9 DEF AskedBytes
    <3>4. CASE a <= first + arg - 1
      <4>1. a - first \in 0 .. arg - 1 /\ a = first + (a - first)
        BY <2>6, <2>7, <3>4
      <4>2. a \in AskedBytes
        BY <2>5, <2>9, <4>1, Zenon DEF AskedBytes
      <4>. QED  BY <2>9, <3>1, <4>2, Zenon
    <3>5. CASE first + arg - 1 < a
      <4>1. q \in Sectors /\ start(q[1], q[2]) <= first + arg - 1 /\ start(q[1], q[2]) \in Nat
        BY <2>1, <3>2, BytesOfSector DEF At, Addresses
      <4>2. q \in At(a)
        BY <2>6, <2>7, <3>2, <3>5, <4>1 DEF At
      <4>3. At(a) = {q} /\ At(first + arg - 1) = {q}
        BY <2>1, <2>2, <2>5, <2>9, <3>2, <4>2, OneSector
      <4>. QED  BY <2>9, <3>1, <3>3, <4>3, Zenon
    <3>. QED  BY <2>6, <3>4, <3>5
  <2>. QED  BY <2>8, <2>9, Zenon
<1>. QED  BY <1>1, CommandRuns, PTL

\* Every byte of flash that was asked for is in a sector that was picked, unless
\* the range runs over a gap between the banks (flash_fill_sect_ranges).
THEOREM RangeCovered == RangeSpec => []CoversRange
<1>1. CommandInv => CoversRange
  <2>. SUFFICES ASSUME CommandInv, out.rcode = 0, ~OverGap, NEW a \in AskedBytes, a \in InFlash
                PROVE  a \in Bytes(out.sel)
    BY Zenon DEF CoversRange
  <2>1. /\ SectorCount \in Found /\ first \in Addresses /\ arg \in Addresses /\ plus \in BOOLEAN
        /\ out = Command(first, arg, plus)
    BY DEF CommandInv
  <2>2. PICK last \in Addresses :
           /\ first < last
           /\ flash_fill_sect_ranges(first, last).rcode = 0
           /\ flash_fill_sect_ranges(first, last).sel # {}
           /\ Command(first, arg, plus).sel = flash_fill_sect_ranges(first, last).sel
           /\ ~plus => last = arg
           /\ plus => /\ 1 <= arg /\ first + arg - 1 \in Addresses
                      /\ \E q \in At(first + arg - 1) : last = end(q[1], q[2])
    BY <2>1, CommandPicks
  <2>3. PICK z \in At(a) : z \in Sectors /\ start(z[1], z[2]) <= a /\ a <= end(z[1], z[2])
    BY Zenon DEF InFlash, At
  <2>4. /\ a \in Addresses /\ a \in Nat /\ first \in Nat /\ arg \in Nat /\ last \in Nat
        /\ start(z[1], z[2]) \in Nat /\ end(z[1], z[2]) \in Nat
    BY <2>1, <2>3, BytesOfSector DEF InFlash, Addresses
  <2>5. first <= a /\ a <= last /\ first \in AskedBytes
    <3>1. CASE ~plus
      BY <2>2, <2>4, <3>1 DEF AskedBytes
    <3>2. CASE plus
      <4>1. PICK i \in 0 .. arg - 1 : a = first + i
        BY <3>2, Zenon DEF AskedBytes
      <4>2. PICK q \in At(first + arg - 1) : last = end(q[1], q[2])
        BY <2>2, <3>2, Zenon
      <4>3. first + arg - 1 <= last
        BY <4>2, Zenon DEF At
      <4>4. 0 \in 0 .. arg - 1 /\ first = first + 0
        BY <2>2, <2>4, <3>2
      <4>5. first \in AskedBytes
        BY <2>1, <3>2, <4>4, Zenon DEF AskedBytes
      <4>. QED  BY <2>4, <4>1, <4>3, <4>5
    <3>. QED  BY <3>1, <3>2, Zenon
  <2>6. ~(/\ z[1] = 1 /\ b_end(0) + 1 # Start[1] /\ Known(0)
          /\ Start[0] <= first /\ first <= b_end(0))
    <3>. SUFFICES ASSUME z[1] = 1, b_end(0) + 1 # Start[1], Known(0),
                         Start[0] <= first, first <= b_end(0)
                  PROVE  OverGap
      BY Zenon
    <3>1. z[2] \in SectorsOf(1) /\ 0 \in Banks /\ 1 \in Banks
      BY <2>3, SectorName, Zenon DEF Banks
    <3>2. /\ Known(1) /\ Start[1] <= start(1, z[2])
          /\ end(1, z[2]) = Low(1, z[2]) + SectorSize - 1 /\ Low(1, z[2]) + SectorSize <= High(1)
          /\ Low(1, z[2]) \in Nat /\ b_end(1) = High(1) - 1 /\ High(1) \in Nat /\ SectorSize \in Nat
      <4>1. z[2] \in Nat /\ z[2] < SectorCount[1] /\ SectorCount[1] \in Nat
        BY <2>1, <3>1, SectorPlace, BankPlace, Zenon
      <4>2. Known(1)
        BY <4>1 DEF Known
      <4>3. High(1) \in Nat /\ SectorSize \in Nat
        BY <2>1, <3>1, BankPlace, Zenon
      <4>. QED  BY <2>1, <3>1, <4>2, <4>3, SectorPlace
    <3>3. Start[0] \in Nat /\ Start[1] \in Nat /\ b_end(0) \in Nat
      BY <2>1, <3>1, BankPlace, FlashRangeAssumption DEF b_end, Ulong
    <3>4. first \in Start[0] .. b_end(0)
      BY <2>4, <3>3
    <3>5. a \in Start[1] .. b_end(1)
      BY <2>3, <2>4, <3>2, <3>3
    <3>6. \A b \in Banks : Known(b)
      BY <3>2, Zenon DEF Banks
    <3>. QED  BY <2>5, <3>4, <3>5, <3>6, Zenon DEF OverGap
  <2>7. first <= end(z[1], z[2]) /\ start(z[1], z[2]) <= last
    BY <2>3, <2>4, <2>5
  <2>8. z \in out.sel
    BY <2>1, <2>2, <2>3, <2>6, <2>7, RangePicks, Zenon
  <2>. QED  BY <2>4, <2>8, Zenon DEF Bytes
<1>. QED  BY <1>1, CommandRuns, PTL

---------------------------------------------------------------------------
(* The cells of flash, and what the commands do to them. *)

Codes == {-1, 0, 1, 2, 4, 8}
KnownBanks == {b \in Banks : Known(b)}

\* The cells are where they were.
LEMMA CellsFixed ==
  ASSUME UNCHANGED SectorCount
  PROVE  /\ FlashAddrs' = FlashAddrs /\ Sectors' = Sectors /\ KnownBanks' = KnownBanks
         /\ \A b, s : start(b, s)' = start(b, s) /\ end(b, s)' = end(b, s)
         /\ \A b : b_end(b)' = b_end(b)
         /\ \A a : At(a)' = At(a)
  BY PlaceFixed DEF FlashAddrs, KnownBanks

\* An address of flash is in one sector, whose bank is one that is known.
LEMMA CellPlace ==
  ASSUME SectorCount \in Found, NEW a \in FlashAddrs
  PROVE  /\ a \in Addresses /\ a \in Nat
         /\ \E x \in At(a) : x \in Sectors /\ At(a) = {x} /\ x[1] \in KnownBanks
<1>1. a \in Addresses /\ a \in Nat
  BY DEF FlashAddrs, Addresses
<1>2. PICK x \in At(a) : x \in Sectors
  BY Zenon DEF FlashAddrs, At
<1>3. At(a) = {x}
  BY <1>1, <1>2, OneSector
<1>4. x[1] \in Banks /\ x[2] \in SectorsOf(x[1])
  BY <1>2, SectorName, Zenon
<1>5. x[2] \in Nat /\ x[2] < SectorCount[x[1]] /\ SectorCount[x[1]] \in Nat
  BY <1>4, SectorPlace, BankPlace, Zenon
<1>. QED  BY <1>1, <1>2, <1>3, <1>4, <1>5 DEF KnownBanks, Known

\* The bank of a sector is known.
LEMMA SectorBank ==
  ASSUME SectorCount \in Found, NEW x \in Sectors
  PROVE  x[1] \in KnownBanks
<1>1. x[1] \in Banks /\ x[2] \in SectorsOf(x[1])
  BY SectorName, Zenon
<1>2. x[2] \in Nat /\ x[2] < SectorCount[x[1]] /\ SectorCount[x[1]] \in Nat
  BY <1>1, SectorPlace, BankPlace, Zenon
<1>. QED  BY <1>1, <1>2 DEF KnownBanks, Known

\* Erasing and programming leave bytes.
LEMMA CellsType ==
  ASSUME flash \in [FlashAddrs -> Byte]
  PROVE  /\ \A t : \A v \in Byte : Cleared(t, v) \in [FlashAddrs -> Byte]
         /\ \A n : Programmed(n) \in [FlashAddrs -> Byte]
         /\ Erased \in Byte /\ {} \in Byte
<1>1. Erased \in Byte /\ {} \in Byte
  BY Zenon DEF Erased, Byte
<1>2. \A t : \A v \in Byte : Cleared(t, v) \in [FlashAddrs -> Byte]
  BY Zenon DEF Cleared
<1>3. \A a \in FlashAddrs : flash[a] \cap Data(a) \in Byte
  BY Zenon DEF Byte
<1>4. \A n : Programmed(n) \in [FlashAddrs -> Byte]
  BY <1>3, Zenon DEF Programmed
<1>. QED  BY <1>1, <1>2, <1>4, Zenon

\* One more command stays within the bound.
LEMMA OneMore ==
  ASSUME cmds \in 0 .. MaxCmds, cmds' = cmds \/ (cmds < MaxCmds /\ cmds' = cmds + 1)
  PROVE  cmds' \in 0 .. MaxCmds
  BY FlashAssumption

\* A command that returns leaves no job.
LEMMA ReturnKeeps ==
  ASSUME TypeOK, NEW r \in Codes, Return(r),
         flash' \in [FlashAddrs -> Byte], protect' \subseteq Sectors, stuck' \subseteq KnownBanks,
         cmds' \in 0 .. MaxCmds
  PROVE  FlashInv'
<1>1. /\ FlashAddrs' = FlashAddrs /\ Sectors' = Sectors /\ KnownBanks' = KnownBanks
      /\ UNCHANGED SectorCount
  BY CellsFixed, Zenon DEF Return
<1>2. 0 \in Addresses /\ 0 \in Banks
  BY FlashRangeAssumption DEF Addresses, Banks
<1>3. NoJob.dest = 0 /\ NoJob.cnt = 0 /\ NoJob.last = 0
  BY Zenon DEF NoJob
<1>4. TypeOK'
  BY <1>1, <1>2, <1>3, Zenon DEF TypeOK, Return, Codes, KnownBanks
<1>5. JobInv' /\ GuardInv' /\ StoredInv' /\ EraseInv'
  BY Zenon DEF Return, JobInv, GuardInv, StoredInv, EraseInv, Copying
<1>. QED  BY <1>4, <1>5, Zenon DEF FlashInv

\* flash_init() finds sectors.
LEMMA InitProtects == flash_init \subseteq Sectors
  BY Zenon DEF flash_init

\* The board is switched on.
LEMMA FlashInit == ASSUME Init PROVE FlashInv
<1>1. 0 \in Addresses /\ 0 \in Banks /\ 0 \in 0 .. MaxCmds
  BY FlashRangeAssumption, FlashAssumption DEF Addresses, Banks
<1>2. flash \in [FlashAddrs -> Byte]
  <2>1. PICK c \in Contents : flash = [a \in FlashAddrs |-> c[a]]
    BY Zenon DEF Init
  <2>2. c \in [Addresses -> Byte] /\ FlashAddrs \subseteq Addresses
    BY FlashAssumption, Zenon DEF FlashAddrs
  <2>. QED  BY <2>1, <2>2, Zenon
<1>3. job.dest = 0 /\ job.cnt = 0 /\ job.last = 0
  BY Zenon DEF Init, NoJob
<1>4. TypeOK
  BY <1>1, <1>2, <1>3, InitProtects, Zenon DEF Init, TypeOK
<1>5. JobInv /\ GuardInv /\ StoredInv /\ EraseInv
  BY Zenon DEF Init, JobInv, GuardInv, StoredInv, EraseInv, Copying
<1>. QED  BY <1>4, <1>5, Zenon DEF FlashInv

---------------------------------------------------------------------------
(* protect, flinfo and loss of power. *)

\* The sectors f to l of a bank are sectors.
LEMMA NamedSectors ==
  ASSUME SectorCount \in Found, NEW b \in Banks
  PROVE  /\ Bank(b) \subseteq Sectors /\ \A x \in Bank(b) : x[1] = b
         /\ \A f, l : abbrev_spec(b, f, l) \subseteq Bank(b)
<1>1. Bank(b) \subseteq Sectors
  BY SectorName DEF Bank
<1>2. \A x \in Bank(b) : x[1] = b
  BY Zenon DEF Bank
<1>3. ASSUME NEW f \in SectorsOf(b), NEW l \in SectorsOf(b)
      PROVE  f .. l \subseteq SectorsOf(b)
  <2>1. LastSector(b) \in Int
    BY BankPlace DEF LastSector
  <2>. QED  BY <2>1 DEF SectorsOf
<1>4. \A f, l : abbrev_spec(b, f, l) \subseteq Bank(b)
  BY <1>3, Zenon DEF abbrev_spec, Bank
<1>. QED  BY <1>1, <1>2, <1>4, Zenon

\* protect in its four forms.
LEMMA MarkKeeps ==
  ASSUME FlashInv, NEW on, NEW sectors, sectors \subseteq Sectors, NEW r \in {0, 1},
         Mark(on, sectors, r)
  PROVE  FlashInv'
<1>1. TypeOK /\ r \in Codes
  BY Zenon DEF FlashInv, Codes
<1>2. protect' \subseteq Sectors
  BY <1>1, Zenon DEF Mark, TypeOK
<1>3. flash' \in [FlashAddrs -> Byte] /\ stuck' \subseteq KnownBanks
  BY <1>1, Zenon DEF Mark, TypeOK, KnownBanks
<1>4. cmds' \in 0 .. MaxCmds
  BY <1>1, OneMore, Zenon DEF Mark, Typed, TypeOK
<1>. QED  BY <1>1, <1>2, <1>3, <1>4, ReturnKeeps, Zenon DEF Mark

\* Every protect command.
LEMMA ProtectKeeps ==
  ASSUME FlashInv,
         \/ \E r \in Ranges, on \in BOOLEAN : Protect(r, on)
         \/ \E b \in Banks, f, l \in SectorNumbers, on \in BOOLEAN : ProtectSectors(b, f, l, on)
         \/ \E b \in Banks, on \in BOOLEAN : ProtectBank(b, on)
         \/ \E on \in BOOLEAN : ProtectAll(on)
  PROVE  FlashInv'
<1>1. SectorCount \in Found
  BY Zenon DEF FlashInv, TypeOK
<1>2. ASSUME NEW r, NEW on, Protect(r, on) PROVE FlashInv'
  BY <1>2, MarkKeeps, CommandType, Zenon DEF Protect
<1>3. ASSUME NEW b \in Banks, NEW f, NEW l, NEW on, ProtectSectors(b, f, l, on) PROVE FlashInv'
  <2>1. abbrev_spec(b, f, l) \subseteq Sectors
    BY <1>1, NamedSectors, Zenon
  <2>. QED  BY <1>3, <2>1, MarkKeeps, Zenon DEF ProtectSectors
<1>4. ASSUME NEW b \in Banks, NEW on, ProtectBank(b, on) PROVE FlashInv'
  BY <1>1, <1>4, NamedSectors, MarkKeeps, Zenon DEF ProtectBank
<1>5. ASSUME NEW on, ProtectAll(on) PROVE FlashInv'
  BY <1>5, MarkKeeps, Zenon DEF ProtectAll
<1>. QED  BY <1>2, <1>3, <1>4, <1>5, Zenon

\* flinfo, and the power goes off and on.
LEMMA InfoAndPowerKeep ==
  ASSUME FlashInv, Flinfo \/ PowerCycle
  PROVE  FlashInv'
<1>1. TypeOK /\ -1 \in Codes /\ 0 \in Codes
  BY Zenon DEF FlashInv, Codes
<1>2. flash' \in [FlashAddrs -> Byte]
  <2>1. flash \in [FlashAddrs -> Byte]
    BY <1>1, Zenon DEF TypeOK
  <2>2. CASE Flinfo
    BY <2>1, <2>2, Zenon DEF Flinfo
  <2>3. CASE PowerCycle
    <3>1. /\ \A v \in {{}, Erased} : \A t : Cleared(t, v) \in [FlashAddrs -> Byte]
          /\ \A n : Programmed(n) \in [FlashAddrs -> Byte]
      BY <2>1, CellsType, Zenon
    <3>2. \/ flash' = flash
          \/ \E v \in {{}, Erased} : \E t : flash' = Cleared(t, v)
          \/ \E n : flash' = Programmed(n)
      BY <2>3, Zenon DEF PowerCycle
    <3>. QED  BY <2>1, <3>1, <3>2, Zenon
  <2>. QED  BY <2>2, <2>3, Zenon
<1>3. protect' \subseteq Sectors /\ stuck' \subseteq KnownBanks
  BY <1>1, InitProtects, Zenon DEF Flinfo, PowerCycle, TypeOK, KnownBanks
<1>4. cmds' \in 0 .. MaxCmds
  <2>1. cmds \in 0 .. MaxCmds /\ (cmds' = cmds \/ (cmds < MaxCmds /\ cmds' = cmds + 1))
    BY <1>1, Zenon DEF Flinfo, PowerCycle, Typed, TypeOK
  <2>. QED  BY <2>1, OneMore, Zenon
<1>. QED  BY <1>1, <1>2, <1>3, <1>4, ReturnKeeps, Zenon DEF Flinfo, PowerCycle

---------------------------------------------------------------------------
(* Erase. *)

\* An erase begins.
LEMMA StartEraseKeeps ==
  ASSUME FlashInv, NEW b \in Banks, NEW sectors, sectors \subseteq Sectors,
         NEW m \in {"range", "bank", "all"}, StartErase(b, sectors, m),
         m = "bank" => \A x \in sectors : x[1] = b, m = "range" => b = 0
  PROVE  FlashInv'
<1>1. /\ FlashAddrs' = FlashAddrs /\ Sectors' = Sectors /\ KnownBanks' = KnownBanks
      /\ TypeOK
  BY CellsFixed, Zenon DEF StartErase, FlashInv
<1>2. cmds' \in 0 .. MaxCmds
  BY <1>1, OneMore, Zenon DEF StartErase, Typed, TypeOK
<1>3. fresh' \in BOOLEAN
  BY Zenon DEF StartErase
<1>4. TypeOK'
  BY <1>1, <1>2, <1>3, Zenon DEF StartErase, TypeOK, KnownBanks
<1>5. EraseInv'
  <2>1. mode' = m /\ bank' = b /\ sel' = sectors /\ rc' = 0
    BY Zenon DEF StartErase
  <2>2. fresh' => stuck' = {}
    BY Zenon DEF StartErase
  <2>. QED  BY <2>1, <2>2 DEF EraseInv
<1>6. JobInv' /\ GuardInv' /\ StoredInv'
  BY Zenon DEF StartErase, JobInv, GuardInv, StoredInv, Copying
<1>. QED  BY <1>4, <1>5, <1>6, Zenon DEF FlashInv

\* Every erase command.
LEMMA EraseBegins ==
  ASSUME FlashInv,
         \/ \E r \in Ranges : Erase(r)
         \/ \E b \in Banks, f, l \in SectorNumbers : EraseSectors(b, f, l)
         \/ \E b \in Banks : EraseBank(b)
         \/ EraseAll
  PROVE  FlashInv'
<1>1. SectorCount \in Found /\ TypeOK /\ 0 \in Banks
  BY Zenon DEF FlashInv, TypeOK, Banks
<1>2. ASSUME NEW r \in {0, 1}, EraseRefused(r) PROVE FlashInv'
  <2>1. cmds' \in 0 .. MaxCmds
    BY <1>1, <1>2, OneMore, Zenon DEF EraseRefused, Typed, TypeOK
  <2>. QED  BY <1>1, <1>2, <2>1, ReturnKeeps, Zenon DEF EraseRefused, TypeOK, KnownBanks, Codes
<1>3. ASSUME NEW r, Erase(r) PROVE FlashInv'
  <2>1. /\ Command(r.first, r.arg, r.plus).rcode \in {0, 1}
        /\ Command(r.first, r.arg, r.plus).sel \subseteq Sectors
    BY CommandType, Zenon
  <2>. QED  BY <1>1, <1>2, <1>3, <2>1, StartEraseKeeps, Zenon DEF Erase
<1>4. ASSUME NEW b \in Banks, NEW f, NEW l, EraseSectors(b, f, l) PROVE FlashInv'
  <2>1. abbrev_spec(b, f, l) \subseteq Sectors /\ \A x \in abbrev_spec(b, f, l) : x[1] = b
    BY <1>1, NamedSectors, Zenon
  <2>. QED  BY <1>2, <1>4, <2>1, StartEraseKeeps, Zenon DEF EraseSectors
<1>5. ASSUME NEW b \in Banks, EraseBank(b) PROVE FlashInv'
  BY <1>1, <1>5, NamedSectors, StartEraseKeeps, Zenon DEF EraseBank
<1>6. CASE EraseAll
  BY <1>1, <1>6, StartEraseKeeps, Zenon DEF EraseAll
<1>. QED  BY <1>3, <1>4, <1>5, <1>6, Zenon

\* flash_erase() of a bank is over: the next one, or the end.
LEMMA NextBankKeeps ==
  ASSUME FlashInv, cmd = "erase", NEW r \in Codes, NextBank(r),
         flash' \in [FlashAddrs -> Byte], stuck' \subseteq KnownBanks,
         mode = "range" /\ r = 0 /\ bank = 0 /\ fresh =>
           stuck' = {} /\ \A a \in FlashAddrs : In(a, Targets(0)) => flash'[a] = Erased
  PROVE  FlashInv'
<1>1. TypeOK /\ EraseInv
  BY Zenon DEF FlashInv
<1>2. UNCHANGED <<protect, cmds>>
  BY Zenon DEF NextBank
<1>3. CASE Return(r)
  BY <1>1, <1>2, <1>3, ReturnKeeps, Zenon DEF TypeOK
<1>4. CASE /\ bank # 1 /\ mode # "bank" /\ ~(mode = "range" /\ r # 0)
           /\ rc' = r /\ bank' = 1
           /\ UNCHANGED <<SectorCount, cmd, sel, mode, job, pos, left, fresh>>
  <2>1. /\ FlashAddrs' = FlashAddrs /\ Sectors' = Sectors /\ KnownBanks' = KnownBanks
        /\ \A a : At(a)' = At(a)
    BY <1>4, CellsFixed, Zenon
  <2>2. TypeOK'
    BY <1>1, <1>2, <1>4, <2>1, Zenon DEF TypeOK, KnownBanks, Banks, Codes
  <2>3. \A a : In(a, Targets(0))' <=> In(a, Targets(0))
    BY <1>2, <1>4, <2>1, Zenon DEF In, Targets
  <2>4. bank = 0
    BY <1>1, <1>4, Zenon DEF TypeOK, Banks
  <2>5. fresh' = fresh /\ mode' = mode /\ sel' = sel /\ rc' = r
    BY <1>4, Zenon
  <2>7. mode # "none" /\ mode # "bank" /\ mode \in {"none", "range", "bank", "all"}
    BY <1>1, <1>4, Zenon DEF EraseInv, TypeOK
  <2>8. mode = "range" => r = 0
    BY <1>4, Zenon
  <2>9. mode = "range" /\ fresh =>
          stuck' = {} /\ \A a \in FlashAddrs : In(a, Targets(0)) => flash'[a] = Erased
    BY <2>4, <2>8, Zenon
  <2>10. EraseInv'
    BY <2>1, <2>3, <2>5, <2>7, <2>8, <2>9, Zenon DEF EraseInv, Erased
  <2>6. JobInv' /\ GuardInv' /\ StoredInv'
    BY <1>4, Zenon DEF JobInv, GuardInv, StoredInv, Copying
  <2>. QED  BY <2>2, <2>6, <2>10, Zenon DEF FlashInv
<1>. QED  BY <1>3, <1>4, Zenon DEF NextBank

\* Every step of an erase.
LEMMA EraseKeeps ==
  ASSUME FlashInv, EraseNothing \/ EraseDone \/ EraseTimeout \/ EraseStuck
  PROVE  FlashInv'
<1>1. TypeOK /\ EraseInv /\ cmd = "erase"
  BY Zenon DEF FlashInv, EraseNothing, EraseDone, EraseTimeout, EraseStuck
<1>2. /\ \A t : Cleared(t, Erased) \in [FlashAddrs -> Byte]
      /\ flash \in [FlashAddrs -> Byte] /\ stuck \subseteq KnownBanks
  BY <1>1, CellsType, Zenon DEF TypeOK, KnownBanks
<1>3. 0 \in Codes /\ 1 \in Codes /\ rc \in Codes
  BY <1>1, Zenon DEF Codes, TypeOK
<1>4. CASE EraseNothing
  <2>1. ~\E a \in FlashAddrs : bank = 0 /\ In(a, Targets(0))
    BY <1>4, Zenon DEF EraseNothing, In, Targets
  <2>2. mode = "range" /\ fresh => stuck' = {}
    BY <1>1, <1>4, Zenon DEF EraseNothing, EraseInv
  <2>. QED  BY <1>1, <1>2, <1>3, <1>4, <2>1, <2>2, NextBankKeeps, Zenon DEF EraseNothing
<1>5. CASE EraseDone
  <2>1. flash' \in [FlashAddrs -> Byte] /\ stuck' \subseteq KnownBanks
    BY <1>2, <1>5, Zenon DEF EraseDone
  <2>2. mode = "range" /\ fresh => stuck' = {}
    BY <1>1, <1>5, Zenon DEF EraseDone, EraseInv
  <2>3. bank = 0 => \A a \in FlashAddrs : In(a, Targets(0)) => flash'[a] = Erased
    BY <1>5, Zenon DEF EraseDone, Cleared
  <2>. QED  BY <1>1, <1>3, <1>5, <2>1, <2>2, <2>3, NextBankKeeps, Zenon DEF EraseDone
<1>6. CASE EraseTimeout
  <2>1. bank \in KnownBanks
    <3>1. PICK x \in Targets(bank) : TRUE
      BY <1>6, Zenon DEF EraseTimeout
    <3>2. x \in Sectors /\ x[1] = bank
      BY <1>1, <3>1, Zenon DEF Targets, TypeOK
    <3>. QED  BY <1>1, <3>2, SectorBank, Zenon DEF TypeOK
  <2>2. flash' \in [FlashAddrs -> Byte] /\ stuck' \subseteq KnownBanks
    BY <1>2, <1>6, <2>1, Zenon DEF EraseTimeout
  <2>3. 1 # 0
    BY SMT
  <2>. QED  BY <1>1, <1>3, <1>6, <2>2, <2>3, NextBankKeeps, Zenon DEF EraseTimeout
<1>7. CASE EraseStuck
  <2>1. ~(mode = "range" /\ fresh)
    BY <1>1, <1>7, Zenon DEF EraseStuck, EraseInv
  <2>2. flash' \in [FlashAddrs -> Byte] /\ stuck' \subseteq KnownBanks
    BY <1>2, <1>7, Zenon DEF EraseStuck
  <2>. QED  BY <1>1, <1>3, <1>7, <2>1, <2>2, NextBankKeeps, Zenon DEF EraseStuck
<1>. QED  BY <1>4, <1>5, <1>6, <1>7, Zenon

---------------------------------------------------------------------------
(* A copy begins. *)

\* The bank of an address, and where the bank is.
LEMMA BankOfAddress ==
  ASSUME SectorCount \in Found, NEW a \in Addresses, NEW b \in addr2info(a)
  PROVE  /\ b \in KnownBanks /\ b \in Banks
         /\ Start[b] <= a /\ a < High(b) /\ b_end(b) = High(b) - 1
<1>1. PICK s \in SectorsOf(b) : <<b, s>> \in At(a)
  BY Zenon DEF addr2info
<1>2. b \in Banks
  BY Zenon DEF addr2info
<1>3. <<b, s>> \in Sectors /\ start(b, s) <= a /\ a <= end(b, s)
  BY <1>1, Zenon DEF At
<1>4. b \in KnownBanks
  BY <1>3, SectorBank, Zenon
<1>5. /\ Low(b, s) \in Nat /\ Start[b] <= Low(b, s) /\ Low(b, s) + SectorSize <= High(b)
      /\ start(b, s) = Low(b, s) /\ end(b, s) = Low(b, s) + SectorSize - 1
      /\ b_end(b) = High(b) - 1
  BY <1>1, <1>2, SectorPlace, Zenon
<1>6. Start[b] \in Nat /\ High(b) \in Nat /\ SectorSize \in Nat /\ a \in Nat
  BY <1>2, BankPlace DEF Addresses
<1>. QED  BY <1>2, <1>3, <1>4, <1>5, <1>6

\* Where the ends d and last of n bytes are, when they are in the banks b0 and b1.
BothEnds(d, n, last, b0, b1) ==
  /\ d + n <= AddrSpace => last = d + n - 1
  /\ last \in Addresses
  /\ Start[b0] <= d /\ d < High(b0)
  /\ Start[b1] <= last /\ last < High(b1)
  /\ b0 \in Banks /\ b1 \in Banks /\ b_end(b1) = High(b1) - 1

\* What cp knows of its range when it starts to write: where both ends are.
LEMMA CopyRange ==
  ASSUME SectorCount \in Found, NEW d \in Addresses, NEW n \in Addresses, n # 0,
         NEW b0 \in addr2info(d), NEW b1 \in addr2info(Ulong(d + n - 1)), b0 <= b1
  PROVE  BothEnds(d, n, Ulong(d + n - 1), b0, b1)
<1> DEFINE last == Ulong(d + n - 1)
<1>1. d \in Nat /\ n \in Nat /\ 0 < n /\ d < AddrSpace /\ n < AddrSpace /\ AddrSpace \in Nat
  BY BankPlace DEF Addresses
<1>2. d + n <= AddrSpace => last = d + n - 1
  <2>1. d + n <= AddrSpace => d + n - 1 \in 0 .. AddrSpace - 1
    BY <1>1
  <2>. QED  BY <2>1, UlongIs, Zenon
<1>3. d + n > AddrSpace => last = d + n - 1 - AddrSpace
  <2>. SUFFICES ASSUME d + n > AddrSpace PROVE last = d + n - 1 - AddrSpace
    BY Zenon
  <2>1. d + n - 1 \in Int /\ AddrSpace <= d + n - 1 /\ d + n - 1 < 2 * AddrSpace
    BY <1>1
  <2>. QED  BY <1>1, <2>1, UlongOver
<1>4. last \in Addresses
  BY <1>1, <1>2, <1>3 DEF Addresses
<1>5. /\ b0 \in Banks /\ Start[b0] <= d /\ d < High(b0)
      /\ b1 \in Banks /\ Start[b1] <= last /\ last < High(b1) /\ b_end(b1) = High(b1) - 1
  BY <1>4, BankOfAddress, Zenon
<1>. QED  BY <1>2, <1>4, <1>5, Zenon DEF BothEnds

\* When flash_write() finds no protected sector there is none in the range, but
\* for one that ends at the top.
LEMMA NoneHit ==
  ASSUME SectorCount \in Found, protect \subseteq Sectors,
         NEW d \in Addresses, NEW last \in Addresses, d <= last,
         NEW b0 \in Banks, NEW b1 \in Banks,
         Start[b0] <= d, last < High(b1), ~HitsProtected(d, last, b0 .. b1),
         NEW x \in protect, ~AtTop(x)
  PROVE  ~(start(x[1], x[2]) <= last /\ d <= end(x[1], x[2]))
<1>. SUFFICES ASSUME start(x[1], x[2]) <= last, d <= end(x[1], x[2]) PROVE FALSE
  BY Zenon
<1> DEFINE b == x[1]
           s == x[2]
<1>1. b \in Banks /\ s \in SectorsOf(b)
  BY SectorName, Zenon
<1>2. /\ Low(b, s) \in Nat /\ Start[b] <= Low(b, s) /\ Low(b, s) + SectorSize <= High(b)
      /\ start(b, s) = Low(b, s) /\ end(b, s) = Low(b, s) + SectorSize - 1
      /\ b_end(b) = High(b) - 1
      /\ s = LastSector(b) => end(b, s) = b_end(b)
      /\ s # LastSector(b) => start(b, s + 1) = end(b, s) + 1
  BY <1>1, SectorPlace, Zenon
<1>3. /\ High(0) <= Start[1] /\ SectorSize \in Nat /\ SectorSize > 1 /\ AddrSpace \in Nat
      /\ High(0) \in Nat /\ High(1) \in Nat /\ Start[0] \in Nat /\ Start[1] \in Nat
      /\ Start[1] < AddrSpace
  BY BankPlace, Zenon
<1>4. end(b, s) # AddrSpace - 1 /\ High(b) <= AddrSpace
  BY <1>1, BankPlace, Zenon DEF AtTop
<1>5. d \in Nat /\ last \in Nat
  BY DEF Addresses
<1>6. ~(b = 0 /\ b0 = 1)
  BY <1>2, <1>3, <1>5
<1>7. ~(b = 1 /\ b1 = 0)
  BY <1>2, <1>3, <1>5
<1>8. b \in b0 .. b1
  BY <1>1, <1>6, <1>7 DEF Banks
<1>9. s = LastSector(b) => Ulong(b_end(b) + 1) = High(b)
  <2>. SUFFICES ASSUME s = LastSector(b) PROVE Ulong(b_end(b) + 1) = High(b)
    BY Zenon
  <2>1. High(b) \in Nat /\ b_end(b) # AddrSpace - 1
    BY <1>1, <1>2, <1>3, <1>4, Zenon DEF Banks
  <2>2. High(b) \in 0 .. AddrSpace - 1 /\ b_end(b) + 1 = High(b)
    BY <1>2, <1>3, <1>4, <2>1
  <2>. QED  BY <2>2, UlongIs, Zenon
<1>10. d < IF s = LastSector(b) THEN Ulong(b_end(b) + 1) ELSE start(b, s + 1)
  <2>1. CASE s = LastSector(b)
    <3>1. end(b, s) = b_end(b) /\ b_end(b) = High(b) - 1 /\ High(b) \in Nat
      BY <1>1, <1>2, <1>3, <2>1, Zenon DEF Banks
    <3>. QED  BY <1>5, <1>9, <2>1, <3>1
  <2>2. CASE s # LastSector(b)
    <3>1. start(b, s + 1) = end(b, s) + 1
      BY <1>2, <2>2, Zenon
    <3>2. end(b, s) \in Int
      BY <1>2, <1>3
    <3>3. d < end(b, s) + 1
      BY <1>5, <3>2
    <3>. QED  BY <2>2, <3>1, <3>3, Zenon
  <2>. QED  BY <2>1, <2>2, Zenon
<1>. QED  BY <1>8, <1>10, Zenon DEF HitsProtected

\* The range as the loop that writes needs it: it ends in its last bank, unless
\* it wraps around.
CopySpan(d, n, last, b0, b1) ==
  /\ b0 \in Banks /\ b1 \in Banks /\ Start[b0] <= d
  /\ last \in Addresses /\ last < High(b1)
  /\ d = d + n - n /\ n \in 1 .. n /\ d <= d
  /\ ~(d + n > AddrSpace) =>
       /\ d + n - 1 \in Start[b1] .. b_end(b1)
       /\ d <= last
       /\ \A s \in Nat : s < d + n => s <= last

\* The range of a copy is of that kind.
LEMMA CopyPlace ==
  ASSUME SectorCount \in Found, NEW d \in Addresses, NEW n \in Addresses, n # 0,
         NEW b0 \in addr2info(d), NEW b1 \in addr2info(Ulong(d + n - 1)), b0 <= b1
  PROVE  CopySpan(d, n, Ulong(d + n - 1), b0, b1)
<1> DEFINE last == Ulong(d + n - 1)
<1>1. /\ d + n <= AddrSpace => last = d + n - 1
      /\ last \in Addresses /\ Start[b0] <= d /\ d < High(b0)
      /\ Start[b1] <= last /\ last < High(b1)
      /\ b0 \in Banks /\ b1 \in Banks /\ b_end(b1) = High(b1) - 1
  <2>1. BothEnds(d, n, last, b0, b1)
    BY CopyRange, Zenon
  <2>. QED  BY <2>1, Zenon DEF BothEnds
<1>2. AddrSpace \in Nat /\ \A b \in Banks : Start[b] \in Nat /\ High(b) \in Nat
  BY BankPlace, Zenon
<1>3. Start[b0] \in Nat /\ Start[b1] \in Nat /\ High(b0) \in Nat /\ High(b1) \in Nat
  BY <1>1, <1>2, Zenon
<1>4. d \in Nat /\ n \in Nat /\ 0 < n /\ last \in Nat
  BY <1>1 DEF Addresses
<1>. HIDE DEF last
<1>5. d = d + n - n /\ n \in 1 .. n /\ d <= d
  BY <1>4
<1>6. ASSUME ~(d + n > AddrSpace)
      PROVE  /\ d + n - 1 \in Start[b1] .. b_end(b1) /\ d <= last
             /\ \A s \in Nat : s < d + n => s <= last
  <2>1. last = d + n - 1
    BY <1>1, <1>2, <1>4, <1>6
  <2>2. d <= last /\ \A s \in Nat : s < d + n => s <= last
    BY <1>4, <2>1
  <2>3. last \in Start[b1] .. High(b1) - 1
    BY <1>1, <1>3, <1>4
  <2>. QED  BY <1>1, <2>1, <2>2, <2>3, Zenon
<1>7. CopySpan(d, n, last, b0, b1)
  <2>1. ~(d + n > AddrSpace) => /\ d + n - 1 \in Start[b1] .. b_end(b1) /\ d <= last
                                /\ \A s \in Nat : s < d + n => s <= last
    BY <1>6, Zenon
  <2>2. b0 \in Banks /\ b1 \in Banks /\ Start[b0] <= d /\ last \in Addresses /\ last < High(b1)
    BY <1>1, Zenon
  <2>. QED  BY <1>5, <2>1, <2>2, Zenon DEF CopySpan
<1>. QED  BY <1>7 DEF last

\* An address of the range, counted from its start.
LEMMA AddressOf ==
  ASSUME NEW d \in Addresses, NEW n \in Addresses, NEW a \in Addresses
  PROVE  /\ ~(d <= a /\ a < d)
         /\ d <= a /\ a < d + n => Ulong(a - d) < n
<1>1. d \in Nat /\ n \in Nat /\ a \in Nat /\ AddrSpace \in Nat /\ a < AddrSpace
  BY FlashRangeAssumption DEF Addresses
<1>2. d <= a => a - d \in 0 .. AddrSpace - 1
  BY <1>1
<1>3. d <= a => Ulong(a - d) = a - d
  BY <1>2, UlongIs, Zenon
<1>4. /\ ~(d <= a /\ a < d)
      /\ d <= a /\ a < d + n => a - d < n
  BY <1>1
<1>. QED  BY <1>3, <1>4, Zenon

\* flash_write() goes on to the loop that writes.
LEMMA CpBegins ==
  ASSUME FlashInv, NEW d \in Addresses, NEW n \in Addresses, NEW src \in [Addresses -> Byte],
         n # 0, NEW b0 \in addr2info(d), NEW b1 \in addr2info(Ulong(d + n - 1)), b0 <= b1,
         ~HitsProtected(d, Ulong(d + n - 1), b0 .. b1),
         cmd' = "cp", bank' = b0, job' = [dest |-> d, cnt |-> n, last |-> b1, src |-> src],
         pos' = d, left' = n, rc' = 0,
         fresh' = (stuck = {} /\ \A a \in FlashAddrs : Ulong(a - d) < n => flash[a] = Erased),
         UNCHANGED <<SectorCount, sel, mode, flash, protect, stuck>>, cmds' \in 0 .. MaxCmds
  PROVE  FlashInv'
<1> DEFINE last == Ulong(d + n - 1)
<1>1. TypeOK /\ SectorCount \in Found /\ protect \subseteq Sectors
  BY Zenon DEF FlashInv, TypeOK
<1>2. /\ FlashAddrs' = FlashAddrs /\ Sectors' = Sectors /\ KnownBanks' = KnownBanks
      /\ \A b, s : start(b, s)' = start(b, s) /\ end(b, s)' = end(b, s)
      /\ \A b : b_end(b)' = b_end(b)
  BY CellsFixed, Zenon
<1>3. job'.dest = d /\ job'.cnt = n /\ job'.last = b1 /\ job'.src = src
  BY Zenon
<1>4. /\ b0 \in Banks /\ b1 \in Banks /\ Start[b0] <= d
      /\ last \in Addresses /\ last < High(b1)
      /\ d = d + n - n /\ n \in 1 .. n /\ d <= d
      /\ ~(d + n > AddrSpace) =>
           /\ d + n - 1 \in Start[b1] .. b_end(b1)
           /\ d <= last
           /\ \A s \in Nat : s < d + n => s <= last
  <2>1. CopySpan(d, n, last, b0, b1)
    BY <1>1, CopyPlace, Zenon
  <2>. QED  BY <2>1, Zenon DEF CopySpan
<1>6. TypeOK'
  <2>1. fresh' \in BOOLEAN
    BY Zenon
  <2>2. /\ flash' \in [FlashAddrs' -> Byte] /\ protect' \subseteq Sectors'
        /\ stuck' \subseteq KnownBanks'
    BY <1>1, <1>2, Zenon DEF TypeOK, KnownBanks
  <2>3. SectorCount' \in Found /\ sel' \subseteq Sectors' /\ mode' \in {"none", "range", "bank", "all"}
    BY <1>1, <1>2, Zenon DEF TypeOK
  <2>. QED  BY <1>3, <1>4, <2>1, <2>2, <2>3, Zenon DEF TypeOK, KnownBanks
<1>7. Wraps' <=> d + n > AddrSpace
  BY <1>3, Zenon DEF Wraps
<1>8. JobInv'
  <2>1. b_end(job.last)' = b_end(b1)
    BY <1>2, <1>3, Zenon
  <2>2. ~Wraps' => (job.dest + job.cnt - 1 \in Start[job.last] .. b_end(job.last))'
    BY <1>3, <1>4, <1>7, <2>1, Zenon
  <2>. QED  BY <1>3, <1>4, <2>2, Zenon DEF JobInv
<1>9. GuardInv'
  <2>. SUFFICES ASSUME ~(d + n > AddrSpace), NEW x \in protect, ~AtTop(x)
                PROVE  ~(start(x[1], x[2]) < d + n /\ d <= end(x[1], x[2]))
    BY <1>2, <1>3, <1>7, Zenon DEF GuardInv, AtTop
  <2>1. ~(start(x[1], x[2]) <= last /\ d <= end(x[1], x[2]))
    BY <1>1, <1>4, NoneHit, Zenon
  <2>2. Addresses \subseteq Nat
    BY SMT DEF Addresses
  <2>3. start(x[1], x[2]) \in Nat
    BY <1>1, <2>2, BytesOfSector, Zenon
  <2>. QED  BY <1>4, <2>1, <2>3, Zenon
<1>10. StoredInv'
  <2>. SUFFICES ASSUME fresh', ~(d + n > AddrSpace)
                PROVE  /\ stuck = {}
                       /\ \A a \in FlashAddrs : /\ ~(d <= a /\ a < d)
                                                /\ d <= a /\ a < d + n => flash[a] = Erased
    BY <1>2, <1>3, <1>7, Zenon DEF StoredInv, Erased
  <2>1. stuck = {} /\ \A a \in FlashAddrs : Ulong(a - d) < n => flash[a] = Erased
    BY Zenon
  <2>2. \A a \in FlashAddrs : a \in Addresses
    BY Zenon DEF FlashAddrs
  <2>. QED  BY <2>1, <2>2, AddressOf, Zenon
<1>11. EraseInv'
  BY Zenon DEF EraseInv
<1>. QED  BY <1>6, <1>8, <1>9, <1>10, <1>11, Zenon DEF FlashInv

\* Every outcome of cp before it writes.
LEMMA CpKeeps ==
  ASSUME FlashInv, NEW c \in Copies, NEW src \in Sources, Cp(c, src)
  PROVE  FlashInv'
<1>1. TypeOK /\ UNCHANGED <<flash, protect, stuck>>
  BY Zenon DEF FlashInv, Cp
<1>2. cmds' \in 0 .. MaxCmds
  <2>1. cmds \in 0 .. MaxCmds /\ cmds < MaxCmds /\ cmds' = cmds + 1
    BY <1>1, Zenon DEF Cp, Typed, TypeOK
  <2>. QED  BY <2>1, OneMore, Zenon
<1>3. /\ c.dest \in Addresses /\ c.cnt \in Addresses /\ c = [dest |-> c.dest, cnt |-> c.cnt]
      /\ src \in [Addresses -> Byte]
  BY FlashAssumption, Zenon
<1>4. ASSUME NEW r \in {0, 4, 8}, Return(r) PROVE FlashInv'
  BY <1>1, <1>2, <1>4, ReturnKeeps, Zenon DEF TypeOK, KnownBanks, Codes
<1> DEFINE last == Ulong(c.dest + c.cnt - 1)
           b0 == CHOOSE b \in addr2info(c.dest) : TRUE
           b1 == CHOOSE b \in addr2info(last) : TRUE
<1>5. CASE /\ c.cnt # 0 /\ addr2info(last) # {} /\ ~HitsProtected(c.dest, last, b0 .. b1)
           /\ b0 <= b1 /\ cmd' = "cp" /\ bank' = b0
           /\ job' = [dest |-> c.dest, cnt |-> c.cnt, last |-> b1, src |-> src]
           /\ pos' = c.dest /\ left' = c.cnt /\ rc' = 0
           /\ fresh' = (stuck = {} /\ \A a \in FlashAddrs : Ulong(a - c.dest) < c.cnt => flash[a] = Erased)
           /\ UNCHANGED <<SectorCount, sel, mode>>
  <2>1. b0 \in addr2info(c.dest) /\ b1 \in addr2info(last)
    BY <1>5, Zenon DEF Cp
  <2>. HIDE DEF b0, b1
  <2>. QED  BY <1>1, <1>2, <1>3, <1>5, <2>1, CpBegins, Zenon
<1>6. \/ Return(0) \/ Return(8) \/ Return(4)
      \/ /\ c.cnt # 0 /\ addr2info(last) # {} /\ ~HitsProtected(c.dest, last, b0 .. b1)
         /\ b0 <= b1 /\ cmd' = "cp" /\ bank' = b0
         /\ job' = [dest |-> c.dest, cnt |-> c.cnt, last |-> b1, src |-> src]
         /\ pos' = c.dest /\ left' = c.cnt /\ rc' = 0
         /\ fresh' = (stuck = {} /\ \A a \in FlashAddrs : Ulong(a - c.dest) < c.cnt => flash[a] = Erased)
         /\ UNCHANGED <<SectorCount, sel, mode>>
  BY Zenon DEF Cp
<1>. QED  BY <1>4, <1>5, <1>6, Zenon

---------------------------------------------------------------------------
(* The loop that writes. *)

\* How many bytes of the word at pos are copied.
Chunk == IF WordBytes - (pos % WordBytes) < left THEN WordBytes - (pos % WordBytes) ELSE left

\* The word that holds pos, and the part of it that is copied.
LEMMA WordPlace ==
  ASSUME pos \in Nat, left \in Nat, left > 0
  PROVE  /\ wp \in Int /\ WordBytes \in Nat
         /\ wp <= pos /\ pos < wp + WordBytes
         /\ Chunk \in Nat /\ 0 < Chunk /\ Chunk <= left /\ pos + Chunk <= wp + WordBytes
         /\ Chunk # left => pos + Chunk = wp + WordBytes
<1>1. WordBytes \in Nat /\ WordBytes > 0
  BY FlashAssumption
<1>2. pos % WordBytes \in 0 .. WordBytes - 1
  BY <1>1
<1>. QED  BY <1>1, <1>2 DEF wp, Chunk

\* What a copy in progress says of its numbers.
LEMMA JobNumbers ==
  ASSUME TypeOK, JobInv, Copying
  PROVE  /\ job.dest \in Nat /\ job.cnt \in Nat /\ pos \in Nat /\ left \in Nat /\ AddrSpace \in Nat
         /\ job.dest < AddrSpace /\ job.cnt < AddrSpace /\ pos < AddrSpace
         /\ 0 < left /\ left <= job.cnt
         /\ pos = job.dest + job.cnt - left \/ pos = job.dest + job.cnt - left - AddrSpace
         /\ Wraps <=> job.dest + job.cnt > AddrSpace
         /\ ~Wraps => pos = job.dest + job.cnt - left
<1>1. /\ job.dest \in Nat /\ job.cnt \in Nat /\ pos \in Nat /\ left \in Nat /\ AddrSpace \in Nat
      /\ job.dest < AddrSpace /\ job.cnt < AddrSpace /\ pos < AddrSpace
  BY FlashRangeAssumption DEF TypeOK, Addresses
<1>2. /\ left \in 1 .. job.cnt
      /\ pos \in {job.dest + job.cnt - left, job.dest + job.cnt - left - AddrSpace}
  BY Zenon DEF JobInv
<1>3. Wraps <=> job.dest + job.cnt > AddrSpace
  BY Zenon DEF Wraps
<1>. QED  BY <1>1, <1>2, <1>3

\* Only cells that are still to be copied change when a word is programmed.
LEMMA ProgrammedCells ==
  ASSUME flash \in [FlashAddrs -> Byte], NEW n, NEW a \in FlashAddrs
  PROVE  /\ ~Copied(a) => Programmed(n)[a] = flash[a]
         /\ ~(wp <= a /\ a < wp + n) => Programmed(n)[a] = flash[a]
         /\ wp <= a /\ a < wp + n /\ Copied(a) => Programmed(n)[a] = flash[a] \cap Source(a)
  BY Zenon DEF Programmed, Data

\* A byte that is copied is one of those that were asked for.
LEMMA CopiedAsked ==
  ASSUME TypeOK, JobInv, Copying, NEW a \in FlashAddrs, Copied(a)
  PROVE  a \in Asked
<1>1. /\ job.dest \in Nat /\ job.cnt \in Nat /\ pos \in Nat /\ left \in Nat /\ AddrSpace \in Nat
      /\ job.dest < AddrSpace /\ job.cnt < AddrSpace
      /\ 0 < left /\ left <= job.cnt
      /\ pos = job.dest + job.cnt - left \/ pos = job.dest + job.cnt - left - AddrSpace
  BY JobNumbers, Zenon
<1>2. a \in Nat /\ a < AddrSpace /\ pos <= a /\ a < pos + left
  BY <1>1 DEF Copied, FlashAddrs, Addresses
<1>3. CASE pos = job.dest + job.cnt - left
  <2>1. a - job.dest \in 0 .. AddrSpace - 1 /\ a - job.dest < job.cnt
    BY <1>1, <1>2, <1>3
  <2>2. Ulong(a - job.dest) = a - job.dest
    BY <2>1, UlongIs, Zenon
  <2>. QED  BY <2>1, <2>2, Zenon DEF Asked
<1>4. CASE pos = job.dest + job.cnt - left - AddrSpace
  <2>1. /\ a - job.dest \in Int /\ -AddrSpace <= a - job.dest /\ a - job.dest < 0
        /\ a - job.dest + AddrSpace < job.cnt
    BY <1>1, <1>2, <1>4
  <2>2. Ulong(a - job.dest) = a - job.dest + AddrSpace
    BY <2>1, UlongUnder, Zenon
  <2>. QED  BY <2>1, <2>2, Zenon DEF Asked
<1>. QED  BY <1>1, <1>3, <1>4, Zenon

\* The bytes that were asked for, when the range does not wrap around.
LEMMA AskedIs ==
  ASSUME TypeOK, JobInv, Copying, ~Wraps, NEW a \in Asked
  PROVE  /\ a \in FlashAddrs /\ a \in Nat /\ job.dest <= a /\ a < job.dest + job.cnt
         /\ Ulong(a - job.dest) = a - job.dest
<1>1. /\ job.dest \in Nat /\ job.cnt \in Nat /\ AddrSpace \in Nat
      /\ job.dest < AddrSpace /\ job.dest + job.cnt <= AddrSpace
  BY JobNumbers
<1>2. a \in FlashAddrs /\ a \in Nat /\ a < AddrSpace /\ Ulong(a - job.dest) < job.cnt
  BY <1>1 DEF Asked, FlashAddrs, Addresses
<1>3. CASE a < job.dest
  <2>1. a - job.dest \in Int /\ -AddrSpace <= a - job.dest /\ a - job.dest < 0
    BY <1>1, <1>2, <1>3
  <2>2. Ulong(a - job.dest) = a - job.dest + AddrSpace
    BY <2>1, UlongUnder, Zenon
  <2>. QED  BY <1>1, <1>2, <2>1, <2>2
<1>4. CASE job.dest <= a
  <2>1. a - job.dest \in 0 .. AddrSpace - 1
    BY <1>1, <1>2, <1>4
  <2>2. Ulong(a - job.dest) = a - job.dest
    BY <2>1, UlongIs, Zenon
  <2>. QED  BY <1>1, <1>2, <1>4, <2>1, <2>2
<1>. QED  BY <1>1, <1>2, <1>3, <1>4

\* A word that is written over erased flash stores its part of the data and
\* leaves the rest.
LEMMA WordStored ==
  ASSUME FlashInv, Copying, fresh, ~Wraps, NEW a \in FlashAddrs
  PROVE  /\ job.dest <= a /\ a < pos + Chunk => Programmed(WordBytes)[a] = job.src[a - job.dest]
         /\ pos + Chunk <= a /\ a < job.dest + job.cnt => Programmed(WordBytes)[a] = Erased
<1>1. TypeOK /\ JobInv /\ flash \in [FlashAddrs -> Byte] /\ job.src \in [Addresses -> Byte]
  BY Zenon DEF FlashInv, TypeOK, JobInv
<1>2. /\ job.dest \in Nat /\ job.cnt \in Nat /\ pos \in Nat /\ left \in Nat /\ AddrSpace \in Nat
      /\ 0 < left /\ left <= job.cnt /\ pos = job.dest + job.cnt - left
  BY <1>1, JobNumbers, Zenon
<1>3. /\ wp \in Int /\ WordBytes \in Nat /\ wp <= pos
      /\ Chunk \in Nat /\ Chunk <= left /\ pos + Chunk <= wp + WordBytes
      /\ Chunk # left => pos + Chunk = wp + WordBytes
  BY <1>2, WordPlace, Zenon
<1>4. a \in Nat /\ a < AddrSpace
  BY <1>2 DEF FlashAddrs, Addresses
<1>5. /\ job.dest <= a /\ a < pos => flash[a] = job.src[a - job.dest]
      /\ pos <= a /\ a < job.dest + job.cnt => flash[a] = Erased
  BY Zenon DEF FlashInv, StoredInv
<1>6. CASE job.dest <= a /\ a < pos
  <2>1. ~Copied(a)
    BY <1>2, <1>4, <1>6 DEF Copied
  <2>2. Programmed(WordBytes)[a] = flash[a]
    BY <1>1, <2>1, ProgrammedCells, Zenon
  <2>3. ~(pos + Chunk <= a)
    BY <1>2, <1>3, <1>4, <1>6
  <2>. QED  BY <1>5, <1>6, <2>2, <2>3, Zenon
<1>7. CASE pos <= a /\ a < pos + Chunk
  <2>1. Copied(a) /\ wp <= a /\ a < wp + WordBytes /\ a < job.dest + job.cnt
    BY <1>2, <1>3, <1>4, <1>7 DEF Copied
  <2>2. a - job.dest \in 0 .. AddrSpace - 1
    BY <1>2, <1>4, <1>7
  <2>3. Source(a) = job.src[a - job.dest]
    BY <2>2, UlongIs, Zenon DEF Source
  <2>4. job.src[a - job.dest] \subseteq Bits
    BY <1>1, <2>2, Zenon DEF Addresses, Byte
  <2>5. Programmed(WordBytes)[a] = Erased \cap Source(a)
    <3>1. flash[a] = Erased
      BY <1>5, <1>7, <2>1, Zenon
    <3>. QED  BY <1>1, <2>1, <3>1, ProgrammedCells, Zenon
  <2>6. Programmed(WordBytes)[a] = job.src[a - job.dest]
    BY <2>3, <2>4, <2>5, Zenon DEF Erased
  <2>7. ~(pos + Chunk <= a)
    BY <1>2, <1>3, <1>4, <1>7
  <2>. QED  BY <2>6, <2>7, Zenon
<1>8. CASE pos + Chunk <= a /\ a < job.dest + job.cnt
  <2>1. ~(wp <= a /\ a < wp + WordBytes)
    BY <1>2, <1>3, <1>4, <1>8
  <2>2. Programmed(WordBytes)[a] = flash[a]
    BY <1>1, <2>1, ProgrammedCells, Zenon
  <2>3. pos <= a /\ ~(a < pos + Chunk)
    BY <1>2, <1>3, <1>4, <1>8
  <2>. QED  BY <1>5, <1>8, <2>2, <2>3, Zenon
<1>9. a < pos \/ pos <= a
  BY <1>2, <1>4
<1>. QED  BY <1>6, <1>7, <1>8, <1>9, Zenon

\* The numbers after a word: pos and left stay together.
LEMMA AdvanceNumbers ==
  ASSUME TypeOK, JobInv, Copying
  PROVE  /\ Ulong(pos + Chunk) \in Addresses
         /\ Ulong(pos + Chunk) \in {job.dest + job.cnt - (left - Chunk),
                                    job.dest + job.cnt - (left - Chunk) - AddrSpace}
         /\ ~Wraps /\ left # Chunk => Ulong(pos + Chunk) = pos + Chunk
         /\ left # Chunk => left - Chunk \in 1 .. job.cnt
<1>1. /\ job.dest \in Nat /\ job.cnt \in Nat /\ pos \in Nat /\ left \in Nat /\ AddrSpace \in Nat
      /\ job.dest < AddrSpace /\ job.cnt < AddrSpace /\ pos < AddrSpace
      /\ 0 < left /\ left <= job.cnt
      /\ pos = job.dest + job.cnt - left \/ pos = job.dest + job.cnt - left - AddrSpace
      /\ Wraps <=> job.dest + job.cnt > AddrSpace
      /\ ~Wraps => pos = job.dest + job.cnt - left
  BY JobNumbers, Zenon
<1>2. Chunk \in Nat /\ 0 < Chunk /\ Chunk <= left
  BY <1>1, WordPlace, Zenon
<1>5. left # Chunk => left - Chunk \in 1 .. job.cnt
  BY <1>1, <1>2
<1>3. CASE pos + Chunk < AddrSpace
  <2>1. pos + Chunk \in 0 .. AddrSpace - 1
    BY <1>1, <1>2, <1>3
  <2>2. Ulong(pos + Chunk) = pos + Chunk
    BY <2>1, UlongIs, Zenon
  <2>3. \/ pos + Chunk = job.dest + job.cnt - (left - Chunk)
        \/ pos + Chunk = job.dest + job.cnt - (left - Chunk) - AddrSpace
    BY <1>1, <1>2
  <2>. QED  BY <1>5, <2>1, <2>2, <2>3, Zenon DEF Addresses
<1>4. CASE AddrSpace <= pos + Chunk
  <2>1. pos + Chunk \in Int /\ pos + Chunk < 2 * AddrSpace
    BY <1>1, <1>2
  <2>2. Ulong(pos + Chunk) = pos + Chunk - AddrSpace
    BY <1>1, <1>2, <1>4, <2>1, UlongOver
  <2>3. pos = job.dest + job.cnt - left
    BY <1>1, <1>2, <1>4
  <2>4. pos + Chunk - AddrSpace = job.dest + job.cnt - (left - Chunk) - AddrSpace
    BY <1>1, <1>2, <2>3
  <2>5. ~(~Wraps /\ left # Chunk)
    BY <1>1, <1>2, <1>4, <2>3
  <2>6. pos + Chunk - AddrSpace \in Addresses
    BY <1>1, <1>2, <1>4, <2>1 DEF Addresses
  <2>. QED  BY <1>5, <2>2, <2>4, <2>5, <2>6, Zenon
<1>6. pos + Chunk < AddrSpace \/ AddrSpace <= pos + Chunk
  BY <1>1, <1>2
<1>. QED  BY <1>3, <1>4, <1>6, Zenon

\* When the last bank is done so is the range.
LEMMA LastBankIsLast ==
  ASSUME TypeOK, JobInv, Ready, ~Wraps, bank = job.last,
         Ulong(pos + Chunk) = Ulong(b_end(bank) + 1)
  PROVE  left = Chunk
<1>1. Copying
  BY Zenon DEF Ready, Copying
<1>2. /\ job.dest \in Nat /\ job.cnt \in Nat /\ pos \in Nat /\ left \in Nat /\ AddrSpace \in Nat
      /\ 0 < left /\ pos = job.dest + job.cnt - left /\ job.dest + job.cnt <= AddrSpace
  BY <1>1, JobNumbers
<1>3. Chunk \in Nat /\ 0 < Chunk /\ Chunk <= left
  BY <1>2, WordPlace, Zenon
<1>4. bank \in Banks /\ pos < High(bank) /\ b_end(bank) = High(bank) - 1
  BY BankOfAddress, Zenon DEF Ready, TypeOK
<1>5. High(bank) \in Nat /\ 0 < High(bank) /\ High(bank) <= AddrSpace
  BY <1>2, <1>4, BankPlace DEF TypeOK
<1>6. job.dest + job.cnt <= High(bank)
  <2>1. job.dest + job.cnt - 1 \in Start[job.last] .. b_end(job.last)
    BY <1>1, Zenon DEF JobInv
  <2>. QED  BY <1>2, <1>4, <1>5, <2>1
<1>7. pos + Chunk <= High(bank) /\ 0 < pos + Chunk
  BY <1>2, <1>3, <1>5, <1>6
<1>8. b_end(bank) + 1 = High(bank)
  BY <1>4, <1>5
<1>9. CASE High(bank) = AddrSpace
  <2>1. Ulong(High(bank)) = 0
    <3>1. High(bank) \in Int /\ AddrSpace <= High(bank) /\ High(bank) < 2 * AddrSpace
      BY <1>5, <1>9
    <3>. QED  BY <1>2, <1>9, <3>1, UlongOver
  <2>2. pos + Chunk < AddrSpace => Ulong(pos + Chunk) = pos + Chunk
    <3>1. pos + Chunk < AddrSpace => pos + Chunk \in 0 .. AddrSpace - 1
      BY <1>2, <1>3
    <3>. QED  BY <3>1, UlongIs, Zenon
  <2>3. pos + Chunk = High(bank)
    BY <1>2, <1>3, <1>5, <1>7, <1>8, <1>9, <2>1, <2>2
  <2>. QED  BY <1>2, <1>3, <1>6, <2>3
<1>10. CASE High(bank) # AddrSpace
  <2>3. High(bank) < AddrSpace
    BY <1>2, <1>5, <1>10
  <2>1. High(bank) \in 0 .. AddrSpace - 1 /\ pos + Chunk \in 0 .. AddrSpace - 1
    BY <1>2, <1>3, <1>5, <1>7, <2>3
  <2>2. Ulong(High(bank)) = High(bank) /\ Ulong(pos + Chunk) = pos + Chunk
    BY <2>1, UlongIs, Zenon
  <2>. QED  BY <1>2, <1>3, <1>6, <1>8, <2>2
<1>. QED  BY <1>9, <1>10, Zenon

\* The loops go on, or end.  Where they end the whole range has been written.
LEMMA AdvanceKeeps ==
  ASSUME FlashInv, Ready, Advance, flash' \in [FlashAddrs -> Byte], UNCHANGED stuck,
         fresh /\ ~Wraps => flash' = Programmed(WordBytes)
  PROVE  /\ FlashInv'
         /\ cmd' = "idle" /\ ~Wraps => left = Chunk
<1> DEFINE bankDone == Ulong(pos + Chunk) = Ulong(b_end(bank) + 1)
           next == IF bankDone THEN bank + 1 ELSE bank
<1>1. TypeOK /\ JobInv /\ GuardInv /\ StoredInv /\ Copying /\ cmd = "cp"
  BY Zenon DEF FlashInv, Ready, Copying
<1>2. UNCHANGED <<protect, cmds>>
  BY Zenon DEF Advance
<1>3. /\ bank \in Banks /\ job.last \in Banks /\ bank <= job.last
      /\ next \in {bank, bank + 1}
  BY <1>1, Zenon DEF TypeOK, JobInv
<1>4. CASE left = Chunk \/ next > job.last
  <2>1. Return(0)
    BY <1>4, Zenon DEF Advance, Chunk
  <2>2. FlashInv'
    BY <1>1, <1>2, <2>1, ReturnKeeps, Zenon DEF TypeOK, KnownBanks, Codes
  <2>3. ~Wraps /\ next > job.last => left = Chunk
    <3>1. next > job.last => bankDone /\ bank = job.last
      BY <1>3 DEF Banks
    <3>. QED  BY <1>1, <3>1, LastBankIsLast, Zenon
  <2>. QED  BY <1>4, <2>2, <2>3, Zenon
<1>5. CASE ~(left = Chunk \/ next > job.last)
  <2>1. /\ pos' = Ulong(pos + Chunk) /\ left' = left - Chunk /\ bank' = next
        /\ cmd' \in {"cp", "stray"}
        /\ UNCHANGED <<SectorCount, sel, mode, job, rc, fresh>>
    BY <1>5, Zenon DEF Advance, Chunk
  <2>2. /\ FlashAddrs' = FlashAddrs /\ Sectors' = Sectors /\ KnownBanks' = KnownBanks
        /\ \A b, s : start(b, s)' = start(b, s) /\ end(b, s)' = end(b, s)
        /\ \A b : b_end(b)' = b_end(b)
    BY <2>1, CellsFixed, Zenon
  <2>3. /\ pos' \in Addresses
        /\ pos' \in {job.dest + job.cnt - left', job.dest + job.cnt - left' - AddrSpace}
        /\ ~Wraps => pos' = pos + Chunk
        /\ left' \in 1 .. job.cnt
    BY <1>1, <1>5, <2>1, AdvanceNumbers, Zenon
  <2>4. /\ job.dest \in Nat /\ job.cnt \in Nat /\ pos \in Nat /\ left \in Nat /\ AddrSpace \in Nat
        /\ 0 < left /\ job.cnt < AddrSpace
    BY <1>1, JobNumbers, Zenon
  <2>5. Chunk \in Nat
    BY <2>4, WordPlace, Zenon
  <2>6. next \in Banks /\ next <= job.last
    BY <1>3, <1>5 DEF Banks
  <2>7. Wraps' = Wraps /\ job' = job /\ fresh' = fresh /\ stuck' = stuck /\ protect' = protect
    BY <1>2, <2>1, Zenon DEF Wraps
  <2>8. TypeOK'
    <3>1. left' \in Addresses
      BY <2>3, <2>4 DEF Addresses
    <3>2. /\ SectorCount' \in Found /\ flash' \in [FlashAddrs' -> Byte] /\ protect' \subseteq Sectors'
          /\ stuck' \subseteq KnownBanks' /\ sel' \subseteq Sectors'
      BY <1>1, <2>1, <2>2, <2>7, Zenon DEF TypeOK, KnownBanks
    <3>3. /\ job'.dest \in Addresses /\ job'.cnt \in Addresses /\ job'.last \in Banks
          /\ mode' \in {"none", "range", "bank", "all"} /\ rc' \in {-1, 0, 1, 2, 4, 8}
          /\ fresh' \in BOOLEAN /\ cmds' \in 0 .. MaxCmds
      BY <1>1, <1>2, <2>1, <2>7, Zenon DEF TypeOK
    <3>. QED  BY <2>1, <2>3, <2>6, <3>1, <3>2, <3>3, Zenon DEF TypeOK, KnownBanks
  <2>9. JobInv'
    <3>1. ~Wraps => job.dest <= pos /\ job.dest + job.cnt - 1 \in Start[job.last] .. b_end(job.last)
      BY <1>1, Zenon DEF JobInv
    <3>2. ~Wraps => job.dest <= pos'
      BY <2>3, <2>4, <2>5, <3>1, SMTT(30)
    <3>3. job.src \in [Addresses -> Byte]
      BY <1>1, Zenon DEF JobInv
    <3>. QED  BY <2>1, <2>2, <2>3, <2>6, <2>7, <3>1, <3>2, <3>3, Zenon DEF JobInv
  <2>10. GuardInv'
    BY <1>1, <2>2, <2>7, Zenon DEF GuardInv, AtTop
  <2>11. StoredInv'
    <3>. SUFFICES ASSUME fresh, ~Wraps
                  PROVE  /\ stuck = {}
                         /\ \A a \in FlashAddrs :
                              /\ job.dest <= a /\ a < pos' => flash'[a] = job.src[a - job.dest]
                              /\ pos' <= a /\ a < job.dest + job.cnt => flash'[a] = Erased
      BY <2>2, <2>7, Zenon DEF StoredInv, Erased
    <3>1. stuck = {}
      BY <1>1, Zenon DEF StoredInv
    <3>2. pos' = pos + Chunk /\ flash' = Programmed(WordBytes)
      BY <2>3, Zenon
    <3>. QED  BY <1>1, <3>1, <3>2, WordStored, Zenon
  <2>12. EraseInv'
    BY <2>1, Zenon DEF EraseInv
  <2>13. cmd' # "idle"
    BY <2>1, Zenon
  <2>. QED  BY <2>8, <2>9, <2>10, <2>11, <2>12, <2>13, Zenon DEF FlashInv
<1>. QED  BY <1>4, <1>5, Zenon

\* Every step of the loop that writes.
LEMMA WriteKeeps ==
  ASSUME FlashInv, NotErased \/ WriteWord \/ WriteTimeout \/ WriteStuck
  PROVE  FlashInv'
<1>1. TypeOK /\ StoredInv /\ Ready /\ Copying
  BY Zenon DEF FlashInv, NotErased, WriteWord, WriteTimeout, WriteStuck, Ready, Copying
<1>2. /\ \A n : Programmed(n) \in [FlashAddrs -> Byte]
      /\ flash \in [FlashAddrs -> Byte] /\ stuck \subseteq KnownBanks
  BY <1>1, CellsType, Zenon DEF TypeOK, KnownBanks
<1>3. bank \in KnownBanks
  BY <1>1, BankOfAddress, Zenon DEF Ready, TypeOK
<1>4. ASSUME NEW r \in Codes, Fails(r), flash' \in [FlashAddrs -> Byte],
             stuck' \in {stuck, stuck \cup {bank}}
      PROVE  FlashInv'
  <2>1. stuck' \subseteq KnownBanks
    BY <1>2, <1>3, <1>4, Zenon
  <2>. QED  BY <1>1, <1>4, <2>1, ReturnKeeps, Zenon DEF Fails, TypeOK
<1>5. 1 \in Codes /\ 2 \in Codes
  BY Zenon DEF Codes
<1>6. CASE NotErased
  BY <1>2, <1>4, <1>5, <1>6, Zenon DEF NotErased
<1>7. CASE WriteWord
  BY <1>1, <1>2, <1>7, AdvanceKeeps, Zenon DEF WriteWord
<1>8. CASE WriteTimeout
  BY <1>2, <1>4, <1>5, <1>8, Zenon DEF WriteTimeout
<1>9. CASE WriteStuck
  <2>1. ~(fresh /\ ~Wraps)
    BY <1>1, <1>9, Zenon DEF WriteStuck, StoredInv
  <2>2. UNCHANGED <<flash, stuck>> /\ (Advance \/ Fails(1) \/ Fails(2))
    BY <1>9, Zenon DEF WriteStuck
  <2>3. CASE Advance
    BY <1>1, <1>2, <2>1, <2>2, <2>3, AdvanceKeeps, Zenon
  <2>. QED  BY <1>2, <1>4, <1>5, <2>2, <2>3, Zenon
<1>. QED  BY <1>6, <1>7, <1>8, <1>9, Zenon

---------------------------------------------------------------------------
(* The properties. *)

\* A step that changes nothing.
LEMMA StutterKeeps ==
  ASSUME FlashInv, UNCHANGED vars
  PROVE  FlashInv'
<1>1. /\ UNCHANGED <<SectorCount, flash, protect, stuck, cmd>>
      /\ UNCHANGED <<bank, sel, mode, job, pos, left, fresh>> /\ UNCHANGED <<rc, cmds>>
  BY Zenon DEF vars, jobVars
<1>2. /\ FlashAddrs' = FlashAddrs /\ Sectors' = Sectors /\ KnownBanks' = KnownBanks
      /\ \A b, s : start(b, s)' = start(b, s) /\ end(b, s)' = end(b, s)
      /\ \A b : b_end(b)' = b_end(b)
      /\ \A a : At(a)' = At(a)
  BY <1>1, CellsFixed, Zenon
<1>3. TypeOK'
  BY <1>1, <1>2, Zenon DEF FlashInv, TypeOK, KnownBanks
<1>4. JobInv'
  BY <1>1, <1>2, Zenon DEF FlashInv, JobInv, Copying, Wraps
<1>5. GuardInv'
  BY <1>1, <1>2, Zenon DEF FlashInv, GuardInv, Copying, Wraps, AtTop
<1>6. StoredInv'
  BY <1>1, <1>2, Zenon DEF FlashInv, StoredInv, Copying, Wraps, Erased
<1>7. EraseInv'
  BY <1>1, <1>2, Zenon DEF FlashInv, EraseInv, In, Targets, Erased
<1>. QED  BY <1>3, <1>4, <1>5, <1>6, <1>7, Zenon DEF FlashInv

\* The invariant of protect, erase and cp: a copy's position, length and banks
\* stay together, no sector it will write is protected, what is behind it is
\* stored and what is ahead is erased, and the banks an erase has left are
\* erased, after any number of commands, failures and losses of power
\* (flash_write, write_buff, flash_sect_erase, flash_erase).
THEOREM FlashCorrect == Spec => []FlashInv
<1>1. Init => FlashInv
  BY FlashInit, Zenon
<1>2. FlashInv /\ [Next]_vars => FlashInv'
  <2>. SUFFICES ASSUME FlashInv, [Next]_vars PROVE FlashInv'
    BY Zenon
  <2>1. CASE \/ \E r \in Ranges, on \in BOOLEAN : Protect(r, on)
             \/ \E b \in Banks, f, l \in SectorNumbers, on \in BOOLEAN : ProtectSectors(b, f, l, on)
             \/ \E b \in Banks, on \in BOOLEAN : ProtectBank(b, on)
             \/ \E on \in BOOLEAN : ProtectAll(on)
    BY <2>1, ProtectKeeps, Zenon
  <2>2. CASE \/ \E r \in Ranges : Erase(r)
             \/ \E b \in Banks, f, l \in SectorNumbers : EraseSectors(b, f, l)
             \/ \E b \in Banks : EraseBank(b)
             \/ EraseAll
    BY <2>2, EraseBegins, Zenon
  <2>3. CASE EraseNothing \/ EraseDone \/ EraseTimeout \/ EraseStuck
    BY <2>3, EraseKeeps, Zenon
  <2>4. CASE \E c \in Copies, src \in Sources : Cp(c, src)
    BY <2>4, CpKeeps, Zenon
  <2>5. CASE NotErased \/ WriteWord \/ WriteTimeout \/ WriteStuck
    BY <2>5, WriteKeeps, Zenon
  <2>6. CASE Flinfo \/ PowerCycle
    BY <2>6, InfoAndPowerKeep, Zenon
  <2>7. CASE UNCHANGED vars
    BY <2>7, StutterKeeps, Zenon
  <2>. QED  BY <2>1, <2>2, <2>3, <2>4, <2>5, <2>6, <2>7, Zenon DEF Next
<1>. QED  BY <1>1, <1>2, PTL DEF Spec

\* Every variable keeps its type, the selected sectors and banks among them.
THEOREM FlashTypes == Spec => []TypeOK
<1>1. FlashInv => TypeOK
  BY Zenon DEF FlashInv
<1>. QED  BY <1>1, FlashCorrect, PTL

\* How a step may change the cells: not at all, or by an erase of sectors of the
\* running command that are not protected, or by programming a word.
LEMMA StepCells ==
  ASSUME TypeOK, [Next]_vars
  PROVE  \/ flash' = flash
         \/ cmd = "erase" /\ \E v : \E t \in SUBSET Targets(bank) : flash' = Cleared(t, v)
         \/ cmd = "cp" /\ \E n : flash' = Programmed(n)
<1>1. CASE UNCHANGED vars
  BY <1>1, Zenon DEF vars
<1>2. CASE \/ \E r \in Ranges, on \in BOOLEAN : Protect(r, on)
           \/ \E b \in Banks, f, l \in SectorNumbers, on \in BOOLEAN : ProtectSectors(b, f, l, on)
           \/ \E b \in Banks, on \in BOOLEAN : ProtectBank(b, on)
           \/ \E on \in BOOLEAN : ProtectAll(on)
           \/ Flinfo
  BY <1>2, Zenon DEF Protect, ProtectSectors, ProtectBank, ProtectAll, Mark, Flinfo
<1>3. CASE \/ \E r \in Ranges : Erase(r)
           \/ \E b \in Banks, f, l \in SectorNumbers : EraseSectors(b, f, l)
           \/ \E b \in Banks : EraseBank(b)
           \/ EraseAll
  <2>1. ASSUME NEW b, NEW s, NEW m, StartErase(b, s, m) PROVE flash' = flash
    BY <2>1, Zenon DEF StartErase
  <2>2. ASSUME NEW r, EraseRefused(r) PROVE flash' = flash
    BY <2>2, Zenon DEF EraseRefused
  <2>3. ASSUME NEW r, Erase(r) PROVE flash' = flash
    BY <2>1, <2>2, <2>3, Zenon DEF Erase
  <2>4. ASSUME NEW b, NEW f, NEW l, EraseSectors(b, f, l) PROVE flash' = flash
    BY <2>1, <2>2, <2>4, Zenon DEF EraseSectors
  <2>. QED  BY <1>3, <2>1, <2>3, <2>4, Zenon DEF EraseBank, EraseAll
<1>4. CASE EraseNothing \/ EraseStuck
  BY <1>4, Zenon DEF EraseNothing, EraseStuck
<1>5. CASE EraseDone \/ EraseTimeout
  <2>1. Targets(bank) \in SUBSET Targets(bank) /\ Targets(bank) \ Worn \in SUBSET Targets(bank)
    BY Zenon
  <2>. QED  BY <1>5, <2>1, Zenon DEF EraseDone, EraseTimeout
<1>6. CASE \E c \in Copies, src \in Sources : Cp(c, src)
  BY <1>6, Zenon DEF Cp
<1>7. CASE NotErased \/ WriteWord \/ WriteTimeout \/ WriteStuck
  BY <1>7, Zenon DEF NotErased, WriteWord, WriteTimeout, WriteStuck, Ready
<1>8. CASE PowerCycle
  BY <1>8, Zenon DEF PowerCycle
<1>. QED  BY <1>1, <1>2, <1>3, <1>4, <1>5, <1>6, <1>7, <1>8, Zenon DEF Next

\* Erasing changes the cells of the sectors it is told, and no others.
LEMMA ClearedCells ==
  ASSUME flash \in [FlashAddrs -> Byte], NEW t, NEW v, NEW a \in FlashAddrs
  PROVE  /\ In(a, t) => Cleared(t, v)[a] = v
         /\ ~In(a, t) => Cleared(t, v)[a] = flash[a]
  BY Zenon DEF Cleared

\* What a step does to the cells, as the properties state it.
ElseKept ==
  \A a \in FlashAddrs :
    \/ cmd = "cp" /\ a \notin Asked
    \/ cmd = "erase" /\ ~In(a, sel)
    => flash'[a] = flash[a]
GuardKept ==
  \A x \in protect, a \in FlashAddrs :
    x \in At(a) /\ ~Overlooked(x) => flash'[a] = flash[a]
StoredAll ==
  cmd = "cp" /\ cmd' = "idle" /\ rc' = 0 /\ fresh /\ job.dest + job.cnt <= AddrSpace
    => \A a \in Asked : flash'[a] = job.src[Ulong(a - job.dest)]
ErasedAll ==
  cmd = "erase" /\ cmd' = "idle" /\ rc' = 0 /\ fresh /\ mode # "all"
    => \A a \in FlashAddrs : In(a, sel) /\ ~In(a, protect) => flash'[a] = Erased

\* A step changes no cell that its command is not about.
LEMMA ElseStep == ASSUME FlashInv, [Next]_vars PROVE ElseKept
<1>. SUFFICES ASSUME NEW a \in FlashAddrs,
                     (cmd = "cp" /\ a \notin Asked) \/ (cmd = "erase" /\ ~In(a, sel))
              PROVE  flash'[a] = flash[a]
  BY Zenon DEF ElseKept
<1>1. TypeOK /\ JobInv /\ flash \in [FlashAddrs -> Byte]
  BY Zenon DEF FlashInv, TypeOK
<1>2. CASE cmd = "erase" /\ \E v : \E t \in SUBSET Targets(bank) : flash' = Cleared(t, v)
  <2>1. PICK v : \E t \in SUBSET Targets(bank) : flash' = Cleared(t, v)
    BY <1>2, Zenon
  <2>2. PICK t \in SUBSET Targets(bank) : flash' = Cleared(t, v)
    BY <2>1, Zenon
  <2>3. ~In(a, t)
    BY <1>2, <2>2, Zenon DEF In, Targets
  <2>. QED  BY <1>1, <2>2, <2>3, ClearedCells, Zenon
<1>3. CASE cmd = "cp" /\ \E n : flash' = Programmed(n)
  <2>1. ~Copied(a)
    BY <1>1, <1>3, CopiedAsked, Zenon DEF Copying
  <2>. QED  BY <1>1, <1>3, <2>1, ProgrammedCells, Zenon
<1>. QED  BY <1>1, <1>2, <1>3, StepCells, Zenon

\* A step changes no cell of a protected sector that flash_write() can see.
LEMMA GuardStep == ASSUME FlashInv, [Next]_vars PROVE GuardKept
<1>. SUFFICES ASSUME NEW x \in protect, NEW a \in FlashAddrs, x \in At(a), ~Overlooked(x)
              PROVE  flash'[a] = flash[a]
  BY Zenon DEF GuardKept
<1>1. TypeOK /\ JobInv /\ GuardInv /\ flash \in [FlashAddrs -> Byte] /\ SectorCount \in Found
  BY Zenon DEF FlashInv, TypeOK
<1>2. CASE cmd = "erase" /\ \E v : \E t \in SUBSET Targets(bank) : flash' = Cleared(t, v)
  <2>1. PICK v : \E t \in SUBSET Targets(bank) : flash' = Cleared(t, v)
    BY <1>2, Zenon
  <2>2. PICK t \in SUBSET Targets(bank) : flash' = Cleared(t, v)
    BY <2>1, Zenon
  <2>3. ASSUME NEW y \in t, y \in At(a) PROVE FALSE
    <3>1. x = y
      BY <1>1, <2>3, OneSector, Zenon DEF FlashAddrs
    <3>. QED  BY <2>2, <3>1, Zenon DEF Targets
  <2>4. ~In(a, t)
    BY <2>3, Zenon DEF In
  <2>. QED  BY <1>1, <2>2, <2>4, ClearedCells
<1>3. CASE cmd = "cp" /\ \E n : flash' = Programmed(n)
  <2>1. /\ ~Wraps /\ Copying
        /\ ~(start(x[1], x[2]) < job.dest + job.cnt /\ job.dest <= end(x[1], x[2]))
    BY <1>1, <1>3, Zenon DEF GuardInv, Copying, Overlooked
  <2>2. /\ job.dest \in Nat /\ job.cnt \in Nat /\ pos \in Nat /\ left \in Nat
        /\ left <= job.cnt /\ pos = job.dest + job.cnt - left
    BY <1>1, <2>1, JobNumbers, Zenon
  <2>3. /\ x \in Sectors /\ start(x[1], x[2]) \in Nat /\ end(x[1], x[2]) \in Nat
        /\ start(x[1], x[2]) <= a /\ a <= end(x[1], x[2]) /\ a \in Nat
    <3>1. x \in Sectors /\ start(x[1], x[2]) <= a /\ a <= end(x[1], x[2]) /\ a \in Addresses
      BY <1>1, Zenon DEF At, FlashAddrs
    <3>2. Addresses \subseteq Nat
      BY SMT DEF Addresses
    <3>3. start(x[1], x[2]) \in Addresses /\ end(x[1], x[2]) \in Addresses
      BY <1>1, <3>1, BytesOfSector, Zenon
    <3>. QED  BY <3>1, <3>2, <3>3, Zenon
  <2>4. ~Copied(a)
    BY <2>1, <2>2, <2>3, SMTT(30) DEF Copied
  <2>. QED  BY <1>1, <1>3, <2>4, ProgrammedCells, Zenon
<1>. QED  BY <1>1, <1>2, <1>3, StepCells, Zenon

\* A command that runs goes on, or is cut short.
LEMMA RunningStep ==
  ASSUME cmd # "idle", [Next]_vars
  PROVE  \/ EraseNothing \/ EraseDone \/ EraseTimeout \/ EraseStuck
         \/ NotErased \/ WriteWord \/ WriteTimeout \/ WriteStuck
         \/ PowerCycle \/ UNCHANGED vars
<1>1. ~Typed
  BY Zenon DEF Typed
<1>2. ~\E c \in Copies, src \in Sources : Cp(c, src)
  BY <1>1, Zenon DEF Cp
<1>3. ~(\/ \E r \in Ranges, on \in BOOLEAN : Protect(r, on)
        \/ \E b \in Banks, f, l \in SectorNumbers, on \in BOOLEAN : ProtectSectors(b, f, l, on)
        \/ \E b \in Banks, on \in BOOLEAN : ProtectBank(b, on)
        \/ \E on \in BOOLEAN : ProtectAll(on)
        \/ Flinfo)
  BY <1>1, Zenon DEF Protect, ProtectSectors, ProtectBank, ProtectAll, Mark, Flinfo
<1>4. ~(\/ \E r \in Ranges : Erase(r)
        \/ \E b \in Banks, f, l \in SectorNumbers : EraseSectors(b, f, l)
        \/ \E b \in Banks : EraseBank(b)
        \/ EraseAll)
  <2>1. (\A b, s, m : ~StartErase(b, s, m)) /\ \A r : ~EraseRefused(r)
    BY <1>1, Zenon DEF StartErase, EraseRefused
  <2>. QED  BY <2>1, Zenon DEF Erase, EraseSectors, EraseBank, EraseAll
<1>. QED  BY <1>2, <1>3, <1>4, Zenon DEF Next

\* A copy that returns 0 has stored its range.
LEMMA StoredStep == ASSUME FlashInv, [Next]_vars PROVE StoredAll
<1>. SUFFICES ASSUME cmd = "cp", cmd' = "idle", rc' = 0, fresh,
                     job.dest + job.cnt <= AddrSpace, NEW a \in Asked
              PROVE  flash'[a] = job.src[Ulong(a - job.dest)]
  BY Zenon DEF StoredAll
<1>1. TypeOK /\ JobInv /\ StoredInv /\ Copying
  BY Zenon DEF FlashInv, Copying
<1>2. ~Wraps
  <2>1. job.dest \in Nat /\ job.cnt \in Nat /\ AddrSpace \in Nat
    BY <1>1, JobNumbers, Zenon
  <2>. QED  BY <2>1 DEF Wraps
<1>3. stuck = {}
  BY <1>1, <1>2, Zenon DEF StoredInv
<1>4. WriteWord
  <2>1. ~WriteStuck
    BY <1>3, Zenon DEF WriteStuck
  <2>2. ~(NotErased \/ WriteTimeout \/ PowerCycle)
    <3>1. ~Return(1) /\ ~Return(2) /\ ~Return(-1)
      BY DEF Return
    <3>. QED  BY <3>1, Zenon DEF NotErased, WriteTimeout, PowerCycle, Fails
  <2>3. ~UNCHANGED vars
    BY Zenon DEF vars
  <2>4. ~(EraseNothing \/ EraseDone \/ EraseTimeout \/ EraseStuck)
    BY Zenon DEF EraseNothing, EraseDone, EraseTimeout, EraseStuck
  <2>. QED  BY <2>1, <2>2, <2>3, <2>4, RunningStep, Zenon
<1>5. flash' = Programmed(WordBytes) /\ left = Chunk
  <2>1. /\ Ready /\ Advance /\ UNCHANGED stuck /\ flash' = Programmed(WordBytes)
    BY <1>4, Zenon DEF WriteWord
  <2>2. flash' \in [FlashAddrs -> Byte]
    BY <1>1, <2>1, CellsType, Zenon DEF TypeOK
  <2>. QED  BY <1>2, <2>1, <2>2, AdvanceKeeps, Zenon
<1>6. /\ a \in FlashAddrs /\ a \in Nat /\ job.dest <= a /\ a < job.dest + job.cnt
      /\ Ulong(a - job.dest) = a - job.dest
  BY <1>1, <1>2, AskedIs, Zenon
<1>7. pos + left = job.dest + job.cnt
  BY <1>1, <1>2, JobNumbers
<1>8. a < pos + Chunk
  BY <1>5, <1>6, <1>7, Zenon
<1>9. Programmed(WordBytes)[a] = job.src[a - job.dest]
  BY <1>1, <1>2, <1>6, <1>8, WordStored, Zenon
<1>. QED  BY <1>5, <1>6, <1>9, Zenon

\* An erase of a range or in a bank that returns 0 has erased its sectors.
LEMMA ErasedStep == ASSUME FlashInv, [Next]_vars PROVE ErasedAll
<1>. SUFFICES ASSUME cmd = "erase", cmd' = "idle", rc' = 0, fresh, mode # "all",
                     NEW a \in FlashAddrs, In(a, sel), ~In(a, protect)
              PROVE  flash'[a] = Erased
  BY Zenon DEF ErasedAll
<1>1. /\ TypeOK /\ EraseInv /\ flash \in [FlashAddrs -> Byte] /\ stuck = {}
      /\ mode \in {"range", "bank"} /\ bank \in Banks
  BY Zenon DEF FlashInv, EraseInv, TypeOK
<1>2. PICK x \in sel : x \in At(a) /\ x \notin protect /\ x[1] \in Banks
  <2>1. PICK x \in sel : x \in At(a)
    BY Zenon DEF In
  <2>2. x \in Sectors
    BY <1>1, Zenon DEF TypeOK
  <2>. QED  BY <2>1, <2>2, SectorName, Zenon DEF In
<1>3. In(a, Targets(x[1]))
  BY <1>2, Zenon DEF In, Targets
<1>4. EraseNothing \/ EraseDone
  <2>1. ~EraseStuck
    BY <1>1, Zenon DEF EraseStuck
  <2>2. ~(EraseTimeout \/ PowerCycle)
    <3>1. -1 # 0 /\ 1 # 0
      BY SMT
    <3>2. ~PowerCycle
      BY <3>1, Zenon DEF PowerCycle, Return
    <3>3. ~EraseTimeout
      BY <3>1, Zenon DEF EraseTimeout, NextBank, Return
    <3>. QED  BY <3>2, <3>3, Zenon
  <2>3. ~UNCHANGED vars
    BY Zenon DEF vars
  <2>4. ~(NotErased \/ WriteWord \/ WriteTimeout \/ WriteStuck)
    BY Zenon DEF NotErased, WriteWord, WriteTimeout, WriteStuck, Ready
  <2>. QED  BY <2>1, <2>2, <2>3, <2>4, RunningStep, Zenon
<1>5. /\ bank = 1 \/ mode = "bank"
      /\ EraseNothing => mode = "range"
  <2>1. CASE EraseNothing
    <3>1. NextBank(IF mode = "range" THEN rc ELSE 1)
      BY <2>1, Zenon DEF EraseNothing
    <3>2. mode = "range" => rc = 0
      BY <1>1, Zenon DEF EraseInv
    <3>3. mode = "bank" => rc' = 1
      BY <3>1, Zenon DEF NextBank, Return
    <3>4. mode = "range" /\ bank # 1 => cmd' = cmd
      BY <3>1, <3>2, Zenon DEF NextBank
    <3>. QED  BY <1>1, <3>3, <3>4
  <2>2. CASE EraseDone
    <3>1. NextBank(0) /\ ~EraseNothing
      BY <2>2, Zenon DEF EraseDone, EraseNothing
    <3>2. mode = "range" /\ bank # 1 => cmd' = cmd
      BY <3>1, Zenon DEF NextBank
    <3>. QED  BY <1>1, <3>1, <3>2, Zenon
  <2>. QED  BY <1>4, <2>1, <2>2, Zenon
<1>6. flash' = flash \/ flash' = Cleared(Targets(bank), Erased)
  BY <1>4, Zenon DEF EraseNothing, EraseDone
<1>7. CASE x[1] = bank
  <2>1. EraseDone
    BY <1>2, <1>4, <1>7, Zenon DEF EraseNothing
  <2>2. flash' = Cleared(Targets(bank), Erased) /\ In(a, Targets(bank))
    BY <1>3, <1>7, <2>1, Zenon DEF EraseDone
  <2>. QED  BY <1>1, <2>2, ClearedCells, Zenon
<1>8. CASE x[1] # bank
  <2>1. mode = "range"
    BY <1>1, <1>2, <1>8, Zenon DEF EraseInv
  <2>2. bank = 1 /\ x[1] = 0
    BY <1>1, <1>2, <1>5, <1>8, <2>1, Zenon DEF Banks
  <2>3. flash[a] = Erased
    BY <1>1, <1>3, <2>1, <2>2, Zenon DEF EraseInv
  <2>. QED  BY <1>1, <1>6, <2>3, ClearedCells
<1>. QED  BY <1>7, <1>8, Zenon

\* A copy changes no cell outside the range it was given and an erase none
\* outside its sectors, wherever they stop (write_buff, flash_erase).
THEOREM OnlyTheRange == Spec => NothingElse
<1>1. FlashInv /\ [Next]_vars => [ElseKept]_vars
  BY ElseStep, Zenon
<1>2. Spec => [][Next]_vars
  BY Zenon DEF Spec
<1>3. Spec => [][ElseKept]_vars
  BY <1>1, <1>2, FlashCorrect, PTL
<1>. QED  BY <1>3, Zenon DEF NothingElse, ElseKept

\* No command and no loss of power changes a cell of a protected sector, for any
\* chips at any place and any arguments, except a copy that wraps around the
\* address space, and a copy to the sector that ends at its top (flash_write).
THEOREM ProtectionHolds == Spec => GuardedKept
<1>1. FlashInv /\ [Next]_vars => [GuardKept]_vars
  BY GuardStep, Zenon
<1>2. Spec => [][Next]_vars
  BY Zenon DEF Spec
<1>3. Spec => [][GuardKept]_vars
  BY <1>1, <1>2, FlashCorrect, PTL
<1>. QED  BY <1>3, Zenon DEF GuardedKept, GuardKept

\* A copy onto erased flash that returns 0 has stored what was in memory, over
\* all its words and banks (flash_write, write_buff, write_word).
THEOREM CopyIsStored == Spec => CopyStored
<1>1. FlashInv /\ [Next]_vars => [StoredAll]_vars
  BY StoredStep, Zenon
<1>2. Spec => [][Next]_vars
  BY Zenon DEF Spec
<1>3. Spec => [][StoredAll]_vars
  BY <1>1, <1>2, FlashCorrect, PTL
<1>. QED  BY <1>3, Zenon DEF CopyStored, StoredAll

\* An erase of a range or in a bank that returns 0 has erased every sector it is
\* about that is not protected (flash_sect_erase, flash_erase).
THEOREM EraseIsComplete == Spec => EraseComplete
<1>1. FlashInv /\ [Next]_vars => [ErasedAll]_vars
  BY ErasedStep, Zenon
<1>2. Spec => [][Next]_vars
  BY Zenon DEF Spec
<1>3. Spec => [][ErasedAll]_vars
  BY <1>1, <1>2, FlashCorrect, PTL
<1>. QED  BY <1>3, Zenon DEF EraseComplete, ErasedAll

=============================================================================
