-------------------------------- MODULE Flash --------------------------------
(***************************************************************************)
(* Programming the flash of the board: protect, erase, cp and flinfo       *)
(* (common/cmd_flash.c, common/cmd_mem.c, common/flash.c) down to the chip *)
(* commands of board/eltec/bab7xx/flash.c, with loss of power.             *)
(*                                                                         *)
(* A byte is the set of its bits that are 1: an erased byte is Bits, and   *)
(* programming can only take bits away.  An erase is one step per bank, a  *)
(* copy one step per word, so that power may be lost in between.           *)
(*                                                                         *)
(* The chip (external): programming a bit that is already 0 to 1, or       *)
(* anything in a worn out sector, may exceed the chip's time limit.  It    *)
(* then answers reads with its status and ignores all commands but reset   *)
(* (the bank is in stuck).                                                 *)
(***************************************************************************)
EXTENDS FlashRange

CONSTANTS
  WordBytes,      \* 4: write_buff goes by words, write_word by bytes of it
  Bits, D7,       \* the bits of a byte; D7 is the one that is polled
  Contents,       \* what the flash may hold when the board is first used
  Sources,        \* what memory may hold, as functions of the offset
  Ranges,         \* the arguments of erase and protect: [first, arg, plus]
  SectorNumbers,  \* the sector numbers given as "N:SF[-SL]"
  Copies,         \* the arguments of cp: [dest, cnt]; cnt is count * size in a ulong
  ChipProtect,    \* the sectors the chip itself says are protected
  MonitorAt,      \* MonitorAt[b]: start of the monitor in bank b, or NoAddr
  MonitorLen,     \* monitor_flash_len
  Worn,           \* the sectors that may fail
  MaxCmds         \* bound of the model on the number of commands

FlashAddrs == {a \in Addresses : At(a) # {}}
Byte == SUBSET Bits
Erased == Bits

ASSUME FlashAssumption ==
  /\ WordBytes \in Nat \ {0}
  /\ SectorSize % WordBytes = 0
  /\ \A b \in Banks : Start[b] % WordBytes = 0
  /\ D7 \in Bits
  /\ Contents \subseteq [Addresses -> Byte]
  /\ Sources \subseteq [Addresses -> Byte]
  /\ Ranges \subseteq [first : Addresses, arg : Addresses, plus : BOOLEAN]
  /\ SectorNumbers \subseteq Nat
  /\ Copies \subseteq [dest : Addresses, cnt : Addresses]
  /\ ChipProtect \subseteq Banks \X Nat
  /\ MonitorAt \in [Banks -> Addresses \cup {NoAddr}]
  /\ MonitorLen \in Nat \ {0}
  /\ Worn \subseteq Banks \X Nat
  /\ MaxCmds \in Nat

VARIABLES
  flash,          \* what the cells hold
  protect,        \* the sectors with info->protect[] set
  stuck,          \* the banks that do not answer as memory
  cmd,            \* "idle", or the command that is running
  bank,           \* its loop over the banks
  sel,            \* erase: the sectors it is about
  mode,           \* erase: over a "range", in one "bank", or "all"
  job,            \* cp: destination, length, last bank and data
  pos, left,      \* cp: the next address and how much is left
  rc,             \* how the last command ended, for cp as flash_perror() says; -1 for none
  fresh,          \* history: the command started on banks that were not stuck
                  \* and, for cp, on erased bytes
  cmds

jobVars == <<bank, sel, mode, job, pos, left, fresh>>
vars == <<SectorCount, flash, protect, stuck, cmd, jobVars, rc, cmds>>

NoJob == [dest |-> 0, cnt |-> 0, last |-> 0, src |-> [a \in Addresses |-> {}]]

\* Every variable keeps to the values its C type and its uses allow.
TypeOK ==
  /\ SectorCount \in Found
  /\ flash \in [FlashAddrs -> Byte]
  /\ protect \subseteq Sectors
  /\ stuck \subseteq {b \in Banks : Known(b)}
  /\ cmd \in {"idle", "erase", "cp", "stray"}
  /\ bank \in Banks
  /\ sel \subseteq Sectors
  /\ mode \in {"none", "range", "bank", "all"}
  /\ job.dest \in Addresses /\ job.cnt \in Addresses /\ job.last \in Banks
  /\ pos \in Addresses
  /\ left \in Addresses
  /\ rc \in {-1, 0, 1, 2, 4, 8}
  /\ fresh \in BOOLEAN
  /\ cmds \in 0 .. MaxCmds

\* flash_get_size() and flash_init(): what the chips say, and the monitor.
Overlaps(b, s, from, to) == from <= end(b, s) /\ start(b, s) <= to
flash_init ==
  (ChipProtect \cap Sectors) \cup
  {x \in Sectors :
     /\ MonitorAt[x[1]] # NoAddr
     /\ MonitorAt[x[1]] <= Ulong(MonitorAt[x[1]] + MonitorLen - 1)
     /\ Overlaps(x[1], x[2], MonitorAt[x[1]], Ulong(MonitorAt[x[1]] + MonitorLen - 1))}

Init ==
  /\ SectorCount \in Found
  /\ flash \in {[a \in FlashAddrs |-> c[a]] : c \in Contents}
  /\ protect = flash_init
  /\ stuck = {}
  /\ cmd = "idle"
  /\ bank = 0
  /\ sel = {}
  /\ mode = "none"
  /\ job = NoJob
  /\ pos = 0
  /\ left = 0
  /\ rc = -1
  /\ fresh = FALSE
  /\ cmds = 0

---------------------------------------------------------------------------
Typed == cmd = "idle" /\ cmds < MaxCmds /\ cmds' = cmds + 1

\* The command returns: its local variables are gone.
Return(r) ==
  /\ cmd' = "idle"
  /\ rc' = r
  /\ bank' = 0
  /\ sel' = {}
  /\ mode' = "none"
  /\ job' = NoJob
  /\ pos' = 0
  /\ left' = 0
  /\ fresh' = FALSE
  /\ UNCHANGED SectorCount

\* The sectors f to l of a bank, as "N:SF[-SL]" names them; none if there are
\* no such sectors.
abbrev_spec(b, f, l) ==
  IF f \in SectorsOf(b) /\ l \in SectorsOf(b) THEN {b} \X (f .. l) ELSE {}
Bank(b) == {b} \X SectorsOf(b)

\* protect on/off over a range, over sectors of a bank, over a bank, over all.
Mark(on, sectors, r) ==
  /\ Typed
  /\ protect' = IF on THEN protect \cup sectors ELSE protect \ sectors
  /\ Return(r)
  /\ UNCHANGED <<flash, stuck>>
Protect(r, on) == LET c == Command(r.first, r.arg, r.plus) IN Mark(on, c.sel, c.rcode)
ProtectSectors(b, f, l, on) ==
  Mark(on, abbrev_spec(b, f, l), IF abbrev_spec(b, f, l) = {} THEN 1 ELSE 0)
ProtectBank(b, on) == Mark(on, Bank(b), IF Known(b) THEN 0 ELSE 1)
ProtectAll(on) == Mark(on, Sectors, 0)

\* flinfo: a bank that is unknown makes flash_print_info() call flash_init().
Flinfo ==
  /\ Typed
  /\ IF \A b \in Banks : Known(b) THEN UNCHANGED <<protect, stuck>>
     ELSE protect' = flash_init /\ stuck' = {}
  /\ Return(0)
  /\ UNCHANGED flash

---------------------------------------------------------------------------
(***************************************************************************)
(* Erase.                                                                  *)
(***************************************************************************)
StartErase(b, sectors, m) ==
  /\ Typed
  /\ cmd' = "erase"
  /\ bank' = b
  /\ sel' = sectors
  /\ mode' = m
  /\ rc' = 0
  /\ fresh' = (stuck = {})
  /\ UNCHANGED <<SectorCount, flash, protect, stuck, job, pos, left>>

EraseRefused(r) == Typed /\ Return(r) /\ UNCHANGED <<flash, protect, stuck>>

Erase(r) ==
  LET c == Command(r.first, r.arg, r.plus)
  IN IF c.rcode = 0 THEN StartErase(0, c.sel, "range") ELSE EraseRefused(c.rcode)
EraseSectors(b, f, l) ==
  IF abbrev_spec(b, f, l) # {} THEN StartErase(b, abbrev_spec(b, f, l), "bank") ELSE EraseRefused(1)
EraseBank(b) == StartErase(b, Bank(b), "bank")
EraseAll == StartErase(0, Sectors, "all")

\* Mutant: the loop over the sectors stops before the last one.
TargetsShort(b) ==
  {x \in sel : x[1] = b /\ x \notin protect /\ \E y \in sel : y[1] = b /\ x[2] < y[2]}

\* The sectors of the bank for which flash_erase() gives the erase command.
Targets(b) == {x \in sel : x[1] = b /\ x \notin protect}
In(a, sectors) == \E x \in sectors : x \in At(a)
Cleared(sectors, v) == [a \in FlashAddrs |-> IF In(a, sectors) THEN v ELSE flash[a]]

\* After flash_erase() of a bank: the next one, or the end.  A failure ends the
\* erase of a range; erase all goes on, and returns what the last bank returns.
NextBank(r) ==
  /\ IF bank = 1 \/ mode = "bank" \/ (mode = "range" /\ r # 0) THEN Return(r)
     ELSE rc' = r /\ bank' = 1 /\ UNCHANGED <<SectorCount, cmd, sel, mode, job, pos, left, fresh>>
  /\ UNCHANGED <<protect, cmds>>

\* A bank without sectors to erase: flash_erase() is called on an unknown bank
\* and fails, unless the command goes by a range.
EraseNothing ==
  /\ cmd = "erase"
  /\ {x \in sel : x[1] = bank} = {}
  /\ NextBank(IF mode = "range" THEN rc ELSE 1)
  /\ UNCHANGED <<flash, stuck>>

\* The chip erases all sectors it was told to, and is reset to read mode.
EraseDone ==
  /\ cmd = "erase"
  /\ {x \in sel : x[1] = bank} # {}
  /\ bank \notin stuck
  /\ flash' = Cleared(Targets(bank), Erased)
  /\ NextBank(0)
  /\ UNCHANGED stuck

\* A worn out sector: time-out, with only some sectors erased and the bank not
\* reset.
EraseTimeout ==
  /\ cmd = "erase"
  /\ bank \notin stuck
  /\ Targets(bank) \cap Worn # {}
  /\ flash' = Cleared(Targets(bank) \ Worn, Erased)
  /\ stuck' = stuck \cup {bank}
  /\ NextBank(1)

\* The bank answers with its status: the commands are ignored, and polling may
\* read anything.  Without a time-out the bank is reset to read mode.
EraseStuck ==
  /\ cmd = "erase"
  /\ {x \in sel : x[1] = bank} # {}
  /\ bank \in stuck
  /\ \/ NextBank(0) /\ stuck' = stuck \ {bank}
     \/ Targets(bank) # {} /\ NextBank(1) /\ UNCHANGED stuck
  /\ UNCHANGED flash

---------------------------------------------------------------------------
(***************************************************************************)
(* Copy to flash.                                                          *)
(***************************************************************************)
addr2info(a) == {b \in Banks : \E s \in SectorsOf(b) : <<b, s>> \in At(a)}

\* Mutant: only the sectors of the first bank are looked at.
HitsProtectedFirst(dest, last, banks) ==
  \E x \in protect :
    /\ x[1] \in addr2info(dest)
    /\ last >= start(x[1], x[2])
    /\ dest < IF x[2] = LastSector(x[1]) THEN Ulong(b_end(x[1]) + 1) ELSE start(x[1], x[2] + 1)

\* The test of flash_write(): the end of the last sector is taken as the
\* address after the bank.
HitsProtected(dest, last, banks) ==
  \E x \in protect :
    /\ x[1] \in banks
    /\ last >= start(x[1], x[2])
    /\ dest < IF x[2] = LastSector(x[1]) THEN Ulong(b_end(x[1]) + 1) ELSE start(x[1], x[2] + 1)

\* do_mem_cp() with a destination in flash, and flash_write() up to the loop
\* that writes.
Cp(c, src) ==
  /\ Typed
  /\ addr2info(c.dest) # {}
  /\ LET last == Ulong(c.dest + c.cnt - 1)
         b0 == CHOOSE b \in addr2info(c.dest) : TRUE
         b1 == CHOOSE b \in addr2info(last) : TRUE
     IN \/ /\ c.cnt = 0
           /\ Return(0)
        \/ /\ c.cnt # 0
           /\ addr2info(last) = {}
           /\ Return(8)
        \/ /\ c.cnt # 0
           /\ addr2info(last) # {}
           /\ HitsProtected(c.dest, last, b0 .. b1)
           /\ Return(4)
        \/ /\ c.cnt # 0
           /\ addr2info(last) # {}
           /\ ~HitsProtected(c.dest, last, b0 .. b1)
           /\ b0 > b1
           /\ Return(0)
        \/ /\ c.cnt # 0
           /\ addr2info(last) # {}
           /\ ~HitsProtected(c.dest, last, b0 .. b1)
           /\ b0 <= b1
           /\ cmd' = "cp"
           /\ bank' = b0
           /\ job' = [dest |-> c.dest, cnt |-> c.cnt, last |-> b1, src |-> src]
           /\ pos' = c.dest
           /\ left' = c.cnt
           /\ rc' = 0
           /\ fresh' = (stuck = {} /\ \A a \in FlashAddrs : Ulong(a - c.dest) < c.cnt => flash[a] = Erased)
           /\ UNCHANGED <<SectorCount, sel, mode>>
  /\ UNCHANGED <<flash, protect, stuck>>

\* The word at pos: the bytes that are not copied are read back.
wp == pos - (pos % WordBytes)
Copied(a) == pos <= a /\ a < pos + left

\* Mutant: the source pointer is not moved on when the copy goes to bank 1.
SourceAgain(a) == job.src[Ulong(a - IF a < Start[1] THEN job.dest
                                    ELSE IF job.dest < Start[1] THEN Start[1] ELSE job.dest)]

Source(a) == job.src[Ulong(a - job.dest)]

\* Mutant: the bytes around are not read back.
DataPadded(a) == IF Copied(a) THEN Source(a) ELSE {}

Data(a) == IF Copied(a) THEN Source(a) ELSE flash[a]

Ready == cmd = "cp" /\ addr2info(pos) = {bank}
Fails(r) == Return(r) /\ UNCHANGED <<protect, cmds>>

\* The rest of the loops: the next word, the next bank, or the end.
Advance ==
  LET n == IF WordBytes - (pos % WordBytes) < left THEN WordBytes - (pos % WordBytes) ELSE left
      bankDone == Ulong(pos + n) = Ulong(b_end(bank) + 1)
      next == IF bankDone THEN bank + 1 ELSE bank
  IN /\ IF left = n \/ next > job.last THEN Return(0)
        ELSE /\ pos' = Ulong(pos + n)
             /\ left' = left - n
             /\ bank' = next
             /\ cmd' = IF addr2info(pos') = {next} THEN "cp" ELSE "stray"
             /\ UNCHANGED <<SectorCount, sel, mode, job, rc, fresh>>
     /\ UNCHANGED <<protect, cmds>>

\* write_word(): the low byte of the word's data, which is its last byte in
\* memory, is compared with the first byte of the flash.
LooksErased == Data(wp + WordBytes - 1) \subseteq flash[wp]

NotErased == Ready /\ bank \notin stuck /\ ~LooksErased /\ Fails(2) /\ UNCHANGED <<flash, stuck>>

\* Programming the first n bytes of the word.
Programmed(n) ==
  [a \in FlashAddrs |-> IF wp <= a /\ a < wp + n THEN flash[a] \cap Data(a) ELSE flash[a]]
PollsEqual(a) == D7 \in Data(a) => D7 \in flash[a]
WriteWord ==
  /\ Ready
  /\ bank \notin stuck
  /\ LooksErased
  /\ \A i \in 0 .. WordBytes - 1 : PollsEqual(wp + i)
  /\ flash' = Programmed(WordBytes)
  /\ Advance
  /\ UNCHANGED stuck

\* Byte n never reads as polled for: the chip is done with the byte and D7 is
\* still 0, or it has exceeded its limit and is stuck.
WriteTimeout ==
  /\ Ready
  /\ bank \notin stuck
  /\ LooksErased
  /\ \E n \in 0 .. WordBytes - 1 :
       /\ \A i \in 0 .. WordBytes - 1 : i < n => PollsEqual(wp + i)
       /\ \/ ~PollsEqual(wp + n) /\ UNCHANGED stuck
          \/ /\ ~(Data(wp + n) \subseteq flash[wp + n]) \/ At(wp) \cap Worn # {}
             /\ stuck' = stuck \cup {bank}
       /\ \E k \in {n, n + 1} : flash' = Programmed(k)
  /\ Fails(1)

\* All reads return the status and nothing is programmed.
WriteStuck ==
  /\ Ready
  /\ bank \in stuck
  /\ Advance \/ Fails(1) \/ Fails(2)
  /\ UNCHANGED <<flash, stuck>>

---------------------------------------------------------------------------
\* Power is lost at any time: a sector being erased may hold anything in
\* between, a word may be half programmed; flash_init() runs again.
PowerCycle ==
  /\ \/ cmd \in {"idle", "stray"} /\ UNCHANGED flash
     \/ cmd = "erase" /\ \E v \in {{}, Erased} : \E t \in SUBSET Targets(bank) :
          flash' = IF bank \in stuck THEN flash ELSE Cleared(t, v)
     \/ cmd = "cp" /\ \E n \in 0 .. WordBytes :
          flash' = IF bank \in stuck \/ ~LooksErased THEN flash ELSE Programmed(n)
  /\ protect' = flash_init
  /\ stuck' = {}
  /\ Return(-1)
  /\ UNCHANGED cmds

Next ==
  \/ \E r \in Ranges, on \in BOOLEAN : Protect(r, on)
  \/ \E b \in Banks, f, l \in SectorNumbers, on \in BOOLEAN : ProtectSectors(b, f, l, on)
  \/ \E b \in Banks, on \in BOOLEAN : ProtectBank(b, on)
  \/ \E on \in BOOLEAN : ProtectAll(on)
  \/ Flinfo
  \/ \E r \in Ranges : Erase(r)
  \/ \E b \in Banks, f, l \in SectorNumbers : EraseSectors(b, f, l)
  \/ \E b \in Banks : EraseBank(b)
  \/ EraseAll
  \/ EraseNothing \/ EraseDone \/ EraseTimeout \/ EraseStuck
  \/ \E c \in Copies, src \in Sources : Cp(c, src)
  \/ NotErased \/ WriteWord \/ WriteTimeout \/ WriteStuck
  \/ PowerCycle

Spec == Init /\ [][Next]_vars

---------------------------------------------------------------------------
(***************************************************************************)
(* Properties.                                                             *)
(***************************************************************************)
Asked == {a \in FlashAddrs : Ulong(a - job.dest) < job.cnt}

\* What the test of flash_write() does not see: a range that wraps around the
\* address space, whose last address is before its first, and a sector that ends
\* at the top, for which the address after it is 0.
Wraps == job.dest + job.cnt > AddrSpace
AtTop(x) == end(x[1], x[2]) = AddrSpace - 1
Overlooked(x) == cmd = "cp" /\ (Wraps \/ AtTop(x))

\* No command and no power loss changes a cell of a protected sector, whatever
\* chips there are and however many banks a copy spans, except a copy that
\* wraps around, and any copy to the sector that ends at the top of memory
\* (flash_write, flash_erase).
GuardedKept ==
  [][\A x \in protect, a \in FlashAddrs :
       x \in At(a) /\ ~Overlooked(x) => flash'[a] = flash[a]]_vars

\* The same without the exceptions, as flash_write() is described: "no protected
\* sectors are hit".
ProtectedKept ==
  [][\A a \in FlashAddrs : In(a, protect) => flash'[a] = flash[a]]_vars

\* A copy changes no cell outside the range it was given, though it goes by
\* words, reads the bytes around back and may stop anywhere; an erase changes
\* none outside the sectors it is about (write_buff, flash_erase).
NothingElse ==
  [][\A a \in FlashAddrs :
       \/ cmd = "cp" /\ a \notin Asked
       \/ cmd = "erase" /\ ~In(a, sel)
       => flash'[a] = flash[a]]_vars

\* A copy onto erased flash that returns 0 has stored what was in memory, over
\* all words and banks of its range (flash_write, write_buff, write_word).
CopyStored ==
  [][cmd = "cp" /\ cmd' = "idle" /\ rc' = 0 /\ fresh /\ job.dest + job.cnt <= AddrSpace
       => \A a \in Asked : flash'[a] = job.src[Ulong(a - job.dest)]]_vars

\* An erase of a range or in a bank that returns 0 has erased every sector it is
\* about that is not protected, in both banks (flash_sect_erase, flash_erase).
EraseComplete ==
  [][cmd = "erase" /\ cmd' = "idle" /\ rc' = 0 /\ fresh /\ mode # "all"
       => \A a \in FlashAddrs : In(a, sel) /\ ~In(a, protect) => flash'[a] = Erased]_vars

---------------------------------------------------------------------------
(***************************************************************************)
(* Why the properties hold: the inductive invariant.                       *)
(***************************************************************************)

Copying == cmd \in {"cp", "stray"}

\* pos and left stay together, on the way from dest to the last bank.
JobInv ==
  Copying =>
    /\ job.src \in [Addresses -> Byte]
    /\ left \in 1 .. job.cnt
    /\ bank <= job.last
    /\ pos \in {job.dest + job.cnt - left, job.dest + job.cnt - left - AddrSpace}
    /\ ~Wraps => /\ job.dest <= pos
                 /\ job.dest + job.cnt - 1 \in Start[job.last] .. b_end(job.last)

\* No sector of the range is protected that the test can see.
GuardInv ==
  Copying /\ ~Wraps =>
    \A x \in protect :
      AtTop(x) \/ ~(start(x[1], x[2]) < job.dest + job.cnt /\ job.dest <= end(x[1], x[2]))

\* What is behind pos is stored, what is ahead is erased.
StoredInv ==
  Copying /\ fresh /\ ~Wraps =>
    /\ stuck = {}
    /\ \A a \in FlashAddrs :
         /\ job.dest <= a /\ a < pos => flash[a] = job.src[a - job.dest]
         /\ pos <= a /\ a < job.dest + job.cnt => flash[a] = Erased

\* The banks before have been erased.
EraseInv ==
  cmd = "erase" =>
    /\ mode # "none"
    /\ mode = "bank" => \A x \in sel : x[1] = bank
    /\ mode = "range" => rc = 0
    /\ fresh /\ mode # "all" => stuck = {}
    /\ fresh /\ mode = "range" /\ bank = 1 =>
         \A a \in FlashAddrs : In(a, Targets(0)) => flash[a] = Erased

FlashInv == TypeOK /\ JobInv /\ GuardInv /\ StoredInv /\ EraseInv

=============================================================================
