# BAB-750 U-Boot: TLA+ models and proofs

The repository keeps a U-Boot for the ELTEC BAB 740/750 board (`u-boot-lab`),
Python tools that drive it over a serial line (`scripts`), and containers that
serve files to it. What it is for is one path: load an image into memory over
the network, and program it into flash or boot it. This project models that
path from the Ethernet driver up to the script at the other end of the serial
line, checks the models with TLC on small instances and proves the central
results with TLAPS for every instance.

## The system

| Part | Source | What it does |
| --- | --- | --- |
| Network main loop | `net/net.c` | polls the device, ctrl-C, ARP and one timer; restarts, succeeds or fails as the handlers ask |
| Device ring | `net/eth.c` | the devices in a ring; init falls over to the next one; remembers where a restart began |
| ARP | `net/net.c` | keeps one packet back until the server's address is known |
| TFTP client | `net/tftp.c` | request, option acknowledgement, blocks, retries |
| Network commands | `common/cmd_net.c` | `tftpboot` and its relatives |
| Flash | `common/flash.c`, `common/cmd_flash.c`, `board/eltec/bab7xx/flash.c` | sector protection, erase, word programming |
| Environment | `common/cmd_nvedit.c`, `common/env_*.c` | variables in memory and NVRAM, guarded by a CRC |
| Command line | `common/main.c` | autoboot, line editing, command sequences |
| DC2114x driver | `drivers/net/dc2114x.c` | descriptor rings shared with the chip |
| BOOTP, RARP, NFS | `net/bootp.c`, `net/rarp.c`, `net/nfs.c` | other ways to get a file |
| Board start-up | `board/eltec/bab7xx/*.c` | register set-up, revision info dialogue |
| Host tools | `scripts/*.py` | wait for prompts, send commands, flash or boot |

Everything runs on one processor without threads. What makes the code hard to
test is the order of events from outside: packets that are lost, late, repeated
or left over from an earlier transfer; two timers and a key that are polled in
one loop; devices that fail to start; resets and power loss.

`PROJECT.json` lists every part with its status, the source lines behind every
definition, and the hazards with the properties that would catch each.

## Modules

### NetLoop: the loop and the device ring

`NetLoop()` is one C function with a label, a loop and a switch; `phase` says
where it stands (`idle`, `restart`, `rx`, `poll`, `timer`, `switch`). The other
variables have the names of the C variables; `active` is the set of devices in
`ETH_STATE_ACTIVE`.

| Code | Definition |
| --- | --- |
| entry of `NetLoop()` | `Enter` |
| `net_check_prereq()` = 1, 2, 0 | `NotConfigured`, `NoEtherAddr`, `StartProtocol` |
| `eth_init`, `eth_halt`, `eth_try_another` | `eth_init`, `eth_halt`, `RingStep`, `PassesFirstFailed` |
| `NetStartAgain()` from a packet handler, ARP, a timer | `NetStartAgain` in `StartAgainFromRx`, `StartAgainFromArp`, `StartAgainFromTimer` |
| ten second wait | `StartAgainTimeout` |
| ctrl-C | `Abort` |
| the switch | `Restart`, `Succeed`, `Fail` |

A batch of frames is handed up inside `eth_rx()` before anything else is
polled. A handler may therefore set `NetState` and a later frame of the same
batch be handled with it still set; `rx` allows this. When a handler reinitialises
the device its ring is empty and the batch is over (`poll`). `ArpTimeoutCheck()`
may start again and the timer may do so as well in the same turn (`timer`).

### Tftp: the client against an external server

`Tftp` extends `NetLoop` with `tftp.c`: `TftpStart`, one action per branch of
`TftpHandler` (`ReceiveOack`, `ReceiveNotBlockOne`, `ReceiveSameBlock`,
`ReceiveNewBlock`, `ReceiveError`), `TftpTimeout` and `store_block`. Packets
live in two sets that only grow; a packet in them may be delivered at any time,
any number of times, or never, which covers loss, duplication, delay and
reordering as well as packets of earlier attempts and commands. A byte is the
pair of a file and a position, so that memory tells which file each offset was
loaded from. The server is external: each request it answers opens a session on
a fresh port, with an option acknowledgement, with data, or with an error.

Options for multicast, transfer size and direct flash download are not built
for this board and are not modelled.

### NetArp: ARP, several devices, retry limits

`NetArp` extends `NetLoop` with the packet that waits for an address. The
protocol is TFTP up to the server's first answer, whose consequences are a
choice. A history variable counts the attempts of a command. The ring has
several devices here, some without a MAC address, some whose `init()` fails.

### Nfs and NetBoot: bootp, rarpboot, nfs

`Nfs` extends `NetLoop` with `nfs.c`: calls to the port mapper, mount, lookup,
reads until one returns nothing, unmount, and the way over `readlink` when the
name is a symbolic link. `NfsHandler()` goes on to the next state in most cases
whatever the reply function returned, and the model does the same. A reply to a
read that bears a verifier is an error in `nfs_read_reply()`, but what it returns
then is the word in the place of the status with its sign changed, and a 0 there is
the end of the file to the handler; `ReadReply` has both outcomes, and `curtailed`
remembers the second. Ids are only
compared, so the last call and the earlier ones are kept in their place.
`NetBoot` extends `Nfs` with the commands, `NetInitLoop()`, BOOTP and RARP and
their hand-over to NFS or TFTP as `autoload` says; of TFTP only the ends are left
here, since `Tftp` has the transfer. The servers are external and answer any
call they got, any number of times, late or never.

| Code | Definition |
| --- | --- |
| `NfsStart`, `NfsSend` | `NfsStart`, `NfsSend`, `Call` |
| `NfsHandler` and the reply functions | `NfsHandler`, `PortReply`, `MountReply`, `LookupReply`, `ReadReply`, `ReadlinkReply`, `UmountReply` |
| `NfsTimeout` | `NfsTimeout`, `Counted` |
| `BootpRequest`, `BootpHandler`, `RarpRequest`, `RarpHandler` | `BootpRequest`, `BootpReply`, `RarpRequest`, `RarpReply`, `StrayUdp`, `Autoload` |
| `BootpTimeout`, `RarpTimeout` | `AskAgain` |
| `netboot_common`, `netboot_update_env` | `Netboot`, `Done` |
| `NetInitLoop`, `net_check_prereq` | `InitialIP`, `NoAddress` |

### EthQueue and Dc21x4x: the driver and its controller

`EthQueue` is what `NetLoop()` relies on when it polls a device: a bounded queue
that may lose frames on the way in, but passes each up once and in order.
`Dc21x4x` is the driver: a ring of receive descriptors and one transmit
descriptor, which the controller (external) reads and writes at any time. The
packet handlers that `dc21x4x_recv()` calls may send, halt and initialise the
device from inside its loop. `IsQueue` says that the ring implements `EthQueue`, with
the frames that are stored and not yet passed up as the queue (`Pending`); frames are
numbered in the order of their arrival, so the oldest is the least.

| Code | Definition |
| --- | --- |
| `dc21x4x_init`, `send_setup_frame` | `dc21x4x_init`, `InitFails`, `SetupReturns` |
| `dc21x4x_send` | `dc21x4x_send`, `SendTimeout`, `SendQueue`, `SendReturns` |
| `dc21x4x_recv` | `dc21x4x_recv`, `RecvReturns`, `RecvSkip`, `RecvError`, `RecvFrame`, `RecvHanded` |
| `dc21x4x_halt` | `dc21x4x_halt` |

### FlashTool: the script and the board

`FlashTool` is `bab750_flash_u_boot.py` from its first look at the console to its
last message, against the board: the boot ROM (external), and the U-Boot in
memory with its revision dialogue, its autoboot delay and its command line. What
the board prints is a queue of tokens, one for each text the script looks for,
what the script types a queue of lines; both may be on their way for any time, and
the board may be reset, over and over. `seen` is the part of the console's
buffer that the waiting function looks at; `room` is what still fits before the
buffer is cut, after which the script's absolute positions point past its end.

| Code | Definition |
| --- | --- |
| `main()` and its `while True` | `LookReset`, `Restart`, `Go`, `FirstCommand`, `LookCommand`, `Deadline` |
| `wait_for_bootrom_loading()` | `LookBootrom`, `BootromEnter`, `Reconnect`, `LookSilent`, `QuietOver` |
| `wait_for_u_boot_prompt()` and the two that type keys | `LookUboot`, `StopEnter`, `CtrlC`, `LookSpam`, `StopEscape`, `StopGivesUp`, `CtrlCGivesUp` |
| `validate_flash_programming()` | `ErrorsIn` |
| `misc_init_r`, `abortboot`, `main_loop`, `ctrlc` | `MiscInit`, `DialogLine`, `MainLoop`, `AbortKey`, `TakesKey`, `Bootcmd`, `Swallow`, `Interrupt`, `IdleLine`, `CommandLine` |
| `setenv`, `tftpboot`, `protect off`, `erase`, `cp.b` | `Setenv`, `Tftpboot`, `ProtectOff`, `Erase`, `CpBRefused`, `CpBOver`, `CpB` |

The addresses come from the script's options and meet whatever chips the board
has, so what they are to this U-Boot is a choice (`Ranges`): whole sectors that hold the
image (`whole`) or are too short for it (`short`); an end that is refused with the text
the script knows (`end`); or refused with one of the other texts of `cmd_flash.c`,
starting in flash (`refused`) or outside of it (`outside`), where `cp.b` is a copy to
memory. A board without a revision info asks for one line by line (`revision`), which
the script does not answer. `abortboot()` and `ctrlc()` take one character: of a longer
line the rest is left (`TakesKey`).

### FlashRange: which sectors a command is about

`erase` and `protect` take two addresses, or an address and a length, and have to
find the sectors of up to two banks from them. `FlashRange` has the functions of
`cmd_flash.c` that do this (`addr_spec`, `flash_sect_roundb`,
`flash_fill_sect_ranges` as `BankRange` per turn of its loop) with addresses
modulo the address space, so that the end of a bank at the top of memory is 0 as
in the code. The sizes that `flash_get_size()` found are a variable, so one run
has chips of several sizes, and none. `FlashCommand` is one command with any pair
of arguments on any pair of chips, and compares the sectors it picks with the set of
addresses that was asked for.

### Flash: protect, erase, copy

`Flash` extends `FlashRange` with the commands (`Protect...`, `Erase...`, `Cp`,
`Flinfo`) and the chip commands of the board. A byte is the set of its bits that
are 1, programming takes bits away, an erase sets them all. A copy takes a step
per word and an erase a step per bank, and `PowerCycle` may come before each of
them. The chip is external: what was not erased, or is worn out, may exceed its
time limit, after which the bank answers with its status until it is reset
(`stuck`); the code does not reset it after a time-out.

| Code | Definition |
| --- | --- |
| `do_protect`, `flash_sect_protect`, `flash_protect` | `Protect`, `ProtectSectors`, `ProtectBank`, `ProtectAll` |
| `do_flinfo`, `flash_print_info`, `flash_init` | `Flinfo`, `flash_init` |
| `do_flerase`, `flash_sect_erase` | `Erase`, `EraseSectors`, `EraseBank`, `EraseAll`, `NextBank` |
| `flash_erase` | `EraseNothing`, `EraseDone`, `EraseTimeout`, `EraseStuck` |
| `do_mem_cp`, `flash_write` | `Cp`, `HitsProtected`, `Advance` |
| `write_buff`, `write_word` | `NotErased`, `WriteWord`, `WriteTimeout`, `WriteStuck` |

### EnvMap and Environment: setenv, saveenv, start

`EnvMap` is what the environment promises: a map in memory, and one in NVRAM that
a start begins with or, if it is lost, the default. What a `saveenv` can store is the
map the checksum was last computed over (`summed`), which after a `setenv` that did not
fit is not the one in memory. `Environment` is what the code
does: a buffer of bytes with strings, their NULs and what is left over behind them
(`env`), the bytes its CRC was computed over (`crc`; collisions are left out), the
copy in NVRAM that `saveenv` writes byte by byte, and the addresses that `setenv`
(`bi_ip_addr`) and `NetInitLoop()` copy out of it. BOOTP and RARP overwrite the latter
without a change of `env_id`; `leased` remembers which they have written since they
were last read. `Environment` is checked and
proved to implement `EnvMap` with `AsMap` (what `getenv` finds for every name) as the
refinement mapping.

| Code | Definition |
| --- | --- |
| `envmatch`, `getenv` | `envmatch`, `getenv` |
| `_do_setenv`: delete, append, overflow | `Cut`, `Appended`, `Fits` in `Set` and `Delete` |
| `_do_setenv`: console and baud rate | `RefuseEnv` |
| `saveenv`, `nvram_write` | `SaveBegin`, `SaveCrc`, `SaveByte` |
| `env_init`, `env_relocate`, `misc_init_r` | `env_init`, `Started`, `Reset` |
| `NetInitLoop`, and the zero address of `bootp` and `rarpboot` | `NetInitLoop`, `NetInitAsking` |
| `BootpCopyNetParams`, the RARP branch of `NetReceive` | `BootpCopyNetParams`, `RarpReply` |

## Runs

| Run | Instance | Shows |
| --- | --- | --- |
| `tftp` | two files (3 bytes and 1), block sizes 1 and 2, two attempts, two client and two server ports | `TypeOK`, `SuccessIntegrity`, `NeverSpoils`, and the inductive invariant `TransferInv` |
| `netarp` | two devices that may fail, one with an address, `netretry=4`, fair | `TypeOK`, the inductive invariant `ArpInv`, `PendingIsCurrent`, `NeverWaitsUnarmed`, `OnlyCurrentRuns`, `AttemptsBounded`, `CommandReturns` |
| `netboot` | two devices, one may fail; a file and a link to it; every `autoload`; fair | the inductive invariant `BootInv` with `TypeOK`, `LoadedMeansFile`, `AddressIsOurs`, `NeverWaitsUnarmed`, `CommandReturns` |
| `netboot_ipaddr` | three commands, no failing device | violation of `ComplaintIsTrue` |
| `dc21x4x` | a ring of three, four frames, two packets, two initialisations, fair | `TypeOK`, the inductive invariant `DcInv`, `SentIfReported`, `NotOverwritten`, `BufferOffered`, `IsQueue`, `FrameTaken`, `RecvEnds` |
| `flash_range` | all arguments and all pairs of chips of 0, 1 and 2 sectors at the top of an address space of 32 bytes | `NeverBeyond`, `CoversRange` |
| `flash` | two banks, the first possibly not recognised, the second ending at or below the top of memory, three commands, copies that wrap around, a worn out sector, power loss | the inductive invariant `FlashInv` with `TypeOK`, `GuardedKept`, `NothingElse`, `CopyStored`, `EraseComplete` |
| `flash_top` | a bank that ends at the top of memory | violation of `ProtectedKept` |
| `env` | five names, one the beginning of another, two values, two `setenv`, a `saveenv`, answers of BOOTP and RARP servers, resets | the inductive invariant `EnvInv` with `WellFormed`, `NetSeesEnv`, `ImplementsMap`, `SaveStores` |
| `env_full` | the same instance, without the other properties | violation of `SaveSurvives` |
| `flashtool` | resets over and over, every kind of range, transfer and flash that may fail, a buffer of 20 tokens, fair | the inductive invariant `ToolInv` with `TypeOK`, `InOrder`, `AheadByIdle`, `FinishedIsFlashed`, `Terminates` |
| `flashtool_tftp` | a transfer that may fail, no reset | violation of `FinishedMeansFlashed` |

What the properties say:

- `SuccessIntegrity`: a `tftpboot` that reports success has left exactly the
  requested file in memory, and counted its size.
- `NeverSpoils`: no step overwrites a loaded byte of the requested file with
  anything else.
- `PendingIsCurrent`: although a pending ARP request survives a restart, the
  packet it would release belongs to the present attempt and the present device.
- `NeverWaitsUnarmed`: the receive loop never waits without a timer.
- `OnlyCurrentRuns`: no device but the current one is running.
- `AttemptsBounded`: `netretry` bounds the attempts even when ARP and the timer
  give up in the same turn.
- `CommandReturns`: with `netretry` bounded every command returns, though no
  packet ever arrives.

- `LoadedMeansFile`: a command that ends well after an NFS transfer has loaded all
  of the file its boot file name leads to, though replies come late and twice. After
  a verifier has made the transfer end early (`curtailed`) it is the beginning of that
  file, of the length that was counted.
- `AddressIsOurs`: while a file is loaded after BOOTP, the address in use is that
  of the device in use, though broadcast replies for the other one still come.

- `SentIfReported`: `dc21x4x_send()` returns the length only for a packet that is on
  the wire, also after calls that timed out with their descriptor still taken.
- `NotOverwritten`: the controller does not write into the frame being handled.
- `BufferOffered`: whenever the driver has left the ring, the controller has a
  buffer for the next frame, as long as no frame was longer than a buffer.
- `IsQueue`, `FrameTaken`: the ring implements `EthQueue`, and the driver never waits
  at a descriptor that the controller has gone past. A packet handler that
  reinitialises the device voids both (`inStep`).
- `RecvEnds`: `dc21x4x_recv()` returns to the loop once frames cease to come. Its
  `for (;;)` has no limit: as long as there is a frame in every turn, neither ctrl-C
  nor the timer is polled.

- `InOrder`: the board runs a command of the script only after all those before it,
  in one boot. Stray lines from stopping the autoboot void it.
- `AheadByIdle`: the script is ahead of the board by the prompts of such lines and
  never by more.
- `FinishedIsFlashed`: without such a line, a failed transfer or a failed chip,
  the last message means that the flash holds the new U-Boot, for addresses that are
  whole sectors or are refused as not on a sector boundary.
- `Terminates`: the script ends whatever the board does. A board that is reset over and
  over makes `main()` begin anew each time, with new deadlines. What ends this is the
  buffer of the console, which is never emptied: each restart looks further back in it,
  and once it is cut no marker is found any more. With a buffer that never fills the
  property is false.

- `NeverBeyond`, `CoversRange`: the sectors `erase` and `protect` pick lie in the
  range, both addresses included, and cover all flash in it, unless the command is
  refused; the form with a length may go on to the end of a sector. Ranges that run
  over a gap between the banks are left out of `CoversRange` (`OverGap`): the sectors
  behind it may be dropped without an error.
- `GuardedKept`: no command and no power loss changes a protected sector, except for
  the two cases that the test of `flash_write()` does not see (`Overlooked`): a copy that
  wraps around the address space, and a copy to the sector that ends at its top.
- `NothingElse`: nothing changes outside the range of a copy or the sectors of an
  erase, though copies are unaligned and go by words.
- `CopyStored`: a copy onto erased flash that returns 0 has stored the data, over
  both banks.
- `EraseComplete`: an erase that returns 0 has erased all unprotected sectors it
  is about. `erase all` is left out: it returns what the last bank returns.

- `WellFormed`: after any `setenv` the buffer holds a list that ends inside it, of
  strings with distinct names.
- `ImplementsMap`: a `setenv` changes one variable, and a start never finds a mix of
  two environments, though a reset may come before every byte of a `saveenv`.
- `SaveStores`: what `saveenv` stored is what the next start finds, unless a `setenv`
  has overflowed since the checksum was computed.
- `NetSeesEnv`: whenever the network code believes that nothing has changed, its
  addresses are those of the environment or were written by BOOTP or RARP after it was
  read; of `ipaddr` only while it is set, since deleting it leaves the copy in
  `bi_ip_addr`.

These runs show disagreements between the code and its text:

- `flash_top`: with a bank that ends at the top of memory the address after its
  last sector is 0, and the test for protected sectors misses that sector
  (`ProtectedKept`, which is `GuardedKept` without the exceptions).
- `env_full`: a `setenv` that overflows deletes the old value and leaves the CRC as
  it was; a `saveenv` then writes an environment that the next start rejects.
- `flashtool_tftp`: the script does not look at the outcome of `tftpboot`; it takes
  the size of the local file instead, erases the flash, copies what is in memory
  and reports that it has finished. It reports the same when `protect off`, `erase` or
  `cp.b` is refused with a text other than the two it looks for.
- `netboot_ipaddr`: a `bootp` that got no answer leaves the address zero, and the
  variable is only read again when some variable has changed: the next `nfs`
  complains that `ipaddr` is not set though it is.

The models have further behaviours that differ from what a text says or a reader
expects, for which there is no run; the properties are stated so as to leave them
out, and `PROJECT.json` lists each as a hazard:

- Block number 0 moves the wrap offset before the duplicate test (`DataHead`), so a
  repeated block 0 is not ignored as the comment says.
- `netretry=once` gives up after the first interface (`GiveUp`), while the README of
  U-Boot promises that all are tried once.
- Only the first and the last address of a copy are tested to be in flash; a gap
  between the banks is written to (`Advance`, which then ends in `stray`).
- A copy whose length wraps around the address space into the bank it began in
  passes the test for protected sectors, whatever is in between (`HitsProtected`;
  `Wraps` leaves it out).
- The comment on `addr_spec()` writes `<'start', 'end')`, which leaves the end out; the
  code and the help text take it in (`AskedBytes`).
- A read reply with a verifier, which is meant to be an error, can end an NFS transfer
  as a success with the rest of the file missing (`ReadReply`).
- Whether a word of flash is erased is decided from one byte of it
  (`LooksErased`), and whether it was written from one bit of each byte.
- A packet handler that starts again resets `rx_new` below `dc21x4x_recv()`, which
  then gives back a descriptor that is not the frame's (`RecvHanded`).

### Bounds

- Files of 3 and 1 bytes with block sizes 1 and 2 give transfers of one to four
  blocks, with a last block that is full, short or empty. `SeqSize` 8 keeps block
  numbers from wrapping (`NoWrap`), as the theorems assume.
- Two client ports allow two attempts (`MaxTry` 2), in one command or two, so
  that leftovers of another file's session meet a running transfer.
- `NetTryCount` is capped by `MaxTry`, the timeouts of a stale timer by
  `MaxTimeouts`. With two devices four attempts go round the ring twice; with
  `netretry=4` the cap `MaxTry` 5 is never reached.
- Sectors of two bytes and words of two bytes make each sector a word; unaligned
  copies of two bytes and more touch two words, two sectors or two banks.
  Three commands (`MaxCmds`) allow a failure, a retry and a repair; the behaviour
  of a command depends on earlier ones only through protection, contents and
  `stuck`, all of which two commands can set.
- An NFS file of 3 bytes and reads of 2 give a full, a short and an empty read; one
  link makes the transfer start over once. One earlier call (`MaxLate`) may still
  be answered, any number of times. One command
  (`MaxCommands`) has up to two attempts, on two devices; `netboot_ipaddr` needs
  more than one command.
- A ring of three descriptors wraps with four frames (`MaxFrames`), one of which may
  take two buffers (`MaxLong`); two packets (`MaxSends`) let a timed-out one precede
  another; two initialisations (`MaxInits`) let a packet handler reinitialise.
- One reset beyond the first (`MaxResets`) can come at any point and hit every wait of
  the script, which then goes through all waits again. Past it the board is still reset
  without limit, but only in its memory test with all its output read, which is enough
  to keep a script busy. The buffer of 20 tokens (131072 characters in the script) is
  cut in the longer behaviours and not in the shorter ones. One `<Enter>` at the autoboot prompt and
  two ctrl-C let each come too early, in time or too late.
- The environment has 13 bytes, in which three variables fit; the default one and
  `ethaddr` leave room for one more, and each further one overflows, replaces or
  follows a deletion. Two `setenv` (`MaxSets`) can delete the first, a middle, the last
  and the only string. Of the servers' answers one has a server's address and one has none. A
  `saveenv` (`MaxSaves` 1) goes over a valid or an invalid NVRAM, before or after a
  reset.
- Deadlock is not checked: at the caps the models stop, and a board at the prompt
  need do nothing.

### Fairness

`CommandReturns` assumes weak fairness of the steps `NetLoop()` takes by itself:
starting the protocol, the switch, and an armed timer that runs out. The loop is
the only code running and polls the timer in every turn, so this is what the code
does. No packet, ARP reply, ARP timeout or key is assumed. In `netboot` the timer
of NFS is fair although the reply to a read arms it anew: only finitely many such
replies can come between two timeouts, each of which moves the transfer on.

`Dc21x4x` assumes that the loop keeps polling, that packet handlers return, and
that a wait for the controller ends, which `TOUT_LOOP` sees to. Of the controller it is
assumed that frames cease to come: `RecvEnds` says so itself, and `MaxFrames` sees to it
in `FrameTaken`, which is about one frame and does not depend on later ones. `FlashTool`
assumes that the loops of the script turn, that its
clock runs, and that a deadline passes however much the board prints, unless restarts
set new deadlines for ever (`FairSpec`). Nothing is assumed of the board, which may stop,
print or be reset at any time; that the script ends nevertheless needs the limit on the
buffer of its console.

## Proofs

All theorems hold for every value of the constants that satisfies the `ASSUME`s of
the modules; the caps on counters are constants too.

### The TFTP transfer

`TftpProofs` proves, with the lemmas of `NetLoopProofs` about `NetStartAgain()`,

- `TypeCorrect`: `Spec => []TypeOK`,

and, under two further assumptions,

- `TransferCorrect`: `Spec => []TransferInv`,
- `SuccessLoadsFile`: `Spec => []SuccessIntegrity`,
- `LoadedBytesStay`: `Spec => NeverSpoils`.

The assumptions are `NoWrap` (no file needs block number 0 again; the code is
wrong otherwise) and `~PortsReused` (no two attempts draw the same client port;
the code draws it from the clock, modulo 3072, and has nothing else to tell two
attempts apart).

`SuccessIntegrity` is not inductive: that the last block has arrived says
nothing of the earlier ones. The argument is that the server never gets ahead of
the client. `RequestInv`: an acknowledgement this attempt has sent is for a block
that is in memory. `ServerNeverAhead`: hence every block before the last one the
server has sent is in memory. `PacketInv` and `SessionInv`: a packet that passes
the port test is one the present session sent, with the content its number
says. So when a short block arrives, which is the server's last, the file is
complete (`VerdictInv`). `ControlInv` ties the loop's phases to the variables, so
that the steps of `NetLoop` cannot disturb this. `TransferInv` is the
conjunction, and run `tftp` checks it as well.

### The loop with ARP

`NetArpProofs` proves `ArpCorrect` (`Spec => []ArpInv`) and from it
`ReleasesCurrentPacket` (`PendingIsCurrent`), `TimerAlwaysArmed`
(`NeverWaitsUnarmed`), `OneDeviceRuns` (`OnlyCurrentRuns`) and `RetriesBounded`
(`AttemptsBounded`); `ArpTypes` is type correctness. The bound on the attempts is the one that needs
strengthening: `NetTryCount` is counted when a restart is asked for and the attempt
only when it begins, and a timer of an aborted command may still ask for one.
`TryCountInv` says that the count is ahead of the attempts wherever another one is
due. `PhaseInv` says what `NetState` can be in each phase.

### The Ethernet driver

`Dc21x4xProofs` proves `DriverCorrect` (`Spec => []DcInv`) and from it
`DriverTypes` (`TypeOK`), `ReportedIsSent` (`SentIfReported`), `FrameIsStable`
(`NotOverwritten`) and `NextFrameHasBuffer` (`BufferOffered`), for a ring of any
length. `TxInv` is the strengthening: while `dc21x4x_send()` waits for
its own descriptor, that points at the caller's buffer, and once it is given back
without an error the last packet on the wire is the caller's, though the controller
reads the buffer at a time of its own and may have sent it for an earlier
descriptor before. A frame is held only inside `NetReceive()`, in a descriptor
that is not the controller's.

`RingInv` says who owns which descriptor, and is what `BufferOffered` needs. As long as
no frame takes two buffers, the descriptors that are not the controller's are those
from `rx_new` up to where the controller is (`InStep`), or all of them (`Full`). A
packet handler that reinitialises the device breaks this: the driver is then one
descriptor ahead (`Ahead`), and once frames have come descriptor 0 stays behind
(`LeftBehind`). The proof shows that these four forms only turn into each other, so
that the loss of one buffer never becomes the loss of all of them.

`RingIsQueue` (`Spec => IsQueue`) is the refinement, with frames of two buffers
included. It rests on `QueueInv`: frames are stored in the order in which the driver
comes to them, no frame is stored twice, and a descriptor that the driver has passed
holds none. Descriptors without RD_LS stay behind the driver and may be anywhere, so
`InOrder` cannot say who owns which descriptor as `RingInv` does; it distinguishes
whether the controller waits at such a descriptor, the ring is full, or the frames are
between the driver and the controller.

### bootp, rarpboot and nfs

`NetBootProofs` proves `BootCorrect` (`Spec => []BootInv`) and from it `BootTypes`
(`TypeOK`), `LoadIsComplete` (`LoadedMeansFile`), `LoadsWithOwnAddress`
(`AddressIsOurs`) and `TimerAlwaysArmed` (`NeverWaitsUnarmed`), for any tree of files
and links and any number of devices. `NetBoot` assumes that every device has a MAC
address (`HasEther = Devices`): BOOTP and RARP ask with it.

None of these is inductive. `LoadedMeansFile` needs to know of the transfer before it
ends: the links followed so far lead where the boot file name leads, and what is in
memory is what was read since `lookup` (`TransferInv`). That a late reply does not
spoil this, and that a transfer cut short by a verifier has the beginning of the file,
rests on `CallInv`: the reply function takes what it needs (the directory,
the offset) from the state of the client, and only a reply with the id of the last
call is taken, which asked for just that. `AddressIsOurs` needs `OwnerInv`: as long as
BOOTP is waiting, the request its replies are compared with is that of the device in
use. `WaitInv` says that a loop that goes on waiting is in its receive phase.

### Which sectors a command is about

`FlashProofs` proves `RangeNeverExceeded` (`NeverBeyond`) and `RangeCovered`
(`CoversRange`) for banks of any size at any place, any size of a sector and of the
address space. `FlashRange` assumes that the banks do not overlap, end at or below the
top, and that none begins at address 0 (the board has them at 0xff800000 and
0xffc00000): with length 0 the last address is the one before the first, which for a
bank at 0 is the top of memory, and the range is then everything. The lemmas follow
`flash_fill_sect_ranges()`: what a turn of its loop finds in a bank (`BankRange`), what is left of the range for the next one, and when the
sectors of two banks together make up the range.

### protect, erase and cp

It also proves `FlashCorrect` (`Spec => []FlashInv`) and from it `FlashTypes`
(`TypeOK`) and the action properties `OnlyTheRange` (`NothingElse`), `CopyIsStored`
(`CopyStored`), `EraseIsComplete` (`EraseComplete`) and `ProtectionHolds`
(`GuardedKept`). Each is a statement on one step, and the step of a copy that returns
0 writes only the last word, so all of them need the invariant:

- `JobInv`: the address and the number of bytes left stay together, modulo the address
  space, from the first bank to the last one;
- `GuardInv`: no sector of the range of a copy is protected, but for one at the top of
  the address space, unless the copy wraps around;
- `StoredInv`: what is behind the present word is stored and what is ahead is erased,
  when the copy began on erased flash;
- `EraseInv`: the banks an erase has left are erased.

`ProtectionHolds` has no hypothesis on the banks; the two cases that the code does not
guard are exceptions of `GuardedKept` itself. Without the one for the sector at the top of
memory it is false, as run `flash_top` shows. Without the one for copies that wrap around
it is false as well, since the end of such a copy is before its beginning and no sector
lies between the two.

### The environment

`EnvironmentProofs` proves `EnvCorrect` (`Spec => []EnvInv`) and from it
`NetworkSeesEnv` (`NetSeesEnv`), `LastByteCopied`, `SaveIsStored` (`SaveStores`) and
`ImplementsEnvMap` (`ImplementsMap`), for a buffer of any size, any names without NUL
and `=`, any values without NUL, and any default environment that is itself a list of
such strings (`DefaultAssumption`). The buffer is any sequence of `Chars`, so nothing
is assumed of what is left over behind the list.

`WellFormed` alone is not inductive: a start takes the list from NVRAM if the checksum
there agrees. `EnvInv` therefore says of every list behind a checksum that it is well
formed, of an overflow that it is all that sets the checksum in memory apart from the
list, of a running `saveenv` that the bytes before `at` are copied and the checksum
in NVRAM is that of memory, and of the network code's copies that those no server has
written are those of the environment and of `bi_ip_addr` (`CopiesFollow`).

The lemmas come in three layers. The first is about bytes: where the list ends
(`ListTo`), what a string is (`Entry`) and which the list holds (`Holds`). The second
says that `Cut` moves the strings behind the deleted one and keeps the others
(`Moves`), and that `Appended` adds one (`Adds`). The third is about `getenv`: a
`setenv` changes what it finds for one name only (`Sets`, `Deletes`, `Starts`). The
refinement is then a matter of each action: the steps of a `saveenv` up to the last
byte that makes data and checksum agree leave NVRAM `Lost` or as it was.

The proof showed that an earlier `EnvMap`, in which `saveenv` stored the map in memory,
was too strong: after a `setenv` that overflowed, the checksum is that of the list
before, and a reset in the middle of a `saveenv` can leave just the bytes it was
computed over, so that a start finds the map before the overflow. `summed` is there for
this case.

### The flashing script

`FlashToolProofs` proves `ToolCorrect` (`Spec => []ToolInv`) and from it
`CommandsInOrder` (`InOrder`), `ScriptAheadByIdle` (`AheadByIdle`) and `FinishedFlash`
(`FinishedIsFlashed`), for a console buffer of any size and any number of resets. The
script and the board only meet through two queues, so the invariant is about what is
still on its way (`Stream` is what the script has not done with):

- `KeyInv`: when U-Boot starts, no output of an earlier one is left to be read, and
  only one `g` is on its way;
- `MarkerInv`: no text of a start is left where the script looks for a reset, so one
  that it sees is one that happened after;
- `PromptInv`: the prompts that are left and the commands typed together are no more
  than the prompts the command line of this boot has printed. The exceptions are the
  prompt of the revision dialogue (`Guarded`) and a buffer that is full (`Blind`).
  "At most n prompts" (`AtMost`) is a numbering of them from 1 to n, which the proofs
  handle more easily than the size of a set;
- `InputInv`: the commands on their way are in order, and come after the last one the
  board has taken;
- `EffectInv`: what memory, protection and flash hold after each command when the range
  is one of whole sectors, and that the text of a `protect off` refused for its end
  reaches the script, which then does not finish.

`InOrder` follows from `InputInv`, which needs `PromptInv` because the script takes any
prompt for the end of its command, which in turn needs `MarkerInv` and `KeyInv` because
a prompt of an earlier boot would count too.

### Only model-checked

All liveness: `CommandReturns` of both runs, `FrameTaken`, `RecvEnds` and `Terminates`.
Liveness under fairness is out of the prover's reach. The properties of the four runs
with a violation do not hold, so there is nothing to prove of them.

## Not modelled

- Code the configuration of the board does not build: DHCP, DNS, SNTP, ping,
  multicast TFTP, hush, DataFlash, MTD partitions; and all other boards, drivers and
  architectures of U-Boot, which are most of its lines.
- Register set-up and straight-line hardware access: start-up, PCI, SROM, media
  selection, serial and video drivers.
- Text and pure functions: line editing, parsing, formatting, checksums and
  decompression, beyond what their callers see.
- `bootm` and its relatives: checks of a header followed by a jump that does not
  return. Serial download, which nothing in this repository uses.
- IP header checks and defragmentation in `NetReceive()`.
- `bab750_boot_legacy_linux.py`, a variant of what `FlashTool` models; the scripts that
  build and copy files on the host; the containers, which configure servers that
  the models treat as external.

`PROJECT.json` has the reason for each part.
