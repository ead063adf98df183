----------------------------- MODULE FlashTool -----------------------------
(***************************************************************************)
(* scripts/bab750_flash_u_boot.py, which puts a new U-Boot into the flash  *)
(* of the board by reading and typing at its serial console, against the   *)
(* board: the boot ROM (external), and the U-Boot it starts from RAM.      *)
(*                                                                         *)
(* What the board prints is a sequence of tokens, one for each text that a *)
(* pattern of the script matches; what the script types is a sequence of   *)
(* lines.  Both may be on their way for any time.  The buffer of the       *)
(* console is kept from the position "start" of the waiting function on:   *)
(* seen is buffer_since(start), and watch is reset_watch_start in it.      *)
(*                                                                         *)
(* Every loop of the script looks at the buffer and then reads what has    *)
(* come, any number of tokens: looked is TRUE between the two.             *)
(***************************************************************************)
EXTENDS Integers, Sequences

CONSTANTS
  EnterAttempts,   \* --uboot-enter-attempts
  CtrlCAttempts,   \* --uboot-ctrl-c-attempts
  BufCap,          \* the tokens that fit in the buffer of the console
  MaxRomKeys,      \* bound of the model: <Enter> typed at the boot ROM
  MaxResets,       \* bound of the model: resets after the first, at any point
  TftpMayFail,     \* BOOLEAN: the transfer of u-boot.bin can fail
  FlashMayFail     \* BOOLEAN: the flash chip can time out

ASSUME FlashToolAssumption ==
  /\ {EnterAttempts, CtrlCAttempts, BufCap, MaxRomKeys, MaxResets} \subseteq Nat
  /\ {TftpMayFail, FlashMayFail} \subseteq BOOLEAN

VARIABLES
  pc,         \* the function of the script that waits
  looked,     \* the loop has looked at all of seen
  seen,       \* buffer_since(start)
  room,       \* how many tokens more fit in the buffer
  watch,      \* the tokens of seen before reset_watch_start, or NoWatch
  acted,      \* the flags of the waiting function that are set
  tries,      \* keys typed in the current phase
  cmd,        \* the command that run_uboot_command() waits for
  bad,        \* errors found in the outputs of protect, erase and cp.b
  line,       \* on the way from the board
  input,      \* on the way to the board
  board,      \* what the board is doing
  nvram_ok,   \* the copy of the revision info in NVRAM is valid
  ram, protected, flash, env,
  range,      \* what --flash-start and --flash-end are to this U-Boot
  done,       \* history: commands the board has completed in this boot
  idle,       \* history: lines it has answered in this boot that were none
  faults,     \* history: what has failed in this boot
  boot        \* the number of resets, as far as MaxResets counts them

script == <<pc, looked, seen, room, watch, acted, tries, cmd, bad>>
memory == <<nvram_ok, ram, protected, flash, range, env>>
vars == <<script, line, input, board, memory, done, idle, faults, boot>>

\* The commands of main(), in order.
Commands == <<"setenv serverip", "setenv ipaddr", "tftpboot", "protect off",
              "erase", "cp.b">>
CommandLines == {Commands[c] : c \in DOMAIN Commands}
Lines == CommandLines \cup {"enter", "ctrl-c", "C", "l", "g", "tail"}
Tokens == {"marker", "memtest", "nvram", "vxbanner", "vxprompt", "autostart",
           "loading", "autoboot", "tftprun", "prompt", "size", "boundary",
           "noterased"}
NoWatch == -1

\* The addresses --flash-start and --flash-end are whole sectors of the flash
\* that flash_init() has recognised and hold the image, or are too short for it;
\* or protect and erase refuse them: with the text that the script knows
\* ("end"), or with another, starting in that flash or outside of it.
Ranges == {"whole", "short", "end", "refused", "outside"}

Init ==
  /\ pc = "reset" /\ looked = FALSE
  /\ seen = <<>> /\ room = BufCap /\ watch = NoWatch
  /\ acted = {} /\ tries = 0 /\ cmd = 0 /\ bad = {}
  /\ line = <<>> /\ input = <<>>
  /\ board = "off"
  /\ nvram_ok \in BOOLEAN
  /\ ram = "junk" /\ protected = FALSE /\ flash = "old"
  /\ range = "outside"
  /\ env = {}
  /\ done = 0 /\ idle = 0 /\ faults = {}
  /\ boot = 0

---------------------------------------------------------------------------
(***************************************************************************)
(* The script.                                                             *)
(***************************************************************************)

Has(t) == \E i \in DOMAIN seen : seen[i] = t

\* find_reset_marker() finds the first marker behind the first n tokens at m.
Marker(n, m) ==
  /\ m \in n + 1 .. Len(seen)
  /\ seen[m] = "marker"
  /\ \A j \in n + 1 .. m - 1 : seen[j] # "marker"

\* raise_if_reset() finds a marker.
ResetSeen == watch # NoWatch /\ \E m \in DOMAIN seen : Marker(watch, m)

Send(l) == input' = Append(input, l)

\* Mutant: reset_watch_start is left where the function before had it.
WaitOldWatch(p, w) ==
  /\ pc' = p
  /\ seen' = <<>>
  /\ watch' = watch
  /\ acted' = {}
  /\ tries' = 0

\* A function starts to wait: flags cleared, buffer from mark() on.
Wait(p, w) ==
  /\ pc' = p
  /\ seen' = <<>>
  /\ watch' = w
  /\ acted' = {}
  /\ tries' = 0

\* wait_for_bootrom_loading() from the marker at position m on.
FromMarker(m) ==
  /\ pc' = "bootrom"
  /\ seen' = SubSeq(seen, m, Len(seen))
  /\ watch' = NoWatch
  /\ acted' = {}
  /\ tries' = 0
  /\ cmd' = 0
  /\ bad' = {}
  /\ UNCHANGED input

\* One turn of a loop that looks at the buffer.
Look(p) == pc = p /\ ~looked /\ looked' = TRUE
Others == UNCHANGED <<room, line, board, memory, done, idle, faults, boot>>

\* wait_for_reset_marker()
LookReset ==
  /\ Look("reset")
  /\ \/ \E m \in DOMAIN seen : Marker(0, m) /\ FromMarker(m)
     \/ /\ ~\E m \in DOMAIN seen : Marker(0, m)
        /\ UNCHANGED <<pc, seen, watch, acted, tries, cmd, bad, input>>
  /\ Others

\* ResetDetected is raised and caught in main(): the next turn begins at the
\* marker that was found.
Restart ==
  /\ pc \in {"bootrom", "quiet", "sleep", "stop", "ctrl-c", "command"}
  /\ Look(pc)
  /\ ResetSeen
  /\ \E m \in DOMAIN seen : Marker(watch, m) /\ FromMarker(m)
  /\ Others

\* What is typed at the text t if that was not done before.
Answer(t, l) == IF Has(t) /\ t \notin acted THEN <<l>> ELSE <<>>

\* wait_for_bootrom_loading(): one turn may answer the dialogue and ask for
\* the image; the first text it knows starts the watch for resets.
LookBootrom ==
  /\ Look("bootrom")
  /\ ~ResetSeen
  /\ IF Has("loading")
       THEN /\ pc' = "quiet"
            /\ watch' = IF watch = NoWatch THEN Len(seen) ELSE watch
            /\ UNCHANGED <<acted, input>>
       ELSE /\ acted' = acted \cup {t \in {"nvram", "vxprompt"} : Has(t)}
            /\ input' = input \o Answer("nvram", "C") \o Answer("vxprompt", "l")
            /\ watch' = IF watch = NoWatch /\ \E t \in {"memtest", "nvram", "vxbanner"} : Has(t)
                          THEN Len(seen)
                          ELSE watch
            /\ UNCHANGED pc
  /\ UNCHANGED <<seen, tries, cmd, bad>>
  /\ Others

\* <Enter> spam to stop the autostart of the boot ROM
BootromEnter ==
  /\ pc = "bootrom" /\ looked
  /\ Has("memtest") /\ Has("vxbanner") /\ ~Has("autostart")
  /\ "vxprompt" \notin acted
  /\ tries < MaxRomKeys
  /\ tries' = tries + 1
  /\ Send("enter")
  /\ UNCHANGED <<pc, looked, seen, watch, acted, cmd, bad>>
  /\ Others

\* Silence in the memory test: the port is opened again, which throws away what
\* is on its way.
Reconnect ==
  /\ pc = "bootrom" /\ looked
  /\ Has("memtest") /\ ~Has("vxbanner")
  /\ "vxprompt" \notin acted
  /\ line # <<>>
  /\ line' = <<>>
  /\ input' = <<>>
  /\ UNCHANGED <<script, board, memory, done, idle, faults, boot>>

\* wait_for_quiet() and sleep_with_reset_watch() only look for resets.
LookSilent ==
  /\ pc \in {"quiet", "sleep"}
  /\ Look(pc)
  /\ ~ResetSeen
  /\ UNCHANGED <<pc, seen, watch, acted, tries, cmd, bad, input>>
  /\ Others

\* Nothing has come for the quiet period.
QuietOver ==
  /\ pc = "quiet" /\ looked
  /\ line = <<>>
  /\ Wait("sleep", 0)
  /\ looked' = FALSE
  /\ UNCHANGED <<cmd, bad, input>>
  /\ Others

\* U-Boot is started from RAM.
Go ==
  /\ pc = "sleep" /\ looked
  /\ Wait("uboot", NoWatch)
  /\ looked' = FALSE
  /\ Send("g")
  /\ UNCHANGED <<cmd, bad>>
  /\ Others

\* Mutant: what was read before the command is looked at again.
RunCommandOldStart(c) ==
  /\ pc' = "command"
  /\ watch' = Len(seen)
  /\ cmd' = c
  /\ Send(Commands[c])
  /\ UNCHANGED <<seen, acted, tries>>

\* run_uboot_command() types command c.
RunCommand(c) ==
  /\ Wait("command", 0)
  /\ cmd' = c
  /\ Send(Commands[c])

FirstCommand ==
  /\ RunCommand(1)
  /\ bad' = {}

\* wait_for_u_boot_prompt(), in the order of its tests
LookUboot ==
  /\ Look("uboot")
  /\ \/ /\ Has("nvram") /\ "nvram" \notin acted
        /\ acted' = acted \cup {"nvram", "ignore_next_prompt"}
        /\ Send("C")
        /\ seen' = <<>>
        /\ UNCHANGED <<pc, watch, tries, cmd, bad>>
     \/ /\ ~(Has("nvram") /\ "nvram" \notin acted)
        /\ Has("prompt")
        /\ IF "ignore_next_prompt" \in acted
             THEN /\ acted' = acted \ {"ignore_next_prompt"}
                  /\ seen' = <<>>
                  /\ UNCHANGED <<pc, watch, tries, cmd, bad, input>>
             ELSE FirstCommand
     \/ /\ ~(Has("nvram") /\ "nvram" \notin acted)
        /\ ~Has("prompt")
        /\ \/ /\ Has("tftprun")
              /\ pc' = "ctrl-c" /\ tries' = 0 /\ watch' = Len(seen)
              /\ UNCHANGED acted
           \/ /\ ~Has("tftprun") /\ Has("autoboot") /\ "autoboot" \notin acted
              /\ pc' = "stop" /\ tries' = 0 /\ watch' = Len(seen)
              /\ acted' = acted \cup {"autoboot"}
           \/ /\ ~Has("tftprun") /\ (Has("autoboot") => "autoboot" \in acted)
              /\ UNCHANGED <<pc, tries, watch, acted>>
        /\ UNCHANGED <<seen, cmd, bad, input>>
  /\ Others

\* wait_for_prompt_with_spam(): a key is typed and the interval starts.
SpamKey(p, key, attempts) ==
  /\ pc = p
  /\ looked
  /\ tries < attempts
  /\ tries' = tries + 1
  /\ Send(key)
  /\ looked' = FALSE
  /\ UNCHANGED <<pc, seen, watch, acted, cmd, bad>>
  /\ Others

StopEnter == SpamKey("stop", "enter", 1 + EnterAttempts)
CtrlC == SpamKey("ctrl-c", "ctrl-c", CtrlCAttempts)

\* The prompt is there: go on with the commands.
LookSpam ==
  /\ pc \in {"stop", "ctrl-c"}
  /\ Look(pc)
  /\ ~ResetSeen
  /\ IF Has("prompt")
       THEN FirstCommand
       ELSE UNCHANGED <<pc, seen, watch, acted, tries, cmd, bad, input>>
  /\ Others

\* bootcmd has started its transfer: stop_uboot_autoboot() is left, though not
\* before its second <Enter>.
StopEscape ==
  /\ pc = "stop" /\ looked
  /\ tries > 1 /\ Has("tftprun")
  /\ pc' = "ctrl-c" /\ tries' = 0 /\ watch' = Len(seen)
  /\ UNCHANGED <<looked, seen, acted, cmd, bad, input>>
  /\ Others

\* All attempts are used up.
StopGivesUp ==
  /\ pc = "stop" /\ looked
  /\ tries = 1 + EnterAttempts /\ ~Has("tftprun")
  /\ pc' = "uboot" /\ watch' = NoWatch
  /\ looked' = FALSE
  /\ UNCHANGED <<seen, acted, tries, cmd, bad, input>>
  /\ Others

CtrlCGivesUp ==
  /\ pc = "ctrl-c" /\ looked
  /\ tries = CtrlCAttempts
  /\ pc' = "failed"
  /\ UNCHANGED <<looked, seen, watch, acted, tries, cmd, bad, input>>
  /\ Others

\* Mutant: the sector boundary error is not looked for.
ErrorsInCopyOnly(c) == {e \in {"noterased"} : Has(e) /\ c = 6}

\* What validate_flash_programming() finds in the output of command c.
ErrorsIn(c) ==
  {e \in {"boundary", "noterased"} :
     Has(e) /\ (IF e = "boundary" THEN c \in {4, 5} ELSE c = 6)}

\* Mutant: the next command is typed without waiting for the prompt.
LookCommandHasty ==
  /\ Look("command")
  /\ ~ResetSeen
  /\ bad' = bad \cup ErrorsIn(cmd)
  /\ IF cmd < Len(Commands)
       THEN RunCommand(cmd + 1)
       ELSE /\ pc' = IF bad' = {} THEN "finished" ELSE "failed"
            /\ UNCHANGED <<seen, watch, acted, tries, cmd, input>>
  /\ Others

\* run_uboot_command(): a prompt ends the command.  The result of tftpboot is
\* not looked at: without a size in it, that of the local file is used.
LookCommand ==
  /\ Look("command")
  /\ ~ResetSeen
  /\ IF ~Has("prompt")
       THEN UNCHANGED <<pc, seen, watch, acted, tries, cmd, bad, input>>
       ELSE /\ bad' = bad \cup ErrorsIn(cmd)
            /\ IF cmd < Len(Commands)
                 THEN RunCommand(cmd + 1)
                 ELSE /\ pc' = IF bad' = {} THEN "finished" ELSE "failed"
                      /\ UNCHANGED <<seen, watch, acted, tries, cmd, input>>
  /\ Others

Waiting == pc \notin {"finished", "failed"}

\* Mutant: wait_for_u_boot_prompt() has no deadline.
DeadlineNotUboot ==
  /\ Waiting /\ looked
  /\ pc \notin {"sleep", "uboot", "stop", "ctrl-c"}
  /\ pc' = "failed"
  /\ UNCHANGED <<looked, seen, watch, acted, tries, cmd, bad, input>>
  /\ Others

\* A deadline passes: TimeoutError.
Deadline ==
  /\ Waiting /\ looked
  /\ pc \notin {"sleep", "stop", "ctrl-c"}
  /\ pc' = "failed"
  /\ UNCHANGED <<looked, seen, watch, acted, tries, cmd, bad, input>>
  /\ Others

\* read_once() takes what has come.  _append() cuts a full buffer at the front,
\* while start stays an index into it: as many tokens are lost behind start.
ReadOnce ==
  /\ Waiting /\ looked
  /\ pc \in {"stop", "ctrl-c"} => tries > 0
  /\ ~(pc = "stop" /\ Has("tftprun"))
  /\ \E n \in 1 .. Len(line) :
       LET cut == IF n > room THEN n - room ELSE 0 IN
       /\ room' = IF n > room THEN 0 ELSE room - n
       /\ seen' = SubSeq(seen \o line, 1 + cut, Len(seen) + n)
       /\ line' = SubSeq(line, n + 1, Len(line))
  /\ looked' = FALSE
  /\ UNCHANGED <<pc, watch, acted, tries, cmd, bad, input, board, memory,
                 done, idle, faults, boot>>

---------------------------------------------------------------------------
(***************************************************************************)
(* The board.                                                              *)
(***************************************************************************)

\* The board prints the tokens ts and goes on with b.
Prints(ts, b) == line' = line \o ts /\ board' = b

\* It takes the next line of its input.
Takes == input # <<>> /\ input' = Tail(input)
Typed(l) == input # <<>> /\ Head(input) = l

\* RESET, or the power fails: memory and the input are lost.  Past MaxResets
\* the board is only reset over and over in its memory test, for ever.
Reset ==
  /\ boot <= MaxResets \/ (board = "memtest" /\ line = <<>>)
  /\ boot' = IF boot <= MaxResets THEN boot + 1 ELSE boot
  /\ board' = "start"
  /\ input' = <<>>
  /\ ram' = "junk" /\ env' = {} /\ range' = "outside"
  /\ flash' \in {flash} \cup IF board \in {"erase", "cp.b"} THEN {"junk"} ELSE {}
  /\ done' = 0 /\ idle' = 0 /\ faults' = {}
  /\ UNCHANGED <<script, line, nvram_ok, protected>>

\* The boot ROM up to the VxWorks boot prompt, and loading the image.
RomStep ==
  /\ \/ board = "start" /\ Prints(<<"marker", "memtest">>, "memtest")
     \/ board = "memtest" /\ nvram_ok /\ Prints(<<"vxbanner">>, "countdown")
     \/ board = "memtest" /\ ~nvram_ok /\ Prints(<<"nvram">>, "romdialog")
     \/ board = "countdown" /\ Prints(<<"autostart">>, "vxworks")
     \/ board = "loading" /\ Prints(<<>>, "monitor")
  /\ UNCHANGED <<script, input, memory, done, idle, faults, boot>>

RomLine ==
  /\ \/ board = "memtest" /\ UNCHANGED <<line, board>>
     \/ board = "romdialog" /\ Prints(<<"vxbanner">>, "countdown")
     \/ board = "countdown" /\ Prints(<<"vxprompt">>, "vxprompt")
     \/ board = "vxprompt" /\ IF Typed("l") THEN Prints(<<"loading">>, "loading")
                                            ELSE Prints(<<"vxprompt">>, board)
     \/ board = "monitor" /\ IF Typed("g") THEN Prints(<<"marker">>, "misc_init_r")
                                           ELSE UNCHANGED <<line, board>>
  /\ Takes
  /\ UNCHANGED <<script, memory, done, idle, faults, boot>>

\* main_loop() begins with the countdown, or with its prompt when there is no
\* bootcmd or bootdelay is negative.
MainLoop == Prints(<<"autoboot">>, "abortboot") \/ Prints(<<"prompt">>, "readline")

\* flash_init() recognises the chips and reads the protection of their sectors.
\* misc_init_r() compares the revision info with its copy in NVRAM.  Without a
\* revision info it asks for one, line by line, which the script never answers.
MiscInit ==
  /\ board = "misc_init_r"
  /\ protected' \in BOOLEAN /\ range' \in Ranges
  /\ \/ nvram_ok /\ MainLoop
     \/ ~nvram_ok /\ Prints(<<"nvram", "prompt">>, "dialog")
     \/ Prints(<<>>, "revision")
  /\ UNCHANGED <<script, input, nvram_ok, ram, flash, env, done, idle, faults, boot>>

\* The dialogue takes one line, whatever it is.
DialogLine ==
  /\ board = "dialog"
  /\ Takes
  /\ nvram_ok' = Typed("C")
  /\ MainLoop
  /\ UNCHANGED <<script, ram, protected, flash, range, env, done, idle, faults, boot>>

\* getc() reads one character.  Of anything longer than a key the tail is left.
Keys == {"enter", "ctrl-c"}
TakesKey ==
  \/ Takes /\ Head(input) \in Keys \cup {"tail"}
  \/ input # <<>> /\ Head(input) \notin Keys /\ input' = <<"tail">> \o Tail(input)

\* abortboot(): a key is consumed, or bootcmd starts.
AbortKey ==
  /\ board = "abortboot"
  /\ TakesKey
  /\ Prints(<<"prompt">>, "readline")
  /\ UNCHANGED <<script, memory, done, idle, faults, boot>>

Bootcmd ==
  /\ board = "abortboot"
  /\ Prints(<<"tftprun">>, "bootcmd")
  /\ UNCHANGED <<script, input, memory, done, idle, faults, boot>>

\* bootcmd fails, or starts what it has loaded.
BootcmdEnds ==
  /\ board = "bootcmd"
  /\ Prints(<<"prompt">>, "readline") \/ Prints(<<>>, "linux")
  /\ UNCHANGED <<script, input, memory, done, idle, faults, boot>>

\* ctrlc() in NetLoop() reads and drops what is typed.
Swallow ==
  /\ board \in {"bootcmd", "tftpboot"}
  /\ ~Typed("ctrl-c")
  /\ TakesKey
  /\ UNCHANGED <<script, line, board, memory, done, idle, faults, boot>>

Interrupt ==
  /\ board \in {"bootcmd", "tftpboot"}
  /\ Typed("ctrl-c")
  /\ Takes
  /\ Prints(<<"prompt">>, "readline")
  /\ done' = IF board = "tftpboot" THEN done + 1 ELSE done
  /\ faults' = IF board = "tftpboot" THEN faults \cup {"tftpboot"} ELSE faults
  /\ UNCHANGED <<script, memory, idle, boot>>

\* main_loop(): a line that is no command only brings the next prompt.
IdleLine ==
  /\ board = "readline"
  /\ input # <<>> /\ Head(input) \notin CommandLines
  /\ Takes
  /\ idle' = idle + 1
  /\ Prints(<<"prompt">>, board)
  /\ UNCHANGED <<script, memory, done, faults, boot>>

\* A command starts; transfers and flash operations take their time.
CommandLine ==
  /\ board = "readline"
  /\ input # <<>> /\ Head(input) \in CommandLines
  /\ Takes
  /\ board' = Head(input)
  /\ line' = IF Typed("tftpboot") THEN Append(line, "tftprun") ELSE line
  /\ UNCHANGED <<script, memory, done, idle, faults, boot>>

Completes(ts) ==
  /\ done' = done + 1
  /\ Prints(Append(ts, "prompt"), "readline")
  /\ UNCHANGED <<script, input, nvram_ok, range, idle, boot>>

Setenv ==
  /\ board \in {"setenv serverip", "setenv ipaddr"}
  /\ env' = env \cup {board}
  /\ Completes(<<>>)
  /\ UNCHANGED <<ram, protected, flash, faults>>

Tftpboot ==
  /\ board = "tftpboot"
  /\ \/ /\ ram' = "image"
        /\ Completes(<<"size">>)
        /\ UNCHANGED faults
     \/ /\ TftpMayFail \/ env # {"setenv serverip", "setenv ipaddr"}
        /\ ram' = "junk"
        /\ faults' = faults \cup {"tftpboot"}
        /\ Completes(<<>>)
  /\ UNCHANGED <<protected, flash, env>>

\* flash_fill_sect_ranges() and its callers accept whole sectors, and refuse
\* anything else with one of six texts, of which the script knows one.
Accepted == range \in {"whole", "short"}
Refusal == IF range = "end" THEN <<"boundary">> ELSE <<>>

\* flash_sect_protect()
ProtectOff ==
  /\ board = "protect off"
  /\ protected' = (protected /\ ~Accepted)
  /\ Completes(Refusal)
  /\ UNCHANGED <<ram, flash, env, faults>>

\* flash_sect_erase(): protected sectors are passed over.
Erase ==
  /\ board = "erase"
  /\ \/ /\ flash' = IF Accepted /\ ~protected THEN "blank" ELSE flash
        /\ UNCHANGED faults
     \/ /\ FlashMayFail /\ Accepted /\ ~protected
        /\ flash' = "junk"
        /\ faults' = faults \cup {"erase"}
  /\ Completes(Refusal)
  /\ UNCHANGED <<ram, protected, env>>

\* do_mem_cp().  flash_write() refuses a protected sector and an end outside
\* the flash with texts the script does not know; outside the flash the copy is
\* one to memory and says nothing.
CpBRefused ==
  /\ board = "cp.b"
  /\ protected \/ range \in {"short", "outside"}
  /\ Completes(<<>>)
  /\ UNCHANGED <<ram, protected, flash, env, faults>>

\* Flash that is not erased: write_word() looks at one byte of each word, so
\* it finds out at the first word, later or never.
CpBOver ==
  /\ board = "cp.b"
  /\ ~protected /\ range # "outside"
  /\ flash # "blank" \/ range = "short"
  /\ flash' \in {flash, "junk", ram}
  /\ Completes(<<>>) \/ Completes(<<"noterased">>)
  /\ UNCHANGED <<ram, protected, env, faults>>

CpB ==
  /\ board = "cp.b"
  /\ ~protected /\ range \notin {"short", "outside"}
  /\ flash = "blank"
  /\ \/ flash' = ram /\ UNCHANGED faults
     \/ FlashMayFail /\ flash' = "junk" /\ faults' = faults \cup {"cp.b"}
  /\ Completes(<<>>)
  /\ UNCHANGED <<ram, protected, env>>

---------------------------------------------------------------------------

LookStep ==
  \/ LookReset
  \/ Restart
  \/ LookBootrom
  \/ LookSilent
  \/ LookUboot
  \/ LookSpam
  \/ LookCommand

\* What the script does when some time has passed.
TimeStep ==
  \/ QuietOver
  \/ Go
  \/ StopEnter
  \/ CtrlC
  \/ StopEscape
  \/ StopGivesUp
  \/ CtrlCGivesUp
  \/ Deadline

BoardStep ==
  \/ RomStep
  \/ RomLine
  \/ MiscInit
  \/ DialogLine
  \/ AbortKey
  \/ Bootcmd
  \/ BootcmdEnds
  \/ Swallow
  \/ Interrupt
  \/ IdleLine
  \/ CommandLine
  \/ Setenv
  \/ Tftpboot
  \/ ProtectOff
  \/ Erase
  \/ CpBRefused
  \/ CpBOver
  \/ CpB

Next ==
  \/ LookStep
  \/ TimeStep
  \/ BootromEnter
  \/ Reconnect
  \/ ReadOnce
  \/ BoardStep
  \/ Reset

Spec == Init /\ [][Next]_vars

\* The loops of the script turn, and its clock runs.  A deadline passes however
\* much the board prints, unless restarts set new ones for ever.
FairSpec ==
  /\ Spec
  /\ WF_vars(LookStep) /\ WF_vars(TimeStep)
  /\ []<><<Restart>>_vars \/ SF_vars(TimeStep)

---------------------------------------------------------------------------
(***************************************************************************)
(* Properties.                                                             *)
(***************************************************************************)

\* The script, the lines and the board keep to the values listed above.
TypeOK ==
  /\ pc \in {"reset", "bootrom", "quiet", "sleep", "uboot", "stop", "ctrl-c",
             "command", "finished", "failed"}
  /\ looked \in BOOLEAN
  /\ seen \in Seq(Tokens) /\ line \in Seq(Tokens)
  /\ watch \in 0 .. Len(seen) \cup {NoWatch}
  /\ pc = "uboot" => watch = NoWatch
  /\ room \in 0 .. BufCap
  /\ acted \subseteq {"nvram", "vxprompt", "autoboot", "ignore_next_prompt"}
  /\ tries \in Nat
  /\ cmd \in 0 .. Len(Commands) /\ done \in Nat /\ idle \in Nat
  /\ bad \subseteq {"boundary", "noterased"}
  /\ input \in Seq(Lines)
  /\ flash \in {"old", "blank", "junk", "image"}
  /\ ram \in {"junk", "image"}
  /\ boot \in Nat

\* However late the board's output is read and whenever it is reset, the board
\* runs a command only when it has run all those before it in the same boot:
\* nothing is erased or written before the image was asked for and the
\* protection lifted.  Lines that are no commands, left over from stopping the
\* autoboot, void this.
InOrder ==
  \A c \in DOMAIN Commands : board = Commands[c] /\ idle = 0 => done = c - 1

CommandLineRuns == board = "readline" \/ board \in CommandLines

\* run_uboot_command() takes any prompt for the end of its command: the script
\* is ahead of the board by the prompts printed for lines that are no
\* commands, and never by more.
AheadByIdle == pc = "command" /\ CommandLineRuns => cmd - 1 <= done + idle

\* "Flash programming finished": unless a line too many was typed, or the
\* transfer or the chip failed, the flash holds the new U-Boot, even when the
\* buffer of the console was cut on the way.  This is so for a range of whole
\* sectors that holds the image, and for one refused with the text that
\* validate_flash_programming() looks for; after any other refusal of protect,
\* erase or cp.b the script finishes and the old U-Boot may still be there.
FinishedIsFlashed ==
  pc = "finished" /\ CommandLineRuns /\ idle = 0 /\ faults = {}
    /\ range \in {"whole", "end"}
    => flash = "image"

\* The same without the exceptions, as the message has it.
FinishedMeansFlashed == pc = "finished" => flash = "image"

\* Whatever the board does or fails to do, the script ends, also when the board
\* is reset over and over and each reset sets new deadlines: every restart begins
\* further back in the buffer of the console, which is never emptied, and with
\* that full no marker is found any more and a deadline passes.
Terminates == <>(pc \in {"finished", "failed"})

---------------------------------------------------------------------------
(***************************************************************************)
(* Why the invariants hold: the inductive invariant.                       *)
(***************************************************************************)
Stream == seen \o line     \* what the script has not done with

Starting == board \in {"misc_init_r", "dialog", "abortboot", "bootcmd"}
Started == Starting \/ CommandLineRuns
Keyed == Started \/ \E i \in DOMAIN input : input[i] = "g"

UbootTokens == {"autoboot", "tftprun", "prompt"}
Without(ts, s) == \A i \in DOMAIN s : s[i] \notin ts

\* The script is past the boot ROM whenever U-Boot runs or is about to, and then
\* no output of an earlier U-Boot is left.
KeyInv ==
  /\ Keyed => pc \notin {"reset", "bootrom", "quiet", "sleep"}
  /\ pc = "sleep" => Without(UbootTokens, line)
  /\ Started => Without({"g"}, input)
  /\ \A i, j \in DOMAIN input :
       i < j /\ input[i] = "g" => input[j] \notin CommandLines \cup {"g"}
  /\ Keyed /\ (Started => board = "misc_init_r") =>
       /\ cmd = 0
       /\ pc \in {"uboot", "failed"}
       /\ pc = "uboot" =>
            /\ Without(UbootTokens, Stream)
            /\ "nvram" \in acted => "ignore_next_prompt" \in acted

\* A reset is noticed: no marker is left where the script looks for one.
MarkerInv ==
  Started =>
    /\ pc \in {"uboot", "stop", "ctrl-c"} =>
         \A i, j \in DOMAIN Stream :
           i < j /\ Stream[i] \in UbootTokens => Stream[j] # "marker"
    /\ pc \in {"stop", "ctrl-c", "command"} =>
         /\ watch # NoWatch
         /\ \A j \in DOMAIN Stream : watch < j => Stream[j] # "marker"

\* There are at most n prompts behind the first k tokens of s: they can be
\* numbered from 1 to n.
PromptsAt(s, k) == {j \in DOMAIN s : k < j /\ s[j] = "prompt"}
Numbered(s, k, n, f) ==
  /\ f \in [PromptsAt(s, k) -> 1 .. n]
  /\ \A i, j \in PromptsAt(s, k) : i < j => f[i] < f[j]
AtMost(n, s, k) ==
  /\ n \in Nat
  /\ \E f \in [PromptsAt(s, k) -> 1 .. n] : Numbered(s, k, n, f)

\* The prompts the command line of this boot has printed.
Printed == IF CommandLineRuns THEN 1 + done + idle ELSE 0

\* The prompt of the dialogue will not be taken for one of the command line.
Guarded ==
  \/ "ignore_next_prompt" \in acted
  \/ /\ "nvram" \notin acted
     /\ \E i \in DOMAIN Stream : Stream[i] = "nvram" /\ \A j \in 1 .. i : Stream[j] # "prompt"

\* With the buffer full the script reads nothing after it has typed a command.
Blind == room = 0 /\ seen = <<>>

\* Every command typed has used up a prompt.
PromptInv ==
  Started =>
    /\ pc = "uboot" =>
         /\ AtMost(Printed + 1, Stream, 0)
         /\ room > 0 /\ ~Guarded => AtMost(Printed, Stream, 0)
         /\ \A i \in DOMAIN Stream :
              Stream[i] \in {"autoboot", "tftprun"} => AtMost(Printed, Stream, i)
    /\ pc \in {"stop", "ctrl-c"} => AtMost(Printed, Stream, 0)
    /\ pc = "command" => AtMost(Printed - cmd, Stream, 0) \/ (Blind /\ cmd = 1)
    /\ pc = "finished" => cmd = Len(Commands) /\ cmd + 1 <= Printed

\* The commands on their way are those after the last one the board has taken.
InputInv ==
  /\ pc \notin {"command", "finished", "failed"} => cmd = 0
  /\ ~CommandLineRuns => done = 0 /\ idle = 0
  /\ Starting => cmd <= 1
  /\ CommandLineRuns => cmd <= 1 + done + idle
  /\ Started =>
       /\ \A c \in DOMAIN Commands : board = Commands[c] => c <= cmd
       /\ idle = 0 => done <= cmd
       /\ \A i \in DOMAIN input, c \in DOMAIN Commands :
            input[i] = Commands[c] =>
              /\ c <= cmd
              /\ idle = 0 => /\ done < c
                             /\ \A b \in DOMAIN Commands : board = Commands[b] => b < c
              /\ \A j \in DOMAIN input, d \in DOMAIN Commands :
                   i < j /\ input[j] = Commands[d] => c < d
  /\ InOrder

\* What the commands up to now have done.
EffectInv ==
  CommandLineRuns /\ idle = 0 =>
    /\ faults = {} =>
         /\ done >= 3 => ram = "image"
         /\ range = "whole" =>
              /\ done >= 4 => ~protected
              /\ done = 5 => flash = "blank"
              /\ done >= 6 => flash = "image"
    /\ range = "end" =>
         /\ pc = "command" /\ room > 0 /\ cmd = 4 /\ done >= 4 =>
              \E i \in DOMAIN Stream :
                Stream[i] = "boundary" /\ \A j \in 1 .. i : Stream[j] # "prompt"
         /\ pc = "command" /\ cmd > 4 => "boundary" \in bad \/ Blind
         /\ pc # "finished"

ToolInv == TypeOK /\ KeyInv /\ MarkerInv /\ PromptInv /\ InputInv /\ EffectInv

=============================================================================
