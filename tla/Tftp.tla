-------------------------------- MODULE Tftp --------------------------------
(***************************************************************************)
(* The TFTP client of net/tftp.c inside NetLoop(), against an external     *)
(* TFTP server (RFC 1350 with the blksize option) over UDP.                *)
(*                                                                         *)
(* The network is two sets that only grow, toServer and toClient: a packet *)
(* in them may be delivered at any later time, any number of times, or     *)
(* never.  Loss, duplication, reordering, delay (ARP included) and         *)
(* retransmission by the server are all deliveries from these sets.        *)
(*                                                                         *)
(* A byte of a file is its file and position, and memory maps an offset    *)
(* from load_addr to the byte last stored there.                           *)
(***************************************************************************)
EXTENDS NetLoop, Integers

CONSTANTS
  Files, NoFile,       \* the files of the server; NoFile is none of them
  Size,                \* Size[f]: length of f in bytes
  DefaultBlkSize,      \* TFTP_BLOCK_SIZE
  OptBlkSizes,         \* the values the server may answer to blksize
  SeqSize,             \* TFTP_SEQUENCE_SIZE
  ClientPorts,         \* the values of 1024 + get_timer(0) % 3072
  PortsReused,         \* FALSE: no two attempts draw the same client port
  ServerPorts,         \* the ports the server opens sessions on
  WellKnownPort,       \* 69
  TimeoutCountMax,     \* TIMEOUT_COUNT
  RRQTimeoutCountMax,  \* TftpRRQTimeoutCountMax
  MemTop               \* the last offset of the modelled memory

Sizes == OptBlkSizes \cup {DefaultBlkSize}

ASSUME TftpAssumption ==
  /\ NoFile \notin Files
  /\ Size \in [Files -> Nat]
  /\ Sizes \subseteq Nat \ {0}
  /\ SeqSize \in Nat \ {0, 1}
  /\ WellKnownPort \notin ServerPorts \cup ClientPorts
  /\ PortsReused \in BOOLEAN
  /\ TimeoutCountMax \in Nat
  /\ RRQTimeoutCountMax \in Nat
  /\ MemTop \in Nat
  /\ \A f \in Files : Size[f] <= MemTop + 1
  /\ HasEther = Devices

VARIABLES
  BootFile,            \* the file the command asked for
  tftp_filename,       \* the file TftpStart() put into the request
  TftpState,
  TftpServerPort,
  TftpOurPort,
  TftpTimeoutCount,
  TftpTimeoutCountMax,
  TftpBlock,
  TftpLastBlock,
  TftpBlockWrapOffset,
  TftpBlkSize,
  NetBootFileXferSize,
  mem,                 \* memory from load_addr on
  filesize,            \* the environment variable
  toServer, toClient,  \* packets sent in either direction
  session              \* the server's session on each of its ports

tftpVars == <<tftp_filename, TftpState, TftpServerPort, TftpOurPort,
              TftpTimeoutCount, TftpTimeoutCountMax, TftpBlock, TftpLastBlock,
              TftpBlockWrapOffset, TftpBlkSize, NetBootFileXferSize, mem>>
serverVars == <<toClient, session>>
vars == <<loopVars, tftpVars, BootFile, filesize, toServer, serverVars>>

TftpStates == {"none", "RRQ", "OACK", "DATA"}
Bytes == [file : Files \cup {NoFile}, pos : Nat]
NoByte == [file |-> NoFile, pos |-> 0]

\* Packets.  blksize = 0 is an OACK that does not mention the option.
Rrq(p, f) == [type |-> "RRQ", src |-> p, dst |-> WellKnownPort, file |-> f]
Ack(p, s, n) == [type |-> "ACK", src |-> p, dst |-> s, blk |-> n]
Oack(s, p, b) == [type |-> "OACK", src |-> s, dst |-> p, blksize |-> b]
Err(s, p, c) == [type |-> "ERROR", src |-> s, dst |-> p, code |-> c]
ErrCodes == {"not retried", "other"}

\* Block n (from 1) of file f in blocks of size b: where it starts in the
\* file and how many bytes of the file it carries.
Base(n, b) == (n - 1) * b
BlockLen(f, n, b) == IF Base(n, b) + b <= Size[f] THEN b ELSE Size[f] - Base(n, b)
Data(s, p, f, n, b) ==
  [type |-> "DATA", src |-> s, dst |-> p, blk |-> n % SeqSize,
   file |-> f, base |-> Base(n, b), len |-> BlockLen(f, n, b)]

RrqPackets == [type : {"RRQ"}, src : ClientPorts, dst : {WellKnownPort}, file : Files]
AckPackets == [type : {"ACK"}, src : ClientPorts,
               dst : ServerPorts \cup {WellKnownPort}, blk : 0 .. SeqSize - 1]
OackPackets == [type : {"OACK"}, src : ServerPorts, dst : ClientPorts,
                blksize : OptBlkSizes \cup {0}]
ErrPackets == [type : {"ERROR"}, src : ServerPorts, dst : ClientPorts, code : ErrCodes]
DataPackets == [type : {"DATA"}, src : ServerPorts, dst : ClientPorts,
                blk : 0 .. SeqSize - 1, file : Files, base : Nat, len : Nat]

\* A session: n is the number of the last block sent, 0 while only the OACK
\* has been sent.
Closed == [st |-> "closed", cport |-> WellKnownPort, file |-> NoFile,
           blksize |-> DefaultBlkSize, reply |-> "none", n |-> 0]
Sessions == {Closed} \cup
            [st : {"open", "refused"}, cport : ClientPorts, file : Files,
             blksize : Sizes, reply : {"OACK", "DATA", "ERROR"}, n : Nat]

\* Every variable keeps to the values its C type and its uses allow.
TypeOK ==
  /\ LoopTypeOK
  /\ BootFile \in Files \cup {NoFile}
  /\ tftp_filename \in Files \cup {NoFile}
  /\ TftpState \in TftpStates
  /\ TftpServerPort \in ServerPorts \cup {WellKnownPort}
  /\ TftpOurPort \in ClientPorts \cup {WellKnownPort}
  /\ TftpTimeoutCount \in Nat
  /\ TftpTimeoutCountMax \in {TimeoutCountMax, RRQTimeoutCountMax}
  /\ TftpBlock \in 0 .. SeqSize - 1
  /\ TftpLastBlock \in 0 .. SeqSize - 1
  /\ TftpBlockWrapOffset \in Nat
  /\ TftpBlkSize \in Sizes
  /\ NetBootFileXferSize \in Nat
  /\ mem \in [0 .. MemTop -> Bytes]
  /\ filesize \in Nat
  /\ toServer \subseteq RrqPackets \cup AckPackets
  /\ toClient \subseteq OackPackets \cup ErrPackets \cup DataPackets
  /\ session \in [ServerPorts -> Sessions]

Init ==
  /\ LoopInit
  /\ BootFile = NoFile
  /\ tftp_filename = NoFile
  /\ TftpState = "none"
  /\ TftpServerPort = WellKnownPort
  /\ TftpOurPort = WellKnownPort
  /\ TftpTimeoutCount = 0
  /\ TftpTimeoutCountMax = TimeoutCountMax
  /\ TftpBlock = 0
  /\ TftpLastBlock = 0
  /\ TftpBlockWrapOffset = 0
  /\ TftpBlkSize = DefaultBlkSize
  /\ NetBootFileXferSize = 0
  /\ mem = [o \in 0 .. MemTop |-> NoByte]
  /\ filesize = 0
  /\ toServer = {}
  /\ toClient = {}
  /\ session = [s \in ServerPorts |-> Closed]

---------------------------------------------------------------------------
(***************************************************************************)
(* The client.                                                             *)
(***************************************************************************)

\* TftpSend() through NetSendUDPPacket() and the driver: a halted device
\* transmits nothing.
Send(p) == toServer' = IF eth_current \in active THEN toServer \cup {p} ELSE toServer

\* The tftpboot command enters NetLoop().
Tftpboot(f) ==
  /\ Enter
  /\ BootFile' = f
  /\ UNCHANGED <<tftpVars, filesize, toServer, serverVars>>

\* The port is drawn from the clock; nothing keeps it from being one that an
\* earlier attempt has sent from, unless PortsReused is FALSE.
CanDraw(p) == PortsReused \/ \A q \in toServer : q.src # p

\* TftpStart(), and NetBootFileXferSize = 0 after it.
TftpStart ==
  /\ StartProtocol
  /\ tftp_filename' = BootFile
  /\ TftpTimeoutCountMax' = RRQTimeoutCountMax
  /\ TftpServerPort' = WellKnownPort
  /\ TftpTimeoutCount' = 0
  /\ TftpState' = "RRQ"
  /\ \E p \in ClientPorts :
       /\ CanDraw(p)
       /\ TftpOurPort' = p
       /\ Send(Rrq(p, BootFile))
  /\ TftpBlock' = 0
  /\ TftpBlkSize' = DefaultBlkSize
  /\ NetBootFileXferSize' = 0
  /\ UNCHANGED <<TftpLastBlock, TftpBlockWrapOffset, mem, BootFile, filesize,
                 serverVars>>

\* Mutant: a packet from another port of the server gets through.
AcceptsAnySource(m) ==
  /\ phase = "rx"
  /\ packetHandler = "protocol"
  /\ m.dst = TftpOurPort

\* What TftpHandler() lets through before it looks at the opcode.
Accepts(m) ==
  /\ phase = "rx"
  /\ packetHandler = "protocol"
  /\ m.dst = TftpOurPort
  /\ TftpState # "RRQ" => m.src = TftpServerPort

ReceiveOack(m) ==
  /\ m.type = "OACK"
  /\ Accepts(m)
  /\ TftpState' = "OACK"
  /\ TftpServerPort' = m.src
  /\ TftpBlkSize' = IF m.blksize = 0 THEN TftpBlkSize ELSE m.blksize
  /\ Send(Ack(TftpOurPort, m.src, TftpBlock))
  /\ UNCHANGED <<tftp_filename, TftpOurPort, TftpTimeoutCount,
                 TftpTimeoutCountMax, TftpBlock, TftpLastBlock,
                 TftpBlockWrapOffset, NetBootFileXferSize, mem>>
  /\ UNCHANGED <<loopVars, BootFile, filesize, serverVars>>

\* Mutant: the first DATA packet after an OACK is taken for a later one.
ExpectsFirstNotOack == TftpState = "RRQ"

\* In these states a DATA packet is the first one of the transfer.
ExpectsFirst == TftpState \in {"RRQ", "OACK"}

\* What every accepted DATA packet does before the duplicate test: block 0
\* counts as a wrap of the sequence number, whether seen before or not.
DataHead(m) ==
  /\ m.type = "DATA"
  /\ Accepts(m)
  /\ TftpBlock' = m.blk
  /\ TftpState' = "DATA"
  /\ TftpServerPort' = m.src
  /\ TftpBlockWrapOffset' =
       IF ExpectsFirst THEN 0
       ELSE IF m.blk = 0 THEN TftpBlockWrapOffset + TftpBlkSize * SeqSize
       ELSE TftpBlockWrapOffset
  /\ UNCHANGED <<tftp_filename, TftpOurPort, TftpTimeoutCount, TftpBlkSize,
                 BootFile, filesize, serverVars>>

\* The first packet is not block 1: start again.
ReceiveNotBlockOne(m) ==
  /\ DataHead(m)
  /\ ExpectsFirst
  /\ m.blk # 1
  /\ TftpLastBlock' = 0
  /\ StartAgainFromRx
  /\ UNCHANGED <<TftpTimeoutCountMax, NetBootFileXferSize, mem, toServer>>

\* The block number last received: no acknowledgement, no timer.
ReceiveSameBlock(m) ==
  /\ DataHead(m)
  /\ ~ExpectsFirst
  /\ m.blk = TftpLastBlock
  /\ UNCHANGED <<TftpLastBlock, TftpTimeoutCountMax, NetBootFileXferSize, mem,
                 toServer, loopVars>>

\* Mutant: blocks are taken to be numbered from 0.
StoreOffsetOne(m) == m.blk * TftpBlkSize + TftpBlockWrapOffset'

\* store_block(TftpBlock - 1, ...): copy the payload, raise the size.
StoreOffset(m) == (m.blk - 1) * TftpBlkSize + TftpBlockWrapOffset'
Stored(m, offset) ==
  [o \in 0 .. MemTop |->
     IF offset <= o /\ o < offset + m.len
       THEN [file |-> m.file, pos |-> m.base + (o - offset)]
       ELSE mem[o]]

store_block(m) ==
  LET offset == StoreOffset(m)
  IN /\ mem' = Stored(m, offset)
     /\ NetBootFileXferSize' = IF NetBootFileXferSize < offset + m.len
                                 THEN offset + m.len
                                 ELSE NetBootFileXferSize

ReceiveNewBlock(m) ==
  /\ DataHead(m)
  /\ IF ExpectsFirst THEN m.blk = 1 ELSE m.blk # TftpLastBlock
  /\ TftpLastBlock' = m.blk
  /\ TftpTimeoutCountMax' = TimeoutCountMax
  /\ timeHandler' = "protocol"
  /\ store_block(m)
  /\ Send(Ack(TftpOurPort, m.src, m.blk))
  /\ NetState' = IF m.len < TftpBlkSize THEN "SUCCESS" ELSE NetState
  /\ UNCHANGED <<phase, NetTryCount, NetRestarted, NetDevExists, packetHandler,
                 result, ethVars>>

ReceiveError(m) ==
  /\ m.type = "ERROR"
  /\ Accepts(m)
  /\ \/ /\ m.code = "not retried"
        /\ active' = eth_halt
        /\ NetState' = "FAIL"
        /\ UNCHANGED <<phase, NetTryCount, NetRestarted, NetRestartWrap,
                       NetDevExists, eth_current, first_failed, handlerVars, result>>
     \/ /\ m.code = "other"
        /\ StartAgainFromRx
  /\ UNCHANGED <<tftpVars, BootFile, filesize, toServer, serverVars>>

\* TftpTimeout(): the count is only reset by TftpStart().
Resend ==
  Send(IF TftpState = "RRQ" THEN Rrq(TftpOurPort, tftp_filename)
                            ELSE Ack(TftpOurPort, TftpServerPort, TftpBlock))

TftpTimeout ==
  /\ TimerDue("protocol")
  /\ TftpTimeoutCount' = TftpTimeoutCount + 1
  /\ \/ /\ TftpTimeoutCount' > TftpTimeoutCountMax
        /\ StartAgainFromTimer
        /\ UNCHANGED toServer
     \/ /\ TftpTimeoutCount' <= TftpTimeoutCountMax
        /\ Resend
        /\ phase' = IF NetState = "CONTINUE" THEN "rx" ELSE "switch"
        /\ UNCHANGED <<NetState, NetTryCount, NetRestarted, NetDevExists,
                       handlerVars, result, ethVars>>
  /\ UNCHANGED <<tftp_filename, TftpState, TftpServerPort, TftpOurPort,
                 TftpTimeoutCountMax, TftpBlock, TftpLastBlock,
                 TftpBlockWrapOffset, TftpBlkSize, NetBootFileXferSize, mem>>
  /\ UNCHANGED <<BootFile, filesize, serverVars>>

\* NETLOOP_SUCCESS: filesize is only set when something was transferred.
TftpDone ==
  /\ Succeed
  /\ filesize' = IF NetBootFileXferSize > 0 THEN NetBootFileXferSize ELSE filesize
  /\ UNCHANGED <<tftpVars, BootFile, toServer, serverVars>>

\* The steps of NetLoop() that leave TFTP alone.  NoEtherAddr is not one: the
\* board's device has its address (HasEther = Devices).  The server's address
\* is asked for from TftpStart() until its first answer.
LoopStep ==
  /\ \/ NotConfigured
     \/ Abort
     \/ StartAgainTimeout
     \/ TftpState = "RRQ" /\ StartAgainFromArp
     \/ Restart
     \/ Fail
  /\ UNCHANGED <<tftpVars, BootFile, filesize, toServer, serverVars>>

---------------------------------------------------------------------------
(***************************************************************************)
(* The server (external): every request opens a session on a new port; a   *)
(* session sends block n + 1 when block n is acknowledged from the port    *)
(* the request came from, and stops after a block that is not full.        *)
(***************************************************************************)
ServerAccept(s, m) ==
  /\ m.type = "RRQ"
  /\ session[s].st = "closed"
  /\ \/ \E b \in OptBlkSizes \cup {0} :          \* options acknowledged
          /\ session' = [session EXCEPT ![s] =
               [st |-> "open", cport |-> m.src, file |-> m.file, reply |-> "OACK", n |-> 0,
                blksize |-> IF b = 0 THEN DefaultBlkSize ELSE b]]
          /\ toClient' = toClient \cup {Oack(s, m.src, b)}
     \/ /\ session' = [session EXCEPT ![s] =        \* options ignored
              [st |-> "open", cport |-> m.src, file |-> m.file, reply |-> "DATA", n |-> 1,
               blksize |-> DefaultBlkSize]]
        /\ toClient' = toClient \cup {Data(s, m.src, m.file, 1, DefaultBlkSize)}
     \/ \E c \in ErrCodes :                        \* refused
          /\ session' = [session EXCEPT ![s] =
               [st |-> "refused", cport |-> m.src, file |-> m.file, reply |-> "ERROR",
                n |-> 0, blksize |-> DefaultBlkSize]]
          /\ toClient' = toClient \cup {Err(s, m.src, c)}

LastSentFull(s) ==
  session[s].n = 0 \/ BlockLen(session[s].file, session[s].n, session[s].blksize)
                        = session[s].blksize

ServerAck(s, m) ==
  /\ m.type = "ACK"
  /\ m.dst = s
  /\ session[s].st = "open"
  /\ m.src = session[s].cport
  /\ m.blk = session[s].n % SeqSize
  /\ LastSentFull(s)
  /\ session' = [session EXCEPT ![s].n = @ + 1]
  /\ toClient' = toClient \cup {Data(s, m.src, session[s].file, session[s].n + 1,
                                     session[s].blksize)}

ServerStep ==
  /\ \E s \in ServerPorts, m \in toServer : ServerAccept(s, m) \/ ServerAck(s, m)
  /\ UNCHANGED <<loopVars, tftpVars, BootFile, filesize, toServer>>

Receive(m) ==
  \/ ReceiveOack(m)
  \/ ReceiveNotBlockOne(m)
  \/ ReceiveSameBlock(m)
  \/ ReceiveNewBlock(m)
  \/ ReceiveError(m)

Next ==
  \/ \E f \in Files : Tftpboot(f)
  \/ TftpStart
  \/ \E m \in toClient : Receive(m)
  \/ TftpTimeout
  \/ TftpDone
  \/ LoopStep
  \/ ServerStep

Spec == Init /\ [][Next]_vars

---------------------------------------------------------------------------
(***************************************************************************)
(* Properties.                                                             *)
(***************************************************************************)

\* The bytes below offset l are the first l bytes of file f.
Holds(f, l) == \A o \in 0 .. MemTop : o < l => mem[o] = [file |-> f, pos |-> o]

\* When a tftpboot command returns success, memory holds exactly the file
\* that this command asked for and its size is what was counted, however many
\* attempts, lost, late and repeated packets, and leftover sessions of other
\* transfers there were (TftpHandler, store_block, NETLOOP_SUCCESS).
SuccessIntegrity ==
  phase = "idle" /\ result = "ok" =>
    /\ Holds(BootFile, Size[BootFile])
    /\ NetBootFileXferSize = Size[BootFile]

\* A byte of the requested file that has been loaded is never overwritten
\* with anything else, whatever arrives late, twice or out of order
\* (TftpHandler, store_block).
NeverSpoils ==
  [][\A o \in 0 .. MemTop :
       mem[o] = [file |-> tftp_filename, pos |-> o] => mem'[o] = mem[o]]_vars

---------------------------------------------------------------------------
(***************************************************************************)
(* Why it holds: the inductive invariant.                                  *)
(***************************************************************************)

\* No file is long enough for a block number to come round to 0.
NoWrap == \A f \in Files, b \in Sizes : Size[f] < (SeqSize - 1) * b

\* The handler is in charge: only TftpStart() puts it there.
Live == phase = "rx" /\ packetHandler = "protocol"

Connected == TftpState \in {"OACK", "DATA"}
Current(s) == session[s].st = "open" /\ session[s].cport = TftpOurPort

\* Block k of the present transfer is in its place in memory.
HasBlock(k) ==
  \A o \in 0 .. MemTop :
    /\ Base(k, TftpBlkSize) <= o
    /\ o < Base(k, TftpBlkSize) + BlockLen(tftp_filename, k, TftpBlkSize)
    => mem[o] = [file |-> tftp_filename, pos |-> o]

\* Where NetLoop() stands and what the variables then hold.
ControlInv ==
  /\ phase = "restart" => NetState = "CONTINUE"
  /\ phase \in {"poll", "timer", "switch"} => NetState # "CONTINUE"
  /\ phase # "idle" => BootFile \in Files
  /\ phase \in LoopPhases =>
       /\ tftp_filename = BootFile
       /\ TftpState # "none"
       /\ NetDevExists = 1
  /\ TftpState = "none" <=> TftpOurPort = WellKnownPort
  /\ TftpState # "none" => tftp_filename \in Files
  /\ result = "ok" /\ phase = "idle" => BootFile \in Files

SessionInv ==
  \A s \in ServerPorts :
    /\ session[s].st # "closed" => \E q \in toServer : q.src = session[s].cport
    /\ session[s].st = "open" =>
         IF session[s].n = 0 THEN session[s].reply = "OACK"
         ELSE /\ Base(session[s].n, session[s].blksize) <= Size[session[s].file]
              /\ session[s].reply # "OACK" => session[s].blksize = DefaultBlkSize
    /\ Current(s) => session[s].file = tftp_filename

\* Every packet of the server is the one its session sends.
PacketInv ==
  \A m \in toClient :
    LET e == session[m.src]
    IN /\ m.type = "DATA" =>
            /\ e.st = "open"
            /\ m.dst = e.cport
            /\ m.file = e.file
            /\ m.blk \in 1 .. e.n
            /\ m.base = Base(m.blk, e.blksize)
            /\ m.len = BlockLen(e.file, m.blk, e.blksize)
            /\ m.base <= Size[e.file]
       /\ m.type = "OACK" =>
            /\ e.st = "open"
            /\ e.reply = "OACK"
            /\ m.dst = e.cport
            /\ e.blksize = IF m.blksize = 0 THEN DefaultBlkSize ELSE m.blksize

\* What this attempt has sent: requests for its file, and acknowledgements
\* to its server port of blocks that are in memory.
RequestInv ==
  \A q \in toServer : q.src = TftpOurPort =>
    /\ q.type = "RRQ" => q.file = tftp_filename
    /\ q.type = "ACK" =>
         /\ Connected
         /\ q.dst = TftpServerPort
         /\ Live => q.blk = 0 \/ HasBlock(q.blk)

\* The server never gets ahead of the client: while the handler is in charge,
\* every block before the last one sent is in memory, and a block the client
\* could acknowledge (again) is too.
ServerNeverAhead ==
  /\ TftpState = "RRQ" =>
       /\ TftpBlock = 0
       /\ TftpBlkSize = DefaultBlkSize
       /\ \A s \in ServerPorts :
            Current(s) => session[s].n = IF session[s].reply = "OACK" THEN 0 ELSE 1
  /\ Connected =>
       /\ TftpServerPort \in ServerPorts
       /\ Current(TftpServerPort)
       /\ TftpBlkSize = session[TftpServerPort].blksize
       /\ Live => Holds(tftp_filename, Base(session[TftpServerPort].n, TftpBlkSize))
       /\ Live /\ eth_current \in active => TftpBlock = 0 \/ HasBlock(TftpBlock)
       /\ Live /\ TftpState = "DATA" => TftpLastBlock = 0 \/ HasBlock(TftpLastBlock)

\* The size counted and the verdict the handler has reached.
VerdictInv ==
  /\ TftpBlockWrapOffset = 0
  /\ TftpState # "none" => NetBootFileXferSize <= Size[tftp_filename]
  /\ \/ NetState = "SUCCESS" /\ phase \in LoopPhases
     \/ result = "ok" /\ phase = "idle"
     => /\ Holds(BootFile, Size[BootFile])
        /\ NetBootFileXferSize = Size[BootFile]

TransferInv ==
  /\ TypeOK
  /\ ControlInv
  /\ SessionInv
  /\ PacketInv
  /\ RequestInv
  /\ ServerNeverAhead
  /\ VerdictInv

=============================================================================
