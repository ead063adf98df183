------------------------------ MODULE NetBoot ------------------------------
(***************************************************************************)
(* The commands bootp, rarpboot and nfs: netboot_common() of               *)
(* common/cmd_net.c around NetLoop(), the BOOTP client of net/bootp.c, the *)
(* RARP client of net/rarp.c with the RARP branch of NetReceive(), and the *)
(* transfer they hand over to.  With autoload starting with 'n' there is   *)
(* none, with "NFS" it is module Nfs, else it is TFTP, of which only the   *)
(* ends matter here (module Tftp has the transfer).                        *)
(*                                                                         *)
(* BootpID is made from the MAC address and the time in milliseconds, so   *)
(* no two requests share one: as in Nfs the model keeps the last request   *)
(* and the devices that sent earlier ones.  Replies to both are late, lost *)
(* and repeated as the network likes; a BOOTP reply may be a broadcast, a  *)
(* RARP reply goes to the MAC address that asked.  serverip is set.        *)
(***************************************************************************)
EXTENDS Nfs

CONSTANTS
  TimeoutCount,   \* TIMEOUT_COUNT of bootp.c and rarp.c
  Addr,           \* Addr[d]: the address the servers have for device d
  Offered,        \* the file names in BOOTP replies, NoNode for none
  Typed,          \* the file names in commands, NoNode for none
  EnvAddrs,       \* what users set the variable ipaddr to, 0 for unset
  MaxCommands     \* bound of the model on the commands typed

ASSUME NetBootAssumption ==
  /\ TimeoutCount \in Nat \ {0}
  /\ Addr \in [Devices -> Nat \ {0}]
  /\ Offered \subseteq Nodes \cup {NoNode}
  /\ Typed \subseteq Nodes \cup {NoNode}
  /\ EnvAddrs \subseteq Nat
  /\ MaxCommands \in Nat
  /\ HasEther = Devices     \* module NetArp has devices without a MAC address

VARIABLES
  commands,       \* commands typed so far
  protocol,       \* the argument of NetLoop()
  autoload,       \* the variable autoload: "n", "NFS", or another value
  tries,          \* BootpTry or RarpTry
  bootp,          \* the last BOOTP request, named by BootpID
  bootpOlder,     \* the devices whose earlier BOOTP requests went out
  rarpAsked,      \* the devices whose RARP requests went out
  ipaddr,         \* the variable ipaddr, and bi_ip_addr which follows it
  envChanged      \* env_id is not env_changed_id

commandVars == <<commands, protocol, autoload>>
askVars == <<tries, bootp, bootpOlder, rarpAsked>>
envVars == <<ipaddr, envChanged>>
vars == <<loopVars, startVars, nfsVars, commandVars, askVars, envVars>>

Protocols == {"BOOTP", "RARP", "NFS"}
Autoloads == {"n", "NFS", "other"}
BootpRequests == [mac : Devices, arrived : BOOLEAN]

\* Every variable keeps to the values its C type and its uses allow; no client
\* sends more than TIMEOUT_COUNT requests per attempt.
TypeOK ==
  /\ LoopTypeOK
  /\ NfsTypeOK
  /\ NetOurIP \in Nat
  /\ commands \in 0 .. MaxCommands
  /\ protocol \in Protocols
  /\ autoload \in Autoloads
  /\ tries \in 0 .. TimeoutCount
  /\ bootp \in BootpRequests
  /\ bootpOlder \subseteq Devices
  /\ rarpAsked \subseteq Devices
  /\ ipaddr \in Nat
  /\ envChanged \in BOOLEAN

Init ==
  /\ LoopInit
  /\ NfsInit
  /\ NetOurIP = 0
  /\ BootFile = NoNode
  /\ commands = 0
  /\ protocol = "NFS"
  /\ autoload = "n"
  /\ tries = 0
  /\ bootp = [mac |-> 0, arrived |-> FALSE]
  /\ bootpOlder = {}
  /\ rarpAsked = {}
  /\ ipaddr = 0
  /\ envChanged = TRUE

---------------------------------------------------------------------------
(***************************************************************************)
(* netboot_common() and the start of NetLoop().                            *)
(***************************************************************************)

\* A command, with or without a file name.  The user may have changed autoload
\* before, which nfs does not look at, and ipaddr, which only nfs looks at.
Netboot(p, f, a, ip) ==
  /\ commands < MaxCommands
  /\ Enter
  /\ commands' = commands + 1
  /\ protocol' = p
  /\ p = "NFS" => a = autoload
  /\ p # "NFS" => ip = ipaddr
  /\ autoload' = a
  /\ ipaddr' = ip
  /\ envChanged' = (envChanged \/ a # autoload \/ ip # ipaddr)
  /\ BootFile' = IF f = NoNode THEN BootFile ELSE f
  /\ arpWait' = "no"
  /\ UNCHANGED <<owner, NetOurIP, NetServerEther, path, NfsState, NfsDownloadState,
                 curtailed, NfsTimeoutCount, filefh, rpc, older, portVars, mountVars, fileVars>>
  /\ UNCHANGED askVars

\* NetInitLoop(): the address is only read again when some variable changed.
InitialIP == IF envChanged THEN ipaddr ELSE NetOurIP

\* net_check_prereq(): the nfs command needs an address of its own.
NoAddress ==
  /\ protocol = "NFS"
  /\ InitialIP = 0
  /\ NotConfigured
  /\ NetOurIP' = 0
  /\ envChanged' = FALSE
  /\ UNCHANGED <<owner, NetServerEther, BootFile, nfsVars, commandVars, askVars, ipaddr>>

\* Every start function is followed by this assignment.
StartCase(p) ==
  /\ protocol = p
  /\ StartProtocol
  /\ NetBootFileXferSize' = 0
  /\ envChanged' = FALSE
  /\ UNCHANGED <<commandVars, BootFile, ipaddr>>

\* NetSendPacket() of a broadcast: it needs no ARP, only a running device.
GoesOut == eth_current' \in active'

\* BootpRequest(): a new BootpID.
BootpRequest ==
  /\ bootp' = [mac |-> eth_current', arrived |-> GoesOut]
  /\ bootpOlder' = IF bootp.arrived THEN bootpOlder \cup {bootp.mac} ELSE bootpOlder
  /\ UNCHANGED rarpAsked

RarpRequest ==
  /\ rarpAsked' = IF GoesOut THEN rarpAsked \cup {eth_current'} ELSE rarpAsked
  /\ UNCHANGED <<bootp, bootpOlder>>

NfsKept == UNCHANGED <<path, NfsState, NfsDownloadState, curtailed, NfsTimeoutCount, filefh,
                       rpc, older, portVars, mountVars, nfs_offset, mem>>

StartBootp ==
  /\ StartCase("BOOTP")
  /\ owner' = "BOOTP"
  /\ NetOurIP' = 0
  /\ tries' = 1
  /\ BootpRequest
  /\ NfsKept
  /\ UNCHANGED <<NetServerEther, arpWait>>

StartRarp ==
  /\ StartCase("RARP")
  /\ owner' = "RARP"
  /\ NetOurIP' = 0
  /\ tries' = 1
  /\ RarpRequest
  /\ NfsKept
  /\ UNCHANGED <<NetServerEther, arpWait>>

StartNfs ==
  /\ InitialIP # 0
  /\ StartCase("NFS")
  /\ NetOurIP' = InitialIP
  /\ NfsStart
  /\ UNCHANGED askVars

---------------------------------------------------------------------------
(***************************************************************************)
(* BOOTP and RARP.                                                         *)
(***************************************************************************)

\* What BootpHandler() and RarpHandler() do about autoload in the end; timer
\* is what they leave armed when nothing is to be loaded, ether what they know
\* then of the server's address.
Autoload(timer, ether) ==
  /\ UNCHANGED <<phase, NetTryCount, NetRestarted, NetDevExists, ethVars, result>>
  /\ UNCHANGED <<commandVars, askVars, ipaddr, NetBootFileXferSize>>
  /\ \/ /\ autoload = "n"
        /\ NetState' = "SUCCESS"
        /\ timeHandler' = timer
        /\ NetServerEther' = ether
        /\ NfsKept
        /\ UNCHANGED <<owner, arpWait, packetHandler>>
     \/ /\ autoload = "NFS"
        /\ UNCHANGED NetState
        /\ NfsStart
     \/ /\ autoload = "other"             \* TftpStart()
        /\ owner' = "TFTP"
        /\ NetServerEther' = 0
        /\ arpWait' = "old"
        /\ timeHandler' = "protocol"
        /\ packetHandler' = "protocol"
        /\ NfsKept
        /\ UNCHANGED NetState

\* A handler is installed and the loop is receiving.
Receiving(p) == phase = "rx" /\ packetHandler = "protocol" /\ owner = p

\* Mutant: replies to earlier requests are taken.
BootpCheckPktAny(mac) == (bootp.arrived /\ mac = bootp.mac) \/ mac \in bootpOlder

\* BootpCheckPkt(): the reply bears the id of the last request.
BootpCheckPkt(mac) == bootp.arrived /\ mac = bootp.mac

\* BootpHandler(): the reply to a request from mac, naming file f.
BootpReply(mac, f) ==
  /\ Receiving("BOOTP")
  /\ BootpCheckPkt(mac)
  /\ NetOurIP' = Addr[mac]
  /\ BootFile' = IF f = NoNode THEN BootFile ELSE f
  /\ envChanged' = (envChanged \/ BootFile' # NoNode)
  /\ Autoload("none", 1)

\* NetReceive(), PROT_RARP: the address is taken whoever is waiting for
\* packets; only RarpHandler() does more, the others see port 0.
RarpReply ==
  /\ phase = "rx"
  /\ eth_current \in rarpAsked
  /\ NetOurIP' = Addr[eth_current]
  /\ UNCHANGED <<BootFile, envChanged>>
  /\ \/ /\ Receiving("RARP")
        /\ Autoload(timeHandler, 1)
     \/ /\ ~Receiving("RARP")
        /\ NetServerEther' = 1
        /\ UNCHANGED <<loopVars, owner, nfsVars, commandVars, askVars, ipaddr>>

\* RarpHandler() is also given every UDP datagram: while NetOurIP is 0 any
\* destination is taken for ours.
StrayUdp ==
  /\ Receiving("RARP")
  /\ UNCHANGED <<NetOurIP, BootFile, envChanged>>
  /\ Autoload(timeHandler, NetServerEther)

TriesLeft == tries < TimeoutCount

\* BootpTimeout() and RarpTimeout().
AskAgain ==
  /\ TimerDue("protocol")
  /\ \/ /\ ~TriesLeft
        /\ owner \in {"BOOTP", "RARP"}
        /\ StartAgainFromTimer
        /\ UNCHANGED askVars
     \/ /\ TriesLeft
        /\ phase' = IF NetState = "CONTINUE" THEN "rx" ELSE "switch"
        /\ UNCHANGED <<NetState, NetTryCount, NetRestarted, NetDevExists, ethVars,
                       handlerVars, result>>
        /\ tries' = tries + 1
        /\ \/ owner = "BOOTP" /\ BootpRequest
           \/ owner = "RARP" /\ RarpRequest
  /\ UNCHANGED <<startVars, nfsVars, commandVars, envVars>>

---------------------------------------------------------------------------
(***************************************************************************)
(* The transfer, and the loop.                                             *)
(***************************************************************************)

NfsStep ==
  /\ NfsHandler \/ NfsTimeout
  /\ UNCHANGED <<commandVars, askVars, envVars>>

\* How TFTP ends: TftpHandler() has the whole file or an error, or it starts
\* again.  What it loads is no file of this model.
TftpAnswered ==
  /\ Receiving("TFTP")
  /\ NetOurIP # 0
  /\ NetServerEther = 1
  /\ \/ /\ NetState' = "SUCCESS"
        /\ mem' = [o \in 0 .. MemTop |-> NoByte]
        /\ UNCHANGED <<phase, NetTryCount, NetRestarted, NetDevExists, ethVars,
                       handlerVars, result>>
     \/ /\ NetState' = "FAIL"
        /\ active' = eth_halt
        /\ UNCHANGED <<phase, NetTryCount, NetRestarted, NetRestartWrap, NetDevExists,
                       eth_current, first_failed, handlerVars, result, mem>>
     \/ StartAgainFromRx /\ UNCHANGED mem
  /\ UNCHANGED <<path, NfsState, NfsDownloadState, curtailed, NfsTimeoutCount, filefh,
                 sendVars, portVars, mountVars, nfs_offset, NetBootFileXferSize>>
  /\ UNCHANGED <<startVars, commandVars, askVars, envVars>>

TftpTimeout ==
  /\ owner = "TFTP"
  /\ TimerDue("protocol")
  /\ StartAgainFromTimer
  /\ UNCHANGED <<startVars, nfsVars, commandVars, askVars, envVars>>

\* The reply to the ARP request: the packet that waits is transmitted.
ArpReply ==
  /\ phase = "rx"
  /\ NetOurIP # 0
  /\ arpWait # "no"
  /\ arpWait' = "no"
  /\ NetServerEther' = 1
  /\ UNCHANGED <<loopVars, owner, NetOurIP, BootFile, NfsTimeoutCount, fileVars>>
  /\ NfsKept
  /\ UNCHANGED <<commandVars, askVars, envVars>>

\* ArpTimeoutCheck() gives up on a packet that waits, be it one of an attempt
\* that is over.
ArpGivesUp ==
  /\ arpWait # "no"
  /\ StartAgainFromArp
  /\ UNCHANGED <<startVars, nfsVars, commandVars, askVars, envVars>>

\* NETLOOP_SUCCESS, then netboot_update_env().
Done ==
  /\ Succeed
  /\ ipaddr' = IF NetOurIP # 0 THEN NetOurIP ELSE ipaddr
  /\ envChanged' = TRUE
  /\ UNCHANGED <<startVars, nfsVars, commandVars, askVars>>

LoopStep ==
  /\ StartAgainTimeout \/ Restart \/ Fail
  /\ UNCHANGED <<startVars, nfsVars, commandVars, askVars, envVars>>

CtrlC == Abort /\ UNCHANGED <<startVars, nfsVars, commandVars, askVars, envVars>>

Next ==
  \/ \E p \in Protocols, f \in Typed, a \in Autoloads, ip \in EnvAddrs \cup {ipaddr} :
       Netboot(p, f, a, ip)
  \/ NoAddress
  \/ StartBootp
  \/ StartRarp
  \/ StartNfs
  \/ \E mac \in Devices, f \in Offered : BootpReply(mac, f)
  \/ RarpReply
  \/ StrayUdp
  \/ AskAgain
  \/ NfsStep
  \/ TftpAnswered
  \/ TftpTimeout
  \/ ArpReply
  \/ ArpGivesUp
  \/ Done
  \/ LoopStep
  \/ CtrlC

Spec == Init /\ [][Next]_vars

\* NetLoop() keeps running and time passes: an armed timer runs out unless it
\* is armed anew.  No packet and no ctrl-C need ever come.
FairSpec ==
  /\ Spec
  /\ WF_vars(NoAddress \/ StartBootp \/ StartRarp \/ StartNfs)
  /\ WF_vars(AskAgain)
  /\ WF_vars(NfsTimeout /\ UNCHANGED <<commandVars, askVars, envVars>>)
  /\ WF_vars(TftpTimeout)
  /\ WF_vars(Done)
  /\ WF_vars(LoopStep)

---------------------------------------------------------------------------
(***************************************************************************)
(* Properties.                                                             *)
(***************************************************************************)

\* The bytes below offset l are the first l bytes of file f.
Holds(f, l) == \A o \in 0 .. MemTop : o < l => mem[o] = [file |-> f, pos |-> o]

Wanted == IF BootFile = NoNode THEN DefaultFile ELSE BootFile

\* All of the wanted file is in memory, and counted.
Loaded ==
  LET f == Final[Wanted] IN
    /\ Kind[f] = "file"
    /\ Holds(f, Size[f])
    /\ NetBootFileXferSize = Size[f]

\* The bytes counted are in memory, and are the first of the wanted file; they
\* are all of it unless a verifier has ended the transfer.
Obtained == Holds(Final[Wanted], NetBootFileXferSize) /\ (~curtailed => Loaded)

\* A command that ends well after an NFS transfer has loaded all of the file
\* that its boot file name leads to, through any symbolic links, and counted
\* its size, though every call goes without retransmission control but the
\* reply's id (NfsHandler, store_block, nfs_read_reply).  After a reply that
\* bore a verifier it has loaded and counted the beginning of that file, and
\* the end may be missing though the command reports success.
LoadedMeansFile == phase = "idle" /\ result = "ok" /\ owner = "NFS" => Obtained

\* While the file is loaded after BOOTP, the address in use is the one that the
\* server has for the device in use, though the loop may have gone on to it
\* while replies to requests of another device, which may be broadcast, were
\* under way (BootpID in BootpCheckPkt).
AddressIsOurs ==
  /\ protocol = "BOOTP"
  /\ phase = "rx"
  /\ NetState = "CONTINUE"
  /\ packetHandler = "protocol"
  /\ owner \in {"NFS", "TFTP"}
  => NetOurIP = Addr[eth_current]

\* NetLoop() never waits with no timer armed, also right after BootpHandler()
\* has cleared its own and handed over to TFTP or NFS.
NeverWaitsUnarmed == phase = "rx" /\ NetState = "CONTINUE" => timeHandler # "none"

\* The nfs command complains that `ipaddr' is not set only when it is not
\* (net_check_prereq, after NetInitLoop).
ComplaintIsTrue == [][NoAddress => ipaddr = 0]_vars

\* With netretry bounded every command returns, even if no packet ever arrives,
\* unless symbolic links lead in a circle.
CommandReturns == phase # "idle" ~> phase = "idle"

---------------------------------------------------------------------------
(***************************************************************************)
(* Why the invariants hold: the inductive invariant.                       *)
(***************************************************************************)
Running == phase \in LoopPhases

\* Only the receive loop itself is left to go on waiting.
WaitInv ==
  /\ phase \in {"poll", "timer", "switch"} => NetState # "CONTINUE"
  /\ phase = "restart" => NetState = "CONTINUE"
  /\ Running => NetDevExists = 1
  /\ NeverWaitsUnarmed

\* The last BOOTP request is that of the device in use as long as its reply is
\* taken; until a handler hands over nothing is loaded.
OwnerInv ==
  Running =>
    /\ owner \in {"BOOTP", "RARP"} =>
         /\ protocol = owner
         /\ NetBootFileXferSize = 0
         /\ NetState = "SUCCESS" => autoload = "n"
    /\ owner = "BOOTP" /\ phase = "rx" /\ packetHandler = "protocol"
         => bootp.mac = eth_current

\* The last call asks for what the state of the client says; what is behind
\* nfs_offset has been read.
CallInv ==
  /\ NfsState # "none" => path \in Nodes
  /\ NfsState = "LOOKUP_REQ" => rpc.node = path
  /\ NfsState \in {"READ_REQ", "READLINK_REQ"} => filefh = path /\ rpc.node = path
  /\ NfsState = "READ_REQ" =>
       /\ rpc.off = nfs_offset
       /\ nfs_offset <= IF Kind[path] = "file" THEN Size[path] ELSE 0

\* The links followed so far lead where the boot file name leads, and memory
\* holds what was read since lookup.
TransferInv ==
  Running /\ owner = "NFS" =>
    /\ NfsState # "none"
    /\ Final[path] = Final[Wanted]
    /\ NfsState \notin {"READ_REQ", "UMOUNT_REQ"} =>
         NetBootFileXferSize = 0 \/ (NfsState = "READLINK_REQ" /\ Kind[path] = "file")
    /\ NfsState = "READ_REQ" => NetBootFileXferSize = nfs_offset /\ Holds(path, nfs_offset)
    /\ NfsState # "UMOUNT_REQ" => NfsDownloadState = "FAIL"
    /\ NfsDownloadState = "SUCCESS" => Obtained
    /\ NetState = "SUCCESS" => NfsDownloadState = "SUCCESS"
    /\ timeHandler = "protocol" \/ (phase = "rx" /\ packetHandler = "protocol")
         => NfsTimeoutCount <= NfsRetryCount

BootInv ==
  /\ TypeOK
  /\ WaitInv
  /\ OwnerInv
  /\ CallInv
  /\ TransferInv
  /\ AddressIsOurs
  /\ LoadedMeansFile

=============================================================================
