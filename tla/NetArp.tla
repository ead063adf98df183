------------------------------- MODULE NetArp -------------------------------
(***************************************************************************)
(* Finding the server's Ethernet address while NetLoop() runs a protocol:  *)
(* NetSendUDPPacket(), ArpTimeoutCheck() and the ARP branch of             *)
(* NetReceive() in net/net.c, with the devices of NetLoop.  The protocol   *)
(* is TFTP (net/tftp.c) up to the server's first answer; what the answer   *)
(* leads to is a choice (module Tftp has the rest).                        *)
(*                                                                         *)
(* A request is the attempt it belongs to and the device whose MAC address *)
(* it was built with.                                                      *)
(***************************************************************************)
EXTENDS NetLoop

CONSTANTS
  ArpTimeoutCount,     \* ARP_TIMEOUT_COUNT
  RRQTimeoutCountMax,  \* TftpRRQTimeoutCountMax
  MaxTimeouts          \* bound of the model on TftpTimeoutCount: the timer of an
                       \* aborted command may still run out in a later one

ASSUME ArpAssumption ==
  /\ ArpTimeoutCount \in Nat
  /\ RRQTimeoutCountMax \in Nat
  /\ MaxTimeouts \in Nat
  /\ MaxTimeouts > RRQTimeoutCountMax

VARIABLES
  NetServerEther,      \* 1 when the server's address is known
  NetArpWaitPacketIP,  \* 1 while an ARP request is pending
  NetArpWaitTry,
  NetArpWaitTxPacket,  \* the request to transmit when the reply comes
  TftpTimeoutCount,
  attempt,             \* history: TftpStart() calls of this command
  asked                \* history: 1 when this attempt's request went out

arpVars == <<NetServerEther, NetArpWaitPacketIP, NetArpWaitTry, NetArpWaitTxPacket>>
vars == <<loopVars, arpVars, TftpTimeoutCount, attempt, asked>>

Requests == [attempt : 0 .. MaxTry, mac : Devices]

\* Every variable keeps to the values its C type and its uses allow.
TypeOK ==
  /\ LoopTypeOK
  /\ NetServerEther \in {0, 1}
  /\ NetArpWaitPacketIP \in {0, 1}
  /\ NetArpWaitTry \in 0 .. ArpTimeoutCount + 1
  /\ NetArpWaitTxPacket \in Requests
  /\ TftpTimeoutCount \in 0 .. MaxTimeouts
  /\ attempt \in 0 .. MaxTry
  /\ asked \in {0, 1}

Init ==
  /\ LoopInit
  /\ NetServerEther = 0
  /\ NetArpWaitPacketIP = 0
  /\ NetArpWaitTry = 0
  /\ NetArpWaitTxPacket = [attempt |-> 0, mac |-> 0]
  /\ TftpTimeoutCount = 0
  /\ attempt = 0
  /\ asked = 0

---------------------------------------------------------------------------
\* The tftpboot command enters NetLoop(), which forgets any pending request.
Tftpboot ==
  /\ Enter
  /\ NetArpWaitPacketIP' = 0
  /\ attempt' = 0
  /\ UNCHANGED <<NetServerEther, NetArpWaitTry, NetArpWaitTxPacket,
                 TftpTimeoutCount, asked>>

\* Mutant: a packet that waits already is not replaced.
AskFirstKeepsOld(n) ==
  /\ NetArpWaitPacketIP' = 1
  /\ NetArpWaitTxPacket' = IF NetArpWaitPacketIP = 1 THEN NetArpWaitTxPacket
                           ELSE [attempt |-> n, mac |-> eth_current]
  /\ NetArpWaitTry' = 1

\* NetSendUDPPacket() with the address unknown: keep the packet, ask.
AskFirst(n) ==
  /\ NetArpWaitPacketIP' = 1
  /\ NetArpWaitTxPacket' = [attempt |-> n, mac |-> eth_current]
  /\ NetArpWaitTry' = 1

\* TftpStart() forgets the server's address, so its request always waits.
TftpStart ==
  /\ StartProtocol
  /\ TftpTimeoutCount' = 0
  /\ NetServerEther' = 0
  /\ AskFirst(attempt + 1)
  /\ attempt' = attempt + 1
  /\ asked' = 0

\* TftpTimeout(): start again, or send the request again, which starts the
\* count of ARP requests again when the address is still unknown.
TftpTimeout ==
  /\ TimerDue("protocol")
  /\ TftpTimeoutCount < MaxTimeouts
  /\ TftpTimeoutCount' = TftpTimeoutCount + 1
  /\ \/ /\ TftpTimeoutCount' > RRQTimeoutCountMax
        /\ StartAgainFromTimer
        /\ UNCHANGED <<arpVars, asked>>
     \/ /\ TftpTimeoutCount' <= RRQTimeoutCountMax
        /\ phase' = IF NetState = "CONTINUE" THEN "rx" ELSE "switch"
        /\ UNCHANGED <<NetState, NetTryCount, NetRestarted, NetDevExists,
                       handlerVars, result, ethVars>>
        /\ \/ /\ NetServerEther = 0
              /\ AskFirst(attempt)
              /\ UNCHANGED <<NetServerEther, asked>>
           \/ /\ NetServerEther = 1
              /\ asked' = IF eth_current \in active THEN 1 ELSE asked
              /\ UNCHANGED arpVars
  /\ UNCHANGED attempt

\* ArpTimeoutCheck(): ask again, or start again.  The request stays pending.
ArpTimeoutCheck ==
  /\ phase \in {"rx", "poll"}
  /\ NetArpWaitPacketIP = 1
  /\ \/ /\ NetArpWaitTry + 1 >= ArpTimeoutCount
        /\ NetArpWaitTry' = 0
        /\ StartAgainFromArp
     \/ /\ NetArpWaitTry + 1 < ArpTimeoutCount
        /\ NetArpWaitTry' = NetArpWaitTry + 1
        /\ UNCHANGED loopVars
  /\ UNCHANGED <<NetServerEther, NetArpWaitPacketIP, NetArpWaitTxPacket,
                 TftpTimeoutCount, attempt, asked>>

\* NetReceive() with the ARP reply waited for: whoever handles packets, the
\* request is transmitted by the current device.
ArpReply ==
  /\ phase = "rx"
  /\ NetArpWaitPacketIP = 1
  /\ NetServerEther' = 1
  /\ NetArpWaitPacketIP' = 0
  /\ asked' = IF eth_current \in active /\ NetArpWaitTxPacket.attempt = attempt
                THEN 1 ELSE asked
  /\ UNCHANGED <<loopVars, NetArpWaitTry, NetArpWaitTxPacket, TftpTimeoutCount, attempt>>

\* The server's answer to this attempt ends the command one way or the other,
\* or starts again (TftpHandler).
Answered ==
  /\ phase = "rx"
  /\ packetHandler = "protocol"
  /\ asked = 1
  /\ \/ /\ NetState' = "SUCCESS"
        /\ timeHandler' = "protocol"
        /\ UNCHANGED <<phase, NetTryCount, NetRestarted, NetDevExists,
                       packetHandler, result, ethVars>>
     \/ /\ NetState' = "FAIL"
        /\ active' = eth_halt
        /\ UNCHANGED <<phase, NetTryCount, NetRestarted, NetRestartWrap,
                       NetDevExists, eth_current, first_failed, handlerVars, result>>
     \/ StartAgainFromRx
  /\ UNCHANGED <<arpVars, TftpTimeoutCount, attempt, asked>>

\* The steps of NetLoop() that leave ARP and the protocol alone.
LoopStep ==
  /\ \/ NotConfigured
     \/ NoEtherAddr
     \/ StartAgainTimeout
     \/ Restart
     \/ Succeed
     \/ Fail
  /\ UNCHANGED <<arpVars, TftpTimeoutCount, attempt, asked>>

CtrlC == Abort /\ UNCHANGED <<arpVars, TftpTimeoutCount, attempt, asked>>

Next ==
  \/ Tftpboot
  \/ TftpStart
  \/ TftpTimeout
  \/ ArpTimeoutCheck
  \/ ArpReply
  \/ Answered
  \/ LoopStep
  \/ CtrlC

Spec == Init /\ [][Next]_vars

\* NetLoop() keeps running and time passes: an armed timer runs out unless it
\* is armed anew.  Packets, answers and ctrl-C need never come.
FairSpec ==
  /\ Spec
  /\ WF_vars(TftpStart)
  /\ WF_vars(TftpTimeout)
  /\ WF_vars(LoopStep)

---------------------------------------------------------------------------
(***************************************************************************)
(* Properties.                                                             *)
(***************************************************************************)

\* While the protocol is in charge, the request that an ARP reply would
\* release is this attempt's and carries the address of the device that would
\* transmit it, though ArpTimeoutCheck() and NetStartAgain() leave the one of
\* an earlier attempt, on another device, pending.
PendingIsCurrent ==
  /\ phase = "rx"
  /\ NetState = "CONTINUE"
  /\ packetHandler = "protocol"
  /\ NetArpWaitPacketIP = 1
  => NetArpWaitTxPacket = [attempt |-> attempt, mac |-> eth_current]

\* NetLoop() never waits with no timer armed: a lost packet cannot hang it
\* (NetSetTimeout in TftpStart, TftpTimeout and NetStartAgain).
NeverWaitsUnarmed == phase = "rx" /\ NetState = "CONTINUE" => timeHandler # "none"

\* No two devices are running: whichever is left behind by NetStartAgain(),
\* eth_init() or a command that failed is halted before another is started.
OnlyCurrentRuns == active \subseteq {eth_current}

\* netretry bounds the attempts of one command, also when ARP and the protocol
\* start again in the same turn of the loop (NetTryCount in NetStartAgain).
AttemptsBounded ==
  ~RetryForever => attempt <= (IF RetryCnt = 0 THEN 1 ELSE RetryCnt)

\* With netretry bounded every command returns, even if no packet ever arrives.
CommandReturns == phase # "idle" ~> phase = "idle"

---------------------------------------------------------------------------
(***************************************************************************)
(* Why it holds: the inductive invariant.                                  *)
(***************************************************************************)

\* What NetState can be where NetLoop() stands.
PhaseInv ==
  /\ phase = "restart" => NetState = "CONTINUE"
  /\ phase \in {"poll", "timer", "switch"} => NetState # "CONTINUE"

\* NetTryCount is ahead of the attempts whenever another one is due, be it that
\* the loop stands at restart:, that a handler has asked for it, or that the ten
\* second wait will, a wait left over from an aborted command included.
TryCountInv ==
  /\ attempt <= NetTryCount
  /\ \/ phase = "restart"
     \/ phase \in LoopPhases /\ NetState = "RESTART"
     \/ timeHandler = "startAgainTimeout"
     => attempt < NetTryCount
  /\ ~RetryForever => NetTryCount <= (IF RetryCnt = 0 THEN 1 ELSE RetryCnt)

\* The inductive invariant: types, the phases of the loop, the count of the
\* attempts, and the properties of timers, devices and the pending packet that
\* need no strengthening (NetLoop, NetStartAgain, TftpStart, ArpTimeoutCheck).
ArpInv ==
  /\ TypeOK
  /\ PhaseInv
  /\ TryCountInv
  /\ NeverWaitsUnarmed
  /\ OnlyCurrentRuns
  /\ PendingIsCurrent

=============================================================================
