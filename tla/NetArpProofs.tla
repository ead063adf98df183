---------------------------- MODULE NetArpProofs ----------------------------
(***************************************************************************)
(* The safety properties of NetArp for every ring of devices, every        *)
(* setting of netretry and ethrotate and every number of ARP requests:     *)
(* ArpInv is inductive.                                                    *)
(***************************************************************************)
EXTENDS NetArp, NetLoopProofs

USE DEF LoopPhases, TimerDue

\* What ArpInv says of the loop alone.
LoopInv == LoopTypeOK /\ PhaseInv /\ NeverWaitsUnarmed /\ OnlyCurrentRuns

\* The types of what NetArp adds to the loop.
ArpTypeOK ==
  /\ NetServerEther \in {0, 1}
  /\ NetArpWaitPacketIP \in {0, 1}
  /\ NetArpWaitTry \in 0 .. ArpTimeoutCount + 1
  /\ NetArpWaitTxPacket \in Requests
  /\ TftpTimeoutCount \in 0 .. MaxTimeouts
  /\ asked \in {0, 1}

\* The statically initialised variables satisfy the invariant.
LEMMA ArpInit == ASSUME Init PROVE ArpInv
<1>1. LoopTypeOK
  BY LoopInitType, Zenon DEF Init
<1>2. 0 \in Devices /\ 0 \in 0 .. MaxTry
  BY NetLoopAssumption DEF Devices
<1>3. NetArpWaitTxPacket \in Requests
  BY <1>2, Zenon DEF Init, Requests
<1>4. TypeOK
  BY <1>1, <1>2, <1>3, ArpAssumption DEF Init, TypeOK
<1>5. TryCountInv
  BY NetLoopAssumption DEF Init, LoopInit, TryCountInv
<1>. QED
  BY <1>4, <1>5, Zenon DEF Init, LoopInit, ArpInv, PhaseInv, NeverWaitsUnarmed, OnlyCurrentRuns,
                    PendingIsCurrent

---------------------------------------------------------------------------
(* The loop. *)

\* Entering NetLoop(): only the device that was initialised runs, and the count
\* of attempts starts again.
LEMMA LoopEnter ==
  ASSUME LoopInv, Enter
  PROVE  /\ LoopInv'
         /\ NetTryCount' = 1
         /\ phase' \in {"idle", "restart"}
         /\ UNCHANGED timeHandler
<1>. USE DEF LoopInv
<1>1. /\ LoopTypeOK' /\ NetTryCount' = 1 /\ UNCHANGED timeHandler
      /\ \/ phase' = "restart" /\ NetState' = "CONTINUE"
         \/ phase' = "idle"
      /\ active' \subseteq {eth_current'}
  BY EnterLoop, Zenon DEF OnlyCurrentRuns
<1>. QED  BY <1>1, Zenon DEF PhaseInv, NeverWaitsUnarmed, OnlyCurrentRuns

\* Starting again, whoever asks for it: the loop goes on waiting only with the
\* timer and the handler of the ten second wait.
LEMMA LoopStartAgain ==
  ASSUME LoopInv,
         \/ StartAgainFromRx /\ phase = "rx"
         \/ StartAgainFromTimer /\ phase \in {"rx", "poll", "timer"}
         \/ StartAgainFromArp
         \/ NoEtherAddr
  PROVE  /\ LoopInv'
         /\ phase' \in LoopPhases
         /\ NetState' = "CONTINUE" => packetHandler' = "startAgainHandler"
         /\ \/ /\ NetTryCount' = NetTryCount + 1
               /\ ~RetryForever => NetTryCount' <= RetryCnt
            \/ /\ NetTryCount' = NetTryCount
               /\ NetState' = "FAIL"
               /\ timeHandler' \in {timeHandler, "none"}
<1>. USE DEF LoopInv
<1>1. PICK t \in TimeHandlers : NetStartAgain(t) /\ t \in {timeHandler, "none"}
  BY Zenon DEF StartAgainFromRx, StartAgainFromTimer, StartAgainFromArp, NoEtherAddr, LoopTypeOK,
         TimeHandlers
<1>2. /\ \/ NetState' \in {"FAIL", "RESTART"}
         \/ /\ NetState' = NetState
            /\ timeHandler' = "startAgainTimeout"
            /\ packetHandler' = "startAgainHandler"
      /\ \/ /\ NetTryCount' = NetTryCount + 1
            /\ ~RetryForever => NetTryCount' <= RetryCnt
         \/ /\ NetTryCount' = NetTryCount
            /\ NetState' = "FAIL"
            /\ timeHandler' = t
      /\ active' \subseteq {eth_current'}
  BY <1>1, StartAgainOutcome, Zenon DEF OnlyCurrentRuns
<1>3. /\ phase' \in LoopPhases
      /\ phase' \in {"poll", "timer", "switch"} => NetState' # "CONTINUE"
      /\ UNCHANGED <<NetRestarted, NetDevExists, result>>
  BY Zenon DEF StartAgainFromRx, StartAgainFromTimer, StartAgainFromArp, NoEtherAddr
<1>4. LoopTypeOK'
  BY <1>1, <1>3, StartAgainType, Zenon DEF LoopTypeOK, Phases, NetStates, PacketHandlers
<1>5. PhaseInv' /\ NeverWaitsUnarmed'
  BY <1>2, <1>3, Zenon DEF PhaseInv, NeverWaitsUnarmed
<1>. QED  BY <1>1, <1>2, <1>3, <1>4, <1>5, Zenon DEF OnlyCurrentRuns

\* The steps of NetLoop() that end the command, go back to restart: or end the
\* ten second wait.
LEMMA LoopOther ==
  ASSUME LoopInv,
         \/ NotConfigured \/ Abort \/ StartAgainTimeout \/ Restart \/ Succeed \/ Fail
  PROVE  LoopInv'
<1>. USE DEF LoopInv, ethVars, handlerVars
<1>1. LoopTypeOK'
  BY Zenon DEF LoopTypeOK, NotConfigured, Abort, StartAgainTimeout, Restart, Succeed, Fail,
         eth_halt, Phases, NetStates, TimeHandlers, Results
<1>2. PhaseInv' /\ NeverWaitsUnarmed'
  BY Zenon DEF PhaseInv, NeverWaitsUnarmed, NotConfigured, Abort, StartAgainTimeout, Restart,
         Succeed, Fail
<1>3. OnlyCurrentRuns'
  BY Zenon DEF OnlyCurrentRuns, NotConfigured, Abort, StartAgainTimeout, Restart, Succeed, Fail,
         eth_halt
<1>. QED  BY <1>1, <1>2, <1>3, Zenon

---------------------------------------------------------------------------
(* Every step. *)

\* The invariant by its parts: what the loop, ARP and the counts each say.
LEMMA ArpInvParts ==
  ArpInv <=> /\ LoopInv
             /\ ArpTypeOK
             /\ attempt \in Nat
             /\ TryCountInv
             /\ PendingIsCurrent
<1>1. LoopTypeOK /\ attempt \in Nat /\ TryCountInv => attempt \in 0 .. MaxTry
  BY NetLoopAssumption DEF LoopTypeOK, TryCountInv
<1>2. attempt \in 0 .. MaxTry => attempt \in Nat
  BY NetLoopAssumption
<1>. QED  BY <1>1, <1>2, Zenon DEF ArpInv, TypeOK, LoopInv, ArpTypeOK

\* A new command has made no attempt and forgets any pending request.
LEMMA ArpTftpboot == ASSUME ArpInv, Tftpboot PROVE ArpInv'
<1>1. LoopInv /\ ArpTypeOK
  BY ArpInvParts, Zenon
<1>2. /\ LoopInv'
      /\ NetTryCount' = 1
      /\ phase' \in {"idle", "restart"}
  BY <1>1, LoopEnter, Zenon DEF Tftpboot
<1>3. ArpTypeOK'
  BY <1>1, Zenon DEF ArpTypeOK, Tftpboot
<1>4. TryCountInv' /\ attempt' \in Nat
  BY <1>2, NetLoopAssumption DEF TryCountInv, Tftpboot
<1>5. PendingIsCurrent'
  BY DEF PendingIsCurrent, Tftpboot
<1>6. attempt' \in 0 .. MaxTry
  BY NetLoopAssumption DEF Tftpboot
<1>. QED  BY <1>2, <1>3, <1>4, <1>5, <1>6, Zenon DEF ArpInv, TypeOK, LoopInv, ArpTypeOK

\* The request of a new attempt replaces whatever was waiting.
LEMMA ArpTftpStart == ASSUME ArpInv, TftpStart PROVE ArpInv'
<1>1. LoopInv /\ ArpTypeOK /\ attempt \in Nat /\ TryCountInv
  BY ArpInvParts, Zenon
<1>2. LoopTypeOK /\ NetTryCount \in 1 .. MaxTry /\ eth_current \in Devices
  BY <1>1, Zenon DEF LoopInv, LoopTypeOK
<1>3. /\ phase = "restart" /\ phase' = "rx"
      /\ timeHandler' = "protocol" /\ packetHandler' = "protocol"
      /\ NetDevExists' = 1
      /\ UNCHANGED <<NetState, NetTryCount, NetRestarted, result>>
      /\ UNCHANGED <<eth_current, first_failed, NetRestartWrap, active>>
  BY Zenon DEF TftpStart, StartProtocol, ethVars
<1>4. LoopInv'
  BY <1>1, <1>2, <1>3, Zenon
     DEF LoopInv, LoopTypeOK, PhaseInv, NeverWaitsUnarmed, OnlyCurrentRuns,
                   Phases, TimeHandlers, PacketHandlers
<1>5. attempt + 1 <= NetTryCount /\ attempt + 1 \in 0 .. MaxTry
  BY <1>1, <1>2, <1>3, NetLoopAssumption DEF TryCountInv
<1>6. NetArpWaitTxPacket' = [attempt |-> attempt', mac |-> eth_current']
  BY <1>3, Zenon DEF TftpStart, AskFirst
<1>7. ArpTypeOK'
  <2>1. NetArpWaitTxPacket' \in Requests
    BY <1>2, <1>5, Zenon DEF TftpStart, AskFirst, Requests
  <2>2. NetArpWaitTry' \in 0 .. ArpTimeoutCount + 1 /\ TftpTimeoutCount' \in 0 .. MaxTimeouts
    BY ArpAssumption DEF TftpStart, AskFirst
  <2>. QED  BY <2>1, <2>2, Zenon DEF ArpTypeOK, TftpStart, AskFirst
<1>8. NetState' # "RESTART"
  BY <1>1, <1>3, Zenon DEF LoopInv, PhaseInv
<1>9. TryCountInv'
  BY <1>1, <1>3, <1>5, <1>8, Zenon DEF TryCountInv, TftpStart
<1>10. PendingIsCurrent'
  BY <1>6, Zenon DEF PendingIsCurrent
<1>. QED
  BY <1>4, <1>5, <1>7, <1>9, <1>10, Zenon DEF ArpInv, TypeOK, LoopInv, ArpTypeOK, TftpStart

\* Starting again leaves the packet that waits, but not to the protocol.
LEMMA ArpStartAgain ==
  ASSUME ArpInv, ArpTypeOK', UNCHANGED attempt,
         \/ StartAgainFromRx /\ phase = "rx"
         \/ StartAgainFromTimer /\ phase \in {"rx", "poll", "timer"}
         \/ StartAgainFromArp
         \/ NoEtherAddr
  PROVE  ArpInv'
<1>1. LoopInv /\ attempt \in Nat /\ TryCountInv
  BY ArpInvParts, Zenon
<1>2. /\ LoopInv'
      /\ NetState' = "CONTINUE" => packetHandler' = "startAgainHandler"
      /\ \/ /\ NetTryCount' = NetTryCount + 1
            /\ ~RetryForever => NetTryCount' <= RetryCnt
         \/ /\ NetTryCount' = NetTryCount
            /\ NetState' = "FAIL"
            /\ timeHandler' \in {timeHandler, "none"}
      /\ phase' \in LoopPhases
  BY <1>1, LoopStartAgain, Zenon
<1>3. NetTryCount \in 1 .. MaxTry /\ NetTryCount' \in 1 .. MaxTry
  BY <1>1, <1>2, Zenon DEF LoopInv, LoopTypeOK
<1>4. TryCountInv'
  BY <1>1, <1>2, <1>3, NetLoopAssumption DEF TryCountInv
<1>5. PendingIsCurrent'
  BY <1>2, Zenon DEF PendingIsCurrent
<1>6. attempt' \in 0 .. MaxTry
  BY Zenon DEF ArpInv, TypeOK
<1>. QED  BY <1>2, <1>4, <1>5, <1>6, Zenon DEF ArpInv, TypeOK, LoopInv, ArpTypeOK

\* The steps that change nothing of the loop: the packet that waits, if one
\* does, is still the one of this attempt and this device.
LEMMA ArpLoopKept ==
  ASSUME ArpInv, ArpTypeOK', UNCHANGED <<loopVars, attempt>>,
         NetArpWaitPacketIP' = 1 => NetArpWaitPacketIP = 1 /\ UNCHANGED NetArpWaitTxPacket
  PROVE  ArpInv'
<1>0. UNCHANGED <<phase, NetState, NetTryCount, NetRestarted, NetRestartWrap,
                  NetDevExists, eth_current, first_failed, active, timeHandler,
                  packetHandler, result, attempt>>
  BY Zenon DEF loopVars
<1>1. LoopTypeOK' /\ PhaseInv' /\ NeverWaitsUnarmed' /\ OnlyCurrentRuns'
  BY <1>0, Zenon DEF ArpInv, TypeOK, LoopTypeOK, PhaseInv, NeverWaitsUnarmed, OnlyCurrentRuns
<1>2. TryCountInv'
  BY <1>0, Zenon DEF ArpInv, TryCountInv
<1>3. ArpTypeOK
  BY ArpInvParts, Zenon
<1>4. PendingIsCurrent'
  BY <1>0, <1>3, Zenon DEF ArpInv, PendingIsCurrent, ArpTypeOK
<1>5. attempt' \in 0 .. MaxTry
  BY <1>0, Zenon DEF ArpInv, TypeOK
<1>. QED  BY <1>1, <1>2, <1>4, <1>5, Zenon DEF ArpInv, TypeOK, ArpTypeOK

\* The protocol's timer: starting again, or the request once more.
LEMMA ArpTftpTimeout == ASSUME ArpInv, TftpTimeout PROVE ArpInv'
<1>1. LoopInv /\ ArpTypeOK /\ TryCountInv /\ attempt \in 0 .. MaxTry
  BY ArpInvParts, Zenon DEF ArpInv, TypeOK
<1>2. TftpTimeoutCount' \in 0 .. MaxTimeouts
  BY <1>1, ArpAssumption DEF TftpTimeout, ArpTypeOK
<1>3. CASE StartAgainFromTimer /\ UNCHANGED <<arpVars, asked>>
  <2>1. ArpTypeOK'
    BY <1>1, <1>2, <1>3, Zenon DEF ArpTypeOK, arpVars
  <2>. QED  BY <1>3, <2>1, ArpStartAgain, Zenon DEF TftpTimeout
<1>4. CASE /\ phase' = IF NetState = "CONTINUE" THEN "rx" ELSE "switch"
           /\ UNCHANGED <<NetState, NetTryCount, NetRestarted, NetDevExists,
                          handlerVars, result, ethVars>>
           /\ \/ AskFirst(attempt) /\ UNCHANGED <<NetServerEther, asked>>
              \/ asked' \in {1, asked} /\ NetServerEther = 1 /\ UNCHANGED arpVars
  <2>1. phase \in {"rx", "poll", "timer"} /\ timeHandler = "protocol"
    BY Zenon DEF TftpTimeout
  <2>2. UNCHANGED <<NetState, NetTryCount, NetRestarted, NetDevExists, timeHandler,
                    packetHandler, result, eth_current, first_failed, NetRestartWrap,
                    active, attempt>>
    BY <1>4, Zenon DEF handlerVars, ethVars, TftpTimeout
  <2>3. LoopInv'
    BY <1>1, <1>4, <2>1, <2>2, Zenon DEF LoopInv, LoopTypeOK, PhaseInv, NeverWaitsUnarmed,
                              OnlyCurrentRuns, Phases
  <2>4. TryCountInv'
    BY <1>1, <1>4, <2>1, <2>2, Zenon DEF TryCountInv
  <2>5. ArpTypeOK'
    <3>1. CASE AskFirst(attempt) /\ UNCHANGED <<NetServerEther, asked>>
      <4>1. NetArpWaitTxPacket' \in Requests
        BY <1>1, <3>1, Zenon DEF AskFirst, Requests, LoopInv, LoopTypeOK
      <4>2. NetArpWaitTry' \in 0 .. ArpTimeoutCount + 1
        BY <3>1, ArpAssumption DEF AskFirst
      <4>. QED  BY <1>1, <1>2, <3>1, <4>1, <4>2, Zenon DEF ArpTypeOK, AskFirst
    <3>2. CASE asked' \in {1, asked} /\ UNCHANGED arpVars
      BY <1>1, <1>2, <3>2, Zenon DEF ArpTypeOK, arpVars
    <3>. QED  BY <1>4, <3>1, <3>2, Zenon
  <2>6. PendingIsCurrent'
    <3>1. CASE AskFirst(attempt)
      BY <2>2, <3>1, Zenon DEF AskFirst, PendingIsCurrent
    <3>2. CASE UNCHANGED arpVars
      <4>1. PhaseInv /\ PendingIsCurrent
        BY Zenon DEF ArpInv
      <4>2. phase' = "rx" /\ NetState' = "CONTINUE" => phase = "rx" /\ NetState = "CONTINUE"
        BY <2>1, <2>2, <4>1, Zenon DEF PhaseInv
      <4>3. UNCHANGED <<NetArpWaitPacketIP, NetArpWaitTxPacket>>
        BY <3>2, Zenon DEF arpVars
      <4>. QED  BY <2>2, <4>1, <4>2, <4>3, Zenon DEF PendingIsCurrent
    <3>. QED  BY <1>4, <3>1, <3>2, Zenon
  <2>. QED  BY <1>1, <2>2, <2>3, <2>4, <2>5, <2>6, Zenon DEF ArpInv, TypeOK, LoopInv, ArpTypeOK
<1>. QED  BY <1>3, <1>4, Zenon DEF TftpTimeout

\* ArpTimeoutCheck() asks again or starts again.
LEMMA ArpTimeout == ASSUME ArpInv, ArpTimeoutCheck PROVE ArpInv'
<1>1. ArpTypeOK
  BY ArpInvParts, Zenon
<1>2. NetArpWaitTry' \in 0 .. ArpTimeoutCount + 1
  BY <1>1, ArpAssumption DEF ArpTypeOK, ArpTimeoutCheck
<1>3. ArpTypeOK'
  BY <1>1, <1>2, Zenon DEF ArpTypeOK, ArpTimeoutCheck
<1>4. UNCHANGED <<attempt, NetArpWaitTxPacket, NetArpWaitPacketIP>>
  BY Zenon DEF ArpTimeoutCheck
<1>5. StartAgainFromArp \/ UNCHANGED loopVars
  BY Zenon DEF ArpTimeoutCheck
<1>. QED  BY <1>3, <1>4, <1>5, ArpStartAgain, ArpLoopKept, Zenon

\* The ARP reply: nothing waits any more.
LEMMA ArpReplied == ASSUME ArpInv, ArpReply PROVE ArpInv'
<1>1. ArpTypeOK
  BY ArpInvParts, Zenon
<1>2. ArpTypeOK'
  BY <1>1, Zenon DEF ArpTypeOK, ArpReply
<1>. QED  BY <1>2, ArpLoopKept, Zenon DEF ArpReply

\* The server's answer to this attempt.
LEMMA ArpAnswered == ASSUME ArpInv, Answered PROVE ArpInv'
<1>1. LoopInv /\ ArpTypeOK /\ TryCountInv /\ attempt \in 0 .. MaxTry
  BY ArpInvParts, Zenon DEF ArpInv, TypeOK
<1>2. ArpTypeOK' /\ UNCHANGED attempt /\ phase = "rx"
  BY <1>1, Zenon DEF ArpTypeOK, Answered, arpVars
<1>3. CASE StartAgainFromRx
  BY <1>2, <1>3, ArpStartAgain, Zenon
<1>4. CASE /\ NetState' \in {"SUCCESS", "FAIL"}
           /\ timeHandler' \in {timeHandler, "protocol"}
           /\ active' \in {active, eth_halt}
           /\ UNCHANGED <<phase, NetTryCount, NetRestarted, NetDevExists, packetHandler,
                          result, eth_current, first_failed, NetRestartWrap>>
  <2>1. LoopTypeOK'
    BY <1>1, <1>4, Zenon DEF LoopInv, LoopTypeOK, NetStates, TimeHandlers, eth_halt
  <2>2. PhaseInv' /\ NeverWaitsUnarmed' /\ OnlyCurrentRuns' /\ PendingIsCurrent'
    BY <1>1, <1>2, <1>4, Zenon
       DEF LoopInv, PhaseInv, NeverWaitsUnarmed, OnlyCurrentRuns, eth_halt,
                       PendingIsCurrent
  <2>3. TryCountInv'
    BY <1>1, <1>2, <1>4, Zenon DEF TryCountInv
  <2>. QED  BY <1>1, <1>2, <2>1, <2>2, <2>3, Zenon DEF ArpInv, TypeOK, ArpTypeOK
<1>. QED
  BY <1>3, <1>4, Zenon DEF Answered, ethVars, handlerVars

\* The steps of NetLoop() that leave ARP alone, and ctrl-C.
LEMMA ArpLoopStep == ASSUME ArpInv, LoopStep \/ CtrlC PROVE ArpInv'
<1>1. LoopInv /\ ArpTypeOK /\ TryCountInv /\ attempt \in 0 .. MaxTry
  BY ArpInvParts, Zenon DEF ArpInv, TypeOK
<1>2. ArpTypeOK' /\ UNCHANGED <<attempt, NetArpWaitPacketIP, NetArpWaitTxPacket>>
  BY <1>1, Zenon DEF ArpTypeOK, LoopStep, CtrlC, arpVars
<1>3. CASE NoEtherAddr
  BY <1>2, <1>3, ArpStartAgain, Zenon
<1>4. CASE \/ NotConfigured \/ Abort \/ StartAgainTimeout \/ Restart \/ Succeed \/ Fail
  <2>1. LoopInv'
    BY <1>1, <1>4, LoopOther, Zenon
  <2>2. TryCountInv'
    BY <1>1, <1>2, <1>4, Zenon DEF TryCountInv, NotConfigured, Abort, StartAgainTimeout, Restart,
                       Succeed, Fail, handlerVars
  <2>3. ~(phase' = "rx" /\ NetState' = "CONTINUE")
    BY <1>4, Zenon DEF NotConfigured, Abort, StartAgainTimeout, Restart, Succeed, Fail
  <2>. QED
    BY <1>1, <1>2, <2>1, <2>2, <2>3, Zenon
       DEF ArpInv, TypeOK, LoopInv, ArpTypeOK, PendingIsCurrent
<1>. QED  BY <1>3, <1>4, Zenon DEF LoopStep, CtrlC

\* Every step keeps the invariant, one case per action.
LEMMA ArpNext == ASSUME ArpInv, [Next]_vars PROVE ArpInv'
<1>1. CASE UNCHANGED vars
  <2>1. UNCHANGED <<loopVars, arpVars, TftpTimeoutCount, attempt, asked>>
    BY <1>1, Zenon DEF vars
  <2>2. ArpTypeOK
    BY ArpInvParts, Zenon
  <2>3. ArpTypeOK' /\ UNCHANGED <<NetArpWaitPacketIP, NetArpWaitTxPacket>>
    BY <2>1, <2>2, Zenon DEF ArpTypeOK, arpVars
  <2>. QED  BY <2>1, <2>3, ArpLoopKept, Zenon
<1>. QED
  BY <1>1, ArpTftpboot, ArpTftpStart, ArpTftpTimeout, ArpTimeout, ArpReplied, ArpAnswered,
     ArpLoopStep, Zenon DEF Next

---------------------------------------------------------------------------
(* The theorems. *)

\* ArpInv holds in every state NetLoop() can be in.
THEOREM ArpCorrect == Spec => []ArpInv
<1>1. Init => ArpInv
  BY ArpInit, Zenon
<1>2. ArpInv /\ [Next]_vars => ArpInv'
  BY ArpNext, Zenon
<1>. QED  BY <1>1, <1>2, PTL DEF Spec

\* Every variable of the loop and of ARP keeps to its values, and the ARP
\* requests are counted within their limit.
THEOREM ArpTypes == Spec => []TypeOK
<1>1. ArpInv => TypeOK
  BY Zenon DEF ArpInv
<1>. QED  BY <1>1, ArpCorrect, PTL

\* An ARP reply releases only a packet of this attempt, built for the device in
\* use, although a restart leaves the request of an earlier one pending.
THEOREM ReleasesCurrentPacket == Spec => []PendingIsCurrent
<1>1. ArpInv => PendingIsCurrent
  BY Zenon DEF ArpInv
<1>. QED  BY <1>1, ArpCorrect, PTL

\* The receive loop never waits without a timer, on any ring of devices.
THEOREM TimerAlwaysArmed == Spec => []NeverWaitsUnarmed
<1>1. ArpInv => NeverWaitsUnarmed
  BY Zenon DEF ArpInv
<1>. QED  BY <1>1, ArpCorrect, PTL

\* No device but the current one is ever running.
THEOREM OneDeviceRuns == Spec => []OnlyCurrentRuns
<1>1. ArpInv => OnlyCurrentRuns
  BY Zenon DEF ArpInv
<1>. QED  BY <1>1, ArpCorrect, PTL

\* netretry bounds the attempts of a command, for every value of it.
THEOREM RetriesBounded == Spec => []AttemptsBounded
<1>1. ArpInv => AttemptsBounded
  <2>1. ArpInv => attempt \in Nat /\ NetTryCount \in Nat
    BY NetLoopAssumption DEF ArpInv, TypeOK, LoopTypeOK
  <2>. QED  BY <2>1, NetLoopAssumption DEF ArpInv, TryCountInv, AttemptsBounded
<1>. QED  BY <1>1, ArpCorrect, PTL

=============================================================================
