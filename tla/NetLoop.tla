------------------------------ MODULE NetLoop ------------------------------
(***************************************************************************)
(* The network main loop of U-Boot: NetLoop(), NetStartAgain() and the     *)
(* "start again" handlers of net/net.c, with the device ring of net/eth.c  *)
(* (eth_init, eth_halt, eth_try_another).  Modules Tftp, NetArp and Nfs    *)
(* extend this module and supply what happens when a packet arrives or the *)
(* protocol's own timer runs out.                                          *)
(*                                                                         *)
(* phase says where NetLoop() stands:                                      *)
(*   "idle"     no network command is running                              *)
(*   "restart"  at the label restart:, NetState already CONTINUE           *)
(*   "rx"       in the receive loop; eth_rx() hands up any number of       *)
(*              frames before the rest of the loop body is reached         *)
(*   "poll"     eth_rx() is over: a handler reinitialised the device, so   *)
(*              its ring is empty; ctrl-C, ARP and the timer are polled    *)
(*   "timer"    ArpTimeoutCheck() has left CONTINUE: the timer is polled,  *)
(*              then comes the switch                                      *)
(*   "switch"   a timer handler has left CONTINUE: the switch is next      *)
(***************************************************************************)
EXTENDS Naturals

CONSTANTS
  NumDevs,        \* length of the ring eth_devices
  HasEther,       \* the devices with a MAC address
  MayFail,        \* the devices whose init() may fail
  EthRotate,      \* FALSE iff the variable ethrotate is "no"
  RetryForever,   \* netretry is unset or "yes"
  RetryCnt,       \* otherwise: 0 for "no", 1 for "once", or its number
  MaxTry          \* bound of the model on NetTryCount

Devices == 0 .. NumDevs - 1
NoDev == NumDevs       \* the NULL that first_failed starts with

ASSUME NetLoopAssumption ==
  /\ NumDevs \in Nat \ {0}
  /\ HasEther \subseteq Devices
  /\ MayFail \subseteq Devices
  /\ EthRotate \in BOOLEAN
  /\ RetryForever \in BOOLEAN
  /\ RetryCnt \in Nat
  /\ MaxTry \in Nat \ {0}

VARIABLES
  phase,          \* where NetLoop() stands
  NetState,       \* what the handlers asked the loop to do
  NetTryCount,    \* counts NetStartAgain() calls, from 1
  NetRestarted,   \* the loop went through restart: again
  NetRestartWrap, \* the ring came round to first_failed
  NetDevExists,   \* some device had a MAC address
  eth_current,    \* the device in use
  first_failed,   \* the device of the first restart; kept between commands
  active,         \* the devices in ETH_STATE_ACTIVE
  timeHandler,    \* the armed timer handler
  packetHandler,  \* who gets received packets
  result          \* how the last network command ended

ethVars == <<eth_current, first_failed, NetRestartWrap, active>>
handlerVars == <<timeHandler, packetHandler>>
loopVars == <<phase, NetState, NetTryCount, NetRestarted, NetRestartWrap,
              NetDevExists, eth_current, first_failed, active, timeHandler,
              packetHandler, result>>

LoopPhases == {"rx", "poll", "timer", "switch"}
Phases == {"idle", "restart"} \cup LoopPhases
NetStates == {"CONTINUE", "RESTART", "SUCCESS", "FAIL"}
TimeHandlers == {"none", "protocol", "startAgainTimeout"}
PacketHandlers == {"none", "protocol", "startAgainHandler"}
Results == {"none", "ok", "fail", "abort"}

LoopTypeOK ==
  /\ phase \in Phases
  /\ NetState \in NetStates
  /\ NetTryCount \in 1 .. MaxTry
  /\ NetRestarted \in {0, 1}
  /\ NetRestartWrap \in {0, 1}
  /\ NetDevExists \in {0, 1}
  /\ eth_current \in Devices
  /\ first_failed \in Devices \cup {NoDev}
  /\ active \subseteq Devices
  /\ timeHandler \in TimeHandlers
  /\ packetHandler \in PacketHandlers
  /\ result \in Results

LoopInit ==
  /\ phase = "idle"
  /\ NetState = "CONTINUE"
  /\ NetTryCount = 1
  /\ NetRestarted = 0
  /\ NetRestartWrap = 0
  /\ NetDevExists = 0
  /\ eth_current = 0
  /\ first_failed = NoDev
  /\ active = {}
  /\ timeHandler = "none"
  /\ packetHandler = "none"
  /\ result = "none"

---------------------------------------------------------------------------
(***************************************************************************)
(* eth_init() tries the devices from cur on until one initialises.  Each   *)
(* failure goes through eth_try_another(0), which moves on and raises      *)
(* NetRestartWrap when it comes to first_failed; with ethrotate=no it      *)
(* stays, so the loop ends after one failure.                              *)
(***************************************************************************)
\* Mutant: the last device is not linked to the first.
RingStepOpen(cur, k) == cur + k

RingStep(cur, k) == (cur + k) % NumDevs

PassesFirstFailed(cur, k, ff) ==
  \E j \in 1 .. k : RingStep(cur, j) = ff

InitSucceeds(cur, ff, wrap) ==
  {[cur  |-> RingStep(cur, k),
    wrap |-> IF PassesFirstFailed(cur, k, ff) THEN 1 ELSE wrap,
    ok   |-> TRUE] :
     k \in {n \in 0 .. (IF EthRotate THEN NumDevs - 1 ELSE 0) :
              \A j \in 0 .. n : j < n => RingStep(cur, j) \in MayFail}}

InitFails(cur, ff, wrap) ==
  IF (IF EthRotate THEN Devices \subseteq MayFail ELSE cur \in MayFail)
    THEN {[cur  |-> cur,
           wrap |-> IF EthRotate /\ PassesFirstFailed(cur, NumDevs, ff) THEN 1 ELSE wrap,
           ok   |-> FALSE]}
    ELSE {}

eth_init(cur, ff, wrap) == InitSucceeds(cur, ff, wrap) \cup InitFails(cur, ff, wrap)

\* Mutant: the state stays ETH_STATE_ACTIVE.
eth_halt_forgets == active

\* eth_halt(): only the current device is stopped.
eth_halt == active \ {eth_current}

(***************************************************************************)
(* NetStartAgain().  It either gives up, or halts the device, moves on in  *)
(* the ring, and either restarts at once or, when every device was tried,  *)
(* waits ten seconds with a handler that ignores all packets.  NetState    *)
(* is left alone by the wait: whatever the handlers of the same batch of   *)
(* frames asked for before still stands.                                   *)
(***************************************************************************)
\* Mutant: one attempt too many.
GiveUpLate == ~RetryForever /\ NetTryCount > RetryCnt

GiveUp == ~RetryForever /\ NetTryCount >= RetryCnt

NetStartAgain(timer) ==   \* timer: what timeHandler holds at the call
  \/ /\ GiveUp
     /\ NetState' = "FAIL"
     /\ active' = eth_halt
     /\ timeHandler' = timer
     /\ UNCHANGED <<NetTryCount, NetRestartWrap, eth_current, first_failed,
                    packetHandler>>
  \/ /\ ~GiveUp
     /\ NetTryCount < MaxTry
     /\ NetTryCount' = NetTryCount + 1
     /\ first_failed' = IF EthRotate /\ NetRestarted = 0 THEN eth_current
                                                      ELSE first_failed
     /\ LET next == IF EthRotate THEN RingStep(eth_current, 1) ELSE eth_current
            wrap == IF EthRotate /\ next = first_failed' THEN 1 ELSE NetRestartWrap
        IN \E r \in eth_init(next, first_failed', wrap) :
             /\ eth_current' = r.cur
             /\ active' = eth_halt \cup (IF r.ok THEN {r.cur} ELSE {})
             /\ NetRestartWrap' = 0
             /\ \/ /\ r.wrap = 1
                   /\ NetDevExists = 1
                   /\ timeHandler' = "startAgainTimeout"
                   /\ packetHandler' = "startAgainHandler"
                   /\ UNCHANGED NetState
                \/ /\ r.wrap = 1
                   /\ NetDevExists = 0
                   /\ NetState' = "FAIL"
                   /\ timeHandler' = timer
                   /\ UNCHANGED packetHandler
                \/ /\ r.wrap = 0
                   /\ NetState' = "RESTART"
                   /\ timeHandler' = timer
                   /\ UNCHANGED packetHandler

\* Called by a packet handler, inside eth_rx(): the reinitialised device has
\* an empty receive ring, which ends the batch unless packets are ignored.
StartAgainFromRx ==
  /\ NetStartAgain(timeHandler)
  /\ phase' = IF NetState' = "RESTART" THEN "poll" ELSE "rx"
  /\ UNCHANGED <<NetRestarted, NetDevExists, result>>

\* Called by ArpTimeoutCheck() when the address of the server stays unknown.
StartAgainFromArp ==
  /\ phase \in {"rx", "poll"}
  /\ NetStartAgain(timeHandler)
  /\ phase' = IF NetState' = "CONTINUE" THEN "rx" ELSE "timer"
  /\ UNCHANGED <<NetRestarted, NetDevExists, result>>

\* The timer is polled once in every turn of the loop.
TimerDue(handler) == phase \in {"rx", "poll", "timer"} /\ timeHandler = handler

\* Called by the timer handler, which the loop has disarmed before.
StartAgainFromTimer ==
  /\ NetStartAgain("none")
  /\ phase' = IF NetState' = "CONTINUE" THEN "rx" ELSE "switch"
  /\ UNCHANGED <<NetRestarted, NetDevExists, result>>

---------------------------------------------------------------------------
(***************************************************************************)
(* The steps of NetLoop() itself.                                          *)
(***************************************************************************)

\* Entry, down to the label restart:.  eth_set_current() moves to the device
\* named by ethact, which the user may have set to any of them.
Enter ==
  /\ phase = "idle"
  /\ NetRestarted' = 0
  /\ NetDevExists' = 0
  /\ NetTryCount' = 1
  /\ \E d \in Devices : \E r \in eth_init(d, first_failed, NetRestartWrap) :
       /\ eth_current' = r.cur
       /\ NetRestartWrap' = r.wrap
       /\ active' = IF r.ok THEN eth_halt \cup {r.cur} ELSE eth_halt \ {r.cur}
       /\ IF r.ok
            THEN /\ phase' = "restart"
                 /\ NetState' = "CONTINUE"
                 /\ result' = "none"
            ELSE /\ result' = "fail"
                 /\ UNCHANGED <<phase, NetState>>
  /\ UNCHANGED <<first_failed, timeHandler, packetHandler>>

\* net_check_prereq() returns 1: no server or own address.  These come from
\* the environment, which no packet changes, so only the first pass fails.
NotConfigured ==
  /\ phase = "restart"
  /\ NetRestarted = 0
  /\ active' = eth_halt
  /\ phase' = "idle"
  /\ result' = "fail"
  /\ UNCHANGED <<NetState, NetTryCount, NetRestarted, NetRestartWrap,
                 NetDevExists, eth_current, first_failed, timeHandler,
                 packetHandler>>

\* net_check_prereq() returns 2: this device has no MAC address.
NoEtherAddr ==
  /\ phase = "restart"
  /\ eth_current \notin HasEther
  /\ NetStartAgain(timeHandler)
  /\ phase' = "rx"
  /\ UNCHANGED <<NetRestarted, NetDevExists, result>>

\* Mutant: the start function does not arm its timer.
StartProtocolUnarmed ==
  /\ phase = "restart"
  /\ eth_current \in HasEther
  /\ NetDevExists' = 1
  /\ packetHandler' = "protocol"
  /\ phase' = "rx"
  /\ UNCHANGED <<NetState, NetTryCount, NetRestarted, result, timeHandler>>
  /\ UNCHANGED ethVars

\* net_check_prereq() returns 0: the protocol is started.  The protocol's
\* start function arms its timer and handler.
StartProtocol ==
  /\ phase = "restart"
  /\ eth_current \in HasEther
  /\ NetDevExists' = 1
  /\ timeHandler' = "protocol"
  /\ packetHandler' = "protocol"
  /\ phase' = "rx"
  /\ UNCHANGED <<NetState, NetTryCount, NetRestarted, result>>
  /\ UNCHANGED ethVars

\* Ctrl-C is polled after eth_rx(), whatever NetState the packets left.
Abort ==
  /\ phase \in {"rx", "poll"}
  /\ active' = eth_halt
  /\ phase' = "idle"
  /\ result' = "abort"
  /\ UNCHANGED <<NetState, NetTryCount, NetRestarted, NetRestartWrap,
                 NetDevExists, eth_current, first_failed, timeHandler,
                 packetHandler>>

\* Mutant: the wait ends, but the loop is not told to restart.
StartAgainTimeoutForgets ==
  /\ TimerDue("startAgainTimeout")
  /\ timeHandler' = "none"
  /\ phase' = IF NetState = "CONTINUE" THEN "rx" ELSE "switch"
  /\ UNCHANGED <<NetState, NetTryCount, NetRestarted, NetDevExists, packetHandler,
                 result>>
  /\ UNCHANGED ethVars

\* The timer of the ten second wait: startAgainTimeout().
StartAgainTimeout ==
  /\ TimerDue("startAgainTimeout")
  /\ timeHandler' = "none"
  /\ NetState' = "RESTART"
  /\ phase' = "switch"
  /\ UNCHANGED <<NetTryCount, NetRestarted, NetDevExists, packetHandler, result>>
  /\ UNCHANGED ethVars

\* The switch at the bottom of the loop.
Restart ==
  /\ phase \in LoopPhases
  /\ NetState = "RESTART"
  /\ NetRestarted' = 1
  /\ NetState' = "CONTINUE"
  /\ phase' = "restart"
  /\ UNCHANGED <<NetTryCount, NetDevExists, result>>
  /\ UNCHANGED ethVars
  /\ UNCHANGED handlerVars

Succeed ==
  /\ phase \in LoopPhases
  /\ NetState = "SUCCESS"
  /\ active' = eth_halt
  /\ phase' = "idle"
  /\ result' = "ok"
  /\ UNCHANGED <<NetState, NetTryCount, NetRestarted, NetRestartWrap,
                 NetDevExists, eth_current, first_failed, timeHandler,
                 packetHandler>>

Fail ==
  /\ phase \in LoopPhases
  /\ NetState = "FAIL"
  /\ phase' = "idle"
  /\ result' = "fail"
  /\ UNCHANGED <<NetState, NetTryCount, NetRestarted, NetDevExists>>
  /\ UNCHANGED ethVars
  /\ UNCHANGED handlerVars

=============================================================================
