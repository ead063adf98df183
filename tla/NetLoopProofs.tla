--------------------------- MODULE NetLoopProofs ---------------------------
(***************************************************************************)
(* What the proofs about Tftp, NetArp and NetBoot use of the network loop: *)
(* where the ring of devices leads, and what starting again leaves behind. *)
(***************************************************************************)
EXTENDS NetLoop, TLAPS

USE DEF LoopPhases, TimerDue

\* The device ring is closed under its successor (eth_devices is a ring).
LEMMA RingType == ASSUME NEW c \in Devices, NEW k \in Nat
                  PROVE  RingStep(c, k) \in Devices
  BY NetLoopAssumption DEF RingStep, Devices

\* eth_init() ends on a device of the ring.
LEMMA EthInitType ==
  ASSUME NEW c \in Devices, NEW ff, NEW w \in {0, 1},
         NEW r \in eth_init(c, ff, w)
  PROVE  r.cur \in Devices /\ r.ok \in BOOLEAN /\ r.wrap \in {0, 1}
<1>1. CASE r \in InitSucceeds(c, ff, w)
  <2>1. PICK k \in 0 .. (IF EthRotate THEN NumDevs - 1 ELSE 0) :
           r = [cur  |-> RingStep(c, k),
                wrap |-> IF PassesFirstFailed(c, k, ff) THEN 1 ELSE w,
                ok   |-> TRUE]
    BY <1>1, Zenon DEF InitSucceeds
  <2>2. k \in Nat
    BY NetLoopAssumption
  <2>. QED  BY <2>1, <2>2, RingType, Zenon DEF PassesFirstFailed
<1>2. CASE r \in InitFails(c, ff, w)
  <2>1. r = [cur  |-> c,
             wrap |-> IF EthRotate /\ PassesFirstFailed(c, NumDevs, ff) THEN 1 ELSE w,
             ok   |-> FALSE]
    BY <1>2, Zenon DEF InitFails
  <2>. QED  BY <2>1, Zenon DEF PassesFirstFailed
<1>. QED  BY <1>1, <1>2, Zenon DEF eth_init

\* The statically initialised variables of the loop have their types.
LEMMA LoopInitType == ASSUME LoopInit PROVE LoopTypeOK
  BY NetLoopAssumption DEF LoopInit, LoopTypeOK, Phases, NetStates, TimeHandlers,
      PacketHandlers, Results, Devices

\* Entering NetLoop(): it comes to the label restart: with a device that was
\* initialised and is the only one that runs, or returns.
LEMMA EnterLoop ==
  ASSUME LoopTypeOK, Enter
  PROVE  /\ LoopTypeOK'
         /\ \/ phase' = "restart" /\ NetState' = "CONTINUE" /\ result' = "none"
            \/ phase' = "idle" /\ result' = "fail"
         /\ NetTryCount' = 1
         /\ active \subseteq {eth_current} => active' \subseteq {eth_current'}
         /\ UNCHANGED <<timeHandler, packetHandler>>
<1>1. PICK d \in Devices : \E r \in eth_init(d, first_failed, NetRestartWrap) :
       /\ eth_current' = r.cur
       /\ NetRestartWrap' = r.wrap
       /\ active' = IF r.ok THEN eth_halt \cup {r.cur} ELSE eth_halt \ {r.cur}
       /\ IF r.ok
            THEN /\ phase' = "restart"
                 /\ NetState' = "CONTINUE"
                 /\ result' = "none"
            ELSE /\ result' = "fail"
                 /\ UNCHANGED <<phase, NetState>>
  BY Zenon DEF Enter
<1>2. PICK r \in eth_init(d, first_failed, NetRestartWrap) :
       /\ eth_current' = r.cur
       /\ NetRestartWrap' = r.wrap
       /\ active' = IF r.ok THEN eth_halt \cup {r.cur} ELSE eth_halt \ {r.cur}
       /\ IF r.ok
            THEN /\ phase' = "restart"
                 /\ NetState' = "CONTINUE"
                 /\ result' = "none"
            ELSE /\ result' = "fail"
                 /\ UNCHANGED <<phase, NetState>>
  BY <1>1, Zenon
<1>3. r.cur \in Devices /\ r.ok \in BOOLEAN /\ r.wrap \in {0, 1}
  BY EthInitType, Zenon DEF LoopTypeOK
<1>4. /\ active' \subseteq Devices
      /\ active \subseteq {eth_current} => active' \subseteq {eth_current'}
  BY <1>2, <1>3, Zenon DEF LoopTypeOK, eth_halt
<1>5. /\ phase' \in Phases /\ NetState' \in NetStates /\ result' \in Results
      /\ \/ phase' = "restart" /\ NetState' = "CONTINUE" /\ result' = "none"
         \/ phase' = "idle" /\ result' = "fail"
  BY <1>2, <1>3, Zenon DEF LoopTypeOK, Phases, NetStates, Results, Enter
<1>6. LoopTypeOK'
  BY <1>2, <1>3, <1>4, <1>5, NetLoopAssumption DEF LoopTypeOK, Enter
<1>. QED  BY <1>4, <1>5, <1>6, Zenon DEF Enter

\* NetStartAgain() keeps the types of what it changes.
LEMMA StartAgainType ==
  ASSUME LoopTypeOK, NEW t \in TimeHandlers, NetStartAgain(t)
  PROVE  /\ NetState' \in {NetState, "FAIL", "RESTART"}
         /\ NetTryCount' \in 1 .. MaxTry
         /\ NetRestartWrap' \in {0, 1}
         /\ eth_current' \in Devices
         /\ first_failed' \in Devices \cup {NoDev}
         /\ active' \subseteq Devices
         /\ timeHandler' \in TimeHandlers
         /\ packetHandler' \in {packetHandler, "startAgainHandler"}
<1>1. CASE GiveUp
  BY <1>1, Zenon DEF NetStartAgain, LoopTypeOK, eth_halt
<1>2. CASE ~GiveUp
  <2> DEFINE next == IF EthRotate THEN RingStep(eth_current, 1) ELSE eth_current
             wrap == IF EthRotate /\ next = first_failed' THEN 1 ELSE NetRestartWrap
  <2>1. next \in Devices
    BY RingType, Zenon DEF LoopTypeOK
  <2>2. wrap \in {0, 1}
    BY Zenon DEF LoopTypeOK
  <2>3. PICK r \in eth_init(next, first_failed', wrap) :
             /\ eth_current' = r.cur
             /\ active' = eth_halt \cup (IF r.ok THEN {r.cur} ELSE {})
             /\ NetRestartWrap' = 0
             /\ \/ /\ timeHandler' = "startAgainTimeout"
                   /\ packetHandler' = "startAgainHandler"
                   /\ UNCHANGED NetState
                \/ /\ NetState' = "FAIL"
                   /\ timeHandler' = t
                   /\ UNCHANGED packetHandler
                \/ /\ NetState' = "RESTART"
                   /\ timeHandler' = t
                   /\ UNCHANGED packetHandler
    BY <1>2, Zenon DEF NetStartAgain
  <2>4. r.cur \in Devices
    BY <2>1, <2>2, <2>3, EthInitType, Zenon
  <2>5. NetTryCount' \in 1 .. MaxTry
    BY <1>2, NetLoopAssumption DEF NetStartAgain, LoopTypeOK
  <2>6. first_failed' \in Devices \cup {NoDev}
    BY <1>2, Zenon DEF NetStartAgain, LoopTypeOK
  <2>7. active' \subseteq Devices
    BY <2>3, <2>4, Zenon DEF eth_halt, LoopTypeOK
  <2>. QED  BY <2>3, <2>4, <2>5, <2>6, <2>7, Zenon DEF TimeHandlers
<1>. QED  BY <1>1, <1>2, Zenon

\* Starting again from a handler, from the timer or for ARP keeps the loop well typed;
\* the batch of frames goes on only when no restart is due.
LEMMA StartAgainLoop ==
  ASSUME LoopTypeOK, phase \in {"rx", "poll", "timer"},
         phase \in {"poll", "timer"} => NetState # "CONTINUE",
         StartAgainFromRx \/ StartAgainFromTimer \/ StartAgainFromArp
  PROVE  /\ LoopTypeOK'
         /\ NetState' \in {NetState, "FAIL", "RESTART"}
         /\ phase' \in LoopPhases
         /\ phase' \in {"poll", "timer", "switch"} => NetState' # "CONTINUE"
         /\ packetHandler' \in {packetHandler, "startAgainHandler"}
         /\ UNCHANGED <<NetDevExists, result>>
<1>1. PICK t \in TimeHandlers : NetStartAgain(t)
  BY Zenon DEF StartAgainFromRx, StartAgainFromTimer, StartAgainFromArp, LoopTypeOK, TimeHandlers
<1>2. /\ phase' \in LoopPhases
      /\ phase' \in {"poll", "timer", "switch"} => NetState' # "CONTINUE"
      /\ UNCHANGED <<NetRestarted, NetDevExists, result>>
  BY Zenon DEF StartAgainFromRx, StartAgainFromTimer, StartAgainFromArp
<1>. QED
  BY <1>1, <1>2, StartAgainType, Zenon DEF LoopTypeOK, Phases, NetStates, PacketHandlers

\* What starting again leaves behind: the loop gives up, restarts, or waits with
\* a timer of its own; it counts the attempt unless it gives up, and a bounded
\* netretry is never exceeded.  Only the current device is running.
LEMMA StartAgainOutcome ==
  ASSUME LoopTypeOK, NEW t \in TimeHandlers, NetStartAgain(t)
  PROVE  /\ \/ NetState' \in {"FAIL", "RESTART"}
            \/ /\ NetState' = NetState
               /\ timeHandler' = "startAgainTimeout"
               /\ packetHandler' = "startAgainHandler"
         /\ \/ /\ NetTryCount' = NetTryCount + 1
               /\ ~RetryForever => NetTryCount' <= RetryCnt
            \/ /\ NetTryCount' = NetTryCount
               /\ NetState' = "FAIL"
               /\ timeHandler' = t
         /\ active \subseteq {eth_current} => active' \subseteq {eth_current'}
<1>1. CASE GiveUp
  BY <1>1, Zenon DEF NetStartAgain, eth_halt
<1>2. CASE ~GiveUp
  <2> DEFINE next == IF EthRotate THEN RingStep(eth_current, 1) ELSE eth_current
             wrap == IF EthRotate /\ next = first_failed' THEN 1 ELSE NetRestartWrap
  <2>1. PICK r \in eth_init(next, first_failed', wrap) :
             /\ eth_current' = r.cur
             /\ active' = eth_halt \cup (IF r.ok THEN {r.cur} ELSE {})
             /\ \/ /\ timeHandler' = "startAgainTimeout"
                   /\ packetHandler' = "startAgainHandler"
                   /\ UNCHANGED NetState
                \/ NetState' = "FAIL"
                \/ NetState' = "RESTART"
    BY <1>2, Zenon DEF NetStartAgain
  <2>2. active \subseteq {eth_current} => active' \subseteq {eth_current'}
    BY <2>1, Zenon DEF eth_halt
  <2>3. NetTryCount' = NetTryCount + 1
    BY <1>2, Zenon DEF NetStartAgain
  <2>4. ~RetryForever => NetTryCount' <= RetryCnt
    BY <1>2, <2>3, NetLoopAssumption DEF GiveUp, LoopTypeOK
  <2>. QED  BY <2>1, <2>2, <2>3, <2>4, Zenon
<1>. QED  BY <1>1, <1>2, Zenon

\* The timer that starting again leaves is the caller's or that of the wait; as
\* long as the loop knows of a device with an address, the handler of the
\* protocol stays installed on another device only for a restart.
LEMMA StartAgainHandlers ==
  ASSUME NEW t, NetStartAgain(t)
  PROVE  /\ timeHandler' \in {t, "startAgainTimeout"}
         /\ NetDevExists = 1 => \/ eth_current' = eth_current
                               \/ NetState' = "RESTART"
                               \/ packetHandler' = "startAgainHandler"
<1>1. CASE GiveUp
  BY <1>1, Zenon DEF NetStartAgain
<1>2. CASE ~GiveUp
  <2> DEFINE next == IF EthRotate THEN RingStep(eth_current, 1) ELSE eth_current
             wrap == IF EthRotate /\ next = first_failed' THEN 1 ELSE NetRestartWrap
  <2>1. PICK r \in eth_init(next, first_failed', wrap) :
             \/ /\ timeHandler' = "startAgainTimeout"
                /\ packetHandler' = "startAgainHandler"
             \/ NetDevExists = 0 /\ timeHandler' = t
             \/ NetState' = "RESTART" /\ timeHandler' = t
    BY <1>2, Zenon DEF NetStartAgain
  <2>. QED  BY <2>1
<1>. QED  BY <1>1, <1>2, Zenon

=============================================================================
