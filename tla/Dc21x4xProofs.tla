--------------------------- MODULE Dc21x4xProofs ---------------------------
(***************************************************************************)
(* The safety properties of the Ethernet driver for a ring of any length   *)
(* and any number of frames, packets and initialisations: DcInv is         *)
(* inductive, and with it the ring implements the queue of EthQueue.       *)
(***************************************************************************)
EXTENDS Dc21x4x, FiniteSetTheorems, TLAPS

\* The receive part of TypeOK, and what DcInv says of the frame being handled.
RxOK ==
  /\ rx \in {"idle", "loop", "handler"}
  /\ rx_ring \in [Rx -> RxStatus]
  /\ NetRxPackets \in [Rx -> 0 .. MaxFrames]
  /\ rx_new \in Rx /\ taken \in Rx /\ chip_rx \in Rx
  /\ passed \in 0 .. MaxFrames
  /\ held \in BOOLEAN
  /\ held => rx = "handler"
  /\ NotOverwritten

\* The transmit part of TypeOK, and what DcInv says of the packet being sent.
TxOK ==
  /\ tx \in {"none", "wait", "queued", "setup"}
  /\ tx_status \in {"own", "done", "es"}
  /\ tx_buf \in {"NetTxPacket", "setup_frame"}
  /\ NetTxPacket \in 0 .. MaxSends
  /\ sent \in {"none", "length", "error"}
  /\ filter \in {"none", "ours", "garbage"}
  /\ wire \in Seq(1 .. MaxSends)
  /\ TxInv
  /\ SentIfReported

\* The counters and modes.
ModeOK ==
  /\ arrived \in 0 .. MaxFrames
  /\ longs \in 0 .. MaxLong
  /\ inits \in 0 .. MaxInits
  /\ polled \in BOOLEAN
  /\ running \in BOOLEAN
  /\ inStep \in BOOLEAN

\* DcInv by its parts.
LEMMA DcInvParts == DcInv => RxOK /\ TxOK /\ ModeOK /\ RingInv /\ QueueInv
  BY Zenon DEF DcInv, TypeOK, RxOK, TxOK, ModeOK

\* The parts give DcInv back after a step.
LEMMA DcPartsInv == RxOK' /\ TxOK' /\ ModeOK' /\ RingInv' /\ QueueInv' => DcInv'
  BY Zenon DEF DcInv, TypeOK, RxOK, TxOK, ModeOK

\* The ring is closed under its successor.
LEMMA NextRxType == ASSUME NEW i \in Rx PROVE NextRx(i) \in Rx
  BY DcAssumption DEF NextRx, Rx

\* A packet that is put on the wire is the last one there.
LEMMA AppendLast ==
  ASSUME NEW n \in 1 .. MaxSends, wire \in Seq(1 .. MaxSends)
  PROVE  /\ Append(wire, n) \in Seq(1 .. MaxSends)
         /\ Len(Append(wire, n)) > 0
         /\ Append(wire, n)[Len(Append(wire, n))] = n
  OBVIOUS

\* The statically initialised variables satisfy the invariant.
LEMMA DcInit == ASSUME Init PROVE DcInv
<1>1. 0 \in Rx
  BY DcAssumption DEF Rx
<1>2. 0 \in 0 .. MaxFrames /\ 0 \in 0 .. MaxSends /\ 0 \in 0 .. MaxLong /\ 0 \in 0 .. MaxInits
  BY DcAssumption
<1>3. /\ rx_ring \in [Rx -> RxStatus]
      /\ NetRxPackets \in [Rx -> 0 .. MaxFrames]
      /\ wire \in Seq(1 .. MaxSends)
  BY <1>2 DEF Init, RxStatus
<1>4. TypeOK
  BY <1>1, <1>2, <1>3, Zenon DEF Init, TypeOK
<1>5. QueueInv
  <2>1. rx_ring = [i \in Rx |-> "part"] /\ chip_rx = 0 /\ rx = "idle"
    BY Zenon DEF Init
  <2>2. \A i \in Rx : rx_ring[i] = "part"
    BY <2>1, Zenon
  <2>. QED  BY <1>1, <2>1, <2>2 DEF QueueInv, InOrder
<1>. QED  BY <1>4, <1>5, Zenon DEF Init, DcInv, TxInv, SentIfReported, NotOverwritten, RingInv

---------------------------------------------------------------------------
(* The transmit side. *)

\* A step that leaves the transmit variables alone.
LEMMA TxKept == ASSUME TxOK, UNCHANGED txVars PROVE TxOK'
<1>1. UNCHANGED <<tx, tx_status, tx_buf, NetTxPacket, sent, filter, wire>>
  BY Zenon DEF txVars
<1>. QED  BY <1>1, Zenon DEF TxOK, TxInv, SentIfReported, OnWire

\* The steps of initialisation and of dc21x4x_send(): the length is returned
\* only for a descriptor the controller has given back without an error.
LEMMA TxDriver ==
  ASSUME TxOK, ModeOK,
         dc21x4x_init \/ SetupReturns \/ dc21x4x_send \/ SendTimeout \/ SendQueue \/ SendReturns
  PROVE  TxOK'
<1>1. CASE dc21x4x_init
  BY <1>1, Zenon DEF dc21x4x_init, TxOK, TxInv, SentIfReported, OnWire
<1>2. CASE SetupReturns
  BY <1>2, Zenon DEF SetupReturns, TxOK, TxInv, SentIfReported, OnWire
<1>3. CASE dc21x4x_send
  BY <1>3, DcAssumption DEF dc21x4x_send, TxOK, TxInv, SentIfReported, OnWire
<1>4. CASE SendTimeout
  BY <1>4, Zenon DEF SendTimeout, TxOK, TxInv, SentIfReported, OnWire
<1>5. CASE SendQueue
  BY <1>5, Zenon DEF SendQueue, TxOK, TxInv, SentIfReported, OnWire
<1>6. CASE SendReturns
  BY <1>6, Zenon DEF SendReturns, TxOK, TxInv, SentIfReported, OnWire
<1>. QED  BY <1>1, <1>2, <1>3, <1>4, <1>5, <1>6, Zenon

\* The controller transmits what is in the caller's buffer at that moment: at
\* the time of the wait that is the packet of this call.
LEMMA TxChip == ASSUME TxOK, ChipTransmit PROVE TxOK'
<1>1. CASE /\ tx_buf = "NetTxPacket" /\ tx_status = "own"
           /\ tx_status' = "done" /\ wire' = Append(wire, NetTxPacket)
           /\ UNCHANGED <<filter, tx, tx_buf, NetTxPacket, sent>>
  <2>1. NetTxPacket \in 1 .. MaxSends
    BY <1>1, DcAssumption DEF TxOK, TxInv
  <2>2. /\ wire' \in Seq(1 .. MaxSends)
        /\ OnWire'
    BY <1>1, <2>1, AppendLast, Zenon DEF TxOK, OnWire
  <2>. QED  BY <1>1, <2>2, Zenon DEF TxOK, TxInv, SentIfReported, OnWire
<1>2. CASE /\ tx_status' \in {"done", "es"}
           /\ tx_status' = "done" => tx_buf = "setup_frame"
           /\ filter' \in {filter, "ours", "garbage"}
           /\ UNCHANGED <<wire, tx, tx_buf, NetTxPacket, sent>>
  BY <1>2, Zenon DEF TxOK, TxInv, SentIfReported, OnWire
<1>. QED  BY <1>1, <1>2, Zenon DEF ChipTransmit

---------------------------------------------------------------------------
(* The receive side. *)

\* A step that leaves the receive variables alone.
LEMMA RxKept == ASSUME RxOK, UNCHANGED rxVars PROVE RxOK'
<1>1. UNCHANGED <<rx, rx_ring, NetRxPackets, rx_new, taken, chip_rx, passed, held>>
  BY Zenon DEF rxVars
<1>. QED  BY <1>1, Zenon DEF RxOK, NotOverwritten

\* Initialisation takes every buffer, and with it the frame being handled.
LEMMA RxInit == ASSUME RxOK, dc21x4x_init PROVE RxOK'
<1>1. 0 \in Rx
  BY DcAssumption DEF Rx
<1>2. /\ rx_ring' = [i \in Rx |-> "own"]
      /\ rx_new' = 0 /\ chip_rx' = 0 /\ held' = FALSE
      /\ UNCHANGED <<rx, NetRxPackets, taken, passed>>
  BY Zenon DEF dc21x4x_init
<1>3. rx_ring' \in [Rx -> RxStatus]
  BY <1>2, Zenon DEF RxStatus
<1>. QED  BY <1>1, <1>2, <1>3, Zenon DEF RxOK, NotOverwritten

\* The steps of dc21x4x_recv(): the buffer goes back when the frame in it is
\* done with, and not before.
LEMMA RxDriver == ASSUME RxOK, dc21x4x_recv \/ Recv PROVE RxOK'
<1>1. NextRx(rx_new) \in Rx
  BY NextRxType, Zenon DEF RxOK
<1>2. [rx_ring EXCEPT ![rx_new] = "own"] \in [Rx -> RxStatus]
  BY Zenon DEF RxOK, RxStatus
<1>3. CASE dc21x4x_recv
  BY <1>3, Zenon DEF dc21x4x_recv, RxOK, NotOverwritten
<1>4. CASE RecvReturns
  BY <1>4, Zenon DEF RecvReturns, RxOK, NotOverwritten
<1>5. CASE RecvSkip
  BY <1>1, <1>5, Zenon DEF RecvSkip, RxOK, NotOverwritten
<1>6. CASE RecvError
  BY <1>1, <1>2, <1>6, Zenon DEF RecvError, RxOK, NotOverwritten
<1>7. CASE RecvFrame
  BY <1>7, Zenon DEF RecvFrame, RxOK, NotOverwritten
<1>8. CASE RecvHanded
  BY <1>1, <1>2, <1>8, Zenon DEF RecvHanded, RxOK, NotOverwritten
<1>. QED  BY <1>3, <1>4, <1>5, <1>6, <1>7, <1>8, Zenon DEF Recv

\* The controller stores only into descriptors it owns, and the frame that
\* NetReceive() handles is in one it does not own.
LEMMA RxChip ==
  ASSUME RxOK, ModeOK, ChipReceive \/ ChipReceiveLong
  PROVE  RxOK'
<1>1. arrived' \in 0 .. MaxFrames
  BY DcAssumption DEF ModeOK, ChipReceive, ChipReceiveLong
<1>2. UNCHANGED <<rx, rx_new, taken, passed, held>>
  BY Zenon DEF ChipReceive, ChipReceiveLong
<1>3. NextRx(chip_rx) \in Rx /\ NextRx(NextRx(chip_rx)) \in Rx
  BY NextRxType, Zenon DEF RxOK
<1>4. CASE UNCHANGED <<rx_ring, NetRxPackets, chip_rx>>
  BY <1>2, <1>4, Zenon DEF RxOK, NotOverwritten
<1>5. ASSUME NEW s \in {"ok", "es"}, rx_ring[chip_rx] = "own", Store(chip_rx, s)
      PROVE  RxOK'
  <2>1. /\ rx_ring' = [rx_ring EXCEPT ![chip_rx] = s]
        /\ NetRxPackets' = [NetRxPackets EXCEPT ![chip_rx] = arrived']
        /\ chip_rx' = NextRx(chip_rx)
    BY <1>5, Zenon DEF Store
  <2>2. rx_ring' \in [Rx -> RxStatus] /\ NetRxPackets' \in [Rx -> 0 .. MaxFrames]
    BY <1>1, <2>1, Zenon DEF RxOK, RxStatus
  <2>3. NotOverwritten'
    BY <1>2, <1>5, <2>1, Zenon DEF RxOK, NotOverwritten
  <2>. QED  BY <1>2, <1>3, <2>1, <2>2, <2>3, Zenon DEF RxOK
<1>6. CASE ChipReceiveLong
  <2>1. /\ rx_ring[chip_rx] = "own" /\ rx_ring[NextRx(chip_rx)] = "own"
        /\ rx_ring' = [rx_ring EXCEPT ![chip_rx] = "part", ![NextRx(chip_rx)] = "ok"]
        /\ NetRxPackets' = [NetRxPackets EXCEPT ![NextRx(chip_rx)] = arrived']
        /\ chip_rx' = NextRx(NextRx(chip_rx))
    BY <1>6, Zenon DEF ChipReceiveLong
  <2>2. rx_ring' \in [Rx -> RxStatus] /\ NetRxPackets' \in [Rx -> 0 .. MaxFrames]
    BY <1>1, <1>3, <2>1, Zenon DEF RxOK, RxStatus
  <2>3. NotOverwritten'
    BY <1>2, <1>3, <2>1, Zenon DEF RxOK, NotOverwritten
  <2>. QED  BY <1>2, <1>3, <2>1, <2>2, <2>3, Zenon DEF RxOK
<1>. QED  BY <1>4, <1>5, <1>6, Zenon DEF ChipReceive

---------------------------------------------------------------------------
(* The ring. *)

Shape == InStep \/ Full \/ Ahead \/ LeftBehind

\* The successor in the ring without the remainder.
LEMMA NextRxIs ==
  ASSUME NEW i \in Rx
  PROVE  NextRx(i) = IF i = NumRx - 1 THEN 0 ELSE i + 1
  BY DcAssumption DEF NextRx, Rx

\* The driver gives the descriptor at rx_new back and goes on: the descriptors
\* that are not the controller's stay as RingInv has them.
LEMMA GiveBack ==
  ASSUME RxOK, Shape, rx_ring[rx_new] # "own",
         rx_ring' = [rx_ring EXCEPT ![rx_new] = "own"],
         rx_new' = NextRx(rx_new), chip_rx' = chip_rx
  PROVE  Shape'
<1>1. /\ rx_new \in Rx /\ chip_rx \in Rx
      /\ rx_new' = IF rx_new = NumRx - 1 THEN 0 ELSE rx_new + 1
  BY NextRxIs, Zenon DEF RxOK
<1>2. \A i \in Rx : rx_ring'[i] = IF i = rx_new THEN "own" ELSE rx_ring[i]
  BY Zenon DEF RxOK
<1>3. CASE InStep
  <2>1. rx_new # chip_rx
    BY <1>1, <1>3 DEF InStep, From, Rx
  <2>2. \A i \in Rx : From(rx_new', i, chip_rx) <=> From(rx_new, i, chip_rx) /\ i # rx_new
    BY <1>1, <2>1, DcAssumption DEF From, Rx
  <2>. QED  BY <1>2, <1>3, <2>2, Zenon DEF InStep, Shape
<1>4. CASE Full
  <2>1. \A i \in Rx : From(rx_new', i, chip_rx) <=> i # rx_new
    BY <1>1, <1>4, DcAssumption DEF From, Rx, Full
  <2>. QED  BY <1>2, <1>4, <2>1, Zenon DEF InStep, Full, Shape
<1>5. CASE LeftBehind /\ rx_new = 0
  <2>1. chip_rx = 0 /\ rx_new' = 1
    BY <1>1, <1>5, DcAssumption DEF LeftBehind, Rx
  <2>2. \A i \in Rx : rx_ring'[i] = "own"
    BY <1>2, <1>5, Zenon DEF LeftBehind
  <2>. QED  BY <2>1, <2>2, Zenon DEF Ahead, Shape
<1>6. CASE LeftBehind /\ rx_new # 0
  <2>1. chip_rx # 0 => rx_new < chip_rx
    BY <1>1, <1>6, Zenon DEF LeftBehind
  <2>2. chip_rx # 0 => rx_new' \in 1 .. chip_rx
    BY <1>1, <2>1 DEF Rx
  <2>3. ASSUME NEW i \in Rx
        PROVE  rx_ring'[i] # "own" <=>
                 \/ i = 0
                 \/ rx_new' # 0 /\ rx_new' <= i /\ (chip_rx # 0 => i < chip_rx)
    BY <1>1, <1>2, <1>6, <2>1, DcAssumption DEF LeftBehind, Rx
  <2>. QED  BY <2>2, <2>3, Zenon DEF LeftBehind, Shape
<1>7. ~Ahead
  BY <1>1, Zenon DEF Ahead
<1>. QED  BY <1>3, <1>4, <1>5, <1>6, <1>7, Zenon DEF Shape

\* The controller fills the descriptor it is at and goes on.
LEMMA FillNext ==
  ASSUME RxOK, Shape, rx_ring[chip_rx] = "own", NEW s, s # "own",
         rx_ring' = [rx_ring EXCEPT ![chip_rx] = s],
         chip_rx' = NextRx(chip_rx), rx_new' = rx_new
  PROVE  Shape'
<1>1. /\ rx_new \in Rx /\ chip_rx \in Rx
      /\ chip_rx' = IF chip_rx = NumRx - 1 THEN 0 ELSE chip_rx + 1
  BY NextRxIs, Zenon DEF RxOK
<1>2. \A i \in Rx : rx_ring'[i] = IF i = chip_rx THEN s ELSE rx_ring[i]
  BY Zenon DEF RxOK
<1>3. CASE InStep /\ chip_rx' = rx_new
  <2>1. \A i \in Rx : i = chip_rx \/ From(rx_new, i, chip_rx)
    BY <1>1, <1>3, DcAssumption DEF From, Rx
  <2>2. \A i \in Rx : rx_ring'[i] # "own"
    BY <1>2, <1>3, <2>1, Zenon DEF InStep
  <2>. QED  BY <1>3, <2>2, Zenon DEF Full, Shape
<1>4. CASE InStep /\ chip_rx' # rx_new
  <2>1. \A i \in Rx : From(rx_new, i, chip_rx') <=> i = chip_rx \/ From(rx_new, i, chip_rx)
    BY <1>1, <1>4, DcAssumption DEF From, Rx
  <2>. QED  BY <1>2, <1>4, <2>1, Zenon DEF InStep, Shape
<1>5. CASE Ahead
  <2>1. chip_rx' = 1 /\ rx_new' = 1
    BY <1>1, <1>5, DcAssumption DEF Ahead
  <2>2. ASSUME NEW i \in Rx
        PROVE  rx_ring'[i] # "own" <=> i = 0
    BY <1>2, <1>5, Zenon DEF Ahead
  <2>. QED  BY <2>1, <2>2 DEF LeftBehind, Shape, Rx
<1>6. CASE LeftBehind
  <2>1. chip_rx # 0 /\ rx_new \in 1 .. chip_rx
    BY <1>1, <1>6, Zenon DEF LeftBehind
  <2>2. chip_rx' # 0 => rx_new \in 1 .. chip_rx'
    BY <1>1, <2>1 DEF Rx
  <2>3. ASSUME NEW i \in Rx
        PROVE  rx_ring'[i] # "own" <=>
                 \/ i = 0
                 \/ rx_new # 0 /\ rx_new <= i /\ (chip_rx' # 0 => i < chip_rx')
    BY <1>1, <1>2, <1>6, <2>1, DcAssumption DEF LeftBehind, Rx
  <2>. QED  BY <2>2, <2>3, Zenon DEF LeftBehind, Shape
<1>7. ~Full
  BY <1>1, Zenon DEF Full
<1>. QED  BY <1>3, <1>4, <1>5, <1>6, <1>7, Zenon DEF Shape

\* A step of the driver's receive loop keeps the shape of the ring.
LEMMA RingDriver ==
  ASSUME RxOK, RingInv, dc21x4x_recv \/ Recv
  PROVE  RingInv'
<1>1. running' = running /\ longs' = longs /\ chip_rx' = chip_rx
  BY Zenon DEF dc21x4x_recv, Recv, RecvReturns, RecvSkip, RecvError, RecvFrame, RecvHanded,
         modeVars, counts
<1>2. CASE dc21x4x_recv \/ RecvReturns \/ RecvFrame
  <2>1. /\ UNCHANGED <<rx_ring, rx_new>>
        /\ \/ rx' \in {"idle", "loop"} /\ ~held'
           \/ held' /\ taken' = rx_new
    BY <1>2 DEF dc21x4x_recv, RecvReturns, RecvFrame, RxOK
  <2>. QED  BY <1>1, <2>1, Zenon DEF RingInv, InStep, Full, Ahead, LeftBehind
<1>3. CASE RecvSkip
  <2>1. ~(running /\ longs = 0) /\ rx' = "loop" /\ ~held'
    BY <1>3, Zenon DEF RecvSkip, RxOK, RingInv
  <2>. QED  BY <1>1, <2>1, Zenon DEF RingInv
<1>4. CASE RecvError \/ RecvHanded
  <2>1. /\ rx' = "loop" /\ ~held'
        /\ rx_ring' = [rx_ring EXCEPT ![rx_new] = "own"]
        /\ rx_new' = NextRx(rx_new)
    BY <1>4 DEF RecvError, RecvHanded, RxOK
  <2>2. ASSUME running, longs = 0
        PROVE  Shape' /\ \A i \in Rx : rx_ring'[i] # "part"
    <3>1. Shape /\ \A i \in Rx : rx_ring[i] # "part"
      BY <2>2, Zenon DEF RingInv, Shape
    <3>2. \A i \in Rx : rx_ring'[i] # "part"
      BY <2>1, <3>1, Zenon DEF RxOK
    <3>3. CASE rx_ring[rx_new] # "own"
      BY <1>1, <2>1, <3>1, <3>2, <3>3, GiveBack, Zenon
    <3>4. CASE rx_ring[rx_new] = "own"
      <4>1. RecvHanded /\ rx_new = 0 /\ 0 \in Rx
        BY <1>4, <3>4, DcAssumption, Zenon
           DEF RecvError, RecvHanded, RxOK, NotOverwritten, RingInv, Rx
      <4>2. InStep \/ Full
        BY <3>1, <3>4, <4>1 DEF Shape, Ahead, LeftBehind
      <4>3. chip_rx = 0
        BY <3>4, <4>1, <4>2, DcAssumption DEF InStep, Full, From, RxOK, Rx
      <4>4. \A i \in Rx : ~From(0, i, 0)
        BY DEF From, Rx
      <4>5. \A i \in Rx : rx_ring'[i] = "own"
        BY <2>1, <3>4, <4>1, <4>2, <4>3, <4>4, Zenon DEF InStep, Full, RxOK
      <4>6. rx_new' = 1
        BY <2>1, <4>1, NextRxIs, DcAssumption
      <4>. QED  BY <1>1, <3>2, <4>3, <4>5, <4>6, Zenon DEF Ahead, Shape
    <3>. QED  BY <3>3, <3>4, Zenon
  <2>. QED  BY <1>1, <2>1, <2>2, Zenon DEF RingInv, Shape
<1>. QED  BY <1>2, <1>3, <1>4, Zenon DEF Recv

\* Every step keeps the invariant of the ring.
LEMMA RingStep == ASSUME RxOK, ModeOK, RingInv, [Next]_vars PROVE RingInv'
<1>1. ASSUME UNCHANGED rxVars, longs' = longs, running' => running
      PROVE  RingInv'
  <2>1. UNCHANGED <<rx, rx_ring, rx_new, taken, chip_rx, held>>
    BY <1>1, Zenon DEF rxVars
  <2>. QED  BY <1>1, <2>1, Zenon DEF RingInv, InStep, Full, Ahead, LeftBehind
<1>2. CASE UNCHANGED vars
  BY <1>1, <1>2, Zenon DEF vars, counts, modeVars
<1>3. CASE dc21x4x_init
  <2>1. /\ rx_ring' = [i \in Rx |-> "own"] /\ rx_new' = 0 /\ chip_rx' = 0 /\ ~held'
    BY <1>3, Zenon DEF dc21x4x_init
  <2>2. \A i \in Rx : ~From(0, i, 0)
    BY DEF From, Rx
  <2>. QED  BY <2>1, <2>2, Zenon DEF RingInv, InStep
<1>4. CASE InitFails \/ dc21x4x_halt
  BY <1>1, <1>4, Zenon DEF InitFails, dc21x4x_halt, counts
<1>5. CASE SetupReturns \/ dc21x4x_send \/ SendTimeout \/ SendQueue \/ SendReturns \/ ChipTransmit
  BY <1>1, <1>5, Zenon DEF SetupReturns, dc21x4x_send, SendTimeout, SendQueue, SendReturns,
                    ChipTransmit, counts, modeVars
<1>6. CASE dc21x4x_recv \/ Recv
  BY <1>6, RingDriver, Zenon
<1>7. CASE ChipReceive
  <2>1. UNCHANGED <<rx, rx_new, taken, held, longs, running>>
    BY <1>7, Zenon DEF ChipReceive, modeVars
  <2>2. CASE UNCHANGED <<rx_ring, chip_rx>>
    BY <2>1, <2>2, Zenon DEF RingInv, InStep, Full, Ahead, LeftBehind
  <2>3. ASSUME NEW s \in {"ok", "es"}, rx_ring[chip_rx] = "own", Store(chip_rx, s)
        PROVE  RingInv'
    <3>1. rx_ring' = [rx_ring EXCEPT ![chip_rx] = s] /\ chip_rx' = NextRx(chip_rx)
      BY <2>3, Zenon DEF Store
    <3>2. Shape => Shape'
      BY <2>1, <2>3, <3>1, FillNext, Zenon
    <3>3. ASSUME \A i \in Rx : rx_ring[i] # "part"
          PROVE  \A i \in Rx : rx_ring'[i] # "part"
      BY <3>1, <3>3, Zenon DEF RxOK
    <3>. QED  BY <2>1, <3>2, <3>3, Zenon DEF RingInv, Shape
  <2>. QED  BY <1>7, <2>2, <2>3, Zenon DEF ChipReceive
<1>8. CASE ChipReceiveLong
  <2>1. UNCHANGED <<rx, rx_new, taken, held>> /\ longs' # 0
    BY <1>8 DEF ChipReceiveLong, ModeOK
  <2>. QED  BY <2>1, Zenon DEF RingInv
<1>. QED  BY <1>2, <1>3, <1>4, <1>5, <1>6, <1>7, <1>8, Zenon DEF Next

---------------------------------------------------------------------------
(* The frames in the ring. *)

\* The order of the ring: when its beginning or its end moves on.
LEMMA FromMoves ==
  ASSUME NEW a \in Rx, NEW i \in Rx, NEW c \in Rx
  PROVE  /\ From(a, a, c) <=> a # c
         /\ ~From(a, i, a)
         /\ From(NextRx(a), i, a) <=> i # a
         /\ c # a => (From(NextRx(a), i, c) <=> From(a, i, c) /\ i # a)
         /\ NextRx(c) # a => (From(a, i, NextRx(c)) <=> i = c \/ From(a, i, c))
         /\ NextRx(c) = a => i = c \/ From(a, i, c)
         /\ NextRx(c) # c
         /\ From(a, i, c) => ~From(a, c, i)
<1>1. /\ NextRx(a) = IF a = NumRx - 1 THEN 0 ELSE a + 1
      /\ NextRx(c) = IF c = NumRx - 1 THEN 0 ELSE c + 1
  BY NextRxIs, Zenon
<1>. QED  BY <1>1, DcAssumption DEF From, Rx

\* InOrder of a ring, the frames in it, and the places of driver and controller.
Ordered(ring, frame, new, chip) ==
  /\ \A i, j \in Rx :
       ring[i] = "ok" /\ ring[j] = "ok" /\ From(new, i, j) => frame[i] < frame[j]
  /\ \/ ring[chip] = "part"
     \/ new = chip /\ \A i \in Rx : ring[i] # "own"
     \/ \A i \in Rx : IF From(new, i, chip) THEN ring[i] # "own"
                                          ELSE ring[i] \in {"own", "part"}

\* The driver goes past a descriptor, which it gives back or which it skips.
LEMMA OrderedDriver ==
  ASSUME NEW ring \in [Rx -> RxStatus], NEW frame, NEW new \in Rx, NEW chip \in Rx,
         Ordered(ring, frame, new, chip),
         NEW s \in {"own", "part"}, ring[new] # "own", s = "own" => ring[new] # "part",
         s = "part" => ring[new] = "part"
  PROVE  Ordered([ring EXCEPT ![new] = s], frame, NextRx(new), chip)
<1>. DEFINE ring2 == [ring EXCEPT ![new] = s]
<1>1. ring2[new] = s /\ \A i \in Rx : i # new => ring2[i] = ring[i]
  OBVIOUS
<1>2. ASSUME NEW i \in Rx, NEW j \in Rx, ring2[i] = "ok", ring2[j] = "ok", From(NextRx(new), i, j)
      PROVE  frame[i] < frame[j]
  <2>1. i # new /\ j # new
    BY <1>1, <1>2, Zenon
  <2>2. ring[i] = "ok" /\ ring[j] = "ok"
    BY <1>1, <1>2, <2>1, Zenon
  <2>3. From(new, i, j)
    BY <1>2, <2>1, FromMoves, Zenon
  <2>. QED  BY <2>2, <2>3, Zenon DEF Ordered
<1>3. \/ ring2[chip] = "part"
      \/ NextRx(new) = chip /\ \A i \in Rx : ring2[i] # "own"
      \/ \A i \in Rx : IF From(NextRx(new), i, chip) THEN ring2[i] # "own"
                                                   ELSE ring2[i] \in {"own", "part"}
  <2>1. CASE ring[chip] = "part"
    BY <1>1, <2>1, Zenon
  <2>2. CASE new = chip /\ s = "part"
    BY <1>1, <2>2, Zenon
  <2>3. CASE new = chip /\ s = "own" /\ \A i \in Rx : ring[i] # "own"
    <3>1. \A i \in Rx : From(NextRx(new), i, chip) <=> i # new
      BY <2>3, FromMoves, Zenon
    <3>. QED  BY <1>1, <2>3, <3>1, Zenon
  <2>4. CASE \A i \in Rx : IF From(new, i, chip) THEN ring[i] # "own"
                                              ELSE ring[i] \in {"own", "part"}
    <3>1. CASE new = chip
      <4>1. ring[new] = "part"
        BY <2>4, <3>1, FromMoves, Zenon
      <4>. QED  BY <2>1, <3>1, <4>1, Zenon
    <3>2. CASE new # chip
      <4>1. \A i \in Rx : From(NextRx(new), i, chip) <=> From(new, i, chip) /\ i # new
        BY <3>2, FromMoves, Zenon
      <4>. QED  BY <1>1, <2>4, <4>1, Zenon
    <3>. QED  BY <3>1, <3>2, Zenon
  <2>. QED  BY <2>1, <2>2, <2>3, <2>4, Zenon DEF Ordered
<1>. HIDE DEF ring2
<1>4. Ordered(ring2, frame, NextRx(new), chip)
  BY <1>2, <1>3, Zenon DEF Ordered
<1>. QED  BY <1>4, Zenon DEF ring2

\* The controller fills a descriptor of its own, with a frame later than all others.
LEMMA OrderedChip ==
  ASSUME NEW ring \in [Rx -> RxStatus], NEW frame, NEW frame2, NEW new \in Rx, NEW chip \in Rx,
         Ordered(ring, frame, new, chip), ring[chip] = "own",
         NEW s \in {"ok", "es", "part"},
         \A i \in Rx : i # chip => frame2[i] = frame[i],
         s = "ok" => \A i \in Rx : ring[i] = "ok" => frame[i] < frame2[chip]
  PROVE  Ordered([ring EXCEPT ![chip] = s], frame2, new, NextRx(chip))
<1>. DEFINE ring2 == [ring EXCEPT ![chip] = s]
<1>1. ring2[chip] = s /\ \A i \in Rx : i # chip => ring2[i] = ring[i]
  OBVIOUS
<1>2. \A i \in Rx : IF From(new, i, chip) THEN ring[i] # "own" ELSE ring[i] \in {"own", "part"}
  BY Zenon DEF Ordered
<1>3. ASSUME NEW i \in Rx, NEW j \in Rx, ring2[i] = "ok", ring2[j] = "ok", From(new, i, j)
      PROVE  frame2[i] < frame2[j]
  <2>1. CASE i # chip /\ j # chip
    BY <1>1, <1>3, <2>1, Zenon DEF Ordered
  <2>2. CASE i # chip /\ j = chip
    BY <1>1, <1>3, <2>2, Zenon
  <2>3. CASE i = chip
    <3>1. j # chip
      BY <1>3, <2>3 DEF From, Rx
    <3>2. From(new, j, chip)
      BY <1>1, <1>2, <1>3, <3>1, Zenon
    <3>. QED  BY <1>3, <2>3, <3>2, FromMoves, Zenon
  <2>. QED  BY <2>1, <2>2, <2>3, Zenon
<1>4. CASE NextRx(chip) = new
  <2>1. \A i \in Rx : i = chip \/ From(new, i, chip)
    BY <1>4, FromMoves, Zenon
  <2>2. \A i \in Rx : ring2[i] # "own"
    BY <1>1, <1>2, <2>1, Zenon
  <2>. HIDE DEF ring2
  <2>3. Ordered(ring2, frame2, new, NextRx(chip))
    BY <1>3, <1>4, <2>2, Zenon DEF Ordered
  <2>. QED  BY <2>3, Zenon DEF ring2
<1>5. CASE NextRx(chip) # new
  <2>1. \A i \in Rx : From(new, i, NextRx(chip)) <=> i = chip \/ From(new, i, chip)
    BY <1>5, FromMoves, Zenon
  <2>2. \A i \in Rx : IF From(new, i, NextRx(chip)) THEN ring2[i] # "own"
                                                 ELSE ring2[i] \in {"own", "part"}
    BY <1>1, <1>2, <2>1, Zenon
  <2>. HIDE DEF ring2
  <2>3. Ordered(ring2, frame2, new, NextRx(chip))
    BY <1>3, <2>2, Zenon DEF Ordered
  <2>. QED  BY <2>3, Zenon DEF ring2
<1>. QED  BY <1>4, <1>5, Zenon

\* No frame is in the ring twice, or has a number above n.
Distinct(ring, frame, n) ==
  /\ \A i, j \in Rx : ring[i] = "ok" /\ ring[j] = "ok" /\ frame[i] = frame[j] => i = j
  /\ \A i \in Rx : ring[i] = "ok" => frame[i] <= n

\* QueueInv by its parts.
LEMMA QueueParts ==
  QueueInv <=> /\ Distinct(rx_ring, NetRxPackets, arrived)
               /\ inStep => Ordered(rx_ring, NetRxPackets, rx_new, chip_rx)
               /\ inStep => (rx = "handler" => held)
  BY Zenon DEF QueueInv, InOrder, Distinct, Ordered

\* The parts give QueueInv back after a step.
LEMMA PartsQueue ==
  ASSUME Distinct(rx_ring', NetRxPackets', arrived'),
         inStep' => Ordered(rx_ring', NetRxPackets', rx_new', chip_rx'),
         inStep' => (rx' = "handler" => held')
  PROVE  QueueInv'
  BY Zenon DEF QueueInv, InOrder, Distinct, Ordered

\* A step that leaves the ring alone.
LEMMA QueueKept ==
  ASSUME QueueInv, UNCHANGED <<rx_ring, NetRxPackets, rx_new, chip_rx, arrived, inStep>>,
         rx' = "handler" => held' \/ (rx = "handler" /\ held' = held)
  PROVE  QueueInv'
  BY QueueParts, PartsQueue, Zenon

\* The receive loop goes past a descriptor.
LEMMA QueueDriver == ASSUME RxOK, RingInv, QueueInv, dc21x4x_recv \/ Recv PROVE QueueInv'
<1>1. UNCHANGED <<NetRxPackets, chip_rx, arrived, inStep>>
  BY Zenon DEF dc21x4x_recv, Recv, RecvReturns, RecvSkip, RecvError, RecvFrame, RecvHanded,
         modeVars, counts
<1>2. CASE dc21x4x_recv \/ RecvReturns \/ RecvFrame
  <2>1. UNCHANGED <<rx_ring, rx_new>> /\ (rx' = "handler" => held')
    BY <1>2 DEF dc21x4x_recv, RecvReturns, RecvFrame
  <2>. QED  BY <1>1, <2>1, QueueKept, Zenon
<1>3. CASE RecvSkip
  <2>1. /\ rx_ring[rx_new] = "part" /\ rx_ring' = rx_ring /\ rx_new' = NextRx(rx_new)
        /\ rx' # "handler"
    BY <1>3 DEF RecvSkip
  <2>2. rx_ring = [rx_ring EXCEPT ![rx_new] = "part"]
    BY <2>1, Zenon DEF RxOK
  <2>3. inStep => Ordered([rx_ring EXCEPT ![rx_new] = "part"], NetRxPackets, NextRx(rx_new), chip_rx)
    BY <2>1, QueueParts, OrderedDriver DEF RxOK
  <2>. QED  BY <1>1, <2>1, <2>2, <2>3, QueueParts, PartsQueue, Zenon
<1>4. CASE RecvError \/ RecvHanded
  <2>1. /\ rx_ring' = [rx_ring EXCEPT ![rx_new] = "own"] /\ rx_new' = NextRx(rx_new)
        /\ rx' # "handler"
    BY <1>4 DEF RecvError, RecvHanded
  <2>2. inStep => rx_ring[rx_new] \in {"ok", "es"}
    BY <1>4, QueueParts, Zenon DEF RecvError, RecvHanded, RxOK, NotOverwritten, RingInv
  <2>3. inStep => Ordered([rx_ring EXCEPT ![rx_new] = "own"], NetRxPackets, NextRx(rx_new), chip_rx)
    BY <2>2, QueueParts, OrderedDriver DEF RxOK
  <2>4. \A i \in Rx : rx_ring'[i] = "ok" => rx_ring[i] = "ok"
    BY <2>1 DEF RxOK
  <2>5. Distinct(rx_ring', NetRxPackets, arrived)
    BY <2>4, QueueParts, Zenon DEF Distinct
  <2>. QED  BY <1>1, <2>1, <2>3, <2>5, PartsQueue, Zenon
<1>. QED  BY <1>2, <1>3, <1>4, Zenon DEF Recv

\* A frame stored at c is the latest one.
LEMMA DistinctStore ==
  ASSUME NEW ring, NEW ring2, NEW frame \in [Rx -> Nat], NEW c \in Rx, NEW n \in Nat,
         Distinct(ring, frame, n),
         \A i \in Rx : i # c /\ ring2[i] = "ok" => ring[i] = "ok"
  PROVE  Distinct(ring2, [frame EXCEPT ![c] = n + 1], n + 1)
<1>. DEFINE frame2 == [frame EXCEPT ![c] = n + 1]
<1>1. frame2[c] = n + 1 /\ \A i \in Rx : i # c => frame2[i] = frame[i]
  OBVIOUS
<1>2. \A i \in Rx : i # c /\ ring2[i] = "ok" => frame2[i] \in Nat /\ frame2[i] <= n
  BY <1>1 DEF Distinct
<1>. HIDE DEF frame2
<1>3. \A i \in Rx : ring2[i] = "ok" => frame2[i] <= n + 1
  BY <1>1, <1>2
<1>4. ASSUME NEW i \in Rx, NEW j \in Rx, ring2[i] = "ok", ring2[j] = "ok", frame2[i] = frame2[j]
      PROVE  i = j
  <2>1. CASE i # c /\ j # c
    BY <1>1, <1>4, <2>1, Zenon DEF Distinct
  <2>2. CASE i = c \/ j = c
    BY <1>1, <1>2, <1>4, <2>2
  <2>. QED  BY <2>1, <2>2, Zenon
<1>5. Distinct(ring2, frame2, n + 1)
  BY <1>3, <1>4, Zenon DEF Distinct
<1>. QED  BY <1>5, Zenon DEF frame2

\* The controller stores a frame, or loses it.
LEMMA QueueChip ==
  ASSUME RxOK, ModeOK, QueueInv, ChipReceive \/ ChipReceiveLong
  PROVE  QueueInv'
<1>1. arrived' = arrived + 1 /\ UNCHANGED <<rx, rx_new, held, inStep>>
  BY Zenon DEF ChipReceive, ChipReceiveLong, modeVars
<1>2. arrived \in Nat /\ NetRxPackets \in [Rx -> Nat] /\ chip_rx \in Rx /\ NextRx(chip_rx) \in Rx
  BY NextRxType, DcAssumption DEF RxOK, ModeOK
<1>3. Distinct(rx_ring, NetRxPackets, arrived)
  BY QueueParts, Zenon
<1>4. \A i \in Rx : rx_ring[i] = "ok" => NetRxPackets[i] < arrived'
  BY <1>1, <1>2, <1>3 DEF Distinct
<1>5. CASE UNCHANGED <<rx_ring, NetRxPackets, chip_rx>>
  <2>1. Distinct(rx_ring, NetRxPackets, arrived')
    BY <1>1, <1>2, <1>3 DEF Distinct
  <2>. QED  BY <1>1, <1>5, <2>1, QueueParts, PartsQueue, Zenon
<1>6. ASSUME NEW s \in {"ok", "es"}, rx_ring[chip_rx] = "own", Store(chip_rx, s)
      PROVE  QueueInv'
  <2>1. /\ rx_ring' = [rx_ring EXCEPT ![chip_rx] = s]
        /\ NetRxPackets' = [NetRxPackets EXCEPT ![chip_rx] = arrived']
        /\ chip_rx' = NextRx(chip_rx)
    BY <1>6, Zenon DEF Store
  <2>2. /\ NetRxPackets'[chip_rx] = arrived'
        /\ \A i \in Rx : i # chip_rx => NetRxPackets'[i] = NetRxPackets[i]
        /\ \A i \in Rx : i # chip_rx /\ rx_ring'[i] = "ok" => rx_ring[i] = "ok"
    BY <1>2, <2>1, Zenon DEF RxOK
  <2>3. inStep => Ordered([rx_ring EXCEPT ![chip_rx] = s], NetRxPackets', rx_new, NextRx(chip_rx))
    BY <1>2, <1>4, <1>6, <2>2, QueueParts, OrderedChip DEF RxOK
  <2>4. Distinct(rx_ring', NetRxPackets', arrived')
    BY <1>1, <1>2, <1>3, <2>1, <2>2, DistinctStore, Zenon
  <2>. QED  BY <1>1, <2>1, <2>3, <2>4, QueueParts, PartsQueue, Zenon
<1>7. CASE ChipReceiveLong
  <2>. DEFINE c == NextRx(chip_rx)
              ring == [rx_ring EXCEPT ![chip_rx] = "part"]
  <2>1. /\ rx_ring[chip_rx] = "own" /\ rx_ring[c] = "own"
        /\ rx_ring' = [rx_ring EXCEPT ![chip_rx] = "part", ![c] = "ok"]
        /\ NetRxPackets' = [NetRxPackets EXCEPT ![c] = arrived']
        /\ chip_rx' = NextRx(c)
    BY <1>7, Zenon DEF ChipReceiveLong
  <2>2. c \in Rx /\ c # chip_rx
    BY <1>2, FromMoves, Zenon
  <2>3. /\ ring \in [Rx -> RxStatus] /\ ring[c] = "own"
        /\ \A i \in Rx : ring[i] = "ok" => rx_ring[i] = "ok"
        /\ rx_ring' = [ring EXCEPT ![c] = "ok"]
    BY <1>2, <2>1, <2>2 DEF RxOK, RxStatus
  <2>4. /\ NetRxPackets'[c] = arrived'
        /\ \A i \in Rx : i # c => NetRxPackets'[i] = NetRxPackets[i]
        /\ \A i \in Rx : i # c /\ rx_ring'[i] = "ok" => rx_ring[i] = "ok"
    BY <1>2, <2>1, <2>2, <2>3, Zenon
  <2>5. inStep => Ordered(ring, NetRxPackets, rx_new, c)
    BY <1>2, <2>1, QueueParts, OrderedChip DEF RxOK
  <2>6. Distinct(rx_ring', NetRxPackets', arrived')
    BY <1>1, <1>2, <1>3, <2>1, <2>2, <2>4, DistinctStore, Zenon
  <2>. HIDE DEF c, ring
  <2>7. rx_new \in Rx
    BY Zenon DEF RxOK
  <2>8. \A i \in Rx : ring[i] = "ok" => NetRxPackets[i] < NetRxPackets'[c]
    BY <1>4, <2>3, <2>4, Zenon
  <2>9. inStep => Ordered([ring EXCEPT ![c] = "ok"], NetRxPackets', rx_new, NextRx(c))
    BY <2>2, <2>3, <2>4, <2>5, <2>7, <2>8, OrderedChip
  <2>. QED  BY <1>1, <2>1, <2>3, <2>6, <2>9, QueueParts, PartsQueue, Zenon
<1>. QED  BY <1>5, <1>6, <1>7, Zenon DEF ChipReceive

\* Every step keeps the order of the frames.
LEMMA QueueStep == ASSUME RxOK, ModeOK, RingInv, QueueInv, [Next]_vars PROVE QueueInv'
<1>1. ASSUME UNCHANGED <<rxVars, arrived, inStep>> PROVE QueueInv'
  BY <1>1, QueueKept, Zenon DEF rxVars
<1>2. CASE UNCHANGED vars
  BY <1>1, <1>2, Zenon DEF vars, counts, modeVars
<1>3. CASE dc21x4x_init
  <2>1. /\ rx_ring' = [i \in Rx |-> "own"] /\ rx_new' = 0 /\ chip_rx' = 0
        /\ inStep' => rx' # "handler"
    BY <1>3 DEF dc21x4x_init
  <2>2. \A i \in Rx : ~From(0, i, 0) /\ rx_ring'[i] = "own"
    BY <2>1 DEF From, Rx
  <2>3. Distinct(rx_ring', NetRxPackets', arrived') /\ Ordered(rx_ring', NetRxPackets', 0, 0)
    BY <2>2, Zenon DEF Distinct, Ordered
  <2>. QED  BY <2>1, <2>3, PartsQueue, Zenon
<1>4. CASE InitFails \/ dc21x4x_halt
  BY <1>1, <1>4, Zenon DEF InitFails, dc21x4x_halt, counts
<1>5. CASE SetupReturns \/ dc21x4x_send \/ SendTimeout \/ SendQueue \/ SendReturns \/ ChipTransmit
  BY <1>1, <1>5, Zenon DEF SetupReturns, dc21x4x_send, SendTimeout, SendQueue, SendReturns,
                    ChipTransmit, counts, modeVars
<1>6. CASE dc21x4x_recv \/ Recv
  BY <1>6, QueueDriver, Zenon
<1>7. CASE ChipReceive \/ ChipReceiveLong
  BY <1>7, QueueChip, Zenon
<1>. QED  BY <1>2, <1>3, <1>4, <1>5, <1>6, <1>7, Zenon DEF Next

---------------------------------------------------------------------------
(* The counters, and the theorems. *)

\* Every action keeps the counters in their bounds.
LEMMA ModeStep == ASSUME ModeOK, Next PROVE ModeOK'
<1>1. CASE dc21x4x_init \/ InitFails \/ dc21x4x_halt
  <2>1. /\ arrived' \in 0 .. MaxFrames
        /\ longs' \in 0 .. MaxLong
        /\ inits' \in 0 .. MaxInits
    BY <1>1, DcAssumption DEF dc21x4x_init, InitFails, dc21x4x_halt, counts, ModeOK
  <2>2. polled' \in BOOLEAN /\ running' \in BOOLEAN /\ inStep' \in BOOLEAN
    BY <1>1, Zenon DEF dc21x4x_init, InitFails, dc21x4x_halt, ModeOK
  <2>. QED  BY <2>1, <2>2, Zenon DEF ModeOK
<1>2. CASE ChipReceive \/ ChipReceiveLong
  BY <1>2, DcAssumption DEF ChipReceive, ChipReceiveLong, modeVars, ModeOK
<1>3. CASE UNCHANGED <<counts, modeVars>>
  BY <1>3, Zenon DEF counts, modeVars, ModeOK
<1>4. CASE SetupReturns \/ dc21x4x_send \/ SendTimeout \/ SendQueue \/ SendReturns \/ ChipTransmit
  BY <1>3, <1>4, Zenon
     DEF SetupReturns, dc21x4x_send, SendTimeout, SendQueue, SendReturns, ChipTransmit
<1>5. CASE dc21x4x_recv \/ Recv
  BY <1>3, <1>5, Zenon
     DEF dc21x4x_recv, Recv, RecvReturns, RecvSkip, RecvError, RecvFrame, RecvHanded
<1>. QED  BY <1>1, <1>2, <1>4, <1>5, Zenon DEF Next

\* Every step keeps the three parts.
LEMMA DcStep == ASSUME RxOK, TxOK, ModeOK, [Next]_vars PROVE RxOK' /\ TxOK' /\ ModeOK'
<1>1. CASE UNCHANGED vars
  BY <1>1, RxKept, TxKept, Zenon DEF vars, counts, modeVars, ModeOK
<1>2. ASSUME Next PROVE ModeOK'
  BY <1>2, ModeStep, Zenon
<1>3. CASE dc21x4x_init
  BY <1>2, <1>3, RxInit, TxDriver, Zenon DEF Next
<1>4. CASE InitFails \/ dc21x4x_halt
  <2>1. UNCHANGED <<rxVars, txVars>>
    BY <1>4, Zenon DEF InitFails, dc21x4x_halt
  <2>. QED  BY <1>2, <1>4, <2>1, RxKept, TxKept, Zenon DEF Next
<1>5. CASE SetupReturns \/ dc21x4x_send \/ SendTimeout \/ SendQueue \/ SendReturns
  <2>1. UNCHANGED rxVars
    BY <1>5, Zenon DEF SetupReturns, dc21x4x_send, SendTimeout, SendQueue, SendReturns
  <2>. QED  BY <1>2, <1>5, <2>1, RxKept, TxDriver, Zenon DEF Next
<1>6. CASE dc21x4x_recv \/ Recv
  <2>1. UNCHANGED txVars
    BY <1>6, Zenon DEF dc21x4x_recv, Recv, RecvReturns, RecvSkip, RecvError, RecvFrame, RecvHanded
  <2>. QED  BY <1>2, <1>6, <2>1, RxDriver, TxKept, Zenon DEF Next
<1>7. CASE ChipReceive \/ ChipReceiveLong
  <2>1. UNCHANGED txVars
    BY <1>7, Zenon DEF ChipReceive, ChipReceiveLong
  <2>. QED  BY <1>2, <1>7, <2>1, RxChip, TxKept, Zenon DEF Next
<1>8. CASE ChipTransmit
  <2>1. UNCHANGED rxVars
    BY <1>8, Zenon DEF ChipTransmit
  <2>. QED  BY <1>2, <1>8, <2>1, RxKept, TxChip, Zenon DEF Next
<1>. QED  BY <1>1, <1>3, <1>4, <1>5, <1>6, <1>7, <1>8, Zenon DEF Next

\* The invariant of the driver and the controller holds in every state.
THEOREM DriverCorrect == Spec => []DcInv
<1>1. Init => DcInv
  BY DcInit, Zenon
<1>2. DcInv /\ [Next]_vars => DcInv'
  BY DcInvParts, DcPartsInv, DcStep, RingStep, QueueStep, Zenon
<1>. QED  BY <1>1, <1>2, PTL DEF Spec

\* Every register and descriptor keeps to its values.
THEOREM DriverTypes == Spec => []TypeOK
<1>1. DcInv => TypeOK
  BY Zenon DEF DcInv
<1>. QED  BY <1>1, DriverCorrect, PTL

\* dc21x4x_send() returns the length only for a packet that is on the wire.
THEOREM ReportedIsSent == Spec => []SentIfReported
<1>1. DcInv => SentIfReported
  BY Zenon DEF DcInv
<1>. QED  BY <1>1, DriverCorrect, PTL

\* The controller never writes into the frame that NetReceive() looks at.
THEOREM FrameIsStable == Spec => []NotOverwritten
<1>1. DcInv => NotOverwritten
  BY Zenon DEF DcInv
<1>. QED  BY <1>1, DriverCorrect, PTL

\* Whenever the driver has looked at all descriptors up to one of the
\* controller's, the controller has a buffer for the next frame, also after a
\* packet handler has set the ring back under the driver's feet.
THEOREM NextFrameHasBuffer == Spec => []BufferOffered
<1>1. DcInv => BufferOffered
  <2>. SUFFICES ASSUME DcInv, rx = "idle", running, longs = 0, rx_ring[chip_rx] # "own"
                PROVE  rx_ring[rx_new] # "own"
    BY Zenon DEF BufferOffered
  <2>1. rx_new \in Rx /\ chip_rx \in Rx /\ Shape
    BY DcInvParts, Zenon DEF RxOK, RingInv, Shape
  <2>2. CASE InStep
    BY <2>1, <2>2 DEF InStep, From, Rx
  <2>3. CASE Full
    BY <2>1, <2>3, Zenon DEF Full
  <2>4. CASE Ahead
    BY <2>1, <2>4, Zenon DEF Ahead
  <2>5. CASE LeftBehind
    BY <2>1, <2>5 DEF LeftBehind, Rx
  <2>. QED  BY <2>1, <2>2, <2>3, <2>4, <2>5, Zenon DEF Shape
<1>. QED  BY <1>1, DriverCorrect, PTL

---------------------------------------------------------------------------
(* The ring implements the queue. *)

\* Frames wait in descriptors with a frame that is not being handled.
LEMMA WaitingIs ==
  ASSUME NEW i
  PROVE  i \in Waiting <=> i \in Rx /\ rx_ring[i] = "ok" /\ ~(held /\ i = taken)
  BY Zenon DEF Waiting

\* There is room in the queue whenever the controller has a descriptor.
LEMMA QueueRoom ==
  ASSUME RxOK, NEW c \in Rx, rx_ring[c] = "own"
  PROVE  Cardinality(Pending) < NumRx
<1>. DEFINE f == [i \in Waiting |-> NetRxPackets[i]]
<1>1. IsFiniteSet(Rx) /\ Cardinality(Rx) = NumRx
  <2>1. /\ 0 \in Int /\ NumRx - 1 \in Int
        /\ NumRx = IF 0 > NumRx - 1 THEN 0 ELSE ((NumRx - 1) - 0) + 1
    BY DcAssumption, SMT
  <2>2. /\ IsFiniteSet(0 .. NumRx - 1)
        /\ Cardinality(0 .. NumRx - 1) = IF 0 > NumRx - 1 THEN 0 ELSE ((NumRx - 1) - 0) + 1
    BY <2>1, FS_Interval, Zenon
  <2>. QED  BY <2>1, <2>2, Zenon DEF Rx
<1>2. Waiting \in SUBSET (Rx \ {c})
  BY WaitingIs, Zenon
<1>3. IsFiniteSet(Rx \ {c}) /\ Cardinality(Rx \ {c}) = NumRx - 1
  BY <1>1, FS_RemoveElement
<1>4. IsFiniteSet(Waiting) /\ Cardinality(Waiting) <= NumRx - 1
  BY <1>2, <1>3, FS_Subset
<1>5. f \in Surjection(Waiting, Pending)
  BY Zenon DEF Surjection, Pending
<1>6. IsFiniteSet(Pending) /\ Cardinality(Pending) <= Cardinality(Waiting)
  BY <1>4, <1>5, FS_Surjection, Zenon
<1>7. Cardinality(Waiting) \in Nat /\ Cardinality(Pending) \in Nat
  BY <1>4, <1>6, FS_CardinalityType, Zenon
<1>. QED  BY <1>4, <1>6, <1>7, DcAssumption

\* The same descriptors with the same frames are the same queue.
LEMMA PendingKept ==
  ASSUME Waiting' = Waiting, \A i \in Waiting : NetRxPackets'[i] = NetRxPackets[i]
  PROVE  Pending' = Pending
  BY Zenon DEF Pending

\* A frame leaves the queue with its descriptor.
LEMMA PendingLess ==
  ASSUME QueueInv, NEW c \in Waiting, Waiting' = Waiting \ {c}, NetRxPackets' = NetRxPackets
  PROVE  Pending' = Pending \ {NetRxPackets[c]} /\ NetRxPackets[c] \in Pending
<1>1. \A i \in Waiting : NetRxPackets[i] = NetRxPackets[c] => i = c
  BY WaitingIs, QueueParts, Zenon DEF Distinct
<1>. QED  BY <1>1, Zenon DEF Pending

\* A frame comes into the queue with its descriptor.
LEMMA PendingMore ==
  ASSUME NEW c, c \notin Waiting, Waiting' = Waiting \cup {c},
         \A i \in Waiting : NetRxPackets'[i] = NetRxPackets[i]
  PROVE  Pending' = Pending \cup {NetRxPackets'[c]}
  BY Zenon DEF Pending

\* The empty ring is an empty queue.
LEMMA QueueInit == ASSUME Init PROVE Queue!Init
<1>1. /\ rx_ring = [i \in Rx |-> "part"]
      /\ inStep = TRUE /\ arrived = 0 /\ passed = 0
  BY Zenon DEF Init
<1>2. Waiting = {}
  BY <1>1, Zenon DEF Waiting
<1>3. Pending = {}
  BY <1>2, Zenon DEF Pending
<1>. QED  BY <1>1, <1>3, Zenon DEF Queue!Init

\* The queue and what goes with it stay as they are.
LEMMA QueueStutters ==
  ASSUME Waiting' = Waiting, \A i \in Waiting : NetRxPackets'[i] = NetRxPackets[i],
         UNCHANGED <<inStep, arrived, passed>>
  PROVE  UNCHANGED Queue!vars
  BY PendingKept, Zenon DEF Queue!vars

\* The receive loop passes up the oldest frame, or changes nothing that can be seen,
\* or, after an initialisation below it, loses a frame.
LEMMA DriverImplements ==
  ASSUME RxOK, RingInv, QueueInv, dc21x4x_recv \/ Recv
  PROVE  [Queue!Next]_(Queue!vars)
<1>1. UNCHANGED <<NetRxPackets, arrived, inStep>>
  BY Zenon DEF dc21x4x_recv, Recv, RecvReturns, RecvSkip, RecvError, RecvFrame, RecvHanded,
         modeVars, counts
<1>2. CASE dc21x4x_recv \/ RecvReturns \/ RecvSkip
  <2>1. UNCHANGED <<rx_ring, taken, held, passed>>
    BY <1>2, Zenon DEF dc21x4x_recv, RecvReturns, RecvSkip
  <2>2. Waiting' = Waiting
    BY <2>1, Zenon DEF Waiting
  <2>. QED  BY <1>1, <2>1, <2>2, QueueStutters, Zenon
<1>3. CASE RecvError
  <2>1. /\ rx_ring[rx_new] = "es" /\ rx_ring' = [rx_ring EXCEPT ![rx_new] = "own"]
        /\ UNCHANGED <<taken, held, passed>>
    BY <1>3, Zenon DEF RecvError
  <2>2. \A i \in Rx : rx_ring'[i] = "ok" <=> rx_ring[i] = "ok"
    BY <2>1 DEF RxOK
  <2>3. Waiting' = Waiting
    BY <2>1, <2>2, Zenon DEF Waiting
  <2>. QED  BY <1>1, <2>1, <2>3, QueueStutters, Zenon
<1>4. CASE RecvFrame
  <2>1. /\ rx_ring[rx_new] = "ok" /\ ~held /\ held' /\ taken' = rx_new
        /\ passed' = NetRxPackets[rx_new] /\ rx_ring' = rx_ring
    BY <1>4 DEF RecvFrame, RxOK
  <2>2. rx_new \in Waiting /\ Waiting' = Waiting \ {rx_new}
    BY <2>1, Zenon DEF Waiting, RxOK
  <2>3. Pending' = Pending \ {NetRxPackets[rx_new]} /\ NetRxPackets[rx_new] \in Pending
    BY <1>1, <2>2, PendingLess, Zenon
  <2>4. ASSUME inStep, NEW g \in Pending PROVE NetRxPackets[rx_new] <= g
    <3>1. PICK i \in Waiting : g = NetRxPackets[i]
      BY Zenon DEF Pending
    <3>2. i \in Rx /\ rx_ring[i] = "ok" /\ rx_new \in Rx
      BY WaitingIs, Zenon DEF RxOK
    <3>3. CASE i = rx_new
      BY <3>1, <3>2, <3>3, DcAssumption DEF RxOK
    <3>4. CASE i # rx_new
      <4>1. From(rx_new, rx_new, i)
        BY <3>2, <3>4, FromMoves, Zenon
      <4>2. NetRxPackets[rx_new] < NetRxPackets[i]
        BY <2>1, <2>4, <3>2, <4>1, QueueParts, Zenon DEF Ordered
      <4>. QED  BY <3>1, <3>2, <4>2, DcAssumption DEF RxOK
    <3>. QED  BY <3>3, <3>4, Zenon
  <2>5. Queue!Deliver
    BY <1>1, <2>1, <2>3, <2>4, Zenon DEF Queue!Deliver
  <2>. QED  BY <2>5, Zenon DEF Queue!Next
<1>5. CASE RecvHanded
  <2>1. /\ rx = "handler" /\ rx_ring' = [rx_ring EXCEPT ![rx_new] = "own"]
        /\ ~held' /\ passed' = passed
    BY <1>5, Zenon DEF RecvHanded
  <2>2. \A i \in Rx : rx_ring'[i] = "ok" <=> rx_ring[i] = "ok" /\ i # rx_new
    BY <2>1 DEF RxOK
  <2>3. CASE held \/ rx_ring[rx_new] # "ok"
    <3>1. held => taken = rx_new
      BY Zenon DEF RingInv
    <3>2. Waiting' = Waiting
      BY <2>1, <2>2, <2>3, <3>1, Zenon DEF Waiting
    <3>. QED  BY <1>1, <2>1, <3>2, QueueStutters, Zenon
  <2>4. CASE ~held /\ rx_ring[rx_new] = "ok"
    <3>1. ~inStep
      BY <2>1, <2>4, QueueParts, Zenon
    <3>2. rx_new \in Waiting /\ Waiting' = Waiting \ {rx_new}
      BY <2>1, <2>2, <2>4, Zenon DEF Waiting, RxOK
    <3>3. Pending' = Pending \ {NetRxPackets[rx_new]} /\ NetRxPackets[rx_new] \in Pending
      BY <1>1, <3>2, PendingLess, Zenon
    <3>4. Queue!Lose
      BY <1>1, <2>1, <3>1, <3>3, Zenon DEF Queue!Lose
    <3>. QED  BY <3>4, Zenon DEF Queue!Next
  <2>. QED  BY <2>3, <2>4, Zenon
<1>. QED  BY <1>2, <1>3, <1>4, <1>5, Zenon DEF Recv

\* The controller puts a frame into the queue, or loses it.
LEMMA ChipImplements ==
  ASSUME RxOK, ChipReceive \/ ChipReceiveLong
  PROVE  Queue!Next
<1>1. arrived' = arrived + 1 /\ UNCHANGED <<taken, held, inStep, passed>>
  BY Zenon DEF ChipReceive, ChipReceiveLong, modeVars
<1>2. ASSUME Waiting' = Waiting, \A i \in Waiting : NetRxPackets'[i] = NetRxPackets[i]
      PROVE  Queue!Next
  <2>1. Queue!Arrive
    BY <1>1, <1>2, PendingKept, Zenon DEF Queue!Arrive
  <2>. QED  BY <2>1, Zenon DEF Queue!Next
<1>3. ASSUME NEW c \in Rx, rx_ring[c] = "own", rx_ring'[c] = "ok",
             \A i \in Rx : i # c => (rx_ring'[i] = "ok" <=> rx_ring[i] = "ok"),
             NetRxPackets' = [NetRxPackets EXCEPT ![c] = arrived']
      PROVE  Queue!Next
  <2>1. c \notin Waiting /\ ~(held /\ c = taken)
    BY <1>3, WaitingIs, Zenon DEF RxOK, NotOverwritten
  <2>2. Waiting' = Waiting \cup {c}
    BY <1>1, <1>3, <2>1 DEF Waiting
  <2>3. NetRxPackets'[c] = arrived' /\ \A i \in Waiting : NetRxPackets'[i] = NetRxPackets[i]
    BY <1>3, <2>1, WaitingIs, Zenon DEF RxOK
  <2>4. Pending' = Pending \cup {arrived'}
    BY <2>1, <2>2, <2>3, PendingMore, Zenon
  <2>5. Cardinality(Pending) < NumRx
    BY <1>3, QueueRoom, Zenon
  <2>6. Queue!Arrive
    BY <1>1, <2>4, <2>5, Zenon DEF Queue!Arrive, Queue!Cardinality, Cardinality
  <2>. QED  BY <2>6, Zenon DEF Queue!Next
<1>4. CASE UNCHANGED <<rx_ring, NetRxPackets>>
  <2>1. Waiting' = Waiting
    BY <1>1, <1>4, Zenon DEF Waiting
  <2>. QED  BY <1>2, <1>4, <2>1, Zenon
<1>5. ASSUME NEW s \in {"ok", "es"}, rx_ring[chip_rx] = "own", Store(chip_rx, s)
      PROVE  Queue!Next
  <2>1. /\ chip_rx \in Rx
        /\ rx_ring' = [rx_ring EXCEPT ![chip_rx] = s]
        /\ NetRxPackets' = [NetRxPackets EXCEPT ![chip_rx] = arrived']
    BY <1>5, Zenon DEF Store, RxOK
  <2>2. rx_ring'[chip_rx] = s /\ \A i \in Rx : i # chip_rx => rx_ring'[i] = rx_ring[i]
    BY <2>1, Zenon DEF RxOK
  <2>3. CASE s = "ok"
    BY <1>3, <1>5, <2>1, <2>2, <2>3, Zenon
  <2>4. CASE s = "es"
    <3>1. \A i \in Rx : rx_ring'[i] = "ok" <=> rx_ring[i] = "ok"
      BY <1>5, <2>2, <2>4
    <3>2. Waiting' = Waiting
      BY <1>1, <3>1, Zenon DEF Waiting
    <3>3. \A i \in Waiting : NetRxPackets'[i] = NetRxPackets[i]
      BY <1>5, <2>1, WaitingIs DEF RxOK
    <3>. QED  BY <1>2, <3>2, <3>3, Zenon
  <2>. QED  BY <2>3, <2>4, Zenon
<1>6. CASE ChipReceiveLong
  <2>1. /\ rx_ring[chip_rx] = "own" /\ rx_ring[NextRx(chip_rx)] = "own"
        /\ rx_ring' = [rx_ring EXCEPT ![chip_rx] = "part", ![NextRx(chip_rx)] = "ok"]
        /\ NetRxPackets' = [NetRxPackets EXCEPT ![NextRx(chip_rx)] = arrived']
    BY <1>6, Zenon DEF ChipReceiveLong
  <2>2. NextRx(chip_rx) \in Rx /\ NextRx(chip_rx) # chip_rx /\ chip_rx \in Rx
    BY NextRxType, FromMoves, Zenon DEF RxOK
  <2>3. /\ rx_ring'[NextRx(chip_rx)] = "ok"
        /\ \A i \in Rx : i # NextRx(chip_rx) => (rx_ring'[i] = "ok" <=> rx_ring[i] = "ok")
    BY <2>1, <2>2 DEF RxOK
  <2>. QED  BY <1>3, <2>1, <2>2, <2>3, Zenon
<1>. QED  BY <1>4, <1>5, <1>6, Zenon DEF ChipReceive

\* Every step of the driver and of the controller is one of the queue, or none.
LEMMA StepImplements == ASSUME DcInv, [Next]_vars PROVE [Queue!Next]_(Queue!vars)
<1>. RxOK /\ RingInv /\ QueueInv
  BY DcInvParts, Zenon
<1>1. ASSUME UNCHANGED <<rxVars, arrived, inStep>> PROVE UNCHANGED Queue!vars
  <2>1. UNCHANGED <<rx_ring, NetRxPackets, taken, held, passed>>
    BY <1>1, Zenon DEF rxVars
  <2>2. Waiting' = Waiting
    BY <2>1, Zenon DEF Waiting
  <2>. QED  BY <1>1, <2>1, <2>2, QueueStutters, Zenon
<1>2. CASE UNCHANGED vars
  BY <1>1, <1>2, Zenon DEF vars, counts, modeVars
<1>3. CASE dc21x4x_init
  <2>1. /\ rx_ring' = [i \in Rx |-> "own"] /\ inStep' \in BOOLEAN
        /\ UNCHANGED <<arrived, passed>>
    BY <1>3 DEF dc21x4x_init
  <2>2. \A i \in Rx : rx_ring'[i] # "ok"
    BY <2>1
  <2>3. Waiting' = {}
    BY <2>2, Zenon DEF Waiting
  <2>4. Pending' = {}
    BY <2>3, Zenon DEF Pending
  <2>5. Queue!Flush
    BY <2>1, <2>4, Zenon DEF Queue!Flush
  <2>. QED  BY <2>5, Zenon DEF Queue!Next
<1>4. CASE InitFails \/ dc21x4x_halt
  BY <1>1, <1>4, Zenon DEF InitFails, dc21x4x_halt, counts
<1>5. CASE SetupReturns \/ dc21x4x_send \/ SendTimeout \/ SendQueue \/ SendReturns \/ ChipTransmit
  BY <1>1, <1>5, Zenon DEF SetupReturns, dc21x4x_send, SendTimeout, SendQueue, SendReturns,
                    ChipTransmit, counts, modeVars
<1>6. CASE dc21x4x_recv \/ Recv
  BY <1>6, DriverImplements, Zenon
<1>7. CASE ChipReceive \/ ChipReceiveLong
  BY <1>7, ChipImplements, Zenon
<1>. QED  BY <1>2, <1>3, <1>4, <1>5, <1>6, <1>7, Zenon DEF Next

\* NetLoop() may take the ring for a queue: frames are passed up once, in the order
\* of their arrival unless a packet handler has reinitialised the device, and the ring
\* never takes more than it has room for.
THEOREM RingIsQueue == Spec => IsQueue
<1>1. Init => Queue!Init
  BY QueueInit, Zenon
<1>2. DcInv /\ [Next]_vars => [Queue!Next]_(Queue!vars)
  BY StepImplements, Zenon
<1>. QED  BY <1>1, <1>2, DriverCorrect, PTL DEF Spec, IsQueue, Queue!Spec

=============================================================================
