------------------------------ MODULE Dc21x4x ------------------------------
(***************************************************************************)
(* The driver of the board's Ethernet controller, drivers/net/dc2114x.c,   *)
(* against the controller (external), which works on the same descriptors  *)
(* by DMA at any time.                                                     *)
(*                                                                         *)
(* Frames on the wire are numbered in the order they arrive, packets of    *)
(* the caller in the order they are sent.                                  *)
(*                                                                         *)
(* rx says where the caller stands: "idle" outside dc21x4x_recv(), "loop"  *)
(* at the top of its loop, "handler" inside NetReceive().  tx says which   *)
(* wait loop on the transmit descriptor the driver is in, "none" if none:  *)
(* the caller does nothing else meanwhile.  Packets are sent, and the      *)
(* device is halted and initialised, both outside dc21x4x_recv() and by    *)
(* the packet handlers that NetReceive() calls (NetStartAgain()).          *)
(***************************************************************************)
EXTENDS Naturals, Sequences

CONSTANTS
  NumRx,       \* NUM_RX_DESC
  MaxFrames,   \* bound of the model: frames on the wire
  MaxLong,     \* bound of the model: frames longer than a receive buffer
  MaxSends,    \* bound of the model: packets the caller sends
  MaxInits     \* bound of the model: calls of dc21x4x_init()

ASSUME DcAssumption ==
  /\ NumRx \in Nat \ {0, 1}
  /\ {MaxFrames, MaxLong, MaxSends, MaxInits} \subseteq Nat

Rx == 0 .. NumRx - 1

VARIABLES
  rx, tx,
  rx_ring,       \* the status of each receive descriptor
  NetRxPackets,  \* the frame in each receive buffer
  rx_new,
  taken,         \* the buffer NetReceive() was called with
  tx_status,     \* of the one transmit descriptor
  tx_buf,        \* the buffer it points to
  NetTxPacket,   \* the packet in the caller's transmit buffer
  sent,          \* what the last dc21x4x_send() returned
  polled,        \* NetLoop() runs on the device
  running,       \* controller: OMR_ST and OMR_SR are set
  chip_rx,       \* controller: the receive descriptor it uses next
  filter,        \* controller: the addresses it listens to
  wire,          \* controller: the packets it has transmitted
  arrived, longs, inits,  \* how often the bounded things have happened
  passed,        \* history: the frame last given to NetReceive()
  held,          \* history: the ring still has the frame NetReceive() handles
  inStep         \* history: rx_new was reset outside dc21x4x_recv()

rxVars == <<rx, rx_ring, NetRxPackets, rx_new, taken, chip_rx, passed, held>>
txVars == <<tx, tx_status, tx_buf, NetTxPacket, sent, filter, wire>>
counts == <<arrived, longs, inits>>
modeVars == <<polled, running, inStep>>
vars == <<rxVars, txVars, counts, modeVars>>

\* R_OWN; a frame with or without RD_ES; a descriptor without RD_LS.
RxStatus == {"own", "ok", "es", "part"}

\* Every variable keeps to the values the registers and descriptors hold.
TypeOK ==
  /\ rx \in {"idle", "loop", "handler"}
  /\ tx \in {"none", "wait", "queued", "setup"}
  /\ rx_ring \in [Rx -> RxStatus]
  /\ NetRxPackets \in [Rx -> 0 .. MaxFrames]
  /\ {rx_new, taken, chip_rx} \subseteq Rx
  /\ tx_status \in {"own", "done", "es"}
  /\ tx_buf \in {"NetTxPacket", "setup_frame"}
  /\ NetTxPacket \in 0 .. MaxSends
  /\ sent \in {"none", "length", "error"}
  /\ running \in BOOLEAN
  /\ filter \in {"none", "ours", "garbage"}
  /\ wire \in Seq(1 .. MaxSends)
  /\ {arrived, passed} \subseteq 0 .. MaxFrames
  /\ longs \in 0 .. MaxLong
  /\ inits \in 0 .. MaxInits
  /\ {polled, held, inStep} \subseteq BOOLEAN

Init ==
  /\ rx = "idle" /\ tx = "none"
  /\ rx_ring = [i \in Rx |-> "part"]
  /\ NetRxPackets = [i \in Rx |-> 0]
  /\ rx_new = 0 /\ taken = 0 /\ chip_rx = 0
  /\ tx_status = "done" /\ tx_buf = "NetTxPacket" /\ NetTxPacket = 0
  /\ sent = "none"
  /\ polled = FALSE
  /\ running = FALSE
  /\ filter = "none"
  /\ wire = <<>>
  /\ arrived = 0 /\ longs = 0 /\ inits = 0
  /\ passed = 0
  /\ held = FALSE
  /\ inStep = TRUE

---------------------------------------------------------------------------
(***************************************************************************)
(* Initialising and halting.                                               *)
(***************************************************************************)

\* The caller is not inside the driver.
CallerRuns == tx = "none" /\ rx \in {"idle", "handler"}

\* Mutant: rx_new is not reset.
InitKeepsRxNew ==
  /\ CallerRuns
  /\ inits < MaxInits
  /\ inits' = inits + 1
  /\ rx_ring' = [i \in Rx |-> "own"]
  /\ chip_rx' = 0
  /\ polled' = TRUE
  /\ running' = TRUE
  /\ tx_status' = "own"
  /\ tx_buf' = "setup_frame"
  /\ tx' = "setup"
  /\ held' = FALSE
  /\ inStep' = (rx = "idle")
  /\ UNCHANGED <<rx, NetRxPackets, rx_new, taken, NetTxPacket, sent, filter,
                 wire, arrived, longs, passed>>

\* dc21x4x_init(), up to the wait of send_setup_frame(); the transmit
\* descriptor was just cleared, so its first wait is over at once.  rx_new is
\* reset whoever calls.
dc21x4x_init ==
  /\ CallerRuns
  /\ inits < MaxInits
  /\ inits' = inits + 1
  /\ rx_ring' = [i \in Rx |-> "own"]
  /\ rx_new' = 0
  /\ chip_rx' = 0
  /\ polled' = TRUE
  /\ running' = TRUE
  /\ tx_status' = "own"
  /\ tx_buf' = "setup_frame"
  /\ tx' = "setup"
  /\ held' = FALSE
  /\ inStep' = (rx = "idle")
  /\ UNCHANGED <<rx, NetRxPackets, taken, NetTxPacket, sent, filter, wire,
                 arrived, longs, passed>>

\* The reset fails: dc21x4x_init() returns before it touches the rings.  Outside
\* dc21x4x_recv() NetLoop() then gives up; NetStartAgain() does not look.
InitFails ==
  /\ CallerRuns
  /\ inits < MaxInits
  /\ inits' = inits + 1
  /\ polled' = (polled /\ rx = "handler")
  /\ running' = FALSE
  /\ UNCHANGED <<rxVars, txVars, arrived, longs, inStep>>

\* send_setup_frame() returns, the frame taken by the controller or not.
SetupReturns ==
  /\ tx = "setup"
  /\ tx' = "none"
  /\ UNCHANGED <<rxVars, tx_status, tx_buf, NetTxPacket, sent, filter, wire,
                 counts, modeVars>>

dc21x4x_halt ==
  /\ CallerRuns
  /\ running
  /\ polled' = (polled /\ rx = "handler")
  /\ running' = FALSE
  /\ UNCHANGED <<rxVars, txVars, counts, inStep>>

---------------------------------------------------------------------------
(***************************************************************************)
(* dc21x4x_send().                                                         *)
(***************************************************************************)

\* The caller composes a packet in its one transmit buffer and sends it.
dc21x4x_send ==
  /\ CallerRuns
  /\ polled
  /\ NetTxPacket < MaxSends
  /\ NetTxPacket' = NetTxPacket + 1
  /\ sent' = "none"
  /\ tx' = "wait"
  /\ UNCHANGED <<rxVars, tx_status, tx_buf, filter, wire, counts, modeVars>>

\* A wait loop runs out with the descriptor still owned by the controller.
SendTimeout ==
  /\ tx \in {"wait", "queued"}
  /\ tx_status = "own"
  /\ sent' = "error"
  /\ tx' = "none"
  /\ UNCHANGED <<rxVars, tx_status, tx_buf, NetTxPacket, filter, wire, counts,
                 modeVars>>

\* Mutant: the descriptor is not given to the controller again.
SendQueueForgets ==
  /\ tx = "wait"
  /\ tx_status # "own"
  /\ tx_buf' = "NetTxPacket"
  /\ tx' = "queued"
  /\ UNCHANGED <<rxVars, tx_status, NetTxPacket, sent, filter, wire, counts,
                 modeVars>>

SendQueue ==
  /\ tx = "wait"
  /\ tx_status # "own"
  /\ tx_buf' = "NetTxPacket"
  /\ tx_status' = "own"
  /\ tx' = "queued"
  /\ UNCHANGED <<rxVars, NetTxPacket, sent, filter, wire, counts, modeVars>>

\* Mutant: the second wait loop is missing.
SendReturnsEarly ==
  /\ tx = "queued"
  /\ sent' = IF tx_status = "es" THEN "error" ELSE "length"
  /\ tx_status' = "done"
  /\ tx' = "none"
  /\ UNCHANGED <<rxVars, tx_buf, NetTxPacket, filter, wire, counts, modeVars>>

SendReturns ==
  /\ tx = "queued"
  /\ tx_status # "own"
  /\ sent' = IF tx_status = "es" THEN "error" ELSE "length"
  /\ tx_status' = "done"
  /\ tx' = "none"
  /\ UNCHANGED <<rxVars, tx_buf, NetTxPacket, filter, wire, counts, modeVars>>

---------------------------------------------------------------------------
(***************************************************************************)
(* dc21x4x_recv().                                                         *)
(***************************************************************************)

dc21x4x_recv ==
  /\ rx = "idle"
  /\ tx = "none"
  /\ polled
  /\ rx' = "loop"
  /\ UNCHANGED <<rx_ring, NetRxPackets, rx_new, taken, chip_rx, passed, held,
                 txVars, counts, modeVars>>

\* The next descriptor belongs to the controller: return.
RecvReturns ==
  /\ rx = "loop"
  /\ rx_ring[rx_new] = "own"
  /\ rx' = "idle"
  /\ UNCHANGED <<rx_ring, NetRxPackets, rx_new, taken, chip_rx, passed, held,
                 txVars, counts, modeVars>>

\* Mutant: the index does not wrap.
NextRxRunsOn(i) == i + 1

NextRx(i) == (i + 1) % NumRx

\* RD_LS is not set: the descriptor is skipped and stays as it is.
RecvSkip ==
  /\ rx = "loop"
  /\ rx_ring[rx_new] = "part"
  /\ rx_new' = NextRx(rx_new)
  /\ UNCHANGED <<rx, rx_ring, NetRxPackets, taken, chip_rx, passed, held,
                 txVars, counts, modeVars>>

\* Mutant: a bad frame is left where it is.
RecvErrorStays ==
  /\ rx = "loop"
  /\ rx_ring[rx_new] = "es"
  /\ UNCHANGED vars

\* RD_ES is set: the buffer goes back at once.
RecvError ==
  /\ rx = "loop"
  /\ rx_ring[rx_new] = "es"
  /\ rx_ring' = [rx_ring EXCEPT ![rx_new] = "own"]
  /\ rx_new' = NextRx(rx_new)
  /\ UNCHANGED <<rx, NetRxPackets, taken, chip_rx, passed, held, txVars,
                 counts, modeVars>>

\* Mutant: the buffer goes back before the frame is looked at.
RecvFrameEarly ==
  /\ rx = "loop"
  /\ rx_ring[rx_new] = "ok"
  /\ rx_ring' = [rx_ring EXCEPT ![rx_new] = "own"]
  /\ rx' = "handler"
  /\ taken' = rx_new
  /\ passed' = NetRxPackets[rx_new]
  /\ held' = TRUE
  /\ UNCHANGED <<NetRxPackets, rx_new, chip_rx, txVars, counts, modeVars>>

\* NetReceive() is called with the frame.
RecvFrame ==
  /\ rx = "loop"
  /\ rx_ring[rx_new] = "ok"
  /\ rx' = "handler"
  /\ taken' = rx_new
  /\ passed' = NetRxPackets[rx_new]
  /\ held' = TRUE
  /\ UNCHANGED <<rx_ring, NetRxPackets, rx_new, chip_rx, txVars, counts,
                 modeVars>>

\* Mutants: the buffer is not given back, or rx_new stays.
RecvHandedKeeps ==
  /\ rx = "handler"
  /\ tx = "none"
  /\ rx_ring' = [rx_ring EXCEPT ![rx_new] = "part"]
  /\ rx_new' = NextRx(rx_new)
  /\ rx' = "loop"
  /\ held' = FALSE
  /\ UNCHANGED <<NetRxPackets, taken, chip_rx, passed, txVars, counts,
                 modeVars>>

RecvHandedStays ==
  /\ rx = "handler"
  /\ tx = "none"
  /\ rx_ring' = [rx_ring EXCEPT ![rx_new] = "own"]
  /\ rx' = "loop"
  /\ held' = FALSE
  /\ UNCHANGED <<NetRxPackets, rx_new, taken, chip_rx, passed, txVars, counts,
                 modeVars>>

\* NetReceive() returns: the descriptor at rx_new, as it is by now, goes back.
RecvHanded ==
  /\ rx = "handler"
  /\ tx = "none"
  /\ rx_ring' = [rx_ring EXCEPT ![rx_new] = "own"]
  /\ rx_new' = NextRx(rx_new)
  /\ rx' = "loop"
  /\ held' = FALSE
  /\ UNCHANGED <<NetRxPackets, taken, chip_rx, passed, txVars, counts,
                 modeVars>>

---------------------------------------------------------------------------
(***************************************************************************)
(* The controller (external).                                              *)
(***************************************************************************)

Store(i, status) ==
  /\ rx_ring' = [rx_ring EXCEPT ![i] = status]
  /\ NetRxPackets' = [NetRxPackets EXCEPT ![i] = arrived']
  /\ chip_rx' = NextRx(i)

\* A frame arrives.  It is lost when the next descriptor is not the
\* controller's, which then stays where it is.
ChipReceive ==
  /\ running
  /\ arrived < MaxFrames
  /\ arrived' = arrived + 1
  /\ IF rx_ring[chip_rx] = "own"
       THEN \E s \in {"ok", "es"} : Store(chip_rx, s)
       ELSE UNCHANGED <<rx_ring, NetRxPackets, chip_rx>>
  /\ UNCHANGED <<rx, rx_new, taken, passed, held, txVars, longs, inits,
                 modeVars>>

\* A frame that needs two buffers: only the second descriptor has RD_LS.
ChipReceiveLong ==
  /\ running
  /\ arrived < MaxFrames
  /\ longs < MaxLong
  /\ rx_ring[chip_rx] = "own"
  /\ rx_ring[NextRx(chip_rx)] = "own"
  /\ arrived' = arrived + 1
  /\ longs' = longs + 1
  /\ rx_ring' = [rx_ring EXCEPT ![chip_rx] = "part", ![NextRx(chip_rx)] = "ok"]
  /\ NetRxPackets' = [NetRxPackets EXCEPT ![NextRx(chip_rx)] = arrived']
  /\ chip_rx' = NextRx(NextRx(chip_rx))
  /\ UNCHANGED <<rx, rx_new, taken, passed, held, txVars, inits, modeVars>>

\* The controller reads the buffer of its transmit descriptor, as it is then:
\* the setup frame is on the stack of a function that may have returned.
ChipTransmit ==
  /\ running
  /\ tx_status = "own"
  /\ \/ /\ tx_buf = "NetTxPacket"
        /\ \/ tx_status' = "done" /\ wire' = Append(wire, NetTxPacket)
           \/ tx_status' = "es" /\ UNCHANGED wire
        /\ UNCHANGED filter
     \/ /\ tx_buf = "setup_frame"
        /\ tx_status' = "done"
        /\ filter' = IF tx = "setup" THEN "ours" ELSE "garbage"
        /\ UNCHANGED wire
  /\ UNCHANGED <<rxVars, tx, tx_buf, NetTxPacket, sent, counts, modeVars>>

Recv == RecvReturns \/ RecvSkip \/ RecvError \/ RecvFrame \/ RecvHanded

Next ==
  \/ dc21x4x_init
  \/ InitFails
  \/ SetupReturns
  \/ dc21x4x_halt
  \/ dc21x4x_send
  \/ SendTimeout
  \/ SendQueue
  \/ SendReturns
  \/ dc21x4x_recv
  \/ Recv
  \/ ChipReceive
  \/ ChipReceiveLong
  \/ ChipTransmit

Spec == Init /\ [][Next]_vars

\* NetLoop() keeps calling eth_rx(), packet handlers return, and a wait loop
\* of the driver ends, by the controller or by TOUT_LOOP.
FairSpec ==
  /\ Spec
  /\ WF_vars(dc21x4x_recv)
  /\ WF_vars(Recv)
  /\ WF_vars(SetupReturns)
  /\ WF_vars(SendTimeout \/ SendQueue \/ SendReturns)

---------------------------------------------------------------------------
(***************************************************************************)
(* Properties.                                                             *)
(***************************************************************************)

\* The last packet on the wire is the one in the caller's transmit buffer.
OnWire == Len(wire) > 0 /\ wire[Len(wire)] = NetTxPacket

\* dc21x4x_send() returns the length only when the controller has put this
\* very packet on the wire, also after earlier packets whose wait loop ran
\* out while the controller still owned their descriptor.
SentIfReported ==
  sent = "length" => OnWire

\* The controller does not write into the buffer that NetReceive() was called
\* with, unless the packet handler has reinitialised the device.
NotOverwritten ==
  held => NetRxPackets[taken] = passed /\ rx_ring[taken] = "ok"

\* Whenever the driver is done with the ring, the controller has a buffer for
\* the next frame.  (A frame longer than a buffer costs the ring a buffer: the
\* descriptor without RD_LS is never given back.)
BufferOffered ==
  rx = "idle" /\ running /\ longs = 0 /\ rx_ring[chip_rx] # "own"
    => rx_ring[rx_new] # "own"

\* The frames stored for the driver.
Waiting == {i \in Rx : rx_ring[i] = "ok" /\ ~(held /\ i = taken)}
Pending == {NetRxPackets[i] : i \in Waiting}

Queue == INSTANCE EthQueue WITH Capacity <- NumRx, queue <- Pending, ordered <- inStep

\* The ring is a queue of frames, each passed up once and in the order of
\* arrival, whatever the controller stores while the driver walks the ring;
\* only a packet handler that reinitialises the device breaks the order.
IsQueue == Queue!Spec

\* A frame the controller has stored is passed up, unless NetLoop() ends or a
\* packet handler reinitialises the device first: the driver never waits at a
\* descriptor that the controller has already gone past.
FrameTaken ==
  \A f \in 1 .. MaxFrames :
    inStep /\ f \in Pending ~> f \notin Pending \/ ~inStep \/ ~polled

\* dc21x4x_recv() returns to NetLoop(), which polls ctrl-C and the timer, once
\* frames cease to come: no descriptor makes its loop turn for ever.  As long
\* as there is a frame in every turn the loop, which has no limit, goes on.
RecvEnds == <>[][~(ChipReceive \/ ChipReceiveLong)]_vars => (rx = "loop" ~> rx = "idle")

---------------------------------------------------------------------------
(***************************************************************************)
(* Why all but the last two hold: the inductive invariant.                 *)
(***************************************************************************)
\* The descriptor the controller has is of the packet in the caller's buffer.
TxInv ==
  /\ tx \in {"wait", "queued"} => NetTxPacket > 0
  /\ tx_status = "own" /\ tx_buf = "NetTxPacket" => NetTxPacket > 0
  /\ tx = "queued" => tx_buf = "NetTxPacket"
  /\ tx = "queued" /\ tx_status = "done" => OnWire

\* The descriptor i is in the ring from a on, before c.
From(a, i, c) == IF a <= c THEN a <= i /\ i < c ELSE a <= i \/ i < c

\* The descriptors that are not the controller's.  In step they are those from
\* rx_new up to the controller, or all.  After dc21x4x_init() in a packet
\* handler dc21x4x_recv() goes on from descriptor 1, though the controller
\* starts at 0 again: descriptor 0 then stays behind until the driver has been
\* round the ring, which the controller cannot pass either.
InStep == \A i \in Rx : rx_ring[i] # "own" <=> From(rx_new, i, chip_rx)
Full == rx_new = chip_rx /\ \A i \in Rx : rx_ring[i] # "own"
Ahead == rx_new = 1 /\ chip_rx = 0 /\ \A i \in Rx : rx_ring[i] = "own"
LeftBehind ==
  /\ chip_rx # 0 => rx_new \in 1 .. chip_rx
  /\ \A i \in Rx : rx_ring[i] # "own" <=>
       \/ i = 0
       \/ rx_new # 0 /\ rx_new <= i /\ (chip_rx # 0 => i < chip_rx)

RingInv ==
  /\ held => taken = rx_new
  /\ rx = "handler" /\ ~held => rx_new = 0
  /\ running /\ longs = 0 =>
       /\ \A i \in Rx : rx_ring[i] # "part"
       /\ InStep \/ Full \/ Ahead \/ LeftBehind

\* While the driver and the controller are in step, frames are stored in the
\* order in which the driver comes to them, and there is none it has passed
\* already.  Descriptors it has skipped may be anywhere; at one of them the
\* controller waits for ever.
InOrder ==
  /\ \A i, j \in Rx :
       rx_ring[i] = "ok" /\ rx_ring[j] = "ok" /\ From(rx_new, i, j)
         => NetRxPackets[i] < NetRxPackets[j]
  /\ \/ rx_ring[chip_rx] = "part"
     \/ rx_new = chip_rx /\ \A i \in Rx : rx_ring[i] # "own"
     \/ \A i \in Rx : IF From(rx_new, i, chip_rx) THEN rx_ring[i] # "own"
                                                 ELSE rx_ring[i] \in {"own", "part"}

\* No frame is in the ring twice, or before it has arrived.
QueueInv ==
  /\ \A i, j \in Rx :
       rx_ring[i] = "ok" /\ rx_ring[j] = "ok" /\ NetRxPackets[i] = NetRxPackets[j] => i = j
  /\ \A i \in Rx : rx_ring[i] = "ok" => NetRxPackets[i] <= arrived
  /\ inStep => InOrder /\ (rx = "handler" => held)

\* The inductive invariant: types, what the wait of dc21x4x_send() is for, that
\* a frame is held only while NetReceive() handles it, who owns which
\* descriptor, and which frames are in them.
DcInv ==
  /\ TypeOK
  /\ TxInv
  /\ SentIfReported
  /\ held => rx = "handler"
  /\ NotOverwritten
  /\ RingInv
  /\ QueueInv

=============================================================================
