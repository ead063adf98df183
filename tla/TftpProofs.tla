------------------------------ MODULE TftpProofs ------------------------------
(***************************************************************************)
(* Module Tftp: type correctness; then TransferInv, which is inductive     *)
(* when block numbers do not wrap and ports are not reused, step by step;  *)
(* and from it SuccessIntegrity: a tftpboot command that reports success   *)
(* has loaded exactly the file asked for.                                  *)
(***************************************************************************)
EXTENDS Tftp, NetLoopProofs

USE DEF LoopPhases, TimerDue

TypeInv == TypeOK /\ ControlInv

\* A block of a session carries a length, and its number fits the header.
LEMMA DataType ==
  ASSUME NEW s \in ServerPorts, NEW p \in ClientPorts, NEW f \in Files,
         NEW n \in Nat \ {0}, NEW b \in Sizes, Base(n, b) <= Size[f]
  PROVE  Data(s, p, f, n, b) \in DataPackets
<1>1. b \in Nat /\ Size[f] \in Nat /\ SeqSize \in Nat \ {0}
  BY TftpAssumption, Zenon
<1>2. n % SeqSize \in 0 .. SeqSize - 1
  BY <1>1
<1>3. Base(n, b) \in Nat
  BY <1>1 DEF Base
<1>4. BlockLen(f, n, b) \in Nat
  BY <1>1, <1>3 DEF BlockLen
<1>. QED  BY <1>2, <1>3, <1>4, Zenon DEF Data, DataPackets

\* The statically initialised variables have their types.
LEMMA TypeInit == ASSUME Init PROVE TypeInv
<1>1. LoopTypeOK
  BY LoopInitType, Zenon DEF Init
<1>2. mem \in [0 .. MemTop -> Bytes]
  BY Zenon DEF Init, Bytes, NoByte
<1>3. session \in [ServerPorts -> Sessions]
  BY Zenon DEF Init, Sessions
<1>4. TypeOK
  BY <1>1, <1>2, <1>3, TftpAssumption DEF Init, TypeOK, TftpStates, Sizes
<1>5. ControlInv
  BY Zenon DEF Init, LoopInit, ControlInv
<1>. QED  BY <1>4, <1>5, Zenon DEF TypeInv

\* Entering NetLoop() for a file of the server.
LEMMA TypeTftpboot ==
  ASSUME TypeInv, NEW f \in Files, Tftpboot(f)
  PROVE  TypeInv'
<1>. USE DEF TypeInv, Tftpboot, tftpVars, serverVars
<1>1. /\ LoopTypeOK'
      /\ \/ phase' = "restart" /\ NetState' = "CONTINUE"
         \/ phase' = "idle"
      /\ UNCHANGED <<timeHandler, packetHandler>>
  BY EnterLoop, Zenon DEF TypeOK
<1>2. TypeOK'
  BY <1>1, Zenon DEF TypeOK
<1>3. ControlInv'
  BY <1>1, Zenon DEF ControlInv, Enter
<1>. QED  BY <1>2, <1>3, Zenon

\* TftpStart() asks for a file the server has, from a client port.
LEMMA TypeTftpStart ==
  ASSUME TypeInv, TftpStart
  PROVE  TypeInv'
<1>. USE DEF TypeInv, serverVars, ethVars
<1>1. PICK p \in ClientPorts : TftpOurPort' = p /\ Send(Rrq(p, BootFile))
  BY Zenon DEF TftpStart
<1>2. BootFile \in Files
  BY Zenon DEF TftpStart, StartProtocol, ControlInv
<1>3. toServer' \subseteq RrqPackets \cup AckPackets
  BY <1>1, <1>2 DEF TypeOK, Send, Rrq, RrqPackets
<1>4. LoopTypeOK'
  BY Zenon DEF TypeOK, LoopTypeOK, TftpStart, StartProtocol, TimeHandlers, PacketHandlers, Phases
<1>5. TypeOK'
  BY <1>1, <1>2, <1>3, <1>4, TftpAssumption DEF TypeOK, TftpStart, TftpStates, Sizes
<1>6. ControlInv'
  BY <1>1, <1>2, TftpAssumption, Zenon DEF TftpStart, StartProtocol, ControlInv
<1>. QED  BY <1>5, <1>6, Zenon

\* An OACK.
LEMMA TypeOack ==
  ASSUME TypeInv, NEW m \in toClient, ReceiveOack(m)
  PROVE  TypeInv'
<1>. USE DEF TypeInv, serverVars
<1>1. m \in OackPackets
  BY Zenon DEF TypeOK, ReceiveOack, OackPackets, ErrPackets, DataPackets
<1>2. TftpOurPort \in ClientPorts
  BY Zenon DEF TypeOK, ControlInv, ReceiveOack, Accepts
<1>3. toServer' \subseteq RrqPackets \cup AckPackets
  BY <1>1, <1>2 DEF TypeOK, ReceiveOack, Send, Ack, AckPackets, OackPackets
<1>4. TftpBlkSize' \in Sizes
  BY <1>1, Zenon DEF TypeOK, ReceiveOack, OackPackets, Sizes
<1>5. TypeOK'
  BY <1>1, <1>3, <1>4, Zenon
     DEF TypeOK, ReceiveOack, TftpStates, OackPackets, LoopTypeOK, loopVars
<1>6. ControlInv'
  BY Zenon DEF ControlInv, ReceiveOack, loopVars, Accepts
<1>. QED  BY <1>5, <1>6, Zenon

\* What the three DATA cases have in common.
LEMMA TypeDataHead ==
  ASSUME TypeInv, NEW m \in toClient, DataHead(m)
  PROVE  /\ m \in DataPackets
         /\ TftpOurPort \in ClientPorts
         /\ phase = "rx"
         /\ TftpBlock' \in 0 .. SeqSize - 1
         /\ TftpState' = "DATA"
         /\ TftpServerPort' \in ServerPorts
         /\ TftpBlockWrapOffset' \in Nat
         /\ m.blk = 0 /\ ~ExpectsFirst => TftpBlockWrapOffset' >= TftpBlkSize
         /\ UNCHANGED <<tftp_filename, TftpOurPort, TftpTimeoutCount, TftpBlkSize,
                        BootFile, filesize, toClient, session>>
<1>. USE DEF TypeInv, serverVars
<1>1. m \in DataPackets
  BY Zenon DEF TypeOK, DataHead, OackPackets, ErrPackets, DataPackets
<1>2. TftpOurPort \in ClientPorts /\ phase = "rx"
  BY Zenon DEF TypeOK, ControlInv, DataHead, Accepts
<1>3. TftpBlkSize \in Nat \ {0} /\ SeqSize \in Nat \ {0} /\ TftpBlockWrapOffset \in Nat
  BY TftpAssumption, Zenon DEF TypeOK
<1>4. TftpBlkSize * SeqSize \in Nat /\ TftpBlkSize * SeqSize >= TftpBlkSize
  BY <1>3
<1>5. TftpBlockWrapOffset' \in Nat
  BY <1>3, <1>4 DEF DataHead
<1>6. m.blk = 0 /\ ~ExpectsFirst => TftpBlockWrapOffset' >= TftpBlkSize
  BY <1>3, <1>4 DEF DataHead
<1>. QED  BY <1>1, <1>2, <1>5, <1>6, Zenon DEF DataHead, DataPackets

\* A first DATA packet that is not block 1 leads to NetStartAgain() and keeps
\* the types.
LEMMA TypeNotBlockOne ==
  ASSUME TypeInv, NEW m \in toClient, ReceiveNotBlockOne(m)
  PROVE  TypeInv'
<1>. USE DEF TypeInv
<1>1. DataHead(m)
  BY Zenon DEF ReceiveNotBlockOne
<1>2. LoopTypeOK' /\ phase' \in LoopPhases /\ UNCHANGED <<NetDevExists, result>>
      /\ (phase' \in {"poll", "timer", "switch"} => NetState' # "CONTINUE")
  BY <1>1, StartAgainLoop, TypeDataHead, Zenon DEF TypeOK, ReceiveNotBlockOne
<1>3. TypeOK'
  BY <1>1, <1>2, TypeDataHead, TftpAssumption DEF TypeOK, ReceiveNotBlockOne, TftpStates
<1>4. ControlInv'
  BY <1>1, <1>2, TypeDataHead, Zenon DEF ControlInv, ReceiveNotBlockOne, TypeOK
<1>. QED  BY <1>3, <1>4, Zenon

\* A repeated block changes only the wrap offset and keeps the types.
LEMMA TypeSameBlock ==
  ASSUME TypeInv, NEW m \in toClient, ReceiveSameBlock(m)
  PROVE  TypeInv'
<1>. USE DEF TypeInv
<1>1. DataHead(m)
  BY Zenon DEF ReceiveSameBlock
<1>2. TypeOK'
  BY <1>1, TypeDataHead, Zenon DEF TypeOK, ReceiveSameBlock, TftpStates, loopVars, LoopTypeOK
<1>3. ControlInv'
  BY <1>1, TypeDataHead, Zenon DEF ControlInv, ReceiveSameBlock, loopVars
<1>. QED  BY <1>2, <1>3, Zenon

\* Storing a block keeps memory, the size and the acknowledgement well typed
\* (store_block, TftpSend).
LEMMA TypeNewBlock ==
  ASSUME TypeInv, NEW m \in toClient, ReceiveNewBlock(m)
  PROVE  TypeInv'
<1>. USE DEF TypeInv
<1>1. DataHead(m)
  BY Zenon DEF ReceiveNewBlock
<1>. DEFINE off == StoreOffset(m)
<1>2. off \in Nat
  <2>1. m.blk \in Nat /\ TftpBlkSize \in Nat /\ TftpBlockWrapOffset' \in Nat
    BY <1>1, TypeDataHead, TftpAssumption DEF TypeOK, DataPackets
  <2>2. CASE m.blk = 0
    <3>1. TftpBlockWrapOffset' >= TftpBlkSize
      <4>1. ~ExpectsFirst
        BY <2>2 DEF ReceiveNewBlock
      <4>. QED  BY <1>1, <2>2, <4>1, TypeDataHead, Zenon
    <3>2. (m.blk - 1) * TftpBlkSize = 0 - TftpBlkSize
      BY <2>1, <2>2
    <3>. QED  BY <2>1, <3>1, <3>2 DEF StoreOffset
  <2>3. CASE m.blk # 0
    <3>1. (m.blk - 1) * TftpBlkSize \in Nat
      BY <2>1, <2>3
    <3>. QED  BY <2>1, <3>1 DEF StoreOffset
  <2>. QED  BY <2>2, <2>3, Zenon
<1>3. mem' \in [0 .. MemTop -> Bytes]
  <2>1. m.base \in Nat /\ m.file \in Files
    BY <1>1, TypeDataHead, Zenon DEF DataPackets
  <2>2. ASSUME NEW o \in 0 .. MemTop
        PROVE  Stored(m, off)[o] \in Bytes
    <3>1. CASE off <= o /\ o < off + m.len
      <4>1. m.base + (o - off) \in Nat
        BY <1>2, <2>1, <3>1, TftpAssumption
      <4>. QED  BY <2>1, <3>1, <4>1, Zenon DEF Stored, Bytes
    <3>2. CASE ~(off <= o /\ o < off + m.len)
      BY <3>2, Zenon DEF Stored, TypeOK
    <3>. QED  BY <3>1, <3>2, Zenon
  <2>3. mem' = Stored(m, off)
    BY Zenon DEF ReceiveNewBlock, store_block
  <2>. QED  BY <2>2, <2>3, Zenon DEF Stored
<1>4. NetBootFileXferSize' \in Nat
  <2>1. m.len \in Nat
    BY <1>1, TypeDataHead, Zenon DEF DataPackets
  <2>. QED  BY <1>2, <2>1 DEF ReceiveNewBlock, store_block, TypeOK
<1>5. toServer' \subseteq RrqPackets \cup AckPackets
  BY <1>1, TypeDataHead DEF ReceiveNewBlock, Send, Ack, AckPackets, DataPackets, TypeOK
<1>6. LoopTypeOK'
  BY Zenon DEF TypeOK, LoopTypeOK, ReceiveNewBlock, ethVars, TimeHandlers, NetStates
<1>7. TypeOK'
  <2>1. TftpLastBlock' \in 0 .. SeqSize - 1
    BY <1>1, TypeDataHead, Zenon DEF ReceiveNewBlock, DataPackets
  <2>. QED
    BY <1>1, <1>3, <1>4, <1>5, <1>6, <2>1, TypeDataHead, Zenon
       DEF TypeOK, ReceiveNewBlock, TftpStates
<1>8. ControlInv'
  BY <1>1, TypeDataHead, Zenon DEF ControlInv, ReceiveNewBlock
<1>. QED  BY <1>7, <1>8, Zenon

\* An ERROR packet ends the command or starts again; either keeps the types.
LEMMA TypeError ==
  ASSUME TypeInv, NEW m \in toClient, ReceiveError(m)
  PROVE  TypeInv'
<1>. USE DEF TypeInv, tftpVars, serverVars, handlerVars
<1>1. phase = "rx"
  BY Zenon DEF ReceiveError, Accepts
<1>2. /\ LoopTypeOK'
      /\ phase' \in LoopPhases
      /\ phase' \in {"poll", "timer", "switch"} => NetState' # "CONTINUE"
      /\ UNCHANGED <<NetDevExists, result>>
  <2>1. CASE m.code = "not retried"
    BY <1>1, <2>1, Zenon DEF ReceiveError, TypeOK, LoopTypeOK, eth_halt, NetStates
  <2>2. CASE m.code = "other"
    BY <1>1, <2>2, StartAgainLoop, Zenon DEF ReceiveError, TypeOK
  <2>. QED  BY <2>1, <2>2, Zenon DEF ReceiveError
<1>3. TypeOK'
  BY <1>2, Zenon DEF TypeOK, ReceiveError
<1>4. ControlInv'
  BY <1>1, <1>2, Zenon DEF ControlInv, ReceiveError
<1>. QED  BY <1>3, <1>4, Zenon

\* TftpTimeout() resends or starts again; either keeps the types.
LEMMA TypeTimeout ==
  ASSUME TypeInv, TftpTimeout
  PROVE  TypeInv'
<1>. USE DEF TypeInv, serverVars, handlerVars
<1>1. phase \in {"rx", "poll", "timer"} /\ (phase \in {"poll", "timer"} => NetState # "CONTINUE")
  BY Zenon DEF TftpTimeout, ControlInv
<1>2. /\ LoopTypeOK'
      /\ phase' \in LoopPhases
      /\ phase' \in {"poll", "timer", "switch"} => NetState' # "CONTINUE"
      /\ UNCHANGED <<NetDevExists, result>>
  <2>1. CASE TftpTimeoutCount' > TftpTimeoutCountMax
    <3>1. StartAgainFromTimer
      BY <2>1, TftpAssumption DEF TftpTimeout, TypeOK
    <3>. QED  BY <1>1, <3>1, StartAgainLoop, Zenon DEF TypeOK
  <2>2. CASE TftpTimeoutCount' <= TftpTimeoutCountMax
    <3>1. /\ phase' = IF NetState = "CONTINUE" THEN "rx" ELSE "switch"
          /\ UNCHANGED <<NetState, NetTryCount, NetRestarted, NetDevExists,
                         handlerVars, result, ethVars>>
      BY <2>2, TftpAssumption DEF TftpTimeout, TypeOK
    <3>. QED  BY <1>1, <3>1, Zenon DEF TypeOK, LoopTypeOK, ethVars, Phases
  <2>. QED  BY <2>1, <2>2, TftpAssumption, Zenon DEF TftpTimeout, TypeOK
<1>3. toServer' \subseteq RrqPackets \cup AckPackets
  <2>1. TftpOurPort \in ClientPorts /\ tftp_filename \in Files
    BY <1>1, Zenon DEF ControlInv, TypeOK
  <2>2. Rrq(TftpOurPort, tftp_filename) \in RrqPackets
    BY <2>1, Zenon DEF Rrq, RrqPackets
  <2>3. Ack(TftpOurPort, TftpServerPort, TftpBlock) \in AckPackets
    BY <2>1, Zenon DEF Ack, AckPackets, TypeOK
  <2>4. toServer \subseteq RrqPackets \cup AckPackets
    BY Zenon DEF TypeOK
  <2>5. toServer' \subseteq toServer \cup {Rrq(TftpOurPort, tftp_filename),
                                         Ack(TftpOurPort, TftpServerPort, TftpBlock)}
    BY Zenon DEF TftpTimeout, Resend, Send
  <2>. QED  BY <2>2, <2>3, <2>4, <2>5, Zenon
<1>4. TypeOK'
  BY <1>2, <1>3 DEF TypeOK, TftpTimeout
<1>5. ControlInv'
  BY <1>1, <1>2, Zenon DEF ControlInv, TftpTimeout
<1>. QED  BY <1>4, <1>5, Zenon

\* NETLOOP_SUCCESS keeps the types, filesize included.
LEMMA TypeDone ==
  ASSUME TypeInv, TftpDone
  PROVE  TypeInv'
<1>. USE DEF TypeInv, tftpVars, serverVars
<1>1. LoopTypeOK'
  BY Zenon DEF TypeOK, LoopTypeOK, TftpDone, Succeed, eth_halt, Phases, Results
<1>2. TypeOK'
  BY <1>1, Zenon DEF TypeOK, TftpDone
<1>3. ControlInv'
  BY Zenon DEF ControlInv, TftpDone, Succeed
<1>. QED  BY <1>2, <1>3, Zenon

\* The steps of NetLoop() that leave TFTP alone keep the types.
LEMMA TypeLoopStep ==
  ASSUME TypeInv, LoopStep
  PROVE  TypeInv'
<1>. USE DEF TypeInv, tftpVars, serverVars, handlerVars, ethVars
<1>1. CASE StartAgainFromArp
  <2>1. /\ LoopTypeOK'
        /\ phase' \in LoopPhases /\ phase \in LoopPhases
        /\ phase' \in {"poll", "timer", "switch"} => NetState' # "CONTINUE"
        /\ UNCHANGED <<NetDevExists, result>>
    BY <1>1, StartAgainLoop, Zenon DEF TypeOK, ControlInv, StartAgainFromArp
  <2>2. TypeOK'
    BY <2>1, Zenon DEF TypeOK, LoopStep
  <2>3. ControlInv'
    BY <2>1, Zenon DEF ControlInv, LoopStep
  <2>. QED  BY <2>2, <2>3, Zenon
<1>2. CASE NotConfigured \/ Abort \/ StartAgainTimeout \/ Restart \/ Fail
  <2>1. LoopTypeOK'
    BY <1>2, Zenon DEF TypeOK, LoopTypeOK, NotConfigured, Abort, StartAgainTimeout, Restart,
                Fail, eth_halt, Phases, NetStates, TimeHandlers, Results
  <2>2. TypeOK'
    BY <2>1, Zenon DEF TypeOK, LoopStep
  <2>3. ControlInv'
    BY <1>2, Zenon
       DEF ControlInv, LoopStep, NotConfigured, Abort, StartAgainTimeout, Restart, Fail
  <2>. QED  BY <2>2, <2>3, Zenon
<1>. QED  BY <1>1, <1>2, Zenon DEF LoopStep

\* A session that may go on has not run past the end of its file.
LEMMA NextBlockExists ==
  ASSUME NEW f \in Files, NEW b \in Sizes, NEW n \in Nat,
         n = 0 \/ BlockLen(f, n, b) = b
  PROVE  Base(n + 1, b) <= Size[f]
<1>1. b \in Nat \ {0} /\ Size[f] \in Nat
  BY TftpAssumption, Zenon
<1>2. Base(n + 1, b) = Base(n, b) + b /\ Base(n, b) \in Int
  BY <1>1 DEF Base
<1>3. CASE n = 0
  BY <1>1, <1>3 DEF Base
<1>4. CASE n # 0
  BY <1>1, <1>2, <1>4 DEF BlockLen
<1>. QED  BY <1>3, <1>4, Zenon

\* The three answers of the server to a request, and its answer to an
\* acknowledgement, are well typed.
LEMMA TypeAccept ==
  ASSUME TypeInv, NEW s \in ServerPorts, NEW m \in toServer, ServerAccept(s, m)
  PROVE  /\ session' \in [ServerPorts -> Sessions]
         /\ toClient' \subseteq OackPackets \cup ErrPackets \cup DataPackets
<1>0. TypeOK
  BY Zenon DEF TypeInv
<1>1. m \in RrqPackets
  <2>1. m.type = "RRQ" /\ m \in RrqPackets \cup AckPackets
    BY <1>0, Zenon DEF TypeOK, ServerAccept
  <2>2. \A q \in AckPackets : q.type = "ACK"
    BY Zenon DEF AckPackets
  <2>. QED  BY <2>1, <2>2, Zenon
<1>2. m.src \in ClientPorts /\ m.file \in Files /\ DefaultBlkSize \in Sizes
  BY <1>1, Zenon DEF RrqPackets, Sizes
<1>3. ASSUME NEW b \in OptBlkSizes \cup {0},
             session' = [session EXCEPT ![s] =
               [st |-> "open", cport |-> m.src, file |-> m.file, reply |-> "OACK", n |-> 0,
                blksize |-> IF b = 0 THEN DefaultBlkSize ELSE b]],
             toClient' = toClient \cup {Oack(s, m.src, b)}
      PROVE  /\ session' \in [ServerPorts -> Sessions]
             /\ toClient' \subseteq OackPackets \cup ErrPackets \cup DataPackets
  <2>1. (IF b = 0 THEN DefaultBlkSize ELSE b) \in Sizes
    BY Zenon DEF Sizes
  <2>2. [st |-> "open", cport |-> m.src, file |-> m.file, reply |-> "OACK", n |-> 0,
         blksize |-> IF b = 0 THEN DefaultBlkSize ELSE b] \in Sessions
    BY <1>2, <2>1, Zenon DEF Sessions
  <2>3. Oack(s, m.src, b) \in OackPackets
    BY <1>2, Zenon DEF Oack, OackPackets
  <2>. QED  BY <1>0, <1>3, <2>2, <2>3, Zenon DEF TypeOK
<1>4. ASSUME session' = [session EXCEPT ![s] =
               [st |-> "open", cport |-> m.src, file |-> m.file, reply |-> "DATA", n |-> 1,
                blksize |-> DefaultBlkSize]],
             toClient' = toClient \cup {Data(s, m.src, m.file, 1, DefaultBlkSize)}
      PROVE  /\ session' \in [ServerPorts -> Sessions]
             /\ toClient' \subseteq OackPackets \cup ErrPackets \cup DataPackets
  <2>1. [st |-> "open", cport |-> m.src, file |-> m.file, reply |-> "DATA", n |-> 1,
         blksize |-> DefaultBlkSize] \in Sessions
    BY <1>2, Zenon DEF Sessions
  <2>2. Base(1, DefaultBlkSize) <= Size[m.file]
    BY <1>2, NextBlockExists, 0 + 1 = 1, Zenon
  <2>3. Data(s, m.src, m.file, 1, DefaultBlkSize) \in DataPackets
    BY <1>2, <2>2, DataType
  <2>. QED  BY <1>0, <1>4, <2>1, <2>3, Zenon DEF TypeOK
<1>5. ASSUME NEW c \in ErrCodes,
             session' = [session EXCEPT ![s] =
               [st |-> "refused", cport |-> m.src, file |-> m.file, reply |-> "ERROR",
                n |-> 0, blksize |-> DefaultBlkSize]],
             toClient' = toClient \cup {Err(s, m.src, c)}
      PROVE  /\ session' \in [ServerPorts -> Sessions]
             /\ toClient' \subseteq OackPackets \cup ErrPackets \cup DataPackets
  <2>1. [st |-> "refused", cport |-> m.src, file |-> m.file, reply |-> "ERROR",
         n |-> 0, blksize |-> DefaultBlkSize] \in Sessions
    BY <1>2, Zenon DEF Sessions
  <2>2. Err(s, m.src, c) \in ErrPackets
    BY <1>2, Zenon DEF Err, ErrPackets
  <2>. QED  BY <1>0, <1>5, <2>1, <2>2, Zenon DEF TypeOK
<1>. QED  BY <1>3, <1>4, <1>5, Zenon DEF ServerAccept

\* An acknowledged block makes the server send one that exists.
LEMMA TypeAck ==
  ASSUME TypeInv, NEW s \in ServerPorts, NEW m \in toServer, ServerAck(s, m)
  PROVE  /\ session' \in [ServerPorts -> Sessions]
         /\ toClient' \subseteq OackPackets \cup ErrPackets \cup DataPackets
<1>0. TypeOK
  BY Zenon DEF TypeInv
<1>. DEFINE e == session[s]
<1>1. /\ e.st = "open"
      /\ e.cport \in ClientPorts
      /\ e.file \in Files
      /\ e.blksize \in Sizes
      /\ e.reply \in {"OACK", "DATA", "ERROR"}
      /\ e.n \in Nat
  BY <1>0 DEF TypeOK, Sessions, Closed, ServerAck
<1>e. e = [st |-> e.st, cport |-> e.cport, file |-> e.file, blksize |-> e.blksize,
           reply |-> e.reply, n |-> e.n]
  BY <1>0 DEF TypeOK, Sessions, Closed, ServerAck
<1>2. Base(e.n + 1, e.blksize) <= Size[e.file]
  BY <1>1, NextBlockExists, Zenon DEF ServerAck, LastSentFull
<1>3. Data(s, m.src, e.file, e.n + 1, e.blksize) \in DataPackets
  <2>1. m.src = e.cport
    BY Zenon DEF ServerAck
  <2>2. e.n + 1 \in Nat \ {0}
    BY <1>1
  <2>3. Data(s, e.cport, e.file, e.n + 1, e.blksize) \in DataPackets
    BY <1>1, <1>2, <2>2, DataType, Zenon
  <2>. QED  BY <2>1, <2>3, Zenon
<1>4. [e EXCEPT !.n = e.n + 1] \in Sessions
  BY <1>1, <1>e DEF Sessions
<1>. QED  BY <1>0, <1>3, <1>4, Zenon DEF TypeOK, ServerAck

\* A step of the server keeps the types of sessions and packets.
LEMMA TypeServer ==
  ASSUME TypeInv, ServerStep
  PROVE  TypeInv'
<1>1. /\ session' \in [ServerPorts -> Sessions]
      /\ toClient' \subseteq OackPackets \cup ErrPackets \cup DataPackets
  BY TypeAccept, TypeAck, Zenon DEF ServerStep
<1>2. TypeOK'
  BY <1>1 DEF TypeInv, TypeOK, LoopTypeOK, ServerStep, loopVars, tftpVars
<1>3. ControlInv'
  BY Zenon DEF TypeInv, ControlInv, ServerStep, loopVars, tftpVars
<1>. QED  BY <1>2, <1>3, Zenon DEF TypeInv

\* Every step of the system keeps TypeInv, one case per action.
LEMMA TypeNext ==
  ASSUME TypeInv, [Next]_vars
  PROVE  TypeInv'
<1>1. CASE UNCHANGED vars
  <2>1. UNCHANGED <<loopVars, tftpVars, BootFile, filesize, toServer, serverVars>>
    BY <1>1, Zenon DEF vars
  <2>2. LoopTypeOK'
    BY <2>1, Zenon DEF TypeInv, TypeOK, LoopTypeOK, loopVars
  <2>3. TypeOK'
    BY <2>1, <2>2, Zenon DEF TypeInv, TypeOK, tftpVars, serverVars
  <2>4. ControlInv'
    BY <2>1, Zenon DEF TypeInv, ControlInv, loopVars, tftpVars
  <2>. QED  BY <2>3, <2>4, Zenon DEF TypeInv
<1>2. ASSUME NEW m \in toClient, Receive(m) PROVE TypeInv'
  BY <1>2, TypeOack, TypeNotBlockOne, TypeSameBlock, TypeNewBlock, TypeError, Zenon DEF Receive
<1>. QED
  BY <1>1, <1>2, TypeTftpboot, TypeTftpStart, TypeTimeout, TypeDone, TypeLoopStep, TypeServer, Zenon
     DEF Next

\* Type correctness of the TFTP client, the loop around it and the packets
\* it sends, for every instance, files with wrapping block numbers included.
THEOREM TypeCorrect == Spec => []TypeOK
<1>1. Init => TypeInv
  BY TypeInit, Zenon
<1>2. TypeInv /\ [Next]_vars => TypeInv'
  BY TypeNext, Zenon
<1>3. TypeInv => TypeOK
  BY Zenon DEF TypeInv
<1>. QED  BY <1>1, <1>2, <1>3, PTL DEF Spec

---------------------------------------------------------------------------
(* What TransferInv says of data, and the steps of the loop and of          *)
(* TftpStart() that leave the packets and the memory alone. *)

\* What TransferInv adds to TypeInv.
DataInv == SessionInv /\ PacketInv /\ RequestInv /\ ServerNeverAhead /\ VerdictInv

---------------------------------------------------------------------------
(* Blocks of a file. *)

\* Every block but the last of a file is full.
LEMMA EarlierBlockFull ==
  ASSUME NEW f \in Files, NEW b \in Sizes, NEW n \in Nat, NEW k \in 1 .. n,
         k # n, Base(n, b) <= Size[f]
  PROVE  BlockLen(f, k, b) = b
<1>1. b \in Nat \ {0} /\ Size[f] \in Nat
  BY TftpAssumption, Zenon
<1>2. Base(k, b) + b = k * b /\ k * b \in Nat
  BY <1>1 DEF Base
<1>3. k * b <= (n - 1) * b
  <2>1. PICK d \in Nat : n - 1 = k + d
    <3>1. n - 1 - k \in Nat /\ n - 1 = k + (n - 1 - k)
      OBVIOUS
    <3>. QED  BY <3>1, Zenon
  <2>2. (k + d) * b = k * b + d * b /\ d * b \in Nat
    BY <1>1
  <2>. QED  BY <1>1, <1>2, <2>1, <2>2
<1>4. (n - 1) * b \in Int
  BY <1>1
<1>. QED  BY <1>1, <1>2, <1>3, <1>4 DEF Base, BlockLen

\* Where a block ends: inside the file, and at its end if it is short.
LEMMA BlockEnd ==
  ASSUME NEW f \in Files, NEW b \in Sizes, NEW k \in Nat \ {0}, Base(k, b) <= Size[f]
  PROVE  /\ Base(k, b) \in Nat
         /\ BlockLen(f, k, b) \in Nat
         /\ Base(k, b) + BlockLen(f, k, b) <= Size[f]
         /\ BlockLen(f, k, b) < b => Base(k, b) + BlockLen(f, k, b) = Size[f]
         /\ BlockLen(f, k, b) = b => Base(k + 1, b) = Base(k, b) + BlockLen(f, k, b)
<1>1. b \in Nat \ {0} /\ Size[f] \in Nat
  BY TftpAssumption, Zenon
<1>2. Base(k, b) \in Nat /\ Base(k + 1, b) = Base(k, b) + b
  BY <1>1 DEF Base
<1>. QED  BY <1>1, <1>2 DEF BlockLen

\* Without wrapping, a block number is sent as it is.
LEMMA NumberSentAsIs ==
  ASSUME NoWrap, NEW f \in Files, NEW b \in Sizes, NEW n \in Nat,
         n = 0 \/ Base(n, b) <= Size[f]
  PROVE  n < SeqSize /\ n % SeqSize = n
<1>1. b \in Nat \ {0} /\ Size[f] \in Nat /\ SeqSize \in Nat \ {0, 1}
  BY TftpAssumption, Zenon
<1>2. n < SeqSize
  <2>1. CASE n = 0
    BY <1>1, <2>1
  <2>2. CASE n # 0
    <3>1. (n - 1) * b < (SeqSize - 1) * b
      <4>1. (n - 1) * b <= Size[f] /\ Size[f] < (SeqSize - 1) * b
        BY <2>2, Zenon DEF NoWrap, Base
      <4>2. (n - 1) * b \in Int /\ (SeqSize - 1) * b \in Int
        BY <1>1
      <4>. QED  BY <1>1, <4>1, <4>2
    <3>2. ASSUME SeqSize <= n PROVE FALSE
      <4>1. PICK d \in Nat : n - 1 = (SeqSize - 1) + d
        <5>1. n - SeqSize \in Nat /\ n - 1 = (SeqSize - 1) + (n - SeqSize)
          BY <1>1, <3>2
        <5>. QED  BY <5>1, Zenon
      <4>2. ((SeqSize - 1) + d) * b = (SeqSize - 1) * b + d * b /\ d * b \in Nat
        BY <1>1
      <4>3. (SeqSize - 1) * b \in Int
        BY <1>1
      <4>. QED  BY <3>1, <4>1, <4>2, <4>3
    <3>. QED  BY <1>1, <3>2
  <2>. QED  BY <2>1, <2>2, Zenon
<1>. QED  BY <1>1, <1>2

\* The session record of an open session.
LEMMA OpenSession ==
  ASSUME TypeOK, NEW s \in ServerPorts, session[s].st = "open"
  PROVE  /\ session[s].cport \in ClientPorts
         /\ session[s].file \in Files
         /\ session[s].blksize \in Sizes
         /\ session[s].reply \in {"OACK", "DATA", "ERROR"}
         /\ session[s].n \in Nat
  BY DEF TypeOK, Sessions, Closed

---------------------------------------------------------------------------
(* The steps, one lemma per action. *)

\* The static initial state.
LEMMA DataInit == ASSUME Init PROVE DataInv
  BY Zenon DEF Init, LoopInit, DataInv, SessionInv, PacketInv, RequestInv, ServerNeverAhead,
         VerdictInv, Closed, Connected, Current

\* A step that leaves TFTP, the packets and the server alone, and does not
\* put the handler in charge, keeps everything but the verdict.
LEMMA Frame ==
  ASSUME DataInv,
         UNCHANGED <<tftpVars, toServer, serverVars>>,
         Live' => Live /\ (eth_current' \in active' => eth_current \in active)
  PROVE  SessionInv' /\ PacketInv' /\ RequestInv' /\ ServerNeverAhead'
<1>. USE DEF DataInv, tftpVars, serverVars
<1>1. SessionInv'
  BY Zenon DEF SessionInv, Current
<1>2. PacketInv'
  BY Zenon DEF PacketInv
<1>3. \A k : HasBlock(k)' <=> HasBlock(k)
  BY Zenon DEF HasBlock
<1>4. Connected' <=> Connected
  BY Zenon DEF Connected
<1>5. RequestInv'
  BY <1>3, <1>4, Zenon DEF RequestInv
<1>6. ServerNeverAhead'
  <2>1. \A s : Current(s)' <=> Current(s)
    BY Zenon DEF Current
  <2>2. \A f, l : Holds(f, l)' <=> Holds(f, l)
    BY Zenon DEF Holds
  <2>. QED  BY <1>3, <1>4, <2>1, <2>2, Zenon DEF ServerNeverAhead
<1>. QED  BY <1>1, <1>2, <1>5, <1>6, Zenon

\* Starting again takes the handler out of charge, or (when it gives up)
\* leaves it with a halted device; it never produces a success.
LEMMA StartAgainQuiet ==
  ASSUME NetDevExists = 1,
         \/ phase = "rx" /\ StartAgainFromRx
         \/ StartAgainFromTimer
         \/ StartAgainFromArp
  PROVE  /\ Live' => /\ phase = "rx"
                     /\ packetHandler = "protocol"
                     /\ eth_current' \notin active'
         /\ NetState' = "SUCCESS" => NetState = "SUCCESS"
<1>1. PICK t : NetStartAgain(t)
  BY Zenon DEF StartAgainFromRx, StartAgainFromTimer, StartAgainFromArp
<1>2. CASE GiveUp
  <2>1. /\ NetState' = "FAIL"
        /\ active' = eth_halt
        /\ UNCHANGED <<eth_current, packetHandler>>
    BY <1>1, <1>2, Zenon DEF NetStartAgain
  <2>. QED  BY <2>1, Zenon
               DEF Live, eth_halt, StartAgainFromRx, StartAgainFromTimer, StartAgainFromArp
<1>3. CASE ~GiveUp
  <2>1. \/ packetHandler' = "startAgainHandler" /\ UNCHANGED NetState
        \/ NetState' = "RESTART"
    BY <1>1, <1>3 DEF NetStartAgain
  <2>. QED  BY <2>1, Zenon DEF Live, StartAgainFromRx, StartAgainFromTimer, StartAgainFromArp
<1>. QED  BY <1>2, <1>3, Zenon

\* Entering NetLoop() puts no handler in charge and claims no success.
LEMMA DataTftpboot ==
  ASSUME TypeInv, DataInv, NEW f \in Files, Tftpboot(f)
  PROVE  DataInv'
<1>1. UNCHANGED <<tftpVars, toServer, serverVars>> /\ phase' \in {"idle", "restart"}
      /\ (phase' = "idle" => result' = "fail")
  BY Zenon DEF Tftpboot, Enter, tftpVars, serverVars
<1>2. SessionInv' /\ PacketInv' /\ RequestInv' /\ ServerNeverAhead'
  BY <1>1, Frame, Zenon DEF Live
<1>3. VerdictInv'
  BY <1>1, Zenon DEF DataInv, VerdictInv, tftpVars
<1>. QED  BY <1>2, <1>3, Zenon DEF DataInv

\* NETLOOP_SUCCESS turns the verdict into the result of the command.
LEMMA DataDone ==
  ASSUME TypeInv, DataInv, TftpDone
  PROVE  DataInv'
<1>1. /\ UNCHANGED <<tftpVars, toServer, serverVars, BootFile>>
      /\ phase' = "idle"
      /\ phase \in LoopPhases /\ NetState = "SUCCESS"
  BY Zenon DEF TftpDone, Succeed, tftpVars, serverVars
<1>2. SessionInv' /\ PacketInv' /\ RequestInv' /\ ServerNeverAhead'
  BY <1>1, Frame, Zenon DEF Live
<1>3. VerdictInv'
  BY <1>1, Zenon DEF DataInv, VerdictInv, Holds, tftpVars
<1>. QED  BY <1>2, <1>3, Zenon DEF DataInv

\* The steps of NetLoop() that leave TFTP alone take the handler out of
\* charge, and none of them reports success.
LEMMA DataLoopStep ==
  ASSUME TypeInv, DataInv, LoopStep
  PROVE  DataInv'
<1>1. UNCHANGED <<tftpVars, toServer, serverVars, BootFile>>
  BY Zenon DEF LoopStep, tftpVars, serverVars
<1>2. CASE StartAgainFromArp
  <2>1. NetDevExists = 1 /\ phase \in LoopPhases
    BY <1>2, Zenon DEF TypeInv, ControlInv, StartAgainFromArp
  <2>2. /\ Live' => Live /\ eth_current' \notin active'
        /\ NetState' = "SUCCESS" => NetState = "SUCCESS"
        /\ phase' \in LoopPhases
    BY <1>2, <2>1, StartAgainQuiet, Zenon DEF Live, StartAgainFromArp
  <2>3. SessionInv' /\ PacketInv' /\ RequestInv' /\ ServerNeverAhead'
    BY <1>1, <2>2, Frame, Zenon
  <2>4. VerdictInv'
    BY <1>1, <2>1, <2>2, Zenon DEF DataInv, VerdictInv, Holds, tftpVars
  <2>. QED  BY <2>3, <2>4, Zenon DEF DataInv
<1>3. CASE NotConfigured \/ Abort \/ StartAgainTimeout \/ Restart \/ Fail
  <2>1. /\ phase' \in {"idle", "switch", "restart"}
        /\ phase' = "switch" => NetState' = "RESTART"
        /\ phase' = "idle" => result' \in {"fail", "abort"}
    BY <1>3, Zenon DEF NotConfigured, Abort, StartAgainTimeout, Restart, Fail
  <2>2. SessionInv' /\ PacketInv' /\ RequestInv' /\ ServerNeverAhead'
    BY <1>1, <2>1, Frame, Zenon DEF Live
  <2>3. VerdictInv'
    BY <1>1, <2>1, Zenon DEF DataInv, VerdictInv, tftpVars
  <2>. QED  BY <2>2, <2>3, Zenon DEF DataInv
<1>. QED  BY <1>2, <1>3, Zenon DEF LoopStep

\* An ERROR packet halts the device before the handler could acknowledge
\* anything more.
LEMMA DataError ==
  ASSUME TypeInv, DataInv, NEW m \in toClient, ReceiveError(m)
  PROVE  DataInv'
<1>1. UNCHANGED <<tftpVars, toServer, serverVars, BootFile>>
  BY Zenon DEF ReceiveError, tftpVars, serverVars
<1>2. Live /\ NetDevExists = 1 /\ phase = "rx"
  BY Zenon DEF ReceiveError, Accepts, Live, TypeInv, ControlInv
<1>3. /\ Live' => eth_current' \notin active'
      /\ NetState' = "SUCCESS" => NetState = "SUCCESS"
      /\ phase' # "idle"
  <2>1. CASE m.code = "not retried"
    BY <1>2, <2>1, Zenon DEF ReceiveError, eth_halt
  <2>2. CASE m.code = "other"
    <3>1. StartAgainFromRx
      BY <2>2, Zenon DEF ReceiveError
    <3>. QED  BY <1>2, <3>1, StartAgainQuiet, Zenon DEF StartAgainFromRx
  <2>. QED  BY <2>1, <2>2, Zenon DEF ReceiveError
<1>4. SessionInv' /\ PacketInv' /\ RequestInv' /\ ServerNeverAhead'
  BY <1>1, <1>2, <1>3, Frame, Zenon
<1>5. VerdictInv'
  BY <1>1, <1>2, <1>3, Zenon DEF DataInv, VerdictInv, Holds, tftpVars
<1>. QED  BY <1>4, <1>5, Zenon DEF DataInv

\* A new attempt has a port that no session knows.
LEMMA DataTftpStart ==
  ASSUME ~PortsReused, TypeInv, DataInv, TftpStart
  PROVE  DataInv'
<1>. USE DEF DataInv, serverVars
<1>1. PICK p \in ClientPorts :
        /\ \A q \in toServer : q.src # p
        /\ TftpOurPort' = p
        /\ Send(Rrq(p, BootFile))
  BY Zenon DEF TftpStart, CanDraw
<1>2. ASSUME NEW s \in ServerPorts PROVE ~Current(s)'
  BY <1>1, Zenon DEF SessionInv, Current, TftpStart
<1>3. toServer \subseteq toServer' /\ toServer' \subseteq toServer \cup {Rrq(p, BootFile)}
  BY <1>1, Zenon DEF Send
<1>4. SessionInv'
  BY <1>2, <1>3, Zenon DEF SessionInv, TftpStart
<1>5. PacketInv'
  BY Zenon DEF PacketInv, TftpStart
<1>6. RequestInv'
  <2>1. tftp_filename' = BootFile
    BY Zenon DEF TftpStart
  <2>2. ASSUME NEW q \in toServer', q.src = p
        PROVE  q.type = "RRQ" /\ q.file = BootFile
    <3>1. q = Rrq(p, BootFile)
      BY <1>1, <1>3, <2>2, Zenon
    <3>. QED  BY <3>1, Zenon DEF Rrq
  <2>. QED  BY <1>1, <2>1, <2>2, Zenon DEF RequestInv
<1>7. ServerNeverAhead'
  BY <1>2, Zenon DEF ServerNeverAhead, TftpStart, Connected
<1>8. VerdictInv'
  <2>1. phase' = "rx" /\ NetState' = "CONTINUE" /\ BootFile \in Files
    BY Zenon DEF TftpStart, StartProtocol, TypeInv, ControlInv
  <2>2. Size[BootFile] \in Nat
    BY <2>1, TftpAssumption, Zenon
  <2>. QED  BY <2>1, <2>2 DEF VerdictInv, TftpStart
<1>. QED  BY <1>4, <1>5, <1>6, <1>7, <1>8, Zenon

\* What an answer of the server leaves alone.
LEMMA ServerFrame ==
  ASSUME DataInv, UNCHANGED <<loopVars, tftpVars, BootFile, filesize, toServer>>
  PROVE  RequestInv' /\ VerdictInv' /\ (Live' <=> Live) /\ (Connected' <=> Connected)
         /\ (\A g, l : Holds(g, l)' <=> Holds(g, l))
         /\ (\A j : HasBlock(j)' <=> HasBlock(j))
<1>. USE DEF DataInv, loopVars, tftpVars
<1>1. (\A g, l : Holds(g, l)' <=> Holds(g, l)) /\ (\A j : HasBlock(j)' <=> HasBlock(j))
  BY Zenon DEF Holds, HasBlock
<1>2. (Live' <=> Live) /\ (Connected' <=> Connected)
  BY Zenon DEF Live, Connected
<1>3. RequestInv'
  BY <1>1, <1>2, Zenon DEF RequestInv
<1>4. VerdictInv'
  BY <1>1, Zenon DEF VerdictInv
<1>. QED  BY <1>1, <1>2, <1>3, <1>4, Zenon

---------------------------------------------------------------------------
(* TftpHandler(): what arrives, late, repeated or out of order, is of the   *)
(* current file, and what is not stored changes nothing. *)

\* A packet the handler accepts comes from a session of this attempt.
LEMMA AcceptedIsCurrent ==
  ASSUME TypeInv, DataInv, NEW m \in toClient, m.type \in {"OACK", "DATA"}, Accepts(m)
  PROVE  /\ Live
         /\ m.src \in ServerPorts
         /\ Current(m.src)
         /\ TftpState # "none"
         /\ TftpState # "RRQ" => Connected /\ m.src = TftpServerPort
         /\ tftp_filename \in Files
         /\ session[m.src].file = tftp_filename
         /\ session[m.src].blksize \in Sizes
         /\ session[m.src].n \in Nat
<1>. USE DEF DataInv, TypeInv
<1>1. m.src \in ServerPorts
  BY Zenon DEF TypeOK, OackPackets, ErrPackets, DataPackets
<1>2. Live /\ TftpState # "none" /\ tftp_filename \in Files
  BY Zenon DEF Accepts, Live, ControlInv
<1>3. Current(m.src)
  BY Zenon DEF PacketInv, Current, Accepts
<1>4. session[m.src].file = tftp_filename
  BY <1>1, <1>3, Zenon DEF SessionInv
<1>5. TftpState # "RRQ" => Connected /\ m.src = TftpServerPort
  BY <1>2, Zenon DEF Accepts, Connected, TypeOK, TftpStates
<1>. QED  BY <1>1, <1>2, <1>3, <1>4, <1>5, OpenSession, Zenon DEF Current

\* An OACK, repeated ones included, makes the client count with the block
\* size of the session that sent it.
LEMMA DataOack ==
  ASSUME TypeInv, DataInv, NEW m \in toClient, ReceiveOack(m)
  PROVE  DataInv'
<1>. USE DEF DataInv, serverVars
<1>1. /\ Live
      /\ m.src \in ServerPorts
      /\ Current(m.src)
      /\ TftpState # "RRQ" => Connected /\ m.src = TftpServerPort
      /\ session[m.src].blksize \in Sizes
      /\ session[m.src].n \in Nat
  BY AcceptedIsCurrent, Zenon DEF ReceiveOack
<1>2. /\ session[m.src].reply = "OACK"
      /\ session[m.src].blksize = IF m.blksize = 0 THEN DefaultBlkSize ELSE m.blksize
  BY Zenon DEF PacketInv, ReceiveOack
<1>3. TftpBlkSize' = session[m.src].blksize
  BY <1>1, <1>2, Zenon DEF ReceiveOack, ServerNeverAhead, TypeInv, TypeOK, TftpStates, Connected
<1>4. UNCHANGED <<loopVars, session, toClient, TftpOurPort, tftp_filename, mem,
                  TftpBlock, TftpLastBlock, BootFile, TftpBlockWrapOffset,
                  NetBootFileXferSize>>
  BY Zenon DEF ReceiveOack, loopVars
<1>5. Live' <=> Live
  BY <1>4, Zenon DEF Live, loopVars
<1>6. \A s : Current(s)' <=> Current(s)
  BY <1>4, Zenon DEF Current
<1>7. Connected => \A k : HasBlock(k)' <=> HasBlock(k)
  BY <1>1, <1>3, <1>4, Zenon DEF HasBlock, ServerNeverAhead, Connected
<1>8. Connected' /\ TftpServerPort' = m.src /\ TftpState' = "OACK"
  BY Zenon DEF Connected, ReceiveOack
<1>9. /\ toServer \subseteq toServer'
      /\ toServer' \subseteq toServer \cup {Ack(TftpOurPort, m.src, TftpBlock)}
      /\ eth_current \notin active => toServer' = toServer
  BY Zenon DEF ReceiveOack, Send
<1>10. SessionInv'
  BY <1>4, <1>6, <1>9, Zenon DEF SessionInv
<1>11. PacketInv'
  BY <1>4, Zenon DEF PacketInv
<1>12. eth_current \in active => TftpBlock = 0 \/ (Connected /\ HasBlock(TftpBlock))
  BY <1>1, Zenon DEF ServerNeverAhead
<1>13. RequestInv'
  <2>1. ASSUME NEW q \in toServer, q.src = TftpOurPort
        PROVE  /\ q.type = "RRQ" => q.file = tftp_filename
               /\ q.type = "ACK" => /\ Connected
                                    /\ q.dst = m.src
                                    /\ q.blk = 0 \/ HasBlock(q.blk)'
    BY <1>1, <1>7, <2>1, Zenon DEF RequestInv, Connected
  <2>2. ASSUME NEW q \in toServer', q \notin toServer
        PROVE  /\ q.type = "ACK"
               /\ q.dst = m.src
               /\ q.blk = 0 \/ HasBlock(q.blk)'
    BY <1>7, <1>9, <1>12, <2>2 DEF Ack
  <2>. QED  BY <1>4, <1>8, <2>1, <2>2, Zenon DEF RequestInv
<1>14. ServerNeverAhead'
  <2>. DEFINE n == session[m.src].n
              b == session[m.src].blksize
  <2>1. Holds(tftp_filename, Base(n, b))
    <3>1. CASE TftpState = "RRQ"
      <4>1. n = 0
        BY <1>1, <1>2, <3>1, Zenon DEF ServerNeverAhead
      <4>2. Base(n, b) <= 0 /\ Base(n, b) \in Int
        <5>1. b \in Nat
          BY <1>1, TftpAssumption, Zenon
        <5>2. (0 - 1) * b = 0 - b
          BY <5>1
        <5>. QED  BY <4>1, <5>1, <5>2 DEF Base
      <4>. QED  BY <4>2, TftpAssumption DEF Holds
    <3>2. CASE TftpState # "RRQ"
      BY <1>1, <3>2, Zenon DEF ServerNeverAhead
    <3>. QED  BY <3>1, <3>2, Zenon
  <2>2. Holds(tftp_filename, Base(session[TftpServerPort].n, TftpBlkSize))'
    BY <1>3, <1>4, <1>8, <2>1, Zenon DEF Holds
  <2>3. (Live /\ eth_current \in active => TftpBlock = 0 \/ HasBlock(TftpBlock))'
    <3>1. UNCHANGED <<eth_current, active>>
      BY <1>4, Zenon DEF loopVars
    <3>2. eth_current \in active => TftpBlock = 0 \/ HasBlock(TftpBlock)'
      <4>1. ASSUME eth_current \in active, TftpBlock # 0 PROVE HasBlock(TftpBlock)'
        <5>1. Connected /\ HasBlock(TftpBlock)
          BY <1>12, <4>1, Zenon
        <5>. QED  BY <1>1, <1>3, <1>4, <5>1, Zenon DEF HasBlock, ServerNeverAhead, Connected
      <4>. QED  BY <4>1, Zenon
    <3>. QED  BY <1>4, <3>1, <3>2, Zenon
  <2>. QED  BY <1>1, <1>3, <1>4, <1>6, <1>8, <2>2, <2>3, Zenon DEF ServerNeverAhead
<1>15. VerdictInv'
  BY <1>4, <1>8, Zenon DEF VerdictInv, loopVars, Holds, ReceiveOack, Accepts, TypeInv, ControlInv
<1>. QED  BY <1>10, <1>11, <1>13, <1>14, <1>15, Zenon

\* An accepted DATA packet is a block of this attempt's file, of the size the
\* client counts with, and its number has not wrapped.
LEMMA AcceptedData ==
  ASSUME TypeInv, DataInv, NEW m \in toClient, DataHead(m)
  PROVE  LET e == session[m.src]
         IN /\ Live
            /\ m.src \in ServerPorts
            /\ Current(m.src)
            /\ TftpState # "RRQ" => Connected /\ m.src = TftpServerPort
            /\ TftpState = "RRQ" => m.blk = 1 /\ e.n = 1
            /\ tftp_filename \in Files
            /\ TftpBlkSize \in Sizes
            /\ TftpBlkSize = e.blksize
            /\ m.file = tftp_filename
            /\ e.n \in Nat
            /\ m.blk \in 1 .. e.n
            /\ m.base = Base(m.blk, TftpBlkSize)
            /\ m.len = BlockLen(tftp_filename, m.blk, TftpBlkSize)
            /\ Base(e.n, TftpBlkSize) <= Size[tftp_filename]
            /\ m.base <= Size[tftp_filename]
            /\ TftpBlockWrapOffset' = 0
<1>. USE DEF DataInv
<1>. DEFINE e == session[m.src]
<1>1. /\ Live
      /\ m.src \in ServerPorts
      /\ Current(m.src)
      /\ TftpState # "none"
      /\ TftpState # "RRQ" => Connected /\ m.src = TftpServerPort
      /\ tftp_filename \in Files
      /\ e.file = tftp_filename
      /\ e.blksize \in Sizes
      /\ e.n \in Nat
  BY AcceptedIsCurrent, Zenon DEF DataHead
<1>2. /\ m.file = e.file
      /\ m.blk \in 1 .. e.n
      /\ m.base = Base(m.blk, e.blksize)
      /\ m.len = BlockLen(e.file, m.blk, e.blksize)
      /\ m.base <= Size[e.file]
  BY Zenon DEF PacketInv, DataHead
<1>3. e.n # 0
  BY <1>1, <1>2
<1>4. /\ Base(e.n, e.blksize) <= Size[e.file]
      /\ e.reply # "OACK" => e.blksize = DefaultBlkSize
  BY <1>1, <1>3, Zenon DEF SessionInv, Current
<1>5. TftpState = "RRQ" => e.n = 1 /\ e.reply # "OACK" /\ TftpBlkSize = DefaultBlkSize
  BY <1>1, <1>3, Zenon DEF ServerNeverAhead
<1>6. TftpBlkSize = e.blksize
  BY <1>1, <1>4, <1>5, Zenon DEF ServerNeverAhead
<1>7. TftpBlockWrapOffset' = 0
  BY <1>1, <1>2, SMTT(30) DEF VerdictInv, DataHead
<1>. QED  BY <1>1, <1>2, <1>4, <1>5, <1>6, <1>7

\* What a DATA packet that is not stored leaves alone.
LEMMA DataNotStored ==
  ASSUME TypeInv, DataInv, NEW m \in toClient, DataHead(m),
         TftpState # "RRQ",
         UNCHANGED <<toServer, mem, NetBootFileXferSize>>,
         Live' => TftpLastBlock' = 0 \/ HasBlock(TftpLastBlock)',
         Live' /\ eth_current' \in active' => HasBlock(TftpBlock)'
  PROVE  /\ SessionInv'
         /\ PacketInv'
         /\ RequestInv'
         /\ ServerNeverAhead'
         /\ TftpBlockWrapOffset' = 0
<1>. USE DEF DataInv, serverVars
<1>1. /\ Live
      /\ Connected
      /\ m.src = TftpServerPort
      /\ TftpBlockWrapOffset' = 0
  BY AcceptedData, Zenon
<1>2. UNCHANGED <<session, toClient, TftpOurPort, tftp_filename, TftpBlkSize,
                  TftpServerPort>>
  BY <1>1, Zenon DEF DataHead
<1>3. TftpState' = "DATA" /\ Connected'
  BY Zenon DEF DataHead, Connected
<1>4. \A s : Current(s)' <=> Current(s)
  BY <1>2, Zenon DEF Current
<1>5. \A k : HasBlock(k)' <=> HasBlock(k)
  BY <1>2, Zenon DEF HasBlock
<1>6. SessionInv'
  BY <1>2, <1>4, Zenon DEF SessionInv
<1>7. PacketInv'
  BY <1>2, Zenon DEF PacketInv
<1>8. RequestInv'
  BY <1>1, <1>2, <1>3, <1>5, Zenon DEF RequestInv
<1>9. ServerNeverAhead'
  <2>1. Holds(tftp_filename, Base(session[TftpServerPort].n, TftpBlkSize))'
    BY <1>1, <1>2, Zenon DEF ServerNeverAhead, Holds
  <2>. QED  BY <1>1, <1>2, <1>3, <1>4, <2>1, Zenon DEF ServerNeverAhead
<1>. QED  BY <1>1, <1>6, <1>7, <1>8, <1>9, Zenon

\* A repeated block is one that is in memory already.
LEMMA DataSameBlock ==
  ASSUME TypeInv, DataInv, NEW m \in toClient, ReceiveSameBlock(m)
  PROVE  DataInv'
<1>. USE DEF DataInv
<1>1. DataHead(m) /\ TftpState = "DATA"
  <2>1. DataHead(m) /\ ~ExpectsFirst
    BY Zenon DEF ReceiveSameBlock
  <2>. QED  BY <2>1, AcceptedData, Zenon DEF ExpectsFirst, Connected
<1>2. Live /\ Connected /\ m.blk \in Nat \ {0}
  BY <1>1, AcceptedData, SMTT(30) DEF Connected
<1>3. UNCHANGED <<toServer, mem, NetBootFileXferSize, TftpLastBlock, loopVars,
                  TftpBlkSize, tftp_filename, BootFile>>
  BY <1>1, Zenon DEF ReceiveSameBlock, loopVars, DataHead
<1>4. TftpBlock' = m.blk /\ TftpLastBlock = m.blk
  BY <1>1, Zenon DEF DataHead, ReceiveSameBlock
<1>5. HasBlock(TftpLastBlock)
  BY <1>1, <1>2, <1>4, Zenon DEF ServerNeverAhead
<1>6. HasBlock(TftpLastBlock)' /\ HasBlock(TftpBlock)'
  BY <1>3, <1>4, <1>5, Zenon DEF HasBlock
<1>7. /\ SessionInv' /\ PacketInv' /\ RequestInv' /\ ServerNeverAhead'
      /\ TftpBlockWrapOffset' = 0
  BY <1>1, <1>3, <1>6, DataNotStored, Zenon
<1>8. VerdictInv'
  BY <1>1, <1>3, <1>7, Zenon DEF VerdictInv, Holds, loopVars
<1>. QED  BY <1>7, <1>8, Zenon

\* A first DATA packet that is not block 1 is never acknowledged: the device
\* is reinitialised or halted (NetStartAgain).
LEMMA DataNotBlockOne ==
  ASSUME TypeInv, DataInv, NEW m \in toClient, ReceiveNotBlockOne(m)
  PROVE  DataInv'
<1>. USE DEF DataInv
<1>1. DataHead(m) /\ TftpState # "RRQ"
  BY AcceptedData, Zenon DEF ReceiveNotBlockOne
<1>2. /\ TftpLastBlock' = 0
      /\ StartAgainFromRx
      /\ UNCHANGED <<toServer, mem, NetBootFileXferSize, tftp_filename, BootFile>>
  BY <1>1, Zenon DEF ReceiveNotBlockOne, DataHead
<1>3. phase = "rx" /\ NetDevExists = 1 /\ TftpState # "none"
  BY <1>1, Zenon DEF DataHead, Accepts, TypeInv, ControlInv
<1>4. /\ Live' => eth_current' \notin active'
      /\ NetState' = "SUCCESS" => NetState = "SUCCESS"
      /\ phase' # "idle"
  BY <1>2, <1>3, StartAgainQuiet, Zenon DEF StartAgainFromRx
<1>5. /\ SessionInv' /\ PacketInv' /\ RequestInv' /\ ServerNeverAhead'
      /\ TftpBlockWrapOffset' = 0
  BY <1>1, <1>2, <1>4, DataNotStored, Zenon
<1>6. VerdictInv'
  BY <1>2, <1>3, <1>4, <1>5, Zenon DEF VerdictInv, Holds
<1>. QED  BY <1>5, <1>6, Zenon

---------------------------------------------------------------------------
(* The server: a new session, and an acknowledgement, after which it is no  *)
(* more than one block ahead of what is in memory. *)

\* The server opens or refuses a session on a port it has not used.
LEMMA DataAccept ==
  ASSUME TypeInv, DataInv, NEW s \in ServerPorts, NEW m \in toServer, ServerAccept(s, m),
         UNCHANGED <<loopVars, tftpVars, BootFile, filesize, toServer>>
  PROVE  DataInv'
<1>0. SessionInv /\ PacketInv /\ RequestInv /\ ServerNeverAhead
  BY Zenon DEF DataInv
<1>a. UNCHANGED <<TftpOurPort, tftp_filename, toServer>>
  BY Zenon DEF tftpVars
<1>b. UNCHANGED <<TftpServerPort, TftpState, TftpBlkSize, mem>>
  BY Zenon DEF tftpVars
<1>c. UNCHANGED <<TftpBlock, TftpLastBlock>>
  BY Zenon DEF tftpVars
<1>d. RequestInv' /\ VerdictInv' /\ (Live' <=> Live) /\ (Connected' <=> Connected)
      /\ (\A g, l : Holds(g, l)' <=> Holds(g, l))
      /\ (\A j : HasBlock(j)' <=> HasBlock(j))
  BY ServerFrame, Zenon
<1>1. /\ m \in RrqPackets
      /\ m.src \in ClientPorts /\ m.file \in Files
      /\ session[s].st = "closed"
      /\ m.src = TftpOurPort => m.file = tftp_filename
  BY <1>0, Zenon DEF ServerAccept, TypeInv, TypeOK, RrqPackets, AckPackets, RequestInv
<1>2. \A q \in toClient : q.type \in {"DATA", "OACK"} => q.src # s
  BY <1>0, <1>1, Zenon DEF PacketInv
<1>3. Base(1, DefaultBlkSize) = 0 /\ 1 % SeqSize = 1 /\ Size[m.file] \in Nat
      /\ DefaultBlkSize \in Nat
  <2>1. DefaultBlkSize \in Nat /\ SeqSize \in Nat \ {0, 1} /\ Size[m.file] \in Nat
    BY <1>1, TftpAssumption, Zenon DEF Sizes
  <2>2. (1 - 1) * DefaultBlkSize = 0
    BY <2>1
  <2>3. 1 % SeqSize = 1
    BY <2>1
  <2>. QED  BY <2>1, <2>2, <2>3, Zenon DEF Base
<1> DEFINE Opened(e, p) ==
        /\ session' = [session EXCEPT ![s] = e]
        /\ toClient' = toClient \cup {p}
        /\ e.cport = m.src /\ e.file = m.file /\ p.src = s /\ p.dst = m.src
        /\ \/ /\ e.st = "open" /\ e.reply = "OACK" /\ e.n = 0 /\ p.type = "OACK"
              /\ e.blksize = IF p.blksize = 0 THEN DefaultBlkSize ELSE p.blksize
           \/ /\ e.st = "open" /\ e.reply = "DATA" /\ e.n = 1
              /\ e.blksize = DefaultBlkSize
              /\ p.type = "DATA" /\ p.file = m.file /\ p.blk = 1 /\ p.base = 0
              /\ p.len = BlockLen(m.file, 1, DefaultBlkSize)
           \/ /\ e.st = "refused" /\ p.type = "ERROR"
<1>4. PICK e, p : Opened(e, p)
  <2>1. CASE \E c \in OptBlkSizes \cup {0} :
               /\ session' = [session EXCEPT ![s] =
                    [st |-> "open", cport |-> m.src, file |-> m.file, reply |-> "OACK",
                     n |-> 0, blksize |-> IF c = 0 THEN DefaultBlkSize ELSE c]]
               /\ toClient' = toClient \cup {Oack(s, m.src, c)}
    <3>1. PICK c \in OptBlkSizes \cup {0} :
               /\ session' = [session EXCEPT ![s] =
                    [st |-> "open", cport |-> m.src, file |-> m.file, reply |-> "OACK",
                     n |-> 0, blksize |-> IF c = 0 THEN DefaultBlkSize ELSE c]]
               /\ toClient' = toClient \cup {Oack(s, m.src, c)}
      BY <2>1, Zenon
    <3>2. Opened([st |-> "open", cport |-> m.src, file |-> m.file,
                  reply |-> "OACK", n |-> 0, blksize |-> IF c = 0 THEN DefaultBlkSize ELSE c],
                 Oack(s, m.src, c))
      BY <3>1, Zenon DEF Oack
    <3>. QED  BY <3>2, Zenon
  <2>2. CASE /\ session' = [session EXCEPT ![s] =
                  [st |-> "open", cport |-> m.src, file |-> m.file, reply |-> "DATA",
                   n |-> 1, blksize |-> DefaultBlkSize]]
             /\ toClient' = toClient \cup {Data(s, m.src, m.file, 1, DefaultBlkSize)}
    <3>2. Opened([st |-> "open", cport |-> m.src, file |-> m.file,
                  reply |-> "DATA", n |-> 1, blksize |-> DefaultBlkSize],
                 Data(s, m.src, m.file, 1, DefaultBlkSize))
      BY <1>3, <2>2, Zenon DEF Data
    <3>. QED  BY <3>2, Zenon
  <2>3. CASE \E c \in ErrCodes :
               /\ session' = [session EXCEPT ![s] =
                    [st |-> "refused", cport |-> m.src, file |-> m.file,
                     reply |-> "ERROR", n |-> 0, blksize |-> DefaultBlkSize]]
               /\ toClient' = toClient \cup {Err(s, m.src, c)}
    <3>1. PICK c \in ErrCodes :
               /\ session' = [session EXCEPT ![s] =
                    [st |-> "refused", cport |-> m.src, file |-> m.file,
                     reply |-> "ERROR", n |-> 0, blksize |-> DefaultBlkSize]]
               /\ toClient' = toClient \cup {Err(s, m.src, c)}
      BY <2>3, Zenon
    <3>2. Opened([st |-> "refused", cport |-> m.src, file |-> m.file,
                  reply |-> "ERROR", n |-> 0, blksize |-> DefaultBlkSize],
                 Err(s, m.src, c))
      BY <3>1, Zenon DEF Err
    <3>. QED  BY <3>2, Zenon
  <2>. QED  BY <2>1, <2>2, <2>3, Zenon DEF ServerAccept
<1>5. session'[s] = e /\ \A r \in ServerPorts : r # s => session'[r] = session[r]
  BY <1>4, Zenon DEF TypeInv, TypeOK
<1>6. SessionInv'
  <2>1. ASSUME NEW r \in ServerPorts, r # s
        PROVE  (/\ session[r].st # "closed" => \E q \in toServer : q.src = session[r].cport
                /\ session[r].st = "open" =>
                     IF session[r].n = 0 THEN session[r].reply = "OACK"
                     ELSE /\ Base(session[r].n, session[r].blksize) <= Size[session[r].file]
                          /\ session[r].reply # "OACK" => session[r].blksize = DefaultBlkSize
                /\ Current(r) => session[r].file = tftp_filename)'
    BY <1>0, <1>a, <1>5, <2>1, Zenon DEF SessionInv, Current
  <2>2. /\ \E q \in toServer : q.src = e.cport
        /\ e.st = "open" =>
             IF e.n = 0 THEN e.reply = "OACK"
             ELSE /\ Base(e.n, e.blksize) <= Size[e.file]
                  /\ e.reply # "OACK" => e.blksize = DefaultBlkSize
        /\ e.cport = TftpOurPort => e.file = tftp_filename
    BY <1>1, <1>4, <1>3
  <2>. QED  BY <1>a, <1>5, <2>1, <2>2, Zenon DEF SessionInv, Current
<1>7. PacketInv'
  <2>1. ASSUME NEW q \in toClient, q.type \in {"DATA", "OACK"}
        PROVE  session'[q.src] = session[q.src]
    BY <1>2, <1>5, <2>1, Zenon DEF TypeInv, TypeOK, OackPackets, ErrPackets, DataPackets
  <2>2. p.type = "DATA" =>
            /\ e.st = "open"
            /\ p.dst = e.cport
            /\ p.file = e.file
            /\ p.blk \in 1 .. e.n
            /\ p.base = Base(p.blk, e.blksize)
            /\ p.len = BlockLen(e.file, p.blk, e.blksize)
            /\ p.base <= Size[e.file]
    BY <1>3, <1>4, SMTT(30)
  <2>3. p.type = "OACK" =>
            /\ e.st = "open"
            /\ e.reply = "OACK"
            /\ p.dst = e.cport
            /\ e.blksize = IF p.blksize = 0 THEN DefaultBlkSize ELSE p.blksize
    BY <1>4, Zenon
  <2>. QED  BY <1>0, <1>4, <1>5, <2>1, <2>2, <2>3, SMTT(30) DEF PacketInv
<1>8. ServerNeverAhead'
  <2>1. Connected => TftpServerPort # s /\ TftpServerPort \in ServerPorts
    BY <1>0, <1>1, Zenon DEF ServerNeverAhead, Current
  <2>2. ASSUME NEW r \in ServerPorts, r # s PROVE Current(r)' <=> Current(r)
    BY <1>a, <1>5, <2>2, Zenon DEF Current
  <2>3. (/\ TftpState = "RRQ" =>
            /\ TftpBlock = 0
            /\ TftpBlkSize = DefaultBlkSize
            /\ \A r \in ServerPorts :
                 Current(r) => session[r].n = IF session[r].reply = "OACK" THEN 0 ELSE 1)'
    <3>1. e.st = "open" => e.n = IF e.reply = "OACK" THEN 0 ELSE 1
      BY <1>4, Zenon
    <3>. QED  BY <1>0, <1>b, <1>c, <1>5, <2>2, <3>1, Zenon DEF ServerNeverAhead, Current
  <2>4. ASSUME Connected
        PROVE  (/\ TftpServerPort \in ServerPorts
                /\ Current(TftpServerPort)
                /\ TftpBlkSize = session[TftpServerPort].blksize
                /\ Live => Holds(tftp_filename, Base(session[TftpServerPort].n, TftpBlkSize)))'
    <3>1. session'[TftpServerPort] = session[TftpServerPort]
      BY <1>5, <2>1, <2>4, Zenon
    <3>2. TftpServerPort' \in ServerPorts /\ Current(TftpServerPort')
      BY <1>0, <1>b, <2>1, <2>4, Zenon DEF ServerNeverAhead
    <3>3. Current(TftpServerPort)'
      BY <1>a, <1>b, <3>1, <3>2, Zenon DEF Current
    <3>4. TftpBlkSize' = session'[TftpServerPort'].blksize
      BY <1>0, <1>b, <2>4, <3>1, Zenon DEF ServerNeverAhead
    <3>5. ASSUME Live
          PROVE  Holds(tftp_filename, Base(session[TftpServerPort].n, TftpBlkSize))'
      BY <1>0, <1>a, <1>b, <1>d, <2>4, <3>1, <3>5, Zenon DEF ServerNeverAhead
    <3>. QED  BY <1>d, <3>2, <3>3, <3>4, <3>5, Zenon
  <2>5. ASSUME Connected
        PROVE  (/\ Live /\ eth_current \in active => TftpBlock = 0 \/ HasBlock(TftpBlock)
                /\ Live /\ TftpState = "DATA" => TftpLastBlock = 0 \/ HasBlock(TftpLastBlock))'
    BY <1>0, <1>b, <1>c, <1>d, <2>5, Zenon DEF ServerNeverAhead, loopVars
  <2>. QED  BY <1>d, <2>3, <2>4, <2>5, Zenon DEF ServerNeverAhead
<1>. QED  BY <1>d, <1>6, <1>7, <1>8, Zenon DEF DataInv

\* The server sends block n + 1 because block n was acknowledged.  Without
\* wrapping, that acknowledgement is of block n and no other, so by RequestInv
\* block n is in memory.
LEMMA DataAck ==
  ASSUME NoWrap, TypeInv, DataInv, NEW s \in ServerPorts, NEW m \in toServer,
         ServerAck(s, m), UNCHANGED <<loopVars, tftpVars, BootFile, filesize, toServer>>
  PROVE  DataInv'
<1>0. SessionInv /\ PacketInv /\ RequestInv /\ ServerNeverAhead
  BY Zenon DEF DataInv
<1>a. UNCHANGED <<TftpOurPort, tftp_filename, toServer>>
  BY Zenon DEF tftpVars
<1>b. UNCHANGED <<TftpServerPort, TftpState, TftpBlkSize, mem>>
  BY Zenon DEF tftpVars
<1>c. UNCHANGED <<TftpBlock, TftpLastBlock>>
  BY Zenon DEF tftpVars
<1>d. RequestInv' /\ VerdictInv' /\ (Live' <=> Live) /\ (Connected' <=> Connected)
      /\ (\A g, l : Holds(g, l)' <=> Holds(g, l))
      /\ (\A j : HasBlock(j)' <=> HasBlock(j))
  BY ServerFrame, Zenon
<1>. DEFINE e == session[s]
            n == session[s].n
            b == session[s].blksize
            p == Data(s, m.src, e.file, n + 1, b)
<1>1. /\ m.type = "ACK" /\ m.dst = s /\ m.src = e.cport /\ m.blk = n % SeqSize
      /\ e.st = "open" /\ LastSentFull(s)
      /\ session' = [session EXCEPT ![s].n = n + 1]
      /\ toClient' = toClient \cup {p}
  BY Zenon DEF ServerAck
<1>2. /\ e.file \in Files /\ b \in Sizes /\ n \in Nat
      /\ n = 0 \/ Base(n, b) <= Size[e.file]
      /\ n = 0 => e.reply = "OACK"
      /\ e.reply # "OACK" => b = DefaultBlkSize
  BY <1>0, <1>1, OpenSession, Zenon DEF TypeInv, SessionInv
<1>3. m.blk = n
  BY <1>1, <1>2, NumberSentAsIs, Zenon
<1>4. Base(n + 1, b) <= Size[e.file]
  BY <1>1, <1>2, NextBlockExists, Zenon DEF LastSentFull
<1>5. (n + 1) % SeqSize = n + 1
  <2>1. n + 1 \in Nat
    BY <1>2
  <2>. QED  BY <1>2, <1>4, <2>1, NumberSentAsIs, Zenon
<1>6. /\ session'[s].st = "open" /\ session'[s].cport = e.cport
      /\ session'[s].file = e.file /\ session'[s].blksize = b
      /\ session'[s].reply = e.reply /\ session'[s].n = n + 1
      /\ \A r \in ServerPorts : r # s => session'[r] = session[r]
  BY <1>1 DEF TypeInv, TypeOK, Sessions, Closed
<1>7. \A r \in ServerPorts : Current(r)' <=> Current(r)
  BY <1>a, <1>1, <1>6, Zenon DEF Current
<1>8. SessionInv'
  <2>1. ASSUME NEW r \in ServerPorts, r # s
        PROVE  (/\ session[r].st # "closed" => \E q \in toServer : q.src = session[r].cport
                /\ session[r].st = "open" =>
                     IF session[r].n = 0 THEN session[r].reply = "OACK"
                     ELSE /\ Base(session[r].n, session[r].blksize) <= Size[session[r].file]
                          /\ session[r].reply # "OACK" => session[r].blksize = DefaultBlkSize
                /\ Current(r) => session[r].file = tftp_filename)'
    BY <1>0, <1>a, <1>6, <1>7, <2>1 DEF SessionInv
  <2>2. (/\ session[s].st # "closed" => \E q \in toServer : q.src = session[s].cport
         /\ session[s].st = "open" =>
              IF session[s].n = 0 THEN session[s].reply = "OACK"
              ELSE /\ Base(session[s].n, session[s].blksize) <= Size[session[s].file]
                   /\ session[s].reply # "OACK" => session[s].blksize = DefaultBlkSize
         /\ Current(s) => session[s].file = tftp_filename)'
    <3>1. n + 1 # 0
      BY <1>2
    <3>2. Current(s)' => session'[s].file = tftp_filename'
      BY <1>0, <1>a, <1>6, <1>7, Zenon DEF SessionInv
    <3>3. \E q \in toServer : q.src = e.cport
      BY <1>1, Zenon
    <3>. QED  BY <1>a, <1>1, <1>2, <1>4, <1>6, <3>1, <3>2, <3>3, Zenon
  <2>. QED  BY <2>1, <2>2, Zenon DEF SessionInv
<1>9. PacketInv'
  <2>1. /\ p.type = "DATA" /\ p.src = s /\ p.dst = e.cport /\ p.file = e.file
        /\ p.blk = n + 1
        /\ p.base = Base(n + 1, b)
        /\ p.len = BlockLen(e.file, n + 1, b)
    BY <1>1, <1>5, Zenon DEF Data
  <2>2. n + 1 \in 1 .. n + 1
    BY <1>2
  <2>3. ASSUME NEW q \in toClient, q.type \in {"DATA", "OACK"}
        PROVE  q.src \in ServerPorts /\ (q.src = s /\ q.type = "DATA" => q.blk \in 1 .. n + 1)
    <3>1. q.src \in ServerPorts
      BY <2>3, Zenon DEF TypeInv, TypeOK, OackPackets, ErrPackets, DataPackets
    <3>2. q.src = s /\ q.type = "DATA" => q.blk \in 1 .. n
      BY <1>0, <2>3, Zenon DEF PacketInv
    <3>. QED  BY <1>2, <3>1, <3>2
  <2>. DEFINE Fits(q) ==
         LET d == session[q.src]
         IN /\ q.type = "DATA" =>
                 /\ d.st = "open"
                 /\ q.dst = d.cport
                 /\ q.file = d.file
                 /\ q.blk \in 1 .. d.n
                 /\ q.base = Base(q.blk, d.blksize)
                 /\ q.len = BlockLen(d.file, q.blk, d.blksize)
                 /\ q.base <= Size[d.file]
            /\ q.type = "OACK" =>
                 /\ d.st = "open"
                 /\ d.reply = "OACK"
                 /\ q.dst = d.cport
                 /\ d.blksize = IF q.blksize = 0 THEN DefaultBlkSize ELSE q.blksize
  <2>4. ASSUME NEW q \in toClient PROVE Fits(q)'
    <3>0. Fits(q)
      BY <1>0, Zenon DEF PacketInv
    <3>1. CASE q.type \notin {"DATA", "OACK"}
      BY <3>1, Zenon
    <3>2. CASE q.type \in {"DATA", "OACK"} /\ q.src # s
      <4>1. session'[q.src] = session[q.src]
        BY <1>6, <2>3, <3>2, Zenon
      <4>. QED  BY <3>0, <4>1, Zenon
    <3>3. CASE q.type \in {"DATA", "OACK"} /\ q.src = s
      BY <1>6, <2>3, <3>0, <3>3, Zenon
    <3>. QED  BY <3>1, <3>2, <3>3, Zenon
  <2>5. ASSUME NEW q, q = p PROVE Fits(q)'
    <3>1. q.src = s /\ q.type = "DATA" /\ q.dst = e.cport /\ q.file = e.file
      BY <2>1, <2>5, Zenon
    <3>2. q.blk = n + 1 /\ q.base = Base(n + 1, b) /\ q.len = BlockLen(e.file, n + 1, b)
      BY <2>1, <2>5, Zenon
    <3>. QED  BY <1>4, <1>6, <2>2, <3>1, <3>2, Zenon
  <2>6. \A q \in toClient' : q \in toClient \/ q = p
    BY <1>1, Zenon
  <2>7. \A q \in toClient' : Fits(q)'
    BY <2>4, <2>5, <2>6, Zenon
  <2>. QED  BY <2>7, Zenon DEF PacketInv
<1>10. m.src = TftpOurPort => /\ Connected
                              /\ s = TftpServerPort
                              /\ Live => n = 0 \/ HasBlock(n)
  BY <1>0, <1>1, <1>3, Zenon DEF RequestInv
<1>11. ServerNeverAhead'
  <2>1. TftpState = "RRQ" => ~Current(s)
    BY <1>1, <1>10, Zenon DEF Current, Connected
  <2>2. ASSUME Connected
        PROVE  (/\ TftpServerPort \in ServerPorts
                /\ Current(TftpServerPort)
                /\ TftpBlkSize = session[TftpServerPort].blksize)'
    BY <1>0, <1>b, <1>6, <1>7, <2>2, Zenon DEF ServerNeverAhead
  <2>3. ASSUME Connected, Live
        PROVE  Holds(tftp_filename, Base(session[TftpServerPort].n, TftpBlkSize))'
    <3>1. CASE TftpServerPort # s
      BY <1>0, <1>a, <1>b, <1>d, <1>6, <2>3, <3>1, Zenon DEF ServerNeverAhead
    <3>2. CASE TftpServerPort = s
      <4>1. /\ Current(s)
            /\ TftpBlkSize = b
            /\ Holds(tftp_filename, Base(n, b))
            /\ tftp_filename = e.file
        BY <1>0, <2>3, <3>2, Zenon DEF ServerNeverAhead, SessionInv
      <4>2. n = 0 \/ HasBlock(n)
        BY <1>1, <1>10, <2>3, <4>1, Zenon DEF Current
      <4>3. Holds(tftp_filename, Base(n + 1, b))
        <5>1. b \in Nat \ {0} /\ MemTop \in Nat
          BY <1>2, TftpAssumption, Zenon
        <5>2. CASE n = 0
          <6>1. (0 + 1 - 1) * b = 0
            BY <5>1
          <6>2. Base(n + 1, b) = 0
            BY <5>2, <6>1 DEF Base
          <6>. QED  BY <5>1, <6>2 DEF Holds
        <5>3. CASE n # 0
          <6>1. /\ BlockLen(e.file, n, b) = b
                /\ Base(n + 1, b) = Base(n, b) + BlockLen(e.file, n, b)
                /\ Base(n, b) \in Nat
            BY <1>1, <1>2, <5>3, BlockEnd, Zenon DEF LastSentFull
          <6>2. HasBlock(n)
            BY <4>2, <5>3, Zenon
          <6>. SUFFICES ASSUME NEW o \in 0 .. MemTop, o < Base(n + 1, b)
                        PROVE  mem[o] = [file |-> tftp_filename, pos |-> o]
            BY Zenon DEF Holds
          <6>3. CASE o < Base(n, b)
            BY <4>1, <6>3, Zenon DEF Holds
          <6>4. CASE ~(o < Base(n, b))
            <7>1. Base(n, b) <= o /\ o < Base(n, b) + BlockLen(e.file, n, b)
              BY <5>1, <6>1, <6>4
            <7>2. TftpBlkSize = b /\ tftp_filename = e.file
              BY <4>1, Zenon
            <7>. QED  BY <6>2, <7>1, <7>2, Zenon DEF HasBlock
          <6>. QED  BY <6>3, <6>4, Zenon
        <5>. QED  BY <5>2, <5>3, Zenon
      <4>. QED  BY <1>a, <1>b, <1>d, <1>6, <3>2, <4>1, <4>3, Zenon
    <3>. QED  BY <3>1, <3>2, Zenon
  <2>4. ASSUME Connected
        PROVE  (/\ Live /\ eth_current \in active => TftpBlock = 0 \/ HasBlock(TftpBlock)
                /\ Live /\ TftpState = "DATA" => TftpLastBlock = 0 \/ HasBlock(TftpLastBlock))'
    BY <1>0, <1>b, <1>c, <1>d, <2>4, Zenon DEF ServerNeverAhead, loopVars
  <2>5. (TftpState = "RRQ" =>
            /\ TftpBlock = 0
            /\ TftpBlkSize = DefaultBlkSize
            /\ \A r \in ServerPorts :
                 Current(r) => session[r].n = IF session[r].reply = "OACK" THEN 0 ELSE 1)'
    BY <1>0, <1>b, <1>c, <1>6, <1>7, <2>1, Zenon DEF ServerNeverAhead
  <2>. QED  BY <1>d, <2>2, <2>3, <2>4, <2>5, Zenon DEF ServerNeverAhead
<1>. QED  BY <1>d, <1>8, <1>9, <1>11, Zenon DEF DataInv

---------------------------------------------------------------------------
(* Blocks that are stored, the time-out, and the theorems. *)

\* Storing an accepted block puts it in its place in memory, spoils no byte
\* that was right, and keeps the size within that of the file.
LEMMA StoreCorrect ==
  ASSUME TypeInv, DataInv, NEW m \in toClient, DataHead(m), store_block(m)
  PROVE  /\ HasBlock(m.blk)'
         /\ \A o \in 0 .. MemTop : mem[o] = [file |-> tftp_filename, pos |-> o] =>
                                    mem'[o] = [file |-> tftp_filename, pos |-> o]
         /\ \A j : HasBlock(j) => HasBlock(j)'
         /\ \A l : Holds(tftp_filename, l) => Holds(tftp_filename, l)'
         /\ NetBootFileXferSize' <= Size[tftp_filename]
         /\ \/ NetBootFileXferSize = Size[tftp_filename]
            \/ m.len < TftpBlkSize
            => NetBootFileXferSize' = Size[tftp_filename]
         /\ Holds(tftp_filename, m.base) /\ m.len < TftpBlkSize =>
              Holds(tftp_filename, Size[tftp_filename])'
<1>. DEFINE f == tftp_filename
            b == TftpBlkSize
            k == m.blk
<1>1. /\ f \in Files /\ b \in Sizes /\ k \in Nat \ {0}
      /\ m.file = f
      /\ m.base = Base(k, b)
      /\ m.len = BlockLen(f, k, b)
      /\ m.base <= Size[f]
      /\ TftpBlockWrapOffset' = 0
  BY AcceptedData, SMTT(30)
<1>2. /\ m.base \in Nat /\ m.len \in Nat
      /\ m.base + m.len <= Size[f]
      /\ m.len < b => m.base + m.len = Size[f]
  BY <1>1, BlockEnd
<1>3. StoreOffset(m) = m.base
  BY <1>1, <1>2 DEF StoreOffset, Base
<1>4. UNCHANGED <<tftp_filename, TftpBlkSize>>
  BY Zenon DEF DataHead
<1>5. mem' = Stored(m, m.base)
  BY <1>3, Zenon DEF store_block
<1>6. ASSUME NEW o \in 0 .. MemTop
      PROVE  /\ m.base <= o /\ o < m.base + m.len => mem'[o] = [file |-> f, pos |-> o]
             /\ mem[o] = [file |-> f, pos |-> o] => mem'[o] = [file |-> f, pos |-> o]
  <2>1. CASE m.base <= o /\ o < m.base + m.len
    <3>1. mem'[o] = [file |-> f, pos |-> m.base + (o - m.base)]
      BY <1>1, <1>5, <2>1, Zenon DEF Stored
    <3>2. m.base + (o - m.base) = o
      BY <1>2, TftpAssumption
    <3>. QED  BY <3>1, <3>2, Zenon
  <2>2. CASE ~(m.base <= o /\ o < m.base + m.len)
    <3>1. mem'[o] = mem[o]
      BY <1>5, <2>2, Zenon DEF Stored
    <3>. QED  BY <2>2, <3>1, Zenon
  <2>. QED  BY <2>1, <2>2, Zenon
<1>7. HasBlock(k)'
  BY <1>1, <1>4, <1>6, SMTT(30) DEF HasBlock, DataHead
<1>8. \A j : HasBlock(j) => HasBlock(j)'
  BY <1>4, <1>6, Zenon DEF HasBlock
<1>9. \A l : Holds(f, l) => Holds(f, l)'
  BY <1>4, <1>6, Zenon DEF Holds
<1>10. /\ NetBootFileXferSize \in Nat
       /\ NetBootFileXferSize <= Size[f]
       /\ Size[f] \in Nat
  BY <1>1, TftpAssumption, AcceptedIsCurrent, Zenon
     DEF DataHead, DataInv, VerdictInv, TypeInv, TypeOK
<1>11. NetBootFileXferSize' = IF NetBootFileXferSize < m.base + m.len
                                THEN m.base + m.len ELSE NetBootFileXferSize
  BY <1>3, Zenon DEF store_block
<1>12. Holds(f, m.base) /\ m.len < b => Holds(f, Size[f])'
  <2>. SUFFICES ASSUME Holds(f, m.base), m.base + m.len = Size[f],
                       NEW o \in 0 .. MemTop, o < Size[f]
                PROVE  mem'[o] = [file |-> f, pos |-> o]
    BY <1>2, <1>4, Zenon DEF Holds
  <2>1. CASE o < m.base
    BY <1>6, <2>1, Zenon DEF Holds
  <2>2. CASE ~(o < m.base)
    <3>1. m.base <= o
      BY <1>2, <2>2, TftpAssumption
    <3>. QED  BY <1>6, <3>1, Zenon
  <2>. QED  BY <2>1, <2>2, Zenon
<1>13. /\ NetBootFileXferSize' <= Size[f]
       /\ NetBootFileXferSize = Size[f] \/ m.len < b
          => NetBootFileXferSize' = Size[f]
  <2>. HIDE DEF f, b
  <2>. QED  BY <1>2, <1>10, <1>11
<1>. QED  BY <1>6, <1>7, <1>8, <1>9, <1>12, <1>13, Zenon

\* A new block: stored, acknowledged, and the transfer a success when it is
\* short, which only the last block is.
LEMMA DataNewBlock ==
  ASSUME TypeInv, DataInv, NEW m \in toClient, ReceiveNewBlock(m)
  PROVE  DataInv'
<1>. USE DEF DataInv, serverVars
<1>. DEFINE f == tftp_filename
            b == TftpBlkSize
            e == session[m.src]
<1>1. DataHead(m) /\ store_block(m)
  BY Zenon DEF ReceiveNewBlock
<1>2. /\ Live
      /\ m.src \in ServerPorts
      /\ Current(m.src)
      /\ TftpState # "RRQ" => Connected /\ m.src = TftpServerPort
      /\ TftpState = "RRQ" => m.blk = 1 /\ e.n = 1
      /\ f \in Files /\ b \in Sizes /\ b = e.blksize
      /\ e.n \in Nat /\ m.blk \in 1 .. e.n
      /\ m.base = Base(m.blk, b)
      /\ m.len = BlockLen(f, m.blk, b)
      /\ Base(e.n, b) <= Size[f]
      /\ TftpBlockWrapOffset' = 0
  BY <1>1, AcceptedData, Zenon
<1>3. /\ HasBlock(m.blk)'
      /\ \A j : HasBlock(j) => HasBlock(j)'
      /\ \A l : Holds(f, l) => Holds(f, l)'
      /\ NetBootFileXferSize' <= Size[f]
      /\ \/ NetBootFileXferSize = Size[f]
         \/ m.len < b
         => NetBootFileXferSize' = Size[f]
      /\ Holds(f, m.base) /\ m.len < b => Holds(f, Size[f])'
  BY <1>1, StoreCorrect, Zenon
<1>4. /\ UNCHANGED <<session, toClient, TftpOurPort, tftp_filename, TftpBlkSize, BootFile>>
      /\ UNCHANGED <<phase, packetHandler, eth_current, active>>
      /\ TftpBlock' = m.blk /\ TftpLastBlock' = m.blk
      /\ TftpState' = "DATA" /\ TftpServerPort' = m.src
  BY <1>1, Zenon DEF DataHead, ReceiveNewBlock, ethVars
<1>5. Connected' /\ (Live' <=> Live) /\ \A s : Current(s)' <=> Current(s)
  BY <1>4, Zenon DEF Connected, Live, Current
<1>6. /\ toServer \subseteq toServer'
      /\ toServer' \subseteq toServer \cup {Ack(TftpOurPort, m.src, m.blk)}
  BY Zenon DEF ReceiveNewBlock, Send
<1>7. Holds(f, Base(e.n, b))
  <2>1. CASE TftpState = "RRQ"
    <3>1. Base(1, b) = 0
      <4>1. b \in Nat
        BY <1>2, TftpAssumption, Zenon
      <4>2. (1 - 1) * b = 0
        BY <4>1
      <4>. QED  BY <4>2, Zenon DEF Base
    <3>. QED  BY <1>2, <2>1, <3>1, TftpAssumption, SMTT(30) DEF Holds
  <2>2. CASE TftpState # "RRQ"
    BY <1>2, <2>2, Zenon DEF ServerNeverAhead
  <2>. QED  BY <2>1, <2>2, Zenon
<1>8. SessionInv'
  BY <1>4, <1>5, <1>6, Zenon DEF SessionInv
<1>9. PacketInv'
  BY <1>4, Zenon DEF PacketInv
<1>10. RequestInv'
  <2>1. ASSUME NEW q \in toServer, q.src = TftpOurPort
        PROVE  /\ q.type = "RRQ" => q.file = f
               /\ q.type = "ACK" => q.dst = m.src /\ (q.blk = 0 \/ HasBlock(q.blk)')
    BY <1>2, <1>3, <2>1, Zenon DEF RequestInv, Connected
  <2>2. ASSUME NEW q \in toServer', q \notin toServer
        PROVE  /\ q.type = "ACK"
               /\ q.dst = m.src
               /\ HasBlock(q.blk)'
    BY <1>3, <1>6, <2>2 DEF Ack
  <2>. QED  BY <1>4, <1>5, <2>1, <2>2, Zenon DEF RequestInv
<1>11. ServerNeverAhead'
  <2>1. Holds(tftp_filename, Base(session[TftpServerPort].n, TftpBlkSize))'
    BY <1>3, <1>4, <1>7, Zenon DEF Holds
  <2>2. HasBlock(TftpBlock)' /\ HasBlock(TftpLastBlock)'
    BY <1>3, <1>4, Zenon DEF HasBlock
  <2>. QED  BY <1>2, <1>4, <1>5, <2>1, <2>2, Zenon DEF ServerNeverAhead
<1>12. VerdictInv'
  <2>1. phase = "rx" /\ BootFile = f
    BY <1>2, Zenon DEF Live, TypeInv, ControlInv
  <2>2. ASSUME NetState' = "SUCCESS"
        PROVE  Holds(f, Size[f])' /\ NetBootFileXferSize' = Size[f]
    <3>1. CASE m.len < b
      <4>1. m.blk = e.n
        <5>1. b \in Nat
          BY <1>2, TftpAssumption, Zenon
        <5>. QED  BY <1>2, <3>1, <5>1, EarlierBlockFull
      <4>. QED  BY <1>2, <1>3, <1>7, <3>1, <4>1, Zenon
    <3>2. CASE ~(m.len < b)
      <4>1. NetState = "SUCCESS"
        BY <2>2, <3>2, Zenon DEF ReceiveNewBlock
      <4>2. Holds(f, Size[f]) /\ NetBootFileXferSize = Size[f]
        BY <2>1, <4>1, Zenon DEF VerdictInv
      <4>3. Holds(f, Size[f])'
        BY <1>3, <1>4, <4>2, Zenon DEF Holds
      <4>. QED  BY <1>3, <4>2, <4>3, Zenon
    <3>. QED  BY <3>1, <3>2, Zenon
  <2>. QED  BY <1>2, <1>3, <1>4, <2>1, <2>2, Zenon DEF VerdictInv, Holds
<1>. QED  BY <1>8, <1>9, <1>10, <1>11, <1>12, Zenon

\* A timeout: the request or the last acknowledgement goes out again, or the
\* attempt is over.
LEMMA DataTimeout ==
  ASSUME TypeInv, DataInv, TftpTimeout
  PROVE  DataInv'
<1>. USE DEF DataInv, serverVars
<1>1. UNCHANGED <<tftp_filename, TftpState, TftpServerPort, TftpOurPort, TftpBlock,
                  TftpLastBlock, TftpBlockWrapOffset, TftpBlkSize,
                  NetBootFileXferSize, mem, BootFile, toClient, session>>
  BY Zenon DEF TftpTimeout
<1>2. /\ \A s : Current(s)' <=> Current(s)
      /\ \A j : HasBlock(j)' <=> HasBlock(j)
      /\ \A g, l : Holds(g, l)' <=> Holds(g, l)
      /\ Connected' <=> Connected
  BY <1>1, Zenon DEF Current, HasBlock, Holds, Connected
<1>3. phase \in {"rx", "poll", "timer"} /\ NetDevExists = 1
  BY Zenon DEF TftpTimeout, TypeInv, ControlInv
<1>4. PacketInv'
  BY <1>1, Zenon DEF PacketInv
<1>5. CASE StartAgainFromTimer /\ UNCHANGED toServer
  <2>1. /\ Live' => Live /\ eth_current' \notin active'
        /\ NetState' = "SUCCESS" => NetState = "SUCCESS"
        /\ phase' \in {"rx", "switch"}
    BY <1>3, <1>5, StartAgainQuiet, Zenon DEF StartAgainFromTimer, Live
  <2>2. SessionInv'
    BY <1>1, <1>2, <1>5, Zenon DEF SessionInv
  <2>3. RequestInv'
    BY <1>1, <1>2, <1>5, <2>1, Zenon DEF RequestInv
  <2>4. ServerNeverAhead'
    BY <1>1, <1>2, <2>1, Zenon DEF ServerNeverAhead
  <2>5. VerdictInv'
    BY <1>1, <1>2, <1>3, <2>1, Zenon DEF VerdictInv
  <2>. QED  BY <1>4, <2>2, <2>3, <2>4, <2>5, Zenon
<1>6. CASE /\ Resend
           /\ phase' = IF NetState = "CONTINUE" THEN "rx" ELSE "switch"
           /\ UNCHANGED <<NetState, handlerVars, result, ethVars>>
  <2>1. /\ phase \in {"poll", "timer"} => NetState # "CONTINUE"
        /\ TftpState # "none"
    BY <1>3, Zenon DEF TypeInv, ControlInv
  <2>2. /\ Live' => Live
        /\ UNCHANGED <<eth_current, active, NetState>>
        /\ phase' \in {"rx", "switch"}
    BY <1>3, <1>6, <2>1, Zenon DEF Live, ethVars, handlerVars
  <2>. DEFINE p == IF TftpState = "RRQ" THEN Rrq(TftpOurPort, tftp_filename)
                                        ELSE Ack(TftpOurPort, TftpServerPort, TftpBlock)
  <2>3. /\ toServer \subseteq toServer'
        /\ toServer' \subseteq toServer \cup {p}
        /\ eth_current \notin active => toServer' = toServer
    BY <1>6, Zenon DEF Resend, Send
  <2>4. SessionInv'
    BY <1>1, <1>2, <2>3, Zenon DEF SessionInv
  <2>5. RequestInv'
    <3>1. ASSUME NEW q \in toServer', q \notin toServer
          PROVE  /\ q.type = "RRQ" => q.file = tftp_filename
                 /\ q.type = "ACK" =>
                      /\ Connected
                      /\ q.dst = TftpServerPort
                      /\ Live => q.blk = 0 \/ HasBlock(q.blk)
      <4>1. q = p /\ eth_current \in active
        BY <2>3, <3>1, Zenon
      <4>2. CASE TftpState = "RRQ"
        BY <4>1, <4>2, Zenon DEF Rrq
      <4>3. CASE TftpState # "RRQ"
        <5>1. Connected
          BY <2>1, <4>3, Zenon DEF Connected, TypeInv, TypeOK, TftpStates
        <5>2. q = Ack(TftpOurPort, TftpServerPort, TftpBlock)
          BY <4>1, <4>3, Zenon
        <5>3. q.type = "ACK" /\ q.dst = TftpServerPort /\ q.blk = TftpBlock
          BY <5>2, Zenon DEF Ack
        <5>. QED  BY <4>1, <5>1, <5>3, Zenon DEF ServerNeverAhead
      <4>. QED  BY <4>2, <4>3, Zenon
    <3>2. ASSUME NEW q \in toServer, q.src = TftpOurPort
          PROVE  /\ q.type = "RRQ" => q.file = tftp_filename
                 /\ q.type = "ACK" =>
                      /\ Connected
                      /\ q.dst = TftpServerPort
                      /\ Live => q.blk = 0 \/ HasBlock(q.blk)
      BY <3>2, Zenon DEF RequestInv
    <3>. QED  BY <1>1, <1>2, <2>2, <3>1, <3>2, Zenon DEF RequestInv
  <2>6. ServerNeverAhead'
    BY <1>1, <1>2, <2>2, Zenon DEF ServerNeverAhead
  <2>7. VerdictInv'
    BY <1>1, <1>2, <1>3, <2>2, Zenon DEF VerdictInv
  <2>. QED  BY <1>4, <2>4, <2>5, <2>6, <2>7, Zenon
<1>. QED  BY <1>5, <1>6, Zenon DEF TftpTimeout

\* Every step keeps the data invariant, one case per action.
LEMMA DataNext ==
  ASSUME NoWrap, ~PortsReused, TypeInv, DataInv, [Next]_vars
  PROVE  DataInv'
<1>1. CASE UNCHANGED vars
  <2>1. UNCHANGED <<tftpVars, toServer, serverVars, loopVars, BootFile>>
    BY <1>1, Zenon DEF vars
  <2>2. SessionInv' /\ PacketInv' /\ RequestInv' /\ ServerNeverAhead'
    BY <2>1, Frame, Zenon DEF Live, loopVars
  <2>3. VerdictInv'
    BY <2>1, Zenon DEF DataInv, VerdictInv, Holds, loopVars, tftpVars
  <2>. QED  BY <2>2, <2>3, Zenon DEF DataInv
<1>2. ASSUME NEW m \in toClient, Receive(m) PROVE DataInv'
  BY <1>2, DataOack, DataNotBlockOne, DataSameBlock, DataNewBlock, DataError, Zenon DEF Receive
<1>3. CASE ServerStep
  BY <1>3, DataAccept, DataAck, Zenon DEF ServerStep
<1>. QED
  BY <1>1, <1>2, <1>3, DataTftpboot, DataTftpStart, DataTimeout, DataDone, DataLoopStep, Zenon
     DEF Next

\* The inductive invariant holds in every instance in which block numbers do
\* not wrap and attempts draw different ports.
LEMMA Inductive == ASSUME NoWrap, ~PortsReused PROVE Spec => [](TypeInv /\ DataInv)
<1>1. Init => TypeInv /\ DataInv
  BY TypeInit, DataInit, Zenon
<1>2. TypeInv /\ DataInv /\ [Next]_vars => (TypeInv /\ DataInv)'
  BY TypeNext, DataNext, Zenon
<1>. QED  BY <1>1, <1>2, PTL DEF Spec

\* Every instance keeps TransferInv: TftpHandler, TftpTimeout and NetStartAgain
\* keep memory, the counters and what has been sent in step with the server's
\* sessions.
THEOREM TransferCorrect == ASSUME NoWrap, ~PortsReused PROVE Spec => []TransferInv
<1>1. TypeInv /\ DataInv => TransferInv
  BY Zenon DEF TypeInv, DataInv, TransferInv
<1>. QED  BY <1>1, Inductive, PTL

\* A tftpboot command that returns success has loaded exactly the file it was
\* asked for and counted its size (TftpHandler, store_block, NETLOOP_SUCCESS),
\* for every file, block size, number of devices, ports and retries.
THEOREM SuccessLoadsFile == ASSUME NoWrap, ~PortsReused PROVE Spec => []SuccessIntegrity
<1>1. TransferInv => SuccessIntegrity
  BY Zenon DEF TransferInv, VerdictInv, SuccessIntegrity
<1>. QED  BY <1>1, TransferCorrect, PTL

\* Only a stored block changes memory (memcpy in store_block).
LEMMA OnlyStoreWrites ==
  ASSUME [Next]_vars
  PROVE  \/ mem' = mem
         \/ \E m \in toClient : DataHead(m) /\ store_block(m)
<1>1. CASE UNCHANGED vars
  BY <1>1, Zenon DEF vars, tftpVars
<1>2. CASE \E f \in Files : Tftpboot(f)
  BY <1>2, Zenon DEF Tftpboot, tftpVars
<1>3. CASE TftpStart \/ TftpTimeout
  BY <1>3, Zenon DEF TftpStart, TftpTimeout
<1>4. CASE TftpDone \/ LoopStep \/ ServerStep
  BY <1>4, Zenon DEF TftpDone, LoopStep, ServerStep, tftpVars
<1>5. ASSUME NEW m \in toClient, Receive(m)
      PROVE  mem' = mem \/ (DataHead(m) /\ store_block(m))
  BY <1>5, Zenon DEF Receive, ReceiveOack, ReceiveNotBlockOne, ReceiveSameBlock,
              ReceiveNewBlock, ReceiveError, tftpVars
<1>. QED  BY <1>1, <1>2, <1>3, <1>4, <1>5, Zenon DEF Next

\* No packet, late, repeated or out of order, spoils a byte that has been
\* loaded (TftpHandler, store_block).
THEOREM LoadedBytesStay == ASSUME NoWrap, ~PortsReused PROVE Spec => NeverSpoils
<1>. DEFINE Keeps == \A o \in 0 .. MemTop :
                       mem[o] = [file |-> tftp_filename, pos |-> o] => mem'[o] = mem[o]
<1>1. TypeInv /\ DataInv /\ [Next]_vars => [Keeps]_vars
  <2>. SUFFICES ASSUME TypeInv, DataInv, [Next]_vars PROVE Keeps
    BY Zenon
  <2>1. CASE mem' = mem
    BY <2>1, Zenon
  <2>2. ASSUME NEW m \in toClient, DataHead(m), store_block(m) PROVE Keeps
    BY <2>2, StoreCorrect, Zenon
  <2>. QED  BY <2>1, <2>2, OnlyStoreWrites, Zenon
<1>2. Spec => [][Next]_vars
  BY Zenon DEF Spec
<1>. QED  BY <1>1, <1>2, Inductive, PTL DEF NeverSpoils

=============================================================================
