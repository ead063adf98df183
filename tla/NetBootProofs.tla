--------------------------- MODULE NetBootProofs ---------------------------
(***************************************************************************)
(* The safety properties of bootp, rarpboot and nfs for any ring of        *)
(* devices, any tree of files and links on the server and any size of      *)
(* file: BootInv is inductive.                                             *)
(***************************************************************************)
EXTENDS NetBoot, NetLoopProofs

\* What TypeOK says besides LoopTypeOK and NfsTypeOK.
BootTypeOK ==
  /\ NetOurIP \in Nat
  /\ commands \in 0 .. MaxCommands
  /\ protocol \in Protocols
  /\ autoload \in Autoloads
  /\ tries \in 0 .. TimeoutCount
  /\ bootp \in BootpRequests
  /\ bootpOlder \subseteq Devices
  /\ rarpAsked \subseteq Devices
  /\ ipaddr \in Nat
  /\ envChanged \in BOOLEAN

\* What BootInv says besides types.
Facts == WaitInv /\ OwnerInv /\ CallInv /\ TransferInv /\ AddressIsOurs /\ LoadedMeansFile

\* BootInv by its parts, before and after a step.
LEMMA BootParts ==
  /\ BootInv <=> LoopTypeOK /\ NfsTypeOK /\ BootTypeOK /\ Facts
  /\ BootInv' <=> LoopTypeOK' /\ NfsTypeOK' /\ BootTypeOK' /\ Facts'
  BY Zenon DEF BootInv, TypeOK, BootTypeOK, Facts

---------------------------------------------------------------------------
(* The loop. *)

\* What a step of the loop may do to a command that is running: it goes on,
\* starts again, or ends, and what the handlers asked for stands.
LoopMoves ==
  /\ LoopTypeOK'
  /\ WaitInv'
  /\ Running' => Running
  /\ Running' /\ NetState' = "SUCCESS" => NetState = "SUCCESS"
  /\ phase' = "rx" /\ packetHandler' = "protocol" =>
       phase = "rx" /\ packetHandler = "protocol" /\ eth_current' = eth_current
  /\ phase' = "rx" /\ NetState' = "CONTINUE" => NetState = "CONTINUE"
  /\ Running' /\ timeHandler' = "protocol" => timeHandler = "protocol"
  /\ phase' = "idle" /\ result' = "ok" =>
       (phase = "idle" /\ result = "ok") \/ (Running /\ NetState = "SUCCESS")

\* Starting again is such a step: if it leaves the handler of the protocol
\* installed, it has given up on the device in use.
LEMMA StartAgainMoves ==
  ASSUME LoopTypeOK, WaitInv, phase \in {"rx", "poll", "timer"},
         \/ phase = "rx" /\ StartAgainFromRx
         \/ StartAgainFromTimer
         \/ StartAgainFromArp
  PROVE  LoopMoves
<1>1. PICK t \in {timeHandler, "none"} : NetStartAgain(t)
  BY Zenon DEF StartAgainFromRx, StartAgainFromTimer, StartAgainFromArp
<1>2. t \in TimeHandlers
  BY Zenon DEF LoopTypeOK, TimeHandlers
<1>3. /\ LoopTypeOK'
      /\ phase' \in LoopPhases
      /\ phase' \in {"poll", "timer", "switch"} => NetState' # "CONTINUE"
      /\ UNCHANGED <<NetDevExists, result>>
  BY StartAgainLoop, Zenon DEF WaitInv
<1>4. \/ NetState' \in {"FAIL", "RESTART"}
      \/ /\ NetState' = NetState
         /\ timeHandler' = "startAgainTimeout"
         /\ packetHandler' = "startAgainHandler"
  BY <1>1, <1>2, StartAgainOutcome, Zenon
<1>5. /\ timeHandler' \in {timeHandler, "none", "startAgainTimeout"}
      /\ \/ eth_current' = eth_current
         \/ NetState' = "RESTART"
         \/ packetHandler' = "startAgainHandler"
  BY <1>1, StartAgainHandlers, Zenon DEF WaitInv, Running, LoopPhases
<1>6. WaitInv'
  BY <1>3, <1>4, Zenon DEF WaitInv, Running, LoopPhases, NeverWaitsUnarmed
<1>7. packetHandler' \in {packetHandler, "startAgainHandler"}
  BY <1>1, <1>2, StartAgainType, Zenon
<1>8. ASSUME phase' = "rx", packetHandler' = "protocol"
      PROVE  phase = "rx" /\ packetHandler = "protocol" /\ eth_current' = eth_current
  BY <1>4, <1>5, <1>7, <1>8, Zenon DEF StartAgainFromRx, StartAgainFromTimer, StartAgainFromArp
<1>. QED
  BY <1>3, <1>4, <1>5, <1>6, <1>8, Zenon DEF LoopMoves, Running, LoopPhases

\* The other steps of NetLoop() are, too.
LEMMA LoopStepMoves ==
  ASSUME LoopTypeOK, WaitInv,
         StartAgainTimeout \/ Restart \/ Fail \/ Succeed \/ Abort \/ UNCHANGED loopVars
  PROVE  LoopMoves
<1>1. CASE StartAgainTimeout
  BY <1>1, Zenon
     DEF StartAgainTimeout, TimerDue, ethVars, LoopMoves, Running, LoopPhases, WaitInv,
              NeverWaitsUnarmed, LoopTypeOK, Phases, NetStates, TimeHandlers
<1>2. CASE Restart
  BY <1>2, Zenon DEF Restart, ethVars, handlerVars, LoopMoves, Running, LoopPhases, WaitInv,
              NeverWaitsUnarmed, LoopTypeOK, Phases, NetStates
<1>3. CASE Fail
  BY <1>3, Zenon DEF Fail, ethVars, handlerVars, LoopMoves, Running, LoopPhases, WaitInv,
              NeverWaitsUnarmed, LoopTypeOK, Phases, Results
<1>4. CASE Succeed
  BY <1>4, Zenon DEF Succeed, eth_halt, LoopMoves, Running, LoopPhases, WaitInv,
              NeverWaitsUnarmed, LoopTypeOK, Phases, Results
<1>5. CASE Abort
  BY <1>5, Zenon DEF Abort, eth_halt, LoopMoves, Running, LoopPhases, WaitInv,
              NeverWaitsUnarmed, LoopTypeOK, Phases, Results
<1>6. CASE UNCHANGED loopVars
  BY <1>6, Zenon DEF loopVars, LoopMoves, Running, WaitInv, NeverWaitsUnarmed, LoopTypeOK
<1>. QED  BY <1>1, <1>2, <1>3, <1>4, <1>5, <1>6, Zenon

\* What is known of the command and of the transfer outlasts such a step, with
\* or without a new request or call of the same client.
LEMMA FactsCarry ==
  ASSUME Facts, LoopMoves, CallInv',
         UNCHANGED <<owner, BootFile, protocol, autoload, path, NfsState, NfsDownloadState,
                     curtailed,
                     nfs_offset, NetBootFileXferSize, mem>>,
         NetOurIP' = NetOurIP \/ NetOurIP' = Addr[eth_current'],
         bootp' = bootp \/ bootp'.mac = eth_current',
         \/ NfsTimeoutCount' = NfsTimeoutCount
         \/ NfsTimeoutCount' <= NfsRetryCount
         \/ timeHandler' # "protocol" /\ ~(phase' = "rx" /\ packetHandler' = "protocol")
  PROVE  Facts'
<1>1. UNCHANGED Wanted /\ (Obtained => Obtained') /\ \A f, l : Holds(f, l) => Holds(f, l)'
  BY Zenon DEF Wanted, Loaded, Obtained, Holds
<1>2. OwnerInv'
  BY Zenon DEF Facts, LoopMoves, OwnerInv, Running
<1>3. TransferInv'
  BY <1>1, Zenon DEF Facts, LoopMoves, TransferInv, Running
<1>4. AddressIsOurs'
  BY Zenon DEF Facts, LoopMoves, AddressIsOurs
<1>5. LoadedMeansFile'
  <2>. SUFFICES ASSUME phase' = "idle", result' = "ok", owner = "NFS"
                PROVE  Obtained
    BY <1>1, Zenon DEF LoadedMeansFile
  <2>1. CASE phase = "idle" /\ result = "ok"
    BY <2>1, Zenon DEF Facts, LoadedMeansFile
  <2>2. CASE Running /\ NetState = "SUCCESS"
    BY <2>2, Zenon DEF Facts, TransferInv
  <2>. QED  BY <2>1, <2>2, Zenon DEF LoopMoves
<1>6. WaitInv'
  BY Zenon DEF LoopMoves
<1>. QED  BY <1>2, <1>3, <1>4, <1>5, <1>6, Zenon DEF Facts

\* A step of the loop alone.
LEMMA LoopAlone ==
  ASSUME BootInv, LoopMoves, UNCHANGED <<startVars, nfsVars, commandVars, askVars>>,
         ipaddr' \in Nat, envChanged' \in BOOLEAN
  PROVE  BootInv'
<1>1. /\ UNCHANGED <<owner, NetOurIP, NetServerEther, BootFile, commands, protocol, autoload>>
      /\ UNCHANGED <<tries, bootp, bootpOlder, rarpAsked>>
  BY Zenon DEF startVars, commandVars, askVars
<1>2. /\ UNCHANGED <<path, NfsState, NfsDownloadState, curtailed, NfsTimeoutCount, filefh, rpc,
                     older, arpWait>>
      /\ UNCHANGED <<NfsSrvMountPort, NfsSrvNfsPort, fs_mounted, dirfh, nfs_offset,
                     NetBootFileXferSize, mem>>
  BY Zenon DEF nfsVars, portVars, mountVars, fileVars
<1>3. NfsTypeOK'
  BY <1>1, <1>2, BootParts DEF NfsTypeOK
<1>4. BootTypeOK'
  BY <1>1, BootParts, Zenon DEF BootTypeOK
<1>5. CallInv'
  BY <1>2, BootParts, Zenon DEF Facts, CallInv
<1>6. Facts'
  BY <1>1, <1>2, <1>5, BootParts, FactsCarry, Zenon
<1>. QED  BY <1>3, <1>4, <1>6, BootParts, Zenon DEF LoopMoves

\* ctrl-C, a restart, the end of the wait and of the command, ARP and TFTP giving
\* up.
LEMMA BootLoopSteps ==
  ASSUME BootInv, LoopStep \/ CtrlC \/ Done \/ TftpTimeout \/ ArpGivesUp
  PROVE  BootInv'
<1>1. UNCHANGED <<startVars, nfsVars, commandVars, askVars>>
  BY Zenon DEF LoopStep, CtrlC, Done, TftpTimeout, ArpGivesUp
<1>2. ipaddr' \in Nat /\ envChanged' \in BOOLEAN
  BY BootParts, Zenon DEF LoopStep, CtrlC, Done, TftpTimeout, ArpGivesUp, envVars, BootTypeOK
<1>3. LoopTypeOK /\ WaitInv
  BY BootParts, Zenon DEF Facts
<1>4. CASE LoopStep \/ CtrlC \/ Done
  <2>1. LoopMoves
    BY <1>3, <1>4, LoopStepMoves, Zenon DEF LoopStep, CtrlC, Done
  <2>. QED  BY <1>1, <1>2, <2>1, LoopAlone, Zenon
<1>5. CASE TftpTimeout \/ ArpGivesUp
  <2>1. LoopMoves
    BY <1>3, <1>5, StartAgainMoves, Zenon DEF TftpTimeout, ArpGivesUp, TimerDue, StartAgainFromArp
  <2>. QED  BY <1>1, <1>2, <2>1, LoopAlone, Zenon
<1>. QED  BY <1>4, <1>5, Zenon

---------------------------------------------------------------------------
(* Calls of the NFS client. *)

\* What the state of the client and the files of the server let a call ask for.
SendOK ==
  /\ path \in Nodes
  /\ NfsState \in NfsStates \ {"none"}
  /\ dirfh \in Dirs \cup {NoDir}
  /\ filefh \in Nodes \cup {NoNode}
  /\ nfs_offset \in 0 .. MemTop
  /\ NfsState \in {"READ_REQ", "READLINK_REQ"} => filefh = path
  /\ NfsState = "READ_REQ" => nfs_offset <= IF Kind[path] = "file" THEN Size[path] ELSE 0

\* Whatever the handler has assigned, NfsSend() leaves a call that asks for it,
\* or there is no call to wait for.
LEMMA SendKeeps ==
  ASSUME NfsSend, rpc \in Calls, older \subseteq Calls, arpWait \in {"no", "old", "last"},
         NetOurIP' \in Nat, SendOK'
  PROVE  /\ rpc' \in Calls
         /\ older' \subseteq Calls
         /\ arpWait' \in {"no", "old", "last"}
         /\ CallInv'
<1>1. CASE UNCHANGED sendVars /\ NfsState' = "UMOUNT_REQ"
  BY <1>1, Zenon DEF sendVars, CallInv, SendOK
<1>2. CASE rpc' = Call(NfsState')
  <2>1. rpc' \in Calls
    <3>1. Dir[path'] \in Dirs
      BY Zenon DEF SendOK, Dirs
    <3>2. nfs_offset' \in Nat
      BY NfsAssumption DEF SendOK
    <3>. QED  BY <1>2, <3>1, <3>2, Zenon DEF Call, Calls, SendOK
  <2>2. CallInv'
    BY <1>2, Zenon DEF Call, CallInv, SendOK
  <2>3. older' \in {older, older \cup {rpc}} /\ arpWait' \in {"no", "old", "last", arpWait}
    BY Zenon DEF NfsSend, sendVars
  <2>. QED  BY <2>1, <2>2, <2>3, Zenon
<1>. QED  BY <1>1, <1>2, Zenon DEF NfsSend

\* NfsStart() begins with the name that is wanted.
LEMMA StartKeeps ==
  ASSUME NfsStart, NfsTypeOK, NetOurIP' \in Nat, BootFile' \in Nodes \cup {NoNode},
         NetBootFileXferSize' \in 0 .. MemTop
  PROVE  /\ NfsTypeOK'
         /\ CallInv'
         /\ path' = Wanted'
<1>1. /\ owner' = "NFS" /\ NfsDownloadState' = "FAIL" /\ NfsTimeoutCount' = 0
      /\ curtailed' = FALSE
      /\ NfsState' = "PRCLOOKUP_PROG_MOUNT_REQ" /\ NetServerEther' = 0
      /\ path' = IF BootFile' = NoNode THEN DefaultFile ELSE BootFile'
      /\ UNCHANGED <<NfsSrvMountPort, NfsSrvNfsPort, fs_mounted, dirfh, filefh, nfs_offset, mem>>
      /\ NfsSend
  BY Zenon DEF NfsStart, portVars, mountVars
<1>2. path' \in Nodes /\ path' = Wanted'
  BY <1>1, NfsAssumption, Zenon DEF Wanted
<1>3. SendOK'
  BY <1>1, <1>2, Zenon DEF SendOK, NfsTypeOK, NfsStates
<1>4. /\ rpc' \in Calls /\ older' \subseteq Calls /\ arpWait' \in {"no", "old", "last"}
      /\ CallInv'
  BY <1>1, <1>3, SendKeeps, Zenon DEF NfsTypeOK
<1>5. 0 \in 0 .. NfsRetryCount + 1
  BY NfsAssumption
<1>6. NfsTypeOK'
  BY <1>1, <1>2, <1>4, <1>5, Zenon DEF NfsTypeOK, NfsStates
<1>. QED  BY <1>2, <1>4, <1>6, Zenon

---------------------------------------------------------------------------
(* Replies to the NFS client. *)

\* NfsHandler() is given a reply: the loop stays where it is.
Handled ==
  /\ phase = "rx" /\ packetHandler = "protocol" /\ owner = "NFS"
  /\ UNCHANGED <<phase, NetTryCount, NetRestarted, NetDevExists, NetRestartWrap, eth_current,
                 first_failed, active, packetHandler, result>>
  /\ UNCHANGED <<owner, NetOurIP, NetServerEther, BootFile, NfsTimeoutCount>>
  /\ UNCHANGED <<commandVars, askVars, envVars>>
  /\ timeHandler' \in {timeHandler, "protocol"}
  /\ NetState' \in {NetState, "SUCCESS", "FAIL"}

\* A reply is to a call that was made; one with the right id is to the last.
Reply(r, last) == r \in Calls /\ (last => r = rpc)

\* All but the transfer is as before.
LEMMA HandledKeeps ==
  ASSUME BootInv, Handled, NfsTypeOK', CallInv', TransferInv'
  PROVE  BootInv'
<1>1. LoopTypeOK'
  BY BootParts, Zenon DEF Handled, LoopTypeOK, TimeHandlers, NetStates
<1>2. UNCHANGED <<commands, protocol, autoload, tries, bootp, bootpOlder, rarpAsked, ipaddr,
                  envChanged>>
  BY Zenon DEF Handled, commandVars, askVars, envVars
<1>3. BootTypeOK'
  BY <1>2, BootParts, Zenon DEF Handled, BootTypeOK
<1>4. WaitInv'
  BY BootParts, Zenon DEF Facts, Handled, WaitInv, Running, LoopPhases, NeverWaitsUnarmed
<1>5. OwnerInv' /\ LoadedMeansFile'
  BY Zenon DEF Handled, OwnerInv, LoadedMeansFile
<1>6. AddressIsOurs'
  BY <1>2, BootParts, Zenon DEF Facts, Handled, AddressIsOurs
<1>. QED  BY <1>1, <1>3, <1>4, <1>5, <1>6, BootParts, Zenon DEF Facts

\* What is known when a reply comes.
LEMMA AtReply ==
  ASSUME BootInv, Handled, NfsState # "none"
  PROVE  /\ NfsTypeOK /\ CallInv /\ path \in Nodes /\ Final[path] = Final[Wanted]
         /\ UNCHANGED Wanted
         /\ NfsTimeoutCount' <= NfsRetryCount
  BY BootParts, Zenon DEF Facts, CallInv, TransferInv, Handled, Running, LoopPhases, Wanted

\* The two answers of the port mapper.
LEMMA PortReplied ==
  ASSUME BootInv, Handled, NEW r, NEW last, Reply(r, last), PortReply(r, last)
  PROVE  BootInv'
<1>1. /\ NfsState \in {"PRCLOOKUP_PROG_MOUNT_REQ", "PRCLOOKUP_PROG_NFS_REQ"}
      /\ NfsState' \in {"PRCLOOKUP_PROG_NFS_REQ", "MOUNT_REQ"}
      /\ NfsSrvMountPort' \in {NfsSrvMountPort, 0, 1} /\ NfsSrvNfsPort' \in {NfsSrvNfsPort, 0, 1}
  BY Zenon DEF PortReply, Handles
<1>2. /\ UNCHANGED <<path, NfsDownloadState, curtailed, filefh, fs_mounted, dirfh, nfs_offset,
                     NetBootFileXferSize, mem, NetState>>
      /\ NfsSend
  BY Zenon DEF PortReply, mountVars, fileVars, LoopUnchanged, loopVars
<1>3. /\ NfsTypeOK /\ CallInv /\ path \in Nodes /\ Final[path] = Final[Wanted]
      /\ UNCHANGED Wanted
      /\ NfsTimeoutCount' <= NfsRetryCount
  BY <1>1, AtReply, Zenon
<1>4. SendOK'
  BY <1>1, <1>2, <1>3, Zenon DEF SendOK, NfsTypeOK, NfsStates
<1>5. NetOurIP' \in Nat
  BY BootParts, Zenon DEF BootTypeOK, Handled
<1>6. /\ rpc' \in Calls /\ older' \subseteq Calls /\ arpWait' \in {"no", "old", "last"}
      /\ CallInv'
  BY <1>2, <1>3, <1>4, <1>5, SendKeeps, Zenon DEF NfsTypeOK
<1>7. NfsTypeOK'
  BY <1>1, <1>2, <1>3, <1>6 DEF NfsTypeOK, Handled, NfsStates
<1>8. TransferInv'
  BY <1>1, <1>2, <1>3, BootParts, Zenon DEF Facts, TransferInv, Handled, Running, LoopPhases
<1>. QED  BY <1>6, <1>7, <1>8, HandledKeeps, Zenon

\* The handle of the directory.
LEMMA MountReplied ==
  ASSUME BootInv, Handled, NEW r, NEW last, Reply(r, last), MountReply(r, last)
  PROVE  BootInv'
<1>1. /\ NfsState = "MOUNT_REQ" /\ NfsState' \in {"LOOKUP_REQ", "UMOUNT_REQ"}
      /\ fs_mounted' \in {fs_mounted, TRUE} /\ dirfh' \in {dirfh, r.dir}
  BY Zenon DEF MountReply, Handles, mountVars
<1>2. /\ UNCHANGED <<path, NfsDownloadState, curtailed, filefh, NfsSrvMountPort, NfsSrvNfsPort,
                     nfs_offset,
                     NetBootFileXferSize, mem, NetState>>
      /\ NfsSend
  BY Zenon DEF MountReply, portVars, fileVars, LoopUnchanged, loopVars
<1>3. /\ NfsTypeOK /\ CallInv /\ path \in Nodes /\ Final[path] = Final[Wanted]
      /\ UNCHANGED Wanted
      /\ NfsTimeoutCount' <= NfsRetryCount
  BY <1>1, AtReply, Zenon
<1>4. SendOK'
  BY <1>1, <1>2, <1>3, Zenon DEF SendOK, NfsTypeOK, NfsStates, Reply, Calls
<1>5. NetOurIP' \in Nat
  BY BootParts, Zenon DEF BootTypeOK, Handled
<1>6. /\ rpc' \in Calls /\ older' \subseteq Calls /\ arpWait' \in {"no", "old", "last"}
      /\ CallInv'
  BY <1>2, <1>3, <1>4, <1>5, SendKeeps, Zenon DEF NfsTypeOK
<1>7. NfsTypeOK'
  BY <1>1, <1>2, <1>3, <1>4, <1>6, Zenon DEF NfsTypeOK, Handled, NfsStates, SendOK
<1>8. TransferInv'
  BY <1>1, <1>2, <1>3, BootParts, Zenon DEF Facts, TransferInv, Handled, Running, LoopPhases
<1>. QED  BY <1>6, <1>7, <1>8, HandledKeeps, Zenon

\* The handle of the file: it is that of the name asked for.
LEMMA LookupReplied ==
  ASSUME BootInv, Handled, NEW r, NEW last, Reply(r, last), LookupReply(r, last)
  PROVE  BootInv'
<1>1. NfsState = "LOOKUP_REQ"
  BY Zenon DEF LookupReply, Handles
<1>2. /\ UNCHANGED <<path, NfsDownloadState, curtailed, NfsSrvMountPort, NfsSrvNfsPort,
                     fs_mounted, dirfh,
                     NetBootFileXferSize, mem, NetState>>
      /\ NfsSend
  BY Zenon DEF LookupReply, portVars, mountVars, LoopUnchanged, loopVars
<1>3. /\ NfsTypeOK /\ CallInv /\ path \in Nodes /\ Final[path] = Final[Wanted]
      /\ UNCHANGED Wanted
      /\ NfsTimeoutCount' <= NfsRetryCount
  BY <1>1, AtReply, Zenon
<1>4. \/ NfsState' = "READ_REQ" /\ filefh' = path /\ nfs_offset' = 0
      \/ NfsState' = "UMOUNT_REQ" /\ UNCHANGED <<filefh, nfs_offset>>
  BY <1>1, <1>3, Zenon DEF LookupReply, SameId, Reply, CallInv
<1>5. 0 \in 0 .. MemTop /\ 0 <= IF Kind[path] = "file" THEN Size[path] ELSE 0
  BY <1>3, NfsAssumption
<1>6. SendOK'
  BY <1>2, <1>3, <1>4, <1>5, Zenon DEF SendOK, NfsTypeOK, NfsStates
<1>7. NetOurIP' \in Nat
  BY BootParts, Zenon DEF BootTypeOK, Handled
<1>8. /\ rpc' \in Calls /\ older' \subseteq Calls /\ arpWait' \in {"no", "old", "last"}
      /\ CallInv'
  BY <1>2, <1>3, <1>6, <1>7, SendKeeps, Zenon DEF NfsTypeOK
<1>9. NfsTypeOK'
  BY <1>2, <1>3, <1>6, <1>8, Zenon DEF NfsTypeOK, Handled, SendOK
<1>10. Holds(path, 0)
  BY DEF Holds
<1>11. TransferInv'
  BY <1>1, <1>2, <1>3, <1>4, <1>10, BootParts, Zenon
     DEF Facts, TransferInv, Handled, Running, LoopPhases, Holds
<1>. QED  BY <1>8, <1>9, <1>11, HandledKeeps, Zenon

\* The length of a read at an offset within the file ends within the file, and
\* is 0 only at its end.
LEMMA ReadLenBounds ==
  ASSUME NEW r, r.node \in Nodes, r.off \in Nat, r.off <= Size[r.node]
  PROVE  /\ ReadLen(r) \in Nat
         /\ r.off + ReadLen(r) <= Size[r.node]
         /\ ReadLen(r) = 0 => r.off = Size[r.node]
  BY NfsAssumption DEF ReadLen

\* A block is stored behind the blocks before.
LEMMA BlockStored ==
  ASSUME NEW r, r.node = path, r.off = nfs_offset, store_block(r), path \in Nodes,
         ReadLen(r) \in Nat, nfs_offset \in 0 .. MemTop,
         NetBootFileXferSize = nfs_offset, Holds(path, nfs_offset),
         mem \in [0 .. MemTop -> Bytes], path' = path
  PROVE  /\ mem' \in [0 .. MemTop -> Bytes]
         /\ NetBootFileXferSize' = nfs_offset + ReadLen(r)
         /\ \A o \in 0 .. MemTop :
              o < nfs_offset + ReadLen(r) => mem'[o] = [file |-> path, pos |-> o]
<1>1. mem' = [o \in 0 .. MemTop |->
                IF nfs_offset <= o /\ o < nfs_offset + ReadLen(r)
                  THEN [file |-> path, pos |-> nfs_offset + (o - nfs_offset)]
                  ELSE mem[o]]
  BY Zenon DEF store_block
<1>2. \A o \in 0 .. MemTop :
        o < nfs_offset + ReadLen(r) => mem'[o] = [file |-> path, pos |-> o]
  BY <1>1, NfsAssumption DEF Holds
<1>3. \A o \in 0 .. MemTop : mem'[o] \in Bytes
  <2>. SUFFICES ASSUME NEW o \in 0 .. MemTop PROVE mem'[o] \in Bytes
    BY Zenon
  <2>1. o \in Nat
    BY NfsAssumption
  <2>2. CASE nfs_offset <= o /\ o < nfs_offset + ReadLen(r)
    <3>1. mem'[o] = [file |-> path, pos |-> o]
      BY <1>2, <2>2, Zenon
    <3>. QED  BY <2>1, <3>1 DEF Bytes
  <2>3. CASE ~(nfs_offset <= o /\ o < nfs_offset + ReadLen(r))
    BY <1>1, <2>3, Zenon
  <2>. QED  BY <2>2, <2>3, Zenon
<1>4. mem' \in [0 .. MemTop -> Bytes]
  BY <1>1, <1>3, Zenon
<1>5. NetBootFileXferSize' = nfs_offset + ReadLen(r)
  BY NfsAssumption DEF store_block
<1>. QED  BY <1>2, <1>4, <1>5, Zenon

\* Data, the end of the file, a handle that is not a file's, an error, or a
\* verifier.
LEMMA ReadReplied ==
  ASSUME BootInv, Handled, NEW r, NEW last, Reply(r, last), ReadReply(r, last)
  PROVE  BootInv'
<1>1. NfsState = "READ_REQ"
  BY Zenon DEF ReadReply, Handles
<1>2. /\ UNCHANGED <<path, filefh, NfsSrvMountPort, NfsSrvNfsPort, fs_mounted, dirfh, NetState>>
      /\ NfsSend
  BY Zenon DEF ReadReply, portVars, mountVars
<1>3. /\ NfsTypeOK /\ CallInv /\ path \in Nodes /\ Final[path] = Final[Wanted]
      /\ UNCHANGED Wanted
      /\ NfsTimeoutCount' <= NfsRetryCount
  BY <1>1, AtReply, Zenon
<1>4. /\ filefh = path /\ rpc.node = path /\ rpc.off = nfs_offset
      /\ nfs_offset <= IF Kind[path] = "file" THEN Size[path] ELSE 0
  BY <1>1, <1>3, Zenon DEF CallInv
<1>5. /\ NetBootFileXferSize = nfs_offset /\ Holds(path, nfs_offset)
      /\ NfsDownloadState = "FAIL" /\ NetState # "SUCCESS"
  BY <1>1, BootParts, Zenon DEF Facts, TransferInv, Handled, Running, LoopPhases
<1>6. /\ nfs_offset \in 0 .. MemTop /\ nfs_offset \in Nat /\ mem \in [0 .. MemTop -> Bytes]
      /\ curtailed \in BOOLEAN
  BY <1>3, NfsAssumption DEF NfsTypeOK
<1>7. ASSUME SendOK', NfsDownloadState' \in {"SUCCESS", "FAIL"}, curtailed' \in BOOLEAN,
             NetBootFileXferSize' \in 0 .. MemTop, mem' \in [0 .. MemTop -> Bytes]
      PROVE  NfsTypeOK' /\ CallInv'
  <2>1. NetOurIP' \in Nat
    BY BootParts, Zenon DEF BootTypeOK, Handled
  <2>2. /\ rpc' \in Calls /\ older' \subseteq Calls /\ arpWait' \in {"no", "old", "last"}
        /\ CallInv'
    BY <1>2, <1>3, <1>7, <2>1, SendKeeps, Zenon DEF NfsTypeOK
  <2>. QED  BY <1>2, <1>3, <1>7, <2>2, Zenon DEF NfsTypeOK, Handled, SendOK
<1>8. CASE /\ last /\ Kind[r.node] = "file" /\ ReadLen(r) > 0
           /\ store_block(r)
           /\ nfs_offset' = nfs_offset + ReadLen(r)
           /\ UNCHANGED <<NfsState, NfsDownloadState, curtailed>>
  <2>1. r = rpc /\ Kind[path] = "file" /\ Size[path] <= MemTop /\ Size[path] \in Nat
    BY <1>3, <1>4, <1>8, NfsAssumption, Zenon DEF Reply
  <2>2. ReadLen(r) \in Nat /\ nfs_offset' <= Size[path]
    BY <1>3, <1>4, <1>6, <1>8, <2>1, ReadLenBounds, Zenon
  <2>3. /\ mem' \in [0 .. MemTop -> Bytes]
        /\ NetBootFileXferSize' = nfs_offset'
        /\ \A o \in 0 .. MemTop : o < nfs_offset' => mem'[o] = [file |-> path, pos |-> o]
    BY <1>2, <1>3, <1>4, <1>5, <1>6, <1>8, <2>1, <2>2, BlockStored, Zenon
  <2>4. nfs_offset' \in 0 .. MemTop
    BY <1>6, <1>8, <2>1, <2>2, NfsAssumption
  <2>5. SendOK'
    BY <1>1, <1>2, <1>3, <1>4, <1>8, <2>1, <2>2, <2>4, Zenon DEF SendOK, NfsTypeOK, NfsStates
  <2>6. NfsTypeOK' /\ CallInv'
    BY <1>5, <1>6, <1>7, <1>8, <2>3, <2>4, <2>5, Zenon
  <2>7. Holds(path, nfs_offset)'
    BY <1>2, <2>3, Zenon DEF Holds
  <2>8. TransferInv'
    BY <1>1, <1>2, <1>3, <1>5, <1>8, <2>3, <2>7, Zenon DEF TransferInv, Handled, Running
  <2>. QED  BY <2>6, <2>8, HandledKeeps, Zenon
<1>9. CASE /\ \/ last /\ Kind[r.node] = "file" /\ ReadLen(r) = 0 /\ UNCHANGED curtailed
              \/ last /\ curtailed' = TRUE
           /\ NfsDownloadState' = "SUCCESS" /\ NfsState' = "UMOUNT_REQ"
           /\ UNCHANGED fileVars
  <2>1. Kind[path] # "file" => nfs_offset = 0
    BY <1>4, <1>6
  <2>2. UNCHANGED <<nfs_offset, NetBootFileXferSize, mem>> /\ curtailed' \in BOOLEAN
    BY <1>6, <1>9, Zenon DEF fileVars
  <2>3. SendOK'
    BY <1>2, <1>3, <1>9, <2>2, Zenon DEF SendOK, NfsTypeOK, NfsStates
  <2>4. NfsTypeOK' /\ CallInv'
    BY <1>5, <1>6, <1>7, <1>9, <2>2, <2>3, Zenon
  <2>5. Kind[path] = "file" => Final[path] = path
    BY <1>3, NfsAssumption, Zenon
  <2>6. Holds(Final[Wanted], NetBootFileXferSize)'
    <3>1. CASE Kind[path] = "file"
      BY <1>3, <1>5, <2>2, <2>5, <3>1, Zenon DEF Holds
    <3>2. CASE Kind[path] # "file"
      <4>1. \A o \in 0 .. MemTop : ~(o < NetBootFileXferSize')
        BY <1>5, <2>1, <2>2, <3>2, NfsAssumption
      <4>. QED  BY <4>1, Zenon DEF Holds
    <3>. QED  BY <3>1, <3>2, Zenon
  <2>7. ASSUME ~curtailed' PROVE Loaded'
    <3>1. r = rpc /\ Kind[path] = "file" /\ nfs_offset = Size[path]
      BY <1>3, <1>4, <1>6, <1>9, <2>7, ReadLenBounds, Zenon DEF Reply
    <3>. QED  BY <1>3, <1>5, <2>2, <2>5, <3>1, Zenon DEF Loaded, Holds
  <2>8. Obtained'
    BY <2>6, <2>7, Zenon DEF Obtained
  <2>9. TransferInv'
    BY <1>2, <1>3, <1>9, <2>8, Zenon DEF TransferInv, Handled, Running
  <2>. QED  BY <2>4, <2>9, HandledKeeps, Zenon
<1>10. CASE /\ \/ last /\ NfsState' = "READLINK_REQ"
               \/ NfsState' = "UMOUNT_REQ"
            /\ UNCHANGED <<NfsDownloadState, curtailed, fileVars>>
  <2>1. UNCHANGED <<NfsDownloadState, curtailed, nfs_offset, NetBootFileXferSize, mem>>
    BY <1>10, Zenon DEF fileVars
  <2>2. Kind[path] # "file" => NetBootFileXferSize' = 0
    BY <1>4, <1>5, <1>6, <2>1
  <2>3. SendOK'
    BY <1>2, <1>3, <1>4, <1>10, <2>1, Zenon DEF SendOK, NfsTypeOK, NfsStates
  <2>4. NfsTypeOK' /\ CallInv'
    BY <1>5, <1>6, <1>7, <2>1, <2>3, Zenon
  <2>5. TransferInv'
    BY <1>2, <1>3, <1>5, <1>10, <2>1, <2>2, Zenon DEF TransferInv, Handled, Running
  <2>. QED  BY <2>4, <2>5, HandledKeeps, Zenon
<1>. QED  BY <1>8, <1>9, <1>10, Zenon DEF ReadReply, SameId

\* Where the link leads the file is the same in the end.
LEMMA ReadlinkReplied ==
  ASSUME BootInv, Handled, NEW r, NEW last, Reply(r, last), ReadlinkReply(r, last)
  PROVE  BootInv'
<1>1. NfsState = "READLINK_REQ"
  BY Zenon DEF ReadlinkReply, Handles
<1>2. /\ UNCHANGED <<NfsDownloadState, curtailed, filefh, NfsSrvMountPort, NfsSrvNfsPort,
                     fs_mounted, dirfh,
                     nfs_offset, NetBootFileXferSize, mem, NetState>>
      /\ NfsSend
  BY Zenon DEF ReadlinkReply, portVars, mountVars, fileVars, LoopUnchanged, loopVars
<1>3. /\ NfsTypeOK /\ CallInv /\ path \in Nodes /\ Final[path] = Final[Wanted]
      /\ UNCHANGED Wanted
      /\ NfsTimeoutCount' <= NfsRetryCount
  BY <1>1, AtReply, Zenon
<1>4. \/ NfsState' = "MOUNT_REQ" /\ path' = Link[path] /\ Kind[path] = "link"
      \/ NfsState' = "UMOUNT_REQ" /\ UNCHANGED path
  BY <1>1, <1>3, Zenon DEF ReadlinkReply, SameId, Reply, CallInv
<1>5. path' \in Nodes /\ Final[path'] = Final[path]
  BY <1>3, <1>4, NfsAssumption
<1>6. SendOK'
  BY <1>2, <1>3, <1>4, <1>5, Zenon DEF SendOK, NfsTypeOK, NfsStates
<1>7. NetOurIP' \in Nat
  BY BootParts, Zenon DEF BootTypeOK, Handled
<1>8. /\ rpc' \in Calls /\ older' \subseteq Calls /\ arpWait' \in {"no", "old", "last"}
      /\ CallInv'
  BY <1>2, <1>3, <1>6, <1>7, SendKeeps, Zenon DEF NfsTypeOK
<1>9. NfsTypeOK'
  BY <1>2, <1>3, <1>6, <1>8, Zenon DEF NfsTypeOK, Handled, SendOK
<1>10. TransferInv'
  BY <1>1, <1>2, <1>3, <1>4, <1>5, BootParts, Zenon
     DEF Facts, TransferInv, Handled, Running, LoopPhases
<1>. QED  BY <1>8, <1>9, <1>10, HandledKeeps, Zenon

\* The answer to the unmount ends the transfer as it went before.
LEMMA UmountReplied ==
  ASSUME BootInv, Handled, NEW r, NEW last, Reply(r, last), UmountReply(r, last)
  PROVE  BootInv'
<1>1. NfsState = "UMOUNT_REQ" /\ NetState' \in {NfsDownloadState, "FAIL"}
  BY Zenon DEF UmountReply, Handles
<1>2. /\ UNCHANGED <<path, NfsState, NfsDownloadState, curtailed, filefh, rpc, older, arpWait,
                     NfsSrvMountPort,
                     NfsSrvNfsPort, nfs_offset, NetBootFileXferSize, mem, timeHandler>>
      /\ fs_mounted' \in {fs_mounted, FALSE} /\ dirfh' \in {dirfh, NoDir}
  BY Zenon DEF UmountReply, portVars, mountVars, fileVars, sendVars, handlerVars
<1>3. /\ NfsTypeOK /\ CallInv /\ path \in Nodes /\ Final[path] = Final[Wanted]
      /\ UNCHANGED Wanted
      /\ NfsTimeoutCount' <= NfsRetryCount
  BY <1>1, AtReply, Zenon
<1>4. NfsTypeOK'
  BY <1>2, <1>3, ZenonT(30) DEF NfsTypeOK, Handled
<1>5. CallInv'
  BY <1>1, <1>2, <1>3, Zenon DEF CallInv
<1>6. Obtained => Obtained'
  BY <1>2, <1>3, Zenon DEF Obtained, Loaded, Holds
<1>7. TransferInv'
  BY <1>1, <1>2, <1>3, <1>6, BootParts, Zenon DEF Facts, TransferInv, Handled, Running, LoopPhases
<1>. QED  BY <1>4, <1>5, <1>7, HandledKeeps, Zenon

\* Every packet NfsHandler() is given keeps the invariant.
LEMMA NfsHandled ==
  ASSUME BootInv, NfsHandler, UNCHANGED <<commandVars, askVars, envVars>>
  PROVE  BootInv'
<1>1. PICK r \in older \cup {rpc}, last \in BOOLEAN :
        /\ last => r = rpc
        /\ \/ PortReply(r, last) \/ MountReply(r, last) \/ LookupReply(r, last)
           \/ ReadReply(r, last) \/ ReadlinkReply(r, last) \/ UmountReply(r, last)
  BY Zenon DEF NfsHandler
<1>2. Reply(r, last)
  BY <1>1, BootParts, Zenon DEF Reply, NfsTypeOK
<1>3. CASE PortReply(r, last) \/ MountReply(r, last) \/ LookupReply(r, last) \/ ReadlinkReply(r, last)
  <2>1. LoopUnchanged /\ NfsTimeoutCount' = NfsTimeoutCount
    BY <1>3, Zenon DEF PortReply, MountReply, LookupReply, ReadlinkReply
  <2>2. phase = "rx" /\ packetHandler = "protocol" /\ owner = "NFS"
    BY <1>3, Zenon DEF PortReply, MountReply, LookupReply, ReadlinkReply, Handles
  <2>3. Handled
    BY <2>1, <2>2, Zenon DEF Handled, LoopUnchanged, loopVars, startVars
  <2>. QED  BY <1>2, <1>3, <2>3, PortReplied, MountReplied, LookupReplied, ReadlinkReplied, Zenon
<1>4. CASE ReadReply(r, last)
  <2>1. Handled
    BY <1>4, Zenon DEF ReadReply, Handles, Handled, ethVars, startVars
  <2>. QED  BY <1>2, <1>4, <2>1, ReadReplied, Zenon
<1>5. CASE UmountReply(r, last)
  <2>1. NfsDownloadState \in {"SUCCESS", "FAIL"}
    BY BootParts, Zenon DEF NfsTypeOK
  <2>2. Handled
    BY <1>5, <2>1, Zenon DEF UmountReply, Handles, Handled, ethVars, handlerVars, startVars
  <2>. QED  BY <1>2, <1>5, <2>2, UmountReplied, Zenon
<1>. QED  BY <1>1, <1>3, <1>4, <1>5, Zenon

\* NfsTimeout(): the call is made again, or the loop starts again.
LEMMA NfsTimedOut ==
  ASSUME BootInv, NfsTimeout, UNCHANGED <<commandVars, askVars, envVars>>
  PROVE  BootInv'
<1>1. /\ phase \in {"rx", "poll", "timer"} /\ timeHandler = "protocol" /\ owner = "NFS"
      /\ NfsTimeoutCount' = NfsTimeoutCount + 1
      /\ UNCHANGED <<owner, NetOurIP, NetServerEther, BootFile>>
      /\ UNCHANGED <<path, NfsState, NfsDownloadState, curtailed, filefh, NfsSrvMountPort,
                     NfsSrvNfsPort,
                     fs_mounted, dirfh, nfs_offset, NetBootFileXferSize, mem>>
  BY Zenon DEF NfsTimeout, TimerDue, Counted, startVars, portVars, mountVars, fileVars
<1>2. UNCHANGED <<commands, protocol, autoload, tries, bootp, bootpOlder, rarpAsked, ipaddr,
                  envChanged>>
  BY Zenon DEF commandVars, askVars, envVars
<1>3. /\ LoopTypeOK /\ NfsTypeOK /\ CallInv /\ WaitInv /\ Facts
      /\ NfsTimeoutCount <= NfsRetryCount
      /\ path \in Nodes /\ NfsState # "none"
  BY <1>1, BootParts, Zenon DEF Facts, TransferInv, CallInv, Running, LoopPhases
<1>4. NfsTimeoutCount' \in 0 .. NfsRetryCount + 1
  BY <1>1, <1>3, NfsAssumption DEF NfsTypeOK
<1>5. BootTypeOK'
  BY <1>1, <1>2, BootParts, Zenon DEF BootTypeOK
<1>6. CASE StartAgainFromTimer /\ UNCHANGED sendVars
  <2>1. LoopMoves
    BY <1>1, <1>3, <1>6, StartAgainMoves, Zenon
  <2>2. UNCHANGED <<rpc, older, arpWait>>
    BY <1>6, Zenon DEF sendVars
  <2>3. NfsTypeOK'
    BY <1>1, <1>3, <1>4, <2>2 DEF NfsTypeOK
  <2>4. CallInv'
    BY <1>1, <1>3, <2>2, Zenon DEF CallInv
  <2>5. timeHandler' # "protocol"
    BY <1>6, StartAgainHandlers DEF StartAgainFromTimer
  <2>6. ~(phase' = "rx" /\ packetHandler' = "protocol")
    <3>1. /\ phase' = "rx" => NetState' = "CONTINUE"
          /\ NetStartAgain("none")
      BY <1>6, Zenon DEF StartAgainFromTimer
    <3>2. NetState' = "CONTINUE" => packetHandler' = "startAgainHandler"
      BY <1>3, <3>1, StartAgainOutcome, Zenon DEF TimeHandlers
    <3>. QED  BY <3>1, <3>2, Zenon
  <2>7. Facts'
    BY <1>1, <1>2, <1>3, <2>1, <2>4, <2>5, <2>6, FactsCarry, Zenon
  <2>. QED  BY <1>5, <2>1, <2>3, <2>7, BootParts, Zenon DEF LoopMoves
<1>7. CASE /\ NfsTimeoutCount' <= NfsRetryCount
           /\ phase' = IF NetState = "CONTINUE" THEN "rx" ELSE "switch"
           /\ UNCHANGED <<NetState, NetTryCount, NetRestarted, NetDevExists, ethVars,
                          handlerVars, result>>
           /\ NfsSend
  <2>1. LoopMoves
    BY <1>1, <1>3, <1>7, Zenon
       DEF ethVars, handlerVars, LoopMoves, LoopTypeOK, Phases, LoopPhases,
                            Running, WaitInv, NeverWaitsUnarmed
  <2>2. SendOK'
    BY <1>1, <1>3, Zenon DEF SendOK, NfsTypeOK, CallInv
  <2>3. NetOurIP' \in Nat
    BY <1>5, Zenon DEF BootTypeOK
  <2>4. /\ rpc' \in Calls /\ older' \subseteq Calls /\ arpWait' \in {"no", "old", "last"}
        /\ CallInv'
    BY <1>3, <1>7, <2>2, <2>3, SendKeeps, Zenon DEF NfsTypeOK
  <2>5. NfsTypeOK'
    BY <1>1, <1>3, <1>4, <2>4, Zenon DEF NfsTypeOK
  <2>6. Facts'
    BY <1>1, <1>2, <1>3, <1>7, <2>1, <2>4, FactsCarry, Zenon
  <2>. QED  BY <1>5, <2>1, <2>5, <2>6, BootParts, Zenon DEF LoopMoves
<1>. QED  BY <1>6, <1>7, Zenon DEF NfsTimeout

---------------------------------------------------------------------------
(* Commands, and the start of their protocols. *)

\* Nothing is running yet.
LEMMA BootInit == ASSUME Init PROVE BootInv
<1>1. LoopTypeOK
  BY LoopInitType, Zenon DEF Init
<1>2. NoCall \in Calls /\ NoByte \in Bytes
  BY Zenon DEF NoCall, Calls, NfsStates, NoByte, Bytes
<1>3. 0 \in 0 .. MemTop /\ 0 \in 0 .. NfsRetryCount + 1
  BY NfsAssumption
<1>4. NfsTypeOK
  <2>1. mem \in [0 .. MemTop -> Bytes]
    BY <1>2, Zenon DEF Init, NfsInit
  <2>. QED  BY <1>2, <1>3, <2>1, Zenon DEF Init, NfsInit, NfsTypeOK, NfsStates
<1>5. 0 \in 0 .. MaxCommands /\ 0 \in 0 .. TimeoutCount /\ 0 \in Devices
  BY NetBootAssumption, NetLoopAssumption DEF Devices
<1>6. BootTypeOK
  BY <1>5, Zenon DEF Init, BootTypeOK, Protocols, Autoloads, BootpRequests
<1>7. Facts
  BY Zenon DEF Init, LoopInit, NfsInit, Facts, WaitInv, OwnerInv, CallInv, TransferInv, Running,
         LoopPhases, NeverWaitsUnarmed, AddressIsOurs, LoadedMeansFile
<1>. QED  BY <1>1, <1>4, <1>6, <1>7, BootParts, Zenon

\* Outside of the receive loop there is nothing to know but the call.
LEMMA FactsOutside ==
  ASSUME CallInv',
         \/ phase' = "restart" /\ NetState' = "CONTINUE"
         \/ phase' = "idle" /\ result' = "fail"
  PROVE  Facts'
  BY Zenon DEF Facts, WaitInv, OwnerInv, TransferInv, Running, LoopPhases, NeverWaitsUnarmed,
         AddressIsOurs, LoadedMeansFile

\* A command is typed.
LEMMA BootCommand ==
  ASSUME BootInv, NEW p \in Protocols, NEW f \in Typed, NEW a \in Autoloads,
         NEW ip \in EnvAddrs \cup {ipaddr}, Netboot(p, f, a, ip)
  PROVE  BootInv'
<1>1. /\ LoopTypeOK'
      /\ \/ phase' = "restart" /\ NetState' = "CONTINUE"
         \/ phase' = "idle" /\ result' = "fail"
  BY BootParts, EnterLoop, Zenon DEF Netboot
<1>2. UNCHANGED <<owner, NetServerEther, path, NfsState, NfsDownloadState, curtailed,
                  NfsTimeoutCount, filefh,
                  rpc, older, NfsSrvMountPort, NfsSrvNfsPort, fs_mounted, dirfh, nfs_offset,
                  NetBootFileXferSize, mem>>
  BY Zenon DEF Netboot, portVars, mountVars, fileVars
<1>3. arpWait' = "no" /\ BootFile' \in Nodes \cup {NoNode}
  BY BootParts, NetBootAssumption, Zenon DEF Netboot, NfsTypeOK
<1>4. NfsTypeOK'
  BY <1>2, <1>3, BootParts DEF NfsTypeOK
<1>5. UNCHANGED <<NetOurIP, tries, bootp, bootpOlder, rarpAsked>>
  BY Zenon DEF Netboot, askVars
<1>6. commands' \in 0 .. MaxCommands /\ ipaddr' \in Nat
  BY BootParts, NetBootAssumption DEF Netboot, BootTypeOK
<1>7. protocol' \in Protocols /\ autoload' \in Autoloads /\ envChanged' \in BOOLEAN
  BY Zenon DEF Netboot
<1>8. BootTypeOK'
  BY <1>5, <1>6, <1>7, BootParts, Zenon DEF BootTypeOK
<1>9. CallInv'
  BY <1>2, BootParts, Zenon DEF Facts, CallInv
<1>. QED  BY <1>1, <1>4, <1>8, <1>9, FactsOutside, BootParts, Zenon

\* The nfs command without an address.
LEMMA BootNoAddress ==
  ASSUME BootInv, NoAddress
  PROVE  BootInv'
<1>1. /\ LoopTypeOK'
      /\ phase' = "idle" /\ result' = "fail"
  BY BootParts, Zenon DEF NoAddress, NotConfigured, eth_halt, LoopTypeOK, Phases, Results
<1>2. UNCHANGED <<owner, NetServerEther, BootFile, path, NfsState, NfsDownloadState, curtailed,
                  NfsTimeoutCount, filefh, rpc, older, arpWait, NfsSrvMountPort, NfsSrvNfsPort,
                  fs_mounted, dirfh, nfs_offset, NetBootFileXferSize, mem>>
  BY Zenon DEF NoAddress, nfsVars, portVars, mountVars, fileVars
<1>3. NfsTypeOK'
  BY <1>2, BootParts DEF NfsTypeOK
<1>4. BootTypeOK'
  BY BootParts, Zenon DEF NoAddress, commandVars, askVars, BootTypeOK
<1>5. CallInv'
  BY <1>2, BootParts, Zenon DEF Facts, CallInv
<1>. QED  BY <1>1, <1>3, <1>4, <1>5, FactsOutside, BootParts, Zenon

\* What a start function finds and leaves.
LEMMA StartCaseKeeps ==
  ASSUME BootInv, NEW p, StartCase(p)
  PROVE  /\ LoopTypeOK' /\ WaitInv'
         /\ protocol = p /\ phase' = "rx" /\ NetState' = "CONTINUE"
         /\ NetBootFileXferSize' = 0 /\ 0 \in 0 .. MemTop
         /\ UNCHANGED <<commands, protocol, autoload, BootFile, ipaddr, eth_current>>
         /\ envChanged' = FALSE
<1>1. phase = "restart" /\ NetState = "CONTINUE"
  BY BootParts, Zenon DEF Facts, WaitInv, StartCase, StartProtocol
<1>2. LoopTypeOK'
  BY BootParts, Zenon DEF StartCase, StartProtocol, ethVars, LoopTypeOK, Phases, LoopPhases,
                   TimeHandlers, PacketHandlers
<1>3. WaitInv'
  BY <1>1, Zenon DEF StartCase, StartProtocol, WaitInv, NeverWaitsUnarmed, Running, LoopPhases
<1>. QED
  BY <1>1, <1>2, <1>3, NfsAssumption DEF StartCase, StartProtocol, commandVars, ethVars

\* A request of BOOTP or RARP is one of the device in use.
LEMMA AskKeeps ==
  ASSUME BootpRequest \/ RarpRequest, eth_current' \in Devices,
         bootp \in BootpRequests, bootpOlder \subseteq Devices, rarpAsked \subseteq Devices
  PROVE  /\ bootp' \in BootpRequests /\ bootpOlder' \subseteq Devices
         /\ rarpAsked' \subseteq Devices
         /\ bootp' = bootp \/ bootp'.mac = eth_current'
         /\ BootpRequest => bootp'.mac = eth_current'
<1>1. CASE BootpRequest
  <2>1. bootp' \in BootpRequests /\ bootp'.mac = eth_current'
    BY <1>1 DEF BootpRequest, BootpRequests, GoesOut
  <2>2. bootpOlder' \in {bootpOlder, bootpOlder \cup {bootp.mac}} /\ bootp.mac \in Devices
    BY <1>1, Zenon DEF BootpRequest, BootpRequests
  <2>. QED  BY <1>1, <2>1, <2>2, Zenon DEF BootpRequest
<1>2. CASE RarpRequest /\ ~BootpRequest
  BY <1>2, Zenon DEF RarpRequest
<1>. QED  BY <1>1, <1>2, Zenon

\* BootpRequest() and RarpRequest() as the first of an attempt.
LEMMA BootAsks ==
  ASSUME BootInv, StartBootp \/ StartRarp
  PROVE  BootInv'
<1>1. PICK p \in {"BOOTP", "RARP"} :
        /\ StartCase(p) /\ owner' = p /\ NetOurIP' = 0 /\ tries' = 1
        /\ BootpRequest \/ (p = "RARP" /\ RarpRequest)
        /\ NfsKept /\ UNCHANGED <<NetServerEther, arpWait>>
  BY Zenon DEF StartBootp, StartRarp
<1>2. /\ LoopTypeOK' /\ WaitInv'
      /\ protocol = p /\ phase' = "rx" /\ NetState' = "CONTINUE"
      /\ NetBootFileXferSize' = 0 /\ 0 \in 0 .. MemTop
      /\ UNCHANGED <<commands, protocol, autoload, BootFile, ipaddr, eth_current>>
      /\ envChanged' = FALSE
  BY <1>1, StartCaseKeeps, Zenon
<1>3. UNCHANGED <<path, NfsState, NfsDownloadState, curtailed, NfsTimeoutCount, filefh, rpc, older,
                  NfsSrvMountPort, NfsSrvNfsPort, fs_mounted, dirfh, nfs_offset, mem>>
  BY <1>1, Zenon DEF NfsKept, portVars, mountVars
<1>4. NfsTypeOK'
  BY <1>1, <1>2, <1>3, BootParts DEF NfsTypeOK
<1>5. /\ bootp' \in BootpRequests /\ bootpOlder' \subseteq Devices /\ rarpAsked' \subseteq Devices
      /\ p = "BOOTP" => bootp'.mac = eth_current'
  BY <1>1, <1>2, AskKeeps, BootParts, Zenon DEF BootTypeOK, LoopTypeOK
<1>6. tries' \in 0 .. TimeoutCount
  BY <1>1, NetBootAssumption
<1>7. BootTypeOK'
  BY <1>1, <1>2, <1>5, <1>6, BootParts, Zenon DEF BootTypeOK
<1>8. CallInv'
  BY <1>3, BootParts, Zenon DEF Facts, CallInv
<1>9. OwnerInv'
  BY <1>1, <1>2, <1>5, Zenon DEF OwnerInv
<1>10. TransferInv' /\ AddressIsOurs' /\ LoadedMeansFile'
  BY <1>1, <1>2, Zenon DEF TransferInv, AddressIsOurs, LoadedMeansFile
<1>. QED  BY <1>2, <1>4, <1>7, <1>8, <1>9, <1>10, BootParts, Zenon DEF Facts

\* NfsStart() in NetLoop() or in a handler: the transfer is at its beginning.
LEMMA TransferBegins ==
  ASSUME NfsStart, path' = Wanted', path' \in Nodes, NetBootFileXferSize' = 0,
         NetState' # "SUCCESS"
  PROVE  TransferInv'
<1>1. /\ NfsState' = "PRCLOOKUP_PROG_MOUNT_REQ" /\ NfsDownloadState' = "FAIL"
      /\ NfsTimeoutCount' = 0
  BY Zenon DEF NfsStart
<1>. QED  BY <1>1, NfsAssumption DEF TransferInv

\* The nfs command starts NfsStart() with the address of the variable ipaddr.
LEMMA BootStartNfs ==
  ASSUME BootInv, StartNfs
  PROVE  BootInv'
<1>1. /\ LoopTypeOK' /\ WaitInv'
      /\ protocol = "NFS" /\ phase' = "rx" /\ NetState' = "CONTINUE"
      /\ NetBootFileXferSize' = 0 /\ 0 \in 0 .. MemTop
      /\ UNCHANGED <<commands, protocol, autoload, BootFile, ipaddr, eth_current>>
      /\ envChanged' = FALSE
  BY StartCaseKeeps, Zenon DEF StartNfs
<1>2. NetOurIP' \in Nat
  BY BootParts, Zenon DEF StartNfs, InitialIP, BootTypeOK
<1>3. NfsTypeOK' /\ CallInv' /\ path' = Wanted' /\ NfsStart
  BY <1>1, <1>2, BootParts, StartKeeps, Zenon DEF StartNfs, NfsTypeOK
<1>4. BootTypeOK'
  BY <1>1, <1>2, BootParts, Zenon DEF BootTypeOK, StartNfs, askVars
<1>5. path' \in Nodes /\ owner' = "NFS"
  BY <1>3, Zenon DEF CallInv, NfsStart
<1>6. TransferInv'
  BY <1>1, <1>3, <1>5, TransferBegins, Zenon
<1>7. OwnerInv' /\ AddressIsOurs' /\ LoadedMeansFile'
  BY <1>1, <1>5, Zenon DEF OwnerInv, AddressIsOurs, LoadedMeansFile
<1>. QED  BY <1>1, <1>3, <1>4, <1>6, <1>7, BootParts, Zenon DEF Facts

---------------------------------------------------------------------------
(* Replies and timeouts of BOOTP and RARP. *)

\* What the handlers do in the end: the command is over, or the transfer begins
\* with the address that was just learned.
LEMMA AutoloadKeeps ==
  ASSUME BootInv, NEW t \in {"none", timeHandler}, NEW e \in {0, 1}, Autoload(t, e),
         NEW p \in {"BOOTP", "RARP"}, Receiving(p),
         NetOurIP' \in Nat, BootFile' \in Nodes \cup {NoNode}, envChanged' \in BOOLEAN,
         p = "BOOTP" => NetOurIP' = Addr[eth_current]
  PROVE  BootInv'
<1>1. /\ phase = "rx" /\ packetHandler = "protocol" /\ owner = p /\ Running
      /\ UNCHANGED <<phase, NetTryCount, NetRestarted, NetDevExists, NetRestartWrap, eth_current,
                     first_failed, active, result>>
  BY Zenon DEF Receiving, Autoload, ethVars, Running, LoopPhases
<1>2. UNCHANGED <<commands, protocol, autoload, tries, bootp, bootpOlder, rarpAsked, ipaddr,
                  NetBootFileXferSize>>
  BY Zenon DEF Autoload, commandVars, askVars
<1>3. /\ protocol = p /\ NetBootFileXferSize = 0
      /\ NetState = "SUCCESS" => autoload = "n"
      /\ p = "BOOTP" => bootp.mac = eth_current
      /\ NetDevExists = 1 /\ (NetState = "CONTINUE" => timeHandler # "none")
      /\ LoopTypeOK /\ NfsTypeOK
  BY <1>1, BootParts, Zenon DEF Facts, OwnerInv, WaitInv, NeverWaitsUnarmed
<1>4. BootTypeOK'
  BY <1>2, BootParts, Zenon DEF BootTypeOK
<1>5. LoadedMeansFile'
  BY <1>1, Zenon DEF LoadedMeansFile
<1>6. ASSUME NfsKept PROVE CallInv'
  BY <1>6, BootParts, Zenon DEF Facts, CallInv, NfsKept
<1>7. ASSUME NfsKept, NetServerEther' \in {0, 1}, arpWait' \in {"no", "old", "last"},
             owner' \in {"BOOTP", "RARP", "TFTP"}
      PROVE  NfsTypeOK'
  <2>1. UNCHANGED <<path, NfsState, NfsDownloadState, curtailed, NfsTimeoutCount, filefh, rpc,
                    older,
                    NfsSrvMountPort, NfsSrvNfsPort, fs_mounted, dirfh, nfs_offset, mem>>
    BY <1>7, Zenon DEF NfsKept, portVars, mountVars
  <2>. QED  BY <1>2, <1>3, <1>7, <2>1, Zenon DEF NfsTypeOK
<1>8. CASE /\ autoload = "n" /\ NetState' = "SUCCESS" /\ timeHandler' = t
           /\ NetServerEther' = e /\ NfsKept /\ UNCHANGED <<owner, arpWait, packetHandler>>
  <2>1. LoopTypeOK'
    BY <1>1, <1>3, <1>8, Zenon DEF LoopTypeOK, NetStates, TimeHandlers
  <2>2. NfsTypeOK' /\ CallInv'
    BY <1>1, <1>3, <1>6, <1>7, <1>8, Zenon DEF NfsTypeOK
  <2>3. WaitInv' /\ OwnerInv' /\ TransferInv' /\ AddressIsOurs'
    BY <1>1, <1>2, <1>3, <1>8, Zenon
       DEF WaitInv, NeverWaitsUnarmed, OwnerInv, TransferInv, AddressIsOurs
  <2>. QED  BY <1>4, <1>5, <2>1, <2>2, <2>3, BootParts, Zenon DEF Facts
<1>9. ASSUME timeHandler' = "protocol", packetHandler' = "protocol", UNCHANGED NetState,
             owner' \in {"NFS", "TFTP"}
      PROVE  LoopTypeOK' /\ WaitInv' /\ OwnerInv' /\ AddressIsOurs'
  <2>1. LoopTypeOK'
    BY <1>1, <1>3, <1>9, Zenon DEF LoopTypeOK, TimeHandlers, PacketHandlers
  <2>2. WaitInv' /\ OwnerInv'
    BY <1>1, <1>3, <1>9, Zenon DEF WaitInv, NeverWaitsUnarmed, OwnerInv
  <2>3. AddressIsOurs'
    BY <1>1, <1>2, <1>3, Zenon DEF AddressIsOurs
  <2>. QED  BY <2>1, <2>2, <2>3, Zenon
<1>10. CASE autoload = "NFS" /\ UNCHANGED NetState /\ NfsStart
  <2>1. NfsTypeOK' /\ CallInv' /\ path' = Wanted'
    BY <1>2, <1>3, <1>10, StartKeeps, Zenon DEF NfsTypeOK
  <2>2. path' \in Nodes /\ NetState' # "SUCCESS"
    BY <1>3, <1>10, <2>1, Zenon DEF CallInv, NfsStart
  <2>3. TransferInv'
    BY <1>2, <1>3, <1>10, <2>1, <2>2, TransferBegins, Zenon
  <2>4. LoopTypeOK' /\ WaitInv' /\ OwnerInv' /\ AddressIsOurs'
    BY <1>9, <1>10, Zenon DEF NfsStart
  <2>. QED  BY <1>4, <1>5, <2>1, <2>3, <2>4, BootParts, Zenon DEF Facts
<1>11. CASE /\ autoload = "other" /\ owner' = "TFTP" /\ NetServerEther' = 0 /\ arpWait' = "old"
            /\ timeHandler' = "protocol" /\ packetHandler' = "protocol"
            /\ NfsKept /\ UNCHANGED NetState
  <2>1. NfsTypeOK' /\ CallInv'
    BY <1>6, <1>7, <1>11, Zenon
  <2>2. LoopTypeOK' /\ WaitInv' /\ OwnerInv' /\ AddressIsOurs'
    BY <1>9, <1>11, Zenon
  <2>3. TransferInv'
    BY <1>11, Zenon DEF TransferInv
  <2>. QED  BY <1>4, <1>5, <2>1, <2>2, <2>3, BootParts, Zenon DEF Facts
<1>. QED  BY <1>8, <1>10, <1>11, Zenon DEF Autoload

\* BootpHandler(): the reply is to the request of the device in use.
LEMMA BootpReplied ==
  ASSUME BootInv, NEW mac \in Devices, NEW f \in Offered, BootpReply(mac, f)
  PROVE  BootInv'
<1>1. Receiving("BOOTP") /\ mac = eth_current /\ Autoload("none", 1)
  BY BootParts, Zenon
     DEF BootpReply, BootpCheckPkt, Receiving, Facts, OwnerInv, Running, LoopPhases
<1>2. NetOurIP' = Addr[eth_current] /\ NetOurIP' \in Nat
  BY <1>1, NetBootAssumption, Zenon DEF BootpReply
<1>3. BootFile' \in Nodes \cup {NoNode}
  BY BootParts, NetBootAssumption, Zenon DEF BootpReply, NfsTypeOK
<1>4. envChanged' \in BOOLEAN
  BY Zenon DEF BootpReply
<1>. QED  BY <1>1, <1>2, <1>3, <1>4, AutoloadKeeps, Zenon

\* An address, or any datagram, for RarpHandler(); an address that comes when
\* another handler is installed.
LEMMA RarpReplied ==
  ASSUME BootInv, RarpReply \/ StrayUdp
  PROVE  BootInv'
<1>1. NetOurIP' \in Nat
  BY BootParts, NetBootAssumption, Zenon DEF RarpReply, StrayUdp, BootTypeOK, LoopTypeOK
<1>2. BootFile' \in Nodes \cup {NoNode} /\ envChanged' \in BOOLEAN
  BY BootParts, Zenon DEF RarpReply, StrayUdp, NfsTypeOK, BootTypeOK
<1>3. CASE Receiving("RARP") /\ \E e \in {0, 1} : Autoload(timeHandler, e)
  BY <1>1, <1>2, <1>3, AutoloadKeeps, Zenon
<1>4. CASE /\ RarpReply /\ NetServerEther' = 1
           /\ UNCHANGED <<loopVars, owner, nfsVars, commandVars, askVars, ipaddr>>
  <2>1. UNCHANGED <<owner, BootFile, commands, protocol, autoload, tries, bootp, bootpOlder,
                    rarpAsked, ipaddr, envChanged, eth_current>>
    BY <1>4, Zenon DEF RarpReply, commandVars, askVars, loopVars
  <2>2. UNCHANGED <<path, NfsState, NfsDownloadState, curtailed, NfsTimeoutCount, filefh, rpc,
                    older, arpWait,
                    NfsSrvMountPort, NfsSrvNfsPort, fs_mounted, dirfh, nfs_offset,
                    NetBootFileXferSize, mem>>
    BY <1>4, Zenon DEF nfsVars, portVars, mountVars, fileVars
  <2>3. NfsTypeOK' /\ BootTypeOK'
    BY <1>1, <1>4, <2>1, <2>2, BootParts DEF NfsTypeOK, BootTypeOK
  <2>4. LoopMoves
    BY <1>4, BootParts, LoopStepMoves, Zenon DEF Facts
  <2>5. CallInv'
    BY <2>2, BootParts, Zenon DEF Facts, CallInv
  <2>6. NetOurIP' = Addr[eth_current']
    BY <1>4, <2>1, Zenon DEF RarpReply
  <2>7. Facts'
    BY <2>1, <2>2, <2>4, <2>5, <2>6, BootParts, FactsCarry, Zenon
  <2>. QED  BY <2>3, <2>4, <2>7, BootParts, Zenon DEF LoopMoves
<1>5. NetServerEther \in {0, 1}
  BY BootParts, Zenon DEF NfsTypeOK
<1>. QED  BY <1>3, <1>4, <1>5, Zenon DEF RarpReply, StrayUdp

\* BootpTimeout() and RarpTimeout(): one more request, or the loop starts again.
LEMMA AskedAgain ==
  ASSUME BootInv, AskAgain
  PROVE  BootInv'
<1>1. /\ phase \in {"rx", "poll", "timer"}
      /\ UNCHANGED <<startVars, nfsVars, commandVars, envVars>>
  BY Zenon DEF AskAgain, TimerDue
<1>2. LoopTypeOK /\ WaitInv /\ ipaddr' \in Nat /\ envChanged' \in BOOLEAN
  BY <1>1, BootParts, Zenon DEF Facts, BootTypeOK, envVars
<1>3. CASE StartAgainFromTimer /\ UNCHANGED askVars
  <2>1. LoopMoves
    BY <1>1, <1>2, <1>3, StartAgainMoves, Zenon
  <2>. QED  BY <1>1, <1>2, <1>3, <2>1, LoopAlone, Zenon
<1>4. CASE /\ TriesLeft
           /\ phase' = IF NetState = "CONTINUE" THEN "rx" ELSE "switch"
           /\ UNCHANGED <<NetState, NetTryCount, NetRestarted, NetDevExists, ethVars,
                          handlerVars, result>>
           /\ tries' = tries + 1
           /\ BootpRequest \/ RarpRequest
  <2>1. LoopMoves /\ UNCHANGED eth_current
    BY <1>1, <1>2, <1>4, Zenon
       DEF ethVars, handlerVars, LoopMoves, LoopTypeOK, Phases, LoopPhases,
                            Running, WaitInv, NeverWaitsUnarmed
  <2>2. UNCHANGED <<owner, NetOurIP, NetServerEther, BootFile, commands, protocol, autoload>>
    BY <1>1, Zenon DEF startVars, commandVars
  <2>3. UNCHANGED <<path, NfsState, NfsDownloadState, curtailed, NfsTimeoutCount, filefh, rpc,
                    older, arpWait,
                    NfsSrvMountPort, NfsSrvNfsPort, fs_mounted, dirfh, nfs_offset,
                    NetBootFileXferSize, mem>>
    BY <1>1, Zenon DEF nfsVars, portVars, mountVars, fileVars
  <2>4. /\ bootp' \in BootpRequests /\ bootpOlder' \subseteq Devices /\ rarpAsked' \subseteq Devices
        /\ bootp' = bootp \/ bootp'.mac = eth_current'
    BY <1>2, <1>4, <2>1, AskKeeps, BootParts, Zenon DEF BootTypeOK, LoopTypeOK
  <2>5. tries' \in 0 .. TimeoutCount
    BY <1>4, BootParts, NetBootAssumption DEF TriesLeft, BootTypeOK
  <2>6. NfsTypeOK' /\ BootTypeOK'
    BY <1>2, <2>2, <2>3, <2>4, <2>5, BootParts DEF NfsTypeOK, BootTypeOK
  <2>7. CallInv'
    BY <2>3, BootParts, Zenon DEF Facts, CallInv
  <2>8. Facts'
    BY <2>1, <2>2, <2>3, <2>4, <2>7, BootParts, FactsCarry, Zenon
  <2>. QED  BY <2>1, <2>6, <2>8, BootParts, Zenon DEF LoopMoves
<1>. QED  BY <1>3, <1>4, Zenon DEF AskAgain

---------------------------------------------------------------------------
(* TFTP and ARP. *)

\* TFTP has ended, well or not, or starts again.
LEMMA TftpEnds ==
  ASSUME BootInv, TftpAnswered
  PROVE  BootInv'
<1>1. /\ phase = "rx" /\ owner = "TFTP" /\ Running
      /\ UNCHANGED <<owner, NetOurIP, NetServerEther, BootFile>>
      /\ UNCHANGED <<path, NfsState, NfsDownloadState, curtailed, NfsTimeoutCount, filefh, rpc,
                     older, arpWait,
                     NfsSrvMountPort, NfsSrvNfsPort, fs_mounted, dirfh, nfs_offset,
                     NetBootFileXferSize>>
  BY Zenon
     DEF TftpAnswered, Receiving, Running, LoopPhases, startVars, sendVars, portVars, mountVars
<1>2. UNCHANGED <<commandVars, askVars, envVars>>
  BY Zenon DEF TftpAnswered
<1>3. UNCHANGED <<commands, protocol, autoload, tries, bootp, bootpOlder, rarpAsked, ipaddr,
                  envChanged>>
  BY <1>2, Zenon DEF commandVars, askVars, envVars
<1>4. LoopTypeOK /\ NfsTypeOK /\ WaitInv /\ BootTypeOK'
  BY <1>1, <1>3, BootParts, Zenon DEF Facts, BootTypeOK
<1>5. CASE StartAgainFromRx /\ UNCHANGED mem
  <2>1. LoopMoves
    BY <1>1, <1>4, <1>5, StartAgainMoves, Zenon
  <2>2. UNCHANGED startVars /\ UNCHANGED nfsVars
    BY <1>1, <1>5, Zenon DEF startVars, nfsVars, portVars, mountVars, fileVars
  <2>. QED  BY <1>2, <1>4, <2>1, <2>2, LoopAlone, Zenon DEF BootTypeOK
<1>6. CASE /\ NetState' \in {"SUCCESS", "FAIL"}
           /\ active' \subseteq Devices
           /\ mem' \in [0 .. MemTop -> Bytes]
           /\ UNCHANGED <<phase, NetTryCount, NetRestarted, NetRestartWrap, NetDevExists,
                          eth_current, first_failed, timeHandler, packetHandler, result>>
  <2>1. LoopTypeOK'
    BY <1>4, <1>6, Zenon DEF LoopTypeOK, NetStates
  <2>2. NfsTypeOK'
    BY <1>1, <1>4, <1>6, SMTT(30) DEF NfsTypeOK
  <2>3. CallInv'
    BY <1>1, BootParts, Zenon DEF Facts, CallInv
  <2>4. WaitInv' /\ OwnerInv' /\ TransferInv' /\ AddressIsOurs' /\ LoadedMeansFile'
    BY <1>1, <1>4, <1>6, Zenon
       DEF WaitInv, NeverWaitsUnarmed, Running, LoopPhases, OwnerInv, TransferInv,
                            AddressIsOurs, LoadedMeansFile
  <2>. QED  BY <1>4, <2>1, <2>2, <2>3, <2>4, BootParts, Zenon DEF Facts
<1>7. NoByte \in Bytes /\ mem \in [0 .. MemTop -> Bytes]
  BY <1>4, Zenon DEF NoByte, Bytes, NfsTypeOK
<1>8. active \subseteq Devices /\ eth_halt \subseteq Devices
  BY <1>4, Zenon DEF LoopTypeOK, eth_halt
<1>. QED  BY <1>5, <1>6, <1>7, <1>8, Zenon DEF TftpAnswered, ethVars, handlerVars

\* The server's MAC address is learned.
LEMMA BootArpReply ==
  ASSUME BootInv, ArpReply
  PROVE  BootInv'
<1>1. /\ UNCHANGED <<owner, NetOurIP, BootFile, commands, protocol, autoload>>
      /\ UNCHANGED <<tries, bootp, bootpOlder, rarpAsked, ipaddr, envChanged>>
  BY Zenon DEF ArpReply, commandVars, askVars, envVars
<1>2. UNCHANGED <<path, NfsState, NfsDownloadState, curtailed, NfsTimeoutCount, filefh, rpc, older,
                  NfsSrvMountPort, NfsSrvNfsPort, fs_mounted, dirfh, nfs_offset,
                  NetBootFileXferSize, mem>>
  BY Zenon DEF ArpReply, NfsKept, portVars, mountVars, fileVars
<1>3. NfsTypeOK' /\ BootTypeOK'
  BY <1>1, <1>2, BootParts DEF ArpReply, NfsTypeOK, BootTypeOK
<1>4. LoopMoves
  BY BootParts, LoopStepMoves, Zenon DEF Facts, ArpReply
<1>5. CallInv'
  BY <1>2, BootParts, Zenon DEF Facts, CallInv
<1>6. Facts'
  BY <1>1, <1>2, <1>4, <1>5, BootParts, FactsCarry, Zenon
<1>. QED  BY <1>3, <1>4, <1>6, BootParts, Zenon DEF LoopMoves

---------------------------------------------------------------------------
(* The theorems. *)

\* Every step keeps BootInv.
LEMMA BootNext ==
  ASSUME BootInv, [Next]_vars
  PROVE  BootInv'
<1>1. CASE \E p \in Protocols, f \in Typed, a \in Autoloads, ip \in EnvAddrs \cup {ipaddr} :
             Netboot(p, f, a, ip)
  BY <1>1, BootCommand, Zenon
<1>2. CASE NoAddress
  BY <1>2, BootNoAddress, Zenon
<1>3. CASE StartBootp \/ StartRarp
  BY <1>3, BootAsks, Zenon
<1>4. CASE StartNfs
  BY <1>4, BootStartNfs, Zenon
<1>5. CASE \E mac \in Devices, f \in Offered : BootpReply(mac, f)
  BY <1>5, BootpReplied, Zenon
<1>6. CASE RarpReply \/ StrayUdp
  BY <1>6, RarpReplied, Zenon
<1>7. CASE AskAgain
  BY <1>7, AskedAgain, Zenon
<1>8. CASE NfsStep
  BY <1>8, NfsHandled, NfsTimedOut, Zenon DEF NfsStep
<1>9. CASE TftpAnswered
  BY <1>9, TftpEnds, Zenon
<1>10. CASE ArpReply
  BY <1>10, BootArpReply, Zenon
<1>11. CASE TftpTimeout \/ ArpGivesUp \/ Done \/ LoopStep \/ CtrlC
  BY <1>11, BootLoopSteps, Zenon
<1>12. CASE UNCHANGED vars
  <2>1. UNCHANGED <<loopVars, startVars, nfsVars, commandVars, askVars, envVars>>
    BY <1>12, Zenon DEF vars
  <2>2. LoopMoves
    BY <2>1, BootParts, LoopStepMoves, Zenon DEF Facts
  <2>3. ipaddr' \in Nat /\ envChanged' \in BOOLEAN
    BY <2>1, BootParts, Zenon DEF envVars, BootTypeOK
  <2>. QED  BY <2>1, <2>2, <2>3, LoopAlone, Zenon
<1>. QED  BY <1>1, <1>2, <1>3, <1>4, <1>5, <1>6, <1>7, <1>8, <1>9, <1>10, <1>11, <1>12, Zenon
             DEF Next

\* The inductive invariant of bootp, rarpboot and nfs holds in every behaviour.
THEOREM BootCorrect == Spec => []BootInv
<1>1. Init => BootInv
  BY BootInit, Zenon
<1>2. BootInv /\ [Next]_vars => BootInv'
  BY BootNext, Zenon
<1>. QED  BY <1>1, <1>2, PTL DEF Spec

\* Every variable keeps to its values, and no client sends more requests than
\* TIMEOUT_COUNT in an attempt (BootpTimeout, RarpTimeout, NfsTimeout).
THEOREM BootTypes == Spec => []TypeOK
<1>1. BootInv => TypeOK
  BY Zenon DEF BootInv
<1>. QED  BY <1>1, BootCorrect, PTL

\* A command that ends well after an NFS transfer has all of the file in memory,
\* for every tree of files and links and every loss, delay and repetition of
\* replies (NfsHandler, store_block).
THEOREM LoadIsComplete == Spec => []LoadedMeansFile
<1>1. BootInv => LoadedMeansFile
  BY Zenon DEF BootInv
<1>. QED  BY <1>1, BootCorrect, PTL

\* The file is loaded with the address of the device in use, for any number of
\* devices and any rotation through them (BootpCheckPkt).
THEOREM LoadsWithOwnAddress == Spec => []AddressIsOurs
<1>1. BootInv => AddressIsOurs
  BY Zenon DEF BootInv
<1>. QED  BY <1>1, BootCorrect, PTL

\* NetLoop() never waits without a timer, whatever hands over to whom
\* (NetSetTimeout in BootpHandler, TftpStart, NfsStart and NetStartAgain).
THEOREM TimerAlwaysArmed == Spec => []NeverWaitsUnarmed
<1>1. BootInv => NeverWaitsUnarmed
  BY Zenon DEF BootInv, WaitInv
<1>. QED  BY <1>1, BootCorrect, PTL

=============================================================================
