-------------------------------- MODULE Nfs --------------------------------
(***************************************************************************)
(* The NFS client of net/nfs.c, as NetLoop() drives it: two port mapper    *)
(* calls, mount, lookup, reads until one returns nothing, unmount; a read  *)
(* refused because the handle is not a file's leads to readlink and back   *)
(* to mount.  Module NetBoot adds the commands that start it.              *)
(*                                                                         *)
(* rpc_id grows with every call and is only compared for equality with the *)
(* id of a reply, so the model keeps the last call (rpc) and the earlier   *)
(* ones (older): a reply to rpc has the right id, a reply to an older call *)
(* a wrong one, though it may ask for the very same thing.                 *)
(*                                                                         *)
(* The server (external) may answer a call it received at any time and any *)
(* number of times, may refuse it, and loses what it likes.  A reply is    *)
(* sent to the address that called, and NetReceive() drops it when that is *)
(* no longer NetOurIP.                                                     *)
(***************************************************************************)
EXTENDS NetLoop, FiniteSets

CONSTANTS
  Nodes,          \* path names
  NoNode,         \* none of them
  Dir,            \* Dir[n]: the directory part of n
  NoDir,          \* none of those
  Kind,           \* Kind[n]: "file", "link", "dir", or "absent" on the server
  Link,           \* Link[n]: where a symbolic link leads, relative ones resolved
  Size,           \* Size[n]: the length of a file
  Final,          \* Final[n]: the node at the end of the links from n
  DefaultFile,    \* the name made from NetOurIP when there is no BootFile
  ReadSize,       \* NFS_READ_SIZE
  MemTop,         \* the last offset of memory modelled
  NfsRetryCount,  \* NFS_RETRY_COUNT
  MaxLate         \* bound of the model on the calls answered late

Kinds == {"file", "link", "dir", "absent"}
Dirs == {Dir[n] : n \in Nodes}

ASSUME NfsAssumption ==
  /\ NoNode \notin Nodes
  /\ NoDir \notin Dirs
  /\ Kind \in [Nodes -> Kinds]
  /\ Link \in [Nodes -> Nodes]
  /\ Size \in [Nodes -> Nat]
  /\ Final \in [Nodes -> Nodes]
  /\ \A n \in Nodes :
       Final[n] = IF Kind[n] = "link" THEN Final[Link[n]] ELSE n
  /\ DefaultFile \in Nodes
  /\ ReadSize \in Nat \ {0}
  /\ MemTop \in Nat
  /\ \A n \in Nodes : Kind[n] = "file" => Size[n] <= MemTop
  /\ NfsRetryCount \in Nat
  /\ MaxLate \in Nat

VARIABLES
  owner,            \* whose handler and timer "protocol" stands for
  NetOurIP,         \* 0 when not known
  NetServerEther,   \* 1 when the server's MAC address is known
  arpWait,          \* a packet waits for it (NetArpWaitPacketIP): "no", "old", or
                    \* "last" when that packet is rpc
  BootFile,         \* NoNode when empty
  path,             \* nfs_path and nfs_filename
  NfsState,
  NfsDownloadState,
  curtailed,        \* history: a verifier has made the transfer end early
  NfsTimeoutCount,
  fs_mounted,
  dirfh,            \* the handle of a directory
  filefh,           \* the handle of what lookup found
  nfs_offset,
  NfsSrvMountPort,  \* 0 when not known
  NfsSrvNfsPort,
  rpc,              \* the call numbered rpc_id
  older,            \* calls before it that are still to be answered
  NetBootFileXferSize,
  mem               \* memory from load_addr on

startVars == <<owner, NetOurIP, NetServerEther, BootFile>>
portVars == <<NfsSrvMountPort, NfsSrvNfsPort>>
fileVars == <<nfs_offset, NetBootFileXferSize, mem>>
mountVars == <<fs_mounted, dirfh>>
nfsVars == <<path, NfsState, NfsDownloadState, curtailed, NfsTimeoutCount, filefh, rpc,
             older, arpWait, portVars, mountVars, fileVars>>
sendVars == <<rpc, older, arpWait>>

NfsStates == {"none", "PRCLOOKUP_PROG_MOUNT_REQ", "PRCLOOKUP_PROG_NFS_REQ", "MOUNT_REQ",
              "UMOUNT_REQ", "LOOKUP_REQ", "READ_REQ", "READLINK_REQ"}
Bytes == [file : Nodes \cup {NoNode}, pos : Nat]
NoByte == [file |-> NoNode, pos |-> 0]

\* A call: what it asks, about which directory, node and offset, and the
\* address an answer would go to, 0 if there can be none.
Calls == [state : NfsStates, dir : Dirs \cup {NoDir}, node : Nodes \cup {NoNode},
          off : Nat, ip : Nat]
NoCall == [state |-> "none", dir |-> NoDir, node |-> NoNode, off |-> 0, ip |-> 0]

NfsTypeOK ==
  /\ owner \in {"none", "BOOTP", "RARP", "NFS", "TFTP"}
  /\ NetServerEther \in {0, 1}
  /\ arpWait \in {"no", "old", "last"}
  /\ BootFile \in Nodes \cup {NoNode}
  /\ path \in Nodes \cup {NoNode}
  /\ NfsState \in NfsStates
  /\ NfsDownloadState \in {"SUCCESS", "FAIL"}
  /\ curtailed \in BOOLEAN
  /\ NfsTimeoutCount \in 0 .. NfsRetryCount + 1
  /\ fs_mounted \in BOOLEAN
  /\ dirfh \in Dirs \cup {NoDir}
  /\ filefh \in Nodes \cup {NoNode}
  /\ nfs_offset \in 0 .. MemTop
  /\ NfsSrvMountPort \in {0, 1}
  /\ NfsSrvNfsPort \in {0, 1}
  /\ rpc \in Calls
  /\ older \subseteq Calls
  /\ NetBootFileXferSize \in 0 .. MemTop
  /\ mem \in [0 .. MemTop -> Bytes]

NfsInit ==
  /\ owner = "none"
  /\ NetServerEther = 0
  /\ arpWait = "no"
  /\ path = NoNode
  /\ NfsState = "none"
  /\ NfsDownloadState = "FAIL"
  /\ curtailed = FALSE
  /\ NfsTimeoutCount = 0
  /\ fs_mounted = FALSE
  /\ dirfh = NoDir
  /\ filefh = NoNode
  /\ nfs_offset = 0
  /\ NfsSrvMountPort = 0
  /\ NfsSrvNfsPort = 0
  /\ rpc = NoCall
  /\ older = {}
  /\ NetBootFileXferSize = 0
  /\ mem = [o \in 0 .. MemTop |-> NoByte]

---------------------------------------------------------------------------
(***************************************************************************)
(* Calls.  NfsSend() is the last thing every handler does; it reads what   *)
(* the handler has assigned.                                               *)
(***************************************************************************)

\* Where the call of a state goes: the port mapper's port is well known.
Port(state) ==
  CASE state \in {"PRCLOOKUP_PROG_MOUNT_REQ", "PRCLOOKUP_PROG_NFS_REQ"} -> 1
    [] state \in {"MOUNT_REQ", "UMOUNT_REQ"} -> NfsSrvMountPort'
    [] OTHER -> NfsSrvNfsPort'

\* rpc_req() with what nfs_mount_req, nfs_lookup_req, nfs_read_req or
\* nfs_readlink_req puts into the call.
Call(state) ==
  [state |-> state,
   dir   |-> CASE state = "MOUNT_REQ"  -> Dir[path']
               [] state = "LOOKUP_REQ" -> dirfh'
               [] OTHER                -> NoDir,
   node  |-> CASE state = "LOOKUP_REQ" -> path'
               [] state \in {"READ_REQ", "READLINK_REQ"} -> filefh'
               [] OTHER                -> NoNode,
   off   |-> IF state = "READ_REQ" THEN nfs_offset' ELSE 0,
   ip    |-> IF eth_current' \in active' /\ Port(state) # 0 THEN NetOurIP' ELSE 0]

\* nfs_umountall_req() makes no call when nothing is mounted.  A call whose
\* destination is unknown replaces the packet that waits for an ARP reply.  The
\* call before may be answered late, if it was transmitted or is left waiting.
NfsSend ==
  IF NfsState' = "UMOUNT_REQ" /\ ~fs_mounted'
    THEN UNCHANGED sendVars
    ELSE /\ rpc' = Call(NfsState')
         /\ arpWait' = IF NetServerEther' = 0 THEN "last"
                       ELSE IF arpWait = "no" THEN "no" ELSE "old"
         /\ \/ UNCHANGED older
            \/ /\ rpc.ip # 0
               /\ arpWait = "last" => NetServerEther' = 1
               /\ Cardinality(older) < MaxLate
               /\ older' = older \cup {rpc}

\* NfsStart(), called by NetLoop() or by the handler that learned the name.
\* It forgets the server's address, so its call waits for an ARP reply.
NfsStart ==
  /\ owner' = "NFS"
  /\ timeHandler' = "protocol"
  /\ packetHandler' = "protocol"
  /\ NfsDownloadState' = "FAIL"
  /\ curtailed' = FALSE
  /\ path' = IF BootFile' = NoNode THEN DefaultFile ELSE BootFile'
  /\ NfsTimeoutCount' = 0
  /\ NfsState' = "PRCLOOKUP_PROG_MOUNT_REQ"
  /\ NetServerEther' = 0
  /\ UNCHANGED <<portVars, mountVars, filefh, nfs_offset, mem>>
  /\ NfsSend

---------------------------------------------------------------------------
(***************************************************************************)
(* NfsHandler() with a reply to call r; last says that r is rpc.  The      *)
(* server may refuse any call, so the branch for a bad reply is always     *)
(* open; a reply with a wrong id takes it too.                             *)
(***************************************************************************)
\* Mutant: the id is not looked at, only what was asked for.
SameIdKindOnly(r, last) == last \/ r.state = rpc.state

SameId(r, last) == last

\* The handler is installed, and the packet is for its port.
Handles(state) ==
  /\ phase = "rx"
  /\ packetHandler = "protocol"
  /\ owner = "NFS"
  /\ NfsState = state

LoopUnchanged == UNCHANGED <<loopVars, startVars>>

\* rpc_lookup_reply(): a bad reply is not noticed, the old port stays.
PortReply(r, last) ==
  /\ \E port \in {0, 1}, good \in BOOLEAN :
       /\ good => SameId(r, last)
       /\ \/ /\ Handles("PRCLOOKUP_PROG_MOUNT_REQ")
             /\ NfsSrvMountPort' = IF good THEN port ELSE NfsSrvMountPort
             /\ NfsState' = "PRCLOOKUP_PROG_NFS_REQ"
             /\ UNCHANGED NfsSrvNfsPort
          \/ /\ Handles("PRCLOOKUP_PROG_NFS_REQ")
             /\ NfsSrvNfsPort' = IF good THEN port ELSE NfsSrvNfsPort
             /\ NfsState' = "MOUNT_REQ"
             /\ UNCHANGED NfsSrvMountPort
  /\ LoopUnchanged
  /\ UNCHANGED <<path, NfsDownloadState, curtailed, NfsTimeoutCount, filefh, mountVars,
                 fileVars>>
  /\ NfsSend

MountReply(r, last) ==
  /\ Handles("MOUNT_REQ")
  /\ \/ /\ SameId(r, last)
        /\ fs_mounted' = TRUE
        /\ dirfh' = r.dir
        /\ NfsState' = "LOOKUP_REQ"
     \/ /\ NfsState' = "UMOUNT_REQ"
        /\ UNCHANGED mountVars
  /\ LoopUnchanged
  /\ UNCHANGED <<path, NfsDownloadState, curtailed, NfsTimeoutCount, filefh, portVars,
                 fileVars>>
  /\ NfsSend

LookupReply(r, last) ==
  /\ Handles("LOOKUP_REQ")
  /\ \/ /\ SameId(r, last)
        /\ Kind[r.node] # "absent"
        /\ r.dir = Dir[r.node]
        /\ filefh' = r.node
        /\ NfsState' = "READ_REQ"
        /\ nfs_offset' = 0
     \/ /\ NfsState' = "UMOUNT_REQ"
        /\ UNCHANGED <<filefh, nfs_offset>>
  /\ LoopUnchanged
  /\ UNCHANGED <<path, NfsDownloadState, curtailed, NfsTimeoutCount, portVars, mountVars,
                 NetBootFileXferSize, mem>>
  /\ NfsSend

\* The length the server returns for a read of a file.
ReadLen(r) ==
  IF r.off + ReadSize <= Size[r.node] THEN ReadSize
  ELSE IF r.off <= Size[r.node] THEN Size[r.node] - r.off ELSE 0

\* store_block(): the data goes to nfs_offset, whatever was asked for.
store_block(r) ==
  /\ mem' = [o \in 0 .. MemTop |->
               IF nfs_offset <= o /\ o < nfs_offset + ReadLen(r)
                 THEN [file |-> r.node, pos |-> r.off + (o - nfs_offset)]
                 ELSE mem[o]]
  /\ NetBootFileXferSize' = IF NetBootFileXferSize < nfs_offset + ReadLen(r)
                              THEN nfs_offset + ReadLen(r) ELSE NetBootFileXferSize

\* Data, the end of the file, a handle that is not a file's, or an error.
\* A reply with a verifier stores nothing, and the word where the status of the
\* read would be without one is the result: "not a file's handle" as well as
\* 0, which NfsHandler() takes for the end of the file.
\* This is the one reply that restarts the timer.
ReadReply(r, last) ==
  /\ Handles("READ_REQ")
  /\ timeHandler' = "protocol"
  /\ \/ /\ SameId(r, last)
        /\ Kind[r.node] = "file"
        /\ ReadLen(r) > 0
        /\ store_block(r)
        /\ nfs_offset' = nfs_offset + ReadLen(r)
        /\ UNCHANGED <<NfsState, NfsDownloadState, curtailed>>
     \/ /\ SameId(r, last)
        /\ Kind[r.node] = "file"
        /\ ReadLen(r) = 0
        /\ NfsDownloadState' = "SUCCESS"
        /\ NfsState' = "UMOUNT_REQ"
        /\ UNCHANGED <<curtailed, fileVars>>
     \/ /\ SameId(r, last)               \* a verifier, and 0
        /\ NfsDownloadState' = "SUCCESS"
        /\ curtailed' = TRUE
        /\ NfsState' = "UMOUNT_REQ"
        /\ UNCHANGED fileVars
     \/ /\ SameId(r, last)               \* no file, or a verifier
        /\ NfsState' = "READLINK_REQ"
        /\ UNCHANGED <<NfsDownloadState, curtailed, fileVars>>
     \/ /\ NfsState' = "UMOUNT_REQ"
        /\ UNCHANGED <<NfsDownloadState, curtailed, fileVars>>
  /\ UNCHANGED <<phase, NetState, NetTryCount, NetRestarted, NetDevExists, ethVars,
                 packetHandler, result, startVars>>
  /\ UNCHANGED <<path, NfsTimeoutCount, filefh, portVars, mountVars>>
  /\ NfsSend

ReadlinkReply(r, last) ==
  /\ Handles("READLINK_REQ")
  /\ \/ /\ SameId(r, last)
        /\ Kind[r.node] = "link"
        /\ path' = Link[r.node]
        /\ NfsState' = "MOUNT_REQ"
     \/ /\ NfsState' = "UMOUNT_REQ"
        /\ UNCHANGED path
  /\ LoopUnchanged
  /\ UNCHANGED <<NfsDownloadState, curtailed, NfsTimeoutCount, filefh, portVars, mountVars,
                 fileVars>>
  /\ NfsSend

\* nfs_umountall_reply(): what the reply says does not matter, its id does.
UmountReply(r, last) ==
  /\ Handles("UMOUNT_REQ")
  /\ \/ /\ SameId(r, last)
        /\ fs_mounted' = FALSE
        /\ dirfh' = NoDir
        /\ NetState' = NfsDownloadState
     \/ /\ NetState' = "FAIL"
        /\ UNCHANGED mountVars
  /\ UNCHANGED <<phase, NetTryCount, NetRestarted, NetDevExists, ethVars,
                 handlerVars, result, startVars>>
  /\ UNCHANGED <<path, NfsState, NfsDownloadState, curtailed, NfsTimeoutCount, filefh,
                 sendVars, portVars, fileVars>>

NfsHandler ==
  \E r \in older \cup {rpc}, last \in BOOLEAN :
    /\ IF last THEN r = rpc /\ rpc.ip # 0 /\ arpWait # "last" ELSE r \in older
    /\ NetOurIP \in {0, r.ip}
    /\ \/ PortReply(r, last)
       \/ MountReply(r, last)
       \/ LookupReply(r, last)
       \/ ReadReply(r, last)
       \/ ReadlinkReply(r, last)
       \/ UmountReply(r, last)

\* Mutant: waiting for nothing does not count.
CountedIfSent == IF NfsState = "UMOUNT_REQ" THEN NfsTimeoutCount ELSE NfsTimeoutCount + 1

\* NfsTimeout(): the count is only reset by NfsStart(), however much data has
\* arrived in between.
Counted == NfsTimeoutCount + 1

NfsTimeout ==
  /\ TimerDue("protocol")
  /\ owner = "NFS"
  /\ NfsTimeoutCount' = Counted
  /\ UNCHANGED startVars
  /\ UNCHANGED <<path, NfsState, NfsDownloadState, curtailed, filefh, portVars,
                 mountVars, fileVars>>
  /\ \/ /\ NfsTimeoutCount' > NfsRetryCount
        /\ StartAgainFromTimer
        /\ UNCHANGED sendVars
     \/ /\ NfsTimeoutCount' <= NfsRetryCount
        /\ phase' = IF NetState = "CONTINUE" THEN "rx" ELSE "switch"
        /\ UNCHANGED <<NetState, NetTryCount, NetRestarted, NetDevExists, ethVars,
                       handlerVars, result>>
        /\ NfsSend

=============================================================================
