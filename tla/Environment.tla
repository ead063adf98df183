----------------------------- MODULE Environment -----------------------------
(***************************************************************************)
(* The environment: setenv on the list of "name=value" strings in memory   *)
(* (common/cmd_nvedit.c), saveenv byte by byte to NVRAM, what a start      *)
(* makes of it (common/env_nvram.c, common/env_common.c, misc_init_r), and *)
(* the copies of variables that the network code works with, which answers *)
(* of BOOTP and RARP servers overwrite.                                    *)
(*                                                                         *)
(* The list is modelled as the bytes it is, because the code that edits it *)
(* goes by bytes: every string ends with a NUL, the list with another one, *)
(* and what is behind is left over from longer lists.  The CRC of a list   *)
(* is modelled by the bytes it was computed over.  A setenv whose name has *)
(* a '=' in it returns before it does anything and is left out.            *)
(***************************************************************************)
EXTENDS Integers, Sequences, FiniteSetsExt

CONSTANTS
  EnvSize,        \* ENV_SIZE
  Chars,          \* the values of a byte
  Names, Values,  \* of the variables that are set, as sequences of characters;
                  \* a value is all arguments of setenv, joined
  Ethaddr,        \* the name misc_init_r() sets on every start, and its value
  EthValue,
  Console,        \* stdin, stdout, stderr: cannot be deleted, may be refused
  Baudrate,       \* refused only if it is set already
  Serverip,       \* read again by NetInitLoop() if env_id has changed
  Ipaddr,         \* copied to bi_ip_addr by setenv
  Bootfile,       \* set when a BOOTP reply names a file
  Answers,        \* the addresses that BOOTP and RARP servers answer with: pairs
                  \* of the board's own and the server's
  Default,        \* default_environment, a sequence of characters
  MaxSets,        \* bounds of the model on setenv and on saveenv
  MaxSaves

NUL == "NUL"
Index == 1 .. EnvSize

ASSUME EnvironmentAssumption ==
  /\ EnvSize \in Nat \ {0, 1}
  /\ {NUL, "="} \subseteq Chars
  /\ Names \cup Values \cup {Default} \subseteq Seq(Chars)
  /\ {Ethaddr, Serverip, Ipaddr, Bootfile} \cup Console \cup Baudrate \subseteq Names
  /\ EthValue \in Values \ {<<>>}
  /\ \A n \in Names : n # <<>> /\ \A i \in DOMAIN n : n[i] \notin {NUL, "="}
  /\ \A v \in Values : \A i \in DOMAIN v : v[i] # NUL
  /\ Len(Default) <= EnvSize
  /\ MaxSets \in Nat /\ MaxSaves \in Nat

VARIABLES
  env, crc,       \* env_ptr->data and what env_ptr->crc is the CRC of
  overflowed,     \* history: a setenv has overflowed since the CRC was updated
  bi_ip_addr,
  nvData, nvCrc,  \* the copy in NVRAM
  at,             \* saveenv: the byte to write next; 0 for the CRC; or Idle
  changed,        \* env_id differs from env_changed_id of NetInitLoop()
  NetServerIP, NetOurIP,
  leased,         \* history: which of these BOOTP or RARP has written since
                  \* NetInitLoop() read the variables
  sets, saves

ramVars == <<env, crc, overflowed, bi_ip_addr>>
nvVars == <<nvData, nvCrc>>
netVars == <<changed, NetServerIP, NetOurIP, leased>>
vars == <<ramVars, nvVars, netVars, at, sets, saves>>

Idle == -1
Torn == <<>>   \* the CRC of nothing

---------------------------------------------------------------------------
(***************************************************************************)
(* The list of strings.                                                    *)
(***************************************************************************)
\* The place of the last NUL of a string that is followed by another NUL.
End(d) == Min({i \in 1 .. Len(d) - 1 : d[i] = NUL /\ d[i + 1] = NUL})
StringEnd(d, i) == Min({j \in i .. Len(d) : d[j] = NUL})
Strings(d) ==
  IF d[1] = NUL THEN {} ELSE {i \in 1 .. End(d) : d[i] # NUL /\ (i = 1 \/ d[i - 1] = NUL)}

\* The string at i is that of the variable n.
envmatch(d, n, i) == i + Len(n) <= Len(d) /\ SubSeq(d, i, i + Len(n)) = n \o <<"=">>
Found(d, n) == {i \in Strings(d) : envmatch(d, n, i)}

Unset == <<NUL>>
getenv(d, n) ==
  LET found == Found(d, n)
      val == Min(found) + Len(n) + 1
  IN IF found = {} THEN Unset ELSE SubSeq(d, val, StringEnd(d, val) - 1)

\* Nothing makes the address 0; different values stand for different addresses.
NoIP == <<>>
string_to_ip(v) == IF v \in {Unset, <<>>} THEN NoIP ELSE v

\* The bytes of s are written from i on.
Overwritten(d, i, s) == SubSeq(d, 1, i - 1) \o s \o SubSeq(d, i + Len(s), Len(d))

\* A list that ends inside the buffer, with a name at every string and no name
\* twice.
IsList(d) ==
  /\ d \in Seq(Chars) /\ Len(d) = EnvSize
  /\ \E i \in 1 .. EnvSize - 1 : d[i] = NUL /\ d[i + 1] = NUL
  /\ d[1] = NUL => d[2] = NUL
  /\ \A i \in Strings(d) : \E n \in Names : Found(d, n) = {i}

\* The string at i is deleted: the last one is cut off, otherwise those behind
\* are moved down and the list ended again.
Cut(d, i) ==
  LET nxt == StringEnd(d, i) + 1
  IN IF d[nxt] = NUL
       THEN Overwritten(d, i, IF i = 1 THEN <<NUL, NUL>> ELSE <<NUL>>)
       ELSE Overwritten(d, i, SubSeq(d, nxt, End(d)) \o <<NUL>>)

\* Mutant: only as much of the string as the name is long is compared.
DeletedPrefix(d, n) ==
  LET found == {i \in Strings(d) : SubSeq(d, i, i + Len(n) - 1) = n}
  IN IF found = {} THEN d ELSE Cut(d, Min(found))

Deleted(d, n) == IF Found(d, n) = {} THEN d ELSE Cut(d, Min(Found(d, n)))

\* Where a new string goes, and whether it fits.
AppendAt(d) == IF End(d) > 1 THEN End(d) + 1 ELSE 1

\* Mutant: the NUL that ends the list is not counted.
FitsShort(d, n, v) == Len(n) + 1 + Len(v) + 1 <= EnvSize - (AppendAt(d) - 1)

Fits(d, n, v) == Len(n) + 2 + Len(v) + 1 <= EnvSize - (AppendAt(d) - 1)
Appended(d, n, v) == Overwritten(d, AppendAt(d), n \o <<"=">> \o v \o <<NUL, NUL>>)

\* _do_setenv() on the memory r: with a value, and without one.
Set(r, n, v) ==
  LET d == Deleted(r.env, n)
      d2 == Appended(d, n, v)
  IN IF Fits(d, n, v)
       THEN [env |-> d2, crc |-> d2, overflowed |-> FALSE,
             ip |-> IF n = Ipaddr THEN string_to_ip(v) ELSE r.ip]
       ELSE [r EXCEPT !.env = d, !.overflowed = TRUE]

\* Mutant: the CRC is not updated.
DeleteNoCrc(r, n) == [r EXCEPT !.env = Deleted(r.env, n), !.overflowed = FALSE]

Delete(r, n) ==
  LET d == Deleted(r.env, n) IN [env |-> d, crc |-> d, overflowed |-> FALSE, ip |-> r.ip]

---------------------------------------------------------------------------
(***************************************************************************)
(* Start: env_init(), env_relocate(), and the setenv of misc_init_r().     *)
(***************************************************************************)
set_default_env == Overwritten([k \in Index |-> NUL], 1, Default)

env_init(data, sum) == IF sum = data THEN data ELSE set_default_env
Started(data, sum) ==
  LET d == env_init(data, sum)
  IN Set([env |-> d, crc |-> d, overflowed |-> FALSE, ip |-> string_to_ip(getenv(d, Ipaddr))],
         Ethaddr, EthValue)

\* default_environment is one.
ASSUME DefaultAssumption == IsList(set_default_env)

Init ==
  /\ nvData = set_default_env
  /\ nvCrc \in {set_default_env, Torn}
  /\ LET r == Started(nvData, nvCrc)
     IN env = r.env /\ crc = r.crc /\ overflowed = r.overflowed /\ bi_ip_addr = r.ip
  /\ at = Idle
  /\ changed = TRUE
  /\ NetServerIP = NoIP
  /\ NetOurIP = NoIP
  /\ leased = {}
  /\ sets = 0
  /\ saves = 0

Ram == [env |-> env, crc |-> crc, overflowed |-> overflowed, ip |-> bi_ip_addr]
Becomes(r) ==
  env' = r.env /\ crc' = r.crc /\ overflowed' = r.overflowed /\ bi_ip_addr' = r.ip

\* Reset or loss of power, at any time.
Reset ==
  /\ Becomes(Started(nvData, nvCrc))
  /\ at' = Idle
  /\ changed' = TRUE
  /\ NetServerIP' = NoIP
  /\ NetOurIP' = NoIP
  /\ leased' = {}
  /\ UNCHANGED <<nvVars, sets, saves>>

---------------------------------------------------------------------------
\* Mutant: env_id is not counted up.
SetenvSilent ==
  /\ at = Idle
  /\ sets < MaxSets
  /\ sets' = sets + 1
  /\ UNCHANGED <<nvVars, netVars, at, saves>>

\* What every setenv does first.
Setenv ==
  /\ at = Idle
  /\ sets < MaxSets
  /\ sets' = sets + 1
  /\ changed' = TRUE
  /\ UNCHANGED <<nvVars, NetServerIP, NetOurIP, leased, at, saves>>

\* The calls of netboot_update_env() are among these.
SetEnv(n, v) == Setenv /\ Becomes(Set(Ram, n, v))
DeleteEnv(n) == Setenv /\ n \notin Console /\ Becomes(Delete(Ram, n))

\* A device that cannot be assigned or deleted, a baud rate not supported.
RefuseEnv(n) ==
  /\ Setenv
  /\ n \in Console \/ (n \in Baudrate /\ Found(env, n) # {})
  /\ UNCHANGED ramVars

\* The network code reads the environment again if it may have changed.
NetInitLoop ==
  /\ at = Idle
  /\ NetServerIP' = IF changed THEN string_to_ip(getenv(env, Serverip)) ELSE NetServerIP
  /\ NetOurIP' = IF changed THEN bi_ip_addr ELSE NetOurIP
  /\ leased' = IF changed THEN {} ELSE leased
  /\ changed' = FALSE
  /\ UNCHANGED <<ramVars, nvVars, at, sets, saves>>

\* The same at the start of bootp and rarpboot, which ask for the address.
NetInitAsking ==
  /\ at = Idle
  /\ NetServerIP' = IF changed THEN string_to_ip(getenv(env, Serverip)) ELSE NetServerIP
  /\ NetOurIP' = NoIP
  /\ leased' = {"NetOurIP"} \cup IF changed THEN {} ELSE leased
  /\ changed' = FALSE
  /\ UNCHANGED <<ramVars, nvVars, at, sets, saves>>

\* BootpCopyNetParams(): the server's address is taken if there is one; a file
\* name goes into the environment.
BootpCopyNetParams(ip, sip) ==
  /\ at = Idle
  /\ "NetOurIP" \in leased
  /\ NetOurIP' = ip
  /\ NetServerIP' = IF sip = NoIP THEN NetServerIP ELSE sip
  /\ leased' = IF sip = NoIP THEN leased ELSE leased \cup {"NetServerIP"}
  /\ \/ UNCHANGED <<ramVars, changed, sets>>
     \/ /\ sets < MaxSets
        /\ sets' = sets + 1
        /\ changed' = TRUE
        /\ \E v \in Values \ {<<>>} : Becomes(Set(Ram, Bootfile, v))
  /\ UNCHANGED <<nvVars, at, saves>>

\* NetReceive(), PROT_RARP: taken whichever command is running; the server's
\* address only if there is none.
RarpReply(ip, sip) ==
  /\ at = Idle
  /\ NetOurIP' = ip
  /\ NetServerIP' = IF NetServerIP = NoIP THEN sip ELSE NetServerIP
  /\ leased' = leased \cup IF NetServerIP = NoIP THEN {"NetOurIP", "NetServerIP"}
                                               ELSE {"NetOurIP"}
  /\ UNCHANGED <<ramVars, nvVars, changed, at, sets, saves>>

\* saveenv: first the CRC, of which a reset may leave a part, then the data.
SaveBegin ==
  /\ at = Idle
  /\ saves < MaxSaves
  /\ saves' = saves + 1
  /\ at' = 0
  /\ nvCrc' = IF nvCrc = crc THEN nvCrc ELSE Torn
  /\ UNCHANGED <<ramVars, nvData, netVars, sets>>
SaveCrc ==
  /\ at = 0
  /\ at' = 1
  /\ nvCrc' = crc
  /\ UNCHANGED <<ramVars, nvData, netVars, sets, saves>>
SaveByte ==
  /\ at \in Index
  /\ nvData' = [nvData EXCEPT ![at] = env[at]]
  /\ at' = IF at = EnvSize THEN Idle ELSE at + 1
  /\ UNCHANGED <<ramVars, nvCrc, netVars, sets, saves>>

Next ==
  \/ \E n \in Names, v \in Values : SetEnv(n, v)
  \/ \E n \in Names : DeleteEnv(n)
  \/ \E n \in Names : RefuseEnv(n)
  \/ NetInitLoop \/ NetInitAsking
  \/ \E a \in Answers : BootpCopyNetParams(a[1], a[2]) \/ RarpReply(a[1], a[2])
  \/ SaveBegin \/ SaveCrc \/ SaveByte
  \/ Reset

Spec == Init /\ [][Next]_vars

---------------------------------------------------------------------------
(***************************************************************************)
(* Properties.                                                             *)
(***************************************************************************)
\* Whatever was set, replaced and deleted before, the list ends inside the
\* buffer, every string in it has a name, and no two have the same one
\* (_do_setenv, which moves the strings and appends without further checks).
WellFormed == IsList(env)

AsMap(d) == [n \in Names |-> getenv(d, n)]
Lost == <<>>
NvMap == IF nvCrc = nvData THEN AsMap(nvData) ELSE Lost

Map == INSTANCE EnvMap WITH
  ram <- AsMap(env), summed <- AsMap(crc), nv <- NvMap, DefaultMap <- AsMap(set_default_env)

\* The bytes implement a map: a setenv changes one variable and no other, and a
\* start finds all variables of one saveenv or the default ones, never a mix
\* of two, even when power fails in the middle of saving (_do_setenv, saveenv,
\* env_init).
ImplementsMap == Map!MapSpec

Saved == at = EnvSize /\ at' = Idle /\ nvData' = env

\* A saveenv that finishes has stored what the next start then finds, unless a
\* setenv has overflowed before (env_crc_update, saveenv).
SaveStores == [][Saved /\ ~overflowed => NvMap' = AsMap(env)]_vars

\* saveenv saves the environment variables to persistent storage, whatever the
\* setenv commands before have returned (do_saveenv, "save environment
\* variables to persistent storage").
SaveSurvives == [][Saved => NvMap' = AsMap(env)]_vars

\* As long as env_id says that nothing has changed, the addresses the network
\* code works with are those in the environment (NetInitLoop, "update only when
\* the environment has changed"), or were written by BOOTP or RARP after it was
\* read: every other way to change one of the two is counted in env_id.
NetSeesEnv ==
  ~changed =>
    /\ "NetServerIP" \notin leased => NetServerIP = string_to_ip(getenv(env, Serverip))
    /\ "NetOurIP" \notin leased /\ getenv(env, Ipaddr) # Unset
         => NetOurIP = string_to_ip(getenv(env, Ipaddr))

\* The copies that no server has answered for are those of the environment.
CopiesFollow ==
  ~changed =>
    /\ "NetServerIP" \notin leased => NetServerIP = string_to_ip(getenv(env, Serverip))
    /\ "NetOurIP" \notin leased => NetOurIP = bi_ip_addr

\* Why all this holds: the lists in memory and behind the checksums are well
\* formed, an overflow is all that sets memory and checksum apart, a saveenv has
\* copied what is before at, and the address of the board follows ipaddr.
EnvInv ==
  /\ WellFormed
  /\ \A d \in {crc, nvCrc} \ {env, Torn} : IsList(d)
  /\ ~overflowed => crc = env
  /\ nvData \in Seq(Chars) /\ Len(nvData) = EnvSize
  /\ crc # Torn
  /\ at \in {Idle} \cup 0 .. EnvSize
  /\ at \in Index => nvCrc = crc /\ \A k \in 1 .. at - 1 : nvData[k] = env[k]
  /\ getenv(env, Ipaddr) # Unset => bi_ip_addr = string_to_ip(getenv(env, Ipaddr))
  /\ CopiesFollow

=============================================================================
