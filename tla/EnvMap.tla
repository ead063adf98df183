------------------------------- MODULE EnvMap -------------------------------
(***************************************************************************)
(* What the environment is to its users: a map from names to values in     *)
(* memory, and one in NVRAM that the next start begins with.               *)
(*                                                                         *)
(* What saveenv stores is what the checksum was computed over: after a     *)
(* setenv that did not fit this is the map before it.                      *)
(***************************************************************************)
CONSTANTS
  Names, Values,
  Ethaddr,        \* the variable that is set on every start
  EthValue,       \* its value, from the board's revision info
  DefaultMap,     \* default_environment
  Unset,          \* the value of a variable that is not set
  Lost            \* an NVRAM that holds no valid environment

VARIABLES
  ram,            \* the variables
  summed,         \* the variables when the checksum was last computed
  nv              \* what NVRAM holds: variables, or nothing that is valid

mapVars == <<ram, summed, nv>>

\* The variables m, summed as s, become m2 and s2: a variable that does not fit is
\* deleted, and no checksum computed.
Put(m, s, n, v, m2, s2) ==
  \/ m2 = [m EXCEPT ![n] = v] /\ s2 = m2
  \/ m2 = [m EXCEPT ![n] = Unset] /\ s2 = s

Loaded == IF nv = Lost THEN DefaultMap ELSE nv
Start(m, s) == Put(Loaded, Loaded, Ethaddr, EthValue, m, s)

MapInit == nv \in {DefaultMap, Lost} /\ Start(ram, summed)

MapSet ==
  \E n \in Names, v \in Values : Put(ram, summed, n, v, ram', summed') /\ UNCHANGED nv
MapDelete ==
  \E n \in Names : ram' = [ram EXCEPT ![n] = Unset] /\ summed' = ram' /\ UNCHANGED nv
MapSave == nv' \in {summed, Lost} /\ UNCHANGED <<ram, summed>>
MapStart == Start(ram', summed') /\ UNCHANGED nv

MapNext == MapSave \/ MapStart \/ MapDelete \/ MapSet
MapSpec == MapInit /\ [][MapNext]_mapVars

=============================================================================
