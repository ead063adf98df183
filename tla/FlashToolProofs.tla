-------------------------- MODULE FlashToolProofs --------------------------
(***************************************************************************)
(* The safety properties of the flashing script against the board, for any *)
(* buffer, any numbers of attempts and any number of resets: ToolInv is    *)
(* inductive.                                                              *)
(***************************************************************************)
EXTENDS FlashTool, TLAPS

\* The leaves are first-order steps; those that need arithmetic or sequences cite
\* SMT.
USE Zenon

---------------------------------------------------------------------------
(* Sequences: what the steps below need of them. *)

\* A sequence is a function on its indices.
LEMMA SeqIs ==
  ASSUME NEW S, NEW s \in Seq(S)
  PROVE  DOMAIN s = 1 .. Len(s) /\ Len(s) \in Nat /\ s \in [1 .. Len(s) -> S]
  BY SMT

\* Two sequences with the same elements are the same.
LEMMA SeqSame ==
  ASSUME NEW S, NEW s \in Seq(S), NEW t \in Seq(S), Len(s) = Len(t),
         \A i \in 1 .. Len(s) : s[i] = t[i]
  PROVE  s = t
  BY SMT

\* The empty one, and the length of the others.
LEMMA EmptyIs ==
  ASSUME NEW S
  PROVE  /\ <<>> \in Seq(S) /\ Len(<<>>) = 0
         /\ \A s \in Seq(S) : s # <<>> => Len(s) \in Nat \ {0}
  BY SMT

\* One sequence behind another.
LEMMA JoinedIs ==
  ASSUME NEW S, NEW s \in Seq(S), NEW t \in Seq(S)
  PROVE  /\ Len(s \o t) = Len(s) + Len(t) /\ s \o t \in Seq(S)
         /\ \A i \in 1 .. Len(s) + Len(t) :
              (s \o t)[i] = IF i <= Len(s) THEN s[i] ELSE t[i - Len(s)]
  BY SMT

\* Nothing before or behind.
LEMMA JoinedEmpty == ASSUME NEW S, NEW s \in Seq(S) PROVE s \o <<>> = s /\ <<>> \o s = s
<1>1. <<>> \in Seq(S) /\ s \o <<>> \in Seq(S) /\ <<>> \o s \in Seq(S)
  BY SMT
<1>2. /\ Len(s \o <<>>) = Len(s) /\ Len(<<>> \o s) = Len(s)
      /\ \A i \in 1 .. Len(s) : (s \o <<>>)[i] = s[i] /\ (<<>> \o s)[i] = s[i]
  BY SMT
<1>. QED  BY <1>1, <1>2, SeqSame, SMT

\* Three in a row.
LEMMA JoinedTwice ==
  ASSUME NEW s \in Seq(Tokens), NEW t \in Seq(Tokens), NEW u \in Seq(Tokens)
  PROVE  (s \o t) \o u = s \o (t \o u)
<1>1. /\ (s \o t) \o u \in Seq(Tokens) /\ s \o (t \o u) \in Seq(Tokens)
      /\ Len((s \o t) \o u) = Len(s \o (t \o u))
  BY SMT
<1>2. \A i \in 1 .. Len((s \o t) \o u) : ((s \o t) \o u)[i] = (s \o (t \o u))[i]
  BY SMT
<1>. QED  BY <1>1, <1>2, SeqSame, SMT

\* One more at the end.
LEMMA AppendIs ==
  ASSUME NEW S, NEW s \in Seq(S), NEW x \in S
  PROVE  /\ Append(s, x) \in Seq(S) /\ Append(s, x) # <<>>
         /\ Len(Append(s, x)) = Len(s) + 1 /\ Append(s, x)[Len(s) + 1] = x
         /\ \A i \in 1 .. Len(s) : Append(s, x)[i] = s[i]
  BY SMT

\* Appending an element joins the sequence of it alone.
LEMMA AppendJoins ==
  ASSUME NEW S, NEW s \in Seq(S), NEW x \in S
  PROVE  Append(s, x) = s \o <<x>>
  BY SMT

\* One less at the beginning.
LEMMA HeadTailAre ==
  ASSUME NEW S, NEW s \in Seq(S), s # <<>>
  PROVE  /\ Head(s) \in S /\ Tail(s) \in Seq(S) /\ Len(Tail(s)) = Len(s) - 1
         /\ \A i \in 1 .. Len(Tail(s)) : Tail(s)[i] = s[i + 1]
  BY SMT

---------------------------------------------------------------------------

\* t is what is left of s behind its first k tokens.
Suffix(s, k, t) ==
  /\ k \in 0 .. Len(s)
  /\ Len(t) = Len(s) - k
  /\ \A i \in 1 .. Len(t) : t[i] = s[i + k]

\* t is s with ts behind it.
Extended(s, ts, t) ==
  /\ Len(t) = Len(s) + Len(ts)
  /\ \A i \in 1 .. Len(s) : t[i] = s[i]
  /\ \A i \in 1 .. Len(ts) : t[Len(s) + i] = ts[i]

---------------------------------------------------------------------------
(***************************************************************************)
(* Counting prompts.                                                       *)
(***************************************************************************)

\* A greater bound.
LEMMA AtMostMore ==
  ASSUME NEW n, NEW m \in Nat, NEW s, NEW k, AtMost(n, s, k), n <= m
  PROVE  AtMost(m, s, k)
<1>1. n \in Nat
  BY DEF AtMost
<1>2. PICK f : Numbered(s, k, n, f)
  BY DEF AtMost
<1>3. 1 .. n \subseteq 1 .. m
  BY <1>1, SMT
<1>4. f \in [PromptsAt(s, k) -> 1 .. m]
  BY <1>2, <1>3, SMT DEF Numbered
<1>. QED  BY <1>2, <1>4 DEF AtMost, Numbered

\* Prompts of one sequence that are the prompts of another, in the same order,
\* have its numbers, or those less something.
LEMMA Renumbered ==
  ASSUME NEW n, NEW s, NEW k, NEW f, Numbered(s, k, n, f),
         NEW t, NEW h, NEW at, NEW m \in Nat, NEW d \in Nat,
         PromptsAt(t, h) \subseteq Int,
         at \in [PromptsAt(t, h) -> PromptsAt(s, k)],
         \A i, j \in PromptsAt(t, h) : i < j => at[i] < at[j],
         \A i \in PromptsAt(t, h) : f[at[i]] - d \in 1 .. m
  PROVE  AtMost(m, t, h)
<1>. DEFINE g == [i \in PromptsAt(t, h) |-> f[at[i]] - d]
<1>1. g \in [PromptsAt(t, h) -> 1 .. m]
  OBVIOUS
<1>2. ASSUME NEW i \in PromptsAt(t, h), NEW j \in PromptsAt(t, h), i < j PROVE g[i] < g[j]
  <2>1. at[i] \in PromptsAt(s, k) /\ at[j] \in PromptsAt(s, k) /\ at[i] < at[j]
    BY <1>2
  <2>2. f[at[i]] < f[at[j]] /\ f[at[i]] \in 1 .. n /\ f[at[j]] \in 1 .. n
    BY <2>1 DEF Numbered
  <2>. QED  BY <2>2, SMT
<1>. HIDE DEF g
<1>. QED  BY <1>1, <1>2 DEF AtMost, Numbered

\* Further back there are no more prompts, and fewer behind one.
LEMMA AtMostBehind ==
  ASSUME NEW s \in Seq(Tokens), NEW k \in Nat, NEW m \in Nat, k <= m, NEW n, AtMost(n, s, k)
  PROVE  /\ AtMost(n, s, m)
         /\ \A j \in DOMAIN s : k < j /\ j <= m /\ s[j] = "prompt" => AtMost(n - 1, s, m)
<1>. DEFINE at == [i \in PromptsAt(s, m) |-> i]
<1>1. PICK f : Numbered(s, k, n, f)
  BY DEF AtMost
<1>2. n \in Nat /\ f \in [PromptsAt(s, k) -> 1 .. n]
  BY <1>1 DEF AtMost, Numbered
<1>3. /\ PromptsAt(s, m) \subseteq Int /\ PromptsAt(s, m) \subseteq PromptsAt(s, k)
      /\ \A i \in PromptsAt(s, m) : m < i
  BY SMT DEF PromptsAt
<1>4. /\ at \in [PromptsAt(s, m) -> PromptsAt(s, k)]
      /\ \A i, j \in PromptsAt(s, m) : i < j => at[i] < at[j]
      /\ \A i \in PromptsAt(s, m) : at[i] = i /\ f[i] \in 1 .. n
  BY <1>2, <1>3
<1>. HIDE DEF at
<1>5. AtMost(n, s, m)
  <2>1. 0 \in Nat /\ \A i \in PromptsAt(s, m) : f[at[i]] - 0 \in 1 .. n
    BY <1>4, SMT
  <2>. QED  BY <1>1, <1>2, <1>3, <1>4, <2>1, Renumbered
<1>6. ASSUME NEW j \in DOMAIN s, k < j, j <= m, s[j] = "prompt"
      PROVE  AtMost(n - 1, s, m)
  <2>1. j \in PromptsAt(s, k)
    BY <1>6 DEF PromptsAt
  <2>2. f[j] \in 1 .. n
    BY <1>2, <2>1
  <2>3. ASSUME NEW i \in PromptsAt(s, m) PROVE f[at[i]] - 1 \in 1 .. n - 1
    <3>1. j < i
      BY <1>3, <1>6, SMT
    <3>2. f[j] < f[i] /\ f[i] \in 1 .. n /\ at[i] = i
      BY <1>1, <1>3, <1>4, <2>1, <3>1 DEF Numbered
    <3>3. n \in Nat /\ f[j] \in 1 .. n /\ f[i] \in 1 .. n /\ f[j] < f[i]
      BY <1>2, <2>2, <3>2
    <3>4. f[i] - 1 \in 1 .. n - 1
      BY <3>3, SMT
    <3>. QED  BY <3>2, <3>4
  <2>4. n - 1 \in Nat /\ 1 \in Nat
    BY <1>2, <2>2, SMT
  <2>. QED  BY <1>1, <1>3, <1>4, <2>3, <2>4, Renumbered
<1>. QED  BY <1>5, <1>6

\* A suffix has no more prompts than the sequence behind what was cut off.
LEMMA AtMostSuffix ==
  ASSUME NEW s \in Seq(Tokens), NEW t \in Seq(Tokens), NEW c, Suffix(s, c, t), NEW k \in Nat,
         NEW n, AtMost(n, s, k + c)
  PROVE  AtMost(n, t, k)
<1>. DEFINE at == [i \in PromptsAt(t, k) |-> i + c]
<1>1. PICK f : Numbered(s, k + c, n, f)
  BY DEF AtMost
<1>2. n \in Nat /\ f \in [PromptsAt(s, k + c) -> 1 .. n]
  BY <1>1 DEF AtMost, Numbered
<1>3. c \in Nat /\ PromptsAt(t, k) \subseteq Int
  BY SMT DEF Suffix, PromptsAt
<1>4. ASSUME NEW i \in PromptsAt(t, k) PROVE i + c \in PromptsAt(s, k + c)
  <2>1. i \in DOMAIN t /\ k < i /\ t[i] = "prompt"
    BY <1>4 DEF PromptsAt
  <2>2. /\ DOMAIN s = 1 .. Len(s) /\ DOMAIN t = 1 .. Len(t)
        /\ Len(s) \in Nat /\ Len(t) \in Nat
    BY SMT
  <2>3. c \in 0 .. Len(s) /\ Len(t) = Len(s) - c /\ t[i] = s[i + c]
    BY <2>1, <2>2 DEF Suffix
  <2>4. i \in 1 .. Len(t)
    BY <2>1, <2>2
  <2>5. i + c \in 1 .. Len(s) /\ k + c < i + c
    BY <2>1, <2>2, <2>3, <2>4, SMT
  <2>. QED  BY <2>1, <2>2, <2>3, <2>5 DEF PromptsAt
<1>5. /\ at \in [PromptsAt(t, k) -> PromptsAt(s, k + c)]
      /\ \A i \in PromptsAt(t, k) : at[i] = i + c /\ f[at[i]] \in 1 .. n
  BY <1>2, <1>4
<1>6. /\ \A i, j \in PromptsAt(t, k) : i < j => i + c < j + c
      /\ 0 \in Nat /\ \A x \in 1 .. n : x - 0 \in 1 .. n
  BY <1>3, SMT
<1>. HIDE DEF at
<1>7. \A i, j \in PromptsAt(t, k) : i < j => at[i] < at[j]
  BY <1>5, <1>6
<1>. QED  BY <1>1, <1>2, <1>3, <1>5, <1>6, <1>7, Renumbered

\* Output with a prompt at its end, and none before, is at most a prompt more.
LEMMA AtMostExtended ==
  ASSUME NEW s \in Seq(Tokens), NEW t \in Seq(Tokens), NEW ts \in Seq(Tokens),
         Extended(s, ts, t), \A i \in 1 .. Len(ts) : ts[i] = "prompt" => i = Len(ts),
         NEW k \in 0 .. Len(s), NEW n, AtMost(n, s, k)
  PROVE  /\ AtMost(n + 1, t, k)
         /\ (\A i \in 1 .. Len(ts) : ts[i] # "prompt") => AtMost(n, t, k)
<1>1. PICK f : Numbered(s, k, n, f)
  BY DEF AtMost
<1>2. n \in Nat /\ f \in [PromptsAt(s, k) -> 1 .. n]
  BY <1>1 DEF AtMost, Numbered
<1>3. /\ k \in Nat /\ Len(s) \in Nat /\ Len(ts) \in Nat /\ Len(t) = Len(s) + Len(ts)
      /\ DOMAIN s = 1 .. Len(s) /\ DOMAIN t = 1 .. Len(t)
  BY SMT DEF Extended
<1>4. ASSUME NEW i \in PromptsAt(t, k)
      PROVE  /\ i \in Int
             /\ \/ i <= Len(s) /\ i \in PromptsAt(s, k)
                \/ ~(i <= Len(s)) /\ i = Len(t) /\ \E l \in 1 .. Len(ts) : ts[l] = "prompt"
  <2>1. i \in 1 .. Len(t) /\ k < i /\ t[i] = "prompt"
    BY <1>3 DEF PromptsAt
  <2>2. CASE i <= Len(s)
    <3>1. i \in 1 .. Len(s) /\ i \in Int
      BY <1>3, <2>1, <2>2, SMT
    <3>2. t[i] = s[i]
      BY <3>1 DEF Extended
    <3>. QED  BY <1>3, <2>1, <2>2, <3>1, <3>2 DEF PromptsAt
  <2>3. CASE ~(i <= Len(s))
    <3>1. i - Len(s) \in 1 .. Len(ts) /\ Len(s) + (i - Len(s)) = i /\ i \in Int
      BY <1>3, <2>1, <2>3, SMT
    <3>2. ts[i - Len(s)] = "prompt"
      BY <2>1, <3>1 DEF Extended
    <3>3. i - Len(s) = Len(ts)
      BY <3>1, <3>2
    <3>. QED  BY <1>3, <2>3, <3>1, <3>2, <3>3
  <2>. QED  BY <2>2, <2>3
<1>5. AtMost(n + 1, t, k)
  <2>. DEFINE g == [i \in PromptsAt(t, k) |-> IF i <= Len(s) THEN f[i] ELSE n + 1]
  <2>1. ASSUME NEW i \in PromptsAt(t, k)
        PROVE  /\ i <= Len(s) => g[i] = f[i] /\ f[i] \in 1 .. n
               /\ ~(i <= Len(s)) => g[i] = n + 1 /\ i = Len(t)
    BY <1>2, <1>4
  <2>2. g \in [PromptsAt(t, k) -> 1 .. n + 1]
    <3>1. n + 1 \in 1 .. n + 1 /\ 1 .. n \subseteq 1 .. n + 1
      BY <1>2, SMT
    <3>. QED  BY <2>1, <3>1
  <2>3. ASSUME NEW i \in PromptsAt(t, k), NEW j \in PromptsAt(t, k), i < j PROVE g[i] < g[j]
    <3>1. i \in Int /\ j \in Int
      BY <1>4
    <3>2. CASE j <= Len(s)
      <4>1. i <= Len(s)
        BY <1>3, <2>3, <3>1, <3>2, SMT
      <4>2. i \in PromptsAt(s, k) /\ j \in PromptsAt(s, k)
        BY <1>4, <3>2, <4>1
      <4>. QED  BY <1>1, <2>1, <2>3, <3>2, <4>1, <4>2 DEF Numbered
    <3>3. CASE ~(j <= Len(s))
      <4>1. i # Len(t)
        BY <2>1, <2>3, <3>1, <3>3, SMT
      <4>2. g[i] \in 1 .. n /\ g[j] = n + 1
        BY <2>1, <3>3, <4>1
      <4>. QED  BY <1>2, <4>2, SMT
    <3>. QED  BY <3>2, <3>3
  <2>4. n + 1 \in Nat
    BY <1>2, SMT
  <2>. HIDE DEF g
  <2>. QED  BY <2>2, <2>3, <2>4 DEF AtMost, Numbered
<1>6. ASSUME \A i \in 1 .. Len(ts) : ts[i] # "prompt" PROVE AtMost(n, t, k)
  <2>. DEFINE at == [i \in PromptsAt(t, k) |-> i]
  <2>1. PromptsAt(t, k) \subseteq Int /\ PromptsAt(t, k) \subseteq PromptsAt(s, k)
    BY <1>4, <1>6
  <2>2. /\ at \in [PromptsAt(t, k) -> PromptsAt(s, k)]
        /\ \A i, j \in PromptsAt(t, k) : i < j => at[i] < at[j]
        /\ \A i \in PromptsAt(t, k) : f[at[i]] \in 1 .. n
    BY <1>2, <2>1
  <2>3. 0 \in Nat /\ \A x \in 1 .. n : x - 0 \in 1 .. n
    BY SMT
  <2>. HIDE DEF at
  <2>. QED  BY <1>1, <1>2, <2>1, <2>2, <2>3, Renumbered
<1>. QED  BY <1>5, <1>6

\* Where there are no prompts, there are at most none.
LEMMA NoneAtMost ==
  ASSUME NEW s, NEW k, \A j \in DOMAIN s : k < j => s[j] # "prompt", NEW n \in Nat
  PROVE  AtMost(n, s, k)
<1>. DEFINE f == [i \in PromptsAt(s, k) |-> 1]
<1>1. PromptsAt(s, k) = {}
  BY DEF PromptsAt
<1>2. Numbered(s, k, n, f)
  BY <1>1 DEF Numbered
<1>. HIDE DEF f
<1>. QED  BY <1>2 DEF AtMost, Numbered

\* Where there are at most none, there are no prompts.
LEMMA AtMostNone ==
  ASSUME NEW s \in Seq(Tokens), AtMost(0, s, 0)
  PROVE  \A j \in DOMAIN s : s[j] # "prompt"
<1>1. PICK f : f \in [PromptsAt(s, 0) -> 1 .. 0]
  BY DEF AtMost
<1>2. 1 .. 0 = {} /\ \A j \in DOMAIN s : 0 < j
  BY SMT
<1>. QED  BY <1>1, <1>2 DEF PromptsAt

\* Tokens of other kinds behind those without any of T.
LEMMA WithoutExtended ==
  ASSUME NEW T, NEW s \in Seq(Tokens), NEW ts \in Seq(Tokens), NEW t \in Seq(Tokens),
         Extended(s, ts, t), Without(T, s), \A i \in 1 .. Len(ts) : ts[i] \notin T
  PROVE  Without(T, t)
<1>1. /\ DOMAIN s = 1 .. Len(s) /\ DOMAIN t = 1 .. Len(t)
      /\ Len(s) \in Nat /\ Len(ts) \in Nat /\ Len(t) \in Nat
  BY SMT
<1>2. ASSUME NEW i \in DOMAIN t, i \notin DOMAIN s
      PROVE  t[i] \notin T
  <2>1. i - Len(s) \in 1 .. Len(ts) /\ Len(s) + (i - Len(s)) = i
    BY <1>1, <1>2, SMT DEF Extended
  <2>. QED  BY <2>1 DEF Extended
<1>. QED  BY <1>1, <1>2 DEF Extended, Without

---------------------------------------------------------------------------
(***************************************************************************)
(* The operators of the model.                                             *)
(***************************************************************************)

\* The commands, in order.
LEMMA CommandNames ==
  /\ Len(Commands) = 6 /\ DOMAIN Commands = 1 .. 6
  /\ Commands[1] = "setenv serverip" /\ Commands[2] = "setenv ipaddr"
  /\ Commands[3] = "tftpboot" /\ Commands[4] = "protect off"
  /\ Commands[5] = "erase" /\ Commands[6] = "cp.b"
  /\ CommandLines = {"setenv serverip", "setenv ipaddr", "tftpboot", "protect off",
                     "erase", "cp.b"}
  /\ \A c, d \in 1 .. 6 : Commands[c] = Commands[d] => c = d
<1>1. /\ Len(Commands) = 6 /\ DOMAIN Commands = 1 .. 6
      /\ Commands[1] = "setenv serverip" /\ Commands[2] = "setenv ipaddr"
      /\ Commands[3] = "tftpboot" /\ Commands[4] = "protect off"
      /\ Commands[5] = "erase" /\ Commands[6] = "cp.b"
  BY SMT DEF Commands
<1>2. \A c \in 1 .. 6 : c = 1 \/ c = 2 \/ c = 3 \/ c = 4 \/ c = 5 \/ c = 6
  BY SMT
<1>5. 1 \in 1 .. 6 /\ 2 \in 1 .. 6 /\ 3 \in 1 .. 6 /\ 4 \in 1 .. 6 /\ 5 \in 1 .. 6 /\ 6 \in 1 .. 6
  BY SMT
<1>3. CommandLines = {"setenv serverip", "setenv ipaddr", "tftpboot", "protect off",
                      "erase", "cp.b"}
  <2>1. CommandLines = {Commands[c] : c \in 1 .. 6}
    BY <1>1 DEF CommandLines
  <2>2. ASSUME NEW x \in CommandLines
        PROVE  x \in {"setenv serverip", "setenv ipaddr", "tftpboot", "protect off",
                      "erase", "cp.b"}
    <3>1. PICK c \in 1 .. 6 : x = Commands[c]
      BY <2>1, <2>2
    <3>. QED  BY <1>1, <1>2, <3>1
  <2>3. \A c \in 1 .. 6 : Commands[c] \in CommandLines
    BY <2>1
  <2>4. {"setenv serverip", "setenv ipaddr", "tftpboot", "protect off",
         "erase", "cp.b"} \subseteq CommandLines
    <3>1. /\ Commands[1] \in CommandLines /\ Commands[2] \in CommandLines
          /\ Commands[3] \in CommandLines /\ Commands[4] \in CommandLines
          /\ Commands[5] \in CommandLines /\ Commands[6] \in CommandLines
      BY <1>5, <2>3
    <3>. QED  BY <1>1, <3>1
  <2>. QED  BY <2>2, <2>4
<1>4. \A c, d \in 1 .. 6 : Commands[c] = Commands[d] => c = d
  BY <1>1, <1>2
<1>. QED  BY <1>1, <1>3, <1>4

---------------------------------------------------------------------------
(***************************************************************************)
(* What the steps do to the stream.                                        *)
(***************************************************************************)

\* Sequences put together.
LEMMA Joined ==
  ASSUME NEW s \in Seq(Tokens), NEW t \in Seq(Tokens)
  PROVE  /\ s \o t \in Seq(Tokens)
         /\ Len(s) \in Nat /\ Len(t) \in Nat
         /\ Len(s \o t) = Len(s) + Len(t)
         /\ \A i \in 1 .. Len(s) : (s \o t)[i] = s[i]
         /\ \A i \in 1 .. Len(t) : (s \o t)[Len(s) + i] = t[i]
<1>1. /\ s \o t \in Seq(Tokens)
      /\ Len(s \o t) = Len(s) + Len(t)
      /\ \A i \in 1 .. Len(s) + Len(t) :
           (s \o t)[i] = IF i <= Len(s) THEN s[i] ELSE t[i - Len(s)]
  BY JoinedIs
<1>2. Len(s) \in Nat /\ Len(t) \in Nat
  BY SMT
<1>3. ASSUME NEW i \in 1 .. Len(t)
      PROVE  (s \o t)[Len(s) + i] = t[i]
  <2>1. /\ Len(s) + i \in 1 .. Len(s) + Len(t)
        /\ ~(Len(s) + i <= Len(s))
        /\ (Len(s) + i) - Len(s) = i
    BY <1>2, SMT
  <2>. QED  BY <1>1, <2>1
<1>4. \A i \in 1 .. Len(s) : (s \o t)[i] = s[i]
  BY <1>1, <1>2, SMT
<1>. QED  BY <1>1, <1>2, <1>3, <1>4

\* A piece of a sequence.
LEMMA Piece ==
  ASSUME NEW s \in Seq(Tokens), NEW a \in Nat, NEW b \in Nat, a <= b, b <= Len(s)
  PROVE  /\ SubSeq(s, 1 + a, b) \in Seq(Tokens)
         /\ Len(SubSeq(s, 1 + a, b)) = b - a
         /\ \A i \in 1 .. b - a : SubSeq(s, 1 + a, b)[i] = s[i + a]
  BY SMT

\* The stream has its type; its tokens are those of the buffer, then the line's.
LEMMA StreamParts ==
  ASSUME seen \in Seq(Tokens), line \in Seq(Tokens)
  PROVE  /\ Stream \in Seq(Tokens)
         /\ Len(seen) \in Nat /\ Len(line) \in Nat
         /\ Len(Stream) = Len(seen) + Len(line)
         /\ DOMAIN seen = 1 .. Len(seen) /\ DOMAIN line = 1 .. Len(line)
         /\ DOMAIN Stream = 1 .. Len(Stream)
         /\ \A i \in 1 .. Len(seen) : Stream[i] = seen[i]
         /\ \A i \in 1 .. Len(line) : Stream[Len(seen) + i] = line[i]
<1>1. Stream \in Seq(Tokens)
  BY Joined DEF Stream
<1>2. /\ DOMAIN seen = 1 .. Len(seen) /\ DOMAIN line = 1 .. Len(line)
      /\ DOMAIN Stream = 1 .. Len(Stream)
  BY <1>1, SeqIs
<1>. QED  BY <1>2, Joined DEF Stream

\* A function that begins to wait at the end of the buffer forgets the buffer.
LEMMA ClearedStream ==
  ASSUME seen \in Seq(Tokens), line \in Seq(Tokens), seen' = <<>>, line' = line
  PROVE  /\ Stream' = line
         /\ Stream' \in Seq(Tokens)
         /\ Suffix(Stream, Len(seen), Stream')
<1>1. Stream' = line
  BY JoinedEmpty DEF Stream
<1>2. /\ Len(seen) \in Nat /\ Len(line) \in Nat
      /\ Len(Stream) = Len(seen) + Len(line)
      /\ \A i \in 1 .. Len(line) : Stream[Len(seen) + i] = line[i]
  BY StreamParts
<1>3. \A i \in 1 .. Len(line) : Len(seen) + i = i + Len(seen)
  BY <1>2, SMT
<1>4. Len(seen) \in 0 .. Len(Stream) /\ Len(line) = Len(Stream) - Len(seen)
  BY <1>2, SMT
<1>. QED  BY <1>1, <1>2, <1>3, <1>4 DEF Suffix

\* What the board prints comes at the end of the stream.
LEMMA PrintedStream ==
  ASSUME seen \in Seq(Tokens), line \in Seq(Tokens), NEW ts \in Seq(Tokens),
         seen' = seen, line' = line \o ts
  PROVE  /\ line' \in Seq(Tokens)
         /\ Stream' \in Seq(Tokens)
         /\ Extended(Stream, ts, Stream')
<1>1. line' \in Seq(Tokens)
  BY JoinedIs
<1>2. Stream \in Seq(Tokens)
  BY StreamParts
<1>3. Stream' = Stream \o ts
  <2>1. (seen \o line) \o ts = seen \o (line \o ts)
    BY JoinedTwice
  <2>. QED  BY <2>1 DEF Stream
<1>. QED  BY <1>1, <1>2, <1>3, Joined, SMTT(30) DEF Extended

\* Reading moves tokens from the line to the buffer.  As many as do not fit are
\* lost, and then the buffer is full.
LEMMA ReadStream ==
  ASSUME TypeOK, ReadOnce
  PROVE  /\ seen' \in Seq(Tokens) /\ line' \in Seq(Tokens)
         /\ room' \in 0 .. BufCap
         /\ Len(seen') \in Nat /\ Len(seen) <= Len(seen')
         /\ Blind => Blind'
         /\ room' > 0 => room > 0
         /\ \E c \in Nat : Suffix(Stream, c, Stream') /\ (c > 0 => room' = 0)
<1>1. seen \in Seq(Tokens) /\ line \in Seq(Tokens) /\ room \in 0 .. BufCap /\ BufCap \in Nat
  BY FlashToolAssumption DEF TypeOK
<1>2. /\ Stream \in Seq(Tokens)
      /\ Len(seen) \in Nat /\ Len(line) \in Nat
      /\ Len(Stream) = Len(seen) + Len(line)
      /\ \A i \in 1 .. Len(line) : Stream[Len(seen) + i] = line[i]
  BY <1>1, StreamParts
<1>3. PICK n \in 1 .. Len(line) :
        LET cut == IF n > room THEN n - room ELSE 0 IN
        /\ room' = IF n > room THEN 0 ELSE room - n
        /\ seen' = SubSeq(seen \o line, 1 + cut, Len(seen) + n)
        /\ line' = SubSeq(line, n + 1, Len(line))
  BY DEF ReadOnce
<1>. DEFINE cut == IF n > room THEN n - room ELSE 0
<1>4. /\ cut \in Nat /\ n \in Nat
      /\ cut <= n
      /\ cut > 0 => room' = 0
      /\ room' \in 0 .. BufCap
      /\ room' > 0 => room > 0
      /\ room = 0 => cut = n /\ room' = 0
  BY <1>1, <1>2, <1>3, SMT
<1>5. /\ seen' = SubSeq(Stream, 1 + cut, Len(seen) + n)
      /\ line' = SubSeq(line, n + 1, Len(line))
  BY <1>3 DEF Stream
<1>. HIDE DEF cut
<1>7. /\ seen' \in Seq(Tokens)
      /\ Len(seen') = (Len(seen) + n) - cut
      /\ \A i \in 1 .. (Len(seen) + n) - cut : seen'[i] = Stream[i + cut]
  <2>1. Len(seen) + n \in Nat /\ cut <= Len(seen) + n /\ Len(seen) + n <= Len(Stream)
    BY <1>2, <1>4, SMT
  <2>. QED  BY <1>2, <1>4, <1>5, <2>1, Piece, ZenonT(30)
<1>8. /\ line' \in Seq(Tokens)
      /\ Len(line') = Len(line) - n
      /\ \A i \in 1 .. Len(line) - n : line'[i] = line[i + n]
  <2>1. n <= Len(line) /\ Len(line) <= Len(line)
    BY <1>2, <1>4, SMT
  <2>2. line' = SubSeq(line, 1 + n, Len(line))
    BY <1>4, <1>5, SMT
  <2>. DEFINE l2 == SubSeq(line, 1 + n, Len(line))
  <2>3. /\ l2 \in Seq(Tokens)
        /\ Len(l2) = Len(line) - n
        /\ \A i \in 1 .. Len(line) - n : l2[i] = line[i + n]
    BY <1>1, <1>2, <1>4, <2>1, Piece, ZenonT(30)
  <2>. HIDE DEF l2
  <2>. QED  BY <2>2, <2>3 DEF l2
<1>10. Len(seen) <= Len(seen') /\ Len(seen') \in Nat
  <2>1. n - cut >= 0
    BY <1>4, SMT
  <2>. QED  BY <1>2, <1>4, <1>7, <1>8, <2>1, SMT
<1>11. Blind => Blind'
  <2>. SUFFICES ASSUME room = 0, seen = <<>> PROVE seen' = <<>>
    BY <1>4 DEF Blind
  <2>1. Len(seen) = 0
    BY EmptyIs
  <2>2. Len(seen') = 0
    BY <1>4, <1>7, <1>8, <2>1, SMT
  <2>. QED  BY <1>7, <2>2, SMT
<1>12. Suffix(Stream, cut, Stream')
  <2>1. /\ Stream' \in Seq(Tokens)
        /\ Len(Stream') = Len(seen') + Len(line')
        /\ \A i \in 1 .. Len(seen') : Stream'[i] = seen'[i]
        /\ \A i \in 1 .. Len(line') : Stream'[Len(seen') + i] = line'[i]
    BY <1>7, <1>8, Joined DEF Stream
  <2>2. cut \in 0 .. Len(Stream) /\ Len(Stream') = Len(Stream) - cut
    BY <1>2, <1>4, <1>7, <1>8, <2>1, SMT
  <2>4. /\ Len(seen) \in Nat /\ Len(line) \in Nat /\ n \in Nat /\ cut \in Nat
        /\ Len(seen') \in Nat /\ Len(seen') = (Len(seen) + n) - cut
        /\ Len(line') = Len(line) - n
        /\ Len(Stream') = Len(seen') + Len(line')
    BY <1>2, <1>4, <1>7, <1>8, <1>10, <2>1
  <2>3. ASSUME NEW i \in 1 .. Len(Stream')
        PROVE  Stream'[i] = Stream[i + cut]
    <3>1. CASE i <= Len(seen')
      <4>1. i \in 1 .. (Len(seen) + n) - cut /\ i \in 1 .. Len(seen')
        BY <2>4, <3>1, SMT
      <4>. QED  BY <1>7, <2>1, <4>1
    <3>2. CASE i > Len(seen')
      <4>. DEFINE k == i - Len(seen')
      <4>1. /\ k \in 1 .. Len(line') /\ k \in 1 .. Len(line) - n
            /\ i = Len(seen') + k
            /\ k + n \in 1 .. Len(line)
            /\ Len(seen) + (k + n) = i + cut
        BY <2>4, <3>2, SMT
      <4>. HIDE DEF k
      <4>2. Stream'[i] = line'[k] /\ line'[k] = line[k + n]
        BY <1>8, <2>1, <4>1
      <4>. QED  BY <1>2, <4>1, <4>2
    <3>. QED  BY <1>10, <2>1, <3>1, <3>2, SMT
  <2>. QED  BY <2>2, <2>3 DEF Suffix
<1>. QED  BY <1>4, <1>7, <1>8, <1>10, <1>11, <1>12

---------------------------------------------------------------------------
(***************************************************************************)
(* Types.                                                                  *)
(***************************************************************************)

\* A line more, and a line less.
LEMMA InputTypes ==
  ASSUME input \in Seq(Lines)
  PROVE  /\ \A l \in Lines : Append(input, l) \in Seq(Lines)
         /\ input # <<>> => Tail(input) \in Seq(Lines) /\ <<"tail">> \o Tail(input) \in Seq(Lines)
<1>1. \A l \in Lines : Append(input, l) \in Seq(Lines)
  BY AppendIs
<1>2. ASSUME input # <<>>
      PROVE  Tail(input) \in Seq(Lines)
  BY <1>2, HeadTailAre
<1>3. <<"tail">> \in Seq(Lines)
  BY SMT DEF Lines
<1>4. ASSUME input # <<>>
      PROVE  <<"tail">> \o Tail(input) \in Seq(Lines)
  BY <1>2, <1>3, <1>4, JoinedIs
<1>. QED  BY <1>1, <1>2, <1>4

\* The lines the script may type.
LEMMA LineNames ==
  /\ {"enter", "ctrl-c", "C", "l", "g", "tail"} \subseteq Lines
  /\ \A c \in 1 .. 6 : Commands[c] \in Lines
  BY CommandNames DEF Lines, CommandLines

\* The steps of the script that only look or type a key keep all types.
LEMMA KeyTypes ==
  ASSUME TypeOK,
         \/ BootromEnter \/ Reconnect \/ LookSilent \/ StopEnter \/ CtrlC
         \/ StopEscape \/ StopGivesUp \/ CtrlCGivesUp \/ Deadline
  PROVE  TypeOK'
<1>. USE DEF TypeOK, Others, memory, script
<1>1. "enter" \in Lines /\ "ctrl-c" \in Lines
  BY LineNames, SMT
<1>2. CASE BootromEnter
  BY <1>1, <1>2, InputTypes, SMT DEF BootromEnter, Send
<1>3. CASE Reconnect
  BY <1>3, SMT DEF Reconnect
<1>4. CASE LookSilent
  BY <1>4, SMT DEF LookSilent, Look
<1>11. Append(input, "enter") \in Seq(Lines) /\ Append(input, "ctrl-c") \in Seq(Lines)
  BY <1>1, InputTypes
<1>5. CASE StopEnter
  <2>1. SpamKey("stop", "enter", 1 + EnterAttempts)
    BY <1>5 DEF StopEnter
  <2>2. looked' \in BOOLEAN /\ input' \in Seq(Lines)
    BY <1>11, <2>1 DEF SpamKey, Send
  <2>3. tries' \in Nat
    BY <2>1, SMT DEF SpamKey
  <2>. QED  BY <2>1, <2>2, <2>3 DEF SpamKey
<1>6. CASE CtrlC
  <2>1. SpamKey("ctrl-c", "ctrl-c", CtrlCAttempts)
    BY <1>6 DEF CtrlC
  <2>2. looked' \in BOOLEAN /\ input' \in Seq(Lines)
    BY <1>11, <2>1 DEF SpamKey, Send
  <2>3. tries' \in Nat
    BY <2>1, SMT DEF SpamKey
  <2>. QED  BY <2>1, <2>2, <2>3 DEF SpamKey
<1>7. CASE StopEscape
  BY <1>7, SMT DEF StopEscape
<1>8. CASE StopGivesUp
  BY <1>8 DEF StopGivesUp
<1>9. CASE CtrlCGivesUp
  BY <1>9, SMT DEF CtrlCGivesUp
<1>10. CASE Deadline
  BY <1>10, SMT DEF Deadline
<1>. QED
  BY <1>2, <1>3, <1>4, <1>5, <1>6, <1>7, <1>8, <1>9, <1>10

\* A wait begins with the next line typed.
LEMMA WaitTypes ==
  ASSUME TypeOK, QuietOver \/ Go
  PROVE  TypeOK'
<1>4. <<>> \in Seq(Tokens) /\ 0 \in 0 .. Len(<<>>)
  BY EmptyIs, SMT
<1>. USE DEF TypeOK, Others, memory, Wait
<1>1. CASE QuietOver
  BY <1>1, <1>4 DEF QuietOver
<1>2. Append(input, "g") \in Seq(Lines)
  BY LineNames, InputTypes, SMT
<1>3. CASE Go
  BY <1>2, <1>3, <1>4 DEF Go, Send
<1>. QED  BY <1>1, <1>3

\* A command is typed.
LEMMA CommandTypes ==
  ASSUME TypeOK, looked' \in BOOLEAN, bad' \subseteq {"boundary", "noterased"}, Others,
         NEW c \in 1 .. 6, RunCommand(c)
  PROVE  TypeOK'
<1>1. Commands[c] \in Lines /\ Len(Commands) = 6
  BY LineNames, CommandNames
<1>. QED  BY <1>1, InputTypes, SMT DEF TypeOK, Others, memory, RunCommand, Wait, Send

\* The script starts over at a marker.
LEMMA MarkerTypes ==
  ASSUME TypeOK, looked' \in BOOLEAN, Others, NEW n \in Nat, NEW k, Marker(n, k), FromMarker(k)
  PROVE  TypeOK'
<1>. DEFINE m == k - 1
<1>1. Len(seen) \in Nat /\ k \in n + 1 .. Len(seen)
  BY SMT DEF TypeOK, Marker
<1>2. seen' = SubSeq(seen, 1 + m, Len(seen)) /\ m \in Nat /\ m <= Len(seen)
      /\ Len(seen) \in Nat /\ Len(seen) <= Len(seen)
  <2>1. m \in Nat /\ m <= Len(seen) /\ 1 + m = k /\ Len(seen) <= Len(seen)
    BY <1>1, SMT
  <2>. QED  BY <1>1, <2>1 DEF FromMarker
<1>. HIDE DEF m
<1>3. seen' \in Seq(Tokens)
  BY <1>2, Piece DEF TypeOK
<1>4. 0 \in 0 .. Len(Commands)
  <2>1. Len(Commands) = 6
    BY CommandNames
  <2>. QED  BY <2>1, SMT
<1>. QED  BY <1>3, <1>4, SMT DEF TypeOK, Others, memory, FromMarker

\* The steps that look at the buffer, and reading, keep all types.
LEMMA LookTypes ==
  ASSUME TypeOK, LookReset \/ Restart \/ LookBootrom \/ LookUboot \/ LookSpam \/ LookCommand
  PROVE  TypeOK'
<1>1. Len(seen) \in Nat /\ <<>> \in Seq(Tokens) /\ NoWatch = -1 /\ Len(Commands) = 6
  <2>1. Len(Commands) = 6 /\ <<>> \in Seq(Tokens)
    BY EmptyIs, CommandNames
  <2>. QED  BY <2>1, SMT DEF TypeOK, NoWatch
<1>. USE <1>1
<1>2. CASE LookReset
  <2>1. looked' \in BOOLEAN /\ Others
    BY <1>2 DEF LookReset, Look
  <2>2. ASSUME NEW k, Marker(0, k), FromMarker(k) PROVE TypeOK'
    <3>1. 0 \in Nat
      BY SMT
    <3>. QED  BY <2>1, <2>2, <3>1, MarkerTypes
  <2>3. CASE UNCHANGED <<pc, seen, watch, acted, tries, cmd, bad, input>>
    BY <2>1, <2>3 DEF TypeOK, Others, memory
  <2>. QED  BY <1>2, <2>2, <2>3 DEF LookReset
<1>3. CASE Restart
  <2>1. looked' \in BOOLEAN /\ Others /\ \E k : Marker(watch, k) /\ FromMarker(k)
    BY <1>3 DEF Restart, Look
  <2>2. watch \in Nat
    BY <1>3, SMT DEF Restart, ResetSeen, TypeOK
  <2>. QED  BY <2>1, <2>2, MarkerTypes
<1>4. CASE LookBootrom
  <2>1. looked' \in BOOLEAN /\ Others /\ UNCHANGED <<seen, tries, cmd, bad>>
    BY <1>4 DEF LookBootrom, Look
  <2>2. /\ watch' \in {watch, Len(seen)}
        /\ pc' \in {"quiet", "bootrom"}
        /\ acted' \subseteq acted \cup {"nvram", "vxprompt"}
    BY <1>4, SMT DEF LookBootrom, Look
  <2>3. Answer("nvram", "C") \in Seq(Lines) /\ Answer("vxprompt", "l") \in Seq(Lines)
    BY LineNames, SMT DEF Answer
  <2>4. input \o Answer("nvram", "C") \in Seq(Lines)
    BY <2>3, JoinedIs DEF TypeOK
  <2>5. input \o Answer("nvram", "C") \o Answer("vxprompt", "l") \in Seq(Lines)
    BY <2>3, <2>4, JoinedIs
  <2>6. input' \in Seq(Lines)
    BY <1>4, <2>5 DEF LookBootrom, TypeOK
  <2>7. watch' \in 0 .. Len(seen') \cup {NoWatch}
    BY <2>1, <2>2, SMT DEF TypeOK
  <2>8. /\ pc' \in {"reset", "bootrom", "quiet", "sleep", "uboot", "stop", "ctrl-c",
                    "command", "finished", "failed"}
        /\ acted' \subseteq {"nvram", "vxprompt", "autoboot", "ignore_next_prompt"}
    BY <2>2 DEF TypeOK
  <2>. QED  BY <2>1, <2>2, <2>6, <2>7, <2>8 DEF TypeOK, Others, memory
<1>5. CASE LookUboot
  <2>. USE <1>5
  <2>1. looked' \in BOOLEAN /\ Others
    BY DEF LookUboot, Look
  <2>2. CASE FirstCommand
    <3>1. bad' \subseteq {"boundary", "noterased"} /\ RunCommand(1) /\ 1 \in 1 .. 6
      BY <2>2, SMT DEF FirstCommand
    <3>. QED  BY <2>1, <3>1, CommandTypes
  <2>3. CASE ~FirstCommand
    <3>. USE <2>3
    <3>1. /\ pc' \in {"uboot", "stop", "ctrl-c"}
          /\ seen' \in {seen, <<>>}
          /\ UNCHANGED <<cmd, bad>>
      BY DEF LookUboot, Look
    <3>2. acted' \subseteq acted \cup {"nvram", "ignore_next_prompt", "autoboot"}
      BY DEF LookUboot, Look
    <3>3. tries' \in {tries, 0}
      BY DEF LookUboot, Look
    <3>4. Append(input, "C") \in Seq(Lines)
      BY LineNames, InputTypes, SMT DEF TypeOK
    <3>5. input' \in Seq(Lines)
      BY <3>4 DEF LookUboot, Send, TypeOK
    <3>6. watch' \in {watch, Len(seen)} /\ (watch' = watch \/ seen' = seen)
      BY DEF LookUboot
    <3>7. watch = NoWatch /\ (pc' = "uboot" => watch' = watch)
      BY DEF LookUboot, Look, TypeOK
    <3>8. watch' \in 0 .. Len(seen') \cup {NoWatch}
      BY <3>6, <3>7, SMT
    <3>9. /\ pc' \in {"reset", "bootrom", "quiet", "sleep", "uboot", "stop", "ctrl-c",
                      "command", "finished", "failed"}
          /\ acted' \subseteq {"nvram", "vxprompt", "autoboot", "ignore_next_prompt"}
          /\ seen' \in Seq(Tokens)
      BY <3>1, <3>2 DEF TypeOK
    <3>10. tries' \in Nat
      BY <3>3, SMT DEF TypeOK
    <3>. QED
      BY <2>1, <3>1, <3>5, <3>7, <3>8, <3>9, <3>10 DEF TypeOK, Others, memory
  <2>. QED  BY <2>2, <2>3
<1>6. CASE LookSpam
  <2>1. looked' \in BOOLEAN /\ Others
    BY <1>6 DEF LookSpam, Look
  <2>2. CASE Has("prompt")
    <3>1. bad' \subseteq {"boundary", "noterased"} /\ RunCommand(1) /\ 1 \in 1 .. 6
      BY <1>6, <2>2, SMT DEF LookSpam, FirstCommand
    <3>. QED  BY <2>1, <3>1, CommandTypes
  <2>3. CASE ~Has("prompt")
    BY <1>6, <2>1, <2>3 DEF LookSpam, TypeOK, Others, memory
  <2>. QED  BY <2>2, <2>3
<1>7. CASE LookCommand
  <2>. USE <1>7
  <2>1. looked' \in BOOLEAN /\ Others
    BY DEF LookCommand, Look
  <2>2. CASE ~Has("prompt")
    BY <2>1, <2>2 DEF LookCommand, TypeOK, Others, memory
  <2>3. CASE Has("prompt")
    <3>1. bad' \subseteq {"boundary", "noterased"}
      BY <2>3 DEF LookCommand, TypeOK, ErrorsIn
    <3>2. CASE cmd < Len(Commands)
      <4>1. RunCommand(cmd + 1)
        BY <2>3, <3>2 DEF LookCommand
      <4>2. cmd + 1 \in 1 .. 6
        BY <3>2, SMT DEF TypeOK
      <4>. QED  BY <2>1, <3>1, <4>1, <4>2, CommandTypes
    <3>3. CASE ~(cmd < Len(Commands))
      <4>1. pc' \in {"finished", "failed"} /\ UNCHANGED <<seen, watch, acted, tries, cmd, input>>
        BY <2>3, <3>3 DEF LookCommand
      <4>2. pc' \in {"reset", "bootrom", "quiet", "sleep", "uboot", "stop", "ctrl-c",
                     "command", "finished", "failed"}
        BY <4>1
      <4>. QED  BY <2>1, <3>1, <4>1, <4>2 DEF TypeOK, Others, memory
    <3>. QED  BY <3>2, <3>3
  <2>. QED  BY <2>2, <2>3
<1>. QED  BY <1>2, <1>3, <1>4, <1>5, <1>6, <1>7

\* Reading does.
LEMMA ReadTypes ==
  ASSUME TypeOK, ReadOnce
  PROVE  TypeOK'
<1>1. /\ seen' \in Seq(Tokens) /\ line' \in Seq(Tokens)
      /\ room' \in 0 .. BufCap
      /\ Len(seen') \in Nat /\ Len(seen) <= Len(seen')
  BY ReadStream
<1>2. /\ looked' = FALSE
      /\ UNCHANGED <<pc, watch, acted, tries, cmd, bad, input, board, memory,
                     done, idle, faults, boot>>
  BY DEF ReadOnce
<1>3. Len(seen) \in Nat
  BY SMT DEF TypeOK
<1>4. watch' \in 0 .. Len(seen') \cup {NoWatch}
  BY <1>1, <1>2, <1>3, SMT DEF TypeOK
<1>5. looked' \in BOOLEAN
  BY <1>2
<1>. QED  BY <1>1, <1>2, <1>4, <1>5 DEF TypeOK, memory

\* What the board prints in one step, and that it leaves the script alone.
BoardTokens ==
  {<<>>, <<"marker", "memtest">>, <<"vxbanner">>, <<"nvram">>, <<"autostart">>, <<"vxprompt">>,
   <<"loading">>, <<"marker">>, <<"autoboot">>, <<"nvram", "prompt">>, <<"prompt">>,
   <<"tftprun">>, <<"size", "prompt">>, <<"boundary", "prompt">>, <<"noterased", "prompt">>}

LEMMA TokensType == ASSUME NEW ts \in BoardTokens PROVE ts \in Seq(Tokens)
<1>1. <<>> \in Seq(Tokens)
  BY SMT
<1>2. ASSUME NEW a \in Tokens PROVE <<a>> \in Seq(Tokens)
  BY SMT
<1>3. ASSUME NEW a \in Tokens, NEW b \in Tokens PROVE <<a, b>> \in Seq(Tokens)
  BY SMT
<1>. QED  BY <1>1, <1>2, <1>3, ZenonT(30) DEF BoardTokens, Tokens

\* A message, then the prompt.
LEMMA PromptLast ==
  ASSUME NEW a \in Tokens
  PROVE  Append(<<a>>, "prompt") = <<a, "prompt">>
<1>1. "prompt" \in Tokens
  BY SMT DEF Tokens
<1>. DEFINE s == Append(<<a>>, "prompt")
<1>. DEFINE t == <<a, "prompt">>
<1>2. s \in Seq(Tokens) /\ Len(s) = 2 /\ s[1] = a /\ s[2] = "prompt"
  BY <1>1, SMT
<1>3. t \in Seq(Tokens) /\ Len(t) = 2 /\ t[1] = a /\ t[2] = "prompt"
  BY <1>1, SMT
<1>. HIDE DEF s, t
<1>4. \A i \in 1 .. 2 : i = 1 \/ i = 2
  BY SMT
<1>5. \A i \in 1 .. Len(s) : s[i] = t[i]
  BY <1>2, <1>3, <1>4
<1>6. s = t
  BY <1>2, <1>3, <1>5, SeqSame
<1>. QED  BY <1>6, SMT DEF s, t

\* The prompt alone.
LEMMA PromptAlone == Append(<<>>, "prompt") = <<"prompt">>
  BY SMT

\* The transfer begins.
LEMMA TransferLast ==
  ASSUME NEW s \in Seq(Tokens)
  PROVE  Append(s, "tftprun") = s \o <<"tftprun">>
  BY AppendJoins, SMT DEF Tokens

\* cp.b has its three outcomes.
Copies == CpBRefused \/ CpBOver \/ CpB

\* A step of the board prints one of these, and takes a line or none.
LEMMA BoardPrints ==
  ASSUME TypeOK, BoardStep
  PROVE  /\ UNCHANGED script
         /\ \E ts \in BoardTokens : line' = line \o ts
         /\ \/ input' = input
            \/ input # <<>> /\ input' = Tail(input)
            \/ input # <<>> /\ input' = <<"tail">> \o Tail(input)
         /\ flash' \in {"old", "blank", "junk", "image"}
         /\ ram' \in {"junk", "image"}
         /\ UNCHANGED boot
         /\ done' \in Nat /\ idle' \in Nat
<1>. USE DEF TypeOK
<1>0. line \o <<>> = line /\ done + 1 \in Nat /\ idle + 1 \in Nat
  BY JoinedEmpty, SMT
<1>. USE <1>0
<1>1. CASE RomStep
  BY <1>1 DEF RomStep, Prints, BoardTokens, memory
<1>2. CASE RomLine
  BY <1>2 DEF RomLine, Prints, BoardTokens, memory, Takes
<1>3. CASE MiscInit
  BY <1>3 DEF MiscInit, MainLoop, Prints, BoardTokens
<1>4. CASE DialogLine
  BY <1>4 DEF DialogLine, MainLoop, Prints, BoardTokens, Takes
<1>5. CASE AbortKey \/ Bootcmd \/ BootcmdEnds
  BY <1>5 DEF AbortKey, Bootcmd, BootcmdEnds, Prints, BoardTokens, Takes, TakesKey, memory
<1>6. CASE Swallow
  BY <1>6 DEF Swallow, Takes, TakesKey, memory, BoardTokens
<1>7. CASE Interrupt
  BY <1>7 DEF Interrupt, Prints, Takes, memory, BoardTokens
<1>8. CASE IdleLine
  BY <1>8 DEF IdleLine, Prints, Takes, memory, BoardTokens
<1>9. CASE CommandLine
  <2>1. Append(line, "tftprun") = line \o <<"tftprun">>
    BY TransferLast
  <2>. QED  BY <1>9, <2>1 DEF CommandLine, Takes, memory, BoardTokens
<1>10. /\ Append(<<>>, "prompt") = <<"prompt">>
       /\ Append(<<"size">>, "prompt") = <<"size", "prompt">>
       /\ Append(<<"boundary">>, "prompt") = <<"boundary", "prompt">>
       /\ Append(<<"noterased">>, "prompt") = <<"noterased", "prompt">>
  BY PromptAlone, PromptLast DEF Tokens
<1>. USE <1>10
<1>11. CASE Setenv
  BY <1>11 DEF Setenv, Completes, Prints, BoardTokens
<1>12. CASE Tftpboot
  BY <1>12 DEF Tftpboot, Completes, Prints, BoardTokens
<1>13. CASE ProtectOff
  BY <1>13 DEF ProtectOff, Refusal, Completes, Prints, BoardTokens
<1>14. CASE Erase
  BY <1>14 DEF Erase, Refusal, Completes, Prints, BoardTokens
<1>15. CASE Copies
  BY <1>15 DEF Copies, CpBRefused, CpBOver, CpB, Completes, Prints, BoardTokens
<1>. QED
  BY <1>1, <1>2, <1>3, <1>4, <1>5, <1>6, <1>7, <1>8, <1>9, <1>11, <1>12, <1>13, <1>14, <1>15
  DEF BoardStep, Copies

\* The board keeps the types.
LEMMA BoardTypes ==
  ASSUME TypeOK, BoardStep
  PROVE  TypeOK'
<1>1. UNCHANGED script
  BY BoardPrints
<1>2. line' \in Seq(Tokens)
  BY BoardPrints, TokensType, JoinedIs, ZenonT(30) DEF TypeOK
<1>3. input' \in Seq(Lines)
  BY BoardPrints, InputTypes DEF TypeOK
<1>4. /\ flash' \in {"old", "blank", "junk", "image"} /\ ram' \in {"junk", "image"}
      /\ UNCHANGED boot /\ done' \in Nat /\ idle' \in Nat
  BY BoardPrints
<1>. QED  BY <1>1, <1>2, <1>3, <1>4 DEF TypeOK, script

\* A reset does.
LEMMA ResetTypes ==
  ASSUME TypeOK, Reset
  PROVE  TypeOK'
<1>1. boot' \in Nat /\ 0 \in Nat
  BY SMT DEF TypeOK, Reset
<1>2. flash' \in {flash, "junk"}
  BY DEF Reset
<1>3. <<>> \in Seq(Lines)
  BY SMT
<1>. QED  BY <1>1, <1>2, <1>3 DEF TypeOK, Reset, script

\* All steps keep the types.
LEMMA TypesKept ==
  ASSUME TypeOK, Next
  PROVE  TypeOK'
<1>1. CASE LookStep
  BY <1>1, LookTypes, KeyTypes DEF LookStep
<1>2. CASE TimeStep
  BY <1>2, WaitTypes, KeyTypes DEF TimeStep
<1>. QED  BY <1>1, <1>2, KeyTypes, ReadTypes, BoardTypes, ResetTypes DEF Next

---------------------------------------------------------------------------
(***************************************************************************)
(* The lines on their way to the board.                                    *)
(***************************************************************************)

\* t is the input s with its first k lines taken, or one of them broken.
Fewer(s, k, t) ==
  \A i \in DOMAIN t : i \in Nat /\ (t[i] = "tail" \/ (i + k \in DOMAIN s /\ t[i] = s[i + k]))

\* A line typed is the last one.
LEMMA LineAppended ==
  ASSUME NEW s \in Seq(Lines), NEW l \in Lines
  PROVE  /\ DOMAIN s = 1 .. Len(s) /\ Len(s) \in Nat
         /\ DOMAIN Append(s, l) = 1 .. Len(s) + 1
         /\ \A i \in 1 .. Len(s) : Append(s, l)[i] = s[i]
         /\ Append(s, l)[Len(s) + 1] = l
<1>1. /\ Append(s, l) \in Seq(Lines) /\ Len(Append(s, l)) = Len(s) + 1
      /\ \A i \in 1 .. Len(s) : Append(s, l)[i] = s[i]
      /\ Append(s, l)[Len(s) + 1] = l
  BY AppendIs, SMT
<1>2. DOMAIN s = 1 .. Len(s) /\ Len(s) \in Nat
  BY SMT
<1>3. DOMAIN Append(s, l) = 1 .. Len(Append(s, l))
  BY <1>1, SeqIs
<1>. QED  BY <1>1, <1>2, <1>3

\* A line taken was the first one.
LEMMA LineTaken ==
  ASSUME NEW s \in Seq(Lines), s # <<>>
  PROVE  /\ 1 \in DOMAIN s /\ s[1] = Head(s)
         /\ Fewer(s, 1, Tail(s))
         /\ Fewer(s, 0, <<"tail">> \o Tail(s))
<1>1. /\ Tail(s) \in Seq(Lines) /\ Len(s) \in Nat /\ Len(s) > 0
      /\ Len(Tail(s)) = Len(s) - 1
      /\ \A i \in 1 .. Len(s) - 1 : Tail(s)[i] = s[i + 1]
      /\ DOMAIN s = 1 .. Len(s) /\ DOMAIN Tail(s) = 1 .. Len(s) - 1
  BY SMT
<1>. USE <1>1
<1>2. 1 \in DOMAIN s /\ s[1] = Head(s)
  BY SMT
<1>3. Fewer(s, 1, Tail(s))
  BY SMT DEF Fewer
<1>. DEFINE t == <<"tail">> \o Tail(s)
<1>4. <<"tail">> \in Seq(Lines) /\ Len(<<"tail">>) = 1 /\ <<"tail">>[1] = "tail"
  BY SMT DEF Lines
<1>5. /\ t \in Seq(Lines) /\ Len(t) = 1 + (Len(s) - 1)
      /\ \A i \in 1 .. 1 + (Len(s) - 1) :
           t[i] = IF i <= 1 THEN <<"tail">>[i] ELSE Tail(s)[i - 1]
  BY <1>4, JoinedIs, SMT
<1>. USE <1>5
<1>6. DOMAIN t = 1 .. Len(t)
  BY SeqIs
<1>. HIDE DEF t
<1>7. ASSUME NEW i \in DOMAIN t
      PROVE  i \in Nat /\ (t[i] = "tail" \/ (i + 0 \in DOMAIN s /\ t[i] = s[i + 0]))
  <2>1. i \in 1 .. 1 + (Len(s) - 1) /\ i \in Nat
    BY <1>6, SMT
  <2>. USE <2>1
  <2>2. CASE i <= 1
    <3>1. i = 1
      BY <2>2, SMT
    <3>. QED  BY <1>4, <2>2, <3>1
  <2>3. CASE ~(i <= 1)
    <3>1. i - 1 \in 1 .. Len(s) - 1 /\ (i - 1) + 1 = i + 0 /\ i + 0 \in DOMAIN s
      BY <2>3, SMT
    <3>. QED  BY <2>3, <3>1
  <2>. QED  BY <2>2, <2>3
<1>8. Fewer(s, 0, t)
  BY <1>7 DEF Fewer
<1>. QED  BY <1>2, <1>3, <1>8 DEF t

\* A board step takes no line, or one, or breaks one.
LEMMA BoardTakes ==
  ASSUME TypeOK, BoardStep
  PROVE  \E k \in {0, 1} : Fewer(input, k, input')
<1>1. CASE input' = input
  <2>1. input \in Seq(Lines)
    BY SMT DEF TypeOK
  <2>. QED  BY <1>1, <2>1, SMT DEF Fewer
<1>2. CASE input' # input
  BY <1>2, BoardPrints, LineTaken DEF TypeOK
<1>. QED  BY <1>1, <1>2

---------------------------------------------------------------------------
(***************************************************************************)
(* No U-Boot is running or about to: the boot ROM, and resets.             *)
(***************************************************************************)

\* Then most of the invariant says nothing.
LEMMA Unkeyed ==
  ASSUME TypeOK', ~Keyed', pc' = "sleep" => Without(UbootTokens, line'),
         pc' \notin {"command", "finished", "failed"} => cmd' = 0,
         done' = 0, idle' = 0
  PROVE  ToolInv'
<1>1. ~Started' /\ ~Starting' /\ ~CommandLineRuns'
  BY DEF Keyed, Started
<1>. USE <1>1
<1>2. \A i \in DOMAIN input' : input'[i] # "g"
  BY DEF Keyed
<1>3. KeyInv'
  BY <1>2 DEF KeyInv
<1>4. InOrder'
  BY DEF InOrder, CommandLineRuns, CommandLines
<1>5. MarkerInv' /\ PromptInv' /\ EffectInv'
  BY DEF MarkerInv, PromptInv, EffectInv
<1>6. InputInv'
  BY <1>4 DEF InputInv
<1>. QED  BY <1>3, <1>5, <1>6 DEF ToolInv

\* What the boot ROM prints.
RomTokens ==
  {<<>>, <<"marker", "memtest">>, <<"vxbanner">>, <<"nvram">>, <<"autostart">>, <<"vxprompt">>,
   <<"loading">>, <<"marker">>}

\* It is nothing that only U-Boot prints.
LEMMA RomWords ==
  ASSUME NEW ts \in RomTokens
  PROVE  /\ ts \in Seq(Tokens)
         /\ \A i \in 1 .. Len(ts) : ts[i] \notin UbootTokens
<1>1. /\ <<>> \in Seq(Tokens) /\ Len(<<>>) = 0 /\ 1 .. 0 = {}
      /\ \A i \in 1 .. 1 : i = 1
      /\ \A i \in 1 .. 2 : i = 1 \/ i = 2
  BY SMT
<1>2. ASSUME NEW a \in Tokens \ UbootTokens
      PROVE  /\ <<a>> \in Seq(Tokens)
             /\ \A i \in 1 .. Len(<<a>>) : <<a>>[i] \notin UbootTokens
  BY <1>1, SMT
<1>3. ASSUME NEW a \in Tokens \ UbootTokens, NEW b \in Tokens \ UbootTokens
      PROVE  /\ <<a, b>> \in Seq(Tokens)
             /\ \A i \in 1 .. Len(<<a, b>>) : <<a, b>>[i] \notin UbootTokens
  <2>. DEFINE t == <<a, b>>
  <2>1. t \in Seq(Tokens) /\ Len(t) = 2 /\ t[1] = a /\ t[2] = b
    BY SMT
  <2>. HIDE DEF t
  <2>2. \A i \in 1 .. Len(t) : t[i] \notin UbootTokens
    BY <1>1, <2>1
  <2>. QED  BY <2>1, <2>2 DEF t
<1>4. {"marker", "memtest", "vxbanner", "nvram", "autostart", "vxprompt", "loading"}
        \subseteq Tokens \ UbootTokens
  BY SMT DEF Tokens, UbootTokens
<1>. QED  BY <1>1, <1>2, <1>3, <1>4 DEF RomTokens

\* The boot ROM prints, takes a line or none, and starts U-Boot when told to.
LEMMA RomSteps ==
  ASSUME TypeOK, RomStep \/ RomLine
  PROVE  /\ UNCHANGED <<script, memory, done, idle, faults, boot>>
         /\ ~Started
         /\ \E ts \in RomTokens : line' = line \o ts
         /\ input' = input \/ (input # <<>> /\ input' = Tail(input))
         /\ Started' => /\ board' = "misc_init_r"
                        /\ input # <<>> /\ Head(input) = "g" /\ input' = Tail(input)
<1>0. line \o <<>> = line
  BY JoinedEmpty, SMT DEF TypeOK
<1>. USE DEF Started, Starting, CommandLineRuns
<1>1. CASE RomStep
  <2>1. /\ board \in {"start", "memtest", "countdown", "loading"}
        /\ board' \in {"memtest", "countdown", "romdialog", "vxworks", "monitor"}
    BY <1>1 DEF RomStep, Prints
  <2>2. ~Started /\ ~Started'
    BY <2>1, CommandNames
  <2>. QED  BY <1>0, <1>1, <2>2 DEF RomStep, Prints, RomTokens
<1>2. CASE RomLine
  <2>. USE <1>2
  <2>1. /\ board \in {"memtest", "romdialog", "countdown", "vxprompt", "monitor"}
        /\ \/ board' \in {"memtest", "countdown", "vxprompt", "loading", "monitor"}
           \/ board' = "misc_init_r" /\ input # <<>> /\ Head(input) = "g"
    BY DEF RomLine, Prints, Typed
  <2>2. ~Started
    BY <2>1, CommandNames
  <2>3. input # <<>> /\ input' = Tail(input)
    BY DEF RomLine, Takes
  <2>4. \E ts \in RomTokens : line' = line \o ts
    BY <1>0 DEF RomLine, Prints, RomTokens
  <2>5. Started' => board' = "misc_init_r" /\ input # <<>> /\ Head(input) = "g"
    BY <2>1, CommandNames
  <2>. QED  BY <2>2, <2>3, <2>4, <2>5 DEF RomLine
<1>. QED  BY <1>1, <1>2

\* The steps of U-Boot: it goes on, or has started Linux, or asks for what nobody
\* will tell it.
LEMMA UbootSteps ==
  ASSUME TypeOK, BoardStep, ~(RomStep \/ RomLine)
  PROVE  /\ Started
         /\ \/ Started'
            \/ line' = line /\ UNCHANGED <<input, done, idle>> /\ ~CommandLineRuns
         /\ board' # "misc_init_r"
<1>0. line \o <<>> = line
  BY JoinedEmpty, SMT DEF TypeOK
<1>. USE CommandNames DEF Started, Starting, CommandLineRuns
<1>1. CASE MiscInit \/ DialogLine \/ AbortKey \/ Bootcmd
  BY <1>0, <1>1 DEF MiscInit, MainLoop, DialogLine, AbortKey, Bootcmd, Prints
<1>2. CASE BootcmdEnds
  BY <1>0, <1>2 DEF BootcmdEnds, Prints
<1>3. CASE Swallow \/ Interrupt \/ IdleLine
  BY <1>3 DEF Swallow, Interrupt, IdleLine, Prints
<1>4. CASE CommandLine
  BY <1>4 DEF CommandLine
<1>5. CASE Setenv \/ Tftpboot \/ ProtectOff \/ Erase \/ Copies
  BY <1>5 DEF Setenv, Tftpboot, ProtectOff, Erase, Copies, CpBRefused, CpBOver, CpB, Completes, Prints
<1>. QED  BY <1>1, <1>2, <1>3, <1>4, <1>5 DEF BoardStep, Copies

ScriptStep == LookStep \/ TimeStep \/ BootromEnter \/ Reconnect \/ ReadOnce

\* The script does nothing to the board but through its input.
LEMMA ScriptOnly ==
  ASSUME ScriptStep
  PROVE  /\ UNCHANGED <<board, memory, done, idle, faults, boot>>
         /\ line' = line \/ Reconnect \/ ReadOnce
<1>1. CASE Others
  BY <1>1 DEF Others
<1>2. CASE LookStep
  <2>1. Others
    BY <1>2 DEF LookStep, LookReset, Restart, LookBootrom, LookSilent, LookUboot,
                       LookSpam, LookCommand
  <2>. QED  BY <1>1, <2>1
<1>3. CASE TimeStep
  <2>1. Others
    BY <1>3 DEF TimeStep, QuietOver, Go, StopEnter, CtrlC, SpamKey, StopEscape,
                       StopGivesUp, CtrlCGivesUp, Deadline
  <2>. QED  BY <1>1, <2>1
<1>4. CASE BootromEnter
  BY <1>1, <1>4 DEF BootromEnter
<1>5. CASE Reconnect
  BY <1>5 DEF Reconnect
<1>6. CASE ReadOnce
  BY <1>6 DEF ReadOnce
<1>. QED  BY <1>2, <1>3, <1>4, <1>5, <1>6 DEF ScriptStep

\* Where the script can be after a step, and what is typed.
LEMMA ScriptMoves ==
  ASSUME TypeOK, ScriptStep
  PROVE  /\ \/ pc' = pc /\ cmd' = cmd
            \/ pc' \in {"bootrom", "quiet"} /\ cmd' \in {0, cmd} /\ (cmd' = 0 \/ pc = "bootrom")
            \/ pc' = "sleep" /\ cmd' = cmd /\ QuietOver
            \/ pc' = "uboot" /\ cmd' = cmd /\ pc \in {"sleep", "stop"}
            \/ pc' \in {"stop", "ctrl-c"} /\ cmd' = cmd /\ pc \in {"uboot", "stop"}
            \/ pc' \in {"command", "finished", "failed"}
<1>1. CASE LookReset \/ Restart
  BY <1>1 DEF LookReset, Restart, FromMarker
<1>2. CASE LookBootrom \/ LookSilent
  BY <1>2 DEF LookBootrom, LookSilent, Look
<1>3. CASE LookUboot
  BY <1>3 DEF LookUboot, Look, FirstCommand, RunCommand, Wait
<1>4. CASE LookSpam
  BY <1>4 DEF LookSpam, FirstCommand, RunCommand, Wait
<1>5. CASE LookCommand
  BY <1>5 DEF LookCommand, RunCommand, Wait
<1>6. CASE TimeStep
  BY <1>6 DEF TimeStep, QuietOver, Go, StopEnter, CtrlC, SpamKey, StopEscape,
                     StopGivesUp, CtrlCGivesUp, Deadline, Wait
<1>7. CASE BootromEnter \/ Reconnect \/ ReadOnce
  BY <1>7 DEF BootromEnter, Reconnect, ReadOnce, script
<1>. QED  BY <1>1, <1>2, <1>3, <1>4, <1>5, <1>6, <1>7 DEF ScriptStep, LookStep

\* What is read is taken from the front of the line.
LEMMA LineRead ==
  ASSUME TypeOK, ReadOnce, NEW T, Without(T, line)
  PROVE  Without(T, line')
<1>1. PICK n \in 1 .. Len(line) : line' = SubSeq(line, n + 1, Len(line))
  BY DEF ReadOnce
<1>2. line \in Seq(Tokens) /\ Len(line) \in Nat /\ DOMAIN line = 1 .. Len(line)
  BY SMT DEF TypeOK
<1>. USE <1>2
<1>3. n \in Nat /\ n <= Len(line) /\ Len(line) <= Len(line) /\ n + 1 = 1 + n
  BY SMT
<1>4. /\ line' \in Seq(Tokens)
      /\ Len(line') = Len(line) - n
      /\ \A i \in 1 .. Len(line) - n : line'[i] = line[i + n]
  <2>1. line' = SubSeq(line, 1 + n, Len(line))
    BY <1>1, <1>3
  <2>. QED  BY <1>3, <2>1, Piece
<1>5. DOMAIN line' = 1 .. Len(line')
  BY <1>4, SeqIs
<1>6. \A i \in 1 .. Len(line) - n : i + n \in 1 .. Len(line)
  BY <1>3, SMT
<1>. QED  BY <1>4, <1>5, <1>6 DEF Without

\* A step after which the board runs no U-Boot and is not told to.
LEMMA UnkeyedStep ==
  ASSUME ToolInv, Next, ~Keyed'
  PROVE  ToolInv'
<1>. USE DEF ToolInv
<1>1. TypeOK'
  BY TypesKept
<1>. USE <1>1
<1>2. ~Started' /\ ~CommandLineRuns'
  BY DEF Keyed, Started
<1>3. CASE ScriptStep
  <2>. USE <1>3
  <2>1. ~CommandLineRuns /\ UNCHANGED <<board, done, idle>>
    BY <1>2, ScriptOnly DEF CommandLineRuns
  <2>2. done' = 0 /\ idle' = 0
    BY <2>1 DEF InputInv
  <2>3. ASSUME pc' \notin {"command", "finished", "failed"} PROVE cmd' = 0
    <3>1. pc \notin {"command", "finished", "failed"} => cmd = 0
      BY DEF InputInv
    <3>2. pc \in {"bootrom", "sleep", "stop", "uboot", "quiet"} => cmd = 0
      BY <3>1
    <3>3. QuietOver => pc = "quiet"
      BY DEF QuietOver
    <3>4. pc' = pc => pc \notin {"command", "finished", "failed"}
      BY <2>3
    <3>. QED  BY <2>3, <3>1, <3>2, <3>3, <3>4, ScriptMoves
  <2>4. ASSUME pc' = "sleep" PROVE Without(UbootTokens, line')
    <3>1. CASE QuietOver
      <4>1. line' = <<>>
        BY <3>1 DEF QuietOver, Others
      <4>2. DOMAIN <<>> = {}
        BY SMT
      <4>. QED  BY <4>1, <4>2 DEF Without
    <3>2. CASE pc = "sleep"
      <4>1. Without(UbootTokens, line)
        BY <3>2 DEF KeyInv
      <4>2. ~Reconnect
        BY <3>2 DEF Reconnect
      <4>. QED  BY <4>1, <4>2, ScriptOnly, LineRead
    <3>. QED  BY <2>4, <3>1, <3>2, ScriptMoves
  <2>. QED  BY <2>2, <2>3, <2>4, Unkeyed
<1>4. CASE BoardStep
  <2>1. UNCHANGED script
    BY <1>4, BoardPrints
  <2>2. pc' \notin {"command", "finished", "failed"} => cmd' = 0
    BY <2>1 DEF script, InputInv
  <2>3. CASE RomStep \/ RomLine
    <3>1. /\ ~Started /\ UNCHANGED <<done, idle>>
      BY <2>3, RomSteps
    <3>2. done' = 0 /\ idle' = 0
      BY <3>1 DEF InputInv, Started
    <3>3. PICK ts \in RomTokens : line' = line \o ts
      BY <2>3, RomSteps
    <3>4. ASSUME pc' = "sleep" PROVE Without(UbootTokens, line')
      <4>1. Without(UbootTokens, line)
        BY <2>1, <3>4 DEF KeyInv, script
      <4>2. /\ line \in Seq(Tokens) /\ ts \in Seq(Tokens) /\ DOMAIN line = 1 .. Len(line)
            /\ \A i \in 1 .. Len(ts) : ts[i] \notin UbootTokens
        BY RomWords, SeqIs DEF TypeOK
      <4>3. /\ line' \in Seq(Tokens) /\ Len(line) \in Nat /\ Len(ts) \in Nat
            /\ Len(line') = Len(line) + Len(ts)
            /\ \A i \in 1 .. Len(line) : line'[i] = line[i]
            /\ \A i \in 1 .. Len(ts) : line'[Len(line) + i] = ts[i]
        BY <3>3, <4>2, Joined
      <4>. USE <4>3
      <4>4. ASSUME NEW i \in 1 .. Len(line'), i \notin 1 .. Len(line)
            PROVE  line'[i] \notin UbootTokens
        <5>1. i - Len(line) \in 1 .. Len(ts) /\ Len(line) + (i - Len(line)) = i
          BY <4>4, SMT
        <5>. QED  BY <4>2, <5>1
      <4>5. DOMAIN line' = 1 .. Len(line')
        BY SeqIs
      <4>. QED  BY <4>1, <4>2, <4>4, <4>5 DEF Without
    <3>. QED  BY <2>2, <3>2, <3>4, Unkeyed
  <2>4. CASE ~(RomStep \/ RomLine)
    <3>1. line' = line /\ UNCHANGED <<done, idle>> /\ ~CommandLineRuns
      BY <1>2, <1>4, <2>4, UbootSteps
    <3>2. done' = 0 /\ idle' = 0
      BY <3>1 DEF InputInv
    <3>3. pc' = "sleep" => Without(UbootTokens, line')
      BY <2>1, <3>1 DEF KeyInv, script
    <3>. QED  BY <2>2, <3>2, <3>3, Unkeyed
  <2>. QED  BY <2>3, <2>4
<1>5. CASE Reset
  <2>1. UNCHANGED script /\ line' = line /\ done' = 0 /\ idle' = 0
    BY <1>5 DEF Reset
  <2>2. pc' \notin {"command", "finished", "failed"} => cmd' = 0
    BY <2>1 DEF script, InputInv
  <2>3. pc' = "sleep" => Without(UbootTokens, line')
    BY <2>1 DEF KeyInv, script
  <2>. QED  BY <2>1, <2>2, <2>3, Unkeyed
<1>. QED  BY <1>3, <1>4, <1>5 DEF Next, ScriptStep

---------------------------------------------------------------------------
(***************************************************************************)
(* U-Boot is about to run: "g" has been typed.                             *)
(***************************************************************************)

\* What the script types, but for its answers to the boot ROM.
LEMMA ScriptTypes ==
  ASSUME TypeOK, ScriptStep, ~LookBootrom
  PROVE  \/ input' = input
         \/ input' = <<>> /\ pc = "bootrom"
         \/ Go /\ input' = Append(input, "g")
         \/ \E l \in {"enter", "ctrl-c", "C"} : input' = Append(input, l)
         \/ pc' = "command" /\ cmd' \in {1, cmd + 1} /\ input' = Append(input, Commands[cmd'])
<1>1. CASE LookReset \/ Restart
  BY <1>1 DEF LookReset, Restart, FromMarker
<1>2. CASE LookSilent
  BY <1>2 DEF LookSilent
<1>3. CASE LookUboot
  BY <1>3 DEF LookUboot, FirstCommand, RunCommand, Wait, Send
<1>4. CASE LookSpam \/ LookCommand
  BY <1>4 DEF LookSpam, LookCommand, FirstCommand, RunCommand, Wait, Send
<1>5. CASE TimeStep
  BY <1>5 DEF TimeStep, QuietOver, Go, StopEnter, CtrlC, SpamKey, StopEscape,
                     StopGivesUp, CtrlCGivesUp, Deadline, Send
<1>6. CASE BootromEnter \/ Reconnect \/ ReadOnce
  BY <1>6 DEF BootromEnter, Reconnect, ReadOnce, Send
<1>. QED  BY <1>1, <1>2, <1>3, <1>4, <1>5, <1>6 DEF ScriptStep, LookStep

\* Only Go types "g".
LEMMA NoKeyTyped ==
  ASSUME TypeOK, TypeOK', ScriptStep, ~Go, Without({"g"}, input)
  PROVE  Without({"g"}, input')
<1>1. input \in Seq(Lines) /\ input' \in Seq(Lines)
  BY DEF TypeOK
<1>2. ASSUME NEW l \in Lines, l # "g", input' = Append(input, l)
      PROVE  Without({"g"}, input')
  <2>1. \A i \in 1 .. Len(input) + 1 : i \in 1 .. Len(input) \/ i = Len(input) + 1
    BY <1>1, SMT
  <2>2. /\ DOMAIN input = 1 .. Len(input) /\ DOMAIN input' = 1 .. Len(input) + 1
        /\ \A i \in 1 .. Len(input) : input'[i] = input[i]
        /\ input'[Len(input) + 1] = l
    BY <1>1, <1>2, LineAppended
  <2>3. \A i \in DOMAIN input : input[i] # "g"
    BY DEF Without
  <2>4. \A i \in DOMAIN input' : input'[i] # "g"
    BY <1>2, <2>1, <2>2, <2>3
  <2>. QED  BY <2>4 DEF Without
<1>3. {"enter", "ctrl-c", "C"} \subseteq Lines \ {"g"}
  BY SMT DEF Lines
<1>4. ASSUME pc' = "command", cmd' \in {1, cmd + 1}, input' = Append(input, Commands[cmd'])
      PROVE  Without({"g"}, input')
  <2>1. Len(Commands) = 6
    BY CommandNames
  <2>2. cmd' \in 1 .. 6
    BY <1>4, <2>1, SMT DEF TypeOK
  <2>3. Commands[cmd'] \in Lines /\ Commands[cmd'] \in CommandLines
    BY <2>2, LineNames, CommandNames DEF CommandLines
  <2>4. Commands[cmd'] # "g"
    BY <2>3, CommandNames
  <2>. QED  BY <1>2, <1>4, <2>3, <2>4
<1>5. CASE LookBootrom
  <2>1. /\ Answer("nvram", "C") \in Seq(Lines \ {"g"}) /\ Answer("vxprompt", "l") \in Seq(Lines \ {"g"})
    <3>1. "C" \in Lines \ {"g"} /\ "l" \in Lines \ {"g"}
      BY DEF Lines
    <3>2. ASSUME NEW l \in Lines \ {"g"}
          PROVE  <<l>> \in Seq(Lines \ {"g"}) /\ <<>> \in Seq(Lines \ {"g"})
      BY SMT
    <3>. QED  BY <3>1, <3>2 DEF Answer
  <2>2. input \in Seq(Lines \ {"g"})
    BY <1>1, SMT DEF Without
  <2>3. input \o Answer("nvram", "C") \in Seq(Lines \ {"g"})
    BY <2>1, <2>2, JoinedIs
  <2>4. input \o Answer("nvram", "C") \o Answer("vxprompt", "l") \in Seq(Lines \ {"g"})
    BY <2>1, <2>3, JoinedIs
  <2>5. input' \in Seq(Lines \ {"g"})
    BY <1>5, <2>2, <2>4 DEF LookBootrom
  <2>. QED  BY <2>5, SMT DEF Without
<1>6. DOMAIN <<>> = {}
  BY SMT
<1>7. CASE ~LookBootrom
  BY <1>2, <1>3, <1>4, <1>6, <1>7, ScriptTypes DEF Without
<1>. QED  BY <1>5, <1>7

\* The step that tells the board to run U-Boot is Go.
LEMMA OnlyGo ==
  ASSUME ToolInv, Next, ~Keyed, Keyed'
  PROVE  Go
<1>. USE DEF ToolInv
<1>1. Without({"g"}, input) /\ ~Started
  BY DEF Keyed, Without
<1>. USE <1>1
<1>2. TypeOK'
  BY TypesKept
<1>3. ASSUME ScriptStep, ~Go PROVE FALSE
  <2>1. Without({"g"}, input')
    BY <1>2, <1>3, NoKeyTyped
  <2>2. ~Started'
    BY <1>3, ScriptOnly DEF Started, Starting, CommandLineRuns
  <2>. QED  BY <2>1, <2>2 DEF Keyed, Without
<1>4. ASSUME BoardStep PROVE FALSE
  <2>1. RomStep \/ RomLine
    BY <1>4, UbootSteps
  <2>2. PICK k \in {0, 1} : Fewer(input, k, input')
    BY <1>4, BoardTakes
  <2>3. Without({"g"}, input')
    BY <2>2 DEF Fewer, Without
  <2>4. Started'
    BY <2>3 DEF Keyed, Without
  <2>5. input # <<>> /\ Head(input) = "g"
    BY <2>1, <2>4, RomSteps
  <2>6. 1 \in DOMAIN input /\ input[1] = "g"
    BY <2>5, LineTaken DEF TypeOK
  <2>. QED  BY <2>6 DEF Without
<1>5. ASSUME Reset PROVE FALSE
  <2>1. DOMAIN <<>> = {}
    BY SMT
  <2>2. ~Started'
    BY <1>5, CommandNames DEF Reset, Started, Starting, CommandLineRuns
  <2>. QED  BY <1>5, <2>1, <2>2 DEF Reset, Keyed
<1>. QED  BY <1>3, <1>4, <1>5 DEF Next, ScriptStep

\* It comes when nothing of an earlier U-Boot is left.
LEMMA GoStep ==
  ASSUME ToolInv, Next, ~Keyed, Keyed'
  PROVE  ToolInv'
<1>. USE DEF ToolInv
<1>1. Go
  BY OnlyGo
<1>2. TypeOK'
  BY TypesKept
<1>3. /\ pc = "sleep" /\ pc' = "uboot" /\ cmd' = cmd /\ acted' = {} /\ seen' = <<>>
      /\ input' = Append(input, "g")
      /\ UNCHANGED <<line, board, done, idle>>
  BY <1>1 DEF Go, Wait, Send, Others
<1>. USE <1>3
<1>4. ~Started /\ ~Started' /\ ~Starting' /\ ~CommandLineRuns' /\ ~CommandLineRuns
  BY DEF Keyed, Started, Starting, CommandLineRuns
<1>. USE <1>4
<1>5. cmd = 0 /\ done = 0 /\ idle = 0
  BY DEF InputInv
<1>6. Stream' = line
  BY ClearedStream DEF TypeOK
<1>7. Without(UbootTokens, Stream')
  BY <1>6 DEF KeyInv
<1>8. ASSUME NEW i \in DOMAIN input', NEW j \in DOMAIN input', i < j
      PROVE  input'[i] # "g"
  <2>1. /\ DOMAIN input = 1 .. Len(input) /\ DOMAIN input' = 1 .. Len(input) + 1
        /\ Len(input) \in Nat
        /\ \A k \in 1 .. Len(input) : input'[k] = input[k]
    <3>1. "g" \in Lines /\ input \in Seq(Lines)
      BY LineNames DEF TypeOK
    <3>. QED  BY <3>1, LineAppended
  <2>2. i \in 1 .. Len(input)
    BY <1>8, <2>1, SMT
  <2>. QED  BY <2>1, <2>2 DEF Keyed
<1>9. KeyInv'
  <2>1. pc' \notin {"reset", "bootrom", "quiet", "sleep"} /\ pc' # "sleep"
    OBVIOUS
  <2>. QED  BY <1>5, <1>7, <1>8, <2>1 DEF KeyInv
<1>10. InOrder'
  BY DEF InOrder, CommandLineRuns, CommandLines
<1>11. InputInv'
  BY <1>5, <1>10 DEF InputInv
<1>12. MarkerInv' /\ PromptInv' /\ EffectInv'
  BY DEF MarkerInv, PromptInv, EffectInv
<1>. QED  BY <1>2, <1>9, <1>11, <1>12

\* The boot ROM goes on, and starts U-Boot when it comes to "g".
LEMMA RomKeyed ==
  ASSUME ToolInv, RomStep \/ RomLine, Keyed, Keyed'
  PROVE  ToolInv'
<1>. USE DEF ToolInv
<1>1. /\ UNCHANGED <<script, memory, done, idle, faults, boot>>
      /\ ~Started
      /\ input' = input \/ (input # <<>> /\ input' = Tail(input))
      /\ Started' => /\ board' = "misc_init_r"
                     /\ input # <<>> /\ Head(input) = "g" /\ input' = Tail(input)
  BY RomSteps
<1>. USE <1>1
<1>2. TypeOK' /\ BoardStep
  BY TypesKept DEF Next, BoardStep
<1>3. ~CommandLineRuns /\ done' = 0 /\ idle' = 0
  BY DEF InputInv, Started
<1>4. /\ cmd' = 0
      /\ pc' \in {"uboot", "failed"}
      /\ pc' = "uboot" => ("nvram" \in acted' => "ignore_next_prompt" \in acted')
  BY DEF KeyInv, script
<1>. USE <1>4
<1>5. ASSUME pc' = "uboot"
      PROVE  Without(UbootTokens, Stream') /\ Stream' \in Seq(Tokens)
  <2>1. PICK ts \in RomTokens : line' = line \o ts
    BY RomSteps
  <2>2. ts \in Seq(Tokens) /\ \A i \in 1 .. Len(ts) : ts[i] \notin UbootTokens
    BY RomWords
  <2>3. seen \in Seq(Tokens) /\ line \in Seq(Tokens) /\ seen' = seen
    BY DEF TypeOK, script
  <2>4. Stream' \in Seq(Tokens) /\ Extended(Stream, ts, Stream') /\ Stream \in Seq(Tokens)
    BY <2>1, <2>2, <2>3, PrintedStream, StreamParts
  <2>5. Without(UbootTokens, Stream)
    BY <1>5 DEF KeyInv, script
  <2>. QED  BY <2>2, <2>4, <2>5, WithoutExtended
<1>. USE <1>5
<1>6. ASSUME NEW i \in DOMAIN input', NEW j \in DOMAIN input', i < j, input'[i] = "g"
      PROVE  input'[j] \notin CommandLines \cup {"g"}
  <2>1. PICK k \in {0, 1} : Fewer(input, k, input')
    BY <1>2, BoardTakes
  <2>2. /\ i \in Nat /\ j \in Nat
        /\ i + k \in DOMAIN input /\ input[i + k] = "g"
        /\ input'[j] = "tail" \/ (j + k \in DOMAIN input /\ input'[j] = input[j + k])
    BY <1>6, <2>1 DEF Fewer
  <2>3. i + k < j + k
    BY <1>6, <2>1, <2>2, SMT
  <2>4. "tail" \notin CommandLines \cup {"g"}
    BY CommandNames
  <2>. QED  BY <2>2, <2>3, <2>4 DEF KeyInv
<1>7. ASSUME Started'
      PROVE  Without(CommandLines \cup {"g"}, input')
  <2>1. 1 \in DOMAIN input /\ input[1] = "g" /\ Fewer(input, 1, input')
    BY <1>7, LineTaken DEF TypeOK
  <2>2. ASSUME NEW j \in DOMAIN input'
        PROVE  input'[j] \notin CommandLines \cup {"g"}
    <3>1. /\ j \in Nat
          /\ input'[j] = "tail" \/ (j + 1 \in DOMAIN input /\ input'[j] = input[j + 1])
      BY <2>1 DEF Fewer
    <3>2. j # 0
      <4>1. input' \in Seq(Lines)
        BY <1>2 DEF TypeOK
      <4>. QED  BY <4>1, SMT
    <3>3. 1 < j + 1
      BY <3>1, <3>2, SMT
    <3>4. "tail" \notin CommandLines \cup {"g"}
      BY CommandNames
    <3>. QED  BY <2>1, <3>1, <3>3, <3>4 DEF KeyInv
  <2>. QED  BY <2>2 DEF Without
<1>8. KeyInv'
  <2>1. pc' \notin {"reset", "bootrom", "quiet", "sleep"} /\ pc' # "sleep"
    OBVIOUS
  <2>2. Started' => Without({"g"}, input')
    BY <1>7 DEF Without
  <2>. QED  BY <1>6, <2>1, <2>2 DEF KeyInv
<1>9. ASSUME Started' PROVE Starting' /\ ~CommandLineRuns'
  BY <1>9, CommandNames DEF Starting, CommandLineRuns
<1>. USE <1>9
<1>10. MarkerInv'
  <2>1. pc' \notin {"stop", "ctrl-c", "command"}
    OBVIOUS
  <2>2. pc' = "uboot" => \A i \in DOMAIN Stream' : Stream'[i] \notin UbootTokens
    BY DEF Without
  <2>. QED  BY <2>1, <2>2 DEF MarkerInv
<1>11. PromptInv'
  <2>1. ASSUME Started', pc' = "uboot"
        PROVE  AtMost(0, Stream', 0) /\ AtMost(0 + 1, Stream', 0) /\ Printed' = 0
    <3>1. \A i \in DOMAIN Stream' : Stream'[i] # "prompt"
      BY <2>1 DEF Without, UbootTokens
    <3>2. 0 \in Nat /\ 0 + 1 \in Nat
      BY SMT
    <3>. QED  BY <2>1, <3>1, <3>2, NoneAtMost DEF Printed
  <2>2. ASSUME Started', pc' = "uboot", NEW i \in DOMAIN Stream'
        PROVE  Stream'[i] \notin {"autoboot", "tftprun"}
    BY <2>2 DEF Without, UbootTokens
  <2>4. pc' \notin {"stop", "ctrl-c", "command", "finished"}
    OBVIOUS
  <2>5. pc' # "command" /\ pc' # "finished"
    OBVIOUS
  <2>. QED  BY <2>1, <2>2, <2>4, <2>5 DEF PromptInv
<1>12. InputInv'
  <2>1. InOrder'
    BY CommandNames DEF InOrder, Started, CommandLineRuns, CommandLines
  <2>2. ASSUME Started', NEW i \in DOMAIN input', NEW c \in DOMAIN Commands
        PROVE  input'[i] # Commands[c]
    BY <1>7, <2>2 DEF Without, CommandLines
  <2>3. ~CommandLineRuns'
    BY DEF Started
  <2>4. \A c \in DOMAIN Commands : board' # Commands[c]
    BY <2>3 DEF CommandLineRuns, CommandLines
  <2>5. 0 <= 1 /\ 0 <= 0
    BY SMT
  <2>. QED  BY <1>3, <2>1, <2>2, <2>3, <2>4, <2>5 DEF InputInv
<1>13. EffectInv'
  BY DEF EffectInv, Started
<1>. QED  BY <1>2, <1>8, <1>10, <1>11, <1>12, <1>13

---------------------------------------------------------------------------
(***************************************************************************)
(* What the script can do while U-Boot runs or is about to.                *)
(***************************************************************************)

Board == <<board, memory, done, idle, faults, boot>>

\* It waits on, types a key, or gives up.
Stays ==
  /\ pc' \in {pc, "failed"}
  /\ pc' # "failed" => bad' = bad
  /\ input' = input \/ \E l \in {"enter", "ctrl-c"} : input' = Append(input, l)
  /\ UNCHANGED <<seen, line, room, watch, acted, cmd>>

\* It answers the dialogue.
Answers ==
  /\ pc = "uboot" /\ Has("nvram")
  /\ acted' = acted \cup {"nvram", "ignore_next_prompt"}
  /\ input' = Append(input, "C")
  /\ seen' = <<>>
  /\ UNCHANGED <<pc, line, room, watch, cmd, bad>>

\* It takes the prompt of the dialogue for what it is.
Ignores ==
  /\ pc = "uboot" /\ Has("prompt") /\ "ignore_next_prompt" \in acted
  /\ acted' = acted \ {"ignore_next_prompt"}
  /\ seen' = <<>>
  /\ UNCHANGED <<pc, line, room, watch, cmd, bad, input>>

\* It begins to stop the autoboot or the transfer.
Stops ==
  /\ pc \in {"uboot", "stop"} /\ pc' \in {"stop", "ctrl-c"}
  /\ Has("autoboot") \/ Has("tftprun")
  /\ pc = "uboot" => ~Has("prompt")
  /\ watch' = Len(seen)
  /\ UNCHANGED <<seen, line, room, cmd, bad, input>>

\* It waits for the prompt again.
Resumes ==
  /\ pc = "stop" /\ pc' = "uboot"
  /\ watch' = NoWatch
  /\ UNCHANGED <<seen, line, room, acted, cmd, bad, input>>

\* It takes a prompt for the end of a command, or of the start.
Types ==
  /\ Has("prompt") /\ pc' = "command"
  /\ \/ /\ pc \in {"uboot", "stop", "ctrl-c"} /\ cmd' = 1
        /\ pc = "uboot" => "ignore_next_prompt" \notin acted /\ (Has("nvram") => "nvram" \in acted)
     \/ pc = "command" /\ cmd < Len(Commands) /\ cmd' = cmd + 1 /\ bad' = bad \cup ErrorsIn(cmd)
  /\ input' = Append(input, Commands[cmd'])
  /\ seen' = <<>> /\ watch' = 0
  /\ UNCHANGED <<line, room>>

\* The prompt after the last command, and no errors.
Finishes ==
  /\ pc = "command" /\ pc' = "finished"
  /\ Has("prompt") /\ ~(cmd < Len(Commands))
  /\ bad = {}
  /\ UNCHANGED <<seen, line, room, watch, acted, cmd, input>>

\* No marker is found where none is.
LEMMA NoReset ==
  ASSUME ToolInv, Keyed, pc \in {"stop", "ctrl-c", "command"}
  PROVE  ~ResetSeen
<1>1. Started
  BY DEF ToolInv, KeyInv
<1>2. watch # NoWatch /\ \A j \in DOMAIN Stream : watch < j => Stream[j] # "marker"
  BY <1>1 DEF ToolInv, MarkerInv
<1>3. seen \in Seq(Tokens) /\ line \in Seq(Tokens) /\ watch \in Nat
  BY <1>2, SMT DEF ToolInv, TypeOK
<1>4. ASSUME NEW m \in DOMAIN seen, Marker(watch, m) PROVE FALSE
  <2>1. m \in watch + 1 .. Len(seen) /\ seen[m] = "marker"
    BY <1>4 DEF Marker
  <2>2. /\ Len(seen) \in Nat /\ Len(line) \in Nat
        /\ DOMAIN Stream = 1 .. Len(Stream) /\ Len(Stream) = Len(seen) + Len(line)
        /\ \A i \in 1 .. Len(seen) : Stream[i] = seen[i]
    BY <1>3, StreamParts
  <2>3. m \in 1 .. Len(seen) /\ m \in DOMAIN Stream /\ watch < m
    BY <1>3, <2>1, <2>2, SMT
  <2>. QED  BY <1>2, <2>1, <2>2, <2>3
<1>. QED  BY <1>4 DEF ResetSeen

\* The moves of the script.
LEMMA KeyedMoves ==
  ASSUME ToolInv, Keyed, ScriptStep
  PROVE  /\ UNCHANGED Board
         /\ pc \in {"uboot", "stop", "ctrl-c", "command", "finished", "failed"}
         /\ \/ Stays \/ Answers \/ Ignores \/ Stops \/ Resumes \/ Types \/ Finishes
            \/ ReadOnce
<1>1. UNCHANGED Board
  BY ScriptOnly DEF Board
<1>. USE <1>1
<1>2. pc \in {"uboot", "stop", "ctrl-c", "command", "finished", "failed"}
  BY DEF ToolInv, KeyInv, TypeOK
<1>. USE <1>2
<1>3. pc \notin {"reset", "bootrom", "quiet", "sleep"}
  OBVIOUS
<1>4. ~LookReset /\ ~LookBootrom /\ ~LookSilent /\ ~QuietOver /\ ~Go /\ ~BootromEnter /\ ~Reconnect
  BY <1>3 DEF LookReset, LookBootrom, LookSilent, QuietOver, Go, BootromEnter, Reconnect, Look
<1>5. ~Restart
  BY <1>3, NoReset DEF Restart
<1>. USE DEF Others, Look, Send, Wait, RunCommand, FirstCommand
<1>6. CASE LookUboot
  <2>. USE <1>6
  <2>1. CASE Has("nvram") /\ "nvram" \notin acted
    <3>1. Answers
      BY <2>1 DEF LookUboot, Answers
    <3>. QED  BY <3>1
  <2>2. CASE ~(Has("nvram") /\ "nvram" \notin acted) /\ Has("prompt")
    <3>1. CASE "ignore_next_prompt" \in acted
      <4>1. Ignores
        BY <2>2, <3>1 DEF LookUboot, Ignores
      <4>. QED  BY <4>1
    <3>2. CASE "ignore_next_prompt" \notin acted
      <4>1. Types
        BY <2>2, <3>2 DEF LookUboot, Types
      <4>. QED  BY <4>1
    <3>. QED  BY <3>1, <3>2
  <2>3. CASE ~(Has("nvram") /\ "nvram" \notin acted) /\ ~Has("prompt")
    <3>1. Stops \/ Stays
      BY <2>3 DEF LookUboot, Stops, Stays
    <3>. QED  BY <3>1
  <2>. QED  BY <2>1, <2>2, <2>3
<1>7. CASE LookSpam
  <2>1. Types \/ Stays
    BY <1>7 DEF LookSpam, Types, Stays
  <2>. QED  BY <2>1
<1>8. CASE LookCommand
  <2>1. CASE ~Has("prompt")
    <3>1. Stays
      BY <1>8, <2>1 DEF LookCommand, Stays
    <3>. QED  BY <3>1
  <2>2. CASE Has("prompt") /\ cmd < Len(Commands)
    <3>1. Types
      BY <1>8, <2>2 DEF LookCommand, Types
    <3>. QED  BY <3>1
  <2>3. CASE Has("prompt") /\ ~(cmd < Len(Commands))
    <3>1. Finishes \/ Stays
      BY <1>8, <2>3 DEF LookCommand, Finishes, Stays
    <3>. QED  BY <3>1
  <2>. QED  BY <2>1, <2>2, <2>3
<1>9. CASE StopEnter \/ CtrlC \/ CtrlCGivesUp \/ Deadline
  <2>1. Stays
    BY <1>9 DEF StopEnter, CtrlC, SpamKey, CtrlCGivesUp, Deadline, Stays
  <2>. QED  BY <2>1
<1>10. CASE StopEscape
  <2>1. Stops
    BY <1>10 DEF StopEscape, Stops
  <2>. QED  BY <2>1
<1>11. CASE StopGivesUp
  <2>1. Resumes
    BY <1>11 DEF StopGivesUp, Resumes
  <2>. QED  BY <2>1
<1>. QED
  BY <1>4, <1>5, <1>6, <1>7, <1>8, <1>9, <1>10, <1>11
     DEF ScriptStep, LookStep, TimeStep

\* They leave what the board does alone.
LEMMA BoardFrame ==
  ASSUME UNCHANGED Board
  PROVE  /\ Started' <=> Started
         /\ Starting' <=> Starting
         /\ CommandLineRuns' <=> CommandLineRuns
         /\ Printed' = Printed
         /\ UNCHANGED <<board, done, idle, faults, range, ram, protected, flash>>
<1>1. UNCHANGED <<board, done, idle, faults, range, ram, protected, flash>>
  BY DEF Board, memory
<1>2. /\ Starting' <=> Starting
      /\ CommandLineRuns' <=> CommandLineRuns
  BY <1>1 DEF Starting, CommandLineRuns
<1>3. Printed' = Printed
  BY <1>1, <1>2 DEF Printed
<1>. QED  BY <1>1, <1>2, <1>3 DEF Started

\* U-Boot has not printed anything yet.
Fresh == Started => board = "misc_init_r"

\* A suffix has no other tokens.
LEMMA WithoutSuffix ==
  ASSUME NEW T, NEW s \in Seq(Tokens), NEW t \in Seq(Tokens), NEW c, Suffix(s, c, t),
         Without(T, s)
  PROVE  Without(T, t)
<1>1. /\ DOMAIN s = 1 .. Len(s) /\ DOMAIN t = 1 .. Len(t)
      /\ Len(s) \in Nat /\ Len(t) \in Nat
  BY SMT
<1>2. ASSUME NEW i \in DOMAIN t
      PROVE  t[i] \notin T
  <2>1. i + c \in DOMAIN s
    BY <1>1, SMT DEF Suffix
  <2>. QED  BY <1>1, <2>1 DEF Suffix, Without
<1>. QED  BY <1>2 DEF Without

\* What is typed is no "g", and a command only when U-Boot runs.
LEMMA KeyKept ==
  ASSUME ToolInv, Keyed, TypeOK', UNCHANGED Board,
         pc' \notin {"reset", "bootrom", "quiet", "sleep"},
         \/ input' = input
         \/ \E l \in Lines \ {"g"} : input' = Append(input, l) /\ (l \in CommandLines => Started),
         Fresh => /\ cmd' = 0
                  /\ pc' \in {"uboot", "failed"}
                  /\ pc' = "uboot" => /\ pc = "uboot"
                                      /\ \E c \in Nat : Suffix(Stream, c, Stream')
                                      /\ "nvram" \in acted' => "ignore_next_prompt" \in acted'
  PROVE  KeyInv'
<1>. USE DEF ToolInv
<1>1. /\ Started' <=> Started
      /\ board' = board
  BY BoardFrame
<1>2. input \in Seq(Lines)
  BY DEF TypeOK
<1>3. /\ Started' => Without({"g"}, input')
      /\ \A i, j \in DOMAIN input' :
           i < j /\ input'[i] = "g" => input'[j] \notin CommandLines \cup {"g"}
  <2>1. CASE input' = input
    BY <1>1, <2>1 DEF KeyInv
  <2>2. CASE input' # input
    <3>1. PICK l \in Lines \ {"g"} : input' = Append(input, l) /\ (l \in CommandLines => Started)
      BY <2>2
    <3>2. /\ DOMAIN input = 1 .. Len(input) /\ DOMAIN input' = 1 .. Len(input) + 1
          /\ Len(input) \in Nat
          /\ \A k \in 1 .. Len(input) : input'[k] = input[k]
          /\ input'[Len(input) + 1] = l
      BY <1>2, <3>1, LineAppended
    <3>. USE <3>2
    <3>3. \A k \in 1 .. Len(input) + 1 : k \in 1 .. Len(input) \/ k = Len(input) + 1
      BY SMT
    <3>4. ASSUME Started PROVE Without({"g"}, input')
      <4>1. \A k \in DOMAIN input : input[k] # "g"
        BY <3>4 DEF KeyInv, Without
      <4>2. \A k \in DOMAIN input' : input'[k] # "g"
        BY <3>1, <3>3, <4>1
      <4>. QED  BY <4>2 DEF Without
    <3>5. ASSUME NEW i \in DOMAIN input', NEW j \in DOMAIN input', i < j, input'[i] = "g"
          PROVE  input'[j] \notin CommandLines \cup {"g"}
      <4>1. ~Started
        BY <3>4, <3>5 DEF Without
      <4>2. i \in 1 .. Len(input)
        BY <3>5, SMT
      <4>3. CASE j \in 1 .. Len(input)
        BY <3>5, <4>2, <4>3 DEF KeyInv
      <4>4. CASE j = Len(input) + 1
        BY <3>1, <4>1, <4>4
      <4>. QED  BY <3>3, <4>3, <4>4
    <3>. QED  BY <1>1, <3>4, <3>5
  <2>. QED  BY <2>1, <2>2
<1>4. ASSUME Started' => board' = "misc_init_r"
      PROVE  /\ cmd' = 0
             /\ pc' \in {"uboot", "failed"}
             /\ pc' = "uboot" =>
                  /\ Without(UbootTokens, Stream')
                  /\ "nvram" \in acted' => "ignore_next_prompt" \in acted'
  <2>1. Fresh
    BY <1>1, <1>4 DEF Fresh
  <2>2. ASSUME pc' = "uboot" PROVE Without(UbootTokens, Stream')
    <3>1. pc = "uboot" /\ Without(UbootTokens, Stream)
      BY <2>1, <2>2 DEF KeyInv, Fresh
    <3>2. PICK c \in Nat : Suffix(Stream, c, Stream')
      BY <2>1, <2>2
    <3>3. Stream \in Seq(Tokens) /\ Stream' \in Seq(Tokens)
      <4>1. seen \in Seq(Tokens) /\ line \in Seq(Tokens) /\ seen' \in Seq(Tokens) /\ line' \in Seq(Tokens)
        BY DEF TypeOK
      <4>. QED  BY <4>1, Joined DEF Stream
    <3>. QED  BY <3>1, <3>2, <3>3, WithoutSuffix
  <2>. QED  BY <2>1, <2>2
<1>5. pc' # "sleep"
  OBVIOUS
<1>. QED  BY <1>3, <1>4, <1>5 DEF KeyInv

\* Keys that are no commands change nothing in the order of the commands.
LEMMA InputKept ==
  ASSUME ToolInv, UNCHANGED Board, cmd' = cmd,
         pc' \notin {"command", "finished", "failed"} => cmd' = 0,
         input' = input \/ \E l \in Lines \ CommandLines : input' = Append(input, l)
  PROVE  InputInv'
<1>. USE DEF ToolInv
<1>1. /\ Started' <=> Started
      /\ Starting' <=> Starting
      /\ CommandLineRuns' <=> CommandLineRuns
      /\ UNCHANGED <<board, done, idle>>
  BY BoardFrame
<1>2. InOrder'
  BY <1>1 DEF InOrder, InputInv
<1>3. ASSUME NEW i \in DOMAIN input', NEW c \in DOMAIN Commands, input'[i] = Commands[c]
      PROVE  i \in DOMAIN input /\ input[i] = Commands[c]
  <2>1. CASE input' = input
    BY <1>3, <2>1
  <2>2. CASE input' # input
    <3>1. PICK l \in Lines \ CommandLines : input' = Append(input, l)
      BY <2>2
    <3>2. input \in Seq(Lines)
      BY DEF TypeOK
    <3>3. /\ DOMAIN input = 1 .. Len(input) /\ DOMAIN input' = 1 .. Len(input) + 1
          /\ Len(input) \in Nat
          /\ \A k \in 1 .. Len(input) : input'[k] = input[k]
          /\ input'[Len(input) + 1] = l
      BY <3>1, <3>2, LineAppended
    <3>4. \A k \in 1 .. Len(input) + 1 : k \in 1 .. Len(input) \/ k = Len(input) + 1
      BY <3>3, SMT
    <3>5. i # Len(input) + 1
      BY <1>3, <3>1, <3>3 DEF CommandLines
    <3>. QED  BY <1>3, <3>3, <3>4, <3>5
  <2>. QED  BY <2>1, <2>2
<1>4. ASSUME Started
      PROVE  /\ \A c \in DOMAIN Commands : board' = Commands[c] => c <= cmd'
             /\ idle' = 0 => done' <= cmd'
             /\ \A i \in DOMAIN input', c \in DOMAIN Commands :
                  input'[i] = Commands[c] =>
                    /\ c <= cmd'
                    /\ idle' = 0 => /\ done' < c
                                    /\ \A b \in DOMAIN Commands : board' = Commands[b] => b < c
                    /\ \A j \in DOMAIN input', d \in DOMAIN Commands :
                         i < j /\ input'[j] = Commands[d] => c < d
  BY <1>1, <1>3, <1>4, SMTT(30) DEF InputInv
<1>. QED  BY <1>1, <1>2, <1>4 DEF InputInv

\* Waiting on, typing keys and giving up.
LEMMA StaysStep ==
  ASSUME ToolInv, Keyed, TypeOK', UNCHANGED Board, Stays,
         pc \in {"uboot", "stop", "ctrl-c", "command", "finished", "failed"}
  PROVE  ToolInv'
<1>. USE DEF ToolInv
<1>1. /\ Started' <=> Started
      /\ Starting' <=> Starting
      /\ CommandLineRuns' <=> CommandLineRuns
      /\ Printed' = Printed
      /\ UNCHANGED <<board, done, idle, faults, range, ram, protected, flash>>
  BY BoardFrame
<1>2. /\ pc' = pc \/ pc' = "failed"
      /\ pc' # "failed" => bad' = bad
      /\ UNCHANGED <<seen, line, room, watch, acted, cmd>>
  BY DEF Stays
<1>. USE <1>2
<1>3. Stream' = Stream /\ (Guarded' <=> Guarded) /\ (Blind' <=> Blind)
  BY DEF Stream, Guarded, Blind
<1>. USE <1>3
<1>4. 0 \in Nat /\ Suffix(Stream, 0, Stream)
  <2>1. Stream \in Seq(Tokens)
    BY StreamParts DEF TypeOK
  <2>. QED  BY <2>1, SMT DEF Suffix
<1>5. /\ {"enter", "ctrl-c"} \subseteq Lines \ {"g"}
      /\ {"enter", "ctrl-c"} \subseteq Lines \ CommandLines
  BY CommandNames DEF Lines
<1>6. input' = input \/ \E l \in {"enter", "ctrl-c"} : input' = Append(input, l)
  BY DEF Stays
<1>7. KeyInv'
  <2>1. pc' \notin {"reset", "bootrom", "quiet", "sleep"}
    OBVIOUS
  <2>2. \/ input' = input
        \/ \E l \in Lines \ {"g"} : input' = Append(input, l) /\ (l \in CommandLines => Started)
    BY <1>5, <1>6
  <2>3. ASSUME Fresh
        PROVE  /\ cmd' = 0
               /\ pc' \in {"uboot", "failed"}
               /\ pc' = "uboot" => /\ pc = "uboot"
                                   /\ \E c \in Nat : Suffix(Stream, c, Stream')
                                   /\ "nvram" \in acted' => "ignore_next_prompt" \in acted'
    BY <1>4, <2>3 DEF KeyInv, Fresh
  <2>. QED  BY <2>1, <2>2, <2>3, KeyKept
<1>8. InputInv'
  <2>1. input' = input \/ \E l \in Lines \ CommandLines : input' = Append(input, l)
    BY <1>5, <1>6
  <2>2. pc' \notin {"command", "finished", "failed"} => cmd' = 0
    BY DEF InputInv
  <2>. QED  BY <2>1, <2>2, InputKept
<1>9. MarkerInv'
  BY <1>1 DEF MarkerInv
<1>10. PromptInv'
  BY <1>1 DEF PromptInv
<1>11. EffectInv'
  BY <1>1 DEF EffectInv
<1>. QED  BY <1>7, <1>8, <1>9, <1>10, <1>11

\* What holds of a stream holds of what is left of it.
LEMMA SuffixKeeps ==
  ASSUME NEW s \in Seq(Tokens), NEW t \in Seq(Tokens), NEW c, Suffix(s, c, t)
  PROVE  /\ c \in Nat
         /\ c = 0 => t = s
         /\ \A n : AtMost(n, s, 0) => AtMost(n, t, 0)
         /\ (\A i, j \in DOMAIN s : i < j /\ s[i] \in UbootTokens => s[j] # "marker")
              => \A i, j \in DOMAIN t : i < j /\ t[i] \in UbootTokens => t[j] # "marker"
         /\ \A w \in Int : (\A j \in DOMAIN s : w < j => s[j] # "marker")
                             => \A j \in DOMAIN t : w < j => t[j] # "marker"
         /\ \A n :
              (\A i \in DOMAIN s : s[i] \in {"autoboot", "tftprun"} => AtMost(n, s, i))
                => \A i \in DOMAIN t : t[i] \in {"autoboot", "tftprun"} => AtMost(n, t, i)
<1>1. /\ c \in Nat /\ Len(s) \in Nat /\ Len(t) \in Nat
      /\ DOMAIN s = 1 .. Len(s) /\ DOMAIN t = 1 .. Len(t)
  BY SMT DEF Suffix
<1>. USE <1>1
<1>2. ASSUME NEW i \in DOMAIN t
      PROVE  i \in Nat /\ i + c \in Nat /\ i + c \in DOMAIN s /\ t[i] = s[i + c]
  BY SMT DEF Suffix
<1>. USE <1>2
<1>3. c = 0 => t = s
  <2>. SUFFICES ASSUME c = 0 PROVE t = s
    BY SMT
  <2>1. Len(t) = Len(s) /\ \A i \in 1 .. Len(t) : t[i] = s[i]
    BY SMT DEF Suffix
  <2>. QED  BY <2>1, SeqSame
<1>4. ASSUME NEW n, AtMost(n, s, 0) PROVE AtMost(n, t, 0)
  <2>1. 0 \in Nat /\ 0 + c \in Nat /\ 0 <= 0 + c
    BY SMT
  <2>2. AtMost(n, s, 0 + c)
    BY <1>4, <2>1, AtMostBehind
  <2>. QED  BY <2>1, <2>2, AtMostSuffix
<1>5. ASSUME \A i, j \in DOMAIN s : i < j /\ s[i] \in UbootTokens => s[j] # "marker",
             NEW i \in DOMAIN t, NEW j \in DOMAIN t, i < j, t[i] \in UbootTokens
      PROVE  t[j] # "marker"
  <2>1. i + c < j + c
    BY <1>5, SMT
  <2>. QED  BY <1>5, <2>1
<1>6. ASSUME NEW w \in Int, \A j \in DOMAIN s : w < j => s[j] # "marker",
             NEW j \in DOMAIN t, w < j
      PROVE  t[j] # "marker"
  <2>1. w < j + c
    BY <1>6, SMT
  <2>. QED  BY <1>6, <2>1
<1>7. ASSUME NEW n, NEW i \in DOMAIN t, t[i] \in {"autoboot", "tftprun"},
             \A k \in DOMAIN s : s[k] \in {"autoboot", "tftprun"} => AtMost(n, s, k)
      PROVE  AtMost(n, t, i)
  BY <1>7, AtMostSuffix
<1>. QED  BY <1>3, <1>4, <1>5, <1>6, <1>7

\* The numbers of the invariant.
LEMMA Numbers ==
  ASSUME TypeOK
  PROVE  /\ Stream \in Seq(Tokens) /\ seen \in Seq(Tokens) /\ line \in Seq(Tokens)
         /\ Printed \in Nat /\ cmd \in Nat /\ done \in Nat /\ idle \in Nat
         /\ watch \in Int
<1>1. Stream \in Seq(Tokens) /\ seen \in Seq(Tokens) /\ line \in Seq(Tokens)
  BY StreamParts DEF TypeOK
<1>2. Printed \in Nat
  BY SMT DEF TypeOK, Printed
<1>4. cmd \in Nat
  <2>1. Len(Commands) = 6
    BY CommandNames
  <2>. QED  BY <2>1, SMT DEF TypeOK
<1>5. watch \in Int
  BY <1>1, SMT DEF TypeOK, NoWatch
<1>. QED  BY <1>1, <1>2, <1>4, <1>5 DEF TypeOK

\* Reading.
LEMMA ReadStep ==
  ASSUME ToolInv, Keyed, TypeOK', UNCHANGED Board, ReadOnce,
         pc \in {"uboot", "stop", "ctrl-c", "command", "finished", "failed"}
  PROVE  ToolInv'
<1>. USE DEF ToolInv
<1>1. /\ Started' <=> Started
      /\ Starting' <=> Starting
      /\ CommandLineRuns' <=> CommandLineRuns
      /\ Printed' = Printed
      /\ UNCHANGED <<board, done, idle, faults, range, ram, protected, flash>>
  BY BoardFrame
<1>2. UNCHANGED <<pc, watch, acted, cmd, bad, input>>
  BY DEF ReadOnce
<1>. USE <1>2
<1>3. PICK c \in Nat : Suffix(Stream, c, Stream') /\ (c > 0 => room' = 0)
  BY ReadStream
<1>. USE <1>3
<1>5. /\ Stream \in Seq(Tokens) /\ Stream' \in Seq(Tokens) /\ Printed \in Nat /\ watch \in Int
      /\ cmd \in Nat
  <2>1. seen' \in Seq(Tokens) /\ line' \in Seq(Tokens)
    BY DEF TypeOK
  <2>. QED  BY <2>1, Numbers, Joined DEF Stream
<1>. USE <1>5
<1>4. /\ room' > 0 => room > 0 /\ Stream' = Stream
      /\ Blind => Blind'
  <2>1. (room' > 0 => room > 0) /\ (Blind => Blind')
    BY ReadStream
  <2>2. room' > 0 => c = 0
    BY SMT
  <2>. QED  BY <2>1, <2>2, SuffixKeeps
<1>6. /\ \A n : AtMost(n, Stream, 0) => AtMost(n, Stream', 0)
      /\ (\A i \in DOMAIN Stream : Stream[i] \in {"autoboot", "tftprun"} => AtMost(Printed, Stream, i))
                => \A i \in DOMAIN Stream' : Stream'[i] \in {"autoboot", "tftprun"}
                     => AtMost(Printed, Stream', i)
  BY SuffixKeeps
<1>. USE <1>6
<1>7. KeyInv'
  <2>1. pc' \notin {"reset", "bootrom", "quiet", "sleep"}
    OBVIOUS
  <2>3. ASSUME Fresh
        PROVE  /\ cmd' = 0
               /\ pc' \in {"uboot", "failed"}
               /\ pc' = "uboot" => /\ pc = "uboot"
                                   /\ \E k \in Nat : Suffix(Stream, k, Stream')
                                   /\ "nvram" \in acted' => "ignore_next_prompt" \in acted'
    BY <2>3 DEF KeyInv, Fresh
  <2>. QED  BY <2>1, <2>3, KeyKept
<1>8. InputInv'
  <2>2. pc' \notin {"command", "finished", "failed"} => cmd' = 0
    BY DEF InputInv
  <2>. QED  BY <2>2, InputKept
<1>9. MarkerInv'
  BY <1>1, SuffixKeeps DEF MarkerInv
<1>10. PromptInv'
  <2>1. ASSUME Started, pc = "uboot"
        PROVE  /\ AtMost(Printed + 1, Stream', 0)
               /\ room' > 0 /\ ~Guarded' => AtMost(Printed, Stream', 0)
               /\ \A i \in DOMAIN Stream' :
                    Stream'[i] \in {"autoboot", "tftprun"} => AtMost(Printed, Stream', i)
    <3>1. /\ AtMost(Printed + 1, Stream, 0)
          /\ room > 0 /\ ~Guarded => AtMost(Printed, Stream, 0)
          /\ \A i \in DOMAIN Stream :
               Stream[i] \in {"autoboot", "tftprun"} => AtMost(Printed, Stream, i)
      BY <2>1 DEF PromptInv
    <3>3. room' > 0 /\ ~Guarded' => room > 0 /\ ~Guarded
      BY <1>4 DEF Guarded
    <3>. QED  BY <3>1, <3>3
  <2>2. ASSUME Started, pc \in {"stop", "ctrl-c"} PROVE AtMost(Printed, Stream', 0)
    BY <2>2 DEF PromptInv
  <2>3. ASSUME Started, pc = "command"
        PROVE  AtMost(Printed - cmd, Stream', 0) \/ (Blind' /\ cmd = 1)
    BY <1>4, <2>3 DEF PromptInv
  <2>4. ASSUME Started, pc = "finished" PROVE cmd = Len(Commands) /\ cmd + 1 <= Printed
    BY <2>4 DEF PromptInv
  <2>. QED  BY <1>1, <2>1, <2>2, <2>3, <2>4 DEF PromptInv
<1>11. EffectInv'
  BY <1>1, <1>4 DEF EffectInv
<1>. QED  BY <1>7, <1>8, <1>9, <1>10, <1>11

\* What the commands have done stays done.
LEMMA EffectKept ==
  ASSUME ToolInv, UNCHANGED Board, pc' \notin {"command", "finished"}
  PROVE  EffectInv'
<1>1. /\ CommandLineRuns' <=> CommandLineRuns
      /\ UNCHANGED <<board, done, idle, faults, range, ram, protected, flash>>
  BY BoardFrame
<1>2. pc' # "command" /\ pc' # "finished"
  OBVIOUS
<1>. QED  BY <1>1, <1>2 DEF EffectInv, ToolInv

\* When the buffer is forgotten, what held of the stream holds of the line.
LEMMA ClearedKeeps ==
  ASSUME TypeOK, TypeOK', seen' = <<>>, line' = line
  PROVE  /\ Stream \in Seq(Tokens) /\ Stream' \in Seq(Tokens)
         /\ Len(seen) \in Nat /\ Suffix(Stream, Len(seen), Stream')
         /\ \A n : AtMost(n, Stream, 0) => AtMost(n, Stream', 0)
         /\ Has("prompt") => \A n : AtMost(n, Stream, 0) => AtMost(n - 1, Stream', 0)
<1>1. /\ seen \in Seq(Tokens) /\ line \in Seq(Tokens)
  BY DEF TypeOK
<1>2. /\ Stream \in Seq(Tokens) /\ Stream' \in Seq(Tokens)
      /\ Suffix(Stream, Len(seen), Stream')
  BY <1>1, ClearedStream, StreamParts
<1>. USE <1>2
<1>3. Len(seen) \in Nat /\ \A n : AtMost(n, Stream, 0) => AtMost(n, Stream', 0)
  BY SuffixKeeps
<1>. USE <1>3
<1>4. ASSUME Has("prompt"), NEW n, AtMost(n, Stream, 0) PROVE AtMost(n - 1, Stream', 0)
  <2>1. PICK i \in DOMAIN seen : seen[i] = "prompt"
    BY <1>4 DEF Has
  <2>2. /\ DOMAIN seen = 1 .. Len(seen) /\ Len(line) \in Nat
        /\ DOMAIN Stream = 1 .. Len(Stream) /\ Len(Stream) = Len(seen) + Len(line)
        /\ Stream[i] = "prompt"
    BY <1>1, <2>1, StreamParts
  <2>3. 0 \in Nat /\ 0 < i /\ i <= Len(seen) /\ i \in DOMAIN Stream /\ 0 <= Len(seen)
        /\ 0 + Len(seen) = Len(seen)
    BY <2>2, SMT
  <2>4. AtMost(n - 1, Stream, Len(seen))
    BY <1>4, <2>2, <2>3, AtMostBehind
  <2>5. AtMost(n - 1, Stream, 0 + Len(seen))
    BY <2>3, <2>4
  <2>. QED  BY <2>3, <2>5, AtMostSuffix
<1>. QED  BY <1>4

\* Answering the dialogue.
LEMMA AnswersStep ==
  ASSUME ToolInv, Keyed, TypeOK', UNCHANGED Board, Answers
  PROVE  ToolInv'
<1>. USE DEF ToolInv
<1>1. /\ Started' <=> Started
      /\ Printed' = Printed
  BY BoardFrame
<1>2. /\ pc = "uboot" /\ pc' = "uboot"
      /\ "nvram" \in acted' /\ "ignore_next_prompt" \in acted'
      /\ input' = Append(input, "C")
      /\ seen' = <<>> /\ line' = line
      /\ UNCHANGED <<watch, cmd>>
  BY DEF Answers
<1>. USE <1>2
<1>3. /\ Stream \in Seq(Tokens) /\ Stream' \in Seq(Tokens)
      /\ Len(seen) \in Nat /\ Suffix(Stream, Len(seen), Stream')
      /\ \A n : AtMost(n, Stream, 0) => AtMost(n, Stream', 0)
  BY ClearedKeeps
<1>. USE <1>3
<1>4. "C" \in Lines \ {"g"} /\ "C" \notin CommandLines /\ "C" \in Lines \ CommandLines
  BY CommandNames DEF Lines
<1>6. pc' \notin {"reset", "bootrom", "quiet", "sleep"} /\ pc' \notin {"command", "finished"}
  OBVIOUS
<1>7. KeyInv'
  <2>1. \E l \in Lines \ {"g"} : input' = Append(input, l) /\ (l \in CommandLines => Started)
    BY <1>4
  <2>2. ASSUME Fresh
        PROVE  /\ cmd' = 0
               /\ pc' \in {"uboot", "failed"}
               /\ pc' = "uboot" => /\ pc = "uboot"
                                   /\ \E k \in Nat : Suffix(Stream, k, Stream')
                                   /\ "nvram" \in acted' => "ignore_next_prompt" \in acted'
    BY <2>2 DEF KeyInv, Fresh
  <2>. QED  BY <1>6, <2>1, <2>2, KeyKept
<1>8. InputInv'
  <2>1. \E l \in Lines \ CommandLines : input' = Append(input, l)
    BY <1>4
  <2>2. pc' \notin {"command", "finished", "failed"} => cmd' = 0
    BY DEF InputInv
  <2>. QED  BY <2>1, <2>2, InputKept
<1>9. MarkerInv'
  <2>1. pc' \notin {"stop", "ctrl-c", "command"}
    OBVIOUS
  <2>. QED  BY <1>1, <2>1, SuffixKeeps DEF MarkerInv
<1>10. PromptInv'
  <2>1. ASSUME Started
        PROVE  /\ AtMost(Printed + 1, Stream', 0)
               /\ \A i \in DOMAIN Stream' :
                    Stream'[i] \in {"autoboot", "tftprun"} => AtMost(Printed, Stream', i)
    <3>1. /\ AtMost(Printed + 1, Stream, 0)
          /\ \A i \in DOMAIN Stream :
               Stream[i] \in {"autoboot", "tftprun"} => AtMost(Printed, Stream, i)
      BY <2>1 DEF PromptInv
    <3>. QED  BY <3>1, SuffixKeeps
  <2>2. Guarded'
    BY DEF Guarded
  <2>3. pc' \notin {"stop", "ctrl-c"} /\ pc' # "command" /\ pc' # "finished"
    OBVIOUS
  <2>. QED  BY <1>1, <2>1, <2>2, <2>3 DEF PromptInv
<1>11. EffectInv'
  BY <1>6, EffectKept
<1>. QED  BY <1>7, <1>8, <1>9, <1>10, <1>11

\* The other moves come only when U-Boot has printed something.
LEMMA NotFresh ==
  ASSUME ToolInv, Keyed,
         \/ pc \in {"stop", "ctrl-c", "command"}
         \/ pc = "uboot" /\ \E t \in UbootTokens : Has(t)
  PROVE  ~Fresh /\ Started
<1>. USE DEF ToolInv
<1>1. Fresh => pc \in {"uboot", "failed"}
  BY DEF Fresh, KeyInv
<1>2. ASSUME pc = "uboot", NEW t \in UbootTokens, Has(t), Fresh PROVE FALSE
  <2>1. Without(UbootTokens, Stream)
    BY <1>2 DEF Fresh, KeyInv
  <2>2. PICK i \in DOMAIN seen : seen[i] = t
    BY <1>2 DEF Has
  <2>3. /\ Len(seen) \in Nat /\ Len(line) \in Nat /\ Len(Stream) = Len(seen) + Len(line)
        /\ DOMAIN seen = 1 .. Len(seen) /\ DOMAIN Stream = 1 .. Len(Stream)
        /\ Stream[i] = seen[i]
    BY StreamParts DEF TypeOK
  <2>4. i \in DOMAIN Stream
    BY <2>3, SMT
  <2>. QED  BY <1>2, <2>1, <2>2, <2>3, <2>4 DEF Without
<1>. QED  BY <1>1, <1>2 DEF Fresh

\* Ignoring the prompt of the dialogue.
LEMMA IgnoresStep ==
  ASSUME ToolInv, Keyed, TypeOK', UNCHANGED Board, Ignores
  PROVE  ToolInv'
<1>. USE DEF ToolInv
<1>1. /\ Started' <=> Started
      /\ Printed' = Printed
  BY BoardFrame
<1>2. /\ pc = "uboot" /\ pc' = "uboot" /\ Has("prompt")
      /\ input' = input
      /\ seen' = <<>> /\ line' = line
      /\ UNCHANGED <<watch, cmd>>
  BY DEF Ignores
<1>. USE <1>2
<1>3. /\ Stream \in Seq(Tokens) /\ Stream' \in Seq(Tokens)
      /\ Len(seen) \in Nat /\ Suffix(Stream, Len(seen), Stream')
      /\ \A n : AtMost(n, Stream, 0) => AtMost(n, Stream', 0) /\ AtMost(n - 1, Stream', 0)
  BY ClearedKeeps
<1>4. ~Fresh /\ Started
  BY NotFresh DEF UbootTokens
<1>5. Printed \in Nat
  BY Numbers
<1>6. pc' \notin {"reset", "bootrom", "quiet", "sleep"} /\ pc' \notin {"command", "finished"}
  OBVIOUS
<1>7. KeyInv'
  BY <1>4, <1>6, KeyKept
<1>8. InputInv'
  <2>2. pc' \notin {"command", "finished", "failed"} => cmd' = 0
    BY DEF InputInv
  <2>. QED  BY <2>2, InputKept
<1>9. MarkerInv'
  <2>1. pc' \notin {"stop", "ctrl-c", "command"}
    OBVIOUS
  <2>. QED  BY <1>1, <1>3, <2>1, SuffixKeeps DEF MarkerInv
<1>10. PromptInv'
  <2>1. /\ AtMost(Printed + 1, Stream', 0)
        /\ AtMost(Printed, Stream', 0)
        /\ \A i \in DOMAIN Stream' :
             Stream'[i] \in {"autoboot", "tftprun"} => AtMost(Printed, Stream', i)
    <3>1. /\ AtMost(Printed + 1, Stream, 0)
          /\ \A i \in DOMAIN Stream :
               Stream[i] \in {"autoboot", "tftprun"} => AtMost(Printed, Stream, i)
      BY <1>4 DEF PromptInv
    <3>2. (Printed + 1) - 1 = Printed
      BY <1>5, SMT
    <3>3. AtMost(Printed + 1, Stream', 0) /\ AtMost((Printed + 1) - 1, Stream', 0)
      BY <1>3, <3>1
    <3>4. AtMost(Printed, Stream', 0)
      BY <3>2, <3>3
    <3>. QED  BY <1>3, <3>1, <3>3, <3>4, SuffixKeeps
  <2>3. pc' \notin {"stop", "ctrl-c"} /\ pc' # "command" /\ pc' # "finished"
    OBVIOUS
  <2>. QED  BY <1>1, <2>1, <2>3 DEF PromptInv
<1>11. EffectInv'
  BY <1>6, EffectKept
<1>. QED  BY <1>7, <1>8, <1>9, <1>10, <1>11

\* Waiting for the prompt again.
LEMMA ResumesStep ==
  ASSUME ToolInv, Keyed, TypeOK', UNCHANGED Board, Resumes
  PROVE  ToolInv'
<1>. USE DEF ToolInv
<1>1. /\ Started' <=> Started
      /\ Printed' = Printed
  BY BoardFrame
<1>2. /\ pc = "stop" /\ pc' = "uboot"
      /\ UNCHANGED <<seen, line, room, acted, cmd, bad, input>>
  BY DEF Resumes
<1>. USE <1>2
<1>3. Stream' = Stream
  BY DEF Stream
<1>4. ~Fresh /\ Started
  BY NotFresh
<1>6. pc' \notin {"reset", "bootrom", "quiet", "sleep"} /\ pc' \notin {"command", "finished"}
  OBVIOUS
<1>7. KeyInv'
  BY <1>4, <1>6, KeyKept
<1>8. InputInv'
  <2>2. cmd' = 0
    BY DEF InputInv
  <2>. QED  BY <2>2, InputKept
<1>9. MarkerInv'
  <2>1. pc' \notin {"stop", "ctrl-c", "command"}
    OBVIOUS
  <2>. QED  BY <1>1, <1>3, <2>1 DEF MarkerInv
<1>10. PromptInv'
  <2>1. AtMost(Printed, Stream, 0) /\ Printed \in Nat /\ Stream \in Seq(Tokens)
    BY <1>4, Numbers DEF PromptInv
  <2>. USE <2>1
  <2>2. AtMost(Printed + 1, Stream, 0)
    <3>1. Printed + 1 \in Nat /\ Printed <= Printed + 1
      BY SMT
    <3>. QED  BY <3>1, AtMostMore
  <2>3. ASSUME NEW i \in DOMAIN Stream PROVE AtMost(Printed, Stream, i)
    <3>1. 0 \in Nat /\ i \in Nat /\ 0 <= i
      BY SMT
    <3>. QED  BY <3>1, AtMostBehind
  <2>4. pc' \notin {"stop", "ctrl-c"} /\ pc' # "command" /\ pc' # "finished"
    OBVIOUS
  <2>. QED  BY <1>1, <1>3, <2>2, <2>3, <2>4 DEF PromptInv
<1>11. EffectInv'
  BY <1>6, EffectKept
<1>. QED  BY <1>7, <1>8, <1>9, <1>10, <1>11

\* Beginning to stop the autoboot or the transfer.
LEMMA StopsStep ==
  ASSUME ToolInv, Keyed, TypeOK', UNCHANGED Board, Stops
  PROVE  ToolInv'
<1>. USE DEF ToolInv
<1>1. /\ Started' <=> Started
      /\ Printed' = Printed
  BY BoardFrame
<1>2. /\ pc \in {"uboot", "stop"} /\ pc' \in {"stop", "ctrl-c"}
      /\ pc = "uboot" => ~Has("prompt")
      /\ watch' = Len(seen)
      /\ UNCHANGED <<seen, line, room, cmd, bad, input>>
  BY DEF Stops
<1>. USE <1>2
<1>3. Stream' = Stream
  BY DEF Stream
<1>4. ~Fresh /\ Started
  BY NotFresh DEF Stops, UbootTokens
<1>. USE <1>4
<1>6. pc' \notin {"reset", "bootrom", "quiet", "sleep"} /\ pc' \notin {"command", "finished"}
  OBVIOUS
<1>7. KeyInv'
  BY <1>6, KeyKept
<1>8. InputInv'
  <2>2. cmd' = 0
    BY DEF InputInv
  <2>. QED  BY <2>2, InputKept
<1>9. PICK i \in DOMAIN seen : seen[i] \in {"autoboot", "tftprun"}
  BY DEF Stops, Has
<1>10. /\ Stream \in Seq(Tokens)
       /\ Len(seen) \in Nat /\ Len(line) \in Nat /\ Len(Stream) = Len(seen) + Len(line)
       /\ DOMAIN seen = 1 .. Len(seen) /\ DOMAIN Stream = 1 .. Len(Stream)
       /\ \A k \in 1 .. Len(seen) : Stream[k] = seen[k]
  BY StreamParts DEF TypeOK
<1>. USE <1>10
<1>11. i \in DOMAIN Stream /\ i \in Nat /\ 0 <= i /\ i <= Len(seen)
       /\ Stream[i] \in {"autoboot", "tftprun"} /\ 0 \in Nat
  BY <1>9, SMT
<1>. USE <1>11
<1>12. MarkerInv'
  <2>1. watch' # NoWatch
    BY SMT DEF NoWatch
  <2>2. ASSUME NEW j \in DOMAIN Stream, Len(seen) < j PROVE Stream[j] # "marker"
    <3>1. i < j
      BY <2>2, SMT
    <3>. QED  BY <3>1 DEF MarkerInv, UbootTokens
  <2>. QED  BY <1>1, <1>3, <2>1, <2>2 DEF MarkerInv
<1>13. AtMost(Printed, Stream, 0)
  <2>1. CASE pc = "stop"
    BY <2>1 DEF PromptInv
  <2>2. CASE pc = "uboot"
    <3>1. AtMost(Printed, Stream, i)
      BY <2>2 DEF PromptInv
    <3>2. ASSUME NEW j \in DOMAIN Stream, Stream[j] = "prompt" PROVE i < j
      <4>1. j \notin 1 .. Len(seen)
        BY <2>2, <3>2 DEF Has
      <4>. QED  BY <4>1, SMT
    <3>3. ASSUME NEW j \in DOMAIN Stream PROVE 0 < j
      BY SMT
    <3>4. PromptsAt(Stream, 0) = PromptsAt(Stream, i)
      BY <3>2, <3>3 DEF PromptsAt
    <3>. QED  BY <3>1, <3>4 DEF AtMost, Numbered
  <2>. QED  BY <2>1, <2>2
<1>14. PromptInv'
  <2>4. pc' # "uboot" /\ pc' # "command" /\ pc' # "finished"
    OBVIOUS
  <2>. QED  BY <1>1, <1>3, <1>13, <2>4 DEF PromptInv
<1>15. EffectInv'
  BY <1>6, EffectKept
<1>. QED  BY <1>7, <1>8, <1>12, <1>14, <1>15

\* The next command uses up a prompt, unless nothing will be read any more.
LEMMA PromptUsed ==
  ASSUME ToolInv, Keyed, TypeOK', UNCHANGED Board, Types
  PROVE  /\ Started /\ ~Fresh
         /\ cmd' = cmd + 1
         /\ cmd' \in 1 .. 6
         /\ AtMost(Printed - cmd', Stream', 0) \/ (Blind' /\ cmd' = 1)
         /\ pc = "command" => cmd + 1 <= Printed
<1>. USE DEF ToolInv
<1>1. Started /\ ~Fresh
  BY NotFresh DEF Types, UbootTokens
<1>. USE <1>1
<1>2. /\ Has("prompt") /\ seen' = <<>> /\ line' = line /\ room' = room
  BY DEF Types
<1>. USE <1>2
<1>3. \A n : AtMost(n, Stream, 0) => AtMost(n - 1, Stream', 0)
  BY ClearedKeeps
<1>4. Printed \in Nat /\ cmd \in Nat
  BY Numbers
<1>. USE <1>4
<1>5. CASE pc \in {"uboot", "stop", "ctrl-c"}
  <2>1. cmd = 0 /\ cmd' = 1 /\ pc # "command"
    BY <1>5 DEF Types, InputInv
  <2>5. cmd' = cmd + 1 /\ cmd' \in 1 .. 6
    BY <2>1, SMT
  <2>2. CASE pc = "uboot" /\ ~(room > 0)
    <3>1. room' = 0
      BY <2>2, FlashToolAssumption, SMT DEF TypeOK
    <3>2. Blind'
      BY <3>1 DEF Blind
    <3>. QED  BY <2>1, <2>5, <3>2
  <2>3. CASE pc = "uboot" /\ room > 0
    <3>1. "ignore_next_prompt" \notin acted /\ (Has("nvram") => "nvram" \in acted)
      BY <2>3 DEF Types
    <3>2. ASSUME Guarded PROVE FALSE
      <4>1. "nvram" \notin acted
        BY <3>1, <3>2 DEF Guarded
      <4>2. PICK i \in DOMAIN Stream : Stream[i] = "nvram" /\ \A j \in 1 .. i : Stream[j] # "prompt"
        BY <3>1, <3>2 DEF Guarded
      <4>3. /\ Len(seen) \in Nat /\ Len(line) \in Nat /\ Len(Stream) = Len(seen) + Len(line)
            /\ DOMAIN seen = 1 .. Len(seen) /\ DOMAIN Stream = 1 .. Len(Stream)
            /\ \A k \in 1 .. Len(seen) : Stream[k] = seen[k]
        BY StreamParts DEF TypeOK
      <4>4. PICK j \in DOMAIN seen : seen[j] = "prompt"
        BY DEF Has
      <4>5. j \notin 1 .. i
        BY <4>2, <4>3, <4>4
      <4>6. i \in DOMAIN seen
        BY <4>3, <4>5, SMT
      <4>. QED  BY <3>1, <4>1, <4>2, <4>3, <4>6 DEF Has
    <3>3. AtMost(Printed, Stream, 0)
      BY <2>3, <3>2 DEF PromptInv
    <3>. QED  BY <1>3, <2>1, <2>5, <3>3
  <2>4. CASE pc \in {"stop", "ctrl-c"}
    <3>3. AtMost(Printed, Stream, 0)
      BY <2>4 DEF PromptInv
    <3>. QED  BY <1>3, <2>1, <2>5, <3>3
  <2>. QED  BY <1>5, <2>2, <2>3, <2>4
<1>6. CASE pc = "command"
  <2>1. cmd' = cmd + 1 /\ cmd < Len(Commands) /\ Len(Commands) = 6
    BY <1>6, CommandNames DEF Types
  <2>2. DOMAIN <<>> = {}
    BY SMT
  <2>3. ~Blind
    BY <2>2 DEF Blind, Has
  <2>4. AtMost(Printed - cmd, Stream, 0)
    BY <1>6, <2>3 DEF PromptInv
  <2>5. AtMost((Printed - cmd) - 1, Stream', 0)
    BY <1>3, <2>4
  <2>6. (Printed - cmd) - 1 \in Nat
    BY <2>5 DEF AtMost
  <2>7. (Printed - cmd) - 1 = Printed - cmd' /\ cmd' \in 1 .. 6 /\ cmd + 1 <= Printed
    BY <2>1, <2>6, SMT
  <2>. QED  BY <2>1, <2>5, <2>7
<1>. QED  BY <1>5, <1>6 DEF Types

\* A command is typed after those before it.
LEMMA CommandTyped ==
  ASSUME ToolInv, TypeOK', UNCHANGED Board, Started, pc' = "command",
         cmd' = cmd + 1, cmd' \in 1 .. 6, CommandLineRuns => cmd' <= 1 + done + idle,
         Starting => cmd' <= 1, input' = Append(input, Commands[cmd'])
  PROVE  InputInv'
<1>. USE DEF ToolInv
<1>1. /\ Started' <=> Started
      /\ Starting' <=> Starting
      /\ CommandLineRuns' <=> CommandLineRuns
      /\ UNCHANGED <<board, done, idle>>
  BY BoardFrame
<1>. USE <1>1
<1>2. InOrder'
  BY DEF InOrder, InputInv
<1>3. /\ DOMAIN Commands = 1 .. 6
      /\ \A c, d \in 1 .. 6 : Commands[c] = Commands[d] => c = d
      /\ Commands[cmd'] \in Lines /\ input \in Seq(Lines)
  BY CommandNames, LineNames DEF TypeOK
<1>. USE <1>3
<1>4. /\ DOMAIN input = 1 .. Len(input) /\ DOMAIN input' = 1 .. Len(input) + 1
      /\ Len(input) \in Nat
      /\ \A k \in 1 .. Len(input) : input'[k] = input[k]
      /\ input'[Len(input) + 1] = Commands[cmd']
  BY LineAppended
<1>. USE <1>4
<1>5. \A k \in 1 .. Len(input) + 1 : k \in 1 .. Len(input) \/ k = Len(input) + 1
  BY SMT
<1>6. cmd \in Nat /\ done \in Nat
  BY Numbers
<1>7. ASSUME NEW c \in 1 .. 6, board = Commands[c] PROVE c <= cmd /\ c <= cmd' /\ c < cmd'
  <2>1. c <= cmd
    BY <1>7 DEF InputInv
  <2>. QED  BY <1>6, <2>1, SMT
<1>8. ASSUME idle = 0 PROVE done <= cmd' /\ done < cmd'
  <2>1. done <= cmd
    BY <1>8 DEF InputInv
  <2>. QED  BY <1>6, <2>1, SMT
<1>9. ASSUME NEW i \in DOMAIN input, NEW c \in 1 .. 6, input[i] = Commands[c]
      PROVE  c <= cmd' /\ c < cmd'
  <2>1. c <= cmd
    BY <1>9 DEF InputInv
  <2>. QED  BY <1>6, <2>1, SMT
<1>10. ASSUME NEW i \in DOMAIN input', NEW c \in 1 .. 6, input'[i] = Commands[c]
       PROVE  /\ c <= cmd'
              /\ idle = 0 => /\ done < c
                             /\ \A b \in 1 .. 6 : board = Commands[b] => b < c
              /\ \A j \in DOMAIN input', d \in 1 .. 6 :
                   i < j /\ input'[j] = Commands[d] => c < d
  <2>1. CASE i \in 1 .. Len(input)
    <3>1. i \in DOMAIN input /\ input[i] = Commands[c]
      BY <1>10, <2>1
    <3>2. ASSUME NEW j \in DOMAIN input', NEW d \in 1 .. 6, i < j, input'[j] = Commands[d]
          PROVE  c < d
      <4>1. CASE j \in 1 .. Len(input)
        <5>1. /\ j \in DOMAIN input /\ input[j] = Commands[d]
              /\ c \in DOMAIN Commands /\ d \in DOMAIN Commands
          BY <3>2, <4>1
        <5>. QED  BY <3>1, <3>2, <5>1 DEF InputInv
      <4>2. CASE j = Len(input) + 1
        BY <1>9, <3>1, <3>2, <4>2
      <4>. QED  BY <1>5, <4>1, <4>2
    <3>. QED  BY <1>9, <3>1, <3>2 DEF InputInv
  <2>2. CASE i = Len(input) + 1
    <3>1. c = cmd'
      BY <1>10, <2>2
    <3>2. ASSUME NEW j \in DOMAIN input' PROVE ~(i < j)
      BY <2>2, SMT
    <3>3. c <= cmd'
      BY <3>1, SMT
    <3>. QED  BY <1>7, <1>8, <3>1, <3>2, <3>3
  <2>. QED  BY <1>5, <2>1, <2>2
<1>11. ~CommandLineRuns => done = 0 /\ idle = 0
  BY DEF InputInv
<1>12. /\ \A c \in DOMAIN Commands : board' = Commands[c] => c <= cmd'
       /\ idle' = 0 => done' <= cmd'
       /\ \A i \in DOMAIN input', c \in DOMAIN Commands :
            input'[i] = Commands[c] =>
              /\ c <= cmd'
              /\ idle' = 0 => /\ done' < c
                              /\ \A b \in DOMAIN Commands : board' = Commands[b] => b < c
              /\ \A j \in DOMAIN input', d \in DOMAIN Commands :
                   i < j /\ input'[j] = Commands[d] => c < d
  <2>1. /\ \A c \in DOMAIN Commands : board' = Commands[c] => c <= cmd'
        /\ idle' = 0 => done' <= cmd'
    BY <1>7, <1>8
  <2>2. ASSUME NEW i \in DOMAIN input', NEW c \in DOMAIN Commands, input'[i] = Commands[c]
        PROVE  /\ c <= cmd'
               /\ idle' = 0 => /\ done' < c
                               /\ \A b \in DOMAIN Commands : board' = Commands[b] => b < c
               /\ \A j \in DOMAIN input', d \in DOMAIN Commands :
                    i < j /\ input'[j] = Commands[d] => c < d
    <3>1. c \in 1 .. 6
      OBVIOUS
    <3>2. /\ c <= cmd'
          /\ idle = 0 => /\ done < c
                         /\ \A b \in 1 .. 6 : board = Commands[b] => b < c
          /\ \A j \in DOMAIN input', d \in 1 .. 6 :
               i < j /\ input'[j] = Commands[d] => c < d
      BY <1>10, <2>2, <3>1
    <3>. QED  BY <3>2
  <2>. QED  BY <2>1, <2>2
<1>13. /\ ~CommandLineRuns' => done' = 0 /\ idle' = 0
       /\ Starting' => cmd' <= 1
       /\ CommandLineRuns' => cmd' <= 1 + done' + idle'
       /\ pc' \notin {"command", "finished", "failed"} => cmd' = 0
  BY <1>11
<1>. QED  BY <1>2, <1>12, <1>13 DEF InputInv

\* Typing a command.
LEMMA TypesStep ==
  ASSUME ToolInv, Keyed, TypeOK', UNCHANGED Board, Types
  PROVE  ToolInv'
<1>. USE DEF ToolInv
<1>1. /\ Started' <=> Started
      /\ CommandLineRuns' <=> CommandLineRuns
      /\ Printed' = Printed
      /\ UNCHANGED <<board, done, idle, faults, range, ram, protected, flash>>
  BY BoardFrame
<1>2. /\ Has("prompt") /\ pc' = "command" /\ input' = Append(input, Commands[cmd'])
      /\ seen' = <<>> /\ watch' = 0 /\ line' = line /\ room' = room
      /\ pc \in {"uboot", "stop", "ctrl-c", "command"}
  BY DEF Types
<1>. USE <1>2
<1>3. /\ Started /\ ~Fresh
      /\ cmd' = cmd + 1
      /\ cmd' \in 1 .. 6
      /\ AtMost(Printed - cmd', Stream', 0) \/ (Blind' /\ cmd' = 1)
      /\ pc = "command" => cmd + 1 <= Printed
  BY PromptUsed
<1>. USE <1>3
<1>4. /\ cmd \in Nat /\ done \in Nat /\ idle \in Nat
  BY Numbers
<1>. USE <1>4
<1>5. pc # "command" => cmd = 0
  BY DEF InputInv
<1>6. /\ Stream \in Seq(Tokens) /\ Stream' \in Seq(Tokens)
      /\ Len(seen) \in Nat /\ Suffix(Stream, Len(seen), Stream')
  BY ClearedKeeps
<1>. USE <1>6
<1>7. KeyInv'
  <2>1. Commands[cmd'] \in Lines \ {"g"}
    BY LineNames, CommandNames DEF CommandLines
  <2>2. pc' \notin {"reset", "bootrom", "quiet", "sleep"}
    OBVIOUS
  <2>. QED  BY <2>1, <2>2, KeyKept
<1>8. InputInv'
  <2>1. ASSUME CommandLineRuns PROVE cmd' <= 1 + done + idle
    <3>1. Printed = 1 + done + idle
      BY <2>1 DEF Printed
    <3>. QED  BY <1>5, <3>1, SMT
  <2>2. ASSUME Starting PROVE cmd' <= 1
    <3>1. ~CommandLineRuns
      BY <2>2, CommandNames DEF Starting, CommandLineRuns
    <3>2. Printed = 0
      BY <3>1 DEF Printed
    <3>. QED  BY <1>5, <3>2, SMT
  <2>. QED  BY <2>1, <2>2, CommandTyped
<1>9. MarkerInv'
  <2>1. ASSUME NEW j \in DOMAIN Stream' PROVE Stream'[j] # "marker"
    <3>1. PICK i \in DOMAIN seen : seen[i] = "prompt"
      BY DEF Has
    <3>2. /\ Len(line) \in Nat /\ Len(Stream) = Len(seen) + Len(line)
          /\ DOMAIN seen = 1 .. Len(seen) /\ DOMAIN Stream = 1 .. Len(Stream)
          /\ \A k \in 1 .. Len(seen) : Stream[k] = seen[k]
      BY StreamParts DEF TypeOK
    <3>3. j \in Nat /\ j \in 1 .. Len(Stream')
      BY SMT
    <3>4. /\ j + Len(seen) \in DOMAIN Stream /\ i \in DOMAIN Stream
          /\ i < j + Len(seen) /\ Len(seen) < j + Len(seen) /\ Stream[i] = "prompt"
          /\ Stream'[j] = Stream[j + Len(seen)]
      BY <3>1, <3>2, <3>3, SMT DEF Suffix
    <3>5. CASE pc \in {"uboot", "stop", "ctrl-c"}
      BY <3>4, <3>5 DEF MarkerInv, UbootTokens
    <3>6. CASE pc = "command"
      <4>1. watch < j + Len(seen)
        <5>1. watch \in 0 .. Len(seen) \cup {NoWatch}
          BY DEF TypeOK
        <5>. QED  BY <3>3, <5>1, SMT DEF NoWatch
      <4>. QED  BY <3>4, <3>6, <4>1 DEF MarkerInv
    <3>. QED  BY <3>5, <3>6
  <2>2. watch' # NoWatch
    BY SMT DEF NoWatch
  <2>3. pc' \notin {"uboot", "stop", "ctrl-c"}
    OBVIOUS
  <2>. QED  BY <2>1, <2>2, <2>3 DEF MarkerInv
<1>10. PromptInv'
  <2>1. pc' # "uboot" /\ pc' \notin {"stop", "ctrl-c"} /\ pc' # "finished"
    OBVIOUS
  <2>. QED  BY <1>1, <2>1 DEF PromptInv
<1>11. EffectInv'
  <2>1. ASSUME CommandLineRuns, idle = 0, range = "end"
        PROVE  /\ ~(cmd' = 4 /\ done >= 4)
               /\ cmd' > 4 => "boundary" \in bad' \/ Blind'
    <3>. USE <2>1
    <3>1. done <= cmd
      BY DEF InputInv
    <3>2. ~(cmd' = 4 /\ done >= 4)
      BY <3>1, SMT
    <3>3. ASSUME cmd' > 4 PROVE "boundary" \in bad' \/ Blind'
      <4>1. pc = "command" /\ cmd >= 4 /\ (cmd = 4 => done >= 4)
        <5>1. Printed = 1 + done + idle
          BY DEF Printed
        <5>. QED  BY <1>5, <3>3, <5>1, SMT
      <4>. USE <4>1
      <4>2. bad' = bad \cup ErrorsIn(cmd)
        BY DEF Types
      <4>3. CASE cmd > 4
        <5>1. DOMAIN <<>> = {}
          BY SMT
        <5>2. ~Blind
          BY <5>1 DEF Blind, Has
        <5>3. "boundary" \in bad
          BY <4>3, <5>2 DEF EffectInv
        <5>. QED  BY <4>2, <5>3
      <4>4. CASE cmd = 4 /\ room > 0
        <5>1. PICK i \in DOMAIN Stream :
                Stream[i] = "boundary" /\ \A j \in 1 .. i : Stream[j] # "prompt"
          BY <4>4 DEF EffectInv
        <5>2. /\ Len(line) \in Nat /\ Len(Stream) = Len(seen) + Len(line)
              /\ DOMAIN seen = 1 .. Len(seen) /\ DOMAIN Stream = 1 .. Len(Stream)
              /\ \A k \in 1 .. Len(seen) : Stream[k] = seen[k]
          BY StreamParts DEF TypeOK
        <5>3. PICK j \in DOMAIN seen : seen[j] = "prompt"
          BY DEF Has
        <5>4. j \notin 1 .. i
          BY <5>1, <5>2, <5>3
        <5>5. i \in DOMAIN seen
          BY <5>2, <5>4, SMT
        <5>6. Has("boundary")
          BY <5>1, <5>2, <5>5 DEF Has
        <5>7. "boundary" \in ErrorsIn(cmd)
          BY <4>4, <5>6 DEF ErrorsIn
        <5>. QED  BY <4>2, <5>7
      <4>5. CASE ~(room > 0)
        <5>1. room' = 0
          BY <4>5, FlashToolAssumption, SMTT(30) DEF TypeOK
        <5>. QED  BY <5>1 DEF Blind
      <4>6. cmd > 4 \/ cmd = 4
        BY SMT
      <4>. QED  BY <4>3, <4>4, <4>5, <4>6
    <3>. QED  BY <3>2, <3>3
  <2>2. pc' # "finished"
    OBVIOUS
  <2>. QED  BY <1>1, <2>1, <2>2 DEF EffectInv
<1>. QED  BY <1>7, <1>8, <1>9, <1>10, <1>11

\* The end.
LEMMA FinishesStep ==
  ASSUME ToolInv, Keyed, TypeOK', UNCHANGED Board, Finishes
  PROVE  ToolInv'
<1>. USE DEF ToolInv
<1>1. /\ Started' <=> Started
      /\ CommandLineRuns' <=> CommandLineRuns
      /\ Printed' = Printed
      /\ UNCHANGED <<board, done, idle, faults, range, ram, protected, flash>>
  BY BoardFrame
<1>2. /\ Has("prompt") /\ pc = "command" /\ pc' = "finished" /\ bad = {}
      /\ UNCHANGED <<seen, line, room, watch, acted, cmd, input>>
  BY DEF Finishes
<1>. USE <1>2
<1>3. Started /\ ~Fresh
  BY NotFresh
<1>4. cmd = 6 /\ Len(Commands) = 6
  <2>1. Len(Commands) = 6 /\ ~(cmd < Len(Commands)) /\ cmd \in 0 .. Len(Commands)
    BY CommandNames DEF Finishes, TypeOK
  <2>. QED  BY <2>1, SMT
<1>5. pc' \notin {"reset", "bootrom", "quiet", "sleep"} /\ pc' # "command"
      /\ pc' \notin {"uboot", "stop", "ctrl-c"} /\ pc' \notin {"stop", "ctrl-c", "command"}
      /\ pc' # "uboot" /\ pc' \notin {"stop", "ctrl-c"}
  OBVIOUS
<1>. USE <1>5
<1>6. ~Blind
  <2>1. DOMAIN <<>> = {}
    BY SMT
  <2>. QED  BY <2>1 DEF Blind, Has
<1>7. KeyInv'
  BY <1>3, KeyKept
<1>8. InputInv'
  BY InputKept
<1>9. MarkerInv'
  BY DEF MarkerInv
<1>10. PromptInv'
  <2>1. AtMost(Printed - cmd, Stream, 0)
    BY <1>3, <1>6 DEF PromptInv
  <2>2. PICK i \in DOMAIN seen : seen[i] = "prompt"
    BY DEF Has
  <2>3. /\ Stream \in Seq(Tokens) /\ Len(seen) \in Nat
        /\ Len(line) \in Nat /\ Len(Stream) = Len(seen) + Len(line)
        /\ DOMAIN seen = 1 .. Len(seen) /\ DOMAIN Stream = 1 .. Len(Stream)
        /\ \A k \in 1 .. Len(seen) : Stream[k] = seen[k]
    BY StreamParts DEF TypeOK
  <2>4. 0 \in Nat /\ i \in Nat /\ 0 <= i /\ 0 < i /\ i <= i /\ i \in DOMAIN Stream
        /\ Stream[i] = "prompt"
    BY <2>2, <2>3, SMT
  <2>5. (Printed - cmd) - 1 \in Nat
    <3>1. AtMost((Printed - cmd) - 1, Stream, i)
      BY <2>1, <2>3, <2>4, AtMostBehind
    <3>. QED  BY <3>1 DEF AtMost
  <2>6. Printed \in Nat
    BY Numbers
  <2>7. cmd + 1 <= Printed
    BY <1>4, <2>5, <2>6, SMT
  <2>. QED  BY <1>1, <1>4, <2>7 DEF PromptInv
<1>11. EffectInv'
  <2>1. ASSUME CommandLineRuns, idle = 0, range = "end" PROVE FALSE
    <3>1. cmd > 4
      BY <1>4, SMT
    <3>. QED  BY <1>6, <2>1, <3>1 DEF EffectInv
  <2>. QED  BY <1>1, <2>1 DEF EffectInv
<1>. QED  BY <1>7, <1>8, <1>9, <1>10, <1>11

\* All steps of the script, once U-Boot has been asked for.
LEMMA ScriptKeyed ==
  ASSUME ToolInv, Keyed, ScriptStep
  PROVE  ToolInv'
<1>1. TypeOK'
  BY TypesKept DEF ToolInv, Next, ScriptStep
<1>2. /\ UNCHANGED Board
      /\ pc \in {"uboot", "stop", "ctrl-c", "command", "finished", "failed"}
      /\ \/ Stays \/ Answers \/ Ignores \/ Stops \/ Resumes \/ Types \/ Finishes
         \/ ReadOnce
  BY KeyedMoves
<1>. QED
  BY <1>1, <1>2, StaysStep, AnswersStep, IgnoresStep, StopsStep, ResumesStep, TypesStep,
     FinishesStep, ReadStep

---------------------------------------------------------------------------
(***************************************************************************)
(* The steps of U-Boot.                                                    *)
(***************************************************************************)

\* What U-Boot prints; the dialogue comes in addition.
Messages ==
  {<<>>, <<"autoboot">>, <<"tftprun">>, <<"prompt">>, <<"size", "prompt">>,
   <<"boundary", "prompt">>, <<"noterased", "prompt">>}
Dialogue == <<"nvram", "prompt">>

Ends(ts) == \E i \in 1 .. Len(ts) : ts[i] = "prompt"

\* A prompt comes only last, and the others that matter alone.
LEMMA UbootWords ==
  ASSUME NEW ts \in Messages \cup {Dialogue}
  PROVE  /\ ts \in Seq(Tokens)
         /\ \A i \in 1 .. Len(ts) : ts[i] # "marker"
         /\ \A i \in 1 .. Len(ts) : ts[i] = "prompt" => i = Len(ts)
         /\ \A i \in 1 .. Len(ts) : ts[i] \in {"autoboot", "tftprun"} => i = Len(ts) /\ ~Ends(ts)
<1>1. /\ <<>> \in Seq(Tokens) /\ Len(<<>>) = 0 /\ 1 .. 0 = {}
      /\ \A i \in 1 .. 1 : i = 1
      /\ \A i \in 1 .. 2 : i = 1 \/ i = 2
      /\ 1 \in 1 .. 1 /\ 2 \in 1 .. 2
  BY SMT
<1>. USE <1>1
<1>2. ASSUME NEW a \in Tokens
      PROVE  <<a>> \in Seq(Tokens) /\ Len(<<a>>) = 1 /\ <<a>>[1] = a
  BY SMT
<1>3. ASSUME NEW a \in Tokens, NEW b \in Tokens
      PROVE  <<a, b>> \in Seq(Tokens) /\ Len(<<a, b>>) = 2 /\ <<a, b>>[1] = a /\ <<a, b>>[2] = b
  BY SMT
<1>4. {"autoboot", "tftprun", "prompt", "size", "boundary", "noterased", "nvram"} \subseteq Tokens
  BY SMT DEF Tokens
<1>5. CASE ts = <<>>
  BY <1>5 DEF Ends
<1>6. ASSUME NEW a \in {"autoboot", "tftprun"}, ts = <<a>>
      PROVE  /\ ts \in Seq(Tokens) /\ ~Ends(ts)
             /\ \A i \in 1 .. Len(ts) : ts[i] \in {"autoboot", "tftprun"} /\ i = Len(ts)
  <2>1. ts \in Seq(Tokens) /\ Len(ts) = 1 /\ ts[1] = a
    BY <1>2, <1>4, <1>6
  <2>2. \A i \in 1 .. Len(ts) : ts[i] = a /\ i = Len(ts)
    BY <2>1
  <2>3. a # "prompt"
    OBVIOUS
  <2>. QED  BY <2>1, <2>2, <2>3 DEF Ends
<1>7. CASE ts = <<"autoboot">> \/ ts = <<"tftprun">>
  BY <1>6, <1>7, SMT
<1>8. CASE ts = <<"prompt">>
  <2>1. ts \in Seq(Tokens) /\ Len(ts) = 1 /\ ts[1] = "prompt"
    BY <1>2, <1>4, <1>8
  <2>2. Ends(ts) /\ \A i \in 1 .. Len(ts) : ts[i] = "prompt" /\ i = Len(ts)
    BY <2>1 DEF Ends
  <2>. QED  BY <2>1, <2>2
<1>9. ASSUME NEW a \in {"size", "boundary", "noterased", "nvram"}, ts = <<a, "prompt">>
      PROVE  /\ ts \in Seq(Tokens) /\ Ends(ts)
             /\ \A i \in 1 .. Len(ts) : ts[i] # "marker" /\ ts[i] \notin {"autoboot", "tftprun"}
             /\ \A i \in 1 .. Len(ts) : ts[i] = "prompt" => i = Len(ts)
  <2>1. ts \in Seq(Tokens) /\ Len(ts) = 2 /\ ts[1] = a /\ ts[2] = "prompt"
    BY <1>3, <1>4, <1>9
  <2>2. \A i \in 1 .. Len(ts) : (i = 1 /\ ts[i] = a) \/ (i = Len(ts) /\ ts[i] = "prompt")
    BY <2>1
  <2>3. a # "prompt" /\ a # "marker" /\ a \notin {"autoboot", "tftprun"}
    OBVIOUS
  <2>5. Ends(ts)
    BY <2>1 DEF Ends
  <2>. QED  BY <2>1, <2>2, <2>3, <2>5
<1>. QED  BY <1>5, <1>7, <1>8, <1>9 DEF Messages, Dialogue

\* Which of them end with a prompt.
LEMMA WordEnds ==
  /\ ~Ends(<<>>) /\ ~Ends(<<"autoboot">>) /\ ~Ends(<<"tftprun">>)
  /\ Ends(<<"prompt">>) /\ Ends(<<"size", "prompt">>) /\ Ends(<<"boundary", "prompt">>)
  /\ Ends(<<"noterased", "prompt">>) /\ Ends(Dialogue)
<1>1. /\ Len(<<>>) = 0 /\ 1 .. 0 = {} /\ (\A i \in 1 .. 1 : i = 1)
      /\ 1 \in 1 .. 1 /\ 2 \in 1 .. 2
  BY SMT
<1>. USE <1>1
<1>2. \A a : Len(<<a>>) = 1 /\ <<a>>[1] = a
  BY SMT
<1>3. \A a, b : Len(<<a, b>>) = 2 /\ <<a, b>>[2] = b
  BY SMT
<1>4. ~Ends(<<>>)
  BY DEF Ends
<1>5. ASSUME NEW a, a # "prompt" PROVE ~Ends(<<a>>)
  BY <1>2, <1>5 DEF Ends
<1>6. Ends(<<"prompt">>)
  BY <1>2 DEF Ends
<1>7. ASSUME NEW a PROVE Ends(<<a, "prompt">>)
  BY <1>3 DEF Ends
<1>. QED  BY <1>4, <1>5, <1>6, <1>7 DEF Dialogue

\* The steps that end in the countdown, and those that begin with the command line.
Countdown == (MiscInit \/ DialogLine) /\ board' # "readline"
AtOnce == (MiscInit \/ DialogLine) /\ board' = "readline"
FirstPrompt == AtOnce \/ AbortKey \/ BootcmdEnds \/ (Interrupt /\ board = "bootcmd")

\* With every prompt it prints, the count of prompts goes up.
LEMMA UbootOutput ==
  ASSUME ToolInv, BoardStep, Started, Started', ~(MiscInit /\ ~nvram_ok)
  PROVE  \E ts \in Messages : /\ line' = line \o ts
                              /\ Printed' = IF Ends(ts) THEN Printed + 1 ELSE Printed
<1>. USE DEF ToolInv
<1>1. /\ line \in Seq(Tokens) /\ line \o <<>> = line
      /\ done \in Nat /\ idle \in Nat /\ 1 + 0 + 0 = 0 + 1
      /\ 1 + (done + 1) + idle = (1 + done + idle) + 1
      /\ 1 + done + (idle + 1) = (1 + done + idle) + 1
  BY JoinedEmpty, SMT DEF TypeOK
<1>. USE <1>1
<1>2. ~(RomStep \/ RomLine)
  BY RomSteps
<1>4. ~CommandLineRuns => done = 0 /\ idle = 0 /\ Printed = 0
  BY DEF InputInv, Printed
<1>. USE WordEnds, CommandNames DEF CommandLineRuns, Messages, Prints
<1>5. CASE Countdown \/ Bootcmd
  <2>1. ~CommandLineRuns /\ ~CommandLineRuns'
    BY <1>5 DEF Countdown, MiscInit, MainLoop, DialogLine, Bootcmd, Started, Starting
  <2>2. Printed' = Printed
    BY <1>4, <2>1 DEF Printed
  <2>3. line' = line \o <<"autoboot">> \/ line' = line \o <<"tftprun">>
    BY <1>5 DEF Countdown, MiscInit, MainLoop, DialogLine, Bootcmd, Started, Starting
  <2>. QED  BY <2>2, <2>3
<1>6. CASE FirstPrompt
  <2>1. ~CommandLineRuns
    BY <1>6 DEF FirstPrompt, AtOnce, MiscInit, DialogLine, AbortKey, BootcmdEnds
  <2>2. line' = line \o <<"prompt">> /\ board' = "readline" /\ UNCHANGED <<done, idle>>
    BY <1>6 DEF FirstPrompt, AtOnce, MiscInit, MainLoop, DialogLine, AbortKey, BootcmdEnds, Interrupt,
                Started, Starting
  <2>3. Printed' = Printed + 1
    BY <1>4, <2>1, <2>2 DEF Printed
  <2>. QED  BY <2>2, <2>3
<1>7. CASE Swallow
  <2>1. UNCHANGED <<line, board, done, idle>>
    BY <1>7 DEF Swallow
  <2>2. Printed' = Printed
    BY <2>1 DEF Printed
  <2>. QED  BY <2>1, <2>2
<1>8. CASE Interrupt /\ board = "tftpboot"
  <2>1. line' = line \o <<"prompt">> /\ board' = "readline" /\ done' = done + 1 /\ idle' = idle
    BY <1>8 DEF Interrupt
  <2>2. Printed' = Printed + 1
    BY <1>8, <2>1 DEF Printed
  <2>. QED  BY <2>1, <2>2
<1>9. CASE IdleLine
  <2>1. line' = line \o <<"prompt">> /\ board = "readline" /\ board' = board
        /\ done' = done /\ idle' = idle + 1
    BY <1>9 DEF IdleLine
  <2>2. Printed' = Printed + 1
    BY <2>1 DEF Printed
  <2>. QED  BY <2>1, <2>2
<1>10. CASE CommandLine
  <2>0. Append(line, "tftprun") = line \o <<"tftprun">>
    BY TransferLast
  <2>1. /\ line' = line \o <<"tftprun">> \/ line' = line \o <<>>
        /\ CommandLineRuns /\ CommandLineRuns' /\ UNCHANGED <<done, idle>>
    BY <1>10, <2>0 DEF CommandLine
  <2>2. Printed' = Printed
    BY <2>1 DEF Printed
  <2>. QED  BY <2>1, <2>2
<1>11. CASE Setenv \/ Tftpboot \/ ProtectOff \/ Erase \/ Copies
  <2>0. /\ Append(<<>>, "prompt") = <<"prompt">>
        /\ Append(<<"size">>, "prompt") = <<"size", "prompt">>
        /\ Append(<<"boundary">>, "prompt") = <<"boundary", "prompt">>
        /\ Append(<<"noterased">>, "prompt") = <<"noterased", "prompt">>
    BY PromptAlone, PromptLast DEF Tokens
  <2>. USE <2>0
  <2>1. /\ CommandLineRuns /\ board' = "readline" /\ done' = done + 1 /\ idle' = idle
        /\ \/ line' = line \o <<"prompt">> \/ line' = line \o <<"size", "prompt">>
           \/ line' = line \o <<"boundary", "prompt">> \/ line' = line \o <<"noterased", "prompt">>
    <3>1. CASE Setenv
      BY <3>1 DEF Setenv, Completes
    <3>2. CASE Tftpboot
      BY <3>2 DEF Tftpboot, Completes
    <3>3. CASE ProtectOff
      BY <3>3 DEF ProtectOff, Refusal, Completes
    <3>4. CASE Erase
      BY <3>4 DEF Erase, Refusal, Completes
    <3>5. CASE Copies
      BY <3>5 DEF Copies, CpBRefused, CpBOver, CpB, Completes
    <3>. QED  BY <1>11, <3>1, <3>2, <3>3, <3>4, <3>5
  <2>2. Printed' = Printed + 1
    BY <2>1 DEF Printed
  <2>. QED  BY <2>1, <2>2
<1>12. Interrupt => board = "bootcmd" \/ board = "tftpboot"
  BY DEF Interrupt
<1>. QED
  BY <1>2, <1>5, <1>6, <1>7, <1>8, <1>9, <1>10, <1>11, <1>12
  DEF BoardStep, Copies, Countdown, AtOnce, FirstPrompt

\* What the output of U-Boot does to the stream.
LEMMA ExtendedKeeps ==
  ASSUME NEW s \in Seq(Tokens), NEW ts \in Messages \cup {Dialogue}, NEW t \in Seq(Tokens),
         Extended(s, ts, t)
  PROVE  /\ DOMAIN s = 1 .. Len(s) /\ DOMAIN t = 1 .. Len(t)
         /\ Len(s) \in Nat /\ Len(t) \in Nat /\ Len(s) <= Len(t)
         /\ \A n : AtMost(n, s, 0) => AtMost(IF Ends(ts) THEN n + 1 ELSE n, t, 0)
         /\ (\A i, j \in DOMAIN s : i < j /\ s[i] \in UbootTokens => s[j] # "marker")
              => \A i, j \in DOMAIN t : i < j /\ t[i] \in UbootTokens => t[j] # "marker"
         /\ \A w \in Int : (\A j \in DOMAIN s : w < j => s[j] # "marker")
                             => \A j \in DOMAIN t : w < j => t[j] # "marker"
         /\ \A n \in Nat :
              (\A i \in DOMAIN s : s[i] \in {"autoboot", "tftprun"} => AtMost(n, s, i))
                => \A i \in DOMAIN t : t[i] \in {"autoboot", "tftprun"} =>
                     AtMost(IF Ends(ts) THEN n + 1 ELSE n, t, i)
<1>1. /\ ts \in Seq(Tokens)
      /\ \A i \in 1 .. Len(ts) : ts[i] # "marker"
      /\ \A i \in 1 .. Len(ts) : ts[i] = "prompt" => i = Len(ts)
      /\ \A i \in 1 .. Len(ts) : ts[i] \in {"autoboot", "tftprun"} => i = Len(ts) /\ ~Ends(ts)
  BY UbootWords
<1>. USE <1>1
<1>2. /\ DOMAIN s = 1 .. Len(s) /\ DOMAIN t = 1 .. Len(t)
      /\ Len(s) \in Nat /\ Len(t) \in Nat /\ Len(ts) \in Nat
      /\ Len(t) = Len(s) + Len(ts)
  BY SMT DEF Extended
<1>. USE <1>2
<1>3. ASSUME NEW k \in 0 .. Len(s), NEW n, AtMost(n, s, k)
      PROVE  AtMost(IF Ends(ts) THEN n + 1 ELSE n, t, k)
  <2>1. /\ AtMost(n + 1, t, k)
        /\ (\A i \in 1 .. Len(ts) : ts[i] # "prompt") => AtMost(n, t, k)
    BY <1>3, AtMostExtended
  <2>2. CASE Ends(ts)
    BY <2>1, <2>2
  <2>3. CASE ~Ends(ts)
    BY <2>1, <2>3 DEF Ends
  <2>. QED  BY <2>2, <2>3
<1>4. 0 \in 0 .. Len(s) /\ Len(s) <= Len(t)
  BY SMT
<1>6. ASSUME NEW i \in DOMAIN t
      PROVE  \/ i \in DOMAIN s /\ t[i] = s[i]
             \/ i \notin DOMAIN s /\ i - Len(s) \in 1 .. Len(ts) /\ t[i] = ts[i - Len(s)]
  <2>1. CASE i \in 1 .. Len(s)
    BY <2>1 DEF Extended
  <2>2. CASE i \notin 1 .. Len(s)
    <3>1. i - Len(s) \in 1 .. Len(ts) /\ Len(s) + (i - Len(s)) = i
      BY <2>2, SMT
    <3>. QED  BY <2>2, <3>1 DEF Extended
  <2>. QED  BY <2>1, <2>2
<1>. USE <1>6
<1>7. ASSUME NEW j \in DOMAIN t, t[j] = "marker"
      PROVE  j \in DOMAIN s /\ s[j] = "marker"
  BY <1>7
<1>8. ASSUME \A i, j \in DOMAIN s : i < j /\ s[i] \in UbootTokens => s[j] # "marker",
             NEW i \in DOMAIN t, NEW j \in DOMAIN t, i < j, t[i] \in UbootTokens
      PROVE  t[j] # "marker"
  <2>. SUFFICES ASSUME t[j] = "marker" PROVE FALSE
    BY SMT
  <2>1. j \in DOMAIN s /\ s[j] = "marker"
    BY <1>7
  <2>2. i \in DOMAIN s
    BY <1>8, <2>1, SMT
  <2>. QED  BY <1>8, <2>1, <2>2
<1>9. ASSUME NEW w \in Int, \A j \in DOMAIN s : w < j => s[j] # "marker",
             NEW j \in DOMAIN t, w < j
      PROVE  t[j] # "marker"
  BY <1>7, <1>9
<1>10. ASSUME NEW n \in Nat, NEW i \in DOMAIN t, t[i] \in {"autoboot", "tftprun"},
              \A k \in DOMAIN s : s[k] \in {"autoboot", "tftprun"} => AtMost(n, s, k)
       PROVE  AtMost(IF Ends(ts) THEN n + 1 ELSE n, t, i)
  <2>1. CASE i \in DOMAIN s
    <3>1. i \in 0 .. Len(s)
      BY <2>1, SMT
    <3>. QED  BY <1>3, <1>10, <2>1, <3>1
  <2>2. CASE i \notin DOMAIN s
    <3>1. i - Len(s) \in 1 .. Len(ts) /\ i - Len(s) = Len(ts) /\ ~Ends(ts)
      BY <1>10, <2>2
    <3>2. \A j \in DOMAIN t : ~(i < j)
      BY <3>1, SMT
    <3>3. AtMost(n, t, i)
      BY <3>2, NoneAtMost
    <3>. QED  BY <3>1, <3>3
  <2>. QED  BY <2>1, <2>2
<1>. QED  BY <1>3, <1>4, <1>8, <1>9, <1>10

\* U-Boot prints no marker, and its prompts are counted.
LEMMA UbootStream ==
  ASSUME ToolInv, BoardStep, Started, Started', ~(MiscInit /\ ~nvram_ok)
  PROVE  MarkerInv' /\ PromptInv'
<1>. USE DEF ToolInv
<1>1. PICK ts \in Messages : /\ line' = line \o ts
                             /\ Printed' = IF Ends(ts) THEN Printed + 1 ELSE Printed
  BY UbootOutput
<1>. USE <1>1
<1>2. ts \in Messages \cup {Dialogue} /\ ts \in Seq(Tokens)
  BY UbootWords
<1>. USE <1>2
<1>3. UNCHANGED script
  BY BoardPrints
<1>4. /\ UNCHANGED <<pc, seen, room, watch, acted, cmd>>
  BY <1>3 DEF script
<1>. USE <1>4
<1>5. /\ Stream \in Seq(Tokens) /\ Printed \in Nat /\ cmd \in Nat /\ watch \in Int
      /\ seen \in Seq(Tokens) /\ line \in Seq(Tokens)
  BY Numbers
<1>. USE <1>5
<1>6. Stream' \in Seq(Tokens) /\ Extended(Stream, ts, Stream')
  BY PrintedStream
<1>. USE <1>6
<1>7. MarkerInv'
  BY ExtendedKeeps DEF MarkerInv
<1>8. /\ \A n : AtMost(n, Stream, 0) => AtMost(IF Ends(ts) THEN n + 1 ELSE n, Stream', 0)
      /\ DOMAIN Stream = 1 .. Len(Stream) /\ DOMAIN Stream' = 1 .. Len(Stream')
      /\ Len(Stream) \in Nat /\ Len(Stream') \in Nat /\ Len(Stream) <= Len(Stream')
  BY ExtendedKeeps
<1>. USE <1>8
<1>9. Guarded => Guarded'
  <2>1. ASSUME NEW i \in DOMAIN Stream, Stream[i] = "nvram", \A j \in 1 .. i : Stream[j] # "prompt"
        PROVE  /\ i \in DOMAIN Stream' /\ Stream'[i] = "nvram"
               /\ \A j \in 1 .. i : Stream'[j] # "prompt"
    <3>1. i \in DOMAIN Stream' /\ \A j \in 1 .. i : j \in 1 .. Len(Stream)
      BY SMT
    <3>2. \A j \in 1 .. Len(Stream) : Stream'[j] = Stream[j]
      BY DEF Extended
    <3>. QED  BY <2>1, <3>1, <3>2
  <2>. QED  BY <2>1 DEF Guarded
<1>10. Blind' <=> Blind
  BY DEF Blind
<1>16. /\ Printed' + 1 = IF Ends(ts) THEN (Printed + 1) + 1 ELSE Printed + 1
       /\ Printed' - cmd = IF Ends(ts) THEN (Printed - cmd) + 1 ELSE Printed - cmd
  BY SMT
<1>17. /\ AtMost(Printed, Stream, 0) => AtMost(Printed', Stream', 0)
       /\ AtMost(Printed + 1, Stream, 0) => AtMost(Printed' + 1, Stream', 0)
       /\ AtMost(Printed - cmd, Stream, 0) => AtMost(Printed' - cmd, Stream', 0)
  BY <1>16
<1>11. ASSUME pc = "uboot"
       PROVE  /\ AtMost(Printed' + 1, Stream', 0)
              /\ room > 0 /\ ~Guarded' => AtMost(Printed', Stream', 0)
              /\ \A i \in DOMAIN Stream' :
                   Stream'[i] \in {"autoboot", "tftprun"} => AtMost(Printed', Stream', i)
  <2>1. /\ AtMost(Printed + 1, Stream, 0)
        /\ room > 0 /\ ~Guarded => AtMost(Printed, Stream, 0)
        /\ \A i \in DOMAIN Stream :
             Stream[i] \in {"autoboot", "tftprun"} => AtMost(Printed, Stream, i)
    BY <1>11 DEF PromptInv
  <2>4. \A i \in DOMAIN Stream' :
          Stream'[i] \in {"autoboot", "tftprun"} => AtMost(Printed', Stream', i)
    BY <2>1, ExtendedKeeps
  <2>. QED  BY <1>9, <1>17, <2>1, <2>4
<1>12. ASSUME pc \in {"stop", "ctrl-c"} PROVE AtMost(Printed', Stream', 0)
  BY <1>12, <1>17 DEF PromptInv
<1>13. ASSUME pc = "command"
       PROVE  AtMost(Printed' - cmd, Stream', 0) \/ (Blind' /\ cmd = 1)
  BY <1>10, <1>13, <1>17 DEF PromptInv
<1>14. ASSUME pc = "finished" PROVE cmd = Len(Commands) /\ cmd + 1 <= Printed'
  <2>1. cmd = Len(Commands) /\ cmd + 1 <= Printed
    BY <1>14 DEF PromptInv
  <2>2. cmd + 1 <= Printed'
    BY <2>1, SMT
  <2>. QED  BY <2>1, <2>2
<1>15. PromptInv'
  BY <1>11, <1>12, <1>13, <1>14 DEF PromptInv
<1>. QED  BY <1>7, <1>15

\* The last two of some numbers.
LEMMA LastTwo ==
  ASSUME NEW n \in Nat
  PROVE  /\ n + 1 \in 1 .. n + 2
         /\ \A j \in 1 .. n + 2 : j \in 1 .. n \/ j = n + 1 \/ j = n + 2
         /\ \A j \in 1 .. n + 1 : j \in 1 .. n \/ j = n + 1
BY SMT

\* The prompt of the dialogue is not taken for one of the command line.
LEMMA DialogueStream ==
  ASSUME ToolInv, MiscInit, ~nvram_ok, Started'
  PROVE  MarkerInv' /\ PromptInv'
<1>. USE DEF ToolInv
<1>1. /\ board = "misc_init_r" /\ board' = "dialog" /\ line' = line \o Dialogue
      /\ UNCHANGED script
  BY CommandNames DEF MiscInit, Prints, Dialogue, Started, Starting, CommandLineRuns
<1>. USE <1>1
<1>2. UNCHANGED <<pc, seen, room, watch, acted, cmd>>
  BY DEF script
<1>. USE <1>2
<1>3. Started /\ Keyed /\ ~CommandLineRuns'
  BY CommandNames DEF Started, Keyed, Starting, CommandLineRuns
<1>4. /\ pc' \in {"uboot", "failed"}
      /\ pc' = "uboot" =>
           /\ Without(UbootTokens, Stream)
           /\ "nvram" \in acted => "ignore_next_prompt" \in acted
  BY <1>3 DEF KeyInv
<1>5. Dialogue \in Messages \cup {Dialogue} /\ Dialogue \in Seq(Tokens) /\ Ends(Dialogue)
  BY UbootWords, WordEnds
<1>. USE <1>5
<1>6. Stream \in Seq(Tokens) /\ seen \in Seq(Tokens) /\ line \in Seq(Tokens) /\ watch \in Int
  BY Numbers
<1>. USE <1>6
<1>7. Stream' \in Seq(Tokens) /\ Extended(Stream, Dialogue, Stream')
  BY PrintedStream
<1>. USE <1>7
<1>8. MarkerInv'
  BY <1>3, ExtendedKeeps DEF MarkerInv
<1>9. Printed' = 0
  BY <1>3 DEF Printed
<1>10. ASSUME pc' = "uboot"
       PROVE  /\ AtMost(Printed' + 1, Stream', 0)
              /\ Guarded'
              /\ \A i \in DOMAIN Stream' : Stream'[i] \notin {"autoboot", "tftprun"}
  <2>1. \A j \in DOMAIN Stream : Stream[j] # "prompt" /\ Stream[j] # "autoboot" /\ Stream[j] # "tftprun"
    BY <1>4, <1>10 DEF Without, UbootTokens
  <2>2. 0 \in Nat
    BY SMT
  <2>3. AtMost(0, Stream, 0)
    BY <2>1, <2>2, NoneAtMost
  <2>4. AtMost(0 + 1, Stream', 0)
    BY <2>3, ExtendedKeeps
  <2>5. /\ DOMAIN Stream = 1 .. Len(Stream) /\ DOMAIN Stream' = 1 .. Len(Stream')
        /\ Len(Stream) \in Nat /\ Len(Stream') \in Nat
    BY ExtendedKeeps
  <2>6. /\ Len(Stream') = Len(Stream) + 2
        /\ Stream'[Len(Stream) + 1] = "nvram" /\ Stream'[Len(Stream) + 2] = "prompt"
        /\ \A j \in 1 .. Len(Stream) : Stream'[j] = Stream[j]
    <3>1. Len(Dialogue) = 2 /\ Dialogue[1] = "nvram" /\ Dialogue[2] = "prompt"
      BY SMT DEF Dialogue
    <3>2. 1 \in 1 .. 2 /\ 2 \in 1 .. 2
      BY SMT
    <3>. QED  BY <3>1, <3>2 DEF Extended
  <2>7. \A j \in 1 .. Len(Stream') : j \in 1 .. Len(Stream) \/ j = Len(Stream) + 1 \/ j = Len(Stream) + 2
    BY <2>5, <2>6, LastTwo
  <2>8. \A i \in DOMAIN Stream' : Stream'[i] \notin {"autoboot", "tftprun"}
    BY <2>1, <2>5, <2>6, <2>7
  <2>9. /\ Len(Stream) + 1 \in 1 .. Len(Stream')
        /\ \A j \in 1 .. Len(Stream) + 1 : j \in 1 .. Len(Stream) \/ j = Len(Stream) + 1
    BY <2>5, <2>6, LastTwo
  <2>10. \A j \in 1 .. Len(Stream) + 1 : Stream'[j] # "prompt"
    BY <2>1, <2>5, <2>6, <2>9
  <2>11. Guarded'
    BY <1>4, <1>10, <2>5, <2>6, <2>9, <2>10 DEF Guarded
  <2>12. AtMost(Printed' + 1, Stream', 0)
    BY <1>9, <2>4
  <2>. QED  BY <2>8, <2>11, <2>12
<1>11. pc' \notin {"stop", "ctrl-c"} /\ pc' # "command" /\ pc' # "finished"
  BY <1>4
<1>12. PromptInv'
  BY <1>10, <1>11 DEF PromptInv
<1>. QED  BY <1>8, <1>12

\* No "g" is left once U-Boot runs.
LEMMA UbootKey ==
  ASSUME ToolInv, BoardStep, Started, Started'
  PROVE  KeyInv'
<1>. USE DEF ToolInv
<1>1. UNCHANGED pc
  BY BoardPrints DEF script
<1>2. pc \notin {"reset", "bootrom", "quiet", "sleep"}
  BY DEF KeyInv, Keyed
<1>3. board' # "misc_init_r"
  BY RomSteps, UbootSteps
<1>4. PICK k \in {0, 1} : Fewer(input, k, input')
  BY BoardTakes
<1>5. Without({"g"}, input')
  <2>1. \A i \in DOMAIN input : input[i] # "g"
    BY DEF KeyInv, Without
  <2>2. \A i \in DOMAIN input' : input'[i] # "g"
    BY <1>4, <2>1 DEF Fewer
  <2>. QED  BY <2>2 DEF Without
<1>6. pc' # "sleep" /\ pc' \notin {"reset", "bootrom", "quiet", "sleep"}
  BY <1>1, <1>2
<1>7. \A i, j \in DOMAIN input' :
        i < j /\ input'[i] = "g" => input'[j] \notin CommandLines \cup {"g"}
  BY <1>5 DEF Without
<1>. QED  BY <1>3, <1>5, <1>6, <1>7 DEF KeyInv

\* A step that starts no command keeps the commands in order.
LEMMA OrderKept ==
  ASSUME ToolInv, Started, NEW k \in {0, 1}, Fewer(input, k, input'), UNCHANGED <<pc, cmd>>,
         board' \in CommandLines => UNCHANGED <<board, done, idle>>,
         idle' = 0 => /\ idle = 0
                      /\ \/ done' = done
                         \/ \E b \in DOMAIN Commands : board = Commands[b] /\ done' = b,
         ~CommandLineRuns' => done' = 0 /\ idle' = 0,
         Starting' => cmd <= 1,
         CommandLineRuns' => cmd <= 1 + done' + idle'
  PROVE  InputInv'
<1>. USE DEF ToolInv
<1>1. InOrder'
  <2>1. ASSUME NEW c \in DOMAIN Commands, board' = Commands[c], idle' = 0 PROVE done' = c - 1
    <3>1. board' \in CommandLines
      BY <2>1 DEF CommandLines
    <3>. QED  BY <2>1, <3>1 DEF InputInv, InOrder
  <2>. QED  BY <2>1 DEF InOrder
<1>2. \A c \in DOMAIN Commands : board' = Commands[c] => c <= cmd'
  <2>1. ASSUME NEW c \in DOMAIN Commands, board' = Commands[c] PROVE c <= cmd'
    <3>1. board' \in CommandLines
      BY <2>1 DEF CommandLines
    <3>. QED  BY <2>1, <3>1 DEF InputInv
  <2>. QED  BY <2>1
<1>3. idle' = 0 => done' <= cmd'
  BY DEF InputInv
<1>4. ASSUME NEW i \in DOMAIN input', NEW c \in DOMAIN Commands, input'[i] = Commands[c]
      PROVE  i \in Nat /\ i + k \in DOMAIN input /\ input[i + k] = Commands[c]
  <2>1. Commands[c] # "tail"
    BY CommandNames DEF CommandLines
  <2>. QED  BY <1>4, <2>1 DEF Fewer
<1>5. ASSUME NEW i \in DOMAIN input', NEW c \in DOMAIN Commands, input'[i] = Commands[c]
      PROVE  /\ c <= cmd'
             /\ idle' = 0 => /\ done' < c
                             /\ \A b \in DOMAIN Commands : board' = Commands[b] => b < c
             /\ \A j \in DOMAIN input', d \in DOMAIN Commands :
                  i < j /\ input'[j] = Commands[d] => c < d
  <2>1. i \in Nat /\ i + k \in DOMAIN input /\ input[i + k] = Commands[c]
    BY <1>4, <1>5
  <2>2. /\ c <= cmd
        /\ idle = 0 => /\ done < c
                       /\ \A b \in DOMAIN Commands : board = Commands[b] => b < c
        /\ \A j \in DOMAIN input, d \in DOMAIN Commands :
             i + k < j /\ input[j] = Commands[d] => c < d
    BY <2>1 DEF InputInv
  <2>. USE <2>2
  <2>3. idle' = 0 => done' < c
    OBVIOUS
  <2>4. ASSUME idle' = 0, NEW b \in DOMAIN Commands, board' = Commands[b] PROVE b < c
    <3>1. board' \in CommandLines
      BY <2>4 DEF CommandLines
    <3>. QED  BY <2>4, <3>1
  <2>5. ASSUME NEW j \in DOMAIN input', NEW d \in DOMAIN Commands, i < j, input'[j] = Commands[d]
        PROVE  c < d
    <3>1. j \in Nat /\ j + k \in DOMAIN input /\ input[j + k] = Commands[d]
      BY <1>4, <2>5
    <3>2. i + k < j + k
      BY <2>1, <2>5, <3>1, SMTT(30)
    <3>. QED  BY <3>1, <3>2
  <2>. QED  BY <2>3, <2>4, <2>5
<1>6. pc' \notin {"command", "finished", "failed"} => cmd' = 0
  BY DEF InputInv
<1>7. cmd' = cmd
  BY SMT
<1>. QED  BY <1>1, <1>2, <1>3, <1>5, <1>6, <1>7 DEF InputInv

\* The board takes a command only after those before it.
LEMMA CommandTaken ==
  ASSUME ToolInv, CommandLine
  PROVE  InputInv'
<1>. USE DEF ToolInv
<1>1. /\ board = "readline" /\ input # <<>> /\ Head(input) \in CommandLines
      /\ input' = Tail(input) /\ board' = Head(input) /\ UNCHANGED <<script, done, idle>>
  BY DEF CommandLine, Takes
<1>. USE <1>1
<1>2. UNCHANGED <<pc, cmd>>
  BY DEF script
<1>3. /\ Started /\ CommandLineRuns /\ CommandLineRuns' /\ ~Starting'
  BY CommandNames DEF Started, CommandLineRuns, Starting
<1>. USE <1>3
<1>4. 1 \in DOMAIN input /\ input[1] = board' /\ Fewer(input, 1, input')
  BY LineTaken DEF TypeOK
<1>5. PICK c \in DOMAIN Commands : board' = Commands[c]
  BY DEF CommandLines
<1>6. \A d \in DOMAIN Commands : board' = Commands[d] => d = c
  BY <1>5, CommandNames
<1>7. /\ c <= cmd
      /\ idle = 0 => done < c
      /\ \A j \in DOMAIN input, d \in DOMAIN Commands :
           1 < j /\ input[j] = Commands[d] => c < d
  BY <1>4, <1>5 DEF InputInv
<1>. USE <1>7
<1>8. InOrder'
  <2>1. ASSUME idle = 0 PROVE done = c - 1
    <3>1. done < c /\ cmd <= 1 + done + idle
      BY <2>1 DEF InputInv
    <3>2. c \in Int /\ cmd \in Nat /\ done \in Nat
      <4>1. c \in 1 .. 6
        BY CommandNames
      <4>2. cmd \in Nat /\ done \in Nat
        BY Numbers
      <4>. QED  BY <4>1, <4>2, SMT
    <3>. QED  BY <2>1, <3>1, <3>2, SMT
  <2>. QED  BY <1>6, <2>1 DEF InOrder
<1>9. ASSUME NEW i \in DOMAIN input', NEW d \in DOMAIN Commands, input'[i] = Commands[d]
      PROVE  i \in Nat /\ 1 < i + 1 /\ i + 1 \in DOMAIN input /\ input[i + 1] = Commands[d]
  <2>1. Commands[d] # "tail"
    BY CommandNames DEF CommandLines
  <2>2. i \in Nat /\ i + 1 \in DOMAIN input /\ input[i + 1] = Commands[d]
    BY <1>4, <1>9, <2>1 DEF Fewer
  <2>3. i # 0
    <3>1. input' \in Seq(Lines)
      BY InputTypes DEF TypeOK
    <3>. QED  BY <3>1, SMT
  <2>4. 1 < i + 1
    BY <2>2, <2>3, SMT
  <2>. QED  BY <2>2, <2>4
<1>10. ASSUME NEW i \in DOMAIN input', NEW d \in DOMAIN Commands, input'[i] = Commands[d]
       PROVE  /\ d <= cmd'
              /\ idle' = 0 => /\ done' < d
                              /\ \A b \in DOMAIN Commands : board' = Commands[b] => b < d
              /\ \A j \in DOMAIN input', e \in DOMAIN Commands :
                   i < j /\ input'[j] = Commands[e] => d < e
  <2>1. i \in Nat /\ 1 < i + 1 /\ i + 1 \in DOMAIN input /\ input[i + 1] = Commands[d]
    BY <1>9, <1>10
  <2>2. /\ d <= cmd
        /\ idle = 0 => done < d
        /\ \A j \in DOMAIN input, e \in DOMAIN Commands :
             i + 1 < j /\ input[j] = Commands[e] => d < e
    BY <2>1 DEF InputInv
  <2>3. c < d
    BY <2>1
  <2>4. ASSUME NEW j \in DOMAIN input', NEW e \in DOMAIN Commands, i < j, input'[j] = Commands[e]
        PROVE  d < e
    <3>1. j \in Nat /\ j + 1 \in DOMAIN input /\ input[j + 1] = Commands[e]
      BY <1>9, <2>4
    <3>2. i + 1 < j + 1
      BY <2>1, <2>4, <3>1, SMT
    <3>. QED  BY <2>2, <3>1, <3>2
  <2>. QED  BY <1>2, <1>6, <2>2, <2>3, <2>4
<1>11. /\ pc' \notin {"command", "finished", "failed"} => cmd' = 0
       /\ cmd' <= 1 + done' + idle'
       /\ idle' = 0 => done' <= cmd'
       /\ \A d \in DOMAIN Commands : board' = Commands[d] => d <= cmd'
  BY <1>2, <1>6 DEF InputInv
<1>. QED  BY <1>8, <1>10, <1>11 DEF InputInv

\* All steps of U-Boot keep the commands in order.
LEMMA UbootInput ==
  ASSUME ToolInv, BoardStep, Started, Started'
  PROVE  InputInv'
<1>. USE DEF ToolInv
<1>1. UNCHANGED <<pc, cmd>>
  BY BoardPrints DEF script
<1>. USE <1>1
<1>2. PICK k \in {0, 1} : Fewer(input, k, input')
  BY BoardTakes
<1>. USE <1>2
<1>3. ~(RomStep \/ RomLine)
  BY RomSteps
<1>4. /\ ~CommandLineRuns => done = 0 /\ idle = 0
      /\ Starting => cmd <= 1
      /\ CommandLineRuns => cmd <= 1 + done + idle
  BY DEF InputInv
<1>. USE <1>4
<1>5. cmd \in Nat /\ done \in Nat /\ idle \in Nat /\ 1 + 0 + 0 = 1
  BY Numbers, SMT
<1>. USE DEF Starting, CommandLineRuns
<1>6. CASE Countdown \/ Bootcmd
  <2>1. Starting /\ ~CommandLineRuns /\ Starting' /\ ~CommandLineRuns' /\ UNCHANGED <<done, idle>>
    BY <1>6, CommandNames DEF Countdown, MiscInit, MainLoop, DialogLine, Bootcmd, Prints, Started
  <2>. QED  BY <2>1, OrderKept
<1>7. CASE FirstPrompt
  <2>1. Starting /\ ~CommandLineRuns
    BY <1>7, CommandNames DEF FirstPrompt, AtOnce, MiscInit, DialogLine, AbortKey, BootcmdEnds
  <2>2. board' = "readline" /\ UNCHANGED <<done, idle>>
    BY <1>7, CommandNames DEF FirstPrompt, AtOnce, MiscInit, DialogLine, AbortKey, BootcmdEnds,
                              Interrupt, Prints, Started
  <2>3. ~Starting' /\ CommandLineRuns' /\ board' \notin CommandLines
    BY <2>2, CommandNames
  <2>4. cmd <= 1 + done' + idle'
    BY <1>5, <2>1, <2>2, SMT
  <2>. QED  BY <2>2, <2>3, <2>4, OrderKept
<1>8. CASE Swallow
  <2>1. UNCHANGED <<board, done, idle>>
    BY <1>8 DEF Swallow
  <2>2. (Starting' <=> Starting) /\ (CommandLineRuns' <=> CommandLineRuns)
    BY <2>1
  <2>. QED  BY <2>1, <2>2, OrderKept
<1>9. CASE IdleLine
  <2>1. board = "readline" /\ board' = "readline" /\ done' = done /\ idle' = idle + 1
    BY <1>9 DEF IdleLine, Prints
  <2>2. ~Starting' /\ CommandLineRuns' /\ board' \notin CommandLines /\ CommandLineRuns
    BY <2>1, CommandNames
  <2>3. cmd <= 1 + done' + idle' /\ idle' # 0
    BY <1>5, <2>1, <2>2, SMT
  <2>. QED  BY <2>2, <2>3, OrderKept
<1>10. CASE (Interrupt /\ board = "tftpboot") \/ Setenv \/ Tftpboot \/ ProtectOff \/ Erase \/ Copies
  <2>1. board \in CommandLines /\ board' = "readline" /\ done' = done + 1 /\ idle' = idle
    <3>1. CASE Interrupt /\ board = "tftpboot"
      BY <3>1, CommandNames DEF Interrupt, Prints
    <3>2. CASE Setenv \/ Tftpboot \/ ProtectOff \/ Erase \/ Copies
      BY <3>2, CommandNames DEF Setenv, Tftpboot, ProtectOff, Erase, Copies, CpBRefused, CpBOver, CpB,
                                Completes, Prints
    <3>. QED  BY <1>10, <3>1, <3>2
  <2>. USE <2>1
  <2>2. ~Starting' /\ CommandLineRuns' /\ board' \notin CommandLines /\ CommandLineRuns
    BY CommandNames
  <2>3. cmd <= 1 + done' + idle'
    BY <1>5, <2>2, SMT
  <2>4. PICK b \in DOMAIN Commands : board = Commands[b]
    BY DEF CommandLines
  <2>5. ASSUME idle = 0 PROVE done' = b
    <3>1. done = b - 1
      BY <2>4, <2>5 DEF InputInv, InOrder
    <3>2. b \in 1 .. 6
      BY CommandNames
    <3>. QED  BY <3>1, <3>2, SMT
  <2>. QED  BY <2>2, <2>3, <2>4, <2>5, OrderKept
<1>11. CASE CommandLine
  BY <1>11, CommandTaken
<1>12. Interrupt => board = "bootcmd" \/ board = "tftpboot"
  BY DEF Interrupt
<1>. QED
  BY <1>3, <1>6, <1>7, <1>8, <1>9, <1>10, <1>11, <1>12
  DEF BoardStep, Copies, Countdown, AtOnce, FirstPrompt

\* How far the board is when it runs a command.
LEMMA DoneAt ==
  ASSUME ToolInv, idle = 0
  PROVE  /\ board = "setenv serverip" => done = 0
         /\ board = "setenv ipaddr" => done = 1
         /\ board = "tftpboot" => done = 2
         /\ board = "protect off" => done = 3
         /\ board = "erase" => done = 4
         /\ board = "cp.b" => done = 5
<1>1. \A c \in 1 .. 6 : board = Commands[c] => done = c - 1
  BY CommandNames DEF ToolInv, InputInv, InOrder
<1>2. /\ 1 \in 1 .. 6 /\ 2 \in 1 .. 6 /\ 3 \in 1 .. 6 /\ 4 \in 1 .. 6 /\ 5 \in 1 .. 6 /\ 6 \in 1 .. 6
      /\ 1 - 1 = 0 /\ 2 - 1 = 1 /\ 3 - 1 = 2 /\ 4 - 1 = 3 /\ 5 - 1 = 4 /\ 6 - 1 = 5
  BY SMT
<1>3. /\ Commands[1] = "setenv serverip" /\ Commands[2] = "setenv ipaddr"
      /\ Commands[3] = "tftpboot" /\ Commands[4] = "protect off"
      /\ Commands[5] = "erase" /\ Commands[6] = "cp.b"
  BY CommandNames
<1>. QED  BY <1>1, <1>2, <1>3

\* A boundary error comes before the first prompt.
BoundaryFirst ==
  \E i \in DOMAIN Stream : Stream[i] = "boundary" /\ \A j \in 1 .. i : Stream[j] # "prompt"

\* It stays there when U-Boot prints.
LEMMA BoundaryKept ==
  ASSUME Stream \in Seq(Tokens), Stream' \in Seq(Tokens),
         NEW ts \in Messages, Extended(Stream, ts, Stream'), BoundaryFirst
  PROVE  BoundaryFirst'
<1>1. PICK i \in DOMAIN Stream : Stream[i] = "boundary" /\ \A j \in 1 .. i : Stream[j] # "prompt"
  BY DEF BoundaryFirst
<1>2. /\ DOMAIN Stream = 1 .. Len(Stream) /\ DOMAIN Stream' = 1 .. Len(Stream')
      /\ Len(Stream) \in Nat /\ Len(Stream') \in Nat /\ Len(Stream) <= Len(Stream')
  BY ExtendedKeeps
<1>3. i \in DOMAIN Stream' /\ \A j \in 1 .. i : j \in 1 .. Len(Stream)
  BY <1>2, SMT
<1>4. \A j \in 1 .. Len(Stream) : Stream'[j] = Stream[j]
  BY DEF Extended
<1>. QED  BY <1>1, <1>2, <1>3, <1>4 DEF BoundaryFirst

\* While the script is before the fourth command nothing depends on the sectors.
LEMMA EarlyEffect ==
  ASSUME ToolInv, TypeOK', UNCHANGED script, Started, done' <= 3, cmd <= 4,
         faults' = {} /\ done' = 3 => ram' = "image"
  PROVE  EffectInv'
<1>1. UNCHANGED <<pc, cmd>>
  BY DEF script
<1>2. done' \in Nat /\ cmd \in Nat
  BY Numbers DEF TypeOK, ToolInv
<1>3. ~(done' >= 4) /\ ~(done' = 5) /\ ~(done' >= 6) /\ ~(cmd > 4)
  BY <1>2, SMT
<1>4. pc # "finished"
  <2>1. pc = "finished" => cmd = 6
    BY CommandNames DEF ToolInv, PromptInv
  <2>2. cmd # 6
    BY <1>2, SMT
  <2>. QED  BY <2>1, <2>2
<1>5. faults' = {} /\ done' >= 3 => ram' = "image"
  BY <1>2, SMT
<1>. QED  BY <1>1, <1>3, <1>4, <1>5 DEF EffectInv

\* Later the errors stay found.
LEMMA LateEffect ==
  ASSUME ToolInv, BoardStep, CommandLineRuns, Started', idle = 0, UNCHANGED range,
         done >= 4 \/ done' = done, faults' = {} => faults = {},
         done >= 3 => ram' = ram,
         faults' = {} /\ done' >= 3 => ram' = "image",
         faults' = {} /\ range = "whole" =>
           /\ done' >= 4 => ~protected'
           /\ done' = 5 => flash' = "blank"
           /\ done' >= 6 => flash' = "image"
  PROVE  EffectInv'
<1>. USE DEF ToolInv
<1>1. UNCHANGED <<pc, seen, room, cmd, bad>>
  BY BoardPrints DEF script
<1>2. ASSUME range = "end"
      PROVE  /\ pc = "command" /\ room > 0 /\ cmd = 4 /\ done' >= 4 => BoundaryFirst'
             /\ pc = "command" /\ cmd > 4 => "boundary" \in bad \/ Blind'
             /\ pc # "finished"
  <2>1. /\ pc = "command" /\ room > 0 /\ cmd = 4 /\ done >= 4 => BoundaryFirst
        /\ pc = "command" /\ cmd > 4 => "boundary" \in bad \/ Blind
        /\ pc # "finished"
    BY <1>2 DEF EffectInv, BoundaryFirst
  <2>2. Blind' <=> Blind
    BY <1>1 DEF Blind
  <2>3. done' >= 4 => done >= 4
    BY SMT
  <2>4. BoundaryFirst => BoundaryFirst'
    <3>1. Started /\ ~MiscInit
      BY CommandNames DEF Started, CommandLineRuns, MiscInit
    <3>2. PICK ts \in Messages : line' = line \o ts
      BY <3>1, UbootOutput
    <3>3. Stream \in Seq(Tokens) /\ seen \in Seq(Tokens) /\ line \in Seq(Tokens) /\ ts \in Seq(Tokens)
      BY Numbers, UbootWords
    <3>4. Stream' \in Seq(Tokens) /\ Extended(Stream, ts, Stream')
      BY <1>1, <3>2, <3>3, PrintedStream
    <3>. QED  BY <3>3, <3>4, BoundaryKept
  <2>. QED  BY <2>1, <2>2, <2>3, <2>4
<1>. QED  BY <1>1, <1>2 DEF EffectInv, BoundaryFirst

\* protect off tells of the boundary before its prompt.
LEMMA BoundaryPrinted ==
  ASSUME ToolInv, ProtectOff, range = "end", idle = 0, pc = "command", room > 0, cmd = 4
  PROVE  BoundaryFirst'
<1>. USE DEF ToolInv
<1>1. /\ board = "protect off" /\ UNCHANGED script
      /\ line' = line \o Append(<<"boundary">>, "prompt")
  BY DEF ProtectOff, Refusal, Completes, Prints
<1>2. UNCHANGED seen
  BY <1>1 DEF script
<1>. DEFINE ts == <<"boundary", "prompt">>
<1>3. ts \in Seq(Tokens) /\ line' = line \o ts
  <2>1. "boundary" \in Tokens /\ ts \in Messages \cup {Dialogue}
    BY DEF Tokens, Messages
  <2>. QED  BY <1>1, <2>1, PromptLast, UbootWords
<1>4. Len(ts) = 2 /\ ts[1] = "boundary"
  BY SMT
<1>. HIDE DEF ts
<1>5. /\ Stream \in Seq(Tokens) /\ seen \in Seq(Tokens) /\ line \in Seq(Tokens)
      /\ done \in Nat
  BY Numbers
<1>6. Stream' \in Seq(Tokens) /\ Extended(Stream, ts, Stream')
  BY <1>2, <1>3, <1>5, PrintedStream
<1>7. CommandLineRuns /\ Started /\ done = 3
  BY <1>1, DoneAt, CommandNames DEF CommandLineRuns, Started
<1>8. Printed = 4
  <2>1. Printed = 1 + done + idle
    BY <1>7 DEF Printed
  <2>. QED  BY <1>7, <2>1, SMT
<1>9. AtMost(0, Stream, 0)
  <2>1. AtMost(Printed - cmd, Stream, 0) \/ cmd = 1
    BY <1>7 DEF PromptInv
  <2>2. Printed - cmd = 0 /\ cmd # 1
    BY <1>8, SMT
  <2>. QED  BY <2>1, <2>2
<1>10. \A j \in DOMAIN Stream : Stream[j] # "prompt"
  BY <1>5, <1>9, AtMostNone
<1>11. DOMAIN Stream = 1 .. Len(Stream) /\ Len(Stream) \in Nat
       /\ DOMAIN Stream' = 1 .. Len(Stream')
  BY <1>5, <1>6, SeqIs
<1>12. /\ Len(Stream') = Len(Stream) + 2
       /\ \A j \in 1 .. Len(Stream) : Stream'[j] = Stream[j]
       /\ Stream'[Len(Stream) + 1] = "boundary"
  <2>1. 1 \in 1 .. 2
    BY SMT
  <2>. QED  BY <1>4, <1>6, <2>1 DEF Extended
<1>13. /\ Len(Stream) + 1 \in 1 .. Len(Stream')
       /\ \A j \in 1 .. Len(Stream) + 1 : j \in 1 .. Len(Stream) \/ j = Len(Stream) + 1
  BY <1>11, <1>12, SMT
<1>14. \A j \in 1 .. Len(Stream) + 1 : Stream'[j] # "prompt"
  BY <1>10, <1>11, <1>12, <1>13
<1>. QED  BY <1>11, <1>12, <1>13, <1>14 DEF BoundaryFirst

\* What protect off has done.
LEMMA ProtectEffect ==
  ASSUME ToolInv, ProtectOff, idle = 0
  PROVE  EffectInv'
<1>. USE DEF ToolInv
<1>1. /\ board = "protect off" /\ protected' = (protected /\ ~Accepted) /\ done' = done + 1
      /\ UNCHANGED <<script, range, ram, faults>>
  BY DEF ProtectOff, Completes
<1>2. UNCHANGED <<pc, cmd, room, bad>>
  BY <1>1 DEF script
<1>3. CommandLineRuns /\ Started /\ done = 3
  BY <1>1, DoneAt, CommandNames DEF CommandLineRuns, Started
<1>4. cmd <= 4 /\ cmd \in Nat
  <2>1. cmd <= 1 + done + idle /\ cmd \in Nat
    BY <1>3, Numbers DEF InputInv
  <2>. QED  BY <1>3, <2>1, SMT
<1>5. done >= 3 /\ ~(cmd > 4) /\ cmd # 6 /\ done' # 5 /\ ~(done' >= 6)
  <2>1. done' = done + 1 /\ done = 3
    BY <1>1, <1>3
  <2>. QED  BY <1>4, <2>1, SMT
<1>6. faults = {} => ram = "image"
  BY <1>3, <1>5 DEF EffectInv
<1>7. range = "whole" => ~protected'
  BY <1>1 DEF Accepted
<1>8. pc # "finished"
  BY <1>3, <1>5, CommandNames DEF PromptInv
<1>9. range = "end" /\ pc = "command" /\ room > 0 /\ cmd = 4 => BoundaryFirst'
  BY BoundaryPrinted
<1>. QED
  BY <1>1, <1>2, <1>5, <1>6, <1>7, <1>8, <1>9 DEF EffectInv, BoundaryFirst

\* What the commands do, in order.
LEMMA UbootEffect ==
  ASSUME ToolInv, TypeOK', BoardStep, Started, Started'
  PROVE  EffectInv'
<1>. USE DEF ToolInv
<1>1. UNCHANGED script
  BY BoardPrints
<1>2. ~(RomStep \/ RomLine)
  BY RomSteps
<1>3. /\ ~CommandLineRuns => done = 0 /\ idle = 0
      /\ Starting => cmd <= 1
      /\ CommandLineRuns => cmd <= 1 + done + idle
  BY DEF InputInv
<1>4. cmd \in Nat /\ done \in Nat /\ idle \in Nat
  BY Numbers
<1>5. CASE Countdown \/ Bootcmd
  <2>1. ~CommandLineRuns'
    BY <1>5, CommandNames DEF Countdown, MiscInit, MainLoop, DialogLine, Bootcmd, Prints, CommandLineRuns
  <2>. QED  BY <2>1 DEF EffectInv
<1>6. CASE FirstPrompt
  <2>1. Starting /\ ~CommandLineRuns
    BY <1>6, CommandNames DEF FirstPrompt, AtOnce, MiscInit, DialogLine, AbortKey, BootcmdEnds, Starting,
                              CommandLineRuns
  <2>2. done' = done
    BY <1>6 DEF FirstPrompt, AtOnce, MiscInit, DialogLine, AbortKey, BootcmdEnds, Interrupt
  <2>3. done' <= 3 /\ done' # 3 /\ cmd <= 4
    BY <1>3, <1>4, <2>1, <2>2, SMT
  <2>. QED  BY <1>1, <2>3, EarlyEffect
<1>7. CASE IdleLine
  <2>1. idle' = idle + 1
    BY <1>7 DEF IdleLine
  <2>2. idle' # 0
    BY <1>4, <2>1, SMT
  <2>. QED  BY <2>2 DEF EffectInv
<1>8. CASE Swallow \/ CommandLine
  <2>1. UNCHANGED <<done, idle, faults, ram, protected, flash, range>>
    BY <1>8 DEF Swallow, CommandLine, memory
  <2>2. CommandLineRuns' => CommandLineRuns
    BY <1>8 DEF Swallow, CommandLine, CommandLineRuns
  <2>3. ASSUME CommandLineRuns', idle' = 0 PROVE EffectInv'
    <3>1. CommandLineRuns /\ idle = 0
      BY <2>1, <2>2, <2>3
    <3>2. faults' = {} =>
            /\ done' >= 3 => ram' = "image"
            /\ range = "whole" =>
                 /\ done' >= 4 => ~protected'
                 /\ done' = 5 => flash' = "blank"
                 /\ done' >= 6 => flash' = "image"
      BY <2>1, <3>1 DEF EffectInv
    <3>. QED  BY <2>1, <3>1, <3>2, LateEffect
  <2>. QED  BY <2>3 DEF EffectInv
<1>9. CASE idle = 0 /\ ((Interrupt /\ board = "tftpboot") \/ Setenv \/ Tftpboot)
  <2>. USE <1>9
  <2>1. /\ board \in {"setenv serverip", "setenv ipaddr", "tftpboot"}
        /\ done' = done + 1
    BY DEF Setenv, Tftpboot, Interrupt, Completes
  <2>2. CommandLineRuns /\ done \in {0, 1, 2} /\ (done = 2 => board = "tftpboot")
    <3>1. 0 # 2 /\ 1 # 2
      BY SMT
    <3>. QED  BY <2>1, <3>1, DoneAt, CommandNames DEF CommandLineRuns
  <2>3. done' <= 3 /\ cmd <= 4 /\ (done' = 3 => done = 2)
    <3>1. cmd <= 1 + done + idle /\ idle = 0
      BY <1>3, <2>2
    <3>2. (done = 0 \/ done = 1 \/ done = 2) /\ done' = done + 1
      BY <2>1, <2>2
    <3>. QED  BY <1>4, <3>1, <3>2, SMT
  <2>4. ASSUME board = "tftpboot" PROVE faults' = {} => ram' = "image"
    BY <2>4 DEF Interrupt, Setenv, Tftpboot
  <2>. QED  BY <1>1, <2>2, <2>3, <2>4, EarlyEffect
<1>10. CASE idle = 0 /\ ProtectOff
  BY <1>10, ProtectEffect
<1>11. CASE idle = 0 /\ (Erase \/ Copies)
  <2>. USE <1>11
  <2>1. /\ board \in {"erase", "cp.b"} /\ done' = done + 1
        /\ UNCHANGED <<range, ram, protected>>
        /\ faults' = {} => faults = {}
    BY DEF Erase, Copies, CpBRefused, CpBOver, CpB, Completes
  <2>. USE <2>1
  <2>2. /\ CommandLineRuns
        /\ board = "erase" => done = 4
        /\ board = "cp.b" => done = 5
    BY DoneAt, CommandNames DEF CommandLineRuns
  <2>. USE <2>2
  <2>3. /\ done >= 3 /\ done >= 4 /\ (board = "erase" => done' = 5) /\ (board = "cp.b" => done' = 6)
        /\ 5 # 6 /\ ~(5 >= 6)
    <3>1. (done = 4 /\ done' = 5) \/ (done = 5 /\ done' = 6)
      <4>1. (done = 4 \/ done = 5) /\ done' = done + 1
        OBVIOUS
      <4>. QED  BY <4>1, SMT
    <3>2. 4 >= 3 /\ 4 >= 4 /\ 5 >= 3 /\ 5 >= 4 /\ 4 # 5 /\ 5 # 6 /\ ~(5 >= 6)
      BY SMT
    <3>. QED  BY <3>1, <3>2
  <2>4. faults = {} => ram = "image" /\ (range = "whole" => ~protected)
    BY <2>3 DEF EffectInv
  <2>. USE <2>4
  <2>5. faults = {} /\ range = "whole" /\ board = "cp.b" => flash = "blank"
    BY DEF EffectInv
  <2>6. ASSUME board = "erase", faults' = {}, range = "whole" PROVE flash' = "blank"
    BY <2>6 DEF Erase, Accepted, Copies, CpBRefused, CpBOver, CpB
  <2>7. ASSUME board = "cp.b", faults' = {}, range = "whole" PROVE flash' = "image"
    BY <2>5, <2>7 DEF Erase, Copies, CpBRefused, CpBOver, CpB
  <2>8. faults' = {} /\ range = "whole" =>
          /\ done' >= 4 => ~protected'
          /\ done' = 5 => flash' = "blank"
          /\ done' >= 6 => flash' = "image"
    BY <2>3, <2>6, <2>7
  <2>. QED  BY <2>3, <2>8, LateEffect
<1>12. CASE idle # 0 /\ (Interrupt \/ Setenv \/ Tftpboot \/ ProtectOff \/ Erase \/ Copies)
  <2>1. idle' = idle
    BY <1>12 DEF Interrupt, Setenv, Tftpboot, ProtectOff, Erase, Copies, CpBRefused, CpBOver, CpB, Completes
  <2>. QED  BY <1>12, <2>1 DEF EffectInv
<1>13. Interrupt => board = "bootcmd" \/ board = "tftpboot"
  BY DEF Interrupt
<1>. QED
  BY <1>2, <1>5, <1>6, <1>7, <1>8, <1>9, <1>10, <1>11, <1>12, <1>13
  DEF BoardStep, Copies, Countdown, AtOnce, FirstPrompt

---------------------------------------------------------------------------
(***************************************************************************)
(* All steps together, and what follows.                                   *)
(***************************************************************************)

\* All steps of U-Boot.
LEMMA UbootKeyed ==
  ASSUME ToolInv, BoardStep, Started, Started'
  PROVE  ToolInv'
<1>1. TypeOK'
  BY TypesKept DEF ToolInv, Next
<1>2. MarkerInv' /\ PromptInv'
  BY UbootStream, DialogueStream
<1>. QED  BY <1>1, <1>2, UbootKey, UbootInput, UbootEffect DEF ToolInv

\* At first the board is off, and the script has typed nothing.
LEMMA ToolInit ==
  ASSUME Init
  PROVE  ToolInv
<1>1. /\ pc = "reset" /\ board = "off" /\ cmd = 0 /\ done = 0 /\ idle = 0
      /\ input = <<>> /\ seen = <<>> /\ line = <<>>
  BY DEF Init
<1>. USE <1>1
<1>2. TypeOK
  <2>1. <<>> \in Seq(Tokens) /\ <<>> \in Seq(Lines) /\ Len(<<>>) = 0
    BY SMT
  <2>2. /\ watch \in 0 .. Len(seen) \cup {NoWatch} /\ room \in 0 .. BufCap /\ tries \in Nat
        /\ cmd \in 0 .. Len(Commands) /\ done \in Nat /\ idle \in Nat /\ boot \in Nat
    <3>1. BufCap \in Nat /\ Len(Commands) = 6
      BY FlashToolAssumption, CommandNames
    <3>2. /\ watch = NoWatch /\ room = BufCap /\ tries = 0 /\ boot = 0
      BY DEF Init
    <3>3. watch \in 0 .. Len(seen) \cup {NoWatch}
      BY <3>2
    <3>. QED  BY <3>1, <3>2, <3>3, SMT
  <2>. QED  BY <2>1, <2>2 DEF Init, TypeOK
<1>3. ~Started /\ ~Starting /\ ~CommandLineRuns
  BY CommandNames DEF Started, Starting, CommandLineRuns
<1>. USE <1>3
<1>4. DOMAIN input = {}
  BY SMT
<1>5. ~Keyed
  BY <1>4 DEF Keyed
<1>6. KeyInv
  BY <1>4, <1>5 DEF KeyInv
<1>7. InOrder
  BY CommandNames DEF InOrder, CommandLines
<1>8. InputInv
  BY <1>7 DEF InputInv
<1>9. MarkerInv /\ PromptInv /\ EffectInv
  BY DEF MarkerInv, PromptInv, EffectInv
<1>. QED  BY <1>2, <1>6, <1>8, <1>9 DEF ToolInv

\* Every step keeps the invariant.
LEMMA ToolStep ==
  ASSUME ToolInv, Next
  PROVE  ToolInv'
<1>1. CASE ~Keyed'
  BY <1>1, UnkeyedStep
<1>2. CASE ~Keyed /\ Keyed'
  BY <1>2, GoStep
<1>3. CASE Keyed /\ Keyed'
  <2>. USE <1>3
  <2>1. CASE ScriptStep
    BY <2>1, ScriptKeyed
  <2>2. CASE RomStep \/ RomLine
    BY <2>2, RomKeyed
  <2>3. CASE BoardStep /\ ~(RomStep \/ RomLine)
    <3>1. Started
      BY <2>3, UbootSteps DEF ToolInv
    <3>2. Started'
      <4>1. SUFFICES ASSUME ~Started', UNCHANGED input PROVE FALSE
        BY <2>3, UbootSteps DEF ToolInv
      <4>2. Without({"g"}, input)
        BY <3>1 DEF ToolInv, KeyInv
      <4>. QED  BY <4>1, <4>2 DEF Keyed, Without
    <3>. QED  BY <2>3, <3>1, <3>2, UbootKeyed
  <2>4. CASE Reset
    <3>1. board' = "start" /\ input' = <<>>
      BY <2>4 DEF Reset
    <3>2. DOMAIN input' = {}
      BY <3>1, SMT
    <3>3. ~Keyed'
      BY <3>1, <3>2, CommandNames DEF Keyed, Started, Starting, CommandLineRuns
    <3>. QED  BY <3>3
  <2>. QED  BY <2>1, <2>2, <2>3, <2>4 DEF Next, ScriptStep
<1>. QED  BY <1>1, <1>2, <1>3

\* So does a step that changes nothing.
LEMMA ToolStutter ==
  ASSUME ToolInv, UNCHANGED vars
  PROVE  ToolInv'
<1>1. UNCHANGED <<pc, looked, seen, room, watch, acted, tries, cmd, bad, line, input, board>>
  BY DEF vars, script
<1>. USE <1>1
<1>2. UNCHANGED <<ram, protected, flash, range, done, idle, faults, boot>>
  BY DEF vars, memory
<1>. USE <1>2
<1>3. /\ Stream' = Stream /\ (CommandLineRuns' <=> CommandLineRuns) /\ (Starting' <=> Starting)
      /\ (Blind' <=> Blind)
  BY DEF Stream, CommandLineRuns, Starting, Blind
<1>. USE <1>3
<1>4. (Started' <=> Started) /\ Printed' = Printed /\ (Guarded' <=> Guarded)
  BY DEF Started, Printed, Guarded
<1>. USE <1>4
<1>5. Keyed' <=> Keyed
  BY DEF Keyed
<1>6. TypeOK'
  BY DEF ToolInv, TypeOK
<1>7. KeyInv'
  BY <1>5 DEF ToolInv, KeyInv
<1>8. MarkerInv'
  BY DEF ToolInv, MarkerInv
<1>9. PromptInv'
  BY DEF ToolInv, PromptInv
<1>10. InputInv'
  <2>1. InputInv
    BY DEF ToolInv
  <2>2. InOrder'
    BY <2>1 DEF InputInv, InOrder
  <2>3. /\ pc' \notin {"command", "finished", "failed"} => cmd' = 0
        /\ ~CommandLineRuns' => done' = 0 /\ idle' = 0
        /\ Starting' => cmd' <= 1
        /\ CommandLineRuns' => cmd' <= 1 + done' + idle'
    BY <2>1 DEF InputInv
  <2>4. ASSUME Started'
        PROVE  (/\ \A c \in DOMAIN Commands : board = Commands[c] => c <= cmd
                /\ idle = 0 => done <= cmd
                /\ \A i \in DOMAIN input, c \in DOMAIN Commands :
                     input[i] = Commands[c] =>
                       /\ c <= cmd
                       /\ idle = 0 => /\ done < c
                                      /\ \A b \in DOMAIN Commands : board = Commands[b] => b < c
                       /\ \A j \in DOMAIN input, d \in DOMAIN Commands :
                            i < j /\ input[j] = Commands[d] => c < d)'
    BY <2>1, <2>4 DEF InputInv
  <2>. QED  BY <2>2, <2>3, <2>4 DEF InputInv
<1>11. EffectInv'
  BY DEF ToolInv, EffectInv
<1>. QED  BY <1>6, <1>7, <1>8, <1>9, <1>10, <1>11 DEF ToolInv

\* The inductive invariant: whatever the board prints and however late, however
\* often it is reset and however much of the console is cut off.
THEOREM ToolCorrect == Spec => []ToolInv
<1>1. Init => ToolInv
  BY ToolInit
<1>2. ToolInv /\ [Next]_vars => ToolInv'
  <2>1. SUFFICES ASSUME ToolInv, [Next]_vars PROVE ToolInv'
    BY SMT
  <2>2. CASE Next
    BY <2>1, <2>2, ToolStep
  <2>3. CASE UNCHANGED vars
    BY <2>1, <2>3, ToolStutter
  <2>. QED  BY <2>1, <2>2, <2>3
<1>. QED  BY <1>1, <1>2, PTL DEF Spec

\* The script types a command only when the board has answered all those
\* before it: erase and cp.b of main() run after tftpboot and protect off of
\* the same boot.
THEOREM CommandsInOrder == Spec => []InOrder
<1>1. ToolInv => InOrder
  BY DEF ToolInv, InputInv
<1>. QED  BY <1>1, ToolCorrect, PTL

\* run_uboot_command() is never ahead of the board by more than the prompts
\* of lines that were no commands.
THEOREM ScriptAheadByIdle == Spec => []AheadByIdle
<1>1. ToolInv => AheadByIdle
  <2>1. SUFFICES ASSUME ToolInv, CommandLineRuns PROVE cmd - 1 <= done + idle
    BY DEF AheadByIdle
  <2>2. cmd <= 1 + done + idle
    BY <2>1 DEF ToolInv, InputInv
  <2>3. cmd \in Nat /\ done \in Nat /\ idle \in Nat
    BY <2>1, Numbers DEF ToolInv
  <2>. QED  BY <2>2, <2>3, SMT
<1>. QED  BY <1>1, ToolCorrect, PTL

\* When main() prints that flash programming has finished, no line too many was
\* typed, neither the transfer nor the chip failed, and the range was one that
\* holds the image or one refused with the text the script knows, the flash
\* holds the new U-Boot.
THEOREM FinishedFlash == Spec => []FinishedIsFlashed
<1>1. ToolInv => FinishedIsFlashed
  <2>1. SUFFICES ASSUME ToolInv, pc = "finished", CommandLineRuns, idle = 0, faults = {},
                        range \in {"whole", "end"}
                 PROVE  flash = "image"
    BY DEF FinishedIsFlashed
  <2>. USE <2>1
  <2>2. range = "whole"
    BY DEF ToolInv, EffectInv
  <2>3. cmd = 6 /\ cmd + 1 <= Printed /\ Printed = 1 + done + idle
    BY CommandNames DEF ToolInv, PromptInv, Started, Printed
  <2>4. done \in Nat
    BY Numbers DEF ToolInv
  <2>5. idle = 0
    OBVIOUS
  <2>6. done >= 6
    BY <2>3, <2>4, <2>5, SMT
  <2>. QED  BY <2>2, <2>6 DEF ToolInv, EffectInv
<1>. QED  BY <1>1, ToolCorrect, PTL

=============================================================================
