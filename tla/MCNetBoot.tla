----------------------------- MODULE MCNetBoot -----------------------------
(***************************************************************************)
(* A server with a file and a symbolic link to it in another directory;    *)
(* and a board with two interfaces.                                        *)
(***************************************************************************)
EXTENDS NetBoot, TLC

CONSTANTS kernel, current, boot, releases

MCNodes == {kernel, current}
MCDir == (kernel :> releases) @@ (current :> boot)
MCKind == (kernel :> "file") @@ (current :> "link")
MCLink == (kernel :> kernel) @@ (current :> kernel)
MCSize == (kernel :> 3) @@ (current :> 0)
MCFinal == (kernel :> kernel) @@ (current :> kernel)
MCAddr == (0 :> 10) @@ (1 :> 11)

=============================================================================
