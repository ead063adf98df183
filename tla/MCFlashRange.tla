---------------------------- MODULE MCFlashRange ----------------------------
(* FlashCommand for TLC: every pair of chips. *)
EXTENDS FlashCommand

CONSTANTS Start0, Start1, Counts
MCStart == [b \in Banks |-> IF b = 0 THEN Start0 ELSE Start1]
MCFound == [Banks -> Counts]

=============================================================================
