----------------------------- MODULE MCMaildir ------------------------------
(***************************************************************************)
(* An instance of Maildir: two messages, one of which has flags with and   *)
(* without a maildir letter, and names for three deliveries.               *)
(***************************************************************************)
EXTENDS Maildir, TLC

CONSTANTS m1, m2, n1, n2, n3

FlagsOfMessages == m1 :> {"Seen", "Flagged", "Recent"} @@ m2 :> {"Deleted"}

NameSymmetry == Permutations(Names)
=============================================================================
