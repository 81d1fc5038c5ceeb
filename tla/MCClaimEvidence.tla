--------------------------- MODULE MCClaimEvidence ---------------------------
(* Instances of ClaimEvidence for TLC. *)
EXTENDS ClaimEvidence, TLC

CONSTANTS r1, r2, r3, r4

(* One row for each outcome of the first market, a second row for the      *)
(* first outcome, and one for the second market, which is another venue's. *)
FourRows == [r \in Rows |->
    CASE r \in {r1, r3} -> <<1, 0>> [] r = r2 -> <<1, 1>> [] r = r4 -> <<2, 0>>]

(* The two rows of one position are interchangeable. *)
Duplicates == Permutations({r1, r3})

TwoVenues == [m \in Markets |-> m]

Balance(a, b, c) ==
    [pos \in Positions |->
        CASE pos = <<1, 0>> -> a [] pos = <<1, 1>> -> b [] pos = <<2, 0>> -> c]

Chain(r, s, b, c, k) ==
    [result |-> <<r, s>>, balance |-> Balance(2, b, c), backing |-> <<k, 2>>]

(* A void pair its market can pay and one it cannot; a void position too   *)
(* small to pay, beside a win of the other venue.                          *)
Chains ==
    { Chain("void", "open", 2, 0, 3), Chain("void", "open", 2, 0, 1),
      Chain("void", "first", 1, 1, 1) }
=============================================================================
