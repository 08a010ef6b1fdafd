------------------------- MODULE MCSignatureMatcher -------------------------
(***************************************************************************)
(* An instance of SignatureMatcher for TLC.                                *)
(***************************************************************************)
EXTENDS SignatureMatcher

CONSTANTS alice, bob, w1, w2, w3, w4

MCAccounts == {alice, bob}
MCWallets == {w1, w2, w3, w4}

\* bob's address and one of the wallets' hold no capital letter.
MCAllLower == {bob, w1}

=============================================================================
