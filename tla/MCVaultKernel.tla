---------------------------- MODULE MCVaultKernel ----------------------------
(* Two wallets whose coins are split, paid, redeemed and earned back. *)
EXTENDS VaultKernel, TLC
CONSTANTS w1, w2, zero, vault, x, y
MCWallets == {w1, w2}
MCFunds   == (w1 :> 2) @@ (w2 :> 2)
MCPrices  == 0..2
MCAmounts == 0..2
=============================================================================
