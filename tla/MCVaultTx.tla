------------------------------ MODULE MCVaultTx ------------------------------
(* Two wallets whose transactions interleave between proving and inclusion. *)
EXTENDS VaultTx, TLC
CONSTANTS w1, w2, zero, x, y, none
MCWallets == {w1, w2}
MCFunds   == (w1 :> 1) @@ (w2 :> 2)
MCPrices  == 0..1
MCAmounts == 0..2
=============================================================================
