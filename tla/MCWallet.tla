------------------------------ MODULE MCWallet ------------------------------
(* Model of Wallet for TLC: the cfg files give the constants small values.   *)
EXTENDS Wallet
=============================================================================
