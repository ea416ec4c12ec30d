----------------------------- MODULE MCNatives -----------------------------
(* Threads and blocks are interchangeable.                                  *)
EXTENDS Natives, TLC

OneOfEachKind == {"sendAPDU", "EnumApplets", "EnumSupportCoins", "BTC_ShowAddress", "BTCGetAddress",
                  "BTCTransaction", "ETH_ERC20_Transaction"}

Symmetry == Permutations(Threads) \cup Permutations(Blocks)
=============================================================================
