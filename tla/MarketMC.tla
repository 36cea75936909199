------------------------------ MODULE MarketMC ------------------------------
(* Three refreshes of one ticker over two days.                            *)
EXTENDS Market, TLC

CONSTANTS w1, w2, w3

Alike == Permutations({w1, w2, w3})
=============================================================================
