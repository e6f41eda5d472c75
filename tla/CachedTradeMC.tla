---------------------------- MODULE CachedTradeMC ----------------------------
(* A small instance of CachedTrade: two candidate routes that share a pool. *)
EXTENDS CachedTrade, TLC

CONSTANTS pool, vault

MCKey        == {pool, vault}
MCCandidates == <<{pool, vault}, {pool}>>
=============================================================================
