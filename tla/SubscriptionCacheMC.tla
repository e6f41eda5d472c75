-------------------------- MODULE SubscriptionCacheMC --------------------------
(* A small instance of SubscriptionCache: two accounts, versions ordered by *)
(* slot and by write version within a slot, a tombstone and live bytes, two *)
(* feeding threads and a reader.                                            *)
EXTENDS SubscriptionCache, TLC

CONSTANTS pool, vault, program, live, closed, feed1, feed2, trader

MCKey    == {pool, vault}
MCWriter == {feed1, feed2}

FeedsAlike == Permutations(MCWriter)
=============================================================================
