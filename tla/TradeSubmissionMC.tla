-------------------------- MODULE TradeSubmissionMC --------------------------
(* A small instance of TradeSubmission: two relays, the Default lane, and a *)
(* caller that tries a trade twice.                                         *)
EXTENDS TradeSubmission, TLC

CONSTANTS jito, temporal, first, retry

MCMev     == {jito, temporal}
MCAttempt == {first, retry}

(* Nothing tells relays or calls apart. *)
RelaysAndCallsAlike == Permutations(MCMev) \cup Permutations(MCAttempt)
=============================================================================
