--------------------------- MODULE AttemptLedger ---------------------------
(***************************************************************************)
(* What bounded recovery promises: no skill attempt is free.  An attempt   *)
(* needs a licence, at most one licence is out at a time, and a licence    *)
(* costs one unit of a finite purse that nothing ever refills: a plan      *)
(* round, a retry of one call, or a fallback.  A licence may also be       *)
(* forfeited, its unit spent for nothing.                                  *)
(***************************************************************************)
EXTENDS Naturals

CONSTANTS
    Keys,                         \* what retries are counted for
    Rounds, Retries, Fallbacks    \* the purse: natural numbers, Retries per key

VARIABLES
    rounds, retries, fallbacks,   \* units left; retries per key
    licensed,                     \* a licence is out
    attempts                      \* attempts made so far

ledger == <<rounds, retries, fallbacks, licensed, attempts>>

LedgerInit ==
    /\ rounds = Rounds
    /\ retries = [k \in Keys |-> Retries]
    /\ fallbacks = Fallbacks
    /\ licensed = FALSE
    /\ attempts = 0

BuyRound ==
    /\ ~licensed /\ rounds > 0
    /\ licensed' = TRUE /\ rounds' = rounds - 1
    /\ UNCHANGED <<retries, fallbacks, attempts>>

BuyRetry(k) ==
    /\ ~licensed /\ retries[k] > 0
    /\ licensed' = TRUE /\ retries' = [retries EXCEPT ![k] = @ - 1]
    /\ UNCHANGED <<rounds, fallbacks, attempts>>

BuyFallback ==
    /\ ~licensed /\ fallbacks > 0
    /\ licensed' = TRUE /\ fallbacks' = fallbacks - 1
    /\ UNCHANGED <<rounds, retries, attempts>>

Attempt ==
    /\ licensed
    /\ licensed' = FALSE /\ attempts' = attempts + 1
    /\ UNCHANGED <<rounds, retries, fallbacks>>

Forfeit ==
    /\ licensed
    /\ licensed' = FALSE
    /\ UNCHANGED <<rounds, retries, fallbacks, attempts>>

LedgerNext ==
    \/ BuyRound \/ BuyFallback \/ Attempt \/ Forfeit
    \/ \E k \in Keys : BuyRetry(k)

LedgerSpec == LedgerInit /\ [][LedgerNext]_ledger
=============================================================================
