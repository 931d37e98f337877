------------------------------- MODULE Retry --------------------------------
(***************************************************************************)
(* pkg/retry: attempts with exponential backoff.  cfg is a record          *)
(* [attempts, base, max, jitter]; time is counted in quarters of the base  *)
(* delay's unit so that the jitter of a quarter is a whole number.  Do is  *)
(* the loop of the caller: an operation that fails is tried again after    *)
(* BackoffFor(attempt + 1, cfg) unless its error is permanent, the last    *)
(* attempt is used up or the caller gives up while waiting.                *)
(***************************************************************************)
EXTENDS Integers

Validate(cfg) == cfg.attempts > 0 /\ cfg.base > 0 /\ cfg.max >= cfg.base

CapDelay(delay, cfg) == IF delay > cfg.max THEN cfg.max ELSE delay

(* The delay before an attempt, doubled for each one after the second and  *)
(* never above the cap; with jitter any delay within a quarter of it.      *)
BackoffFor(attempt, cfg) ==
    LET shift == IF attempt < 2 THEN 0 ELSE attempt - 2
        delay == CapDelay(cfg.base * 2^shift, cfg)
    IN  IF cfg.jitter
        THEN {CapDelay(d, cfg) : d \in ((3 * delay) \div 4)..((5 * delay) \div 4)}
        ELSE {delay}

(* What Do does with an attempt that failed.                               *)
TriesAgain(attempt, cfg, permanent) == ~permanent /\ attempt < cfg.attempts
=============================================================================
