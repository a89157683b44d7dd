---------------------------- MODULE RetryPolicy ----------------------------
(***************************************************************************)
(* Retries, common/retry.go: how often an operation is tried, how long is  *)
(* waited before, and which errors are not retried.  A configuration is a  *)
(* record; an outcome is "ok" or the error that the operation ends with;   *)
(* times are in tenths of a second.                                        *)
(***************************************************************************)
EXTENDS Integers, Sequences, FiniteSets

\* The classes of text that IsRetryableError and IsProjectRetryableError look for; all that
\* matches none of them is retried, "throttled" and "timeout" among it.
NonRetryablePatterns == {"unauthorized", "bad request", "conflict", "not found", "quota"}
ProjectNonRetryablePatterns == {"project denied", "project invalid", "project gone"}

IsRetryableError(error) == error \notin NonRetryablePatterns

IsProjectRetryableError(error) == IsRetryableError(error) /\ error \notin ProjectNonRetryablePatterns

Always(error) == TRUE

DefaultRetryConfig ==
    [retries |-> 3, initial |-> 20, max |-> 300, strategy |-> "exponential", jitter |-> TRUE,
     checker |-> "none"]
RateLimitRetryConfig ==
    [DefaultRetryConfig EXCEPT !.retries = 4, !.initial = 30, !.checker = "general"]
CatalogOperationRetryConfig ==
    [DefaultRetryConfig EXCEPT !.retries = 10, !.initial = 50, !.max = 1200, !.checker = "general"]
ProjectOperationRetryConfig ==
    [DefaultRetryConfig EXCEPT !.retries = 5, !.initial = 30, !.max = 900, !.checker = "project"]

Retried(config, error) ==
    CASE config.checker = "none"    -> Always(error)
      [] config.checker = "general" -> IsRetryableError(error)
      [] config.checker = "project" -> IsProjectRetryableError(error)

\* The number of times that a delay is doubled.
Doubled(delay, n) ==
    LET twice[i \in 0 .. n] == IF i = 0 THEN delay ELSE 2 * twice[i - 1] IN twice[n]

\* Before attempt n, counted from 0: the delay of the strategy, cut at the maximum, and then
\* up to three tenths of it more or less, but for the fixed strategy.
BaseDelay(config, n) ==
    CASE config.strategy = "linear" -> (n + 1) * config.initial
      [] config.strategy = "fixed"  -> config.initial
      [] OTHER                      -> Doubled(config.initial, n)

Least(a, b) == IF a < b THEN a ELSE b

\* The shortest and the longest delay that may come out; none when delays are skipped.
CalculateDelay(config, n, skip) ==
    LET delay == Least(BaseDelay(config, n), config.max)
        jitter == IF config.jitter /\ config.strategy # "fixed" THEN (delay * 3) \div 10 ELSE 0
    IN  IF skip THEN [least |-> 0, most |-> 0]
        ELSE [least |-> delay - jitter, most |-> delay + jitter]

\* The attempts that are made; outcomes is what each of them would end with.
Attempts(config, outcomes) ==
    {n \in 1 .. Least(config.retries, Len(outcomes)) :
        \A k \in 1 .. n - 1 : outcomes[k] # "ok" /\ Retried(config, outcomes[k])}

\* Without an attempt the answer is an error that wraps none.
RetryWithConfig(config, outcomes, skip) ==
    LET made == Cardinality(Attempts(config, outcomes))
    IN  [attempts |-> made,
         result |-> IF made = 0 THEN "untried" ELSE outcomes[made],
         exhausted |-> made = 0 \/ (outcomes[made] # "ok" /\ Retried(config, outcomes[made])),
         waited |-> [n \in 1 .. made - 1 |-> CalculateDelay(config, n, skip)]]
-----------------------------------------------------------------------------
\* The operation is tried MaxRetries times at most, and again only after an error that may
\* pass; an error that is final is returned at once and as it is; and an answer of the
\* operation is never thrown away.  No wait is longer than thirteen tenths of MaxDelay, and
\* without jitter none is longer than MaxDelay or shorter than the one before.
RetryRight(config, outcomes, skip, end) ==
    /\ end.attempts <= config.retries
    /\ \A n \in 1 .. end.attempts - 1 : outcomes[n] # "ok" /\ Retried(config, outcomes[n])
    /\ end.attempts < config.retries =>
          end.result = "ok" \/ ~Retried(config, end.result)
    /\ (\E n \in 1 .. end.attempts : outcomes[n] = "ok") <=> end.result = "ok"
    /\ end.exhausted => end.attempts = config.retries
    /\ \A n \in DOMAIN end.waited :
          /\ 0 <= end.waited[n].least
          /\ 10 * end.waited[n].most <= 13 * config.max
          /\ ~config.jitter => /\ end.waited[n].most <= config.max
                               /\ n > 1 => end.waited[n - 1].most <= end.waited[n].least
=============================================================================
