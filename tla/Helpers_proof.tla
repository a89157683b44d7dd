--------------------------- MODULE Helpers_proof ---------------------------
(***************************************************************************)
(* Proofs about what parallel tests do with one CloudInfoService, about a  *)
(* test that runs Terraform, and about the logger that tests write to.     *)
(*                                                                         *)
(* RefResolver, for any number of callers, calls and regions that are      *)
(* asked for: its type invariant, that a token which was refused is not    *)
(* sent again, and that an error comes after every fallback.               *)
(*                                                                         *)
(* ApiCache, for any number of parallel lookups and any time to live: its  *)
(* type invariant, and that every lookup returns an answer to what it has  *)
(* asked for which is not too old.                                         *)
(*                                                                         *)
(* RegionSelection, for any number of tests and regions and any files that *)
(* tests come with: no two tests are given the same region.                *)
(*                                                                         *)
(* TerraformTest: whatever its hooks and Terraform do, a test that passes  *)
(* has done what it was asked to, and a test that goes on can destroy what *)
(* it has deployed.                                                        *)
(*                                                                         *)
(* Logger, for any number of messages sent in any way: no message is       *)
(* printed twice or lost, and those that are kept back stay in order.      *)
(***************************************************************************)
EXTENDS RefResolver, ApiCache, RegionSelection, TerraformTest, Logger, Choices_proof

Waiting(c) == resolving[c] \in {"send", "sent"}

(* The regions that come before the one being asked have refused.          *)
Refused(c) ==
  /\ fallback[c] > 0 => region[c] \in tried[c]
  /\ \A i \in 1 .. fallback[c] - 1 : Fallbacks(region[c])[i] \in tried[c]

(* A caller's place among the regions is one that exists.                  *)
ResolverPlaceOK(c) ==
  /\ resolving[c] # "idle" => region[c] \in AllRegions
  /\ fallback[c] <= Len(Fallbacks(region[c]))
  /\ Waiting(c) => Refused(c)

(* A token is of an authenticator made before; the caller that is about to *)
(* retry because its token was refused has replaced that authenticator.    *)
TokenOK(c) ==
  /\ token[c] <= authenticator
  /\ resolving[c] = "send" /\ attempt[c] > 0 /\ lastErr[c] = "apikey"
       => token[c] < authenticator

Exhausted(c) ==
  resolving[c] = "failed" =>
    IF region[c] \in DevRegions
    THEN lastErr[c] \notin Retryable \/ attempt[c] = DefaultRetryCount
    ELSE /\ region[c] \in tried[c]
         /\ \A i \in DOMAIN Fallbacks(region[c]) : Fallbacks(region[c])[i] \in tried[c]

ResolverIInv ==
  /\ ResolverTypeOK
  /\ \A c \in Callers : ResolverPlaceOK(c) /\ TokenOK(c) /\ Exhausted(c)

-----------------------------------------------------------------------------
(* The fallbacks of a region are regions of production, at most six.       *)
LEMMA FallbacksType ==
  ASSUME NEW r
  PROVE  /\ Fallbacks(r) \in Seq(ProductionRegions)
         /\ Len(Fallbacks(r)) \in 5 .. 6
         /\ DOMAIN Fallbacks(r) = 1 .. Len(Fallbacks(r))
         /\ \A i \in 1 .. Len(Fallbacks(r)) : Fallbacks(r)[i] \in ProductionRegions
<1>1. CASE r = "us-south"
  BY <1>1 DEF Fallbacks, ProductionRegions
<1>2. CASE r = "us-east"
  BY <1>2 DEF Fallbacks, ProductionRegions
<1>3. CASE r = "ca-tor"
  BY <1>3 DEF Fallbacks, ProductionRegions
<1>4. CASE r = "eu-de"
  BY <1>4 DEF Fallbacks, ProductionRegions
<1>5. CASE r = "eu-gb"
  BY <1>5 DEF Fallbacks, ProductionRegions
<1>6. CASE r = "mon01"
  BY <1>6 DEF Fallbacks, ProductionRegions
<1>7. CASE r \notin ProductionRegions
  <2>1. Fallbacks(r) = <<"us-south", "us-east", "eu-de", "eu-gb", "ca-tor", "mon01">>
    BY <1>7 DEF Fallbacks, ProductionRegions
  <2>2. QED
    BY <2>1 DEF ProductionRegions
<1>8. QED
  BY <1>1, <1>2, <1>3, <1>4, <1>5, <1>6, <1>7 DEF ProductionRegions

(* The arithmetic of the next fallback, and of there being none.           *)
LEMMA Between ==
  \A x \in 0 .. 6 : \A y \in 5 .. 6 :
     /\ x < y => x + 1 \in 0 .. 6 /\ x + 1 <= y
     /\ x <= y /\ ~(x < y) => x = y /\ x \in 1 .. 6
OBVIOUS

(* A caller that waits asks a region.                                      *)
LEMMA AskedType ==
  ASSUME ResolverIInv, NEW c \in Callers, Waiting(c)
  PROVE  /\ Asked(c) \in AllRegions
         /\ fallback[c] # 0 => Asked(c) \in ProductionRegions
<1>1. region[c] \in AllRegions /\ fallback[c] \in 0 .. 6
      /\ fallback[c] <= Len(Fallbacks(region[c]))
  BY DEF ResolverIInv, ResolverPlaceOK, Waiting, ResolverTypeOK
<1>2. QED
  BY <1>1, FallbacksType DEF Asked, AllRegions

(* It holds before any resolver is asked.                                  *)
LEMMA ResolverInitIInv == ResolverInit => ResolverIInv
<1> SUFFICES ASSUME ResolverInit PROVE ResolverIInv
  OBVIOUS
<1>1. ResolverTypeOK
  BY MaxCallsAssumption DEF ResolverInit, ResolverTypeOK, DefaultRetryCount
<1>2. ASSUME NEW c \in Callers PROVE ResolverPlaceOK(c) /\ TokenOK(c) /\ Exhausted(c)
  <2>1. fallback[c] = 0 /\ resolving[c] = "idle" /\ token[c] = 0 /\ authenticator = 0
    BY DEF ResolverInit
  <2>2. \A n \in 5 .. 6 : 0 <= n
    OBVIOUS
  <2>3. fallback[c] <= Len(Fallbacks(region[c]))
    BY <2>1, <2>2, FallbacksType
  <2>4. QED
    BY <2>1, <2>3 DEF ResolverPlaceOK, TokenOK, Exhausted, Waiting
<1>3. QED
  BY <1>1, <1>2 DEF ResolverIInv

(* A caller keeps what holds of it when a step changes nothing of its own  *)
(* and the authenticator is the same or a later one.                       *)
LEMMA ResolverOthersKeep ==
  ASSUME ResolverIInv, NEW d \in Callers, authenticator' \in Nat, authenticator' >= authenticator,
         resolving'[d] = resolving[d], region'[d] = region[d], fallback'[d] = fallback[d],
         attempt'[d] = attempt[d], token'[d] = token[d], lastErr'[d] = lastErr[d],
         tried'[d] = tried[d]
  PROVE  ResolverPlaceOK(d)' /\ TokenOK(d)' /\ Exhausted(d)'
<1>1. ResolverPlaceOK(d) /\ TokenOK(d) /\ Exhausted(d) /\ token[d] \in Nat /\ authenticator \in Nat
  BY DEF ResolverIInv, ResolverTypeOK
<1>2. ResolverPlaceOK(d)'
  BY <1>1 DEF ResolverPlaceOK, Waiting, Refused
<1>3. TokenOK(d)'
  BY <1>1 DEF TokenOK
<1>4. Exhausted(d)'
  BY <1>1 DEF Exhausted
<1>5. QED
  BY <1>2, <1>3, <1>4

(* The steps of a caller change nothing of another one.                    *)
LEMMA OnlyItsOwn ==
  ASSUME ResolverIInv, NEW c \in Callers, NEW d \in Callers, d # c,
         ResolverStep(c) \/ \E r \in Requests : Begin(c, r)
  PROVE  ResolverPlaceOK(d)' /\ TokenOK(d)' /\ Exhausted(d)'
<1>1. authenticator' \in Nat /\ authenticator' >= authenticator
  BY DEF ResolverIInv, ResolverTypeOK, ResolverStep, Begin, Send, Answer, Retry, FailOver, Fail,
         RefreshToken
<1>2. /\ resolving'[d] = resolving[d] /\ region'[d] = region[d]
      /\ fallback'[d] = fallback[d] /\ attempt'[d] = attempt[d] /\ token'[d] = token[d]
      /\ lastErr'[d] = lastErr[d] /\ tried'[d] = tried[d]
  BY DEF ResolverIInv, ResolverTypeOK, ResolverStep, Begin, Send, Answer, Retry, FailOver, Fail,
         Fails, ToSend
<1>3. QED
  BY <1>1, <1>2, ResolverOthersKeep

(* A caller begins.                                                        *)
LEMMA BeginKeeps ==
  ASSUME ResolverIInv, NEW c \in Callers, NEW r \in Requests, Begin(c, r)
  PROVE  ResolverTypeOK' /\ ResolverPlaceOK(c)' /\ TokenOK(c)' /\ Exhausted(c)'
<1>1. region'[c] \in AllRegions /\ region' \in [Callers -> AllRegions \cup {NoRegion}]
  BY DEF Begin, ResolverIInv, ResolverTypeOK, AllRegions
<1>2. ResolverTypeOK'
  BY <1>1, MaxCallsAssumption DEF ResolverIInv, ResolverTypeOK, Begin, ToSend, DefaultRetryCount
<1>3. ResolverPlaceOK(c)'
  BY <1>1, FallbacksType DEF ResolverIInv, ResolverTypeOK, Begin, ToSend, ResolverPlaceOK, Refused
<1>4. TokenOK(c)'
  BY DEF ResolverIInv, ResolverTypeOK, Begin, ToSend, TokenOK
<1>5. Exhausted(c)'
  BY DEF ResolverIInv, ResolverTypeOK, Begin, ToSend, Exhausted
<1>6. QED
  BY <1>2, <1>3, <1>4, <1>5

(* A request is sent.                                                      *)
LEMMA SendKeeps ==
  ASSUME ResolverIInv, NEW c \in Callers, Send(c)
  PROVE  ResolverTypeOK' /\ ResolverPlaceOK(c)' /\ TokenOK(c)' /\ Exhausted(c)'
<1>1. ResolverTypeOK'
  BY DEF ResolverIInv, ResolverTypeOK, Send
<1>2. ResolverPlaceOK(c)'
  BY DEF ResolverIInv, ResolverTypeOK, Send, ResolverPlaceOK, Waiting, Refused
<1>3. TokenOK(c)' /\ Exhausted(c)'
  BY DEF ResolverIInv, ResolverTypeOK, Send, TokenOK, Exhausted
<1>4. QED
  BY <1>1, <1>2, <1>3

(* A request is answered.                                                  *)
LEMMA AnswerKeeps ==
  ASSUME ResolverIInv, NEW c \in Callers, Answer(c)
  PROVE  ResolverTypeOK' /\ ResolverPlaceOK(c)' /\ TokenOK(c)' /\ Exhausted(c)'
<1>1. Waiting(c)
  BY DEF Answer, Waiting
<1>2. ResolverTypeOK'
  BY <1>1, AskedType DEF ResolverIInv, ResolverTypeOK, Answer, Remembers
<1>3. ResolverPlaceOK(c)'
  BY DEF ResolverIInv, ResolverTypeOK, Answer, ResolverPlaceOK, Waiting
<1>4. TokenOK(c)' /\ Exhausted(c)'
  BY DEF ResolverIInv, ResolverTypeOK, Answer, TokenOK, Exhausted
<1>5. QED
  BY <1>2, <1>3, <1>4

(* A request that ends with an error adds the region to those that have    *)
(* refused.                                                                *)
LEMMA FailsAdds ==
  ASSUME ResolverIInv, NEW c \in Callers, NEW e \in Errors, Fails(c, e)
  PROVE  /\ Waiting(c)
         /\ lastErr' \in [Callers -> Errors \cup {NoError}] /\ lastErr'[c] = e
         /\ tried' \in [Callers -> SUBSET AllRegions]
         /\ tried'[c] = tried[c] \cup {Asked(c)}
<1>1. Waiting(c)
  BY DEF Fails, Waiting
<1>2. Asked(c) \in AllRegions
  BY <1>1, AskedType
<1>3. QED
  BY <1>1, <1>2 DEF Fails, ResolverIInv, ResolverTypeOK

(* A request is made again.                                                *)
LEMMA RetryKeeps ==
  ASSUME ResolverIInv, NEW c \in Callers, NEW e \in Errors, Retry(c, e)
  PROVE  ResolverTypeOK' /\ ResolverPlaceOK(c)' /\ TokenOK(c)' /\ Exhausted(c)'
<1>1. Fails(c, e) /\ e \in Retryable
  BY DEF Retry
<1>2. attempt' \in [Callers -> 0 .. DefaultRetryCount]
  BY DEF Retry, MaxRetries, DefaultRetryCount, ResolverIInv, ResolverTypeOK
<1>3. ResolverTypeOK'
  BY <1>1, <1>2, FailsAdds DEF ResolverIInv, ResolverTypeOK, Retry, RefreshToken, ToSend
<1>4. ResolverPlaceOK(c)'
  BY <1>1, FailsAdds DEF ResolverIInv, ResolverTypeOK, Retry, ToSend, ResolverPlaceOK, Waiting, Refused
<1>5. TokenOK(c)'
  BY <1>1, FailsAdds DEF ResolverIInv, ResolverTypeOK, Retry, RefreshToken, ToSend, TokenOK
<1>6. Exhausted(c)'
  BY DEF ResolverIInv, ResolverTypeOK, Retry, ToSend, Exhausted
<1>7. QED
  BY <1>3, <1>4, <1>5, <1>6

(* The next region or host is tried.                                       *)
LEMMA FailOverKeeps ==
  ASSUME ResolverIInv, NEW c \in Callers, NEW e \in Errors, FailOver(c, e)
  PROVE  ResolverTypeOK' /\ ResolverPlaceOK(c)' /\ TokenOK(c)' /\ Exhausted(c)'
<1>1. Fails(c, e) /\ fallback[c] < Len(Fallbacks(region[c])) /\ fallback[c] \in 0 .. 6
  BY DEF FailOver, FailsOver, HasFallback, ResolverIInv, ResolverTypeOK
<1>2. Len(Fallbacks(region[c])) \in 5 .. 6
  BY FallbacksType
<1>3. fallback' \in [Callers -> 0 .. 6] /\ fallback'[c] = fallback[c] + 1
  <2>1. fallback \in [Callers -> 0 .. 6] /\ fallback' = [fallback EXCEPT ![c] = @ + 1]
    BY DEF FailOver, ResolverIInv, ResolverTypeOK
  <2>2. fallback[c] + 1 \in 0 .. 6
    BY <1>1, <1>2, Between
  <2>3. QED
    BY <2>1, <2>2
<1>4. ResolverTypeOK'
  <2>1. lastErr' \in [Callers -> Errors \cup {NoError}] /\ tried' \in [Callers -> SUBSET AllRegions]
    BY <1>1, FailsAdds
  <2>2. resolving' \in [Callers -> {"idle", "send", "sent", "resolved", "failed"}]
    BY DEF ResolverIInv, ResolverTypeOK, FailOver, ToSend
  <2>3. attempt' \in [Callers -> 0 .. DefaultRetryCount]
    BY DEF ResolverIInv, ResolverTypeOK, FailOver, DefaultRetryCount
  <2>4. UNCHANGED <<activeRefResolverRegion, authenticator, calls, region, token, answered>>
    BY DEF FailOver
  <2> QED
    BY <1>3, <2>1, <2>2, <2>3, <2>4 DEF ResolverIInv, ResolverTypeOK
<1>5. ResolverPlaceOK(c)'
  <2>1. region'[c] = region[c] /\ region[c] \in AllRegions /\ Refused(c)
    BY <1>1, FailsAdds DEF FailOver, ResolverIInv, ResolverPlaceOK, Waiting
  <2>2. Refused(c)'
    BY <1>1, <1>3, <2>1, FailsAdds DEF FailOver, Refused, Asked
  <2>3. QED
    BY <1>1, <1>2, <1>3, <2>1, <2>2 DEF ResolverPlaceOK
<1>6. TokenOK(c)' /\ Exhausted(c)'
  BY DEF ResolverIInv, ResolverTypeOK, FailOver, ToSend, TokenOK, Exhausted
<1>7. QED
  BY <1>4, <1>5, <1>6

(* The caller gives up.                                                    *)
LEMMA FailKeeps ==
  ASSUME ResolverIInv, NEW c \in Callers, NEW e \in Errors, Fail(c, e)
  PROVE  ResolverTypeOK' /\ ResolverPlaceOK(c)' /\ TokenOK(c)' /\ Exhausted(c)'
<1>1. Fails(c, e) /\ GivesUp(c, e) /\ ~HasFallback(c) /\ resolving'[c] = "failed"
      /\ UNCHANGED <<region, fallback, attempt, token, authenticator>>
  BY DEF Fail, FailsOver, ResolverIInv, ResolverTypeOK
<1>2. ResolverTypeOK'
  BY <1>1, FailsAdds DEF ResolverIInv, ResolverTypeOK, Fail
<1>3. ResolverPlaceOK(c)'
  BY <1>1, FailsAdds DEF ResolverIInv, ResolverPlaceOK, Waiting
<1>4. TokenOK(c)'
  BY <1>1 DEF ResolverIInv, TokenOK
<1>5. Exhausted(c)'
  <2>1. CASE region[c] \in DevRegions
    BY <1>1, <2>1, FailsAdds DEF Exhausted, GivesUp, MaxRetries
  <2>2. CASE region[c] \notin DevRegions
    <3>0. fallback[c] = Len(Fallbacks(region[c])) /\ fallback[c] \in 1 .. 6
      <4>1. fallback[c] \in 0 .. 6 /\ fallback[c] <= Len(Fallbacks(region[c]))
        BY DEF ResolverIInv, ResolverPlaceOK, ResolverTypeOK
      <4>2. Len(Fallbacks(region[c])) \in 5 .. 6
        BY FallbacksType
      <4>3. QED
        BY <1>1, <2>2, <4>1, <4>2, Between DEF HasFallback
    <3>1. fallback[c] \in 1 .. 6
      BY <3>0
    <3>2. region[c] \in tried[c]
          /\ \A i \in 1 .. fallback[c] - 1 : Fallbacks(region[c])[i] \in tried[c]
      <4>1. Waiting(c) /\ ResolverPlaceOK(c)
        BY <1>1, FailsAdds DEF ResolverIInv
      <4>2. fallback[c] > 0
        BY <3>1
      <4>3. QED
        BY <4>1, <4>2 DEF ResolverPlaceOK, Refused
    <3>3. tried'[c] = tried[c] \cup {Fallbacks(region[c])[fallback[c]]}
      <4>1. tried'[c] = tried[c] \cup {Asked(c)}
        BY <1>1, FailsAdds
      <4>2. QED
        BY <3>1, <4>1 DEF Asked
    <3>4. \A i \in DOMAIN Fallbacks(region[c]) : Fallbacks(region[c])[i] \in tried'[c]
      BY <3>0, <3>1, <3>2, <3>3, FallbacksType
    <3>5. QED
      BY <1>1, <2>2, <3>2, <3>3, <3>4 DEF Exhausted
  <2>3. QED
    BY <2>1, <2>2
<1>6. QED
  BY <1>2, <1>3, <1>4, <1>5

(* Every step keeps the invariant.                                         *)
LEMMA ResolverNextIInv == ResolverIInv /\ [ResolverNext]_resolverVars => ResolverIInv'
<1> SUFFICES ASSUME ResolverIInv, [ResolverNext]_resolverVars PROVE ResolverIInv'
  OBVIOUS
<1>1. CASE UNCHANGED resolverVars
  BY <1>1 DEF resolverVars, ResolverIInv, ResolverTypeOK, ResolverPlaceOK, TokenOK, Exhausted, Waiting,
              Refused
<1>2. ASSUME NEW c \in Callers, ResolverStep(c) \/ \E r \in Requests : Begin(c, r)
      PROVE  ResolverIInv'
  <2>1. ResolverTypeOK' /\ ResolverPlaceOK(c)' /\ TokenOK(c)' /\ Exhausted(c)'
    BY <1>2, BeginKeeps, SendKeeps, AnswerKeeps, RetryKeeps, FailOverKeeps, FailKeeps
       DEF ResolverStep
  <2>2. QED
    BY <1>2, <2>1, OnlyItsOwn DEF ResolverIInv
<1>3. QED
  BY <1>1, <1>2 DEF ResolverNext

(* The inductive invariant of RefResolver holds in every state: where a    *)
(* caller is, what it has tried and what the service holds of tokens fit   *)
(* together.                                                               *)
THEOREM ResolverAlwaysIInv == ResolverSpec => []ResolverIInv
BY ResolverInitIInv, ResolverNextIInv, PTL DEF ResolverSpec

-----------------------------------------------------------------------------
(* Every variable keeps to its type, and the attempts and fallbacks of a   *)
(* call to their limits, however many callers there are.                   *)
THEOREM ResolverTypeCorrect == ResolverSpec => []ResolverTypeOK
<1>1. ResolverIInv => ResolverTypeOK
  BY DEF ResolverIInv
<1>2. QED
  BY <1>1, ResolverAlwaysIInv, PTL

(* A caller that was refused because of its token does not send that token *)
(* again, whichever others have replaced the authenticator meanwhile.      *)
THEOREM RefusedTokenIsReplaced == ResolverSpec => NoRejectedTokenAgain
<1> DEFINE Replaced ==
      \A c \in Callers :
         /\ resolving[c] = "send" /\ resolving'[c] = "sent"
         /\ attempt[c] > 0 /\ lastErr[c] = "apikey"
         => token'[c] # token[c]
<1>1. ResolverIInv /\ ResolverNext => Replaced
  <2> SUFFICES ASSUME ResolverIInv, ResolverNext, NEW c \in Callers,
                      resolving[c] = "send", resolving'[c] = "sent",
                      attempt[c] > 0, lastErr[c] = "apikey"
               PROVE  token'[c] # token[c]
    OBVIOUS
  <2>1. token[c] < authenticator /\ token[c] \in Nat /\ authenticator \in Nat
    BY DEF ResolverIInv, TokenOK, ResolverTypeOK
  <2>2. Send(c)
    BY DEF ResolverNext, ResolverStep, Begin, Send, Answer, Retry, FailOver, Fail, ToSend,
           ResolverIInv, ResolverTypeOK
  <2>3. token'[c] = authenticator
    BY <2>2 DEF Send, ResolverIInv, ResolverTypeOK
  <2>4. QED
    BY <2>1, <2>3
<1>2. ResolverIInv /\ [ResolverNext]_resolverVars => [Replaced]_resolverVars
  BY <1>1
<1>3. QED
  BY <1>2, ResolverAlwaysIInv, PTL DEF ResolverSpec, NoRejectedTokenAgain

(* A caller is told of an error only after its region and every fallback   *)
(* of it have refused, or, outside of production, after every attempt.     *)
THEOREM ErrorsComeLast == ResolverSpec => []ErrorsAreExhaustive
<1>1. ResolverIInv => ErrorsAreExhaustive
  BY DEF ResolverIInv, Exhausted, ErrorsAreExhaustive
<1>2. QED
  BY <1>1, ResolverAlwaysIInv, PTL

-----------------------------------------------------------------------------
(* An entry is an answer about its key.  What the service was asked for is *)
(* stored in the moment of the answer; a version locator is as old as the  *)
(* offering it was computed from, which had not expired.                   *)
EntryOK(k) ==
  cache[k] # NoEntry =>
    /\ cache[k].answer.about = k
    /\ cache[k].stored <= now
    /\ IF k.cache = "locator" THEN cache[k].stored - cache[k].answer.at <= TTL
                              ELSE cache[k].answer.at = cache[k].stored

(* Only offerings are asked for together, and only for offerings and       *)
(* version locators.                                                       *)
CachePlaceOK(l) ==
  /\ pc[l] = "look" => wanted[l].cache # "offering"
  /\ pc[l] \in {"offering", "fly", "land"} => wanted[l].cache \in {"offering", "locator"}
  /\ pc[l] = "compute" => wanted[l].cache = "locator"

(* The answer that a lookup is about to use is the one it needs.           *)
AnswerOK(l) ==
  /\ pc[l] = "keep" => answer[l] = [about |-> At(l), at |-> now]
  /\ pc[l] = "compute" => now - answer[l].at <= TTL

(* Whoever others wait for is asking the service for what they want.       *)
FlightOK(k) == flight[k] # NoOne => pc[flight[k]] = "fetch" /\ At(flight[k]) = k

CacheIInv ==
  /\ CacheTypeOK
  /\ \A k \in Keys : EntryOK(k) /\ FlightOK(k)
  /\ \A l \in Lookups : CachePlaceOK(l) /\ AnswerOK(l)

-----------------------------------------------------------------------------
(* A key names its cache; a version locator's offering is a key as well.   *)
LEMMA KeyShape ==
  ASSUME NEW k \in Keys
  PROVE  /\ k.cache \in {"offering", "locator", "version", "references"}
         /\ k.cache = "locator" => OfferingOf(k) \in Keys /\ OfferingOf(k).cache = "offering"
<1>1. CASE \E o \in Offerings : k = OfferingKey(o)
  BY <1>1 DEF OfferingKey
<1>2. CASE \E v \in Versions : k = VersionKey(v) \/ k = ReferencesKey(v)
  BY <1>2 DEF VersionKey, ReferencesKey
<1>3. CASE \E o \in Offerings, c \in Constraints : k = LocatorKey(o, c)
  BY <1>3 DEF LocatorKey, OfferingOf, OfferingKey, Keys
<1>4. QED
  BY <1>1, <1>2, <1>3 DEF Keys

(* What a lookup looks up is a key.                                        *)
LEMMA AtType ==
  ASSUME CacheIInv, NEW l \in Lookups
  PROVE  wanted[l] \in Keys /\ At(l) \in Keys
<1>1. wanted[l] \in Keys
  BY DEF CacheIInv, CacheTypeOK
<1>2. QED
  BY <1>1, KeyShape DEF At

(* It holds of an empty cache.                                             *)
LEMMA CacheInitIInv == CacheInit => CacheIInv
<1> SUFFICES ASSUME CacheInit PROVE CacheIInv
  OBVIOUS
<1>1. PICK o \in Offerings : TRUE
  BY OfferingsAssumption
<1>2. OfferingKey(o) \in Keys
  BY DEF Keys
<1>3. (CHOOSE k \in Keys : TRUE) \in Keys
  BY <1>2
<1>4. NoAnswer \in Answers
  BY DEF NoAnswer, Answers
<1>5. NoEntry \in [answer : Answers, stored : Nat]
  BY <1>4 DEF NoEntry
<1>6. CacheTypeOK
  BY <1>3, <1>4, <1>5, MaxAssumption DEF CacheInit, CacheTypeOK
<1>7. QED
  BY <1>6 DEF CacheInit, CacheIInv, EntryOK, FlightOK, CachePlaceOK, AnswerOK

(* What is kept of a goroutine whose own place, wish and answer stay, as   *)
(* long as the clock stays too or it has no answer in hand.                *)
LEMMA CacheOthersKeep ==
  ASSUME CacheIInv, NEW l \in Lookups, pc'[l] = pc[l], wanted'[l] = wanted[l],
         answer'[l] = answer[l],
         now' = now \/ pc[l] \notin {"keep", "compute"}
  PROVE  CachePlaceOK(l)' /\ AnswerOK(l)' /\ At(l)' = At(l)
<1>1. CachePlaceOK(l) /\ AnswerOK(l)
  BY DEF CacheIInv
<1>2. At(l)' = At(l)
  BY DEF At
<1>3. CachePlaceOK(l)'
  BY <1>1 DEF CachePlaceOK
<1>4. AnswerOK(l)'
  BY <1>1, <1>2 DEF AnswerOK
<1>5. QED
  BY <1>2, <1>3, <1>4

(* Time passes.                                                            *)
LEMMA TickKeeps == CacheIInv /\ Tick => CacheIInv'
<1> SUFFICES ASSUME CacheIInv, Tick PROVE CacheIInv'
  OBVIOUS
<1>1. now \in Nat /\ now' = now + 1 /\ now' \in 0 .. MaxTime
  BY MaxAssumption DEF CacheIInv, CacheTypeOK, Tick
<1>2. UNCHANGED <<cache, flight, pc, wanted, answer, done>>
  BY DEF Tick
<1>3. CacheTypeOK'
  BY <1>1, <1>2 DEF CacheIInv, CacheTypeOK
<1>4. ASSUME NEW l \in Lookups PROVE CachePlaceOK(l)' /\ AnswerOK(l)' /\ At(l)' = At(l)
  BY <1>2, CacheOthersKeep DEF Tick
<1>5. ASSUME NEW k \in Keys PROVE EntryOK(k)'
  <2>1. EntryOK(k) /\ cache[k].stored \in Nat
    BY DEF CacheIInv, CacheTypeOK
  <2>2. QED
    BY <1>1, <1>2, <2>1 DEF EntryOK
<1>6. ASSUME NEW k \in Keys PROVE FlightOK(k)'
  <2>1. FlightOK(k) /\ flight[k] \in Lookups \cup {NoOne}
    BY DEF CacheIInv, CacheTypeOK
  <2>2. QED
    BY <1>2, <1>4, <2>1 DEF FlightOK
<1>7. QED
  BY <1>3, <1>4, <1>5, <1>6 DEF CacheIInv

(* The cache is emptied.                                                   *)
LEMMA ClearKeeps == CacheIInv /\ ClearCache => CacheIInv'
<1> SUFFICES ASSUME CacheIInv, ClearCache PROVE CacheIInv'
  OBVIOUS
<1>1. UNCHANGED <<now, flight, pc, wanted, answer, done>> /\ cache' = [k \in Keys |-> NoEntry]
  BY DEF ClearCache
<1>2. NoEntry \in [answer : Answers, stored : Nat]
  BY DEF NoEntry, NoAnswer, Answers
<1>3. CacheTypeOK'
  BY <1>1, <1>2 DEF CacheIInv, CacheTypeOK
<1>4. ASSUME NEW l \in Lookups PROVE CachePlaceOK(l)' /\ AnswerOK(l)' /\ At(l)' = At(l)
  BY <1>1, CacheOthersKeep
<1>5. ASSUME NEW k \in Keys PROVE EntryOK(k)' /\ FlightOK(k)'
  <2>1. EntryOK(k)'
    BY <1>1 DEF EntryOK
  <2>2. FlightOK(k) /\ flight[k] \in Lookups \cup {NoOne}
    BY DEF CacheIInv, CacheTypeOK
  <2>3. FlightOK(k)'
    BY <1>1, <1>4, <2>2 DEF FlightOK
  <2>4. QED
    BY <2>1, <2>3
<1>6. QED
  BY <1>3, <1>4, <1>5 DEF CacheIInv

-----------------------------------------------------------------------------
(* A step of one goroutine that is not the end of a request of its own:    *)
(* whoever others wait for is another one, or comes to be it by this step. *)
LEMMA StepKeeps ==
  ASSUME CacheIInv, NEW l \in Lookups, CacheTypeOK', now' = now,
         \A x \in Lookups \ {l} : /\ pc'[x] = pc[x] /\ wanted'[x] = wanted[x]
                                  /\ answer'[x] = answer[x],
         CachePlaceOK(l)', AnswerOK(l)',
         \A k \in Keys : EntryOK(k)',
         pc[l] # "fetch",
         \A k \in Keys : \/ flight'[k] = flight[k]
                         \/ flight'[k] = l /\ pc'[l] = "fetch" /\ At(l)' = k
  PROVE  CacheIInv'
<1>1. ASSUME NEW x \in Lookups \ {l} PROVE CachePlaceOK(x)' /\ AnswerOK(x)' /\ At(x)' = At(x)
  BY <1>1, CacheOthersKeep
<1>2. ASSUME NEW k \in Keys PROVE FlightOK(k)'
  <2>1. FlightOK(k) /\ flight[k] \in Lookups \cup {NoOne}
    BY DEF CacheIInv, CacheTypeOK
  <2>2. CASE flight'[k] = flight[k] /\ flight[k] # NoOne
    <3>1. pc[flight[k]] = "fetch" /\ At(flight[k]) = k /\ flight[k] \in Lookups
      BY <2>1, <2>2 DEF FlightOK
    <3>2. flight[k] \in Lookups \ {l}
      BY <3>1
    <3>3. pc'[flight[k]] = "fetch" /\ At(flight[k])' = k
      BY <1>1, <2>2, <3>1, <3>2
    <3>4. QED
      BY <2>2, <3>3 DEF FlightOK
  <2>3. CASE flight'[k] = flight[k] /\ flight[k] = NoOne
    BY <2>3 DEF FlightOK
  <2>4. CASE flight'[k] = l /\ pc'[l] = "fetch" /\ At(l)' = k
    BY <2>4 DEF FlightOK
  <2>5. QED
    BY <2>2, <2>3, <2>4
<1>3. QED
  BY <1>1, <1>2 DEF CacheIInv

(* Nothing of the cache changes.                                           *)
LEMMA EntriesStay ==
  ASSUME CacheIInv, now' = now, cache' = cache
  PROVE  \A k \in Keys : EntryOK(k)'
BY DEF CacheIInv, EntryOK

(* A lookup begins.                                                        *)
LEMMA AskKeeps ==
  ASSUME CacheIInv, NEW l \in Lookups, NEW k \in Keys, Ask(l, k)
  PROVE  CacheIInv'
<1>1. CacheTypeOK'
  <2>1. NoAnswer \in Answers
    BY DEF NoAnswer, Answers
  <2>2. done' \in 0 .. MaxLookups
    BY MaxAssumption DEF Ask, CacheIInv, CacheTypeOK
  <2>3. QED
    BY <2>1, <2>2 DEF Ask, To, CacheIInv, CacheTypeOK
<1>2. CachePlaceOK(l)' /\ AnswerOK(l)'
  BY KeyShape DEF Ask, To, CachePlaceOK, AnswerOK, CacheIInv, CacheTypeOK
<1>3. \A j \in Keys : EntryOK(j)'
  BY EntriesStay DEF Ask
<1>4. \A x \in Lookups \ {l} : /\ pc'[x] = pc[x] /\ wanted'[x] = wanted[x]
                               /\ answer'[x] = answer[x]
  BY DEF Ask, To, CacheIInv, CacheTypeOK
<1>5. pc[l] # "fetch" /\ now' = now /\ flight' = flight
  BY DEF Ask
<1>6. QED
  BY <1>1, <1>2, <1>3, <1>4, <1>5, StepKeeps

(* What the cache answers is an answer about the key that is no older than *)
(* its age allows; an offering or references are not older than the time   *)
(* to live.                                                                *)
LEMMA HitRight ==
  ASSUME CacheIInv, NEW k \in Keys, Hit(k)
  PROVE  /\ cache[k].answer \in Answers /\ cache[k].answer.about = k
         /\ k.cache # "locator" => now - cache[k].answer.at <= TTL
         /\ k.cache = "locator" => now - cache[k].answer.at <= 2 * TTL
<1>1. EntryOK(k) /\ cache[k] # NoEntry /\ cache[k] \in [answer : Answers, stored : Nat]
  BY DEF CacheIInv, CacheTypeOK, Hit
<1>2. cache[k].answer \in Answers /\ cache[k].stored \in Nat /\ cache[k].answer.at \in Nat
  BY <1>1 DEF Answers
<1>3. now - cache[k].stored <= TTL /\ now \in Nat /\ TTL \in Nat
  BY TTLAssumption DEF Hit, IsExpired, CacheIInv, CacheTypeOK
<1>4. QED
  BY <1>1, <1>2, <1>3 DEF EntryOK

(* What HitOrElse does, whether or not it may use the cache.               *)
Looks(l, hit, miss) ==
  /\ \/ /\ Hit(At(l))
        /\ answer' = [answer EXCEPT ![l] = cache[At(l)].answer]
        /\ To(l, hit)
     \/ answer' = answer /\ To(l, miss)
  /\ UNCHANGED <<now, cache, flight, wanted, done>>

(* A look at the cache keeps the invariant.                                *)
LEMMA LooksKeeps ==
  ASSUME CacheIInv, NEW l \in Lookups, NEW hit, NEW miss,
         pc[l] \in {"look", "offering"},
         hit \in {"done", "compute"}, miss \in {"fetch", "offering", "fly"},
         hit = "compute" => wanted[l].cache = "locator" /\ pc[l] = "offering",
         miss # "fetch" => wanted[l].cache \in {"offering", "locator"},
         Looks(l, hit, miss)
  PROVE  CacheIInv'
<1>1. UNCHANGED <<now, cache, flight, wanted, done>>
  BY DEF Looks
<1>2. At(l) \in Keys
  BY AtType
<1>3. \/ answer' = [answer EXCEPT ![l] = cache[At(l)].answer] /\ To(l, hit) /\ Hit(At(l))
      \/ answer' = answer /\ To(l, miss)
  BY DEF Looks
<1>4. answer' \in [Lookups -> Answers]
  BY <1>2, <1>3, HitRight DEF CacheIInv, CacheTypeOK
<1>5. pc' \in [Lookups -> {"idle", "look", "offering", "fly", "land", "fetch", "keep",
                           "compute", "done"}] /\ pc'[l] \in {hit, miss}
  BY <1>3 DEF To, CacheIInv, CacheTypeOK
<1>6. CacheTypeOK'
  BY <1>1, <1>4, <1>5 DEF CacheIInv, CacheTypeOK
<1>7. CachePlaceOK(l)'
  BY <1>1, <1>5 DEF CachePlaceOK
<1>8. AnswerOK(l)'
  <2>1. CASE pc'[l] = "compute"
    <3>1. Hit(At(l)) /\ answer'[l] = cache[At(l)].answer /\ hit = "compute"
      BY <1>3, <1>5, <2>1 DEF To, CacheIInv, CacheTypeOK
    <3>2. At(l) = OfferingOf(wanted[l]) /\ At(l).cache = "offering"
      BY <3>1, AtType, KeyShape DEF At
    <3>3. QED
      BY <1>1, <1>2, <2>1, <3>1, <3>2, HitRight DEF AnswerOK
  <2>2. CASE pc'[l] # "compute"
    BY <1>5, <2>2 DEF AnswerOK
  <2>3. QED
    BY <2>1, <2>2
<1>9. \A x \in Lookups \ {l} : /\ pc'[x] = pc[x] /\ wanted'[x] = wanted[x]
                               /\ answer'[x] = answer[x]
  BY <1>1, <1>3 DEF To, CacheIInv, CacheTypeOK
<1>10. \A k \in Keys : EntryOK(k)'
  BY <1>1, EntriesStay
<1>11. QED
  BY <1>1, <1>6, <1>7, <1>8, <1>9, <1>10, StepKeeps

(* A lookup looks into the cache.                                          *)
LEMMA LookKeeps ==
  ASSUME CacheIInv, NEW l \in Lookups,
         \/ GetOffering(l) \/ GetVersionLocator(l)
         \/ GetCatalogVersionByLocator(l) \/ GetComponentReferences(l)
  PROVE  CacheIInv'
<1>1. CASE GetOffering(l)
  <2>1. pc[l] = "offering" /\ Looks(l, Returns(l), "fly")
    BY <1>1 DEF GetOffering, HitOrElse, Looks
  <2>2. wanted[l].cache \in {"offering", "locator"}
    BY <2>1 DEF CacheIInv, CachePlaceOK
  <2>3. Returns(l) \in {"done", "compute"}
        /\ (Returns(l) = "compute" => wanted[l].cache = "locator")
    BY DEF Returns
  <2>4. QED
    BY <2>1, <2>2, <2>3, LooksKeeps
<1>2. CASE GetVersionLocator(l)
  <2>1. pc[l] = "look" /\ Looks(l, "done", "offering")
    BY <1>2 DEF GetVersionLocator, HitOrElse, Looks
  <2>2. QED
    BY <1>2, <2>1, LooksKeeps DEF GetVersionLocator
<1>3. CASE GetCatalogVersionByLocator(l)
  <2>1. pc[l] = "look" /\ Looks(l, "done", "fetch")
    BY <1>3 DEF GetCatalogVersionByLocator, HitOrElse, Looks
  <2>2. QED
    BY <1>3, <2>1, LooksKeeps DEF GetCatalogVersionByLocator
<1>4. CASE GetComponentReferences(l)
  <2>1. pc[l] = "look" /\ Looks(l, "done", "fetch")
    BY <1>4 DEF GetComponentReferences, HitOrElse, Looks
  <2>2. QED
    BY <1>4, <2>1, LooksKeeps DEF GetComponentReferences
<1>5. QED
  BY <1>1, <1>2, <1>3, <1>4

(* A lookup joins or starts a flight.                                      *)
LEMMA FlyKeeps ==
  ASSUME CacheIInv, NEW l \in Lookups, Fly(l)
  PROVE  CacheIInv'
<1>1. pc[l] = "fly" /\ UNCHANGED <<now, cache, wanted, answer, done>>
  BY DEF Fly
<1>2. At(l) \in Keys /\ wanted[l].cache \in {"offering", "locator"}
  BY <1>1, AtType DEF CacheIInv, CachePlaceOK
<1>3. \/ flight' = [flight EXCEPT ![At(l)] = l] /\ To(l, "fetch")
      \/ flight' = flight /\ To(l, "land")
  BY DEF Fly, SingleflightKey
<1>4. pc' \in [Lookups -> {"idle", "look", "offering", "fly", "land", "fetch", "keep",
                           "compute", "done"}] /\ pc'[l] \in {"fetch", "land"}
  BY <1>3 DEF To, CacheIInv, CacheTypeOK
<1>5. CacheTypeOK'
  <2>1. flight' \in [Keys -> Lookups \cup {NoOne}]
    BY <1>2, <1>3 DEF CacheIInv, CacheTypeOK
  <2>2. QED
    BY <1>1, <1>4, <2>1 DEF CacheIInv, CacheTypeOK
<1>6. CachePlaceOK(l)' /\ AnswerOK(l)'
  BY <1>1, <1>2, <1>4 DEF CachePlaceOK, AnswerOK
<1>7. \A x \in Lookups \ {l} : /\ pc'[x] = pc[x] /\ wanted'[x] = wanted[x]
                               /\ answer'[x] = answer[x]
  BY <1>1, <1>3 DEF To, CacheIInv, CacheTypeOK
<1>8. At(l)' = At(l)
  BY <1>1, <1>4 DEF At
<1>9. \A k \in Keys : \/ flight'[k] = flight[k]
                      \/ flight'[k] = l /\ pc'[l] = "fetch" /\ At(l)' = k
  BY <1>2, <1>3, <1>8 DEF To, CacheIInv, CacheTypeOK
<1>10. \A k \in Keys : EntryOK(k)'
  BY <1>1, EntriesStay
<1>11. QED
  BY <1>1, <1>5, <1>6, <1>7, <1>9, <1>10, StepKeeps

(* The answer of the service goes to those who have asked for that key.    *)
LEMMA FetchKeeps ==
  ASSUME CacheIInv, NEW l \in Lookups, Fetch(l)
  PROVE  CacheIInv'
<1> DEFINE together == Passengers(l, At(l))
           got == [about |-> At(l), at |-> now]
<1>1. /\ pc[l] = "fetch" /\ UNCHANGED <<now, cache, wanted, done>>
      /\ answer' = [x \in Lookups |-> IF x \in together THEN got ELSE answer[x]]
      /\ pc' = [x \in Lookups |-> IF x \in together THEN "keep" ELSE pc[x]]
      /\ flight' = [f \in Keys |-> IF flight[f] = l THEN NoOne ELSE flight[f]]
  BY DEF Fetch
<1>2. ASSUME NEW x \in Lookups, x \in together
      PROVE  At(x) = At(l) /\ At(x)' = At(x) /\ pc[x] \in {"fetch", "land"}
  <2>1. x = l \/ (pc[x] = "land" /\ flight[At(x)] = l)
    BY <1>2 DEF Passengers, SingleflightKey
  <2>2. At(x) \in Keys /\ l # NoOne
    BY AtType, NoOneAssumption
  <2>3. At(x) = At(l) /\ pc[x] \in {"fetch", "land"}
    BY <1>1, <2>1, <2>2 DEF CacheIInv, FlightOK
  <2>4. pc'[x] = "keep" /\ wanted'[x] = wanted[x]
    BY <1>1, <1>2
  <2>5. At(x)' = At(x)
    BY <2>3, <2>4 DEF At
  <2>6. QED
    BY <2>3, <2>5
<1>3. got \in Answers
  BY AtType DEF Answers, CacheIInv, CacheTypeOK
<1>4. CacheTypeOK'
  <2>1. answer' \in [Lookups -> Answers]
    BY <1>1, <1>3 DEF CacheIInv, CacheTypeOK
  <2>2. pc' \in [Lookups -> {"idle", "look", "offering", "fly", "land", "fetch", "keep",
                             "compute", "done"}]
    BY <1>1 DEF CacheIInv, CacheTypeOK
  <2>3. flight' \in [Keys -> Lookups \cup {NoOne}]
    BY <1>1 DEF CacheIInv, CacheTypeOK
  <2>4. QED
    BY <1>1, <2>1, <2>2, <2>3 DEF CacheIInv, CacheTypeOK
<1>5. ASSUME NEW x \in Lookups, x \notin together
      PROVE  /\ pc'[x] = pc[x] /\ wanted'[x] = wanted[x] /\ answer'[x] = answer[x]
             /\ CachePlaceOK(x)' /\ AnswerOK(x)' /\ At(x)' = At(x)
  <2>1. pc'[x] = pc[x] /\ wanted'[x] = wanted[x] /\ answer'[x] = answer[x] /\ now' = now
    BY <1>1, <1>5
  <2>2. QED
    BY <2>1, CacheOthersKeep
<1>6. ASSUME NEW x \in Lookups PROVE CachePlaceOK(x)' /\ AnswerOK(x)'
  <2>1. CASE x \in together
    <3>1. pc'[x] = "keep" /\ answer'[x] = got /\ now' = now
      BY <1>1, <2>1
    <3>2. At(x)' = At(l)
      BY <1>2, <2>1
    <3>3. QED
      BY <3>1, <3>2 DEF CachePlaceOK, AnswerOK
  <2>2. CASE x \notin together
    BY <1>5, <2>2
  <2>3. QED
    BY <2>1, <2>2
<1>7. ASSUME NEW k \in Keys PROVE FlightOK(k)'
  <2>1. FlightOK(k) /\ flight[k] \in Lookups \cup {NoOne}
    BY DEF CacheIInv, CacheTypeOK
  <2>2. CASE flight[k] \notin {l, NoOne}
    <3>1. flight'[k] = flight[k] /\ flight[k] \in Lookups
      BY <1>1, <2>1, <2>2
    <3>2. pc[flight[k]] = "fetch" /\ At(flight[k]) = k
      BY <2>1, <2>2 DEF FlightOK
    <3>3. flight[k] \notin together
      BY <2>2, <3>2 DEF Passengers
    <3>4. pc'[flight[k]] = "fetch" /\ At(flight[k])' = k
      BY <1>5, <3>1, <3>2, <3>3
    <3>5. QED
      BY <3>1, <3>4 DEF FlightOK
  <2>3. CASE flight[k] \in {l, NoOne}
    BY <1>1, <2>3 DEF FlightOK
  <2>4. QED
    BY <2>2, <2>3
<1>8. \A k \in Keys : EntryOK(k)'
  BY <1>1, EntriesStay
<1>9. QED
  BY <1>4, <1>6, <1>7, <1>8 DEF CacheIInv

(* An answer that is stored makes a right entry.                           *)
LEMMA StoreRight ==
  ASSUME CacheIInv, NEW k \in Keys, NEW a \in Answers, Store(k, a), now' = now,
         a.about = k,
         k.cache # "locator" => a.at = now,
         k.cache = "locator" => now - a.at <= TTL
  PROVE  /\ cache' \in [Keys -> [answer : Answers, stored : Nat]]
         /\ \A j \in Keys : EntryOK(j)'
<1>1. now \in Nat /\ cache \in [Keys -> [answer : Answers, stored : Nat]]
  BY DEF CacheIInv, CacheTypeOK
<1>2. cache' \in [Keys -> [answer : Answers, stored : Nat]]
  BY <1>1 DEF Store
<1>3. ASSUME NEW j \in Keys PROVE EntryOK(j)'
  <2>1. CASE j = k
    <3>1. cache'[k].answer = a /\ cache'[k].stored = now
      BY <1>1 DEF Store
    <3>2. QED
      BY <1>1, <2>1, <3>1 DEF EntryOK
  <2>2. CASE j # k
    <3>1. cache'[j] = cache[j] /\ EntryOK(j)
      BY <1>1, <2>2 DEF Store, CacheIInv
    <3>2. QED
      BY <3>1 DEF EntryOK
  <2>3. QED
    BY <2>1, <2>2
<1>4. QED
  BY <1>2, <1>3

(* An answer is kept.                                                      *)
LEMMA KeepKeeps ==
  ASSUME CacheIInv, NEW l \in Lookups, Keep(l)
  PROVE  CacheIInv' /\ answer'[l] = [about |-> At(l), at |-> now]
<1>1. /\ pc[l] = "keep" /\ Store(At(l), answer[l])
      /\ UNCHANGED <<now, flight, wanted, answer, done>>
  BY DEF Keep
<1>2. answer[l] = [about |-> At(l), at |-> now] /\ answer[l] \in Answers
      /\ answer \in [Lookups -> Answers]
  BY <1>1 DEF CacheIInv, AnswerOK, CacheTypeOK
<1>3. At(l) \in Keys /\ wanted[l] \in Keys /\ At(l).cache # "locator"
  BY <1>1, AtType, KeyShape DEF At
<1>4. answer[l].about = At(l) /\ answer[l].at = now
  BY <1>2
<1>5. /\ cache' \in [Keys -> [answer : Answers, stored : Nat]]
      /\ \A j \in Keys : EntryOK(j)'
  BY <1>1, <1>2, <1>3, <1>4, StoreRight
<1>6. pc'[l] \in {"done", "compute"} /\ (pc'[l] = "compute" => wanted[l].cache = "locator")
      /\ pc' \in [Lookups -> {"idle", "look", "offering", "fly", "land", "fetch", "keep",
                              "compute", "done"}]
  BY DEF Keep, To, Returns, CacheIInv, CacheTypeOK
<1>7. CacheTypeOK'
  BY <1>1, <1>5, <1>6 DEF CacheIInv, CacheTypeOK
<1>8. CachePlaceOK(l)'
  BY <1>1, <1>6 DEF CachePlaceOK
<1>9. AnswerOK(l)'
  <2>1. now' - answer'[l].at <= TTL
    BY <1>1, <1>4, TTLAssumption DEF CacheIInv, CacheTypeOK
  <2>2. QED
    BY <1>6, <2>1 DEF AnswerOK
<1>10. \A x \in Lookups \ {l} : /\ pc'[x] = pc[x] /\ wanted'[x] = wanted[x]
                                /\ answer'[x] = answer[x]
  BY <1>1 DEF Keep, To, CacheIInv, CacheTypeOK
<1>11. CacheIInv'
  BY <1>1, <1>5, <1>7, <1>8, <1>9, <1>10, StepKeeps
<1>12. QED
  BY <1>1, <1>2, <1>11

(* A locator is computed from an offering.                                 *)
LEMMA ComputeKeeps ==
  ASSUME CacheIInv, NEW l \in Lookups, Compute(l)
  PROVE  CacheIInv' /\ answer'[l].about = wanted[l] /\ now - answer'[l].at <= TTL
<1> DEFINE located == [about |-> wanted[l], at |-> answer[l].at]
<1>1. /\ pc[l] = "compute" /\ Store(wanted[l], located) /\ To(l, "done")
      /\ answer' = [answer EXCEPT ![l] = located]
      /\ UNCHANGED <<now, flight, wanted, done>>
  BY DEF Compute
<1>2. /\ wanted[l] \in Keys /\ wanted[l].cache = "locator" /\ now - answer[l].at <= TTL
      /\ answer[l].at \in Nat
  BY <1>1, AtType DEF CacheIInv, CachePlaceOK, AnswerOK, CacheTypeOK, Answers
<1>3. located \in Answers /\ located.about = wanted[l] /\ located.at = answer[l].at
  BY <1>2 DEF Answers
<1>4. /\ cache' \in [Keys -> [answer : Answers, stored : Nat]]
      /\ \A j \in Keys : EntryOK(j)'
  <2> HIDE DEF located
  <2>1. QED
    BY <1>1, <1>2, <1>3, StoreRight
<1>5. answer' \in [Lookups -> Answers] /\ answer'[l] = located
  <2> HIDE DEF located
  <2>1. QED
    BY <1>1, <1>3 DEF CacheIInv, CacheTypeOK
<1>6. pc'[l] = "done"
      /\ pc' \in [Lookups -> {"idle", "look", "offering", "fly", "land", "fetch", "keep",
                              "compute", "done"}]
  BY <1>1 DEF To, CacheIInv, CacheTypeOK
<1>7. CacheTypeOK'
  BY <1>1, <1>4, <1>5, <1>6 DEF CacheIInv, CacheTypeOK
<1>8. CachePlaceOK(l)' /\ AnswerOK(l)'
  BY <1>6 DEF CachePlaceOK, AnswerOK
<1>9. \A x \in Lookups \ {l} : /\ pc'[x] = pc[x] /\ wanted'[x] = wanted[x]
                               /\ answer'[x] = answer[x]
  BY <1>1 DEF To, CacheIInv, CacheTypeOK
<1>10. CacheIInv'
  BY <1>1, <1>4, <1>7, <1>8, <1>9, StepKeeps
<1>11. QED
  BY <1>2, <1>3, <1>5, <1>10

(* Every step keeps the invariant.                                         *)
LEMMA CacheNextIInv == CacheIInv /\ [CacheNext]_cacheVars => CacheIInv'
<1> SUFFICES ASSUME CacheIInv, [CacheNext]_cacheVars PROVE CacheIInv'
  OBVIOUS
<1>1. CASE UNCHANGED cacheVars
  BY <1>1 DEF cacheVars, CacheIInv, CacheTypeOK, EntryOK, CachePlaceOK, AnswerOK, FlightOK, At
<1>2. ASSUME NEW l \in Lookups, LookupStep(l) PROVE CacheIInv'
  BY <1>2, LookKeeps, FlyKeeps, FetchKeeps, KeepKeeps, ComputeKeeps DEF LookupStep
<1>3. QED
  BY <1>1, <1>2, TickKeeps, ClearKeeps, AskKeeps DEF CacheNext

(* The inductive invariant of ApiCache holds in every state: what the      *)
(* cache, the flights and the lookups hold is about what they were asked,  *)
(* and as old as they say.                                                 *)
THEOREM CacheAlwaysIInv == CacheSpec => []CacheIInv
BY CacheInitIInv, CacheNextIInv, PTL DEF CacheSpec

-----------------------------------------------------------------------------
(* Every variable keeps to its type, for any number of lookups.            *)
THEOREM CacheTypeCorrect == CacheSpec => []CacheTypeOK
<1>1. CacheIInv => CacheTypeOK
  BY DEF CacheIInv
<1>2. QED
  BY <1>1, CacheAlwaysIInv, PTL

(* A lookup that the cache answers returns what it has asked for.          *)
LEMMA HitReturns ==
  ASSUME CacheIInv, NEW l \in Lookups, NEW hit, NEW miss,
         pc[l] \in {"look", "offering"},
         pc[l] = "offering" /\ hit = "done" => wanted[l].cache = "offering",
         miss # "done", ~(wanted[l].cache = "version" /\ Bypass),
         Looks(l, hit, miss), pc'[l] = "done"
  PROVE  answer'[l].about = wanted[l] /\ now - answer'[l].at <= Age(wanted[l])
<1>1. Hit(At(l)) /\ answer'[l] = cache[At(l)].answer /\ hit = "done"
  BY DEF Looks, To, CacheIInv, CacheTypeOK
<1>2. At(l) = wanted[l] /\ wanted[l] \in Keys
  BY <1>1, AtType DEF At
<1>3. answer'[l].about = wanted[l]
  BY <1>1, <1>2, HitRight
<1>4. CASE wanted[l].cache = "locator"
  BY <1>1, <1>2, <1>4, HitRight DEF Age
<1>5. CASE wanted[l].cache # "locator"
  BY <1>1, <1>2, <1>5, HitRight DEF Age
<1>6. QED
  BY <1>3, <1>4, <1>5

(* What a lookup returns is an answer to what it has asked for, and no     *)
(* older than its age allows, whatever other lookups store, share and      *)
(* clear meanwhile.                                                        *)
THEOREM LookupsReturnFreshAnswers == CacheSpec => AnswersAreRightAndFresh
<1> DEFINE Right ==
      \A l \in Lookups : pc[l] # "done" /\ pc'[l] = "done" =>
         /\ answer'[l].about = wanted[l]
         /\ now - answer'[l].at <= Age(wanted[l])
<1>1. ASSUME CacheIInv, CacheNext PROVE Right
  <2> SUFFICES ASSUME NEW l \in Lookups, pc[l] # "done", pc'[l] = "done"
               PROVE  answer'[l].about = wanted[l] /\ now - answer'[l].at <= Age(wanted[l])
    OBVIOUS
  <2>1. LookupStep(l)
    <3>1. ASSUME NEW x \in Lookups, NEW k \in Keys, Ask(x, k) PROVE FALSE
      BY <3>1 DEF Ask, To, CacheIInv, CacheTypeOK
    <3>2. ~Tick /\ ~ClearCache
      BY DEF Tick, ClearCache
    <3>3. ASSUME NEW x \in Lookups, LookupStep(x), x # l PROVE FALSE
      <4>1. CASE Fetch(x)
        BY <1>1, <4>1 DEF Fetch, CacheIInv, CacheTypeOK
      <4>2. CASE Fly(x) \/ Keep(x) \/ Compute(x)
        BY <1>1, <3>3, <4>2 DEF Fly, Keep, Compute, To, CacheIInv, CacheTypeOK
      <4>3. ASSUME NEW hit, NEW miss, Looks(x, hit, miss) PROVE FALSE
        BY <1>1, <3>3, <4>3 DEF Looks, To, CacheIInv, CacheTypeOK
      <4>4. CASE GetOffering(x) \/ GetVersionLocator(x)
        BY <4>3, <4>4 DEF GetOffering, GetVersionLocator, HitOrElse, Looks
      <4>5. CASE GetCatalogVersionByLocator(x) \/ GetComponentReferences(x)
        BY <4>3, <4>5 DEF GetCatalogVersionByLocator, GetComponentReferences, HitOrElse, Looks
      <4>6. QED
        BY <3>3, <4>1, <4>2, <4>4, <4>5 DEF LookupStep
    <3>4. QED
      BY <1>1, <3>1, <3>2, <3>3 DEF CacheNext
  <2>2. wanted[l] \in Keys /\ TTL \in Nat /\ now \in Nat
    BY <1>1, AtType, TTLAssumption DEF CacheIInv, CacheTypeOK
  <2>3. Age(wanted[l]) \in Nat /\ (wanted[l].cache = "locator" => Age(wanted[l]) = 2 * TTL)
    BY <2>2 DEF Age
  <2>4. CASE GetOffering(l)
    <3>1. pc[l] = "offering" /\ Looks(l, Returns(l), "fly")
      BY <2>4 DEF GetOffering, HitOrElse, Looks
    <3>2. wanted[l].cache \in {"offering", "locator"}
      BY <1>1, <3>1 DEF CacheIInv, CachePlaceOK
    <3>3. Returns(l) = "done" => wanted[l].cache = "offering"
      BY <3>2 DEF Returns
    <3>4. QED
      BY <1>1, <3>1, <3>2, <3>3, HitReturns
  <2>5. CASE GetVersionLocator(l)
    <3>1. pc[l] = "look" /\ wanted[l].cache = "locator" /\ Looks(l, "done", "offering")
      BY <2>5 DEF GetVersionLocator, HitOrElse, Looks
    <3>2. QED
      BY <1>1, <3>1, HitReturns
  <2>6. CASE GetCatalogVersionByLocator(l)
    <3>1. pc[l] = "look" /\ Looks(l, "done", "fetch")
      BY <2>6 DEF GetCatalogVersionByLocator, HitOrElse, Looks
    <3>2. ~Bypass
      BY <1>1, <2>6 DEF GetCatalogVersionByLocator, HitOrElse, To, CacheIInv, CacheTypeOK
    <3>3. QED
      BY <1>1, <3>1, <3>2, HitReturns
  <2>7. CASE GetComponentReferences(l)
    <3>1. pc[l] = "look" /\ wanted[l].cache = "references" /\ Looks(l, "done", "fetch")
      BY <2>7 DEF GetComponentReferences, HitOrElse, Looks
    <3>2. QED
      BY <1>1, <3>1, HitReturns
  <2>8. CASE Fly(l) \/ Fetch(l)
    BY <1>1, <2>8 DEF Fly, Fetch, Passengers, To, CacheIInv, CacheTypeOK
  <2>9. CASE Keep(l)
    <3>1. answer'[l] = [about |-> At(l), at |-> now]
      BY <1>1, <2>9, KeepKeeps
    <3>2. At(l) = wanted[l]
      BY <1>1, <2>2, <2>9, KeyShape DEF Keep, To, At, Returns, CacheIInv, CacheTypeOK
    <3>3. QED
      BY <2>2, <2>3, <3>1, <3>2
  <2>10. CASE Compute(l)
    <3>1. answer'[l].about = wanted[l] /\ now - answer'[l].at <= TTL
      BY <1>1, <2>10, ComputeKeeps
    <3>2. wanted[l].cache = "locator"
      BY <1>1, <2>10 DEF Compute, CacheIInv, CachePlaceOK
    <3>3. answer'[l].at \in Nat
      BY <1>1, <2>10, ComputeKeeps DEF CacheIInv, CacheTypeOK, Answers
    <3>4. QED
      BY <2>2, <2>3, <3>1, <3>2, <3>3
  <2>11. QED
    BY <2>1, <2>4, <2>5, <2>6, <2>7, <2>8, <2>9, <2>10 DEF LookupStep
<1>2. CacheIInv /\ [CacheNext]_cacheVars => [Right]_cacheVars
  BY <1>1
<1>3. QED
  BY <1>2, CacheAlwaysIInv, PTL DEF CacheSpec, AnswersAreRightAndFresh

-----------------------------------------------------------------------------
(* A region that a test may still be given.                                *)
UsedFor(data, r) == \E i \in DOMAIN data : data[i].name = r /\ data[i].use

RegionTypeOK ==
    /\ regionsData \in Seq(RegionData)
    /\ lock \in Testers \cup {NoTester}
    /\ choosing \in [Testers -> {"start", "configured", "vpc", "count", "power", "chosen", "error"}]
    /\ regions \in Seq(RegionNames)
    /\ best \in {NoBest} \cup [name : RegionNames, count : Nat]
    /\ chosen \in [Testers -> RegionNames \cup {NoName, DefaultRegion}]
    /\ account \in [available : SUBSET RegionNames, count : [RegionNames -> Nat]]

(* A test that chooses holds the lock.                                     *)
Holder == \A t \in Testers : choosing[t] \in {"vpc", "count", "power"} => lock = t

(* A choice begins with none.                                              *)
Fresh == \A t \in Testers : choosing[t] = "vpc" => best = NoBest

(* What a test may choose has been given to no other.                      *)
Offered ==
    \A t \in Testers : choosing[t] = "count" =>
        /\ \A i \in DOMAIN regions : UsedFor(regionsData, regions[i])
        /\ best # NoBest => UsedFor(regionsData, best.name)

(* What a test has been given is marked, unless the list names it again.   *)
GivenAreMarked ==
    \A t \in Testers : chosen[t] \notin {NoName, DefaultRegion} =>
        /\ regionsData # <<>>
        /\ NamedOnce(regionsData, chosen[t]) => ~UsedFor(regionsData, chosen[t])

RegionIInv == RegionTypeOK /\ Holder /\ Fresh /\ Offered /\ GivenAreMarked /\ OneTestPerRegion

-----------------------------------------------------------------------------
(* What the assumptions say of names, tests and entries.                   *)
LEMMA RegionTypes ==
  /\ IsFiniteSet(RegionNames) /\ NoName \notin RegionNames
  /\ NoTester \notin Testers
  /\ \A d \in RegionData : d.name \in RegionNames /\ d.use \in BOOLEAN /\ d.priority \in Int
BY RegionsAssumption, NoTesterAssumption DEF RegionData

(* An entry that is marked as used.                                        *)
LEMMA NotForTests ==
  ASSUME NEW d \in RegionData
  PROVE  /\ [d EXCEPT !.use = FALSE] \in RegionData
         /\ [d EXCEPT !.use = FALSE].name = d.name
         /\ [d EXCEPT !.use = FALSE].use = FALSE
BY DEF RegionData

(* A list that offers no region that another does not offer, and names one *)
(* once only if the other does.                                            *)
NoMoreThan(new, data) ==
    \A q : /\ UsedFor(new, q) => UsedFor(data, q)
           /\ NamedOnce(new, q) => NamedOnce(data, q)

(* The places that were asked for, each once.                              *)
IsOrder(p, n, places) ==
    /\ p \in [1 .. n -> places]
    /\ \A i, k \in 1 .. n : p[i] = p[k] => i = k
    /\ \A j \in places : \E i \in 1 .. n : p[i] = j

(* What is put in the order of its priority is there once.                 *)
LEMMA OrderOfPlaces ==
  ASSUME NEW data \in Seq(RegionData), NEW places \in SUBSET DOMAIN data,
         NEW p \in PriorityOrders(data, places)
  PROVE  \E n \in Nat : IsOrder(p, n, places)
<1>1. IsFiniteSet(places)
  <2>1. IsFiniteSet(1 .. Len(data))
    BY FS_Interval
  <2> QED
    BY <2>1, FS_Subset
<1>2. PICK n \in Nat : n = Cardinality(places)
  BY <1>1, FS_CardinalityType
<1>3. p \in [1 .. n -> places] /\ \A i, k \in 1 .. n : i # k => p[i] # p[k]
  BY <1>2 DEF PriorityOrders, SetToSeqs
<1>4. IsFiniteSet(1 .. n) /\ Cardinality(1 .. n) = n
  BY FS_Interval
<1>5. p \in Injection(1 .. n, places)
  BY <1>3 DEF Injection, IsInjective
<1>6. p \in Surjection(1 .. n, places)
  BY <1>1, <1>2, <1>4, <1>5, FS_Injection
<1> QED
  BY <1>2, <1>3, <1>6 DEF Surjection, IsOrder

(* The list that is sorted in place says no more than before.              *)
LEMMA SortedData ==
  ASSUME NEW data \in Seq(RegionData), NEW p \in PriorityOrders(data, DOMAIN data),
         NEW sorted, sorted = [i \in DOMAIN p |-> data[p[i]]]
  PROVE  /\ sorted \in Seq(RegionData)
         /\ data # <<>> => sorted # <<>>
         /\ NoMoreThan(sorted, data)
<1>1. PICK n \in Nat :
          /\ p \in [1 .. n -> DOMAIN data]
          /\ \A i, k \in 1 .. n : p[i] = p[k] => i = k
          /\ \A j \in DOMAIN data : \E i \in 1 .. n : p[i] = j
  <2>1. PICK places \in SUBSET DOMAIN data : places = DOMAIN data
    OBVIOUS
  <2>2. p \in PriorityOrders(data, places)
    BY <2>1
  <2>3. PICK n \in Nat : IsOrder(p, n, places)
    BY <2>1, <2>2, OrderOfPlaces
  <2> QED
    BY <2>1, <2>3 DEF IsOrder
<1>2. sorted \in [1 .. n -> RegionData] /\ \A i \in 1 .. n : sorted[i] = data[p[i]]
  <2>1. \A i \in 1 .. n : p[i] \in DOMAIN data /\ data[p[i]] \in RegionData
    BY <1>1
  <2> QED
    BY <1>1, <2>1
<1>3. sorted \in Seq(RegionData) /\ DOMAIN sorted = 1 .. n
  BY <1>2, SeqFromFunction
<1>4. ASSUME data # <<>> PROVE sorted # <<>>
  <2>1. 1 \in DOMAIN data
    BY <1>4
  <2> QED
    BY <1>1, <1>3, <2>1
<1>5. ASSUME NEW q PROVE UsedFor(sorted, q) => UsedFor(data, q)
  BY <1>1, <1>2, <1>3 DEF UsedFor
<1>6. ASSUME NEW q, NamedOnce(sorted, q),
             NEW i \in DOMAIN data, NEW k \in DOMAIN data, data[i].name = q, data[k].name = q
      PROVE  i = k
  <2>1. PICK a \in 1 .. n : p[a] = i
    BY <1>1
  <2>2. PICK b \in 1 .. n : p[b] = k
    BY <1>1
  <2>3. sorted[a].name = q /\ sorted[b].name = q
    BY <1>2, <1>6, <2>1, <2>2
  <2>4. a = b
    BY <1>3, <1>6, <2>3 DEF NamedOnce
  <2> QED
    BY <2>1, <2>2, <2>4
<1> QED
  BY <1>3, <1>4, <1>5, <1>6 DEF NoMoreThan, NamedOnce

(* A list from which a region is taken says no more than before, and does  *)
(* not offer that region, if it named it once.                             *)
LEMMA RegionRemoved ==
  ASSUME NEW data \in Seq(RegionData), NEW r, NEW new, new = RemoveRegionForTest(data, r)
  PROVE  /\ new \in Seq(RegionData)
         /\ data # <<>> => new # <<>>
         /\ NoMoreThan(new, data)
         /\ NamedOnce(new, r) => ~UsedFor(new, r)
<1>1. PICK n \in Nat : DOMAIN data = 1 .. n
  OBVIOUS
<1>2. \A i \in 1 .. n : data[i] \in RegionData /\ [data[i] EXCEPT !.use = FALSE] \in RegionData
  <2>1. \A i \in 1 .. n : data[i] \in RegionData
    BY <1>1
  <2> QED
    BY <2>1, NotForTests
<1>3. \A i \in 1 .. n : new[i] \in RegionData
  BY <1>1, <1>2 DEF RemoveRegionForTest
<1>4. new = [i \in 1 .. n |-> new[i]]
  BY <1>1 DEF RemoveRegionForTest
<1>5. new \in [1 .. n -> RegionData]
  BY <1>3, <1>4
<1>6. new \in Seq(RegionData) /\ DOMAIN new = 1 .. n
  BY <1>5, SeqFromFunction
<1>7. \A i \in 1 .. n : new[i].name = data[i].name /\ (new[i].use => data[i].use)
  BY <1>1, <1>2 DEF RemoveRegionForTest, RegionData
<1>8. data # <<>> => new # <<>>
  <2>1. data # <<>> => 1 \in 1 .. n
    BY <1>1
  <2> QED
    BY <1>6, <2>1
<1>9. NoMoreThan(new, data)
  BY <1>1, <1>6, <1>7 DEF NoMoreThan, UsedFor, NamedOnce
<1>10. ASSUME NamedOnce(new, r), NEW i \in 1 .. n, new[i].name = r PROVE ~new[i].use
  <2>1. data[i].name = r
    BY <1>7, <1>10
  <2>2. \A k \in 1 .. i - 1 : data[k].name # r
    <3>1. \A k \in 1 .. i - 1 : k \in 1 .. n /\ k # i
      OBVIOUS
    <3> QED
      BY <1>6, <1>7, <1>10, <3>1 DEF NamedOnce
  <2>3. new[i] = [data[i] EXCEPT !.use = FALSE]
    BY <1>1, <2>1, <2>2 DEF RemoveRegionForTest
  <2> QED
    BY <1>2, <2>3 DEF RegionData
<1> QED
  BY <1>6, <1>8, <1>9, <1>10 DEF UsedFor

(* The service's list, or the one that is made of the account's regions.   *)
LEMMA KnownData ==
  ASSUME RegionTypeOK
  PROVE  /\ Known \in Seq(RegionData)
         /\ regionsData # <<>> => Known = regionsData
<1>1. CASE regionsData # <<>>
  BY <1>1 DEF Known, RegionTypeOK
<1>2. CASE regionsData = <<>>
  <2> DEFINE entry(r) == [name |-> r, use |-> TRUE, priority |-> 100]
             f == [r \in account.available |-> entry(r)]
             S == {entry(r) : r \in account.available}
  <2>1. account.available \in SUBSET RegionNames /\ IsFiniteSet(account.available)
    BY RegionTypes, FS_Subset DEF RegionTypeOK
  <2>2. f \in Surjection(account.available, S)
    BY DEF Surjection
  <2>3. IsFiniteSet(S)
    BY <2>1, <2>2, FS_Surjection
  <2>4. S \in SUBSET RegionData
    <3>1. \A r \in account.available : entry(r) \in RegionData
      BY <2>1 DEF RegionData
    <3> HIDE DEF entry
    <3> QED
      BY <3>1
  <2>5. Known = SetToSeq(S)
    BY <1>2 DEF Known
  <2> HIDE DEF S
  <2>6. PICK n \in Nat : n = Cardinality(S)
    BY <2>3, FS_CardinalityType
  <2>7. \E g \in [1 .. n -> S] : IsInjective(g)
    BY <2>3, <2>6, FS_CardinalityType DEF ExistsBijection, Bijection, Injection, IsInjective
  <2>8. Known \in [1 .. n -> S]
    BY <2>5, <2>6, <2>7, Zenon DEF SetToSeq
  <2>9. Known \in [1 .. n -> RegionData]
    BY <2>4, <2>8
  <2> QED
    BY <1>2, <2>9, SeqFromFunction
<1> QED
  BY <1>1, <1>2

-----------------------------------------------------------------------------
(* The list that results when region r is taken: it has the regions it     *)
(* had, and offers r no more if it names it once.                          *)
LessRegion(r) ==
    /\ regionsData' \in Seq(RegionData)
    /\ regionsData' # <<>>
    /\ NoMoreThan(regionsData', regionsData)
    /\ NamedOnce(regionsData', r) => ~UsedFor(regionsData', r)

(* The invariant holds before a test asks.                                 *)
LEMMA RegionInitHolds == RegionInit => RegionIInv
<1> SUFFICES ASSUME RegionInit PROVE RegionIInv
  OBVIOUS
<1>1. account \in [available : SUBSET RegionNames, count : [RegionNames -> Nat]]
  <2>1. 0 .. MaxCount \subseteq Nat
    OBVIOUS
  <2>2. account.count \in [RegionNames -> Nat] /\ account.available \in SUBSET RegionNames
    BY <2>1 DEF RegionInit
  <2> QED
    BY <2>2 DEF RegionInit
<1>2. RegionTypeOK
  BY <1>1 DEF RegionInit, RegionTypeOK
<1> QED
  BY <1>2 DEF RegionInit, RegionIInv, Holder, Fresh, Offered, GivenAreMarked, OneTestPerRegion

(* A test that is given a region that is still meant for tests, and that   *)
(* is taken from the list, shares it with no other, or the list names it   *)
(* twice.                                                                  *)
LEMMA RegionGiven ==
  ASSUME RegionIInv, NEW t \in Testers, NEW r \in RegionNames,
         choosing[t] \in {"count", "power"},
         UsedFor(regionsData, r), LessRegion(r),
         RegionReturned(t, r, "chosen"),
         regions' = regions, best' = best, account' = account
  PROVE  RegionIInv'
<1>1. /\ chosen' = [chosen EXCEPT ![t] = r]
      /\ choosing' = [choosing EXCEPT ![t] = "chosen"]
      /\ lock' = NoTester
  BY RegionTypes DEF RegionReturned, GoesTo
<1>2. \A u \in Testers : choosing'[u] \notin {"vpc", "count", "power"}
  BY <1>1 DEF RegionIInv, RegionTypeOK, Holder
<1>3. RegionTypeOK'
  BY <1>1 DEF RegionIInv, RegionTypeOK, LessRegion
<1>4. (Holder /\ Fresh /\ Offered)'
  BY <1>2 DEF Holder, Fresh, Offered
<1>5. \A u \in Testers : chosen'[u] = IF u = t THEN r ELSE chosen[u]
  BY <1>1 DEF RegionIInv, RegionTypeOK
<1>6. GivenAreMarked'
  BY <1>5 DEF RegionIInv, GivenAreMarked, LessRegion, NoMoreThan
<1>7. \A u \in Testers : chosen[u] = r => r \in {NoName, DefaultRegion} \/ ~NamedOnce(regionsData', r)
  BY DEF RegionIInv, GivenAreMarked, LessRegion, NoMoreThan
<1>8. \A u, v \in Testers : u # v /\ chosen[u] = chosen[v] =>
          chosen[u] \in {NoName, DefaultRegion} \/ ~NamedOnce(regionsData', chosen[u])
  BY DEF RegionIInv, OneTestPerRegion, LessRegion, NoMoreThan
<1>9. OneTestPerRegion'
  BY <1>5, <1>7, <1>8 DEF OneTestPerRegion
<1> QED
  BY <1>3, <1>4, <1>6, <1>9 DEF RegionIInv

(* A test that is given none changes nothing of what the others have.      *)
LEMMA NoRegionGiven ==
  ASSUME RegionIInv, NEW t \in Testers, NEW next \in {"chosen", "error"},
         choosing[t] \in {"vpc", "count", "power"},
         regionsData' \in Seq(RegionData),
         regionsData # <<>> => regionsData' # <<>> /\ NoMoreThan(regionsData', regionsData),
         RegionReturned(t, NoName, next),
         regions' = regions, best' = best, account' = account
  PROVE  RegionIInv'
<1>1. /\ chosen' = [chosen EXCEPT ![t] = DefaultRegion]
      /\ choosing' = [choosing EXCEPT ![t] = next]
      /\ lock' = NoTester
  BY DEF RegionReturned, GoesTo
<1>2. \A u \in Testers : choosing'[u] \notin {"vpc", "count", "power"}
  BY <1>1 DEF RegionIInv, RegionTypeOK, Holder
<1>3. RegionTypeOK'
  BY <1>1 DEF RegionIInv, RegionTypeOK
<1>4. (Holder /\ Fresh /\ Offered)'
  BY <1>2 DEF Holder, Fresh, Offered
<1>5. \A u \in Testers : chosen'[u] = IF u = t THEN DefaultRegion ELSE chosen[u]
  BY <1>1 DEF RegionIInv, RegionTypeOK
<1>6. GivenAreMarked'
  BY <1>5 DEF RegionIInv, GivenAreMarked, NoMoreThan
<1>7. \A u, v \in Testers : u # v /\ chosen[u] = chosen[v] =>
          chosen[u] \in {NoName, DefaultRegion} \/ ~NamedOnce(regionsData', chosen[u])
  BY DEF RegionIInv, OneTestPerRegion, GivenAreMarked, NoMoreThan
<1>8. OneTestPerRegion'
  BY <1>5, <1>7 DEF OneTestPerRegion
<1> QED
  BY <1>3, <1>4, <1>6, <1>8 DEF RegionIInv

(* So is one that fails before it is given any: the list is as it was, or  *)
(* it is the one of the account.                                           *)
LEMMA NothingSorted ==
  ASSUME RegionIInv, regionsData' \in {regionsData, Known}
  PROVE  /\ regionsData' \in Seq(RegionData)
         /\ regionsData # <<>> => regionsData' # <<>> /\ NoMoreThan(regionsData', regionsData)
BY KnownData DEF RegionIInv, RegionTypeOK, NoMoreThan

(* The data of a file is loaded, and the lock taken.                       *)
LEMMA ConfigureKeeps ==
  ASSUME RegionIInv, NEW t \in Testers, Configure(t) \/ ConfigureFails(t) \/ Lock(t)
  PROVE  RegionIInv'
<1>1. CASE Configure(t)
  <2>1. /\ regionsData' \in Seq(RegionData)
        /\ regionsData # <<>> => regionsData' = regionsData
    BY <1>1, PrefsAssumption DEF Configure, RegionIInv, RegionTypeOK
  <2>2. choosing' = [choosing EXCEPT ![t] = "configured"] /\ lock = NoTester
        /\ UNCHANGED <<lock, regions, best, chosen, account>>
    BY <1>1 DEF Configure, GoesTo
  <2>3. \A u \in Testers : choosing'[u] \notin {"vpc", "count", "power"}
    BY <2>2, RegionTypes DEF RegionIInv, RegionTypeOK, Holder
  <2>4. RegionTypeOK'
    BY <2>1, <2>2 DEF RegionIInv, RegionTypeOK
  <2>5. (Holder /\ Fresh /\ Offered)'
    BY <2>3 DEF Holder, Fresh, Offered
  <2>6. GivenAreMarked' /\ OneTestPerRegion'
    BY <2>1, <2>2 DEF RegionIInv, GivenAreMarked, OneTestPerRegion
  <2> QED
    BY <2>4, <2>5, <2>6 DEF RegionIInv
<1>2. CASE ConfigureFails(t)
  <2>1. /\ chosen' = [chosen EXCEPT ![t] = DefaultRegion]
        /\ choosing' = [choosing EXCEPT ![t] = "error"]
        /\ UNCHANGED <<regionsData, lock, regions, best, account>>
    BY <1>2 DEF ConfigureFails, GoesTo
  <2>2. \A u \in Testers : /\ chosen'[u] = IF u = t THEN DefaultRegion ELSE chosen[u]
                           /\ choosing'[u] = IF u = t THEN "error" ELSE choosing[u]
    BY <2>1 DEF RegionIInv, RegionTypeOK
  <2>3. RegionTypeOK'
    BY <2>1 DEF RegionIInv, RegionTypeOK
  <2>4. (Holder /\ Fresh /\ Offered)'
    BY <2>1, <2>2 DEF RegionIInv, Holder, Fresh, Offered
  <2>5. GivenAreMarked' /\ OneTestPerRegion'
    BY <2>1, <2>2 DEF RegionIInv, GivenAreMarked, OneTestPerRegion
  <2> QED
    BY <2>3, <2>4, <2>5 DEF RegionIInv
<1>3. CASE Lock(t)
  <2>1. PICK kind \in {"vpc", "power"} : choosing' = [choosing EXCEPT ![t] = kind]
    BY <1>3 DEF Lock, GoesTo
  <2>2. /\ lock = NoTester /\ lock' = t /\ best' = NoBest
        /\ UNCHANGED <<regionsData, regions, chosen, account>>
    BY <1>3 DEF Lock
  <2>3. \A u \in Testers : choosing'[u] = IF u = t THEN kind ELSE choosing[u]
    BY <2>1 DEF RegionIInv, RegionTypeOK
  <2>4. \A u \in Testers : choosing[u] \notin {"vpc", "count", "power"}
    BY <2>2, RegionTypes DEF RegionIInv, Holder
  <2>5. RegionTypeOK'
    BY <2>1, <2>2 DEF RegionIInv, RegionTypeOK
  <2>6. (Holder /\ Fresh /\ Offered)'
    BY <2>2, <2>3, <2>4 DEF Holder, Fresh, Offered
  <2>7. GivenAreMarked' /\ OneTestPerRegion'
    BY <2>2 DEF RegionIInv, GivenAreMarked, OneTestPerRegion
  <2> QED
    BY <2>5, <2>6, <2>7 DEF RegionIInv
<1> QED
  BY <1>1, <1>2, <1>3

(* The regions are listed that may be chosen, in an order of their         *)
(* priorities.                                                             *)
LEMMA GetTestRegionsKeeps ==
  ASSUME RegionIInv, NEW t \in Testers, GetTestRegionsByPriority(t)
  PROVE  RegionIInv'
<1> DEFINE usable == {i \in DOMAIN Known : Known[i].use /\ Known[i].name \in account.available}
<1>1. PICK p \in PriorityOrders(Known, usable) : regions' = [i \in DOMAIN p |-> Known[p[i]].name]
  BY DEF GetTestRegionsByPriority
<1>2. /\ choosing[t] = "vpc" /\ choosing' = [choosing EXCEPT ![t] = "count"]
      /\ regionsData' = Known
      /\ UNCHANGED <<lock, best, chosen, account>>
  BY DEF GetTestRegionsByPriority, GoesTo
<1>3. Known \in Seq(RegionData) /\ (regionsData # <<>> => Known = regionsData)
  BY KnownData DEF RegionIInv
<1>4. PICK n \in Nat : p \in [1 .. n -> usable]
  <2>1. usable \in SUBSET DOMAIN Known
    OBVIOUS
  <2> HIDE DEF usable
  <2> QED
    BY <1>3, <2>1, OrderOfPlaces DEF IsOrder
<1>5. regions' \in Seq(RegionNames) /\ \A i \in DOMAIN regions' : UsedFor(Known, regions'[i])
  <2>1. \A i \in 1 .. n : Known[p[i]].name \in RegionNames /\ UsedFor(Known, Known[p[i]].name)
    BY <1>3, <1>4, RegionTypes DEF UsedFor
  <2>2. regions' \in [1 .. n -> RegionNames]
    BY <1>1, <1>4, <2>1
  <2> QED
    BY <1>1, <1>4, <2>1, <2>2, SeqFromFunction
<1>6. \A u \in Testers : choosing'[u] = IF u = t THEN "count" ELSE choosing[u]
  BY <1>2 DEF RegionIInv, RegionTypeOK
<1>7. \A u \in Testers : u # t => choosing[u] \notin {"vpc", "count", "power"}
  BY <1>2 DEF RegionIInv, Holder
<1>8. RegionTypeOK'
  BY <1>2, <1>3, <1>5 DEF RegionIInv, RegionTypeOK
<1>9. (Holder /\ Fresh /\ Offered)'
  <2>1. lock = t /\ best = NoBest
    BY <1>2 DEF RegionIInv, Holder, Fresh
  <2> QED
    BY <1>2, <1>5, <1>6, <1>7, <2>1 DEF Holder, Fresh, Offered
<1>10. GivenAreMarked' /\ OneTestPerRegion'
  BY <1>2, <1>3 DEF RegionIInv, GivenAreMarked, OneTestPerRegion
<1> QED
  BY <1>8, <1>9, <1>10 DEF RegionIInv

(* The resources of one region are counted, or the region is passed over.  *)
LEMMA CountingKeeps ==
  ASSUME RegionIInv, NEW t \in Testers, Skip(t) \/ ListVpcs(t)
  PROVE  RegionIInv'
<1>1. choosing[t] = "count" /\ regions # <<>>
      /\ UNCHANGED <<regionsData, lock, choosing, chosen, account>>
  BY DEF Skip, ListVpcs
<1>2. regions \in Seq(RegionNames) /\ Head(regions) \in RegionNames
      /\ UsedFor(regionsData, Head(regions))
  <2>1. 1 \in DOMAIN regions /\ Head(regions) = regions[1]
    BY <1>1, EmptySeq, LenProperties DEF RegionIInv, RegionTypeOK
  <2> QED
    BY <1>1, <2>1 DEF RegionIInv, RegionTypeOK, Offered
<1>3. regions' \in {Tail(regions), <<>>}
  BY DEF Skip, ListVpcs
<1>4. regions' \in Seq(RegionNames) /\ \A i \in DOMAIN regions' : UsedFor(regionsData, regions'[i])
  <2>1. CASE regions' = <<>>
    BY <2>1
  <2>2. CASE regions' = Tail(regions)
    <3>1. Tail(regions) \in Seq(RegionNames) /\ DOMAIN Tail(regions) = 1 .. Len(regions) - 1
          /\ \A i \in 1 .. Len(regions) - 1 : Tail(regions)[i] = regions[i + 1]
      BY <1>1, <1>2
    <3>2. \A i \in 1 .. Len(regions) - 1 : i + 1 \in DOMAIN regions
      BY <1>2
    <3> QED
      BY <1>1, <2>2, <3>1, <3>2 DEF RegionIInv, Offered
  <2> QED
    BY <1>3, <2>1, <2>2
<1>5. best' \in {best, [name |-> Head(regions), count |-> account.count[Head(regions)]]}
  BY DEF Skip, ListVpcs, Better
<1>6. account.count[Head(regions)] \in Nat
  BY <1>2 DEF RegionIInv, RegionTypeOK
<1>7. RegionTypeOK'
  BY <1>1, <1>2, <1>4, <1>5, <1>6 DEF RegionIInv, RegionTypeOK
<1>8. \A u \in Testers : u # t => choosing[u] \notin {"vpc", "count", "power"}
  BY <1>1 DEF RegionIInv, Holder
<1>9. (Holder /\ Fresh /\ Offered)'
  BY <1>1, <1>2, <1>4, <1>5, <1>8 DEF RegionIInv, Holder, Fresh, Offered
<1>10. GivenAreMarked' /\ OneTestPerRegion'
  BY <1>1 DEF RegionIInv, GivenAreMarked, OneTestPerRegion
<1> QED
  BY <1>7, <1>9, <1>10 DEF RegionIInv

(* The region with least is given to the test and marked.                  *)
LEMMA ChosenKeeps ==
  ASSUME RegionIInv, NEW t \in Testers, Chosen(t)
  PROVE  RegionIInv'
<1>1. choosing[t] = "count" /\ UNCHANGED <<regions, best, account>>
  BY DEF Chosen
<1>2. CASE best = NoBest
  BY <1>1, <1>2, NothingSorted, NoRegionGiven DEF Chosen
<1>3. CASE best # NoBest
  <2>1. PICK r \in RegionNames : r = best.name /\ UsedFor(regionsData, r)
    BY <1>1, <1>3 DEF RegionIInv, RegionTypeOK, Offered
  <2>2. RegionReturned(t, r, "chosen") /\ regionsData' = RemoveRegionForTest(regionsData, r)
    BY <1>3, <2>1 DEF Chosen
  <2>3. regionsData \in Seq(RegionData) /\ regionsData # <<>>
    BY <2>1 DEF RegionIInv, RegionTypeOK, UsedFor
  <2>4. LessRegion(r)
    BY <2>2, <2>3, RegionRemoved DEF LessRegion
  <2> QED
    BY <1>1, <2>1, <2>2, <2>4, RegionGiven
<1> QED
  BY <1>2, <1>3

(* The zones that are offered are those of the list that may be given.     *)
LEMMA ZonesOffered ==
  ASSUME NEW data \in Seq(RegionData)
  PROVE  /\ ZonesOf(data) \in Seq(RegionNames)
         /\ \A r \in ToSet(ZonesOf(data)) : UsedFor(data, r)
<1> DEFINE names == [i \in DOMAIN data |-> IF data[i].use THEN data[i].name ELSE NoName]
<1>1. PICK n \in Nat : DOMAIN data = 1 .. n
  OBVIOUS
<1>2. \A i \in 1 .. n : data[i].name \in RegionNames
  BY <1>1, RegionTypes
<1>3. names \in [1 .. n -> RegionNames \cup {NoName}]
  BY <1>1, <1>2
<1>4. names \in Seq(RegionNames \cup {NoName}) /\ DOMAIN names = 1 .. n
  BY <1>3, SeqFromFunction
<1>5. ASSUME NEW r \in ToSet(names) \ {NoName} PROVE r \in RegionNames /\ UsedFor(data, r)
  <2>1. PICK i \in 1 .. n : r = names[i]
    BY <1>4 DEF ToSet
  <2>2. data[i].use /\ r = data[i].name
    BY <1>1, <2>1
  <2> QED
    BY <1>1, <1>2, <2>2 DEF UsedFor
<1>6. ZonesOf(data) = NotIn(names, {NoName})
  BY DEF ZonesOf
<1> HIDE DEF names
<1>7. ZonesOf(data) \in Seq(RegionNames \cup {NoName}) /\ ToSet(ZonesOf(data)) = ToSet(names) \ {NoName}
  BY <1>4, <1>6, NotInIsRight
<1>8. \A i \in DOMAIN ZonesOf(data) : ZonesOf(data)[i] \in RegionNames
  BY <1>5, <1>7 DEF ToSet
<1> QED
  BY <1>5, <1>7, <1>8, SeqOfItsEntries

(* A zone is given to the test and marked.                                 *)
LEMMA ChoosePowerZoneKeeps ==
  ASSUME RegionIInv, NEW t \in Testers, ChoosePowerZone(t)
  PROVE  RegionIInv'
<1>1. choosing[t] = "power" /\ UNCHANGED <<regions, best, account>>
  BY DEF ChoosePowerZone
<1> DEFINE sortedBy(p) == [i \in DOMAIN p |-> regionsData[p[i]]]
           crowded == {n \in RegionNames : account.count[n] >= maxPowerConnectionsPerZone}
           zoneOf(data) == LeastOf(ZonesOf(data), account.count, crowded, TRUE)
<1>2. PICK p \in PriorityOrders(regionsData, DOMAIN regionsData) :
          \/ /\ regionsData' = sortedBy(p)
             /\ RegionReturned(t, NoName, "error")
          \/ /\ zoneOf(sortedBy(p)) # NoName
             /\ regionsData' = RemoveRegionForTest(sortedBy(p), zoneOf(sortedBy(p)))
             /\ RegionReturned(t, zoneOf(sortedBy(p)), "chosen")
  BY DEF ChoosePowerZone
<1>3. PICK sorted : sorted = sortedBy(p)
  OBVIOUS
<1>4. regionsData \in Seq(RegionData)
  BY DEF RegionIInv, RegionTypeOK
<1>5. /\ sorted \in Seq(RegionData)
      /\ regionsData # <<>> => sorted # <<>>
      /\ NoMoreThan(sorted, regionsData)
  BY <1>3, <1>4, SortedData
<1>6. PICK zone : zone = zoneOf(sorted)
  OBVIOUS
<1>7. \/ regionsData' = sorted /\ RegionReturned(t, NoName, "error")
      \/ /\ zone # NoName
         /\ regionsData' = RemoveRegionForTest(sorted, zone)
         /\ RegionReturned(t, zone, "chosen")
  BY <1>2, <1>3, <1>6
<1>8. CASE regionsData' = sorted /\ RegionReturned(t, NoName, "error")
  BY <1>1, <1>5, <1>8, NoRegionGiven
<1>9. CASE /\ zone # NoName
           /\ regionsData' = RemoveRegionForTest(sorted, zone)
           /\ RegionReturned(t, zone, "chosen")
  <2>1. LeastRight(ZonesOf(sorted), account.count, crowded, zone)
    <3>1. ZonesOf(sorted) \in Seq(RegionNames) /\ account.count \in [RegionNames -> Nat]
      BY <1>5, ZonesOffered DEF RegionIInv, RegionTypeOK
    <3> HIDE DEF crowded
    <3> QED
      BY <1>6, <3>1, RegionTypes, LeastIsRight
  <2> HIDE DEF crowded, zoneOf, sortedBy
  <2>2. zone \in ToSet(ZonesOf(sorted))
    BY <1>9, <2>1 DEF LeastRight, ToSet
  <2>3. zone \in RegionNames
    BY <1>5, <2>2, ZonesOffered DEF ToSet
  <2>4. UsedFor(sorted, zone) /\ UsedFor(regionsData, zone)
    BY <1>5, <2>2, ZonesOffered DEF NoMoreThan
  <2>5. sorted # <<>>
    BY <2>4 DEF UsedFor
  <2>6. /\ regionsData' \in Seq(RegionData)
        /\ regionsData' # <<>>
        /\ NoMoreThan(regionsData', sorted)
        /\ NamedOnce(regionsData', zone) => ~UsedFor(regionsData', zone)
    BY <1>5, <1>9, <2>5, RegionRemoved
  <2>7. LessRegion(zone)
    BY <1>5, <2>6 DEF LessRegion, NoMoreThan
  <2> QED
    BY <1>1, <1>9, <2>3, <2>4, <2>7, RegionGiven
<1> QED
  BY <1>7, <1>8, <1>9

(* Every step of any test keeps the invariant.                             *)
LEMMA RegionNextKeeps == RegionIInv /\ [RegionNext]_regionVars => RegionIInv'
<1> SUFFICES ASSUME RegionIInv, [RegionNext]_regionVars PROVE RegionIInv'
  OBVIOUS
<1>1. ASSUME NEW t \in Testers, TesterStep(t) PROVE RegionIInv'
  <2>1. CASE Configure(t) \/ ConfigureFails(t) \/ Lock(t)
    BY <2>1, ConfigureKeeps
  <2>2. CASE GetTestRegionsByPriority(t)
    BY <2>2, GetTestRegionsKeeps
  <2>3. CASE RegionsFail(t)
    BY <2>3, NothingSorted, NoRegionGiven DEF RegionsFail
  <2>4. CASE Skip(t) \/ ListVpcs(t)
    BY <2>4, CountingKeeps
  <2>5. CASE ListVpcsFails(t)
    BY <2>5, NothingSorted, NoRegionGiven DEF ListVpcsFails
  <2>6. CASE Chosen(t)
    BY <2>6, ChosenKeeps
  <2>7. CASE ChoosePowerZone(t)
    BY <2>7, ChoosePowerZoneKeeps
  <2> QED
    BY <1>1, <2>1, <2>2, <2>3, <2>4, <2>5, <2>6, <2>7 DEF TesterStep
<1>2. CASE UNCHANGED regionVars
  BY <1>2 DEF regionVars, RegionIInv, RegionTypeOK, Holder, Fresh, Offered, GivenAreMarked,
              OneTestPerRegion, UsedFor, NamedOnce
<1> QED
  BY <1>1, <1>2 DEF RegionNext

(* However many tests ask one CloudInfoService for a region, in whatever   *)
(* order, whatever the account holds and whatever the files of preferences *)
(* say: no two of them are given the same one, because each is chosen and  *)
(* marked under the lock among those that are left.  The exceptions are    *)
(* the default region, which is no choice, and a region that the list      *)
(* names more than once: RemoveRegionForTest marks its first entry only.   *)
THEOREM RegionSafe == RegionSpec => []OneTestPerRegion
<1>1. RegionIInv => OneTestPerRegion
  BY DEF RegionIInv
<1> QED
  BY <1>1, RegionInitHolds, RegionNextKeeps, PTL DEF RegionSpec

-----------------------------------------------------------------------------
TerraformPlaces == {"setup", "skipped", "preapply", "apply", "modify", "postapply", "move", "plan",
           "check", "upgradeapply", "teardown", "predestroy", "destroy", "clean", "return",
           "ended"}

(* What comes after the plan has been looked at, or after an error.        *)
Decided == {"upgradeapply", "teardown", "predestroy", "destroy", "clean", "return", "ended"}

Troubled == marked \/ returned

(* An apply that did not succeed has failed the test, at once.             *)
AppliesCounted == undone => marked

(* A test whose plan had something to change does not end as a pass.       *)
PlanCounted ==
    /\ place \in Decided /\ test.kind \in {"consistency", "upgrade"} => consistent \/ Troubled
    /\ place = "upgradeapply" => consistent

(* What is left after the tear-down was to be left, or has failed the test. *)
DestroyCounted ==
    /\ place = "clean" => ~deployed \/ Troubled
    /\ place \in {"return", "ended"} => ~deployed \/ Troubled \/ test.skipTearDown
    /\ place \in {"predestroy", "destroy", "clean"} => ~test.skipTearDown

(* Nothing is deployed by a test that has not applied.                     *)
NothingYet == place \in {"setup", "skipped", "preapply"} => ~deployed

(* Which kinds of tests come to which places.                              *)
KindsOfPlaces ==
    /\ test.kind \in Kinds
    /\ test.checkApply => Upgrades
    /\ place \in {"preapply", "apply", "modify", "postapply", "check"} => test.kind # "plan"
    /\ place \in {"move", "upgradeapply"} => Upgrades

IInv ==
    /\ place \in TerraformPlaces
    /\ KindsOfPlaces
    /\ AppliesCounted
    /\ PlanCounted
    /\ DestroyCounted
    /\ NothingYet
    /\ StateIsAtHand

-----------------------------------------------------------------------------
(* It holds before the test begins.                                        *)
LEMMA InitIInv == TerraformInit => IInv
BY DEF TerraformInit, IInv, TerraformPlaces, KindsOfPlaces, Kinds, TestOptions, Upgrades, AppliesCounted,
       PlanCounted, Decided, DestroyCounted, NothingYet, StateIsAtHand

(* The test is set up.                                                     *)
LEMMA SetUpKeeps == IInv /\ SetUp => IInv'
<1> SUFFICES ASSUME IInv, SetUp PROVE IInv'
  OBVIOUS
<1>1. QED
  BY DEF SetUp, GoOn, GiveUp, Aborts, IInv, TerraformPlaces, KindsOfPlaces, Kinds, Upgrades,
         AppliesCounted, PlanCounted, Decided, Troubled, DestroyCounted, NothingYet, StateIsAtHand

(* A hook goes on, returns its error, or ends the test.                    *)
LEMMA HooksKeep == IInv /\ (PreApplyHook \/ PostApplyHook) => IInv'
<1> SUFFICES ASSUME IInv, PreApplyHook \/ PostApplyHook PROVE IInv'
  OBVIOUS
<1>1. PICK next : Hook(next) /\ \/ place = "preapply" /\ next = "apply"
                                \/ place = "postapply" /\ test.kind = "apply" /\ next = "teardown"
                                \/ place = "postapply" /\ test.kind = "consistency" /\ next = "plan"
                                \/ place = "postapply" /\ test.kind = "upgrade" /\ next = "move"
  BY DEF PreApplyHook, PostApplyHook, IInv, KindsOfPlaces, Kinds
<1>2. UNCHANGED <<test, dir, deployed, stateIn, undone, consistent>>
  BY <1>1 DEF Hook
<1>3. CASE GoOn(next)
  BY <1>1, <1>2, <1>3
     DEF GoOn, IInv, TerraformPlaces, KindsOfPlaces, Kinds, Upgrades, AppliesCounted, PlanCounted,
         Decided, Troubled, DestroyCounted, NothingYet, StateIsAtHand
<1>4. CASE GiveUp("teardown", Upgrades)
  <2>1. place' = "teardown" /\ returned' = TRUE /\ (marked => marked')
    BY <1>4 DEF GiveUp
  <2>2. QED
    BY <1>1, <1>2, <2>1
       DEF IInv, TerraformPlaces, KindsOfPlaces, Kinds, Upgrades, AppliesCounted, PlanCounted,
           Decided, Troubled, DestroyCounted, NothingYet, StateIsAtHand
<1>5. CASE Aborts
  BY <1>1, <1>2, <1>5
     DEF Aborts, IInv, TerraformPlaces, KindsOfPlaces, Kinds, Upgrades, AppliesCounted, PlanCounted,
         Decided, Troubled, DestroyCounted, NothingYet, StateIsAtHand
<1>6. QED
  BY <1>1, <1>3, <1>4, <1>5 DEF Hook

(* What an apply deploys has its state where the test works.               *)
LEMMA ApplyKeeps == IInv /\ (InitAndApply \/ UpgradeApply) => IInv'
<1> SUFFICES ASSUME IInv, InitAndApply \/ UpgradeApply PROVE IInv'
  OBVIOUS
<1>1. /\ place \in {"apply", "upgradeapply"}
      /\ UNCHANGED <<test, dir, consistent>>
      /\ (deployed' = TRUE /\ stateIn' = {dir}) \/ UNCHANGED <<deployed, stateIn>>
  BY DEF InitAndApply, UpgradeApply, Deploys, DeploysInPart
<1>2. \/ /\ UNCHANGED <<marked, returned, undone>>
         /\ \/ place = "apply" /\ place' \in {"modify", "postapply"}
            \/ place = "upgradeapply" /\ place' = "teardown"
      \/ place' = "teardown" /\ returned' = TRUE /\ marked'
  <2>1. ASSUME GiveUp("teardown", TRUE) PROVE place' = "teardown" /\ returned' = TRUE /\ marked'
    BY <2>1 DEF GiveUp
  <2>2. ASSUME NEW next, GoOn(next), undone' = undone
        PROVE  place' = next /\ UNCHANGED <<marked, returned, undone>>
    BY <2>2 DEF GoOn
  <2>3. QED
    BY <2>1, <2>2 DEF InitAndApply, UpgradeApply
<1>3. QED
  BY <1>1, <1>2
     DEF IInv, TerraformPlaces, KindsOfPlaces, Kinds, Upgrades, AppliesCounted, PlanCounted, Decided,
         Troubled, DestroyCounted, NothingYet, StateIsAtHand

(* What was modified is applied.                                           *)
LEMMA ModifiedApplyKeeps == IInv /\ ModifiedApply => IInv'
<1> SUFFICES ASSUME IInv, ModifiedApply PROVE IInv'
  OBVIOUS
<1>1. QED
  BY DEF ModifiedApply, MarksTheFailure, Deploys, IInv, TerraformPlaces, KindsOfPlaces, Kinds, Upgrades,
         AppliesCounted, PlanCounted, Decided, Troubled, DestroyCounted, NothingYet, StateIsAtHand

(* The state is there before the test goes on in its new directory.        *)
LEMMA MoveStateKeeps == IInv /\ MoveState => IInv'
<1> SUFFICES ASSUME IInv, MoveState PROVE IInv'
  OBVIOUS
<1>1. QED
  BY DEF MoveState, CopiesState, GoOn, GiveUp, IInv, TerraformPlaces, KindsOfPlaces, Kinds, Upgrades,
         AppliesCounted, PlanCounted, Decided, Troubled, DestroyCounted, NothingYet, StateIsAtHand

(* A plan is made.                                                         *)
LEMMA PlanKeeps == IInv /\ Plan => IInv'
<1> SUFFICES ASSUME IInv, Plan PROVE IInv'
  OBVIOUS
<1>1. QED
  BY DEF Plan, GoOn, GiveUp, IInv, TerraformPlaces, KindsOfPlaces, Kinds, Upgrades,
         AppliesCounted, PlanCounted, Decided, Troubled, DestroyCounted, NothingYet, StateIsAtHand

(* The plan is looked at.                                                  *)
LEMMA CheckKeeps == IInv /\ CheckConsistency => IInv'
<1> SUFFICES ASSUME IInv, CheckConsistency PROVE IInv'
  OBVIOUS
<1>1. QED
  BY DEF CheckConsistency, Aborts, IInv, TerraformPlaces, KindsOfPlaces, Kinds, Upgrades,
         AppliesCounted, PlanCounted, Decided, Troubled, DestroyCounted, NothingYet, StateIsAtHand

(* The tear-down is decided on, and its hook called.                       *)
LEMMA TearDownKeeps == IInv /\ (TearDown \/ PreDestroyHook) => IInv'
<1> SUFFICES ASSUME IInv, TearDown \/ PreDestroyHook PROVE IInv'
  OBVIOUS
<1>1. QED
  BY DEF TearDown, PreDestroyHook, KeepsResources, GoOn, Aborts, IInv, TerraformPlaces, KindsOfPlaces,
         Kinds, Upgrades, AppliesCounted, PlanCounted, Decided, Troubled, DestroyCounted,
         NothingYet, StateIsAtHand

(* A destroy that succeeds has found the state, or had returned an error.  *)
LEMMA DestroyKeeps == IInv /\ Destroy => IInv'
<1> SUFFICES ASSUME IInv, Destroy PROVE IInv'
  OBVIOUS
<1>1. QED
  BY DEF Destroy, IInv, TerraformPlaces, KindsOfPlaces, Kinds, Upgrades,
         AppliesCounted, PlanCounted, Decided, Troubled, DestroyCounted, NothingYet, StateIsAtHand

(* The test ends.                                                          *)
LEMMA EndKeeps == IInv /\ (CleanUp \/ Return) => IInv'
<1> SUFFICES ASSUME IInv, CleanUp \/ Return PROVE IInv'
  OBVIOUS
<1>1. QED
  BY DEF CleanUp, Return, GoOn, Aborts, IInv, TerraformPlaces, KindsOfPlaces, Kinds, Upgrades,
         AppliesCounted, PlanCounted, Decided, Troubled, DestroyCounted, NothingYet, StateIsAtHand

(* Nothing happens.                                                        *)
LEMMA StutterKeeps == IInv /\ UNCHANGED terraformVars => IInv'
<1> SUFFICES ASSUME IInv, UNCHANGED terraformVars PROVE IInv'
  OBVIOUS
<1>1. QED
  BY DEF terraformVars, IInv, TerraformPlaces, KindsOfPlaces, Kinds, Upgrades,
         AppliesCounted, PlanCounted, Decided, Troubled, DestroyCounted, NothingYet, StateIsAtHand

(* The inductive invariant of TerraformTest holds in every state: what has *)
(* failed has been counted against the test, whatever comes after.         *)
THEOREM AlwaysIInv == TerraformSpec => []IInv
<1>1. IInv /\ [TerraformNext]_terraformVars => IInv'
  BY SetUpKeeps, HooksKeep, ApplyKeeps, ModifiedApplyKeeps, MoveStateKeeps, PlanKeeps,
     CheckKeeps, TearDownKeeps, DestroyKeeps, EndKeeps, StutterKeeps DEF TerraformNext
<1>2. QED
  BY <1>1, InitIInv, PTL DEF TerraformSpec

-----------------------------------------------------------------------------
(* A test that passes has applied all that it was asked to, although the   *)
(* error of its second apply is not returned, has found nothing to change, *)
(* and has destroyed what it made.                                         *)
THEOREM PassIsGenuine == TerraformSpec => []TerraformPassIsGenuine
<1>1. IInv => TerraformPassIsGenuine
  BY DEF IInv, AppliesCounted, PlanCounted, Decided, Troubled, DestroyCounted, Passes,
         TerraformPassIsGenuine
<1>2. QED
  BY <1>1, AlwaysIInv, PTL

(* A test that has changed its directory works where its state is.         *)
THEOREM StateFollowsTheTest == TerraformSpec => []StateIsAtHand
<1>1. IInv => StateIsAtHand
  BY DEF IInv
<1>2. QED
  BY <1>1, AlwaysIInv, PTL

-----------------------------------------------------------------------------
PhaseNames == Working \cup Completed \cup {NoPhase}
Item == [message : Nat, phase : PhaseNames]
Sent == [way : Ways, phase : PhaseNames, quiet : BOOLEAN]

(* What a sequence of items prints.                                        *)
MessagesOf(items) == {items[k].message : k \in DOMAIN items} \ {0}
PhasesOf(items) == {items[k].phase : k \in DOMAIN items} \ {NoPhase}
NoRepeat(items) ==
    \A k, n \in DOMAIN items :
        items[k].message # 0 /\ items[k].message = items[n].message => k = n

Increasing(s) == \A k, n \in DOMAIN s : k < n => s[k] < s[n]

(* Why a message may neither be printed nor kept back.                     *)
Excused(i) ==
    /\ sent[i].quiet
    /\ \/ sent[i].way = "info"
       \/ sent[i].way = "short" /\ sent[i].phase \in PhasesShown
       \/ ~buffered /\ sent[i].way \in {"short", "warn", "immediate"}

LoggerTypeOK ==
    /\ quietMode \in BOOLEAN
    /\ buffer \in Seq(Nat)
    /\ output \in Seq(Item)
    /\ sent \in Seq(Sent)

LoggerIInv ==
    /\ LoggerTypeOK
    /\ NoRepeat(output)
    /\ Printed \cap Kept = {}
    /\ Increasing(buffer)
    /\ Printed \cup Kept \subseteq DOMAIN sent
    /\ \A i \in DOMAIN sent \ (Printed \cup Kept \cup cleared) : Excused(i)
    /\ activePhase \in PhasesShown \cup {NoPhase}
    /\ suppressedPhases \subseteq PhasesShown
-----------------------------------------------------------------------------
(* What has been printed, in these terms.                                  *)
LEMMA PrintedIs == Printed = MessagesOf(output) /\ PhasesShown = PhasesOf(output)
BY DEF Printed, PhasesShown, MessagesOf, PhasesOf

(* What two sequences of items print, one after the other.                 *)
LEMMA ConcatPrints ==
  ASSUME NEW s \in Seq(Item), NEW t \in Seq(Item)
  PROVE  /\ s \o t \in Seq(Item)
         /\ MessagesOf(s \o t) = MessagesOf(s) \cup MessagesOf(t)
         /\ PhasesOf(s \o t) = PhasesOf(s) \cup PhasesOf(t)
         /\ NoRepeat(s) /\ NoRepeat(t) /\ MessagesOf(s) \cap MessagesOf(t) = {}
               => NoRepeat(s \o t)
<1>1. PICK m \in Nat : m = Len(s) /\ DOMAIN s = 1 .. m
  BY LenProperties
<1>2. PICK n \in Nat : n = Len(t) /\ DOMAIN t = 1 .. n
  BY LenProperties
<1> DEFINE st == s \o t
<1>3. /\ st \in Seq(Item) /\ DOMAIN st = 1 .. m + n
      /\ \A i \in 1 .. m : st[i] = s[i]
      /\ \A i \in m + 1 .. m + n : st[i] = t[i - m]
  <2>1. st \in Seq(Item) /\ Len(st) = m + n /\ DOMAIN st = 1 .. Len(st)
    BY <1>1, <1>2, ConcatProperties, LenProperties
  <2>2. \A i \in 1 .. m + n : st[i] = IF i <= m THEN s[i] ELSE t[i - m]
    BY <1>1, <1>2, ConcatProperties
  <2> HIDE DEF st
  <2> QED
    BY <2>1, <2>2
<1> HIDE DEF st
<1>4. \A i \in 1 .. m + n : i \in 1 .. m \/ (i \in m + 1 .. m + n /\ i - m \in 1 .. n)
  OBVIOUS
<1>5. ASSUME NEW j \in 1 .. n PROVE j + m \in m + 1 .. m + n /\ st[j + m] = t[j]
  <2>1. j + m \in m + 1 .. m + n /\ (j + m) - m = j
    OBVIOUS
  <2>2. st[j + m] = t[(j + m) - m]
    BY <1>3, <2>1
  <2> QED
    BY <2>1, <2>2
<1>6. /\ \A i \in 1 .. m : i \in 1 .. m + n /\ st[i] = s[i]
      /\ \A j \in 1 .. n : \E i \in 1 .. m + n : st[i] = t[j]
      /\ \A i \in 1 .. m + n : (\E j \in 1 .. m : st[i] = s[j]) \/ (\E j \in 1 .. n : st[i] = t[j])
  <2>1. \A i \in 1 .. m : i \in 1 .. m + n
    OBVIOUS
  <2>2. \A i \in m + 1 .. m + n : i \in 1 .. m + n
    OBVIOUS
  <2>3. \A j \in 1 .. n : j + m \in 1 .. m + n
    OBVIOUS
  <2>4. \A i \in 1 .. m + n : (\E j \in 1 .. m : st[i] = s[j]) \/ (\E j \in 1 .. n : st[i] = t[j])
    <3> TAKE i \in 1 .. m + n
    <3>1. CASE i \in 1 .. m
      BY <1>3, <3>1
    <3>2. CASE i \in m + 1 .. m + n
      BY <1>3, <1>4, <3>2
    <3> QED
      BY <1>4, <3>1, <3>2
  <2> QED
    BY <1>3, <1>5, <2>1, <2>3, <2>4
<1>7. MessagesOf(st) = MessagesOf(s) \cup MessagesOf(t) /\ PhasesOf(st) = PhasesOf(s) \cup PhasesOf(t)
  <2>1. MessagesOf(st) \subseteq MessagesOf(s) \cup MessagesOf(t)
        /\ PhasesOf(st) \subseteq PhasesOf(s) \cup PhasesOf(t)
    <3>1. ASSUME NEW i \in 1 .. m + n
          PROVE  (\E j \in DOMAIN s : st[i] = s[j]) \/ (\E j \in DOMAIN t : st[i] = t[j])
      BY <1>1, <1>2, <1>6
    <3>2. MessagesOf(st) \subseteq MessagesOf(s) \cup MessagesOf(t)
      <4> SUFFICES ASSUME NEW i \in 1 .. m + n
                   PROVE  st[i].message \in {0} \cup MessagesOf(s) \cup MessagesOf(t)
        BY <1>3 DEF MessagesOf
      <4> QED
        BY <3>1 DEF MessagesOf
    <3>3. PhasesOf(st) \subseteq PhasesOf(s) \cup PhasesOf(t)
      <4> SUFFICES ASSUME NEW i \in 1 .. m + n
                   PROVE  st[i].phase \in {NoPhase} \cup PhasesOf(s) \cup PhasesOf(t)
        BY <1>3 DEF PhasesOf
      <4> QED
        BY <3>1 DEF PhasesOf
    <3> QED
      BY <3>2, <3>3
  <2>2. MessagesOf(s) \subseteq MessagesOf(st) /\ PhasesOf(s) \subseteq PhasesOf(st)
    BY <1>1, <1>3, <1>6 DEF MessagesOf, PhasesOf
  <2>3. MessagesOf(t) \subseteq MessagesOf(st) /\ PhasesOf(t) \subseteq PhasesOf(st)
    <3>1. \A j \in DOMAIN t : \E i \in DOMAIN st : t[j] = st[i]
      BY <1>2, <1>3, <1>6
    <3> QED
      BY <3>1 DEF MessagesOf, PhasesOf
  <2> QED
    BY <2>1, <2>2, <2>3
<1>8. ASSUME NoRepeat(s), NoRepeat(t), MessagesOf(s) \cap MessagesOf(t) = {}
      PROVE  NoRepeat(st)
  <2> SUFFICES ASSUME NEW k \in 1 .. m + n, NEW l \in 1 .. m + n,
                      st[k].message # 0, st[k].message = st[l].message
               PROVE  k = l
    BY <1>3 DEF NoRepeat
  <2>1. \A i \in 1 .. m : s[i].message # 0 => s[i].message \in MessagesOf(s)
    BY <1>1 DEF MessagesOf
  <2>2. \A i \in 1 .. n : t[i].message # 0 => t[i].message \in MessagesOf(t)
    BY <1>2 DEF MessagesOf
  <2>3. CASE k \in 1 .. m /\ l \in 1 .. m
    BY <1>1, <1>3, <1>8, <2>3 DEF NoRepeat
  <2>4. CASE k \in m + 1 .. m + n /\ l \in m + 1 .. m + n
    <3>1. k - m \in 1 .. n /\ l - m \in 1 .. n /\ st[k] = t[k - m] /\ st[l] = t[l - m]
      BY <1>3, <2>4
    <3>2. k - m = l - m
      BY <1>2, <1>8, <3>1 DEF NoRepeat
    <3> QED
      BY <3>2
  <2>5. CASE k \in 1 .. m /\ l \in m + 1 .. m + n
    <3>1. st[k] = s[k] /\ st[l] = t[l - m] /\ l - m \in 1 .. n
      BY <1>3, <2>5
    <3> QED
      BY <1>8, <2>1, <2>2, <2>5, <3>1
  <2>6. CASE l \in 1 .. m /\ k \in m + 1 .. m + n
    <3>0. k - m \in 1 .. n /\ st[l] = s[l]
      BY <1>3, <2>6
    <3>1. st[l] = s[l] /\ st[k] = t[k - m] /\ k - m \in 1 .. n
      BY <1>3, <2>6, <3>0
    <3> QED
      BY <1>8, <2>1, <2>2, <2>6, <3>1
  <2> QED
    BY <1>4, <2>3, <2>4, <2>5, <2>6
<1> QED
  BY <1>3, <1>7, <1>8 DEF st

(* A step of a logger: it prints items, keeps back and throws away some    *)
(* messages, and each message that it has been sent is in one of these     *)
(* places or excused.                                                      *)
LEMMA LoggerStep ==
  ASSUME LoggerIInv, NEW items \in Seq(Item),
         output' = output \o items, NoRepeat(items), MessagesOf(items) \cap Printed = {},
         quietMode' \in BOOLEAN, buffered' = buffered,
         sent' \in Seq(Sent), DOMAIN sent \subseteq DOMAIN sent',
         \A i \in DOMAIN sent : sent'[i] = sent[i],
         buffer' \in Seq(Nat), Increasing(buffer'),
         MessagesOf(items) \cup Kept' \subseteq DOMAIN sent',
         Kept' \cap (Printed \cup MessagesOf(items)) = {},
         Kept \subseteq Kept' \cup MessagesOf(items) \cup cleared', cleared \subseteq cleared',
         \A i \in DOMAIN sent' \ DOMAIN sent : i \in MessagesOf(items) \cup Kept' \/ Excused(i)',
         activePhase' \in PhasesShown \cup PhasesOf(items) \cup {NoPhase},
         suppressedPhases' \subseteq PhasesShown \cup PhasesOf(items)
  PROVE  LoggerIInv'
<1>1. /\ output' \in Seq(Item) /\ NoRepeat(output')
      /\ Printed' = Printed \cup MessagesOf(items)
      /\ PhasesShown' = PhasesShown \cup PhasesOf(items)
  <2>1. Printed' = MessagesOf(output') /\ PhasesShown' = PhasesOf(output')
    BY DEF Printed, PhasesShown, MessagesOf, PhasesOf
  <2> QED
    BY <2>1, PrintedIs, ConcatPrints DEF LoggerIInv, LoggerTypeOK
<1>2. LoggerTypeOK'
  BY <1>1 DEF LoggerTypeOK
<1>3. Printed' \cap Kept' = {} /\ Printed' \cup Kept' \subseteq DOMAIN sent'
  BY <1>1 DEF LoggerIInv
<1>4. ASSUME NEW i \in DOMAIN sent' \ (Printed' \cup Kept' \cup cleared')
      PROVE  Excused(i)'
  <2>1. CASE i \in DOMAIN sent
    <3>1. i \notin Printed \cup Kept \cup cleared
      BY <1>1, <2>1
    <3>2. Excused(i)
      BY <2>1, <3>1 DEF LoggerIInv
    <3>3. sent'[i] = sent[i] /\ PhasesShown \subseteq PhasesShown'
      BY <1>1, <2>1
    <3> QED
      BY <3>2, <3>3 DEF Excused
  <2>2. CASE i \notin DOMAIN sent
    BY <1>1, <2>2
  <2> QED
    BY <2>1, <2>2
<1>5. activePhase' \in PhasesShown' \cup {NoPhase} /\ suppressedPhases' \subseteq PhasesShown'
  BY <1>1
<1> QED
  BY <1>1, <1>2, <1>3, <1>4, <1>5 DEF LoggerIInv

(* What the buffer prints when it is flushed.                              *)
LEMMA BufferedPrints ==
  ASSUME LoggerIInv
  PROVE  /\ Buffered \in Seq(Item)
         /\ MessagesOf(Buffered) = Kept
         /\ PhasesOf(Buffered) = {}
         /\ NoRepeat(Buffered)
         /\ Kept \subseteq Nat \ {0}
<1>1. PICK n \in Nat : DOMAIN buffer = 1 .. n /\ DOMAIN sent \subseteq Nat \ {0}
  BY LenProperties DEF LoggerIInv, LoggerTypeOK
<1>2. \A i \in 1 .. n : buffer[i] \in Nat \ {0}
  BY <1>1 DEF LoggerIInv, Kept
<1>3. \A i \in 1 .. n : Message(buffer[i]) \in Item
  BY <1>2 DEF Message, Item, PhaseNames
<1>4. Buffered \in Seq(Item) /\ DOMAIN Buffered = 1 .. n
  BY <1>1, <1>3 DEF Buffered
<1>5. \A i \in 1 .. n : Buffered[i].message = buffer[i] /\ Buffered[i].phase = NoPhase
  BY <1>1 DEF Buffered, Message
<1>6. \A i, k \in 1 .. n : buffer[i] = buffer[k] => i = k
  <2> SUFFICES ASSUME NEW i \in 1 .. n, NEW k \in 1 .. n, i < k PROVE buffer[i] # buffer[k]
    OBVIOUS
  <2> QED
    BY <1>1, <1>2 DEF LoggerIInv, Increasing
<1>7. MessagesOf(Buffered) = Kept
  BY <1>1, <1>2, <1>4, <1>5 DEF MessagesOf, Kept
<1>8. PhasesOf(Buffered) = {}
  BY <1>4, <1>5 DEF PhasesOf
<1>9. NoRepeat(Buffered)
  BY <1>4, <1>5, <1>6 DEF NoRepeat
<1>10. Kept \subseteq Nat \ {0}
  BY <1>1, <1>2 DEF Kept
<1> QED
  BY <1>4, <1>7, <1>8, <1>9, <1>10

(* What one item prints.                                                   *)
LEMMA OneItem ==
  ASSUME NEW x \in Item
  PROVE  /\ <<x>> \in Seq(Item)
         /\ MessagesOf(<<x>>) = {x.message} \ {0}
         /\ PhasesOf(<<x>>) = {x.phase} \ {NoPhase}
         /\ NoRepeat(<<x>>)
<1>1. DOMAIN <<x>> = {1} /\ <<x>>[1] = x
  OBVIOUS
<1> QED
  BY <1>1 DEF MessagesOf, PhasesOf, NoRepeat

(* No item prints nothing.                                                 *)
LEMMA NoItem ==
  <<>> \in Seq(Item) /\ MessagesOf(<<>>) = {} /\ PhasesOf(<<>>) = {} /\ NoRepeat(<<>>)
BY DEF MessagesOf, PhasesOf, NoRepeat

(* Two items, one after the other.                                         *)
LEMMA TwoItems ==
  ASSUME NEW x \in Item, NEW y \in Item
  PROVE  <<x>> \o <<y>> = <<x, y>>
<1>1. <<x>> \in Seq(Item) /\ <<y>> \in Seq(Item) /\ <<x, y>> \in Seq(Item)
  OBVIOUS
<1>2. Len(<<x>>) = 1 /\ Len(<<y>>) = 1 /\ Len(<<x, y>>) = 2
  OBVIOUS
<1>3. PICK xy \in Seq(Item) : xy = <<x>> \o <<y>>
  BY <1>1, ConcatProperties
<1>4. Len(xy) = 2 /\ xy[1] = x /\ xy[2] = y
  <2>1. Len(xy) = 1 + 1
        /\ \A i \in 1 .. 1 + 1 : xy[i] = IF i <= 1 THEN <<x>>[i] ELSE <<y>>[i - 1]
    BY <1>1, <1>2, <1>3, ConcatProperties
  <2> QED
    BY <2>1
<1>5. \A i \in 1 .. 2 : xy[i] = <<x, y>>[i]
  BY <1>4
<1>6. xy = <<x, y>>
  BY <1>1, <1>2, <1>4, <1>5, SeqEqual
<1> QED
  BY <1>3, <1>6

(* A message is an item without a phase, and a phase one without a         *)
(* message.                                                                *)
LEMMA MessageAndPhase ==
  /\ \A i \in Nat : Message(i) \in Item /\ Message(i).message = i /\ Message(i).phase = NoPhase
  /\ \A p \in PhaseNames : Phase(p) \in Item /\ Phase(p).message = 0 /\ Phase(p).phase = p
BY DEF Message, Phase, Item, PhaseNames

(* A message that is sent is the next one.                                 *)
LEMMA SendsIs ==
  ASSUME LoggerIInv, NEW way \in Ways, NEW p \in PhaseNames, Sends(way, p)
  PROVE  /\ sent' \in Seq(Sent)
         /\ This \in Nat \ {0}
         /\ DOMAIN sent' = DOMAIN sent \cup {This}
         /\ This \notin DOMAIN sent
         /\ \A i \in DOMAIN sent : sent'[i] = sent[i] /\ i < This
         /\ sent'[This].way = way /\ sent'[This].phase = p /\ sent'[This].quiet = quietMode
<1>1. sent \in Seq(Sent) /\ [way |-> way, phase |-> p, quiet |-> quietMode] \in Sent
  BY DEF LoggerIInv, LoggerTypeOK, Sent
<1>2. PICK n \in Nat : n = Len(sent) /\ DOMAIN sent = 1 .. n /\ This = n + 1
  BY <1>1, LenProperties DEF This
<1>3. sent' = Append(sent, [way |-> way, phase |-> p, quiet |-> quietMode])
  BY DEF Sends
<1>4. /\ sent' \in Seq(Sent) /\ DOMAIN sent' = 1 .. n + 1
      /\ \A i \in 1 .. n : sent'[i] = sent[i]
      /\ sent'[n + 1] = [way |-> way, phase |-> p, quiet |-> quietMode]
  BY <1>1, <1>2, <1>3
<1> QED
  BY <1>2, <1>4

(* Keeping the next message back.                                          *)
LEMMA KeepsNext ==
  ASSUME LoggerIInv, NEW i \in Nat, \A k \in Kept : k < i, buffer' = Append(buffer, i)
  PROVE  buffer' \in Seq(Nat) /\ Increasing(buffer') /\ Kept' = Kept \cup {i}
<1>1. PICK n \in Nat : n = Len(buffer) /\ DOMAIN buffer = 1 .. n
  BY LenProperties DEF LoggerIInv, LoggerTypeOK
<1>2. /\ buffer' \in Seq(Nat) /\ DOMAIN buffer' = (1 .. n) \cup {n + 1}
      /\ \A k \in 1 .. n : buffer'[k] = buffer[k] /\ buffer[k] \in Nat
      /\ buffer'[n + 1] = i
  BY <1>1 DEF LoggerIInv, LoggerTypeOK
<1>3. \A k \in 1 .. n : buffer[k] < i
  BY <1>1 DEF Kept
<1>4. Increasing(buffer')
  BY <1>1, <1>2, <1>3 DEF LoggerIInv, Increasing
<1>5. Kept' = Kept \cup {i}
  BY <1>1, <1>2 DEF Kept
<1> QED
  BY <1>2, <1>4, <1>5

-----------------------------------------------------------------------------
Others == <<buffered, quietMode, activePhase, suppressedPhases, cleared>>

(* The parts of the invariant that the steps use.                          *)
LEMMA InvParts ==
  ASSUME LoggerIInv
  PROVE  /\ Kept \subseteq DOMAIN sent /\ Printed \subseteq DOMAIN sent
         /\ output \in Seq(Item) /\ buffer \in Seq(Nat) /\ sent \in Seq(Sent)
         /\ quietMode \in BOOLEAN /\ Increasing(buffer) /\ Printed \cap Kept = {}
         /\ activePhase \in PhasesShown \cup {NoPhase} /\ suppressedPhases \subseteq PhasesShown
BY DEF LoggerIInv, LoggerTypeOK

(* A message that is shown.                                                *)
LEMMA MessageShown ==
  ASSUME LoggerIInv, NEW way \in Ways, NEW p \in PhaseNames, Sends(way, p), Show(This),
         UNCHANGED buffer, UNCHANGED Others
  PROVE  LoggerIInv'
<1> DEFINE items == <<Message(This)>>
<1>1. /\ This \in Nat \ {0} /\ This \notin DOMAIN sent
      /\ sent' \in Seq(Sent) /\ DOMAIN sent' = DOMAIN sent \cup {This}
      /\ \A i \in DOMAIN sent : sent'[i] = sent[i]
  BY SendsIs
<1>2. /\ items \in Seq(Item) /\ NoRepeat(items)
      /\ MessagesOf(items) = {This} /\ PhasesOf(items) = {}
  BY <1>1, MessageAndPhase, OneItem
<1>3. output' = output \o items /\ Kept' = Kept
  BY DEF Show, Outputs, Kept
<1>4. /\ quietMode' = quietMode /\ buffered' = buffered /\ activePhase' = activePhase
      /\ suppressedPhases' = suppressedPhases /\ cleared' = cleared /\ buffer' = buffer
  BY DEF Others
<1> HIDE DEF items
<1> QED
  BY <1>1, <1>2, <1>3, <1>4, InvParts, LoggerStep

(* A message that is kept back.                                            *)
LEMMA MessageKept ==
  ASSUME LoggerIInv, NEW way \in Ways, NEW p \in PhaseNames, Sends(way, p),
         buffer' = Append(buffer, This), UNCHANGED output, UNCHANGED Others
  PROVE  LoggerIInv'
<1>1. /\ This \in Nat \ {0} /\ This \notin DOMAIN sent
      /\ sent' \in Seq(Sent) /\ DOMAIN sent' = DOMAIN sent \cup {This}
      /\ \A i \in DOMAIN sent : sent'[i] = sent[i] /\ i < This
  BY SendsIs
<1>2. PICK items : items = <<>>
  OBVIOUS
<1>3. /\ items \in Seq(Item) /\ NoRepeat(items) /\ MessagesOf(items) = {} /\ PhasesOf(items) = {}
  BY <1>2, NoItem
<1>4. output' = output \o items
  BY <1>2, InvParts, ConcatEmptySeq
<1>5. buffer' \in Seq(Nat) /\ Increasing(buffer') /\ Kept' = Kept \cup {This}
  BY <1>1, InvParts, KeepsNext
<1>6. /\ quietMode' = quietMode /\ buffered' = buffered /\ activePhase' = activePhase
      /\ suppressedPhases' = suppressedPhases /\ cleared' = cleared
  BY DEF Others
<1> QED
  BY <1>1, <1>3, <1>4, <1>5, <1>6, InvParts, LoggerStep

(* A message may be dropped for a reason.                                  *)
LEMMA MessageDropped ==
  ASSUME LoggerIInv, NEW way \in Ways, NEW p \in PhaseNames, Sends(way, p), quietMode,
         way = "info" \/ (~buffered /\ way \in {"short", "warn", "immediate"}),
         UNCHANGED buffer, UNCHANGED output, UNCHANGED Others
  PROVE  LoggerIInv'
<1>1. /\ This \in Nat \ {0} /\ This \notin DOMAIN sent
      /\ sent' \in Seq(Sent) /\ DOMAIN sent' = DOMAIN sent \cup {This}
      /\ \A i \in DOMAIN sent : sent'[i] = sent[i]
      /\ sent'[This].way = way /\ sent'[This].quiet
  BY SendsIs
<1>2. PICK items : items = <<>>
  OBVIOUS
<1>3. /\ items \in Seq(Item) /\ NoRepeat(items) /\ MessagesOf(items) = {} /\ PhasesOf(items) = {}
  BY <1>2, NoItem
<1>4. output' = output \o items
  BY <1>2, InvParts, ConcatEmptySeq
<1>5. Kept' = Kept
  BY DEF Kept
<1>6. /\ quietMode' = quietMode /\ buffered' = buffered /\ activePhase' = activePhase
      /\ suppressedPhases' = suppressedPhases /\ cleared' = cleared
  BY DEF Others
<1>7. ASSUME NEW i \in DOMAIN sent' \ DOMAIN sent PROVE Excused(i)'
  BY <1>1, <1>6 DEF Excused
<1> QED
  BY <1>1, <1>3, <1>4, <1>5, <1>6, <1>7, InvParts, LoggerStep

(* A message that log shows, keeps back or drops.                          *)
LEMMA MessageLogged ==
  ASSUME LoggerIInv, NEW way \in Ways, NEW p \in PhaseNames, Sends(way, p),
         NEW forced \in BOOLEAN, Log(This, forced), UNCHANGED Others,
         forced \/ ~quietMode \/ way \in {"short", "warn", "immediate"}
  PROVE  LoggerIInv'
<1>1. CASE Show(This) /\ UNCHANGED buffer
  BY <1>1, MessageShown
<1>2. CASE buffer' = Append(buffer, This) /\ UNCHANGED output
  BY <1>2, MessageKept
<1>3. CASE quietMode /\ ~buffered /\ ~forced /\ UNCHANGED output /\ UNCHANGED buffer
  BY <1>3, MessageDropped
<1> QED
  BY <1>1, <1>2, <1>3 DEF Log

(* The invariant holds of a new logger.                                    *)
LEMMA LoggerInitHolds == LoggerInit => LoggerIInv
<1> SUFFICES ASSUME LoggerInit PROVE LoggerIInv
  OBVIOUS
<1>1. Printed = {} /\ Kept = {} /\ PhasesShown = {}
  BY DEF LoggerInit, Printed, Kept, PhasesShown
<1> QED
  BY <1>1 DEF LoggerInit, LoggerIInv, LoggerTypeOK, NoRepeat, Increasing

(* The phases and the ways in which a message is sent.                     *)
LEMMA PhaseNamesOK ==
  /\ NoPhase \in PhaseNames /\ Working \subseteq PhaseNames /\ Completed \subseteq PhaseNames
  /\ \A way \in {"short", "info", "warn", "error", "stage", "immediate", "fatal", "critical"} :
        way \in Ways
BY DEF PhaseNames, Ways

(* The ways that only log a message.                                       *)
LEMMA PlainMessagesKeep ==
  ASSUME LoggerIInv, Warn \/ Error \/ Info \/ Immediate \/ ImmediateError \/ FatalError
  PROVE  LoggerIInv'
<1>1. CASE Warn
  BY <1>1, PhaseNamesOK, MessageLogged DEF Warn, Others
<1>2. CASE Error
  BY <1>2, PhaseNamesOK, MessageLogged DEF Error, Others
<1>3. CASE Info /\ quietMode
  BY <1>3, PhaseNamesOK, MessageDropped DEF Info, Others
<1>4. CASE Info /\ ~quietMode
  BY <1>4, PhaseNamesOK, MessageLogged DEF Info, Others
<1>5. CASE Immediate /\ buffered
  BY <1>5, PhaseNamesOK, MessageShown DEF Immediate, Others
<1>6. CASE Immediate /\ ~buffered
  BY <1>6, PhaseNamesOK, MessageLogged DEF Immediate, Others
<1>7. CASE FatalError
  BY <1>7, PhaseNamesOK, MessageShown DEF FatalError, Others
<1>8. CASE ImmediateError /\ buffered
  BY <1>8, PhaseNamesOK, MessageShown DEF ImmediateError, Others
<1>9. CASE ImmediateError /\ ~buffered
  BY <1>9, PhaseNamesOK, MessageLogged DEF ImmediateError, Others
<1> QED
  BY <1>1, <1>2, <1>3, <1>4, <1>5, <1>6, <1>7, <1>8, <1>9

(* A message that announces a phase.                                       *)
LEMMA ShortInfoKeeps ==
  ASSUME LoggerIInv, NEW p \in PhaseNames, ShortInfo(p)
  PROVE  LoggerIInv'
<1>1. Sends("short", p) /\ UNCHANGED <<buffered, quietMode, cleared>>
  BY DEF ShortInfo
<1>2. CASE p = NoPhase
  <2>1. Log(This, FALSE) /\ UNCHANGED <<activePhase, suppressedPhases>>
    BY <1>2 DEF ShortInfo
  <2> QED
    BY <1>1, <2>1, PhaseNamesOK, MessageLogged DEF Others
<1>3. CASE p # NoPhase
  <2> DEFINE shown == ShouldShowPhase(p)
             stage == IF shown THEN <<Phase(p)>> ELSE <<>>
             text == IF quietMode THEN <<>> ELSE <<Message(This)>>
             items == stage \o text
  <2>1. /\ This \in Nat \ {0} /\ This \notin DOMAIN sent
        /\ sent' \in Seq(Sent) /\ DOMAIN sent' = DOMAIN sent \cup {This}
        /\ \A i \in DOMAIN sent : sent'[i] = sent[i]
        /\ sent'[This].way = "short" /\ sent'[This].phase = p /\ sent'[This].quiet = quietMode
    BY <1>1, PhaseNamesOK, SendsIs
  <2>2. /\ output' = output \o items /\ buffer' = buffer /\ Kept' = Kept
        /\ activePhase' \in {activePhase} \cup (IF shown THEN {p} ELSE {})
        /\ suppressedPhases' \subseteq suppressedPhases \cup (IF shown THEN {p} ELSE {})
    BY <1>3 DEF ShortInfo, Outputs, Kept
  <2>3. /\ stage \in Seq(Item) /\ NoRepeat(stage) /\ MessagesOf(stage) = {}
        /\ PhasesOf(stage) = IF shown THEN {p} ELSE {}
    <3>1. CASE shown
      BY <1>3, <3>1, MessageAndPhase, OneItem
    <3>2. CASE ~shown
      BY <3>2, NoItem
    <3> QED
      BY <3>1, <3>2
  <2>4. /\ text \in Seq(Item) /\ NoRepeat(text) /\ PhasesOf(text) = {}
        /\ MessagesOf(text) = IF quietMode THEN {} ELSE {This}
    <3>1. CASE quietMode
      BY <3>1, NoItem
    <3>2. CASE ~quietMode
      BY <2>1, <3>2, MessageAndPhase, OneItem
    <3> QED
      BY <3>1, <3>2
  <2>5. ~shown => p \in PhasesShown
    BY <1>3, InvParts DEF ShouldShowPhase
  <2> HIDE DEF shown, stage, text
  <2>6. /\ items \in Seq(Item) /\ NoRepeat(items)
        /\ PhasesOf(items) = IF shown THEN {p} ELSE {}
        /\ MessagesOf(items) = IF quietMode THEN {} ELSE {This}
    BY <2>3, <2>4, ConcatPrints
  <2> HIDE DEF items
  <2>7. PhasesShown' = PhasesShown \cup PhasesOf(items)
    <3>1. PhasesShown' = PhasesOf(output')
      BY DEF PhasesShown, PhasesOf
    <3> QED
      BY <2>2, <2>6, <3>1, InvParts, PrintedIs, ConcatPrints
  <2>8. ASSUME NEW i \in DOMAIN sent' \ DOMAIN sent PROVE i \in MessagesOf(items) \/ Excused(i)'
    <3>1. CASE quietMode
      BY <2>1, <2>5, <2>6, <2>7, <3>1 DEF Excused
    <3>2. CASE ~quietMode
      BY <2>1, <2>6, <3>2
    <3> QED
      BY <3>1, <3>2
  <2>9. quietMode' = quietMode /\ buffered' = buffered /\ cleared' = cleared
    BY <1>1
  <2> QED
    <3>1. /\ activePhase' \in PhasesShown \cup PhasesOf(items) \cup {NoPhase}
          /\ suppressedPhases' \subseteq PhasesShown \cup PhasesOf(items)
      BY <2>2, <2>6, InvParts
    <3>2. /\ MessagesOf(items) \cap Printed = {}
          /\ MessagesOf(items) \cup Kept' \subseteq DOMAIN sent'
          /\ Kept' \cap (Printed \cup MessagesOf(items)) = {}
      BY <2>1, <2>2, <2>6, InvParts
    <3> QED
      BY <2>1, <2>2, <2>6, <2>8, <2>9, <3>1, <3>2, InvParts, LoggerStep
<1> QED
  BY <1>2, <1>3

(* A stage is shown, unless it is suppressed, and its message logged.      *)
LEMMA ProgressStageKeeps ==
  ASSUME LoggerIInv, NEW p \in Working, ProgressStage(p)
  PROVE  LoggerIInv'
<1> DEFINE stage == <<Phase(p)>>
           text == <<Message(This)>>
           items == stage \o text
<1>1. Sends("stage", p) /\ p \in PhaseNames
  BY PhaseNamesOK DEF ProgressStage
<1>2. /\ This \in Nat \ {0} /\ This \notin DOMAIN sent
      /\ sent' \in Seq(Sent) /\ DOMAIN sent' = DOMAIN sent \cup {This}
      /\ \A i \in DOMAIN sent : sent'[i] = sent[i]
  BY <1>1, PhaseNamesOK, SendsIs
<1>3. /\ stage \in Seq(Item) /\ NoRepeat(stage) /\ MessagesOf(stage) = {}
      /\ PhasesOf(stage) = {p} \ {NoPhase}
  BY <1>1, MessageAndPhase, OneItem
<1>4. /\ text \in Seq(Item) /\ NoRepeat(text) /\ MessagesOf(text) = {This}
      /\ PhasesOf(text) = {}
  BY <1>2, MessageAndPhase, OneItem
<1>5. stage \o text = <<Phase(p), Message(This)>>
  BY <1>1, <1>2, MessageAndPhase, TwoItems
<1>6. output' = output \o items
  BY <1>5 DEF ProgressStage, Outputs
<1>7. /\ activePhase' = p /\ Kept' = Kept
      /\ UNCHANGED <<buffered, quietMode, buffer, suppressedPhases, cleared>>
  BY DEF ProgressStage, Kept
<1> HIDE DEF stage, text
<1>8. /\ items \in Seq(Item) /\ NoRepeat(items)
      /\ PhasesOf(items) = {p} \ {NoPhase} /\ MessagesOf(items) = {This}
  BY <1>3, <1>4, ConcatPrints
<1> HIDE DEF items
<1> QED
  BY <1>2, <1>6, <1>7, <1>8, InvParts, LoggerStep

(* What empties the buffer.                                                *)
LEMMA EmptiedIs ==
  ASSUME Emptied
  PROVE  buffer' \in Seq(Nat) /\ Increasing(buffer') /\ Kept' = {}
<1>1. buffer' = <<>>
  BY DEF Emptied
<1> QED
  BY <1>1 DEF Increasing, Kept

(* A critical error shows what was kept back before itself.                *)
LEMMA CriticalErrorKeeps ==
  ASSUME LoggerIInv, CriticalError
  PROVE  LoggerIInv'
<1> DEFINE text == <<Message(This)>>
           items == Buffered \o text
<1>1. Sends("critical", NoPhase)
  BY DEF CriticalError
<1>2. /\ This \in Nat \ {0} /\ This \notin DOMAIN sent
      /\ sent' \in Seq(Sent) /\ DOMAIN sent' = DOMAIN sent \cup {This}
      /\ \A i \in DOMAIN sent : sent'[i] = sent[i]
  BY <1>1, PhaseNamesOK, SendsIs
<1>3. /\ text \in Seq(Item) /\ NoRepeat(text) /\ MessagesOf(text) = {This}
      /\ PhasesOf(text) = {}
  BY <1>2, MessageAndPhase, OneItem
<1>4. /\ Buffered \in Seq(Item) /\ NoRepeat(Buffered)
      /\ MessagesOf(Buffered) = Kept /\ PhasesOf(Buffered) = {}
  BY BufferedPrints
<1>5. Append(Buffered, Message(This)) = Buffered \o text
  BY <1>2, <1>4, MessageAndPhase
<1>6. output' = output \o items
  BY <1>5 DEF CriticalError, Outputs
<1>7. /\ buffer' \in Seq(Nat) /\ Increasing(buffer') /\ Kept' = {}
      /\ UNCHANGED <<buffered, quietMode, activePhase, suppressedPhases, cleared>>
  BY EmptiedIs DEF CriticalError
<1> HIDE DEF text
<1>8. /\ items \in Seq(Item) /\ NoRepeat(items)
      /\ PhasesOf(items) = {} /\ MessagesOf(items) = Kept \cup {This}
  <2>1. MessagesOf(Buffered) \cap MessagesOf(text) = {}
    BY <1>2, <1>3, <1>4, InvParts
  <2> QED
    BY <1>3, <1>4, <2>1, ConcatPrints
<1> HIDE DEF items
<1> QED
  BY <1>2, <1>6, <1>7, <1>8, InvParts, LoggerStep

(* What was kept back is shown.                                            *)
LEMMA FlushKeeps ==
  ASSUME LoggerIInv, FlushBuffer
  PROVE  LoggerIInv'
<1>1. /\ Buffered \in Seq(Item) /\ NoRepeat(Buffered)
      /\ MessagesOf(Buffered) = Kept /\ PhasesOf(Buffered) = {}
  BY BufferedPrints
<1>2. /\ output' = output \o Buffered
      /\ UNCHANGED <<buffered, quietMode, activePhase, suppressedPhases, sent, cleared>>
  BY DEF FlushBuffer, Outputs
<1>3. buffer' \in Seq(Nat) /\ Increasing(buffer') /\ Kept' = {}
  BY EmptiedIs DEF FlushBuffer
<1> QED
  BY <1>1, <1>2, <1>3, InvParts, LoggerStep

(* What prints and sends nothing.                                          *)
LEMMA SilentKeeps ==
  ASSUME LoggerIInv, ClearBuffer \/ MarkFailed \/ SetQuietMode \/ EnableBatchMode
                     \/ DisableBatchMode \/ UNCHANGED loggerVars
  PROVE  LoggerIInv'
<1>1. UNCHANGED <<buffered, output, sent>>
  BY DEF ClearBuffer, MarkFailed, SetQuietMode, EnableBatchMode, DisableBatchMode, loggerVars
<1>2. quietMode' \in BOOLEAN
  BY InvParts DEF ClearBuffer, MarkFailed, SetQuietMode, EnableBatchMode, DisableBatchMode,
                  loggerVars
<1>3. \/ buffer' = buffer /\ cleared' = cleared
      \/ Emptied /\ cleared' = cleared \cup Kept
  BY DEF ClearBuffer, MarkFailed, SetQuietMode, EnableBatchMode, DisableBatchMode, loggerVars
<1>4. /\ buffer' \in Seq(Nat) /\ Increasing(buffer') /\ cleared \subseteq cleared'
      /\ Kept' \subseteq Kept /\ Kept \subseteq Kept' \cup cleared'
  <2>1. CASE buffer' = buffer /\ cleared' = cleared
    <3>1. Kept' = Kept
      BY <2>1 DEF Kept
    <3> QED
      BY <2>1, <3>1, InvParts
  <2>2. CASE Emptied /\ cleared' = cleared \cup Kept
    BY <2>2, EmptiedIs
  <2> QED
    BY <1>3, <2>1, <2>2
<1>5. activePhase' \in {activePhase, NoPhase} /\ suppressedPhases' \subseteq suppressedPhases
  BY DEF ClearBuffer, MarkFailed, SetQuietMode, EnableBatchMode, DisableBatchMode, loggerVars
<1>6. PICK items : items = <<>>
  OBVIOUS
<1>7. /\ items \in Seq(Item) /\ NoRepeat(items) /\ MessagesOf(items) = {} /\ PhasesOf(items) = {}
  BY <1>6, NoItem
<1>8. output' = output \o items
  BY <1>1, <1>6, InvParts, ConcatEmptySeq
<1> QED
  BY <1>1, <1>2, <1>4, <1>5, <1>7, <1>8, InvParts, LoggerStep

(* Every call keeps the invariant.                                         *)
LEMMA LoggerNextKeeps == LoggerIInv /\ [LoggerNext]_loggerVars => LoggerIInv'
<1> SUFFICES ASSUME LoggerIInv, [LoggerNext]_loggerVars PROVE LoggerIInv'
  OBVIOUS
<1>1. CASE Warn \/ Error \/ Info \/ Immediate \/ ImmediateError \/ FatalError
  BY <1>1, PlainMessagesKeep
<1>2. CASE CriticalError
  BY <1>2, CriticalErrorKeeps
<1>3. CASE \E p \in Working \cup Completed \cup {NoPhase} : ShortInfo(p)
  BY <1>3, ShortInfoKeeps DEF PhaseNames
<1>4. CASE \E p \in Working : ProgressStage(p)
  BY <1>4, ProgressStageKeeps
<1>5. CASE FlushBuffer \/ FlushOnFailure
  BY <1>5, FlushKeeps DEF FlushOnFailure
<1>6. CASE ClearBuffer \/ MarkFailed \/ SetQuietMode \/ EnableBatchMode \/ DisableBatchMode
           \/ UNCHANGED loggerVars
  BY <1>6, SilentKeeps
<1> QED
  BY <1>1, <1>2, <1>3, <1>4, <1>5, <1>6 DEF LoggerNext

(* Whatever is called on a logger, and however often: no message is        *)
(* printed twice or while it is still kept back, those kept back stay in   *)
(* their order, and none is lost but those that a quiet logger may drop.   *)
THEOREM LoggerSafe == LoggerSpec => []LoggerRight
<1>1. LoggerIInv => LoggerRight
  <2> SUFFICES ASSUME LoggerIInv PROVE LoggerRight
    OBVIOUS
  <2>1. \A i \in DOMAIN sent \ (Printed \cup Kept \cup cleared) : Excused(i)
    BY DEF LoggerIInv
  <2> QED
    BY <2>1 DEF LoggerIInv, LoggerRight, NoRepeat, Increasing, Excused
<1> QED
  BY <1>1, LoggerInitHolds, LoggerNextKeeps, PTL DEF LoggerSpec
==============================================================================
