---------------------------- MODULE RefResolver ----------------------------
(***************************************************************************)
(* The resolution of references, cloudinfo/ref_resolver.go: several        *)
(* callers share one CloudInfoService, and with it the region that the     *)
(* last failover has chosen and the authenticator that a rejected API key  *)
(* makes a caller replace.  A caller asks one region after the other; each *)
(* request is two steps, since others go on while it is under way.         *)
(***************************************************************************)
EXTENDS Integers, Sequences

CONSTANTS Callers,        \* goroutines that share the service
          Requests,       \* the regions they ask for
          MaxCalls,       \* calls per caller
          NoRegion

ASSUME NoRegionAssumption == NoRegion \notin Requests
ASSUME MaxCallsAssumption == MaxCalls \in Nat

DevRegions == {"dev", "test", "staging"}
ProductionRegions == {"us-south", "us-east", "ca-tor", "eu-de", "eu-gb", "mon01"}

\* A region's long name (ibm:yp:...) has the endpoint and the fallbacks of its short one.
HasEndpoint(region) == region \in DevRegions \cup ProductionRegions

Fallbacks(region) ==
    CASE region = "us-south" -> <<"us-east", "ca-tor", "eu-de", "eu-gb", "mon01">>
      [] region = "us-east"  -> <<"us-south", "ca-tor", "eu-de", "eu-gb", "mon01">>
      [] region = "ca-tor"   -> <<"us-east", "us-south", "eu-de", "eu-gb", "mon01">>
      [] region = "eu-de"    -> <<"eu-gb", "us-south", "us-east", "ca-tor", "mon01">>
      [] region = "eu-gb"    -> <<"eu-de", "us-south", "us-east", "ca-tor", "mon01">>
      [] region = "mon01"    -> <<"ca-tor", "us-east", "us-south", "eu-de", "eu-gb">>
      [] OTHER -> <<"us-south", "us-east", "eu-de", "eu-gb", "ca-tor", "mon01">>

\* What a request may end with: an API key that could not be validated (a 500 with that
\* text), another status worth a retry (a project not found yet, 429, 5xx), any other
\* status, and what is no answer at all.
Retryable == {"apikey", "transient"}
Errors == Retryable \cup {"status", "broken"}
NoError == "none"

VARIABLES activeRefResolverRegion,
          authenticator,   \* the instances made so far: each has a token of its own
          resolving,       \* per caller, the place in the code
          calls,           \* calls made
          region,          \* the region that the call began with
          fallback,        \* 0 for that region, then the fallback being asked
          attempt,         \* the attempt in that region
          token,           \* the instance whose token the request carries
          lastErr,
          answered,        \* history: the regions that have answered some caller
          tried            \* history: the regions that have refused this call

resolverVars == <<activeRefResolverRegion, authenticator, resolving, calls, region,
                  fallback, attempt, token, lastErr, answered, tried>>

ResolverInit ==
    /\ activeRefResolverRegion = NoRegion
    /\ authenticator = 0
    /\ resolving = [c \in Callers |-> "idle"]
    /\ calls = [c \in Callers |-> 0]
    /\ region = [c \in Callers |-> NoRegion]
    /\ fallback = [c \in Callers |-> 0]
    /\ attempt = [c \in Callers |-> 0]
    /\ token = [c \in Callers |-> 0]
    /\ lastErr = [c \in Callers |-> NoError]
    /\ answered = {}
    /\ tried = [c \in Callers |-> {}]

Asked(c) == IF fallback[c] = 0 THEN region[c] ELSE Fallbacks(region[c])[fallback[c]]

\* dev, test and staging: three retries and nothing else; production: one retry in the
\* first region, none in the others.
DefaultRetryCount == 3
MaxRetries(c) == IF region[c] \in DevRegions THEN DefaultRetryCount
                 ELSE IF fallback[c] = 0 THEN 1 ELSE 0

HasFallback(c) == /\ region[c] \notin DevRegions
                  /\ fallback[c] < Len(Fallbacks(region[c]))

ToSend(c) == resolving' = [resolving EXCEPT ![c] = "send"]

\* The caller asks for region r; a region that a failover has chosen replaces it.
Begin(c, r) ==
    /\ resolving[c] \in {"idle", "resolved", "failed"}
    /\ calls[c] < MaxCalls
    /\ calls' = [calls EXCEPT ![c] = @ + 1]
    /\ region' = [region EXCEPT ![c] =
                    IF activeRefResolverRegion = NoRegion THEN r ELSE activeRefResolverRegion]
    /\ fallback' = [fallback EXCEPT ![c] = 0]
    /\ attempt' = [attempt EXCEPT ![c] = 0]
    /\ lastErr' = [lastErr EXCEPT ![c] = NoError]
    /\ tried' = [tried EXCEPT ![c] = {}]
    /\ ToSend(c)
    /\ UNCHANGED <<activeRefResolverRegion, authenticator, token, answered>>

\* The request leaves with the token of the present authenticator.
Send(c) ==
    /\ resolving[c] = "send"
    /\ HasEndpoint(Asked(c))
    /\ token' = [token EXCEPT ![c] = authenticator]
    /\ resolving' = [resolving EXCEPT ![c] = "sent"]
    /\ UNCHANGED <<activeRefResolverRegion, authenticator, calls, region, fallback, attempt,
                   lastErr, answered, tried>>

\* A fallback that has answered is where every later call begins.
Remembers(c) ==
    activeRefResolverRegion' = IF fallback[c] = 0 THEN activeRefResolverRegion ELSE Asked(c)

Answer(c) ==
    /\ resolving[c] = "sent"
    /\ resolving' = [resolving EXCEPT ![c] = "resolved"]
    /\ Remembers(c)
    /\ answered' = answered \cup {Asked(c)}
    /\ UNCHANGED <<authenticator, calls, region, fallback, attempt, token, lastErr, tried>>

\* What a request may end with instead: anything once it was sent, and nothing but a
\* missing endpoint or a missing token before.
Fails(c, e) ==
    /\ \/ resolving[c] = "sent" /\ e \in Errors
       \/ resolving[c] = "send" /\ e = "broken"
    /\ lastErr' = [lastErr EXCEPT ![c] = e]
    /\ tried' = [tried EXCEPT ![c] = @ \cup {Asked(c)}]

KeepsAuthenticatorBUG(e) == UNCHANGED authenticator

\* Forces a fresh token for the retry.
RefreshToken(e) == authenticator' = IF e = "apikey" THEN authenticator + 1 ELSE authenticator

Retry(c, e) ==
    /\ Fails(c, e)
    /\ e \in Retryable
    /\ attempt[c] < MaxRetries(c)
    /\ RefreshToken(e)
    /\ attempt' = [attempt EXCEPT ![c] = @ + 1]
    /\ ToSend(c)
    /\ UNCHANGED <<activeRefResolverRegion, calls, region, fallback, token, answered>>

\* An error that is not worth a retry, or the last attempt.
GivesUp(c, e) == e \notin Retryable \/ attempt[c] = MaxRetries(c)

GivesUpEarlyBUG(c) == HasFallback(c) /\ lastErr'[c] \in Retryable

\* Any error of a production region sends the call on to the next one.
FailsOver(c) == HasFallback(c)

FailOver(c, e) ==
    /\ Fails(c, e)
    /\ GivesUp(c, e)
    /\ FailsOver(c)
    /\ fallback' = [fallback EXCEPT ![c] = @ + 1]
    /\ attempt' = [attempt EXCEPT ![c] = 0]
    /\ ToSend(c)
    /\ UNCHANGED <<activeRefResolverRegion, authenticator, calls, region, token, answered>>

Fail(c, e) ==
    /\ Fails(c, e)
    /\ GivesUp(c, e)
    /\ ~FailsOver(c)
    /\ resolving' = [resolving EXCEPT ![c] = "failed"]
    /\ UNCHANGED <<activeRefResolverRegion, authenticator, calls, region, fallback, attempt,
                   token, answered>>

ResolverStep(c) ==
    \/ Send(c)
    \/ Answer(c)
    \/ \E e \in Errors : Retry(c, e) \/ FailOver(c, e) \/ Fail(c, e)

ResolverNext == \E c \in Callers : ResolverStep(c) \/ \E r \in Requests : Begin(c, r)

\* A request is answered, or fails in the end: the HTTP client has no call without an end
\* here, and a caller that may go on does.
ResolverFairness == \A c \in Callers : WF_resolverVars(ResolverStep(c))

ResolverSpec == ResolverInit /\ [][ResolverNext]_resolverVars /\ ResolverFairness
-----------------------------------------------------------------------------
AllRegions == Requests \cup DevRegions \cup ProductionRegions

\* Every variable keeps to its type; attempts and fallbacks to their limits.
ResolverTypeOK ==
    /\ activeRefResolverRegion \in ProductionRegions \cup {NoRegion}
    /\ authenticator \in Nat
    /\ resolving \in [Callers -> {"idle", "send", "sent", "resolved", "failed"}]
    /\ calls \in [Callers -> 0 .. MaxCalls]
    /\ region \in [Callers -> AllRegions \cup {NoRegion}]
    /\ fallback \in [Callers -> 0 .. 6]
    /\ attempt \in [Callers -> 0 .. DefaultRetryCount]
    /\ token \in [Callers -> Nat]
    /\ lastErr \in [Callers -> Errors \cup {NoError}]
    /\ answered \subseteq AllRegions
    /\ tried \in [Callers -> SUBSET AllRegions]

\* The region that replaces every region asked for later is one that has really answered
\* some caller, whatever the callers do at the same time.
ActiveRegionAnswered == activeRefResolverRegion \in answered \cup {NoRegion}

\* A region whose answer was that the API key could not be validated is not asked again
\* with the token it has refused, although other callers use and replace the shared
\* authenticator in between.
NoRejectedTokenAgain ==
    [][\A c \in Callers :
         /\ resolving[c] = "send" /\ resolving'[c] = "sent"
         /\ attempt[c] > 0 /\ lastErr[c] = "apikey"
         => token'[c] # token[c]]_resolverVars

\* A caller that is told of an error in production has been refused by the region it began
\* with and by every fallback of it; in the other environments by an error that is not
\* worth a retry, or by every attempt.
ErrorsAreExhaustive ==
    \A c \in Callers : resolving[c] = "failed" =>
        IF region[c] \in DevRegions
        THEN lastErr[c] \notin Retryable \/ attempt[c] = DefaultRetryCount
        ELSE /\ region[c] \in tried[c]
             /\ \A i \in DOMAIN Fallbacks(region[c]) : Fallbacks(region[c])[i] \in tried[c]
=============================================================================
