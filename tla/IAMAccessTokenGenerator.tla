--------------------- MODULE IAMAccessTokenGenerator ---------------------
(***************************************************************************)
(* The IAMAccessTokenGenerator composite: one thread that asks the IAM     *)
(* service for an access token, hands it to the WatsonSTT operators, and   *)
(* asks again before the token expires, for as long as the job runs.       *)
(*                                                                         *)
(* A refresh token is identified by the api key it was granted for.  Time  *)
(* is counted down: wait is what remains of a block(), tokenLeft what      *)
(* remains of the validity of the token that was handed out last, counted  *)
(* like the code does from the answer on.  The service issued the token up *)
(* to a whole httpPost earlier, so that it ends earlier by as much.  A     *)
(* Tick is a second of the system clock, whose fractions the code cuts off.*)
(***************************************************************************)
EXTENDS Integers

CONSTANTS
  ApiKeys,       \* the keys an administrator configures
  NoKey,         \* the empty api key
  NoToken,       \* the empty token
  Configs,       \* the sets of parameters the operator may be started with
  Validities,    \* how long the service lets an access token live
  CallTime,      \* bound: the longest time an httpPost or a submit takes
  MaxFaults,     \* bound: requests that fail in any way
  MaxGrants,     \* bound: requests that succeed
  MaxKeyChanges  \* bound: changes of the api key

(* The parameters that hold a number may be anything, since the operator   *)
(* itself rejects bad ones.  accessToken and iamTokenURL only matter in    *)
(* being empty or not.                                                     *)
ASSUME ParametersAreTyped ==
  Configs \subseteq [accessToken : BOOLEAN, iamTokenURL : BOOLEAN,
                     defaultExpiresIn : Int, guardTime : Int, maxRetryDelay : Int,
                     failureRetryDelay : Int, expiresInTestValue : Int]

ASSUME TimesAreNumbers ==
  /\ Validities \subseteq Nat \ {0}
  /\ {CallTime, MaxFaults, MaxGrants, MaxKeyChanges} \subseteq Nat

ASSUME EmptyValuesDiffer == NoKey \notin ApiKeys /\ NoToken \notin ApiKeys

VARIABLES
  pc,
  config,
  apiKey,                      \* the application configuration's value
  apiKeyTemp,                  \* the value that was read last
  previousApiKey,
  refreshToken,
  authorizationSucess,
  request,                     \* the request body: its grant type and key
  nConnectionAttemptsCurrent,
  nConnectionAttemptsFailed,
  nRequestsFailed,
  nSuccessfulInitialRequests,
  nSuccessfulRefreshRequests,
  expiresIn,                   \* expires_in of the last token, 0 for none
  wait,
  elapsed,                     \* time since the last httpPost or submit began
  output,                      \* the token handed out last
  tokenLeft,
  refused,                     \* history: the service said no to the last request
  keyChanges,
  shutdown

counters == <<nConnectionAttemptsFailed, nRequestsFailed, nSuccessfulInitialRequests,
              nSuccessfulRefreshRequests>>
grantVars == <<previousApiKey, expiresIn, output, refused>>
roundVars == <<apiKeyTemp, refreshToken, authorizationSucess, request>>
timers    == <<wait, elapsed, tokenLeft>>
outside   == <<config, apiKey, keyChanges, shutdown>>

vars == <<pc, roundVars, nConnectionAttemptsCurrent, counters, grantVars, timers, outside>>

NoRequest == [kind |-> "none", key |-> NoKey]

Faults == nConnectionAttemptsFailed + nRequestsFailed
Grants == nSuccessfulInitialRequests + nSuccessfulRefreshRequests

Lower(a, b) == IF a < b THEN a ELSE b

-----------------------------------------------------------------------------
Init ==
  /\ pc = "start"
  /\ config \in Configs
  /\ apiKey \in ApiKeys \union {NoKey}
  /\ apiKeyTemp = NoKey
  /\ previousApiKey = NoKey
  /\ refreshToken = NoToken
  /\ authorizationSucess = TRUE
  /\ request = NoRequest
  /\ nConnectionAttemptsCurrent = 0
  /\ nConnectionAttemptsFailed = 0
  /\ nRequestsFailed = 0
  /\ nSuccessfulInitialRequests = 0
  /\ nSuccessfulRefreshRequests = 0
  /\ expiresIn = 0
  /\ wait = 0
  /\ elapsed = 0
  /\ output = NoToken
  /\ tokenLeft = 0
  /\ refused = FALSE
  /\ keyChanges = 0
  /\ shutdown = FALSE

-----------------------------------------------------------------------------
(* The start of onProcess.                                                 *)
EmitConfiguredToken ==
  /\ pc = "start" /\ config.accessToken
  /\ pc' = "ended"
  /\ output' = "configured"
  /\ UNCHANGED <<roundVars, nConnectionAttemptsCurrent, counters, previousApiKey,
                 expiresIn, refused, timers, outside>>

ParametersOk ==
  /\ config.iamTokenURL
  /\ config.defaultExpiresIn > 0
  /\ config.guardTime >= 0
  /\ config.maxRetryDelay > 0
  /\ config.failureRetryDelay > 0

CheckParameters ==
  /\ pc = "start" /\ ~config.accessToken
  /\ pc' = IF ParametersOk THEN "loop" ELSE "aborted"
  /\ UNCHANGED <<roundVars, nConnectionAttemptsCurrent, counters, grantVars, timers,
                 outside>>

-----------------------------------------------------------------------------
(* A block() ends when its time is over or when the job is cancelled.      *)
BlockEnds == wait = 0 \/ shutdown

(* Slip: the outer loop does not look whether the job runs.                *)
LoopForever ==
  /\ pc = "loop"
  /\ shutdown \/ Grants < MaxGrants
  /\ pc' = IF authorizationSucess THEN "prepare" ELSE "delay"
  /\ wait' = IF authorizationSucess THEN 0 ELSE config.failureRetryDelay
  /\ UNCHANGED <<roundVars, nConnectionAttemptsCurrent, counters, grantVars, elapsed,
                 tokenLeft, outside>>

(* The head of the outer loop, with the pause after a failure.             *)
Loop ==
  /\ pc = "loop"
  /\ shutdown \/ Grants < MaxGrants
  /\ pc' = IF shutdown THEN "ended" ELSE IF authorizationSucess THEN "prepare" ELSE "delay"
  /\ wait' = IF shutdown \/ authorizationSucess THEN 0 ELSE config.failureRetryDelay
  /\ UNCHANGED <<roundVars, nConnectionAttemptsCurrent, counters, grantVars, elapsed,
                 tokenLeft, outside>>

FailureDelayEnds ==
  /\ pc = "delay" /\ BlockEnds
  /\ pc' = IF shutdown THEN "loop" ELSE "prepare"
  /\ wait' = 0
  /\ UNCHANGED <<roundVars, nConnectionAttemptsCurrent, counters, grantVars, elapsed,
                 tokenLeft, outside>>

FindNoApiKey ==
  /\ pc = "prepare" /\ apiKey = NoKey
  /\ pc' = "loop"
  /\ apiKeyTemp' = NoKey
  /\ authorizationSucess' = FALSE
  /\ UNCHANGED <<refreshToken, request, nConnectionAttemptsCurrent, counters, grantVars,
                 timers, outside>>

(* Slip: a change of the key is not noticed.                               *)
RefreshTokenHeld == refreshToken

(* The refresh token this round may use: none when the key has changed.    *)
UsableRefreshToken == IF apiKey = previousApiKey THEN refreshToken ELSE NoToken

PrepareRequest ==
  /\ pc = "prepare" /\ apiKey # NoKey
  /\ pc' = "attempt"
  /\ apiKeyTemp' = apiKey
  /\ refreshToken' = UsableRefreshToken
  /\ request' = IF refreshToken' = NoToken THEN [kind |-> "initial", key |-> apiKey]
                                           ELSE [kind |-> "refresh", key |-> refreshToken']
  /\ authorizationSucess' = FALSE
  /\ nConnectionAttemptsCurrent' = 0
  /\ UNCHANGED <<counters, grantVars, timers, outside>>

-----------------------------------------------------------------------------
(* The inner loop: post the request until the service answers.  The pause  *)
(* doubles with every attempt, up to maxRetryDelay.                        *)
waitTime == Lower(2 ^ nConnectionAttemptsCurrent, config.maxRetryDelay)

Attempt ==
  /\ pc = "attempt"
  /\ \/ /\ shutdown
        /\ pc' = "loop"
        /\ UNCHANGED <<wait, elapsed, nConnectionAttemptsCurrent>>
     \/ /\ ~shutdown /\ nConnectionAttemptsCurrent >= 1
        /\ pc' = "backoff"
        /\ wait' = waitTime
        /\ UNCHANGED <<elapsed, nConnectionAttemptsCurrent>>
     \/ /\ ~shutdown /\ nConnectionAttemptsCurrent = 0
        /\ pc' = "post"
        /\ elapsed' = 0
        /\ nConnectionAttemptsCurrent' = 1
        /\ UNCHANGED wait
  /\ UNCHANGED <<roundVars, counters, grantVars, tokenLeft, outside>>

BackoffEnds ==
  /\ pc = "backoff" /\ BlockEnds
  /\ wait' = 0
  /\ IF shutdown
       THEN pc' = "attempt" /\ UNCHANGED <<elapsed, nConnectionAttemptsCurrent>>
       ELSE /\ pc' = "post"
            /\ elapsed' = 0
            /\ nConnectionAttemptsCurrent' = nConnectionAttemptsCurrent + 1
  /\ UNCHANGED <<roundVars, counters, grantVars, tokenLeft, outside>>

-----------------------------------------------------------------------------
(* httpPost returns.  First: a curl error, or headers that make no answer. *)
PostFails ==
  /\ pc = "post" /\ Faults < MaxFaults
  /\ pc' = "attempt"
  /\ \/ /\ nConnectionAttemptsFailed' = nConnectionAttemptsFailed + 1
        /\ UNCHANGED nRequestsFailed
     \/ /\ nRequestsFailed' = nRequestsFailed + 1
        /\ UNCHANGED nConnectionAttemptsFailed
  /\ UNCHANGED <<roundVars, nConnectionAttemptsCurrent, nSuccessfulInitialRequests,
                 nSuccessfulRefreshRequests, grantVars, timers, outside>>

(* Slips: the refresh token is kept; the thread gives up.                  *)
RefusedKeepsToken ==
  /\ pc = "post" /\ Faults < MaxFaults
  /\ pc' = "loop"
  /\ nRequestsFailed' = nRequestsFailed + 1
  /\ nConnectionAttemptsCurrent' = 0
  /\ refused' = TRUE
  /\ UNCHANGED <<roundVars, nConnectionAttemptsFailed, nSuccessfulInitialRequests,
                 nSuccessfulRefreshRequests, previousApiKey, expiresIn, output, timers,
                 outside>>

RefusedForGood ==
  /\ pc = "post" /\ Faults < MaxFaults
  /\ pc' = "ended"
  /\ nRequestsFailed' = nRequestsFailed + 1
  /\ nConnectionAttemptsCurrent' = 0
  /\ refreshToken' = NoToken
  /\ refused' = TRUE
  /\ UNCHANGED <<apiKeyTemp, authorizationSucess, request, nConnectionAttemptsFailed,
                 nSuccessfulInitialRequests, nSuccessfulRefreshRequests, previousApiKey,
                 expiresIn, output, timers, outside>>

(* An answer without an access token ends the inner loop, too.             *)
RequestRefused ==
  /\ pc = "post" /\ Faults < MaxFaults
  /\ pc' = "loop"
  /\ nRequestsFailed' = nRequestsFailed + 1
  /\ nConnectionAttemptsCurrent' = 0
  /\ refreshToken' = NoToken
  /\ refused' = TRUE
  /\ UNCHANGED <<apiKeyTemp, authorizationSucess, request, nConnectionAttemptsFailed,
                 nSuccessfulInitialRequests, nSuccessfulRefreshRequests, previousApiKey,
                 expiresIn, output, timers, outside>>

CountGrant ==
  IF refreshToken = NoToken
    THEN /\ nSuccessfulInitialRequests' = nSuccessfulInitialRequests + 1
         /\ UNCHANGED nSuccessfulRefreshRequests
    ELSE /\ nSuccessfulRefreshRequests' = nSuccessfulRefreshRequests + 1
         /\ UNCHANGED nSuccessfulInitialRequests

(* The service grants a token that lives for a time it may not tell, with  *)
(* or without a refresh token; submit begins.                              *)
RequestGranted ==
  /\ pc = "post"
  /\ pc' = "submit"
  /\ nConnectionAttemptsCurrent' = 0
  /\ authorizationSucess' = TRUE
  /\ CountGrant
  /\ refreshToken' \in {NoToken, request.key}
  /\ previousApiKey' = apiKeyTemp
  /\ tokenLeft' \in Validities
  /\ expiresIn' \in {0, tokenLeft'}
  /\ output' = request.key
  /\ elapsed' = 0
  /\ refused' = FALSE
  /\ UNCHANGED <<apiKeyTemp, request, nConnectionAttemptsFailed, nRequestsFailed, wait,
                 outside>>

(* submit has returned: how long to sleep.                                 *)
currentExpiresIn ==
  LET told == IF config.expiresInTestValue # 0 THEN config.expiresInTestValue ELSE expiresIn
  IN  IF told <= 0 THEN config.defaultExpiresIn ELSE told

effectiveExireIn ==
  IF currentExpiresIn < config.guardTime THEN currentExpiresIn
                                         ELSE currentExpiresIn - config.guardTime

(* Slip: the time that submit took is not compensated.                     *)
TimeToBlockUncompensated == effectiveExireIn

TimeToBlock == IF elapsed >= effectiveExireIn THEN 0 ELSE effectiveExireIn - elapsed

Sleep ==
  /\ pc = "submit"
  /\ pc' = "sleep"
  /\ wait' = TimeToBlock
  /\ UNCHANGED <<roundVars, nConnectionAttemptsCurrent, counters, grantVars, elapsed,
                 tokenLeft, outside>>

SleepEnds ==
  /\ pc = "sleep" /\ BlockEnds
  /\ pc' = "loop"
  /\ wait' = 0
  /\ UNCHANGED <<roundVars, nConnectionAttemptsCurrent, counters, grantVars, elapsed,
                 tokenLeft, outside>>

-----------------------------------------------------------------------------
(* The surroundings: the clock, the administrator and the runtime.         *)
Tick ==
  /\ \/ /\ pc \in {"delay", "backoff", "sleep"} /\ wait > 0
        /\ wait' = wait - 1
        /\ UNCHANGED elapsed
     \/ /\ pc \in {"post", "submit"} /\ elapsed < CallTime
        /\ elapsed' = elapsed + 1
        /\ UNCHANGED wait
  /\ tokenLeft' = IF tokenLeft > 0 THEN tokenLeft - 1 ELSE 0
  /\ UNCHANGED <<pc, roundVars, nConnectionAttemptsCurrent, counters, grantVars, outside>>

ChangeApiKey ==
  /\ keyChanges < MaxKeyChanges
  /\ keyChanges' = keyChanges + 1
  /\ apiKey' \in (ApiKeys \union {NoKey}) \ {apiKey}
  /\ UNCHANGED <<pc, roundVars, nConnectionAttemptsCurrent, counters, grantVars, timers,
                 config, shutdown>>

RequestShutdown ==
  /\ ~shutdown
  /\ shutdown' = TRUE
  /\ UNCHANGED <<pc, roundVars, nConnectionAttemptsCurrent, counters, grantVars, timers,
                 config, apiKey, keyChanges>>

Thread ==
  \/ EmitConfiguredToken
  \/ CheckParameters
  \/ Loop
  \/ FailureDelayEnds
  \/ FindNoApiKey
  \/ PrepareRequest
  \/ Attempt
  \/ BackoffEnds
  \/ PostFails
  \/ RequestRefused
  \/ RequestGranted
  \/ Sleep
  \/ SleepEnds

Next == Thread \/ Tick \/ ChangeApiKey \/ RequestShutdown

Spec == Init /\ [][Next]_vars

(* The thread is scheduled, time passes, calls return.                     *)
FairSpec == Spec /\ WF_vars(Thread) /\ WF_vars(Tick)

-----------------------------------------------------------------------------
Requesting == pc \in {"attempt", "backoff", "post"}

(* Every request is made on behalf of the api key that was read for it: a  *)
(* refresh token obtained with an earlier key is never used, however often *)
(* the key is exchanged, removed and set back meanwhile.                   *)
RequestsUseKeyRead == Requesting => request.key = apiKeyTemp

(* Once the service has refused a request, the next one starts anew with   *)
(* the api key instead of repeating the refresh token.                     *)
RefusedTokenIsDropped == Requesting /\ refused => request.kind = "initial"

(* A token is renewed in time.  If the service told how long it lives and  *)
(* that is no less than the guard time, the round that renews it begins    *)
(* guardTime seconds before its end, or as soon as submit has returned.    *)
(* The end is that on the code's clock: up to a second, and to the time    *)
(* the answer took.                                                        *)
InTime ==
  tokenLeft >= Lower(config.guardTime, expiresIn - elapsed)

GuardTimeApplies ==
  /\ expiresIn > 0 /\ expiresIn >= config.guardTime
  /\ config.expiresInTestValue = 0

RenewedInTime ==
  pc = "prepare" /\ authorizationSucess /\ output # NoToken /\ GuardTimeApplies => InTime

(* When the job is cancelled the thread leaves its loops and pauses.       *)
ShutdownEndsThread == shutdown ~> pc \in {"ended", "aborted"}

(* The thread does not give up: a request that was begun is followed by a  *)
(* token once the service recovers, unless the key is taken away or the    *)
(* job is cancelled.                                                       *)
TokenComes == pc = "attempt" ~> pc = "submit" \/ shutdown \/ apiKey = NoKey
=============================================================================
