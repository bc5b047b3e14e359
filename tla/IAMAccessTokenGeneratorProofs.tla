------------------ MODULE IAMAccessTokenGeneratorProofs ------------------
(***************************************************************************)
(* What IAMAccessTokenGenerator does with keys, refresh tokens and time,   *)
(* proved for every set of parameters and every bound.                     *)
(***************************************************************************)
EXTENDS IAMAccessTokenGenerator, TLAPS

(* The types that the arguments below need.                                *)
Types ==
  /\ config \in Configs
  /\ authorizationSucess \in BOOLEAN
  /\ expiresIn \in Nat /\ elapsed \in Nat /\ tokenLeft \in Nat
  /\ pc = "sleep" => wait \in Nat

(* A refresh token belongs to the key of the last grant; there is none     *)
(* after a refusal; and the request was chosen by the token still held.    *)
Tokens ==
  /\ refreshToken # NoToken => refreshToken = previousApiKey
  /\ refused => refreshToken = NoToken
  /\ Requesting /\ refreshToken = NoToken => request.kind = "initial"

(* authorizationSucess tells whether the last round brought a token.       *)
Success ==
  /\ pc = "start" => output = NoToken
  /\ pc = "delay" \/ Requesting => ~authorizationSucess

(* The validity that is left while submit runs, while the thread sleeps,   *)
(* and when it wakes up.                                                   *)
Submitting == pc = "submit" /\ expiresIn > 0 => tokenLeft >= expiresIn - elapsed

Sleeping ==
  pc = "sleep" /\ GuardTimeApplies =>
    /\ wait > 0 => tokenLeft >= wait + config.guardTime
    /\ wait = 0 => InTime

Awake ==
  pc \in {"loop", "prepare"} /\ authorizationSucess /\ output # NoToken /\ GuardTimeApplies
    => InTime

IInv ==
  /\ Types
  /\ RequestsUseKeyRead
  /\ Tokens
  /\ Success
  /\ Submitting
  /\ Sleeping
  /\ Awake

-----------------------------------------------------------------------------
(* The parameters of an instance are numbers.                              *)
LEMMA ConfigType ==
  ASSUME config \in Configs
  PROVE  /\ config.guardTime \in Int /\ config.expiresInTestValue \in Int
         /\ config.defaultExpiresIn \in Int
  BY ParametersAreTyped

(* After submit the thread sleeps until guardTime seconds are left, or not *)
(* at all if that time has passed.                                         *)
LEMMA SleepInTime ==
  ASSUME config \in Configs, expiresIn \in Nat, elapsed \in Nat, tokenLeft \in Nat,
         GuardTimeApplies, tokenLeft >= expiresIn - elapsed
  PROVE  /\ TimeToBlock > 0 => tokenLeft >= TimeToBlock + config.guardTime
         /\ TimeToBlock = 0 => InTime
  <1>1. effectiveExireIn = expiresIn - config.guardTime
    BY ConfigType DEF GuardTimeApplies, effectiveExireIn, currentExpiresIn
  <1>2. CASE elapsed >= effectiveExireIn
    <2>1. TimeToBlock = 0
      BY <1>2 DEF TimeToBlock
    <2> QED
      BY <2>1, ConfigType DEF InTime, Lower
  <1>3. CASE ~(elapsed >= effectiveExireIn)
    <2>1. TimeToBlock = expiresIn - config.guardTime - elapsed
      BY <1>1, <1>3, ConfigType DEF TimeToBlock
    <2> QED
      BY <1>1, <1>3, <2>1, ConfigType
  <1> QED
    BY <1>2, <1>3

LEMMA TimeToBlockType ==
  ASSUME config \in Configs, expiresIn \in Nat, elapsed \in Nat
  PROVE  TimeToBlock \in Nat
  BY ConfigType DEF TimeToBlock, effectiveExireIn, currentExpiresIn

-----------------------------------------------------------------------------
LEMMA InitHolds == Init => IInv
  BY EmptyValuesDiffer
     DEF Init, IInv, Types, RequestsUseKeyRead, Tokens, Success, Submitting, Sleeping,
         Awake, Requesting

LEMMA NextKeeps == IInv /\ [Next]_vars => IInv'
  <1> SUFFICES ASSUME IInv, [Next]_vars
               PROVE  IInv'
    OBVIOUS
  <1> USE DEF IInv, outside, roundVars, timers, counters, grantVars
  <1>1. CASE EmitConfiguredToken
    BY <1>1
       DEF EmitConfiguredToken, Types, RequestsUseKeyRead, Tokens,
           Success, Submitting, Sleeping, Awake, Requesting, GuardTimeApplies, InTime
  <1>2. CASE CheckParameters
    BY <1>2
       DEF CheckParameters, Types, RequestsUseKeyRead, Tokens,
           Success, Submitting, Sleeping, Awake, Requesting, GuardTimeApplies, InTime
  <1>3. CASE Loop
    BY <1>3
       DEF Loop, Types, RequestsUseKeyRead, Tokens, Success,
           Submitting, Sleeping, Awake, Requesting, GuardTimeApplies, InTime
  <1>4. CASE FailureDelayEnds
    BY <1>4
       DEF FailureDelayEnds, Types, RequestsUseKeyRead, Tokens,
           Success, Submitting, Sleeping, Awake, Requesting, GuardTimeApplies, InTime
  <1>5. CASE FindNoApiKey
    BY <1>5
       DEF FindNoApiKey, Types, RequestsUseKeyRead, Tokens,
           Success, Submitting, Sleeping, Awake, Requesting, GuardTimeApplies, InTime
  <1>6. CASE PrepareRequest
    BY <1>6
       DEF PrepareRequest, UsableRefreshToken, Types,
           RequestsUseKeyRead, Tokens, Success, Submitting, Sleeping, Awake, Requesting,
           GuardTimeApplies, InTime
  <1>7. CASE Attempt
    BY <1>7
       DEF Attempt, Types, RequestsUseKeyRead, Tokens, Success,
           Submitting, Sleeping, Awake, Requesting, GuardTimeApplies, InTime
  <1>8. CASE BackoffEnds
    BY <1>8
       DEF BackoffEnds, Types, RequestsUseKeyRead, Tokens, Success,
           Submitting, Sleeping, Awake, Requesting, GuardTimeApplies, InTime
  <1>9. CASE PostFails
    BY <1>9
       DEF PostFails, Types, RequestsUseKeyRead, Tokens, Success,
           Submitting, Sleeping, Awake, Requesting, GuardTimeApplies, InTime
  <1>10. CASE RequestRefused
    BY <1>10
       DEF RequestRefused, Types, RequestsUseKeyRead, Tokens,
           Success, Submitting, Sleeping, Awake, Requesting, GuardTimeApplies, InTime
  <1>11. CASE RequestGranted
    <2>1. /\ pc = "post" /\ pc' = "submit" /\ elapsed' = 0 /\ config' = config
          /\ authorizationSucess' = TRUE /\ refused' = FALSE
          /\ previousApiKey' = apiKeyTemp /\ refreshToken' \in {NoToken, request.key}
      BY <1>11 DEF RequestGranted
    <2>2. PICK life \in Nat, told \in Nat :
            life >= told /\ tokenLeft' = life /\ expiresIn' = told
      BY <1>11, TimesAreNumbers DEF RequestGranted
    <2>3. Types'
      BY <2>1, <2>2 DEF Types
    <2>4. Tokens'
      <3>1. request.key = apiKeyTemp
        BY <2>1 DEF RequestsUseKeyRead, Requesting
      <3> QED
        BY <2>1, <3>1 DEF Tokens, Requesting
    <2>5. Submitting'
      <3>1. life >= told - 0
        BY <2>2
      <3> QED
        BY <2>1, <2>2, <3>1 DEF Submitting
    <2>6. RequestsUseKeyRead' /\ Success' /\ Sleeping' /\ Awake'
      BY <2>1 DEF RequestsUseKeyRead, Success, Sleeping, Awake, Requesting
    <2> QED
      BY <2>3, <2>4, <2>5, <2>6
  <1>12. CASE Sleep
    <2> USE <1>12 DEF Sleep
    <2>1. wait' = TimeToBlock /\ wait' \in Nat
      BY TimeToBlockType DEF Types
    <2>2. UNCHANGED <<config, expiresIn, elapsed, tokenLeft>>
      OBVIOUS
    <2>3. Types' /\ RequestsUseKeyRead' /\ Tokens' /\ Success' /\ Submitting' /\ Awake'
      BY <2>1 DEF Types, RequestsUseKeyRead, Tokens, Success, Submitting, Awake, Requesting
    <2>4. Sleeping'
      <3>1. GuardTimeApplies' => GuardTimeApplies
        BY <2>2 DEF GuardTimeApplies
      <3>2. GuardTimeApplies => tokenLeft >= expiresIn - elapsed
        BY DEF GuardTimeApplies, Submitting
      <3>3. InTime => InTime'
        BY <2>2 DEF InTime
      <3> QED
        BY <2>1, <2>2, <3>1, <3>2, <3>3, SleepInTime DEF Sleeping, Types
    <2> QED
      BY <2>3, <2>4
  <1>13. CASE SleepEnds
    BY <1>13, ConfigType
       DEF SleepEnds, Types, RequestsUseKeyRead, Tokens, Success,
           Submitting, Sleeping, Awake, Requesting, GuardTimeApplies, InTime, Lower
  <1>14. CASE Tick
    <2> USE <1>14 DEF Tick
    <2>1. Types' /\ RequestsUseKeyRead' /\ Tokens' /\ Success' /\ Submitting' /\ Awake'
      BY DEF Types, RequestsUseKeyRead, Tokens, Success, Submitting, Awake, Requesting
    <2>2. Sleeping'
      BY ConfigType DEF Types, Sleeping, GuardTimeApplies, InTime, Lower
    <2> QED
      BY <2>1, <2>2
  <1>15. CASE ChangeApiKey
    BY <1>15
       DEF ChangeApiKey, Types, RequestsUseKeyRead, Tokens,
           Success, Submitting, Sleeping, Awake, Requesting, GuardTimeApplies, InTime
  <1>16. CASE RequestShutdown
    BY <1>16
       DEF RequestShutdown, Types, RequestsUseKeyRead, Tokens,
           Success, Submitting, Sleeping, Awake, Requesting, GuardTimeApplies, InTime
  <1>17. CASE UNCHANGED vars
    BY <1>17
       DEF vars, Types, RequestsUseKeyRead, Tokens, Success,
           Submitting, Sleeping, Awake, Requesting, GuardTimeApplies, InTime
  <1> QED
    BY <1>1, <1>2, <1>3, <1>4, <1>5, <1>6, <1>7, <1>8, <1>9, <1>10, <1>11, <1>12, <1>13,
        <1>14, <1>15, <1>16, <1>17 DEF Next, Thread

-----------------------------------------------------------------------------
LEMMA IInvHolds == Spec => []IInv
  BY InitHolds, NextKeeps, PTL DEF Spec

(* The thread never spends a refresh token of another api key than the one *)
(* it read for the request.                                                *)
THEOREM KeysCorrect == Spec => []RequestsUseKeyRead
  <1>1. IInv => RequestsUseKeyRead
    BY DEF IInv
  <1> QED
    BY <1>1, IInvHolds, PTL

(* It never repeats a refresh token after the service has refused one.     *)
THEOREM RefusalsRespected == Spec => []RefusedTokenIsDropped
  <1>1. IInv => RefusedTokenIsDropped
    BY DEF IInv, Tokens, RefusedTokenIsDropped
  <1> QED
    BY <1>1, IInvHolds, PTL

(* It renews every token guardTime seconds before its end, for every       *)
(* validity that is no shorter and however long submit takes.              *)
THEOREM RenewalInTime == Spec => []RenewedInTime
  <1>1. IInv => RenewedInTime
    BY DEF IInv, Awake, RenewedInTime
  <1> QED
    BY <1>1, IInvHolds, PTL
=============================================================================
