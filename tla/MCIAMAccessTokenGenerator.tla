-------------------- MODULE MCIAMAccessTokenGenerator --------------------
(***************************************************************************)
(* Parameters of IAMAccessTokenGenerator for TLC: seconds stand for the    *)
(* minutes of real tokens.  The guard time is zero, less than, equal to    *)
(* and more than a validity of 2 or 4.                                     *)
(***************************************************************************)
EXTENDS IAMAccessTokenGenerator

Config(guard, testValue) ==
  [accessToken |-> FALSE, iamTokenURL |-> TRUE, defaultExpiresIn |-> 3,
   guardTime |-> guard, maxRetryDelay |-> 3, failureRetryDelay |-> 2,
   expiresInTestValue |-> testValue]

TokenConfigs ==
  {Config(guard, 0) : guard \in {0, 1, 2, 3}} \union
  {Config(1, 5), [Config(1, 0) EXCEPT !.accessToken = TRUE], Config(-1, 0),
   [Config(1, 0) EXCEPT !.failureRetryDelay = 0],
   [Config(1, 0) EXCEPT !.iamTokenURL = FALSE]}
=============================================================================
