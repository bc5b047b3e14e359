---------------------------- MODULE MCRoutedCalls ---------------------------
(***************************************************************************)
(* Small instances of RoutedCalls for TLC.                                 *)
(***************************************************************************)
EXTENDS RoutedCalls

Symmetry == Permutations(Connection) \union Permutations(Session)
(* Telephone numbers, roles, metrics and the tuples already passed on      *)
(* decide nothing that either operator does later, nor do the invariants   *)
(* speak of them: states that differ in nothing else are one.              *)
RoutedView ==
  <<[c \in DOMAIN client_connections_map |->
       [client_connections_map[c] EXCEPT !.vgwIsCaller = TRUE]],
    callVars, maxConcurrentCallsAllowed, timeVars, link, shutdown,
    numberOfEocsNeededForVoiceCallCompletion, speechProcessorStatusList,
    recentlyChosenSpeechProcessorId, vgwSessionIdToSpeechProcessorMap,
    vgwSessionVgwVoiceChannelNumberCompletedMap, queue>>
=============================================================================
