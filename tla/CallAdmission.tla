--------------------------- MODULE CallAdmission ---------------------------
(***************************************************************************)
(* What the gateway source promises about the limit of concurrent calls,   *)
(* without legs, connections, counters and purges: whether a call is       *)
(* admitted is decided once, when it begins, by the number of admitted     *)
(* calls at that moment; the decision stands until the call leaves, and    *)
(* the speech of a refused call is never heard.                            *)
(***************************************************************************)
EXTENDS Naturals, FiniteSets

CONSTANT Call

VARIABLES
  live,     \* the calls that have begun and not left
  refused,  \* those of them that are ignored
  limit,    \* how many of the others there may be at a time
  heard     \* the calls whose speech the last step submitted

vars == <<live, refused, limit, heard>>

Init ==
  /\ live = {}
  /\ refused = {}
  /\ limit \in Nat
  /\ heard = {}

admitted == live \ refused

Full == Cardinality(admitted) >= limit

(* A call begins, and is decided upon.                                     *)
Admit(call) ==
  /\ call \notin live
  /\ ~Full
  /\ live' = live \union {call}
  /\ heard' = {call}
  /\ UNCHANGED <<refused, limit>>

Refuse(call) ==
  /\ call \notin live
  /\ Full
  /\ live' = live \union {call}
  /\ refused' = refused \union {call}
  /\ heard' = {}
  /\ UNCHANGED limit

(* Speech of a call that has begun, also after it has been counted as gone *)
(* while its legs go on.                                                   *)
Speak(call) ==
  /\ call \notin refused
  /\ heard' = {call}
  /\ UNCHANGED <<live, refused, limit>>

(* Any calls leave, none if something else happens.                        *)
Leave(calls) ==
  /\ live' = live \ calls
  /\ refused' = refused \ calls
  /\ heard' = {}
  /\ UNCHANGED limit

(* A new limit revises no decision.                                        *)
SetLimit ==
  /\ limit' \in Nat
  /\ heard' = {}
  /\ UNCHANGED <<live, refused>>

Next ==
  \/ \E call \in Call : Admit(call) \/ Refuse(call) \/ Speak(call)
  \/ \E calls \in SUBSET Call : Leave(calls)
  \/ SetLimit

Spec == Init /\ [][Next]_vars
=============================================================================
