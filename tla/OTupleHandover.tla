--------------------------- MODULE OTupleHandover ---------------------------
(***************************************************************************)
(* What the two threads of WatsonSTT promise each other about the output   *)
(* tuples, without saying how: the sender allocates tuples and offers the  *)
(* newest one, the receiver holds tuples it has taken from the offer, and  *)
(* the sender deletes all of them only when none is offered and none is    *)
(* held.                                                                   *)
(***************************************************************************)
CONSTANTS Tuple, None

VARIABLES
  live,     \* allocated and not deleted
  offered,  \* the tuple the receiver may take, or None
  held      \* the tuples the receiver may still touch

vars == <<live, offered, held>>

Init ==
  /\ live = {}
  /\ offered = None
  /\ held = {}

(* The sender allocates a tuple and offers it.                             *)
Offer ==
  /\ offered' \in Tuple
  /\ live' = live \union {offered'}
  /\ UNCHANGED held

(* Either side takes the offer back; the receiver may let go of tuples.    *)
Withdraw ==
  /\ offered' = None
  /\ held' \in SUBSET held
  /\ UNCHANGED live

(* The receiver lets go of some tuples and may take the offered one.       *)
Exchange ==
  /\ held' \in SUBSET (held \union ({offered} \ {None}))
  /\ UNCHANGED <<live, offered>>

Recycle ==
  /\ offered = None
  /\ held = {}
  /\ live' = {}
  /\ UNCHANGED <<offered, held>>

Next ==
  \/ Offer
  \/ Withdraw
  \/ Exchange
  \/ Recycle

Spec == Init /\ [][Next]_vars

(* Nobody reaches a deleted tuple.                                         *)
NeverDangling == held \subseteq live /\ offered \in live \union {None}
=============================================================================
