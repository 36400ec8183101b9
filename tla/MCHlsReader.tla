---------------------------- MODULE MCHlsReader ----------------------------
(***************************************************************************)
(* HlsReader on small instances.  The first stream has several caches and  *)
(* a fragment without a time.  The names of the second are "8", "9", "10"  *)
(* in one playlist, whose order as strings is "10", "8", "9", and "08",    *)
(* "09", "10" in the other.                                                *)
(***************************************************************************)
EXTENDS HlsReader

Cached(n) == [names |-> [f \in Fragments |-> f], untimed |-> {2},
                 caches |-> TRUE, last |-> n]
Rolled == [names |-> [f \in Fragments |-> IF f < 3 THEN f + 1 ELSE 1], untimed |-> {}, caches |-> FALSE, last |-> 3]
Padded == [Rolled EXCEPT !.names = [f \in Fragments |-> f]]

CachedOrRolled == {Cached(3), Rolled, Padded}
LongCached == {Cached(4)}
============================================================================
