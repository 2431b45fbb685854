------------------------- MODULE MCHeavyNegotiation -------------------------
(* An instance for TLC: a group of two tools, one of which may also be called *)
(* by its own name, a class dispatcher, and two routes with different ceilings. *)
EXTENDS HeavyNegotiation, TLC

CONSTANTS c1, c2, ann, root, wide, narrow, agent, group, class, flat, read, write, act

MCKindOf == group :> "group" @@ class :> "class" @@ flat :> "flat"
MCActionsOf == group :> {read, write} @@ class :> {act} @@ flat :> {read}
MCTierOf == read :> 0 @@ write :> 1 @@ act :> 0
MCCeiling == wide :> 1 @@ narrow :> 0
MCAllowedBy == agent :> {group}
MCFirstUser == c1 :> ann @@ c2 :> root
=============================================================================
