----------------------------- MODULE MCDispatch -----------------------------
(***************************************************************************)
(* Instances of Dispatch for TLC: one marketing and one transactional      *)
(* message on a host whose addresses grow, shrink and change pools.        *)
(***************************************************************************)
EXTENDS Dispatch

CONSTANTS bulk, single

MCStreamOf == [m \in Msgs |-> IF m = bulk THEN "marketing" ELSE "transactional"]

MCConfigs ==
  {assign_roles(<<1>>), assign_roles(<<1, 2>>), assign_roles(<<2>>),
   assign_explicit(<<2>>, <<>>, <<3>>)}
=============================================================================
