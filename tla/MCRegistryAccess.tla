-------------------------- MODULE MCRegistryAccess --------------------------
(* RegistryAccess with four requests to one registry and one to another.    *)
EXTENDS RegistryAccess, TLC

CONSTANTS r1, r2, r3, r4, r5, h1, h2

MCReqs == {r1, r2, r3, r4, r5}
MCHosts == {h1, h2}
MCHostOf == (r1 :> h1 @@ r2 :> h1 @@ r3 :> h1 @@ r4 :> h1 @@ r5 :> h2)
=============================================================================
