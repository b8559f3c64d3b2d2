------------------------------ MODULE MCAgent ------------------------------
(* The status page shares the client with a rotation.                    *)
EXTENDS Agent, TLC

CONSTANTS probe, admin

Pages == (probe :> "status") @@ (admin :> "rotate")
=============================================================================
