------------------------------ MODULE MCWebUi ------------------------------
(* Two visits of the Keys page, so that a rotation may outlive its page.   *)
EXTENDS WebUi
=============================================================================
