--------------------------- MODULE MCEventIngress ---------------------------
(* A small instance of EventIngress: one message is delivered twice. *)
EXTENDS EventIngress

CONSTANTS m1, m2
Messages == {m1, m2}
OneDuplicate == {<<m1, 1>>, <<m1, 2>>, <<m2, 1>>}
=============================================================================
