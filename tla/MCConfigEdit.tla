------------------------------ MODULE MCConfigEdit ------------------------------
(* Instances of ConfigEdit: two routes over two devices, one or two requests at a time. *)
EXTENDS ConfigEdit

CONSTANTS t1, t2, r1, r2, d1, d2

OneThread == {t1}
TwoThreads == {t1, t2}
TwoRoutes == {r1, r2}
OneDevice == {d1}
TwoDevices == {d1, d2}
OneCron == {1}
TwoCrons == {1, 2}
=============================================================================
