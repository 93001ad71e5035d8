----------------------------- MODULE MCJobService -----------------------------
(***************************************************************************)
(* Values for the constants of JobService: two routes and an ad-hoc GC on    *)
(* three devices.  d1 and d2 are two datastores of machine m1, d3 is alone   *)
(* on m2; d3's tasks are waited for before it is powered off.                *)
(***************************************************************************)
EXTENDS JobService

CONSTANTS r1, r2, gc, d1, d2, d3, m1, m2

TheMaintDevice == gc :> d2
OneDeviceMaint == gc :> d1
NoMaintDevice == [k \in {} |-> d1]

\* Two backups to two datastores of one machine.
OneBoxKey == d1 :> m1 @@ d2 :> m1
OneBox == r1 :> <<d1>> @@ r2 :> <<d2>>
OneBoxNeeds == {<<d1>>, <<d2>>}

\* Two routes to one datastore.
OneDeviceKey == d1 :> m1
OneDevice == r1 :> <<d1>> @@ r2 :> <<d1>>
OneDeviceNeeds == {<<d1>>}

\* A sync between two machines beside a backup to one of them.
TwoBoxesKey == d1 :> m1 @@ d2 :> m1 @@ d3 :> m2
TwoBoxes == r1 :> <<d1, d3>> @@ r2 :> <<d3>>
TwoBoxesNeeds == {<<d1, d3>>, <<d3>>}
=============================================================================
