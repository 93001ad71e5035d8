------------------------------ MODULE MCSyncConfig ------------------------------
(* Instances of SyncConfig: two routes, the name of one part of the other's, and *)
(* a pair of the user's own.                                                     *)
EXTENDS SyncConfig

CONSTANTS short, long, mine

TwoRoutes == {short, long}
OwnPair == {mine}
ShortInLong == {<<short, long>>}
=============================================================================
