--------------------------- MODULE MCDeviceStore ---------------------------
(* DeviceStore with one device that a task writes, and that a second task  *)
(* reads or not.                                                           *)
EXTENDS DeviceStore, TLC

CONSTANTS t1, t2, d1, e1, e2, on, off

WritersOf == d1 :> {t1}
ReadersOf == {d1 :> {t1}, d1 :> {t1, t2}}
CallsOf == t1 :> 2 @@ t2 :> 1
DataSymmetry == Permutations({e1, e2}) \cup Permutations({on, off})
=============================================================================
