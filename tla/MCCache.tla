------------------------------ MODULE MCCache ------------------------------
(* Cache on small instances. *)
EXTENDS Cache, TLC

CONSTANTS t1, t2, k1, k2, k3

OneBucket == [k \in Keys |-> 0]
TwoBuckets == [k \in Keys |-> IF k = k1 THEN 1 ELSE 0]

(* Every task uses every key. *)
Common == [k \in Keys |-> Tasks]
(* Each key has one user. *)
Private == [k \in Keys |-> IF k = k1 THEN {t1} ELSE {t2}]
(* The keys of one bucket have two users. *)
TwoCommon == [k \in Keys |-> IF k = k1 THEN {} ELSE Tasks]

(* Every call but a preload: one task manages its key, another one the     *)
(* namespace.                                                              *)
SafeUse(p, t) ==
  IF t = t1 THEN {"get", "set", "delete", "invalidate"}
  ELSE {"get", "set", "flush", "invalidateAll", "clear", "unregister", "restart"}
(* One task writes keys, another one manages the cache. *)
EveryUse(p, t) ==
  IF t = t1 THEN {"get", "set", "delete"}
  ELSE {"get", "flush", "invalidate", "clear", "preload", "unregister"}
GetSet(p, t) == {"get", "set"}

=============================================================================
