------------------------------- MODULE DaoOps -------------------------------
(***************************************************************************)
(* The storage operations of dao_common.c as operators on the contents of  *)
(* one NVS namespace: what each DAO_*_Internal function answers and what   *)
(* it leaves in flash, including when NVS fails half way through.          *)
(***************************************************************************)
EXTENDS Naturals, Sequences

CONSTANTS
  Callers,    \* the tasks that use the storage
  Keys,       \* the keys of the namespace
  Batches,    \* the key lists that a batch write may carry
  MaxCalls,   \* bound: calls issued by one task
  NvsFaults,  \* TRUE: an NVS operation may fail
  Absent,     \* "no value under this key"
  NotRun      \* "this call has not taken effect"

ASSUME DaoOpsAssumption ==
  /\ Batches \subseteq Seq(Keys)
  /\ MaxCalls \in Nat
  /\ NvsFaults \in BOOLEAN

(* A call is named by its task and its number; a set stores that name, so  *)
(* every stored value says which call wrote it.                            *)
Ids == Callers \X (1 .. MaxCalls)
Stored == Ids \cup {Absent}

AsyncOps == {"set", "remove", "removeAll"}
Ops == {"get", "exists", "list", "keys", "batch"} \cup AsyncOps

(* The operation and the keys a call carries (DAO_Request_t: op, key or    *)
(* batch_entries).                                                         *)
Commands ==
  [op : {"get", "exists", "set", "remove"}, keys : {<<k>> : k \in Keys}]
    \cup [op : {"list", "keys", "removeAll"}, keys : {<<>>}]
    \cup [op : {"batch"}, keys : Batches]

(* The codes an operation that ran can answer, and those a call can return *)
(* without an answer.                                                      *)
Codes == {"ok", "notFound", "fail"}
Refusals == {"timeout", "invalidState", "noMem"}

(* What a read copies to its caller: the entries it looked at, or only     *)
(* which of them there are.                                                *)
Views == UNION {[K -> Stored] : K \in SUBSET Keys}
NoView == [k \in {} |-> Absent]
Present(old, K) == [k \in {j \in K : old[j] # Absent} |-> Absent]
Answers == [code : Codes, seen : Views]

(* NotRun is none of the things that may be recorded of a call. *)
ASSUME NotRunAssumption == NotRun \notin Answers \cup Codes

KeysOf(s) == {s[i] : i \in DOMAIN s}

(* The contents after the first j entries of a set or a batch by call id:  *)
(* nvs_set_* writes an entry when it is called.                            *)
Written(old, keys, j, id) ==
  [k \in Keys |-> IF \E i \in 1 .. j : keys[i] = k THEN id ELSE old[k]]

Erased(old, keys) ==
  [k \in Keys |-> IF k \in KeysOf(keys) THEN Absent ELSE old[k]]

Empty == [k \in Keys |-> Absent]

FoundIf(found) == IF found THEN "ok" ELSE "notFound"

Result(new, code, seen) == [new |-> new, ans |-> [code |-> code, seen |-> seen]]

(* DAO_GetData_Internal *)
GetResult(keys, old) ==
  Result(old, FoundIf(\A k \in KeysOf(keys) : old[k] # Absent),
         [k \in KeysOf(keys) |-> old[k]])

(* DAO_CheckDataExistByKey_Internal *)
ExistsResult(keys, old) == Result(old, "ok", Present(old, KeysOf(keys)))

(* DAO_GetNamespaceData_Internal *)
ListResult(old) == Result(old, FoundIf(old # Empty), old)

(* DAO_GetKeyList_Internal *)
KeysResult(old) == Result(old, FoundIf(old # Empty), Present(old, Keys))

(* DAO_SetData_Internal, DAO_SetDataBatch_Internal *)
SetResult(keys, id, old) == Result(Written(old, keys, Len(keys), id), "ok", NoView)

(* DAO_RemoveDataByKey_Internal: erasing an absent key changes nothing. *)
RemoveResult(keys, old) ==
  Result(Erased(old, keys), FoundIf(\A k \in KeysOf(keys) : old[k] # Absent), NoView)

(* DAO_RemoveNamespace_Internal *)
RemoveAllResult == Result(Empty, "ok", NoView)

Normal(cmd, id, old) ==
  CASE cmd.op = "get"              -> GetResult(cmd.keys, old)
    [] cmd.op = "exists"           -> ExistsResult(cmd.keys, old)
    [] cmd.op = "list"             -> ListResult(old)
    [] cmd.op = "keys"             -> KeysResult(old)
    [] cmd.op \in {"set", "batch"} -> SetResult(cmd.keys, id, old)
    [] cmd.op = "remove"           -> RemoveResult(cmd.keys, old)
    [] OTHER                       -> RemoveAllResult

(* What an operation that fails or is cut short can leave in flash: any    *)
(* prefix of a batch, an erase done or not.                                *)
Leftovers(cmd, id, old) ==
  CASE cmd.op \in {"set", "batch"} ->
         {Written(old, cmd.keys, j, id) : j \in 0 .. Len(cmd.keys)}
    [] cmd.op \in {"remove", "removeAll"} -> {old, Normal(cmd, id, old).new}
    [] OTHER -> {old}

(* Every result the operation can have, an NVS error included. *)
Outcomes(cmd, id, old) ==
  {Normal(cmd, id, old)}
    \cup {Result(left, "fail", NoView) :
            left \in IF NvsFaults THEN Leftovers(cmd, id, old) ELSE {}}
=============================================================================
