------------------------------- MODULE Update -------------------------------
(***************************************************************************)
(* Firmware updates.  IOT_AppManager.c runs each one it is asked for in a   *)
(* task of its own: it waits for Wi-Fi, downloads the image to the other    *)
(* partition, finishes (which makes that the one to boot), tells the caller *)
(* how far it is, writes back the caches and restarts.  Nothing keeps a     *)
(* second one from being begun meanwhile.  ota.c, of the hub, does the same *)
(* in the calling task, and restarts whatever comes of it, without writing   *)
(* back.  Whether a write-back succeeds is not looked at.                    *)
(*                                                                          *)
(* An image has Parts parts; the server, the certificate that is tried      *)
(* first and the partition are external.                                     *)
(***************************************************************************)
EXTENDS Naturals

CONSTANTS
    Updates,        \* tasks of the platform
    Hub,            \* the caller of ota_start
    Caller,         \* a caller of IOT_ApplicationRestartChip
    NoUpdate,
    Parts           \* bound: parts of an image, each ten per cent or more of it

Writers == Updates \cup {Hub}
Restarters == Updates \cup {Caller}

VARIABLES
    stage,          \* where each update, or the caller, is
    got,            \* parts each has written
    slot,           \* external: whose image the other partition has, and how much of it
    bootSlot,       \* external: the other partition is the one to boot
    otaStatus,      \* s_otaState.statusCode
    told,           \* what the callback of each was told last
    dirty,          \* the caches hold values that flash has not (IOT_Cached.c)
    excused,        \* history: who has flushed, while not all was written or before more was cached
    lost,           \* history: a restart lost such values that its own flush should have written
    met             \* history: two updates wrote the partition at once

updateVars == <<stage, got, slot, bootSlot, otaStatus, told, dirty, excused, lost, met>>

Stages == {"none", "waiting", "begin", "download", "finish", "finished", "resting", "failed"}
OtaStatus == {"notUpdate", "downloading", "failure", "success"}
Told == {"nothing", "downloading", "progress", "success", "failure"}
EmptySlot == [of |-> NoUpdate, parts |-> 0]

UpdateTypeOK ==
    /\ stage \in [Writers \cup {Caller} -> Stages] /\ excused \subseteq Restarters
    /\ got \in [Writers -> 0 .. Parts]
    /\ slot \in [of : Writers \cup {NoUpdate}, parts : 0 .. Parts]
    /\ bootSlot \in BOOLEAN /\ dirty \in BOOLEAN /\ lost \in BOOLEAN /\ met \in BOOLEAN
    /\ otaStatus \in OtaStatus /\ told \in [Writers -> Told]

UpdateStart ==
    /\ stage = [u \in Writers \cup {Caller} |-> "none"] /\ got = [u \in Writers |-> 0]
    /\ slot = EmptySlot /\ bootSlot = FALSE /\ otaStatus = "notUpdate"
    /\ told = [u \in Writers |-> "nothing"]
    /\ dirty = FALSE /\ excused = {} /\ lost = FALSE /\ met = FALSE

Using(u) == stage[u] \in {"download", "finish", "finished", "resting"}

\* A restart: everything begins again, from the partition to boot, and the other one is free.
RestartChip ==
    /\ stage' = [u \in Writers \cup {Caller} |-> "none"] /\ got' = [u \in Writers |-> 0]
    /\ slot' = EmptySlot /\ bootSlot' = FALSE /\ otaStatus' = "notUpdate"
    /\ told' = [u \in Writers |-> "nothing"] /\ met' = FALSE
    /\ dirty' = FALSE /\ excused' = {}

-----------------------------------------------------------------------------
(* The platform's update.                                                  *)

\* IOT_AppManagerStartUpdateProcess: whatever is already under way.
StartUpdateProcess(u) ==
    /\ u \in Updates /\ stage[u] \in {"none", "failed"}
    /\ stage' = [stage EXCEPT ![u] = "waiting"] /\ told' = [told EXCEPT ![u] = "nothing"]
    /\ UNCHANGED <<got, slot, bootSlot, otaStatus, dirty, excused, lost, met>>

\* An update that fails, at any stage, says so once and is over.  (An error while the
\* last part was written is only looked at after the image was made the one to boot.)
UpdateFails(u) ==
    /\ stage[u] \in {"waiting", "begin", "download", "finish"} /\ u \in Updates
    /\ stage' = [stage EXCEPT ![u] = "failed"] /\ told' = [told EXCEPT ![u] = "failure"]
    /\ otaStatus' = "failure"
    /\ bootSlot' \in {bootSlot} \cup (IF stage[u] = "finish" /\ slot.parts = Parts THEN {TRUE} ELSE {})
    /\ UNCHANGED <<got, slot, dirty, excused, lost, met>>

WifiUp(u) ==
    /\ u \in Updates /\ stage[u] = "waiting"
    /\ stage' = [stage EXCEPT ![u] = "begin"] /\ told' = [told EXCEPT ![u] = "downloading"]
    /\ otaStatus' = "downloading"
    /\ UNCHANGED <<got, slot, bootSlot, dirty, excused, lost, met>>

\* The partition is erased for this update, with the one certificate or the bundle.
UpdateBegins(u) ==
    /\ u \in Updates /\ stage[u] = "begin"
    /\ stage' = [stage EXCEPT ![u] = "download"] /\ got' = [got EXCEPT ![u] = 0]
    /\ slot' = [of |-> u, parts |-> 0]
    /\ met' = (met \/ \E v \in Writers \ {u} : Using(v))
    /\ UNCHANGED <<bootSlot, otaStatus, told, dirty, excused, lost>>

\* One more part; the partition has it only if nobody has erased it since.
PartWritten(u) ==
    /\ got' = [got EXCEPT ![u] = @ + 1]
    /\ slot' = IF slot.of = u THEN [slot EXCEPT !.parts = @ + 1] ELSE slot

Downloads(u) ==
    /\ u \in Updates /\ stage[u] = "download" /\ got[u] < Parts
    /\ PartWritten(u) /\ told' = [told EXCEPT ![u] = "progress"]
    /\ UNCHANGED <<stage, bootSlot, otaStatus, dirty, excused, lost, met>>

\* The download ends, early if the connection is lost; what is missing is noticed.
DownloadEnds(u) ==
    /\ u \in Updates /\ stage[u] = "download" /\ got[u] = Parts
    /\ stage' = [stage EXCEPT ![u] = "finish"]
    /\ UNCHANGED <<got, slot, bootSlot, otaStatus, told, dirty, excused, lost, met>>

\* esp_https_ota_finish validates what is in the partition, whoever wrote it, and makes
\* it the one to boot; then the callback is told, the success last.
UpdateFinishes(u) ==
    /\ u \in Updates /\ stage[u] = "finish" /\ slot.parts = Parts
    /\ stage' = [stage EXCEPT ![u] = "finished"] /\ told' = [told EXCEPT ![u] = "success"]
    /\ bootSlot' = TRUE /\ otaStatus' = "success"
    /\ UNCHANGED <<got, slot, dirty, excused, lost, met>>

(* Mutant: IOT_ApplicationRestartChip restarts without writing back. *)
FlushForgotten(u) ==
    /\ u \in Restarters /\ stage[u] = IF u = Caller THEN "none" ELSE "finished"
    /\ stage' = [stage EXCEPT ![u] = "resting"]
    /\ UNCHANGED <<got, slot, bootSlot, otaStatus, told, dirty, excused, lost, met>>

\* The caches are written back, three seconds later or at the call of
\* IOT_ApplicationRestartChip; or not all of them, and nobody looks.
FlushCaches(u) ==
    /\ u \in Restarters /\ stage[u] = IF u = Caller THEN "none" ELSE "finished"
    /\ stage' = [stage EXCEPT ![u] = "resting"]
    /\ dirty' \in {FALSE, dirty}
    /\ excused' = IF dirty' THEN excused \cup {u} ELSE excused \ {u}
    /\ UNCHANGED <<got, slot, bootSlot, otaStatus, told, lost, met>>

\* Then the chip restarts.
UpdateRestarts(u) ==
    /\ u \in Restarters /\ stage[u] = "resting"
    /\ RestartChip /\ lost' = (lost \/ (dirty /\ u \notin excused))

\* A value acknowledged and not yet written back, at any moment, also between the
\* write-back and the restart.
ValueCached ==
    /\ dirty' = TRUE /\ excused' = excused \cup {u \in Restarters : stage[u] = "resting"}
    /\ UNCHANGED <<stage, got, slot, bootSlot, otaStatus, told, lost, met>>

-----------------------------------------------------------------------------
(* The hub's update.                                                       *)

\* ota_start opens the server; the partition is erased when the first part is in.
HubStarts ==
    /\ stage[Hub] = "none"
    /\ stage' = [stage EXCEPT ![Hub] = "begin"]
    /\ UNCHANGED <<got, slot, bootSlot, otaStatus, told, dirty, excused, lost, met>>

HubBegins ==
    /\ stage[Hub] = "begin"
    /\ stage' = [stage EXCEPT ![Hub] = "download"] /\ got' = [got EXCEPT ![Hub] = 1]
    /\ slot' = [of |-> Hub, parts |-> 1]
    /\ met' = (met \/ \E v \in Updates : Using(v))
    /\ UNCHANGED <<bootSlot, otaStatus, told, dirty, excused, lost>>

HubDownloads ==
    /\ stage[Hub] = "download" /\ got[Hub] < Parts
    /\ PartWritten(Hub)
    /\ UNCHANGED <<stage, bootSlot, otaStatus, told, dirty, excused, lost, met>>

\* esp_ota_end validates it, then it is made the one to boot.
HubFinishes ==
    /\ stage[Hub] = "download" /\ got[Hub] = Parts /\ slot.parts = Parts
    /\ stage' = [stage EXCEPT ![Hub] = "finished"] /\ bootSlot' = TRUE
    /\ told' = [told EXCEPT ![Hub] = "success"]
    /\ UNCHANGED <<got, slot, otaStatus, dirty, excused, lost, met>>

\* Failed or not, without writing back the caches (task_fatal_error, esp_restart).
HubRestarts ==
    /\ stage[Hub] \in {"begin", "download", "finished"}
    /\ RestartChip /\ UNCHANGED lost

UpdateNext ==
    \/ \E u \in Updates :
          \/ StartUpdateProcess(u) \/ UpdateFails(u) \/ WifiUp(u) \/ UpdateBegins(u)
          \/ Downloads(u) \/ DownloadEnds(u) \/ UpdateFinishes(u)
    \/ \E u \in Restarters : FlushCaches(u) \/ UpdateRestarts(u)
    \/ ValueCached
    \/ HubStarts \/ HubBegins \/ HubDownloads \/ HubFinishes \/ HubRestarts

UpdateSpec == UpdateStart /\ [][UpdateNext]_updateVars

-----------------------------------------------------------------------------
\* Whoever was told of a success has its own image, whole, in the partition to boot,
\* until the chip restarts; unless two updates met.  And a restart of the platform's
\* loses no value that was acknowledged before its write-back and that this could
\* write: "Every controlled reboot must flush" (IOT_AppManager.c; a value cached after
\* the write-back is lost all the same, and the restarts of ota.c and main.cpp, which
\* are left out of this, do not flush at all).
SuccessIsWhole ==
    /\ \A u \in Writers : told[u] = "success" /\ ~met =>
          bootSlot /\ slot = [of |-> u, parts |-> Parts]
    /\ ~lost
=============================================================================
