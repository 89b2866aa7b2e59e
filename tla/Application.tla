---------------------------- MODULE Application ----------------------------
(***************************************************************************)
(* main.cpp: the start of the device and the two resets of its button.     *)
(* What the device belongs to is read once, from flash, when it starts:    *)
(* the platform (provisioned), a hub's dormitory (joined), or nothing yet,  *)
(* and then both may take it.  Every change of it ends with a restart.      *)
(*                                                                          *)
(* Wifi::init (Wifi.cpp), which comes first, and IOT_InitPlatform both      *)
(* create the default event loop; a second creation is refused, and          *)
(* ESP_ERROR_CHECK aborts if the build has assertions.                       *)
(***************************************************************************)
EXTENDS Naturals

VARIABLES
    asserts,        \* CONFIG_COMPILER_OPTIMIZATION_ASSERTIONS_ENABLE
    stage,          \* where app_main is
    eventLoop,      \* external: the default event loop exists
    mode,           \* what the start has found
    hears,          \* onPlatformDeviceEvent is registered
    handler,        \* where appButtonEventHandler is
    provisioning,   \* onPlatformDeviceEvent waits to restart
    nvsUp,          \* external: NVS is open
    flash,          \* external: what flash says the device belongs to
    ended,          \* history: the reset whose restart this start comes from
    failed,         \* history: the steps of that reset that failed
    taken           \* history: who has taken the device since the reset last erased theirs

appVars == <<asserts, stage, eventLoop, mode, hears, handler, provisioning, nvsUp, flash, ended, failed, taken>>

Stages == {"nvs", "wifi", "detect", "platform", "core", "register", "listen", "up", "panicked"}
Modes == {"none", "WIFI_MODE", "HC_MODE", "DUAL_LISTEN"}
Handlers == {"idle", "config", "configAp", "configWait", "kick", "kickHub", "kickDb", "kickNvs", "kickWait"}
Erasing == {"core", "dormitory", "database", "nvs"}

AppTypeOK ==
    /\ asserts \in BOOLEAN /\ stage \in Stages /\ eventLoop \in BOOLEAN /\ mode \in Modes
    /\ hears \in BOOLEAN /\ handler \in Handlers /\ provisioning \in BOOLEAN /\ nvsUp \in BOOLEAN
    /\ flash \subseteq {"platform", "hub"}
    /\ ended \in {"none", "config", "kick"}
    /\ failed \subseteq Erasing /\ taken \subseteq {"platform", "hub"}

AppStart ==
    /\ asserts \in BOOLEAN /\ flash \in SUBSET {"platform", "hub"}
    /\ stage = "nvs" /\ eventLoop = FALSE /\ mode = "none" /\ hears = FALSE /\ handler = "idle"
    /\ provisioning = FALSE /\ nvsUp = FALSE /\ ended = "none" /\ failed = {} /\ taken = {}

\* The device starts again, of itself or because somebody restarts it.
StartsAgain ==
    /\ stage' = "nvs" /\ eventLoop' = FALSE /\ mode' = "none" /\ hears' = FALSE /\ handler' = "idle"
    /\ provisioning' = FALSE /\ nvsUp' = FALSE
    /\ UNCHANGED <<asserts, flash>>

Reboot == StartsAgain /\ ended' = "none" /\ failed' = {} /\ taken' = {}

PowerCut == stage # "nvs" /\ Reboot

-----------------------------------------------------------------------------
(* app_main.                                                               *)

Proceed(from, to) == stage = from /\ stage' = to

\* nvs_flash_init, which erases what it cannot read.
NvsInit ==
    /\ Proceed("nvs", "wifi") /\ nvsUp' = TRUE
    /\ flash' \in {flash, flash \ {"platform"}}
    /\ UNCHANGED <<asserts, eventLoop, mode, hears, handler, provisioning, ended, failed, taken>>

WifiInit ==
    /\ Proceed("wifi", "detect") /\ eventLoop' = TRUE
    /\ UNCHANGED <<asserts, mode, hears, handler, provisioning, nvsUp, flash, ended, failed, taken>>

\* The platform comes before the hub; from here on the button is heard (initPeripheral).
Detect ==
    /\ stage = "detect"
    /\ mode' = IF "platform" \in flash THEN "WIFI_MODE"
               ELSE IF "hub" \in flash THEN "HC_MODE" ELSE "DUAL_LISTEN"
    /\ stage' = IF mode' = "HC_MODE" THEN "up" ELSE "platform"
    /\ UNCHANGED <<asserts, eventLoop, hears, handler, provisioning, nvsUp, flash, ended, failed, taken>>

\* IOT_InitPlatform.
InitPlatform ==
    /\ stage = "platform"
    /\ stage' \in IF asserts /\ eventLoop THEN {"panicked"} ELSE {"core", "listen"}
    /\ UNCHANGED <<asserts, eventLoop, mode, hears, handler, provisioning, nvsUp, flash, ended, failed, taken>>

\* IOT_CoreInit (external) starts provisioning by itself, before anybody is registered to hear.
CoreInit ==
    /\ Proceed("core", "register") \/ Proceed("core", "listen")
    /\ UNCHANGED <<asserts, eventLoop, mode, hears, handler, provisioning, nvsUp, flash, ended, failed, taken>>

RegisterEventCb ==
    /\ Proceed("register", "listen") /\ hears' = TRUE
    /\ UNCHANGED <<asserts, eventLoop, mode, handler, provisioning, nvsUp, flash, ended, failed, taken>>

StartUdpListen ==
    /\ Proceed("listen", "up")
    /\ UNCHANGED <<asserts, eventLoop, mode, hears, handler, provisioning, nvsUp, flash, ended, failed, taken>>

PanicRestarts == stage = "panicked" /\ Reboot

-----------------------------------------------------------------------------
(* The platform and the hub, which may take a device that listens.         *)

Alive == stage # "panicked"

\* The platform has taken it; what is not in NVS by now is not written any more.
Provisioned ==
    /\ mode = "DUAL_LISTEN" /\ stage \in {"register", "listen", "up"} /\ "platform" \notin flash
    /\ flash' = IF nvsUp THEN flash \cup {"platform"} ELSE flash
    /\ provisioning' = hears
    /\ taken' = taken \cup {"platform"}
    /\ UNCHANGED <<asserts, stage, eventLoop, mode, hears, handler, nvsUp, ended, failed>>

\* onPlatformDeviceEvent, a second later.
ProvisionRestarts == provisioning /\ Reboot

\* Gateway (external): taken by a hub over UDP; its restart is ApplicationRestarts.
HubJoins ==
    /\ mode = "DUAL_LISTEN" /\ stage = "up" /\ "hub" \notin flash
    /\ flash' = flash \cup {"hub"}
    /\ taken' = taken \cup {"hub"}
    /\ UNCHANGED <<asserts, stage, eventLoop, mode, hears, handler, provisioning, nvsUp, ended, failed>>

HubRestarts == mode = "DUAL_LISTEN" /\ stage = "up" /\ "hub" \in flash /\ Reboot

-----------------------------------------------------------------------------
(* appButtonEventHandler, in the task of the event loop: one event at once. *)

Hear(what) ==
    /\ mode # "none" /\ Alive /\ handler = "idle" /\ handler' = what
    /\ ended' = "none" /\ failed' = {} /\ taken' = {}
    /\ UNCHANGED <<asserts, stage, eventLoop, mode, hears, provisioning, nvsUp, flash>>

HearConfig == Hear("config")
HearKickOut == Hear("kick")

HandlerGoesOn(from, to) ==
    /\ Alive /\ handler = from /\ handler' = to
    /\ UNCHANGED <<asserts, stage, eventLoop, mode, hears, provisioning, ended>>

\* One step of a reset that erases what belongs to somebody, or fails: nobody looks.
Erases(step, whose) ==
    \/ flash' = flash \ {whose} /\ taken' = taken \ {whose} /\ UNCHANGED failed
    \/ failed' = failed \cup {step} /\ UNCHANGED <<flash, taken>>

\* EVENT_BUTTON_CONFIG_WIFI: the hub is left, the access point started, then a restart.
ConfigLeavesHub == HandlerGoesOn("config", "configAp") /\ Erases("dormitory", "hub") /\ UNCHANGED nvsUp

ConfigStartsAp == HandlerGoesOn("configAp", "configWait") /\ UNCHANGED <<flash, nvsUp, failed, taken>>

ConfigRestarts == handler = "configWait" /\ StartsAgain /\ ended' = "config" /\ UNCHANGED <<failed, taken>>

\* EVENT_BUTTON_KICK_OUT: IOT_CoreFactoryReset if it is provisioned (the RAM's word,
\* which is flash's, external) ...
KickPlatform ==
    /\ HandlerGoesOn("kick", "kickHub") /\ UNCHANGED nvsUp
    /\ IF "platform" \in flash THEN Erases("core", "platform") ELSE UNCHANGED <<flash, failed, taken>>

\* ... then GatewayUpdateDormitory ...
KickHub == HandlerGoesOn("kickHub", "kickDb") /\ Erases("dormitory", "hub") /\ UNCHANGED nvsUp

\* ... then DelDatabase ...
KickDatabase == HandlerGoesOn("kickDb", "kickNvs") /\ Erases("database", "hub") /\ UNCHANGED nvsUp

(* Mutant: NVS is not erased; the platform has been reset already. *)
KickLeavesNvs == HandlerGoesOn("kickNvs", "kickWait") /\ UNCHANGED <<flash, nvsUp, failed, taken>>

\* ... then nvs_flash_erase, which closes NVS, even where it then fails to erase it ...
KickErasesNvs ==
    /\ HandlerGoesOn("kickNvs", "kickWait") /\ Erases("nvs", "platform")
    /\ nvsUp' \in IF "nvs" \in failed' THEN {FALSE, nvsUp} ELSE {FALSE}

\* ... then a restart.
KickRestarts == handler = "kickWait" /\ StartsAgain /\ ended' = "kick" /\ UNCHANGED <<failed, taken>>

AppNext ==
    \/ NvsInit \/ WifiInit \/ Detect \/ InitPlatform \/ CoreInit \/ RegisterEventCb \/ StartUdpListen
    \/ PanicRestarts \/ PowerCut \/ Provisioned \/ ProvisionRestarts \/ HubJoins \/ HubRestarts
    \/ HearConfig \/ ConfigLeavesHub \/ ConfigStartsAp \/ ConfigRestarts
    \/ HearKickOut \/ KickPlatform \/ KickHub \/ KickDatabase \/ KickErasesNvs \/ KickRestarts

AppSpec == AppStart /\ [][AppNext]_appVars

-----------------------------------------------------------------------------
\* What a reset that ran to its restart leaves behind.  After "Factory Resetting entire
\* device" the start finds the platform only if NVS could not be erased, and then only
\* if its own reset had failed, too, or it took the device meanwhile; and a hub only if
\* neither step on its data succeeded, or it took the device after the last that did.
\* After "Resetting HC dormitory" it finds a hub only for the like reasons.  (The log
\* announces DUAL_LISTEN and the access point; a device of the platform's starts in
\* WIFI_MODE.)
ResetIsComplete ==
    /\ ended = "kick" /\ mode = "WIFI_MODE" =>
          "nvs" \in failed /\ ("core" \in failed \/ "platform" \in taken)
    /\ ended = "kick" /\ mode = "HC_MODE" => {"dormitory", "database"} \subseteq failed \/ "hub" \in taken
    /\ ended = "config" /\ mode = "HC_MODE" => "dormitory" \in failed \/ "hub" \in taken

\* "Platform SDK: BLE provisioning tu start trong IOT_CoreInit()" (main.cpp, DUAL_LISTEN):
\* initPlatformSDK gets as far as IOT_CoreInit or returns an error to be logged; it does
\* not stop the device.
ReachesCoreInit == stage # "panicked"
=============================================================================
