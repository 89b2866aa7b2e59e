------------------------------- MODULE MCBoot -------------------------------
(***************************************************************************)
(* The start of the application in the build that sdkconfig describes:      *)
(* assertions are on, so ESP_ERROR_CHECK aborts.                            *)
(***************************************************************************)
EXTENDS Application

BootInit == AppStart /\ asserts = TRUE
BootSpec == BootInit /\ [][AppNext]_appVars
=============================================================================
