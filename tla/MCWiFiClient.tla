---------------------------- MODULE MCWiFiClient ----------------------------
(***************************************************************************)
(* Small instances of WiFiClient for TLC.                                  *)
(***************************************************************************)
EXTENDS WiFiClient

CONSTANTS t1, t2

OneTask  == {t1}
TwoTasks == {t1, t2}
OneAndThree == {1, 3}
OneAndMost == {1, 243}
=============================================================================
