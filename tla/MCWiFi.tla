------------------------------- MODULE MCWiFi -------------------------------
(***************************************************************************)
(* Small instances of WiFi for TLC: two networks, one of whose names fills *)
(* a row but for the terminator, and lists that do and do not fit into     *)
(* what is clocked for them.                                               *)
(***************************************************************************)
EXTENDS WiFi

CONSTANTS t1, t2

TwoTasks == {t1, t2}

Home   == <<1, 2, 3>>
Office == <<4>>

MCNames      == {Home, Office}
MCFoundLists == {<<Office>>, <<Home, Home>>}
MCQueries    == {"SSID", "BSSID", "addresses"}
MCStack      == {0, 200}

Addresses == <<<<10, 0, 0, 5>>, <<255, 255, 255, 0>>, <<10, 0, 0, 1>>>>

\* Without a network, the coprocessor has nothing to report.
MCReport(q, net) ==
    CASE q = "SSID"      -> net
      [] q = "BSSID"     -> IF net = NoName THEN <<0, 0, 0>> ELSE <<7, 7, net[1]>>
      [] q = "mac"       -> <<8, 8, 8>>
      [] q = "fw"        -> <<49, 46, 52>>
      [] q = "addresses" -> IF net = NoName THEN [a \in 1..3 |-> Zeros(4)] ELSE Addresses

MCNewCache ==
    [SSID |-> Zeros(WL_SSID_MAX_LENGTH), BSSID |-> Zeros(3), mac |-> Zeros(3), fw |-> Zeros(3),
     addresses |-> <<Zeros(4), Zeros(4), Zeros(4)>>]

MCScripts ==
    LET ip == Addresses[1]
        gateway == Addresses[3]
    IN {WiFi_setLEDs(0, 128, 255),
        WiFi_config_static(ip), WiFi_config_static_dns(ip, gateway),
        WiFi_config_static_dns_gateway(ip, gateway, gateway),
        WiFi_config_static_dns_gateway_subnet(ip, gateway, gateway, Addresses[2]),
        WiFi_setDNS(gateway), WiFi_setDNS_two_servers(gateway, ip),
        WiFi_setHostname(Home), WiFi_lowPowerMode, WiFi_noLowPowerMode}
=============================================================================
