------------------------------ MODULE MCWebPages ------------------------------
(* An instance of WebPages for TLC.  One page is like that for WiFi: the mode   *)
(* has two radio buttons, DHCP is shown to a station only, and the address is   *)
(* shown to an access point or without DHCP (dhcp_on=0|ap_mode=1); DHCP is a    *)
(* checkbox here; its dialog has the list of the networks that a scan finds.    *)
(* The other page has a password.                                              *)
EXTENDS WebPages

MCPages    == {"WiFi", "Device"}
MCElements == {"ap1", "ap0", "dhcp", "ip", "scan", "pwd"}
MCPageOf   == [ap1 |-> "WiFi", ap0 |-> "WiFi", dhcp |-> "WiFi", ip |-> "WiFi", scan |-> "WiFi",
               pwd |-> "Device"]
MCType     == [ap1 |-> "radio", ap0 |-> "radio", dhcp |-> "checkbox", ip |-> "text",
               scan |-> "select", pwd |-> "password"]
MCKey      == [ap1 |-> "ap_mode", ap0 |-> "ap_mode", dhcp |-> "dhcp_on", ip |-> "ip",
               scan |-> "scan_ssid", pwd |-> "pwd"]
MCButton   == [ap1 |-> "1", ap0 |-> "0", dhcp |-> "0", ip |-> "0", scan |-> "0", pwd |-> "0"]
MCViewOn   == [ap1 |-> {}, ap0 |-> {}, dhcp |-> { { {<<"ap_mode", "0">>} } },
               ip |-> { { {<<"dhcp_on", "0">>}, {<<"ap_mode", "1">>} } }, scan |-> {}, pwd |-> {}]
MCDefault  == [ap1 |-> "checked", ap0 |-> "unchecked", dhcp |-> "checked", ip |-> "bad",
               scan |-> "", pwd |-> "bad"]
MCFromScan == {"ip"}

\* A station with an address, which was saved with a network, and an access point that has
\* none and sends none.
MCDeviceConfigs ==
    {[ap_mode |-> "FALSE", dhcp_on |-> "FALSE", ip |-> "good", pwd |-> "good", scan_ssid |-> "home"],
     [ap_mode |-> "TRUE", dhcp_on |-> "TRUE", pwd |-> "good"]}

\* Bounds on what is followed any further here (the proofs are about that, too): not a user
\* who closes the dialog that waits for the reload, nor one who commits while a login is
\* under way, nor the configuration once a wrong password was saved.
WaitIsTheEnd == waiting => dialog = "wait" /\ logins = 0
PasswordIsGood == "pwd" \in DOMAIN config => config["pwd"] # "bad"
===============================================================================
