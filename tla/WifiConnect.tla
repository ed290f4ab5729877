---------------------------- MODULE WifiConnect ----------------------------
(***************************************************************************)
(* Connecting to the access point (esp32/NetworkInterface.c): the manager  *)
(* waits without a timeout for a bit that event_handler sets in the thread *)
(* of the WiFi driver.  The driver is external: it reports STA_START, then *)
(* how each attempt to connect ends, and other events at any time.         *)
(***************************************************************************)
EXTENDS Integers

CONSTANT ESP_MAXIMUM_RETRY

ASSUME RetryAssumption == ESP_MAXIMUM_RETRY \in Nat

VARIABLES driver,               \* what it does, or has reported last
          s_wifi_event_group,   \* the bits set in it
          s_retry_num

wifiVars == <<driver, s_wifi_event_group, s_retry_num>>

WifiTypeOK == /\ driver \in {"off", "started", "connecting", "disconnected", "idle"}
              /\ s_wifi_event_group \subseteq {"WIFI_CONNECTED_BIT", "WIFI_FAIL_BIT"}
              /\ s_retry_num \in 0 .. ESP_MAXIMUM_RETRY

WifiInit == /\ driver = "off"
            /\ s_wifi_event_group = {}
            /\ s_retry_num = 0

SetBit(bit) == s_wifi_event_group' = s_wifi_event_group \cup {bit}

(* xNetworkInterfaceConnect, up to xEventGroupWaitBits *)
StartWifi == driver = "off" /\ driver' = "started"
             /\ UNCHANGED <<s_wifi_event_group, s_retry_num>>

(* event_handler, WIFI_EVENT_STA_START: esp_wifi_connect *)
StaStart == /\ driver = "started"
            /\ driver' = "connecting"
            /\ UNCHANGED <<s_wifi_event_group, s_retry_num>>

(* The attempt fails. *)
Disconnects == /\ driver = "connecting"
               /\ driver' = "disconnected"
               /\ UNCHANGED <<s_wifi_event_group, s_retry_num>>

(* Mutant of StaDisconnected: retries are not counted. *)
StaDisconnectedUncounted ==
  /\ driver = "disconnected"
  /\ IF s_retry_num < ESP_MAXIMUM_RETRY
     THEN driver' = "connecting" /\ UNCHANGED <<s_wifi_event_group, s_retry_num>>
     ELSE /\ driver' = "idle" /\ SetBit("WIFI_FAIL_BIT")
          /\ UNCHANGED s_retry_num

(* WIFI_EVENT_STA_DISCONNECTED: a retry, or the end of them *)
StaDisconnected ==
  /\ driver = "disconnected"
  /\ IF s_retry_num < ESP_MAXIMUM_RETRY
     THEN /\ driver' = "connecting" /\ s_retry_num' = s_retry_num + 1
          /\ UNCHANGED s_wifi_event_group
     ELSE /\ driver' = "idle" /\ SetBit("WIFI_FAIL_BIT")
          /\ UNCHANGED s_retry_num

(* Any other event is taken for the connection. *)
OtherWifiEvent == /\ driver # "off"
                  /\ s_retry_num' = 0
                  /\ SetBit("WIFI_CONNECTED_BIT")
                  /\ \/ driver = "connecting" /\ driver' = "idle"
                     \/ UNCHANGED driver

EventHandler == StaStart \/ StaDisconnected \/ OtherWifiEvent

(* xEventGroupWaitBits returns *)
BitsSet == s_wifi_event_group # {}
InterfaceUp == "WIFI_CONNECTED_BIT" \in s_wifi_event_group

(* event_handler is unregistered and the group deleted. *)
StopListening == /\ driver' = "idle"
                 /\ s_wifi_event_group' = {}
                 /\ UNCHANGED s_retry_num
=============================================================================
