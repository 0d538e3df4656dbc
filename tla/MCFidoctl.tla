------------------------------ MODULE MCFidoctl ------------------------------
(* Instances of Fidoctl for TLC. *)
EXTENDS Fidoctl

CONSTANTS k1, k2, k3

\* Two keys of one product, the second without a serial number, and a card.
TwoKeys    == {k1, k2}
ThreeKeys  == {k1, k2, k3}
KeyPorts   == [k \in Keys |-> IF k = k3 THEN {"reader"} ELSE {"p", "q"}]
KindOfKey  == [k \in Keys |-> IF k = k3 THEN "nfc" ELSE "usb"]
OneProduct == [k \in Keys |-> "product"]
Serials    == [k \in Keys |-> IF k = k1 THEN "serial" ELSE NoSerial]

==============================================================================
