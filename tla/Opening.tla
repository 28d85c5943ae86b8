------------------------------- MODULE Opening -------------------------------
(***************************************************************************)
(* Opening a device: the listing of the bus, the choice the flags or the   *)
(* user make from it, and the call that opens it.  The bus may change      *)
(* between any two steps.  Device::open and its caller open_device.        *)
(***************************************************************************)
EXTENDS Integers, Sequences, FiniteSets

CONSTANTS
    Devices,      \* the devices that may be plugged in
    Serial,       \* Serial[d]: what the USB descriptor says
    NoSerial,     \* the serial of a device that reports none
    Port,         \* Port[d]: its location on the bus
    Buses,        \* what may be attached when the command starts
    Selectors,    \* what --device may say: [by, value]
    MaxHotplugs   \* how often something is plugged in or out

ASSUME OpeningAssumption ==
    /\ \A attached \in Buses :
        /\ attached \in Seq(Devices)
        /\ \A i, j \in DOMAIN attached : Port[attached[i]] = Port[attached[j]] => i = j
    /\ \A s \in Selectors : s.by \in {"only", "index", "serial"}
    /\ MaxHotplugs \in Nat

VARIABLES
    bus,        \* the attached devices, in the order the USB stack reports
    hotplugs,   \* how often that changed
    selector,   \* DeviceSelector
    mayAsk,     \* whether prompts are allowed
    opening,    \* "list", "select", "prompt", "open", "load", "opened", "failed"
    listed,     \* the last listing
    picked,     \* the device the user picked: none or one
    chosen,     \* the listing entry selected: none or one
    opened      \* the device behind the session: none or one

openingVars == <<bus, hotplugs, selector, mayAsk, opening, listed, picked, chosen, opened>>

Only == [by |-> "only", value |-> 0]
ByIndex(i) == [by |-> "index", value |-> i]

OpeningInit ==
    /\ bus \in Buses /\ hotplugs = 0
    /\ selector \in Selectors /\ mayAsk \in BOOLEAN
    /\ opening = "list" /\ listed = <<>>
    /\ picked = {} /\ chosen = {} /\ opened = {}

Elements(s) == {s[i] : i \in DOMAIN s}

\* A cable is pulled, or a device appears first or last in the order.
Hotplug ==
    /\ opening \notin {"opened", "failed"} /\ hotplugs < MaxHotplugs
    /\ \/ \E d \in Elements(bus) : bus' = SelectSeq(bus, LAMBDA e : e # d)
       \/ \E d \in Devices \ Elements(bus) :
            /\ \A e \in Elements(bus) : Port[e] # Port[d]
            /\ bus' \in {<<d>> \o bus, bus \o <<d>>}
    /\ hotplugs' = hotplugs + 1
    /\ UNCHANGED <<selector, mayAsk, opening, listed, picked, chosen, opened>>

List ==
    /\ opening = "list"
    /\ listed' = bus
    /\ opening' = "select"
    /\ UNCHANGED <<bus, hotplugs, selector, mayAsk, picked, chosen, opened>>
-----------------------------------------------------------------------------
(* select_device.                                                          *)

\* The position --device names: none or one.  Of a serial, the first.
Positions ==
    CASE selector.by = "only" -> IF Len(listed) = 1 THEN {1} ELSE {}
      [] selector.by = "index" -> {selector.value} \cap DOMAIN listed
      [] selector.by = "serial" ->
            {i \in DOMAIN listed :
                /\ Serial[listed[i]] = selector.value
                /\ \A j \in 1..(i - 1) : Serial[listed[j]] # selector.value}

Ambiguous == selector.by = "only" /\ Len(listed) > 1

\* What a listing that has no such device is refused with.
Refusal ==
    IF listed = <<>> THEN "NoDevice"
    ELSE IF selector.by = "only" THEN "AmbiguousDevice" ELSE "DeviceNotFound"

Select ==
    /\ opening = "select"
    /\ \E i \in Positions : chosen' = {listed[i]}
    /\ opening' = "open"
    /\ UNCHANGED <<bus, hotplugs, selector, mayAsk, listed, picked, opened>>

AskWhich ==
    /\ opening = "select" /\ Ambiguous /\ mayAsk
    /\ opening' = "prompt"
    /\ UNCHANGED <<bus, hotplugs, selector, mayAsk, listed, picked, chosen, opened>>

\* The picker hands back a position, and the device at it is opened as any other.
PickDevice ==
    /\ opening = "prompt"
    /\ \E i \in DOMAIN listed :
        /\ picked' = {listed[i]}
        /\ selector' = ByIndex(i)
    /\ opening' = "list"
    /\ UNCHANGED <<bus, hotplugs, mayAsk, listed, chosen, opened>>
-----------------------------------------------------------------------------
(* The call that opens the chosen one, a matter of mtp-rs.                 *)

SharingSerial(d) == {i \in DOMAIN listed : Serial[listed[i]] = Serial[d]}

\* Slip: a serial is taken to be unique.
HasSerial(d) == Serial[d] # NoSerial

\* unique_serial: some firmwares ship one serial on every unit.
HasUniqueSerial(d) == Serial[d] # NoSerial /\ Cardinality(SharingSerial(d)) = 1

\* The first device with that serial, or the one in that port.
Reached(d) ==
    IF HasUniqueSerial(d)
    THEN {bus[i] : i \in {i \in DOMAIN bus :
            /\ Serial[bus[i]] = Serial[d]
            /\ \A j \in 1..(i - 1) : Serial[bus[j]] # Serial[d]}}
    ELSE {e \in Elements(bus) : Port[e] = Port[d]}

OpenSession ==
    /\ opening = "open"
    /\ opened' = UNION {Reached(d) : d \in chosen}
    /\ opened' # {}
    /\ opening' = "load"
    /\ UNCHANGED <<bus, hotplugs, selector, mayAsk, listed, picked, chosen>>

\* Its storages are read; the listing is not needed any more.
Load ==
    /\ opening = "load"
    /\ opening' = "opened"
    /\ bus' = <<>> /\ hotplugs' = 0 /\ selector' = Only
    /\ listed' = <<>> /\ picked' = {} /\ chosen' = {} /\ opened' = {}
    /\ UNCHANGED mayAsk

\* answered: a device that does not answer its first commands is unresponsive.
Refused ==
    CASE opening = "list" -> {"Mtp"}
      [] opening = "select" /\ Positions = {} /\ ~(Ambiguous /\ mayAsk) -> {Refusal}
      [] opening = "prompt" -> {"AmbiguousDevice", "Cancelled"}
      [] opening = "open" -> {"NoDevice", "DeviceUnresponsive", "ExclusiveAccess",
                              "PermissionDenied", "Disconnected"}
      [] opening = "load" -> {"DeviceUnresponsive", "Disconnected"}
      [] OTHER -> {}

FailOpening ==
    /\ opening' = "failed"
    /\ bus' = <<>> /\ hotplugs' = 0 /\ selector' = Only
    /\ listed' = <<>> /\ picked' = {} /\ chosen' = {} /\ opened' = {}
    /\ UNCHANGED mayAsk

OpeningStep == List \/ Select \/ AskWhich \/ PickDevice \/ OpenSession \/ Load
-----------------------------------------------------------------------------
\* While nothing is plugged in or out, the session is with the very device
\* that was selected from the listing, also where serials are shared
\* (unique_serial, select_device).
OpensTheSelected ==
    hotplugs = 0 => opened \subseteq chosen

\* The device the user picked from the list is the one that is opened: the
\* order is stable within a process (list_devices).
OpensThePicked == picked # {} => opened \subseteq picked
=============================================================================
