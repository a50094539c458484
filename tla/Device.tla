------------------------------- MODULE Device -------------------------------
(***************************************************************************)
(* Opening and closing the sensor: the resources that gx5125_device_open   *)
(* takes one after the other, any step of which may fail, and the way      *)
(* gx5125_device_close gives them back.  A pipeline's open and close, and  *)
(* with them the driver's, are this.                                       *)
(*                                                                         *)
(* Kernel and libusb are modelled from how src/gx_usb.c uses them.  A      *)
(* kernel driver may be bound to an interface.  Where libusb can, it       *)
(* unbinds the driver at a claim and binds it again at the release;        *)
(* elsewhere the code does both itself, and a claim of a bound interface   *)
(* fails.  No driver is bound to an interface that is claimed.  A sensor   *)
(* that was plugged out and in again is a new device, with its drivers     *)
(* bound; the old handle only gives errors.                                *)
(*                                                                         *)
(* Definitions named ...Mutant are wrong variants of the definition after  *)
(* them, kept to show that the properties notice the difference.           *)
(***************************************************************************)
EXTENDS Naturals

CONSTANTS MaxCalls,    \* bound: calls of open and close
          MaxReplugs   \* bound: times the sensor is plugged out and in

ASSUME DeviceAssumption == {MaxCalls, MaxReplugs} \subseteq Nat

VARIABLES
    state,     \* device->state
    step,      \* where the call is; "rest" between calls
    result,    \* what the latest gx5125_device_open returned
    keys,      \* the copies of the pre-shared key: "local", "server"
    tls,       \* device->tls_initialized
    context,   \* usb->context is set
    handle,    \* usb->handle: "none", "live", "dead" (sensor plugged out)
    claimed,   \* usb->claimed_control, usb->claimed_data
    detached,  \* usb->manually_detached_control, ..._data
    session    \* device->session_started: the receiver thread runs

(***************************************************************************)
(* The world outside.                                                      *)
(***************************************************************************)
VARIABLES
    auto,      \* libusb supports auto-detach here
    native,    \* the interfaces to which the kernel binds a driver
    drivers,   \* those to which one is bound now
    lost,      \* those for which binding it again failed
    calls,     \* calls so far
    replugs    \* times plugged out and in so far

usbVars     == <<context, handle, claimed, detached>>
kernelVars  == <<native, drivers, lost>>
worldVars   == <<auto, kernelVars, replugs>>
secretVars  == <<keys, tls>>
vars == <<state, step, result, secretVars, usbVars, session, worldVars, calls>>

Interfaces == {"control", "data"}

OpenSteps  == {"key", "tls", "usb", "layout", "autoDetach", "detach", "claim",
               "session", "preflight", "sensor", "handshake"}
CloseSteps == {"stop", "release", "cleanup"}

States == {"CLOSED", "USB_OPEN", "INTERFACES_CLAIMED", "RECEIVER_RUNNING",
           "SENSOR_READY", "ACTIVE", "ERROR"}
Errors == {"PSK", "TLS", "USB_OPEN", "USB_LAYOUT", "USB_CLAIM", "RECEIVER",
           "PREFLIGHT", "SENSOR_INIT", "STATE"}

TypeOK ==
    /\ state \in States
    /\ step \in {"rest"} \cup OpenSteps \cup CloseSteps
    /\ result \in {"none", "OK"} \cup Errors
    /\ keys \subseteq {"local", "server"}
    /\ tls \in BOOLEAN
    /\ context \in BOOLEAN
    /\ handle \in {"none", "live", "dead"}
    /\ claimed \subseteq Interfaces
    /\ detached \subseteq Interfaces
    /\ session \in BOOLEAN
    /\ auto \in BOOLEAN
    /\ native \subseteq Interfaces
    /\ drivers \subseteq native
    /\ lost \subseteq native \ drivers
    /\ calls \in 0..MaxCalls
    /\ replugs \in 0..MaxReplugs
    /\ step = "detach" => ~auto

(***************************************************************************)
(* gx5125_device_create.                                                   *)
(***************************************************************************)
Init ==
    /\ state = "CLOSED"
    /\ step = "rest"
    /\ result = "none"
    /\ keys = {}
    /\ tls = FALSE
    /\ context = FALSE
    /\ handle = "none"
    /\ claimed = {}
    /\ detached = {}
    /\ session = FALSE
    /\ auto \in BOOLEAN
    /\ native \in SUBSET Interfaces
    /\ drivers = native
    /\ lost = {}
    /\ calls = 0
    /\ replugs = 0

-----------------------------------------------------------------------------
(* Opening.                                                                *)

(***************************************************************************)
(* gx5125_device_open refuses any state but CLOSED.                        *)
(***************************************************************************)
Open ==
    /\ step = "rest"
    /\ calls < MaxCalls
    /\ calls' = calls + 1
    /\ IF state = "CLOSED"
       THEN step' = "key" /\ result' = "none"
       ELSE step' = step /\ result' = "STATE"
    /\ UNCHANGED <<state, secretVars, usbVars, session, worldVars>>

(***************************************************************************)
(* gx5125_device_close begins by stopping the receiver.                    *)
(***************************************************************************)
UsbFirstMutant == "release"

FirstCloseStep == "stop"

ReturnAtOnceMutant(error) ==
    /\ step' = "rest"
    /\ state' = "ERROR"
    /\ result' = error
    /\ keys' = keys \ {"local"}
    /\ UNCHANGED <<tls, usbVars, session, worldVars, calls>>

(***************************************************************************)
(* The label fail: the local key is wiped and the device is closed.        *)
(***************************************************************************)
Fail(error) ==
    /\ step' = FirstCloseStep
    /\ state' = "ERROR"
    /\ result' = error
    /\ keys' = keys \ {"local"}
    /\ UNCHANGED <<tls, usbVars, session, worldVars, calls>>

Go(next) ==
    /\ step' = next
    /\ UNCHANGED <<result, calls>>

ReadKey ==
    /\ step = "key"
    /\ \/ /\ Go("tls")
          /\ keys' = keys \cup {"local"}
          /\ UNCHANGED <<state, tls, usbVars, session, worldVars>>
       \/ Fail("PSK")

InitTls ==
    /\ step = "tls"
    /\ \/ /\ Go("usb")
          /\ tls' = TRUE
          /\ keys' = {"server"}
          /\ UNCHANGED <<state, usbVars, session, worldVars>>
       \/ Fail("TLS")

OpenUsb ==
    /\ step = "usb"
    /\ \/ /\ Go("layout")
          /\ context' = TRUE
          /\ handle' = "live"
          /\ state' = "USB_OPEN"
          /\ UNCHANGED <<secretVars, claimed, detached, session, worldVars>>
       \/ Fail("USB_OPEN")

ValidateLayout ==
    /\ step = "layout"
    /\ \/ /\ Go("autoDetach")
          /\ handle = "live"
          /\ UNCHANGED <<state, secretVars, usbVars, session, worldVars>>
       \/ Fail("USB_LAYOUT")

(***************************************************************************)
(* gx_usb_claim_interfaces: the control interface, then the data one, each *)
(* unbound from its kernel driver first when libusb does not see to it.    *)
(***************************************************************************)
Wanted == IF "control" \in claimed THEN "data" ELSE "control"

NextInterface == IF auto THEN "claim" ELSE "detach"

SetAutoDetach ==
    /\ step = "autoDetach"
    /\ \/ /\ Go(NextInterface)
          /\ UNCHANGED <<state, secretVars, usbVars, session, worldVars>>
       \/ Fail("USB_CLAIM")

(***************************************************************************)
(* A driver that is not bound, or not reported, is left alone.             *)
(***************************************************************************)
Detach ==
    /\ step = "detach"
    /\ \/ /\ Go("claim")
          /\ handle = "live"
          /\ UNCHANGED <<state, secretVars, usbVars, session, worldVars>>
       \/ /\ Go("claim")
          /\ handle = "live"
          /\ Wanted \in drivers
          /\ drivers' = drivers \ {Wanted}
          /\ detached' = detached \cup {Wanted}
          /\ UNCHANGED <<state, secretVars, context, handle, claimed, session,
                         auto, native, lost, replugs>>
       \/ Fail("USB_CLAIM")

Claim ==
    /\ step = "claim"
    /\ \/ /\ handle = "live"
          /\ auto \/ Wanted \notin drivers
          /\ claimed' = claimed \cup {Wanted}
          /\ drivers' = drivers \ {Wanted}
          /\ IF claimed' = Interfaces
             THEN Go("session") /\ state' = "INTERFACES_CLAIMED"
             ELSE Go(NextInterface) /\ state' = state
          /\ UNCHANGED <<secretVars, context, handle, detached, session, auto,
                         native, lost, replugs>>
       \/ Fail("USB_CLAIM")

StartSession ==
    /\ step = "session"
    /\ \/ /\ Go("preflight")
          /\ session' = TRUE
          /\ state' = "RECEIVER_RUNNING"
          /\ UNCHANGED <<secretVars, usbVars, worldVars>>
       \/ Fail("RECEIVER")

(***************************************************************************)
(* The commands of control_preflight, sensor_initialize and tls_connect    *)
(* run over the session.                                                   *)
(***************************************************************************)
Talk(here, next, reached, error) ==
    /\ step = here
    /\ \/ /\ handle = "live"
          /\ step' = next
          /\ state' = reached
          /\ result' = IF reached = "ACTIVE" THEN "OK" ELSE result
          /\ UNCHANGED <<secretVars, usbVars, session, worldVars, calls>>
       \/ Fail(error)

Preflight        == Talk("preflight", "sensor", state, "PREFLIGHT")
InitializeSensor == Talk("sensor", "handshake", "SENSOR_READY", "SENSOR_INIT")
ConnectTls       == Talk("handshake", "rest", "ACTIVE", "TLS")

-----------------------------------------------------------------------------
(* Closing.                                                                *)

(***************************************************************************)
(* gx5125_device_close, in any state.  The command that puts the sensor to *)
(* idle is sent before the receiver stops and may fail; it changes nothing *)
(* here.                                                                   *)
(***************************************************************************)
Close ==
    /\ step = "rest"
    /\ calls < MaxCalls
    /\ calls' = calls + 1
    /\ step' = FirstCloseStep
    /\ UNCHANGED <<state, result, secretVars, usbVars, session, worldVars>>

(***************************************************************************)
(* gx_session_stop joins the receiver.                                     *)
(***************************************************************************)
StopSession ==
    /\ step = "stop"
    /\ Go("release")
    /\ session' = FALSE
    /\ UNCHANGED <<state, secretVars, usbVars, worldVars>>

(***************************************************************************)
(* The kernel binds its driver, or fails to; it refuses a claimed          *)
(* interface, and an old handle reaches no device.                         *)
(***************************************************************************)
Bind(i) ==
    IF handle = "live" /\ i \in native \ claimed'
    THEN \/ drivers' = drivers \cup {i} /\ lost' = lost \ {i}
         \/ i \notin drivers /\ lost' = lost \cup {i} /\ UNCHANGED drivers
    ELSE UNCHANGED <<drivers, lost>>

(***************************************************************************)
(* gx_usb_release_interfaces: both interfaces, data first, then the        *)
(* drivers that were unbound by hand.  After a failed claim of the data    *)
(* interface it runs twice; the second time finds nothing to do.           *)
(***************************************************************************)
First(interfaces) == IF "data" \in interfaces THEN "data" ELSE "control"

Release ==
    /\ step = "release"
    /\ claimed # {}
    /\ claimed' = claimed \ {First(claimed)}
    /\ IF auto THEN Bind(First(claimed)) ELSE UNCHANGED <<drivers, lost>>
    /\ UNCHANGED <<step, state, result, secretVars, context, handle, detached,
                   session, auto, native, replugs, calls>>

BeforeReleaseMutant == TRUE

MayReattach == claimed = {}

Reattach ==
    /\ step = "release"
    /\ MayReattach
    /\ detached # {}
    /\ detached' = detached \ {First(detached)}
    /\ UNCHANGED claimed
    /\ Bind(First(detached))
    /\ UNCHANGED <<step, state, result, secretVars, context, handle, session,
                   auto, native, replugs, calls>>

CloseUsb ==
    /\ step = "release"
    /\ claimed = {}
    /\ detached = {}
    /\ Go("cleanup")
    /\ handle' = "none"
    /\ context' = FALSE
    /\ UNCHANGED <<state, secretVars, claimed, detached, session, worldVars>>

(***************************************************************************)
(* gx_tls_server_cleanup and the memsets at the end.                       *)
(***************************************************************************)
CleanUp ==
    /\ step = "cleanup"
    /\ Go("rest")
    /\ tls' = FALSE
    /\ keys' = keys \ {"server"}
    /\ state' = "CLOSED"
    /\ UNCHANGED <<usbVars, session, worldVars>>

-----------------------------------------------------------------------------
(***************************************************************************)
(* The user plugs the sensor out and in.                                   *)
(***************************************************************************)
Replug ==
    /\ replugs < MaxReplugs
    /\ replugs' = replugs + 1
    /\ handle' = IF handle = "live" THEN "dead" ELSE handle
    /\ drivers' = native
    /\ lost' = {}
    /\ UNCHANGED <<state, step, result, secretVars, context, claimed, detached,
                   session, auto, native, calls>>

(***************************************************************************)
(* The bound on calls is used up.                                          *)
(***************************************************************************)
Finished ==
    /\ step = "rest"
    /\ calls = MaxCalls
    /\ UNCHANGED vars

Opening ==
    \/ ReadKey
    \/ InitTls
    \/ OpenUsb
    \/ ValidateLayout
    \/ SetAutoDetach
    \/ Detach
    \/ Claim
    \/ StartSession
    \/ Preflight
    \/ InitializeSensor
    \/ ConnectTls

Closing ==
    \/ StopSession
    \/ Release
    \/ Reattach
    \/ CloseUsb
    \/ CleanUp

Next ==
    \/ Open
    \/ Close
    \/ Opening
    \/ Closing
    \/ Replug
    \/ Finished

Spec == Init /\ [][Next]_vars
-----------------------------------------------------------------------------
(* What the callers of open and close, and the rest of the host, rely on.  *)

Everything ==
    /\ state = "ACTIVE"
    /\ tls /\ session /\ context /\ handle # "none"
    /\ claimed = Interfaces
    /\ keys = {"server"}

Nothing ==
    /\ state = "CLOSED"
    /\ ~tls /\ ~session /\ ~context /\ handle = "none"
    /\ claimed = {} /\ detached = {}
    /\ keys = {}

(***************************************************************************)
(* Whatever step of an open fails, and however often open and close are    *)
(* called, the device ends with all of its resources or with none: no      *)
(* handle, claim, thread or copy of the key stays behind, an open that     *)
(* failed can be repeated, and an open device keeps one copy of the key.   *)
(***************************************************************************)
AllOrNothing ==
    step = "rest" =>
        /\ Everything \/ Nothing
        /\ result \in Errors \ {"STATE"} => Nothing

(***************************************************************************)
(* Once the USB handle is closed every interface has its kernel driver     *)
(* back, whether the code or libusb unbound it and wherever the open       *)
(* stopped, except where binding it failed.  The code ignores that failure *)
(* and forgets that it owes the driver.                                    *)
(***************************************************************************)
DriversReturned == handle = "none" => native = drivers \cup lost

(***************************************************************************)
(* The receiver thread never runs without the interfaces it reads from: it *)
(* starts after both are claimed and is joined before either is released.  *)
(***************************************************************************)
ReceiverHasInterfaces ==
    session => claimed = Interfaces /\ handle # "none"

(***************************************************************************)
(* The resources of a device are held all or none between calls, and given *)
(* up in an order that leaves the receiver what it reads from.             *)
(***************************************************************************)
ResourcesAreSafe == AllOrNothing /\ ReceiverHasInterfaces
=============================================================================
