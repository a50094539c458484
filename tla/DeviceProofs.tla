---------------------------- MODULE DeviceProofs ----------------------------
(***************************************************************************)
(* Theorems about Device.tla, for any number of calls and of replugs; that *)
(* Bringup.tla implements it; that its handshake goes on and ends in       *)
(* agreement; that the configuration it uploads carries the settings; and  *)
(* that flipped bits of the memory do no harm, for any template of this    *)
(* layout and any memories.                                                *)
(*                                                                         *)
(* What a failing open leaves behind depends on how far it came, so the    *)
(* invariants follow the call step by step: which resources an open holds  *)
(* at each of its steps, which a close still has to give back, and who     *)
(* owes the kernel a driver.                                               *)
(***************************************************************************)
EXTENDS Bringup, SequenceTheorems, FiniteSetTheorems, WellFoundedInduction, TLAPS

(***************************************************************************)
(* An open holds exactly what its finished steps took.                     *)
(***************************************************************************)
OpeningHolds ==
    step \in OpenSteps =>
        /\ result = "none"
        /\ state # "ACTIVE"
        /\ keys = CASE step = "key" -> {}
                    [] step = "tls" -> {"local"}
                    [] OTHER        -> {"server"}
        /\ tls <=> step \notin {"key", "tls"}
        /\ context <=> step \notin {"key", "tls", "usb"}
        /\ session <=> step \in {"preflight", "sensor", "handshake"}
        /\ step \in {"key", "tls", "usb", "layout", "autoDetach"} =>
             claimed = {} /\ detached = {}
        /\ step \in {"detach", "claim"} => claimed \in {{}, {"control"}}
        /\ step \in {"session", "preflight", "sensor", "handshake"} =>
             claimed = Interfaces

(***************************************************************************)
(* A close has given back what its finished steps give back.               *)
(***************************************************************************)
ClosingGivesBack ==
    step \in CloseSteps =>
        /\ keys \subseteq {"server"}
        /\ session => step = "stop"
        /\ step = "cleanup" => handle = "none"

(***************************************************************************)
(* What goes together at every step.                                       *)
(***************************************************************************)
Consistent ==
    /\ context <=> handle # "none"
    /\ handle = "none" => claimed = {} /\ detached = {}

HoldInv ==
    /\ OpeningHolds
    /\ ClosingGivesBack
    /\ Consistent
    /\ ReceiverHasInterfaces
    /\ AllOrNothing

(***************************************************************************)
(* While the handle is good, a driver that is missing is one the code or   *)
(* libusb knows it has to bring back, or one that did not come back.       *)
(***************************************************************************)
DriverInv ==
    /\ auto => detached = {}
    /\ native = drivers \cup lost \cup
                  (IF handle # "live" THEN {}
                   ELSE native \cap (IF auto THEN claimed ELSE detached))

-----------------------------------------------------------------------------
(***************************************************************************)
(* Types.                                                                  *)
(***************************************************************************)
LEMMA BoundTypes == MaxCalls \in Nat /\ MaxReplugs \in Nat
BY DeviceAssumption

LEMMA TypeInit == Init => TypeOK
<1> SUFFICES ASSUME Init
             PROVE  TypeOK
  OBVIOUS
<1>1. native \subseteq Interfaces /\ drivers = native /\ lost \subseteq native \ drivers
  BY DEF Init
<1>2. calls \in 0..MaxCalls /\ replugs \in 0..MaxReplugs
  BY BoundTypes DEF Init
<1> QED
  BY <1>1, <1>2 DEF Init, TypeOK, OpenSteps, CloseSteps, States, Errors,
         Interfaces

LEMMA FailTypes ==
    ASSUME NEW error \in Errors, TypeOK, Fail(error)
    PROVE  TypeOK'
BY DEF TypeOK, Fail, FirstCloseStep, OpenSteps, CloseSteps, States, Errors,
         Interfaces, secretVars, usbVars, worldVars, kernelVars

LEMMA BindTypes ==
    ASSUME NEW i, TypeOK, Bind(i), native' = native
    PROVE  drivers' \subseteq native' /\ lost' \subseteq native' \ drivers'
<1>1. drivers \subseteq native /\ lost \subseteq native \ drivers
  BY DEF TypeOK
<1>2. \/ i \in native /\ drivers' = drivers \cup {i} /\ lost' = lost \ {i}
      \/ /\ i \in native /\ i \notin drivers
         /\ lost' = lost \cup {i} /\ drivers' = drivers
      \/ drivers' = drivers /\ lost' = lost
  BY DEF Bind
<1> QED
  BY <1>1, <1>2

LEMMA TypeStep == TypeOK /\ [Next]_vars => TypeOK'
<1> SUFFICES ASSUME TypeOK, [Next]_vars
             PROVE  TypeOK'
  OBVIOUS
<1> USE BoundTypes DEF TypeOK, OpenSteps, CloseSteps, States, Errors,
         Interfaces, secretVars, usbVars, worldVars, kernelVars
<1>1. CASE Open
  BY <1>1 DEF Open
<1>2. CASE Close
  BY <1>2 DEF Close, FirstCloseStep
<1>3. CASE ReadKey
  <2>1. CASE Fail("PSK")
    BY <1>3, <2>1, FailTypes DEF ReadKey
  <2>2. CASE ~Fail("PSK")
    <3>1. keys' \subseteq {"local", "server"}
      BY <1>3, <2>2 DEF ReadKey
    <3> QED
      BY <1>3, <2>2, <3>1 DEF ReadKey, Go
  <2> QED
    BY <2>1, <2>2
<1>4. CASE InitTls
  <2>1. CASE Fail("TLS")
    BY <1>4, <2>1, FailTypes DEF InitTls
  <2>2. CASE ~Fail("TLS")
    BY <1>4, <2>2 DEF InitTls, Go
  <2> QED
    BY <2>1, <2>2
<1>5. CASE OpenUsb
  <2>1. CASE Fail("USB_OPEN")
    BY <1>5, <2>1, FailTypes DEF OpenUsb
  <2>2. CASE ~Fail("USB_OPEN")
    BY <1>5, <2>2 DEF OpenUsb, Go
  <2> QED
    BY <2>1, <2>2
<1>6. CASE ValidateLayout
  <2>1. CASE Fail("USB_LAYOUT")
    BY <1>6, <2>1, FailTypes DEF ValidateLayout
  <2>2. CASE ~Fail("USB_LAYOUT")
    <3>1. step' = "autoDetach"
      BY <1>6, <2>2 DEF ValidateLayout, Go
    <3>2. UNCHANGED <<state, secretVars, usbVars, session, worldVars, result,
                      calls>>
      BY <1>6, <2>2 DEF ValidateLayout, Go
    <3> QED
      BY <3>1, <3>2
  <2> QED
    BY <2>1, <2>2
<1>7. CASE SetAutoDetach
  <2>1. CASE Fail("USB_CLAIM")
    BY <1>7, <2>1, FailTypes DEF SetAutoDetach
  <2>2. CASE ~Fail("USB_CLAIM")
    <3>1. step' = "claim" \/ (step' = "detach" /\ ~auto)
      BY <1>7, <2>2 DEF SetAutoDetach, Go, NextInterface
    <3>2. UNCHANGED <<state, secretVars, usbVars, session, worldVars, result,
                      calls>>
      BY <1>7, <2>2 DEF SetAutoDetach, Go
    <3> QED
      BY <3>1, <3>2
  <2> QED
    BY <2>1, <2>2
<1>8. CASE Detach
  <2>1. CASE Fail("USB_CLAIM")
    BY <1>8, <2>1, FailTypes DEF Detach
  <2>2. CASE ~Fail("USB_CLAIM")
    <3>1. step' = "claim" /\ drivers' \subseteq drivers
      BY <1>8, <2>2 DEF Detach, Go
    <3>2. detached' \subseteq Interfaces
      BY <1>8, <2>2 DEF Detach, Wanted
    <3>3. UNCHANGED <<state, secretVars, context, handle, claimed, session, auto,
                      native, lost, replugs, result, calls>>
      BY <1>8, <2>2 DEF Detach, Go
    <3>4. lost' \subseteq native' \ drivers'
      BY <3>1, <3>3
    <3> QED
      BY <3>1, <3>2, <3>3, <3>4
  <2> QED
    BY <2>1, <2>2
<1>9. CASE Claim
  <2>1. CASE Fail("USB_CLAIM")
    BY <1>9, <2>1, FailTypes DEF Claim
  <2>2. CASE ~Fail("USB_CLAIM")
    <3>1. \/ step' \in {"claim", "session"}
          \/ step' = "detach" /\ ~auto
      BY <1>9, <2>2 DEF Claim, Go, NextInterface
    <3>2. claimed' \subseteq Interfaces /\ drivers' \subseteq drivers
      BY <1>9, <2>2 DEF Claim, Wanted
    <3>3. state' \in {state, "INTERFACES_CLAIMED"}
      BY <1>9, <2>2 DEF Claim
    <3>4. UNCHANGED <<secretVars, context, handle, detached, session, auto,
                      native, lost, replugs, result, calls>>
      BY <1>9, <2>2 DEF Claim, Go
    <3>5. lost' \subseteq native' \ drivers'
      BY <3>2, <3>4
    <3> QED
      BY <3>1, <3>2, <3>3, <3>4, <3>5
  <2> QED
    BY <2>1, <2>2
<1>10. CASE StartSession
  <2>1. CASE Fail("RECEIVER")
    BY <1>10, <2>1, FailTypes DEF StartSession
  <2>2. CASE ~Fail("RECEIVER")
    BY <1>10, <2>2 DEF StartSession, Go
  <2> QED
    BY <2>1, <2>2
<1>11. CASE Preflight
  <2>1. CASE Fail("PREFLIGHT")
    BY <1>11, <2>1, FailTypes DEF Preflight, Talk
  <2>2. CASE ~Fail("PREFLIGHT")
    <3>1. step' = "sensor"
      BY <1>11, <2>2, ZenonT(30) DEF Preflight, Talk
    <3>2. UNCHANGED <<state, secretVars, usbVars, session, worldVars, calls>>
      BY <1>11, <2>2 DEF Preflight, Talk
    <3>3. result' \in {"OK", result}
      BY <1>11, <2>2 DEF Preflight, Talk
    <3> QED
      BY <3>1, <3>2, <3>3
  <2> QED
    BY <2>1, <2>2
<1>12. CASE InitializeSensor
  <2>1. CASE Fail("SENSOR_INIT")
    BY <1>12, <2>1, FailTypes DEF InitializeSensor, Talk
  <2>2. CASE ~Fail("SENSOR_INIT")
    BY <1>12, <2>2 DEF InitializeSensor, Talk
  <2> QED
    BY <2>1, <2>2
<1>13. CASE ConnectTls
  <2>1. CASE Fail("TLS")
    BY <1>13, <2>1, FailTypes DEF ConnectTls, Talk
  <2>2. CASE ~Fail("TLS")
    BY <1>13, <2>2 DEF ConnectTls, Talk
  <2> QED
    BY <2>1, <2>2
<1>14. CASE StopSession
  BY <1>14 DEF StopSession, Go
<1>15. CASE Release
  <2>1. claimed' \subseteq Interfaces
    BY <1>15 DEF Release
  <2>2. UNCHANGED <<step, state, result, secretVars, context, handle, detached,
                    session, auto, native, replugs, calls>>
    BY <1>15 DEF Release
  <2>3. drivers' \subseteq native' /\ lost' \subseteq native' \ drivers'
    <3>1. CASE auto
      <4>1. Bind(First(claimed)) /\ native' = native
        BY <1>15, <3>1 DEF Release
      <4> QED
        BY <4>1, BindTypes
    <3>2. CASE ~auto
      BY <1>15, <3>2 DEF Release
    <3> QED
      BY <3>1, <3>2
  <2> QED
    BY <2>1, <2>2, <2>3
<1>16. CASE Reattach
  <2>1. detached' \subseteq Interfaces
    BY <1>16 DEF Reattach
  <2>2. UNCHANGED <<step, state, result, secretVars, context, handle, claimed,
                    session, auto, native, replugs, calls>>
    BY <1>16 DEF Reattach
  <2>3. drivers' \subseteq native' /\ lost' \subseteq native' \ drivers'
    BY <1>16, <2>2, BindTypes DEF Reattach
  <2> QED
    BY <2>1, <2>2, <2>3
<1>17. CASE CloseUsb
  BY <1>17 DEF CloseUsb, Go
<1>18. CASE CleanUp
  BY <1>18 DEF CleanUp, Go
<1>19. CASE Replug
  BY <1>19 DEF Replug
<1>20. CASE Finished
  BY <1>20 DEF Finished, vars
<1>21. CASE UNCHANGED vars
  BY <1>21 DEF vars
<1> QED
  BY <1>1, <1>2, <1>3, <1>4, <1>5, <1>6, <1>7, <1>8, <1>9, <1>10, <1>11,
         <1>12, <1>13, <1>14, <1>15, <1>16, <1>17, <1>18, <1>19, <1>20,
         <1>21 DEF Next, Opening, Closing

(***************************************************************************)
(* Every reachable state has its types.                                    *)
(***************************************************************************)
THEOREM TypeCorrect == Spec => []TypeOK
<1>1. Init => TypeOK
  BY TypeInit
<1>2. TypeOK /\ [Next]_vars => TypeOK'
  BY TypeStep
<1> QED
  BY <1>1, <1>2, PTL DEF Spec

-----------------------------------------------------------------------------
(***************************************************************************)
(* What a call holds at each of its steps.                                 *)
(***************************************************************************)
LEMMA HoldInit == Init => HoldInv
BY DEF Init, HoldInv, OpeningHolds, ClosingGivesBack, Consistent,
         ReceiverHasInterfaces, AllOrNothing, Nothing, OpenSteps,
         CloseSteps, States, Errors, Interfaces

LEMMA FailHolds ==
    ASSUME NEW error \in Errors, TypeOK, HoldInv, step \in OpenSteps,
         Fail(error)
    PROVE  HoldInv'
<1> USE DEF Fail, FirstCloseStep, secretVars, usbVars, worldVars,
         kernelVars, OpenSteps, CloseSteps
<1>1. OpeningHolds'
  BY DEF OpeningHolds
<1>2. ClosingGivesBack'
  BY DEF HoldInv, OpeningHolds, ClosingGivesBack
<1>3. Consistent' /\ ReceiverHasInterfaces'
  BY DEF HoldInv, Consistent, ReceiverHasInterfaces
<1>4. AllOrNothing'
  BY DEF AllOrNothing
<1> QED
  BY <1>1, <1>2, <1>3, <1>4 DEF HoldInv

LEMMA NoSessionYet ==
    ASSUME HoldInv,
           step \in {"usb", "layout", "autoDetach", "detach", "claim"}
    PROVE  ~session
BY DEF HoldInv, OpeningHolds, OpenSteps

LEMMA HoldStep == TypeOK /\ HoldInv /\ [Next]_vars => HoldInv'
<1> SUFFICES ASSUME TypeOK, HoldInv, [Next]_vars
             PROVE  HoldInv'
  OBVIOUS
<1> USE DEF OpenSteps, CloseSteps, States, Errors, Interfaces, secretVars,
         usbVars, worldVars, kernelVars
<1>1. CASE Open
  BY <1>1 DEF Open, TypeOK, HoldInv, OpeningHolds, ClosingGivesBack,
         Consistent, ReceiverHasInterfaces, AllOrNothing, Everything, Nothing
<1>2. CASE Close
  BY <1>2 DEF Close, FirstCloseStep, TypeOK, HoldInv, OpeningHolds,
         ClosingGivesBack, Consistent, ReceiverHasInterfaces, AllOrNothing,
         Everything, Nothing
<1>3. CASE ReadKey
  <2>1. CASE Fail("PSK")
    BY <1>3, <2>1, FailHolds DEF ReadKey
  <2>2. CASE ~Fail("PSK")
    <3>1. step' \in {"tls"}
      BY <1>3, <2>2 DEF ReadKey, Go
    <3>2. OpeningHolds'
      BY <1>3, <2>2, <3>1 DEF ReadKey, Go, TypeOK, HoldInv, OpeningHolds,
         Consistent
    <3>3. ClosingGivesBack' /\ AllOrNothing'
      BY <3>1 DEF ClosingGivesBack, AllOrNothing
    <3>4. Consistent' /\ ReceiverHasInterfaces'
      BY <1>3, <2>2 DEF ReadKey, Go, TypeOK, HoldInv, OpeningHolds,
         Consistent, ReceiverHasInterfaces
    <3> QED
      BY <3>2, <3>3, <3>4 DEF HoldInv
  <2> QED
    BY <2>1, <2>2
<1>4. CASE InitTls
  <2>1. CASE Fail("TLS")
    BY <1>4, <2>1, FailHolds DEF InitTls
  <2>2. CASE ~Fail("TLS")
    <3>1. step' \in {"usb"}
      BY <1>4, <2>2 DEF InitTls, Go
    <3>2. OpeningHolds'
      BY <1>4, <2>2, <3>1 DEF InitTls, Go, TypeOK, HoldInv, OpeningHolds,
         Consistent
    <3>3. ClosingGivesBack' /\ AllOrNothing'
      BY <3>1 DEF ClosingGivesBack, AllOrNothing
    <3>4. Consistent' /\ ReceiverHasInterfaces'
      BY <1>4, <2>2 DEF InitTls, Go, TypeOK, HoldInv, OpeningHolds,
         Consistent, ReceiverHasInterfaces
    <3> QED
      BY <3>2, <3>3, <3>4 DEF HoldInv
  <2> QED
    BY <2>1, <2>2
<1>5. CASE OpenUsb
  <2>1. CASE Fail("USB_OPEN")
    BY <1>5, <2>1, FailHolds DEF OpenUsb
  <2>2. CASE ~Fail("USB_OPEN")
    <3>1. step' \in {"layout"}
      BY <1>5, <2>2 DEF OpenUsb, Go
    <3>2. OpeningHolds'
      BY <1>5, <2>2, <3>1 DEF OpenUsb, Go, TypeOK, HoldInv, OpeningHolds,
         Consistent
    <3>3. ClosingGivesBack' /\ AllOrNothing'
      BY <3>1 DEF ClosingGivesBack, AllOrNothing
    <3>4. Consistent' /\ ReceiverHasInterfaces'
      <4>1. ~session
        BY <1>5, NoSessionYet DEF OpenUsb
      <4>2. ~session'
        BY <1>5, <2>2, <4>1 DEF OpenUsb
      <4>3. /\ context' /\ handle' = "live"
        BY <1>5, <2>2 DEF OpenUsb
      <4> QED
        BY <4>2, <4>3 DEF Consistent, ReceiverHasInterfaces
    <3> QED
      BY <3>2, <3>3, <3>4 DEF HoldInv
  <2> QED
    BY <2>1, <2>2
<1>6. CASE ValidateLayout
  <2>1. CASE Fail("USB_LAYOUT")
    BY <1>6, <2>1, FailHolds DEF ValidateLayout
  <2>2. CASE ~Fail("USB_LAYOUT")
    <3>1. step' \in {"autoDetach"}
      BY <1>6, <2>2 DEF ValidateLayout, Go
    <3>2. OpeningHolds'
      BY <1>6, <2>2, <3>1 DEF ValidateLayout, Go, TypeOK, HoldInv,
         OpeningHolds, Consistent
    <3>3. ClosingGivesBack' /\ AllOrNothing'
      BY <3>1 DEF ClosingGivesBack, AllOrNothing
    <3>4. Consistent' /\ ReceiverHasInterfaces'
      <4>1. ~session
        BY <1>6, NoSessionYet DEF ValidateLayout
      <4>2. ~session'
        BY <1>6, <2>2, <4>1 DEF ValidateLayout
      <4>3. UNCHANGED usbVars
        BY <1>6, <2>2 DEF ValidateLayout
      <4> QED
        BY <4>2, <4>3 DEF HoldInv, Consistent, ReceiverHasInterfaces
    <3> QED
      BY <3>2, <3>3, <3>4 DEF HoldInv
  <2> QED
    BY <2>1, <2>2
<1>7. CASE SetAutoDetach
  <2>1. CASE Fail("USB_CLAIM")
    BY <1>7, <2>1, FailHolds DEF SetAutoDetach
  <2>2. CASE ~Fail("USB_CLAIM")
    <3>1. step' \in {"detach", "claim"}
      BY <1>7, <2>2 DEF SetAutoDetach, Go, NextInterface
    <3>2. OpeningHolds'
      BY <1>7, <2>2, <3>1 DEF SetAutoDetach, Go, NextInterface, TypeOK,
         HoldInv, OpeningHolds, Consistent
    <3>3. ClosingGivesBack' /\ AllOrNothing'
      BY <3>1 DEF ClosingGivesBack, AllOrNothing
    <3>4. Consistent' /\ ReceiverHasInterfaces'
      <4>1. ~session
        BY <1>7, NoSessionYet DEF SetAutoDetach
      <4>2. ~session'
        BY <1>7, <2>2, <4>1 DEF SetAutoDetach
      <4>3. UNCHANGED usbVars
        BY <1>7, <2>2 DEF SetAutoDetach
      <4> QED
        BY <4>2, <4>3 DEF HoldInv, Consistent, ReceiverHasInterfaces
    <3> QED
      BY <3>2, <3>3, <3>4 DEF HoldInv
  <2> QED
    BY <2>1, <2>2
<1>8. CASE Detach
  <2>1. CASE Fail("USB_CLAIM")
    BY <1>8, <2>1, FailHolds DEF Detach
  <2>2. CASE ~Fail("USB_CLAIM")
    <3>1. step' \in {"claim"}
      BY <1>8, <2>2 DEF Detach, Go, Wanted
    <3>2. OpeningHolds'
      BY <1>8, <2>2, <3>1 DEF Detach, Go, Wanted, TypeOK, HoldInv,
         OpeningHolds, Consistent
    <3>3. ClosingGivesBack' /\ AllOrNothing'
      BY <3>1 DEF ClosingGivesBack, AllOrNothing
    <3>4. Consistent' /\ ReceiverHasInterfaces'
      <4>1. ~session
        BY <1>8, NoSessionYet DEF Detach
      <4>2. ~session'
        BY <1>8, <2>2, <4>1 DEF Detach
      <4>3. handle' = handle /\ context' = context /\ handle = "live"
        BY <1>8, <2>2 DEF Detach
      <4> QED
        BY <4>2, <4>3 DEF HoldInv, Consistent, ReceiverHasInterfaces
    <3> QED
      BY <3>2, <3>3, <3>4 DEF HoldInv
  <2> QED
    BY <2>1, <2>2
<1>9. CASE Claim
  <2>1. CASE Fail("USB_CLAIM")
    BY <1>9, <2>1, FailHolds DEF Claim
  <2>2. CASE ~Fail("USB_CLAIM")
    <3>1. step' \in {"detach", "claim", "session"}
      BY <1>9, <2>2 DEF Claim, Go, Wanted, NextInterface
    <3>2. OpeningHolds'
      BY <1>9, <2>2, <3>1 DEF Claim, Go, Wanted, NextInterface, TypeOK,
         HoldInv, OpeningHolds, Consistent
    <3>3. ClosingGivesBack' /\ AllOrNothing'
      BY <3>1 DEF ClosingGivesBack, AllOrNothing
    <3>4. Consistent' /\ ReceiverHasInterfaces'
      <4>1. ~session
        BY <1>9, NoSessionYet DEF Claim
      <4>2. ~session'
        BY <1>9, <2>2, <4>1 DEF Claim
      <4>3. handle' = handle /\ context' = context /\ handle = "live"
        BY <1>9, <2>2 DEF Claim
      <4> QED
        BY <4>2, <4>3 DEF HoldInv, Consistent, ReceiverHasInterfaces
    <3> QED
      BY <3>2, <3>3, <3>4 DEF HoldInv
  <2> QED
    BY <2>1, <2>2
<1>10. CASE StartSession
  <2>1. CASE Fail("RECEIVER")
    BY <1>10, <2>1, FailHolds DEF StartSession
  <2>2. CASE ~Fail("RECEIVER")
    <3>1. step' \in {"preflight"}
      BY <1>10, <2>2 DEF StartSession, Go
    <3>2. OpeningHolds'
      BY <1>10, <2>2, <3>1 DEF StartSession, Go, TypeOK, HoldInv,
         OpeningHolds, Consistent
    <3>3. ClosingGivesBack' /\ AllOrNothing'
      BY <3>1 DEF ClosingGivesBack, AllOrNothing
    <3>4. Consistent' /\ ReceiverHasInterfaces'
      BY <1>10, <2>2 DEF StartSession, Go, TypeOK, HoldInv, OpeningHolds,
         Consistent, ReceiverHasInterfaces
    <3> QED
      BY <3>2, <3>3, <3>4 DEF HoldInv
  <2> QED
    BY <2>1, <2>2
<1>11. CASE Preflight
  <2>1. CASE Fail("PREFLIGHT")
    BY <1>11, <2>1, FailHolds DEF Preflight, Talk
  <2>2. CASE ~Fail("PREFLIGHT")
    <3>1. step' \in {"sensor"}
      BY <1>11, <2>2, ZenonT(30) DEF Preflight, Talk
    <3>2. OpeningHolds'
      <4>1. /\ step = "preflight" /\ step' = "sensor"
            /\ UNCHANGED <<state, secretVars, usbVars, session>>
        BY <1>11, <2>2, ZenonT(30) DEF Preflight, Talk
      <4>2. result' = result
        BY <1>11, <2>2, <4>1 DEF Preflight, Talk, HoldInv, OpeningHolds
      <4> QED
        BY <4>1, <4>2 DEF HoldInv, OpeningHolds
    <3>3. ClosingGivesBack' /\ AllOrNothing'
      BY <3>1 DEF ClosingGivesBack, AllOrNothing
    <3>4. Consistent' /\ ReceiverHasInterfaces'
      BY <1>11, <2>2 DEF Preflight, Talk, TypeOK, HoldInv, OpeningHolds,
         Consistent, ReceiverHasInterfaces
    <3> QED
      BY <3>2, <3>3, <3>4 DEF HoldInv
  <2> QED
    BY <2>1, <2>2
<1>12. CASE InitializeSensor
  <2>1. CASE Fail("SENSOR_INIT")
    BY <1>12, <2>1, FailHolds DEF InitializeSensor, Talk
  <2>2. CASE ~Fail("SENSOR_INIT")
    <3>1. step' \in {"handshake"}
      BY <1>12, <2>2 DEF InitializeSensor, Talk
    <3>2. OpeningHolds'
      BY <1>12, <2>2, <3>1 DEF InitializeSensor, Talk, TypeOK, HoldInv,
         OpeningHolds, Consistent
    <3>3. ClosingGivesBack' /\ AllOrNothing'
      BY <3>1 DEF ClosingGivesBack, AllOrNothing
    <3>4. Consistent' /\ ReceiverHasInterfaces'
      BY <1>12, <2>2 DEF InitializeSensor, Talk, TypeOK, HoldInv,
         OpeningHolds, Consistent, ReceiverHasInterfaces
    <3> QED
      BY <3>2, <3>3, <3>4 DEF HoldInv
  <2> QED
    BY <2>1, <2>2
<1>13. CASE ConnectTls
  <2>1. CASE Fail("TLS")
    BY <1>13, <2>1, FailHolds DEF ConnectTls, Talk
  <2>2. CASE ~Fail("TLS")
    BY <1>13, <2>2 DEF ConnectTls, Talk, TypeOK, HoldInv, OpeningHolds,
         ClosingGivesBack, Consistent, ReceiverHasInterfaces, AllOrNothing,
         Everything, Nothing
  <2> QED
    BY <2>1, <2>2
<1>14. CASE StopSession
  BY <1>14 DEF StopSession, Go, TypeOK, HoldInv, OpeningHolds,
         ClosingGivesBack, Consistent, ReceiverHasInterfaces, AllOrNothing,
         Everything, Nothing
<1>15. CASE Release
  BY <1>15 DEF Release, Bind, First, TypeOK, HoldInv, OpeningHolds,
         ClosingGivesBack, Consistent, ReceiverHasInterfaces, AllOrNothing,
         Everything, Nothing
<1>16. CASE Reattach
  BY <1>16 DEF Reattach, Bind, First, MayReattach, TypeOK, HoldInv,
         OpeningHolds, ClosingGivesBack, Consistent, ReceiverHasInterfaces,
         AllOrNothing, Everything, Nothing
<1>17. CASE CloseUsb
  BY <1>17 DEF CloseUsb, Go, TypeOK, HoldInv, OpeningHolds,
         ClosingGivesBack, Consistent, ReceiverHasInterfaces, AllOrNothing,
         Everything, Nothing
<1>18. CASE CleanUp
  BY <1>18 DEF CleanUp, Go, TypeOK, HoldInv, OpeningHolds, ClosingGivesBack,
         Consistent, ReceiverHasInterfaces, AllOrNothing, Everything, Nothing
<1>19. CASE Replug
  BY <1>19 DEF Replug, TypeOK, HoldInv, OpeningHolds, ClosingGivesBack,
         Consistent, ReceiverHasInterfaces, AllOrNothing, Everything, Nothing
<1>20. CASE Finished
  BY <1>20 DEF Finished, vars, TypeOK, HoldInv, OpeningHolds,
         ClosingGivesBack, Consistent, ReceiverHasInterfaces, AllOrNothing,
         Everything, Nothing
<1>21. CASE UNCHANGED vars
  BY <1>21 DEF vars, TypeOK, HoldInv, OpeningHolds, ClosingGivesBack,
         Consistent, ReceiverHasInterfaces, AllOrNothing, Everything, Nothing
<1> QED
  BY <1>1, <1>2, <1>3, <1>4, <1>5, <1>6, <1>7, <1>8, <1>9, <1>10, <1>11,
         <1>12, <1>13, <1>14, <1>15, <1>16, <1>17, <1>18, <1>19, <1>20,
         <1>21 DEF Next, Opening, Closing

(***************************************************************************)
(* Whichever step of an open fails, the device is left with all of its     *)
(* resources or with none, and on the way the receiver always has the      *)
(* interfaces it reads from.                                               *)
(***************************************************************************)
THEOREM HoldsAllOrNothing == Spec => []ResourcesAreSafe
<1>1. Init => TypeOK /\ HoldInv
  BY TypeInit, HoldInit
<1>2. TypeOK /\ HoldInv /\ [Next]_vars => (TypeOK /\ HoldInv)'
  BY TypeStep, HoldStep
<1>3. HoldInv => ResourcesAreSafe
  BY DEF HoldInv, ResourcesAreSafe
<1> QED
  BY <1>1, <1>2, <1>3, PTL DEF Spec

(***************************************************************************)
(* The receiver thread runs only while both interfaces are claimed.        *)
(***************************************************************************)
THEOREM ReceiverIsSafe == Spec => []ReceiverHasInterfaces
<1>1. Init => TypeOK /\ HoldInv
  BY TypeInit, HoldInit
<1>2. TypeOK /\ HoldInv /\ [Next]_vars => (TypeOK /\ HoldInv)'
  BY TypeStep, HoldStep
<1>3. HoldInv => ReceiverHasInterfaces
  BY DEF HoldInv
<1> QED
  BY <1>1, <1>2, <1>3, PTL DEF Spec

-----------------------------------------------------------------------------
(***************************************************************************)
(* Who owes the kernel a driver.                                           *)
(***************************************************************************)
LEMMA DriverInit == Init => DriverInv
BY DEF Init, DriverInv

LEMMA FailDrivers ==
    ASSUME NEW error \in Errors, DriverInv, Fail(error)
    PROVE  DriverInv'
BY DEF DriverInv, Fail, secretVars, usbVars, worldVars, kernelVars

LEMMA DriversKept ==
    ASSUME DriverInv, UNCHANGED <<usbVars, worldVars>>
    PROVE  DriverInv'
BY DEF DriverInv, usbVars, worldVars, kernelVars

LEMMA DriverStep == TypeOK /\ HoldInv /\ DriverInv /\ [Next]_vars => DriverInv'
<1> SUFFICES ASSUME TypeOK, HoldInv, DriverInv, [Next]_vars
             PROVE  DriverInv'
  OBVIOUS
<1> USE DEF Errors, secretVars, usbVars, worldVars, kernelVars
<1>1. CASE Open
  BY <1>1, DriversKept DEF Open
<1>2. CASE Close
  BY <1>2, DriversKept DEF Close
<1>3. CASE ReadKey
  <2>1. CASE Fail("PSK")
    BY <1>3, <2>1, FailDrivers DEF ReadKey
  <2>2. CASE ~Fail("PSK")
    BY <1>3, <2>2, DriversKept DEF ReadKey
  <2> QED
    BY <2>1, <2>2
<1>4. CASE InitTls
  <2>1. CASE Fail("TLS")
    BY <1>4, <2>1, FailDrivers DEF InitTls
  <2>2. CASE ~Fail("TLS")
    BY <1>4, <2>2, DriversKept DEF InitTls
  <2> QED
    BY <2>1, <2>2
<1>5. CASE OpenUsb
  <2>1. CASE Fail("USB_OPEN")
    BY <1>5, <2>1, FailDrivers DEF OpenUsb
  <2>2. CASE ~Fail("USB_OPEN")
    BY <1>5, <2>2 DEF OpenUsb, Go, TypeOK, HoldInv, Consistent,
         OpeningHolds, DriverInv, OpenSteps, CloseSteps, States, Errors,
         Interfaces
  <2> QED
    BY <2>1, <2>2
<1>6. CASE ValidateLayout
  <2>1. CASE Fail("USB_LAYOUT")
    BY <1>6, <2>1, FailDrivers DEF ValidateLayout
  <2>2. CASE ~Fail("USB_LAYOUT")
    BY <1>6, <2>2, DriversKept DEF ValidateLayout
  <2> QED
    BY <2>1, <2>2
<1>7. CASE SetAutoDetach
  <2>1. CASE Fail("USB_CLAIM")
    BY <1>7, <2>1, FailDrivers DEF SetAutoDetach
  <2>2. CASE ~Fail("USB_CLAIM")
    BY <1>7, <2>2, DriversKept DEF SetAutoDetach
  <2> QED
    BY <2>1, <2>2
<1>8. CASE Detach
  <2>1. CASE Fail("USB_CLAIM")
    BY <1>8, <2>1, FailDrivers DEF Detach
  <2>2. CASE ~Fail("USB_CLAIM")
    <3>1. CASE UNCHANGED <<usbVars, worldVars>>
      BY <3>1, DriversKept
    <3>2. CASE ~UNCHANGED <<usbVars, worldVars>>
      <4>1. /\ step = "detach"
            /\ handle = "live" /\ handle' = handle
            /\ Wanted \in drivers
            /\ drivers' = drivers \ {Wanted}
            /\ detached' = detached \cup {Wanted}
            /\ UNCHANGED <<native, lost, auto>>
        BY <1>8, <2>2, <3>2 DEF Detach
      <4>2. ~auto /\ ~auto'
        BY <4>1 DEF TypeOK
      <4>3. Wanted \in native
        BY <4>1 DEF TypeOK
      <4> QED
        BY <4>1, <4>2, <4>3 DEF DriverInv
    <3> QED
      BY <3>1, <3>2
  <2> QED
    BY <2>1, <2>2
<1>9. CASE Claim
  <2>1. CASE Fail("USB_CLAIM")
    BY <1>9, <2>1, FailDrivers DEF Claim
  <2>2. CASE ~Fail("USB_CLAIM")
    <3>1. /\ handle = "live" /\ handle' = handle
          /\ auto \/ Wanted \notin drivers
          /\ claimed' = claimed \cup {Wanted}
          /\ drivers' = drivers \ {Wanted}
          /\ UNCHANGED <<detached, auto, native, lost>>
      BY <1>9, <2>2 DEF Claim
    <3>2. drivers \subseteq native
      BY DEF TypeOK
    <3>3. CASE auto
      BY <3>1, <3>2, <3>3 DEF DriverInv
    <3>4. CASE ~auto
      BY <3>1, <3>4 DEF DriverInv
    <3> QED
      BY <3>3, <3>4
  <2> QED
    BY <2>1, <2>2
<1>10. CASE StartSession
  <2>1. CASE Fail("RECEIVER")
    BY <1>10, <2>1, FailDrivers DEF StartSession
  <2>2. CASE ~Fail("RECEIVER")
    BY <1>10, <2>2, DriversKept DEF StartSession
  <2> QED
    BY <2>1, <2>2
<1>11. CASE Preflight
  <2>1. CASE Fail("PREFLIGHT")
    BY <1>11, <2>1, FailDrivers DEF Preflight, Talk
  <2>2. CASE ~Fail("PREFLIGHT")
    BY <1>11, <2>2, DriversKept DEF Preflight, Talk
  <2> QED
    BY <2>1, <2>2
<1>12. CASE InitializeSensor
  <2>1. CASE Fail("SENSOR_INIT")
    BY <1>12, <2>1, FailDrivers DEF InitializeSensor, Talk
  <2>2. CASE ~Fail("SENSOR_INIT")
    BY <1>12, <2>2, DriversKept DEF InitializeSensor, Talk
  <2> QED
    BY <2>1, <2>2
<1>13. CASE ConnectTls
  <2>1. CASE Fail("TLS")
    BY <1>13, <2>1, FailDrivers DEF ConnectTls, Talk
  <2>2. CASE ~Fail("TLS")
    BY <1>13, <2>2, DriversKept DEF ConnectTls, Talk
  <2> QED
    BY <2>1, <2>2
<1>14. CASE StopSession
  BY <1>14, DriversKept DEF StopSession
<1>15. CASE Release
  BY <1>15 DEF Release, Bind, First, TypeOK, HoldInv, Consistent,
         OpeningHolds, DriverInv, OpenSteps, CloseSteps, States, Errors,
         Interfaces
<1>16. CASE Reattach
  BY <1>16 DEF Reattach, Bind, First, MayReattach, TypeOK, HoldInv,
         Consistent, OpeningHolds, DriverInv, OpenSteps, CloseSteps, States,
         Errors, Interfaces
<1>17. CASE CloseUsb
  BY <1>17 DEF CloseUsb, Go, TypeOK, HoldInv, Consistent, OpeningHolds,
         DriverInv, OpenSteps, CloseSteps, States, Errors, Interfaces
<1>18. CASE CleanUp
  BY <1>18, DriversKept DEF CleanUp
<1>19. CASE Replug
  BY <1>19 DEF Replug, TypeOK, HoldInv, Consistent, OpeningHolds, DriverInv,
         OpenSteps, CloseSteps, States, Errors, Interfaces
<1>20. CASE Finished
  BY <1>20, DriversKept DEF Finished, vars
<1>21. CASE UNCHANGED vars
  BY <1>21, DriversKept DEF vars
<1> QED
  BY <1>1, <1>2, <1>3, <1>4, <1>5, <1>6, <1>7, <1>8, <1>9, <1>10, <1>11,
         <1>12, <1>13, <1>14, <1>15, <1>16, <1>17, <1>18, <1>19, <1>20,
         <1>21 DEF Next, Opening, Closing

(***************************************************************************)
(* After a close, and after an open that failed anywhere, every interface  *)
(* has its kernel driver back unless binding it failed.                    *)
(***************************************************************************)
THEOREM GivesDriversBack == Spec => []DriversReturned
<1>1. Init => TypeOK /\ HoldInv /\ DriverInv
  BY TypeInit, HoldInit, DriverInit
<1>2. /\ TypeOK /\ HoldInv /\ DriverInv
      /\ [Next]_vars
      => (TypeOK /\ HoldInv /\ DriverInv)'
  BY TypeStep, HoldStep, DriverStep
<1>3. TypeOK /\ DriverInv => DriversReturned
  BY DEF TypeOK, DriverInv, DriversReturned
<1> QED
  BY <1>1, <1>2, <1>3, PTL DEF Spec

-----------------------------------------------------------------------------
(***************************************************************************)
(* A failure anywhere in the bring-up is one of the device's.              *)
(***************************************************************************)
LEMMA GivingUpIsAStep == GiveUp => Next
BY DEF GiveUp, Next, Opening

(***************************************************************************)
(* A step of the bring-up is a step of the device or leaves it alone.      *)
(***************************************************************************)
LEMMA TalkingStep == Talking => Next \/ UNCHANGED vars
<1> SUFFICES ASSUME Talking PROVE Next \/ UNCHANGED vars
  OBVIOUS
<1>1. CASE AskFirst
  BY <1>1 DEF AskFirst, Proceed
<1>2. CASE PutToIdle
  BY <1>2 DEF PutToIdle, Proceed
<1>3. CASE CheckChip
  BY <1>3 DEF CheckChip, Next, Opening
<1>4. CASE ReadOtp
  BY <1>4 DEF ReadOtp, Proceed
<1>5. CASE PrepareConfig
  BY <1>5, GivingUpIsAStep DEF PrepareConfig
<1>6. CASE Upload
  BY <1>6, GivingUpIsAStep DEF Upload, Next, Opening
<1>7. CASE ClearTls
  BY <1>7 DEF ClearTls
<1>8. CASE SendInit
  BY <1>8 DEF SendInit, Proceed
<1>9. CASE TakeFlight \/ ReturnFromShake
  BY <1>9 DEF TakeFlight, ReturnFromShake
<1>10. CASE Flush
  BY <1>10 DEF Flush, Proceed
<1>11. CASE ReadFlights
  BY <1>11 DEF ReadFlights
<1>12. CASE Establish
  BY <1>12 DEF Establish, Proceed
<1>13. CASE PollAgain
  BY <1>13 DEF PollAgain
<1>14. CASE BecomeActive
  BY <1>14 DEF BecomeActive, Next, Opening
<1> QED
  BY <1>1, <1>2, <1>3, <1>4, <1>5, <1>6, <1>7, <1>8, <1>9, <1>10, <1>11,
         <1>12, <1>13, <1>14 DEF Talking

LEMMA BringupStep == [BringupNext]_bringupVars => [Next]_vars
<1> SUFFICES ASSUME [BringupNext]_bringupVars PROVE Next \/ UNCHANGED vars
  OBVIOUS
<1>1. CASE Elsewhere
  BY <1>1 DEF Elsewhere, Next, Opening, Closing
<1>2. CASE EnterTalk
  BY <1>2 DEF EnterTalk, Next, Opening
<1>3. CASE EndSession
  BY <1>3 DEF EndSession, Next, Closing
<1>4. CASE ForgetAll
  BY <1>4 DEF ForgetAll, Next, Closing
<1>5. CASE Talking
  BY <1>5, TalkingStep
<1>6. CASE Break
  BY <1>6, GivingUpIsAStep DEF Break
<1>7. CASE ReceiveFlight
  BY <1>7 DEF ReceiveFlight
<1>8. CASE SensorHandles
  BY <1>8 DEF SensorHandles
<1>9. CASE PowerCycle
  BY <1>9 DEF PowerCycle, Next
<1>10. CASE Rest
  BY <1>10 DEF Rest, Next
<1>11. CASE UNCHANGED bringupVars
  BY <1>11 DEF bringupVars
<1> QED
  BY <1>1, <1>2, <1>3, <1>4, <1>5, <1>6, <1>7, <1>8, <1>9, <1>10, <1>11
     DEF BringupNext

(***************************************************************************)
(* Command by command, with every answer of the sensor and every flight of *)
(* the handshake, an open does what Device says of it in three steps.      *)
(***************************************************************************)
THEOREM ImplementsDevice == BringupSpec => Spec
<1>1. BringupInit => Init
  BY DEF BringupInit
<1>2. [BringupNext]_bringupVars => [Next]_vars
  BY BringupStep
<1> QED
  BY <1>1, <1>2, PTL DEF BringupSpec, Spec

(***************************************************************************)
(* So whatever goes wrong in the bring-up, the resources and the kernel's  *)
(* drivers are where they belong, and given up in their order.             *)
(***************************************************************************)
THEOREM BringupLeavesNothing == BringupSpec => [](ResourcesAreSafe /\ DriversReturned)
BY ImplementsDevice, HoldsAllOrNothing, GivesDriversBack, PTL
-----------------------------------------------------------------------------
(***************************************************************************)
(* The agreement of driver and sensor.                                     *)
(*                                                                         *)
(* What is under way: types.                                               *)
(***************************************************************************)
Replies  == [kind : {"parts", "finished", "alert"}, conn : Nat, server : Nat]
Messages == [kind : {"init"}, conn : Nat] \cup Replies
Flights  == [kind : {"hello"}, conn : Nat]
              \cup [kind : {"key"}, conn : Nat, server : Nat, fits : BOOLEAN]
Servers  == [seen : {"none", "hello", "key", "failed"}, conn : Nat]
Clients  == [seen : {"none", "init", "parts", "connected"}, conn : Nat]

WayType ==
    /\ toSensor \in Seq(Messages)
    /\ pending \in Seq(Replies)
    /\ toHost \in Seq(Flights)
    /\ fifo \in Seq(Flights)
    /\ input \in Seq(Flights)
    /\ server \in Servers
    /\ client \in Clients
    /\ started \in Nat

(***************************************************************************)
(* Where the open is: the commands of each of the three steps.             *)
(***************************************************************************)
Exchanging == {"shake", "flush", "wait"}

Shaken == {"refused", "established", "poll"}

Handshaking == {"clear", "init"} \cup Exchanging \cup Shaken

Commands(here) ==
    CASE here = "preflight" -> {"first", "idle", "chip"}
      [] here = "sensor"    -> {"otp", "prepare", "upload"}
      [] here = "handshake" -> Handshaking
      [] OTHER              -> {"none"}

(***************************************************************************)
(* OpenSSL's side is fresh whenever a handshake begins, and is kept while  *)
(* the device is open.                                                     *)
(***************************************************************************)
PlaceInv ==
    /\ at \in Commands(step)
    /\ server # NewServer \/ pending # <<>> =>
         at \in Exchanging \cup Shaken \/ step \in {"rest"} \cup CloseSteps
    /\ step = "rest" /\ state = "CLOSED" => server = NewServer
    /\ pending # <<>> => at \in {"shake", "flush"} \/ step \in CloseSteps
    /\ at = "wait" => server.seen \in {"none", "hello"}
    /\ at \in {"established", "poll"} => server.seen = "key"
    /\ at \in Handshaking /\ handle = "live" => loaded = "new"

LEMMA ReplyTyped ==
    ASSUME NEW s \in Servers, s.seen # "none", started \in Nat
    PROVE  /\ Reply(s) \in Replies
           /\ Reply(s).conn = s.conn /\ Reply(s).server = started
           /\ Reply(s).kind = "finished" <=> s.seen = "key"
<1> DEFINE word == CASE s.seen = "hello"  -> "parts"
                     [] s.seen = "key"    -> "finished"
                     [] s.seen = "failed" -> "alert"
<1>1. word \in {"parts", "finished", "alert"} /\ (word = "finished" <=> s.seen = "key")
  BY DEF Servers
<1>2. Reply(s) = [kind |-> word, conn |-> s.conn, server |-> started]
  BY DEF Reply
<1>3. s.conn \in Nat
  BY DEF Servers
<1> HIDE DEF word
<1> QED
  BY <1>1, <1>2, <1>3 DEF Replies

LEMMA TakenTyped ==
    ASSUME NEW s \in Servers, NEW flight \in Flights
    PROVE  /\ Taken(s, flight) \in Servers
           /\ Taken(s, flight).seen # "none"
           /\ Taken(s, flight).conn \in {s.conn, flight.conn}
           /\ Taken(s, flight).seen = "key" =>
                /\ Taken(s, flight).conn = s.conn /\ s.seen = "hello"
                /\ flight.kind = "key" /\ flight.fits
                /\ flight.conn = s.conn /\ flight.server = started
<1>1. flight.conn \in Nat
  BY DEF Flights
<1>2. CASE s.seen = "none" /\ flight.kind = "hello"
  BY <1>1, <1>2 DEF Taken, Servers
<1>3. CASE /\ s.seen = "hello"
           /\ flight.kind = "key" /\ flight.fits
           /\ flight.conn = s.conn /\ flight.server = started
  BY <1>3 DEF Taken, Servers
<1>4. CASE /\ ~(s.seen = "none" /\ flight.kind = "hello")
           /\ ~(/\ s.seen = "hello"
                /\ flight.kind = "key" /\ flight.fits
                /\ flight.conn = s.conn /\ flight.server = started)
  <2>1. Taken(s, flight) = [s EXCEPT !.seen = "failed"]
    BY <1>4 DEF Taken
  <2> QED
    BY <2>1 DEF Servers
<1> QED
  BY <1>2, <1>3, <1>4

LEMMA WayTypeStep ==
    ASSUME WayType, [BringupNext]_bringupVars PROVE WayType'
<1> USE DEF WayType
<1>1. CASE Elsewhere
  BY <1>1 DEF Elsewhere, tlsVars, wayVars, sensorVars
<1>2. CASE EnterTalk
  BY <1>2, EmptySeq DEF EnterTalk, wayVars
<1>3. CASE EndSession
  BY <1>3, EmptySeq DEF EndSession, wayVars, sensorVars
<1>4. CASE ForgetAll
  <2>1. NewServer \in Servers
    BY DEF NewServer, Servers
  <2> QED
    BY <1>4, <2>1, EmptySeq DEF ForgetAll, wayVars, sensorVars
<1>5. CASE PowerCycle
  <2>1. Idle \in Clients
    BY DEF Idle, Clients
  <2> QED
    BY <1>5, <2>1, EmptySeq DEF PowerCycle, tlsVars
<1>6. CASE UNCHANGED <<tlsVars, toSensor, toHost, client, started>>
  BY <1>6 DEF tlsVars
<1>7. CASE AskFirst \/ PutToIdle \/ CheckChip \/ ReadOtp \/ PrepareConfig
  BY <1>6, <1>7
     DEF AskFirst, PutToIdle, CheckChip, ReadOtp, PrepareConfig, wayVars, sensorVars
<1>8. CASE Upload
  BY <1>6, <1>8 DEF Upload, wayVars
<1>9. CASE ClearTls
  BY <1>9, EmptySeq DEF ClearTls, wayVars, sensorVars
<1>10. CASE SendInit
  <2>1. started' \in Nat /\ [kind |-> "init", conn |-> started'] \in Messages
    BY <1>10 DEF SendInit, Messages
  <2>2. toSensor' \in Seq(Messages)
    BY <1>10, <2>1, AppendProperties DEF SendInit
  <2> QED
    BY <1>10, <2>1, <2>2 DEF SendInit, tlsVars, sensorVars
<1>11. CASE TakeFlight
  <2>1. Head(input) \in Flights /\ Tail(input) \in Seq(Flights)
    BY <1>11, HeadTailProperties DEF TakeFlight
  <2>2. server' \in Servers /\ server'.seen # "none"
    BY <1>11, <2>1, TakenTyped DEF TakeFlight
  <2>3. pending' \in Seq(Replies)
    BY <1>11, <2>2, ReplyTyped, AppendProperties DEF TakeFlight
  <2> QED
    BY <1>11, <2>1, <2>2, <2>3 DEF TakeFlight, wayVars, sensorVars
<1>12. CASE ReturnFromShake
  BY <1>6, <1>12 DEF ReturnFromShake, wayVars, sensorVars
<1>13. CASE Flush
  <2>1. pending \in Seq(Messages)
    <3>1. /\ pending \in [1..Len(pending) -> Replies] /\ Len(pending) \in Nat
      BY LenProperties
    <3>2. pending \in [1..Len(pending) -> Messages]
      BY <3>1 DEF Messages
    <3> QED
      BY <3>1, <3>2, IsASeq
  <2>2. toSensor' \in Seq(Messages)
    BY <1>13, <2>1, ConcatProperties DEF Flush
  <2> QED
    BY <1>13, <2>2, EmptySeq DEF Flush, sensorVars
<1>14. CASE ReadFlights
  BY <1>14, EmptySeq DEF ReadFlights, wayVars, sensorVars
<1>15. CASE Establish \/ PollAgain \/ BecomeActive \/ Break
  BY <1>6, <1>15 DEF Establish, PollAgain, BecomeActive, Break, wayVars, sensorVars
<1>16. CASE ReceiveFlight
  <2>1. Head(toHost) \in Flights /\ Tail(toHost) \in Seq(Flights)
    BY <1>16, HeadTailProperties DEF ReceiveFlight
  <2>2. Append(fifo, Head(toHost)) \in Seq(Flights)
    BY <2>1, AppendProperties
  <2> QED
    BY <1>16, <2>1, <2>2 DEF ReceiveFlight, sensorVars
<1>17. CASE SensorHandles
  <2> DEFINE message == Head(toSensor)
  <2>1. message \in Messages /\ Tail(toSensor) \in Seq(Messages)
    BY <1>17, HeadTailProperties DEF SensorHandles
  <2>2. message.conn \in Nat /\ (message.kind # "init" => message.server \in Nat)
    BY <2>1 DEF Messages, Replies
  <2>3. Append(toHost, Hello(message.conn)) \in Seq(Flights)
    <3>1. Hello(message.conn) \in Flights
      BY <2>2 DEF Hello, Flights
    <3> QED
      BY <3>1, AppendProperties
  <2>4. ASSUME NEW ours \in BOOLEAN, message.kind # "init"
        PROVE  Append(toHost, Key(message, ours)) \in Seq(Flights)
    <3>1. Key(message, ours) \in Flights
      BY <2>2, <2>4 DEF Key, Flights, Clients
    <3> QED
      BY <3>1, AppendProperties
  <2>5. toHost' \in Seq(Flights)
    BY <1>17, <2>3, <2>4 DEF SensorHandles
  <2>6. client' \in Clients
    BY <1>17, <2>2 DEF SensorHandles, Clients, Idle
  <2> QED
    BY <1>17, <2>1, <2>5, <2>6 DEF SensorHandles, tlsVars
<1>18. CASE Rest \/ UNCHANGED bringupVars
  BY <1>6, <1>18 DEF Rest, bringupVars, wayVars, sensorVars
<1> QED
  BY <1>1, <1>2, <1>3, <1>4, <1>5, <1>7, <1>8, <1>9, <1>10, <1>11, <1>12,
     <1>13, <1>14, <1>15, <1>16, <1>17, <1>18
     DEF BringupNext, Talking

(***************************************************************************)
(* What the steps outside the three do to the place of the open.           *)
(***************************************************************************)
LEMMA ElsewherePlace ==
    ASSUME Elsewhere, TypeOK
    PROVE  /\ step \notin {"session", "preflight", "sensor", "handshake"}
           /\ step' \notin {"preflight", "sensor", "handshake"}
           /\ step \in CloseSteps => step' \in CloseSteps
           /\ step = "rest" => step' \in {"rest"} \cup CloseSteps \/ state = "CLOSED"
           /\ step' = "rest" => step = "rest" /\ state' = state
           /\ state' = "ACTIVE" => state = "ACTIVE" /\ handle' \in {handle, "none"}
<1>1. CASE Open \/ Close
  BY <1>1 DEF Open, Close, FirstCloseStep, CloseSteps, usbVars
<1>2. CASE ReadKey \/ InitTls \/ OpenUsb
  BY <1>2 DEF ReadKey, InitTls, OpenUsb, Go, Fail, FirstCloseStep, CloseSteps, usbVars
<1>3. CASE ValidateLayout \/ SetAutoDetach \/ Detach
  BY <1>3 DEF ValidateLayout, SetAutoDetach, Detach, NextInterface, Go, Fail,
              FirstCloseStep, CloseSteps, usbVars
<1>4. CASE Claim
  BY <1>4 DEF Claim, NextInterface, Go, Fail, FirstCloseStep, CloseSteps, usbVars
<1>5. CASE Release \/ Reattach \/ CloseUsb
  BY <1>5 DEF Release, Reattach, CloseUsb, Go, CloseSteps
<1> QED
  BY <1>1, <1>2, <1>3, <1>4, <1>5 DEF Elsewhere

(***************************************************************************)
(* Giving up leads to the close.                                           *)
(***************************************************************************)
LEMMA GiveUpPlace ==
    ASSUME GiveUp
    PROVE  /\ step \in {"preflight", "sensor", "handshake"}
           /\ step' = "stop" /\ state' = "ERROR" /\ handle' = handle
           /\ at' = "none"
BY DEF GiveUp, Preflight, InitializeSensor, ConnectTls, Talk, Fail,
       FirstCloseStep, usbVars

LEMMA PlaceStep ==
    ASSUME TypeOK, HoldInv, WayType, PlaceInv, [BringupNext]_bringupVars
    PROVE  PlaceInv'
<1> USE DEF PlaceInv, Commands, Exchanging, Shaken, Handshaking, CloseSteps
<1>1. CASE Elsewhere
  <2>1. UNCHANGED <<at, server, pending, loaded>>
    BY <1>1 DEF Elsewhere, openVars, tlsVars, sensorVars
  <2> QED
    BY <1>1, <2>1, ElsewherePlace
<1>2. CASE EnterTalk
  <2>1. step = "session" /\ step' \in {"preflight", "stop"}
    BY <1>2 DEF EnterTalk, StartSession, Go, Fail, FirstCloseStep
  <2> QED
    BY <1>2, <2>1 DEF EnterTalk
<1>3. CASE EndSession
  BY <1>3 DEF EndSession, StopSession, Go, openVars, sensorVars, usbVars
<1>4. CASE ForgetAll
  BY <1>4 DEF ForgetAll, CleanUp, Go, openVars, sensorVars, usbVars, NewServer
<1>5. CASE PowerCycle
  BY <1>5 DEF PowerCycle, Replug, openVars, tlsVars
<1>6. CASE AskFirst \/ PutToIdle \/ ReadOtp
  BY <1>6 DEF AskFirst, PutToIdle, ReadOtp, Proceed, tlsVars, sensorVars, vars
<1>7. CASE CheckChip
  BY <1>7 DEF CheckChip, Preflight, Talk, Fail, FirstCloseStep, tlsVars, sensorVars
<1>8. CASE GiveUp /\ UNCHANGED tlsVars
  BY <1>8, GiveUpPlace DEF tlsVars
<1>9. CASE PrepareConfig
  BY <1>8, <1>9 DEF PrepareConfig, tlsVars, sensorVars, vars
<1>10. CASE Upload
  <2>1. CASE InitializeSensor /\ step' = "handshake" /\ at' = "clear"
    BY <1>10, <2>1 DEF Upload, InitializeSensor, Talk, tlsVars
  <2> QED
    BY <1>8, <1>10, <2>1 DEF Upload, Following
<1>11. CASE ClearTls
  BY <1>11 DEF ClearTls, Following, sensorVars, vars, usbVars
<1>12. CASE SendInit
  BY <1>12 DEF SendInit, Proceed, Following, tlsVars, sensorVars, vars, usbVars
<1>13. CASE TakeFlight
  BY <1>13 DEF TakeFlight, openVars, sensorVars, vars, usbVars
<1>14. CASE ReturnFromShake
  BY <1>14 DEF ReturnFromShake, tlsVars, sensorVars, vars, usbVars
<1>15. CASE Flush
  BY <1>15 DEF Flush, Proceed, Afterwards, sensorVars, vars, usbVars, WayType, Servers
<1>16. CASE ReadFlights
  BY <1>16 DEF ReadFlights, sensorVars, vars, usbVars
<1>17. CASE Establish \/ PollAgain
  BY <1>17 DEF Establish, PollAgain, Proceed, tlsVars, sensorVars, vars, usbVars
<1>18. CASE BecomeActive
  BY <1>18 DEF BecomeActive, ConnectTls, Talk, Fail, FirstCloseStep, tlsVars, sensorVars
<1>19. CASE Break
  BY <1>8, <1>19 DEF Break
<1>20. CASE ReceiveFlight
  BY <1>20 DEF ReceiveFlight, openVars, sensorVars, vars, usbVars
<1>21. CASE SensorHandles
  BY <1>21 DEF SensorHandles, openVars, tlsVars, vars, usbVars
<1>22. CASE Rest \/ UNCHANGED bringupVars
  BY <1>22 DEF Rest, bringupVars, openVars, tlsVars, sensorVars, vars, usbVars
<1> QED
  BY <1>1, <1>2, <1>3, <1>4, <1>5, <1>6, <1>7, <1>9, <1>10, <1>11, <1>12,
     <1>13, <1>14, <1>15, <1>16, <1>17, <1>18, <1>19, <1>20, <1>21, <1>22
     DEF BringupNext, Talking

(***************************************************************************)
(* The mail: everything written for the sensor, sent or not.  What was     *)
(* written in the latest connection comes after the D/0 that started it.   *)
(***************************************************************************)
Mail == toSensor \o pending

MailFits(q, n) ==
    \A i \in DOMAIN q : q[i].kind # "init" =>
        /\ q[i].conn <= q[i].server /\ q[i].server <= n
        /\ q[i].server = n => \A k \in DOMAIN q : k > i => q[k].kind # "init"

Finishes(message, n) == message.kind = "finished" /\ message.server = n

FinishesLast(q, n) == \A i \in DOMAIN q : Finishes(q[i], n) => i = Len(q)

FinishesNot(q, n) == \A i \in DOMAIN q : ~Finishes(q[i], n)

NoInit == \A i \in DOMAIN toSensor : toSensor[i].kind # "init"

(***************************************************************************)
(* Of the D/0s that are under way the last one is that of the latest       *)
(* connection; without any, the sensor is in that connection, or in none.  *)
(***************************************************************************)
InitsFit(q, n) ==
    \A i \in DOMAIN q : q[i].kind = "init" =>
        /\ q[i].conn <= n
        /\ q[i].conn # n =>
             \E k \in DOMAIN q : k > i /\ q[k].kind = "init" /\ q[k].conn = n

MailInv ==
    /\ MailFits(Mail, started)
    /\ InitsFit(toSensor, started)
    /\ client.conn <= started
    /\ NoInit => client.conn = started \/ client = Idle

(***************************************************************************)
(* A key that fits was made after the latest D/0 was handled, and in its   *)
(* connection.                                                             *)
(***************************************************************************)
Fitting(flight, n) == flight.kind = "key" /\ flight.fits /\ flight.server = n

FlightFits(flight, n) ==
    /\ flight.conn <= n
    /\ flight.kind = "key" => flight.server <= n
    /\ Fitting(flight, n) => flight.conn = n

FlightsFit(q, n) == \A i \in DOMAIN q : FlightFits(q[i], n)

HasKey(q, n) == \E i \in DOMAIN q : Fitting(q[i], n)

KeyMade ==
    \/ HasKey(toHost, started) \/ HasKey(fifo, started) \/ HasKey(input, started)
    \/ server.seen = "key"

FlightInv ==
    /\ FlightsFit(toHost, started)
    /\ FlightsFit(fifo, started)
    /\ FlightsFit(input, started)
    /\ server.conn <= started
    /\ server.seen = "key" => server.conn = started
    /\ KeyMade => NoInit

LEMMA MessageRange ==
    ASSUME NEW q \in Seq(Messages)
    PROVE  /\ Len(q) \in Nat /\ DOMAIN q = 1..Len(q)
           /\ \A i \in DOMAIN q :
                /\ q[i] \in Messages /\ q[i].conn \in Nat
                /\ q[i].kind # "init" => q[i].server \in Nat
<1>1. Len(q) \in Nat /\ DOMAIN q = 1..Len(q)
  BY LenProperties
<1>2. \A i \in DOMAIN q : q[i] \in Messages
  BY <1>1, ElementOfSeq
<1> QED
  BY <1>1, <1>2 DEF Messages, Replies

LEMMA RepliesAreMessages == Seq(Replies) \subseteq Seq(Messages)
<1> SUFFICES ASSUME NEW q \in Seq(Replies) PROVE q \in Seq(Messages)
  OBVIOUS
<1>1. q \in [1..Len(q) -> Replies] /\ Len(q) \in Nat
  BY LenProperties
<1>2. q \in [1..Len(q) -> Messages]
  BY <1>1 DEF Messages
<1> QED
  BY <1>1, <1>2, IsASeq

LEMMA MailRange ==
    ASSUME WayType
    PROVE  /\ Mail \in Seq(Messages) /\ pending \in Seq(Messages)
           /\ Len(toSensor) \in Nat /\ Len(pending) \in Nat
           /\ DOMAIN toSensor = 1..Len(toSensor)
           /\ DOMAIN pending = 1..Len(pending)
           /\ Len(Mail) = Len(toSensor) + Len(pending)
           /\ DOMAIN Mail = 1..(Len(toSensor) + Len(pending))
           /\ \A i \in DOMAIN toSensor : i \in DOMAIN Mail /\ Mail[i] = toSensor[i]
           /\ \A i \in DOMAIN pending : /\ Len(toSensor) + i \in DOMAIN Mail
                                        /\ Mail[Len(toSensor) + i] = pending[i]
                                        /\ pending[i].kind # "init"
<1>1. pending \in Seq(Messages) /\ toSensor \in Seq(Messages)
  BY RepliesAreMessages DEF WayType
<1>2. /\ Mail \in Seq(Messages)
      /\ Len(Mail) = Len(toSensor) + Len(pending)
      /\ \A i \in 1..(Len(toSensor) + Len(pending)) :
            Mail[i] = IF i <= Len(toSensor) THEN toSensor[i]
                                           ELSE pending[i - Len(toSensor)]
  BY <1>1, ConcatProperties DEF Mail
<1>3. /\ Len(toSensor) \in Nat /\ Len(pending) \in Nat
      /\ DOMAIN toSensor = 1..Len(toSensor)
      /\ DOMAIN pending = 1..Len(pending)
      /\ DOMAIN Mail = 1..(Len(toSensor) + Len(pending))
  BY <1>1, <1>2, LenProperties
<1>4. \A i \in DOMAIN toSensor : i \in DOMAIN Mail /\ Mail[i] = toSensor[i]
  BY <1>2, <1>3
<1>5. ASSUME NEW i \in DOMAIN pending
      PROVE  /\ Len(toSensor) + i \in DOMAIN Mail
             /\ Mail[Len(toSensor) + i] = pending[i]
             /\ pending[i].kind # "init"
  <2>1. /\ Len(toSensor) + i \in 1..(Len(toSensor) + Len(pending))
        /\ ~(Len(toSensor) + i <= Len(toSensor))
        /\ (Len(toSensor) + i) - Len(toSensor) = i
    BY <1>3
  <2>2. pending[i] \in Replies
    BY <1>3, ElementOfSeq DEF WayType
  <2> QED
    BY <1>2, <1>3, <2>1, <2>2 DEF Replies
<1> QED
  BY <1>1, <1>2, <1>3, <1>4, <1>5

(***************************************************************************)
(* A part of the mail fits if the whole does.                              *)
(***************************************************************************)
PartFrom(r, q, d) == \A i \in DOMAIN r : d + i \in DOMAIN q /\ r[i] = q[d + i]

LEMMA PartFits ==
    ASSUME NEW q \in Seq(Messages), NEW r \in Seq(Messages), NEW n, NEW d \in Nat,
           PartFrom(r, q, d)
    PROVE  /\ MailFits(q, n) => MailFits(r, n)
           /\ FinishesNot(q, n) => FinishesNot(r, n)
           /\ FinishesLast(q, n) /\ d + Len(r) = Len(q) => FinishesLast(r, n)
<1> USE DEF PartFrom
<1>1. /\ Len(r) \in Nat /\ DOMAIN r = 1..Len(r)
      /\ Len(q) \in Nat /\ DOMAIN q = 1..Len(q)
  BY LenProperties
<1>2. \A i, k \in DOMAIN r : k > i => d + k > d + i
  BY <1>1
<1>3. MailFits(q, n) => MailFits(r, n)
  BY <1>2 DEF MailFits
<1>4. FinishesNot(q, n) => FinishesNot(r, n)
  BY DEF FinishesNot
<1>5. ASSUME FinishesLast(q, n), d + Len(r) = Len(q), NEW i \in DOMAIN r,
             Finishes(r[i], n)
      PROVE  i = Len(r)
  <2>1. d + i = Len(q)
    BY <1>5 DEF FinishesLast
  <2> QED
    BY <1>1, <1>5, <2>1
<1> QED
  BY <1>3, <1>4, <1>5 DEF FinishesLast

(***************************************************************************)
(* A message is written.                                                   *)
(***************************************************************************)
LEMMA AppendRange ==
    ASSUME NEW q \in Seq(Messages), NEW m \in Messages
    PROVE  /\ Append(q, m) \in Seq(Messages) /\ Append(q, m) # <<>>
           /\ Len(q) \in Nat /\ Len(Append(q, m)) = Len(q) + 1
           /\ DOMAIN q = 1..Len(q)
           /\ DOMAIN Append(q, m) = 1..(Len(q) + 1)
           /\ \A i \in DOMAIN q : Append(q, m)[i] = q[i]
           /\ Append(q, m)[Len(q) + 1] = m
BY AppendProperties, LenProperties

LEMMA InitFits ==
    ASSUME NEW q \in Seq(Messages), NEW n \in Nat,
           MailFits(q, n), InitsFit(q, n)
    PROVE  LET m == [kind |-> "init", conn |-> n + 1]
           IN  MailFits(Append(q, m), n + 1) /\ InitsFit(Append(q, m), n + 1)
<1> DEFINE m == [kind |-> "init", conn |-> n + 1]
           r == Append(q, m)
<1>1. m \in Messages /\ m.kind = "init" /\ m.conn = n + 1
  BY DEF Messages
<1> HIDE DEF m
<1>2. /\ r \in Seq(Messages) /\ Len(q) \in Nat
      /\ DOMAIN q = 1..Len(q) /\ DOMAIN r = 1..(Len(q) + 1)
      /\ \A i \in DOMAIN q : r[i] = q[i]
      /\ r[Len(q) + 1] = m
  BY <1>1, AppendRange
<1> HIDE DEF r
<1>3. ASSUME NEW i \in DOMAIN r, r[i].kind # "init"
      PROVE  r[i].conn <= r[i].server /\ r[i].server <= n + 1 /\ r[i].server # n + 1
  <2>1. i \in DOMAIN q
    BY <1>1, <1>2, <1>3
  <2>2. q[i].conn <= q[i].server /\ q[i].server <= n /\ q[i].server \in Nat
    BY <1>2, <1>3, <2>1, MessageRange DEF MailFits
  <2> QED
    BY <1>2, <2>1, <2>2
<1>4. ASSUME NEW i \in DOMAIN r, r[i].kind = "init"
      PROVE  /\ r[i].conn <= n + 1
             /\ r[i].conn # n + 1 =>
                  \E k \in DOMAIN r : k > i /\ r[k].kind = "init" /\ r[k].conn = n + 1
  <2>1. CASE i = Len(q) + 1
    BY <1>1, <1>2, <2>1
  <2>2. CASE i \in DOMAIN q
    <3>1. r[i].conn <= n /\ r[i].conn \in Nat
      BY <1>2, <1>4, <2>2, MessageRange DEF InitsFit
    <3>2. Len(q) + 1 \in DOMAIN r /\ Len(q) + 1 > i
      BY <1>2, <2>2
    <3> QED
      BY <1>1, <1>2, <3>1, <3>2
  <2> QED
    BY <1>2, <2>1, <2>2
<1> QED
  BY <1>3, <1>4 DEF MailFits, InitsFit, r, m

LEMMA ReplyFits ==
    ASSUME NEW q \in Seq(Messages), NEW n \in Nat, NEW m \in Replies,
           m.server = n, m.conn <= n
    PROVE  /\ MailFits(q, n) => MailFits(Append(q, m), n)
           /\ FinishesNot(q, n) => FinishesLast(Append(q, m), n)
           /\ FinishesNot(q, n) /\ m.kind # "finished" => FinishesNot(Append(q, m), n)
<1> DEFINE r == Append(q, m)
<1>1. m \in Messages /\ m.kind # "init"
  BY DEF Messages, Replies
<1>2. /\ r \in Seq(Messages) /\ Len(q) \in Nat /\ Len(r) = Len(q) + 1
      /\ DOMAIN q = 1..Len(q) /\ DOMAIN r = 1..(Len(q) + 1)
      /\ \A i \in DOMAIN q : r[i] = q[i]
      /\ r[Len(q) + 1] = m
  BY <1>1, AppendRange
<1> HIDE DEF r
<1>3. ASSUME MailFits(q, n), NEW i \in DOMAIN r, r[i].kind # "init"
      PROVE  /\ r[i].conn <= r[i].server /\ r[i].server <= n
             /\ r[i].server = n => \A k \in DOMAIN r : k > i => r[k].kind # "init"
  <2>1. CASE i = Len(q) + 1
    BY <1>1, <1>2, <2>1
  <2>2. CASE i \in DOMAIN q
    <3>1. r[i].conn <= r[i].server /\ r[i].server <= n
      BY <1>2, <1>3, <2>2 DEF MailFits
    <3>2. ASSUME r[i].server = n, NEW k \in DOMAIN r, k > i
          PROVE  r[k].kind # "init"
      <4>1. CASE k = Len(q) + 1
        BY <1>1, <1>2, <4>1
      <4>2. CASE k \in DOMAIN q
        BY <1>2, <1>3, <2>2, <3>2, <4>2 DEF MailFits
      <4> QED
        BY <1>2, <4>1, <4>2
    <3> QED
      BY <3>1, <3>2
  <2> QED
    BY <1>2, <2>1, <2>2
<1>4. FinishesNot(q, n) => FinishesLast(r, n)
  BY <1>2 DEF FinishesNot, FinishesLast
<1>5. FinishesNot(q, n) /\ m.kind # "finished" => FinishesNot(r, n)
  BY <1>2 DEF FinishesNot, Finishes
<1> QED
  BY <1>3, <1>4, <1>5 DEF MailFits, r

(***************************************************************************)
(* How the mail changes.                                                   *)
(***************************************************************************)
LEMMA ConcatRange ==
    ASSUME NEW a \in Seq(Messages), NEW b \in Seq(Messages)
    PROVE  /\ a \o b \in Seq(Messages)
           /\ Len(a) \in Nat /\ Len(b) \in Nat /\ Len(a \o b) = Len(a) + Len(b)
           /\ DOMAIN a = 1..Len(a) /\ DOMAIN b = 1..Len(b)
           /\ DOMAIN (a \o b) = 1..(Len(a) + Len(b))
           /\ \A i \in 1..(Len(a) + Len(b)) :
                 (a \o b)[i] = IF i <= Len(a) THEN a[i] ELSE b[i - Len(a)]
BY ConcatProperties, LenProperties

LEMMA HandledMail ==
    ASSUME WayType, SensorHandles
    PROVE  /\ 1 \in DOMAIN Mail /\ 1 \in DOMAIN toSensor
           /\ Head(toSensor) = Mail[1] /\ Head(toSensor) = toSensor[1]
           /\ Head(toSensor) \in Messages
           /\ toSensor' \in Seq(Messages) /\ Mail' \in Seq(Messages)
           /\ PartFrom(toSensor', toSensor, 1)
           /\ \A k \in DOMAIN toSensor : k > 1 =>
                 k - 1 \in DOMAIN toSensor' /\ toSensor'[k - 1] = toSensor[k]
           /\ PartFrom(Mail', Mail, 1) /\ 1 + Len(Mail') = Len(Mail)
<1> DEFINE r == Tail(toSensor)
<1>1. /\ toSensor # <<>> /\ toSensor \in Seq(Messages) /\ pending \in Seq(Messages)
      /\ toSensor' = r /\ pending' = pending
  BY RepliesAreMessages DEF SensorHandles, WayType, tlsVars
<1>2. /\ r \in Seq(Messages) /\ Len(r) = Len(toSensor) - 1
      /\ \A i \in 1..Len(r) : r[i] = toSensor[i + 1]
      /\ Head(toSensor) \in Messages /\ Head(toSensor) = toSensor[1]
  BY <1>1, HeadTailProperties
<1> HIDE DEF r
<1>3. /\ Len(toSensor) \in Nat /\ Len(toSensor) # 0 /\ DOMAIN toSensor = 1..Len(toSensor)
      /\ Len(r) \in Nat /\ DOMAIN r = 1..Len(r) /\ Len(pending) \in Nat
  BY <1>1, <1>2, LenProperties, EmptySeq
<1>4. PartFrom(r, toSensor, 1)
  BY <1>2, <1>3 DEF PartFrom
<1>5. \A k \in DOMAIN toSensor : k > 1 => k - 1 \in DOMAIN r /\ r[k - 1] = toSensor[k]
  <2> SUFFICES ASSUME NEW k \in DOMAIN toSensor, k > 1
               PROVE  k - 1 \in DOMAIN r /\ r[k - 1] = toSensor[k]
    OBVIOUS
  <2>1. k - 1 \in 1..Len(r) /\ (k - 1) + 1 = k
    BY <1>2, <1>3
  <2> QED
    BY <1>2, <1>3, <2>1
<1>6. /\ r \o pending \in Seq(Messages)
      /\ 1 + Len(r \o pending) = Len(Mail)
      /\ PartFrom(r \o pending, Mail, 1)
  <2>1. /\ r \o pending \in Seq(Messages)
        /\ Len(r \o pending) = Len(r) + Len(pending)
        /\ DOMAIN (r \o pending) = 1..(Len(r) + Len(pending))
        /\ \A i \in 1..(Len(r) + Len(pending)) :
             (r \o pending)[i] = IF i <= Len(r) THEN r[i] ELSE pending[i - Len(r)]
    BY <1>1, <1>2, ConcatRange
  <2>2. /\ Len(Mail) = Len(toSensor) + Len(pending)
        /\ DOMAIN Mail = 1..(Len(toSensor) + Len(pending))
        /\ \A i \in 1..(Len(toSensor) + Len(pending)) :
             Mail[i] = IF i <= Len(toSensor) THEN toSensor[i]
                                             ELSE pending[i - Len(toSensor)]
    BY <1>1, ConcatRange DEF Mail
  <2>3. ASSUME NEW i \in 1..(Len(r) + Len(pending))
        PROVE  1 + i \in DOMAIN Mail /\ (r \o pending)[i] = Mail[1 + i]
    <3>1. 1 + i \in 1..(Len(toSensor) + Len(pending))
      BY <1>2, <1>3
    <3>2. CASE i <= Len(r)
      BY <1>2, <1>3, <2>1, <2>2, <3>1, <3>2
    <3>3. CASE ~(i <= Len(r))
      <4>1. ~(1 + i <= Len(toSensor)) /\ (1 + i) - Len(toSensor) = i - Len(r)
        BY <1>2, <1>3, <3>3
      <4> QED
        BY <2>1, <2>2, <3>1, <3>3, <4>1
    <3> QED
      BY <3>2, <3>3
  <2> QED
    BY <1>2, <1>3, <2>1, <2>2, <2>3 DEF PartFrom
<1>7. Mail' = r \o pending
  BY <1>1 DEF Mail
<1>8. 1 \in DOMAIN Mail /\ Mail[1] = toSensor[1] /\ 1 \in DOMAIN toSensor
  BY <1>3, MailRange
<1> QED
  BY <1>1, <1>2, <1>4, <1>5, <1>6, <1>7, <1>8

LEMMA ForgottenMail ==
    ASSUME WayType, ForgetAll
    PROVE  Mail' \in Seq(Messages) /\ PartFrom(Mail', Mail, 0)
<1>1. Mail' = toSensor /\ toSensor \in Seq(Messages)
  BY ConcatEmptySeq DEF ForgetAll, wayVars, Mail, WayType
<1>2. \A i \in DOMAIN toSensor : 0 + i \in DOMAIN Mail /\ toSensor[i] = Mail[0 + i]
  BY MailRange
<1> QED
  BY <1>1, <1>2 DEF PartFrom

LEMMA CycledMail ==
    ASSUME WayType, PowerCycle
    PROVE  /\ Mail' \in Seq(Messages) /\ PartFrom(Mail', Mail, Len(toSensor))
           /\ Len(toSensor) \in Nat /\ Len(toSensor) + Len(Mail') = Len(Mail)
<1>1. Mail' = pending /\ pending \in Seq(Messages)
  <2>1. pending' = pending /\ toSensor' = <<>>
    BY DEF PowerCycle, tlsVars
  <2>2. pending \in Seq(Messages)
    BY MailRange
  <2> QED
    BY <2>1, <2>2, ConcatEmptySeq DEF Mail
<1> QED
  BY <1>1, MailRange DEF PartFrom

LEMMA TakenMail ==
    ASSUME WayType, TakeFlight
    PROVE  /\ server' \in Servers /\ server'.seen # "none"
           /\ Reply(server') \in Replies
           /\ Reply(server').server = started /\ Reply(server').conn = server'.conn
           /\ Reply(server').kind = "finished" <=> server'.seen = "key"
           /\ Mail' = Append(Mail, Reply(server'))
<1>1. Head(input) \in Flights
  BY HeadTailProperties DEF TakeFlight, WayType
<1>2. server' \in Servers /\ server'.seen # "none"
  BY <1>1, TakenTyped DEF TakeFlight, WayType
<1>3. /\ Reply(server') \in Replies
      /\ Reply(server').conn = server'.conn /\ Reply(server').server = started
      /\ Reply(server').kind = "finished" <=> server'.seen = "key"
  BY <1>2, ReplyTyped DEF WayType
<1>4. /\ toSensor \in Seq(Messages) /\ pending \in Seq(Messages)
      /\ Reply(server') \in Messages
  BY <1>3, RepliesAreMessages DEF WayType, Messages
<1>5. Mail' = toSensor \o Append(pending, Reply(server'))
  BY DEF TakeFlight, wayVars, Mail
<1>6. toSensor \o Append(pending, Reply(server')) = Append(Mail, Reply(server'))
  <2> DEFINE m == Reply(server')
  <2>1. <<m>> \in Seq(Messages)
    BY <1>4
  <2>2. Append(pending, m) = pending \o <<m>> /\ Append(Mail, m) = Mail \o <<m>>
    BY <1>4, AppendIsConcat, MailRange
  <2>3. (toSensor \o pending) \o <<m>> = toSensor \o (pending \o <<m>>)
    BY <1>4, <2>1, ConcatAssociative
  <2> QED
    BY <2>2, <2>3 DEF Mail
<1> QED
  BY <1>2, <1>3, <1>5, <1>6

LEMMA FlushedMail ==
    ASSUME WayType, Flush
    PROVE  /\ Mail' = Mail /\ toSensor' = Mail
           /\ \A i \in DOMAIN Mail : Mail[i].kind = "init" =>
                 i \in DOMAIN toSensor /\ toSensor[i] = Mail[i]
<1>1. toSensor' = Mail /\ pending' = <<>>
  BY DEF Flush, Mail
<1>2. Mail' = Mail
  BY <1>1, MailRange, ConcatEmptySeq DEF Mail
<1>3. ASSUME NEW i \in DOMAIN Mail, Mail[i].kind = "init"
      PROVE  i \in DOMAIN toSensor /\ toSensor[i] = Mail[i]
  <2>1. CASE i \in DOMAIN toSensor
    BY <2>1, MailRange
  <2>2. CASE i \notin DOMAIN toSensor
    <3>1. i - Len(toSensor) \in DOMAIN pending /\ Len(toSensor) + (i - Len(toSensor)) = i
      BY <2>2, MailRange
    <3> QED
      BY <1>3, <3>1, MailRange
  <2> QED
    BY <2>1, <2>2
<1> QED
  BY <1>1, <1>2, <1>3

(***************************************************************************)
(* The sensor takes a message.  The last D/0 among those under way is the  *)
(* one of the latest connection, so when it is handled the sensor is in    *)
(* that connection.                                                        *)
(***************************************************************************)
LEMMA HandledMailFits ==
    ASSUME WayType, MailInv, SensorHandles PROVE MailInv'
<1> USE DEF WayType
<1>1. started' = started /\ started \in Nat
  BY DEF SensorHandles
<1>2. MailFits(Mail', started)
  <2>1. /\ Mail \in Seq(Messages) /\ Mail' \in Seq(Messages)
        /\ PartFrom(Mail', Mail, 1) /\ MailFits(Mail, started)
    BY HandledMail, MailRange DEF MailInv
  <2> QED
    BY <2>1, PartFits
<1>3. ASSUME NEW i \in DOMAIN toSensor', toSensor'[i].kind = "init"
      PROVE  /\ toSensor'[i].conn <= started
             /\ toSensor'[i].conn # started =>
                  \E k \in DOMAIN toSensor' :
                     k > i /\ toSensor'[k].kind = "init" /\ toSensor'[k].conn = started
  <2>1. 1 + i \in DOMAIN toSensor /\ toSensor'[i] = toSensor[1 + i] /\ i \in Nat /\ i >= 1
    BY <1>3, HandledMail, LenProperties DEF PartFrom
  <2>2. toSensor[1 + i].conn <= started
    BY <1>3, <2>1 DEF MailInv, InitsFit
  <2>3. ASSUME toSensor[1 + i].conn # started
        PROVE  \E k \in DOMAIN toSensor' :
                  k > i /\ toSensor'[k].kind = "init" /\ toSensor'[k].conn = started
    <3>1. PICK k \in DOMAIN toSensor :
                 k > 1 + i /\ toSensor[k].kind = "init" /\ toSensor[k].conn = started
      BY <1>3, <2>1, <2>3 DEF MailInv, InitsFit
    <3>2. k \in Nat /\ k > 1 /\ k - 1 > i
      BY <2>1, <3>1, MailRange
    <3>3. k - 1 \in DOMAIN toSensor' /\ toSensor'[k - 1] = toSensor[k]
      BY <3>2, HandledMail
    <3> QED
      BY <3>1, <3>2, <3>3
  <2> QED
    BY <2>1, <2>2, <2>3
<1>4. CASE Head(toSensor).kind = "init"
  <2>1. client' = [seen |-> "init", conn |-> toSensor[1].conn]
    BY <1>4, HandledMail DEF SensorHandles, Messages, Replies
  <2>2. toSensor[1].kind = "init" /\ toSensor[1].conn <= started
    BY <1>4, HandledMail DEF MailInv, InitsFit
  <2>3. ASSUME NoInit'
        PROVE  toSensor[1].conn = started
    <3>1. SUFFICES ASSUME toSensor[1].conn # started PROVE FALSE
      OBVIOUS
    <3>2. PICK k \in DOMAIN toSensor : k > 1 /\ toSensor[k].kind = "init"
      BY <2>2, <3>1, HandledMail DEF MailInv, InitsFit
    <3>3. k - 1 \in DOMAIN toSensor' /\ toSensor'[k - 1].kind = "init"
      BY <3>2, HandledMail
    <3> QED
      BY <2>3, <3>3 DEF NoInit
  <2> QED
    BY <1>1, <1>2, <1>3, <2>1, <2>2, <2>3 DEF MailInv, InitsFit
<1>5. CASE Head(toSensor).kind # "init"
  <2>1. client' = Idle \/ (client'.conn = client.conn /\ client # Idle)
    BY <1>5 DEF SensorHandles, Expected, Clients, Idle
  <2>2. ASSUME NoInit'
        PROVE  NoInit
    <3>1. SUFFICES ASSUME NEW k \in DOMAIN toSensor, toSensor[k].kind = "init" PROVE FALSE
      BY DEF NoInit
    <3>2. k # 1 /\ k \in 1..Len(toSensor) /\ Len(toSensor) \in Nat
      BY <1>5, <3>1, HandledMail, MailRange
    <3>3. k > 1
      BY <3>2
    <3>4. k - 1 \in DOMAIN toSensor' /\ toSensor'[k - 1].kind = "init"
      BY <3>1, <3>3, HandledMail
    <3> QED
      BY <2>2, <3>4 DEF NoInit
  <2>3. ASSUME NoInit'
        PROVE  client'.conn = started \/ client' = Idle
    BY <2>1, <2>2, <2>3 DEF MailInv
  <2>4. client'.conn <= started
    BY <1>1, <2>1 DEF MailInv, Idle
  <2> QED
    BY <1>1, <1>2, <1>3, <2>3, <2>4 DEF MailInv, InitsFit
<1> QED
  BY <1>4, <1>5

LEMMA MailStep ==
    ASSUME WayType, PlaceInv, MailInv, FlightInv, [BringupNext]_bringupVars
    PROVE  MailInv'
<1>1. CASE UNCHANGED <<toSensor, pending, client, started>>
  BY <1>1 DEF MailInv, Mail, NoInit
<1>2. CASE Elsewhere \/ EnterTalk \/ EndSession
  BY <1>1, <1>2 DEF Elsewhere, EnterTalk, EndSession, tlsVars, wayVars, sensorVars
<1>3. CASE ForgetAll
  <2>1. MailFits(Mail', started)
    <3>1. /\ Mail \in Seq(Messages) /\ Mail' \in Seq(Messages)
          /\ PartFrom(Mail', Mail, 0) /\ MailFits(Mail, started)
      BY <1>3, ForgottenMail, MailRange DEF MailInv
    <3> QED
      BY <3>1, PartFits
  <2>2. UNCHANGED <<toSensor, client, started>>
    BY <1>3 DEF ForgetAll, wayVars, sensorVars
  <2> QED
    BY <2>1, <2>2 DEF MailInv, NoInit
<1>4. CASE PowerCycle
  <2>1. MailFits(Mail', started)
    <3>1. /\ Mail \in Seq(Messages) /\ Mail' \in Seq(Messages)
          /\ Len(toSensor) \in Nat
          /\ PartFrom(Mail', Mail, Len(toSensor)) /\ MailFits(Mail, started)
      BY <1>4, CycledMail, MailRange DEF MailInv
    <3> QED
      BY <3>1, PartFits
  <2>2. toSensor' = <<>> /\ client' = Idle /\ started' = started /\ started \in Nat
    BY <1>4 DEF PowerCycle, WayType
  <2> QED
    BY <2>1, <2>2, EmptySeq DEF MailInv, InitsFit, Idle
<1>5. CASE AskFirst \/ PutToIdle \/ CheckChip \/ ReadOtp \/ PrepareConfig \/ Upload
  BY <1>1, <1>5 DEF AskFirst, PutToIdle, CheckChip, ReadOtp, PrepareConfig, Upload,
                    tlsVars, wayVars, sensorVars
<1>6. CASE ClearTls \/ ReturnFromShake \/ ReadFlights
  BY <1>1, <1>6 DEF ClearTls, ReturnFromShake, ReadFlights, tlsVars, wayVars, sensorVars
<1>7. CASE SendInit
  <2>1. pending = <<>> /\ toSensor \in Seq(Messages) /\ started \in Nat
    BY <1>7 DEF SendInit, Proceed, PlaceInv, Commands, Exchanging, Shaken, Handshaking,
                CloseSteps, WayType
  <2>2. Mail = toSensor
    BY <2>1, ConcatEmptySeq DEF Mail
  <2>3. LET m == [kind |-> "init", conn |-> started + 1]
        IN  MailFits(Append(toSensor, m), started + 1) /\ InitsFit(Append(toSensor, m), started + 1)
    BY <2>1, <2>2, InitFits DEF MailInv
  <2>4. /\ started' = started + 1 /\ client' = client /\ pending' = <<>>
        /\ toSensor' = Append(toSensor, [kind |-> "init", conn |-> started + 1])
    BY <1>7, <2>1 DEF SendInit, tlsVars, sensorVars
  <2>5. [kind |-> "init", conn |-> started + 1] \in Messages
    BY <2>1 DEF Messages
  <2>6. Mail' = toSensor'
    BY <2>1, <2>4, <2>5, AppendRange, ConcatEmptySeq DEF Mail
  <2>7. ~NoInit'
    <3> DEFINE m == [kind |-> "init", conn |-> started + 1]
    <3>1. /\ Len(toSensor) + 1 \in DOMAIN Append(toSensor, m)
          /\ Append(toSensor, m)[Len(toSensor) + 1].kind = "init"
      BY <2>1, <2>5, AppendRange
    <3> QED
      BY <2>4, <3>1 DEF NoInit
  <2>8. client.conn <= started + 1
    BY <2>1 DEF MailInv, WayType, Clients
  <2> QED
    BY <2>3, <2>4, <2>6, <2>7, <2>8 DEF MailInv
<1>8. CASE TakeFlight
  <2>1. /\ UNCHANGED <<toSensor, client, started>> /\ Head(input) = input[1]
        /\ Head(input) \in Flights /\ 1 \in DOMAIN input
    BY <1>8, HeadTailProperties, LenProperties, EmptySeq
       DEF TakeFlight, wayVars, sensorVars, WayType
  <2>2. server'.conn \in {server.conn, input[1].conn}
    BY <1>8, <2>1, TakenTyped DEF TakeFlight, WayType
  <2>3. server'.conn <= started
    BY <2>1, <2>2 DEF FlightInv, FlightsFit, FlightFits
  <2>4. MailFits(Mail', started)
    BY <1>8, <2>3, TakenMail, MailRange, ReplyFits DEF MailInv, WayType
  <2> QED
    BY <2>1, <2>4 DEF MailInv, NoInit
<1>9. CASE Flush
  <2>1. UNCHANGED <<client, started>> /\ Mail' = Mail /\ toSensor' = Mail
    BY <1>9, FlushedMail DEF Flush, sensorVars
  <2>2. InitsFit(Mail, started)
    BY <1>9, FlushedMail, MailRange DEF MailInv, InitsFit
  <2>3. NoInit' => NoInit
    BY <2>1, MailRange DEF NoInit
  <2> QED
    BY <2>1, <2>2, <2>3 DEF MailInv
<1>10. CASE Establish \/ PollAgain \/ BecomeActive \/ Break \/ ReceiveFlight
  BY <1>1, <1>10 DEF Establish, PollAgain, BecomeActive, Break, ReceiveFlight,
                     tlsVars, wayVars, sensorVars
<1>11. CASE SensorHandles
  BY <1>11, HandledMailFits
<1>12. CASE Rest \/ UNCHANGED bringupVars
  BY <1>1, <1>12 DEF Rest, bringupVars, tlsVars, wayVars, sensorVars
<1> QED
  BY <1>2, <1>3, <1>4, <1>5, <1>6, <1>7, <1>8, <1>9, <1>10, <1>11, <1>12
     DEF BringupNext, Talking

(***************************************************************************)
(* What becomes of flights: one is taken, one comes, a connection begins.  *)
(***************************************************************************)
LEMMA NoFlights ==
    ASSUME NEW n PROVE FlightsFit(<<>>, n) /\ ~HasKey(<<>>, n)
BY EmptySeq DEF FlightsFit, HasKey

LEMMA RestOfFlights ==
    ASSUME NEW q \in Seq(Flights), q # <<>>, NEW n
    PROVE  /\ Head(q) \in Flights /\ Tail(q) \in Seq(Flights)
           /\ FlightsFit(q, n) => FlightFits(Head(q), n) /\ FlightsFit(Tail(q), n)
           /\ Fitting(Head(q), n) \/ HasKey(Tail(q), n) => HasKey(q, n)
<1> DEFINE r == Tail(q)
<1>1. /\ r \in Seq(Flights) /\ Len(r) = Len(q) - 1
      /\ \A i \in 1..Len(r) : r[i] = q[i + 1]
      /\ Head(q) = q[1] /\ Head(q) \in Flights
  BY HeadTailProperties
<1> HIDE DEF r
<1>2. /\ Len(q) \in Nat /\ Len(q) # 0 /\ DOMAIN q = 1..Len(q)
      /\ Len(r) \in Nat /\ DOMAIN r = 1..Len(r)
  BY <1>1, LenProperties, EmptySeq
<1>3. 1 \in DOMAIN q /\ \A i \in DOMAIN r : i + 1 \in DOMAIN q /\ r[i] = q[i + 1]
  BY <1>1, <1>2
<1> QED
  BY <1>1, <1>3 DEF FlightsFit, HasKey, r

LEMMA MoreFlights ==
    ASSUME NEW q \in Seq(Flights), NEW flight \in Flights, NEW n
    PROVE  /\ FlightsFit(q, n) /\ FlightFits(flight, n) => FlightsFit(Append(q, flight), n)
           /\ HasKey(Append(q, flight), n) => HasKey(q, n) \/ Fitting(flight, n)
<1> DEFINE r == Append(q, flight)
<1>1. /\ Len(q) \in Nat /\ DOMAIN q = 1..Len(q)
      /\ r \in Seq(Flights) /\ Len(r) = Len(q) + 1 /\ DOMAIN r = 1..Len(r)
      /\ \A i \in 1..Len(q) : r[i] = q[i]
      /\ r[Len(q) + 1] = flight
  BY AppendProperties, LenProperties
<1> HIDE DEF r
<1>2. \A i \in DOMAIN r : r[i] = flight \/ (i \in DOMAIN q /\ r[i] = q[i])
  BY <1>1
<1> QED
  BY <1>2 DEF FlightsFit, HasKey, r

LEMMA OlderFlights ==
    ASSUME NEW q \in Seq(Flights), NEW n \in Nat, FlightsFit(q, n)
    PROVE  FlightsFit(q, n + 1) /\ ~HasKey(q, n + 1)
<1> SUFFICES ASSUME NEW i \in DOMAIN q
             PROVE  FlightFits(q[i], n + 1) /\ ~Fitting(q[i], n + 1)
  BY DEF FlightsFit, HasKey
<1>1. q[i] \in Flights
  BY LenProperties, ElementOfSeq
<1>2. q[i].conn \in Nat /\ (q[i].kind = "key" => q[i].server \in Nat)
  BY <1>1 DEF Flights
<1>3. q[i].conn <= n /\ (q[i].kind = "key" => q[i].server <= n)
  BY DEF FlightsFit, FlightFits
<1> QED
  BY <1>2, <1>3 DEF FlightFits, Fitting

(***************************************************************************)
(* The sensor's answer to a message.                                       *)
(***************************************************************************)
LEMMA NoInitKept ==
    ASSUME WayType, SensorHandles, NoInit PROVE NoInit'
BY HandledMail DEF NoInit, PartFrom

LEMMA AnswerFits ==
    ASSUME WayType, MailInv, FlightInv, SensorHandles PROVE FlightInv'
<1> USE DEF WayType
<1>1. /\ UNCHANGED <<fifo, input, server, started>> /\ started \in Nat
      /\ Head(toSensor) \in Messages
  BY HandledMail DEF SensorHandles, tlsVars
<1>2. CASE UNCHANGED toHost
  BY <1>1, <1>2, NoInitKept DEF FlightInv, KeyMade
<1>3. CASE Head(toSensor).kind = "init" /\ toHost' = Append(toHost, Hello(Head(toSensor).conn))
  <2> DEFINE flight == Hello(Head(toSensor).conn)
  <2>1. ~KeyMade
    BY <1>3, HandledMail DEF FlightInv, NoInit
  <2>2. Head(toSensor).conn \in Nat /\ Head(toSensor).conn <= started
    BY <1>1, <1>3, HandledMail DEF Messages, Replies, MailInv, InitsFit
  <2>3. /\ flight \in Flights /\ FlightFits(flight, started)
        /\ ~Fitting(flight, started)
    BY <2>2 DEF Hello, Flights, FlightFits, Fitting
  <2>4. FlightsFit(toHost', started) /\ (HasKey(toHost', started) => HasKey(toHost, started))
    BY <1>3, <2>3, MoreFlights DEF FlightInv
  <2> QED
    BY <1>1, <2>1, <2>4 DEF FlightInv, KeyMade
<1>4. ASSUME NEW ours \in BOOLEAN, Head(toSensor).kind = "parts", client.seen = "init",
             toHost' = Append(toHost, Key(Head(toSensor), ours))
      PROVE  FlightInv'
  <2> DEFINE message == Head(toSensor)
             flight  == Key(message, ours)
  <2>1. message = Mail[1] /\ 1 \in DOMAIN Mail /\ message.kind # "init"
    BY <1>4, HandledMail
  <2>2. /\ message.server \in Nat /\ message.server <= started
        /\ message.server = started =>
              \A k \in DOMAIN Mail : k > 1 => Mail[k].kind # "init"
    BY <1>1, <2>1 DEF MailInv, MailFits, Messages, Replies
  <2>3. message.server = started => NoInit
    BY <2>1, <2>2, MailRange DEF NoInit
  <2>4. message.server = started => client.conn = started
    BY <1>4, <2>3 DEF MailInv, Idle
  <2>5. flight \in Flights /\ FlightFits(flight, started)
    BY <2>2, <2>4 DEF Key, Flights, FlightFits, Fitting, MailInv, Clients
  <2>6. Fitting(flight, started) => NoInit
    BY <2>3 DEF Key, Fitting
  <2>7. /\ FlightsFit(toHost', started)
        /\ HasKey(toHost', started) => HasKey(toHost, started) \/ Fitting(flight, started)
    BY <1>4, <2>5, MoreFlights DEF FlightInv
  <2> QED
    BY <1>1, <2>6, <2>7, NoInitKept DEF FlightInv, KeyMade
<1> QED
  BY <1>2, <1>3, <1>4 DEF SensorHandles, Expected

LEMMA FlightStep ==
    ASSUME WayType, PlaceInv, MailInv, FlightInv, [BringupNext]_bringupVars
    PROVE  FlightInv'
<1> USE DEF WayType
<1>1. CASE UNCHANGED <<toSensor, toHost, fifo, input, server, started>>
  BY <1>1 DEF FlightInv, KeyMade, NoInit
<1>2. CASE fifo' = <<>> /\ UNCHANGED <<toSensor, toHost, input, server, started>>
  BY <1>2, NoFlights DEF FlightInv, KeyMade, NoInit
<1>3. CASE Elsewhere \/ Break \/ Establish \/ PollAgain \/ BecomeActive
  BY <1>1, <1>3 DEF Elsewhere, Break, Establish, PollAgain, BecomeActive, tlsVars, wayVars
<1>4. CASE EnterTalk \/ EndSession \/ ClearTls
  BY <1>2, <1>4 DEF EnterTalk, EndSession, ClearTls, wayVars
<1>5. CASE ForgetAll
  BY <1>5, NoFlights DEF ForgetAll, wayVars, NewServer, FlightInv, KeyMade, NoInit
<1>6. CASE PowerCycle
  BY <1>6, NoFlights, EmptySeq DEF PowerCycle, tlsVars, FlightInv, KeyMade, NoInit
<1>7. CASE AskFirst \/ PutToIdle \/ CheckChip \/ ReadOtp \/ PrepareConfig \/ Upload
  BY <1>1, <1>7 DEF AskFirst, PutToIdle, CheckChip, ReadOtp, PrepareConfig, Upload,
                    tlsVars, wayVars
<1>8. CASE SendInit
  <2>1. server = NewServer
    BY <1>8 DEF SendInit, Proceed, PlaceInv, Commands, Exchanging, Shaken, Handshaking,
                CloseSteps
  <2>2. UNCHANGED <<toHost, fifo, input, server>> /\ started' = started + 1
    BY <1>8 DEF SendInit, tlsVars
  <2>3. /\ FlightsFit(toHost', started') /\ ~HasKey(toHost', started')
        /\ FlightsFit(fifo', started') /\ ~HasKey(fifo', started')
        /\ FlightsFit(input', started') /\ ~HasKey(input', started')
    BY <2>2, OlderFlights DEF FlightInv
  <2> QED
    BY <2>1, <2>2, <2>3 DEF FlightInv, KeyMade, NewServer
<1>9. CASE TakeFlight
  <2>1. /\ UNCHANGED <<toSensor, toHost, fifo, started>>
        /\ server' = Taken(server, Head(input)) /\ input' = Tail(input)
        /\ input # <<>>
    BY <1>9 DEF TakeFlight, wayVars
  <2>2. /\ Head(input) \in Flights
        /\ FlightFits(Head(input), started) /\ FlightsFit(input', started)
        /\ Fitting(Head(input), started) \/ HasKey(input', started) => HasKey(input, started)
    BY <2>1, RestOfFlights DEF FlightInv
  <2>3. /\ server'.conn \in {server.conn, Head(input).conn}
        /\ server'.seen = "key" => /\ server'.conn = Head(input).conn
                                   /\ Fitting(Head(input), started)
    BY <2>1, <2>2, TakenTyped DEF Fitting
  <2>4. server'.conn <= started /\ (server'.seen = "key" => server'.conn = started)
    BY <2>2, <2>3 DEF FlightFits, FlightInv
  <2> QED
    BY <2>1, <2>2, <2>3, <2>4 DEF FlightInv, KeyMade, NoInit
<1>10. CASE ReturnFromShake \/ Rest \/ UNCHANGED bringupVars
  BY <1>1, <1>10 DEF ReturnFromShake, Rest, bringupVars, tlsVars, wayVars
<1>11. CASE Flush
  <2>1. NoInit => NoInit'
    BY <1>11, FlushedMail DEF NoInit
  <2> QED
    BY <1>11, <2>1 DEF Flush, FlightInv, KeyMade
<1>12. CASE ReadFlights
  BY <1>12, NoFlights DEF ReadFlights, wayVars, FlightInv, KeyMade, NoInit
<1>13. CASE ReceiveFlight
  <2>1. /\ UNCHANGED <<toSensor, input, server, started>> /\ toHost # <<>>
        /\ toHost' = Tail(toHost)
        /\ fifo' = Append(fifo, Head(toHost)) \/ fifo' = fifo
    BY <1>13 DEF ReceiveFlight
  <2>2. /\ Head(toHost) \in Flights
        /\ FlightFits(Head(toHost), started) /\ FlightsFit(toHost', started)
        /\ Fitting(Head(toHost), started) \/ HasKey(toHost', started)
              => HasKey(toHost, started)
    BY <2>1, RestOfFlights DEF FlightInv
  <2>3. /\ FlightsFit(fifo', started)
        /\ HasKey(fifo', started) => HasKey(fifo, started) \/ HasKey(toHost, started)
    BY <2>1, <2>2, MoreFlights DEF FlightInv
  <2> QED
    BY <2>1, <2>2, <2>3 DEF FlightInv, KeyMade, NoInit
<1>14. CASE SensorHandles
  BY <1>14, AnswerFits
<1> QED
  BY <1>3, <1>4, <1>5, <1>6, <1>7, <1>8, <1>9, <1>10, <1>11, <1>12, <1>13, <1>14
     DEF BringupNext, Talking

(***************************************************************************)
(* The agreement.  Before OpenSSL has the key nothing that would finish    *)
(* the connection was written; when it has, its "finished" is the last     *)
(* message; and when the sensor is connected it has handled that one, so   *)
(* nothing is left that could make it forget.                              *)
(***************************************************************************)
AgreeInv ==
    /\ at \in Exchanging /\ server.seen \in {"none", "hello"} =>
         /\ FinishesNot(Mail, started)
         /\ ~(client.seen = "connected" /\ client.conn = started)
    /\ server.seen = "key" => FinishesLast(Mail, started)
    /\ server.seen = "key" /\ client.seen = "connected" => Mail = <<>>
    /\ state = "ACTIVE" /\ handle = "live" =>
         loaded = "new" /\ client.seen = "connected" /\ server.seen = "key"

LEMMA AgreeKept ==
    ASSUME AgreeInv, UNCHANGED <<server, toSensor, pending, client, started>>,
           at' \in Exchanging => at \in Exchanging,
           state' = "ACTIVE" /\ handle' = "live" =>
             state = "ACTIVE" /\ handle = "live" /\ loaded' = loaded
    PROVE  AgreeInv'
<1>1. Mail' = Mail
  BY DEF Mail
<1> QED
  BY <1>1 DEF AgreeInv

(***************************************************************************)
(* A sensor that becomes connected has handled the "finished" of the       *)
(* connection it is in.                                                    *)
(***************************************************************************)
LEMMA HandledAgrees ==
    ASSUME WayType, MailInv, FlightInv, AgreeInv, SensorHandles PROVE AgreeInv'
<1> USE DEF WayType
<1>1. /\ UNCHANGED <<at, server, started, state, handle, loaded>> /\ started \in Nat
      /\ client.conn \in Nat
  BY DEF SensorHandles, openVars, tlsVars, vars, usbVars, Clients
<1>2. /\ Mail \in Seq(Messages) /\ Mail' \in Seq(Messages)
      /\ PartFrom(Mail', Mail, 1) /\ 1 + Len(Mail') = Len(Mail)
      /\ 1 \in DOMAIN Mail /\ Head(toSensor) = Mail[1]
  BY HandledMail, MailRange
<1>3. /\ FinishesNot(Mail, started) => FinishesNot(Mail', started)
      /\ FinishesLast(Mail, started) => FinishesLast(Mail', started)
  BY <1>2, PartFits
<1>4. ASSUME client'.seen = "connected", client.conn = started \/ client'.conn = started
      PROVE  Finishes(Mail[1], started)
  <2>1. /\ Head(toSensor).kind = "finished" /\ Head(toSensor).conn = client.conn
        /\ client'.conn = client.conn
    BY <1>4 DEF SensorHandles, Expected, Clients, Idle
  <2>2. /\ Mail[1].conn <= Mail[1].server /\ Mail[1].server <= started
        /\ Mail[1].server \in Nat /\ Mail[1].conn = started
    BY <1>2, <1>4, <2>1, MessageRange DEF MailInv, MailFits
  <2> QED
    BY <1>1, <1>2, <2>1, <2>2 DEF Finishes
<1>5. ASSUME server.seen = "key", client'.seen = "connected"
      PROVE  Mail' = <<>>
  <2>1. client # Idle
    BY <1>5 DEF SensorHandles, Expected, Idle
  <2>2. client.conn = started
    BY <1>5, <2>1 DEF FlightInv, KeyMade, MailInv
  <2>3. Len(Mail) = 1
    BY <1>2, <1>4, <1>5, <2>2 DEF AgreeInv, FinishesLast
  <2> QED
    BY <1>2, <2>3, EmptySeq, LenProperties
<1>6. server.seen = "key" /\ client.seen = "connected" => FALSE
  BY <1>2, EmptySeq DEF AgreeInv
<1> QED
  BY <1>1, <1>2, <1>3, <1>4, <1>5, <1>6 DEF AgreeInv, FinishesNot

LEMMA TakenAgrees ==
    ASSUME WayType, PlaceInv, MailInv, FlightInv, FlightInv', AgreeInv, TakeFlight
    PROVE  AgreeInv'
<1> USE DEF WayType
<1>1. /\ UNCHANGED <<at, toSensor, client, started, state, handle, loaded>>
      /\ at = "shake" /\ server.seen \in {"none", "hello"}
  BY DEF TakeFlight, HandshakeOver, openVars, wayVars, sensorVars, vars, usbVars, Servers
<1>2. /\ FinishesNot(Mail, started)
      /\ ~(client.seen = "connected" /\ client.conn = started)
  BY <1>1 DEF AgreeInv, Exchanging
<1>3. server'.conn <= started
  BY <1>1 DEF FlightInv
<1>4. /\ Mail \in Seq(Messages) /\ started \in Nat
      /\ Reply(server') \in Replies
      /\ Reply(server').server = started /\ Reply(server').conn = server'.conn
      /\ Reply(server').kind = "finished" <=> server'.seen = "key"
      /\ Mail' = Append(Mail, Reply(server'))
  BY TakenMail, MailRange
<1>5. /\ FinishesLast(Mail', started)
      /\ server'.seen # "key" => FinishesNot(Mail', started)
  BY <1>2, <1>3, <1>4, ReplyFits
<1>6. server'.seen = "key" => client.seen # "connected"
  <2>1. NoInit' = NoInit
    BY <1>1 DEF NoInit
  <2>2. server'.seen = "key" => client.conn = started \/ client = Idle
    BY <2>1 DEF FlightInv, KeyMade, MailInv
  <2> QED
    BY <1>2, <2>2 DEF Idle
<1>7. ~(state = "ACTIVE" /\ handle = "live")
  BY <1>1 DEF AgreeInv
<1> QED
  BY <1>1, <1>2, <1>5, <1>6, <1>7 DEF AgreeInv

LEMMA AgreeStep ==
    ASSUME TypeOK, HoldInv, WayType, PlaceInv, MailInv, FlightInv, FlightInv', AgreeInv,
           [BringupNext]_bringupVars
    PROVE  AgreeInv'
<1> USE DEF WayType, Exchanging
<1>1. CASE UNCHANGED <<vars, openVars, server, pending, toSensor, sensorVars, started>>
  BY <1>1, AgreeKept DEF vars, usbVars, openVars, sensorVars
<1>2. CASE Elsewhere
  <2>1. UNCHANGED <<at, server, toSensor, pending, client, started, loaded>>
    BY <1>2 DEF Elsewhere, openVars, tlsVars, wayVars, sensorVars
  <2> QED
    BY <1>2, <2>1, AgreeKept, ElsewherePlace
<1>3. CASE EnterTalk
  BY <1>3, AgreeKept DEF EnterTalk, StartSession, Fail, Go, wayVars
<1>4. CASE EndSession
  BY <1>4, AgreeKept DEF EndSession, StopSession, openVars, wayVars, sensorVars, usbVars
<1>5. CASE ForgetAll
  <2>1. at' = "none" /\ state' = "CLOSED" /\ server' = NewServer
    BY <1>5 DEF ForgetAll, CleanUp, openVars, PlaceInv, Commands
  <2> QED
    BY <2>1 DEF AgreeInv, NewServer
<1>6. CASE PowerCycle
  <2>1. /\ UNCHANGED <<at, server, started, state>> /\ client' = Idle
        /\ handle' # "live"
    BY <1>6 DEF PowerCycle, Replug, openVars, tlsVars
  <2>2. /\ Mail \in Seq(Messages) /\ Mail' \in Seq(Messages)
        /\ Len(toSensor) \in Nat
        /\ PartFrom(Mail', Mail, Len(toSensor))
        /\ Len(toSensor) + Len(Mail') = Len(Mail)
    BY <1>6, CycledMail, MailRange
  <2>3. /\ FinishesNot(Mail, started) => FinishesNot(Mail', started)
        /\ FinishesLast(Mail, started) => FinishesLast(Mail', started)
    BY <2>2, PartFits
  <2> QED
    BY <2>1, <2>3 DEF AgreeInv, Idle
<1>7. CASE AskFirst \/ PutToIdle \/ ReadOtp \/ Establish \/ PollAgain
  BY <1>7, AgreeKept
     DEF AskFirst, PutToIdle, ReadOtp, Establish, PollAgain, Proceed, tlsVars, wayVars,
         sensorVars, vars, usbVars
<1>8. CASE CheckChip
  <2>1. state' = state \/ state' = "ERROR"
    BY <1>8 DEF CheckChip, Preflight, Talk, Fail
  <2>2. UNCHANGED <<server, toSensor, pending, client, started, loaded, handle>> /\ at' = "otp"
    BY <1>8 DEF CheckChip, Preflight, Talk, Fail, tlsVars, wayVars, sensorVars, usbVars
  <2> QED
    BY <2>1, <2>2, AgreeKept
<1>9. CASE GiveUp /\ UNCHANGED <<server, toSensor, pending, client, started>>
  BY <1>9, GiveUpPlace, AgreeKept
<1>10. CASE PrepareConfig
  BY <1>9, <1>10, AgreeKept DEF PrepareConfig, tlsVars, wayVars, sensorVars, vars, usbVars
<1>11. CASE Upload
  <2>1. UNCHANGED <<server, toSensor, pending, client, started>>
    BY <1>11 DEF Upload, tlsVars, wayVars
  <2>2. CASE InitializeSensor /\ at' = Following("upload")
    BY <2>1, <2>2, AgreeKept DEF InitializeSensor, Talk, Fail, Following
  <2> QED
    BY <1>9, <1>11, <2>1, <2>2 DEF Upload
<1>12. CASE ClearTls
  BY <1>12, AgreeKept DEF ClearTls, Following, wayVars, sensorVars, vars, usbVars
<1>13. CASE SendInit
  <2>1. server = NewServer /\ pending = <<>> /\ toSensor \in Seq(Messages) /\ started \in Nat
    BY <1>13 DEF SendInit, Proceed, PlaceInv, Commands, Shaken, Handshaking, CloseSteps
  <2>2. Mail = toSensor
    BY <2>1, ConcatEmptySeq DEF Mail
  <2> DEFINE m == [kind |-> "init", conn |-> started + 1]
  <2>3. m \in Messages /\ m.kind = "init"
    BY <2>1 DEF Messages
  <2>4. /\ UNCHANGED <<server, client, state, handle, loaded>>
        /\ started' = started + 1 /\ Mail' = Append(toSensor, m)
    <3>1. /\ UNCHANGED <<server, pending, client, state, handle, loaded>>
          /\ started' = started + 1 /\ toSensor' = Append(toSensor, m)
      BY <1>13 DEF SendInit, Proceed, tlsVars, sensorVars, vars, usbVars
    <3> QED
      BY <2>1, <2>3, <3>1, AppendRange, ConcatEmptySeq DEF Mail
  <2>5. FinishesNot(Append(toSensor, m), started + 1)
    <3> SUFFICES ASSUME NEW i \in DOMAIN Append(toSensor, m),
                        Finishes(Append(toSensor, m)[i], started + 1)
                 PROVE  FALSE
      BY DEF FinishesNot
    <3>1. i \in DOMAIN toSensor /\ Finishes(toSensor[i], started + 1)
      BY <2>1, <2>3, AppendRange DEF Finishes
    <3>2. toSensor[i].server <= started /\ toSensor[i].server \in Nat
      BY <2>1, <2>2, <3>1, MessageRange DEF MailInv, MailFits, Finishes
    <3> QED
      BY <2>1, <3>1, <3>2 DEF Finishes
  <2>6. client.conn # started + 1
    BY <2>1 DEF MailInv, Clients
  <2>7. ~(state = "ACTIVE" /\ handle = "live")
    BY <2>1 DEF AgreeInv, NewServer
  <2> QED
    BY <2>1, <2>4, <2>5, <2>6, <2>7 DEF AgreeInv, NewServer
<1>14. CASE TakeFlight
  BY <1>14, TakenAgrees
<1>15. CASE ReturnFromShake
  BY <1>15, AgreeKept DEF ReturnFromShake, tlsVars, wayVars, sensorVars, vars, usbVars
<1>16. CASE Flush
  <2>1. /\ Mail' = Mail /\ at = "flush"
        /\ UNCHANGED <<server, client, started, state, handle, loaded>>
    BY <1>16, FlushedMail DEF Flush, Proceed, sensorVars, vars, usbVars
  <2> QED
    BY <2>1 DEF AgreeInv
<1>17. CASE ReadFlights
  BY <1>17, AgreeKept DEF ReadFlights, wayVars, sensorVars, vars, usbVars
<1>18. CASE BecomeActive
  <2>1. /\ UNCHANGED <<server, toSensor, pending, client, started, loaded, handle>>
        /\ at' = "none" /\ at = "poll" /\ handle = "live" /\ client.seen = "connected"
    BY <1>18 DEF BecomeActive, SaysConnected, ConnectTls, Talk, Fail, FirstCloseStep, tlsVars,
                 wayVars, sensorVars, usbVars
  <2>2. loaded = "new" /\ server.seen = "key"
    BY <2>1 DEF PlaceInv, Handshaking, Shaken
  <2>3. Mail' = Mail
    BY <2>1 DEF Mail
  <2> QED
    BY <2>1, <2>2, <2>3 DEF AgreeInv
<1>19. CASE Break
  BY <1>9, <1>19 DEF Break, tlsVars, wayVars, sensorVars
<1>20. CASE ReceiveFlight \/ Rest \/ UNCHANGED bringupVars
  BY <1>1, <1>20 DEF ReceiveFlight, Rest, bringupVars, tlsVars, wayVars, sensorVars
<1>21. CASE SensorHandles
  BY <1>21, HandledAgrees
<1> QED
  BY <1>2, <1>3, <1>4, <1>5, <1>6, <1>7, <1>8, <1>10, <1>11, <1>12, <1>13, <1>14, <1>15,
     <1>16, <1>17, <1>18, <1>19, <1>20, <1>21
     DEF BringupNext, Talking

LEMMA AgreementInit ==
    ASSUME BringupInit PROVE WayType /\ PlaceInv /\ MailInv /\ FlightInv /\ AgreeInv
<1> USE DEF BringupInit, Init
<1>1. WayType
  BY EmptySeq DEF WayType, NewServer, Idle, Servers, Clients
<1>2. PlaceInv
  BY DEF PlaceInv, Commands, Handshaking, Exchanging, Shaken
<1>3. Mail = <<>>
  BY <1>1, ConcatEmptySeq DEF Mail, WayType
<1>4. MailInv
  BY <1>3, EmptySeq DEF MailInv, MailFits, InitsFit, Idle
<1>5. FlightInv
  BY NoFlights DEF FlightInv, KeyMade, NewServer
<1>6. AgreeInv
  BY <1>3, EmptySeq DEF AgreeInv, FinishesNot, Exchanging, NewServer
<1> QED
  BY <1>1, <1>2, <1>4, <1>5, <1>6

LEMMA AgreementHolds ==
    ASSUME WayType, MailInv, FlightInv, AgreeInv PROVE ActiveIsReady
<1> SUFFICES ASSUME state = "ACTIVE", handle = "live"
             PROVE  /\ client = [seen |-> "connected", conn |-> started]
                    /\ server = [seen |-> "key", conn |-> started]
                    /\ loaded = "new"
  BY DEF ActiveIsReady
<1>1. loaded = "new" /\ client.seen = "connected" /\ server.seen = "key"
  BY DEF AgreeInv
<1>2. server.conn = started
  BY <1>1 DEF FlightInv
<1>3. client.conn = started
  BY <1>1 DEF FlightInv, KeyMade, MailInv, Idle
<1> QED
  BY <1>1, <1>2, <1>3 DEF WayType, Servers, Clients

(***************************************************************************)
(* An open device with its sensor plugged in has a sensor that finished    *)
(* this open's handshake with it, whatever flights of earlier opens were   *)
(* still under way, and that runs with this open's configuration.          *)
(***************************************************************************)
THEOREM OpenDeviceIsReady == BringupSpec => []ActiveIsReady
<1> DEFINE Inv == WayType /\ PlaceInv /\ MailInv /\ FlightInv /\ AgreeInv
<1>1. BringupInit => Inv /\ TypeOK /\ HoldInv
  BY AgreementInit, TypeInit, HoldInit DEF BringupInit
<1>2. /\ Inv /\ TypeOK /\ HoldInv
      /\ [BringupNext]_bringupVars
      => (Inv /\ TypeOK /\ HoldInv)'
  BY BringupStep, TypeStep, HoldStep, WayTypeStep, PlaceStep, MailStep, FlightStep,
     AgreeStep
<1>3. Inv => ActiveIsReady
  BY AgreementHolds
<1> QED
  BY <1>1, <1>2, <1>3, PTL DEF BringupSpec

-----------------------------------------------------------------------------
(***************************************************************************)
(* Whose turn it is.                                                       *)
(*                                                                         *)
(* A handshake is a dialogue: the last message written is the one that the *)
(* sensor has to answer, and once it has handled that one a flight is on   *)
(* its way to OpenSSL.  Before the first flight is taken that message is   *)
(* this open's D/0; then OpenSSL's answer to the flight, whichever         *)
(* connection the flight was of; and a key that fits exists only once the  *)
(* sensor has handled everything.                                          *)
(***************************************************************************)
KeyUnderWay ==
    HasKey(toHost, started) \/ HasKey(fifo, started) \/ HasKey(input, started)

FlightUnderWay == dropped \/ toHost # <<>> \/ fifo # <<>> \/ input # <<>>

BeforeHello ==
    /\ ~KeyUnderWay
    /\ Mail # <<>> => Mail[Len(Mail)].kind = "init"
    /\ Mail = <<>> => client.seen = "init" /\ FlightUnderWay

AfterHello ==
    /\ Mail # <<>> => /\ ~KeyUnderWay
                      /\ Mail[Len(Mail)].kind = "parts"
                      /\ Len(Mail) = 1 => client.seen = "init"
                      /\ Len(Mail) > 1 => Mail[Len(Mail) - 1].kind = "init"
    /\ Mail = <<>> => client.seen = "parts" /\ FlightUnderWay

AfterKey ==
    /\ Mail # <<>> => /\ Len(Mail) = 1 /\ Mail[1].kind = "finished"
                      /\ Mail[1].conn = client.conn /\ client.seen = "parts"
    /\ Mail = <<>> => client.seen = "connected"

InDialogue == handle = "live" /\ at \in Exchanging \cup {"established", "poll"}

TurnInv ==
    InDialogue =>
        /\ server.seen = "none" => BeforeHello
        /\ server.seen = "hello" => AfterHello
        /\ server.seen = "key" => AfterKey
        /\ at \in {"flush", "wait"} /\ server.seen \in {"none", "hello"} => input = <<>>

LEMMA TurnKept ==
    ASSUME TurnInv,
           server' = server, client' = client, started' = started, Mail' = Mail,
           toHost' = toHost, fifo' = fifo, input' = input, dropped' = dropped,
           InDialogue' => InDialogue,
           InDialogue' /\ at' \in {"flush", "wait"} /\ server.seen \in {"none", "hello"}
             => at \in {"flush", "wait"} \/ input = <<>>
    PROVE  TurnInv'
<1>1. KeyUnderWay' = KeyUnderWay /\ FlightUnderWay' = FlightUnderWay
  BY DEF KeyUnderWay, FlightUnderWay
<1>2. BeforeHello' = BeforeHello /\ AfterHello' = AfterHello /\ AfterKey' = AfterKey
  BY <1>1 DEF BeforeHello, AfterHello, AfterKey
<1> QED
  BY <1>2 DEF TurnInv

LEMMA MailEnds ==
    ASSUME WayType, Mail # <<>>
    PROVE  /\ Len(Mail) \in Nat /\ Len(Mail) >= 1 /\ Len(Mail) \in DOMAIN Mail
           /\ DOMAIN Mail = 1..Len(Mail)
           /\ Len(Mail) > 1 => Len(Mail) - 1 \in DOMAIN Mail
<1>1. Mail \in Seq(Messages)
  BY MailRange
<1>2. Len(Mail) \in Nat /\ DOMAIN Mail = 1..Len(Mail) /\ Len(Mail) # 0
  BY <1>1, LenProperties, EmptySeq
<1> QED
  BY <1>2

(***************************************************************************)
(* A message in front of a D/0 is not of the latest connection, so what    *)
(* the sensor makes of it does not fit.                                    *)
(***************************************************************************)
LEMMA OldAnswer ==
    ASSUME WayType, MailInv, SensorHandles, ~KeyUnderWay,
           \E k \in DOMAIN Mail : (k > 1 \/ Mail[1].kind = "init") /\ Mail[k].kind = "init"
    PROVE  ~KeyUnderWay'
<1>1. /\ UNCHANGED <<fifo, input, started>>
      /\ Head(toSensor) = Mail[1] /\ 1 \in DOMAIN Mail /\ Mail \in Seq(Messages)
      /\ toHost \in Seq(Flights) /\ started \in Nat
  BY HandledMail, MailRange DEF SensorHandles, tlsVars, WayType
<1>2. CASE UNCHANGED toHost
  BY <1>1, <1>2 DEF KeyUnderWay
<1>3. CASE Mail[1].kind = "init" /\ toHost' = Append(toHost, Hello(Mail[1].conn))
  <2>1. Mail[1].conn \in Nat
    BY <1>1, MessageRange
  <2>2. Hello(Mail[1].conn) \in Flights /\ ~Fitting(Hello(Mail[1].conn), started)
    BY <2>1 DEF Hello, Flights, Fitting
  <2> QED
    BY <1>1, <1>3, <2>2, MoreFlights DEF KeyUnderWay
<1>4. ASSUME NEW ours \in BOOLEAN, Mail[1].kind = "parts",
             toHost' = Append(toHost, Key(Mail[1], ours))
      PROVE  ~KeyUnderWay'
  <2>1. PICK k \in DOMAIN Mail : k > 1 /\ Mail[k].kind = "init"
    BY <1>4
  <2>2. Mail[1].server # started
    BY <1>1, <1>4, <2>1 DEF MailInv, MailFits
  <2>3. Mail[1].server \in Nat /\ client.conn \in Nat
    BY <1>1, <1>4, MessageRange DEF WayType, Clients
  <2>4. Key(Mail[1], ours) \in Flights /\ ~Fitting(Key(Mail[1], ours), started)
    BY <2>2, <2>3 DEF Key, Flights, Fitting
  <2> QED
    BY <1>1, <1>4, <2>4, MoreFlights DEF KeyUnderWay
<1> QED
  BY <1>1, <1>2, <1>3, <1>4 DEF SensorHandles

(***************************************************************************)
(* The sensor's turn.                                                      *)
(***************************************************************************)
LEMMA HandledTurn ==
    ASSUME WayType, MailInv, TurnInv, SensorHandles PROVE TurnInv'
<1> SUFFICES ASSUME InDialogue' PROVE TurnInv'
  BY DEF TurnInv
<1>1. /\ UNCHANGED <<at, handle, server, fifo, input, started, dropped>> /\ InDialogue
      /\ toHost \in Seq(Flights)
  BY DEF SensorHandles, openVars, tlsVars, vars, usbVars, InDialogue, WayType
<1>2. /\ Mail \in Seq(Messages) /\ Mail' \in Seq(Messages)
      /\ PartFrom(Mail', Mail, 1) /\ 1 + Len(Mail') = Len(Mail)
      /\ 1 \in DOMAIN Mail /\ Head(toSensor) = Mail[1] /\ Head(toSensor) \in Messages
  BY HandledMail, MailRange
<1>3. /\ Len(Mail) \in Nat /\ Len(Mail) >= 1 /\ DOMAIN Mail = 1..Len(Mail)
      /\ Len(Mail') \in Nat /\ DOMAIN Mail' = 1..Len(Mail')
      /\ Mail # <<>> /\ (Mail' = <<>> <=> Len(Mail') = 0)
  BY <1>2, LenProperties, EmptySeq
\* What is left keeps its end.
<1>4. /\ Mail' # <<>> => Len(Mail) > 1 /\ Mail'[Len(Mail')] = Mail[Len(Mail)]
      /\ Len(Mail') > 1 => Mail'[Len(Mail') - 1] = Mail[Len(Mail) - 1]
      /\ Mail' = <<>> => Len(Mail) = 1
      /\ Len(Mail') = 1 => Len(Mail) = 2
  <2>1. Mail' # <<>> => Len(Mail') \in DOMAIN Mail' /\ 1 + Len(Mail') = Len(Mail)
    BY <1>2, <1>3
  <2>2. Len(Mail') > 1 =>
          Len(Mail') - 1 \in DOMAIN Mail' /\ 1 + (Len(Mail') - 1) = Len(Mail) - 1
    BY <1>2, <1>3
  <2> QED
    BY <1>2, <1>3, <2>1, <2>2 DEF PartFrom
<1>5. ASSUME Mail[1].kind = "init"
      PROVE  client'.seen = "init" /\ toHost' # <<>>
  <2>1. /\ client' = [seen |-> "init", conn |-> Mail[1].conn]
        /\ toHost' = Append(toHost, Hello(Mail[1].conn))
    BY <1>2, <1>5 DEF SensorHandles, Messages, Replies
  <2> QED
    BY <1>1, <2>1, AppendProperties, EmptySeq
<1>6. ASSUME Mail[1].kind = "parts", client.seen = "init"
      PROVE  client'.seen = "parts" /\ toHost' # <<>>
  <2>1. Expected(Mail[1])
    BY <1>6 DEF Expected
  <2>2. /\ client' = [client EXCEPT !.seen = "parts"]
        /\ \E ours \in BOOLEAN : toHost' = Append(toHost, Key(Mail[1], ours))
    BY <1>2, <1>6, <2>1 DEF SensorHandles
  <2> QED
    BY <1>1, <2>2, AppendProperties, EmptySeq DEF WayType, Clients
<1>7. ASSUME server.seen = "none" PROVE BeforeHello'
  <2>1. ~KeyUnderWay /\ Mail[Len(Mail)].kind = "init"
    BY <1>1, <1>3, <1>7 DEF TurnInv, BeforeHello
  <2>2. Len(Mail) \in DOMAIN Mail /\ (Len(Mail) > 1 \/ Mail[1].kind = "init")
    BY <1>3, <2>1
  <2>3. ~KeyUnderWay'
    BY <2>1, <2>2, OldAnswer
  <2>4. Mail' = <<>> => client'.seen = "init" /\ toHost' # <<>>
    BY <1>4, <1>5, <2>1
  <2> QED
    BY <1>4, <2>1, <2>3, <2>4 DEF BeforeHello, FlightUnderWay
<1>8. ASSUME server.seen = "hello" PROVE AfterHello'
  <2>1. /\ ~KeyUnderWay /\ Mail[Len(Mail)].kind = "parts"
        /\ Len(Mail) = 1 => client.seen = "init"
        /\ Len(Mail) > 1 => Mail[Len(Mail) - 1].kind = "init"
    BY <1>1, <1>3, <1>8 DEF TurnInv, AfterHello
  <2>2. ASSUME Mail' # <<>> PROVE ~KeyUnderWay'
    <3>1. /\ Len(Mail) - 1 \in DOMAIN Mail /\ Mail[Len(Mail) - 1].kind = "init"
          /\ Len(Mail) - 1 > 1 \/ Len(Mail) - 1 = 1
      BY <1>3, <1>4, <2>1, <2>2
    <3> QED
      BY <2>1, <3>1, OldAnswer
  <2>3. ASSUME Len(Mail') = 1 PROVE client'.seen = "init"
    <3>1. Len(Mail) = 2
      BY <1>4, <2>3
    <3>2. Len(Mail) > 1 /\ Len(Mail) - 1 = 1
      BY <3>1
    <3> QED
      BY <1>5, <2>1, <3>2
  <2>4. Mail' = <<>> => client'.seen = "parts" /\ toHost' # <<>>
    BY <1>4, <1>6, <2>1
  <2>5. Len(Mail') > 1 => Mail'[Len(Mail') - 1].kind = "init"
    BY <1>2, <1>3, <1>4, <2>1
  <2>6. Mail' # <<>> => Mail'[Len(Mail')].kind = "parts"
    BY <1>4, <2>1
  <2> QED
    BY <2>2, <2>3, <2>4, <2>5, <2>6 DEF AfterHello, FlightUnderWay
<1>9. ASSUME server.seen = "key" PROVE AfterKey'
  <2>1. /\ Len(Mail) = 1 /\ Mail[1].kind = "finished"
        /\ Mail[1].conn = client.conn /\ client.seen = "parts"
    BY <1>1, <1>3, <1>9 DEF TurnInv, AfterKey
  <2>2. Mail' = <<>>
    BY <1>2, <1>3, <2>1
  <2>3. client' = [client EXCEPT !.seen = "connected"]
    BY <1>2, <2>1 DEF SensorHandles, Expected
  <2>4. client'.seen = "connected"
    BY <2>3 DEF WayType, Clients
  <2> QED
    BY <2>2, <2>4 DEF AfterKey
<1>10. at' \in {"flush", "wait"} /\ server'.seen \in {"none", "hello"} => input' = <<>>
  BY <1>1 DEF TurnInv
<1> QED
  BY <1>1, <1>7, <1>8, <1>9, <1>10 DEF TurnInv

(***************************************************************************)
(* OpenSSL's turn.                                                         *)
(***************************************************************************)
LEMMA TakenTurn ==
    ASSUME WayType, MailInv, FlightInv, TurnInv, TakeFlight PROVE TurnInv'
<1> SUFFICES ASSUME InDialogue' PROVE TurnInv'
  BY DEF TurnInv
<1>1. /\ UNCHANGED <<at, handle, client, fifo, toHost, started, dropped>> /\ InDialogue
      /\ at = "shake" /\ server.seen \in {"none", "hello"} /\ server \in Servers
      /\ server' = Taken(server, Head(input)) /\ input' = Tail(input)
      /\ input # <<>> /\ input \in Seq(Flights)
  BY DEF TakeFlight, HandshakeOver, openVars, wayVars, sensorVars, vars, usbVars,
         InDialogue, WayType, Servers
<1>2. /\ Head(input) \in Flights
      /\ Fitting(Head(input), started) \/ HasKey(input', started) => HasKey(input, started)
      /\ FlightFits(Head(input), started)
  BY <1>1, RestOfFlights DEF FlightInv
<1> DEFINE m == Reply(server')
           q == Append(Mail, m)
<1>3. /\ server' \in Servers /\ server'.seen # "none"
      /\ m \in Replies /\ Mail' = q /\ Mail \in Seq(Messages)
      /\ m.conn = server'.conn
  BY TakenMail, MailRange
<1>4. /\ server'.seen = "hello" => m.kind = "parts"
      /\ server'.seen = "key" => m.kind = "finished"
  BY DEF Reply
<1>5. /\ Len(Mail) \in Nat /\ Len(q) = Len(Mail) + 1 /\ q # <<>>
      /\ q[Len(Mail) + 1] = m
      /\ \A i \in 1..Len(Mail) : q[i] = Mail[i]
      /\ Mail = <<>> <=> Len(Mail) = 0
  <2>1. m \in Messages
    BY <1>3 DEF Messages
  <2> QED
    BY <1>3, <2>1, AppendRange, EmptySeq
<1>6. Len(q) = 1 => Mail = <<>>
  BY <1>5
<1> HIDE DEF q, m
<1>7. ~KeyUnderWay => ~KeyUnderWay' /\ ~Fitting(Head(input), started)
  BY <1>1, <1>2 DEF KeyUnderWay
<1>8. server'.seen = "key" =>
        /\ server'.conn = server.conn /\ server.seen = "hello"
        /\ Fitting(Head(input), started) /\ server'.conn = started
  BY <1>1, <1>2, TakenTyped DEF Fitting, FlightFits
<1>9. server'.seen = "hello" => server.seen = "none"
  BY <1>1 DEF Taken
<1>10. ASSUME server'.seen = "hello" PROVE AfterHello'
  <2>1. BeforeHello
    BY <1>1, <1>9, <1>10 DEF TurnInv
  <2>2. q[Len(q)].kind = "parts" /\ ~KeyUnderWay'
    BY <1>4, <1>5, <1>7, <1>10, <2>1 DEF BeforeHello
  <2>3. ASSUME Len(q) = 1 PROVE client.seen = "init"
    <3>1. Mail = <<>>
      BY <1>6, <2>3
    <3> QED
      BY <2>1, <3>1 DEF BeforeHello
  <2>4. ASSUME Len(q) > 1 PROVE q[Len(q) - 1].kind = "init"
    <3>1. Mail # <<>> /\ Len(q) - 1 = Len(Mail) /\ Len(Mail) \in 1..Len(Mail)
      BY <1>5, <2>4
    <3>2. q[Len(q) - 1] = Mail[Len(Mail)]
      BY <1>5, <3>1
    <3> QED
      BY <2>1, <3>1, <3>2 DEF BeforeHello
  <2> QED
    BY <1>1, <1>3, <1>5, <2>2, <2>3, <2>4 DEF AfterHello
<1>11. ASSUME server'.seen = "key" PROVE AfterKey'
  <2>1. AfterHello /\ KeyUnderWay
    BY <1>1, <1>7, <1>8, <1>11 DEF TurnInv
  <2>2. Mail = <<>> /\ client.seen = "parts"
    BY <2>1 DEF AfterHello
  <2>3. client.conn = started
    <3>1. HasKey(toHost, started) \/ HasKey(fifo, started) \/ HasKey(input, started)
      BY <2>1 DEF KeyUnderWay
    <3>2. NoInit
      BY <3>1 DEF FlightInv, KeyMade
    <3> QED
      BY <2>2, <3>2 DEF MailInv, Idle
  <2>4. Len(q) = 1 /\ q[1] = m
    BY <1>5, <2>2
  <2> QED
    BY <1>1, <1>3, <1>4, <1>5, <1>8, <1>11, <2>2, <2>3, <2>4 DEF AfterKey
<1> QED
  BY <1>1, <1>3, <1>10, <1>11 DEF TurnInv

LEMMA TurnStep ==
    ASSUME TypeOK, HoldInv, WayType, PlaceInv, MailInv, FlightInv, TurnInv,
           [BringupNext]_bringupVars
    PROVE  TurnInv'
<1> USE DEF InDialogue, Exchanging
<1>1. CASE ~InDialogue'
  BY <1>1 DEF TurnInv
<1>2. CASE Elsewhere
  <2>1. at' = at /\ at \in Commands(step) /\ step \notin {"preflight", "sensor", "handshake"}
    BY <1>2, ElsewherePlace DEF Elsewhere, openVars, PlaceInv
  <2>2. at = "none"
    BY <2>1 DEF Commands
  <2> QED
    BY <1>1, <2>1, <2>2
<1>3. CASE EnterTalk
  BY <1>1, <1>3 DEF EnterTalk
<1>4. CASE EndSession \/ ForgetAll
  <2>1. at' = at /\ at \in Commands(step) /\ step \in {"stop", "cleanup"}
    BY <1>4 DEF EndSession, StopSession, ForgetAll, CleanUp, openVars, PlaceInv
  <2>2. at = "none"
    BY <2>1 DEF Commands
  <2> QED
    BY <1>1, <2>1, <2>2
<1>5. CASE PowerCycle
  BY <1>1, <1>5 DEF PowerCycle, Replug
<1>6. CASE AskFirst \/ PutToIdle \/ CheckChip \/ ReadOtp
  BY <1>1, <1>6 DEF AskFirst, PutToIdle, CheckChip, ReadOtp, Proceed
<1>7. CASE GiveUp
  BY <1>1, <1>7 DEF GiveUp
<1>8. CASE PrepareConfig \/ Upload \/ ClearTls \/ Break \/ BecomeActive
  BY <1>1, <1>7, <1>8 DEF PrepareConfig, Upload, ClearTls, Following, Break, BecomeActive
<1>9. CASE SendInit
  <2>1. server = NewServer /\ pending = <<>> /\ toSensor \in Seq(Messages) /\ started \in Nat
    BY <1>9 DEF SendInit, Proceed, PlaceInv, Commands, Shaken, Handshaking, CloseSteps, WayType
  <2> DEFINE m == [kind |-> "init", conn |-> started + 1]
             q == Append(toSensor, m)
  <2>2. m \in Messages /\ m.kind = "init"
    BY <2>1 DEF Messages
  <2>3. /\ UNCHANGED <<server, toHost, fifo, input, pending>> /\ at' = "shake"
        /\ started' = started + 1 /\ toSensor' = q
    BY <1>9 DEF SendInit, Proceed, tlsVars, Following
  <2>4. /\ q \in Seq(Messages) /\ q # <<>> /\ Len(q) = Len(toSensor) + 1
        /\ q[Len(toSensor) + 1] = m
    BY <2>1, <2>2, AppendRange
  <2> HIDE DEF q
  <2>5. Mail' = q
    BY <2>1, <2>3, <2>4, ConcatEmptySeq DEF Mail
  <2>6. ~KeyUnderWay'
    BY <2>1, <2>3, OlderFlights DEF KeyUnderWay, FlightInv, WayType
  <2>7. BeforeHello'
    BY <2>2, <2>4, <2>5, <2>6 DEF BeforeHello
  <2> QED
    BY <2>1, <2>3, <2>7 DEF TurnInv, NewServer
<1>10. CASE TakeFlight
  BY <1>10, TakenTurn
<1>11. CASE ReturnFromShake
  <2>1. /\ server' = server /\ client' = client /\ started' = started
        /\ toHost' = toHost /\ fifo' = fifo /\ input' = input /\ dropped' = dropped
        /\ toSensor' = toSensor /\ pending' = pending /\ handle' = handle
        /\ at = "shake"
        /\ server.seen \in {"none", "hello"} => input = <<>>
    BY <1>11
       DEF ReturnFromShake, tlsVars, wayVars, sensorVars, vars, usbVars, HandshakeOver
  <2>2. Mail' = Mail
    BY <2>1 DEF Mail
  <2>3. InDialogue' => InDialogue
    BY <2>1
  <2> QED
    BY <2>1, <2>2, <2>3, TurnKept
<1>12. CASE Flush
  <2>1. Mail' = Mail
    BY <1>12, FlushedMail
  <2>2. /\ at = "flush" /\ handle = "live"
        /\ server' = server /\ client' = client /\ started' = started
        /\ toHost' = toHost /\ fifo' = fifo /\ input' = input /\ dropped' = dropped
    BY <1>12 DEF Flush, Proceed, sensorVars
  <2>3. InDialogue' => InDialogue
    BY <2>2
  <2> QED
    BY <2>1, <2>2, <2>3, TurnKept
<1>13. CASE ReadFlights
  <2>1. /\ at = "wait" /\ at' = "shake" /\ input' = fifo /\ fifo' = <<>>
        /\ UNCHANGED <<server, client, started, toHost, toSensor, pending, dropped, handle>>
    BY <1>13 DEF ReadFlights, wayVars, sensorVars, vars, usbVars
  <2>2. Mail' = Mail
    BY <2>1 DEF Mail
  <2>3. server.seen \in {"none", "hello"}
    BY <2>1 DEF PlaceInv
  <2>4. InDialogue' => InDialogue /\ input = <<>>
    BY <2>1, <2>3 DEF TurnInv
  <2>5. InDialogue' => (FlightUnderWay => FlightUnderWay') /\ (KeyUnderWay' => KeyUnderWay)
    BY <2>1, <2>4, NoFlights DEF FlightUnderWay, KeyUnderWay
  <2>6. InDialogue' => /\ server.seen = "none" => BeforeHello'
                       /\ server.seen = "hello" => AfterHello'
    BY <2>1, <2>2, <2>4, <2>5 DEF TurnInv, BeforeHello, AfterHello
  <2> QED
    BY <2>1, <2>3, <2>6 DEF TurnInv
<1>14. CASE Establish \/ PollAgain
  <2>1. /\ server' = server /\ client' = client /\ started' = started
        /\ toHost' = toHost /\ fifo' = fifo /\ input' = input /\ dropped' = dropped
        /\ toSensor' = toSensor /\ pending' = pending /\ handle' = handle
        /\ at \in {"established", "poll"} /\ at' \notin {"flush", "wait"}
    BY <1>14
       DEF Establish, PollAgain, Proceed, tlsVars, wayVars, sensorVars, vars, usbVars
  <2>2. Mail' = Mail
    BY <2>1 DEF Mail
  <2>3. InDialogue' => InDialogue
    BY <2>1
  <2> QED
    BY <2>1, <2>2, <2>3, TurnKept
<1>15. CASE ReceiveFlight
  <2>1. /\ UNCHANGED <<at, handle, server, client, started, toSensor, pending, input>>
        /\ toHost # <<>> /\ toHost' = Tail(toHost)
        /\ \/ fifo' = Append(fifo, Head(toHost)) /\ dropped' = dropped
           \/ fifo' = fifo /\ dropped' = TRUE
    BY <1>15 DEF ReceiveFlight, openVars, sensorVars, vars, usbVars
  <2>2. toHost \in Seq(Flights) /\ fifo \in Seq(Flights)
    BY DEF WayType
  <2>3. Head(toHost) \in Flights
        /\ (Fitting(Head(toHost), started) \/ HasKey(toHost', started)
              => HasKey(toHost, started))
    BY <2>1, <2>2, RestOfFlights
  <2>4. KeyUnderWay' => KeyUnderWay
    BY <2>1, <2>2, <2>3, MoreFlights DEF KeyUnderWay
  <2>5. FlightUnderWay'
    BY <2>1, <2>2, <2>3, AppendProperties, EmptySeq DEF FlightUnderWay
  <2>6. Mail' = Mail
    BY <2>1 DEF Mail
  <2>7. InDialogue' = InDialogue
    BY <2>1
  <2>8. /\ BeforeHello => BeforeHello'
        /\ AfterHello => AfterHello'
        /\ AfterKey => AfterKey'
    BY <2>1, <2>4, <2>5, <2>6 DEF BeforeHello, AfterHello, AfterKey
  <2> QED
    BY <2>1, <2>7, <2>8 DEF TurnInv
<1>16. CASE SensorHandles
  BY <1>16, HandledTurn
<1>17. CASE Rest \/ UNCHANGED bringupVars
  <2>1. /\ server' = server /\ client' = client /\ started' = started
        /\ toHost' = toHost /\ fifo' = fifo /\ input' = input /\ dropped' = dropped
        /\ toSensor' = toSensor /\ pending' = pending /\ handle' = handle /\ at' = at
    BY <1>17 DEF Rest, bringupVars, tlsVars, wayVars, sensorVars, openVars, vars, usbVars
  <2>2. Mail' = Mail
    BY <2>1 DEF Mail
  <2>3. InDialogue' => InDialogue
    BY <2>1
  <2> QED
    BY <2>1, <2>2, <2>3, TurnKept
<1> QED
  BY <1>2, <1>3, <1>4, <1>5, <1>6, <1>8, <1>9, <1>10, <1>11, <1>12, <1>13, <1>14, <1>15,
     <1>16, <1>17 DEF BringupNext, Talking

LEMMA TurnHolds ==
    ASSUME WayType, PlaceInv, TurnInv PROVE HandshakeNeverStalls
<1> SUFFICES ASSUME handle = "live", ~dropped
             PROVE  /\ at = "wait" => fifo # <<>> \/ toHost # <<>> \/ toSensor # <<>>
                    /\ at \in {"established", "poll"} =>
                         client.seen = "connected" \/ toSensor # <<>>
  BY DEF HandshakeNeverStalls
<1>1. ASSUME at \in {"wait", "established", "poll"}
      PROVE  Mail = toSensor /\ toSensor \in Seq(Messages)
  <2>1. pending = <<>>
    <3>1. at \in Commands(step)
      BY DEF PlaceInv
    <3>2. step \notin CloseSteps
      BY <1>1, <3>1 DEF Commands, CloseSteps
    <3> QED
      BY <1>1, <3>2 DEF PlaceInv
  <2> QED
    BY <2>1, ConcatEmptySeq DEF Mail, WayType
<1>2. ASSUME at = "wait" PROVE fifo # <<>> \/ toHost # <<>> \/ toSensor # <<>>
  <2>1. server.seen \in {"none", "hello"}
    BY <1>2 DEF PlaceInv
  <2>2. Mail # <<>> \/ FlightUnderWay
    BY <1>2, <2>1 DEF TurnInv, InDialogue, Exchanging, BeforeHello, AfterHello
  <2>3. input = <<>>
    BY <1>2, <2>1 DEF TurnInv, InDialogue, Exchanging
  <2> QED
    BY <1>1, <1>2, <2>2, <2>3 DEF FlightUnderWay
<1>3. ASSUME at \in {"established", "poll"}
      PROVE  client.seen = "connected" \/ toSensor # <<>>
  <2>1. server.seen = "key"
    BY <1>3 DEF PlaceInv
  <2>2. AfterKey
    BY <1>3, <2>1 DEF TurnInv, InDialogue
  <2> QED
    BY <1>1, <1>3, <2>2 DEF AfterKey
<1> QED
  BY <1>2, <1>3

(***************************************************************************)
(* While nothing is lost the handshake goes on: whenever the driver waits, *)
(* a flight is on its way or the sensor has something to answer, although  *)
(* flights and messages of earlier opens may still be under way.           *)
(***************************************************************************)
THEOREM HandshakeGoesOn == BringupSpec => []HandshakeNeverStalls
<1> DEFINE Inv == WayType /\ PlaceInv /\ MailInv /\ FlightInv /\ AgreeInv /\ TurnInv
<1>1. BringupInit => Inv /\ TypeOK /\ HoldInv
  <2>1. BringupInit => TurnInv
    BY DEF BringupInit, TurnInv, InDialogue, Exchanging
  <2> QED
    BY <2>1, AgreementInit, TypeInit, HoldInit DEF BringupInit
<1>2. /\ Inv /\ TypeOK /\ HoldInv
      /\ [BringupNext]_bringupVars
      => (Inv /\ TypeOK /\ HoldInv)'
  BY BringupStep, TypeStep, HoldStep, WayTypeStep, PlaceStep, MailStep, FlightStep,
     AgreeStep, TurnStep
<1>3. Inv => HandshakeNeverStalls
  BY TurnHolds
<1> QED
  BY <1>1, <1>2, <1>3, PTL DEF BringupSpec

-----------------------------------------------------------------------------
(***************************************************************************)
(* What damage to the memory can do.                                       *)
(*                                                                         *)
(* The checksum is linear: what two memories differ by runs through the    *)
(* same register as they do.  A memory that still fits its checksum after  *)
(* some bits flipped would have to bring that register back to nought, and *)
(* neither one wrong byte nor two wrong bits where the DAC values are can  *)
(* do so.  A copy that the driver takes for sound is therefore undamaged,  *)
(* and where no checksum fits, copies that agree are.                      *)
(***************************************************************************)

(***************************************************************************)
(* Recursion over 0..n: what is taken turn by turn is defined.             *)
(***************************************************************************)
LEMMA SetInduction ==
    ASSUME NEW S, 0 \in S, \A n \in Nat : n \in S => n + 1 \in S
    PROVE  Nat \subseteq S
<1> SUFFICES ASSUME Nat \ S # {} PROVE FALSE
  OBVIOUS
<1> DEFINE R == {ss \in Nat \X Nat : ss[1] < ss[2]}
<1>1. IsWellFoundedOn(R, Nat)
  BY NatLessThanWellFounded DEF OpToRel
<1>2. PICK x \in Nat \ S : \A y \in Nat \ S : ~ (<<y, x>> \in R)
  <2> HIDE DEF R
  <2>1. Nat \ S \subseteq Nat
    OBVIOUS
  <2> QED
    BY <1>1, <2>1, WFMin
<1>3. x # 0
  OBVIOUS
<1>4. x - 1 \in Nat /\ x - 1 < x /\ x - 1 + 1 = x
  BY <1>3
<1>5. x - 1 \in S
  BY <1>2, <1>4
<1> QED
  BY <1>4, <1>5

(***************************************************************************)
(* Recursion over 0..n with a turn that is a function.                     *)
(***************************************************************************)
Steps(h, first, turn, n) ==
    h = [i \in 0..n |-> IF i = 0 THEN first ELSE turn[i][h[i - 1]]]

LEMMA StepsExist ==
    ASSUME NEW first, NEW turn, NEW n \in Nat
    PROVE  \E h : Steps(h, first, turn, n)
<1> DEFINE S == {k \in Nat : \E g : Steps(g, first, turn, k)}
<1>1. 0 \in S
  <2> DEFINE h == [i \in 0..0 |-> first]
  <2>1. Steps(h, first, turn, 0)
    BY DEF Steps
  <2> QED
    BY <2>1
<1>2. ASSUME NEW k \in Nat, k \in S PROVE k + 1 \in S
  <2>1. PICK g : Steps(g, first, turn, k)
    BY <1>2
  <2> DEFINE h == [i \in 0..(k + 1) |-> IF i = k + 1 THEN turn[k + 1][g[k]] ELSE g[i]]
  <2>2. \A i \in 0..k : h[i] = g[i] /\ i \in 0..(k + 1) /\ i # k + 1
    OBVIOUS
  <2>3. \A i \in 0..k : g[i] = IF i = 0 THEN first ELSE turn[i][g[i - 1]]
    BY <2>1 DEF Steps
  <2>4. ASSUME NEW i \in 0..(k + 1)
        PROVE  h[i] = IF i = 0 THEN first ELSE turn[i][h[i - 1]]
    <3>1. CASE i = k + 1
      <4>1. h[i] = turn[i][g[k]] /\ i # 0 /\ i - 1 = k /\ k \in 0..k
        BY <3>1
      <4> QED
        BY <2>2, <4>1
    <3>2. CASE i \in 0..k
      <4>1. i # 0 => i - 1 \in 0..k
        BY <3>2
      <4> QED
        BY <2>2, <2>3, <3>2, <4>1
    <3> QED
      BY <3>1, <3>2
  <2>5. h = [i \in 0..(k + 1) |-> h[i]]
    OBVIOUS
  <2> HIDE DEF h
  <2>6. Steps(h, first, turn, k + 1)
    BY <2>4, <2>5 DEF Steps
  <2> QED
    BY <2>6
<1> HIDE DEF S
<1>3. Nat \subseteq S
  BY <1>1, <1>2, SetInduction
<1> QED
  BY <1>3 DEF S

LEMMA StepsTyped ==
    ASSUME NEW T, NEW first \in T, NEW n \in Nat, NEW turn \in [1..n -> [T -> T]]
    PROVE  \E h \in [0..n -> T] :
              /\ h[0] = first
              /\ \A i \in 1..n : h[i] = turn[i][h[i - 1]]
<1>1. PICK h : Steps(h, first, turn, n)
  BY StepsExist
<1> DEFINE S == {k \in Nat : k <= n => h[k] \in T}
<1>2. /\ h[0] = first
      /\ \A i \in 1..n : h[i] = turn[i][h[i - 1]]
      /\ h = [i \in 0..n |-> h[i]]
  BY <1>1 DEF Steps
<1>3. 0 \in S
  BY <1>2
<1>4. ASSUME NEW k \in Nat, k \in S PROVE k + 1 \in S
  <2> SUFFICES ASSUME k + 1 <= n PROVE h[k + 1] \in T
    OBVIOUS
  <2>1. k + 1 \in 1..n /\ h[k] \in T /\ (k + 1) - 1 = k
    BY <1>4
  <2>2. h[k + 1] = turn[k + 1][h[k]]
    BY <1>2, <2>1
  <2> QED
    BY <2>1, <2>2
<1> HIDE DEF S
<1>5. Nat \subseteq S
  BY <1>3, <1>4, SetInduction
<1>6. \A i \in 0..n : h[i] \in T
  BY <1>5 DEF S
<1> QED
  BY <1>2, <1>6

(***************************************************************************)
(* Bytes and their bits.                                                   *)
(***************************************************************************)
LEMMA Powers ==
    /\ 2^0 = 1 /\ 2^1 = 2 /\ 2^2 = 4 /\ 2^3 = 8 /\ 2^4 = 16 /\ 2^5 = 32 /\ 2^6 = 64
    /\ 2^7 = 128
<1>1. 2^0 = 1
  OBVIOUS
<1>2. 2^1 = 2
  OBVIOUS
<1>3. 2^2 = 4
  OBVIOUS
<1>4. 2^3 = 8
  OBVIOUS
<1>5. 2^4 = 16
  OBVIOUS
<1>6. 2^5 = 32
  OBVIOUS
<1>7. 2^6 = 64
  OBVIOUS
<1>8. 2^7 = 128
  OBVIOUS
<1> QED
  BY <1>1, <1>2, <1>3, <1>4, <1>5, <1>6, <1>7, <1>8

LEMMA EachBit ==
    \A i \in 0..7 : i = 0 \/ i = 1 \/ i = 2 \/ i = 3 \/ i = 4 \/ i = 5 \/ i = 6 \/ i = 7
OBVIOUS

LEMMA BitsOfByte ==
    ASSUME NEW b \in Byte
    PROVE  /\ BitOf(b, 0) = b % 2 /\ BitOf(b, 1) = (b \div 2) % 2
           /\ BitOf(b, 2) = (b \div 4) % 2 /\ BitOf(b, 3) = (b \div 8) % 2
           /\ BitOf(b, 4) = (b \div 16) % 2 /\ BitOf(b, 5) = (b \div 32) % 2
           /\ BitOf(b, 6) = (b \div 64) % 2 /\ BitOf(b, 7) = (b \div 128) % 2
<1>1. b \div 1 = b
  BY DEF Byte
<1> QED
  BY <1>1, Powers DEF BitOf

Sum(d) == d[0] + 2 * d[1] + 4 * d[2] + 8 * d[3] + 16 * d[4] + 32 * d[5] + 64 * d[6] + 128 * d[7]

(***************************************************************************)
(* A byte is the sum of its bits, and these are the bits of the sum.       *)
(***************************************************************************)
LEMMA SumOfBits ==
    ASSUME NEW b \in Byte
    PROVE  /\ b = Sum([i \in 0..7 |-> BitOf(b, i)])
           /\ \A i \in 0..7 : BitOf(b, i) \in 0..1
<1> DEFINE d == [i \in 0..7 |-> BitOf(b, i)]
<1>1. /\ b % 2 \in 0..1 /\ (b \div 2) % 2 \in 0..1
      /\ (b \div 4) % 2 \in 0..1 /\ (b \div 8) % 2 \in 0..1
      /\ (b \div 16) % 2 \in 0..1 /\ (b \div 32) % 2 \in 0..1
      /\ (b \div 64) % 2 \in 0..1 /\ (b \div 128) % 2 \in 0..1
      /\ b = (b % 2) + 2 * ((b \div 2) % 2) + 4 * ((b \div 4) % 2) + 8 * ((b \div 8) % 2)
               + 16 * ((b \div 16) % 2) + 32 * ((b \div 32) % 2) + 64 * ((b \div 64) % 2)
               + 128 * ((b \div 128) % 2)
  BY DEF Byte
<1>2. \A i \in 0..7 : BitOf(b, i) \in 0..1
  BY <1>1, BitsOfByte, EachBit
<1>3. /\ d[0] = BitOf(b, 0) /\ d[1] = BitOf(b, 1) /\ d[2] = BitOf(b, 2) /\ d[3] = BitOf(b, 3)
      /\ d[4] = BitOf(b, 4) /\ d[5] = BitOf(b, 5) /\ d[6] = BitOf(b, 6) /\ d[7] = BitOf(b, 7)
  OBVIOUS
<1> HIDE DEF d
<1>4. b = Sum(d)
  BY <1>1, <1>3, BitsOfByte DEF Sum
<1> QED
  BY <1>2, <1>4 DEF d

LEMMA BitsOfSum ==
    ASSUME NEW d \in [0..7 -> 0..1]
    PROVE  Sum(d) \in Byte /\ \A i \in 0..7 : BitOf(Sum(d), i) = d[i]
<1>1. PICK d0 \in 0..1 : d0 = d[0]
  OBVIOUS
<1>2. PICK d1 \in 0..1 : d1 = d[1]
  OBVIOUS
<1>3. PICK d2 \in 0..1 : d2 = d[2]
  OBVIOUS
<1>4. PICK d3 \in 0..1 : d3 = d[3]
  OBVIOUS
<1>5. PICK d4 \in 0..1 : d4 = d[4]
  OBVIOUS
<1>6. PICK d5 \in 0..1 : d5 = d[5]
  OBVIOUS
<1>7. PICK d6 \in 0..1 : d6 = d[6]
  OBVIOUS
<1>8. PICK d7 \in 0..1 : d7 = d[7]
  OBVIOUS
<1>9. PICK s : s = Sum(d)
  OBVIOUS
<1>10. s = d0 + 2 * d1 + 4 * d2 + 8 * d3 + 16 * d4 + 32 * d5 + 64 * d6 + 128 * d7
  BY <1>1, <1>2, <1>3, <1>4, <1>5, <1>6, <1>7, <1>8, <1>9 DEF Sum
<1>11. s \in 0..255
  BY <1>10
<1>12. s % 2 = d0
  <2> DEFINE low == 0
             high == d1 + 2 * d2 + 4 * d3 + 8 * d4 + 16 * d5 + 32 * d6 + 64 * d7
  <2>1. low \in Nat /\ low < 1 /\ high \in Nat /\ s = low + 1 * d0 + 2 * high
    BY <1>10
  <2> HIDE DEF low, high
  <2>2. s = d0 + 2 * high
    BY <2>1
  <2> QED
    BY <2>1, <2>2
<1>13. (s \div 2) % 2 = d1
  <2> DEFINE low == d0
             high == d2 + 2 * d3 + 4 * d4 + 8 * d5 + 16 * d6 + 32 * d7
  <2>1. low \in Nat /\ low < 2 /\ high \in Nat /\ s = low + 2 * d1 + 4 * high
    BY <1>10
  <2> HIDE DEF low, high
  <2>2. s \div 2 = d1 + 2 * high
    BY <2>1
  <2> QED
    BY <2>1, <2>2
<1>14. (s \div 4) % 2 = d2
  <2> DEFINE low == d0 + 2 * d1
             high == d3 + 2 * d4 + 4 * d5 + 8 * d6 + 16 * d7
  <2>1. low \in Nat /\ low < 4 /\ high \in Nat /\ s = low + 4 * d2 + 8 * high
    BY <1>10
  <2> HIDE DEF low, high
  <2>2. s \div 4 = d2 + 2 * high
    BY <2>1
  <2> QED
    BY <2>1, <2>2
<1>15. (s \div 8) % 2 = d3
  <2> DEFINE low == d0 + 2 * d1 + 4 * d2
             high == d4 + 2 * d5 + 4 * d6 + 8 * d7
  <2>1. low \in Nat /\ low < 8 /\ high \in Nat /\ s = low + 8 * d3 + 16 * high
    BY <1>10
  <2> HIDE DEF low, high
  <2>2. s \div 8 = d3 + 2 * high
    BY <2>1
  <2> QED
    BY <2>1, <2>2
<1>16. (s \div 16) % 2 = d4
  <2> DEFINE low == d0 + 2 * d1 + 4 * d2 + 8 * d3
             high == d5 + 2 * d6 + 4 * d7
  <2>1. low \in Nat /\ low < 16 /\ high \in Nat /\ s = low + 16 * d4 + 32 * high
    BY <1>10
  <2> HIDE DEF low, high
  <2>2. s \div 16 = d4 + 2 * high
    BY <2>1
  <2> QED
    BY <2>1, <2>2
<1>17. (s \div 32) % 2 = d5
  <2> DEFINE low == d0 + 2 * d1 + 4 * d2 + 8 * d3 + 16 * d4
             high == d6 + 2 * d7
  <2>1. low \in Nat /\ low < 32 /\ high \in Nat /\ s = low + 32 * d5 + 64 * high
    BY <1>10
  <2> HIDE DEF low, high
  <2>2. s \div 32 = d5 + 2 * high
    BY <2>1
  <2> QED
    BY <2>1, <2>2
<1>18. (s \div 64) % 2 = d6
  <2> DEFINE low == d0 + 2 * d1 + 4 * d2 + 8 * d3 + 16 * d4 + 32 * d5
             high == d7
  <2>1. low \in Nat /\ low < 64 /\ high \in Nat /\ s = low + 64 * d6 + 128 * high
    BY <1>10
  <2> HIDE DEF low, high
  <2>2. s \div 64 = d6 + 2 * high
    BY <2>1
  <2> QED
    BY <2>1, <2>2
<1>19. (s \div 128) % 2 = d7
  <2> DEFINE low == d0 + 2 * d1 + 4 * d2 + 8 * d3 + 16 * d4 + 32 * d5 + 64 * d6
             high == 0
  <2>1. low \in Nat /\ low < 128 /\ high \in Nat /\ s = low + 128 * d7 + 256 * high
    BY <1>10
  <2> HIDE DEF low, high
  <2>2. s \div 128 = d7 + 2 * high
    BY <2>1
  <2> QED
    BY <2>1, <2>2
<1>20. s \in Byte
  BY <1>11 DEF Byte
<1>21. /\ BitOf(s, 0) = d[0] /\ BitOf(s, 1) = d[1] /\ BitOf(s, 2) = d[2] /\ BitOf(s, 3) = d[3]
       /\ BitOf(s, 4) = d[4] /\ BitOf(s, 5) = d[5] /\ BitOf(s, 6) = d[6] /\ BitOf(s, 7) = d[7]
  BY <1>1, <1>2, <1>3, <1>4, <1>5, <1>6, <1>7, <1>8,
     <1>12, <1>13, <1>14, <1>15, <1>16, <1>17, <1>18, <1>19, <1>20, BitsOfByte
<1> QED
  BY <1>9, <1>20, <1>21, EachBit

LEMMA SameBits ==
    ASSUME NEW a \in Byte, NEW b \in Byte, \A i \in 0..7 : BitOf(a, i) = BitOf(b, i)
    PROVE  a = b
<1>1. [i \in 0..7 |-> BitOf(a, i)] = [i \in 0..7 |-> BitOf(b, i)]
  OBVIOUS
<1> QED
  BY <1>1, SumOfBits

(***************************************************************************)
(* The exclusive or, bit by bit.                                           *)
(***************************************************************************)
Differ(a, b) == [i \in 0..7 |-> IF BitOf(a, i) = BitOf(b, i) THEN 0 ELSE 1]

LEMMA XorIsSum ==
    ASSUME NEW a \in Byte, NEW b \in Byte
    PROVE  Xor[a][b] = Sum(Differ(a, b))
<1> DEFINE term(i) == IF BitOf(a, i - 1) = BitOf(b, i - 1) THEN 0 ELSE 2^(i - 1)
           Is(h) == h = [i \in 0..8 |-> IF i = 0 THEN 0 ELSE h[i - 1] + term(i)]
           sum == CHOOSE h : Is(h)
           turn == [i \in 1..8 |-> [s \in Int |-> s + term(i)]]
<1>1. Xor[a][b] = sum[8]
  BY DEF Xor
<1>2. \A i \in 1..8 : term(i) = (IF BitOf(a, i - 1) = BitOf(b, i - 1) THEN 0 ELSE 2^(i - 1))
  OBVIOUS
<1>3. /\ term(1) = 1 * Differ(a, b)[0] /\ term(2) = 2 * Differ(a, b)[1]
      /\ term(3) = 4 * Differ(a, b)[2] /\ term(4) = 8 * Differ(a, b)[3]
      /\ term(5) = 16 * Differ(a, b)[4] /\ term(6) = 32 * Differ(a, b)[5]
      /\ term(7) = 64 * Differ(a, b)[6] /\ term(8) = 128 * Differ(a, b)[7]
  BY Powers DEF Differ
<1>4. Differ(a, b) \in [0..7 -> 0..1]
  BY DEF Differ
<1>5. \A i \in 1..8 : term(i) \in Int
  <2>1. \A i \in 1..8 : i = 1 \/ i = 2 \/ i = 3 \/ i = 4 \/ i = 5 \/ i = 6 \/ i = 7 \/ i = 8
    OBVIOUS
  <2> HIDE DEF term
  <2> QED
    BY <1>3, <1>4, <2>1
<1> HIDE DEF term
<1>6. \E h : Is(h)
  <2>1. turn \in [1..8 -> [Int -> Int]]
    BY <1>5
  <2> HIDE DEF turn
  <2>2. PICK h \in [0..8 -> Int] : h[0] = 0 /\ \A i \in 1..8 : h[i] = turn[i][h[i - 1]]
    <3> DEFINE T == Int
               n == 8
    <3>1. 0 \in T /\ n \in Nat
      OBVIOUS
    <3>2. turn \in [1..n -> [T -> T]]
      BY <2>1, Zenon
    <3> HIDE DEF T, n
    <3>3. \E h \in [0..n -> T] : h[0] = 0 /\ \A i \in 1..n : h[i] = turn[i][h[i - 1]]
      BY <3>1, <3>2, StepsTyped
    <3> QED
      BY <3>3, Zenon DEF T, n
  <2>3. \A i \in 1..8 : h[i] = h[i - 1] + term(i)
    BY <2>2 DEF turn
  <2>4. \A i \in 0..8 : h[i] = IF i = 0 THEN 0 ELSE h[i - 1] + term(i)
    BY <2>2, <2>3
  <2>5. Is(h)
    BY <2>2, <2>4
  <2> QED
    BY <2>5
<1>7. Is(sum)
  BY <1>6
<1> HIDE DEF sum
<1>8. /\ sum[0] = 0 /\ sum[1] = sum[0] + term(1) /\ sum[2] = sum[1] + term(2)
      /\ sum[3] = sum[2] + term(3) /\ sum[4] = sum[3] + term(4) /\ sum[5] = sum[4] + term(5)
      /\ sum[6] = sum[5] + term(6) /\ sum[7] = sum[6] + term(7) /\ sum[8] = sum[7] + term(8)
  BY <1>7
<1> QED
  BY <1>1, <1>3, <1>4, <1>8 DEF Sum

LEMMA XorBits ==
    ASSUME NEW a \in Byte, NEW b \in Byte
    PROVE  /\ Xor[a][b] \in Byte
           /\ \A i \in 0..7 : BitOf(Xor[a][b], i)
                                = IF BitOf(a, i) = BitOf(b, i) THEN 0 ELSE 1
<1>1. Differ(a, b) \in [0..7 -> 0..1]
  BY DEF Differ
<1> QED
  BY <1>1, XorIsSum, BitsOfSum DEF Differ

LEMMA BitRange == \A b \in Byte : \A i \in 0..7 : BitOf(b, i) \in 0..1
BY SumOfBits

LEMMA BitIsBit == \A b \in Byte : \A i \in 0..7 : BitOf(b, i) = 0 \/ BitOf(b, i) = 1
BY BitRange

LEMMA XorCommutes ==
    ASSUME NEW a \in Byte, NEW b \in Byte PROVE Xor[a][b] = Xor[b][a]
BY XorBits, SameBits

LEMMA XorExchange ==
    ASSUME NEW a \in Byte, NEW b \in Byte, NEW x \in Byte, NEW y \in Byte
    PROVE  Xor[Xor[a][x]][Xor[b][y]] = Xor[Xor[a][b]][Xor[x][y]]
<1> DEFINE ax == Xor[a][x]
           by == Xor[b][y]
           ab == Xor[a][b]
           xy == Xor[x][y]
<1>1. ax \in Byte /\ by \in Byte /\ ab \in Byte /\ xy \in Byte
  BY XorBits
<1>2. Xor[ax][by] \in Byte /\ Xor[ab][xy] \in Byte
  BY <1>1, XorBits
<1>3. ASSUME NEW i \in 0..7 PROVE BitOf(Xor[ax][by], i) = BitOf(Xor[ab][xy], i)
  <2>1. /\ BitOf(ax, i) = IF BitOf(a, i) = BitOf(x, i) THEN 0 ELSE 1
        /\ BitOf(by, i) = IF BitOf(b, i) = BitOf(y, i) THEN 0 ELSE 1
        /\ BitOf(ab, i) = IF BitOf(a, i) = BitOf(b, i) THEN 0 ELSE 1
        /\ BitOf(xy, i) = IF BitOf(x, i) = BitOf(y, i) THEN 0 ELSE 1
    BY XorBits
  <2> HIDE DEF ax, by, ab, xy
  <2>2. /\ BitOf(Xor[ax][by], i) = IF BitOf(ax, i) = BitOf(by, i) THEN 0 ELSE 1
        /\ BitOf(Xor[ab][xy], i) = IF BitOf(ab, i) = BitOf(xy, i) THEN 0 ELSE 1
    BY <1>1, XorBits
  <2> QED
    BY <2>1, <2>2, BitIsBit
<1> QED
  BY <1>2, <1>3, SameBits

LEMMA XorNought ==
    ASSUME NEW a \in Byte
    PROVE  /\ Xor[a][a] = 0
           /\ Xor[a][0] = a /\ Xor[0][a] = a
           /\ \A b \in Byte : Xor[a][b] = 0 => a = b
<1>1. 0 \in Byte /\ \A i \in 0..7 : BitOf(0, i) = 0
  <2>1. 0 \in Byte
    BY DEF Byte
  <2> QED
    BY <2>1, BitsOfByte, EachBit
<1>2. Xor[a][a] = 0
  BY <1>1, XorBits, SameBits
<1>3. Xor[a][0] = a
  <2>1. Xor[a][0] \in Byte
    BY <1>1, XorBits
  <2>2. \A i \in 0..7 : BitOf(Xor[a][0], i) = BitOf(a, i)
    BY <1>1, XorBits, BitIsBit
  <2> QED
    BY <2>1, <2>2, SameBits
<1>4. Xor[0][a] = a
  BY <1>1, <1>3, XorCommutes
<1>5. ASSUME NEW b \in Byte, Xor[a][b] = 0 PROVE a = b
  BY <1>1, <1>5, XorBits, SameBits
<1> QED
  BY <1>2, <1>3, <1>4, <1>5

(***************************************************************************)
(* The division, one bit at a time.                                        *)
(***************************************************************************)
Shift == [l \in Byte |-> IF l < 128 THEN 2 * l ELSE Xor[(2 * l) % 256][7]]

LEMMA ShiftBits ==
    ASSUME NEW l \in Byte
    PROVE  /\ Shift[l] \in Byte
           /\ BitOf(Shift[l], 0) = BitOf(l, 7)
           /\ BitOf(Shift[l], 1) = IF BitOf(l, 0) = BitOf(l, 7) THEN 0 ELSE 1
           /\ BitOf(Shift[l], 2) = IF BitOf(l, 1) = BitOf(l, 7) THEN 0 ELSE 1
           /\ BitOf(Shift[l], 3) = BitOf(l, 2) /\ BitOf(Shift[l], 4) = BitOf(l, 3)
           /\ BitOf(Shift[l], 5) = BitOf(l, 4) /\ BitOf(Shift[l], 6) = BitOf(l, 5)
           /\ BitOf(Shift[l], 7) = BitOf(l, 6)
<1> DEFINE d == (2 * l) % 256
<1>1. l \in 0..255 /\ d \in Byte /\ 7 \in Byte
  BY DEF Byte
<1>2. /\ d % 2 = 0 /\ (d \div 2) % 2 = l % 2 /\ (d \div 4) % 2 = (l \div 2) % 2
      /\ (d \div 8) % 2 = (l \div 4) % 2 /\ (d \div 16) % 2 = (l \div 8) % 2
      /\ (d \div 32) % 2 = (l \div 16) % 2 /\ (d \div 64) % 2 = (l \div 32) % 2
      /\ (d \div 128) % 2 = (l \div 64) % 2
  BY <1>1
<1>3. /\ l < 128 => d = 2 * l /\ (l \div 128) % 2 = 0
      /\ ~(l < 128) => (l \div 128) % 2 = 1
  BY <1>1
<1> HIDE DEF d
<1>4. /\ BitOf(d, 0) = 0 /\ BitOf(d, 1) = BitOf(l, 0) /\ BitOf(d, 2) = BitOf(l, 1)
      /\ BitOf(d, 3) = BitOf(l, 2) /\ BitOf(d, 4) = BitOf(l, 3) /\ BitOf(d, 5) = BitOf(l, 4)
      /\ BitOf(d, 6) = BitOf(l, 5) /\ BitOf(d, 7) = BitOf(l, 6)
  BY <1>1, <1>2, BitsOfByte
<1>5. /\ BitOf(7, 0) = 1 /\ BitOf(7, 1) = 1 /\ BitOf(7, 2) = 1 /\ BitOf(7, 3) = 0
      /\ BitOf(7, 4) = 0 /\ BitOf(7, 5) = 0 /\ BitOf(7, 6) = 0 /\ BitOf(7, 7) = 0
  BY <1>1, BitsOfByte
<1>6. \A i \in 0..7 : BitOf(l, i) = 0 \/ BitOf(l, i) = 1
  BY BitIsBit
<1>7. CASE l < 128
  <2>1. Shift[l] = d /\ BitOf(l, 7) = 0
    BY <1>3, <1>7, BitsOfByte DEF Shift
  <2> QED
    BY <1>1, <1>4, <1>6, <2>1
<1>8. CASE ~(l < 128)
  <2>1. Shift[l] = Xor[d][7] /\ BitOf(l, 7) = 1
    BY <1>3, <1>8, BitsOfByte DEF Shift, d
  <2>2. /\ Xor[d][7] \in Byte
        /\ \A i \in 0..7 : BitOf(Xor[d][7], i) = IF BitOf(d, i) = BitOf(7, i) THEN 0 ELSE 1
    BY <1>1, XorBits
  <2> QED
    BY <1>4, <1>5, <1>6, <2>1, <2>2
<1> QED
  BY <1>7, <1>8

LEMMA ShiftLinear ==
    ASSUME NEW a \in Byte, NEW b \in Byte
    PROVE  Shift[Xor[a][b]] = Xor[Shift[a]][Shift[b]]
<1> DEFINE x == Xor[a][b]
           y == Xor[Shift[a]][Shift[b]]
<1>1. /\ x \in Byte
      /\ \A i \in 0..7 : BitOf(x, i) = IF BitOf(a, i) = BitOf(b, i) THEN 0 ELSE 1
  BY XorBits
<1>2. Shift[a] \in Byte /\ Shift[b] \in Byte
  BY ShiftBits
<1>3. /\ y \in Byte
      /\ \A i \in 0..7 : BitOf(y, i) = IF BitOf(Shift[a], i) = BitOf(Shift[b], i) THEN 0 ELSE 1
  BY <1>2, XorBits
<1> HIDE DEF x, y
<1>4. Shift[x] \in Byte
  BY <1>1, ShiftBits
<1>5. \A c \in Byte, i \in 0..7 : BitOf(c, i) = 0 \/ BitOf(c, i) = 1
  BY BitIsBit
<1>6. /\ BitOf(Shift[x], 0) = BitOf(y, 0) /\ BitOf(Shift[x], 3) = BitOf(y, 3)
      /\ BitOf(Shift[x], 4) = BitOf(y, 4) /\ BitOf(Shift[x], 5) = BitOf(y, 5)
      /\ BitOf(Shift[x], 6) = BitOf(y, 6) /\ BitOf(Shift[x], 7) = BitOf(y, 7)
  BY <1>1, <1>3, ShiftBits
<1>7. BitOf(Shift[x], 1) = BitOf(y, 1)
  BY <1>1, <1>3, <1>5, ShiftBits
<1>8. BitOf(Shift[x], 2) = BitOf(y, 2)
  BY <1>1, <1>3, <1>5, ShiftBits
<1>9. \A i \in 0..7 : BitOf(Shift[x], i) = BitOf(y, i)
  BY <1>6, <1>7, <1>8, EachBit
<1>10. Shift[x] = y
  BY <1>3, <1>4, <1>9, SameBits
<1> QED
  BY <1>10 DEF x, y

LEMMA ShiftNought ==
    /\ Shift[0] = 0
    /\ \A l \in Byte : Shift[l] = 0 => l = 0
<1>1. 0 \in Byte /\ \A i \in 0..7 : BitOf(0, i) = 0
  <2>1. 0 \in Byte
    BY DEF Byte
  <2> QED
    BY <2>1, BitsOfByte, EachBit
<1>2. Shift[0] = 0
  BY <1>1 DEF Shift
<1>3. ASSUME NEW l \in Byte, Shift[l] = 0 PROVE l = 0
  <2>1. BitOf(l, 7) = 0 /\ BitOf(l, 6) = 0 /\ BitOf(l, 5) = 0 /\ BitOf(l, 4) = 0
        /\ BitOf(l, 3) = 0 /\ BitOf(l, 2) = 0
    BY <1>1, <1>3, ShiftBits
  <2>2. BitOf(l, 1) = 0 /\ BitOf(l, 0) = 0
    BY <1>1, <1>3, <2>1, ShiftBits
  <2>3. \A i \in 0..7 : BitOf(l, i) = BitOf(0, i)
    BY <1>1, <2>1, <2>2, EachBit
  <2> QED
    BY <1>1, <2>3, SameBits
<1> QED
  BY <1>2, <1>3

LEMMA ShiftValue ==
    ASSUME NEW l \in Byte
    PROVE  Shift[l] = IF l < 128 THEN 2 * l ELSE 2 * l - 249 - 4 * (l % 4)
<1>1. CASE l < 128
  BY <1>1 DEF Shift
<1>2. CASE ~(l < 128)
  <2>1. PICK d0 \in 0..1 : d0 = BitOf(l, 0)
    BY BitRange
  <2>2. PICK d1 \in 0..1 : d1 = BitOf(l, 1)
    BY BitRange
  <2>3. PICK d2 \in 0..1 : d2 = BitOf(l, 2)
    BY BitRange
  <2>4. PICK d3 \in 0..1 : d3 = BitOf(l, 3)
    BY BitRange
  <2>5. PICK d4 \in 0..1 : d4 = BitOf(l, 4)
    BY BitRange
  <2>6. PICK d5 \in 0..1 : d5 = BitOf(l, 5)
    BY BitRange
  <2>7. PICK d6 \in 0..1 : d6 = BitOf(l, 6)
    BY BitRange
  <2>8. BitOf(l, 7) = 1
    <3>1. (l \div 128) % 2 = 1
      BY <1>2 DEF Byte
    <3> QED
      BY <3>1, BitsOfByte
  <2>9. l = d0 + 2 * d1 + 4 * d2 + 8 * d3 + 16 * d4 + 32 * d5 + 64 * d6 + 128
    <3>1. l = Sum([i \in 0..7 |-> BitOf(l, i)])
      BY SumOfBits
    <3> QED
      BY <2>1, <2>2, <2>3, <2>4, <2>5, <2>6, <2>7, <2>8, <3>1 DEF Sum
  <2>10. PICK s \in Byte : s = Shift[l]
    BY ShiftBits
  <2>11. /\ BitOf(s, 0) = 1 /\ BitOf(s, 1) = 1 - d0 /\ BitOf(s, 2) = 1 - d1
         /\ BitOf(s, 3) = d2 /\ BitOf(s, 4) = d3 /\ BitOf(s, 5) = d4
         /\ BitOf(s, 6) = d5 /\ BitOf(s, 7) = d6
    BY <2>1, <2>2, <2>3, <2>4, <2>5, <2>6, <2>7, <2>8, <2>10, ShiftBits
  <2>12. s = 1 + 2 * (1 - d0) + 4 * (1 - d1) + 8 * d2 + 16 * d3 + 32 * d4 + 64 * d5 + 128 * d6
    <3>1. s = Sum([i \in 0..7 |-> BitOf(s, i)])
      BY SumOfBits
    <3> QED
      BY <2>11, <3>1 DEF Sum
  <2>13. l % 4 = d0 + 2 * d1
    <3> DEFINE q == d2 + 2 * d3 + 4 * d4 + 8 * d5 + 16 * d6 + 32
    <3>1. q \in Int /\ l = (d0 + 2 * d1) + 4 * q
      BY <2>9
    <3> HIDE DEF q
    <3> QED
      BY <3>1
  <2> QED
    BY <1>2, <2>9, <2>10, <2>12, <2>13
<1> QED
  BY <1>1, <1>2

(***************************************************************************)
(* What becomes of the lowest bit, shift after shift: it comes back after  *)
(* 127 of them, and only the first eight are single bits.                  *)
(***************************************************************************)
Orbit ==
    <<1, 2, 4, 8, 16, 32, 64, 128, 7, 14, 28, 56, 112, 224, 199, 137,
      21, 42, 84, 168, 87, 174, 91, 182, 107, 214, 171, 81, 162, 67, 134, 11,
      22, 44, 88, 176, 103, 206, 155, 49, 98, 196, 143, 25, 50, 100, 200, 151,
      41, 82, 164, 79, 158, 59, 118, 236, 223, 185, 117, 234, 211, 161, 69, 138,
      19, 38, 76, 152, 55, 110, 220, 191, 121, 242, 227, 193, 133, 13, 26, 52,
      104, 208, 167, 73, 146, 35, 70, 140, 31, 62, 124, 248, 247, 233, 213, 173,
      93, 186, 115, 230, 203, 145, 37, 74, 148, 47, 94, 188, 127, 254, 251, 241,
      229, 205, 157, 61, 122, 244, 239, 217, 181, 109, 218, 179, 97, 194, 131>>

LEMMA OrbitTurns ==
    /\ \A i \in 0..7 : Orbit[i + 1] = 2^i
    /\ \A n \in 1..127 :
          /\ Orbit[n] \in Byte
          /\ n > 8 => \A i \in 0..7 : Orbit[n] # 2^i
          /\ Shift[Orbit[n]] = Orbit[IF n = 127 THEN 1 ELSE n + 1]
<1>1. /\ Orbit[1] = 1 /\ Orbit[2] = 2 /\ Orbit[3] = 4 /\ Orbit[4] = 8 /\ Orbit[5] = 16
      /\ Orbit[6] = 32 /\ Orbit[7] = 64 /\ Orbit[8] = 128
  BY DEF Orbit
<1>2. \A n \in 1..127 : Orbit[n] \in 0..255
  BY DEF Orbit
<1>3. \A n \in 9..127 : Orbit[n] \notin {1, 2, 4, 8, 16, 32, 64, 128}
  BY DEF Orbit
<1>4. \A n \in 1..127 :
        Orbit[IF n = 127 THEN 1 ELSE n + 1]
          = IF Orbit[n] < 128 THEN 2 * Orbit[n] ELSE 2 * Orbit[n] - 249 - 4 * (Orbit[n] % 4)
  BY DEF Orbit
<1> HIDE DEF Orbit
<1>5. \A i \in 0..7 : Orbit[i + 1] = 2^i
  <2>1. /\ Orbit[0 + 1] = 2^0 /\ Orbit[1 + 1] = 2^1 /\ Orbit[2 + 1] = 2^2 /\ Orbit[3 + 1] = 2^3
        /\ Orbit[4 + 1] = 2^4 /\ Orbit[5 + 1] = 2^5 /\ Orbit[6 + 1] = 2^6
        /\ Orbit[7 + 1] = 2^7
    BY <1>1, Powers
  <2> QED
    BY <2>1, EachBit
<1>6. \A i \in 0..7 : 2^i \in {1, 2, 4, 8, 16, 32, 64, 128}
  BY Powers, EachBit
<1>7. ASSUME NEW n \in 1..127
      PROVE  /\ Orbit[n] \in Byte
             /\ n > 8 => \A i \in 0..7 : Orbit[n] # 2^i
             /\ Shift[Orbit[n]] = Orbit[IF n = 127 THEN 1 ELSE n + 1]
  <2>1. PICK o : o = Orbit[n]
    OBVIOUS
  <2>2. PICK p : p = Orbit[IF n = 127 THEN 1 ELSE n + 1]
    OBVIOUS
  <2>3. p = IF o < 128 THEN 2 * o ELSE 2 * o - 249 - 4 * (o % 4)
    BY <1>4, <2>1, <2>2
  <2>4. o \in Byte
    BY <1>2, <2>1 DEF Byte
  <2>5. n > 8 => \A i \in 0..7 : o # 2^i
    <3>1. n > 8 => o \notin {1, 2, 4, 8, 16, 32, 64, 128}
      <4>1. n > 8 => n \in 9..127
        OBVIOUS
      <4> QED
        BY <1>3, <2>1, <4>1
    <3> QED
      BY <1>6, <3>1
  <2>6. Shift[o] = p
    BY <2>3, <2>4, ShiftValue
  <2> QED
    BY <2>1, <2>2, <2>4, <2>5, <2>6
<1> QED
  BY <1>5, <1>7

(***************************************************************************)
(* The table shifts eight times.                                           *)
(***************************************************************************)
LEMMA TableShifts ==
    ASSUME NEW b \in Byte
    PROVE  \E h \in [0..8 -> Byte] :
              /\ h[0] = b /\ h[8] = Crc8Table[b]
              /\ \A i \in 1..8 : h[i] = Shift[h[i - 1]]
<1> DEFINE Is(h) == h = [i \in 0..8 |->
                           IF i = 0 THEN b
                           ELSE IF h[i - 1] < 128 THEN 2 * h[i - 1]
                           ELSE Xor[(2 * h[i - 1]) % 256][7]]
           left == CHOOSE h : Is(h)
           turn == [i \in 1..8 |-> Shift]
<1>1. Crc8Table[b] = left[8]
  BY DEF Crc8Table
<1>2. Shift \in [Byte -> Byte]
  <2>1. \A l \in Byte : Shift[l] \in Byte
    BY ShiftBits
  <2> QED
    BY <2>1 DEF Shift
<1>3. \E h : Is(h)
  <2>1. turn \in [1..8 -> [Byte -> Byte]]
    BY <1>2
  <2> HIDE DEF turn
  <2>2. PICK h \in [0..8 -> Byte] : h[0] = b /\ \A i \in 1..8 : h[i] = turn[i][h[i - 1]]
    <3> DEFINE n == 8
    <3>1. n \in Nat /\ turn \in [1..n -> [Byte -> Byte]]
      BY <2>1
    <3> HIDE DEF n
    <3>2. \E h \in [0..n -> Byte] : h[0] = b /\ \A i \in 1..n : h[i] = turn[i][h[i - 1]]
      BY <3>1, StepsTyped
    <3> QED
      BY <3>2 DEF n
  <2>3. \A i \in 0..8 : h[i] = IF i = 0 THEN b
                               ELSE IF h[i - 1] < 128 THEN 2 * h[i - 1]
                               ELSE Xor[(2 * h[i - 1]) % 256][7]
    <3>1. \A i \in 1..8 : h[i] = Shift[h[i - 1]] /\ h[i - 1] \in Byte
      BY <2>2 DEF turn
    <3> QED
      BY <2>2, <3>1 DEF Shift
  <2>4. Is(h)
    BY <2>2, <2>3
  <2> QED
    BY <2>4
<1>4. Is(left)
  BY <1>3
<1> HIDE DEF left
<1>5. left[0] = b /\ DOMAIN left = 0..8 /\ left = [i \in 0..8 |-> left[i]]
  BY <1>4
<1>6. ASSUME NEW i \in 1..8, left[i - 1] \in Byte
      PROVE  left[i] = Shift[left[i - 1]] /\ left[i] \in Byte
  <2>1. left[i] = IF left[i - 1] < 128 THEN 2 * left[i - 1]
                  ELSE Xor[(2 * left[i - 1]) % 256][7]
    <3>1. i \in 0..8 /\ i # 0
      OBVIOUS
    <3> QED
      BY <1>4, <3>1
  <2>2. left[i] = Shift[left[i - 1]]
    BY <1>6, <2>1 DEF Shift
  <2> QED
    BY <1>2, <1>6, <2>2
<1>7. /\ left[1] = Shift[left[0]] /\ left[1] \in Byte
      /\ left[2] = Shift[left[1]] /\ left[2] \in Byte
      /\ left[3] = Shift[left[2]] /\ left[3] \in Byte
      /\ left[4] = Shift[left[3]] /\ left[4] \in Byte
      /\ left[5] = Shift[left[4]] /\ left[5] \in Byte
      /\ left[6] = Shift[left[5]] /\ left[6] \in Byte
      /\ left[7] = Shift[left[6]] /\ left[7] \in Byte
      /\ left[8] = Shift[left[7]] /\ left[8] \in Byte
  BY <1>5, <1>6
<1>8. \A i \in 0..8 : left[i] \in Byte
  <2>1. \A i \in 0..8 : i = 8 \/ i \in 0..7
    OBVIOUS
  <2> QED
    BY <1>5, <1>7, <2>1, EachBit
<1>9. \A i \in 1..8 : left[i] = Shift[left[i - 1]]
  BY <1>6, <1>8
<1> QED
  BY <1>1, <1>5, <1>8, <1>9

LEMMA TableLinear ==
    ASSUME NEW a \in Byte, NEW b \in Byte
    PROVE  Crc8Table[Xor[a][b]] = Xor[Crc8Table[a]][Crc8Table[b]]
<1> DEFINE x == Xor[a][b]
<1>1. x \in Byte
  BY XorBits
<1>2. PICK f \in [0..8 -> Byte] :
        f[0] = a /\ f[8] = Crc8Table[a] /\ \A i \in 1..8 : f[i] = Shift[f[i - 1]]
  BY TableShifts
<1>3. PICK g \in [0..8 -> Byte] :
        g[0] = b /\ g[8] = Crc8Table[b] /\ \A i \in 1..8 : g[i] = Shift[g[i - 1]]
  BY TableShifts
<1>4. PICK h \in [0..8 -> Byte] :
        h[0] = x /\ h[8] = Crc8Table[x] /\ \A i \in 1..8 : h[i] = Shift[h[i - 1]]
  BY <1>1, TableShifts
<1>5. h[0] = Xor[f[0]][g[0]]
  BY <1>2, <1>3, <1>4
<1>6. ASSUME NEW i \in 1..8, h[i - 1] = Xor[f[i - 1]][g[i - 1]]
      PROVE  h[i] = Xor[f[i]][g[i]]
  <2>1. f[i - 1] \in Byte /\ g[i - 1] \in Byte
    OBVIOUS
  <2>2. f[i] = Shift[f[i - 1]] /\ g[i] = Shift[g[i - 1]] /\ h[i] = Shift[h[i - 1]]
    BY <1>2, <1>3, <1>4
  <2> QED
    BY <1>6, <2>1, <2>2, ShiftLinear
<1>7. h[1] = Xor[f[1]][g[1]]
  BY <1>5, <1>6
<1>8. h[2] = Xor[f[2]][g[2]]
  BY <1>6, <1>7
<1>9. h[3] = Xor[f[3]][g[3]]
  BY <1>6, <1>8
<1>10. h[4] = Xor[f[4]][g[4]]
  BY <1>6, <1>9
<1>11. h[5] = Xor[f[5]][g[5]]
  BY <1>6, <1>10
<1>12. h[6] = Xor[f[6]][g[6]]
  BY <1>6, <1>11
<1>13. h[7] = Xor[f[7]][g[7]]
  BY <1>6, <1>12
<1>14. h[8] = Xor[f[8]][g[8]]
  BY <1>6, <1>13
<1> QED
  BY <1>2, <1>3, <1>4, <1>14

At(k) == Orbit[(k % 127) + 1]

LEMMA AtTurns ==
    ASSUME NEW k \in Nat
    PROVE  /\ At(k) \in Byte
           /\ Shift[At(k)] = At(k + 1)
           /\ k \in 0..7 => At(k) = 2^k
           /\ k % 127 > 7 => \A i \in 0..7 : At(k) # 2^i
<1> DEFINE n == (k % 127) + 1
<1>1. /\ n \in 1..127
      /\ ((k + 1) % 127) + 1 = IF n = 127 THEN 1 ELSE n + 1
      /\ k \in 0..7 => k % 127 = k
      /\ k % 127 > 7 => n > 8
  OBVIOUS
<1>2. At(k) = Orbit[n] /\ At(k + 1) = Orbit[IF n = 127 THEN 1 ELSE n + 1]
  BY <1>1 DEF At
<1>3. k \in 0..7 => At(k) = Orbit[k + 1]
  BY <1>1 DEF At
<1> HIDE DEF n
<1>4. /\ Orbit[n] \in Byte
      /\ n > 8 => \A i \in 0..7 : Orbit[n] # 2^i
      /\ Shift[Orbit[n]] = Orbit[IF n = 127 THEN 1 ELSE n + 1]
  BY <1>1, OrbitTurns
<1>5. k \in 0..7 => Orbit[k + 1] = 2^k
  BY OrbitTurns
<1>6. k % 127 > 7 => \A i \in 0..7 : At(k) # 2^i
  BY <1>1, <1>2, <1>4
<1>7. k \in 0..7 => At(k) = 2^k
  BY <1>3, <1>5
<1>8. At(k) \in Byte /\ Shift[At(k)] = At(k + 1)
  BY <1>2, <1>4
<1> HIDE DEF At
<1> QED
  BY <1>6, <1>7, <1>8

LEMMA TableTurns ==
    ASSUME NEW k \in Nat PROVE Crc8Table[At(k)] = At(k + 8)
<1>1. PICK h \in [0..8 -> Byte] :
        /\ h[0] = At(k) /\ h[8] = Crc8Table[At(k)]
        /\ \A i \in 1..8 : h[i] = Shift[h[i - 1]]
  BY AtTurns, TableShifts
<1>2. /\ h[1] = Shift[h[0]] /\ h[2] = Shift[h[1]] /\ h[3] = Shift[h[2]] /\ h[4] = Shift[h[3]]
      /\ h[5] = Shift[h[4]] /\ h[6] = Shift[h[5]] /\ h[7] = Shift[h[6]] /\ h[8] = Shift[h[7]]
  BY <1>1
<1>3. \A l \in Nat : Shift[At(l)] = At(l + 1)
  BY AtTurns
<1>4. /\ Shift[At(k)] = At(k + 1) /\ Shift[At(k + 1)] = At(k + 2)
      /\ Shift[At(k + 2)] = At(k + 3) /\ Shift[At(k + 3)] = At(k + 4)
      /\ Shift[At(k + 4)] = At(k + 5) /\ Shift[At(k + 5)] = At(k + 6)
      /\ Shift[At(k + 6)] = At(k + 7) /\ Shift[At(k + 7)] = At(k + 8)
  <2>1. /\ (k + 1) + 1 = k + 2 /\ (k + 2) + 1 = k + 3 /\ (k + 3) + 1 = k + 4
        /\ (k + 4) + 1 = k + 5 /\ (k + 5) + 1 = k + 6 /\ (k + 6) + 1 = k + 7
        /\ (k + 7) + 1 = k + 8 /\ \A j \in 1..8 : k + j \in Nat
    OBVIOUS
  <2>2. /\ Shift[At(k)] = At(k + 1) /\ Shift[At(k + 1)] = At((k + 1) + 1)
        /\ Shift[At(k + 2)] = At((k + 2) + 1) /\ Shift[At(k + 3)] = At((k + 3) + 1)
        /\ Shift[At(k + 4)] = At((k + 4) + 1) /\ Shift[At(k + 5)] = At((k + 5) + 1)
        /\ Shift[At(k + 6)] = At((k + 6) + 1) /\ Shift[At(k + 7)] = At((k + 7) + 1)
    BY <1>3, <2>1
  <2> QED
    BY <2>1, <2>2
<1> QED
  BY <1>1, <1>2, <1>4

LEMMA TableNought ==
    /\ Crc8Table[0] = 0
    /\ \A b \in Byte : Crc8Table[b] \in Byte /\ (Crc8Table[b] = 0 => b = 0)
<1>1. ASSUME NEW b \in Byte
      PROVE  Crc8Table[b] \in Byte /\ (Crc8Table[b] = 0 <=> b = 0)
  <2>1. PICK h \in [0..8 -> Byte] :
          h[0] = b /\ h[8] = Crc8Table[b] /\ \A i \in 1..8 : h[i] = Shift[h[i - 1]]
    BY TableShifts
  <2>2. ASSUME NEW i \in 1..8 PROVE h[i] = 0 <=> h[i - 1] = 0
    <3>1. h[i - 1] \in Byte /\ h[i] = Shift[h[i - 1]]
      BY <2>1
    <3> QED
      BY <3>1, ShiftNought
  <2>3. h[8] = 0 <=> h[0] = 0
    <3>1. /\ h[1] = 0 <=> h[0] = 0
          /\ h[2] = 0 <=> h[1] = 0
          /\ h[3] = 0 <=> h[2] = 0
          /\ h[4] = 0 <=> h[3] = 0
          /\ h[5] = 0 <=> h[4] = 0
          /\ h[6] = 0 <=> h[5] = 0
          /\ h[7] = 0 <=> h[6] = 0
          /\ h[8] = 0 <=> h[7] = 0
      BY <2>2
    <3> QED
      BY <3>1
  <2> QED
    BY <2>1, <2>3
<1>2. 0 \in Byte
  BY DEF Byte
<1> QED
  BY <1>1, <1>2

(***************************************************************************)
(* The checksum is a register that every byte goes into.  What two         *)
(* registers differ by goes the same way, over what their bytes differ by. *)
(***************************************************************************)
Runs(h, data, n) ==
    /\ h \in [0..n -> Byte] /\ h[0] = 0
    /\ \A k \in 1..n : h[k] = Crc8Table[Xor[h[k - 1]][data[k]]]

LEMMA RegisterRuns ==
    ASSUME NEW n \in Nat, NEW data \in [1..n -> Byte]
    PROVE  \E h : Runs(h, data, n) /\ Crc8(data) = 255 - h[n]
<1> DEFINE Is(h) == h = [i \in 0..n |-> IF i = 0 THEN 0 ELSE Crc8Table[Xor[h[i - 1]][data[i]]]]
           left == CHOOSE h : Is(h)
           turn == [i \in 1..n |-> [l \in Byte |-> Crc8Table[Xor[l][data[i]]]]]
<1>1. Len(data) = n
  BY DEF Byte
<1>2. Crc8(data) = 255 - left[n]
  BY <1>1 DEF Crc8
<1>3. \A i \in 1..n : \A l \in Byte : Crc8Table[Xor[l][data[i]]] \in Byte
  <2>1. \A i \in 1..n : data[i] \in Byte
    OBVIOUS
  <2> QED
    BY <2>1, XorBits, TableNought
<1>4. turn \in [1..n -> [Byte -> Byte]]
  BY <1>3
<1>5. \A i \in 1..n : \A l \in Byte : turn[i][l] = Crc8Table[Xor[l][data[i]]]
  OBVIOUS
<1> HIDE DEF turn
<1>6. PICK h \in [0..n -> Byte] : h[0] = 0 /\ \A i \in 1..n : h[i] = turn[i][h[i - 1]]
  <2>1. PICK first \in Byte : first = 0
    BY DEF Byte
  <2>2. \E h \in [0..n -> Byte] :
           h[0] = first /\ \A i \in 1..n : h[i] = turn[i][h[i - 1]]
    BY <1>4, StepsTyped
  <2> QED
    BY <2>1, <2>2
<1>7. \A i \in 1..n : h[i - 1] \in Byte /\ h[i] = Crc8Table[Xor[h[i - 1]][data[i]]]
  <2>1. \A i \in 1..n : i - 1 \in 0..n
    OBVIOUS
  <2> QED
    BY <1>6, <1>5, <2>1
<1>8. \A i \in 0..n : h[i] = IF i = 0 THEN 0 ELSE Crc8Table[Xor[h[i - 1]][data[i]]]
  BY <1>7, <1>6
<1>9. Is(h)
  BY <1>8, <1>6
<1>10. Is(left)
  BY <1>9
<1> HIDE DEF left
<1>11. /\ left = [i \in 0..n |-> left[i]]
      /\ \A i \in 0..n : left[i] = IF i = 0 THEN 0 ELSE Crc8Table[Xor[left[i - 1]][data[i]]]
  BY <1>10
<1> DEFINE S == {k \in Nat : k <= n => left[k] = h[k]}
<1>12. 0 \in S
  BY <1>8, <1>11
<1>13. ASSUME NEW k \in Nat, k \in S PROVE k + 1 \in S
  <2> SUFFICES ASSUME k + 1 <= n PROVE left[k + 1] = h[k + 1]
    OBVIOUS
  <2>1. k + 1 \in 0..n /\ k + 1 # 0 /\ (k + 1) - 1 = k /\ left[k] = h[k]
    BY <1>13
  <2>2. left[k + 1] = Crc8Table[Xor[left[k]][data[k + 1]]]
    BY <1>11, <2>1
  <2>3. h[k + 1] = Crc8Table[Xor[h[k]][data[k + 1]]]
    BY <1>8, <2>1
  <2> QED
    BY <2>1, <2>2, <2>3
<1> HIDE DEF S
<1>14. Nat \subseteq S
  BY <1>12, <1>13, SetInduction
<1>15. left[n] = h[n]
  BY <1>14 DEF S
<1>16. Runs(h, data, n)
  BY <1>7, <1>6 DEF Runs
<1> QED
  BY <1>2, <1>15, <1>16

LEMMA DifferenceRuns ==
    ASSUME NEW n \in Nat, NEW x \in [1..n -> Byte], NEW y \in [1..n -> Byte],
           NEW f, Runs(f, x, n), NEW g, Runs(g, y, n)
    PROVE  Runs([k \in 0..n |-> Xor[f[k]][g[k]]], [k \in 1..n |-> Xor[x[k]][y[k]]], n)
<1> DEFINE d == [k \in 0..n |-> Xor[f[k]][g[k]]]
           e == [k \in 1..n |-> Xor[x[k]][y[k]]]
<1>1. \A k \in 0..n : f[k] \in Byte /\ g[k] \in Byte
  BY DEF Runs
<1>2. d \in [0..n -> Byte]
  BY <1>1, XorBits
<1>3. d[0] = 0
  <2>1. f[0] = 0 /\ g[0] = 0 /\ 0 \in Byte
    BY DEF Runs, Byte
  <2> QED
    BY <2>1, XorNought
<1>4. ASSUME NEW k \in 1..n PROVE d[k] = Crc8Table[Xor[d[k - 1]][e[k]]]
  <2> DEFINE a == f[k - 1]
             b == g[k - 1]
  <2>1. a \in Byte /\ b \in Byte /\ x[k] \in Byte /\ y[k] \in Byte /\ k - 1 \in 0..n
    BY <1>1
  <2>2. d[k] = Xor[Crc8Table[Xor[a][x[k]]]][Crc8Table[Xor[b][y[k]]]]
    BY DEF Runs
  <2>3. d[k - 1] = Xor[a][b] /\ e[k] = Xor[x[k]][y[k]]
    BY <2>1
  <2> HIDE DEF a, b, d, e
  <2>4. Xor[a][x[k]] \in Byte /\ Xor[b][y[k]] \in Byte
    BY <2>1, XorBits
  <2>5. d[k] = Crc8Table[Xor[Xor[a][x[k]]][Xor[b][y[k]]]]
    BY <2>2, <2>4, TableLinear
  <2>6. Xor[Xor[a][x[k]]][Xor[b][y[k]]] = Xor[Xor[a][b]][Xor[x[k]][y[k]]]
    BY <2>1, XorExchange
  <2> QED
    BY <2>3, <2>5, <2>6
<1>5. Runs(d, e, n)
  BY <1>2, <1>3, <1>4 DEF Runs
<1> QED
  BY <1>5

(***************************************************************************)
(* One wrong byte is noticed.                                              *)
(***************************************************************************)
LEMMA OneErrorShows ==
    ASSUME NEW n \in Nat, NEW e \in [1..n -> Byte], NEW d, Runs(d, e, n),
           NEW p \in 1..n, e[p] # 0, \A k \in 1..n : k # p => e[k] = 0
    PROVE  d[n] # 0
<1> DEFINE S == {k \in Nat : k <= n => IF k < p THEN d[k] = 0 ELSE d[k] # 0}
<1>1. 0 \in S
  BY DEF Runs
<1>2. ASSUME NEW k \in Nat, k \in S PROVE k + 1 \in S
  <2> SUFFICES ASSUME k + 1 <= n
               PROVE  IF k + 1 < p THEN d[k + 1] = 0 ELSE d[k + 1] # 0
    OBVIOUS
  <2>1. k + 1 \in 1..n /\ (k + 1) - 1 = k /\ k \in 0..n
    OBVIOUS
  <2>2. d[k] \in Byte /\ e[k + 1] \in Byte /\ d[k + 1] = Crc8Table[Xor[d[k]][e[k + 1]]]
    BY <2>1 DEF Runs
  <2>3. IF k < p THEN d[k] = 0 ELSE d[k] # 0
    BY <1>2
  <2>4. 0 \in Byte
    BY DEF Byte
  <2>5. CASE k + 1 # p
    <3>1. Xor[d[k]][e[k + 1]] = d[k]
      BY <2>1, <2>2, <2>5, XorNought
    <3> QED
      BY <2>2, <2>3, <2>4, <2>5, <3>1, TableNought
  <2>6. CASE k + 1 = p
    <3>1. Xor[d[k]][e[k + 1]] = e[k + 1]
      BY <2>2, <2>3, <2>6, XorNought
    <3> QED
      BY <2>2, <2>6, <3>1, TableNought
  <2> QED
    BY <2>5, <2>6
<1> HIDE DEF S
<1>3. Nat \subseteq S
  BY <1>1, <1>2, SetInduction
<1> QED
  BY <1>3 DEF S

(***************************************************************************)
(* Two wrong bits are noticed, when they are so many bytes apart that the  *)
(* first one has not become a single bit again.                            *)
(***************************************************************************)
Apart == (1..14) \cup (17..30)

TwoErrors(e, n, p, q, i, j) ==
    /\ p < q /\ q - p \in Apart
    /\ e[p] = 2^i /\ e[q] = 2^j
    /\ \A k \in 1..n : k # p /\ k # q => e[k] = 0

LEMMA TwoErrorsShow ==
    ASSUME NEW n \in Nat, NEW e \in [1..n -> Byte], NEW d, Runs(d, e, n),
           NEW p \in 1..n, NEW q \in 1..n, NEW i \in 0..7, NEW j \in 0..7,
           TwoErrors(e, n, p, q, i, j)
    PROVE  d[n] # 0
<1>1. /\ p < q /\ q - p \in Apart /\ e[p] = 2^i /\ e[q] = 2^j
      /\ \A k \in 1..n : k # p /\ k # q => e[k] = 0
  BY DEF TwoErrors
<1> USE <1>1
<1> DEFINE S == {k \in Nat : k <= n =>
                   /\ k < p => d[k] = 0
                   /\ p <= k /\ k < q => d[k] = At(i + 8 * (k - p + 1))
                   /\ q <= k => d[k] # 0}
<1>2. 0 \in S
  BY DEF Runs
<1>3. ASSUME NEW k \in Nat, k \in S PROVE k + 1 \in S
  <2> SUFFICES ASSUME k + 1 <= n
               PROVE  /\ k + 1 < p => d[k + 1] = 0
                      /\ p <= k + 1 /\ k + 1 < q => d[k + 1] = At(i + 8 * (k + 1 - p + 1))
                      /\ q <= k + 1 => d[k + 1] # 0
    OBVIOUS
  <2>1. k + 1 \in 1..n /\ (k + 1) - 1 = k /\ k \in 0..n
    OBVIOUS
  <2>2. d[k] \in Byte /\ e[k + 1] \in Byte /\ d[k + 1] = Crc8Table[Xor[d[k]][e[k + 1]]]
    BY <2>1 DEF Runs
  <2>3. /\ k < p => d[k] = 0
        /\ p <= k /\ k < q => d[k] = At(i + 8 * (k - p + 1))
        /\ q <= k => d[k] # 0
    BY <1>3
  <2>4. 0 \in Byte
    BY DEF Byte
  <2>5. CASE k + 1 < p \/ k + 1 > q
    <3>1. Xor[d[k]][e[k + 1]] = d[k]
      BY <2>1, <2>2, <2>5, XorNought
    <3> QED
      BY <2>2, <2>3, <2>4, <2>5, <3>1, TableNought
  <2>6. CASE k + 1 = p
    <3>1. Xor[d[k]][e[k + 1]] = 2^i
      BY <2>2, <2>3, <2>6, XorNought
    <3>2. d[k + 1] = At(i + 8)
      <4>1. 2^i = At(i) /\ i \in Nat
        <5>1. i \in Nat
          OBVIOUS
        <5> QED
          BY <5>1, AtTurns
      <4>2. Crc8Table[At(i)] = At(i + 8)
        BY <4>1, TableTurns
      <4> QED
        BY <2>2, <3>1, <4>1, <4>2
    <3>3. i + 8 * (k + 1 - p + 1) = i + 8
      BY <2>6
    <3> QED
      BY <2>6, <3>2, <3>3
  <2>7. CASE p < k + 1 /\ k + 1 < q
    <3>1. Xor[d[k]][e[k + 1]] = d[k]
      BY <2>1, <2>2, <2>7, XorNought
    <3>2. i + 8 * (k - p + 1) \in Nat /\ i + 8 * (k - p + 1) + 8 = i + 8 * (k + 1 - p + 1)
      BY <2>7
    <3>3. d[k + 1] = At(i + 8 * (k + 1 - p + 1))
      <4>1. p <= k /\ k < q
        BY <2>7
      <4>2. d[k] = At(i + 8 * (k - p + 1))
        BY <2>3, <4>1
      <4>3. Crc8Table[At(i + 8 * (k - p + 1))] = At(i + 8 * (k - p + 1) + 8)
        BY <3>2, TableTurns
      <4> QED
        BY <2>2, <3>1, <3>2, <4>2, <4>3
    <3> QED
      BY <2>7, <3>3
  <2>8. CASE k + 1 = q
    <3> DEFINE m == i + 8 * (q - p)
    <3>1. d[k] = At(m)
      <4>1. i + 8 * (k - p + 1) = m /\ p <= k /\ k < q
        BY <2>8
      <4> QED
        BY <2>3, <4>1
    <3>2. m \in Nat /\ m % 127 > 7
      <4>1. PICK w \in Apart : w = q - p
        OBVIOUS
      <4>2. w \in Nat /\ ((1 <= w /\ w <= 14) \/ (17 <= w /\ w <= 30))
        BY <4>1 DEF Apart
      <4>3. PICK v : v = i + 8 * w
        OBVIOUS
      <4>4. v \in Nat /\ ((8 <= v /\ v <= 119) \/ (135 < v /\ v <= 247))
        BY <4>2, <4>3
      <4>5. v % 127 > 7
        BY <4>4
      <4> QED
        BY <4>1, <4>3, <4>4, <4>5
    <3> HIDE DEF m
    <3>3. d[k] # e[k + 1]
      BY <2>8, <3>1, <3>2, AtTurns
    <3>4. Xor[d[k]][e[k + 1]] # 0 /\ Xor[d[k]][e[k + 1]] \in Byte
      BY <2>2, <3>3, XorNought, XorBits
    <3> QED
      BY <2>2, <2>8, <3>4, TableNought
  <2> QED
    BY <2>5, <2>6, <2>7, <2>8
<1> HIDE DEF S
<1>4. Nat \subseteq S
  BY <1>2, <1>3, SetInduction
<1> QED
  BY <1>4 DEF S

LEMMA ComplementXor ==
    ASSUME NEW b \in Byte
    PROVE  Xor[b][255 - b] = 255
<1>1. b \in 0..255 /\ 255 - b \in Byte /\ 255 \in Byte
  BY DEF Byte
<1>2. /\ (255 - b) % 2 = 1 - (b % 2)
      /\ ((255 - b) \div 2) % 2 = 1 - ((b \div 2) % 2)
      /\ ((255 - b) \div 4) % 2 = 1 - ((b \div 4) % 2)
      /\ ((255 - b) \div 8) % 2 = 1 - ((b \div 8) % 2)
      /\ ((255 - b) \div 16) % 2 = 1 - ((b \div 16) % 2)
      /\ ((255 - b) \div 32) % 2 = 1 - ((b \div 32) % 2)
      /\ ((255 - b) \div 64) % 2 = 1 - ((b \div 64) % 2)
      /\ ((255 - b) \div 128) % 2 = 1 - ((b \div 128) % 2)
  BY <1>1
<1>3. \A i \in 0..7 : BitOf(255 - b, i) = 1 - BitOf(b, i)
  BY <1>1, <1>2, BitsOfByte, EachBit
<1>4. \A i \in 0..7 : BitOf(255, i) = 1
  BY <1>1, BitsOfByte, EachBit
<1>5. \A i \in 0..7 : BitOf(b, i) # BitOf(255 - b, i)
  BY <1>3, BitIsBit
<1>6. PICK c \in Byte : c = 255 - b
  BY <1>1
<1>7. Xor[b][c] \in Byte /\ \A i \in 0..7 : BitOf(Xor[b][c], i) = 1
  BY <1>5, <1>6, XorBits
<1>8. PICK w \in Byte : w = 255
  BY <1>1
<1>9. Xor[b][c] = w
  <2>1. \A i \in 0..7 : BitOf(Xor[b][c], i) = BitOf(w, i)
    BY <1>4, <1>7, <1>8
  <2> QED
    BY <1>7, <2>1, SameBits
<1> QED
  BY <1>6, <1>8, <1>9

(***************************************************************************)
(* Two codewords whose checksums fit run into the same register.           *)
(***************************************************************************)
LEMMA CodewordRuns ==
    ASSUME NEW n \in Nat, NEW x \in [1..(n + 1) -> Byte],
           Crc8([k \in 1..n |-> x[k]]) = x[n + 1]
    PROVE  \E h : Runs(h, x, n + 1) /\ h[n + 1] = Crc8Table[255]
<1> DEFINE data == [k \in 1..n |-> x[k]]
<1>1. data \in [1..n -> Byte] /\ \A k \in 1..n : data[k] = x[k]
  OBVIOUS
<1>2. Crc8(data) = x[n + 1]
  OBVIOUS
<1> HIDE DEF data
<1>3. PICK h : Runs(h, data, n) /\ Crc8(data) = 255 - h[n]
  BY <1>1, RegisterRuns
<1>4. /\ h \in [0..n -> Byte] /\ h[0] = 0 /\ h[n] \in Byte
      /\ \A k \in 1..n : h[k] = Crc8Table[Xor[h[k - 1]][x[k]]]
  BY <1>1, <1>3 DEF Runs
<1> DEFINE last == Crc8Table[Xor[h[n]][x[n + 1]]]
           g == [k \in 0..(n + 1) |-> IF k = n + 1 THEN last ELSE h[k]]
<1>5. last = Crc8Table[255] /\ last \in Byte
  <2>1. x[n + 1] = 255 - h[n] /\ 255 \in Byte
    BY <1>2, <1>3 DEF Byte
  <2> QED
    BY <1>4, <2>1, ComplementXor, TableNought
<1>6. g \in [0..(n + 1) -> Byte] /\ g[0] = 0 /\ g[n + 1] = last /\ \A k \in 0..n : g[k] = h[k]
  <2> HIDE DEF last
  <2> QED
    BY <1>4, <1>5
<1>7. ASSUME NEW k \in 1..(n + 1) PROVE g[k] = Crc8Table[Xor[g[k - 1]][x[k]]]
  <2> HIDE DEF g
  <2>1. CASE k = n + 1
    <3>1. g[k] = Crc8Table[Xor[h[n]][x[k]]] /\ k - 1 = n /\ g[n] = h[n]
      BY <1>6, <2>1
    <3> QED
      BY <3>1
  <2>2. CASE k # n + 1
    <3>1. k \in 1..n /\ k \in 0..n /\ k - 1 \in 0..n
      BY <2>2
    <3> QED
      BY <1>4, <1>6, <3>1
  <2> QED
    BY <2>1, <2>2
<1> HIDE DEF g, last
<1>8. Runs(g, x, n + 1)
  BY <1>6, <1>7 DEF Runs
<1> QED
  BY <1>5, <1>6, <1>8

LEMMA CodewordsMeet ==
    ASSUME NEW n \in Nat, NEW x \in [1..(n + 1) -> Byte], NEW y \in [1..(n + 1) -> Byte],
           Crc8([k \in 1..n |-> x[k]]) = x[n + 1], Crc8([k \in 1..n |-> y[k]]) = y[n + 1]
    PROVE  \E d : /\ Runs(d, [k \in 1..(n + 1) |-> Xor[x[k]][y[k]]], n + 1)
                  /\ d[n + 1] = 0
<1>1. PICK f : Runs(f, x, n + 1) /\ f[n + 1] = Crc8Table[255]
  BY CodewordRuns
<1>2. PICK g : Runs(g, y, n + 1) /\ g[n + 1] = Crc8Table[255]
  BY CodewordRuns
<1> DEFINE N == n + 1
           d == [k \in 0..N |-> Xor[f[k]][g[k]]]
<1>3. N \in Nat /\ N \in 0..N
  OBVIOUS
<1>4. Crc8Table[255] \in Byte
  <2>1. 255 \in Byte
    BY DEF Byte
  <2> QED
    BY <2>1, TableNought
<1>5. d[N] = Xor[Crc8Table[255]][Crc8Table[255]]
  BY <1>1, <1>2, <1>3
<1>6. d[N] = 0
  BY <1>4, <1>5, XorNought
<1>7. Runs(d, [k \in 1..N |-> Xor[x[k]][y[k]]], N)
  <2>1. Runs(f, x, N) /\ Runs(g, y, N) /\ x \in [1..N -> Byte] /\ y \in [1..N -> Byte]
    BY <1>1, <1>2
  <2> HIDE DEF N
  <2> QED
    BY <1>3, <2>1, DifferenceRuns
<1> QED
  BY <1>6, <1>7

(***************************************************************************)
(* A flipped bit.                                                          *)
(***************************************************************************)
LEMMA FlippedBits ==
    ASSUME NEW b \in Byte, NEW i \in 0..7
    PROVE  /\ Flipped(b, i) \in Byte
           /\ \A k \in 0..7 : BitOf(Flipped(b, i), k)
                                = IF k = i THEN 1 - BitOf(b, i) ELSE BitOf(b, k)
<1> DEFINE d == [k \in 0..7 |-> BitOf(b, k)]
           e == [k \in 0..7 |-> IF k = i THEN 1 - BitOf(b, i) ELSE BitOf(b, k)]
<1>1. d \in [0..7 -> 0..1] /\ b = Sum(d) /\ d[i] = BitOf(b, i)
  BY SumOfBits, BitRange
<1>2. e \in [0..7 -> 0..1] /\ e[i] = 1 - d[i] /\ \A k \in 0..7 : k # i => e[k] = d[k]
  <2>1. BitOf(b, i) \in 0..1 /\ 1 - BitOf(b, i) \in 0..1
    <3>1. BitOf(b, i) \in 0..1
      BY BitRange
    <3> QED
      BY <3>1
  <2>2. \A k \in 0..7 : BitOf(b, k) \in 0..1
    BY BitRange
  <2> QED
    BY <2>1, <2>2
<1> HIDE DEF d, e
<1>3. Flipped(b, i) = Sum(e)
  <2>1. Flipped(b, i) = IF d[i] = 0 THEN b + 2^i ELSE b - 2^i
    BY <1>1 DEF Flipped
  <2>2. d[i] = 0 \/ d[i] = 1
    BY <1>1
  <2>3. /\ d[0] \in 0..1 /\ d[1] \in 0..1 /\ d[2] \in 0..1 /\ d[3] \in 0..1
        /\ d[4] \in 0..1 /\ d[5] \in 0..1 /\ d[6] \in 0..1 /\ d[7] \in 0..1
    BY <1>1
  <2>10. ASSUME i = 0 PROVE Flipped(b, i) = Sum(e)
    <3>1. e[0] = 1 - d[0] /\ e[1] = d[1] /\ e[2] = d[2] /\ e[3] = d[3] /\ e[4] = d[4] /\ e[5] = d[5] /\ e[6] = d[6] /\ e[7] = d[7]
      BY <1>2, <2>10
    <3>2. Flipped(b, i) = IF d[0] = 0 THEN b + 1 ELSE b - 1
      BY <2>1, <2>10, Powers
    <3> QED
      BY <1>1, <2>2, <2>3, <2>10, <3>1, <3>2 DEF Sum
  <2>11. ASSUME i = 1 PROVE Flipped(b, i) = Sum(e)
    <3>1. e[1] = 1 - d[1] /\ e[0] = d[0] /\ e[2] = d[2] /\ e[3] = d[3] /\ e[4] = d[4] /\ e[5] = d[5] /\ e[6] = d[6] /\ e[7] = d[7]
      BY <1>2, <2>11
    <3>2. Flipped(b, i) = IF d[1] = 0 THEN b + 2 ELSE b - 2
      BY <2>1, <2>11, Powers
    <3> QED
      BY <1>1, <2>2, <2>3, <2>11, <3>1, <3>2 DEF Sum
  <2>12. ASSUME i = 2 PROVE Flipped(b, i) = Sum(e)
    <3>1. e[2] = 1 - d[2] /\ e[0] = d[0] /\ e[1] = d[1] /\ e[3] = d[3] /\ e[4] = d[4] /\ e[5] = d[5] /\ e[6] = d[6] /\ e[7] = d[7]
      BY <1>2, <2>12
    <3>2. Flipped(b, i) = IF d[2] = 0 THEN b + 4 ELSE b - 4
      BY <2>1, <2>12, Powers
    <3> QED
      BY <1>1, <2>2, <2>3, <2>12, <3>1, <3>2 DEF Sum
  <2>13. ASSUME i = 3 PROVE Flipped(b, i) = Sum(e)
    <3>1. e[3] = 1 - d[3] /\ e[0] = d[0] /\ e[1] = d[1] /\ e[2] = d[2] /\ e[4] = d[4] /\ e[5] = d[5] /\ e[6] = d[6] /\ e[7] = d[7]
      BY <1>2, <2>13
    <3>2. Flipped(b, i) = IF d[3] = 0 THEN b + 8 ELSE b - 8
      BY <2>1, <2>13, Powers
    <3> QED
      BY <1>1, <2>2, <2>3, <2>13, <3>1, <3>2 DEF Sum
  <2>14. ASSUME i = 4 PROVE Flipped(b, i) = Sum(e)
    <3>1. e[4] = 1 - d[4] /\ e[0] = d[0] /\ e[1] = d[1] /\ e[2] = d[2] /\ e[3] = d[3] /\ e[5] = d[5] /\ e[6] = d[6] /\ e[7] = d[7]
      BY <1>2, <2>14
    <3>2. Flipped(b, i) = IF d[4] = 0 THEN b + 16 ELSE b - 16
      BY <2>1, <2>14, Powers
    <3> QED
      BY <1>1, <2>2, <2>3, <2>14, <3>1, <3>2 DEF Sum
  <2>15. ASSUME i = 5 PROVE Flipped(b, i) = Sum(e)
    <3>1. e[5] = 1 - d[5] /\ e[0] = d[0] /\ e[1] = d[1] /\ e[2] = d[2] /\ e[3] = d[3] /\ e[4] = d[4] /\ e[6] = d[6] /\ e[7] = d[7]
      BY <1>2, <2>15
    <3>2. Flipped(b, i) = IF d[5] = 0 THEN b + 32 ELSE b - 32
      BY <2>1, <2>15, Powers
    <3> QED
      BY <1>1, <2>2, <2>3, <2>15, <3>1, <3>2 DEF Sum
  <2>16. ASSUME i = 6 PROVE Flipped(b, i) = Sum(e)
    <3>1. e[6] = 1 - d[6] /\ e[0] = d[0] /\ e[1] = d[1] /\ e[2] = d[2] /\ e[3] = d[3] /\ e[4] = d[4] /\ e[5] = d[5] /\ e[7] = d[7]
      BY <1>2, <2>16
    <3>2. Flipped(b, i) = IF d[6] = 0 THEN b + 64 ELSE b - 64
      BY <2>1, <2>16, Powers
    <3> QED
      BY <1>1, <2>2, <2>3, <2>16, <3>1, <3>2 DEF Sum
  <2>17. ASSUME i = 7 PROVE Flipped(b, i) = Sum(e)
    <3>1. e[7] = 1 - d[7] /\ e[0] = d[0] /\ e[1] = d[1] /\ e[2] = d[2] /\ e[3] = d[3] /\ e[4] = d[4] /\ e[5] = d[5] /\ e[6] = d[6]
      BY <1>2, <2>17
    <3>2. Flipped(b, i) = IF d[7] = 0 THEN b + 128 ELSE b - 128
      BY <2>1, <2>17, Powers
    <3> QED
      BY <1>1, <2>2, <2>3, <2>17, <3>1, <3>2 DEF Sum
  <2> QED
    BY <2>10, <2>11, <2>12, <2>13, <2>14, <2>15, <2>16, <2>17, EachBit
<1>4. \A k \in 0..7 : e[k] = IF k = i THEN 1 - BitOf(b, i) ELSE BitOf(b, k)
  BY DEF e
<1> QED
  BY <1>2, <1>3, <1>4, BitsOfSum

LEMMA BitsOfPower ==
    ASSUME NEW i \in 0..7
    PROVE  2^i \in Byte /\ \A k \in 0..7 : BitOf(2^i, k) = IF k = i THEN 1 ELSE 0
<1>1. 0 \in Byte /\ \A k \in 0..7 : BitOf(0, k) = 0
  <2>1. 0 \in Byte
    BY DEF Byte
  <2> QED
    BY <2>1, BitsOfByte, EachBit
<1>2. Flipped(0, i) = 2^i
  <2>1. 2^i \in Int
    BY Powers, EachBit
  <2> QED
    BY <1>1, <2>1 DEF Flipped
<1>3. \A k \in 0..7 : BitOf(Flipped(0, i), k) = IF k = i THEN 1 - BitOf(0, i) ELSE BitOf(0, k)
  BY <1>1, FlippedBits
<1>4. Flipped(0, i) \in Byte
  BY <1>1, FlippedBits
<1> QED
  BY <1>1, <1>2, <1>3, <1>4

LEMMA FlipShows ==
    ASSUME NEW b \in Byte, NEW i \in 0..7, NEW j \in 0..7
    PROVE  /\ Flipped(b, i) # b
           /\ Xor[b][Flipped(b, i)] = 2^i
           /\ j # i => Flipped(b, j) # Flipped(b, i) /\ Flipped(Flipped(b, i), j) # b
<1> DEFINE c == Flipped(b, i)
<1>1. /\ c \in Byte
      /\ \A k \in 0..7 : BitOf(c, k) = IF k = i THEN 1 - BitOf(b, i) ELSE BitOf(b, k)
  BY FlippedBits
<1>2. \A k \in 0..7 : BitOf(b, k) = 0 \/ BitOf(b, k) = 1
  BY BitIsBit
<1>3. Flipped(b, j) \in Byte
      /\ \A k \in 0..7 : BitOf(Flipped(b, j), k) = IF k = j THEN 1 - BitOf(b, j) ELSE BitOf(b, k)
  BY FlippedBits
<1> HIDE DEF c
<1>4. BitOf(c, i) # BitOf(b, i)
  BY <1>1, <1>2
<1>5. Xor[b][c] = 2^i
  <2>1. /\ Xor[b][c] \in Byte
        /\ \A k \in 0..7 : BitOf(Xor[b][c], k) = IF k = i THEN 1 ELSE 0
    BY <1>1, <1>4, XorBits
  <2>2. PICK w \in Byte : w = 2^i
    BY BitsOfPower
  <2>3. \A k \in 0..7 : BitOf(w, k) = IF k = i THEN 1 ELSE 0
    BY <2>2, BitsOfPower
  <2>4. Xor[b][c] = w
    BY <2>1, <2>3, SameBits
  <2> QED
    BY <2>2, <2>4
<1>6. ASSUME j # i PROVE Flipped(b, j) # c /\ Flipped(c, j) # b
  <2>1. BitOf(Flipped(b, j), i) = BitOf(b, i)
    BY <1>3, <1>6
  <2>2. BitOf(Flipped(c, j), i) = BitOf(c, i)
    BY <1>1, <1>6, FlippedBits
  <2> QED
    BY <1>4, <2>1, <2>2
<1> QED
  BY <1>4, <1>5, <1>6 DEF c

LEMMA FlipPlaces ==
    ASSUME NEW m \in [Addresses -> Byte], NEW a \in Bits
    PROVE  /\ Flip(m, a) \in [Addresses -> Byte]
           /\ a[1] \in Addresses /\ a[2] \in 0..7
           /\ Flip(m, a)[a[1]] = Flipped(m[a[1]], a[2])
           /\ \A x \in Addresses : x # a[1] => Flip(m, a)[x] = m[x]
<1>1. a[1] \in Addresses /\ a[2] \in 0..7
  BY DEF Bits
<1>2. Flipped(m[a[1]], a[2]) \in Byte
  BY <1>1, FlippedBits
<1> QED
  BY <1>1, <1>2 DEF Flip

DacPlaces == {22, 46, 47, 48, 49, 50, 51, 52, 53, 61, 62, 63}

LEMMA FlipCases ==
    ASSUME NEW m \in [Addresses -> Byte], NEW f \in Flips(m)
    PROVE  \/ f.flips = 0 /\ f.memory = m
           \/ f.flips = 1 /\ \E a \in Bits : f.memory = Flip(m, a)
           \/ /\ f.flips = 2
              /\ \E a, b \in Bits :
                    /\ a[1] \in DacPlaces /\ b[1] \in DacPlaces
                    /\ a # b /\ ~SameOfCopies(a, b)
                    /\ f.memory = Flip(Flip(m, a), b)
<1>1. \A a \in DacBits : a \in Bits /\ a[1] \in DacPlaces
  BY DEF DacBits, Bits, Addresses, OtpSize, MtDacSum, DacPlaces
<1>2. \/ f = [flips |-> 0, memory |-> m]
      \/ \E a \in Bits : f = [flips |-> 1, memory |-> Flip(m, a)]
      \/ \E a \in DacBits : \E b \in DacBits :
            /\ b # a /\ ~SameOfCopies(a, b)
            /\ f = [flips |-> 2, memory |-> Flip(Flip(m, a), b)]
  BY DEF Flips
<1>3. CASE f = [flips |-> 0, memory |-> m]
  BY <1>3
<1>4. CASE \E a \in Bits : f = [flips |-> 1, memory |-> Flip(m, a)]
  BY <1>4
<1>5. CASE \E a \in DacBits : \E b \in DacBits :
            /\ b # a /\ ~SameOfCopies(a, b)
            /\ f = [flips |-> 2, memory |-> Flip(Flip(m, a), b)]
  <2>1. PICK a \in DacBits, b \in DacBits :
          /\ b # a /\ ~SameOfCopies(a, b)
          /\ f = [flips |-> 2, memory |-> Flip(Flip(m, a), b)]
    BY <1>5
  <2>2. f.flips = 2 /\ f.memory = Flip(Flip(m, a), b)
    BY <2>1
  <2> QED
    BY <1>1, <2>1, <2>2
<1> QED
  BY <1>2, <1>3, <1>4, <1>5

(***************************************************************************)
(* A codeword: the addresses that a checksum covers, each once, and its    *)
(* own.  No two of those where two bits may have flipped are too far apart.*)
(***************************************************************************)
Codeword(c, n) ==
    /\ c \in [1..(n + 1) -> Addresses]
    /\ \A p, q \in 1..(n + 1) : p < q => c[p] # c[q]
    /\ \A p, q \in 1..(n + 1) :
          p < q /\ c[p] \in DacPlaces /\ c[q] \in DacPlaces => q - p \in Apart

CodeFits(m, c, n) == Crc8([k \in 1..n |-> m[c[k]]]) = m[c[n + 1]]

LEMMA CodesMeet ==
    ASSUME NEW n \in Nat, NEW c, Codeword(c, n),
           NEW m \in [Addresses -> Byte], NEW w \in [Addresses -> Byte],
           CodeFits(m, c, n), CodeFits(w, c, n)
    PROVE  \E d, e : /\ e \in [1..(n + 1) -> Byte] /\ Runs(d, e, n + 1) /\ d[n + 1] = 0
                     /\ \A k \in 1..(n + 1) : e[k] = Xor[m[c[k]]][w[c[k]]]
<1> DEFINE x == [k \in 1..(n + 1) |-> m[c[k]]]
           y == [k \in 1..(n + 1) |-> w[c[k]]]
           e == [k \in 1..(n + 1) |-> Xor[x[k]][y[k]]]
<1>1. c \in [1..(n + 1) -> Addresses] /\ n + 1 \in 1..(n + 1)
  BY DEF Codeword
<1>2. /\ x \in [1..(n + 1) -> Byte] /\ y \in [1..(n + 1) -> Byte]
      /\ \A k \in 1..(n + 1) : x[k] = m[c[k]] /\ y[k] = w[c[k]]
  BY <1>1
<1>3. [k \in 1..n |-> x[k]] = [k \in 1..n |-> m[c[k]]]
  OBVIOUS
<1>4. [k \in 1..n |-> y[k]] = [k \in 1..n |-> w[c[k]]]
  OBVIOUS
<1>5. Crc8([k \in 1..n |-> x[k]]) = x[n + 1] /\ Crc8([k \in 1..n |-> y[k]]) = y[n + 1]
  BY <1>1, <1>3, <1>4 DEF CodeFits
<1> HIDE DEF x, y
<1>6. PICK d : Runs(d, e, n + 1) /\ d[n + 1] = 0
  BY <1>2, <1>5, CodewordsMeet
<1>7. \A k \in 1..(n + 1) : e[k] = Xor[x[k]][y[k]]
  OBVIOUS
<1>8. e \in [1..(n + 1) -> Byte]
  BY <1>2, XorBits
<1> HIDE DEF e
<1> QED
  BY <1>2, <1>6, <1>7, <1>8

(***************************************************************************)
(* A checksum that fits covers bytes that nothing has happened to.         *)
(***************************************************************************)
LEMMA FittingIsIntact ==
    ASSUME NEW n \in Nat, NEW c, Codeword(c, n),
           NEW m \in [Addresses -> Byte], NEW f \in Flips(m),
           CodeFits(m, c, n), CodeFits(f.memory, c, n)
    PROVE  \A p \in 1..(n + 1) : f.memory[c[p]] = m[c[p]]
<1> DEFINE w == f.memory
           N == n + 1
<1>1. w \in [Addresses -> Byte]
  BY FlipCases, FlipPlaces
<1>2. PICK d, e : /\ e \in [1..N -> Byte] /\ Runs(d, e, N) /\ d[N] = 0
                  /\ \A k \in 1..N : e[k] = Xor[m[c[k]]][w[c[k]]]
  BY <1>1, CodesMeet
<1>3. /\ N \in Nat /\ \A k \in 1..N : c[k] \in Addresses /\ m[c[k]] \in Byte /\ w[c[k]] \in Byte
      /\ \A k, l \in 1..N : k # l => c[k] # c[l]
      /\ \A k, l \in 1..N : k < l /\ c[k] \in DacPlaces /\ c[l] \in DacPlaces => l - k \in Apart
  <2>1. \A k \in 1..N : c[k] \in Addresses
    BY DEF Codeword
  <2>2. \A k \in 1..N : m[c[k]] \in Byte /\ w[c[k]] \in Byte
    BY <1>1, <2>1
  <2>3. \A k, l \in 1..N : k # l => c[k] # c[l]
    <3>1. \A k, l \in 1..N : k # l => k < l \/ l < k
      OBVIOUS
    <3> QED
      BY <3>1 DEF Codeword
  <2> QED
    BY <2>1, <2>2, <2>3 DEF Codeword
<1>4. \A k \in 1..N : e[k] = 0 <=> w[c[k]] = m[c[k]]
  BY <1>2, <1>3, XorNought
<1> HIDE DEF N
<1>5. ASSUME NEW p \in 1..N, w[c[p]] # m[c[p]],
             \A k \in 1..N : k # p => w[c[k]] = m[c[k]]
      PROVE  FALSE
  <2>1. e[p] # 0 /\ \A k \in 1..N : k # p => e[k] = 0
    BY <1>4, <1>5
  <2> QED
    BY <1>2, <1>3, <2>1, OneErrorShows
<1>6. ASSUME NEW p \in 1..N, NEW q \in 1..N, p < q,
             c[p] \in DacPlaces, c[q] \in DacPlaces,
             NEW i \in 0..7, NEW j \in 0..7,
             w[c[p]] = Flipped(m[c[p]], i), w[c[q]] = Flipped(m[c[q]], j),
             \A k \in 1..N : k # p /\ k # q => w[c[k]] = m[c[k]]
      PROVE  FALSE
  <2>1. e[p] = 2^i /\ e[q] = 2^j
    <3>1. m[c[p]] \in Byte /\ m[c[q]] \in Byte
      BY <1>3
    <3>2. Xor[m[c[p]]][Flipped(m[c[p]], i)] = 2^i /\ Xor[m[c[q]]][Flipped(m[c[q]], j)] = 2^j
      BY <3>1, FlipShows
    <3>3. e[p] = Xor[m[c[p]]][w[c[p]]] /\ e[q] = Xor[m[c[q]]][w[c[q]]]
      BY <1>2
    <3> QED
      BY <1>6, <3>2, <3>3
  <2>2. \A k \in 1..N : k # p /\ k # q => e[k] = 0
    BY <1>4, <1>6
  <2>3. q - p \in Apart
    BY <1>3, <1>6
  <2>4. N \in Nat /\ e \in [1..N -> Byte] /\ Runs(d, e, N) /\ d[N] = 0 /\ p < q
    BY <1>2, <1>3, <1>6
  <2>5. TwoErrors(e, N, p, q, i, j)
    BY <2>1, <2>2, <2>3, <2>4 DEF TwoErrors
  <2> QED
    BY <2>4, <2>5, TwoErrorsShow
<1> SUFFICES ASSUME NEW p \in 1..N, w[c[p]] # m[c[p]] PROVE FALSE
  BY DEF N
<1>7. CASE w = m
  BY <1>7
<1>8. CASE \E a \in Bits : w = Flip(m, a)
  <2>1. PICK a \in Bits : w = Flip(m, a)
    BY <1>8
  <2>2. c[p] = a[1] /\ \A k \in 1..N : k # p => w[c[k]] = m[c[k]]
    <3>1. \A x \in Addresses : x # a[1] => w[x] = m[x]
      BY <2>1, FlipPlaces
    <3> QED
      BY <1>3, <3>1
  <2> QED
    BY <1>5, <2>2
<1>9. CASE \E a, b \in Bits :
             /\ a[1] \in DacPlaces /\ b[1] \in DacPlaces
             /\ a # b /\ w = Flip(Flip(m, a), b)
  <2>1. PICK a \in Bits, b \in Bits :
             /\ a[1] \in DacPlaces /\ b[1] \in DacPlaces
             /\ a # b /\ w = Flip(Flip(m, a), b)
    BY <1>9
  <2>2. /\ a[2] \in 0..7 /\ b[2] \in 0..7
        /\ \A x \in Addresses : x # a[1] /\ x # b[1] => w[x] = m[x]
        /\ a[1] # b[1] => w[a[1]] = Flipped(m[a[1]], a[2]) /\ w[b[1]] = Flipped(m[b[1]], b[2])
    BY <2>1, FlipPlaces
  <2>3. c[p] = a[1] \/ c[p] = b[1]
    BY <1>3, <2>2
  <2>4. CASE \A k \in 1..N : k # p => c[k] # a[1] /\ c[k] # b[1]
    BY <1>3, <1>5, <2>2, <2>4
  <2>5. CASE \E q \in 1..N : q # p /\ (c[q] = a[1] \/ c[q] = b[1])
    <3>1. PICK q \in 1..N : q # p /\ (c[q] = a[1] \/ c[q] = b[1])
      BY <2>5
    <3>2. c[p] # c[q] /\ a[1] # b[1]
      BY <1>3, <2>3, <3>1
    <3>3. /\ \A k \in 1..N : k # p /\ k # q => w[c[k]] = m[c[k]]
          /\ c[p] \in DacPlaces /\ c[q] \in DacPlaces
      BY <1>3, <2>1, <2>2, <2>3, <3>1, <3>2
    <3>4. \E i, j \in 0..7 : w[c[p]] = Flipped(m[c[p]], i) /\ w[c[q]] = Flipped(m[c[q]], j)
      BY <2>2, <2>3, <3>1, <3>2
    <3>5. p < q \/ q < p
      BY <3>1
    <3> QED
      BY <1>6, <3>3, <3>4, <3>5
  <2> QED
    BY <2>4, <2>5
<1> QED
  BY <1>7, <1>8, <1>9, FlipCases

(***************************************************************************)
(* The four codewords of the memory.                                       *)
(***************************************************************************)
FtCode == <<11, 12, 13, 14, 15, 16, 17, 18, 19, 28, 50, 51, 52, 53, 56, 57, 58, 59, 62, 61>>
MtCode == <<20, 21, 22, 23, 24, 25, 26, 27, 29, 30, 31, 32, 33, 34, 35,
            40, 41, 42, 43, 44, 45, 46, 47, 48, 49, 54, 55, 63>>
FtDacCode == <<50, 51, 52, 53, 62>>
MtDacCode == <<46, 47, 48, 49, 22>>

LEMMA FtDomainIs == FtDomain = [k \in 1..19 |-> FtCode[k]] /\ Len(FtDomain) = 19
BY DEF FtDomain, FtCode, Run

LEMMA MtDomainIs == MtDomain = [k \in 1..27 |-> MtCode[k]] /\ Len(MtDomain) = 27
BY DEF MtDomain, MtCode, Run

LEMMA FtDacIs == FtDac = [k \in 1..4 |-> FtDacCode[k]] /\ Len(FtDac) = 4
BY DEF FtDac, FtDacCode, Run

LEMMA MtDacIs == MtDac = [k \in 1..4 |-> MtDacCode[k]] /\ Len(MtDac) = 4
BY DEF MtDac, MtDacCode, Run

LEMMA FtCodeword == Codeword(FtCode, 19)
<1>1. FtCode \in [1..(19 + 1) -> Addresses]
  BY DEF FtCode, Addresses, OtpSize
<1>2. \A p, q \in 1..(19 + 1) : p < q => FtCode[p] # FtCode[q]
  BY DEF FtCode
<1>3. \A p, q \in 1..(19 + 1) :
        p < q /\ FtCode[p] \in DacPlaces /\ FtCode[q] \in DacPlaces => q - p \in Apart
  BY DEF FtCode, DacPlaces, Apart
<1> QED
  BY <1>1, <1>2, <1>3 DEF Codeword

LEMMA MtCodeword == Codeword(MtCode, 27)
<1>1. MtCode \in [1..(27 + 1) -> Addresses]
  BY DEF MtCode, Addresses, OtpSize
<1>2. \A p, q \in 1..(27 + 1) : p < q => MtCode[p] # MtCode[q]
  BY DEF MtCode
<1>3. \A p, q \in 1..(27 + 1) :
        p < q /\ MtCode[p] \in DacPlaces /\ MtCode[q] \in DacPlaces => q - p \in Apart
  BY DEF MtCode, DacPlaces, Apart
<1> QED
  BY <1>1, <1>2, <1>3 DEF Codeword

LEMMA FtDacCodeword == Codeword(FtDacCode, 4)
BY DEF Codeword, FtDacCode, Addresses, OtpSize, DacPlaces, Apart

LEMMA MtDacCodeword == Codeword(MtDacCode, 4)
BY DEF Codeword, MtDacCode, Addresses, OtpSize, DacPlaces, Apart

LEMMA SumsAreCodes ==
    ASSUME NEW m \in [Addresses -> Byte]
    PROVE  /\ SumFits(m, FtDomain, FtSum) <=> CodeFits(m, FtCode, 19)
           /\ SumFits(m, MtDomain, MtSum) <=> CodeFits(m, MtCode, 27)
           /\ SumFits(m, FtDac, FtDacSum) <=> CodeFits(m, FtDacCode, 4)
           /\ SumFits(m, MtDac, MtDacSum) <=> CodeFits(m, MtDacCode, 4)
<1>1. Bytes(m, FtDomain) = [k \in 1..19 |-> m[FtCode[k]]]
  BY FtDomainIs DEF Bytes
<1>2. Bytes(m, MtDomain) = [k \in 1..27 |-> m[MtCode[k]]]
  BY MtDomainIs DEF Bytes
<1>3. Bytes(m, FtDac) = [k \in 1..4 |-> m[FtDacCode[k]]]
  BY FtDacIs DEF Bytes
<1>4. Bytes(m, MtDac) = [k \in 1..4 |-> m[MtDacCode[k]]]
  BY MtDacIs DEF Bytes
<1>5. FtCode[19 + 1] = 61 /\ MtCode[27 + 1] = 63 /\ FtDacCode[4 + 1] = 62 /\ MtDacCode[4 + 1] = 22
  BY DEF FtCode, MtCode, FtDacCode, MtDacCode
<1> QED
  BY <1>1, <1>2, <1>3, <1>4, <1>5 DEF SumFits, CodeFits, FtSum, MtSum, FtDacSum, MtDacSum

LEMMA DamagedTyped ==
    ASSUME NEW m \in [Addresses -> Byte], NEW f \in Flips(m)
    PROVE  f.memory \in [Addresses -> Byte]
BY FlipCases, FlipPlaces

LEMMA FactoryTyped ==
    ASSUME NEW m \in Memories PROVE m \in [Addresses -> Byte] /\ Undamaged(m)
BY BringupAssumption, FactoryAssumption

LEMMA DacBytes ==
    ASSUME NEW m \in [Addresses -> Byte]
    PROVE  /\ Bytes(m, FtDac) \in [1..4 -> Int] /\ Bytes(m, MtDac) \in [1..4 -> Int]
           /\ \A i \in 1..4 : Bytes(m, FtDac)[i] = m[49 + i] /\ Bytes(m, MtDac)[i] = m[45 + i]
<1>1. /\ FtDac = [i \in 1..4 |-> 50 + i - 1] /\ Len(FtDac) = 4
      /\ MtDac = [i \in 1..4 |-> 46 + i - 1] /\ Len(MtDac) = 4
  BY DEF FtDac, MtDac, Run
<1>2. /\ Bytes(m, FtDac) = [i \in 1..4 |-> m[FtDac[i]]]
      /\ Bytes(m, MtDac) = [i \in 1..4 |-> m[MtDac[i]]]
  BY <1>1 DEF Bytes
<1>3. \A i \in 1..4 : FtDac[i] = 49 + i /\ MtDac[i] = 45 + i
  BY <1>1
<1>4. \A i \in 1..4 : m[49 + i] \in Int /\ m[45 + i] \in Int
  <2>1. \A i \in 1..4 : 49 + i \in Addresses /\ 45 + i \in Addresses
    BY DEF Addresses, OtpSize
  <2>2. \A x \in Addresses : m[x] \in Int
    BY DEF Byte
  <2> QED
    BY <2>1, <2>2
<1> QED
  BY <1>2, <1>3, <1>4

(***************************************************************************)
(* A copy of the values that the driver takes for sound is undamaged.      *)
(***************************************************************************)
LEMMA SoundIsIntact ==
    ASSUME NEW m \in Memories, NEW f \in Flips(m)
    PROVE  /\ Sound(f.memory, FtDomain, FtSum, FtDac, FtDacSum)
                => Bytes(f.memory, FtDac) = Bytes(m, FtDac)
           /\ Sound(f.memory, MtDomain, MtSum, MtDac, MtDacSum)
                => Bytes(f.memory, MtDac) = Bytes(m, MtDac)
<1> DEFINE w == f.memory
<1>1. m \in [Addresses -> Byte] /\ w \in [Addresses -> Byte] /\ Undamaged(m)
  BY FactoryTyped, DamagedTyped
<1>2. /\ CodeFits(m, FtCode, 19) /\ CodeFits(m, MtCode, 27)
      /\ CodeFits(m, FtDacCode, 4) /\ CodeFits(m, MtDacCode, 4)
  BY <1>1, SumsAreCodes DEF Undamaged
<1>3. /\ CodeFits(w, FtCode, 19) => \A p \in 1..(19 + 1) : w[FtCode[p]] = m[FtCode[p]]
      /\ CodeFits(w, MtCode, 27) => \A p \in 1..(27 + 1) : w[MtCode[p]] = m[MtCode[p]]
      /\ CodeFits(w, FtDacCode, 4) => \A p \in 1..(4 + 1) : w[FtDacCode[p]] = m[FtDacCode[p]]
      /\ CodeFits(w, MtDacCode, 4) => \A p \in 1..(4 + 1) : w[MtDacCode[p]] = m[MtDacCode[p]]
  <2>1. 19 \in Nat /\ 27 \in Nat /\ 4 \in Nat
    OBVIOUS
  <2> QED
    BY <1>1, <1>2, <2>1, FittingIsIntact, FtCodeword, MtCodeword, FtDacCodeword, MtDacCodeword
<1>4. /\ \A i \in 1..4 : 10 + i \in 1..(19 + 1) /\ FtCode[10 + i] = 49 + i
      /\ \A i \in 1..4 : 21 + i \in 1..(27 + 1) /\ MtCode[21 + i] = 45 + i
      /\ \A i \in 1..4 : i \in 1..(4 + 1) /\ FtDacCode[i] = 49 + i /\ MtDacCode[i] = 45 + i
  BY DEF FtCode, MtCode, FtDacCode, MtDacCode
<1>5. ASSUME Sound(w, FtDomain, FtSum, FtDac, FtDacSum)
      PROVE  Bytes(w, FtDac) = Bytes(m, FtDac)
  <2>1. CodeFits(w, FtCode, 19) \/ CodeFits(w, FtDacCode, 4)
    BY <1>1, <1>5, SumsAreCodes DEF Sound
  <2>2. \A i \in 1..4 : w[49 + i] = m[49 + i]
    BY <1>3, <1>4, <2>1
  <2> QED
    BY <1>1, <2>2, DacBytes
<1>6. ASSUME Sound(w, MtDomain, MtSum, MtDac, MtDacSum)
      PROVE  Bytes(w, MtDac) = Bytes(m, MtDac)
  <2>1. CodeFits(w, MtCode, 27) \/ CodeFits(w, MtDacCode, 4)
    BY <1>1, <1>6, SumsAreCodes DEF Sound
  <2>2. \A i \in 1..4 : w[45 + i] = m[45 + i]
    BY <1>3, <1>4, <2>1
  <2> QED
    BY <1>1, <2>2, DacBytes
<1> QED
  BY <1>5, <1>6

(***************************************************************************)
(* So is a value whose copies agree.                                       *)
(***************************************************************************)
LEMMA AgreeingIsIntact ==
    ASSUME NEW m \in Memories, NEW f \in Flips(m), NEW i \in 1..4,
           f.memory[49 + i] = f.memory[45 + i]
    PROVE  f.memory[49 + i] = m[49 + i]
<1> DEFINE w == f.memory
           u == 49 + i
           v == 45 + i
<1>1. m \in [Addresses -> Byte] /\ Undamaged(m)
  BY FactoryTyped
<1>2. u \in Addresses /\ v \in Addresses /\ u # v /\ m[u] \in Byte
  <2>1. u \in Addresses /\ v \in Addresses /\ u # v
    BY DEF Addresses, OtpSize
  <2> QED
    BY <1>1, <2>1
<1>3. m[u] = m[v]
  <2>1. Bytes(m, FtDac)[i] = Bytes(m, MtDac)[i]
    BY <1>1 DEF Undamaged
  <2> QED
    BY <1>1, <2>1, DacBytes
<1>4. FtDac[i] = u /\ MtDac[i] = v
  BY DEF FtDac, MtDac, Run
<1>5. w[u] = w[v]
  OBVIOUS
<1> HIDE DEF u, v
<1>6. CASE w = m
  BY <1>6 DEF u
<1>7. CASE \E a \in Bits : w = Flip(m, a)
  <2>1. PICK a \in Bits : w = Flip(m, a)
    BY <1>7
  <2>2. /\ a[2] \in 0..7 /\ w[a[1]] = Flipped(m[a[1]], a[2])
        /\ \A x \in Addresses : x # a[1] => w[x] = m[x]
    BY <1>1, <2>1, FlipPlaces
  <2>3. a[1] # u
    <3>1. Flipped(m[u], a[2]) # m[u]
      BY <1>2, <2>2, FlipShows
    <3> QED
      BY <1>2, <1>3, <1>5, <2>2, <3>1
  <2> QED
    BY <1>2, <2>2, <2>3 DEF u
<1>8. CASE \E a, b \in Bits : a # b /\ ~SameOfCopies(a, b) /\ w = Flip(Flip(m, a), b)
  <2>1. PICK a \in Bits, b \in Bits : a # b /\ ~SameOfCopies(a, b) /\ w = Flip(Flip(m, a), b)
    BY <1>8
  <2>2. /\ a[2] \in 0..7 /\ b[2] \in 0..7
        /\ a = <<a[1], a[2]>> /\ b = <<b[1], b[2]>>
        /\ \A x \in Addresses : x # a[1] /\ x # b[1] => w[x] = m[x]
        /\ a[1] # b[1] => w[a[1]] = Flipped(m[a[1]], a[2]) /\ w[b[1]] = Flipped(m[b[1]], b[2])
        /\ a[1] = b[1] => w[a[1]] = Flipped(Flipped(m[a[1]], a[2]), b[2])
    <3>1. a[2] \in 0..7 /\ b[2] \in 0..7 /\ a = <<a[1], a[2]>> /\ b = <<b[1], b[2]>>
      BY DEF Bits
    <3>2. Flip(m, a) \in [Addresses -> Byte]
      BY <1>1, FlipPlaces
    <3> QED
      BY <1>1, <2>1, <3>1, <3>2, FlipPlaces
  <2> SUFFICES ASSUME w[u] # m[u] PROVE FALSE
    BY DEF u
  <2>3. u \in {a[1], b[1]} /\ v \in {a[1], b[1]}
    BY <1>2, <1>3, <1>5, <2>2
  <2>4. a[1] # b[1]
    BY <1>2, <2>3
  <2>5. a[2] # b[2]
    <3> SUFFICES ASSUME a[2] = b[2] PROVE FALSE
      OBVIOUS
    <3>1. {a, b} = {<<u, a[2]>>, <<v, a[2]>>}
      BY <1>2, <2>2, <2>3
    <3> QED
      BY <1>4, <2>1, <3>1 DEF SameOfCopies
  <2>6. Flipped(m[u], a[2]) # Flipped(m[u], b[2])
    BY <1>2, <2>2, <2>5, FlipShows
  <2> QED
    BY <1>2, <1>3, <1>5, <2>2, <2>3, <2>4, <2>6
<1> QED
  BY <1>1, <1>6, <1>7, <1>8, FlipCases

LEMMA ThreeOfFour ==
    ASSUME NEW E, E \subseteq 1..4, ~(Cardinality(E) < 3), NEW i \in 1..4, i \notin E
    PROVE  \A j \in 1..4 : j # i => j \in E
<1> SUFFICES ASSUME NEW j \in 1..4, j # i, j \notin E PROVE FALSE
  OBVIOUS
<1> DEFINE all == 1..4
           rest == all \ {i}
           both == rest \ {j}
<1>1. IsFiniteSet(all) /\ Cardinality(all) = 4
  <2>1. 1 \in Int /\ 4 \in Int
    OBVIOUS
  <2>2. IsFiniteSet(all) /\ Cardinality(all) = IF 1 > 4 THEN 0 ELSE 4 - 1 + 1
    BY <2>1, FS_Interval, Zenon
  <2> QED
    BY <2>2
<1>2. i \in all /\ j \in rest /\ E \in SUBSET both
  OBVIOUS
<1> HIDE DEF all, rest, both
<1>3. IsFiniteSet(rest) /\ Cardinality(rest) = Cardinality(all) - 1
  BY <1>1, <1>2, FS_RemoveElement DEF rest
<1>4. IsFiniteSet(both) /\ Cardinality(both) = Cardinality(rest) - 1
  BY <1>2, <1>3, FS_RemoveElement DEF both
<1>5. Cardinality(E) <= Cardinality(both) /\ IsFiniteSet(E)
  BY <1>2, <1>4, FS_Subset
<1>6. Cardinality(E) \in Nat
  BY <1>5, FS_CardinalityType
<1> QED
  BY <1>1, <1>3, <1>4, <1>5, <1>6

(***************************************************************************)
(* No damaged value is used.                                               *)
(***************************************************************************)
LEMMA UndamagedDac ==
    ASSUME NEW m \in Memories PROVE SelectDac(m) = Bytes(m, FtDac)
BY FactoryTyped DEF SelectDac, Sound, Undamaged

LEMMA ValuesAreKept ==
    ASSUME NEW m \in Memories, NEW f \in Flips(m), SelectDac(f.memory) # NoDac,
           NEW i \in 1..4
    PROVE  SelectDac(f.memory)[i] \in {SelectDac(m)[i], MeanOfOthers(SelectDac(m), i)}
<1> DEFINE w == f.memory
           ft == Bytes(w, FtDac)
           mt == Bytes(w, MtDac)
           dac == Bytes(m, FtDac)
           E == {k \in 1..4 : mt[k] = ft[k] /\ ft[k] # 0}
<1>1. /\ m \in [Addresses -> Byte] /\ w \in [Addresses -> Byte]
      /\ Bytes(m, MtDac) = dac /\ SelectDac(m) = dac
  BY FactoryTyped, DamagedTyped, UndamagedDac DEF Undamaged
<1>2. CASE Sound(w, FtDomain, FtSum, FtDac, FtDacSum)
  BY <1>1, <1>2, SoundIsIntact DEF SelectDac
<1>3. CASE /\ ~Sound(w, FtDomain, FtSum, FtDac, FtDacSum)
           /\ Sound(w, MtDomain, MtSum, MtDac, MtDacSum)
  BY <1>1, <1>3, SoundIsIntact DEF SelectDac
<1>4. CASE /\ ~Sound(w, FtDomain, FtSum, FtDac, FtDacSum)
           /\ ~Sound(w, MtDomain, MtSum, MtDac, MtDacSum)
  <2>1. SelectDac(w) = Compared(ft, mt)
    BY <1>4 DEF SelectDac
  <2>2. \A k \in 1..4 : mt[k] = ft[k] => ft[k] = dac[k]
    BY <1>1, DacBytes, AgreeingIsIntact
  <2>3. \A k \in E : mt[k] = dac[k]
    BY <2>2
  <2> HIDE DEF ft, mt, dac
  <2>4. /\ ~(Cardinality(E) < 3)
        /\ SelectDac(w) = [k \in 1..4 |-> IF mt[k] = ft[k] THEN ft[k] ELSE MeanOfOthers(mt, k)]
    BY <2>1 DEF Compared
  <2>5. CASE mt[i] = ft[i]
    BY <1>1, <2>2, <2>4, <2>5
  <2>6. CASE mt[i] # ft[i]
    <3>1. \A j \in 1..4 : j # i => j \in E
      <4>1. E \subseteq 1..4 /\ i \notin E
        BY <2>6
      <4> HIDE DEF E
      <4> QED
        BY <2>4, <4>1, ThreeOfFour
    <3>2. \A j \in 1..4 : j # i => mt[j] = dac[j]
      BY <2>3, <3>1
    <3>3. /\ (i % 4) + 1 \in 1..4 /\ (i % 4) + 1 # i
          /\ ((i + 1) % 4) + 1 \in 1..4 /\ ((i + 1) % 4) + 1 # i
          /\ ((i + 2) % 4) + 1 \in 1..4 /\ ((i + 2) % 4) + 1 # i
      OBVIOUS
    <3>4. MeanOfOthers(mt, i) = MeanOfOthers(dac, i)
      BY <3>2, <3>3 DEF MeanOfOthers
    <3> QED
      BY <1>1, <2>4, <2>6, <3>4
  <2> QED
    BY <2>5, <2>6
<1> QED
  BY <1>2, <1>3, <1>4

(***************************************************************************)
(* One flipped bit changes no setting.                                     *)
(***************************************************************************)
LEMMA OneFlipKeepsDac ==
    ASSUME NEW m \in Memories, NEW f \in Flips(m), f.flips < 2
    PROVE  SelectDac(f.memory) = SelectDac(m)
<1> DEFINE w == f.memory
<1>1. /\ m \in [Addresses -> Byte] /\ w \in [Addresses -> Byte] /\ Undamaged(m)
      /\ Bytes(m, MtDac) = Bytes(m, FtDac) /\ SelectDac(m) = Bytes(m, FtDac)
  BY FactoryTyped, DamagedTyped, UndamagedDac DEF Undamaged
<1>2. CASE w = m
  BY <1>2
<1>3. CASE \E a \in Bits : w = Flip(m, a)
  <2>1. PICK a \in Bits : w = Flip(m, a)
    BY <1>3
  <2>2. \A x \in Addresses : x # a[1] => w[x] = m[x]
    BY <1>1, <2>1, FlipPlaces
  <2>3. CASE \A k \in 1..20 : FtCode[k] # a[1]
    <3>1. \A k \in 1..20 : w[FtCode[k]] = m[FtCode[k]]
      <4>1. \A k \in 1..20 : FtCode[k] \in Addresses
        BY DEF FtCode, Addresses, OtpSize
      <4> QED
        BY <2>2, <2>3, <4>1
    <3>2. CodeFits(w, FtCode, 19) <=> CodeFits(m, FtCode, 19)
      <4>1. [k \in 1..19 |-> w[FtCode[k]]] = [k \in 1..19 |-> m[FtCode[k]]]
        BY <3>1
      <4>2. w[FtCode[19 + 1]] = m[FtCode[19 + 1]]
        BY <3>1
      <4> QED
        BY <4>1, <4>2 DEF CodeFits
    <3>3. Sound(w, FtDomain, FtSum, FtDac, FtDacSum)
      BY <1>1, <3>2, SumsAreCodes DEF Sound, Undamaged
    <3> QED
      BY <1>1, <3>3, SoundIsIntact DEF SelectDac
  <2>4. CASE \E k \in 1..20 : FtCode[k] = a[1]
    <3>1. \A k \in 1..28 : MtCode[k] # a[1] /\ MtCode[k] \in Addresses
      <4>1. \A k \in 1..20 : FtCode[k] \in {11, 12, 13, 14, 15, 16, 17, 18, 19, 28, 50, 51, 52,
                                             53, 56, 57, 58, 59, 61, 62}
        BY DEF FtCode
      <4>2. \A k \in 1..28 : MtCode[k] \in (20..27) \cup (29..35) \cup (40..49) \cup {54, 55, 63}
        BY DEF MtCode
      <4> QED
        BY <2>4, <4>1, <4>2 DEF Addresses, OtpSize
    <3>2. \A k \in 1..28 : w[MtCode[k]] = m[MtCode[k]]
      BY <2>2, <3>1
    <3>3. CodeFits(w, MtCode, 27) <=> CodeFits(m, MtCode, 27)
      <4>1. [k \in 1..27 |-> w[MtCode[k]]] = [k \in 1..27 |-> m[MtCode[k]]]
        BY <3>2
      <4>2. w[MtCode[27 + 1]] = m[MtCode[27 + 1]]
        BY <3>2
      <4> QED
        BY <4>1, <4>2 DEF CodeFits
    <3>4. Sound(w, MtDomain, MtSum, MtDac, MtDacSum)
      BY <1>1, <3>3, SumsAreCodes DEF Sound, Undamaged
    <3> QED
      BY <1>1, <3>4, SoundIsIntact DEF SelectDac
  <2> QED
    BY <2>3, <2>4
<1> QED
  BY <1>1, <1>2, <1>3, FlipCases

LEMMA OneFlipKeepsSource ==
    ASSUME NEW m \in Memories, NEW a \in Bits
    PROVE  SelectTcodeSource(Flip(m, a)) = SelectTcodeSource(m)
<1> DEFINE w == Flip(m, a)
<1>1. m \in [Addresses -> Byte] /\ m[45] = m[42] /\ m[43] = 255 - m[42]
  BY FactoryTyped DEF Undamaged
<1>2. /\ \A x \in Addresses : x # a[1] => w[x] = m[x]
      /\ {42, 43, 45} \subseteq Addresses
      /\ w \in [Addresses -> Byte]
  BY <1>1, FlipPlaces DEF Addresses, OtpSize
<1>3. \/ w[42] = m[42] /\ w[43] = m[43]
      \/ w[42] = m[42] /\ w[45] = m[45]
      \/ w[43] = m[43] /\ w[45] = m[45]
  BY <1>2
<1>4. /\ m[42] \in 0..255 /\ m[43] \in 0..255 /\ m[45] \in 0..255
      /\ w[42] \in 0..255 /\ w[43] \in 0..255 /\ w[45] \in 0..255
  BY <1>1, <1>2 DEF Byte
<1> HIDE DEF w
<1>5. SelectTcodeSource(m) = m[42]
  BY <1>1, <1>4 DEF SelectTcodeSource
<1>6. SelectTcodeSource(w) = m[42]
  BY <1>1, <1>3, <1>4 DEF SelectTcodeSource
<1> QED
  BY <1>5, <1>6 DEF w

LEMMA OneFlipKeepsOffset ==
    ASSUME NEW b \in Byte, OffsetCopies(b) = {b % 4}, NEW i \in 0..7
    PROVE  SelectFdtOffset(Flipped(b, i)) = SelectFdtOffset(b)
<1> DEFINE c == Flipped(b, i)
           first(v) == v % 4
           second(v) == (v \div 16) % 4
           third(v) == ((255 - v) \div 4) % 4
<1>1. b \in 0..255 /\ c \in 0..255 /\ second(b) = first(b) /\ third(b) = first(b)
  BY FlippedBits DEF Byte, OffsetCopies
<1>2. \/ second(c) = second(b) /\ third(c) = third(b)
      \/ first(c) = first(b) /\ third(c) = third(b)
      \/ first(c) = first(b) /\ second(c) = second(b)
  <2>1. ASSUME NEW v \in Byte
        PROVE  /\ first(v) = BitOf(v, 0) + 2 * BitOf(v, 1)
               /\ second(v) = BitOf(v, 4) + 2 * BitOf(v, 5)
               /\ third(v) = (1 - BitOf(v, 2)) + 2 * (1 - BitOf(v, 3))
    <3>1. v \in 0..255
      BY DEF Byte
    <3>2. first(v) = (v % 2) + 2 * ((v \div 2) % 2)
      BY <3>1
    <3>3. second(v) = ((v \div 16) % 2) + 2 * ((v \div 32) % 2)
      BY <3>1
    <3>4. third(v) = (1 - ((v \div 4) % 2)) + 2 * (1 - ((v \div 8) % 2))
      BY <3>1
    <3> QED
      BY <3>2, <3>3, <3>4, BitsOfByte
  <2>2. c \in Byte /\ \A k \in 0..7 : k # i => BitOf(c, k) = BitOf(b, k)
    BY FlippedBits
  <2>3. i \notin {0, 1} => first(c) = first(b)
    BY <2>1, <2>2
  <2>4. i \notin {4, 5} => second(c) = second(b)
    BY <2>1, <2>2
  <2>5. i \notin {2, 3} => third(c) = third(b)
    BY <2>1, <2>2
  <2> HIDE DEF c, first, second, third
  <2> QED
    BY <2>3, <2>4, <2>5
<1>3. \A v : SelectFdtOffset(v) = IF first(v) \in {second(v), third(v)} THEN first(v)
                                  ELSE IF second(v) = third(v) THEN second(v) ELSE 0
  BY DEF SelectFdtOffset
<1> HIDE DEF c, first, second, third
<1>4. SelectFdtOffset(b) = first(b)
  BY <1>1, <1>3
<1>5. SelectFdtOffset(c) = first(b)
  BY <1>1, <1>2, <1>3
<1> QED
  BY <1>4, <1>5 DEF c

LEMMA OneFlipKeepsSettings ==
    ASSUME NEW m \in Memories, NEW f \in Flips(m), f.flips < 2
    PROVE  OtpParse(f.memory) = OtpParse(m)
<1>1. m \in [Addresses -> Byte] /\ Undamaged(m)
  BY FactoryTyped
<1>2. CASE f.memory = m
  BY <1>2
<1>3. CASE \E a \in Bits : f.memory = Flip(m, a)
  <2>1. PICK a \in Bits : f.memory = Flip(m, a)
    BY <1>3
  <2>2. SelectFdtOffset(f.memory[27]) = SelectFdtOffset(m[27])
    <3>1. 27 \in Addresses /\ m[27] \in Byte /\ OffsetCopies(m[27]) = {m[27] % 4}
      BY <1>1 DEF Addresses, OtpSize, Undamaged
    <3>2. f.memory[27] = m[27] \/ \E i \in 0..7 : f.memory[27] = Flipped(m[27], i)
      BY <1>1, <2>1, <3>1, FlipPlaces
    <3> QED
      BY <3>1, <3>2, OneFlipKeepsOffset
  <2>3. SelectTcodeSource(f.memory) = SelectTcodeSource(m)
    BY <2>1, OneFlipKeepsSource
  <2> QED
    BY <2>2, <2>3, OneFlipKeepsDac DEF OtpParse
<1> QED
  BY <1>1, <1>2, <1>3, FlipCases

-----------------------------------------------------------------------------
(***************************************************************************)
(* The configuration.                                                      *)
(*                                                                         *)
(* A patch writes the second word of one register and nothing else, so     *)
(* that the table and the addresses stay the template's and every patch    *)
(* finds the register it would find in the template.                       *)
(***************************************************************************)
Places == 0..(ConfigSize - 1)

Shaped(config) ==
    /\ config \in [Places -> Int]
    /\ \A a \in 1..16 : config[a] = Template[a]
    /\ \A s \in 0..7 : \A i \in Registers(Template, s) :
          config[i] = Template[i] /\ config[i + 1] = Template[i + 1]

PatchRecord == [section : 0..7, address : Int, value : Int, mode : 0..2]

(***************************************************************************)
(* No two patches are for the same register.                               *)
(***************************************************************************)
Different(patches) ==
    \A k, l \in DOMAIN patches :
        patches[k].section = patches[l].section
          /\ patches[k].address = patches[l].address => k = l

For(patch, s, i) == patch.section = s /\ patch.address = Word(Template, i)

(***************************************************************************)
(* What a configuration is after the first n patches.                      *)
(***************************************************************************)
Patched(config, patches, n) ==
    /\ Shaped(config)
    /\ \A s \in 0..7 : \A i \in Registers(Template, s) :
          /\ \A k \in 1..n : For(patches[k], s, i) =>
                Word(config, i + 2) = Mixed(Word(Template, i + 2), patches[k].value,
                                            patches[k].mode)
          /\ (\A k \in 1..n : ~For(patches[k], s, i)) =>
                Word(config, i + 2) = Word(Template, i + 2)

LEMMA TemplateBytes ==
    Template \in [Places -> Int] /\ \A a \in Places : Template[a] \in Nat
<1>1. Template \in [Places -> Byte]
  BY SensorAssumption DEF Places
<1>2. \A b \in Byte : b \in Int /\ b \in Nat
  BY DEF Byte
<1> QED
  BY <1>1, <1>2

LEMMA TemplateShaped == Shaped(Template)
BY TemplateBytes DEF Shaped

LEMMA RegisterPlaces ==
    ASSUME NEW s \in 0..7, NEW i \in Registers(Template, s)
    PROVE  i \in Nat /\ i > 16 /\ i + 3 < 222
<1>1. i > 16
  BY TemplateAssumption
<1> DEFINE start == Template[1 + s * 2]
           length == Template[2 + s * 2]
<1>2. start \in Nat /\ length \in Nat
  <2>1. 1 + s * 2 \in Places /\ 2 + s * 2 \in Places
    BY DEF Places, ConfigSize
  <2> QED
    BY <2>1, TemplateBytes
<1>3. /\ ~(start + length > 222) /\ length % 4 = 0
      /\ \E k \in 0..((length \div 4) - 1) : i = start + 4 * k
  <2>1. ConfigSize - 2 = 222
    BY DEF ConfigSize
  <2>2. Registers(Template, s)
          = IF start + length > 222 \/ length % 4 # 0 THEN {}
            ELSE {start + 4 * k : k \in 0..((length \div 4) - 1)}
    BY <2>1 DEF Registers
  <2> HIDE DEF start, length
  <2> QED
    BY <2>2
<1>4. PICK k \in 0..((length \div 4) - 1) : i = start + 4 * k
  BY <1>3
<1>5. length = 4 * (length \div 4)
  <2> HIDE DEF length
  <2> QED
    BY <1>2, <1>3
<1> QED
  <2> HIDE DEF length, start
  <2> QED
    BY <1>1, <1>2, <1>3, <1>4, <1>5

LEMMA SameRegisters ==
    ASSUME NEW config, Shaped(config), NEW s \in 0..7, NEW a
    PROVE  /\ Registers(config, s) = Registers(Template, s)
           /\ Found(config, s, a) = {i \in Registers(Template, s) : Word(Template, i) = a}
<1>1. Registers(config, s) = Registers(Template, s)
  <2>1. 1 + s * 2 \in 1..16 /\ 2 + s * 2 \in 1..16
    OBVIOUS
  <2>2. config[1 + s * 2] = Template[1 + s * 2] /\ config[2 + s * 2] = Template[2 + s * 2]
    BY <2>1 DEF Shaped
  <2> QED
    BY <2>2 DEF Registers
<1>2. \A i \in Registers(Template, s) : Word(config, i) = Word(Template, i)
  BY DEF Shaped, Word
<1> QED
  BY <1>1, <1>2 DEF Found

LEMMA WordsAreNumbers ==
    ASSUME NEW config \in [Places -> Int], NEW i \in Places, i + 1 \in Places
    PROVE  Word(config, i) \in Int
BY DEF Word

LEMMA MixedIsNumber ==
    ASSUME NEW current \in Int, NEW value \in Int, NEW mode \in 0..2
    PROVE  Mixed(current, value, mode) \in Int
BY DEF Mixed

(***************************************************************************)
(* One patch more.                                                         *)
(***************************************************************************)
LEMMA OnePatchMore ==
    ASSUME NEW patches \in Seq(PatchRecord), Different(patches),
           NEW n \in Nat, n < Len(patches), NEW config, Patched(config, patches, n),
           ConfigModify(config, patches[n + 1]) # NoConfig
    PROVE  Patched(ConfigModify(config, patches[n + 1]), patches, n + 1)
<1> DEFINE p == patches[n + 1]
           s == p.section
           new == ConfigModify(config, p)
<1>1. n + 1 \in 1..Len(patches) /\ p \in PatchRecord /\ DOMAIN patches = 1..Len(patches)
  OBVIOUS
<1>2. s \in 0..7 /\ p.value \in Int /\ p.mode \in 0..2
  BY <1>1 DEF PatchRecord
<1>3. Shaped(config) /\ config \in [Places -> Int]
  BY DEF Patched, Shaped
<1> DEFINE F == {i \in Registers(Template, s) : Word(Template, i) = p.address}
<1>4. Found(config, s, p.address) = F
  BY <1>2, <1>3, SameRegisters
<1>5. PICK i \in F : TRUE
  BY <1>4 DEF ConfigModify
<1>6. i \in Registers(Template, s) /\ For(p, s, i) /\ i \in Nat /\ i > 16 /\ i + 3 < 222
  BY <1>2, <1>5, RegisterPlaces DEF For
<1>7. F = {i}
  BY <1>2, <1>5, TemplateAssumption
<1>8. (CHOOSE j \in F : \A k \in F : j <= k) = i
  BY <1>6, <1>7
<1> DEFINE value == Mixed(Word(config, i + 2), p.value, p.mode)
<1>9. new = WithWord(config, i + 2, value)
  BY <1>4, <1>8 DEF ConfigModify
<1>10. /\ i + 2 \in Places /\ i + 3 \in Places /\ (i + 2) + 1 = i + 3
       /\ Word(config, i + 2) \in Int /\ value \in Int
  <2>1. i + 2 \in Places /\ i + 3 \in Places /\ (i + 2) + 1 = i + 3
    BY <1>6 DEF Places, ConfigSize
  <2> QED
    BY <1>2, <1>3, <2>1, WordsAreNumbers, MixedIsNumber
<1>11. /\ new \in [Places -> Int] /\ Word(new, i + 2) = value
       /\ \A a \in Places \ {i + 2, i + 3} : new[a] = config[a]
  <2> HIDE DEF value
  <2>1. new = [config EXCEPT ![i + 2] = value % 256, ![i + 3] = value \div 256]
    BY <1>9, <1>10 DEF WithWord
  <2>2. /\ value % 256 \in Int /\ value \div 256 \in Int
        /\ (value % 256) + 256 * (value \div 256) = value
    BY <1>10
  <2>3. i + 2 # i + 3
    BY <1>6
  <2>4. /\ new \in [Places -> Int]
        /\ new[i + 2] = value % 256 /\ new[i + 3] = value \div 256
        /\ \A a \in Places \ {i + 2, i + 3} : new[a] = config[a]
    <3> HIDE DEF new
    <3> QED
      BY <1>3, <1>10, <2>1, <2>2, <2>3
  <2>5. Word(new, i + 2) = new[i + 2] + 256 * new[i + 3]
    BY <1>10 DEF Word
  <2> HIDE DEF new
  <2> QED
    BY <2>2, <2>4, <2>5
<1>12. ASSUME NEW t \in 0..7, NEW j \in Registers(Template, t)
       PROVE  /\ new[j] = config[j] /\ new[j + 1] = config[j + 1]
              /\ t # s \/ j # i => Word(new, j + 2) = Word(config, j + 2)
  <2>1. j \in Nat /\ j + 3 < 222
    BY RegisterPlaces
  <2>2. \/ t = s /\ j = i
        \/ i + 4 <= j \/ j + 4 <= i
    BY <1>2, <1>6, TemplateAssumption
  <2>3. j \in Places \ {i + 2, i + 3} /\ j + 1 \in Places \ {i + 2, i + 3}
    <3>1. j \in Places /\ j + 1 \in Places
      BY <2>1 DEF Places, ConfigSize
    <3>2. j \notin {i + 2, i + 3} /\ j + 1 \notin {i + 2, i + 3}
      BY <1>6, <2>1, <2>2
    <3> QED
      BY <3>1, <3>2
  <2>4. ASSUME t # s \/ j # i
        PROVE  /\ j + 2 \in Places \ {i + 2, i + 3}
               /\ (j + 2) + 1 \in Places \ {i + 2, i + 3}
    BY <1>6, <2>1, <2>2, <2>4 DEF Places, ConfigSize
  <2> HIDE DEF new
  <2> QED
    BY <1>11, <2>3, <2>4 DEF Word
<1>13. Shaped(new)
  <2>1. \A a \in 1..16 : a \in Places \ {i + 2, i + 3}
    BY <1>6 DEF Places, ConfigSize
  <2> HIDE DEF new
  <2> QED
    BY <1>3, <1>11, <1>12, <2>1 DEF Shaped
<1>14. ASSUME NEW t \in 0..7, NEW j \in Registers(Template, t)
       PROVE  /\ \A k \in 1..(n + 1) : For(patches[k], t, j) =>
                    Word(new, j + 2) = Mixed(Word(Template, j + 2), patches[k].value,
                                             patches[k].mode)
              /\ (\A k \in 1..(n + 1) : ~For(patches[k], t, j)) =>
                    Word(new, j + 2) = Word(Template, j + 2)
  <2>1. CASE t = s /\ j = i
    <3>1. \A k \in 1..n : ~For(patches[k], s, i)
      <4> SUFFICES ASSUME NEW k \in 1..n, For(patches[k], s, i) PROVE FALSE
        OBVIOUS
      <4>1. k \in 1..Len(patches) /\ k # n + 1
        OBVIOUS
      <4> QED
        BY <1>1, <1>6, <4>1 DEF For, Different
    <3>2. Word(config, i + 2) = Word(Template, i + 2)
      BY <1>2, <1>6, <3>1 DEF Patched
    <3>3. \A k \in 1..(n + 1) : k \in 1..n \/ k = n + 1
      OBVIOUS
    <3> HIDE DEF new
    <3> QED
      BY <1>6, <1>11, <2>1, <3>1, <3>2, <3>3
  <2>2. CASE t # s \/ j # i
    <3>1. ~For(p, t, j)
      <4> SUFFICES ASSUME For(p, t, j) PROVE FALSE
        OBVIOUS
      <4>1. t = s /\ j \in F
        BY DEF For
      <4> QED
        BY <1>7, <2>2, <4>1
    <3>2. Word(new, j + 2) = Word(config, j + 2)
      BY <1>12, <2>2
    <3>3. \A k \in 1..(n + 1) : k \in 1..n \/ k = n + 1
      OBVIOUS
    <3>4. \A k \in 1..n : k \in 1..(n + 1)
      OBVIOUS
    <3> HIDE DEF new
    <3> QED
      BY <3>1, <3>2, <3>3, <3>4 DEF Patched
  <2> QED
    BY <2>1, <2>2
<1>15. Patched(new, patches, n + 1)
  <2> HIDE DEF new
  <2> QED
    BY <1>13, <1>14 DEF Patched
<1> QED
  BY <1>15

(***************************************************************************)
(* All patches, by induction on their number.                              *)
(***************************************************************************)
Chain(config, patches, n) ==
    config = [i \in 0..n |-> IF i = 0 THEN Template
                             ELSE ConfigModify(config[i - 1], patches[i])]

LEMMA ChainExists ==
    ASSUME NEW patches, NEW n \in Nat PROVE \E g : Chain(g, patches, n)
<1> DEFINE S == {k \in Nat : \E g : Chain(g, patches, k)}
<1>1. 0 \in S
  <2> DEFINE h == [i \in 0..0 |-> Template]
  <2>1. Chain(h, patches, 0)
    BY DEF Chain
  <2> QED
    BY <2>1
<1>2. ASSUME NEW k \in Nat, k \in S PROVE k + 1 \in S
  <2>1. PICK g : Chain(g, patches, k)
    BY <1>2
  <2> DEFINE h == [i \in 0..(k + 1) |->
                     IF i = k + 1 THEN ConfigModify(g[k], patches[k + 1]) ELSE g[i]]
  <2>2. \A i \in 0..k : h[i] = g[i] /\ i \in 0..(k + 1) /\ i # k + 1
    OBVIOUS
  <2>3. \A i \in 0..k :
          g[i] = IF i = 0 THEN Template ELSE ConfigModify(g[i - 1], patches[i])
    BY <2>1 DEF Chain
  <2>4. ASSUME NEW i \in 0..(k + 1)
        PROVE  h[i] = IF i = 0 THEN Template ELSE ConfigModify(h[i - 1], patches[i])
    <3>1. CASE i = k + 1
      <4>1. h[i] = ConfigModify(g[k], patches[i]) /\ i # 0 /\ i - 1 = k /\ k \in 0..k
        BY <3>1
      <4> QED
        BY <2>2, <4>1
    <3>2. CASE i \in 0..k
      <4>1. i # 0 => i - 1 \in 0..k
        BY <3>2
      <4> QED
        BY <2>2, <2>3, <3>2, <4>1
    <3> QED
      BY <3>1, <3>2
  <2>5. h = [i \in 0..(k + 1) |-> h[i]]
    OBVIOUS
  <2> HIDE DEF h
  <2>6. Chain(h, patches, k + 1)
    BY <2>4, <2>5 DEF Chain
  <2> QED
    BY <2>6
<1> HIDE DEF S
<1>3. Nat \subseteq S
  BY <1>1, <1>2, SetInduction
<1> QED
  BY <1>3 DEF S

LEMMA ModifiedIsPatched ==
    ASSUME NEW patches \in Seq(PatchRecord), Different(patches),
           Modified(patches) # NoConfig
    PROVE  Patched(Modified(patches), patches, Len(patches))
<1> DEFINE g == CHOOSE g : Chain(g, patches, Len(patches))
           S == {n \in Nat : n <= Len(patches) /\ g[n] # NoConfig
                               => Patched(g[n], patches, n)}
<1>1. Len(patches) \in Nat
  OBVIOUS
<1>2. Chain(g, patches, Len(patches))
  BY <1>1, ChainExists
<1>3. Modified(patches) = g[Len(patches)]
  BY DEF Modified, Chain
<1> HIDE DEF g
<1>4. \A i \in 0..Len(patches) :
        g[i] = IF i = 0 THEN Template ELSE ConfigModify(g[i - 1], patches[i])
  BY <1>2 DEF Chain
<1>5. 0 \in S
  <2>1. g[0] = Template
    BY <1>1, <1>4
  <2> QED
    BY <2>1, TemplateShaped DEF Patched
<1>6. ASSUME NEW n \in Nat, n \in S PROVE n + 1 \in S
  <2> SUFFICES ASSUME n + 1 <= Len(patches), g[n + 1] # NoConfig
               PROVE  Patched(g[n + 1], patches, n + 1)
    OBVIOUS
  <2>1. n + 1 \in 0..Len(patches) /\ n + 1 # 0 /\ (n + 1) - 1 = n /\ n < Len(patches)
    BY <1>1
  <2>2. g[n + 1] = ConfigModify(g[n], patches[n + 1])
    BY <1>4, <2>1
  <2>3. g[n] # NoConfig
    BY <2>2 DEF ConfigModify
  <2>4. Patched(g[n], patches, n)
    BY <1>6, <2>1, <2>3
  <2> QED
    BY <2>1, <2>2, <2>4, OnePatchMore
<1> HIDE DEF S
<1>7. Len(patches) \in S
  BY <1>1, <1>5, <1>6, SetInduction
<1> QED
  BY <1>1, <1>3, <1>7 DEF S

-----------------------------------------------------------------------------
(* The settings and their patches.                                         *)

Settings == [dac : [1..4 -> Int], tcode : Int, delta : Int, offset : 0..3]

LEMMA PatchesFit ==
    ASSUME NEW info \in Settings
    PROVE  Patches(info) \in Seq(PatchRecord) /\ Different(Patches(info))
<1> DEFINE P == Patches(info)
           n == Len(P)
<1>1. /\ info.offset \in 0..3 /\ info.tcode \in Int /\ info.delta \in Int
      /\ \A i \in 1..4 : info.dac[i] \in Int
  BY DEF Settings
<1>2. /\ DOMAIN P = 1..n /\ n \in {6, 7} /\ (n = 7 => info.offset # 0)
      /\ P = [k \in 1..n |-> P[k]]
  <2>1. P = [k \in 1..n |-> P[k]]
    BY DEF Patches
  <2>2. DOMAIN P = 1..n /\ n = (IF info.offset = 0 THEN 6 ELSE 7)
    BY DEF Patches
  <2> HIDE DEF P
  <2> QED
    BY <2>1, <2>2
<1>3. /\ 16 * info.dac[1] + 8 \in Int /\ 256 * info.delta \in Int
      /\ info.offset + 4 \in Int
  BY <1>1
<1>4. /\ P[1] \in PatchRecord /\ P[1].section = 0 /\ P[1].address = 544
      /\ P[2] \in PatchRecord /\ P[2].section = 0 /\ P[2].address = 566
      /\ P[3] \in PatchRecord /\ P[3].section = 0 /\ P[3].address = 568
      /\ P[4] \in PatchRecord /\ P[4].section = 0 /\ P[4].address = 570
      /\ P[5] \in PatchRecord /\ P[5].section = 0 /\ P[5].address = 92
      /\ P[6] \in PatchRecord /\ P[6].section = 2 /\ P[6].address = 130
      /\ n = 7 => P[7] \in PatchRecord /\ P[7].section = 2 /\ P[7].address = 86
  <2>1. /\ P[1] = Patch(0, 544, 16 * info.dac[1] + 8, 0)
        /\ P[2] = Patch(0, 566, info.dac[2], 0)
        /\ P[3] = Patch(0, 568, info.dac[3], 0)
        /\ P[4] = Patch(0, 570, info.dac[4], 0)
        /\ P[5] = Patch(0, 92, info.tcode, 0)
        /\ P[6] = Patch(2, 130, 256 * info.delta, 2)
        /\ info.offset # 0 => P[7] = Patch(2, 86, info.offset + 4, 1)
    BY DEF Patches
  <2> HIDE DEF P, n
  <2>2. /\ P[1] \in PatchRecord /\ P[1].section = 0 /\ P[1].address = 544
        /\ P[2] \in PatchRecord /\ P[2].section = 0 /\ P[2].address = 566
    BY <1>1, <1>3, <2>1 DEF Patch, PatchRecord
  <2>3. /\ P[3] \in PatchRecord /\ P[3].section = 0 /\ P[3].address = 568
        /\ P[4] \in PatchRecord /\ P[4].section = 0 /\ P[4].address = 570
    BY <1>1, <2>1 DEF Patch, PatchRecord
  <2>4. /\ P[5] \in PatchRecord /\ P[5].section = 0 /\ P[5].address = 92
        /\ P[6] \in PatchRecord /\ P[6].section = 2 /\ P[6].address = 130
    BY <1>1, <1>3, <2>1 DEF Patch, PatchRecord
  <2>5. n = 7 => P[7] \in PatchRecord /\ P[7].section = 2 /\ P[7].address = 86
    BY <1>2, <1>3, <2>1 DEF Patch, PatchRecord
  <2> QED
    BY <2>2, <2>3, <2>4, <2>5
<1> HIDE DEF P
<1>5. \A k \in 1..n : k \in {1, 2, 3, 4, 5, 6, 7} /\ (k = 7 => n = 7)
  BY <1>2
<1>6. P \in Seq(PatchRecord)
  <2>1. \A k \in 1..n : P[k] \in PatchRecord
    BY <1>4, <1>5
  <2>2. n \in Nat
    BY <1>2
  <2> HIDE DEF n
  <2> QED
    BY <1>2, <2>1, <2>2
<1>7. Different(P)
  <2> DEFINE Same(k, l) == /\ P[k].section = P[l].section
                           /\ P[k].address = P[l].address
  <2>1. \A l \in 1..n : Same(1, l) => l = 1
    BY <1>4, <1>5
  <2>2. \A l \in 1..n : Same(2, l) => l = 2
    BY <1>4, <1>5
  <2>3. \A l \in 1..n : Same(3, l) => l = 3
    BY <1>4, <1>5
  <2>4. \A l \in 1..n : Same(4, l) => l = 4
    BY <1>4, <1>5
  <2>5. \A l \in 1..n : Same(5, l) => l = 5
    BY <1>4, <1>5
  <2>6. \A l \in 1..n : Same(6, l) => l = 6
    BY <1>4, <1>5
  <2>7. n = 7 => \A l \in 1..n : Same(7, l) => l = 7
    BY <1>4, <1>5
  <2> HIDE DEF Same
  <2>8. \A k, l \in 1..n : Same(k, l) => l = k
    BY <1>5, <2>1, <2>2, <2>3, <2>4, <2>5, <2>6, <2>7
  <2> QED
    BY <1>2, <2>8 DEF Different, Same
<1> QED
  BY <1>6, <1>7 DEF P

LEMMA DacTyped ==
    ASSUME NEW memory \in [Addresses -> Byte], SelectDac(memory) # NoDac
    PROVE  SelectDac(memory) \in [1..4 -> Int]
<1> DEFINE ft == Bytes(memory, FtDac)
           mt == Bytes(memory, MtDac)
<1>1. /\ FtDac = [i \in 1..4 |-> 50 + i - 1] /\ Len(FtDac) = 4
      /\ MtDac = [i \in 1..4 |-> 46 + i - 1] /\ Len(MtDac) = 4
  BY DEF FtDac, MtDac, Run
<1>2. ft \in [1..4 -> Int] /\ mt \in [1..4 -> Int]
  <2>1. \A i \in 1..4 : FtDac[i] \in Addresses /\ MtDac[i] \in Addresses
    BY <1>1 DEF Addresses, OtpSize
  <2>2. \A i \in 1..4 : memory[FtDac[i]] \in Int /\ memory[MtDac[i]] \in Int
    <3>1. \A a \in Addresses : memory[a] \in Int
      BY DEF Byte
    <3> QED
      BY <2>1, <3>1
  <2> QED
    BY <1>1, <2>2 DEF Bytes
<1> HIDE DEF ft, mt
<1>3. \A i \in 1..4 : MeanOfOthers(mt, i) \in Int
  <2> SUFFICES ASSUME NEW i \in 1..4 PROVE MeanOfOthers(mt, i) \in Int
    OBVIOUS
  <2>1. /\ (i % 4) + 1 \in 1..4 /\ ((i + 1) % 4) + 1 \in 1..4
        /\ ((i + 2) % 4) + 1 \in 1..4
    OBVIOUS
  <2>2. /\ mt[(i % 4) + 1] \in Int /\ mt[((i + 1) % 4) + 1] \in Int
        /\ mt[((i + 2) % 4) + 1] \in Int
    BY <1>2, <2>1
  <2> QED
    BY <2>2 DEF MeanOfOthers
<1>4. Compared(ft, mt) # NoDac => Compared(ft, mt) \in [1..4 -> Int]
  BY <1>2, <1>3 DEF Compared
<1> QED
  BY <1>2, <1>4 DEF SelectDac, ft, mt

LEMMA SettingsTyped ==
    ASSUME NEW memory \in [Addresses -> Byte], Parsed(OtpParse(memory))
    PROVE  OtpParse(memory) \in Settings
<1> DEFINE source == SelectTcodeSource(memory)
<1>1. SelectDac(memory) \in [1..4 -> Int]
  BY DacTyped DEF Parsed, OtpParse
<1>2. {27, 42, 43, 45} \subseteq Addresses
  BY DEF Addresses, OtpSize
<1>3. source \in Nat
  <2>1. memory[42] \in Nat /\ memory[45] \in Nat
    BY <1>2 DEF Byte
  <2> QED
    BY <2>1 DEF SelectTcodeSource
<1> HIDE DEF source
<1>4. Tcode(source) \in Nat /\ Tcode(source) > 0
  BY <1>3 DEF Tcode
<1>5. FdtDelta(source) \in Int
  <2> DEFINE scaled == ((source % 16) + 2) * 25600
  <2>1. scaled \in Nat
    BY <1>3
  <2> HIDE DEF scaled
  <2>2. scaled \div Tcode(source) \in Int
    BY <1>4, <2>1
  <2>3. ((((scaled \div Tcode(source)) \div 3) \div 16) % 256) \in Int
    BY <2>2
  <2> QED
    BY <2>3 DEF FdtDelta, scaled
<1>6. SelectFdtOffset(memory[27]) \in 0..3
  <2>1. memory[27] \in 0..255
    BY <1>2 DEF Byte
  <2> QED
    BY <2>1 DEF SelectFdtOffset
<1> QED
  BY <1>1, <1>4, <1>5, <1>6 DEF OtpParse, Settings, source

(***************************************************************************)
(* A register carries what its patch writes; one that no patch is for, the *)
(* template's word.                                                        *)
(***************************************************************************)
LEMMA PatchesSet ==
    ASSUME NEW info \in Settings, NEW config, NEW s \in 0..7,
           NEW i \in Registers(Template, s),
           Patched(config, Patches(info), Len(Patches(info)))
    PROVE  Word(config, i + 2)
              = Setting(info, s, Word(Template, i), Word(Template, i + 2))
<1> DEFINE P == Patches(info)
           n == Len(P)
           a == Word(Template, i)
           t == Word(Template, i + 2)
           w == Word(config, i + 2)
<1>1. /\ info.offset \in 0..3 /\ info.tcode \in Int /\ info.delta \in Int
      /\ \A k \in 1..4 : info.dac[k] \in Int
  BY DEF Settings
<1>2. n = (IF info.offset = 0 THEN 6 ELSE 7)
  BY DEF Patches
<1>3. t \in Int
  <2>1. i + 2 \in Places /\ (i + 2) + 1 \in Places
    <3>1. i \in Nat /\ i > 16 /\ i + 3 < 222
      BY RegisterPlaces
    <3> QED
      BY <3>1 DEF Places, ConfigSize
  <2> QED
    BY <2>1, TemplateBytes DEF Word
<1>4. /\ P[1] = Patch(0, 544, 16 * info.dac[1] + 8, 0)
      /\ P[2] = Patch(0, 566, info.dac[2], 0)
      /\ P[3] = Patch(0, 568, info.dac[3], 0)
      /\ P[4] = Patch(0, 570, info.dac[4], 0)
      /\ P[5] = Patch(0, 92, info.tcode, 0)
      /\ P[6] = Patch(2, 130, 256 * info.delta, 2)
      /\ info.offset # 0 => P[7] = Patch(2, 86, info.offset + 4, 1)
  BY DEF Patches
<1> SUFFICES w = Setting(info, s, a, t)
  OBVIOUS
<1>5. /\ \A k \in 1..n : For(P[k], s, i) => w = Mixed(t, P[k].value, P[k].mode)
      /\ (\A k \in 1..n : ~For(P[k], s, i)) => w = t
  BY DEF Patched
<1> HIDE DEF P, n, a, t, w
<1>6. \A k \in 1..n : For(P[k], s, i) <=> P[k].section = s /\ P[k].address = a
  BY DEF For, a
<1>7. /\ P[1].section = 0 /\ P[1].address = 544 /\ P[1].value = 16 * info.dac[1] + 8
      /\ P[1].mode = 0
      /\ P[2].section = 0 /\ P[2].address = 566 /\ P[2].value = info.dac[2]
      /\ P[2].mode = 0
      /\ P[3].section = 0 /\ P[3].address = 568 /\ P[3].value = info.dac[3]
      /\ P[3].mode = 0
      /\ P[4].section = 0 /\ P[4].address = 570 /\ P[4].value = info.dac[4]
      /\ P[4].mode = 0
      /\ P[5].section = 0 /\ P[5].address = 92 /\ P[5].value = info.tcode
      /\ P[5].mode = 0
      /\ P[6].section = 2 /\ P[6].address = 130 /\ P[6].value = 256 * info.delta
      /\ P[6].mode = 2
  BY <1>4 DEF Patch
<1>8. info.offset # 0 => /\ P[7].section = 2 /\ P[7].address = 86
                         /\ P[7].value = info.offset + 4 /\ P[7].mode = 1
  BY <1>4 DEF Patch
<1>9. /\ \A v : Mixed(t, v, 0) = v
      /\ Mixed(t, 256 * info.delta, 2) = 256 * info.delta + (t % 256)
      /\ Mixed(t, info.offset + 4, 1) = 256 * (t \div 256) + info.offset + 4
  <2>1. (256 * info.delta) \div 256 = info.delta
    BY <1>1
  <2>2. (info.offset + 4) % 256 = info.offset + 4
    BY <1>1
  <2>3. \A v : Mixed(t, v, 0) = v
    BY DEF Mixed
  <2>4. Mixed(t, 256 * info.delta, 2) = 256 * info.delta + (t % 256)
    BY <1>1, <1>3, <2>1 DEF Mixed
  <2>5. Mixed(t, info.offset + 4, 1) = 256 * (t \div 256) + info.offset + 4
    BY <1>1, <1>3, <2>2 DEF Mixed
  <2> QED
    BY <2>3, <2>4, <2>5
<1>10. ASSUME NEW k \in 1..n, P[k].section = s, P[k].address = a
       PROVE  w = Mixed(t, P[k].value, P[k].mode)
  BY <1>5, <1>6, <1>10
<1>11. \A k \in 1..6 : k \in 1..n
  BY <1>2
<1>12. CASE s = 0 /\ a = 544
  <2>1. w = 16 * info.dac[1] + 8
    BY <1>7, <1>9, <1>10, <1>11, <1>12
  <2> QED
    BY <1>1, <1>3, <1>12, <2>1 DEF Setting
<1>13. CASE s = 0 /\ a = 566
  <2>1. w = info.dac[2]
    BY <1>7, <1>9, <1>10, <1>11, <1>13
  <2> QED
    BY <1>1, <1>3, <1>13, <2>1 DEF Setting
<1>14. CASE s = 0 /\ a = 568
  <2>1. w = info.dac[3]
    BY <1>7, <1>9, <1>10, <1>11, <1>14
  <2> QED
    BY <1>1, <1>3, <1>14, <2>1 DEF Setting
<1>15. CASE s = 0 /\ a = 570
  <2>1. w = info.dac[4]
    BY <1>7, <1>9, <1>10, <1>11, <1>15
  <2> QED
    BY <1>1, <1>3, <1>15, <2>1 DEF Setting
<1>16. CASE s = 0 /\ a = 92
  <2>1. w = info.tcode
    BY <1>7, <1>9, <1>10, <1>11, <1>16
  <2> QED
    BY <1>1, <1>3, <1>16, <2>1 DEF Setting
<1>17. CASE s = 2 /\ a = 130
  <2>1. w = 256 * info.delta + (t % 256)
    BY <1>7, <1>9, <1>10, <1>11, <1>17
  <2> QED
    BY <1>1, <1>3, <1>17, <2>1 DEF Setting
<1>18. CASE s = 2 /\ a = 86 /\ info.offset # 0
  <2>1. 7 \in 1..n
    BY <1>2, <1>18
  <2>2. w = 256 * (t \div 256) + info.offset + 4
    BY <1>8, <1>9, <1>10, <1>18, <2>1
  <2> QED
    BY <1>1, <1>3, <1>18, <2>2 DEF Setting
<1>19. CASE /\ ~(s = 0 /\ a \in {544, 566, 568, 570, 92})
            /\ ~(s = 2 /\ a = 130)
            /\ ~(s = 2 /\ a = 86 /\ info.offset # 0)
  <2>1. \A k \in 1..n : k \in {1, 2, 3, 4, 5, 6, 7} /\ (k = 7 => info.offset # 0)
    BY <1>2
  <2>2. \A k \in 1..n : ~(P[k].section = s /\ P[k].address = a)
    <3> SUFFICES ASSUME NEW k \in 1..n PROVE ~(P[k].section = s /\ P[k].address = a)
      OBVIOUS
    <3>1. CASE k \in {1, 2, 3, 4, 5}
      <4>1. P[k].section = 0 /\ P[k].address \in {544, 566, 568, 570, 92}
        BY <1>7, <3>1
      <4> QED
        BY <1>19, <4>1
    <3>2. CASE k = 6
      <4>1. P[k].section = 2 /\ P[k].address = 130
        BY <1>7, <3>2
      <4> QED
        BY <1>19, <4>1
    <3>3. CASE k = 7
      <4>1. info.offset # 0
        BY <2>1, <3>3
      <4>2. P[k].section = 2 /\ P[k].address = 86
        BY <1>8, <3>3, <4>1
      <4> QED
        BY <1>19, <4>1, <4>2
    <3> QED
      BY <2>1, <3>1, <3>2, <3>3
  <2>3. w = t
    BY <1>5, <1>6, <2>2
  <2> QED
    BY <1>1, <1>3, <1>19, <2>3 DEF Setting
<1> QED
  BY <1>12, <1>13, <1>14, <1>15, <1>16, <1>17, <1>18, <1>19

LEMMA PreparedCarries ==
    ASSUME NEW info \in Settings, ConfigPrepare(info) # NoConfig
    PROVE  Carries(ConfigPrepare(info), info)
<1> DEFINE P == Patches(info)
           patched == Modified(P)
           new == WithChecksum(patched)
<1>1. patched # NoConfig /\ ConfigPrepare(info) = new /\ ChecksumFits(new)
  BY DEF ConfigPrepare
<1>2. Patched(patched, P, Len(P))
  BY <1>1, PatchesFit, ModifiedIsPatched
<1> HIDE DEF patched, P
<1>3. \A a \in Places \ {222, 223} : new[a] = patched[a]
  <2>1. patched \in [Places -> Int]
    BY <1>2 DEF Patched, Shaped
  <2> QED
    BY <2>1 DEF WithChecksum, WithWord
<1> HIDE DEF new
<1>4. ASSUME NEW s \in 0..7, NEW i \in Registers(Template, s)
      PROVE  /\ Word(new, i) = Word(Template, i)
             /\ Word(new, i + 2)
                   = Setting(info, s, Word(Template, i), Word(Template, i + 2))
  <2>1. {i, i + 1, i + 2, (i + 2) + 1} \subseteq Places \ {222, 223}
    <3>1. i \in Nat /\ i > 16 /\ i + 3 < 222
      BY RegisterPlaces
    <3> QED
      BY <3>1 DEF Places, ConfigSize
  <2>2. Word(new, i) = Word(patched, i) /\ Word(new, i + 2) = Word(patched, i + 2)
    BY <1>3, <2>1 DEF Word
  <2>3. Word(patched, i) = Word(Template, i)
    <3>1. Shaped(patched)
      BY <1>2 DEF Patched
    <3>2. patched[i] = Template[i] /\ patched[i + 1] = Template[i + 1]
      BY <3>1 DEF Shaped
    <3> QED
      BY <3>2 DEF Word
  <2>4. Word(patched, i + 2) = Setting(info, s, Word(Template, i), Word(Template, i + 2))
    BY <1>2, PatchesSet DEF P
  <2> QED
    BY <2>2, <2>3, <2>4
<1> QED
  BY <1>1, <1>4 DEF Carries

LEMMA ReadingsCarry ==
    ASSUME NEW r \in Readings, r.usable PROVE r.carries
<1>1. PICK p \in ParsedFlips :
        r = LET config == IF Parsed(p.settings) THEN ConfigPrepare(p.settings)
                          ELSE NoConfig
            IN  [settings |-> p.settings, meant |-> p.meant, flips |-> p.flips,
                 usable |-> config # NoConfig,
                 carries |-> config # NoConfig /\ Carries(config, p.settings)]
  BY DEF Readings
<1>2. Parsed(p.settings) /\ ConfigPrepare(p.settings) # NoConfig
  BY <1>1
<1>3. r.carries <=> Carries(ConfigPrepare(p.settings), p.settings)
  BY <1>1, <1>2
<1>4. PICK memory \in Memories : \E f \in Flips(memory) : p.settings = OtpParse(f.memory)
  BY DEF ParsedFlips
<1>5. PICK f \in Flips(memory) : p.settings = OtpParse(f.memory)
  BY <1>4
<1>6. p.settings \in Settings
  BY <1>2, <1>5, BringupAssumption, DamagedTyped, SettingsTyped
<1> QED
  BY <1>2, <1>3, <1>6, PreparedCarries

(***************************************************************************)
(* Every patch finds its register, since the template has them all, and    *)
(* the sum that is written completes the sum of the words before it.  So   *)
(* no settings are refused.                                                *)
(***************************************************************************)
LEMMA PatchFindsRegister ==
    ASSUME NEW config, Shaped(config), NEW patch \in PatchRecord,
           Found(Template, patch.section, patch.address) # {}
    PROVE  ConfigModify(config, patch) # NoConfig
<1>1. patch.section \in 0..7
  BY DEF PatchRecord
<1> DEFINE s == patch.section
           a == patch.address
           F == {i \in Registers(Template, s) : Word(Template, i) = a}
<1>2. Found(config, s, a) = Found(Template, s, a)
  <2>1. Found(config, s, a) = F
    BY <1>1, SameRegisters
  <2>2. Found(Template, s, a) = F
    BY DEF Found
  <2> QED
    BY <2>1, <2>2
<1>3. DOMAIN config = Places /\ 0 \in Places
  BY DEF Shaped, Places, ConfigSize
<1>4. DOMAIN NoConfig = {}
  BY DEF NoConfig
<1>5. \A i, v : DOMAIN WithWord(config, i, v) = Places
  BY <1>3 DEF WithWord
<1>6. config # NoConfig
  BY <1>3, <1>4
<1>7. \E i, v : ConfigModify(config, patch) = WithWord(config, i, v)
  BY <1>2, <1>6 DEF ConfigModify
<1> QED
  BY <1>3, <1>4, <1>5, <1>7

LEMMA AllPatchesWork ==
    ASSUME NEW patches \in Seq(PatchRecord), Different(patches),
           \A k \in 1..Len(patches) :
              Found(Template, patches[k].section, patches[k].address) # {}
    PROVE  Modified(patches) # NoConfig
<1> DEFINE g == CHOOSE g : Chain(g, patches, Len(patches))
           S == {n \in Nat : n <= Len(patches)
                               => g[n] # NoConfig /\ Patched(g[n], patches, n)}
<1>1. Len(patches) \in Nat
  OBVIOUS
<1>2. Chain(g, patches, Len(patches))
  BY <1>1, ChainExists
<1>3. Modified(patches) = g[Len(patches)]
  BY DEF Modified, Chain
<1> HIDE DEF g
<1>4. \A i \in 0..Len(patches) :
        g[i] = IF i = 0 THEN Template ELSE ConfigModify(g[i - 1], patches[i])
  BY <1>2 DEF Chain
<1>5. 0 \in S
  <2>1. g[0] = Template
    BY <1>1, <1>4
  <2>2. DOMAIN Template = Places /\ 0 \in Places /\ DOMAIN NoConfig = {}
    BY TemplateBytes DEF NoConfig, Places, ConfigSize
  <2> QED
    BY <2>1, <2>2, TemplateShaped DEF Patched
<1>6. ASSUME NEW n \in Nat, n \in S PROVE n + 1 \in S
  <2> SUFFICES ASSUME n + 1 <= Len(patches)
               PROVE  g[n + 1] # NoConfig /\ Patched(g[n + 1], patches, n + 1)
    OBVIOUS
  <2>1. n + 1 \in 0..Len(patches) /\ n + 1 # 0 /\ (n + 1) - 1 = n /\ n < Len(patches)
        /\ n + 1 \in 1..Len(patches)
    BY <1>1
  <2>2. g[n + 1] = ConfigModify(g[n], patches[n + 1])
    BY <1>4, <2>1
  <2>3. Patched(g[n], patches, n)
    BY <1>6, <2>1
  <2>4. patches[n + 1] \in PatchRecord
    BY <2>1
  <2>5. g[n + 1] # NoConfig
    BY <2>1, <2>2, <2>3, <2>4, PatchFindsRegister DEF Patched
  <2> QED
    BY <2>1, <2>2, <2>3, <2>5, OnePatchMore
<1> HIDE DEF S
<1>7. Len(patches) \in S
  BY <1>1, <1>5, <1>6, SetInduction
<1> QED
  BY <1>1, <1>3, <1>7 DEF S

Totals(sum, config, n) ==
    sum = [i \in 0..n |-> IF i = 0 THEN 0 ELSE sum[i - 1] + Word(config, 2 * (i - 1))]

LEMMA WordTyped ==
    ASSUME NEW config \in [Places -> Int], NEW k \in 0..111
    PROVE  Word(config, 2 * k) \in Int
<1> DEFINE i == 2 * k
<1>1. i \in Places /\ i + 1 \in Places
  BY DEF Places, ConfigSize
<1> HIDE DEF i
<1>2. Word(config, i) \in Int
  BY <1>1, WordsAreNumbers
<1> QED
  BY <1>2 DEF i

LEMMA TotalsExist ==
    ASSUME NEW config \in [Places -> Int], NEW n \in Nat, n <= 112
    PROVE  \E sum : Totals(sum, config, n)
<1> DEFINE turn == [i \in 1..n |-> [s \in Int |-> s + Word(config, 2 * (i - 1))]]
<1>1. \A i \in 1..n : Word(config, 2 * (i - 1)) \in Int
  <2>1. \A i \in 1..n : i - 1 \in 0..111
    OBVIOUS
  <2> QED
    BY <2>1, WordTyped
<1>2. turn \in [1..n -> [Int -> Int]]
  BY <1>1
<1>3. \A i \in 1..n : \A s \in Int : turn[i][s] = s + Word(config, 2 * (i - 1))
  OBVIOUS
<1> HIDE DEF turn
<1>4. \E h \in [0..n -> Int] : h[0] = 0 /\ \A i \in 1..n : h[i] = turn[i][h[i - 1]]
  <2> DEFINE T == Int
  <2>1. PICK none \in T : none = 0
    OBVIOUS
  <2>2. turn \in [1..n -> [T -> T]]
    BY <1>2
  <2> HIDE DEF T
  <2>3. \E h \in [0..n -> T] :
           h[0] = none /\ \A i \in 1..n : h[i] = turn[i][h[i - 1]]
    BY <2>2, StepsTyped, SMTT(30)
  <2> QED
    BY <2>1, <2>3, Zenon DEF T
<1>5. PICK h \in [0..n -> Int] : h[0] = 0 /\ \A i \in 1..n : h[i] = turn[i][h[i - 1]]
  BY <1>4
<1>6. \A i \in 1..n : h[i] = h[i - 1] + Word(config, 2 * (i - 1))
  <2> SUFFICES ASSUME NEW i \in 1..n PROVE h[i] = h[i - 1] + Word(config, 2 * (i - 1))
    OBVIOUS
  <2>1. i - 1 \in 0..n
    OBVIOUS
  <2>2. h[i - 1] \in Int /\ h[i] = turn[i][h[i - 1]]
    BY <1>5, <2>1
  <2> QED
    BY <1>3, <2>2
<1>7. \A i \in 0..n :
        h[i] = IF i = 0 THEN 0 ELSE h[i - 1] + Word(config, 2 * (i - 1))
  <2>1. \A i \in 0..n : i = 0 \/ i \in 1..n
    OBVIOUS
  <2> QED
    BY <1>5, <1>6, <2>1
<1>8. h = [i \in 0..n |-> h[i]]
  BY <1>5
<1>9. h = [i \in 0..n |-> IF i = 0 THEN 0 ELSE h[i - 1] + Word(config, 2 * (i - 1))]
  BY <1>7, <1>8
<1> QED
  BY <1>9 DEF Totals

LEMMA TotalsAre ==
    ASSUME NEW config \in [Places -> Int], NEW n \in Nat, n <= 112,
           NEW sum, Totals(sum, config, n)
    PROVE  /\ sum[0] = 0
           /\ \A k \in Nat : k < n => sum[k + 1] = sum[k] + Word(config, 2 * k)
           /\ \A k \in 0..n : sum[k] \in Int
<1>1. \A i \in 0..n :
        sum[i] = IF i = 0 THEN 0 ELSE sum[i - 1] + Word(config, 2 * (i - 1))
  BY DEF Totals
<1>2. sum[0] = 0
  <2>1. 0 \in 0..n
    OBVIOUS
  <2> QED
    BY <1>1, <2>1
<1>3. ASSUME NEW k \in Nat, k < n PROVE sum[k + 1] = sum[k] + Word(config, 2 * k)
  <2>1. k + 1 \in 0..n /\ k + 1 # 0 /\ (k + 1) - 1 = k
    BY <1>3
  <2> QED
    BY <1>1, <2>1
<1> DEFINE S == {k \in Nat : k <= n => sum[k] \in Int}
<1>4. 0 \in S
  BY <1>2
<1>5. ASSUME NEW k \in Nat, k \in S PROVE k + 1 \in S
  <2> SUFFICES ASSUME k + 1 <= n PROVE sum[k + 1] \in Int
    OBVIOUS
  <2>1. k < n /\ k <= n /\ k \in 0..111
    OBVIOUS
  <2>2. sum[k] \in Int /\ Word(config, 2 * k) \in Int
    BY <1>5, <2>1, WordTyped
  <2> QED
    BY <1>3, <2>1, <2>2
<1> HIDE DEF S
<1>6. Nat \subseteq S
  BY <1>4, <1>5, SetInduction
<1> QED
  BY <1>2, <1>3, <1>6 DEF S

LEMMA PrefixSums ==
    ASSUME NEW config \in [Places -> Int], NEW n \in Nat, n <= 112
    PROVE  \E sum : /\ Totals(sum, config, n)
                    /\ SumOfWords(config, n) = (42405 + sum[n]) % 65536
<1> DEFINE Is(h) == h = [i \in 0..n |-> IF i = 0 THEN 0
                                        ELSE h[i - 1] + Word(config, 2 * (i - 1))]
           sum == CHOOSE h : Is(h)
<1>1. SumOfWords(config, n) = (42405 + sum[n]) % 65536
  BY DEF SumOfWords
<1>2. \E h : Is(h)
  BY TotalsExist DEF Totals
<1>3. Is(sum)
  BY <1>2
<1> HIDE DEF sum
<1>4. Totals(sum, config, n)
  BY <1>3 DEF Totals
<1> QED
  BY <1>1, <1>4

LEMMA SumCompletes ==
    ASSUME NEW t \in Int, NEW v, v = (65536 - (t % 65536)) % 65536
    PROVE  v \in Int /\ (t + v) % 65536 = 0
<1>1. PICK r \in Int : r = t % 65536 /\ 0 <= r /\ r < 65536
  OBVIOUS
<1>2. PICK q \in Int : t = 65536 * q + r
  <2>1. t = 65536 * (t \div 65536) + r /\ t \div 65536 \in Int
    BY <1>1
  <2> QED
    BY <2>1
<1>3. v \in Int /\ (r = 0 => v = 0) /\ (r # 0 => v = 65536 - r)
  BY <1>1
<1>4. CASE r = 0
  BY <1>1, <1>3, <1>4
<1>5. CASE r # 0
  <2>1. t + v = 65536 * (q + 1)
    BY <1>1, <1>2, <1>3, <1>5
  <2>2. (65536 * (q + 1)) % 65536 = 0
    OBVIOUS
  <2> QED
    BY <1>3, <2>1, <2>2
<1> QED
  BY <1>4, <1>5

LEMMA ChecksumCompletes ==
    ASSUME NEW config \in [Places -> Int]
    PROVE  ChecksumFits(WithChecksum(config))
<1> DEFINE value == (65536 - SumOfWords(config, 111)) % 65536
           new == WithChecksum(config)
<1>1. PICK sum : /\ Totals(sum, config, 111)
                 /\ SumOfWords(config, 111) = (42405 + sum[111]) % 65536
  BY PrefixSums
<1>2. /\ sum[0] = 0 /\ \A k \in Nat : k < 111 => sum[k + 1] = sum[k] + Word(config, 2 * k)
      /\ sum[111] \in Int
  <2>1. /\ sum[0] = 0 /\ \A k \in Nat : k < 111 => sum[k + 1] = sum[k] + Word(config, 2 * k)
        /\ \A k \in 0..111 : sum[k] \in Int
    BY <1>1, TotalsAre
  <2> QED
    BY <2>1
<1> DEFINE all == 42405 + sum[111]
<1>3. value \in Int /\ (all + value) % 65536 = 0
  <2>1. all \in Int /\ value = (65536 - (all % 65536)) % 65536
    BY <1>1, <1>2
  <2> HIDE DEF all, value
  <2> QED
    BY <2>1, SumCompletes
<1>4. /\ new \in [Places -> Int] /\ Word(new, 222) = value
      /\ \A a \in 0..221 : new[a] = config[a]
  <2> HIDE DEF value
  <2>1. /\ value % 256 \in Int /\ value \div 256 \in Int
        /\ (value % 256) + 256 * (value \div 256) = value
    BY <1>3
  <2>2. 222 \in Places /\ 223 \in Places /\ \A a \in 0..221 : a \in Places
    BY DEF Places, ConfigSize
  <2>3. new = [config EXCEPT ![222] = value % 256, ![223] = value \div 256]
    BY DEF WithChecksum, WithWord, value
  <2>4. /\ new \in [Places -> Int]
        /\ new[222] = value % 256 /\ new[223] = value \div 256
        /\ \A a \in 0..221 : new[a] = config[a]
    <3> HIDE DEF new
    <3> QED
      BY <2>1, <2>2, <2>3
  <2>5. Word(new, 222) = new[222] + 256 * new[223]
    BY DEF Word
  <2> HIDE DEF new
  <2> QED
    BY <2>1, <2>4, <2>5
<1> HIDE DEF new
<1>5. PICK total : /\ Totals(total, new, 112)
                   /\ SumOfWords(new, 112) = (42405 + total[112]) % 65536
  BY <1>4, PrefixSums
<1>6. /\ total[0] = 0 /\ \A k \in Nat : k < 112 => total[k + 1] = total[k] + Word(new, 2 * k)
  BY <1>4, <1>5, TotalsAre
<1>7. \A k \in 0..110 : Word(new, 2 * k) = Word(config, 2 * k)
  BY <1>4 DEF Word
<1> DEFINE S == {k \in Nat : k <= 111 => total[k] = sum[k]}
<1>8. 0 \in S
  BY <1>2, <1>6
<1>9. ASSUME NEW k \in Nat, k \in S PROVE k + 1 \in S
  <2> SUFFICES ASSUME k + 1 <= 111 PROVE total[k + 1] = sum[k + 1]
    OBVIOUS
  <2>1. k < 111 /\ k < 112 /\ k \in 0..110
    OBVIOUS
  <2>2. total[k + 1] = total[k] + Word(new, 2 * k) /\ sum[k + 1] = sum[k] + Word(config, 2 * k)
    BY <1>2, <1>6, <2>1
  <2>3. total[k] = sum[k] /\ Word(new, 2 * k) = Word(config, 2 * k)
    BY <1>7, <1>9, <2>1
  <2> QED
    BY <2>2, <2>3
<1> HIDE DEF S
<1>10. total[111] = sum[111]
  <2>1. Nat \subseteq S
    BY <1>8, <1>9, SetInduction
  <2> QED
    BY <2>1 DEF S
<1>11. total[112] = sum[111] + value
  <2>1. 111 < 112 /\ 111 + 1 = 112 /\ 2 * 111 = 222 /\ 111 \in Nat
    OBVIOUS
  <2>2. total[111 + 1] = total[111] + Word(new, 2 * 111)
    BY <1>6, <2>1
  <2> QED
    BY <1>4, <1>10, <2>1, <2>2
<1> HIDE DEF value
<1>12. 42405 + total[112] = all + value
  BY <1>2, <1>11, <1>3
<1> QED
  BY <1>5, <1>12, <1>3 DEF ChecksumFits, new

LEMMA SettingsAreAccepted ==
    ASSUME NEW info \in Settings
    PROVE  ConfigPrepare(info) # NoConfig
<1> DEFINE P == Patches(info)
           patched == Modified(P)
<1>1. P \in Seq(PatchRecord) /\ Different(P)
  BY PatchesFit
<1>2. \A k \in 1..Len(P) : Found(Template, P[k].section, P[k].address) # {}
  <2>1. info.offset \in 0..3 /\ Len(P) = IF info.offset = 0 THEN 6 ELSE 7
    BY DEF Patches, Settings
  <2>2. /\ P[1] = Patch(0, 544, 16 * info.dac[1] + 8, 0)
        /\ P[2] = Patch(0, 566, info.dac[2], 0)
        /\ P[3] = Patch(0, 568, info.dac[3], 0)
        /\ P[4] = Patch(0, 570, info.dac[4], 0)
        /\ P[5] = Patch(0, 92, info.tcode, 0)
        /\ P[6] = Patch(2, 130, 256 * info.delta, 2)
        /\ info.offset # 0 => P[7] = Patch(2, 86, info.offset + 4, 1)
    BY DEF Patches
  <2> HIDE DEF P
  <2>3. \A k \in 1..5 : P[k].section = 0 /\ P[k].address \in {544, 566, 568, 570, 92}
    <3>1. \A k \in 1..5 : k = 1 \/ k = 2 \/ k = 3 \/ k = 4 \/ k = 5
      OBVIOUS
    <3> QED
      BY <2>2, <3>1 DEF Patch
  <2>4. P[6].section = 2 /\ P[6].address = 130
    BY <2>2 DEF Patch
  <2>5. info.offset # 0 => P[7].section = 2 /\ P[7].address = 86
    BY <2>2 DEF Patch
  <2>6. \A k \in 1..Len(P) : k \in 1..5 \/ k = 6 \/ (k = 7 /\ info.offset # 0)
    BY <2>1
  <2> SUFFICES ASSUME NEW k \in 1..Len(P)
               PROVE  Found(Template, P[k].section, P[k].address) # {}
    OBVIOUS
  <2>7. CASE k \in 1..5
    <3>1. PICK address \in {544, 566, 568, 570, 92} : P[k].address = address
      BY <2>3, <2>7
    <3>2. P[k].section = 0
      BY <2>3, <2>7
    <3>3. Found(Template, 0, address) # {}
      BY PatchAssumption
    <3> QED
      BY <3>1, <3>2, <3>3
  <2>8. CASE k = 6
    <3>1. Found(Template, 2, 130) # {}
      BY PatchAssumption
    <3> QED
      BY <2>4, <2>8, <3>1
  <2>9. CASE k = 7 /\ info.offset # 0
    <3>1. Found(Template, 2, 86) # {}
      BY PatchAssumption
    <3> QED
      BY <2>5, <2>9, <3>1
  <2> QED
    BY <2>6, <2>7, <2>8, <2>9
<1>3. patched # NoConfig
  BY <1>1, <1>2, AllPatchesWork
<1>4. patched \in [Places -> Int]
  BY <1>1, <1>3, ModifiedIsPatched DEF Patched, Shaped
<1>5. ChecksumFits(WithChecksum(patched))
  BY <1>4, ChecksumCompletes
<1>6. WithChecksum(patched) # NoConfig
  <2>1. DOMAIN WithChecksum(patched) = Places
    BY <1>4 DEF WithChecksum, WithWord
  <2>2. DOMAIN NoConfig = {} /\ 0 \in Places
    BY DEF NoConfig, Places, ConfigSize
  <2> QED
    BY <2>1, <2>2
<1> QED
  BY <1>3, <1>5, <1>6 DEF ConfigPrepare

LEMMA FactoryIsAccepted ==
    ASSUME NEW memory \in Memories
    PROVE  Parsed(OtpParse(memory)) /\ ConfigPrepare(OtpParse(memory)) # NoConfig
<1>1. memory \in [Addresses -> Byte]
  BY FactoryTyped
<1>2. Bytes(memory, FtDac) \in [1..4 -> Int]
  BY <1>1, DacBytes
<1>3. DOMAIN Bytes(memory, FtDac) = 1..4 /\ DOMAIN NoDac = {} /\ 1 \in 1..4
  BY <1>2 DEF NoDac
<1>4. OtpParse(memory).dac = Bytes(memory, FtDac)
  BY UndamagedDac DEF OtpParse
<1>5. Parsed(OtpParse(memory))
  BY <1>3, <1>4 DEF Parsed
<1> QED
  BY <1>1, <1>5, SettingsTyped, SettingsAreAccepted

(***************************************************************************)
(* What DamageIsHarmless says, of every reading.                           *)
(***************************************************************************)
LEMMA ReadingsAreHarmless ==
    ASSUME NEW r \in Readings
    PROVE  /\ r.flips < 2 => r.settings = r.meant /\ r.usable
           /\ Parsed(r.settings) =>
                \A i \in 1..4 : r.settings.dac[i]
                                  \in {r.meant.dac[i], MeanOfOthers(r.meant.dac, i)}
<1>1. PICK p \in ParsedFlips :
        r = LET config == IF Parsed(p.settings) THEN ConfigPrepare(p.settings)
                          ELSE NoConfig
            IN  [settings |-> p.settings, meant |-> p.meant, flips |-> p.flips,
                 usable |-> config # NoConfig,
                 carries |-> config # NoConfig /\ Carries(config, p.settings)]
  BY DEF Readings
<1>2. /\ r.settings = p.settings /\ r.meant = p.meant /\ r.flips = p.flips
      /\ Parsed(p.settings) /\ ConfigPrepare(p.settings) # NoConfig => r.usable
  BY <1>1
<1>3. PICK memory \in Memories : \E f \in Flips(memory) :
        p = [settings |-> OtpParse(f.memory), meant |-> OtpParse(memory),
             flips |-> f.flips]
  BY DEF ParsedFlips
<1>4. PICK f \in Flips(memory) :
        p = [settings |-> OtpParse(f.memory), meant |-> OtpParse(memory),
             flips |-> f.flips]
  BY <1>3
<1>5. /\ p.settings = OtpParse(f.memory) /\ p.meant = OtpParse(memory)
      /\ p.flips = f.flips
  BY <1>4
<1>6. ASSUME r.flips < 2 PROVE r.settings = r.meant /\ r.usable
  <2>1. OtpParse(f.memory) = OtpParse(memory)
    BY <1>2, <1>5, <1>6, OneFlipKeepsSettings
  <2> QED
    BY <1>2, <1>5, <2>1, FactoryIsAccepted
<1>7. ASSUME Parsed(r.settings), NEW i \in 1..4
      PROVE  r.settings.dac[i] \in {r.meant.dac[i], MeanOfOthers(r.meant.dac, i)}
  <2>1. r.settings.dac = SelectDac(f.memory) /\ r.meant.dac = SelectDac(memory)
    BY <1>2, <1>5 DEF OtpParse
  <2>2. SelectDac(f.memory) # NoDac
    BY <1>7, <2>1 DEF Parsed
  <2> QED
    BY <2>1, <2>2, ValuesAreKept
<1> QED
  BY <1>6, <1>7

(***************************************************************************)
(* The reading in otp is one of a memory while the open is about to        *)
(* prepare the configuration.                                              *)
(***************************************************************************)
ReadingInv == at = "prepare" => otp \in Readings

LEMMA ReadingStep == ReadingInv /\ [BringupNext]_bringupVars => ReadingInv'
<1> SUFFICES ASSUME ReadingInv, [BringupNext]_bringupVars PROVE ReadingInv'
  OBVIOUS
<1>1. CASE Elsewhere \/ EnterTalk \/ EndSession \/ ForgetAll \/ PowerCycle
  BY <1>1 DEF Elsewhere, EnterTalk, EndSession, ForgetAll, PowerCycle, openVars,
              ReadingInv
<1>2. CASE Break \/ PrepareConfig
  BY <1>2 DEF Break, PrepareConfig, GiveUp, ReadingInv
<1>3. CASE AskFirst \/ PutToIdle \/ CheckChip
  BY <1>3 DEF AskFirst, PutToIdle, CheckChip, Proceed, ReadingInv
<1>4. CASE ReadOtp
  BY <1>4 DEF ReadOtp, ReadingInv
<1>5. CASE Upload \/ ClearTls \/ SendInit \/ TakeFlight
  BY <1>5 DEF Upload, ClearTls, SendInit, TakeFlight, Proceed, Following, GiveUp,
              ReadingInv, openVars
<1>6. CASE ReturnFromShake \/ Flush \/ ReadFlights
  BY <1>6 DEF ReturnFromShake, Flush, ReadFlights, Proceed, Afterwards, ReadingInv
<1>7. CASE Establish \/ PollAgain \/ BecomeActive
  BY <1>7 DEF Establish, PollAgain, BecomeActive, Proceed, ReadingInv
<1>8. CASE ReceiveFlight \/ SensorHandles
  BY <1>8 DEF ReceiveFlight, SensorHandles, ReadingInv, openVars
<1>9. CASE Rest \/ UNCHANGED bringupVars
  BY <1>9 DEF Rest, bringupVars, openVars, ReadingInv
<1> QED
  BY <1>1, <1>2, <1>3, <1>4, <1>5, <1>6, <1>7, <1>8, <1>9 DEF BringupNext, Talking

(***************************************************************************)
(* Whatever memory is read, with whatever bits flipped, a configuration    *)
(* that is uploaded has every setting in its register, the template in all *)
(* the others, and a checksum that fits.                                   *)
(***************************************************************************)
THEOREM UploadsCarrySettings == BringupSpec => []UploadCarriesSettings
<1>1. BringupInit => ReadingInv
  BY DEF BringupInit, ReadingInv
<1>2. ReadingInv => UploadCarriesSettings
  BY ReadingsCarry DEF ReadingInv, UploadCarriesSettings
<1> QED
  BY <1>1, <1>2, ReadingStep, PTL DEF BringupSpec

(***************************************************************************)
(* One flipped bit, anywhere in the memory, changes no setting, and the    *)
(* configuration is made of them.  After two flipped bits among the DAC    *)
(* values and their checksums the open may fail, or do with the mean of    *)
(* the other three for one value; a damaged value is never used.           *)
(***************************************************************************)
THEOREM DamageDoesNoHarm == BringupSpec => []DamageIsHarmless
<1>1. BringupInit => ReadingInv
  BY DEF BringupInit, ReadingInv
<1>2. ReadingInv => DamageIsHarmless
  BY ReadingsAreHarmless DEF ReadingInv, DamageIsHarmless
<1> QED
  BY <1>1, <1>2, ReadingStep, PTL DEF BringupSpec
=============================================================================
