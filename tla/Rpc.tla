-------------------------------- MODULE Rpc ---------------------------------
(***************************************************************************)
(* What a command promises to the code that issues it, without threads,    *)
(* sequence counters or timeouts: one call at a time; evidence (an         *)
(* acknowledgement, a response) counts only when it comes in while the     *)
(* call is in progress; the call succeeds only on the evidence it asked    *)
(* for, and gives up only after its last attempt.                          *)
(***************************************************************************)
EXTENDS Naturals

CONSTANTS Slots,          \* command codes (cmd0/cmd1)
          NeedsAck,       \* codes sent with a non-zero acknowledgement timeout
          NeedsResponse,  \* codes sent with expect_response
          Attempts        \* [Slots -> attempts allowed]

VARIABLES verdict,  \* "none", "busy", "ok" or "failed"
          slot,     \* the code of the current or latest call
          tries,    \* attempts begun by the current call
          arrived   \* evidence that came in during the current call

rpcVars == <<verdict, slot, tries, arrived>>

Evidence == {"ack", "resp"}

(***************************************************************************)
(* The response alone proves that the command was carried out; without one *)
(* to wait for, the acknowledgement has to.                                *)
(***************************************************************************)
Sufficient(s, e) ==
    /\ s \in NeedsResponse => "resp" \in e
    /\ s \in NeedsAck \ NeedsResponse => "ack" \in e

Init ==
    /\ verdict = "none"
    /\ slot \in Slots
    /\ tries = 0
    /\ arrived = {}

Begin(s) ==
    /\ verdict # "busy"
    /\ verdict' = "busy"
    /\ slot' = s
    /\ tries' = 1
    /\ arrived' = {}

Retry ==
    /\ verdict = "busy"
    /\ tries < Attempts[slot]
    /\ tries' = tries + 1
    /\ UNCHANGED <<verdict, slot, arrived>>

Arrive(k) ==
    /\ arrived' = arrived \cup {k}
    /\ UNCHANGED <<verdict, slot, tries>>

Succeed ==
    /\ verdict = "busy"
    /\ Sufficient(slot, arrived)
    /\ verdict' = "ok"
    /\ UNCHANGED <<slot, tries, arrived>>

GiveUp ==
    /\ verdict = "busy"
    /\ tries = Attempts[slot]
    /\ verdict' = "failed"
    /\ UNCHANGED <<slot, tries, arrived>>

(***************************************************************************)
(* The session is closed and forgets its last call.                        *)
(***************************************************************************)
Forget ==
    /\ verdict # "busy"
    /\ verdict' = "none"
    /\ UNCHANGED <<slot, tries, arrived>>

Next ==
    \/ \E s \in Slots : Begin(s)
    \/ Retry
    \/ \E k \in Evidence : Arrive(k)
    \/ Succeed
    \/ GiveUp
    \/ Forget

Spec == Init /\ [][Next]_rpcVars
=============================================================================
