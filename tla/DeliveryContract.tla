------------------------- MODULE DeliveryContract -------------------------
(***************************************************************************)
(* What the notification outbox promises to the rest of the system,        *)
(* without workers, claims, timers or retries: a row is opened once, the   *)
(* provider may accept copies of its message, the row is closed once as    *)
(* sent or failed, and a failed push row may open one Alimtalk row in its  *)
(* place.  NotificationOutbox is shown to implement this module.           *)
(***************************************************************************)
EXTENDS Naturals

CONSTANTS Jobs,     \* outbox rows
          NoJob     \* "this row is nobody's fallback"

VARIABLES phase,    \* [Jobs -> {"absent", "open", "sent", "failed"}]
          copies,   \* how many messages a provider has accepted for the row
          parent    \* the failed push row that a fallback row stands in for

contractVars == <<phase, copies, parent>>

Init == /\ phase = [j \in Jobs |-> "absent"]
        /\ copies = [j \in Jobs |-> 0]
        /\ parent = [j \in Jobs |-> NoJob]

Open(j) == /\ phase[j] = "absent"
           /\ phase' = [phase EXCEPT ![j] = "open"]
           /\ UNCHANGED <<copies, parent>>

\* A provider may accept a message after the row is closed: a request cannot be recalled.
Accept(j) == /\ phase[j] # "absent"
             /\ copies' = [copies EXCEPT ![j] = @ + 1]
             /\ UNCHANGED <<phase, parent>>

CloseSent(j) == /\ phase[j] = "open"
                /\ copies[j] > 0
                /\ phase' = [phase EXCEPT ![j] = "sent"]
                /\ UNCHANGED <<copies, parent>>

CloseFailed(j) == /\ phase[j] = "open"
                  /\ phase' = [phase EXCEPT ![j] = "failed"]
                  /\ UNCHANGED <<copies, parent>>

FallBack(j, k) == /\ phase[j] = "failed"
                  /\ phase[k] = "absent"
                  /\ \A i \in Jobs : parent[i] # j
                  /\ phase' = [phase EXCEPT ![k] = "open"]
                  /\ parent' = [parent EXCEPT ![k] = j]
                  /\ UNCHANGED copies

Next == \E j \in Jobs : \/ Open(j)
                        \/ Accept(j)
                        \/ CloseSent(j)
                        \/ CloseFailed(j)
                        \/ \E k \in Jobs : FallBack(j, k)

Spec == Init /\ [][Next]_contractVars
===========================================================================
