---------------------- MODULE MCNotificationOutbox ----------------------
(* Small instances of NotificationOutbox for TLC. *)
EXTENDS NotificationOutbox, TLC

CONSTANTS p1, k1, s1, w1, w2

\* A push row of high priority, its would-be Alimtalk fallback, and an SMS row.
MCChannel == [j \in Jobs |-> CASE j = p1 -> "PUSH"
                               [] j = k1 -> "KAKAO"
                               [] j = s1 -> "SMS"]

\* The priorities publish takes from the event types; a fallback inherits its
\* push row's.
Catalog == INSTANCE NotificationCatalog
MCPriority == [j \in Jobs |-> Catalog!PriorityOf[IF j = s1 THEN "REFERRAL_REWARDED" ELSE "REMITTANCE_FAILED"]]

WorkerSymmetry == Permutations(Workers)
===========================================================================
