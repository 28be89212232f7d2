------------------------ MODULE NotificationCatalog ------------------------
(***************************************************************************)
(* The event types of the notification module and the tables that must     *)
(* agree about them: the payload each type is validated against            *)
(* (PAYLOAD_SCHEMAS), the members of its payload interface, the variables  *)
(* its default copy uses (TEMPLATE_TEXT) and its priority (TEMPLATE_META). *)
(* No state.                                                               *)
(*                                                                         *)
(* A payload is abstracted to the set of fields it carries with the right  *)
(* kind of value, and the subset of these whose value is the empty string. *)
(***************************************************************************)

\* Fields a payload must carry: the non-optional entries of PAYLOAD_SCHEMAS.
RequiredFields ==
    [KYC_PENDING |-> {"userName"},
     KYC_REJECTED |-> {"reason"},
     KYC_APPROVED |-> {"userName", "approvedAt"},
     KYC_REVERIFICATION_REQUIRED |-> {"userName"},
     KYC_REVERIFICATION_REQUIRED_ADMIN |-> {"userName"},
     KYC_REVERIFICATION_SUCCESS |-> {"userName"},
     KYC_REVERIFICATION_SUSPENDED |-> {"userName", "suspendedAt"},
     REMITTANCE_PROCESSING |-> {"amount", "currency", "recipientName"},
     REMITTANCE_DELAYED |-> {"recipientName"},
     REMITTANCE_FAILED |-> {"transferId", "amount", "currency", "recipientName", "reason"},
     REMITTANCE_COMPLETED |-> {"amount", "currency", "recipientName"},
     LIMIT_WARNING |-> {"remainingLimit"},
     FX_ALERT |-> {"currency", "targetRate", "currentRate"},
     TICKET_RECEIVED |-> {"ticketId"},
     TICKET_RESOLVED |-> {"ticketSubject"},
     REFERRAL_JOINED |-> {"friendName"},
     REFERRAL_REWARDED |-> {"rewardAmount", "currency"},
     FDS_ALERT |-> {"amount"},
     NEW_DEVICE_LOGIN |-> {"deviceModel"},
     SUSPICIOUS_TRANSFER |-> {"amount", "recipientName"},
     SYSTEM_DOWNTIME |-> {},
     AUDIT_SENSITIVE_ACCESS |-> {"adminName", "ipAddress"},
     AUDIT_ACCOUNT_CREATION |-> {"targetAccount"},
     AUDIT_PERSONAL_DATA |-> {"adminName", "targetUser"},
     AUDIT_CUSTOMER_FUNDS |-> {"amount", "targetUser"},
     AUDIT_FX_DEPOSIT |-> {"adminName"}]

\* Fields a payload may carry beside them: the optional members of its interface.
OptionalFields ==
    LET optional ==
          [REMITTANCE_FAILED |-> {"deepLink"},
           SYSTEM_DOWNTIME |-> {"node", "lossRate", "sysCode"},
           AUDIT_SENSITIVE_ACCESS |-> {"resourceName", "sysCode"},
           AUDIT_ACCOUNT_CREATION |-> {"sysCode"},
           AUDIT_PERSONAL_DATA |-> {"sysCode"},
           AUDIT_CUSTOMER_FUNDS |-> {"sysCode"},
           AUDIT_FX_DEPOSIT |-> {"sysCode"}]
    IN  [type \in DOMAIN RequiredFields |->
            IF type \in DOMAIN optional THEN optional[type] ELSE {}]

\* exists(type): the types are the keys of the tables.
EventTypes == DOMAIN RequiredFields

\* validateNotificationPayload: mistyped fields count as missing ones.
Accepts(type, fields) == RequiredFields[type] \subseteq fields

\* Variables of the default copy, in either language, without a default of
\* their own.
BareVariables ==
    LET used ==
          [KYC_APPROVED |-> {"userName"},
           REMITTANCE_PROCESSING |-> {"amount", "currency", "recipientName"},
           REMITTANCE_DELAYED |-> {"recipientName"},
           REMITTANCE_FAILED |-> {"amount"},
           REMITTANCE_COMPLETED |-> {"amount", "recipientName"},
           LIMIT_WARNING |-> {"remainingLimit"},
           FX_ALERT |-> {"currency", "targetRate"},
           TICKET_RECEIVED |-> {"ticketId"},
           TICKET_RESOLVED |-> {"ticketSubject"},
           REFERRAL_JOINED |-> {"friendName"},
           REFERRAL_REWARDED |-> {"rewardAmount", "currency"},
           FDS_ALERT |-> {"amount"},
           NEW_DEVICE_LOGIN |-> {"deviceModel"},
           SUSPICIOUS_TRANSFER |-> {"amount", "recipientName"},
           AUDIT_SENSITIVE_ACCESS |-> {"adminName", "ipAddress"},
           AUDIT_ACCOUNT_CREATION |-> {"targetAccount"},
           AUDIT_PERSONAL_DATA |-> {"adminName", "targetUser"},
           AUDIT_CUSTOMER_FUNDS |-> {"amount", "targetUser"},
           AUDIT_FX_DEPOSIT |-> {"adminName"}]
    IN  [type \in EventTypes |-> IF type \in DOMAIN used THEN used[type] ELSE {}]

\* Variables written {{name|default}}; they never leave a hole.
DefaultedVariables ==
    LET used ==
          [KYC_PENDING |-> {"userName"},
           KYC_REJECTED |-> {"reason"},
           REMITTANCE_FAILED |-> {"reason"},
           SYSTEM_DOWNTIME |-> {"node", "lossRate"},
           AUDIT_SENSITIVE_ACCESS |-> {"resourceName"}]
    IN  [type \in EventTypes |-> IF type \in DOMAIN used THEN used[type] ELSE {}]

\* extractVariables: what an admin editing the copy is told may be used.
Variables(type) == BareVariables[type] \cup DefaultedVariables[type]

\* interpolate leaves a hole where a bare variable is absent or empty.
Holes(bare, fields, empty) == bare \ (fields \ empty)

\* A payload that validation accepts leaves no hole in the default copy of its
\* event, in either language (empty strings do), and every variable that admins
\* are offered is one a payload of that event can carry (PAYLOAD_SCHEMAS, the
\* payload interfaces, TEMPLATE_TEXT, interpolate, extractVariables).
DefaultCopyIsComplete ==
    \A type \in EventTypes :
        /\ \A fields \in SUBSET (RequiredFields[type] \cup OptionalFields[type]) :
              Accepts(type, fields) => Holes(BareVariables[type], fields, {}) = {}
        /\ Variables(type) \subseteq RequiredFields[type] \cup OptionalFields[type]

\* TEMPLATE_META through PRIORITY_MAP.
PriorityOf ==
    [type \in EventTypes |->
        CASE type \in {"KYC_REJECTED", "KYC_REVERIFICATION_SUSPENDED", "REMITTANCE_DELAYED",
                       "REMITTANCE_FAILED", "FDS_ALERT", "SUSPICIOUS_TRANSFER", "SYSTEM_DOWNTIME",
                       "AUDIT_SENSITIVE_ACCESS", "AUDIT_ACCOUNT_CREATION",
                       "AUDIT_CUSTOMER_FUNDS"} -> 10
          [] type \in {"KYC_APPROVED", "LIMIT_WARNING", "FX_ALERT"} -> 5
          [] type \in {"TICKET_RECEIVED", "REFERRAL_JOINED", "REFERRAL_REWARDED"} -> 1
          [] OTHER -> 7]
=============================================================================
