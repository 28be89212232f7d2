----------------------- MODULE MCNotificationPublish -----------------------
(* A small instance of NotificationPublish for TLC. *)
EXTENDS NotificationPublish, TLC

CONSTANTS u1, u2, stranger, t1, a, b, c1, c2

Pref(in, out) == [ch \in Channels |-> IF ch \in in THEN "in" ELSE IF ch \in out THEN "out" ELSE "unset"]

\* A user with two devices and no preferences; one without a device who has
\* opted in to push only; and one with a device who has opted out of push and
\* in to text messages.
Reachable == [tokens |-> 2, email |-> TRUE, phone |-> TRUE, pref |-> Pref({}, {})]
NoDevice == [tokens |-> 0, email |-> FALSE, phone |-> TRUE, pref |-> Pref({"PUSH"}, {"EMAIL"})]
NoPush == [tokens |-> 1, email |-> FALSE, phone |-> TRUE, pref |-> Pref({"SMS"}, {"PUSH"})]
MCProfiles == {Reachable, NoDevice, NoPush}

Failed == UseCaseDto("REMITTANCE_FAILED", u1, t1, a)
Success == UseCaseDto("KYC_REVERIFICATION_SUCCESS", u1, t1, a)
Reward == [user |-> u2, type |-> "REFERRAL_REWARDED", fields |-> {"rewardAmount", "currency"},
           category |-> "MARKETING", channels |-> {"PUSH", "SMS", "ALIMTALK"}, key |-> NoKey, body |-> a]

\* Use cases, one keyed by transfer and one by user; marketing through the
\* internal controller; the same key with another body, and sent to another
\* user; a payload without its fields; and a user who does not exist.
MCDtos ==
    {Failed, Success, Reward,
     [Failed EXCEPT !.body = b], [Failed EXCEPT !.user = u2],
     [Reward EXCEPT !.fields = {"currency"}], [Reward EXCEPT !.user = stranger]}

MCKeys == {Failed.key, Success.key}
MCUsers == {u1, u2}

\* Either user may be any of the three, the other one the next in turn.
MCStart == {[u \in MCUsers |-> IF u = u1 THEN p[1] ELSE p[2]] :
              p \in {<<Reachable, NoPush>>, <<NoDevice, Reachable>>, <<NoPush, NoDevice>>}}

CallSymmetry == Permutations(Calls)
=============================================================================
