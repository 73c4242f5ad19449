-------------------------- MODULE CertificationAlerts --------------------------
(***************************************************************************)
(* Warnings about certificates that expire: the daily scan of              *)
(* certification-expiry.worker.ts, the check after an upload, and          *)
(* dispatchCertificationAlertCandidate, which claims an alert by a unique  *)
(* row before it notifies the lane's owner.  A process runs one scan at a  *)
(* time (isRunning), several processes scan at once, and the upload's      *)
(* check runs beside them.                                                 *)
(***************************************************************************)
EXTENDS Notifications

CONSTANTS
    Certs,         \* certification artifacts, each the latest of its lane and type
    Expiry,        \* cert -> the day it expires, or NoExpiry
    Days           \* bound: the days on which something happens

NoExpiry == -1
Codes == {"WARNING_30", "WARNING_14", "WARNING_7", "EXPIRED"}
Alerts == Certs \X Codes

ASSUME CertAssumption ==
    /\ Expiry \in [Certs -> Nat \cup {NoExpiry}]
    /\ Days \subseteq Nat /\ 0 \in Days

VARIABLES
    day,           \* the clock, in days
    certs,         \* artifacts uploaded so far
    delivery,      \* certification_alert_deliveries: the status of an alert's row
    notices,       \* alert -> how many notifications of it were stored
    alerting,      \* slot -> the scan or the upload's check in it
    released,      \* ghost: alert -> how many claims were released after the notification
    orphaned       \* ghost: alerts whose claim lost its holder

alertingVars == <<day, certs, delivery, notices, alerting, released, orphaned>>

\* todo: the artifacts still to look at; held: the alert claimed, at most one.
Round == [at : {"none", "claim", "notify", "complete", "release"}, upload : BOOLEAN,
          now : Nat, todo : SUBSET Certs, held : SUBSET Alerts, told : BOOLEAN]
NoRound == [at |-> "none", upload |-> FALSE, now |-> 0, todo |-> {}, held |-> {}, told |-> FALSE]

-----------------------------------------------------------------------------
\* readCertificationExpiryStatus: no expiry date counts as expired.
Expired(c, now) == Expiry[c] = NoExpiry \/ Expiry[c] <= now

\* resolveWarningDays
Warning(left) ==
    CASE left <= 7 -> {"WARNING_7"}
      [] left \in 8 .. 14 -> {"WARNING_14"}
      [] left \in 15 .. 30 -> {"WARNING_30"}
      [] OTHER -> {}

\* buildImmediateCertificationAlertCandidate, buildScheduledCertificationAlertCandidate
Candidates(c, r) ==
    IF Expired(c, r.now) THEN {<<c, "EXPIRED">>}
    ELSE IF r.upload THEN {}
    ELSE {c} \X Warning(Expiry[c] - r.now)

\* The next artifact of the scan; c is done with, or given up after an error.
Onward(s, c) ==
    LET todo == alerting[s].todo \ {c}
    IN  alerting' = [alerting EXCEPT ![s] =
            IF todo = {} THEN NoRound
            ELSE [@ EXCEPT !.at = "claim", !.todo = todo, !.held = {}, !.told = FALSE]]
Proceed(s, c) == Onward(s, c) /\ EndOr(s, alerting[s].todo \ {c} # {})
GiveUp(s, c) == Onward(s, c) /\ StumbleOr(s, alerting[s].todo \ {c} # {})

-----------------------------------------------------------------------------
AlertingInit ==
    /\ day = 0 /\ certs = {}
    /\ delivery = [a \in Alerts |-> "none"]
    /\ notices = [a \in Alerts |-> 0]
    /\ alerting = [s \in Slots |-> NoRound]
    /\ released = [a \in Alerts |-> 0]
    /\ orphaned = {}

PassDays ==
    /\ \E d \in Days : d > day /\ day' = d
    /\ UNCHANGED <<certs, delivery, notices, alerting, released, orphaned>> /\ Continue

\* runScan: the clock and the list are read once; with nothing listed it ends at once.
StartScan(s) ==
    /\ certs # {}
    /\ Begin(s, "alert")
    /\ alerting' = [alerting EXCEPT ![s] =
           [NoRound EXCEPT !.at = "claim", !.now = day, !.todo = certs]]
    /\ UNCHANGED <<day, certs, delivery, notices, released, orphaned>>

\* An upload has committed its artifact and goes on to notifyCertificationAlertAfterUpload.
Upload(s, c) ==
    /\ c \notin certs
    /\ Begin(s, "alert")
    /\ certs' = certs \cup {c}
    /\ alerting' = [alerting EXCEPT ![s] =
           [NoRound EXCEPT !.at = "claim", !.upload = TRUE, !.now = day, !.todo = {c}]]
    /\ UNCHANGED <<day, delivery, notices, released, orphaned>>

\* No candidate, or claimCertificationAlertDelivery meets a row of the same alert.
Skip(s) ==
    /\ alerting[s].at = "claim"
    /\ \E c \in alerting[s].todo :
          /\ \A a \in Candidates(c, alerting[s]) : delivery[a] # "none"
          /\ Proceed(s, c)
    /\ UNCHANGED <<day, certs, delivery, notices, released, orphaned>>

ClaimAgain(s) ==
    /\ alerting[s].at = "claim"
    /\ \E c \in alerting[s].todo : \E a \in Candidates(c, alerting[s]) :
          /\ delivery' = [delivery EXCEPT ![a] = "CLAIMED"]
          /\ alerting' = [alerting EXCEPT ![s].at = "notify", ![s].held = {a}]
    /\ UNCHANGED <<day, certs, notices, released, orphaned>> /\ Continue
\* claimCertificationAlertDelivery inserts the row.
Claim(s) ==
    /\ alerting[s].at = "claim"
    /\ \E c \in alerting[s].todo : \E a \in Candidates(c, alerting[s]) :
          /\ delivery[a] = "none"
          /\ delivery' = [delivery EXCEPT ![a] = "CLAIMED"]
          /\ alerting' = [alerting EXCEPT ![s].at = "notify", ![s].held = {a}]
    /\ UNCHANGED <<day, certs, notices, released, orphaned>> /\ Continue

\* notifyLaneOwner: no channel enabled, nothing stored.
NotifyLaneOwner(s) ==
    /\ alerting[s].at = "notify"
    /\ notices' = [a \in Alerts |->
           IF a \in alerting[s].held /\ ~muted THEN notices[a] + 1 ELSE notices[a]]
    /\ alerting' = [alerting EXCEPT ![s].at = "complete", ![s].told = ~muted]
    /\ UNCHANGED <<day, certs, delivery, released, orphaned>> /\ Continue

\* completeCertificationAlertDelivery
Complete(s) ==
    /\ alerting[s].at = "complete"
    /\ delivery' = [a \in Alerts |->
           IF a \notin alerting[s].held THEN delivery[a]
           ELSE IF alerting[s].told THEN "DELIVERED" ELSE "SKIPPED"]
    /\ \E a \in alerting[s].held : Proceed(s, a[1])
    /\ UNCHANGED <<day, certs, notices, released, orphaned>>

\* The notification, its fan-out or the update of the row throws.
FailToNotify(s) ==
    /\ alerting[s].at \in {"notify", "complete"}
    /\ Stumble
    /\ alerting' = [alerting EXCEPT ![s].at = "release"]
    /\ UNCHANGED <<day, certs, delivery, notices, released, orphaned>>

\* releaseCertificationAlertDelivery; the scan catches the error and goes on.
Release(s) ==
    /\ alerting[s].at = "release"
    /\ delivery' = [a \in Alerts |-> IF a \in alerting[s].held THEN "none" ELSE delivery[a]]
    /\ released' = [a \in Alerts |->
           IF a \in alerting[s].held /\ alerting[s].told THEN released[a] + 1 ELSE released[a]]
    /\ \E a \in alerting[s].held : Proceed(s, a[1])
    /\ UNCHANGED <<day, certs, notices, orphaned>>

\* The claim throws, before or after its row is stored; the scan goes on.
FailToClaim(s) ==
    /\ alerting[s].at = "claim"
    /\ \E c \in alerting[s].todo : \E a \in Candidates(c, alerting[s]) :
          /\ \/ UNCHANGED <<delivery, orphaned>>
             \/ /\ delivery[a] = "none"
                /\ delivery' = [delivery EXCEPT ![a] = "CLAIMED"]
                /\ orphaned' = orphaned \cup {a}
          /\ GiveUp(s, c)
    /\ UNCHANGED <<day, certs, notices, released>>

\* What follows the claim throws and so does the release: the claim stays.
FailToRelease(s) ==
    /\ alerting[s].at \in {"notify", "complete", "release"}
    /\ orphaned' = orphaned \cup alerting[s].held
    /\ \E a \in alerting[s].held : GiveUp(s, a[1])
    /\ UNCHANGED <<day, certs, delivery, notices, released>>

\* The process dies: nobody looks at the claim again.
BreakAlerting(s) ==
    /\ alerting[s].at # "none"
    /\ Break(s)
    /\ orphaned' = orphaned \cup alerting[s].held
    /\ alerting' = [alerting EXCEPT ![s] = NoRound]
    /\ UNCHANGED <<day, certs, delivery, notices, released>>

AlertingStep(s) ==
    \/ StartScan(s) \/ \E c \in Certs : Upload(s, c)
    \/ Skip(s) \/ Claim(s) \/ NotifyLaneOwner(s) \/ Complete(s)
    \/ FailToNotify(s) \/ Release(s)
    \/ FailToClaim(s) \/ FailToRelease(s) \/ BreakAlerting(s)

-----------------------------------------------------------------------------
AlertingTypeOK ==
    /\ day \in Nat
    /\ certs \subseteq Certs
    /\ delivery \in [Alerts -> {"none", "CLAIMED", "DELIVERED", "SKIPPED"}]
    /\ notices \in [Alerts -> Nat] /\ released \in [Alerts -> Nat]
    /\ alerting \in [Slots -> Round]
    /\ orphaned \subseteq Alerts

Holds(s, a) == a \in alerting[s].held

\* An alert is told to the owner once: twice only when a claim was released after
\* its notification had been stored.  A claimed alert is in the hands of exactly one
\* handler, or of none for good after an error or a death; a delivered one was told.
AlertsOnce ==
    \A a \in Alerts :
        /\ notices[a] <= released[a] + 1
        /\ delivery[a] = "CLAIMED" => a \in orphaned \/ \E s \in Slots : Holds(s, a)
        /\ delivery[a] = "DELIVERED" => notices[a] = released[a] + 1
        /\ \A s, t \in Slots : Holds(s, a) /\ Holds(t, a) => s = t
===============================================================================
