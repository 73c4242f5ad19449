----------------------------- MODULE Notifications -----------------------------
(***************************************************************************)
(* What the handlers that end in a notification share: the slots they run  *)
(* in and the preference of the lane owner.  Ingestion, CertificationAlerts *)
(* and RuleBook extend this module, Monitoring composes them.              *)
(*                                                                         *)
(* A slot is a request, or a run of the expiry timer, of some API process; *)
(* handlers of one process and of two interleave alike, at each await.  A  *)
(* notification is what its insert stores: fan-out and channels come after *)
(* it, and what they throw is a fault of the handler that waits for them   *)
(* (the errors of the channels themselves are swallowed).                  *)
(***************************************************************************)
EXTENDS Integers, FiniteSets

CONSTANTS
    Slots,
    MaxRequests,   \* bound: handlers started and preferences changed
    MaxFaults      \* bound: handlers that meet an error or die

ASSUME SlotAssumption ==
    /\ IsFiniteSet(Slots) /\ MaxRequests \in Nat /\ MaxFaults \in Nat

VARIABLES
    handling,      \* slot -> the handler that runs in it
    muted,         \* whether the owner switched every channel of CERTIFICATION_EXPIRY off
    started,       \* handlers started so far
    faults         \* handlers broken so far

sharedVars == <<handling, muted, started, faults>>

Handlers == {"none", "ingest", "alert", "change", "reload"}

SharedTypeOK ==
    /\ handling \in [Slots -> Handlers]
    /\ muted \in BOOLEAN
    /\ started \in 0 .. MaxRequests
    /\ faults \in 0 .. MaxFaults

SharedInit ==
    /\ handling = [s \in Slots |-> "none"]
    /\ muted = FALSE
    /\ started = 0 /\ faults = 0

Begin(s, handler) ==
    /\ handling[s] = "none" /\ started < MaxRequests
    /\ handling' = [handling EXCEPT ![s] = handler]
    /\ started' = started + 1
    /\ UNCHANGED <<muted, faults>>

Continue == UNCHANGED sharedVars

End(s) ==
    /\ handling' = [handling EXCEPT ![s] = "none"]
    /\ UNCHANGED <<muted, started, faults>>

\* Continue with the handler as long as there is more to do.
EndOr(s, more) == IF more THEN Continue ELSE End(s)

\* An error the handler does not survive, or the death of its process.
Break(s) ==
    /\ faults < MaxFaults
    /\ faults' = faults + 1
    /\ handling' = [handling EXCEPT ![s] = "none"]
    /\ UNCHANGED <<muted, started>>

\* An error the handler catches.
Stumble == faults < MaxFaults /\ faults' = faults + 1 /\ UNCHANGED <<handling, muted, started>>

\* It ends the handler when there is no more to do.
StumbleOr(s, more) == IF more THEN Stumble ELSE Break(s)

\* createNotifications: the parameters of a row are numbered from 7 times its place on,
\* though each row has 8, so that rows overlap and not all values have a number: Postgres
\* refuses the insert of more than one.
Insertable(rows) == UNION {7 * i + 1 .. 7 * i + 8 : i \in 0 .. rows - 1} = 1 .. 8 * rows

\* updatePreferences: the upsert of the channels of a type.
UpdatePreferences ==
    /\ started < MaxRequests
    /\ muted' = ~muted
    /\ started' = started + 1
    /\ UNCHANGED <<handling, faults>>
===============================================================================
