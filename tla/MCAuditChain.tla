---------------------------- MODULE MCAuditChain ------------------------------
(* Instances of AuditChain for TLC: four writes to one lane. *)
EXTENDS AuditChain

CONSTANTS upload, transition, verify, recheck, lane1, host1, host2

SameLane == [w \in Writes |-> lane1]
MCKindOf == [w \in Writes |-> CASE w \in {verify, recheck} -> "verify"
                                [] w = upload -> "coupled"
                                [] w = transition -> "separate"]
TwoHosts == [w \in Writes |-> IF w = transition THEN host2 ELSE host1]
OneHost == [w \in Writes |-> host1]

\* The user interface addresses lanes by the public form, scripts by either.
MixedForms == [w \in Writes |-> IF w = recheck THEN "public" ELSE "internal"]
PublicForms == [w \in Writes |-> IF KindOf[w] = "verify" THEN "public" ELSE "internal"]
===============================================================================
