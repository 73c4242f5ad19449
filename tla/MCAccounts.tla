------------------------------ MODULE MCAccounts -------------------------------
(* Instances of Accounts for TLC. *)
EXTENDS Accounts, TLC

CONSTANTS exporter, auditor, s1, s2, oldMail, newMail, auditMail, gone1, gone2, export, correct, delete, deleteAuditor

MCAddress == [u \in Users |-> IF u = exporter THEN oldMail ELSE auditMail]
MCAnonymous == [u \in Users |-> IF u = exporter THEN gone1 ELSE gone2]
MCUserOf == [q \in Rights |-> IF q = deleteAuditor THEN auditor ELSE exporter]
MCTypeOf == [q \in Rights |->
    CASE q = export -> "EXPORT" [] q = correct -> "CORRECTION" [] OTHER -> "DELETION"]
MCCorrection == [q \in Rights |-> {newMail, auditMail}]

\* Slots are alike.
Symmetry == Permutations(Slots)
===============================================================================
