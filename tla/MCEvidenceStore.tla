---------------------------- MODULE MCEvidenceStore ----------------------------
(* Instances of EvidenceStore for TLC. *)
EXTENDS EvidenceStore, PartnerImports

CONSTANTS photo1, photo2, photoKey, harvest, laneCheck, withdrawal

\* The same photo, uploaded twice: two artifacts with one object.
MCKeyOf == [a \in Artifacts |-> photoKey]

\* Each upload may ask for a link to the other.
MCWanted == [a \in Artifacts |-> {{}, Artifacts \ {a}}]
MCCheckpointOf == [a \in Artifacts |-> harvest]

MCCheckOf == [c \in Checks |-> WholeLane]
MCDeletionOf == [d \in Deletions |-> photo1]
===============================================================================
