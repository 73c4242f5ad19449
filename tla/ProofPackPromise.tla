--------------------------- MODULE ProofPackPromise ---------------------------
(***************************************************************************)
(* What the proof-pack component promises to the rest of the system: a     *)
(* requested pack is generating until it settles, exactly once, as READY   *)
(* with the hash of a document rendered from its own payload, or as FAILED *)
(* without one.  Nothing here knows of jobs, leases, workers or retries.   *)
(***************************************************************************)
CONSTANTS Packs,         \* one pack per accepted generate request
          RenderedFrom,  \* pack -> the documents its payload can be rendered to
          NoHash         \* content_hash IS NULL

VARIABLES status,      \* proof_packs.status, or ABSENT before the insert
          hash         \* proof_packs.content_hash

promiseVars == <<status, hash>>

PromiseInit ==
    /\ status = [p \in Packs |-> "ABSENT"]
    /\ hash = [p \in Packs |-> NoHash]

Request(p) ==
    /\ status[p] = "ABSENT"
    /\ status' = [status EXCEPT ![p] = "GENERATING"]
    /\ UNCHANGED hash

SettleReady(p) ==
    /\ status[p] = "GENERATING"
    /\ \E d \in RenderedFrom[p] :
          hash' = [hash EXCEPT ![p] = d]
    /\ status' = [status EXCEPT ![p] = "READY"]

SettleFailed(p) ==
    /\ status[p] = "GENERATING"
    /\ status' = [status EXCEPT ![p] = "FAILED"]
    /\ UNCHANGED hash

PromiseNext == \E p \in Packs : Request(p) \/ SettleReady(p) \/ SettleFailed(p)

PromiseSpec == PromiseInit /\ [][PromiseNext]_promiseVars
===============================================================================
