-------------------------- MODULE CollectionsClaims --------------------------
(* What a comment of the code says of collections, for Collections to refute. *)
EXTENDS Collections

Delinquent == account = "ACTIVE" /\ emi # "PAID" /\ band >= 2

\* collections.service.ts:450-451, of the sweep of the NPA watch: it "finds active
\* loans with EMIs 30+ DPD and opens collection cases for any that don't have one".
SweepMissesNobody ==
    [][\A w \in Watches :
          watch[w] = "sweep" /\ watch'[w] = "promises" =>
              ~ Delinquent \/ \E c \in Cases : case[c] \in {"OPEN", "ESCALATED"}]_collectionVars
=============================================================================
