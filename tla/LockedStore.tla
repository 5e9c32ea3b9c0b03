---- MODULE LockedStore ----
(***************************************************************************)
(* What the syncs of a checkout promise about one locked artifact, however *)
(* they are interrupted: an object is published once and stays, trees are  *)
(* extracted whole, and a sync that finishes leaves its stage both.        *)
(*                                                                         *)
(* Nothing makes syncs take turns.  Once two of them ran at the same time  *)
(* the promise is void.                                                    *)
(***************************************************************************)
CONSTANTS
  Syncs, Stages,
  Absent,           \* nothing is there
  Artifact          \* the locked bytes, or what they contain

VARIABLES
  object,           \* in the object cache
  tree,             \* extracted, by stage
  stage,            \* the stage each sync runs
  finished,         \* the syncs whose last run came to its end
  disturbed         \* whether two syncs ever ran at the same time

Init ==
  /\ object = Absent
  /\ tree = [s \in Stages |-> Absent]
  /\ stage \in [Syncs -> Stages]
  /\ finished = {}
  /\ disturbed = FALSE

Publish ==
  /\ object = Absent
  /\ object' = Artifact
  /\ UNCHANGED <<tree, finished>>

\* Stage 0 extracts what it has verified, Stage 1 what is in the cache.
Extract(s) ==
  /\ tree[s] = Absent
  /\ s # "bootstrap" => object = Artifact
  /\ tree' = [tree EXCEPT ![s] = Artifact]
  /\ UNCHANGED <<object, finished>>

\* Stage 0 keeps its tree.  Stage 1 extracts anew, once it can.
Clear(s) ==
  /\ s # "bootstrap"
  /\ object = Artifact
  /\ tree' = [tree EXCEPT ![s] = Absent]
  /\ UNCHANGED <<object, finished>>

Begin(p) == finished' = finished \ {p} /\ UNCHANGED <<object, tree>>

Finish(p) ==
  /\ object = Artifact
  /\ tree[stage[p]] = Artifact
  /\ finished' = finished \union {p}
  /\ UNCHANGED <<object, tree>>

Disturb == disturbed'

Next ==
  \/ Disturb
  \/ /\ UNCHANGED <<stage, disturbed>>
     /\ \/ Publish
        \/ \E s \in Stages : Extract(s) \/ Clear(s)
        \/ \E p \in Syncs : Begin(p) \/ Finish(p)

Spec == Init /\ [][Next]_<<object, tree, stage, finished, disturbed>>
====
