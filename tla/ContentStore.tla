---- MODULE ContentStore ----
(***************************************************************************)
(* What the blob store of rf_evidence promises its callers                 *)
(* (blob_store.h): a name is the digest of its content, a name is bound    *)
(* once and never rebound, moved or removed by the store, and the store    *)
(* answers a caller only about a name that is bound.  A digest is its      *)
(* content: SHA-256 is taken to be free of collisions.                     *)
(*                                                                         *)
(* The medium under the store is not part of the promise: it may damage    *)
(* what a name holds.                                                      *)
(***************************************************************************)
CONSTANTS
  Clients,          \* the processes that use the store
  Contents,         \* byte strings, each its own digest
  NoFile            \* a name nothing is bound to; no answer yet

VARIABLES
  store,            \* what each name holds
  answer            \* the digest the store vouched for to each client

Init ==
  /\ store = [c \in Contents |-> NoFile]
  /\ answer = [p \in Clients |-> NoFile]

\* A name is bound to the content it is the digest of, once.
Publish(c) ==
  /\ store[c] = NoFile
  /\ store' = [store EXCEPT ![c] = c]
  /\ UNCHANGED answer

\* The medium damages a blob.
Damage(c, d) ==
  /\ store[c] # NoFile
  /\ store' = [store EXCEPT ![c] = d]
  /\ UNCHANGED answer

\* A put answered with an identity, or a get answered with bytes.
Answer(p, c) ==
  /\ store[c] # NoFile
  /\ answer' = [answer EXCEPT ![p] = c]
  /\ UNCHANGED store

\* The client asks for something else, or is gone.
Forget(p) ==
  /\ answer' = [answer EXCEPT ![p] = NoFile]
  /\ UNCHANGED store

Next ==
  \/ \E c \in Contents : Publish(c)
  \/ \E c, d \in Contents : Damage(c, d)
  \/ \E p \in Clients : Forget(p) \/ \E c \in Contents : Answer(p, c)

Spec == Init /\ [][Next]_<<store, answer>>
====
