---- MODULE AcquisitionProofs ----
(***************************************************************************)
(* Proofs about Acquisition: what a transport is sent for, that what is    *)
(* published is whole, that a refusal has its cause, and that a checkout   *)
(* whose syncs do not overlap is a LockedStore.                            *)
(***************************************************************************)
EXTENDS Acquisition, TLAPS

Steps == {"off", "done", "stopped", "refused", "seek", "copy", "copying", "identify", "ask",
          "request", "waiting", "receiving", "land", "prove", "publish", "place", "fill",
          "filling", "confirm", "commit", "clear", "unpack", "unpacking", "settle", "run",
          "require", "prepare"}

Urls == Targets \union {w.origin : w \in Worlds}

\* What a sync may be writing to: nothing writes where the operator does.
Writable == Handles \ {<<s, "prestaged">> : s \in Stages}

\* What each name holds, and who is where.
Typed ==
  /\ pc \in [Syncs -> Steps]
  /\ stage \in [Syncs -> Stages]
  /\ file \in [Names -> Contents]
  /\ open \in [Syncs -> Writable]
  /\ chain \in [Syncs -> Seq(Urls)]
  /\ world \in Worlds
  /\ starts \in Nat
  /\ overlapped \in BOOLEAN
  /\ tainted \subseteq {"delivered", "cut"}

\* A sync that asks for something has asked the origin before.
Requested == \A p \in Syncs : pc[p] \in {"request", "waiting", "receiving"} => chain[p] # <<>>

\* The file a sync that runs alone is writing at a step.
WritesAt(p, step) ==
  IF step = "copying" THEN Own(p, "quarantine")
  ELSE IF step = "receiving" THEN Own(p, "hop")
  ELSE IF step = "filling" THEN Incoming
  ELSE IF step = "unpacking" THEN Own(p, "unpacked")
  ELSE <<"none">>

\* Unless two syncs were running at once, one runs at most, it writes what its
\* place says, and what it is about to publish is whole.
Alone ==
  ~overlapped =>
    /\ \A p, q \in Running : p = q
    /\ \A p \in Syncs : open[p] = WritesAt(p, pc[p])

Published == {Object} \union {<<s, "tree">> : s \in Stages}

\* The places a sync comes to only over a quarantine it has identified.  Stage 0
\* extracts it on the way, and may publish it without a second look.
Identified(p, step) ==
  \/ step \in {"run", "prove", "publish", "place", "fill", "filling"}
  \/ step \in {"clear", "unpack", "unpacking", "settle"} /\ stage[p] = "bootstrap"

Prepared ==
  ~overlapped =>
    \A p \in Syncs :
      /\ Identified(p, pc[p]) => file[Own(p, "quarantine")] = "right"
      /\ pc[p] \in {"confirm", "commit"} => file[Incoming] = "right"
      /\ pc[p] = "settle" => file[Own(p, "unpacked")] = "right"

\* What the operator left is never touched, and copied only if it is there.
Untouched ==
  /\ \A s \in Stages : file[<<s, "prestaged">>] # "partial"
  /\ \A p \in Syncs : pc[p] \in {"copy", "copying"} => file[Own(p, "prestaged")] # "absent"

\* Without a cause on record a quarantine holds nothing or the artifact, but
\* for the one a sync is copying into, and so does a body that was received.
Clean ==
  ~overlapped /\ tainted = {} =>
    /\ \A s \in Stages : file[<<s, "prestaged">>] # "wrong" =>
         \/ file[<<s, "quarantine">>] \in {"absent", "right"}
         \/ \E p \in Syncs : stage[p] = s /\ pc[p] = "copying"
    /\ \A p \in Syncs : pc[p] = "land" => file[Own(p, "hop")] = "right"

IInv ==
  /\ Typed
  /\ RequestsAreAdmitted /\ Requested
  /\ Alone /\ PublishedWhole /\ Prepared
  /\ Untouched /\ Clean /\ RefusalHasCause

-----------------------------------------------------------------------------
(***************************************************************************)
(* The names.                                                              *)
(***************************************************************************)

\* A file of a stage is not one of the cache, nor one of another purpose.
LEMMA NamesApart ==
  /\ Incoming \in Names /\ Object \in Names /\ Incoming # Object
  /\ \A s \in Stages : \A k \in {"prestaged", "quarantine", "hop", "unpacked", "tree"} :
       <<s, k>> \in Names /\ <<s, k>> # Incoming /\ <<s, k>> # Object
  /\ \A s, r, k, m : <<s, k>> = <<r, m>> <=> s = r /\ k = m
  /\ <<"none">> \notin Names /\ <<"gone">> \notin Names /\ <<"none">> # <<"gone">>
  /\ <<"none">> \in Writable /\ <<"gone">> \in Writable
  /\ Incoming \in Writable /\ Object \in Writable
  /\ \A s \in Stages : \A k \in {"quarantine", "hop", "unpacked", "tree"} : <<s, k>> \in Writable
  /\ \A s \in Stages : <<s, "prestaged">> \notin Writable
BY DEF Names, Incoming, Object, Handles, Writable

Kinds == {"prestaged", "quarantine", "hop", "unpacked", "tree"}

\* The purposes of a stage's files.
LEMMA KindsAre ==
  /\ "prestaged" \in Kinds /\ "quarantine" \in Kinds /\ "hop" \in Kinds
  /\ "unpacked" \in Kinds /\ "tree" \in Kinds
BY DEF Kinds

\* At most the cache changes.
OnlyCache == \A m \in Names : m # Incoming /\ m # Object => file'[m] = file[m]

\* What happens in the cache disturbs no stage's files.
LEMMA ElsewhereCache ==
  ASSUME OnlyCache
  PROVE  \A r \in Stages : \A j \in Kinds : file'[<<r, j>>] = file[<<r, j>>]
<1>1. SUFFICES ASSUME NEW r \in Stages, NEW j \in Kinds
               PROVE  file'[<<r, j>>] = file[<<r, j>>]
  OBVIOUS
<1>2. <<r, j>> \in Names /\ <<r, j>> # Incoming /\ <<r, j>> # Object
  BY DEF Names, Kinds, Incoming, Object
<1>3. QED
  BY <1>2 DEF OnlyCache

\* The machine as a sync first finds it.
LEMMA InitInvariant == Init => IInv
<1> SUFFICES ASSUME Init PROVE IInv
  OBVIOUS
<1>1. PICK kept \in Prestaged :
        file = [n \in Names |-> IF n[2] = "prestaged" THEN kept ELSE "absent"]
  BY DEF Init
<1>2. kept \in {"absent", "wrong", "right"}
  BY AcquisitionAssumption
<1>3. \A s \in Stages : \A k \in {"prestaged", "quarantine", "hop", "unpacked", "tree"} :
        file[<<s, k>>] = IF k = "prestaged" THEN kept ELSE "absent"
  BY <1>1, NamesApart
<1>4. file[Object] = "absent"
  BY <1>1, NamesApart DEF Object
<1>5. /\ pc = [p \in Syncs |-> "off"] /\ stage \in [Syncs -> Stages]
      /\ open = [p \in Syncs |-> <<"none">>] /\ chain = [p \in Syncs |-> <<>>]
      /\ world \in Worlds /\ starts = 0 /\ overlapped = FALSE /\ tainted = {}
  BY DEF Init
<1>6. Typed
  <2>1. file \in [Names -> Contents]
    BY <1>1, <1>2 DEF Contents
  <2>2. open \in [Syncs -> Writable] /\ pc \in [Syncs -> Steps] /\ chain \in [Syncs -> Seq(Urls)]
    BY <1>5, NamesApart DEF Steps
  <2>3. QED
    BY <1>5, <2>1, <2>2 DEF Typed
<1>7. RequestsAreAdmitted /\ Requested /\ RefusalHasCause
  BY <1>5, AcquisitionAssumption DEF RequestsAreAdmitted, Requested, RefusalHasCause
<1>8. Alone /\ Prepared
  BY <1>5 DEF Alone, Running, Ended, WritesAt, Prepared, Identified
<1>9. PublishedWhole /\ Untouched /\ Clean
  BY <1>2, <1>3, <1>4, <1>5 DEF PublishedWhole, Untouched, Clean
<1>10. QED
  BY <1>6, <1>7, <1>8, <1>9 DEF IInv

-----------------------------------------------------------------------------
(***************************************************************************)
(* One step of one sync.                                                   *)
(***************************************************************************)

\* A running sync that was never joined by another is the only one.
LEMMA NobodyElse ==
  ASSUME Typed, Alone, ~overlapped, NEW p \in Syncs, pc[p] \notin Ended
  PROVE  \A q \in Syncs : q # p => pc[q] \in Ended /\ open[q] = <<"none">>
<1>1. SUFFICES ASSUME NEW q \in Syncs, q # p
               PROVE  pc[q] \in Ended /\ open[q] = <<"none">>
  OBVIOUS
<1>2. pc[q] \in Ended
  BY <1>1 DEF Alone, Running
<1>3. open[q] = WritesAt(q, pc[q])
  BY DEF Alone
<1>4. QED
  BY <1>2, <1>3 DEF WritesAt, Ended

\* What is to be shown of a step that takes sync p to x.
Stays(p, x) ==
  /\ pc' = [pc EXCEPT ![p] = x]
  /\ UNCHANGED <<stage, world, overlapped>>
  /\ tainted \subseteq tainted'
  /\ RequestsAreAdmitted' /\ (x \in {"request", "waiting", "receiving"} => chain'[p] # <<>>)
  /\ \A q \in Syncs : q # p => chain'[q] = chain[q]

Places(p, x) ==
  /\ \A q \in Syncs : open'[q] = IF q = p THEN WritesAt(p, x) ELSE open[q]
  /\ \A n \in Published : file'[n] \in {"absent", "right"}
  /\ Identified(p, x) => file'[Own(p, "quarantine")] = "right"
  /\ x \in {"confirm", "commit"} => file'[Incoming] = "right"
  /\ x = "settle" => file'[Own(p, "unpacked")] = "right"

Leaves(p, x) ==
  /\ \A s \in Stages : file'[<<s, "prestaged">>] = file[<<s, "prestaged">>]
  /\ x \in {"copy", "copying"} => file[Own(p, "prestaged")] # "absent"

Cleans(p, x) ==
  /\ \A s \in Stages : file[<<s, "prestaged">>] # "wrong" =>
       \/ file'[<<s, "quarantine">>] \in {"absent", "right"}
       \/ s = stage[p] /\ x = "copying"
  /\ x = "land" => file'[Own(p, "hop")] = "right"

\* Such a step keeps the invariant.
LEMMA OneStep ==
  ASSUME IInv, NEW p \in Syncs, pc[p] \notin Ended, NEW x \in Steps, Typed',
         Stays(p, x), Leaves(p, x),
         ~overlapped => Places(p, x),
         ~overlapped /\ tainted' = {} => Cleans(p, x),
         x = "refused" => overlapped \/ tainted' # {} \/ file[Own(p, "prestaged")] = "wrong"
  PROVE  IInv'
<1>1. /\ pc' = [pc EXCEPT ![p] = x] /\ stage' = stage /\ world' = world
      /\ overlapped' = overlapped /\ tainted \subseteq tainted' /\ RequestsAreAdmitted'
      /\ Typed /\ Alone /\ Prepared /\ Untouched /\ Clean /\ RefusalHasCause /\ Requested
  BY DEF Stays, IInv
<1>2. /\ pc'[p] = x /\ \A q \in Syncs : q # p => pc'[q] = pc[q]
      /\ \A q, k : Own(q, k)' = Own(q, k)
  BY <1>1 DEF Typed, Own
<1>3. ~overlapped => \A q \in Syncs : q # p => pc[q] \in Ended /\ open[q] = <<"none">>
  BY <1>1, NobodyElse
<1>4. \A q \in Syncs : stage[q] \in Stages
  BY <1>1 DEF Typed
<1>5. Requested'
  BY <1>1, <1>2 DEF Stays, Requested
<1>6. Alone'
  <2>1. SUFFICES ASSUME ~overlapped
                 PROVE  /\ \A q, r \in Running' : q = r
                        /\ \A q \in Syncs : open'[q] = WritesAt(q, pc[q])'
    BY <1>1 DEF Alone
  <2>2. \A q \in Running' : q = p
    BY <1>2, <1>3, <2>1 DEF Running
  <2>3. \A q \in Syncs : open'[q] = WritesAt(q, pc[q])'
    <3>1. SUFFICES ASSUME NEW q \in Syncs
                   PROVE  open'[q] = WritesAt(q, pc[q])'
      OBVIOUS
    <3>2. CASE q = p
      BY <1>1, <1>2, <2>1, <3>2 DEF Places, Identified, WritesAt, Own
    <3>3. CASE q # p
      BY <1>2, <1>3, <2>1, <3>3 DEF Places, Identified, WritesAt, Ended
    <3>4. QED
      BY <3>2, <3>3
  <2>4. QED
    BY <2>2, <2>3
<1>7. PublishedWhole'
  BY <1>1 DEF Places, PublishedWhole, Published, Object
<1>8. Prepared'
  <2>1. SUFFICES ASSUME ~overlapped, NEW q \in Syncs
                 PROVE  /\ Identified(q, pc[q])' => file'[Own(q, "quarantine")'] = "right"
                        /\ pc'[q] \in {"confirm", "commit"} => file'[Incoming] = "right"
                        /\ pc'[q] = "settle" => file'[Own(q, "unpacked")'] = "right"
    BY <1>1 DEF Prepared, Incoming
  <2>2. CASE q = p
    BY <1>1, <1>2, <2>1, <2>2 DEF Places, Identified
  <2>3. CASE q # p
    BY <1>2, <1>3, <2>1, <2>3 DEF Ended, Identified
  <2>4. QED
    BY <2>2, <2>3
<1>9. Untouched'
  <2>1. \A s \in Stages : file'[<<s, "prestaged">>] # "partial"
    BY <1>1 DEF Leaves, Untouched
  <2>2. ASSUME NEW q \in Syncs, pc'[q] \in {"copy", "copying"}
        PROVE  file'[Own(q, "prestaged")'] # "absent"
    <3>1. file'[Own(q, "prestaged")] = file[Own(q, "prestaged")] /\ Own(q, "prestaged")' = Own(q, "prestaged")
      BY <1>2, <1>4 DEF Leaves, Own
    <3>2. file[Own(q, "prestaged")] # "absent"
      BY <1>1, <1>2, <2>2 DEF Leaves, Untouched
    <3>3. QED
      BY <3>1, <3>2
  <2>3. QED
    BY <2>1, <2>2 DEF Untouched
<1>10. Clean'
  <2>1. SUFFICES ASSUME ~overlapped, tainted' = {}
                 PROVE  /\ \A s \in Stages : file'[<<s, "prestaged">>] # "wrong" =>
                             \/ file'[<<s, "quarantine">>] \in {"absent", "right"}
                             \/ \E q \in Syncs : stage'[q] = s /\ pc'[q] = "copying"
                        /\ \A q \in Syncs : pc'[q] = "land" => file'[Own(q, "hop")'] = "right"
    BY <1>1 DEF Clean
  <2>2. \A s \in Stages : file'[<<s, "prestaged">>] # "wrong" =>
          \/ file'[<<s, "quarantine">>] \in {"absent", "right"}
          \/ \E q \in Syncs : stage'[q] = s /\ pc'[q] = "copying"
    BY <1>1, <1>2, <2>1 DEF Cleans, Leaves
  <2>3. ASSUME NEW q \in Syncs, pc'[q] = "land"
        PROVE  file'[Own(q, "hop")'] = "right"
    BY <1>2, <1>3, <2>1, <2>3 DEF Cleans, Ended
  <2>4. QED
    BY <2>2, <2>3
<1>11. RefusalHasCause'
  <2>1. SUFFICES ASSUME NEW q \in Syncs, pc'[q] = "refused"
                 PROVE  overlapped \/ tainted' # {} \/ file'[Own(q, "prestaged")'] = "wrong"
    BY <1>1 DEF RefusalHasCause
  <2>2. file'[Own(q, "prestaged")] = file[Own(q, "prestaged")] /\ Own(q, "prestaged")' = Own(q, "prestaged")
    BY <1>2, <1>4 DEF Leaves, Own
  <2>3. overlapped \/ tainted' # {} \/ file[Own(q, "prestaged")] = "wrong"
    BY <1>1, <1>2, <2>1 DEF RefusalHasCause
  <2>4. QED
    BY <2>2, <2>3
<1>12. QED
  BY <1>1, <1>5, <1>6, <1>7, <1>8, <1>9, <1>10, <1>11 DEF IInv

\* What the file operations leave is a file system, and what they say of the
\* names they do not touch.
LEMMA Removes ==
  ASSUME Typed, NEW n \in Names, Remove(n)
  PROVE  /\ file' \in [Names -> Contents] /\ open' \in [Syncs -> Writable]
         /\ file'[n] = "absent" /\ \A m \in Names : m # n => file'[m] = file[m]
         /\ \A q \in Syncs : open[q] = <<"none">> => open'[q] = <<"none">>
<1>1. file' = [file EXCEPT ![n] = "absent"] /\ file \in [Names -> Contents]
      /\ open' = [q \in Syncs |-> IF open[q] = n THEN <<"gone">> ELSE open[q]]
      /\ open \in [Syncs -> Writable]
  BY DEF Typed, Remove
<1>2. n # <<"none">> /\ <<"gone">> \in Writable
  BY NamesApart
<1>3. file' \in [Names -> Contents] /\ file'[n] = "absent"
      /\ \A m \in Names : m # n => file'[m] = file[m]
  BY <1>1 DEF Contents
<1>4. open' \in [Syncs -> Writable]
      /\ \A q \in Syncs : open[q] = <<"none">> => open'[q] = <<"none">>
  BY <1>1, <1>2
<1>5. QED
  BY <1>3, <1>4

\* Opening cuts one name, and the one who opens holds it.
LEMMA Opens ==
  ASSUME Typed, NEW p \in Syncs, NEW n \in Names, n \in Writable, Open(p, n)
  PROVE  /\ file' \in [Names -> Contents] /\ open' \in [Syncs -> Writable]
         /\ file'[n] = "partial" /\ \A m \in Names : m # n => file'[m] = file[m]
         /\ \A q \in Syncs : open'[q] = IF q = p THEN n ELSE open[q]
<1>1. file' = [file EXCEPT ![n] = "partial"] /\ file \in [Names -> Contents]
      /\ open' = [open EXCEPT ![p] = n] /\ open \in [Syncs -> Writable]
  BY DEF Typed, Open
<1>2. file' \in [Names -> Contents] /\ file'[n] = "partial"
      /\ \A m \in Names : m # n => file'[m] = file[m]
  BY <1>1 DEF Contents
<1>3. open' \in [Syncs -> Writable]
      /\ \A q \in Syncs : open'[q] = IF q = p THEN n ELSE open[q]
  BY <1>1
<1>4. QED
  BY <1>2, <1>3

\* A rename moves what the name holds.
LEMMA Renames ==
  ASSUME Typed, NEW n \in Names, NEW m \in Names, n # m, m \in Writable, Rename(n, m)
  PROVE  /\ file' \in [Names -> Contents] /\ open' \in [Syncs -> Writable]
         /\ file'[m] = file[n] /\ file'[n] = "absent"
         /\ \A o \in Names : o # n /\ o # m => file'[o] = file[o]
         /\ \A q \in Syncs : open[q] = <<"none">> => open'[q] = <<"none">>
<1>1. file' = [file EXCEPT ![m] = file[n], ![n] = "absent"] /\ file \in [Names -> Contents]
      /\ open' = [q \in Syncs |-> IF open[q] = n THEN m
                                   ELSE IF open[q] = m THEN <<"gone">> ELSE open[q]]
      /\ open \in [Syncs -> Writable]
  BY DEF Typed, Rename
<1>2. n # <<"none">> /\ m # <<"none">> /\ <<"gone">> \in Writable /\ m \in Writable
  BY NamesApart
<1>3. file' \in [Names -> Contents] /\ file'[m] = file[n] /\ file'[n] = "absent"
      /\ \A o \in Names : o # n /\ o # m => file'[o] = file[o]
  BY <1>1 DEF Contents
<1>4. open' \in [Syncs -> Writable]
      /\ \A q \in Syncs : open[q] = <<"none">> => open'[q] = <<"none">>
  BY <1>1, <1>2
<1>5. QED
  BY <1>3, <1>4

\* A write that ends fills the file that was open, and whole if nobody shares it.
LEMMA WritesTyped ==
  ASSUME Typed, NEW p \in Syncs, NEW c \in Contents, Write(p, c)
  PROVE  /\ file' \in [Names -> Contents] /\ open' \in [Syncs -> Writable]
         /\ \A m \in Names : m # open[p] => file'[m] = file[m]
         /\ \A q \in Syncs : open'[q] = IF q = p THEN <<"none">> ELSE open[q]
         /\ open[p] \in Names /\ (\A q \in Syncs : q # p => open[q] = <<"none">>)
              => file'[open[p]] = c
         /\ \A s \in Stages : file'[<<s, "prestaged">>] = file[<<s, "prestaged">>]
<1>1. file' \in [Names -> Contents] /\ open' \in [Syncs -> Writable]
  BY NamesApart DEF Typed, Write, Contents
<1>2. /\ \A m \in Names : m # open[p] => file'[m] = file[m]
      /\ \A q \in Syncs : open'[q] = IF q = p THEN <<"none">> ELSE open[q]
  BY DEF Typed, Write
<1>3. ASSUME open[p] \in Names, \A q \in Syncs : q # p => open[q] = <<"none">>
      PROVE  file'[open[p]] = c
  <2>1. ~(\E q \in Syncs \ {p} : open[q] = open[p])
    BY <1>3, NamesApart
  <2>2. QED
    BY <1>3, <2>1 DEF Typed, Write
<1>4. \A s \in Stages : file'[<<s, "prestaged">>] = file[<<s, "prestaged">>]
  <2>1. open[p] \in Writable
    BY DEF Typed
  <2>2. \A s \in Stages : <<s, "prestaged">> \in Names /\ <<s, "prestaged">> # open[p]
    BY <2>1 DEF Writable, Names
  <2>3. QED
    BY <1>2, <2>2
<1>5. QED
  BY <1>1, <1>2, <1>3, <1>4

\* A step that asks for nothing keeps what was asked.
LEMMA NothingAsked ==
  ASSUME RequestsAreAdmitted, UNCHANGED <<chain, world>>
  PROVE  RequestsAreAdmitted'
BY DEF RequestsAreAdmitted

Writing == {"copying", "receiving", "filling", "unpacking"}
Asking  == {"request", "waiting", "receiving"}

\* A step that only looks, at a place where nothing is being written.
LEMMA LookingStep ==
  ASSUME IInv, NEW p \in Syncs, pc[p] \notin Ended \union Writing,
         NEW x \in Steps \ (Writing \union Asking \union {"settle", "land"}),
         Go(p, x), Same,
         x = "copy" => file[Own(p, "prestaged")] # "absent",
         ~overlapped => /\ Identified(p, x) => file[Own(p, "quarantine")] = "right"
                        /\ x \in {"confirm", "commit"} => file[Incoming] = "right",
         x = "refused" => overlapped \/ tainted # {} \/ file[Own(p, "prestaged")] = "wrong"
  PROVE  IInv'
<1>1. /\ Typed /\ Alone /\ PublishedWhole /\ Clean /\ RequestsAreAdmitted
      /\ UNCHANGED <<file, open, stage, chain, world, starts, overlapped, tainted>>
      /\ pc' = [pc EXCEPT ![p] = x]
      /\ x \notin Writing /\ x \notin Asking /\ x # "settle" /\ x # "land" /\ x \in Steps
  BY DEF IInv, Go, Same, Rest
<1>2. Typed'
  BY <1>1 DEF Typed
<1>3. Stays(p, x)
  BY <1>1, NothingAsked DEF Stays, Asking
<1>4. Leaves(p, x)
  BY <1>1 DEF Leaves, Writing
<1>5. ASSUME ~overlapped
      PROVE  Places(p, x)
  <2>1. \A q \in Syncs : open'[q] = IF q = p THEN WritesAt(p, x) ELSE open[q]
    BY <1>1, <1>5 DEF Alone, WritesAt, Writing
  <2>2. \A n \in Published : file'[n] \in {"absent", "right"}
    BY <1>1, <1>5 DEF PublishedWhole, Published
  <2>3. QED
    BY <1>1, <1>5, <2>1, <2>2 DEF Places
<1>6. ASSUME ~overlapped, tainted' = {}
      PROVE  Cleans(p, x)
  <2>1. \A q \in Syncs : q # p => pc[q] # "copying"
    BY <1>1, <1>6, NobodyElse DEF Ended
  <2>2. \A q \in Syncs : pc[q] # "copying"
    BY <2>1 DEF Writing
  <2>3. QED
    BY <1>1, <1>6, <2>2 DEF Cleans, Clean
<1>7. QED
  BY <1>1, <1>2, <1>3, <1>4, <1>5, <1>6, OneStep

\* So does one that verifies a file, if what it finds is whole, or there is a
\* cause on record that it is not.
LEMMA VerifyingStep ==
  ASSUME IInv, NEW p \in Syncs, pc[p] \notin Ended \union Writing, NEW n \in Names,
         NEW x \in Steps \ (Writing \union Asking \union {"settle", "land", "copy", "refused"}),
         VerifyIdentity(p, n, x),
         ~overlapped /\ file[n] = "right" =>
           /\ Identified(p, x) => file[Own(p, "quarantine")] = "right"
           /\ x \in {"confirm", "commit"} => file[Incoming] = "right",
         \/ overlapped \/ tainted # {} \/ file[Own(p, "prestaged")] = "wrong"
         \/ file[n] \in {"absent", "right"}
  PROVE  IInv'
<1>1. Same
  BY DEF VerifyIdentity
<1>2. CASE file[n] = "right"
  <2>1. Go(p, x)
    BY <1>2 DEF VerifyIdentity
  <2>2. QED
    BY <1>1, <1>2, <2>1, LookingStep
<1>3. CASE file[n] # "right" /\ Exists(n)
  <2>1. Go(p, "refused")
    BY <1>3 DEF VerifyIdentity
  <2>2. "refused" \in Steps \ (Writing \union Asking \union {"settle", "land"})
    BY DEF Steps, Writing, Asking
  <2>3. overlapped \/ tainted # {} \/ file[Own(p, "prestaged")] = "wrong"
    BY <1>3 DEF Exists
  <2>4. QED
    BY <1>1, <2>1, <2>2, <2>3, LookingStep DEF Identified
<1>4. CASE file[n] # "right" /\ ~Exists(n)
  <2>1. Go(p, "stopped")
    BY <1>4 DEF VerifyIdentity
  <2>2. "stopped" \in Steps \ (Writing \union Asking \union {"settle", "land"})
    BY DEF Steps, Writing, Asking
  <2>3. QED
    BY <1>1, <2>1, <2>2, LookingStep DEF Identified
<1>5. QED
  BY <1>2, <1>3, <1>4

\* What a sync that runs alone may count on.
LEMMA AloneNow ==
  ASSUME IInv, ~overlapped, NEW p \in Syncs, pc[p] \notin Ended
  PROVE  /\ \A q \in Syncs : q # p => open[q] = <<"none">>
         /\ open[p] = WritesAt(p, pc[p])
         /\ \A n \in Published : file[n] \in {"absent", "right"}
         /\ Identified(p, pc[p]) => file[Own(p, "quarantine")] = "right"
         /\ pc[p] \in {"confirm", "commit"} => file[Incoming] = "right"
         /\ pc[p] = "settle" => file[Own(p, "unpacked")] = "right"
         /\ tainted = {} => /\ pc[p] # "copying" =>
                                 \A s \in Stages : file[<<s, "prestaged">>] # "wrong" =>
                                   file[<<s, "quarantine">>] \in {"absent", "right"}
                            /\ \A s \in Stages \ {stage[p]} : file[<<s, "prestaged">>] # "wrong" =>
                                   file[<<s, "quarantine">>] \in {"absent", "right"}
                            /\ pc[p] = "land" => file[Own(p, "hop")] = "right"
<1>1. Typed /\ Alone /\ PublishedWhole /\ Prepared /\ Clean
  BY DEF IInv
<1>2. \A q \in Syncs : q # p => pc[q] # "copying" /\ open[q] = <<"none">>
  BY <1>1, NobodyElse DEF Ended
<1>3. /\ open[p] = WritesAt(p, pc[p])
      /\ \A n \in Published : file[n] \in {"absent", "right"}
  BY <1>1 DEF Alone, PublishedWhole, Published
<1>4. /\ Identified(p, pc[p]) => file[Own(p, "quarantine")] = "right"
      /\ pc[p] \in {"confirm", "commit"} => file[Incoming] = "right"
      /\ pc[p] = "settle" => file[Own(p, "unpacked")] = "right"
  BY <1>1 DEF Prepared
<1>5. ASSUME tainted = {}
      PROVE  /\ pc[p] # "copying" =>
                  \A s \in Stages : file[<<s, "prestaged">>] # "wrong" =>
                    file[<<s, "quarantine">>] \in {"absent", "right"}
             /\ \A s \in Stages \ {stage[p]} : file[<<s, "prestaged">>] # "wrong" =>
                    file[<<s, "quarantine">>] \in {"absent", "right"}
             /\ pc[p] = "land" => file[Own(p, "hop")] = "right"
  BY <1>1, <1>2, <1>5 DEF Clean
<1>6. QED
  BY <1>2, <1>3, <1>4, <1>5

\* The names of a sync's own files.
LEMMA OwnNames ==
  ASSUME Typed, NEW p \in Syncs
  PROVE  /\ stage[p] \in Stages
         /\ \A k \in {"prestaged", "quarantine", "hop", "unpacked", "tree"} :
              /\ Own(p, k) \in Names /\ Own(p, k) = <<stage[p], k>>
              /\ k # "prestaged" => Own(p, k) \in Writable
BY NamesApart DEF Typed, Own

\* A step that works on files and asks for nothing it did not ask before.
LEMMA FileStep ==
  ASSUME IInv, NEW p \in Syncs, pc[p] \notin Ended,
         NEW x \in Steps \ {"copy", "refused"}, Go(p, x), Rest,
         file' \in [Names -> Contents], open' \in [Syncs -> Writable],
         \A s \in Stages : file'[<<s, "prestaged">>] = file[<<s, "prestaged">>],
         x = "copying" => file[Own(p, "prestaged")] # "absent",
         x \in Asking => pc[p] \in Asking,
         ~overlapped => Places(p, x),
         ~overlapped /\ tainted = {} => Cleans(p, x)
  PROVE  IInv'
<1>1. /\ Typed /\ RequestsAreAdmitted /\ Requested
      /\ pc' = [pc EXCEPT ![p] = x] /\ x \in Steps /\ x # "copy" /\ x # "refused"
      /\ UNCHANGED <<stage, chain, world, starts, overlapped, tainted>>
  BY DEF IInv, Go, Rest
<1>2. Typed'
  BY <1>1 DEF Typed
<1>3. Stays(p, x)
  BY <1>1, NothingAsked DEF Stays, Asking, Requested
<1>4. Leaves(p, x)
  BY <1>1 DEF Leaves
<1>5. QED
  BY <1>1, <1>2, <1>3, <1>4, OneStep

-----------------------------------------------------------------------------
(***************************************************************************)
(* The actions that only look.                                             *)
(***************************************************************************)

\* Places to go to by looking.
LEMMA Resting ==
  \A x \in {"identify", "copy", "ask", "stopped", "refused", "unpack", "prove", "publish",
            "place", "prepare", "clear", "commit", "run", "require", "done"} :
    x \in Steps \ (Writing \union Asking \union {"settle", "land"})
BY DEF Steps, Writing, Asking

\* A sync that looks is running and writes nothing.
LEMMA LookingPlaces ==
  \A x \in {"seek", "copy", "identify", "ask", "prove", "publish", "place", "fill", "confirm",
            "commit", "clear", "unpack", "settle", "run", "require", "prepare", "land"} :
    x \notin Ended \union Writing
BY DEF Ended, Writing

\* It takes the prestaged file only if there is one.
LEMMA SeekKeeps == ASSUME IInv, NEW p \in Syncs, Seek(p) PROVE IInv'
<1>1. Same /\ pc[p] \notin Ended \union Writing
  BY LookingPlaces DEF Seek
<1>2. PICK x \in {"identify", "copy", "ask"} :
        Go(p, x) /\ (x = "copy" => file[Own(p, "prestaged")] # "absent")
  BY DEF Seek, Exists
<1>3. QED
  BY <1>1, <1>2, Resting, LookingStep DEF Identified

\* A quarantine that is not the artifact has a cause.
LEMMA QuarantineHasCause ==
  ASSUME IInv, NEW p \in Syncs, pc[p] \notin Ended \union Writing
  PROVE  \/ overlapped \/ tainted # {} \/ file[Own(p, "prestaged")] = "wrong"
         \/ file[Own(p, "quarantine")] \in {"absent", "right"}
<1>1. Typed
  BY DEF IInv
<1>2. QED
  BY <1>1, AloneNow, OwnNames DEF Writing

\* What it identifies is the artifact, or there is a cause that it is not.
LEMMA IdentifyKeeps == ASSUME IInv, NEW p \in Syncs, Identify(p) PROVE IInv'
<1>1. pc[p] \notin Ended \union Writing
  BY LookingPlaces DEF Identify
<1>2. PICK x \in {"unpack", "prove"} : VerifyIdentity(p, Own(p, "quarantine"), x)
  BY DEF Identify
<1>3. Own(p, "quarantine") \in Names
  BY OwnNames DEF IInv
<1>4. x \in Steps \ (Writing \union Asking \union {"settle", "land", "copy", "refused"})
  BY Resting
<1>5. QED
  BY <1>1, <1>2, <1>3, <1>4, QuarantineHasCause, VerifyingStep

\* A sync that identified its quarantine has the artifact there.
LEMMA QuarantineIsRight ==
  ASSUME IInv, ~overlapped, NEW p \in Syncs, pc[p] \in {"run", "prove", "publish"}
  PROVE  file[Own(p, "quarantine")] = "right"
BY AloneNow DEF Identified, Ended

\* A proof that fails stops the run.
LEMMA ProveKeeps == ASSUME IInv, NEW p \in Syncs, Prove(p) PROVE IInv'
<1>1. Same /\ pc[p] \notin Ended \union Writing /\ pc[p] = "prove"
  BY LookingPlaces DEF Prove
<1>2. PICK x \in {"publish", "stopped"} : Go(p, x)
  BY DEF Prove
<1>3. QED
  BY <1>1, <1>2, Resting, QuarantineIsRight, LookingStep

\* What it is about to place it has verified, now or before.
LEMMA PublishLockedKeeps == ASSUME IInv, NEW p \in Syncs, PublishLocked(p) PROVE IInv'
<1>1. pc[p] \notin Ended \union Writing /\ pc[p] = "publish"
  BY LookingPlaces DEF PublishLocked
<1>2. "place" \in Steps \ (Writing \union Asking \union {"settle", "land", "copy", "refused"})
  BY Resting
<1>3. CASE VerifyIdentity(p, Own(p, "quarantine"), "place")
  <2>1. Own(p, "quarantine") \in Names
    BY OwnNames DEF IInv
  <2>2. QED
    BY <1>1, <1>2, <1>3, <2>1, QuarantineHasCause, VerifyingStep
<1>4. CASE Go(p, "place") /\ Same
  BY <1>1, <1>2, <1>4, QuarantineIsRight, LookingStep
<1>5. QED
  BY <1>3, <1>4 DEF PublishLocked

\* What it filled and closed is whole.
LEMMA ConfirmKeeps == ASSUME IInv, NEW p \in Syncs, Confirm(p) PROVE IInv'
<1>1. pc[p] \notin Ended \union Writing /\ pc[p] = "confirm" /\ VerifyIdentity(p, Incoming, "commit")
  BY LookingPlaces DEF Confirm
<1>2. Incoming \in Names
  BY NamesApart
<1>3. "commit" \in Steps \ (Writing \union Asking \union {"settle", "land", "copy", "refused"})
  BY Resting
<1>4. overlapped \/ file[Incoming] \in {"absent", "right"}
  BY <1>1, AloneNow
<1>5. QED
  BY <1>1, <1>2, <1>3, <1>4, VerifyingStep DEF Identified

\* An object that is there already is whole, or two syncs have met.
LEMMA ObjectIsWhole ==
  ASSUME IInv, NEW p \in Syncs
  PROVE  overlapped \/ file[Object] \in {"absent", "right"}
BY DEF IInv, PublishedWhole

\* An object that is there is verified, not written again.
LEMMA PlaceThere ==
  ASSUME IInv, NEW p \in Syncs, Place(p), Exists(Object) PROVE IInv'
<1>1. pc[p] \notin Ended \union Writing
  BY LookingPlaces DEF Place
<1>2. PICK x \in {"prepare", "clear"} :
        VerifyIdentity(p, Object, x) /\ (x = "clear" => stage[p] # "bootstrap")
  BY DEF Place, AfterPublishing
<1>3. Object \in Names
  BY NamesApart
<1>4. x \in Steps \ (Writing \union Asking \union {"settle", "land", "copy", "refused"})
  BY Resting
<1>5. ~Identified(p, x)
  BY <1>2 DEF Identified
<1>6. QED
  BY <1>1, <1>2, <1>3, <1>4, <1>5, ObjectIsWhole, VerifyingStep

\* A tree is used as it is.
LEMMA UseTreeKeeps ==
  ASSUME IInv, NEW p \in Syncs, RunExactCMake(p) \/ VerifyRequiredTreeFiles(p) PROVE IInv'
<1>1. Same /\ pc[p] \notin Ended \union Writing
  BY LookingPlaces DEF RunExactCMake, VerifyRequiredTreeFiles, UseTree
<1>2. PICK x \in {"prove", "prepare", "stopped"} : Go(p, x) /\ (x = "prove" => pc[p] = "run")
  BY DEF RunExactCMake, VerifyRequiredTreeFiles, UseTree
<1>3. QED
  BY <1>1, <1>2, Resting, QuarantineIsRight, LookingStep DEF Identified

\* The publisher of prepared trees ends the run.
LEMMA PrepareKeeps == ASSUME IInv, NEW p \in Syncs, Prepare(p) PROVE IInv'
<1>1. Same /\ pc[p] \notin Ended \union Writing /\ Go(p, "done")
  BY LookingPlaces DEF Prepare
<1>2. QED
  BY <1>1, Resting, LookingStep DEF Identified

-----------------------------------------------------------------------------
(***************************************************************************)
(* The actions that work on files.                                         *)
(***************************************************************************)

\* At most these two of a sync's files change.
Only(p, j, k) == \A m \in Names : m # Own(p, j) /\ m # Own(p, k) => file'[m] = file[m]

\* What happens to files of a sync disturbs no other stage's, nor the cache.
LEMMA Elsewhere ==
  ASSUME Typed, NEW p \in Syncs, NEW j \in Kinds, NEW k \in Kinds, Only(p, j, k)
  PROVE  /\ \A r \in Stages : \A i \in Kinds :
              r # stage[p] \/ (i # j /\ i # k) => file'[<<r, i>>] = file[<<r, i>>]
         /\ file'[Object] = file[Object] /\ file'[Incoming] = file[Incoming]
         /\ j # "tree" /\ k # "tree" => \A n \in Published : file'[n] = file[n]
<1>1. stage[p] \in Stages
  BY DEF Typed
<1>2. ASSUME NEW r \in Stages, NEW i \in Kinds, r # stage[p] \/ (i # j /\ i # k)
      PROVE  file'[<<r, i>>] = file[<<r, i>>]
  <2>1. <<r, i>> \in Names
    BY DEF Names, Kinds
  <2>2. <<r, i>> # Own(p, j) /\ <<r, i>> # Own(p, k)
    BY <1>2 DEF Own
  <2>3. QED
    BY <2>1, <2>2 DEF Only
<1>3. file'[Object] = file[Object] /\ file'[Incoming] = file[Incoming]
  <2>1. /\ Object # Own(p, j) /\ Object # Own(p, k)
        /\ Incoming # Own(p, j) /\ Incoming # Own(p, k)
    BY DEF Object, Incoming, Own, Kinds
  <2>2. QED
    BY <2>1, NamesApart DEF Only
<1>4. j # "tree" /\ k # "tree" => \A n \in Published : file'[n] = file[n]
  BY <1>2, <1>3 DEF Published, Kinds
<1>5. QED
  BY <1>2, <1>3, <1>4

\* In particular the operator's file, and what is kept or published.
LEMMA Kept ==
  ASSUME Typed, NEW p \in Syncs, NEW j \in Kinds, NEW k \in Kinds, Only(p, j, k),
         j # "prestaged", k # "prestaged"
  PROVE  /\ \A s \in Stages : file'[<<s, "prestaged">>] = file[<<s, "prestaged">>]
         /\ j # "quarantine" /\ k # "quarantine" =>
              \A s \in Stages : file'[<<s, "quarantine">>] = file[<<s, "quarantine">>]
         /\ \A s \in Stages \ {stage[p]} : file'[<<s, "quarantine">>] = file[<<s, "quarantine">>]
         /\ j # "tree" /\ k # "tree" => \A n \in Published : file'[n] = file[n]
BY Elsewhere, KindsAre

\* A step that leaves the quarantines alone leaves them clean, but for the
\* copy in place.
LEMMA StaysClean ==
  ASSUME IInv, NEW p \in Syncs, pc[p] \notin Ended, pc[p] # "copying", ~overlapped, tainted = {},
         NEW x, x # "land",
         \A s \in Stages : file'[<<s, "quarantine">>] = file[<<s, "quarantine">>]
  PROVE  Cleans(p, x)
BY AloneNow DEF Cleans

\* The operator's file is copied only if it is there.
LEMMA OpenCopyKeeps == ASSUME IInv, NEW p \in Syncs, OpenCopy(p) PROVE IInv'
<1>1. /\ pc[p] = "copy" /\ Typed /\ Rest /\ pc[p] \notin Ended \union Writing /\ pc[p] \notin Ended
      /\ file[Own(p, "prestaged")] # "absent"
  BY LookingPlaces DEF OpenCopy, IInv, Untouched
<1>2. CASE UNCHANGED <<file, open>> /\ Go(p, "identify")
  BY <1>1, <1>2, Resting, LookingStep DEF Same, Identified
<1>3. CASE Open(p, Own(p, "quarantine")) /\ Go(p, "copying")
  <2>1. /\ Own(p, "quarantine") \in Names /\ Own(p, "quarantine") \in Writable
        /\ Own(p, "quarantine") = <<stage[p], "quarantine">>
        /\ stage[p] \in Stages
    BY <1>1, OwnNames
  <2>2. /\ file' \in [Names -> Contents] /\ open' \in [Syncs -> Writable]
        /\ \A m \in Names : m # Own(p, "quarantine") => file'[m] = file[m]
        /\ \A q \in Syncs : open'[q] = IF q = p THEN Own(p, "quarantine") ELSE open[q]
    BY <1>1, <1>3, <2>1, Opens
  <2>3. /\ \A s \in Stages : \A k \in Kinds :
              s # stage[p] \/ k # "quarantine" => file'[<<s, k>>] = file[<<s, k>>]
        /\ \A n \in Published : file'[n] = file[n]
    <3>1. Only(p, "quarantine", "quarantine")
      BY <2>2 DEF Only
    <3>2. QED
      BY <1>1, <2>2, <3>1, KindsAre, Elsewhere
  <2>4. \A s \in Stages : file'[<<s, "prestaged">>] = file[<<s, "prestaged">>]
    BY <2>3 DEF Kinds
  <2>5. ~overlapped => Places(p, "copying")
    BY <1>1, <2>2, <2>3, AloneNow DEF Places, Identified, WritesAt
  <2>6. ASSUME ~overlapped, tainted = {} PROVE Cleans(p, "copying")
    <3>1. \A s \in Stages \ {stage[p]} : file'[<<s, "quarantine">>] = file[<<s, "quarantine">>]
      BY <2>3 DEF Kinds
    <3>2. QED
      BY <1>1, <2>6, <3>1, AloneNow DEF Cleans
  <2>7. "copying" \in Steps \ {"copy", "refused"} /\ "copying" \notin Asking
    BY DEF Steps, Asking
  <2>8. QED
    BY <1>1, <1>3, <2>2, <2>4, <2>5, <2>6, <2>7, FileStep
<1>4. QED
  BY <1>2, <1>3 DEF OpenCopy

\* The copy is as whole as what the operator left.
LEMMA FinishCopyKeeps == ASSUME IInv, NEW p \in Syncs, FinishCopy(p) PROVE IInv'
<1>1. /\ pc[p] = "copying" /\ Typed /\ Rest /\ pc[p] \notin Ended /\ Go(p, "identify")
      /\ Write(p, file[Own(p, "prestaged")])
      /\ \A s \in Stages : file[<<s, "prestaged">>] # "partial"
      /\ file[Own(p, "prestaged")] # "absent"
  BY DEF FinishCopy, IInv, Ended, Untouched
<1>2. /\ stage[p] \in Stages /\ Own(p, "quarantine") \in Names /\ Own(p, "prestaged") \in Names
      /\ Own(p, "quarantine") = <<stage[p], "quarantine">>
      /\ Own(p, "prestaged") = <<stage[p], "prestaged">>
  BY <1>1, OwnNames
<1>3. file[Own(p, "prestaged")] \in Contents
  BY <1>1, <1>2 DEF Typed
<1>4. /\ file' \in [Names -> Contents] /\ open' \in [Syncs -> Writable]
      /\ \A m \in Names : m # open[p] => file'[m] = file[m]
      /\ \A q \in Syncs : open'[q] = IF q = p THEN <<"none">> ELSE open[q]
      /\ open[p] \in Names /\ (\A q \in Syncs : q # p => open[q] = <<"none">>)
           => file'[open[p]] = file[Own(p, "prestaged")]
  BY <1>1, <1>3, WritesTyped
<1>5. \A s \in Stages : file'[<<s, "prestaged">>] = file[<<s, "prestaged">>]
  BY <1>1, <1>3, WritesTyped
<1>6. ASSUME ~overlapped PROVE Places(p, "identify")
  <2>1. open[p] = Own(p, "quarantine")
    BY <1>1, <1>6, AloneNow DEF WritesAt
  <2>4. /\ \A s \in Stages : \A k \in Kinds :
              s # stage[p] \/ k # "quarantine" => file'[<<s, k>>] = file[<<s, k>>]
        /\ \A n \in Published : file'[n] = file[n]
    <3>1. Only(p, "quarantine", "quarantine")
      BY <1>4, <2>1 DEF Only
    <3>2. QED
      BY <1>1, <3>1, KindsAre, Elsewhere
  <2>3. QED
    BY <1>1, <1>4, <1>6, <2>4, AloneNow DEF Places, Identified, WritesAt
<1>7. ASSUME ~overlapped, tainted = {} PROVE Cleans(p, "identify")
  <2>1. open[p] = Own(p, "quarantine") /\ \A q \in Syncs : q # p => open[q] = <<"none">>
    BY <1>1, <1>7, AloneNow DEF WritesAt
  <2>2. file'[<<stage[p], "quarantine">>] = file[<<stage[p], "prestaged">>]
    BY <1>2, <1>4, <2>1
  <2>3. file[<<stage[p], "prestaged">>] # "wrong" =>
          file'[<<stage[p], "quarantine">>] \in {"absent", "right"}
    BY <1>1, <1>2, <1>3, <2>2 DEF Contents
  <2>4. \A s \in Stages \ {stage[p]} : file'[<<s, "quarantine">>] = file[<<s, "quarantine">>]
    <3>1. \A s \in Stages : \A k \in Kinds :
            s # stage[p] \/ k # "quarantine" => file'[<<s, k>>] = file[<<s, k>>]
      <4>1. Only(p, "quarantine", "quarantine")
        BY <1>4, <2>1 DEF Only
      <4>2. QED
        BY <1>1, <4>1, KindsAre, Elsewhere
    <3>2. QED
      BY <3>1 DEF Kinds
  <2>5. QED
    BY <1>1, <1>7, <2>3, <2>4, AloneNow DEF Cleans
<1>8. "identify" \in Steps \ {"copy", "refused"} /\ "identify" \notin Asking
  BY DEF Steps, Asking
<1>9. QED
  BY <1>1, <1>4, <1>5, <1>6, <1>7, <1>8, FileStep

\* A hop starts with no hop file.
LEMMA RequestKeeps == ASSUME IInv, NEW p \in Syncs, Request(p) PROVE IInv'
<1>1. /\ pc[p] = "request" /\ Typed /\ Rest /\ pc[p] \notin Ended /\ Go(p, "waiting")
      /\ Remove(Own(p, "hop"))
  BY DEF Request, IInv, Ended
<1>2. Own(p, "hop") \in Names
  BY <1>1, OwnNames
<1>3. /\ file' \in [Names -> Contents] /\ open' \in [Syncs -> Writable]
      /\ \A m \in Names : m # Own(p, "hop") => file'[m] = file[m]
      /\ \A q \in Syncs : open[q] = <<"none">> => open'[q] = <<"none">>
  BY <1>1, <1>2, Removes
<1>4. Only(p, "hop", "hop")
  BY <1>3 DEF Only
<1>5. /\ \A s \in Stages : file'[<<s, "prestaged">>] = file[<<s, "prestaged">>]
      /\ \A s \in Stages : file'[<<s, "quarantine">>] = file[<<s, "quarantine">>]
      /\ \A n \in Published : file'[n] = file[n]
  BY <1>1, <1>4, KindsAre, Kept
<1>6. ASSUME ~overlapped PROVE Places(p, "waiting")
  <2>1. \A q \in Syncs : open[q] = <<"none">>
    BY <1>1, <1>6, AloneNow DEF WritesAt
  <2>2. QED
    BY <1>1, <1>3, <1>5, <1>6, <2>1, AloneNow DEF Places, Identified, WritesAt
<1>7. ASSUME ~overlapped, tainted = {} PROVE Cleans(p, "waiting")
  BY <1>1, <1>5, <1>7, StaysClean
<1>8. "waiting" \in Steps \ {"copy", "refused"} /\ pc[p] \in Asking
  BY <1>1 DEF Steps, Asking
<1>9. QED
  BY <1>1, <1>3, <1>5, <1>6, <1>7, <1>8, FileStep

\* A body is received in the hop file and nowhere else.
LEMMA BodyKeeps == ASSUME IInv, NEW p \in Syncs, Body(p) PROVE IInv'
<1>1. /\ pc[p] = "waiting" /\ Typed /\ Rest /\ pc[p] \notin Ended /\ Go(p, "receiving")
      /\ Open(p, Own(p, "hop"))
  BY DEF Body, IInv, Ended
<1>2. Own(p, "hop") \in Names /\ Own(p, "hop") \in Writable
  BY <1>1, OwnNames
<1>3. /\ file' \in [Names -> Contents] /\ open' \in [Syncs -> Writable]
      /\ \A m \in Names : m # Own(p, "hop") => file'[m] = file[m]
      /\ \A q \in Syncs : open'[q] = IF q = p THEN Own(p, "hop") ELSE open[q]
  BY <1>1, <1>2, Opens
<1>4. Only(p, "hop", "hop")
  BY <1>3 DEF Only
<1>5. /\ \A s \in Stages : file'[<<s, "prestaged">>] = file[<<s, "prestaged">>]
      /\ \A s \in Stages : file'[<<s, "quarantine">>] = file[<<s, "quarantine">>]
      /\ \A n \in Published : file'[n] = file[n]
  BY <1>1, <1>4, KindsAre, Kept
<1>6. ASSUME ~overlapped PROVE Places(p, "receiving")
  BY <1>1, <1>3, <1>5, <1>6, AloneNow DEF Places, Identified, WritesAt
<1>7. ASSUME ~overlapped, tainted = {} PROVE Cleans(p, "receiving")
  BY <1>1, <1>5, <1>7, StaysClean
<1>8. "receiving" \in Steps \ {"copy", "refused"} /\ pc[p] \in Asking
  BY <1>1 DEF Steps, Asking
<1>9. QED
  BY <1>1, <1>3, <1>5, <1>6, <1>7, <1>8, FileStep

\* What a step in the cache keeps.
LEMMA CacheKept ==
  ASSUME OnlyCache
  PROVE  /\ \A s \in Stages : file'[<<s, "prestaged">>] = file[<<s, "prestaged">>]
         /\ \A s \in Stages : file'[<<s, "quarantine">>] = file[<<s, "quarantine">>]
         /\ file'[Object] = file[Object] => \A n \in Published : file'[n] = file[n]
BY ElsewhereCache, KindsAre DEF Published

\* An incoming file that was left behind is removed.
LEMMA PlaceMissing ==
  ASSUME IInv, NEW p \in Syncs, Place(p), ~Exists(Object) PROVE IInv'
<1>1. /\ pc[p] = "place" /\ Typed /\ Rest /\ pc[p] \notin Ended /\ Go(p, "fill")
      /\ Remove(Incoming)
  BY DEF Place, IInv, Ended
<1>2. /\ file' \in [Names -> Contents] /\ open' \in [Syncs -> Writable]
      /\ \A m \in Names : m # Incoming => file'[m] = file[m]
      /\ \A q \in Syncs : open[q] = <<"none">> => open'[q] = <<"none">>
  BY <1>1, NamesApart, Removes
<1>3. OnlyCache /\ file'[Object] = file[Object]
  BY <1>2, NamesApart DEF OnlyCache
<1>4. /\ \A s \in Stages : file'[<<s, "prestaged">>] = file[<<s, "prestaged">>]
      /\ \A s \in Stages : file'[<<s, "quarantine">>] = file[<<s, "quarantine">>]
      /\ \A n \in Published : file'[n] = file[n]
  BY <1>3, CacheKept
<1>5. file'[Own(p, "quarantine")] = file[Own(p, "quarantine")]
  BY <1>1, <1>4, OwnNames
<1>6. ASSUME ~overlapped PROVE Places(p, "fill")
  <2>1. \A q \in Syncs : open[q] = <<"none">>
    BY <1>1, <1>6, AloneNow DEF WritesAt
  <2>2. QED
    BY <1>1, <1>2, <1>4, <1>5, <1>6, <2>1, AloneNow DEF Places, Identified, WritesAt
<1>7. ASSUME ~overlapped, tainted = {} PROVE Cleans(p, "fill")
  BY <1>1, <1>4, <1>7, StaysClean
<1>8. "fill" \in Steps \ {"copy", "refused"} /\ "fill" \notin Asking
  BY DEF Steps, Asking
<1>9. QED
  BY <1>1, <1>2, <1>4, <1>6, <1>7, <1>8, FileStep

\* The object is written beside its name.
LEMMA OpenIncomingKeeps == ASSUME IInv, NEW p \in Syncs, OpenIncoming(p) PROVE IInv'
<1>1. /\ pc[p] = "fill" /\ Typed /\ Rest /\ pc[p] \notin Ended /\ Go(p, "filling")
      /\ Open(p, Incoming)
  BY DEF OpenIncoming, IInv, Ended
<1>2. /\ file' \in [Names -> Contents] /\ open' \in [Syncs -> Writable]
      /\ \A m \in Names : m # Incoming => file'[m] = file[m]
      /\ \A q \in Syncs : open'[q] = IF q = p THEN Incoming ELSE open[q]
  BY <1>1, NamesApart, Opens
<1>3. OnlyCache /\ file'[Object] = file[Object]
  BY <1>2, NamesApart DEF OnlyCache
<1>4. /\ \A s \in Stages : file'[<<s, "prestaged">>] = file[<<s, "prestaged">>]
      /\ \A s \in Stages : file'[<<s, "quarantine">>] = file[<<s, "quarantine">>]
      /\ \A n \in Published : file'[n] = file[n]
  BY <1>3, CacheKept
<1>5. file'[Own(p, "quarantine")] = file[Own(p, "quarantine")]
  BY <1>1, <1>4, OwnNames
<1>6. ASSUME ~overlapped PROVE Places(p, "filling")
  BY <1>1, <1>2, <1>4, <1>5, <1>6, AloneNow DEF Places, Identified, WritesAt
<1>7. ASSUME ~overlapped, tainted = {} PROVE Cleans(p, "filling")
  BY <1>1, <1>4, <1>7, StaysClean
<1>8. "filling" \in Steps \ {"copy", "refused"} /\ "filling" \notin Asking
  BY DEF Steps, Asking
<1>9. QED
  BY <1>1, <1>2, <1>4, <1>6, <1>7, <1>8, FileStep

\* What it wrote into the cache is what it verified in the quarantine.
LEMMA FillKeeps == ASSUME IInv, NEW p \in Syncs, Fill(p) PROVE IInv'
<1>1. /\ pc[p] = "filling" /\ Typed /\ Rest /\ pc[p] \notin Ended /\ Go(p, "confirm")
      /\ Write(p, file[Own(p, "quarantine")])
  BY DEF Fill, IInv, Ended
<1>2. file[Own(p, "quarantine")] \in Contents
  BY <1>1, OwnNames DEF Typed
<1>3. /\ file' \in [Names -> Contents] /\ open' \in [Syncs -> Writable]
      /\ \A m \in Names : m # open[p] => file'[m] = file[m]
      /\ \A q \in Syncs : open'[q] = IF q = p THEN <<"none">> ELSE open[q]
      /\ open[p] \in Names /\ (\A q \in Syncs : q # p => open[q] = <<"none">>)
           => file'[open[p]] = file[Own(p, "quarantine")]
      /\ \A s \in Stages : file'[<<s, "prestaged">>] = file[<<s, "prestaged">>]
  BY <1>1, <1>2, WritesTyped
<1>4. ASSUME ~overlapped
      PROVE  OnlyCache /\ file'[Object] = file[Object] /\ file'[Incoming] = "right"
  <2>1. /\ open[p] = Incoming /\ \A q \in Syncs : q # p => open[q] = <<"none">>
        /\ file[Own(p, "quarantine")] = "right"
    BY <1>1, <1>4, AloneNow DEF WritesAt, Identified
  <2>2. QED
    BY <1>3, <2>1, NamesApart DEF OnlyCache
<1>6. ASSUME ~overlapped PROVE Places(p, "confirm")
  <2>1. \A n \in Published : file'[n] = file[n]
    BY <1>4, <1>6, CacheKept
  <2>2. QED
    BY <1>1, <1>3, <1>4, <1>6, <2>1, AloneNow DEF Places, Identified, WritesAt
<1>7. ASSUME ~overlapped, tainted = {} PROVE Cleans(p, "confirm")
  <2>1. \A s \in Stages : file'[<<s, "quarantine">>] = file[<<s, "quarantine">>]
    BY <1>4, <1>7, CacheKept
  <2>2. QED
    BY <1>1, <1>7, <2>1, StaysClean
<1>8. "confirm" \in Steps \ {"copy", "refused"} /\ "confirm" \notin Asking
  BY DEF Steps, Asking
<1>9. QED
  BY <1>1, <1>3, <1>6, <1>7, <1>8, FileStep

\* The object it leaves is the file it confirmed.
LEMMA CommitKeeps == ASSUME IInv, NEW p \in Syncs, Commit(p) PROVE IInv'
<1>1. /\ pc[p] = "commit" /\ Typed /\ Rest /\ pc[p] \notin Ended
      /\ pc[p] \notin Ended \union Writing
  BY LookingPlaces DEF Commit, IInv, Ended
<1>2. CASE Remove(Incoming) /\ Go(p, "stopped")
  <2>1. /\ file' \in [Names -> Contents] /\ open' \in [Syncs -> Writable]
        /\ \A m \in Names : m # Incoming => file'[m] = file[m]
        /\ \A q \in Syncs : open[q] = <<"none">> => open'[q] = <<"none">>
    BY <1>1, <1>2, NamesApart, Removes
  <2>2. OnlyCache /\ file'[Object] = file[Object]
    BY <2>1, NamesApart DEF OnlyCache
  <2>3. /\ \A s \in Stages : file'[<<s, "prestaged">>] = file[<<s, "prestaged">>]
        /\ \A s \in Stages : file'[<<s, "quarantine">>] = file[<<s, "quarantine">>]
        /\ \A n \in Published : file'[n] = file[n]
    BY <2>2, CacheKept
  <2>4. ASSUME ~overlapped PROVE Places(p, "stopped")
    <3>1. \A q \in Syncs : open[q] = <<"none">>
      BY <1>1, <2>4, AloneNow DEF WritesAt
    <3>2. QED
      BY <1>1, <2>1, <2>3, <2>4, <3>1, AloneNow DEF Places, Identified, WritesAt
  <2>5. ASSUME ~overlapped, tainted = {} PROVE Cleans(p, "stopped")
    BY <1>1, <2>3, <2>5, StaysClean
  <2>6. "stopped" \in Steps \ {"copy", "refused"} /\ "stopped" \notin Asking
    BY DEF Steps, Asking
  <2>7. QED
    BY <1>1, <1>2, <2>1, <2>3, <2>4, <2>5, <2>6, FileStep
<1>3. CASE Rename(Incoming, Object) /\ Go(p, AfterPublishing(p))
  <2>1. PICK x \in {"prepare", "clear"} : Go(p, x) /\ (x = "clear" => stage[p] # "bootstrap")
    BY <1>3 DEF AfterPublishing
  <2>2. /\ file' \in [Names -> Contents] /\ open' \in [Syncs -> Writable]
        /\ file'[Object] = file[Incoming]
        /\ \A m \in Names : m # Incoming /\ m # Object => file'[m] = file[m]
        /\ \A q \in Syncs : open[q] = <<"none">> => open'[q] = <<"none">>
    BY <1>1, <1>3, NamesApart, Renames
  <2>3. OnlyCache
    BY <2>2 DEF OnlyCache
  <2>4. /\ \A s \in Stages : file'[<<s, "prestaged">>] = file[<<s, "prestaged">>]
        /\ \A s \in Stages : file'[<<s, "quarantine">>] = file[<<s, "quarantine">>]
        /\ \A s \in Stages : file'[<<s, "tree">>] = file[<<s, "tree">>]
    BY <2>3, ElsewhereCache, KindsAre
  <2>5. ASSUME ~overlapped PROVE Places(p, x)
    <3>1. \A q \in Syncs : open[q] = <<"none">>
      BY <1>1, <2>5, AloneNow DEF WritesAt
    <3>2. \A n \in Published : file'[n] \in {"absent", "right"}
      BY <1>1, <2>2, <2>4, <2>5, AloneNow DEF Published
    <3>3. QED
      BY <2>1, <2>2, <3>1, <3>2 DEF Places, Identified, WritesAt
  <2>6. ASSUME ~overlapped, tainted = {} PROVE Cleans(p, x)
    BY <1>1, <2>4, <2>6, StaysClean
  <2>7. x \in Steps \ {"copy", "refused"} /\ x \notin Asking /\ x # "copying"
    BY DEF Steps, Asking
  <2>8. QED
    BY <1>1, <2>1, <2>2, <2>4, <2>5, <2>6, <2>7, FileStep
<1>4. QED
  BY <1>2, <1>3 DEF Commit

\* A tree that is there makes room for what is extracted next.
LEMMA ClearKeeps == ASSUME IInv, NEW p \in Syncs, Clear(p) PROVE IInv'
<1>1. /\ pc[p] = "clear" /\ Typed /\ Rest /\ pc[p] \notin Ended
      /\ pc[p] \notin Ended \union Writing
  BY LookingPlaces DEF Clear, IInv, Ended
<1>2. CASE /\ UNCHANGED <<file, open>> /\ file[Object] # "right"
           /\ Go(p, IF Exists(Object) THEN "refused" ELSE "stopped")
  <2>1. PICK x \in {"refused", "stopped"} : Go(p, x) /\ (x = "refused" => file[Object] # "absent")
    BY <1>2 DEF Exists
  <2>2. Same
    BY <1>1, <1>2 DEF Same
  <2>3. x = "refused" => overlapped
    BY <1>2, <2>1, ObjectIsWhole
  <2>4. QED
    BY <1>1, <2>1, <2>2, <2>3, Resting, LookingStep DEF Identified
<1>3. CASE Remove(Own(p, "tree")) /\ Go(p, "unpack")
  <2>1. Own(p, "tree") \in Names
    BY <1>1, OwnNames
  <2>2. /\ file' \in [Names -> Contents] /\ open' \in [Syncs -> Writable]
        /\ file'[Own(p, "tree")] = "absent"
        /\ \A m \in Names : m # Own(p, "tree") => file'[m] = file[m]
        /\ \A q \in Syncs : open[q] = <<"none">> => open'[q] = <<"none">>
    BY <1>3, <1>1, <2>1, Removes
  <2>3. Only(p, "tree", "tree")
    BY <2>2 DEF Only
  <2>4. /\ \A s \in Stages : file'[<<s, "prestaged">>] = file[<<s, "prestaged">>]
        /\ \A s \in Stages : file'[<<s, "quarantine">>] = file[<<s, "quarantine">>]
    BY <1>1, <2>3, KindsAre, Kept
  <2>5. /\ file'[Object] = file[Object]
        /\ \A s \in Stages \ {stage[p]} : file'[<<s, "tree">>] = file[<<s, "tree">>]
        /\ file'[<<stage[p], "tree">>] = "absent"
    <3>1. /\ file'[Object] = file[Object]
          /\ \A s \in Stages \ {stage[p]} : file'[<<s, "tree">>] = file[<<s, "tree">>]
      BY <1>1, <2>3, KindsAre, Elsewhere
    <3>2. QED
      BY <2>2, <3>1 DEF Own
  <2>6. ASSUME ~overlapped PROVE Places(p, "unpack")
    <3>1. \A q \in Syncs : open[q] = <<"none">>
      BY <1>1, <2>6, AloneNow DEF WritesAt
    <3>2. \A n \in Published : file'[n] \in {"absent", "right"}
      BY <1>1, <2>5, <2>6, AloneNow DEF Published
    <3>3. Identified(p, "unpack") => file'[Own(p, "quarantine")] = "right"
      <4>1. file'[Own(p, "quarantine")] = file[Own(p, "quarantine")]
        BY <1>1, <2>4, OwnNames
      <4>2. Identified(p, "unpack") => Identified(p, pc[p])
        BY <1>1 DEF Identified
      <4>3. QED
        BY <1>1, <2>6, <4>1, <4>2, AloneNow
    <3>4. QED
      BY <2>2, <3>1, <3>2, <3>3 DEF Places, WritesAt
  <2>7. ASSUME ~overlapped, tainted = {} PROVE Cleans(p, "unpack")
    BY <1>1, <2>4, <2>7, StaysClean
  <2>8. "unpack" \in Steps \ {"copy", "refused"} /\ "unpack" \notin Asking
    BY DEF Steps, Asking
  <2>9. QED
    BY <1>1, <1>3, <2>2, <2>4, <2>6, <2>7, <2>8, FileStep
<1>4. QED
  BY <1>2, <1>3 DEF Clear

\* It extracts beside the tree.
LEMMA UnpackKeeps == ASSUME IInv, NEW p \in Syncs, Unpack(p) PROVE IInv'
<1>1. /\ pc[p] = "unpack" /\ Typed /\ Rest /\ pc[p] \notin Ended
      /\ pc[p] \notin Ended \union Writing
  BY LookingPlaces DEF Unpack, IInv, Ended
<1>2. CASE /\ UNCHANGED <<file, open>>
           /\ \E x \in {"run", "stopped"} : Go(p, x) /\ (x = "run" => stage[p] = "bootstrap")
  <2>1. ~overlapped /\ stage[p] = "bootstrap" => file[Own(p, "quarantine")] = "right"
    BY <1>1, AloneNow DEF Identified
  <2>2. PICK x \in {"run", "stopped"} : Go(p, x) /\ (x = "run" => stage[p] = "bootstrap")
    BY <1>2
  <2>3. Identified(p, x) => x = "run"
    BY DEF Identified
  <2>4. QED
    BY <1>1, <1>2, <2>1, <2>2, <2>3, Resting, LookingStep DEF Same, Identified
<1>3. CASE Open(p, Own(p, "unpacked")) /\ Go(p, "unpacking")
  <2>1. Own(p, "unpacked") \in Names /\ Own(p, "unpacked") \in Writable
    BY <1>1, OwnNames
  <2>2. /\ file' \in [Names -> Contents] /\ open' \in [Syncs -> Writable]
        /\ \A m \in Names : m # Own(p, "unpacked") => file'[m] = file[m]
        /\ \A q \in Syncs : open'[q] = IF q = p THEN Own(p, "unpacked") ELSE open[q]
    BY <1>3, <1>1, <2>1, Opens
  <2>3. Only(p, "unpacked", "unpacked")
    BY <2>2 DEF Only
  <2>4. /\ \A s \in Stages : file'[<<s, "prestaged">>] = file[<<s, "prestaged">>]
        /\ \A s \in Stages : file'[<<s, "quarantine">>] = file[<<s, "quarantine">>]
        /\ \A n \in Published : file'[n] = file[n]
    BY <1>1, <2>3, KindsAre, Kept
  <2>5. ASSUME ~overlapped PROVE Places(p, "unpacking")
    BY <1>1, <2>2, <2>4, <2>5, OwnNames, AloneNow DEF Places, Identified, WritesAt
  <2>6. ASSUME ~overlapped, tainted = {} PROVE Cleans(p, "unpacking")
    BY <1>1, <2>4, <2>6, StaysClean
  <2>7. "unpacking" \in Steps \ {"copy", "refused"} /\ "unpacking" \notin Asking
    BY DEF Steps, Asking
  <2>8. QED
    BY <1>1, <1>3, <2>2, <2>4, <2>5, <2>6, <2>7, FileStep
<1>4. QED
  BY <1>2, <1>3 DEF Unpack

\* What it settles is extracted to the end.
LEMMA FinishUnpackingKeeps == ASSUME IInv, NEW p \in Syncs, FinishUnpacking(p) PROVE IInv'
<1>1. /\ pc[p] = "unpacking" /\ Typed /\ Rest /\ pc[p] \notin Ended
      /\ Write(p, "right")
      /\ Go(p, IF open[p] = <<"gone">> THEN "stopped" ELSE "settle")
  BY DEF FinishUnpacking, IInv, Ended
<1>2. PICK x \in {"stopped", "settle"} : Go(p, x)
  BY <1>1
<1>3. /\ file' \in [Names -> Contents] /\ open' \in [Syncs -> Writable]
      /\ \A m \in Names : m # open[p] => file'[m] = file[m]
      /\ \A q \in Syncs : open'[q] = IF q = p THEN <<"none">> ELSE open[q]
      /\ open[p] \in Names /\ (\A q \in Syncs : q # p => open[q] = <<"none">>)
           => file'[open[p]] = "right"
      /\ \A s \in Stages : file'[<<s, "prestaged">>] = file[<<s, "prestaged">>]
  <2>1. "right" \in Contents
    BY DEF Contents
  <2>2. QED
    BY <1>1, <2>1, WritesTyped
<1>4. ASSUME ~overlapped
      PROVE  Only(p, "unpacked", "unpacked") /\ file'[Own(p, "unpacked")] = "right"
  <2>1. open[p] = Own(p, "unpacked") /\ \A q \in Syncs : q # p => open[q] = <<"none">>
    BY <1>1, <1>4, AloneNow DEF WritesAt
  <2>2. QED
    BY <1>1, <1>3, <2>1, OwnNames DEF Only
<1>5. ASSUME ~overlapped
      PROVE  /\ \A s \in Stages : file'[<<s, "quarantine">>] = file[<<s, "quarantine">>]
             /\ \A n \in Published : file'[n] = file[n]
  BY <1>1, <1>4, <1>5, KindsAre, Kept
<1>6. ASSUME ~overlapped PROVE Places(p, x)
  BY <1>1, <1>3, <1>4, <1>5, <1>6, OwnNames, AloneNow DEF Places, Identified, WritesAt
<1>7. ASSUME ~overlapped, tainted = {} PROVE Cleans(p, x)
  BY <1>1, <1>5, <1>7, StaysClean
<1>8. x \in Steps \ {"copy", "refused"} /\ x \notin Asking /\ x # "copying"
  BY DEF Steps, Asking
<1>9. QED
  BY <1>1, <1>2, <1>3, <1>6, <1>7, <1>8, FileStep

\* The tree it leaves is what it extracted.
LEMMA SettleKeeps == ASSUME IInv, NEW p \in Syncs, Settle(p) PROVE IInv'
<1>1. /\ pc[p] = "settle" /\ Typed /\ Rest /\ pc[p] \notin Ended
      /\ Own(p, "unpacked") \in Names /\ Own(p, "tree") \in Names
      /\ Own(p, "tree") \in Writable /\ Own(p, "unpacked") # Own(p, "tree")
  BY OwnNames DEF Settle, IInv, Ended, Own
<1>2. CASE Remove(Own(p, "unpacked")) /\ Go(p, "stopped")
  <2>1. /\ file' \in [Names -> Contents] /\ open' \in [Syncs -> Writable]
        /\ \A m \in Names : m # Own(p, "unpacked") => file'[m] = file[m]
        /\ \A q \in Syncs : open[q] = <<"none">> => open'[q] = <<"none">>
    BY <1>1, <1>2, Removes
  <2>2. Only(p, "unpacked", "unpacked")
    BY <2>1 DEF Only
  <2>3. /\ \A s \in Stages : file'[<<s, "prestaged">>] = file[<<s, "prestaged">>]
        /\ \A s \in Stages : file'[<<s, "quarantine">>] = file[<<s, "quarantine">>]
        /\ \A n \in Published : file'[n] = file[n]
    BY <1>1, <2>2, KindsAre, Kept
  <2>4. ASSUME ~overlapped PROVE Places(p, "stopped")
    <3>1. \A q \in Syncs : open[q] = <<"none">>
      BY <1>1, <2>4, AloneNow DEF WritesAt
    <3>2. QED
      BY <1>1, <2>1, <2>3, <2>4, <3>1, AloneNow DEF Places, Identified, WritesAt
  <2>5. ASSUME ~overlapped, tainted = {} PROVE Cleans(p, "stopped")
    BY <1>1, <2>3, <2>5, StaysClean
  <2>6. "stopped" \in Steps \ {"copy", "refused"} /\ "stopped" \notin Asking
    BY DEF Steps, Asking
  <2>7. QED
    BY <1>1, <1>2, <2>1, <2>3, <2>4, <2>5, <2>6, FileStep
<1>3. CASE Rename(Own(p, "unpacked"), Own(p, "tree")) /\ Go(p, AfterUnpacking(p))
  <2>1. PICK x \in {"run", "require"} : Go(p, x) /\ (x = "run" => stage[p] = "bootstrap")
    BY <1>3 DEF AfterUnpacking
  <2>2. /\ file' \in [Names -> Contents] /\ open' \in [Syncs -> Writable]
        /\ file'[Own(p, "tree")] = file[Own(p, "unpacked")]
        /\ \A m \in Names : m # Own(p, "unpacked") /\ m # Own(p, "tree") => file'[m] = file[m]
        /\ \A q \in Syncs : open[q] = <<"none">> => open'[q] = <<"none">>
    BY <1>1, <1>3, Renames
  <2>3. Only(p, "unpacked", "tree")
    BY <2>2 DEF Only
  <2>4. /\ \A s \in Stages : file'[<<s, "prestaged">>] = file[<<s, "prestaged">>]
        /\ \A s \in Stages : file'[<<s, "quarantine">>] = file[<<s, "quarantine">>]
    BY <1>1, <2>3, KindsAre, Kept
  <2>5. /\ file'[Object] = file[Object]
        /\ \A s \in Stages \ {stage[p]} : file'[<<s, "tree">>] = file[<<s, "tree">>]
        /\ file'[<<stage[p], "tree">>] = file[Own(p, "unpacked")]
    <3>1. /\ file'[Object] = file[Object]
          /\ \A s \in Stages \ {stage[p]} : file'[<<s, "tree">>] = file[<<s, "tree">>]
      BY <1>1, <2>3, KindsAre, Elsewhere
    <3>2. QED
      BY <2>2, <3>1 DEF Own
  <2>6. ASSUME ~overlapped PROVE Places(p, x)
    <3>1. \A q \in Syncs : open[q] = <<"none">>
      BY <1>1, <2>6, AloneNow DEF WritesAt
    <3>2. \A n \in Published : file'[n] \in {"absent", "right"}
      BY <1>1, <2>5, <2>6, AloneNow DEF Published
    <3>3. Identified(p, x) => file'[Own(p, "quarantine")] = "right"
      <4>1. file'[Own(p, "quarantine")] = file[Own(p, "quarantine")]
        BY <1>1, <2>4, OwnNames
      <4>2. Identified(p, x) => Identified(p, pc[p])
        BY <1>1, <2>1 DEF Identified
      <4>3. QED
        BY <1>1, <2>6, <4>1, <4>2, AloneNow
    <3>4. QED
      BY <2>1, <2>2, <3>1, <3>2, <3>3 DEF Places, WritesAt
  <2>7. ASSUME ~overlapped, tainted = {} PROVE Cleans(p, x)
    BY <1>1, <2>4, <2>7, StaysClean
  <2>8. x \in Steps \ {"copy", "refused"} /\ x \notin Asking /\ x # "copying"
    BY DEF Steps, Asking
  <2>9. QED
    BY <1>1, <2>1, <2>2, <2>4, <2>6, <2>7, <2>8, FileStep
<1>4. QED
  BY <1>2, <1>3 DEF Settle

-----------------------------------------------------------------------------
(***************************************************************************)
(* The actions of a download that keep its account.                        *)
(***************************************************************************)

\* What is to be shown of the requests of one download.
Fits(urls, origin) ==
  /\ Len(urls) <= MaxRedirects + 1
  /\ \A i \in DOMAIN urls : urls[i].clean
  /\ urls # <<>> => urls[1] = origin /\ urls[1].host \in OriginHosts
  /\ Len(urls) > 1 => urls[1].host = ReleaseHost
  /\ \A i \in DOMAIN urls : urls[i].query => urls[i].host = AssetHost /\ i > 1

\* None fit.
LEMMA NoneFit == \A origin : Fits(<<>>, origin)
BY AcquisitionAssumption DEF Fits

\* The one to an admitted origin fits.
LEMMA OneFits ==
  ASSUME NEW u, u.clean, ~u.query, u.host \in OriginHosts
  PROVE  Fits(<<u>>, u)
<1> DEFINE urls == <<u>>
<1>1. Len(urls) = 1 /\ urls[1] = u /\ \A i \in DOMAIN urls : i = 1
  OBVIOUS
<1> HIDE DEF urls
<1>2. Fits(urls, u)
  BY <1>1, AcquisitionAssumption DEF Fits
<1>3. QED
  BY <1>2 DEF urls

\* So does one more, by a redirect of the release host that is admitted.
LEMMA MoreFit ==
  ASSUME NEW urls \in Seq(Urls), NEW origin, urls # <<>>, Fits(urls, origin),
         NEW u, u \in Urls, Len(urls) <= MaxRedirects, origin.host = ReleaseHost,
         u.clean, u.query => u.host = AssetHost
  PROVE  Fits(Append(urls, u), origin)
<1> DEFINE more == Append(urls, u)
<1>1. Len(urls) \in Nat /\ DOMAIN urls = 1 .. Len(urls) /\ Len(urls) >= 1
  <2>1. Len(urls) \in Nat /\ DOMAIN urls = 1 .. Len(urls)
    OBVIOUS
  <2>2. Len(urls) # 0
    OBVIOUS
  <2>3. QED
    BY <2>1, <2>2
<1>2. /\ Len(more) = Len(urls) + 1 /\ DOMAIN more = 1 .. Len(urls) + 1
      /\ \A i \in 1 .. Len(urls) : more[i] = urls[i]
      /\ more[Len(urls) + 1] = u
  BY <1>1
<1> HIDE DEF more
<1>3. more[1] = urls[1]
  BY <1>1, <1>2
<1>4. Len(more) <= MaxRedirects + 1
  BY <1>1, <1>2, AcquisitionAssumption
<1>5. urls[1] = origin /\ urls[1].host \in OriginHosts
  BY DEF Fits
<1>6. ASSUME NEW i \in DOMAIN more
      PROVE  more[i].clean /\ (more[i].query => more[i].host = AssetHost /\ i > 1)
  <2>1. CASE i \in 1 .. Len(urls)
    BY <1>1, <1>2, <2>1 DEF Fits
  <2>2. CASE i = Len(urls) + 1
    BY <1>1, <1>2, <2>2
  <2>3. QED
    BY <1>1, <1>2, <2>1, <2>2
<1>7. Fits(more, origin)
  BY <1>3, <1>4, <1>5, <1>6 DEF Fits
<1>8. QED
  BY <1>7 DEF more

\* A step that keeps one download fit keeps them all so.
LEMMA StillAdmitted ==
  ASSUME RequestsAreAdmitted, NEW p \in Syncs, world' = world,
         \A q \in Syncs : q # p => chain'[q] = chain[q], Fits(chain'[p], world.origin)
  PROVE  RequestsAreAdmitted'
<1>1. \A q \in Syncs : Fits(chain[q], world.origin)
  BY DEF RequestsAreAdmitted, Fits
<1>2. \A q \in Syncs : Fits(chain'[q], world.origin)
  BY <1>1
<1>3. QED
  BY <1>2 DEF RequestsAreAdmitted, Fits

\* A download that is over asks for nothing.
LEMMA Dropped ==
  ASSUME Typed, RequestsAreAdmitted, NEW p \in Syncs, chain' = [chain EXCEPT ![p] = <<>>],
         world' = world
  PROVE  /\ RequestsAreAdmitted' /\ chain' \in [Syncs -> Seq(Urls)]
         /\ \A q \in Syncs : q # p => chain'[q] = chain[q]
<1>1. chain \in [Syncs -> Seq(Urls)]
  BY DEF Typed
<1>2. chain' \in [Syncs -> Seq(Urls)] /\ chain'[p] = <<>>
      /\ \A q \in Syncs : q # p => chain'[q] = chain[q]
  BY <1>1
<1>3. QED
  BY <1>2, NoneFit, StillAdmitted

\* The first request goes to a locked origin.
LEMMA AskKeeps == ASSUME IInv, NEW p \in Syncs, Ask(p) PROVE IInv'
<1>1. /\ pc[p] = "ask" /\ Typed /\ RequestsAreAdmitted /\ pc[p] \notin Ended
      /\ pc[p] \notin Ended \union Writing
      /\ UNCHANGED <<stage, file, open, world, starts, overlapped, tainted>>
  BY LookingPlaces DEF Ask, IInv, Ended
<1>2. CASE Go(p, "stopped") /\ UNCHANGED chain
  BY <1>1, <1>2, Resting, LookingStep DEF Same, Rest, Identified
<1>3. CASE /\ ClassifyUrl(world.origin, FALSE) /\ Go(p, "request")
           /\ chain' = [chain EXCEPT ![p] = <<world.origin>>]
  <2>1. /\ chain \in [Syncs -> Seq(Urls)] /\ world.origin \in Urls
    BY <1>1 DEF Typed, Urls
  <2>2. /\ \A q \in Syncs : chain'[q] = IF q = p THEN <<world.origin>> ELSE chain[q]
        /\ chain' \in [Syncs -> Seq(Urls)]
    BY <1>3, <2>1
  <2>3. /\ world.origin.clean /\ ~world.origin.query /\ world.origin.host \in OriginHosts
    BY <1>3 DEF ClassifyUrl
  <2>4. RequestsAreAdmitted'
    <3>1. Fits(chain'[p], world.origin)
      BY <2>2, <2>3, OneFits
    <3>2. QED
      BY <1>1, <2>2, <3>1, StillAdmitted
  <2>5. "request" \in Steps
    BY DEF Steps
  <2>6. Typed'
    BY <1>1, <1>3, <2>2, <2>5 DEF Typed, Go
  <2>7. Stays(p, "request")
    BY <1>1, <1>3, <2>2, <2>4 DEF Stays, Go
  <2>8. Leaves(p, "request")
    BY <1>1 DEF Leaves
  <2>9. ASSUME ~overlapped PROVE Places(p, "request")
    BY <1>1, <2>9, AloneNow DEF Places, Identified, WritesAt
  <2>10. ASSUME ~overlapped, tainted' = {} PROVE Cleans(p, "request")
    BY <1>1, <2>10, StaysClean
  <2>11. QED
    BY <1>1, <2>5, <2>6, <2>7, <2>8, <2>9, <2>10, OneStep
<1>4. QED
  BY <1>2, <1>3 DEF Ask

\* A body that is not what was asked for goes on record.
LEMMA DeliverKeeps ==
  ASSUME IInv, NEW p \in Syncs, NEW c \in {"right", "wrong"}, Deliver(p, c) PROVE IInv'
<1>1. /\ pc[p] = "receiving" /\ Typed /\ RequestsAreAdmitted /\ pc[p] \notin Ended
      /\ Go(p, "land") /\ Write(p, c)
      /\ UNCHANGED <<stage, chain, world, starts, overlapped>>
      /\ tainted' = tainted \union (IF c = "wrong" THEN {"delivered"} ELSE {})
  BY DEF Deliver, IInv, Ended
<1>2. /\ file' \in [Names -> Contents] /\ open' \in [Syncs -> Writable]
      /\ \A m \in Names : m # open[p] => file'[m] = file[m]
      /\ \A q \in Syncs : open'[q] = IF q = p THEN <<"none">> ELSE open[q]
      /\ open[p] \in Names /\ (\A q \in Syncs : q # p => open[q] = <<"none">>)
           => file'[open[p]] = c
      /\ \A s \in Stages : file'[<<s, "prestaged">>] = file[<<s, "prestaged">>]
  <2>1. c \in Contents
    BY DEF Contents
  <2>2. QED
    BY <1>1, <2>1, WritesTyped
<1>3. ASSUME ~overlapped
      PROVE  Only(p, "hop", "hop") /\ file'[Own(p, "hop")] = c
  <2>1. open[p] = Own(p, "hop") /\ \A q \in Syncs : q # p => open[q] = <<"none">>
    BY <1>1, <1>3, AloneNow DEF WritesAt
  <2>2. QED
    BY <1>1, <1>2, <2>1, OwnNames DEF Only
<1>4. ASSUME ~overlapped
      PROVE  /\ \A s \in Stages : file'[<<s, "quarantine">>] = file[<<s, "quarantine">>]
             /\ \A n \in Published : file'[n] = file[n]
  BY <1>1, <1>3, <1>4, KindsAre, Kept
<1>5. "land" \in Steps
  BY DEF Steps
<1>6. Typed'
  BY <1>1, <1>2, <1>5 DEF Typed, Go
<1>7. Stays(p, "land")
  BY <1>1, NothingAsked DEF Stays, Go
<1>8. Leaves(p, "land")
  BY <1>2 DEF Leaves
<1>9. ASSUME ~overlapped PROVE Places(p, "land")
  BY <1>1, <1>2, <1>4, <1>9, AloneNow DEF Places, Identified, WritesAt
<1>10. ASSUME ~overlapped, tainted' = {} PROVE Cleans(p, "land")
  <2>1. tainted = {} /\ c = "right"
    BY <1>1, <1>10
  <2>2. QED
    BY <1>1, <1>3, <1>4, <1>10, <2>1, AloneNow DEF Cleans
<1>11. QED
  BY <1>1, <1>5, <1>6, <1>7, <1>8, <1>9, <1>10, OneStep

\* A transfer that ends leaves no hop file.
LEMMA Discarding ==
  ASSUME IInv, NEW p \in Syncs, pc[p] \in {"waiting", "receiving"}, Discard(p),
         NEW x \in {"stopped", "request"}, Go(p, x),
         UNCHANGED <<stage, world, starts, overlapped, tainted>>,
         RequestsAreAdmitted', chain' \in [Syncs -> Seq(Urls)],
         \A q \in Syncs : q # p => chain'[q] = chain[q],
         x = "request" => chain'[p] # <<>>
  PROVE  IInv'
<1>1. Typed /\ pc[p] \notin Ended /\ Own(p, "hop") \in Names
  BY OwnNames DEF IInv, Ended
<1>2. /\ file' = [file EXCEPT ![Own(p, "hop")] = "absent"]
      /\ open' = [q \in Syncs |-> IF q = p THEN <<"none">>
                                   ELSE IF open[q] = Own(p, "hop") THEN <<"gone">> ELSE open[q]]
  BY DEF Discard
<1>3. file' \in [Names -> Contents]
  BY <1>1, <1>2 DEF Typed, Contents
<1>4. open' \in [Syncs -> Writable]
  BY <1>1, <1>2, NamesApart DEF Typed
<1>5. Only(p, "hop", "hop")
  BY <1>1, <1>2 DEF Only, Typed
<1>6. /\ \A s \in Stages : file'[<<s, "prestaged">>] = file[<<s, "prestaged">>]
      /\ \A s \in Stages : file'[<<s, "quarantine">>] = file[<<s, "quarantine">>]
      /\ \A n \in Published : file'[n] = file[n]
  BY <1>1, <1>5, KindsAre, Kept
<1>7. x \in Steps
  BY DEF Steps
<1>8. Typed'
  BY <1>1, <1>3, <1>4, <1>7 DEF Typed, Go
<1>9. Stays(p, x)
  BY DEF Stays, Go
<1>10. Leaves(p, x)
  BY <1>6 DEF Leaves
<1>11. ASSUME ~overlapped PROVE Places(p, x)
  <2>1. \A q \in Syncs : q # p => open[q] = <<"none">>
    BY <1>1, <1>11, AloneNow
  <2>2. \A q \in Syncs : q # p => open'[q] = open[q]
    <3>1. Own(p, "hop") # <<"none">>
      BY <1>1, NamesApart
    <3>2. QED
      BY <1>2, <2>1, <3>1
  <2>3. QED
    BY <1>1, <1>2, <1>6, <1>11, <2>2, AloneNow DEF Places, Identified, WritesAt
<1>12. ASSUME ~overlapped, tainted' = {} PROVE Cleans(p, x)
  BY <1>1, <1>6, <1>12, StaysClean
<1>13. QED
  BY <1>1, <1>7, <1>8, <1>9, <1>10, <1>11, <1>12, OneStep

\* A transfer that fails leaves nothing.
LEMMA FailTransferKeeps == ASSUME IInv, NEW p \in Syncs, FailTransfer(p) PROVE IInv'
<1>1. Typed /\ RequestsAreAdmitted /\ chain' = [chain EXCEPT ![p] = <<>>] /\ world' = world
  BY DEF IInv, FailTransfer
<1>2. /\ RequestsAreAdmitted' /\ chain' \in [Syncs -> Seq(Urls)]
      /\ \A q \in Syncs : q # p => chain'[q] = chain[q]
  BY <1>1, Dropped
<1>3. QED
  BY <1>2, Discarding DEF FailTransfer

\* The next request goes where the release host may send it, and there are few.
LEMMA RedirectKeeps ==
  ASSUME IInv, NEW p \in Syncs, NEW url \in Targets, Redirect(p, url) PROVE IInv'
<1>1. /\ Typed /\ RequestsAreAdmitted /\ Requested
      /\ pc[p] \in {"waiting", "receiving"} /\ Discard(p)
      /\ UNCHANGED <<stage, world, starts, overlapped, tainted>>
  BY DEF IInv, Redirect, Follow
<1>2. CASE Go(p, "stopped") /\ chain' = [chain EXCEPT ![p] = <<>>]
  <2>1. /\ RequestsAreAdmitted' /\ chain' \in [Syncs -> Seq(Urls)]
        /\ \A q \in Syncs : q # p => chain'[q] = chain[q]
    BY <1>1, <1>2, Dropped
  <2>2. QED
    BY <1>1, <1>2, <2>1, Discarding
<1>3. CASE /\ Len(chain[p]) <= MaxRedirects /\ ClassifyUrl(url, TRUE) /\ Go(p, "request")
           /\ chain' = [chain EXCEPT ![p] = Append(@, url)]
  <2>1. chain \in [Syncs -> Seq(Urls)] /\ chain[p] \in Seq(Urls) /\ url \in Urls
    BY <1>1 DEF Typed, Urls
  <2>2. /\ chain'[p] = Append(chain[p], url)
        /\ \A q \in Syncs : q # p => chain'[q] = chain[q]
    BY <1>3, <2>1
  <2>3. Append(chain[p], url) \in Seq(Urls) /\ Append(chain[p], url) # <<>>
    BY <2>1
  <2>4. chain' \in [Syncs -> Seq(Urls)]
    BY <1>3, <2>1, <2>3
  <2>5. Fits(chain[p], world.origin)
    BY <1>1 DEF RequestsAreAdmitted, Fits
  <2>6. url.clean /\ world.origin.host = ReleaseHost /\ (url.query => url.host = AssetHost)
    BY <1>3 DEF ClassifyUrl
  <2>7. chain[p] # <<>>
    BY <1>1 DEF Requested
  <2>8. Fits(chain'[p], world.origin)
    BY <1>3, <2>1, <2>2, <2>5, <2>6, <2>7, MoreFit
  <2>9. RequestsAreAdmitted'
    BY <1>1, <2>2, <2>8, StillAdmitted
  <2>10. QED
    BY <1>1, <1>3, <2>2, <2>3, <2>4, <2>9, Discarding
<1>4. QED
  BY <1>2, <1>3 DEF Redirect, Follow

\* What a download leaves in quarantine is the body that was received.
LEMMA LandKeeps == ASSUME IInv, NEW p \in Syncs, Land(p) PROVE IInv'
<1>1. /\ pc[p] = "land" /\ Typed /\ RequestsAreAdmitted /\ pc[p] \notin Ended
      /\ UNCHANGED <<stage, world, starts, overlapped, tainted>>
      /\ chain' = [chain EXCEPT ![p] = <<>>]
      /\ Own(p, "hop") \in Names /\ Own(p, "quarantine") \in Names
      /\ Own(p, "quarantine") \in Writable /\ Own(p, "hop") # Own(p, "quarantine")
  BY OwnNames DEF Land, IInv, Ended, Own
<1>2. /\ RequestsAreAdmitted' /\ chain' \in [Syncs -> Seq(Urls)]
      /\ \A q \in Syncs : q # p => chain'[q] = chain[q]
  BY <1>1, Dropped
<1>3. CASE Rename(Own(p, "hop"), Own(p, "quarantine")) /\ Go(p, "identify")
  <2>1. /\ file' \in [Names -> Contents] /\ open' \in [Syncs -> Writable]
        /\ file'[Own(p, "quarantine")] = file[Own(p, "hop")]
        /\ \A m \in Names : m # Own(p, "hop") /\ m # Own(p, "quarantine") => file'[m] = file[m]
        /\ \A q \in Syncs : open[q] = <<"none">> => open'[q] = <<"none">>
    BY <1>1, <1>3, Renames
  <2>2. Only(p, "hop", "quarantine")
    BY <2>1 DEF Only
  <2>3. /\ \A s \in Stages : file'[<<s, "prestaged">>] = file[<<s, "prestaged">>]
        /\ \A s \in Stages \ {stage[p]} : file'[<<s, "quarantine">>] = file[<<s, "quarantine">>]
        /\ \A n \in Published : file'[n] = file[n]
    BY <1>1, <2>2, KindsAre, Kept
  <2>4. "identify" \in Steps
    BY DEF Steps
  <2>5. Typed'
    BY <1>1, <1>2, <1>3, <2>1, <2>4 DEF Typed, Go
  <2>6. Stays(p, "identify")
    BY <1>1, <1>2, <1>3 DEF Stays, Go
  <2>7. Leaves(p, "identify")
    BY <2>3 DEF Leaves
  <2>8. ASSUME ~overlapped PROVE Places(p, "identify")
    <3>1. \A q \in Syncs : open[q] = <<"none">>
      BY <1>1, <2>8, AloneNow DEF WritesAt
    <3>2. QED
      BY <1>1, <2>1, <2>3, <2>8, <3>1, AloneNow DEF Places, Identified, WritesAt
  <2>9. ASSUME ~overlapped, tainted' = {} PROVE Cleans(p, "identify")
    <3>1. file'[<<stage[p], "quarantine">>] = "right"
      BY <1>1, <2>1, <2>9, AloneNow DEF Own
    <3>2. QED
      BY <1>1, <2>3, <2>9, <3>1, AloneNow DEF Cleans
  <2>10. QED
    BY <1>1, <2>4, <2>5, <2>6, <2>7, <2>8, <2>9, OneStep
<1>4. CASE Remove(Own(p, "hop")) /\ Go(p, "stopped")
  <2>1. "stopped" \in Steps
    BY DEF Steps
  <2>2. /\ file' \in [Names -> Contents] /\ open' \in [Syncs -> Writable]
        /\ \A m \in Names : m # Own(p, "hop") => file'[m] = file[m]
        /\ \A q \in Syncs : open[q] = <<"none">> => open'[q] = <<"none">>
    BY <1>1, <1>4, Removes
  <2>3. Only(p, "hop", "hop")
    BY <2>2 DEF Only
  <2>4. /\ \A s \in Stages : file'[<<s, "prestaged">>] = file[<<s, "prestaged">>]
        /\ \A s \in Stages : file'[<<s, "quarantine">>] = file[<<s, "quarantine">>]
        /\ \A n \in Published : file'[n] = file[n]
    BY <1>1, <2>3, KindsAre, Kept
  <2>5. Typed'
    BY <1>1, <1>2, <1>4, <2>1, <2>2 DEF Typed, Go
  <2>6. Stays(p, "stopped")
    BY <1>1, <1>2, <1>4 DEF Stays, Go
  <2>7. Leaves(p, "stopped")
    BY <2>4 DEF Leaves
  <2>8. ASSUME ~overlapped PROVE Places(p, "stopped")
    <3>1. \A q \in Syncs : open[q] = <<"none">>
      BY <1>1, <2>8, AloneNow DEF WritesAt
    <3>2. QED
      BY <1>1, <2>2, <2>4, <2>8, <3>1, AloneNow DEF Places, Identified, WritesAt
  <2>9. ASSUME ~overlapped, tainted' = {} PROVE Cleans(p, "stopped")
    BY <1>1, <2>4, <2>9, StaysClean
  <2>10. QED
    BY <1>1, <2>1, <2>5, <2>6, <2>7, <2>8, <2>9, OneStep
<1>5. QED
  BY <1>3, <1>4 DEF Land

-----------------------------------------------------------------------------
(***************************************************************************)
(* A sync starts, and dies.                                                *)
(***************************************************************************)

\* A sync that starts while no other runs finds nothing being written.
LEMMA BeginKeeps == ASSUME IInv, NEW p \in Syncs, NEW m \in Machines, Begin(p, m) PROVE IInv'
<1>1. /\ Typed /\ RequestsAreAdmitted /\ Requested /\ Alone /\ PublishedWhole /\ Prepared
      /\ Untouched /\ Clean /\ RefusalHasCause
      /\ pc[p] \in Ended /\ starts' = starts + 1
      /\ overlapped' = (overlapped \/ Running # {})
      /\ UNCHANGED <<stage, file, open, chain, world, tainted>>
  BY DEF IInv, Begin
<1>2. PICK x \in {"seek", "stopped"} : pc' = [pc EXCEPT ![p] = x]
  BY DEF Begin, Go
<1>3. /\ pc'[p] = x /\ \A q \in Syncs : q # p => pc'[q] = pc[q]
      /\ \A q, k : Own(q, k)' = Own(q, k)
  BY <1>1, <1>2 DEF Typed, Own
<1>4. Typed'
  <2>1. pc' \in [Syncs -> Steps]
    BY <1>1, <1>2 DEF Typed, Steps
  <2>2. starts' \in Nat /\ overlapped' \in BOOLEAN
    BY <1>1 DEF Typed
  <2>3. QED
    BY <1>1, <2>1, <2>2 DEF Typed
<1>5. RequestsAreAdmitted' /\ Requested'
  <2>1. Requested'
    BY <1>1, <1>3 DEF Requested
  <2>2. QED
    BY <1>1, <2>1, NothingAsked
<1>6. ASSUME ~overlapped'
      PROVE  ~overlapped /\ \A q \in Syncs : pc[q] \in Ended /\ open[q] = <<"none">>
  <2>1. ~overlapped /\ Running = {}
    BY <1>1, <1>6
  <2>2. \A q \in Syncs : pc[q] \in Ended
    BY <2>1 DEF Running
  <2>3. \A q \in Syncs : open[q] = WritesAt(q, pc[q])
    BY <1>1, <2>1 DEF Alone
  <2>4. \A q \in Syncs : open[q] = <<"none">>
    BY <2>2, <2>3 DEF WritesAt, Ended
  <2>5. QED
    BY <2>1, <2>2, <2>4
<1>7. Alone'
  <2>1. SUFFICES ASSUME ~overlapped'
                 PROVE  /\ \A q, r \in Running' : q = r
                        /\ \A q \in Syncs : open'[q] = WritesAt(q, pc[q])'
    BY DEF Alone
  <2>2. \A q \in Running' : q = p
    BY <1>3, <1>6, <2>1 DEF Running
  <2>3. ASSUME NEW q \in Syncs
        PROVE  open'[q] = WritesAt(q, pc[q])'
    <3>1. open'[q] = <<"none">>
      BY <1>1, <1>6, <2>1
    <3>2. CASE q = p
      BY <1>3, <3>1, <3>2 DEF WritesAt
    <3>3. CASE q # p
      BY <1>3, <1>6, <2>1, <3>1, <3>3 DEF WritesAt, Ended
    <3>4. QED
      BY <3>2, <3>3
  <2>4. QED
    BY <2>2, <2>3
<1>8. PublishedWhole'
  BY <1>1, <1>6 DEF PublishedWhole, Object
<1>9. Prepared'
  <2>1. SUFFICES ASSUME ~overlapped', NEW q \in Syncs
                 PROVE  pc'[q] \in {"off", "done", "stopped", "refused", "seek"}
    BY DEF Prepared, Identified
  <2>2. QED
    BY <1>3, <1>6, <2>1 DEF Ended
<1>10. Untouched'
  <2>1. \A s \in Stages : file'[<<s, "prestaged">>] # "partial"
    BY <1>1 DEF Untouched
  <2>2. ASSUME NEW q \in Syncs, pc'[q] \in {"copy", "copying"}
        PROVE  file'[Own(q, "prestaged")'] # "absent"
    BY <1>1, <1>3, <2>2 DEF Untouched
  <2>3. QED
    BY <2>1, <2>2 DEF Untouched
<1>11. Clean'
  <2>1. SUFFICES ASSUME ~overlapped', tainted = {}
                 PROVE  /\ \A s \in Stages : file[<<s, "prestaged">>] # "wrong" =>
                             file[<<s, "quarantine">>] \in {"absent", "right"}
                        /\ \A q \in Syncs : pc'[q] # "land"
    BY <1>1 DEF Clean
  <2>2. \A q \in Syncs : pc[q] # "copying" /\ pc[q] # "land"
    BY <1>6, <2>1 DEF Ended
  <2>3. QED
    BY <1>1, <1>3, <1>6, <2>1, <2>2 DEF Clean
<1>12. RefusalHasCause'
  <2>1. SUFFICES ASSUME NEW q \in Syncs, pc'[q] = "refused"
                 PROVE  overlapped' \/ tainted' # {} \/ file'[Own(q, "prestaged")'] = "wrong"
    BY DEF RefusalHasCause
  <2>2. overlapped \/ tainted # {} \/ file[Own(q, "prestaged")] = "wrong"
    BY <1>1, <1>3, <2>1 DEF RefusalHasCause
  <2>3. QED
    BY <1>1, <1>3, <2>2
<1>13. QED
  BY <1>4, <1>5, <1>7, <1>8, <1>9, <1>10, <1>11, <1>12 DEF IInv

\* What a dead sync was writing stays where it is, and is not taken for whole.
LEMMA CrashKeeps == ASSUME IInv, NEW p \in Syncs, Crash(p) PROVE IInv'
<1>1. /\ Typed /\ RequestsAreAdmitted /\ pc[p] \notin Ended /\ Go(p, "off")
      /\ open' = [open EXCEPT ![p] = <<"none">>]
      /\ tainted' = tainted \union (IF pc[p] = "copying" THEN {"cut"} ELSE {})
      /\ chain' = [chain EXCEPT ![p] = <<>>]
      /\ UNCHANGED <<file, stage, world, starts, overlapped>>
  BY DEF IInv, Crash
<1>2. /\ RequestsAreAdmitted' /\ chain' \in [Syncs -> Seq(Urls)]
      /\ \A q \in Syncs : q # p => chain'[q] = chain[q]
  BY <1>1, Dropped
<1>3. "off" \in Steps
  BY DEF Steps
<1>4. open' \in [Syncs -> Writable] /\ \A q \in Syncs : open'[q] = IF q = p THEN <<"none">> ELSE open[q]
  BY <1>1, NamesApart DEF Typed
<1>5. Typed'
  BY <1>1, <1>2, <1>3, <1>4 DEF Typed, Go
<1>6. Stays(p, "off")
  BY <1>1, <1>2 DEF Stays, Go
<1>7. Leaves(p, "off")
  BY <1>1 DEF Leaves
<1>8. ASSUME ~overlapped PROVE Places(p, "off")
  BY <1>1, <1>4, <1>8, AloneNow DEF Places, Identified, WritesAt
<1>9. ASSUME ~overlapped, tainted' = {} PROVE Cleans(p, "off")
  <2>1. tainted = {} /\ pc[p] # "copying"
    BY <1>1, <1>9
  <2>2. QED
    BY <1>1, <1>9, <2>1, StaysClean
<1>10. QED
  BY <1>1, <1>3, <1>5, <1>6, <1>7, <1>8, <1>9, OneStep

-----------------------------------------------------------------------------
(***************************************************************************)
(* The theorems.                                                           *)
(***************************************************************************)

\* Every step keeps the invariant.
LEMMA NextInvariant == IInv /\ [Next]_vars => IInv'
<1> SUFFICES ASSUME IInv, [Next]_vars PROVE IInv'
  OBVIOUS
<1>1. CASE UNCHANGED vars
  <2>1. UNCHANGED <<pc, stage, file, open, chain, world, starts, overlapped, tainted>>
    BY <1>1 DEF vars
  <2>2. Typed' /\ RequestsAreAdmitted' /\ Requested'
    BY <2>1 DEF IInv, Typed, RequestsAreAdmitted, Requested
  <2>3. Alone' /\ PublishedWhole' /\ Prepared'
    BY <2>1 DEF IInv, Alone, Running, WritesAt, Own, PublishedWhole, Prepared, Identified
  <2>4. Untouched' /\ Clean' /\ RefusalHasCause'
    BY <2>1 DEF IInv, Untouched, Clean, RefusalHasCause, Own
  <2>5. QED
    BY <2>2, <2>3, <2>4 DEF IInv
<1>2. CASE Next
  <2>1. PICK p \in Syncs :
          \/ \E m \in Machines : Begin(p, m)
          \/ Seek(p) \/ OpenCopy(p) \/ FinishCopy(p) \/ Identify(p)
          \/ Ask(p) \/ Request(p) \/ Body(p) \/ FailTransfer(p) \/ Land(p)
          \/ \E c \in {"right", "wrong"} : Deliver(p, c)
          \/ \E url \in Targets : Redirect(p, url)
          \/ Prove(p) \/ PublishLocked(p) \/ Place(p)
          \/ OpenIncoming(p) \/ Fill(p) \/ Confirm(p) \/ Commit(p)
          \/ Clear(p) \/ Unpack(p) \/ FinishUnpacking(p) \/ Settle(p)
          \/ RunExactCMake(p) \/ VerifyRequiredTreeFiles(p) \/ Prepare(p)
          \/ Crash(p)
    BY <1>2 DEF Next
  <2>2. CASE \E m \in Machines : Begin(p, m)
    BY <2>2, BeginKeeps
  <2>3. CASE Seek(p) \/ OpenCopy(p) \/ FinishCopy(p) \/ Identify(p)
    BY <2>3, SeekKeeps, OpenCopyKeeps, FinishCopyKeeps, IdentifyKeeps
  <2>4. CASE Ask(p) \/ Request(p) \/ Body(p) \/ FailTransfer(p) \/ Land(p)
    BY <2>4, AskKeeps, RequestKeeps, BodyKeeps, FailTransferKeeps, LandKeeps
  <2>5. CASE \E c \in {"right", "wrong"} : Deliver(p, c)
    BY <2>5, DeliverKeeps
  <2>6. CASE \E url \in Targets : Redirect(p, url)
    BY <2>6, RedirectKeeps
  <2>7. CASE Prove(p) \/ PublishLocked(p) \/ Place(p)
    BY <2>7, ProveKeeps, PublishLockedKeeps, PlaceThere, PlaceMissing
  <2>8. CASE OpenIncoming(p) \/ Fill(p) \/ Confirm(p) \/ Commit(p)
    BY <2>8, OpenIncomingKeeps, FillKeeps, ConfirmKeeps, CommitKeeps
  <2>9. CASE Clear(p) \/ Unpack(p) \/ FinishUnpacking(p) \/ Settle(p)
    BY <2>9, ClearKeeps, UnpackKeeps, FinishUnpackingKeeps, SettleKeeps
  <2>10. CASE RunExactCMake(p) \/ VerifyRequiredTreeFiles(p) \/ Prepare(p)
    BY <2>10, UseTreeKeeps, PrepareKeeps
  <2>11. CASE Crash(p)
    BY <2>11, CrashKeeps
  <2>12. QED
    BY <2>1, <2>2, <2>3, <2>4, <2>5, <2>6, <2>7, <2>8, <2>9, <2>10, <2>11
<1>3. QED
  BY <1>1, <1>2

\* However many syncs run, die and are started again, and whatever a transport
\* answers, the invariant holds.
THEOREM Invariant == Spec => []IInv
BY InitInvariant, NextInvariant, PTL DEF Spec

\* The object cache and the extracted trees hold nothing or the locked bytes,
\* unless two syncs were running at once (verifier.cmake:401-405, archive.cmake:
\* 74-98).
THEOREM WhatIsPublishedIsWhole == Spec => []PublishedWhole
<1>1. IInv => PublishedWhole
  BY DEF IInv
<1>2. QED
  BY Invariant, <1>1, PTL

\* A sync is refused for the identity of a file only with a cause: wrong bytes
\* from the operator or the transport, a copy in place that was cut off
\* (verifier.cmake:9), or another sync that was running.
THEOREM NoRefusalWithoutCause == Spec => []RefusalHasCause
<1>1. IInv => RefusalHasCause
  BY DEF IInv
<1>2. QED
  BY Invariant, <1>1, PTL

\* However often it is redirected, a download goes to a locked origin first and
\* then where the release host may send it, and asks at most MaxRedirects times
\* more (transport.cmake:5-41, 132-143).
THEOREM OnlyAdmittedRequests == Spec => []RequestsAreAdmitted
<1>1. IInv => RequestsAreAdmitted
  BY DEF IInv
<1>2. QED
  BY Invariant, <1>1, PTL

\* An object in the cache is there to stay: while syncs do not overlap, no step of
\* any of them removes it, moves it or writes to it (verifier.cmake:392-409).
ObjectStays == [][~overlapped' /\ file[Object] = "right" => file'[Object] = "right"]_vars

\* A step that does not write to the object keeps it, or replaces it by a file that
\* is there.
LEMMA ObjectIsLeft ==
  ASSUME IInv, [Next]_vars, ~overlapped', file[Object] # "absent"
  PROVE  file'[Object] # "absent"
<1>1. Typed /\ Object \in Names /\ Incoming # Object
  BY NamesApart DEF IInv
<1>2. \A q \in Syncs : \A k \in Kinds : Own(q, k) # Object
  BY DEF Own, Object, Kinds
<1>3. CASE UNCHANGED vars
  BY <1>3 DEF vars
<1>4. CASE Next
  <2>1. PICK p \in Syncs :
          \/ \E m \in Machines : Begin(p, m)
          \/ Seek(p) \/ OpenCopy(p) \/ FinishCopy(p) \/ Identify(p)
          \/ Ask(p) \/ Request(p) \/ Body(p) \/ FailTransfer(p) \/ Land(p)
          \/ \E c \in {"right", "wrong"} : Deliver(p, c)
          \/ \E url \in Targets : Redirect(p, url)
          \/ Prove(p) \/ PublishLocked(p) \/ Place(p)
          \/ OpenIncoming(p) \/ Fill(p) \/ Confirm(p) \/ Commit(p)
          \/ Clear(p) \/ Unpack(p) \/ FinishUnpacking(p) \/ Settle(p)
          \/ RunExactCMake(p) \/ VerifyRequiredTreeFiles(p) \/ Prepare(p)
          \/ Crash(p)
    BY <1>4 DEF Next
  <2>2. /\ Own(p, "quarantine") # Object /\ Own(p, "hop") # Object
        /\ Own(p, "unpacked") # Object /\ Own(p, "tree") # Object
    BY <1>2, KindsAre
  <2>3. CASE \/ \E m \in Machines : Begin(p, m)
             \/ Seek(p) \/ Identify(p) \/ Ask(p) \/ Prove(p) \/ PublishLocked(p) \/ Confirm(p)
             \/ RunExactCMake(p) \/ VerifyRequiredTreeFiles(p) \/ Prepare(p) \/ Crash(p)
    BY <2>3 DEF Begin, Seek, Identify, Ask, Prove, PublishLocked, Confirm, VerifyIdentity,
                RunExactCMake, VerifyRequiredTreeFiles, UseTree, Prepare, Crash, Same
  <2>4. CASE \/ Request(p) \/ FailTransfer(p) \/ \E url \in Targets : Redirect(p, url)
             \/ Place(p) \/ Clear(p)
    BY <1>1, <2>2, <2>4 DEF Typed, Request, FailTransfer, Redirect, Follow, Place, Clear, Remove,
                            Discard, VerifyIdentity, Same
  <2>5. CASE OpenCopy(p) \/ Body(p) \/ OpenIncoming(p) \/ Unpack(p)
    BY <1>1, <2>2, <2>5 DEF Typed, OpenCopy, Body, OpenIncoming, Unpack, Open
  <2>6. CASE Land(p) \/ Commit(p) \/ Settle(p)
    BY <1>1, <2>2, <2>6 DEF Typed, Land, Commit, Settle, Rename, Remove, Exists
  <2>7. CASE FinishCopy(p) \/ Fill(p) \/ FinishUnpacking(p) \/ \E c \in {"right", "wrong"} : Deliver(p, c)
    <3>1. pc[p] \in Writing /\ pc[p] \notin Ended /\ overlapped' = overlapped
      BY <2>7 DEF FinishCopy, Fill, FinishUnpacking, Deliver, Writing, Ended, Rest
    <3>2. open[p] # Object
      BY <1>1, <2>2, <3>1, AloneNow DEF WritesAt, Writing
    <3>3. PICK c : Write(p, c)
      BY <2>7 DEF FinishCopy, Fill, FinishUnpacking, Deliver
    <3>4. QED
      BY <1>1, <3>2, <3>3 DEF Typed, Write
  <2>8. QED
    BY <2>1, <2>3, <2>4, <2>5, <2>6, <2>7
<1>5. QED
  BY <1>3, <1>4

\* An object that is in the cache stays there.
THEOREM WhatIsCachedStays == Spec => ObjectStays
<1>1. IInv /\ IInv' /\ [Next]_vars
        => [~overlapped' /\ file[Object] = "right" => file'[Object] = "right"]_vars
  <2>1. SUFFICES ASSUME IInv, IInv', [Next]_vars, ~overlapped', file[Object] = "right"
                 PROVE  file'[Object] = "right"
    OBVIOUS
  <2>2. file'[Object] # "absent"
    BY <2>1, ObjectIsLeft
  <2>3. file'[Object] \in {"absent", "right"}
    BY <2>1 DEF IInv, PublishedWhole, Object
  <2>4. QED
    BY <2>2, <2>3
<1>2. QED
  BY Invariant, <1>1, PTL DEF Spec, ObjectStays

-----------------------------------------------------------------------------
(***************************************************************************)
(* The locked store.                                                       *)
(***************************************************************************)

\* A sync is at a place only over what it has published or extracted before.
Behind(p) ==
  /\ pc[p] \in {"clear", "require"} => stage[p] # "bootstrap"
  /\ pc[p] = "run" => stage[p] = "bootstrap"
  /\ \/ pc[p] \in {"clear", "require", "prepare"}
     \/ pc[p] \in {"unpack", "unpacking", "settle"} /\ stage[p] # "bootstrap"
     => file[Object] = "right"
  /\ \/ pc[p] = "prepare"
     \/ /\ pc[p] \in {"prove", "publish", "place", "fill", "filling", "confirm", "commit"}
        /\ stage[p] = "bootstrap"
     => file[Own(p, "tree")] = "right"

Earned == ~overlapped => \A p \in Syncs : Behind(p)

\* The steps that neither publish, extract nor clear.
Aside(p) ==
  \/ \E m \in Machines : Begin(p, m)
  \/ Seek(p) \/ OpenCopy(p) \/ FinishCopy(p) \/ Identify(p)
  \/ Ask(p) \/ Request(p) \/ Body(p) \/ FailTransfer(p) \/ Land(p)
  \/ \E c \in {"right", "wrong"} : Deliver(p, c)
  \/ \E url \in Targets : Redirect(p, url)
  \/ Prove(p) \/ PublishLocked(p) \/ Place(p)
  \/ OpenIncoming(p) \/ Fill(p) \/ Confirm(p)
  \/ Unpack(p) \/ FinishUnpacking(p)
  \/ RunExactCMake(p) \/ VerifyRequiredTreeFiles(p) \/ Prepare(p)
  \/ Crash(p)

LEMMA NextIs == Next => \E p \in Syncs : Aside(p) \/ Commit(p) \/ Clear(p) \/ Settle(p)
BY DEF Next, Aside

\* Every stage has its own tree.
LEMMA TreesApart ==
  \A s \in Stages :
    /\ <<s, "tree">> \in Names /\ <<s, "tree">> # Incoming /\ <<s, "tree">> # Object
    /\ \A r : /\ <<s, "tree">> = <<r, "tree">> <=> s = r
             /\ <<s, "tree">> # <<r, "quarantine">> /\ <<s, "tree">> # <<r, "hop">>
             /\ <<s, "tree">> # <<r, "unpacked">> /\ <<s, "tree">> # <<r, "prestaged">>
BY DEF Names, Incoming, Object

\* What is published lies apart from what is worked on.
LEMMA PublishedApart ==
  ASSUME Typed, NEW p \in Syncs, NEW n \in Published
  PROVE  /\ n \in Names /\ n # Incoming
         /\ n # Own(p, "quarantine") /\ n # Own(p, "hop") /\ n # Own(p, "unpacked")
         /\ n # Own(p, "prestaged")
<1>1. stage[p] \in Stages
  BY DEF Typed
<1>2. CASE n = Object
  BY <1>1, <1>2, NamesApart DEF Own
<1>3. CASE \E s \in Stages : n = <<s, "tree">>
  BY <1>1, <1>3, TreesApart DEF Own
<1>4. QED
  BY <1>2, <1>3 DEF Published

\* These steps leave what is published as it is.
LEMMA PublishedIsLeft ==
  ASSUME IInv, ~overlapped, ~overlapped', NEW p \in Syncs, Aside(p), NEW n \in Published
  PROVE  file'[n] = file[n]
<1>1. Typed
  BY DEF IInv
<1>2. /\ n \in Names /\ n # Incoming /\ n # Own(p, "quarantine") /\ n # Own(p, "hop")
      /\ n # Own(p, "unpacked") /\ n # Own(p, "prestaged")
  BY <1>1, PublishedApart
<1>3. CASE \/ \E m \in Machines : Begin(p, m)
           \/ Seek(p) \/ Identify(p) \/ Ask(p) \/ Prove(p) \/ PublishLocked(p) \/ Confirm(p)
           \/ RunExactCMake(p) \/ VerifyRequiredTreeFiles(p) \/ Prepare(p) \/ Crash(p)
  BY <1>3 DEF Begin, Seek, Identify, Ask, Prove, PublishLocked, Confirm, VerifyIdentity,
              RunExactCMake, VerifyRequiredTreeFiles, UseTree, Prepare, Crash, Same
<1>4. CASE \/ Request(p) \/ FailTransfer(p) \/ Place(p)
           \/ \E url \in Targets : Redirect(p, url)
  BY <1>1, <1>2, <1>4 DEF Typed, Request, FailTransfer, Redirect, Follow, Place, Remove,
                          Discard, VerifyIdentity, Same
<1>5. CASE OpenCopy(p) \/ Body(p) \/ OpenIncoming(p) \/ Unpack(p)
  BY <1>1, <1>2, <1>5 DEF Typed, OpenCopy, Body, OpenIncoming, Unpack, Open
<1>6. CASE Land(p)
  BY <1>1, <1>2, <1>6 DEF Typed, Land, Rename, Remove
<1>7. CASE FinishCopy(p) \/ Fill(p) \/ FinishUnpacking(p) \/ \E c \in {"right", "wrong"} : Deliver(p, c)
  <2>1. pc[p] \in Writing /\ pc[p] \notin Ended
    BY <1>7 DEF FinishCopy, Fill, FinishUnpacking, Deliver, Writing, Ended
  <2>2. open[p] # n
    BY <1>2, <2>1, AloneNow DEF WritesAt, Writing
  <2>3. PICK c : Write(p, c)
    BY <1>7 DEF FinishCopy, Fill, FinishUnpacking, Deliver
  <2>4. QED
    BY <1>1, <1>2, <2>2, <2>3 DEF Typed, Write
<1>8. QED
  BY <1>3, <1>4, <1>5, <1>6, <1>7 DEF Aside

\* A commit publishes the object, a clearing takes the tree of Stage 1 away, and a
\* settling puts one where none was.
LEMMA CommitDoes ==
  ASSUME IInv, NEW p \in Syncs, Commit(p), ~overlapped
  PROVE  /\ \A s \in Stages : file'[<<s, "tree">>] = file[<<s, "tree">>]
         /\ \/ file'[Object] = file[Object] /\ pc'[p] = "stopped"
            \/ file'[Object] = "right" /\ pc'[p] = AfterPublishing(p)
<1>1. Typed /\ file[Incoming] = "right" /\ Incoming \in Names /\ Object \in Names /\ Incoming # Object
  BY NamesApart DEF IInv, Prepared, Commit
<1>2. \A s \in Stages : <<s, "tree">> \in Names /\ <<s, "tree">> # Incoming /\ <<s, "tree">> # Object
  BY NamesApart
<1>3. CASE Rename(Incoming, Object) /\ Go(p, AfterPublishing(p))
  BY <1>1, <1>2, <1>3 DEF Typed, Rename, Go
<1>4. CASE Remove(Incoming) /\ Go(p, "stopped")
  BY <1>1, <1>2, <1>4 DEF Typed, Remove, Go
<1>5. QED
  BY <1>3, <1>4 DEF Commit

LEMMA ClearDoes ==
  ASSUME Typed, NEW p \in Syncs, Clear(p)
  PROVE  /\ file'[Object] = file[Object]
         /\ \A s \in Stages : s # stage[p] => file'[<<s, "tree">>] = file[<<s, "tree">>]
         /\ \/ file' = file /\ pc'[p] \in {"stopped", "refused"}
            \/ /\ file[Object] = "right" /\ file'[Own(p, "tree")] = "absent"
               /\ pc'[p] = "unpack"
<1>1. /\ stage[p] \in Stages /\ Own(p, "tree") = <<stage[p], "tree">> /\ Own(p, "tree") \in Names
      /\ Object \in Names /\ Own(p, "tree") # Object
  BY OwnNames, NamesApart
<1>2. \A s \in Stages : s # stage[p] => <<s, "tree">> \in Names /\ <<s, "tree">> # Own(p, "tree")
  BY <1>1, TreesApart
<1>3. CASE file[Object] = "right"
  BY <1>1, <1>2, <1>3 DEF Typed, Clear, Remove, Go
<1>4. CASE file[Object] # "right"
  BY <1>1, <1>4 DEF Typed, Clear, Go
<1>5. QED
  BY <1>3, <1>4

LEMMA SettleDoes ==
  ASSUME IInv, NEW p \in Syncs, Settle(p), ~overlapped
  PROVE  /\ file'[Object] = file[Object]
         /\ \A s \in Stages : s # stage[p] => file'[<<s, "tree">>] = file[<<s, "tree">>]
         /\ \/ /\ file'[Own(p, "tree")] = file[Own(p, "tree")] /\ pc'[p] = "stopped"
            \/ /\ file[Own(p, "tree")] = "absent" /\ file'[Own(p, "tree")] = "right"
               /\ pc'[p] = AfterUnpacking(p)
<1> DEFINE from == Own(p, "unpacked")
           to == Own(p, "tree")
<1>1. Typed /\ file[from] = "right"
  BY DEF IInv, Prepared, Settle
<1>2. /\ stage[p] \in Stages /\ to = <<stage[p], "tree">> /\ from = <<stage[p], "unpacked">>
      /\ to \in Names /\ from \in Names /\ to # from /\ to # Object /\ from # Object /\ Object \in Names
  BY <1>1, OwnNames, NamesApart
<1>3. \A s \in Stages : s # stage[p] => <<s, "tree">> \in Names /\ <<s, "tree">> # to /\ <<s, "tree">> # from
  BY <1>2, TreesApart
<1>4. CASE Remove(from) /\ Go(p, "stopped")
  BY <1>1, <1>2, <1>3, <1>4 DEF Typed, Remove, Go
<1>5. CASE ~Exists(to) /\ Rename(from, to) /\ Go(p, AfterUnpacking(p))
  BY <1>1, <1>2, <1>3, <1>5 DEF Typed, Rename, Go, Exists
<1>6. QED
  BY <1>4, <1>5 DEF Settle

\* A sync that goes aside takes along what is behind it.
LEMMA AsideBehind ==
  ASSUME IInv, ~overlapped, ~overlapped', NEW p \in Syncs, Behind(p), Aside(p)
  PROVE  Behind(p)'
<1>1. Typed /\ Own(p, "tree") \in Published /\ Object \in Published
  BY DEF IInv, Typed, Own, Published
<1>2. file'[Object] = file[Object] /\ file'[Own(p, "tree")] = file[Own(p, "tree")]
  BY <1>1, PublishedIsLeft
<1>3. stage' = stage /\ Own(p, "tree")' = Own(p, "tree") /\ Object' = Object
  BY DEF Aside, Begin, Seek, OpenCopy, FinishCopy, Identify, Ask, Request, Body, FailTransfer, Land,
         Deliver, Redirect, Follow, Prove, PublishLocked, Place, OpenIncoming, Fill, Confirm, Unpack,
         FinishUnpacking, RunExactCMake, VerifyRequiredTreeFiles, UseTree, Prepare, Crash,
         VerifyIdentity, Same, Rest, Own, Object
<1>4. file[Own(p, "tree")] \in {"absent", "right"}
  BY <1>1 DEF IInv, PublishedWhole, Published
<1>5. pc \in [Syncs -> Steps]
  BY <1>1 DEF Typed
<1> DEFINE x == pc'[p]
<1>6. CASE \/ \E m \in Machines : Begin(p, m)
           \/ Seek(p) \/ OpenCopy(p) \/ FinishCopy(p) \/ Ask(p) \/ Request(p) \/ Body(p)
           \/ FailTransfer(p) \/ Land(p) \/ Prepare(p) \/ Crash(p)
           \/ \E c \in {"right", "wrong"} : Deliver(p, c)
           \/ \E url \in Targets : Redirect(p, url)
  <2>1. x \in {"seek", "identify", "copy", "ask", "copying", "request", "waiting", "receiving",
               "land", "stopped", "done", "off"}
    BY <1>5, <1>6 DEF Begin, Seek, OpenCopy, FinishCopy, Ask, Request, Body, FailTransfer, Land,
                      Prepare, Crash, Deliver, Redirect, Follow, Go
  <2>2. QED
    BY <2>1 DEF Behind
<1>7. CASE Identify(p)
  <2>1. \/ x \in {"refused", "stopped"}
        \/ x = "unpack" /\ stage[p] = "bootstrap"
        \/ x = "prove" /\ stage[p] # "bootstrap"
    BY <1>5, <1>7 DEF Identify, VerifyIdentity, Go
  <2>2. QED
    BY <1>3, <2>1 DEF Behind
<1>8. CASE Prove(p) \/ PublishLocked(p) \/ OpenIncoming(p) \/ Fill(p) \/ Confirm(p)
  <2>1. /\ pc[p] \in {"prove", "publish", "fill", "filling", "confirm"}
        /\ x \in {"publish", "place", "filling", "confirm", "commit", "stopped", "refused"}
    BY <1>5, <1>8 DEF Prove, PublishLocked, OpenIncoming, Fill, Confirm, VerifyIdentity, Go
  <2>2. QED
    BY <1>2, <1>3, <2>1 DEF Behind
<1>9. CASE Place(p)
  <2>1. /\ pc[p] = "place"
        /\ \/ x \in {"fill", "stopped", "refused"}
           \/ x = AfterPublishing(p) /\ file[Object] = "right"
    BY <1>5, <1>9 DEF Place, VerifyIdentity, Go
  <2>2. QED
    BY <1>2, <1>3, <2>1 DEF Behind, AfterPublishing
<1>10. CASE Unpack(p) \/ FinishUnpacking(p)
  <2>1. /\ pc[p] \in {"unpack", "unpacking"}
        /\ \/ x \in {"unpacking", "settle", "stopped"}
           \/ x = "run" /\ stage[p] = "bootstrap"
    BY <1>5, <1>10 DEF Unpack, FinishUnpacking, Go
  <2>2. QED
    BY <1>2, <1>3, <2>1 DEF Behind
<1>11. CASE RunExactCMake(p) \/ VerifyRequiredTreeFiles(p)
  <2>1. \/ x = "stopped"
        \/ /\ file[Own(p, "tree")] = "right"
           /\ <<pc[p], x>> \in {<<"run", "prove">>, <<"require", "prepare">>}
    BY <1>4, <1>5, <1>11 DEF RunExactCMake, VerifyRequiredTreeFiles, UseTree, Exists, Go
  <2>2. QED
    BY <1>2, <1>3, <2>1 DEF Behind
<1>12. QED
  BY <1>6, <1>7, <1>8, <1>9, <1>10, <1>11 DEF Aside

\* So does one that publishes, clears or extracts.
LEMMA CommitBehind ==
  ASSUME IInv, ~overlapped, NEW p \in Syncs, Behind(p), Commit(p)
  PROVE  Behind(p)'
<1>1. stage' = stage /\ pc[p] = "commit" /\ stage[p] \in Stages
  BY DEF Commit, Rest, IInv, Typed
<1>2. Own(p, "tree") = <<stage[p], "tree">> /\ Own(p, "tree")' = Own(p, "tree") /\ Object' = Object
  BY <1>1 DEF Own, Object
<1>3. file'[Own(p, "tree")] = file[Own(p, "tree")]
  BY <1>1, <1>2, CommitDoes
<1>4. \/ pc'[p] = "stopped"
      \/ file'[Object] = "right" /\ pc'[p] = AfterPublishing(p)
  BY CommitDoes
<1>5. QED
  BY <1>1, <1>2, <1>3, <1>4 DEF Behind, AfterPublishing

LEMMA ClearBehind ==
  ASSUME IInv, NEW p \in Syncs, Behind(p), Clear(p)
  PROVE  Behind(p)'
<1>1. stage' = stage /\ pc[p] = "clear" /\ stage[p] # "bootstrap" /\ Object' = Object
  BY DEF Clear, Rest, Behind, Object
<1>2. \/ pc'[p] \in {"stopped", "refused"}
      \/ file'[Object] = "right" /\ pc'[p] = "unpack"
  BY ClearDoes DEF IInv
<1>3. QED
  BY <1>1, <1>2 DEF Behind

LEMMA SettleBehind ==
  ASSUME IInv, ~overlapped, NEW p \in Syncs, Behind(p), Settle(p)
  PROVE  Behind(p)'
<1>1. stage' = stage /\ pc[p] = "settle" /\ Object' = Object
  BY DEF Settle, Rest, Object
<1>2. /\ file'[Object] = file[Object]
      /\ pc'[p] \in {"stopped", AfterUnpacking(p)}
  BY SettleDoes
<1>3. QED
  BY <1>1, <1>2 DEF Behind, AfterUnpacking

\* Whoever does not take the step is at the end of a run.
LEMMA OthersEnded ==
  ASSUME IInv, ~overlapped', NEW p \in Syncs, Aside(p) \/ Commit(p) \/ Clear(p) \/ Settle(p)
  PROVE  ~overlapped /\ \A q \in Syncs : q # p => pc'[q] \in Ended
<1>1. Typed /\ Alone
  BY DEF IInv
<1>2. CASE \E m \in Machines : Begin(p, m)
  BY <1>1, <1>2 DEF Typed, Begin, Running, Go
<1>3. CASE ~ \E m \in Machines : Begin(p, m)
  <2>1. pc[p] \notin Ended
    BY <1>3 DEF Aside, Seek, OpenCopy, FinishCopy, Identify, Ask, Request, Body, FailTransfer, Land,
                Deliver, Redirect, Follow, Prove, PublishLocked, Place, OpenIncoming, Fill, Confirm,
                Unpack, FinishUnpacking, RunExactCMake, VerifyRequiredTreeFiles, Prepare, Crash,
                Commit, Clear, Settle, Ended
  <2>2. overlapped' = overlapped
    BY <1>3 DEF Aside, Seek, OpenCopy, FinishCopy, Identify, Ask, Request, Body, FailTransfer, Land,
                Deliver, Redirect, Follow, Prove, PublishLocked, Place, OpenIncoming, Fill, Confirm,
                Unpack, FinishUnpacking, RunExactCMake, VerifyRequiredTreeFiles, UseTree, Prepare, Crash,
                Commit, Clear, Settle, VerifyIdentity, Same, Rest
  <2>3. \E x : pc' = [pc EXCEPT ![p] = x]
    BY <1>3 DEF Aside, Seek, OpenCopy, FinishCopy, Identify, Ask, Request, Body, FailTransfer, Land,
                Deliver, Redirect, Follow, Prove, PublishLocked, Place, OpenIncoming, Fill, Confirm,
                Unpack, FinishUnpacking, RunExactCMake, VerifyRequiredTreeFiles, UseTree, Prepare, Crash,
                Commit, Clear, Settle, VerifyIdentity, Go
  <2>4. QED
    BY <1>1, <2>1, <2>2, <2>3, NobodyElse DEF Typed
<1>4. QED
  BY <1>2, <1>3

LEMMA EarnedStep == ASSUME IInv, Earned, [Next]_vars PROVE Earned'
<1>1. CASE UNCHANGED vars
  BY <1>1 DEF vars, Earned, Behind, Own, Object
<1>2. CASE Next
  <2>1. SUFFICES ASSUME ~overlapped'
                 PROVE  \A q \in Syncs : Behind(q)'
    BY DEF Earned
  <2>2. PICK p \in Syncs : Aside(p) \/ Commit(p) \/ Clear(p) \/ Settle(p)
    BY <1>2, NextIs
  <2>3. ~overlapped /\ \A q \in Syncs : q # p => pc'[q] \in Ended
    BY <2>1, <2>2, OthersEnded
  <2>4. Behind(p)
    BY <2>3 DEF Earned
  <2>5. Behind(p)'
    BY <2>1, <2>2, <2>3, <2>4, AsideBehind, CommitBehind, ClearBehind, SettleBehind
  <2>6. \A q \in Syncs : q # p => Behind(q)'
    BY <2>3 DEF Behind, Ended
  <2>7. QED
    BY <2>5, <2>6
<1>3. QED
  BY <1>1, <1>2

LEMMA EarnedAtFirst == Init => Earned
BY DEF Init, Earned, Behind

-----------------------------------------------------------------------------
(***************************************************************************)
(* The refinement.                                                         *)
(***************************************************************************)

Trees == [s \in Stages |-> file[<<s, "tree">>]]
Finished == {p \in Syncs : pc[p] = "done"}
Promised == <<file[Object], Trees, stage, Finished, overlapped>>

\* The first state of a checkout is an empty store.
LEMMA StoreIsEmpty == Init => Store!Init
<1> SUFFICES ASSUME Init PROVE Store!Init
  OBVIOUS
<1>1. PICK kept \in Prestaged :
        file = [n \in Names |-> IF n[2] = "prestaged" THEN kept ELSE "absent"]
  BY DEF Init
<1>2. file[Object] = "absent"
  BY <1>1, NamesApart DEF Object
<1>3. [s \in Stages |-> file[<<s, "tree">>]] = [s \in Stages |-> "absent"]
  BY <1>1, TreesApart
<1>4. {p \in Syncs : pc[p] = "done"} = {} /\ overlapped = FALSE /\ stage \in [Syncs -> Stages]
  BY DEF Init
<1>5. QED
  BY <1>2, <1>3, <1>4 DEF Store!Init

\* Every step but the first and the last of a run leaves alone who has finished.
LEMMA FinishedIsLeft ==
  ASSUME Typed, NEW p \in Syncs, pc[p] # "done", NEW x, x # "done", pc' = [pc EXCEPT ![p] = x]
  PROVE  Finished' = Finished
BY DEF Typed, Finished

\* A step aside is a stutter of the store, or the beginning or the end of a run.
LEMMA AsideStep ==
  ASSUME IInv, Earned, ~overlapped, ~overlapped', NEW p \in Syncs, Aside(p)
  PROVE  [Store!Next]_Promised
<1>1. /\ Typed /\ stage[p] \in Stages /\ Object \in Published
      /\ \A s \in Stages : <<s, "tree">> \in Published
  BY DEF IInv, Typed, Published
<1>2. /\ file'[Object] = file[Object]
      /\ \A s \in Stages : file'[<<s, "tree">>] = file[<<s, "tree">>]
  BY <1>1, PublishedIsLeft
<1>3. /\ (file[Object])' = file[Object] /\ Trees' = Trees
  BY <1>2 DEF Trees, Object
<1>4. stage' = stage /\ overlapped' = overlapped
  <2>1. stage' = stage
    BY DEF Aside, Begin, Seek, OpenCopy, FinishCopy, Identify, Ask, Request, Body, FailTransfer, Land,
           Deliver, Redirect, Follow, Prove, PublishLocked, Place, OpenIncoming, Fill, Confirm, Unpack,
           FinishUnpacking, RunExactCMake, VerifyRequiredTreeFiles, UseTree, Prepare, Crash,
           VerifyIdentity, Same, Rest
  <2>2. overlapped \in BOOLEAN /\ overlapped' \in BOOLEAN
    BY <1>1 DEF Typed, Aside, Begin, Seek, OpenCopy, FinishCopy, Identify, Ask, Request, Body,
           FailTransfer, Land,
           Deliver, Redirect, Follow, Prove, PublishLocked, Place, OpenIncoming, Fill, Confirm, Unpack,
           FinishUnpacking, RunExactCMake, VerifyRequiredTreeFiles, UseTree, Prepare, Crash,
           VerifyIdentity, Same, Rest
  <2>3. QED
    BY <2>1, <2>2
<1>5. CASE \E m \in Machines : Begin(p, m)
  <2>1. \E x : x # "done" /\ pc' = [pc EXCEPT ![p] = x]
    BY <1>5 DEF Begin, Go
  <2>2. Finished' = Finished \ {p}
    BY <1>1, <2>1 DEF Typed, Finished
  <2>3. Store!Begin(p)
    BY <1>3, <2>2 DEF Store!Begin, Trees, Finished
  <2>4. QED
    BY <1>4, <2>3 DEF Store!Next
<1>6. CASE Prepare(p)
  <2>1. pc[p] = "prepare" /\ pc' = [pc EXCEPT ![p] = "done"]
    BY <1>6 DEF Prepare, Go
  <2>2. file[Object] = "right" /\ file[Own(p, "tree")] = "right"
    BY <2>1 DEF Earned, Behind
  <2>3. Finished' = Finished \union {p}
    BY <1>1, <2>1 DEF Typed, Finished
  <2>4. Trees[stage[p]] = "right"
    BY <1>1, <2>2 DEF Trees, Own
  <2>5. Store!Finish(p)
    BY <1>3, <2>2, <2>3, <2>4 DEF Store!Finish, Trees, Finished
  <2>6. QED
    BY <1>4, <2>5 DEF Store!Next
<1>7. CASE ~(\E m \in Machines : Begin(p, m)) /\ ~Prepare(p)
  <2>1. pc[p] # "done"
    BY <1>7 DEF Aside, Seek, OpenCopy, FinishCopy, Identify, Ask, Request, Body, FailTransfer, Land,
                Deliver, Redirect, Follow, Prove, PublishLocked, Place, OpenIncoming, Fill, Confirm,
                Unpack, FinishUnpacking, RunExactCMake, VerifyRequiredTreeFiles, Crash, Ended
  <2>2. PICK x : x # "done" /\ pc' = [pc EXCEPT ![p] = x]
    BY <1>7 DEF Aside, Seek, OpenCopy, FinishCopy, Identify, Ask, Request, Body, FailTransfer, Land,
                Deliver, Redirect, Follow, Prove, PublishLocked, Place, OpenIncoming, Fill, Confirm,
                Unpack, FinishUnpacking, RunExactCMake, VerifyRequiredTreeFiles, UseTree, Crash,
                VerifyIdentity, AfterPublishing, Go
  <2>3. Finished' = Finished
    BY <1>1, <2>1, <2>2, FinishedIsLeft
  <2>4. Promised' = Promised
    BY <1>3, <1>4, <2>3 DEF Promised
  <2>5. QED
    BY <2>4
<1>8. QED
  BY <1>5, <1>6, <1>7

\* A commit publishes, or changes nothing that is promised.
LEMMA CommitStep ==
  ASSUME IInv, ~overlapped, NEW p \in Syncs, Commit(p)
  PROVE  [Store!Next]_Promised
<1>1. Typed /\ pc[p] = "commit" /\ stage' = stage /\ overlapped' = overlapped
  BY DEF IInv, Commit, Rest
<1>2. PICK x : x # "done" /\ pc' = [pc EXCEPT ![p] = x]
  BY DEF Commit, AfterPublishing, Go
<1>3. Finished' = Finished
  BY <1>1, <1>2, FinishedIsLeft
<1>4. Trees' = Trees
  BY CommitDoes DEF Trees
<1>5. (file[Object])' = file[Object] \/ (file[Object])' = "right"
  BY CommitDoes DEF Object
<1>6. file[Object] \in {"absent", "right"}
  BY DEF IInv, PublishedWhole
<1>7. CASE (file[Object])' = file[Object]
  BY <1>1, <1>3, <1>4, <1>7 DEF Promised
<1>8. CASE (file[Object])' # file[Object]
  <2>1. Store!Publish
    BY <1>3, <1>4, <1>5, <1>6, <1>8 DEF Store!Publish, Trees, Finished
  <2>2. QED
    BY <1>1, <2>1 DEF Store!Next
<1>9. QED
  BY <1>7, <1>8

\* A clearing takes away the tree of a stage that can extract it anew.
LEMMA ClearStep ==
  ASSUME IInv, Earned, ~overlapped, NEW p \in Syncs, Clear(p)
  PROVE  [Store!Next]_Promised
<1>1. /\ Typed /\ pc[p] = "clear" /\ stage' = stage /\ overlapped' = overlapped
      /\ stage[p] \in Stages /\ Own(p, "tree") = <<stage[p], "tree">>
  BY DEF IInv, Typed, Clear, Rest, Own
<1>2. stage[p] # "bootstrap" /\ file[Object] = "right"
  BY <1>1 DEF Earned, Behind
<1>3. PICK x : x # "done" /\ pc' = [pc EXCEPT ![p] = x]
  BY DEF Clear, Go
<1>4. Finished' = Finished
  BY <1>1, <1>3, FinishedIsLeft
<1>5. (file[Object])' = file[Object]
  BY <1>1, ClearDoes DEF Object
<1>6. CASE file' = file
  <2>1. Trees' = Trees
    BY <1>6 DEF Trees
  <2>2. QED
    BY <1>1, <1>4, <1>5, <2>1 DEF Promised
<1>7. CASE file' # file
  <2>1. /\ file'[<<stage[p], "tree">>] = "absent"
        /\ \A s \in Stages : s # stage[p] => file'[<<s, "tree">>] = file[<<s, "tree">>]
    BY <1>1, <1>7, ClearDoes
  <2>2. Trees' = [Trees EXCEPT ![stage[p]] = "absent"]
    BY <2>1 DEF Trees
  <2>3. PICK s \in Stages : s = stage[p]
    BY <1>1
  <2>4. Store!Clear(s)
    BY <1>2, <1>4, <1>5, <2>2, <2>3 DEF Store!Clear, Trees, Finished
  <2>5. \E r \in Stages : Store!Extract(r) \/ Store!Clear(r)
    BY <2>3, <2>4
  <2>6. QED
    BY <1>1, <2>5 DEF Store!Next
<1>8. QED
  BY <1>6, <1>7

\* A settling extracts, or changes nothing that is promised.
LEMMA SettleStep ==
  ASSUME IInv, Earned, ~overlapped, NEW p \in Syncs, Settle(p)
  PROVE  [Store!Next]_Promised
<1>1. /\ Typed /\ pc[p] = "settle" /\ stage' = stage /\ overlapped' = overlapped
      /\ stage[p] \in Stages /\ Own(p, "tree") = <<stage[p], "tree">>
  BY DEF IInv, Typed, Settle, Rest, Own
<1>2. stage[p] # "bootstrap" => file[Object] = "right"
  BY <1>1 DEF Earned, Behind
<1>3. PICK x : x # "done" /\ pc' = [pc EXCEPT ![p] = x]
  BY DEF Settle, AfterUnpacking, Go
<1>4. Finished' = Finished
  BY <1>1, <1>3, FinishedIsLeft
<1>5. (file[Object])' = file[Object]
  BY SettleDoes DEF Object
<1>6. \A s \in Stages : s # stage[p] => file'[<<s, "tree">>] = file[<<s, "tree">>]
  BY SettleDoes
<1>7. CASE file'[<<stage[p], "tree">>] = file[<<stage[p], "tree">>]
  <2>1. Trees' = Trees
    BY <1>6, <1>7 DEF Trees
  <2>2. QED
    BY <1>1, <1>4, <1>5, <2>1 DEF Promised
<1>8. CASE file'[<<stage[p], "tree">>] # file[<<stage[p], "tree">>]
  <2>1. file[<<stage[p], "tree">>] = "absent" /\ file'[<<stage[p], "tree">>] = "right"
    BY <1>1, <1>8, SettleDoes
  <2>2. Trees' = [Trees EXCEPT ![stage[p]] = "right"] /\ Trees[stage[p]] = "absent"
    BY <1>1, <1>6, <2>1 DEF Trees
  <2>3. PICK s \in Stages : s = stage[p]
    BY <1>1
  <2>4. Store!Extract(s)
    BY <1>2, <1>4, <1>5, <2>2, <2>3 DEF Store!Extract, Trees, Finished
  <2>5. \E r \in Stages : Store!Extract(r) \/ Store!Clear(r)
    BY <2>3, <2>4
  <2>6. QED
    BY <1>1, <2>5 DEF Store!Next
<1>9. QED
  BY <1>7, <1>8

\* Every step of a checkout is one of the store.
LEMMA StoreStep ==
  ASSUME IInv, Earned, [Next]_vars
  PROVE  [Store!Next]_Promised
<1>1. CASE UNCHANGED vars
  BY <1>1 DEF vars, Promised, Trees, Finished, Object
<1>2. CASE overlapped'
  BY <1>2 DEF Store!Next, Store!Disturb
<1>3. CASE Next /\ ~overlapped'
  <2>1. PICK p \in Syncs : Aside(p) \/ Commit(p) \/ Clear(p) \/ Settle(p)
    BY <1>3, NextIs
  <2>2. ~overlapped
    BY <1>3, <2>1, OthersEnded
  <2>3. QED
    BY <1>3, <2>1, <2>2, AsideStep, CommitStep, ClearStep, SettleStep
<1>4. QED
  BY <1>1, <1>2, <1>3

\* A sync is past a place only over what it published or extracted, while none
\* overlap: one that ends well leaves object and tree.
THEOREM WhatIsDoneIsThere == Spec => []Earned
BY EarnedAtFirst, EarnedStep, Invariant, PTL DEF Spec

\* A checkout implements the locked store: an object appears once and stays, trees
\* appear whole, and runs that end well have published and extracted, however often
\* syncs die, as long as they do not overlap (verifier.cmake:392-409,
\* archive.cmake:74-98).
THEOREM StoreIsImplemented == Spec => ImplementsStore
<1>1. IInv /\ Earned /\ [Next]_vars
        => [Store!Next]_<<file[Object], [s \in Stages |-> file[<<s, "tree">>]], stage,
                          {p \in Syncs : pc[p] = "done"}, overlapped>>
  BY StoreStep DEF Promised, Trees, Finished
<1>2. QED
  BY StoreIsEmpty, <1>1, Invariant, WhatIsDoneIsThere, PTL DEF Spec, ImplementsStore, Store!Spec
====
