------------------------- MODULE ReplicationProofs -------------------------
(***************************************************************************)
(* What holds of Replication for any number of states of the ledger,       *)
(* heartbeats, failed calls, crashes, restores and lost manifests.         *)
(***************************************************************************)
EXTENDS Replication, TLAPS

Drafting == {"build", "upload", "floor", "latest", "prune"}

\* The types, and what a process in the middle of a tick or a pass holds.
Typed ==
    /\ TypeOK
    /\ pc # "idle" => dv # 0
    /\ pc \in Drafting => draft # NoManifest
    /\ spc # "idle" => m # NoManifest

\* The manifest that is or was in the bucket, and what the publisher knows of it.
Remembered ==
    /\ latest \in {NoManifest, top}
    /\ last # NoManifest => top # NoManifest
    /\ last # NoManifest /\ ~reseed /\ pc # "prune" => top = last
    /\ pc = "prune" => top = draft

\* The floor bounds every number there has been in the bucket, the draft is above it.
Numbers ==
    /\ top # NoManifest => top.seq <= floor
    /\ mine \in {0, floor}
    /\ pc \in {"build", "upload", "floor", "latest"} /\ top # NoManifest => top.seq < draft.seq
    /\ pc = "latest" => draft.seq <= floor

\* The objects that a manifest refers to, or is about to.
Objects ==
    /\ ManifestIsReadable
    /\ last # NoManifest => Object(last) \in snaps
    /\ pc \in {"floor", "latest", "prune"} => Object(draft) \in snaps

\* The contents, in the order they travel: the copy, the manifest of a pass, the
\* bucket, the draft of the publisher, the ledger.
Contents ==
    /\ ledger <= newest
    /\ IF top = NoManifest THEN copy = 0 ELSE copy <= top.body /\ top.body <= ledger
    /\ last # NoManifest => publishedDv <= last.body /\ last.body <= top.body
    /\ pc \notin {"idle", "prune"} => /\ dv <= ledger
                                      /\ top # NoManifest => top.body <= dv
    /\ pc \in {"upload", "floor", "latest", "prune"} => dv <= draft.body /\ draft.body <= ledger
    /\ spc # "idle" => top # NoManifest /\ copy <= m.body /\ m.body <= top.body
    /\ spc = "state" => copy = m.body
    /\ ShownIsServed

IInv == Typed /\ Remembered /\ Numbers /\ Objects /\ Contents

-----------------------------------------------------------------------------

LEMMA ManifestFields ==
  ASSUME NEW x \in Manifests
  PROVE  /\ x.seq \in Nat \ {0} /\ x.body \in Nat \ {0} /\ x.key \in Nat \ {0}
         /\ x # NoManifest
  BY NoManifestType DEF Manifests

LEMMA ManifestIs ==
  ASSUME NEW s \in Nat \ {0}, NEW b \in Nat \ {0}, NEW k \in Nat \ {0}
  PROVE  /\ [seq |-> s, body |-> b, key |-> k] \in Manifests
         /\ [seq |-> s, body |-> b, key |-> k].seq = s
         /\ [seq |-> s, body |-> b, key |-> k].body = b
         /\ [seq |-> s, body |-> b, key |-> k].key = k
  BY DEF Manifests

LEMMA Renumbered ==
  ASSUME NEW x \in Manifests, NEW s \in Nat \ {0}
  PROVE  /\ [x EXCEPT !.seq = s] \in Manifests
         /\ [x EXCEPT !.seq = s].seq = s
         /\ [x EXCEPT !.seq = s].body = x.body
         /\ [x EXCEPT !.seq = s].key = x.key
  BY DEF Manifests

LEMMA Refilled ==
  ASSUME NEW x \in Manifests, NEW b \in Nat \ {0}
  PROVE  /\ [x EXCEPT !.body = b] \in Manifests
         /\ [x EXCEPT !.body = b].seq = x.seq
         /\ [x EXCEPT !.body = b].body = b
         /\ [x EXCEPT !.body = b].key = x.key
  BY DEF Manifests

\* A number the publisher may choose is above every one there has been in the bucket.
LEMMA SeqsAreNew ==
  ASSUME IInv, pc = "seq", NEW s \in Seqs
  PROVE  s \in Nat \ {0} /\ (top # NoManifest => top.seq < s)
<1>. USE ManifestFields DEF IInv, Typed, TypeOK, Remembered, Numbers
<1>1. CASE last # NoManifest /\ ~reseed
  BY <1>1 DEF Seqs
<1>2. CASE ~(last # NoManifest /\ ~reseed)
  <2>1. PICK best \in Known : s = best + 1 /\ \A j \in Known : j <= best
    BY <1>2 DEF Seqs, NextSeq
  <2>2. Known \subseteq Nat
    BY DEF Known
  <2>3. top # NoManifest => \E j \in Known : top.seq <= j
    BY DEF Known
  <2>4. top # NoManifest => top.seq \in Nat
    OBVIOUS
  <2>. QED
    BY <2>1, <2>2, <2>3, <2>4
<1>. QED
  BY <1>1, <1>2

-----------------------------------------------------------------------------
(* The publisher *)

LEMMA TickKeeps == IInv /\ Tick => IInv'
<1>. SUFFICES ASSUME IInv, Tick PROVE IInv'
  OBVIOUS
<1>. USE ManifestFields, NumbersType
     DEF IInv, Typed, TypeOK, Remembered, Tick, Go, Changed, Drafting,
         bucket, memory, subscriber
<1>1. Typed'
  OBVIOUS
<1>2. Remembered' /\ Numbers'
  BY DEF Numbers
<1>3. Objects'
  BY DEF Objects, ManifestIsReadable, Object
<1>4. Contents'
  BY DEF Contents, ShownIsServed
<1>. QED
  BY <1>1, <1>2, <1>3, <1>4

LEMMA ChooseSeqKeeps == IInv /\ ChooseSeq => IInv'
<1>. SUFFICES ASSUME IInv, ChooseSeq PROVE IInv'
  OBVIOUS
<1>1. PICK s \in Seqs : draft' = Numbered(s)
  BY DEF ChooseSeq
<1>2. s \in Nat \ {0} /\ (top # NoManifest => top.seq < s)
  BY SeqsAreNew DEF ChooseSeq
<1>3. /\ draft' \in Manifests /\ draft'.seq = s
      /\ Reuse => draft'.body = last.body /\ draft'.key = last.key
  <2>1. CASE Reuse
    BY <1>1, <1>2, <2>1, Renumbered DEF Numbered, Reuse, IInv, Typed, TypeOK
  <2>2. CASE ~Reuse
    BY <1>1, <1>2, <2>2, ManifestIs DEF Numbered, ChooseSeq, IInv, Typed, TypeOK
  <2>. QED
    BY <2>1, <2>2
<1>4. pc' = IF Reuse THEN "floor" ELSE "build"
  BY DEF ChooseSeq, Go
<1>. USE ManifestFields
     DEF IInv, Typed, TypeOK, Remembered, ChooseSeq, Go, Drafting, bucket, memory, subscriber
<1>5. Typed'
  BY <1>3, <1>4
<1>6. Remembered' /\ Numbers'
  BY <1>2, <1>3, <1>4 DEF Numbers
<1>7. Objects'
  BY <1>3, <1>4 DEF Objects, ManifestIsReadable, Object, Reuse
<1>8. Contents'
  BY <1>3, <1>4 DEF Contents, ShownIsServed, Reuse
<1>. QED
  BY <1>5, <1>6, <1>7, <1>8

LEMMA BuildKeeps == IInv /\ Build => IInv'
<1>. SUFFICES ASSUME IInv, Build PROVE IInv'
  OBVIOUS
<1>1. /\ draft' \in Manifests /\ draft'.seq = draft.seq /\ draft'.body = ledger
      /\ \/ pc' = "upload"
         \/ pc' = "floor" /\ last # NoManifest /\ Object(draft') = Object(last)
  <2>1. draft \in Manifests /\ draft.seq \in Nat \ {0} /\ ledger \in Nat \ {0}
    BY ManifestFields DEF Build, IInv, Typed, TypeOK, Drafting
  <2>2. CASE last # NoManifest /\ last.body = ledger
    <3>1. last \in Manifests
      BY <2>2 DEF IInv, Typed, TypeOK
    <3>2. draft' = [last EXCEPT !.seq = draft.seq] /\ pc' = "floor"
      BY <2>2 DEF Build, Go
    <3>. QED
      BY <2>1, <2>2, <3>1, <3>2, Renumbered DEF Object
  <2>3. CASE ~(last # NoManifest /\ last.body = ledger)
    <3>1. draft' = [draft EXCEPT !.body = ledger] /\ pc' = "upload"
      BY <2>3 DEF Build, Go
    <3>. QED
      BY <2>1, <3>1, Refilled
  <2>. QED
    BY <2>2, <2>3
<1>2. UNCHANGED <<ledger, newest, bucket, dv, memory, subscriber, reseed, mine, bounds>>
  BY DEF Build, Go, bounds
<1>3. pc = "build"
  BY DEF Build
<1>. USE ManifestFields, <1>1, <1>2, <1>3
     DEF IInv, Typed, TypeOK, Remembered, Drafting, bucket, memory, subscriber, bounds
<1>4. Typed'
  OBVIOUS
<1>5. Remembered' /\ Numbers'
  BY DEF Numbers
<1>6. Objects'
  BY DEF Objects, ManifestIsReadable, Object
<1>7. Contents'
  BY DEF Contents, ShownIsServed
<1>. QED
  BY <1>4, <1>5, <1>6, <1>7

\* A call that raises, whatever it did to the bucket, leaves a publisher that knows
\* less than before and is not in the middle of anything.
LEMMA FailedIs ==
  ASSUME IInv, Failed
  PROVE  /\ pc' = "idle" /\ dv' = 0 /\ draft' = NoManifest /\ mine' = 0
         /\ reseed' /\ reseed' \in BOOLEAN /\ faults' \in 0 .. MaxFaults
<1>1. faults' \in 0 .. MaxFaults
  BY NumbersType DEF IInv, Typed, TypeOK, Failed
<1>. QED
  BY <1>1 DEF Failed, Over

LEMMA UploadKeeps == IInv /\ Upload => IInv'
<1>. SUFFICES ASSUME IInv, Upload PROVE IInv'
  OBVIOUS
<1>. USE ManifestFields, NumbersType
     DEF IInv, Typed, TypeOK, Remembered, Drafting, memory, subscriber, bounds
<1>. snaps' \subseteq Nat \X Nat
  BY DEF Upload, Object
<1>1. CASE Proceed("floor")
  <2>. USE <1>1 DEF Upload, Proceed, Go
  <2>1. Typed'
    OBVIOUS
  <2>2. Remembered' /\ Numbers'
    BY DEF Numbers
  <2>3. Objects'
    BY DEF Objects, ManifestIsReadable, Object
  <2>4. Contents'
    BY DEF Contents, ShownIsServed
  <2>. QED
    BY <2>1, <2>2, <2>3, <2>4
<1>2. CASE Failed
  <2>. USE <1>2, FailedIs DEF Upload
  <2>1. Typed'
    OBVIOUS
  <2>2. Remembered' /\ Numbers'
    BY DEF Numbers
  <2>3. Objects'
    BY DEF Objects, ManifestIsReadable, Object
  <2>4. Contents'
    BY DEF Contents, ShownIsServed
  <2>. QED
    BY <2>1, <2>2, <2>3, <2>4
<1>. QED
  BY <1>1, <1>2 DEF Upload

LEMMA WriteManifestKeeps == IInv /\ WriteManifest => IInv'
<1>. SUFFICES ASSUME IInv, WriteManifest PROVE IInv'
  OBVIOUS
<1>. USE ManifestFields, NumbersType
     DEF IInv, Typed, TypeOK, Remembered, Drafting, memory, subscriber, bounds
<1>1. CASE Proceed("prune")
  <2>. USE <1>1 DEF WriteManifest, Proceed, Go
  <2>1. Typed'
    OBVIOUS
  <2>2. Remembered' /\ Numbers'
    BY DEF Numbers
  <2>3. Objects'
    BY DEF Objects, ManifestIsReadable, Object
  <2>4. Contents'
    BY DEF Contents, ShownIsServed
  <2>. QED
    BY <2>1, <2>2, <2>3, <2>4
<1>2. CASE Failed
  <2>. USE <1>2, FailedIs DEF WriteManifest
  <2>1. Typed'
    OBVIOUS
  <2>2. Remembered' /\ Numbers'
    BY DEF Numbers
  <2>3. Objects'
    BY DEF Objects, ManifestIsReadable, Object
  <2>4. Contents'
    BY DEF Contents, ShownIsServed
  <2>. QED
    BY <2>1, <2>2, <2>3, <2>4
<1>. QED
  BY <1>1, <1>2 DEF WriteManifest

LEMMA EnsureFloorKeeps == IInv /\ EnsureFloor => IInv'
<1>. SUFFICES ASSUME IInv, EnsureFloor PROVE IInv'
  OBVIOUS
<1>. USE ManifestFields, NumbersType
     DEF IInv, Typed, TypeOK, Remembered, Drafting, memory, subscriber, bounds, EnsureFloor, Loaded
<1>1. CASE Failed
  <2>. USE <1>1, FailedIs
  <2>1. Typed'
    OBVIOUS
  <2>2. Remembered' /\ Numbers'
    BY DEF Numbers
  <2>3. Objects'
    BY DEF Objects, ManifestIsReadable, Object
  <2>4. Contents'
    BY DEF Contents, ShownIsServed
  <2>. QED
    BY <2>1, <2>2, <2>3, <2>4
<1>2. CASE ~Failed
  <2>. USE <1>2
  <2>1. Typed'
    OBVIOUS
  <2>2. Remembered' /\ Numbers'
    BY DEF Numbers
  <2>3. Objects'
    BY DEF Objects, ManifestIsReadable, Object
  <2>4. Contents'
    BY DEF Contents, ShownIsServed
  <2>. QED
    BY <2>1, <2>2, <2>3, <2>4
<1>. QED
  BY <1>1, <1>2

LEMMA PruneKeeps == IInv /\ Prune => IInv'
<1>. SUFFICES ASSUME IInv, Prune PROVE IInv'
  OBVIOUS
<1>. USE ManifestFields, NumbersType
     DEF IInv, Typed, TypeOK, Remembered, Drafting, subscriber, bounds, Prune, Over
<1>1. Typed'
  OBVIOUS
<1>2. Remembered' /\ Numbers'
  BY DEF Numbers
<1>3. Objects'
  BY DEF Objects, ManifestIsReadable, Object
<1>4. Contents'
  BY DEF Contents, ShownIsServed
<1>. QED
  BY <1>1, <1>2, <1>3, <1>4

LEMMA AbortKeeps == IInv /\ Abort => IInv'
<1>. SUFFICES ASSUME IInv, Abort PROVE IInv'
  OBVIOUS
<1>. USE ManifestFields, NumbersType
     DEF IInv, Typed, TypeOK, Remembered, Drafting, bucket, memory, subscriber, bounds, Abort
<1>. Failed
  OBVIOUS
<1>. USE FailedIs
<1>1. Typed'
  OBVIOUS
<1>2. Remembered' /\ Numbers'
  BY DEF Numbers
<1>3. Objects'
  BY DEF Objects, ManifestIsReadable, Object
<1>4. Contents'
  BY DEF Contents, ShownIsServed
<1>. QED
  BY <1>1, <1>2, <1>3, <1>4

LEMMA NewPublisherIs ==
  ASSUME IInv, NewPublisher, crashes < MaxCrashes, crashes' = crashes + 1
  PROVE  /\ pc' = "idle" /\ dv' = 0 /\ draft' = NoManifest /\ last' = NoManifest
         /\ publishedDv' = 0 /\ reseed' \in BOOLEAN /\ mine' = 0
         /\ crashes' \in 0 .. MaxCrashes
<1>1. crashes' \in 0 .. MaxCrashes
  BY NumbersType DEF IInv, Typed, TypeOK
<1>. QED
  BY <1>1 DEF NewPublisher

LEMMA PublisherDiesKeeps == IInv /\ PublisherDies => IInv'
<1>. SUFFICES ASSUME IInv, PublisherDies PROVE IInv'
  OBVIOUS
<1>. USE ManifestFields, NumbersType
     DEF IInv, Typed, TypeOK, Remembered, Drafting, bucket, subscriber, bounds, PublisherDies
<1>. USE NewPublisherIs
<1>1. Typed'
  OBVIOUS
<1>2. Remembered' /\ Numbers'
  BY DEF Numbers
<1>3. Objects'
  BY DEF Objects, ManifestIsReadable, Object
<1>4. Contents'
  BY DEF Contents, ShownIsServed
<1>. QED
  BY <1>1, <1>2, <1>3, <1>4

-----------------------------------------------------------------------------
(* The subscriber *)

LEMMA ReadManifestKeeps == IInv /\ ReadManifest => IInv'
<1>. SUFFICES ASSUME IInv, ReadManifest PROVE IInv'
  OBVIOUS
<1>. USE ManifestFields, NumbersType
     DEF IInv, Typed, TypeOK, Remembered, Drafting,
         bucket, publisher, memory, bounds, ReadManifest
<1>1. Typed'
  OBVIOUS
<1>2. Remembered' /\ Numbers'
  BY DEF Numbers
<1>3. Objects'
  BY DEF Objects, ManifestIsReadable, Object
<1>4. Contents'
  BY DEF Contents, ShownIsServed
<1>. QED
  BY <1>1, <1>2, <1>3, <1>4

LEMMA GetSnapshotKeeps == IInv /\ GetSnapshot => IInv'
<1>. SUFFICES ASSUME IInv, GetSnapshot PROVE IInv'
  OBVIOUS
<1>. USE ManifestFields, NumbersType
     DEF IInv, Typed, TypeOK, Remembered, Drafting,
         bucket, publisher, memory, bounds, GetSnapshot, PassOver
<1>1. Typed'
  OBVIOUS
<1>2. Remembered' /\ Numbers'
  BY DEF Numbers
<1>3. Objects'
  BY DEF Objects, ManifestIsReadable, Object
<1>4. Contents'
  BY DEF Contents, ShownIsServed
<1>. QED
  BY <1>1, <1>2, <1>3, <1>4

LEMMA InstallKeeps == IInv /\ Install => IInv'
<1>. SUFFICES ASSUME IInv, Install PROVE IInv'
  OBVIOUS
<1>. USE ManifestFields, NumbersType
     DEF IInv, Typed, TypeOK, Remembered, Drafting,
         bucket, publisher, memory, bounds, Install
<1>1. Typed'
  OBVIOUS
<1>2. Remembered' /\ Numbers'
  BY DEF Numbers
<1>3. Objects'
  BY DEF Objects, ManifestIsReadable, Object
<1>4. Contents'
  BY DEF Contents, ShownIsServed
<1>. QED
  BY <1>1, <1>2, <1>3, <1>4

LEMMA WriteStateKeeps == IInv /\ WriteState => IInv'
<1>. SUFFICES ASSUME IInv, WriteState PROVE IInv'
  OBVIOUS
<1>. USE ManifestFields, NumbersType
     DEF IInv, Typed, TypeOK, Remembered, Drafting,
         bucket, publisher, memory, bounds, WriteState, PassOver
<1>1. Typed'
  OBVIOUS
<1>2. Remembered' /\ Numbers'
  BY DEF Numbers
<1>3. Objects'
  BY DEF Objects, ManifestIsReadable, Object
<1>4. Contents'
  BY DEF Contents, ShownIsServed
<1>. QED
  BY <1>1, <1>2, <1>3, <1>4

LEMMA PassEndsKeeps == IInv /\ PassEnds => IInv'
<1>. SUFFICES ASSUME IInv, PassEnds PROVE IInv'
  OBVIOUS
<1>. USE ManifestFields, NumbersType
     DEF IInv, Typed, TypeOK, Remembered, Drafting,
         bucket, publisher, memory, bounds, PassEnds, PassOver
<1>1. Typed'
  OBVIOUS
<1>2. Remembered' /\ Numbers'
  BY DEF Numbers
<1>3. Objects'
  BY DEF Objects, ManifestIsReadable, Object
<1>4. Contents'
  BY DEF Contents, ShownIsServed
<1>. QED
  BY <1>1, <1>2, <1>3, <1>4

-----------------------------------------------------------------------------
(* The bot, the bucket and the administrator *)

LEMMA CommitKeeps == IInv /\ Commit => IInv'
<1>. SUFFICES ASSUME IInv, Commit PROVE IInv'
  OBVIOUS
<1>. USE ManifestFields, NumbersType
     DEF IInv, Typed, TypeOK, Remembered, Drafting,
         bucket, publisher, memory, subscriber, bounds, Commit
<1>1. Typed'
  OBVIOUS
<1>2. Remembered' /\ Numbers'
  BY DEF Numbers
<1>3. Objects'
  BY DEF Objects, ManifestIsReadable, Object
<1>4. Contents'
  BY DEF Contents, ShownIsServed
<1>. QED
  BY <1>1, <1>2, <1>3, <1>4

LEMMA LoseManifestKeeps == IInv /\ LoseManifest => IInv'
<1>. SUFFICES ASSUME IInv, LoseManifest PROVE IInv'
  OBVIOUS
<1>. USE ManifestFields, NumbersType
     DEF IInv, Typed, TypeOK, Remembered, Drafting,
         bucket, publisher, memory, subscriber, bounds, LoseManifest
<1>1. Typed'
  OBVIOUS
<1>2. Remembered' /\ Numbers'
  BY DEF Numbers
<1>3. Objects'
  BY DEF Objects, ManifestIsReadable, Object
<1>4. Contents'
  BY DEF Contents, ShownIsServed
<1>. QED
  BY <1>1, <1>2, <1>3, <1>4

LEMMA RestoreKeeps == IInv /\ Restore => IInv'
<1>. SUFFICES ASSUME IInv, Restore PROVE IInv'
  OBVIOUS
<1>. USE ManifestFields, NumbersType
     DEF IInv, Typed, TypeOK, Remembered, Drafting, bucket, subscriber, bounds, Restore
<1>. USE NewPublisherIs
<1>1. Typed'
  OBVIOUS
<1>2. Remembered' /\ Numbers'
  BY DEF Numbers
<1>3. Objects'
  BY DEF Objects, ManifestIsReadable, Object
<1>4. Contents'
  BY DEF Contents, ShownIsServed
<1>. QED
  BY <1>1, <1>2, <1>3, <1>4

-----------------------------------------------------------------------------

LEMMA IInvInit == Init => IInv
<1>. SUFFICES ASSUME Init PROVE IInv
  OBVIOUS
<1>. USE NumbersType DEF Init
<1>1. Typed
  <2>1. reseed \in BOOLEAN
    OBVIOUS
  <2>. QED
    BY <2>1 DEF Typed, TypeOK, Drafting
<1>2. Remembered /\ Numbers /\ Objects /\ Contents
  BY DEF Remembered, Numbers, Objects, ManifestIsReadable, Contents, ShownIsServed
<1>. QED
  BY <1>1, <1>2 DEF IInv

LEMMA IInvStep == IInv /\ [Next]_vars => IInv'
<1>. SUFFICES ASSUME IInv, [Next]_vars PROVE IInv'
  OBVIOUS
<1>1. CASE UNCHANGED vars
  BY <1>1 DEF vars, bucket, memory, publisher, subscriber, bounds, IInv, Typed, TypeOK,
       Remembered, Numbers, Objects, ManifestIsReadable, Object, Contents, ShownIsServed
<1>2. CASE Publish
  BY <1>2, TickKeeps, ChooseSeqKeeps, BuildKeeps, UploadKeeps, EnsureFloorKeeps,
     WriteManifestKeeps, PruneKeeps DEF Publish
<1>3. CASE Sync
  BY <1>3, ReadManifestKeeps, GetSnapshotKeeps, InstallKeeps, WriteStateKeeps DEF Sync
<1>. QED
  BY <1>1, <1>2, <1>3, AbortKeeps, PublisherDiesKeeps, PassEndsKeeps, CommitKeeps,
     LoseManifestKeeps, RestoreKeeps DEF Next

LEMMA Invariant == Spec => []IInv
  BY IInvInit, IInvStep, PTL DEF Spec

\* Every variable of the replication keeps its type.
THEOREM ReplicationTypeCorrect == Spec => []TypeOK
<1>1. IInv => TypeOK
  BY DEF IInv, Typed
<1>. QED
  BY <1>1, Invariant, PTL

\* publish_once and prune_snapshots: latest.json always refers to a snapshot that is there.
THEOREM NoDanglingManifest == Spec => []ManifestIsReadable
<1>1. IInv => ManifestIsReadable
  BY DEF IInv, Objects
<1>. QED
  BY <1>1, Invariant, PTL

\* sync_once: the copy is never older than sync_state.json says.
THEOREM NothingShownTooEarly == Spec => []ShownIsServed
<1>1. IInv => ShownIsServed
  BY DEF IInv, Contents
<1>. QED
  BY <1>1, Invariant, PTL

\* next_seq and SeqFloor: no manifest ever reuses or goes below a number there has been.
THEOREM SeqNeverReused == Spec => SeqAdvances
<1>. DEFINE Above == latest' # latest /\ latest' # NoManifest /\ top # NoManifest
                       => latest'.seq > top.seq
<1>1. IInv /\ [Next]_vars => [Above]_vars
  <2>. SUFFICES ASSUME IInv, [Next]_vars, latest' # latest, latest' # NoManifest,
                       top # NoManifest
                PROVE  latest'.seq > top.seq
    OBVIOUS
  <2>1. WriteManifest \/ LoseManifest
    BY DEF Next, Publish, Sync, Tick, ChooseSeq, Build, Upload, EnsureFloor, Prune, Abort,
           PublisherDies, ReadManifest, GetSnapshot, Install, WriteState, PassEnds, Commit,
           Restore, vars, bucket
  <2>2. draft.seq > top.seq /\ latest' = draft
    BY <2>1, ManifestFields
       DEF WriteManifest, LoseManifest, IInv, Typed, TypeOK, Numbers, Drafting
  <2>. QED
    BY <2>2
<1>. QED
  BY <1>1, Invariant, PTL DEF Spec, SeqAdvances

\* What a step does to the ledger and to the copy, the promise allows.
LEMMA PromiseStep == IInv /\ [Next]_vars => [Promise!Next]_(Promise!vars)
<1>. SUFFICES ASSUME IInv, [Next]_vars PROVE Promise!Next \/ UNCHANGED <<ledger, copy>>
  BY DEF Promise!vars
<1>. USE ManifestFields DEF IInv, Typed, TypeOK, Contents, Remembered
<1>1. CASE Commit
  BY <1>1 DEF Commit, subscriber, Promise!Next, Promise!Commit
<1>2. CASE Restore
  BY <1>2 DEF Restore, subscriber, Promise!Next, Promise!Restore
<1>3. CASE Install
  BY <1>3 DEF Install, Promise!Next, Promise!Deliver
<1>4. CASE ~(Commit \/ Restore \/ Install)
  BY <1>4 DEF Next, Publish, Sync, Tick, ChooseSeq, Build, Upload, EnsureFloor, WriteManifest,
       Prune, Abort, PublisherDies, ReadManifest, GetSnapshot, WriteState, PassEnds,
       LoseManifest, vars, subscriber
<1>. QED
  BY <1>1, <1>2, <1>3, <1>4

\* The whole of replication/: the copy never goes back and is never ahead of the ledger,
\* and no restore falls behind it.
THEOREM ReplicationKeepsPromise == Spec => ReplicaKept
<1>1. Init => Promise!Init
  BY DEF Init, Promise!Init
<1>. QED
  BY <1>1, Invariant, PromiseStep, PTL DEF Spec, ReplicaKept, Promise!Spec
=============================================================================
