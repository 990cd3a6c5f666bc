---------------------------- MODULE Replication ----------------------------
(***************************************************************************)
(* How the ledger reaches the dashboard (nba_trading/replication).         *)
(*                                                                         *)
(* A publisher process watches the ledger, uploads snapshots under         *)
(* immutable keys and then overwrites latest.json, the manifest; when      *)
(* nothing changed it writes a new manifest for the old snapshot.  A       *)
(* subscriber follows the manifest.  Each call of the object store is a    *)
(* step of its own; a PUT that raises may have taken effect or not.  Either *)
(* process may die at any step, the manifest may be lost, and the ledger   *)
(* may be restored from the bucket onto a new server.                      *)
(*                                                                         *)
(* The states of the ledger are numbered in the order they come about, and *)
(* the number stands for the contents and their sha256.                    *)
(***************************************************************************)
EXTENDS Naturals, FiniteSets

CONSTANTS
    NoManifest,     \* latest.json does not exist or cannot be parsed
    Reserve,        \* SEQ_FLOOR_RESERVE
    Keep,           \* snapshots that pruning leaves
    MaxCommits,     \* bound: states of the ledger
    MaxBeats,       \* bound: heartbeats while the manifest is there
    MaxFaults,      \* bound: failed calls and dead subscribers
    MaxCrashes,     \* bound: dead publishers and restores
    MaxLosses       \* bound: how often the manifest is lost

Manifests == [seq : Nat \ {0}, body : Nat \ {0}, key : Nat \ {0}]

ASSUME NoManifestType == NoManifest \notin Manifests
ASSUME NumbersType ==
    /\ Reserve \in Nat /\ Keep \in Nat \ {0}
    /\ MaxCommits \in Nat /\ MaxBeats \in Nat /\ MaxFaults \in Nat
    /\ MaxCrashes \in Nat /\ MaxLosses \in Nat

VARIABLES
    ledger,         \* the contents of the ledger
    newest,         \* the latest contents there have been, on any server
    \* the bucket
    latest,         \* latest.json
    snaps,          \* snapshot objects: <<seq in the key, contents>>
    floor,          \* seq-floor.json, 0 if there is none
    \* the publisher
    pc,
    dv,             \* the data_version this tick has read
    draft,          \* the manifest it prepares
    last,           \* last_manifest
    publishedDv,    \* _published_dv, 0 for None
    reseed,         \* _reseed
    mine,           \* the value of its SeqFloor, 0 while it is not loaded
    \* the subscriber
    spc,
    m,              \* the manifest it has read
    copy,           \* the contents of its ledger.sqlite, 0 if there is none
    state,          \* the manifest sync_state.json speaks of
    \* the bounds, and what the properties look back at
    beats, faults, crashes, losses,
    top             \* the last manifest there was in the bucket

bucket     == <<latest, snaps, floor, top>>
memory     == <<last, publishedDv>>
publisher  == <<pc, dv, draft, memory, reseed, mine>>
subscriber == <<spc, m, copy, state>>
bounds     == <<beats, faults, crashes, losses>>
vars       == <<ledger, newest, bucket, publisher, subscriber, bounds>>

Object(manifest) == <<manifest.key, manifest.body>>

TypeOK ==
    /\ ledger \in Nat \ {0} /\ newest \in Nat \ {0}
    /\ latest \in Manifests \union {NoManifest} /\ top \in Manifests \union {NoManifest}
    /\ snaps \subseteq Nat \X Nat
    /\ floor \in Nat
    /\ pc \in {"idle", "seq", "build", "upload", "floor", "latest", "prune"}
    /\ dv \in Nat
    /\ draft \in Manifests \union {NoManifest} /\ last \in Manifests \union {NoManifest}
    /\ publishedDv \in Nat /\ reseed \in BOOLEAN /\ mine \in Nat
    /\ spc \in {"idle", "get", "install", "state"}
    /\ m \in Manifests \union {NoManifest} /\ state \in Manifests \union {NoManifest}
    /\ copy \in Nat
    /\ beats \in 0 .. MaxBeats /\ faults \in 0 .. MaxFaults
    /\ crashes \in 0 .. MaxCrashes /\ losses \in 0 .. MaxLosses

Init ==
    /\ ledger = 1 /\ newest = 1
    /\ latest = NoManifest /\ top = NoManifest /\ snaps = {} /\ floor = 0
    /\ pc = "idle" /\ dv = 0 /\ draft = NoManifest /\ last = NoManifest
    /\ publishedDv = 0 /\ reseed = FALSE /\ mine = 0
    /\ spc = "idle" /\ m = NoManifest /\ copy = 0 /\ state = NoManifest
    /\ beats = 0 /\ faults = 0 /\ crashes = 0 /\ losses = 0

-----------------------------------------------------------------------------
(* The publisher: one tick, through publish_once *)

Go(label) == pc' = label /\ UNCHANGED <<reseed, mine, faults>>
Proceed(label) == Go(label) /\ UNCHANGED <<dv, draft>>
Over == pc' = "idle" /\ dv' = 0 /\ draft' = NoManifest

\* _fail: the next attempt asks the store for its sequence number and floor.
Failed ==
    /\ faults < MaxFaults /\ faults' = faults + 1
    /\ Over /\ reseed' = TRUE /\ mine' = 0

Changed == last = NoManifest \/ ledger # publishedDv

\* Due for a heartbeat, or changed.
Tick ==
    /\ pc = "idle"
    /\ \/ Changed /\ UNCHANGED beats
       \/ ~Changed /\ beats < MaxBeats /\ beats' = beats + 1
       \/ ~Changed /\ latest = NoManifest /\ UNCHANGED beats
    /\ dv' = ledger
    /\ Go("seq")
    /\ UNCHANGED <<ledger, newest, bucket, draft, memory, subscriber, crashes, losses>>

\* What this tick has found: nothing changed since the last publish.
Reuse == last # NoManifest /\ dv = publishedDv

\* Mutant of Known: no seq-floor.json.
KnownUnfloored ==
    {IF last = NoManifest THEN 0 ELSE last.seq}
      \union (IF latest = NoManifest THEN {} ELSE {latest.seq})
      \union {s[1] : s \in snaps}

\* Every sequence number next_seq looks at.
Known ==
    {IF last = NoManifest THEN 0 ELSE last.seq}
      \union (IF latest = NoManifest THEN {} ELSE {latest.seq})
      \union (IF latest = NoManifest \/ floor > latest.seq + Reserve THEN {floor} ELSE {})
      \union {s[1] : s \in snaps}

NextSeq == {best + 1 : best \in {k \in Known : \A j \in Known : j <= k}}

Seqs == IF last # NoManifest /\ ~reseed THEN {last.seq + 1} ELSE NextSeq

\* A heartbeat is the last manifest under a new number.
Numbered(s) ==
    IF Reuse THEN [last EXCEPT !.seq = s] ELSE [seq |-> s, body |-> dv, key |-> s]

ChooseSeq ==
    /\ pc = "seq"
    /\ \E s \in Seqs : draft' = Numbered(s)
    /\ Go(IF Reuse THEN "floor" ELSE "build")
    /\ UNCHANGED <<ledger, newest, bucket, dv, memory, subscriber, beats, crashes, losses>>

\* The snapshot holds what the ledger is now; contents already uploaded are not
\* uploaded again.
Build ==
    /\ pc = "build"
    /\ IF last # NoManifest /\ last.body = ledger
       THEN draft' = [last EXCEPT !.seq = draft.seq] /\ Go("floor")
       ELSE draft' = [draft EXCEPT !.body = ledger] /\ Go("upload")
    /\ UNCHANGED <<ledger, newest, bucket, dv, memory, subscriber, beats, crashes, losses>>

\* Mutant of Upload: an upload that fails is left for the next publish.
UploadBestEffort ==
    /\ pc = "upload"
    /\ \/ snaps' = snaps \union {Object(draft)} /\ UNCHANGED faults
       \/ faults < MaxFaults /\ faults' = faults + 1 /\ UNCHANGED snaps
    /\ pc' = "floor"
    /\ UNCHANGED <<ledger, newest, latest, top, floor, dv, draft, memory, reseed, mine,
                   subscriber, beats, crashes, losses>>

Upload ==
    /\ pc = "upload"
    /\ snaps' = snaps \union {Object(draft)}
    /\ Proceed("floor") \/ Failed
    /\ UNCHANGED <<ledger, newest, latest, top, floor, memory, subscriber,
                   beats, crashes, losses>>

Loaded == IF mine = 0 THEN floor ELSE mine

\* SeqFloor.ensure
EnsureFloor ==
    /\ pc = "floor"
    /\ IF draft.seq <= Loaded
       THEN /\ pc' = "latest" /\ mine' = Loaded
            /\ UNCHANGED <<floor, reseed, dv, draft, faults>>
       ELSE /\ floor' = draft.seq + Reserve
            /\ \/ pc' = "latest" /\ mine' = floor' /\ UNCHANGED <<reseed, dv, draft, faults>>
               \/ Failed
    /\ UNCHANGED <<ledger, newest, latest, top, snaps, memory, subscriber,
                   beats, crashes, losses>>

\* Mutant of WriteManifest: the change counts as published once it is sent.
WriteManifestMarks ==
    /\ pc = "latest"
    /\ latest' = draft /\ top' = draft
    /\ publishedDv' = dv
    /\ Proceed("prune") \/ Failed
    /\ UNCHANGED <<ledger, newest, snaps, floor, last, subscriber,
                   beats, crashes, losses>>

WriteManifest ==
    /\ pc = "latest"
    /\ latest' = draft /\ top' = draft
    /\ Proceed("prune") \/ Failed
    /\ UNCHANGED <<ledger, newest, snaps, floor, memory, subscriber,
                   beats, crashes, losses>>

\* prune_snapshots keeps the newest and the manifest's own; a deletion that fails
\* leaves some of the others.
Outdated == {s \in snaps : Cardinality({t \in snaps : t[1] > s[1]}) >= Keep}

\* Mutant of Prune: the ledger is asked for its data_version again at the end.
PruneRereads ==
    /\ pc = "prune"
    /\ \E gone \in SUBSET (Outdated \ {Object(draft)}) : snaps' = snaps \ gone
    /\ last' = draft /\ publishedDv' = ledger /\ reseed' = FALSE
    /\ Over
    /\ UNCHANGED <<ledger, newest, latest, top, floor, mine, subscriber, bounds>>

\* The publish is done: _tick remembers what it has published.
Prune ==
    /\ pc = "prune"
    /\ \E gone \in SUBSET (Outdated \ {Object(draft)}) : snaps' = snaps \ gone
    /\ last' = draft /\ publishedDv' = dv /\ reseed' = FALSE
    /\ Over
    /\ UNCHANGED <<ledger, newest, latest, top, floor, mine, subscriber, bounds>>

\* A call raises before it has had an effect.
Abort ==
    /\ pc \in {"seq", "build", "upload", "floor", "latest"}
    /\ Failed
    /\ UNCHANGED <<ledger, newest, bucket, memory, subscriber, beats, crashes, losses>>

Publish ==
    \/ Tick \/ ChooseSeq \/ Build \/ Upload \/ EnsureFloor \/ WriteManifest \/ Prune

\* A publisher that starts remembers nothing.
NewPublisher ==
    /\ pc' = "idle" /\ dv' = 0 /\ draft' = NoManifest /\ last' = NoManifest
    /\ publishedDv' = 0 /\ reseed' = FALSE /\ mine' = 0

PublisherDies ==
    /\ crashes < MaxCrashes /\ crashes' = crashes + 1
    /\ NewPublisher
    /\ UNCHANGED <<ledger, newest, bucket, subscriber, beats, faults, losses>>

-----------------------------------------------------------------------------
(* The subscriber: one pass of sync_once *)

PassOver == spc' = "idle" /\ m' = NoManifest

\* Mutant of ReadManifest: the state is written before the download.
ReadManifestEager ==
    /\ spc = "idle" /\ latest # NoManifest
    /\ state # NoManifest => latest.seq >= state.seq
    /\ state' = latest
    /\ IF state # NoManifest /\ state.body = latest.body
       THEN UNCHANGED <<spc, m>>
       ELSE spc' = "get" /\ m' = latest
    /\ UNCHANGED <<ledger, newest, bucket, publisher, copy, bounds>>

\* A manifest that is missing, invalid, or older than the state fails the pass.
ReadManifest ==
    /\ spc = "idle" /\ latest # NoManifest
    /\ state # NoManifest => latest.seq >= state.seq
    /\ IF state # NoManifest /\ state.body = latest.body
       THEN state' = latest /\ UNCHANGED <<spc, m>>
       ELSE spc' = "get" /\ m' = latest /\ UNCHANGED state
    /\ UNCHANGED <<ledger, newest, bucket, publisher, copy, bounds>>

GetSnapshot ==
    /\ spc = "get"
    /\ IF Object(m) \in snaps THEN spc' = "install" /\ UNCHANGED m ELSE PassOver
    /\ UNCHANGED <<ledger, newest, bucket, publisher, copy, state, bounds>>

\* os.replace
Install ==
    /\ spc = "install"
    /\ copy' = m.body
    /\ spc' = "state"
    /\ UNCHANGED <<ledger, newest, bucket, publisher, m, state, bounds>>

WriteState ==
    /\ spc = "state"
    /\ state' = m
    /\ PassOver
    /\ UNCHANGED <<ledger, newest, bucket, publisher, copy, bounds>>

\* The pass fails, its state cannot be written, or the dashboard dies.
PassEnds ==
    /\ spc # "idle"
    /\ faults < MaxFaults /\ faults' = faults + 1
    /\ PassOver
    /\ UNCHANGED <<ledger, newest, bucket, publisher, copy, state, beats, crashes, losses>>

Sync == ReadManifest \/ GetSnapshot \/ Install \/ WriteState

-----------------------------------------------------------------------------
(* The bot, the bucket and the administrator *)

Commit ==
    /\ newest < MaxCommits
    /\ newest' = newest + 1 /\ ledger' = newest'
    /\ UNCHANGED <<bucket, publisher, subscriber, bounds>>

LoseManifest ==
    /\ latest # NoManifest
    /\ losses < MaxLosses /\ losses' = losses + 1
    /\ latest' = NoManifest
    /\ UNCHANGED <<ledger, newest, snaps, floor, top, publisher, subscriber,
                   beats, faults, crashes>>

\* restore onto a new server, the old one and its publisher being stopped.
Restore ==
    /\ latest # NoManifest /\ Object(latest) \in snaps
    /\ crashes < MaxCrashes /\ crashes' = crashes + 1
    /\ ledger' = latest.body
    /\ NewPublisher
    /\ UNCHANGED <<newest, bucket, subscriber, beats, faults, losses>>

Next ==
    \/ Publish \/ Abort \/ PublisherDies
    \/ Sync \/ PassEnds
    \/ Commit \/ LoseManifest \/ Restore

Spec == Init /\ [][Next]_vars

\* Both loops run for ever.
FairSpec == Spec /\ WF_vars(Publish) /\ WF_vars(Sync)

-----------------------------------------------------------------------------
(* Properties *)

\* docs/design-replication.md section 4: "A reader following the manifest can never
\* see a missing snapshot", whatever was pruned, half published or started anew.
ManifestIsReadable == latest # NoManifest => Object(latest) \in snaps

\* docs/design-replication.md section 4: seq is strictly increasing across publishes,
\* over failed writes, restarts, restores and a lost manifest.
SeqAdvances ==
    [][latest' # latest /\ latest' # NoManifest /\ top # NoManifest => latest'.seq > top.seq]_vars

\* What the dashboard says it shows, it shows: the copy is never older than the
\* manifest in sync_state.json, also when the pass ended between the two files.
ShownIsServed == state # NoManifest => copy >= state.body

\* restore.py and subscriber.py together: the copy is never ahead of the ledger, never
\* goes back, and no restored server is behind what the dashboard has shown.
Promise == INSTANCE Replica
ReplicaKept == Promise!Spec

\* Publisher._tick and sync_once: when the bot has stopped writing, the copy becomes the
\* ledger and stays it, although the ledger changes while it is being copied.
Converges == <>[](copy = ledger)
=============================================================================
