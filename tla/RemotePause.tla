---------------------------- MODULE RemotePause ----------------------------
(***************************************************************************)
(* The kill switch of the live bot and the ways it is thrown and reset     *)
(* (nba_trading/control.py, and main.py's _kill_switch_source).            *)
(*                                                                         *)
(* The dashboard writes a pause into the control bucket.  Two threads of   *)
(* the bot may poll that key: the daemon, and at startup one first poll in *)
(* a helper thread.  A poll that reads a pause latches it: flag in memory, *)
(* local file, acknowledgement in the bucket.  On the server an admin runs *)
(* the pause and resume commands.  An evaluation asks the switch twice, at *)
(* its start and immediately before the order is sent.  Every read and     *)
(* write of the bucket, of the file and of the flags is a step of its own. *)
(***************************************************************************)
EXTENDS Naturals

CONSTANTS
    Requests,       \* pause documents, told apart by requested_at
    Daemon,         \* the polling thread
    First,          \* the helper thread of first_poll
    NoPause,        \* control/pause.json is missing or holds {"paused": false}
    NoAck,          \* control/ack.json does not exist, or nothing acknowledged yet
    MaxRestarts,    \* bound: how often the bot dies and is restarted
    MaxFaults       \* bound: how often the latch file cannot be written

ASSUME DistinctDocuments ==
    NoPause \notin Requests /\ NoAck \notin Requests \union [for : Requests, latched : BOOLEAN]
ASSUME DistinctPollers == Daemon # First
ASSUME BoundsType == MaxRestarts \in Nat /\ MaxFaults \in Nat

VARIABLES
    key,            \* control/pause.json
    ack,            \* control/ack.json
    file,           \* does the kill-switch file exist
    remotePaused,   \* ControlPoller._remote_paused
    verified,       \* ControlPoller._verified
    ackedFor,       \* ControlPoller._acked_for
    pc, seen,       \* per poller: where it is, the document it has read
    durable,        \* per poller: did the file exist after write_latch_file
    look, round,    \* the evaluation: where it is in its first or second check
    admin,          \* the command the admin runs, by its next step
    fate,           \* of each request: not made yet, asked for, asked for while a
                    \* resume was under way ("crossed"), or undone by a resume
    restarts, faults,
    clean           \* this process has read a document that asks for no pause

bucket == <<key, ack>>
bot    == <<remotePaused, verified, ackedFor>>
polls  == <<pc, seen, durable>>
job    == <<look, round>>
people == <<admin, fate>>
bounds == <<restarts, faults>>
vars   == <<bucket, file, bot, polls, job, people, bounds, clean>>

Pollers == {Daemon, First}
Documents == Requests \union {NoPause}
Acks == [for : Requests, latched : BOOLEAN]

TypeOK ==
    /\ key \in Documents
    /\ ack \in Acks \union {NoAck}
    /\ file \in BOOLEAN /\ remotePaused \in BOOLEAN /\ verified \in BOOLEAN
    /\ ackedFor \in Requests \union {NoAck}
    /\ pc \in [Pollers -> {"idle", "read", "latch", "ack", "check", "clear", "done"}]
    /\ seen \in [Pollers -> Documents]
    /\ durable \in [Pollers -> BOOLEAN]
    /\ look \in {"idle", "flag", "verify", "send"} /\ round \in 1 .. 2
    /\ admin \in {"idle", "ack", "file", "request"}
    /\ fate \in [Requests -> {"unused", "asked", "crossed", "resumed"}]
    /\ restarts \in 0 .. MaxRestarts /\ faults \in 0 .. MaxFaults
    /\ clean \in BOOLEAN

Init ==
    /\ key = NoPause /\ ack = NoAck /\ file = FALSE
    /\ remotePaused = FALSE /\ verified = FALSE /\ ackedFor = NoAck
    /\ pc = [p \in Pollers |-> "idle"] /\ seen = [p \in Pollers |-> NoPause]
    /\ durable = [p \in Pollers |-> FALSE]
    /\ look = "idle" /\ round = 1 /\ clean = FALSE
    /\ admin = "idle" /\ fate = [r \in Requests |-> "unused"]
    /\ restarts = 0 /\ faults = 0

-----------------------------------------------------------------------------
(* One poll.  A read that raises, or finds a document that cannot be parsed, *)
(* leaves the poller as it was (_on_failure): no step.                       *)

\* The poll goes on at the next step, or ends and forgets what it has read.
End(p) == IF p = First THEN "done" ELSE "idle"
Continue(p, label, doc, exists) ==
    /\ pc' = [pc EXCEPT ![p] = label]
    /\ seen' = [seen EXCEPT ![p] = IF label = End(p) THEN NoPause ELSE doc]
    /\ durable' = [durable EXCEPT ![p] = IF label = End(p) THEN FALSE ELSE exists]

\* Mutant of Read: the daemon stops asking once it has an answer.
ReadUntilVerified(p) ==
    /\ pc[p] = "idle" /\ ~verified
    /\ Continue(p, "read", key, FALSE)
    /\ UNCHANGED <<bucket, file, bot, job, people, bounds, clean>>

\* The helper thread, started while nothing has been read yet, may hang in its one
\* read for as long as the store lets it: it may answer at any time later.
Read(p) ==
    /\ pc[p] = "idle"
    /\ Continue(p, "read", key, FALSE)
    /\ UNCHANGED <<bucket, file, bot, job, people, bounds, clean>>

\* _on_success, the part under the poller's lock.  Its assignments are one step: no
\* I/O separates them, while calls to Kalshi lie between the two checks of the switch.
Success(p) ==
    /\ pc[p] = "read"
    /\ verified' = TRUE
    /\ remotePaused' = (remotePaused \/ seen[p] \in Requests)
    /\ clean' = (clean \/ seen[p] \notin Requests)
    /\ Continue(p, IF seen[p] \in Requests THEN "latch"
                   ELSE IF remotePaused THEN "check" ELSE End(p), seen[p], FALSE)
    /\ UNCHANGED <<bucket, file, ackedFor, job, people, bounds>>

AfterLatch(p) == IF ackedFor = seen[p] THEN End(p) ELSE "ack"

\* write_latch_file leaves a file that exists alone.
Latch(p) ==
    /\ pc[p] = "latch"
    /\ file' = TRUE
    /\ Continue(p, AfterLatch(p), seen[p], TRUE)
    /\ UNCHANGED <<bucket, bot, job, people, bounds, clean>>

LatchFails(p) ==
    /\ pc[p] = "latch" /\ ~file /\ faults < MaxFaults
    /\ faults' = faults + 1
    /\ Continue(p, AfterLatch(p), seen[p], FALSE)
    /\ UNCHANGED <<bucket, file, bot, job, people, restarts, clean>>

\* Mutant of WriteAck: write_ack with its default, latched=True.
WriteAckByDefault(p) ==
    /\ pc[p] = "ack"
    /\ ack' = [for |-> seen[p], latched |-> TRUE]
    /\ ackedFor' = seen[p]
    /\ Continue(p, End(p), NoPause, FALSE)
    /\ UNCHANGED <<key, file, remotePaused, verified, job, people, bounds, clean>>

WriteAck(p) ==
    /\ pc[p] = "ack"
    /\ ack' = [for |-> seen[p], latched |-> durable[p]]
    /\ ackedFor' = seen[p]
    /\ Continue(p, End(p), NoPause, FALSE)
    /\ UNCHANGED <<key, file, remotePaused, verified, job, people, bounds, clean>>

\* Written, or not, but the call raised: the next poll writes it again.
WriteAckFails(p) ==
    /\ pc[p] = "ack"
    /\ \/ ack' = [for |-> seen[p], latched |-> durable[p]]
       \/ UNCHANGED ack
    /\ Continue(p, End(p), NoPause, FALSE)
    /\ UNCHANGED <<key, file, bot, job, people, bounds, clean>>

\* No pause in the bucket, one in memory: without the file an admin resumed.
CheckFile(p) ==
    /\ pc[p] = "check"
    /\ Continue(p, IF file THEN End(p) ELSE "clear", NoPause, FALSE)
    /\ UNCHANGED <<bucket, file, bot, job, people, bounds, clean>>

LetGo(p) ==
    /\ pc[p] = "clear"
    /\ remotePaused' = FALSE
    /\ ackedFor' = NoAck
    /\ Continue(p, End(p), NoPause, FALSE)
    /\ UNCHANGED <<bucket, file, verified, job, people, bounds, clean>>

Poll(p) ==
    \/ Read(p) \/ Success(p) \/ Latch(p) \/ LatchFails(p) \/ WriteAck(p)
    \/ WriteAckFails(p) \/ CheckFile(p) \/ LetGo(p)

-----------------------------------------------------------------------------
(* _kill_switch_source, read piece by piece, twice per order *)

Blocked == look' = "idle" /\ round' = 1

LookAtFile ==
    /\ look = "idle"
    /\ IF file THEN Blocked ELSE look' = "flag" /\ UNCHANGED round
    /\ UNCHANGED <<bucket, file, bot, polls, people, bounds, clean>>

LookAtFlag ==
    /\ look = "flag"
    /\ IF remotePaused THEN Blocked ELSE look' = "verify" /\ UNCHANGED round
    /\ UNCHANGED <<bucket, file, bot, polls, people, bounds, clean>>

\* Mutant of LookAtVerified: the switch is not asked again before the POST.
LookAtVerifiedOnce ==
    /\ look = "verify"
    /\ IF verified THEN look' = "send" /\ UNCHANGED round ELSE Blocked
    /\ UNCHANGED <<bucket, file, bot, polls, people, bounds, clean>>

LookAtVerified ==
    /\ look = "verify"
    /\ \/ ~verified /\ Blocked
       \/ verified /\ round = 1 /\ look' = "idle" /\ round' = 2
       \/ verified /\ round = 2 /\ look' = "send" /\ UNCHANGED round
    /\ UNCHANGED <<bucket, file, bot, polls, people, bounds, clean>>

Send ==
    /\ look = "send"
    /\ Blocked
    /\ UNCHANGED <<bucket, file, bot, polls, people, bounds, clean>>

Evaluate == LookAtFile \/ LookAtFlag \/ LookAtVerified \/ Send

-----------------------------------------------------------------------------
(* The dashboard and the admin's commands *)

Ask(r) ==
    /\ fate[r] = "unused"
    /\ key' = r
    /\ fate' = [fate EXCEPT ![r] = IF admin \in {"ack", "file"} THEN "crossed" ELSE "asked"]

RequestPause(r) ==
    /\ Ask(r)
    /\ UNCHANGED <<ack, file, bot, polls, job, admin, bounds, clean>>

\* The key is lost, or written again without a pause.
LoseKey ==
    /\ key' = NoPause
    /\ UNCHANGED <<ack, file, bot, polls, job, people, bounds, clean>>

\* _cmd_pause: the file, then the request in the bucket, which may fail.
PauseCommand ==
    /\ admin = "idle"
    /\ file' = TRUE
    /\ admin' = "request"
    /\ UNCHANGED <<bucket, bot, polls, job, fate, bounds, clean>>

PauseCommandRequests ==
    /\ admin = "request"
    /\ admin' = "idle"
    /\ (\E r \in Requests : Ask(r)) \/ UNCHANGED <<key, fate>>
    /\ UNCHANGED <<ack, file, bot, polls, job, bounds, clean>>

\* _cmd_resume: the key, the acknowledgement, the file.  If the key cannot be
\* deleted the command ends there, which changes nothing.
ResumeClearsKey ==
    /\ admin = "idle"
    /\ key' = NoPause
    /\ admin' = "ack"
    /\ UNCHANGED <<ack, file, bot, polls, job, fate, bounds, clean>>

ResumeClearsAck ==
    /\ admin = "ack"
    /\ ack' \in {NoAck, ack}
    /\ admin' = "file"
    /\ UNCHANGED <<key, file, bot, polls, job, fate, bounds, clean>>

ResumeRemovesFile ==
    /\ admin = "file"
    /\ file' = FALSE
    /\ admin' = "idle"
    /\ fate' = [r \in Requests |-> IF fate[r] = "asked" THEN "resumed" ELSE fate[r]]
    /\ UNCHANGED <<bucket, bot, polls, job, bounds, clean>>

\* The file cannot be removed: the bot stays paused.
ResumeFails ==
    /\ admin = "file"
    /\ admin' = "idle"
    /\ UNCHANGED <<bucket, file, bot, polls, job, fate, bounds, clean>>

People ==
    \/ LoseKey \/ PauseCommand \/ PauseCommandRequests
    \/ ResumeClearsKey \/ ResumeClearsAck \/ ResumeRemovesFile \/ ResumeFails
    \/ \E r \in Requests : RequestPause(r)

-----------------------------------------------------------------------------

\* The process dies and starts again: file and bucket stay.
Restart ==
    /\ restarts < MaxRestarts
    /\ restarts' = restarts + 1
    /\ remotePaused' = FALSE /\ verified' = FALSE /\ ackedFor' = NoAck
    /\ pc' = [p \in Pollers |-> "idle"] /\ seen' = [p \in Pollers |-> NoPause]
    /\ durable' = [p \in Pollers |-> FALSE]
    /\ look' = "idle" /\ round' = 1 /\ clean' = FALSE
    /\ UNCHANGED <<bucket, file, people, faults>>

Next == Evaluate \/ People \/ Restart \/ \E p \in Pollers : Poll(p)

Spec == Init /\ [][Next]_vars

\* The daemon polls for ever, and not every read fails.
Fairness == WF_vars(Poll(Daemon)) /\ SF_vars(Read(Daemon))

FairSpec == Spec /\ Fairness

-----------------------------------------------------------------------------
(* Properties *)

\* A pause the dashboard shows as acknowledged and latched, and that no resume has
\* undone or crossed, is on the server's disk: neither a restart, nor a lost key, nor
\* the other polling thread takes it away.
AcknowledgedIsDurable ==
    \A r \in Requests :
        fate[r] = "asked" /\ ack = [for |-> r, latched |-> TRUE] => file

\* A live bot sends no order before this process has read the control channel and
\* found no pause there, although each of the three things _kill_switch_source looks
\* at may change under it: the check before the POST catches what the first let by.
NoOrderOnUnreadChannel == look = "send" => clean

\* A pause that stays in the bucket shuts the switch for good.
PauseTakesHold ==
    \A r \in Requests : <>[](key = r) => <>[](file \/ remotePaused)
=============================================================================
