------------------------- MODULE RemotePauseProofs -------------------------
(***************************************************************************)
(* What holds of RemotePause for any number of pauses, restarts and failed *)
(* writes of the latch file.                                               *)
(***************************************************************************)
EXTENDS RemotePause, TLAPS

\* A poll that latches or acknowledges has read a pause.
SeenOK == \A p \in Pollers : pc[p] \in {"latch", "ack"} => seen[p] \in Requests

\* A pause nobody has made yet is nowhere; one a poll has made durable, or the
\* dashboard sees as latched, is in the file until a resume undoes it.
Unheard == \A r \in Requests :
    fate[r] = "unused" => /\ key # r
                          /\ \A p \in Pollers : seen[p] # r
                          /\ ack \in Acks => ack.for # r
Durable == \A r \in Requests :
    fate[r] = "asked" => \A p \in Pollers : seen[p] = r /\ durable[p] => file

\* A process that has read the channel either found no pause at least once or holds
\* the pause; only a poll that found none can let go of it.
ReadIsClean ==
    /\ verified => clean \/ remotePaused
    /\ \A p \in Pollers : pc[p] \in {"check", "clear"} => clean

\* The second check of an evaluation starts after a read, so that the flag it then
\* looks at is the outcome of one.
SecondLook ==
    /\ round = 2 => verified
    /\ look = "verify" /\ round = 2 => clean

Acked == TypeOK /\ SeenOK /\ Unheard /\ Durable /\ AcknowledgedIsDurable
Gate == TypeOK /\ ReadIsClean /\ SecondLook /\ NoOrderOnUnreadChannel

-----------------------------------------------------------------------------

LEMMA AckIs ==
  ASSUME NEW r \in Requests, NEW b \in BOOLEAN
  PROVE  /\ [for |-> r, latched |-> b] \in Acks
         /\ [for |-> r, latched |-> b].for = r
         /\ [for |-> r, latched |-> b].latched = b
  BY DEF Acks

LEMMA NoAckIsNone ==
  /\ NoAck \notin Acks
  /\ \A r \in Requests : NoAck # [for |-> r, latched |-> TRUE]
<1>1. NoAck \notin Acks
  BY DistinctDocuments DEF Acks
<1>. QED
  BY <1>1, AckIs

LEMMA AckedInit == Init => Acked
<1>. SUFFICES ASSUME Init PROVE Acked
  OBVIOUS
<1>1. restarts \in 0 .. MaxRestarts /\ faults \in 0 .. MaxFaults
  BY BoundsType DEF Init
<1>2. TypeOK
  <2>1. /\ pc \in [Pollers -> {"idle", "read", "latch", "ack", "check", "clear", "done"}]
        /\ seen \in [Pollers -> Documents] /\ durable \in [Pollers -> BOOLEAN]
        /\ fate \in [Requests -> {"unused", "asked", "crossed", "resumed"}]
    BY DEF Init, Documents
  <2>2. /\ key \in Documents /\ ack \in Acks \union {NoAck} /\ ackedFor \in Requests \union {NoAck}
        /\ look = "idle" /\ round = 1 /\ admin = "idle"
    BY DEF Init, Documents
  <2>3. /\ file \in BOOLEAN /\ remotePaused \in BOOLEAN
        /\ verified \in BOOLEAN /\ clean \in BOOLEAN
    BY DEF Init
  <2>. QED
    BY <1>1, <2>1, <2>2, <2>3 DEF TypeOK
<1>3. SeenOK /\ Unheard /\ Durable /\ AcknowledgedIsDurable
  BY DistinctDocuments, NoAckIsNone DEF Init, SeenOK, Unheard, Durable, AcknowledgedIsDurable
<1>. QED
  BY <1>2, <1>3 DEF Acked

\* A step of one poll.
LEMMA AckedPoll ==
  ASSUME Acked, NEW p \in Pollers, Poll(p)
  PROVE  Acked'
<1>. USE DistinctDocuments, BoundsType, NoAckIsNone, AckIs
     DEF Acked, TypeOK, SeenOK, Unheard, Durable, AcknowledgedIsDurable, Documents,
         Continue, End, AfterLatch, bucket, bot, job, people, bounds
<1>1. CASE Read(p)
  BY <1>1 DEF Read
<1>2. CASE Success(p)
  BY <1>2 DEF Success
<1>3. CASE Latch(p)
  BY <1>3 DEF Latch
<1>4. CASE LatchFails(p)
  BY <1>4 DEF LatchFails
<1>5. CASE WriteAck(p)
  BY <1>5 DEF WriteAck
<1>6. CASE WriteAckFails(p)
  BY <1>6 DEF WriteAckFails
<1>7. CASE CheckFile(p)
  BY <1>7 DEF CheckFile
<1>8. CASE LetGo(p)
  <2>1. remotePaused' \in BOOLEAN /\ ackedFor' = NoAck
    BY <1>8 DEF LetGo
  <2>2. UNCHANGED <<key, ack, file, verified, look, round, admin, fate, restarts, faults, clean>>
    BY <1>8 DEF LetGo
  <2>3. Continue(p, End(p), NoPause, FALSE)
    BY <1>8 DEF LetGo
  <2>. QED
    BY <2>1, <2>2, <2>3
<1>. QED
  BY <1>1, <1>2, <1>3, <1>4, <1>5, <1>6, <1>7, <1>8 DEF Poll

\* The dashboard and the admin.
LEMMA AckedPeople ==
  ASSUME Acked, People
  PROVE  Acked'
<1>. USE DistinctDocuments, NoAckIsNone, AckIs
     DEF Acked, TypeOK, SeenOK, Unheard, Durable, AcknowledgedIsDurable, Documents,
         bucket, bot, polls, job, people, bounds
<1>1. CASE LoseKey
  BY <1>1 DEF LoseKey
<1>2. CASE PauseCommand
  BY <1>2 DEF PauseCommand
<1>3. CASE PauseCommandRequests
  <2>1. CASE UNCHANGED <<key, fate>>
    BY <1>3, <2>1 DEF PauseCommandRequests
  <2>2. ASSUME NEW r \in Requests, Ask(r)
        PROVE  Acked'
    BY <1>3, <2>2 DEF PauseCommandRequests, Ask
  <2>. QED
    BY <1>3, <2>1, <2>2 DEF PauseCommandRequests
<1>4. CASE ResumeClearsKey
  BY <1>4 DEF ResumeClearsKey
<1>5. CASE ResumeClearsAck
  <2>1. CASE ack' = ack
    BY <1>5, <2>1 DEF ResumeClearsAck
  <2>2. CASE ack' = NoAck
    BY <1>5, <2>2 DEF ResumeClearsAck
  <2>. QED
    BY <1>5, <2>1, <2>2 DEF ResumeClearsAck
<1>6. CASE ResumeRemovesFile
  BY <1>6, ZenonT(60) DEF ResumeRemovesFile
<1>7. CASE ResumeFails
  BY <1>7 DEF ResumeFails
<1>8. ASSUME NEW r \in Requests, RequestPause(r)
      PROVE  Acked'
  BY <1>8 DEF RequestPause, Ask
<1>. QED
  BY <1>1, <1>2, <1>3, <1>4, <1>5, <1>6, <1>7, <1>8 DEF People

LEMMA AckedStep == Acked /\ [Next]_vars => Acked'
<1>. SUFFICES ASSUME Acked, [Next]_vars PROVE Acked'
  OBVIOUS
<1>1. CASE Evaluate
  BY <1>1 DEF Acked, TypeOK, SeenOK, Unheard, Durable, AcknowledgedIsDurable, Evaluate,
     LookAtFile, LookAtFlag, LookAtVerified, Send, Blocked, bucket, bot, polls, people, bounds
<1>2. CASE Restart
  <2>1. /\ pc' = [p \in Pollers |-> "idle"] /\ seen' = [p \in Pollers |-> NoPause]
        /\ durable' = [p \in Pollers |-> FALSE] /\ restarts' \in 0 .. MaxRestarts
        /\ UNCHANGED <<key, ack, file, admin, fate, faults>>
    BY <1>2, BoundsType DEF Restart, Acked, TypeOK, bucket, people
  <2>2. TypeOK'
    <3>1. /\ pc' \in [Pollers -> {"idle", "read", "latch", "ack", "check", "clear", "done"}]
          /\ seen' \in [Pollers -> Documents] /\ durable' \in [Pollers -> BOOLEAN]
      BY <2>1 DEF Documents
    <3>2. /\ remotePaused' \in BOOLEAN /\ verified' \in BOOLEAN /\ clean' \in BOOLEAN
          /\ ackedFor' = NoAck /\ look' = "idle" /\ round' = 1
      BY <1>2 DEF Restart
    <3>. QED
      BY <2>1, <3>1, <3>2 DEF Acked, TypeOK
  <2>3. SeenOK' /\ Unheard' /\ Durable' /\ AcknowledgedIsDurable'
    BY <2>1, DistinctDocuments
       DEF Acked, SeenOK, Unheard, Durable, AcknowledgedIsDurable
  <2>. QED
    BY <2>2, <2>3 DEF Acked
<1>3. CASE UNCHANGED vars
  BY <1>3 DEF Acked, TypeOK, SeenOK, Unheard, Durable, AcknowledgedIsDurable,
     vars, bucket, bot, polls, job, people, bounds
<1>. QED
  BY <1>1, <1>2, <1>3, AckedPoll, AckedPeople DEF Next

\* Every variable of the switch keeps its type.
THEOREM SwitchTypeCorrect == Spec => []TypeOK
<1>1. Acked => TypeOK
  BY DEF Acked
<1>. QED
  BY <1>1, AckedInit, AckedStep, PTL DEF Spec

\* A pause acknowledged as latched is in the file until a resume undoes it.
THEOREM AcknowledgementIsTrue == Spec => []AcknowledgedIsDurable
<1>1. Acked => AcknowledgedIsDurable
  BY DEF Acked
<1>. QED
  BY <1>1, AckedInit, AckedStep, PTL DEF Spec

-----------------------------------------------------------------------------

LEMMA GateStep == Gate /\ TypeOK' /\ [Next]_vars => Gate'
<1>. SUFFICES ASSUME Gate, TypeOK', [Next]_vars PROVE Gate'
  OBVIOUS
<1>. USE DEF Gate, TypeOK, ReadIsClean, SecondLook, NoOrderOnUnreadChannel
<1>1. CASE Evaluate
  <2>. USE DEF Blocked, bucket, bot, polls, people, bounds
  <2>1. CASE LookAtFile
    BY <2>1 DEF LookAtFile
  <2>2. CASE LookAtFlag
    BY <2>2 DEF LookAtFlag
  <2>3. CASE LookAtVerified
    BY <2>3 DEF LookAtVerified
  <2>4. CASE Send
    BY <2>4 DEF Send
  <2>. QED
    BY <1>1, <2>1, <2>2, <2>3, <2>4 DEF Evaluate
<1>2. ASSUME NEW p \in Pollers, Poll(p)
      PROVE  Gate'
  <2>. USE DEF Continue, End, AfterLatch, bucket, bot, job, people, bounds
  <2>1. CASE Read(p)
    BY <2>1 DEF Read
  <2>2. CASE Success(p)
    BY <2>2 DEF Success
  <2>3. CASE Latch(p) \/ LatchFails(p) \/ WriteAck(p) \/ WriteAckFails(p)
    BY <2>3 DEF Latch, LatchFails, WriteAck, WriteAckFails
  <2>4. CASE CheckFile(p) \/ LetGo(p)
    BY <2>4 DEF CheckFile, LetGo
  <2>. QED
    BY <1>2, <2>1, <2>2, <2>3, <2>4 DEF Poll
<1>3. CASE People
  BY <1>3 DEF People, LoseKey, PauseCommand, PauseCommandRequests, ResumeClearsKey,
     ResumeClearsAck, ResumeRemovesFile, ResumeFails, RequestPause,
     bucket, bot, polls, job, people, bounds
<1>4. CASE Restart
  BY <1>4 DEF Restart, bucket, people
<1>5. CASE UNCHANGED vars
  BY <1>5 DEF vars, bucket, bot, polls, job, people, bounds
<1>. QED
  BY <1>1, <1>2, <1>3, <1>4, <1>5 DEF Next

\* No order is sent before this process has read the channel and found no pause.
THEOREM SwitchFailsClosed == Spec => []NoOrderOnUnreadChannel
<1>1. Init /\ TypeOK => Gate
  BY DEF Init, Gate, ReadIsClean, SecondLook, NoOrderOnUnreadChannel
<1>2. Gate => NoOrderOnUnreadChannel
  BY DEF Gate
<1>. QED
  BY <1>1, <1>2, GateStep, SwitchTypeCorrect, PTL DEF Spec
=============================================================================
