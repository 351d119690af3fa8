------------------------- MODULE QueueReadersProofs -------------------------
(* Proofs about QueueReaders for any messages, readers and number of mishaps. *)
EXTENDS QueueReaders, TLAPS

----------------------------------------------------------------------------
(* Bags of messages *)

\* What a union of bags contains.
LEMMA BagUnionLemma ==
  ASSUME NEW a, NEW b
  PROVE  /\ BagToSet(a (+) b) = BagToSet(a) \cup BagToSet(b)
         /\ \A q \in BagToSet(a (+) b) :
              (a (+) b)[q] = (IF q \in BagToSet(a) THEN a[q] ELSE 0)
                           + (IF q \in BagToSet(b) THEN b[q] ELSE 0)
BY DEF (+), BagToSet

\* The bag of a set has each element once.
LEMMA SetToBagLemma ==
  ASSUME NEW S
  PROVE  BagToSet(SetToBag(S)) = S /\ \A q \in S : SetToBag(S)[q] = 1
BY DEF SetToBag, BagToSet

\* Nothing is in the empty bag.
LEMMA EmptyBagLemma == BagToSet(EmptyBag) = {} /\ EmptyBag \in MessageBags
<1>1. BagToSet(EmptyBag) = {} BY SetToBagLemma DEF EmptyBag
<1>2. EmptyBag \in [{} -> Nat \ {0}] BY DEF EmptyBag, SetToBag
<1>3. {} \in SUBSET QueueMessages OBVIOUS
<1> QED BY <1>1, <1>2, <1>3 DEF MessageBags

\* Bags of messages are closed under union.
LEMMA MessageBagsClosed ==
  ASSUME NEW a \in MessageBags, NEW b \in MessageBags
  PROVE  a (+) b \in MessageBags
<1>1. PICK S \in SUBSET QueueMessages : a \in [S -> Nat \ {0}] BY DEF MessageBags
<1>2. PICK T \in SUBSET QueueMessages : b \in [T -> Nat \ {0}] BY DEF MessageBags
<1>3. a (+) b \in [S \cup T -> Nat \ {0}]
  BY <1>1, <1>2 DEF (+)
<1>4. S \cup T \in SUBSET QueueMessages OBVIOUS
<1> QED BY <1>3, <1>4 DEF MessageBags

\* A set of messages is a bag of messages.
LEMMA MessageSetBag ==
  ASSUME NEW S \in SUBSET QueueMessages PROVE SetToBag(S) \in MessageBags
<1>1. SetToBag(S) \in [S -> Nat \ {0}] BY DEF SetToBag
<1> QED BY <1>1 DEF MessageBags

\* The messages of a bag of messages.
LEMMA MessageBagSet ==
  ASSUME NEW a \in MessageBags PROVE BagToSet(a) \subseteq QueueMessages
BY DEF MessageBags, BagToSet

----------------------------------------------------------------------------
(* Types *)

Places == {"unsent", "visible", "reader", "page", "hidden", "deleted"}

\* A move of messages gives each of them the place it is moved to (Moved).
LEMMA MovedLemma ==
  ASSUME QueueTypeOK, NEW S, NEW where \in Places
  PROVE  /\ Moved(S, where) \in [QueueMessages -> Places]
         /\ \A q \in QueueMessages :
              Moved(S, where)[q] = IF q \in S THEN where ELSE mail[q]
BY DEF QueueTypeOK, Moved, Places

\* The states a reader can be left in, as records.
LEMMA GoneType ==
  /\ NotStarted \in ReaderState /\ NotStarted.pc = "off" /\ NotStarted.batch = EmptyBag
  /\ Gone \in ReaderState /\ Gone.pc = "ended" /\ Gone.batch = EmptyBag
  /\ [Gone EXCEPT !.told = TRUE] \in ReaderState
  /\ [Gone EXCEPT !.told = TRUE].pc = "ended" /\ [Gone EXCEPT !.told = TRUE].batch = EmptyBag
BY EmptyBagLemma DEF NotStarted, Gone, ReaderState

\* A step of a reader replaces its own state, never makes it unstarted again, keeps
\* its stop event unless it ends, and touches neither the dict nor a join (ReaderStep).
LEMMA ReaderStepKinds ==
  ASSUME QueueTypeOK, NEW t \in Readers, ReaderStep(t)
  PROVE  /\ reader[t].pc \in {"head", "save", "hide"}
         /\ UNCHANGED <<readerThreads, joining, writer, queuePage>>
         /\ mishaps' \in {mishaps, mishaps + 1}
         /\ \E r \in ReaderState :
              /\ reader' = [reader EXCEPT ![t] = r]
              /\ r.pc # "off" /\ (r.pc # "ended" => r.told = reader[t].told)
              /\ r.pc = "ended" /\ ~r.told => r.batch = EmptyBag
<1> USE DEF QueueTypeOK
<1>0. reader[t] \in ReaderState OBVIOUS
<1> DEFINE Left(r) == /\ reader' = [reader EXCEPT ![t] = r]
                      /\ r.pc # "off" /\ (r.pc # "ended" => r.told = reader[t].told)
                      /\ r.pc = "ended" /\ ~r.told => r.batch = EmptyBag
<1>1. ASSUME NEW b \in MessageBags, Raised(t, b) PROVE \E r \in ReaderState : Left(r)
  <2>1. CASE reader' = [reader EXCEPT ![t].pc = "head", ![t].batch = b]
    <3>1. Left([reader[t] EXCEPT !.pc = "head", !.batch = b])
      BY <1>0, <2>1 DEF ReaderState
    <3>2. [reader[t] EXCEPT !.pc = "head", !.batch = b] \in ReaderState
      BY <1>0 DEF ReaderState
    <3> QED BY <3>1, <3>2
  <2>2. CASE reader' = [reader EXCEPT ![t] = Gone]
    <3>1. Left(Gone) BY <2>2, GoneType
    <3> QED BY <3>1, GoneType
  <2> QED BY <1>1, <2>1, <2>2 DEF Raised
<1>2. ASSUME NEW r \in ReaderState, RoundOver(t, r), r.batch = EmptyBag, r.told = reader[t].told
      PROVE  \E s \in ReaderState : Left(s)
  <2>1. ASSUME NEW p \in {"head", "ended"}, reader' = [reader EXCEPT ![t] = [r EXCEPT !.pc = p]]
        PROVE  \E s \in ReaderState : Left(s)
    <3>1. Left([r EXCEPT !.pc = p]) BY <1>2, <2>1 DEF ReaderState
    <3>2. [r EXCEPT !.pc = p] \in ReaderState BY DEF ReaderState
    <3> QED BY <3>1, <3>2
  <2>2. CASE reader' = [reader EXCEPT ![t] = Gone]
    <3>1. Left(Gone) BY <2>2, GoneType
    <3> QED BY <3>1, GoneType
  <2> QED BY <1>2, <2>1, <2>2 DEF RoundOver, AfterEmpty
<1>3. ASSUME NEW p \in {"head", "hide"}, reader' = [reader EXCEPT ![t].pc = p]
      PROVE  \E r \in ReaderState : Left(r)
  <2>1. Left([reader[t] EXCEPT !.pc = p]) BY <1>0, <1>3 DEF ReaderState
  <2>2. [reader[t] EXCEPT !.pc = p] \in ReaderState BY <1>0 DEF ReaderState
  <2> QED BY <2>1, <2>2
<1>4. reader[t].batch \in MessageBags BY <1>0 DEF ReaderState
<1>5. CASE LoopEnds(t)
  <2>1. Left([Gone EXCEPT !.told = TRUE])
    BY <1>5, GoneType DEF LoopEnds, Gone, NotStarted
  <2> QED BY <1>5, <2>1, GoneType DEF LoopEnds
<1>6. CASE Receive(t)
  <2>1. PICK S \in SUBSET At("visible") \ {{}} :
          /\ mail' = Moved(S, "reader")
          /\ \/ reader' = [reader EXCEPT ![t].batch = reader[t].batch (+) SetToBag(S)] /\ UNCHANGED mishaps
             \/ /\ Raised(t, reader[t].batch (+) SetToBag(S)) \/ Raised(t, reader[t].batch)
                /\ Mishap
    BY <1>6 DEF Receive
  <2> DEFINE longer == reader[t].batch (+) SetToBag(S)
  <2>2. longer \in MessageBags
    BY <1>4, MessageBagsClosed, MessageSetBag DEF At
  <2> HIDE DEF longer
  <2>3. ASSUME reader' = [reader EXCEPT ![t].batch = longer]
        PROVE  \E r \in ReaderState : Left(r)
    <3>1. Left([reader[t] EXCEPT !.batch = longer])
      BY <1>0, <1>6, <2>3 DEF ReaderState, Receive, Round
    <3>2. [reader[t] EXCEPT !.batch = longer] \in ReaderState
      BY <1>0, <2>2 DEF ReaderState
    <3> QED BY <3>1, <3>2
  <2>4. \E r \in ReaderState : Left(r)
    BY <1>1, <1>4, <2>1, <2>2, <2>3 DEF longer
  <2> HIDE DEF Left
  <2> QED BY <1>6, <2>1, <2>4 DEF Receive, Round, Mishap, Left
<1>7. CASE ReceiveRaises(t)
  BY <1>1, <1>4, <1>7 DEF ReceiveRaises, Round, Mishap
<1>8. CASE ReceiveNothing(t)
  <2> DEFINE r == [reader[t] EXCEPT !.empty = Rounds(@ + 1)]
  <2>1. r \in ReaderState /\ r.told = reader[t].told /\ r.batch = reader[t].batch
    BY <1>0, QueueAssumption DEF ReaderState, Rounds
  <2>2. IF r.batch = EmptyBag THEN RoundOver(t, r)
        ELSE reader' = [reader EXCEPT ![t] = [r EXCEPT !.pc = "save"]] /\ UNCHANGED mishaps
    BY <1>8 DEF ReceiveNothing
  <2> HIDE DEF r
  <2>3. CASE r.batch = EmptyBag
    BY <1>2, <1>8, <2>1, <2>2, <2>3 DEF ReceiveNothing, Round, RoundOver, Mishap
  <2>4. CASE r.batch # EmptyBag
    <3>1. Left([r EXCEPT !.pc = "save"]) BY <2>1, <2>2, <2>4 DEF ReaderState
    <3>2. [r EXCEPT !.pc = "save"] \in ReaderState BY <2>1 DEF ReaderState
    <3> QED BY <1>8, <2>2, <2>4, <3>1, <3>2 DEF ReceiveNothing, Round
  <2> QED BY <2>3, <2>4
<1>9. CASE Save(t)
  BY <1>1, <1>3, <1>4, <1>9 DEF Save, Mishap
<1>10. CASE Hide(t)
  <2> DEFINE r == [reader[t] EXCEPT !.batch = EmptyBag]
  <2>1. r \in ReaderState /\ r.told = reader[t].told /\ r.batch = EmptyBag
    BY <1>0, EmptyBagLemma DEF ReaderState
  <2>2. RoundOver(t, r) BY <1>10 DEF Hide
  <2> HIDE DEF r
  <2> QED BY <1>2, <1>10, <2>1, <2>2 DEF Hide, RoundOver, Mishap
<1>11. CASE HideRaises(t)
  BY <1>1, <1>3, <1>4, <1>11 DEF HideRaises, Mishap
<1> QED BY <1>5, <1>6, <1>7, <1>8, <1>9, <1>10, <1>11 DEF ReaderStep

\* Every step keeps the types.
LEMMA NextQueueTyped == QueueTypeOK /\ [QueueNext]_readerVars => QueueTypeOK'
<1> SUFFICES ASSUME QueueTypeOK, [QueueNext]_readerVars PROVE QueueTypeOK'
  OBVIOUS
<1> USE DEF QueueTypeOK
<1>1. ASSUME NEW S, NEW where \in Places, mail' = Moved(S, where)
      PROVE  mail' \in [QueueMessages -> Places]
  BY <1>1, MovedLemma
<1>2. Mishap => mishaps' \in Nat BY DEF Mishap
<1>3. ASSUME NEW q \in QueueMessages, Arrive(q) \/ Timeout(q) PROVE QueueTypeOK'
  BY <1>1, <1>2, <1>3 DEF Arrive, Timeout, Places
<1>4. ASSUME NEW t \in Readers, ReaderStep(t) PROVE QueueTypeOK'
  <2>1. reader' \in [Readers -> ReaderState] /\ mishaps' \in Nat
        /\ UNCHANGED <<readerThreads, joining, queuePage>>
    BY <1>4, ReaderStepKinds
  <2>2. mail' \in [QueueMessages -> Places]
    BY <1>1, <1>4 DEF ReaderStep, LoopEnds, Receive, ReceiveRaises, ReceiveNothing, Save,
                      Hide, HideRaises, Places
  <2>3. export' \in MessageBags
    <3>1. reader[t].batch \in MessageBags
      <4>1. reader[t] \in ReaderState OBVIOUS
      <4> QED BY <4>1 DEF ReaderState
    <3>2. export (+) reader[t].batch \in MessageBags BY <3>1, MessageBagsClosed
    <3> QED BY <1>4, <3>2 DEF ReaderStep, LoopEnds, Receive, ReceiveRaises, ReceiveNothing,
                              Save, Hide, HideRaises
  <2> QED BY <2>1, <2>2, <2>3 DEF Places
<1>5. ASSUME NEW t \in Readers, StartReceiving(t) PROVE QueueTypeOK'
  <2>1. readerThreads' \in [{QueueId, BrokerId} -> 0..MaxReaders]
    BY <1>5 DEF StartReceiving, Readers
  <2>2. reader' \in [Readers -> ReaderState]
    <3>1. reader[t] \in ReaderState OBVIOUS
    <3>2. [reader[t] EXCEPT !.pc = "head"] \in ReaderState BY <3>1 DEF ReaderState
    <3> QED BY <1>5, <3>2, GoneType DEF StartReceiving
  <2> QED BY <1>2, <1>5, <2>1, <2>2 DEF StartReceiving
<1>6. CASE StopReceiving
  <2> DEFINE t == readerThreads[QueueId]
  <2>1. t \in 0..MaxReaders OBVIOUS
  <2>2. CASE Alive(t)
    <3>1. t \in Readers BY <2>1, <2>2, QueueAssumption DEF Alive, NoReader, Readers
    <3>2. reader[t] \in ReaderState BY <3>1
    <3>3. [reader[t] EXCEPT !.told = TRUE] \in ReaderState BY <3>2 DEF ReaderState
    <3>4. reader' = [reader EXCEPT ![t] = [reader[t] EXCEPT !.told = TRUE]]
      BY <1>6, <2>2 DEF StopReceiving, Told
    <3>5. reader' \in [Readers -> ReaderState] BY <3>3, <3>4
    <3>6. joining' \in 0..MaxReaders /\ mishaps' \in Nat /\ UNCHANGED readerThreads
      BY <1>2, <1>6, <2>1, <2>2 DEF StopReceiving
    <3> QED BY <1>6, <3>5, <3>6 DEF StopReceiving
  <2>3. CASE ~Alive(t)
    <3>1. readerThreads' \in [{QueueId, BrokerId} -> 0..MaxReaders]
      BY <1>6, <2>3, QueueAssumption DEF StopReceiving, NoReader
    <3> QED BY <1>6, <2>3, <3>1 DEF StopReceiving
  <2> QED BY <2>2, <2>3
<1>7. CASE Joined
  <2>1. readerThreads' \in [{QueueId, BrokerId} -> 0..MaxReaders] /\ joining' \in 0..MaxReaders
    BY <1>7, QueueAssumption DEF Joined, NoReader
  <2> QED BY <1>7, <2>1 DEF Joined
<1>8. CASE StartWriter \/ PublishRow \/ PublishRowRaises
  BY <1>1, <1>2, <1>8 DEF StartWriter, PublishRow, PublishRowRaises, Places
<1>9. CASE SendMessages BY <1>1, <1>2, <1>9 DEF SendMessages, Places
<1>10. CASE ReceiveMessages
  <2>1. PICK S \in SUBSET At("visible") :
          /\ mail' = Moved(S, "page")
          /\ \/ queuePage' = [queuePage EXCEPT !.shown = S, !.acked = FALSE] /\ UNCHANGED mishaps
             \/ Mishap /\ UNCHANGED queuePage
    BY <1>10 DEF ReceiveMessages
  <2>2. S \in SUBSET QueueMessages BY DEF At
  <2>3. mail' \in [QueueMessages -> Places] BY <1>1, <2>1 DEF Places
  <2>4. queuePage' \in [shown : SUBSET QueueMessages, acked : BOOLEAN] BY <2>1, <2>2
  <2> QED BY <1>2, <1>10, <2>1, <2>3, <2>4 DEF ReceiveMessages, Places
<1>11. CASE ReceiveAndAck
  <2>1. PICK S \in SUBSET At("visible") : \E D \in Deletions(S) :
          /\ mail' = [q \in QueueMessages |->
                        IF q \in D THEN "deleted" ELSE IF q \in S THEN "page" ELSE mail[q]]
          /\ \/ /\ queuePage' = [queuePage EXCEPT !.shown = S, !.acked = S # {}]
                /\ UNCHANGED mishaps
             \/ Mishap /\ UNCHANGED queuePage
    BY <1>11 DEF ReceiveAndAck
  <2>2. S \in SUBSET QueueMessages BY DEF At
  <2>3. mail' \in [QueueMessages -> Places] BY <2>1 DEF Places
  <2>4. (S # {}) \in BOOLEAN OBVIOUS
  <2>5. queuePage' \in [shown : SUBSET QueueMessages, acked : BOOLEAN]
    BY <2>1, <2>2, <2>4
  <2> QED BY <1>2, <1>11, <2>1, <2>3, <2>5 DEF ReceiveAndAck, Places
<1>12. CASE AckShown
  BY <1>1, <1>2, <1>12 DEF AckShown, Places
<1>13. CASE CleanShown BY <1>13 DEF CleanShown
<1>14. CASE UNCHANGED readerVars BY <1>14 DEF readerVars
<1> QED
  BY <1>3, <1>4, <1>5, <1>6, <1>7, <1>8, <1>9, <1>10, <1>11, <1>12, <1>13, <1>14
     DEF QueueNext

\* The queue starts well typed.
LEMMA InitQueueTyped == QueueInit => QueueTypeOK
<1> SUFFICES ASSUME QueueInit PROVE QueueTypeOK
  OBVIOUS
<1>1. reader \in [Readers -> ReaderState] BY GoneType DEF QueueInit
<1>2. export \in MessageBags BY EmptyBagLemma DEF QueueInit
<1> QED BY <1>1, <1>2, QueueAssumption DEF QueueInit, QueueTypeOK, NoReader

\* Every state of the queue, of its readers and of its page is well typed, for any
\* messages and any number of readers (QueueTypeOK).
THEOREM QueueTypeCorrect == QueueSpec => []QueueTypeOK
BY InitQueueTyped, NextQueueTyped, PTL DEF QueueSpec

----------------------------------------------------------------------------
(* What is out of sight is saved *)

\* A step other than a reader's leaves the rows, the batches and the hidden messages
\* alone, and moves no reader but one that starts.
LEMMA OtherSteps ==
  ASSUME QueueTypeOK, [QueueNext]_readerVars, \A t \in Readers : ~ReaderStep(t)
  PROVE  /\ UNCHANGED export
         /\ \A q \in QueueMessages : mail'[q] = "hidden" => mail[q] = "hidden"
         /\ \A t \in Readers :
              \/ /\ reader'[t].pc = reader[t].pc /\ reader'[t].batch = reader[t].batch
                 /\ ~reader'[t].told => ~reader[t].told
              \/ /\ reader[t].pc = "off" /\ reader'[t].pc \in {"head", "ended"}
                 /\ reader'[t].pc = "head" => reader'[t].batch = reader[t].batch
                 /\ reader'[t].pc = "ended" => reader'[t].batch = EmptyBag
<1> USE DEF QueueTypeOK
<1>0. \A t \in Readers : reader[t] \in ReaderState OBVIOUS
<1>1. ASSUME UNCHANGED reader PROVE \A t \in Readers :
        /\ reader'[t].pc = reader[t].pc /\ reader'[t].batch = reader[t].batch
        /\ reader'[t].told = reader[t].told
  BY <1>1
<1>2. ASSUME NEW S, NEW where \in Places \ {"hidden"}, mail' = Moved(S, where)
      PROVE  \A q \in QueueMessages : mail'[q] = "hidden" => mail[q] = "hidden"
  BY <1>2, MovedLemma
<1>3. CASE \E q \in QueueMessages : Arrive(q) \/ Timeout(q)
  BY <1>1, <1>2, <1>3 DEF Arrive, Timeout, Places
<1>4. ASSUME NEW t \in Readers, StartReceiving(t)
      PROVE  \A u \in Readers :
              \/ /\ reader'[u].pc = reader[u].pc /\ reader'[u].batch = reader[u].batch
                 /\ reader'[u].told = reader[u].told
              \/ /\ reader[u].pc = "off" /\ reader'[u].pc \in {"head", "ended"}
                 /\ reader'[u].pc = "head" => reader'[u].batch = reader[u].batch
                 /\ reader'[u].pc = "ended" => reader'[u].batch = EmptyBag
  <2>1. CASE reader' = [reader EXCEPT ![t].pc = "head"]
    BY <1>0, <1>4, <2>1 DEF StartReceiving, ReaderState
  <2>2. CASE reader' = [reader EXCEPT ![t] = Gone]
    BY <1>0, <1>4, <2>2, GoneType DEF StartReceiving, ReaderState
  <2> QED BY <1>4, <2>1, <2>2 DEF StartReceiving
<1>5. ASSUME StopReceiving
      PROVE  \A u \in Readers :
               /\ reader'[u].pc = reader[u].pc /\ reader'[u].batch = reader[u].batch
               /\ ~reader'[u].told => ~reader[u].told
  <2>1. CASE reader' = Told(readerThreads[QueueId])
    BY <1>0, <2>1 DEF Told, ReaderState
  <2>2. CASE UNCHANGED reader BY <1>1, <2>2
  <2> QED BY <1>5, <2>1, <2>2 DEF StopReceiving
<1>6. CASE Joined \/ StartWriter \/ PublishRow \/ PublishRowRaises \/ SendMessages \/ CleanShown
  BY <1>1, <1>2, <1>6 DEF Joined, StartWriter, PublishRow, PublishRowRaises, SendMessages,
                          CleanShown, Places
<1>7. CASE ReceiveMessages \/ ReceiveAndAck \/ AckShown
  BY <1>1, <1>2, <1>7 DEF ReceiveMessages, ReceiveAndAck, AckShown, Places
<1>8. CASE UNCHANGED readerVars BY <1>1, <1>8 DEF readerVars
<1>9. CASE \E t \in Readers : StartReceiving(t)
  BY <1>4, <1>9 DEF StartReceiving
<1>10. CASE StopReceiving BY <1>5, <1>10 DEF StopReceiving
<1> QED
  BY <1>3, <1>6, <1>7, <1>8, <1>9, <1>10 DEF QueueNext

\* A reader deletes no row, comes to its hiding only from a save, and hides only what
\* is in its batch (ReaderStep).
LEMMA ReaderStepSaves ==
  ASSUME QueueTypeOK, NEW t \in Readers, ReaderStep(t)
  PROVE  /\ BagToSet(export) \subseteq BagToSet(export')
         /\ reader'[t].pc = "hide" => BagToSet(reader'[t].batch) \subseteq BagToSet(export')
         /\ \A q \in QueueMessages : mail'[q] = "hidden" =>
              \/ mail[q] = "hidden"
              \/ reader[t].pc = "hide" /\ q \in BagToSet(reader[t].batch)
<1> USE DEF QueueTypeOK
<1>0. reader[t] \in ReaderState OBVIOUS
<1>1. ASSUME NEW S, NEW where \in Places \ {"hidden"}, mail' = Moved(S, where)
      PROVE  \A q \in QueueMessages : mail'[q] = "hidden" => mail[q] = "hidden"
  BY <1>1, MovedLemma
<1>2. ASSUME NEW S \in SUBSET Current(t), mail' = Moved(S, "hidden"), reader[t].pc = "hide"
      PROVE  \A q \in QueueMessages : mail'[q] = "hidden" =>
               \/ mail[q] = "hidden"
               \/ reader[t].pc = "hide" /\ q \in BagToSet(reader[t].batch)
  BY <1>2, MovedLemma DEF Current, Places
<1>3. ASSUME NEW b, Raised(t, b) PROVE reader'[t].pc # "hide"
  BY <1>0, <1>3, GoneType DEF Raised, ReaderState
<1>4. ASSUME NEW r \in ReaderState, RoundOver(t, r) PROVE reader'[t].pc # "hide"
  <2>1. ASSUME NEW p \in {"head", "ended"}, reader' = [reader EXCEPT ![t] = [r EXCEPT !.pc = p]]
        PROVE  reader'[t].pc # "hide"
    BY <2>1 DEF ReaderState
  <2>2. reader' = [reader EXCEPT ![t] = Gone] => reader'[t].pc # "hide" BY GoneType
  <2> QED BY <1>4, <2>1, <2>2 DEF RoundOver, AfterEmpty
<1>5. CASE LoopEnds(t)
  <2>1. reader'[t].pc # "hide" BY <1>5, GoneType DEF LoopEnds
  <2> QED BY <1>5, <2>1 DEF LoopEnds
<1>6. CASE Receive(t)
  <2>1. reader'[t].pc # "hide" BY <1>0, <1>3, <1>6 DEF Receive, Round, ReaderState
  <2>2. \A q \in QueueMessages : mail'[q] = "hidden" => mail[q] = "hidden"
    BY <1>1, <1>6 DEF Receive, Places
  <2> QED BY <1>6, <2>1, <2>2 DEF Receive
<1>7. CASE ReceiveRaises(t) BY <1>3, <1>7 DEF ReceiveRaises
<1>8. CASE ReceiveNothing(t)
  <2> DEFINE r == [reader[t] EXCEPT !.empty = Rounds(@ + 1)]
  <2>1. r \in ReaderState BY <1>0, QueueAssumption DEF ReaderState, Rounds
  <2>2. RoundOver(t, r) \/ reader' = [reader EXCEPT ![t] = [r EXCEPT !.pc = "save"]]
    BY <1>8 DEF ReceiveNothing
  <2> HIDE DEF r
  <2>3. reader'[t].pc # "hide" BY <1>4, <2>1, <2>2 DEF ReaderState
  <2> QED BY <1>8, <2>3 DEF ReceiveNothing
<1>9. CASE Save(t)
  <2>1. UNCHANGED mail BY <1>9 DEF Save
  <2>2. BagToSet(export) \subseteq BagToSet(export')
    BY <1>9, BagUnionLemma DEF Save
  <2>3. ASSUME export' = export (+) reader[t].batch, reader' = [reader EXCEPT ![t].pc = "hide"]
        PROVE  BagToSet(reader'[t].batch) \subseteq BagToSet(export')
    BY <1>0, <2>3, BagUnionLemma DEF ReaderState
  <2>4. ASSUME reader' = [reader EXCEPT ![t].pc = "head"] PROVE reader'[t].pc # "hide"
    BY <1>0, <2>4 DEF ReaderState
  <2> QED BY <1>3, <1>9, <2>1, <2>2, <2>3, <2>4 DEF Save
<1>10. CASE Hide(t)
  <2> DEFINE r == [reader[t] EXCEPT !.batch = EmptyBag]
  <2>1. r \in ReaderState BY <1>0, EmptyBagLemma DEF ReaderState
  <2>2. RoundOver(t, r) BY <1>10 DEF Hide
  <2> HIDE DEF r
  <2> QED BY <1>2, <1>4, <1>10, <2>1, <2>2 DEF Hide
<1>11. CASE HideRaises(t)
  <2>1. reader'[t].pc # "hide" BY <1>0, <1>3, <1>11 DEF HideRaises, ReaderState
  <2> QED BY <1>2, <1>11, <2>1 DEF HideRaises
<1> QED BY <1>5, <1>6, <1>7, <1>8, <1>9, <1>10, <1>11 DEF ReaderStep

\* A message that a reader hides has a row in the export table, and a reader that gives
\* up by itself holds nothing, whatever raises and whoever stops it (HiddenIsSaved).
THEOREM HiddenCorrect == QueueSpec => []HiddenIsSaved
<1> DEFINE Inv == QueueTypeOK /\ SavedFirst /\ HiddenIsSaved
<1>1. QueueInit => Inv
  <2> SUFFICES ASSUME QueueInit PROVE SavedFirst /\ HiddenIsSaved
    BY InitQueueTyped
  <2>1. \A t \in Readers : reader[t].pc = "off" /\ reader[t].batch = EmptyBag
    BY GoneType DEF QueueInit
  <2> QED BY <2>1 DEF QueueInit, SavedFirst, HiddenIsSaved, At
<1>2. Inv /\ [QueueNext]_readerVars => Inv'
  <2> SUFFICES ASSUME Inv, [QueueNext]_readerVars PROVE SavedFirst' /\ HiddenIsSaved'
    BY NextQueueTyped
  <2>0. /\ \A u \in Readers : reader[u] \in ReaderState
        /\ \A q \in QueueMessages : mail[q] = "hidden" => q \in BagToSet(export)
    BY DEF QueueTypeOK, HiddenIsSaved, At, BagIn
  <2>1. ASSUME NEW t \in Readers, ReaderStep(t) PROVE SavedFirst' /\ HiddenIsSaved'
    <3>1. PICK r \in ReaderState :
            reader' = [reader EXCEPT ![t] = r] /\ (r.pc = "ended" /\ ~r.told => r.batch = EmptyBag)
      BY <2>1, ReaderStepKinds
    <3>2. reader'[t] = r /\ \A u \in Readers \ {t} : reader'[u] = reader[u]
      BY <3>1 DEF QueueTypeOK
    <3>3. /\ BagToSet(export) \subseteq BagToSet(export')
          /\ r.pc = "hide" => BagToSet(r.batch) \subseteq BagToSet(export')
          /\ \A q \in QueueMessages : mail'[q] = "hidden" =>
               mail[q] = "hidden" \/ (reader[t].pc = "hide" /\ q \in BagToSet(reader[t].batch))
      BY <2>1, <3>2, ReaderStepSaves
    <3>4. SavedFirst' BY <3>2, <3>3 DEF SavedFirst
    <3>5. \A q \in QueueMessages : mail'[q] = "hidden" => q \in BagToSet(export')
      BY <2>0, <3>3 DEF SavedFirst
    <3>6. \A u \in Readers : reader'[u].pc = "ended" /\ ~reader'[u].told => reader'[u].batch = EmptyBag
      BY <3>1, <3>2 DEF HiddenIsSaved
    <3> QED BY <3>4, <3>5, <3>6 DEF HiddenIsSaved, At, BagIn
  <2>2. CASE \A t \in Readers : ~ReaderStep(t)
    <3>1. export' = export
          /\ \A q \in QueueMessages : mail'[q] = "hidden" => mail[q] = "hidden"
      BY <2>2, OtherSteps
    <3>2. \A u \in Readers :
            /\ reader'[u].pc = "hide" =>
                 reader[u].pc = "hide" /\ reader'[u].batch = reader[u].batch
            /\ reader'[u].pc = "ended" /\ ~reader'[u].told =>
                 \/ reader'[u].batch = EmptyBag
                 \/ /\ reader[u].pc = "ended" /\ ~reader[u].told
                    /\ reader'[u].batch = reader[u].batch
      BY <2>2, OtherSteps
    <3>3. SavedFirst' BY <3>1, <3>2 DEF SavedFirst
    <3>4. \A u \in Readers : reader'[u].pc = "ended" /\ ~reader'[u].told => reader'[u].batch = EmptyBag
      BY <3>2 DEF HiddenIsSaved
    <3> QED BY <2>0, <3>1, <3>3, <3>4 DEF HiddenIsSaved, At, BagIn
  <2> QED BY <2>1, <2>2
<1>3. Inv => HiddenIsSaved OBVIOUS
<1> QED BY <1>1, <1>2, <1>3, PTL DEF QueueSpec

----------------------------------------------------------------------------
(* No stop forgets a reader *)

\* A live reader that was not told to stop is the one a stop would reach, unless a
\* later start took its place (LatestIsStoppable).
THEOREM StoppableCorrect == QueueSpec => []LatestIsStoppable
<1> DEFINE Inv == QueueTypeOK /\ StartedInOrder /\ LatestIsStoppable
<1>1. QueueInit => Inv
  <2> SUFFICES ASSUME QueueInit PROVE StartedInOrder /\ LatestIsStoppable
    BY InitQueueTyped
  <2>1. \A t \in Readers : reader[t].pc = "off" BY GoneType DEF QueueInit
  <2> QED BY <2>1 DEF QueueInit, StartedInOrder, LatestIsStoppable, Alive
<1>2. Inv /\ [QueueNext]_readerVars => Inv'
  <2> SUFFICES ASSUME Inv, [QueueNext]_readerVars PROVE StartedInOrder' /\ LatestIsStoppable'
    BY NextQueueTyped
  <2>0. /\ \A u \in Readers : reader[u] \in ReaderState /\ u \in Nat /\ u # NoReader
        /\ MaxReaders \in Nat
    BY QueueAssumption DEF QueueTypeOK, Readers, NoReader
  <2>1. ASSUME UNCHANGED <<readerThreads, joining>>,
               \A u \in Readers : /\ (reader'[u].pc = "off") = (reader[u].pc = "off")
                                  /\ reader'[u].pc \notin {"off", "ended"} /\ ~reader'[u].told =>
                                       reader[u].pc \notin {"off", "ended"} /\ ~reader[u].told
        PROVE  StartedInOrder' /\ LatestIsStoppable'
    <3>1. StartedInOrder' BY <2>1 DEF StartedInOrder
    <3>2. \A u \in Readers : Alive(u)' /\ ~reader'[u].told => Alive(u) /\ ~reader[u].told
      BY <2>1 DEF Alive
    <3>3. \A u \in Readers : \A w \in (u + 1)..MaxReaders : w \in Readers
      BY <2>0 DEF Readers
    <3>4. LatestIsStoppable' BY <2>1, <3>2, <3>3 DEF LatestIsStoppable
    <3> QED BY <3>1, <3>4
  <2>2. ASSUME NEW t \in Readers, ReaderStep(t) PROVE StartedInOrder' /\ LatestIsStoppable'
    <3>1. PICK r \in ReaderState :
            /\ reader' = [reader EXCEPT ![t] = r] /\ r.pc # "off"
            /\ r.pc # "ended" => r.told = reader[t].told
      BY <2>2, ReaderStepKinds
    <3>2. reader[t].pc \in {"head", "save", "hide"} /\ UNCHANGED <<readerThreads, joining>>
      BY <2>2, ReaderStepKinds
    <3>3. reader'[t] = r /\ \A u \in Readers \ {t} : reader'[u] = reader[u]
      BY <3>1 DEF QueueTypeOK
    <3>4. \A u \in Readers : /\ (reader'[u].pc = "off") = (reader[u].pc = "off")
                             /\ reader'[u].pc \notin {"off", "ended"} /\ ~reader'[u].told =>
                                  reader[u].pc \notin {"off", "ended"} /\ ~reader[u].told
      BY <3>1, <3>2, <3>3
    <3> QED BY <2>1, <3>2, <3>4
  <2>3. ASSUME NEW t \in Readers, StartReceiving(t) PROVE StartedInOrder' /\ LatestIsStoppable'
    <3>1. /\ joining = NoReader /\ joining' = joining /\ readerThreads'[QueueId] = t
          /\ reader[t].pc = "off" /\ \A u \in 1..(t - 1) : reader[u].pc # "off"
      BY <2>3 DEF StartReceiving, QueueTypeOK
    <3>2. /\ reader'[t].pc # "off" /\ \A u \in Readers \ {t} : reader'[u] = reader[u]
      BY <2>0, <2>3, GoneType DEF StartReceiving, QueueTypeOK, ReaderState
    <3>3. \A u \in Readers : u > t => reader[u].pc = "off" BY <3>1 DEF StartedInOrder
    <3>4. \A u \in Readers : u < t => reader[u].pc # "off"
      BY <2>0, <3>1 DEF Readers
    <3>5. StartedInOrder'
      <4>1. ASSUME NEW u \in Readers, NEW w \in Readers, u < w, reader'[u].pc = "off"
            PROVE  reader'[w].pc = "off"
        <5>1. u # t /\ reader[u].pc = "off" BY <3>2, <4>1
        <5>2. u > t /\ w > t BY <2>0, <3>4, <4>1, <5>1
        <5> QED BY <2>0, <3>2, <3>3, <5>2
      <4> QED BY <3>1, <4>1 DEF StartedInOrder
    <3>6. ASSUME NEW u \in Readers, Alive(u)', ~reader'[u].told
          PROVE  readerThreads'[QueueId] = u \/ \E w \in (u + 1)..MaxReaders : reader'[w].pc # "off"
      <4>1. CASE u = t BY <3>1, <4>1
      <4>2. CASE u # t
        <5>1. reader[u].pc # "off" BY <3>2, <3>6, <4>2 DEF Alive
        <5>2. u < t BY <2>0, <3>3, <4>2, <5>1
        <5>3. t \in (u + 1)..MaxReaders BY <2>0, <5>2 DEF Readers
        <5> QED BY <3>2, <5>3
      <4> QED BY <4>1, <4>2
    <3>7. LatestIsStoppable' BY <3>6 DEF LatestIsStoppable
    <3> QED BY <3>5, <3>7
  <2>4. CASE StopReceiving
    <3> DEFINE t == readerThreads[QueueId]
    <3>0. t \in 0..MaxReaders /\ t # NoReader /\ joining = NoReader
      BY <2>4 DEF StopReceiving, QueueTypeOK
    <3>1. CASE Alive(t)
      <4>1. t \in Readers BY <3>0, QueueAssumption DEF Readers, NoReader
      <4>2. reader' = Told(t) /\ UNCHANGED readerThreads /\ joining' \in {t, joining}
        BY <2>4, <3>1 DEF StopReceiving
      <4>3. /\ reader'[t].told /\ reader'[t].pc = reader[t].pc
            /\ \A u \in Readers \ {t} : reader'[u] = reader[u]
        BY <2>0, <4>1, <4>2 DEF Told, QueueTypeOK, ReaderState
      <4>4. StartedInOrder' BY <3>0, <4>2, <4>3 DEF StartedInOrder
      <4>5. \A u \in Readers : Alive(u)' /\ ~reader'[u].told => Alive(u) /\ ~reader[u].told
        BY <4>3 DEF Alive
      <4>6. \A u \in Readers : \A w \in (u + 1)..MaxReaders : w \in Readers
        BY <2>0 DEF Readers
      <4>7. \A u \in Readers : reader'[u].pc = reader[u].pc BY <4>3
      <4>8. LatestIsStoppable' BY <4>2, <4>5, <4>6, <4>7 DEF LatestIsStoppable
      <4> QED BY <4>4, <4>8
    <3>2. CASE ~Alive(t)
      <4>1. UNCHANGED <<reader, joining>> BY <2>4, <3>2 DEF StopReceiving
      <4>2. StartedInOrder' BY <3>0, <4>1 DEF StartedInOrder
      <4>3. LatestIsStoppable' BY <3>2, <4>1 DEF LatestIsStoppable, Alive
      <4> QED BY <4>2, <4>3
    <3> QED BY <3>1, <3>2
  <2>5. CASE Joined
    <3>1. /\ UNCHANGED reader /\ joining' = NoReader
          /\ ~Alive(readerThreads[QueueId])
      BY <2>5 DEF Joined, StartedInOrder
    <3>2. StartedInOrder' BY <3>1 DEF StartedInOrder
    <3>3. LatestIsStoppable' BY <3>1 DEF LatestIsStoppable, Alive
    <3> QED BY <3>2, <3>3
  <2>6. CASE UNCHANGED <<reader, readerThreads, joining>>
    BY <2>1, <2>6
  <2>7. CASE \E q \in QueueMessages : Arrive(q) \/ Timeout(q)
    BY <2>6, <2>7 DEF Arrive, Timeout
  <2>8. CASE StartWriter \/ PublishRow \/ PublishRowRaises \/ SendMessages
    BY <2>6, <2>8 DEF StartWriter, PublishRow, PublishRowRaises, SendMessages
  <2>9. CASE ReceiveMessages \/ ReceiveAndAck \/ AckShown \/ CleanShown
    BY <2>6, <2>9 DEF ReceiveMessages, ReceiveAndAck, AckShown, CleanShown
  <2>10. CASE UNCHANGED readerVars BY <2>6, <2>10 DEF readerVars
  <2> QED BY <2>2, <2>3, <2>4, <2>5, <2>7, <2>8, <2>9, <2>10 DEF QueueNext
<1>3. Inv => LatestIsStoppable OBVIOUS
<1> QED BY <1>1, <1>2, <1>3, PTL DEF QueueSpec

----------------------------------------------------------------------------
(* Exported at most once *)

Untroubled == mishaps = 0 => HeldByOne

\* What HeldByOne asks of two messages' readers and rows, for a step that replaces the
\* state of reader t by r.
LEMMA HeldByOneStep ==
  ASSUME QueueTypeOK, HeldByOne, NEW t \in Readers, NEW r \in ReaderState,
         reader' = [reader EXCEPT ![t] = r],
         \A q \in BagToSet(r.batch) :
           /\ r.batch[q] = 1 /\ mail'[q] = "reader"
           /\ r.pc # "hide" => q \notin BagToSet(export'),
         \A u \in Readers \ {t} : \A q \in BagToSet(reader[u].batch) :
           /\ mail'[q] = mail[q] /\ q \notin BagToSet(r.batch)
           /\ q \in BagToSet(export') => q \in BagToSet(export),
         \A q \in BagToSet(export') : export'[q] = 1 /\ mail'[q] \in {"reader", "hidden"}
  PROVE  HeldByOne'
<1>1. reader'[t] = r /\ \A u \in Readers \ {t} : reader'[u] = reader[u]
  BY DEF QueueTypeOK
<1>2. ASSUME NEW u \in Readers, NEW q \in BagToSet(reader'[u].batch)
      PROVE  /\ reader'[u].batch[q] = 1 /\ mail'[q] = "reader"
             /\ reader'[u].pc # "hide" => q \notin BagToSet(export')
  <2>1. CASE u = t BY <1>1, <1>2, <2>1
  <2>2. CASE u # t
    <3>1. reader'[u] = reader[u] /\ q \in BagToSet(reader[u].batch) BY <1>1, <1>2, <2>2
    <3> QED BY <2>2, <3>1 DEF HeldByOne
  <2> QED BY <2>1, <2>2
<1>3. ASSUME NEW u \in Readers, NEW w \in Readers, u # w
      PROVE  BagToSet(reader'[u].batch) \cap BagToSet(reader'[w].batch) = {}
  <2>1. CASE u = t BY <1>1, <1>3, <2>1
  <2>2. CASE w = t BY <1>1, <1>3, <2>2
  <2>3. CASE u # t /\ w # t BY <1>1, <1>3, <2>3 DEF HeldByOne
  <2> QED BY <2>1, <2>2, <2>3
<1> QED BY <1>2, <1>3 DEF HeldByOne

\* Without mishaps every step of a reader keeps each message in one batch.
LEMMA ReaderStepOnce ==
  ASSUME QueueTypeOK, HeldByOne, mishaps = 0, mishaps' = 0, NEW t \in Readers, ReaderStep(t)
  PROVE  HeldByOne'
<1> DEFINE b == reader[t].batch
           B == BagToSet(b)
<1>0. reader[t] \in ReaderState /\ b \in MessageBags /\ B \subseteq QueueMessages
  <2>1. reader[t] \in ReaderState BY DEF QueueTypeOK
  <2>2. b \in MessageBags BY <2>1 DEF ReaderState
  <2> QED BY <2>1, <2>2, MessageBagSet
<1>1. ~Mishap BY DEF Mishap
<1>2. /\ \A q \in B : b[q] = 1 /\ mail[q] = "reader"
      /\ reader[t].pc \in {"head", "save"} => \A q \in B : q \notin BagToSet(export)
      /\ \A u \in Readers \ {t} : \A q \in BagToSet(reader[u].batch) :
           q \notin B /\ mail[q] = "reader" /\ q \in QueueMessages
      /\ \A q \in BagToSet(export) :
           q \in QueueMessages /\ export[q] = 1 /\ mail[q] \in {"reader", "hidden"}
  <2>1. \A u \in Readers : BagToSet(reader[u].batch) \subseteq QueueMessages
    <3> SUFFICES ASSUME NEW u \in Readers PROVE BagToSet(reader[u].batch) \subseteq QueueMessages
      OBVIOUS
    <3>1. reader[u] \in ReaderState BY DEF QueueTypeOK
    <3> QED BY <3>1, MessageBagSet DEF ReaderState
  <2>2. BagToSet(export) \subseteq QueueMessages BY MessageBagSet DEF QueueTypeOK
  <2> QED BY <2>1, <2>2 DEF HeldByOne
<1>3. BagToSet(EmptyBag) = {} BY EmptyBagLemma
<1>4. ASSUME NEW r \in ReaderState, reader' = [reader EXCEPT ![t] = r], UNCHANGED <<mail, export>>,
             r.batch = EmptyBag \/ (r.batch = b /\ reader[t].pc \in {"head", "save"})
      PROVE  HeldByOne'
  <2>1. BagToSet(r.batch) = {} \/ (r.batch = b /\ reader[t].pc \in {"head", "save"})
    BY <1>3, <1>4
  <2>2. \A q \in BagToSet(r.batch) :
          /\ r.batch[q] = 1 /\ mail'[q] = "reader"
          /\ r.pc # "hide" => q \notin BagToSet(export')
    BY <1>2, <1>4, <2>1
  <2>3. \A u \in Readers \ {t} : \A q \in BagToSet(reader[u].batch) :
          /\ mail'[q] = mail[q] /\ q \notin BagToSet(r.batch)
          /\ q \in BagToSet(export') => q \in BagToSet(export)
    BY <1>2, <1>4, <2>1
  <2>4. \A q \in BagToSet(export') : export'[q] = 1 /\ mail'[q] \in {"reader", "hidden"}
    BY <1>2, <1>4
  <2> QED BY <1>4, <2>2, <2>3, <2>4, HeldByOneStep
<1>5. ASSUME NEW r \in ReaderState, RoundOver(t, r), r.batch = EmptyBag
      PROVE  \E s \in ReaderState : reader' = [reader EXCEPT ![t] = s] /\ s.batch = EmptyBag
  <2>1. ASSUME NEW p \in {"head", "ended"}, reader' = [reader EXCEPT ![t] = [r EXCEPT !.pc = p]]
        PROVE  \E s \in ReaderState : reader' = [reader EXCEPT ![t] = s] /\ s.batch = EmptyBag
    <3>1. [r EXCEPT !.pc = p] \in ReaderState /\ [r EXCEPT !.pc = p].batch = EmptyBag
      BY <1>5 DEF ReaderState
    <3> QED BY <2>1, <3>1
  <2> QED BY <1>1, <1>5, <2>1 DEF RoundOver, AfterEmpty
<1>6. CASE LoopEnds(t)
  BY <1>4, <1>6, GoneType DEF LoopEnds
<1>7. CASE Receive(t)
  <2>1. PICK S \in SUBSET At("visible") :
          /\ mail' = Moved(S, "reader")
          /\ reader' = [reader EXCEPT ![t].batch = b (+) SetToBag(S)]
    BY <1>1, <1>7 DEF Receive
  <2> DEFINE longer == b (+) SetToBag(S)
             r == [reader[t] EXCEPT !.batch = longer]
  <2>2. S \subseteq QueueMessages /\ \A q \in S : mail[q] = "visible" BY DEF At
  <2>3. longer \in MessageBags BY <1>0, <2>2, MessageBagsClosed, MessageSetBag
  <2>4. BagToSet(longer) = B \cup S /\ \A q \in B \cup S : longer[q] = 1
    <3>1. B \cap S = {} BY <1>2, <2>2
    <3>2. BagToSet(SetToBag(S)) = S /\ \A q \in S : SetToBag(S)[q] = 1 BY SetToBagLemma
    <3>3. BagToSet(longer) = B \cup S BY <3>2, BagUnionLemma
    <3>4. \A q \in BagToSet(longer) :
            longer[q] = (IF q \in B THEN b[q] ELSE 0) + (IF q \in S THEN SetToBag(S)[q] ELSE 0)
      BY <3>2, BagUnionLemma
    <3> HIDE DEF b, B, longer
    <3> QED BY <1>2, <3>1, <3>2, <3>3, <3>4
  <2> HIDE DEF longer
  <2>5. r \in ReaderState /\ r.batch = longer /\ r.pc = reader[t].pc
        /\ reader' = [reader EXCEPT ![t] = r]
    BY <1>0, <2>1, <2>3 DEF ReaderState, longer
  <2>6. \A q \in QueueMessages : mail'[q] = IF q \in S THEN "reader" ELSE mail[q]
    BY <2>1, MovedLemma DEF Places
  <2>7. UNCHANGED export /\ reader[t].pc = "head" BY <1>7 DEF Receive, Round
  <2> HIDE DEF r
  <2>8. \A q \in BagToSet(r.batch) :
          /\ r.batch[q] = 1 /\ mail'[q] = "reader"
          /\ r.pc # "hide" => q \notin BagToSet(export')
    BY <1>0, <1>2, <2>2, <2>4, <2>5, <2>6, <2>7
  <2>9. \A u \in Readers \ {t} : \A q \in BagToSet(reader[u].batch) :
          /\ mail'[q] = mail[q] /\ q \notin BagToSet(r.batch)
          /\ q \in BagToSet(export') => q \in BagToSet(export)
    BY <1>2, <2>2, <2>4, <2>5, <2>6, <2>7
  <2>10. \A q \in BagToSet(export') : export'[q] = 1 /\ mail'[q] \in {"reader", "hidden"}
    BY <1>2, <2>6, <2>7
  <2> QED BY <2>5, <2>7, <2>8, <2>9, <2>10, HeldByOneStep
<1>8. CASE ReceiveRaises(t) BY <1>1, <1>8 DEF ReceiveRaises
<1>9. CASE ReceiveNothing(t)
  <2> DEFINE r == [reader[t] EXCEPT !.empty = Rounds(@ + 1)]
  <2>1. r \in ReaderState /\ r.batch = b
    BY <1>0, QueueAssumption DEF ReaderState, Rounds
  <2>2. IF r.batch = EmptyBag THEN RoundOver(t, r)
        ELSE reader' = [reader EXCEPT ![t] = [r EXCEPT !.pc = "save"]]
    BY <1>9 DEF ReceiveNothing
  <2>3. UNCHANGED <<mail, export>> /\ reader[t].pc = "head"
    BY <1>9 DEF ReceiveNothing, Round
  <2> HIDE DEF r, b
  <2>4. CASE r.batch = EmptyBag
    BY <1>4, <1>5, <2>1, <2>2, <2>3, <2>4
  <2>5. CASE r.batch # EmptyBag
    <3>1. [r EXCEPT !.pc = "save"] \in ReaderState /\ [r EXCEPT !.pc = "save"].batch = b
      BY <2>1 DEF ReaderState
    <3> QED BY <1>4, <2>2, <2>3, <2>5, <3>1
  <2> QED BY <2>4, <2>5
<1>10. CASE Save(t)
  <2>1. UNCHANGED mail /\ reader[t].pc = "save" BY <1>10 DEF Save
  <2>2. CASE reader' = [reader EXCEPT ![t].pc = "head"] /\ UNCHANGED export
    <3>1. /\ [reader[t] EXCEPT !.pc = "head"] \in ReaderState
          /\ [reader[t] EXCEPT !.pc = "head"].batch = b
      BY <1>0 DEF ReaderState
    <3> QED BY <1>4, <2>1, <2>2, <3>1
  <2>3. CASE reader' = [reader EXCEPT ![t].pc = "hide"] /\ export' = export (+) b
    <3> DEFINE r == [reader[t] EXCEPT !.pc = "hide"]
    <3>1. r \in ReaderState /\ r.batch = b /\ r.pc = "hide" /\ reader' = [reader EXCEPT ![t] = r]
      BY <1>0, <2>3 DEF ReaderState
    <3> HIDE DEF r
    <3>2. /\ BagToSet(export') = BagToSet(export) \cup B
          /\ \A q \in BagToSet(export') :
               export'[q] = (IF q \in BagToSet(export) THEN export[q] ELSE 0)
                          + (IF q \in B THEN b[q] ELSE 0)
      BY <2>3, BagUnionLemma
    <3> HIDE DEF b, B
    <3>3. \A q \in B : q \notin BagToSet(export) BY <1>2, <2>1
    <3>4. \A q \in BagToSet(export') : export'[q] = 1 /\ mail'[q] \in {"reader", "hidden"}
      BY <1>2, <2>1, <3>2, <3>3
    <3>5. BagToSet(r.batch) = B BY <3>1 DEF B
    <3>6. \A u \in Readers \ {t} : \A q \in BagToSet(reader[u].batch) :
            /\ mail'[q] = mail[q] /\ q \notin BagToSet(r.batch)
            /\ q \in BagToSet(export') => q \in BagToSet(export)
      BY <1>2, <2>1, <3>2, <3>5
    <3>7. \A q \in BagToSet(r.batch) :
            /\ r.batch[q] = 1 /\ mail'[q] = "reader"
            /\ r.pc # "hide" => q \notin BagToSet(export')
      BY <1>2, <2>1, <3>1, <3>5
    <3> QED BY <3>1, <3>4, <3>6, <3>7, HeldByOneStep
  <2> QED BY <1>1, <1>10, <2>2, <2>3 DEF Save
<1>11. CASE Hide(t)
  <2> DEFINE r == [reader[t] EXCEPT !.batch = EmptyBag]
  <2>1. r \in ReaderState /\ r.batch = EmptyBag
    BY <1>0, EmptyBagLemma DEF ReaderState
  <2>2. RoundOver(t, r) /\ mail' = Moved(Current(t), "hidden") /\ UNCHANGED export
    BY <1>11 DEF Hide
  <2> HIDE DEF r
  <2>3. PICK s \in ReaderState : reader' = [reader EXCEPT ![t] = s] /\ s.batch = EmptyBag
    BY <1>5, <2>1, <2>2
  <2>4. \A q \in QueueMessages : mail'[q] = IF q \in Current(t) THEN "hidden" ELSE mail[q]
    BY <2>2, MovedLemma DEF Places
  <2>5. Current(t) \subseteq B BY DEF Current
  <2>6. \A u \in Readers \ {t} : \A q \in BagToSet(reader[u].batch) : mail'[q] = mail[q]
    BY <1>2, <2>4, <2>5
  <2>7. \A q \in BagToSet(export') : export'[q] = 1 /\ mail'[q] \in {"reader", "hidden"}
    BY <1>2, <2>2, <2>4
  <2> QED BY <1>3, <2>2, <2>3, <2>6, <2>7, HeldByOneStep, ZenonT(40)
<1>12. CASE HideRaises(t)
  <2>1. B \subseteq At("reader") BY <1>0, <1>2 DEF At
  <2>2. BagToSet(b) = Current(t) BY <2>1 DEF Current
  <2> QED BY <1>1, <1>12, <2>2 DEF HideRaises
<1> QED BY <1>6, <1>7, <1>8, <1>9, <1>10, <1>11, <1>12 DEF ReaderStep

\* Without mishaps a step other than a reader's moves only messages that no reader has.
LEMMA OtherStepsOnce ==
  ASSUME QueueTypeOK, [QueueNext]_readerVars, \A t \in Readers : ~ReaderStep(t), ~Mishap
  PROVE  \A q \in QueueMessages : mail[q] \in {"reader", "hidden"} => mail'[q] = mail[q]
<1> USE DEF QueueTypeOK
<1>1. ASSUME NEW S, NEW where \in Places, mail' = Moved(S, where),
             \A q \in S : mail[q] \notin {"reader", "hidden"}
      PROVE  \A q \in QueueMessages : mail[q] \in {"reader", "hidden"} => mail'[q] = mail[q]
  BY <1>1, MovedLemma
<1>2. CASE \E q \in QueueMessages : Arrive(q) \/ Timeout(q)
  BY <1>2 DEF Arrive, Timeout
<1>3. CASE UNCHANGED mail BY <1>3
<1>4. CASE \E t \in Readers : StartReceiving(t) BY <1>3, <1>4 DEF StartReceiving
<1>5. CASE StopReceiving \/ Joined \/ StartWriter \/ PublishRowRaises \/ CleanShown
  BY <1>3, <1>5 DEF StopReceiving, Joined, StartWriter, PublishRowRaises, CleanShown
<1>6. ASSUME NEW n, NEW S \in Sendable(n) PROVE \A q \in S : mail[q] \notin {"reader", "hidden"}
  BY <1>6 DEF Sendable, At
<1>7. CASE PublishRow BY <1>1, <1>6, <1>7 DEF PublishRow, Places
<1>8. CASE SendMessages BY <1>1, <1>6, <1>8 DEF SendMessages, Places
<1>9. CASE ReceiveMessages BY <1>1, <1>9 DEF ReceiveMessages, At, Places
<1>10. CASE ReceiveAndAck BY <1>10 DEF ReceiveAndAck, At, Deletions
<1>11. CASE AckShown BY <1>1, <1>11 DEF AckShown, At, Deletions, Places
<1>12. CASE UNCHANGED readerVars BY <1>3, <1>12 DEF readerVars
<1> QED
  BY <1>2, <1>4, <1>5, <1>7, <1>8, <1>9, <1>10, <1>11, <1>12 DEF QueueNext

\* Mishaps are only counted up.
LEMMA MishapsGrow ==
  ASSUME QueueTypeOK, [QueueNext]_readerVars
  PROVE  mishaps' = mishaps \/ Mishap
<1>1. ASSUME NEW t \in Readers, ReaderStep(t) PROVE mishaps' = mishaps \/ Mishap
  BY <1>1 DEF ReaderStep, LoopEnds, Receive, ReceiveRaises, ReceiveNothing, RoundOver, Save,
              Hide, HideRaises
<1>2. ASSUME NEW t \in Readers, StartReceiving(t) PROVE mishaps' = mishaps \/ Mishap
  BY <1>2 DEF StartReceiving
<1>3. CASE \E q \in QueueMessages : Arrive(q) \/ Timeout(q) BY <1>3 DEF Arrive, Timeout
<1>4. CASE StopReceiving \/ Joined \/ StartWriter \/ PublishRow \/ PublishRowRaises
  BY <1>4 DEF StopReceiving, Joined, StartWriter, PublishRow, PublishRowRaises
<1>5. CASE SendMessages \/ ReceiveMessages \/ ReceiveAndAck \/ AckShown \/ CleanShown
  BY <1>5 DEF SendMessages, ReceiveMessages, ReceiveAndAck, AckShown, CleanShown
<1>6. CASE UNCHANGED readerVars BY <1>6 DEF readerVars
<1> QED BY <1>1, <1>2, <1>3, <1>4, <1>5, <1>6 DEF QueueNext

\* As long as nothing raises and no message becomes visible again, no message is exported
\* twice, however many readers are started and stopped (ExportedOnce).
THEOREM ExportedOnceCorrect == QueueSpec => []ExportedOnce
<1> DEFINE Inv == QueueTypeOK /\ Untroubled
<1>1. QueueInit => Inv
  <2> SUFFICES ASSUME QueueInit PROVE HeldByOne
    BY InitQueueTyped DEF Untroubled
  <2>1. /\ BagToSet(export) = {}
        /\ \A t \in Readers : BagToSet(reader[t].batch) = {}
    BY GoneType, EmptyBagLemma DEF QueueInit
  <2> QED BY <2>1 DEF HeldByOne
<1>2. Inv /\ [QueueNext]_readerVars => Inv'
  <2> SUFFICES ASSUME Inv, [QueueNext]_readerVars, mishaps' = 0 PROVE HeldByOne'
    BY NextQueueTyped DEF Untroubled
  <2>1. mishaps = 0 /\ ~Mishap BY MishapsGrow DEF Mishap, QueueTypeOK
  <2>2. HeldByOne BY <2>1 DEF Untroubled
  <2>3. CASE \E t \in Readers : ReaderStep(t)
    BY <2>1, <2>2, <2>3, ReaderStepOnce
  <2>4. CASE \A t \in Readers : ~ReaderStep(t)
    <3>1. /\ export' = export
          /\ \A q \in QueueMessages : mail[q] \in {"reader", "hidden"} => mail'[q] = mail[q]
      BY <2>1, <2>4, OtherSteps, OtherStepsOnce
    <3>2. \A t \in Readers :
            \/ reader'[t].batch = EmptyBag
            \/ /\ reader'[t].batch = reader[t].batch
               /\ reader'[t].pc = reader[t].pc \/ reader[t].pc = "off"
      BY <2>4, OtherSteps
    <3>3. \A t \in Readers : BagToSet(reader'[t].batch) \subseteq BagToSet(reader[t].batch)
      BY <3>2, EmptyBagLemma
    <3>4. /\ BagToSet(export) \subseteq QueueMessages
          /\ \A t \in Readers : BagToSet(reader[t].batch) \subseteq QueueMessages
      <4>1. \A t \in Readers : reader[t].batch \in MessageBags
        <5>1. \A t \in Readers : reader[t] \in ReaderState BY DEF QueueTypeOK
        <5> QED BY <5>1 DEF ReaderState
      <4> QED BY <4>1, MessageBagSet DEF QueueTypeOK
    <3>5. ASSUME NEW t \in Readers, NEW q \in BagToSet(reader'[t].batch)
          PROVE  /\ reader'[t].batch[q] = 1 /\ mail'[q] = "reader"
                 /\ reader'[t].pc # "hide" => q \notin BagToSet(export')
      <4>1. /\ q \in BagToSet(reader[t].batch) /\ reader'[t].batch = reader[t].batch
            /\ reader'[t].pc # "hide" => reader[t].pc # "hide"
        BY <3>2, <3>3, <3>5, EmptyBagLemma
      <4> QED BY <2>2, <3>1, <3>4, <4>1 DEF HeldByOne
    <3>6. \A t, u \in Readers :
            t # u => BagToSet(reader'[t].batch) \cap BagToSet(reader'[u].batch) = {}
      BY <2>2, <3>3 DEF HeldByOne
    <3>7. \A q \in BagToSet(export') : export'[q] = 1 /\ mail'[q] \in {"reader", "hidden"}
      BY <2>2, <3>1, <3>4 DEF HeldByOne
    <3> QED BY <3>5, <3>6, <3>7 DEF HeldByOne
  <2> QED BY <2>3, <2>4
<1>3. Inv => ExportedOnce BY DEF Untroubled, HeldByOne, ExportedOnce
<1> QED BY <1>1, <1>2, <1>3, PTL DEF QueueSpec
=============================================================================
