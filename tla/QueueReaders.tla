----------------------------- MODULE QueueReaders -----------------------------
(***************************************************************************)
(* A queue of a broker, the page that sends, receives and acknowledges its *)
(* messages, the threads that export it to a table                         *)
(* (AsyncQueueService, QueueReaderThread), and the thread that publishes   *)
(* the table again (QueueWriterThread).  The broker is external: a message *)
(* is visible, taken by its last receiver, or deleted, and a taken message *)
(* that is not deleted in time is visible again.                           *)
(***************************************************************************)
EXTENDS Naturals, FiniteSets, Bags

CONSTANTS
  QueueMessages,  \* the messages that may ever be on the queue
  Unreadable,     \* those of other producers whose body is not JSON
  QueueId, BrokerId,
  MaxReaders,     \* bound: readers started
  MaxEmpty,       \* MAX_RETRY_ATTEMPTS
  MaxRows,        \* bound: rows of the export table when a batch is saved
  MaxMishaps      \* bound: calls to the broker or the database that raise, taken messages
                  \* that become visible again, and messages that are not JSON
ASSUME QueueAssumption ==
  /\ QueueId # BrokerId
  /\ QueueMessages \subseteq Nat /\ Unreadable \subseteq QueueMessages
  /\ MaxReaders \in Nat \ {0} /\ MaxEmpty \in Nat \ {0}

VARIABLES
  mail,       \* where each message is: unsent, visible, deleted, or not visible
              \* because a reader or the page took it or a reader hid it after a save
  export,     \* the rows of the export table, as a bag of messages
  reader,     \* QueueReaderThread: where it is, batch, retry_counter, stop event
  readerThreads, \* threads, the dict of AsyncQueueService: the reader of a queue
  joining,    \* the reader a stop handler waits for; no other handler runs
  writer,     \* QueueWriterThread: how many of the rows it read are not published yet
  queuePage,  \* the session of the page: messages shown, acked flag
  mishaps     \* how many there were
readerVars == <<mail, export, reader, readerThreads, joining, writer, queuePage, mishaps>>

Readers == 1..MaxReaders
NoReader == 0
NotStarted == [pc |-> "off", batch |-> EmptyBag, empty |-> 0, told |-> FALSE]
Gone == [NotStarted EXCEPT !.pc = "ended"]  \* and so is the batch it had
Alive(t) == t # NoReader /\ reader[t].pc \notin {"off", "ended"}

QueueInit ==
  /\ mail = [q \in QueueMessages |-> "unsent"]
  /\ export = EmptyBag
  /\ reader = [t \in Readers |-> NotStarted]
  /\ readerThreads = [id \in {QueueId, BrokerId} |-> NoReader]
  /\ joining = NoReader
  /\ writer = 0
  /\ queuePage = [shown |-> {}, acked |-> FALSE]
  /\ mishaps = 0

----------------------------------------------------------------------------
(* The broker and the other producers. *)

At(where) == {q \in QueueMessages : mail[q] = where}
Moved(S, where) == [q \in QueueMessages |-> IF q \in S THEN where ELSE mail[q]]
Taken == At("reader") \cup At("page") \cup At("hidden")
Mishap ==
  /\ mishaps < MaxMishaps
  /\ mishaps' = mishaps + 1
\* Messages are named in the order in which they are sent.
Sendable(k) == {S \in SUBSET (At("unsent") \ Unreadable) :
               /\ Cardinality(S) <= k /\ S # {}
               /\ \A q \in S, p \in (At("unsent") \ Unreadable) \ S : q < p}

Arrive(q) ==
  /\ q \in At("unsent") \cap Unreadable /\ Mishap
  /\ mail' = Moved({q}, "visible")
  /\ UNCHANGED <<export, reader, readerThreads, joining, writer, queuePage>>
Timeout(q) ==
  /\ q \in Taken /\ Mishap
  /\ mail' = Moved({q}, "visible")
  /\ UNCHANGED <<export, reader, readerThreads, joining, writer, queuePage>>

----------------------------------------------------------------------------
(* QueueReaderThread.loop.  A round tests the stop event and polls in one   *)
(* step: a stop that comes during the poll has the effect of one that comes *)
(* right after it.  After an exception in the loop the thread logs and goes *)
(* on with what it has in batch; when the log raises too, it ends.          *)

Round(t) == reader[t].pc = "head" /\ ~reader[t].told
\* Mutant: a reader that is told to stop does not end before its batch is saved.
EndsWhenSaved(t) ==
  /\ reader[t].pc = "head" /\ reader[t].told /\ reader[t].batch = EmptyBag
  /\ reader' = [reader EXCEPT ![t] = [Gone EXCEPT !.told = TRUE]]
  /\ UNCHANGED <<mail, export, readerThreads, joining, writer, queuePage, mishaps>>
LoopEnds(t) ==
  /\ reader[t].pc = "head" /\ reader[t].told
  /\ reader' = [reader EXCEPT ![t] = [Gone EXCEPT !.told = TRUE]]
  /\ UNCHANGED <<mail, export, readerThreads, joining, writer, queuePage, mishaps>>

\* What an exception leaves of reader t: it goes on, or it ends.
Raised(t, batch) ==
  \/ reader' = [reader EXCEPT ![t].pc = "head", ![t].batch = batch]
  \/ reader' = [reader EXCEPT ![t] = Gone]

\* receive_messages changes the visibility of each message it got and raises when one of
\* these calls does: the messages stay taken and reach no batch.  The log of a round may
\* raise when they did.
Receive(t) ==
  /\ Round(t)
  /\ \E S \in SUBSET At("visible") \ {{}} :
       \E longer \in {reader[t].batch (+) SetToBag(S)} :
         /\ mail' = Moved(S, "reader")
         /\ \/ reader' = [reader EXCEPT ![t].batch = longer] /\ UNCHANGED mishaps
            \/ (Raised(t, longer) \/ Raised(t, reader[t].batch)) /\ Mishap
  /\ UNCHANGED <<export, readerThreads, joining, writer, queuePage>>
ReceiveRaises(t) ==
  /\ Round(t) /\ Mishap /\ Raised(t, reader[t].batch)
  /\ UNCHANGED <<mail, export, readerThreads, joining, writer, queuePage>>

\* retry_counter is only compared with its limit: rounds beyond it count as the limit.
Rounds(n) == IF n > MaxEmpty THEN MaxEmpty ELSE n
\* The end of an empty round; giving up logs once more, inside the try.
AfterEmpty(n) == IF n >= MaxEmpty THEN "ended" ELSE "head"
RoundOver(t, r) ==
  \/ reader' = [reader EXCEPT ![t] = [r EXCEPT !.pc = AfterEmpty(r.empty)]] /\ UNCHANGED mishaps
  \/ /\ r.empty >= MaxEmpty /\ Mishap
     /\ \E after \in {[r EXCEPT !.pc = "head"], Gone} : reader' = [reader EXCEPT ![t] = after]
ReceiveNothing(t) ==
  /\ Round(t)
  /\ \E r \in {[reader[t] EXCEPT !.empty = Rounds(@ + 1)]} :
       IF r.batch = EmptyBag THEN RoundOver(t, r)
       ELSE reader' = [reader EXCEPT ![t] = [r EXCEPT !.pc = "save"]] /\ UNCHANGED mishaps
  /\ UNCHANGED <<mail, export, readerThreads, joining, writer, queuePage>>
\* Mutant: an exception of the insert is swallowed.
SwallowsError(t) ==
  /\ reader[t].pc = "save"
  /\ reader' = [reader EXCEPT ![t].pc = "hide"]
  /\ export' = IF BagToSet(reader[t].batch) \cap Unreadable = {} THEN export (+) reader[t].batch ELSE export
  /\ UNCHANGED <<mail, readerThreads, joining, writer, queuePage, mishaps>>
Save(t) ==
  /\ reader[t].pc = "save"
  /\ BagCardinality(export) <= MaxRows \/ reader[t].told
  /\ \/ /\ BagToSet(reader[t].batch) \cap Unreadable = {}
        /\ export' = export (+) reader[t].batch
        /\ reader' = [reader EXCEPT ![t].pc = "hide"] /\ UNCHANGED mishaps
     \/ /\ BagToSet(reader[t].batch) \cap Unreadable # {}
        /\ reader' = [reader EXCEPT ![t].pc = "head"] /\ UNCHANGED <<export, mishaps>>
     \/ Mishap /\ Raised(t, reader[t].batch) /\ UNCHANGED export
  /\ UNCHANGED <<mail, readerThreads, joining, writer, queuePage>>

\* The receipt of a message that was visible again in the meantime: the broker refuses
\* it or takes no notice of it.
Current(t) == BagToSet(reader[t].batch) \cap (At("reader") \cup At("hidden"))
\* Mutant: the batch is cleared only when the reader gives up.
KeepsBatch(t) ==
  /\ reader[t].pc = "hide"
  /\ mail' = Moved(Current(t), "hidden")
  /\ RoundOver(t, [reader[t] EXCEPT !.batch = IF reader[t].empty >= MaxEmpty THEN EmptyBag ELSE @])
  /\ UNCHANGED <<export, readerThreads, joining, writer, queuePage>>
Hide(t) ==
  /\ reader[t].pc = "hide"
  /\ mail' = Moved(Current(t), "hidden")
  /\ RoundOver(t, [reader[t] EXCEPT !.batch = EmptyBag])
  /\ UNCHANGED <<export, readerThreads, joining, writer, queuePage>>
HideRaises(t) ==
  /\ reader[t].pc = "hide"
  /\ \E S \in SUBSET Current(t) : mail' = Moved(S, "hidden")
  /\ \/ BagToSet(reader[t].batch) # Current(t) /\ reader' = [reader EXCEPT ![t].pc = "head"] /\ UNCHANGED mishaps
     \/ Mishap /\ Raised(t, reader[t].batch)
  /\ UNCHANGED <<export, readerThreads, joining, writer, queuePage>>

ReaderStep(t) ==
  \/ LoopEnds(t) \/ Receive(t) \/ ReceiveRaises(t) \/ ReceiveNothing(t)
  \/ Save(t) \/ Hide(t) \/ HideRaises(t)

----------------------------------------------------------------------------
(* AsyncQueueService.  The guard of a start looks for the broker's id,      *)
(* which is no key of the dict.  A stop joins the thread inside the handler *)
(* and no other handler runs meanwhile.  A reader connects and creates its  *)
(* table before its loop; an exception there ends it.                       *)

StartReceiving(t) ==
  /\ joining = NoReader
  /\ reader[t].pc = "off" /\ \A u \in 1..(t - 1) : reader[u].pc # "off"
  /\ ~Alive(readerThreads[BrokerId])
  /\ readerThreads' = [readerThreads EXCEPT ![QueueId] = t]
  /\ \/ reader' = [reader EXCEPT ![t].pc = "head"] /\ UNCHANGED mishaps
     \/ reader' = [reader EXCEPT ![t] = Gone] /\ Mishap
  /\ UNCHANGED <<mail, export, joining, writer, queuePage>>
\* Mutant: the entry is removed and the thread not told.
OnlyForgets ==
  /\ joining = NoReader /\ readerThreads[QueueId] # NoReader
  /\ readerThreads' = [readerThreads EXCEPT ![QueueId] = NoReader]
  /\ UNCHANGED <<mail, export, reader, joining, writer, queuePage, mishaps>>
Told(t) == [reader EXCEPT ![t].told = TRUE]
StopReceiving ==
  /\ joining = NoReader /\ readerThreads[QueueId] # NoReader
  /\ IF Alive(readerThreads[QueueId])
     THEN /\ reader' = Told(readerThreads[QueueId])
          /\ \/ joining' = readerThreads[QueueId] /\ UNCHANGED mishaps
             \/ Mishap /\ UNCHANGED joining
          /\ UNCHANGED readerThreads
     ELSE /\ readerThreads' = [readerThreads EXCEPT ![QueueId] = NoReader]
          /\ UNCHANGED <<reader, joining, mishaps>>
  /\ UNCHANGED <<mail, export, writer, queuePage>>
Joined ==
  /\ joining # NoReader /\ ~Alive(joining)
  /\ joining' = NoReader
  /\ readerThreads' = [readerThreads EXCEPT ![QueueId] = NoReader]
  /\ UNCHANGED <<mail, export, reader, writer, queuePage, mishaps>>

\* QueueWriterThread.run reads the table once and publishes row after row.
StartWriter ==
  /\ joining = NoReader /\ writer = 0
  /\ writer' = BagCardinality(export)
  /\ UNCHANGED <<mail, export, reader, readerThreads, joining, queuePage, mishaps>>
PublishRow ==
  /\ writer > 0 /\ writer' = writer - 1
  /\ \E S \in Sendable(1) : mail' = Moved(S, "visible")
  /\ UNCHANGED <<export, reader, readerThreads, joining, queuePage, mishaps>>
PublishRowRaises ==
  /\ writer > 0 /\ Mishap
  /\ writer' = 0
  /\ UNCHANGED <<mail, export, reader, readerThreads, joining, queuePage>>

----------------------------------------------------------------------------
(* The page of the queue: tab Send and tab Receive.                         *)

PageCall == joining = NoReader \* a request of the page finds the event loop free

\* publish_messages sends one message of the array after the other: an exception leaves
\* the first ones sent, and the page keeps the array for another click.
SendMessages ==
  /\ PageCall
  /\ \E S \in Sendable(Cardinality(QueueMessages)) :
       /\ mail' = Moved(S, "visible")
       /\ UNCHANGED mishaps \/ Mishap
  /\ UNCHANGED <<export, reader, readerThreads, joining, writer, queuePage>>
ReceiveMessages ==
  /\ PageCall
  /\ \E S \in SUBSET At("visible") :
       /\ mail' = Moved(S, "page")
       /\ \/ queuePage' = [queuePage EXCEPT !.shown = S, !.acked = FALSE] /\ UNCHANGED mishaps
          \/ Mishap /\ UNCHANGED queuePage
  /\ UNCHANGED <<export, reader, readerThreads, joining, writer>>
\* ack_messages deletes what it can and raises when a deletion failed; the page keeps
\* what it showed before.
Deletions(S) == SUBSET S
ReceiveAndAck ==
  /\ PageCall
  /\ \E S \in SUBSET At("visible") : \E D \in Deletions(S) :
       /\ mail' = [q \in QueueMessages |-> IF q \in D THEN "deleted" ELSE IF q \in S THEN "page" ELSE mail[q]]
       /\ \/ /\ D = S
             /\ queuePage' = [queuePage EXCEPT !.shown = S, !.acked = S # {}] /\ UNCHANGED mishaps
          \/ Mishap /\ UNCHANGED queuePage
  /\ UNCHANGED <<export, reader, readerThreads, joining, writer>>
AckShown ==
  /\ PageCall /\ queuePage.shown # {} /\ ~queuePage.acked
  /\ \E D \in Deletions(queuePage.shown \cap At("page")) :
       /\ mail' = Moved(D, "deleted")
       /\ \/ /\ D = queuePage.shown \cap At("page")
             /\ queuePage' = [queuePage EXCEPT !.shown = {}, !.acked = FALSE] /\ UNCHANGED mishaps
          \/ Mishap /\ UNCHANGED queuePage
  /\ UNCHANGED <<export, reader, readerThreads, joining, writer>>
CleanShown ==
  /\ queuePage.shown # {}
  /\ queuePage' = [queuePage EXCEPT !.shown = {}, !.acked = FALSE]
  /\ UNCHANGED <<mail, export, reader, readerThreads, joining, writer, mishaps>>

QueueNext ==
  \/ \E q \in QueueMessages : Arrive(q) \/ Timeout(q)
  \/ \E t \in Readers : ReaderStep(t) \/ StartReceiving(t)
  \/ StopReceiving \/ Joined
  \/ StartWriter \/ PublishRow \/ PublishRowRaises
  \/ SendMessages \/ ReceiveMessages \/ ReceiveAndAck \/ AckShown \/ CleanShown

QueueSpec == QueueInit /\ [][QueueNext]_readerVars

\* The threads of the readers run, and a handler goes on when its join returns.
QueueFairness == WF_readerVars(Joined) /\ \A t \in Readers : WF_readerVars(ReaderStep(t))

----------------------------------------------------------------------------
\* What a reader puts out of sight is saved: a message it hides for five minutes has a row
\* in the export table, although inserts raise, and a reader that gives up by itself, after
\* MAX_RETRY_ATTEMPTS empty rounds, holds no message it has not saved.
HiddenIsSaved ==
  /\ \A q \in At("hidden") : BagIn(q, export)
  /\ \A t \in Readers : reader[t].pc = "ended" /\ ~reader[t].told => reader[t].batch = EmptyBag

\* As long as there is no mishap (no call raises, every body is JSON, and no message becomes
\* visible again) a message is exported at most once, however many readers were started
\* and stopped on the queue.
ExportedOnce ==
  mishaps = 0 => \A q \in BagToSet(export) : export[q] = 1

\* A live reader that was not told to stop is the one a stop would reach, unless a later
\* start took its place in the dict: no stop forgets a reader.
LatestIsStoppable ==
  \A t \in Readers : Alive(t) /\ ~reader[t].told =>
    readerThreads[QueueId] = t \/ \E u \in (t + 1)..MaxReaders : reader[u].pc # "off"

\* A stop, which blocks every other handler while it waits for its reader, returns,
\* whatever the reader holds and whichever calls of it raise.
StopReturns == []<>(joining = NoReader)

----------------------------------------------------------------------------
(* The parts of the inductive invariants of QueueReadersProofs *)

MessageBags == UNION {[S -> Nat \ {0}] : S \in SUBSET QueueMessages}
ReaderState == [pc : {"off", "head", "save", "hide", "ended"}, batch : MessageBags,
                empty : Nat, told : BOOLEAN]

\* The types of the state; `writer` is left out, it is only ever compared with 0.
QueueTypeOK ==
  /\ mail \in [QueueMessages -> {"unsent", "visible", "reader", "page", "hidden", "deleted"}]
  /\ export \in MessageBags
  /\ reader \in [Readers -> ReaderState]
  /\ readerThreads \in [{QueueId, BrokerId} -> 0..MaxReaders]
  /\ joining \in 0..MaxReaders
  /\ queuePage \in [shown : SUBSET QueueMessages, acked : BOOLEAN]
  /\ mishaps \in Nat

\* A reader is at its hiding only with a batch it has saved.
SavedFirst ==
  \A t \in Readers : reader[t].pc = "hide" => BagToSet(reader[t].batch) \subseteq BagToSet(export)

\* Without mishaps a message is in the batch of one reader, which took it from the queue,
\* and has no row before that reader comes to its hiding.
HeldByOne ==
  /\ \A t \in Readers : \A q \in BagToSet(reader[t].batch) :
       /\ reader[t].batch[q] = 1 /\ mail[q] = "reader"
       /\ reader[t].pc # "hide" => q \notin BagToSet(export)
  /\ \A t, u \in Readers :
       t # u => BagToSet(reader[t].batch) \cap BagToSet(reader[u].batch) = {}
  /\ \A q \in BagToSet(export) : export[q] = 1 /\ mail[q] \in {"reader", "hidden"}

\* Readers are started in the order of their numbers, and a stop waits for the reader
\* that is in the dict.
StartedInOrder ==
  /\ \A t, u \in Readers : t < u /\ reader[t].pc = "off" => reader[u].pc = "off"
  /\ joining # NoReader => readerThreads[QueueId] = joining
=============================================================================
