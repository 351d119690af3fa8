------------------------- MODULE ExecutionEventBus -------------------------
(***************************************************************************)
(* The in-memory event bus of one execution: the run's thread publishes,   *)
(* every open /events stream subscribes, and the listener thread of the UI *)
(* reads one stream.                                                       *)
(*                                                                         *)
(* Publishing is two steps: under the lock the frame enters the history    *)
(* and the subscribers are copied; without the lock the frame is put into  *)
(* each of their bounded queues, and dropped where the queue is full.      *)
(* Frames are numbered in the order of publication.  Heartbeats carry      *)
(* nothing and are left out.                                               *)
(***************************************************************************)
EXTENDS Naturals, Sequences, FiniteSets

CONSTANTS
  Clients,      \* the streams that may be opened for this execution
  HistorySize,  \* _EVENT_HISTORY_SIZE
  QueueSize,    \* _QUEUE_SIZE
  MaxFrames     \* bound: frames the run publishes at most

ASSUME SizesAssumption ==
  /\ HistorySize \in Nat \ {0} /\ QueueSize \in Nat \ {0}
  /\ MaxFrames \in Nat

\* A test suite run announces its end with suite_finished; the older
\* SuiteExecutorThread, which no route starts any more, with
\* execution_finished: only the latter ends a stream.
Terminals == {"suite_finished", "execution_finished"}
Kinds == {"other"} \cup Terminals

VARIABLES
  terminal,   \* how this run announces its end
  frames,     \* the kinds of the frames published so far
  alive,      \* the publishing thread has not ended
  history,    \* _HISTORY[execution_id], as frame numbers
  subscribers,\* _SUBSCRIBERS[execution_id]
  targets,    \* subscribers the frame being published was not yet put to
  queue,      \* per client, its subscriber_queue
  backlog,    \* per client, the rest of the history it was handed
  ended,      \* per client, finished_in_history
  stream,     \* per client, where stream_execution_events is
  out,        \* per client, the frames yielded
  dropped,    \* per client, the frames its full queue refused
  shown       \* per client, the status the UI shows

publisherVars == <<terminal, frames, alive, history>>
streamVars == <<backlog, ended, stream, out, shown>>
vars == <<publisherVars, subscribers, targets, queue, dropped, streamVars>>

Last(seq) == seq[Len(seq)]
Open(c) == stream[c] \in {"replay", "live"}
Ended(kind) == \E n \in DOMAIN frames : frames[n] = kind

Init ==
  /\ terminal \in Terminals
  /\ frames = <<>> /\ alive = TRUE /\ history = <<>>
  /\ subscribers = {} /\ targets = {}
  /\ queue = [c \in Clients |-> <<>>]
  /\ backlog = [c \in Clients |-> <<>>]
  /\ ended = [c \in Clients |-> FALSE]
  /\ stream = [c \in Clients |-> "none"]
  /\ out = [c \in Clients |-> <<>>]
  /\ dropped = [c \in Clients |-> {}]
  /\ shown = [c \in Clients |-> "running"]

-----------------------------------------------------------------------------
(* publish_execution_event *)

\* A test suite publishes suite_finished and then one log entry.
SuitePublishes(kind) ==
  IF Ended("suite_finished")
  THEN kind = "other" /\ Last(frames) = "suite_finished"
  ELSE kind \in {"other", "suite_finished"}

\* A suite of the older executor publishes execution_finished in its finally,
\* and nothing after it.
ExecutionPublishes(kind) ==
  ~Ended("execution_finished") /\ kind \in {"other", "execution_finished"}

Publishable(kind) ==
  IF terminal = "suite_finished" THEN SuitePublishes(kind) ELSE ExecutionPublishes(kind)

\* deque(maxlen): the oldest frame makes room for the new one.
Remember(n) ==
  IF Len(history) = HistorySize THEN Append(Tail(history), n) ELSE Append(history, n)

\* The locked part: into the history, and a copy of the subscribers.
Publish(kind) ==
  /\ alive /\ targets = {}
  /\ Len(frames) < MaxFrames
  /\ Publishable(kind)
  /\ frames' = Append(frames, kind)
  /\ history' = Remember(Len(frames) + 1)
  /\ targets' = subscribers
  /\ UNCHANGED <<terminal, alive, subscribers, queue, dropped, streamVars>>

\* put_nowait, outside the lock: a full queue loses the frame, and a queue
\* whose stream closed meanwhile still receives it.
Put(c) ==
  /\ c \in targets
  /\ targets' = targets \ {c}
  /\ IF Len(queue[c]) < QueueSize
     THEN /\ queue' = [queue EXCEPT ![c] = Append(@, Len(frames))]
          /\ UNCHANGED dropped
     ELSE /\ dropped' = [dropped EXCEPT ![c] = @ \cup {Len(frames)}]
          /\ UNCHANGED queue
  /\ UNCHANGED <<publisherVars, subscribers, streamVars>>

\* The thread returns, or dies of an exception without announcing its end.
EndPublisher ==
  /\ alive /\ targets = {}
  /\ alive' = FALSE
  /\ UNCHANGED <<terminal, frames, history, subscribers, targets, queue, dropped, streamVars>>

-----------------------------------------------------------------------------
(* stream_execution_events and the UI's listener *)

\* Mutant: the publisher walks the live list of subscribers, not a copy.
SubscribesToFlight(c) ==
  /\ stream[c] = "none"
  /\ stream' = [stream EXCEPT ![c] = "replay"]
  /\ subscribers' = subscribers \cup {c}
  /\ backlog' = [backlog EXCEPT ![c] = history]
  /\ targets' = IF targets = {} THEN {} ELSE targets \cup {c}
  /\ UNCHANGED <<publisherVars, queue, dropped, ended, out, shown>>
\* subscribe_to_execution: one locked step registers the queue and copies the
\* history.
Subscribe(c) ==
  /\ stream[c] = "none"
  /\ stream' = [stream EXCEPT ![c] = "replay"]
  /\ subscribers' = subscribers \cup {c}
  /\ backlog' = [backlog EXCEPT ![c] = history]
  /\ UNCHANGED <<publisherVars, targets, queue, dropped, ended, out, shown>>

\* Mutant: the entry of the execution is removed with its first subscriber.
RemovesAll(c) == {}
\* unsubscribe_from_execution.
Unsubscribed(c) == subscribers \ {c}

\* Mutant: the listener expects the terminal event of the other executor.
AwaitsExecution(c, n) ==
  [shown EXCEPT ![c] = IF frames[n] = "execution_finished" THEN "finished" ELSE @]
\* _apply_event: of the run's status the UI learns from suite_finished only.
Applied(c, n) ==
  [shown EXCEPT ![c] = IF frames[n] = "suite_finished" THEN "finished" ELSE @]

\* The listener reads frame after frame (_iter_sse_events) until it has seen
\* suite_finished.
Listening(c) == shown[c] = "running"

\* The loop over the history.
Replay(c) ==
  /\ stream[c] = "replay" /\ backlog[c] # <<>> /\ Listening(c)
  /\ LET n == Head(backlog[c])
     IN /\ out' = [out EXCEPT ![c] = Append(@, n)]
        /\ ended' = [ended EXCEPT ![c] = @ \/ frames[n] = "execution_finished"]
        /\ shown' = Applied(c, n)
  /\ backlog' = [backlog EXCEPT ![c] = Tail(@)]
  /\ UNCHANGED <<publisherVars, subscribers, targets, queue, dropped, stream>>

\* Mutant: a stream that saw the end in the history waits for more.
NeverReturns(c) ==
  /\ stream[c] = "replay" /\ backlog[c] = <<>> /\ Listening(c)
  /\ stream' = [stream EXCEPT ![c] = "live"]
  /\ UNCHANGED <<publisherVars, subscribers, targets, queue, dropped, backlog, ended, out, shown>>
\* Return if the end was in the history, otherwise wait on the queue.
EndReplay(c) ==
  /\ stream[c] = "replay" /\ backlog[c] = <<>> /\ Listening(c)
  /\ IF ended[c]
     THEN /\ stream' = [stream EXCEPT ![c] = "closed"]
          /\ subscribers' = Unsubscribed(c)
     ELSE /\ stream' = [stream EXCEPT ![c] = "live"]
          /\ UNCHANGED subscribers
  /\ UNCHANGED <<publisherVars, targets, queue, dropped, backlog, ended, out, shown>>

\* subscriber_queue.get and yield; execution_finished ends the stream.
Deliver(c) ==
  /\ stream[c] = "live" /\ queue[c] # <<>> /\ Listening(c)
  /\ LET n == Head(queue[c])
     IN /\ out' = [out EXCEPT ![c] = Append(@, n)]
        /\ shown' = Applied(c, n)
        /\ IF frames[n] = "execution_finished"
           THEN /\ stream' = [stream EXCEPT ![c] = "closed"]
                /\ subscribers' = Unsubscribed(c)
           ELSE UNCHANGED <<stream, subscribers>>
  /\ queue' = [queue EXCEPT ![c] = Tail(@)]
  /\ UNCHANGED <<publisherVars, targets, dropped, backlog, ended>>

\* The client goes away, because it saw suite_finished or because its request
\* failed; closing the generator runs its finally clause.
Disconnect(c) ==
  /\ Open(c)
  /\ shown' = [shown EXCEPT ![c] = IF Listening(c) THEN "error" ELSE @]
  /\ stream' = [stream EXCEPT ![c] = "closed"]
  /\ subscribers' = Unsubscribed(c)
  /\ UNCHANGED <<publisherVars, targets, queue, dropped, backlog, ended, out>>

Reads(c) == Replay(c) \/ EndReplay(c) \/ Deliver(c)
Hangup(c) == ~Listening(c) /\ Disconnect(c)

Next ==
  \/ \E kind \in Kinds : Publish(kind)
  \/ EndPublisher
  \/ \E c \in Clients : Put(c) \/ Subscribe(c) \/ Reads(c) \/ Disconnect(c)

Spec == Init /\ [][Next]_vars

\* The publisher finishes what it began to put, every stream is iterated, and
\* a listener that saw suite_finished closes its connection.  Nothing obliges
\* the run to publish, a client to subscribe or a connection to fail.
FairSpec ==
  Spec /\ \A c \in Clients : WF_vars(Put(c)) /\ WF_vars(Reads(c)) /\ WF_vars(Hangup(c))

-----------------------------------------------------------------------------
(* Properties *)

FrameIds == 1..Len(frames)

\* The history and the queues keep to their sizes and hold published frames.
TypeOK ==
  /\ terminal \in Terminals /\ frames \in Seq(Kinds) /\ alive \in BOOLEAN
  /\ history \in Seq(FrameIds) /\ Len(history) <= HistorySize
  /\ subscribers \subseteq Clients /\ targets \subseteq Clients
  /\ queue \in [Clients -> Seq(FrameIds)] /\ \A c \in Clients : Len(queue[c]) <= QueueSize
  /\ backlog \in [Clients -> Seq(FrameIds)] /\ out \in [Clients -> Seq(FrameIds)]
  /\ dropped \in [Clients -> SUBSET FrameIds]
  /\ ended \in [Clients -> BOOLEAN]
  /\ stream \in [Clients -> {"none", "replay", "live", "closed"}]
  /\ shown \in [Clients -> {"running", "finished", "error"}]

\* A client receives frames in the order of publication and none twice, and
\* every frame between two it received was dropped by its full queue: a
\* subscription in the middle of a publication neither loses nor repeats the
\* frame in flight.  One that joins late misses only what the history no
\* longer held: the first frame it receives is the first of all, or
\* HistorySize - 1 frames were published after it.
FaithfulStream ==
  \A c \in Clients :
    /\ out[c] # <<>> => out[c][1] = 1 \/ out[c][1] + HistorySize - 1 <= Len(frames)
    /\ \A i \in 1..(Len(out[c]) - 1) :
         /\ out[c][i] < out[c][i + 1]
         /\ (out[c][i] + 1)..(out[c][i + 1] - 1) \subseteq dropped[c]

\* Exactly the open streams are registered: one that closes takes no other
\* with it, and none stays behind in _SUBSCRIBERS.
OpenIsRegistered == \A c \in Clients : c \in subscribers <=> Open(c)

Lost(c, kind) == \E n \in dropped[c] : frames[n] = kind

\* Once the end of the run was published, every open stream ends, unless the
\* one frame that says so was dropped.
StreamsEnd ==
  \A c \in Clients : \A kind \in Terminals :
    Open(c) /\ Ended(kind) ~> ~Open(c) \/ Lost(c, kind)

\* Once suite_finished was published, the UI of every open stream stops
\* showing the run as running, unless that frame was dropped.
ListenerLearns ==
  \A c \in Clients :
    Open(c) /\ Ended("suite_finished")
      ~> ~Listening(c) \/ Lost(c, "suite_finished")

-----------------------------------------------------------------------------
(* The parts of the inductive invariant of ExecutionEventBusProofs *)

Elems(seq) == {seq[i] : i \in 1..Len(seq)}
Sorted(seq) == \A i, j \in 1..Len(seq) : i < j => seq[i] < seq[j]

\* The frames that reached a client: yielded, to be replayed, or in its queue.
Got(c) == Elems(out[c]) \cup Elems(backlog[c]) \cup Elems(queue[c])

\* The history is the newest frames, all of them or HistorySize many.
NewestFrames ==
  /\ Len(history) \in {Len(frames), HistorySize} /\ Len(history) <= Len(frames)
  /\ \A i \in 1..Len(history) : history[i] = Len(frames) - Len(history) + i

\* What a stream has yet to yield follows what it yielded, and its queue
\* follows its history; who waits on the queue has no history left, and who
\* did not subscribe yet has nothing at all.
Ordered ==
  \A c \in Clients :
    /\ Sorted(out[c]) /\ Sorted(backlog[c]) /\ Sorted(queue[c])
    /\ \A x \in Elems(out[c]) : \A y \in Elems(backlog[c]) \cup Elems(queue[c]) : x < y
    /\ \A x \in Elems(backlog[c]) : \A y \in Elems(queue[c]) : x < y
    /\ stream[c] = "live" => backlog[c] = <<>>
    /\ stream[c] = "none" => Got(c) = {} /\ c \notin targets

\* A frame in flight is newer than all a target got; a target got something
\* before, unless the frame is the first of all.
InFlight ==
  \A c \in targets : /\ frames # <<>> /\ \A x \in Got(c) : x < Len(frames)
                     /\ Got(c) = {} => Len(frames) = 1

\* A frame between two that a client got was got or dropped.
NoGap ==
  \A c \in Clients : \A x, y \in Got(c) : \A n \in 1..Len(frames) :
    x < n /\ n < y => n \in Got(c) \cup dropped[c]

\* An open stream, and one whose frame is in flight, got or dropped every
\* frame since the first it got, but for the one in flight.
Covered ==
  \A c \in Clients :
    Open(c) \/ c \in targets =>
      \A n \in 1..Len(frames) :
        \/ n = Len(frames) /\ c \in targets
        \/ n \in Got(c) \cup dropped[c]
        \/ \A x \in Got(c) : n < x

\* An open stream without a frame waits for the first of all.
Begun ==
  \A c \in Clients :
    Open(c) /\ Got(c) = {} => frames = <<>> \/ (Len(frames) = 1 /\ c \in targets)

\* The oldest frame a client got is the first of all, or HistorySize - 1 are
\* newer.
OldestGot ==
  \A c \in Clients : \A x \in Got(c) :
    (\A y \in Got(c) : x <= y) => x = 1 \/ x + HistorySize - 1 <= Len(frames)
=============================================================================
