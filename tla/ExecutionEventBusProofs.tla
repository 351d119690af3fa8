----------------------- MODULE ExecutionEventBusProofs -----------------------
(* Proofs about ExecutionEventBus for any clients, sizes and bounds.       *)
EXTENDS ExecutionEventBus, TLAPS

-----------------------------------------------------------------------------
(* Sequences of frame numbers *)

\* A sequence over a set is one over a larger set.
LEMMA SeqSubset == ASSUME NEW S, NEW T, S \subseteq T, NEW s \in Seq(S) PROVE s \in Seq(T)
<1>1. Len(s) \in Nat /\ s \in [1..Len(s) -> S] OBVIOUS
<1>2. s \in [1..Len(s) -> T] BY <1>1
<1>3. PICK n \in Nat : s \in [1..n -> T] BY <1>1, <1>2
<1> QED BY <1>3

\* The members of a sequence that grows at its end.
LEMMA ElemsAppend ==
  ASSUME NEW S, NEW s \in Seq(S), NEW n \in S
  PROVE  Elems(Append(s, n)) = Elems(s) \cup {n}
<1> DEFINE t == Append(s, n)
<1>1. Len(t) = Len(s) + 1 /\ t[Len(s) + 1] = n /\ \A i \in 1..Len(s) : t[i] = s[i]
  OBVIOUS
<1>2. Len(s) \in Nat OBVIOUS
<1> HIDE DEF t
<1>3. ASSUME NEW x \in Elems(t) PROVE x \in Elems(s) \cup {n}
  <2>1. PICK i \in 1..Len(t) : x = t[i] BY <1>3 DEF Elems
  <2>2. i \in 1..Len(s) \/ i = Len(s) + 1 BY <1>1, <1>2, <2>1
  <2> QED BY <1>1, <2>1, <2>2 DEF Elems
<1>4. ASSUME NEW x \in Elems(s) PROVE x \in Elems(t)
  <2>1. PICK i \in 1..Len(s) : x = s[i] BY <1>4 DEF Elems
  <2>2. i \in 1..Len(t) BY <1>1, <1>2, <2>1
  <2> QED BY <1>1, <2>1, <2>2 DEF Elems
<1>5. n \in Elems(t)
  <2>1. Len(s) + 1 \in 1..Len(t) BY <1>1, <1>2
  <2> QED BY <1>1, <2>1 DEF Elems
<1> QED BY <1>3, <1>4, <1>5 DEF t

\* The members of a sequence whose head is taken.
LEMMA ElemsTail ==
  ASSUME NEW S, NEW s \in Seq(S), s # <<>>
  PROVE  Elems(s) = {Head(s)} \cup Elems(Tail(s))
<1> DEFINE t == Tail(s)
<1>1. /\ Len(s) \in Nat \ {0} /\ Len(t) = Len(s) - 1 /\ Head(s) = s[1]
      /\ \A i \in 1..Len(t) : t[i] = s[i + 1]
  OBVIOUS
<1> HIDE DEF t
<1>2. ASSUME NEW x \in Elems(s) PROVE x \in {Head(s)} \cup Elems(t)
  <2>1. PICK i \in 1..Len(s) : x = s[i] BY <1>2 DEF Elems
  <2>2. CASE i = 1 BY <1>1, <2>1, <2>2
  <2>3. CASE i # 1
    <3>1. i - 1 \in 1..Len(t) /\ (i - 1) + 1 = i BY <1>1, <2>1, <2>3
    <3> QED BY <1>1, <2>1, <3>1 DEF Elems
  <2> QED BY <2>2, <2>3
<1>3. ASSUME NEW x \in Elems(t) PROVE x \in Elems(s)
  <2>1. PICK i \in 1..Len(t) : x = t[i] BY <1>3 DEF Elems
  <2>2. i + 1 \in 1..Len(s) BY <1>1, <2>1
  <2> QED BY <1>1, <2>1, <2>2 DEF Elems
<1>4. Head(s) \in Elems(s)
  <2>1. 1 \in 1..Len(s) BY <1>1
  <2> QED BY <1>1, <2>1 DEF Elems
<1> QED BY <1>2, <1>3, <1>4 DEF t

\* The empty sequence has no members, every other has one.
LEMMA ElemsEmpty ==
  ASSUME NEW S, NEW s \in Seq(S)
  PROVE  /\ Elems(s) \subseteq S /\ (Elems(s) = {} <=> s = <<>>)
<1>1. Elems(s) \subseteq S BY DEF Elems
<1>2. s = <<>> => Elems(s) = {} BY DEF Elems
<1>3. ASSUME s # <<>> PROVE Elems(s) # {} BY <1>3, ElemsTail
<1> QED BY <1>1, <1>2, <1>3

\* A sequence of rising numbers stays one when a larger one is appended.
LEMMA SortedAppend ==
  ASSUME NEW s \in Seq(Nat), NEW n \in Nat, Sorted(s), \A x \in Elems(s) : x < n
  PROVE  Sorted(Append(s, n))
<1> DEFINE t == Append(s, n)
<1>1. /\ Len(s) \in Nat /\ Len(t) = Len(s) + 1 /\ t[Len(s) + 1] = n
      /\ \A i \in 1..Len(s) : t[i] = s[i]
  OBVIOUS
<1>2. \A i \in 1..Len(s) : s[i] < n BY DEF Elems
<1> HIDE DEF t
<1>3. ASSUME NEW i \in 1..Len(t), NEW j \in 1..Len(t), i < j PROVE t[i] < t[j]
  <2>1. i \in 1..Len(s) BY <1>1, <1>3
  <2>2. CASE j = Len(s) + 1 BY <1>1, <1>2, <2>1, <2>2
  <2>3. CASE j # Len(s) + 1
    <3>1. j \in 1..Len(s) BY <1>1, <2>3
    <3> QED BY <1>1, <1>3, <2>1, <3>1 DEF Sorted
  <2> QED BY <2>2, <2>3
<1>4. Sorted(t) BY <1>3 DEF Sorted
<1> QED BY <1>4 DEF t

\* The head of rising numbers is the least of them.
LEMMA SortedTail ==
  ASSUME NEW s \in Seq(Nat), s # <<>>, Sorted(s)
  PROVE  Sorted(Tail(s)) /\ \A x \in Elems(Tail(s)) : Head(s) < x
<1> DEFINE t == Tail(s)
<1>1. /\ Len(s) \in Nat \ {0} /\ Len(t) = Len(s) - 1 /\ Head(s) = s[1]
      /\ \A i \in 1..Len(t) : t[i] = s[i + 1]
  OBVIOUS
<1> HIDE DEF t
<1>2. \A i \in 1..Len(t) : i + 1 \in 1..Len(s) BY <1>1
<1>3. ASSUME NEW i \in 1..Len(t), NEW j \in 1..Len(t), i < j PROVE t[i] < t[j]
  <2>1. s[i + 1] < s[j + 1] BY <1>2, <1>3 DEF Sorted
  <2> QED BY <1>1, <2>1
<1>4. ASSUME NEW x \in Elems(t) PROVE Head(s) < x
  <2>1. PICK i \in 1..Len(t) : x = t[i] BY <1>4 DEF Elems
  <2>2. 1 \in 1..Len(s) /\ 1 < i + 1 BY <1>1
  <2>3. s[1] < s[i + 1] BY <1>2, <2>2 DEF Sorted
  <2> QED BY <1>1, <2>1, <2>3
<1>5. Sorted(t) BY <1>3 DEF Sorted
<1> QED BY <1>4, <1>5 DEF t

-----------------------------------------------------------------------------
(* Types *)

\* The number of frames, and the head of a queue or a backlog.
LEMMA FrameFacts ==
  ASSUME TypeOK
  PROVE  /\ Len(frames) \in Nat /\ FrameIds \subseteq Nat
         /\ \A c \in Clients :
              /\ backlog[c] \in Seq(FrameIds) /\ queue[c] \in Seq(FrameIds)
              /\ out[c] \in Seq(FrameIds)
              /\ out[c] \in Seq(Nat) /\ backlog[c] \in Seq(Nat) /\ queue[c] \in Seq(Nat)
              /\ Got(c) \subseteq FrameIds
<1>1. Len(frames) \in Nat BY DEF TypeOK
<1>2. FrameIds \subseteq Nat BY <1>1 DEF FrameIds
<1>3. ASSUME NEW s \in Seq(FrameIds) PROVE s \in Seq(Nat) BY <1>2, SeqSubset
<1>4. ASSUME NEW c \in Clients PROVE Got(c) \subseteq FrameIds
  BY ElemsEmpty DEF TypeOK, Got
<1> QED BY <1>1, <1>2, <1>3, <1>4 DEF TypeOK

\* The history after a publication (Remember).
LEMMA RememberType ==
  ASSUME TypeOK
  PROVE  /\ Remember(Len(frames) + 1) \in Seq(1..(Len(frames) + 1))
         /\ Len(Remember(Len(frames) + 1)) = IF Len(history) = HistorySize
                                             THEN HistorySize ELSE Len(history) + 1
<1> DEFINE S == 1..(Len(frames) + 1)
<1>1. Len(frames) \in Nat /\ Len(frames) + 1 \in S /\ FrameIds \subseteq S
  BY FrameFacts DEF FrameIds
<1>2. history \in Seq(S) /\ Len(history) <= HistorySize BY <1>1, SeqSubset DEF TypeOK
<1> HIDE DEF S
<1>3. CASE Len(history) = HistorySize
  <2>1. Remember(Len(frames) + 1) = Append(Tail(history), Len(frames) + 1)
    BY <1>3 DEF Remember
  <2>2. history # <<>> BY <1>3, SizesAssumption
  <2>3. Tail(history) \in Seq(S) /\ Len(Tail(history)) = HistorySize - 1
    BY <1>2, <1>3, <2>2
  <2> QED BY <1>1, <1>3, <2>1, <2>3, SizesAssumption, SMTT(20) DEF S
<1>4. CASE Len(history) # HistorySize
  <2>1. Remember(Len(frames) + 1) = Append(history, Len(frames) + 1) BY <1>4 DEF Remember
  <2> QED BY <1>1, <1>2, <1>4, <2>1 DEF S
<1> QED BY <1>3, <1>4

\* The types, and that a frame in flight was published.
Typed == TypeOK /\ (targets # {} => Len(frames) \in FrameIds)

\* Every step keeps the types.
LEMMA NextTyped == ASSUME Typed, [Next]_vars PROVE Typed'
<1>0. TypeOK /\ Len(frames) \in Nat BY FrameFacts DEF Typed
<1>1. ASSUME NEW kind \in Kinds, Publish(kind) PROVE Typed'
  <2>1. /\ frames' = Append(frames, kind) /\ history' = Remember(Len(frames) + 1)
        /\ targets' = subscribers
        /\ UNCHANGED <<terminal, alive, subscribers, queue, dropped, streamVars>>
    BY <1>1 DEF Publish
  <2>2. frames' \in Seq(Kinds) /\ Len(frames') = Len(frames) + 1 BY <1>0, <2>1 DEF TypeOK
  <2>3. /\ FrameIds \subseteq FrameIds' /\ FrameIds' = 1..(Len(frames) + 1)
        /\ Len(frames') \in FrameIds'
    BY <1>0, <2>2 DEF FrameIds
  <2>4. history' \in Seq(FrameIds') /\ Len(history') <= HistorySize
    BY <1>0, <2>1, <2>3, RememberType, SizesAssumption DEF TypeOK
  <2>5. ASSUME NEW s \in Seq(FrameIds) PROVE s \in Seq(FrameIds') BY <2>3, SeqSubset
  <2>6. ASSUME NEW f \in [Clients -> Seq(FrameIds)] PROVE f \in [Clients -> Seq(FrameIds')]
    BY <2>5
  <2>7. dropped' \in [Clients -> SUBSET FrameIds'] BY <1>0, <2>1, <2>3 DEF TypeOK
  <2> QED BY <1>0, <2>1, <2>2, <2>3, <2>4, <2>6, <2>7 DEF Typed, TypeOK, streamVars
<1>2. UNCHANGED frames => FrameIds' = FrameIds BY DEF FrameIds
<1>3. ASSUME NEW c \in Clients, Put(c) PROVE Typed'
  <2>1. Len(frames) \in FrameIds BY <1>3 DEF Put, Typed
  <2>2. UNCHANGED <<publisherVars, subscribers, streamVars>> /\ targets' \subseteq Clients
    BY <1>0, <1>3 DEF Put, TypeOK
  <2>3. queue' \in [Clients -> Seq(FrameIds)] /\ dropped' \in [Clients -> SUBSET FrameIds]
    <3>1. Append(queue[c], Len(frames)) \in Seq(FrameIds) BY <1>0, <2>1 DEF TypeOK
    <3>2. \/ queue' = [queue EXCEPT ![c] = Append(queue[c], Len(frames))] /\ dropped' = dropped
          \/ dropped' = [dropped EXCEPT ![c] = dropped[c] \cup {Len(frames)}] /\ queue' = queue
      BY <1>3 DEF Put
    <3>3. queue \in [Clients -> Seq(FrameIds)] /\ dropped \in [Clients -> SUBSET FrameIds]
      BY <1>0 DEF TypeOK
    <3>4. dropped[c] \cup {Len(frames)} \in SUBSET FrameIds BY <2>1, <3>3
    <3> QED BY <3>1, <3>2, <3>3, <3>4
  <2>4. \A d \in Clients : Len(queue'[d]) <= QueueSize
    <3>1. CASE Len(queue[c]) < QueueSize
      <4>1. Len(Append(queue[c], Len(frames))) = Len(queue[c]) + 1 /\ Len(queue[c]) \in Nat
        BY <1>0, <2>1 DEF TypeOK
      <4>2. queue' = [queue EXCEPT ![c] = Append(queue[c], Len(frames))]
        BY <1>3, <3>1 DEF Put
      <4> QED BY <1>0, <3>1, <4>1, <4>2, SizesAssumption DEF TypeOK
    <3>2. CASE ~(Len(queue[c]) < QueueSize) BY <1>0, <1>3, <3>2 DEF Put, TypeOK
    <3> QED BY <3>1, <3>2
  <2> QED BY <1>0, <1>2, <2>1, <2>2, <2>3, <2>4 DEF Typed, TypeOK, publisherVars, streamVars
<1>4. CASE EndPublisher
  BY <1>0, <1>2, <1>4 DEF EndPublisher, Typed, TypeOK, streamVars
<1>5. ASSUME NEW c \in Clients, Subscribe(c) PROVE Typed'
  BY <1>0, <1>2, <1>5 DEF Subscribe, Typed, TypeOK, publisherVars
<1>6. ASSUME NEW c \in Clients, Replay(c) PROVE Typed'
  <2>1. Head(backlog[c]) \in FrameIds /\ Tail(backlog[c]) \in Seq(FrameIds)
    BY <1>0, <1>6 DEF Replay, TypeOK
  <2>2. out' \in [Clients -> Seq(FrameIds)] /\ backlog' \in [Clients -> Seq(FrameIds)]
    BY <1>0, <1>6, <2>1 DEF Replay, TypeOK
  <2>3. ended' \in [Clients -> BOOLEAN]
    <3>1. (ended[c] \/ frames[Head(backlog[c])] = "execution_finished") \in BOOLEAN
      BY <1>0 DEF TypeOK
    <3> QED BY <1>0, <1>6, <3>1 DEF Replay, TypeOK
  <2>4. shown' \in [Clients -> {"running", "finished", "error"}]
    BY <1>0, <1>6 DEF Replay, Applied, TypeOK
  <2> QED BY <1>0, <1>2, <1>6, <2>2, <2>3, <2>4 DEF Replay, Typed, TypeOK, publisherVars
<1>7. ASSUME NEW c \in Clients, EndReplay(c) PROVE Typed'
  BY <1>0, <1>2, <1>7 DEF EndReplay, Unsubscribed, Typed, TypeOK, publisherVars
<1>8. ASSUME NEW c \in Clients, Deliver(c) PROVE Typed'
  <2>1. /\ Head(queue[c]) \in FrameIds /\ Tail(queue[c]) \in Seq(FrameIds)
        /\ Len(Tail(queue[c])) = Len(queue[c]) - 1 /\ Len(queue[c]) \in Nat
    BY <1>0, <1>8 DEF Deliver, TypeOK
  <2>2. out' \in [Clients -> Seq(FrameIds)] /\ queue' \in [Clients -> Seq(FrameIds)]
    BY <1>0, <1>8, <2>1 DEF Deliver, TypeOK
  <2>3. \A d \in Clients : Len(queue'[d]) <= QueueSize
    <3>1. queue' = [queue EXCEPT ![c] = Tail(queue[c])] BY <1>8 DEF Deliver
    <3> QED BY <1>0, <2>1, <3>1, SizesAssumption DEF TypeOK
  <2>4. shown' \in [Clients -> {"running", "finished", "error"}]
    BY <1>0, <1>8 DEF Deliver, Applied, TypeOK
  <2>5. /\ stream' \in [Clients -> {"none", "replay", "live", "closed"}]
        /\ subscribers' \subseteq Clients
    BY <1>0, <1>8 DEF Deliver, Unsubscribed, TypeOK
  <2> QED
    BY <1>0, <1>2, <1>8, <2>2, <2>3, <2>4, <2>5 DEF Deliver, Typed, TypeOK, publisherVars
<1>9. ASSUME NEW c \in Clients, Disconnect(c) PROVE Typed'
  <2>1. shown' \in [Clients -> {"running", "finished", "error"}]
    BY <1>0, <1>9 DEF Disconnect, TypeOK
  <2> QED
    BY <1>0, <1>2, <1>9, <2>1 DEF Disconnect, Unsubscribed, Typed, TypeOK, publisherVars
<1>10. CASE UNCHANGED vars
  BY <1>0, <1>2, <1>10 DEF vars, Typed, TypeOK, publisherVars, streamVars
<1> QED
  BY <1>1, <1>3, <1>4, <1>5, <1>6, <1>7, <1>8, <1>9, <1>10 DEF Next, Reads

\* The types hold at the start.
LEMMA InitTyped == ASSUME Init PROVE Typed
BY SizesAssumption DEF Init, Typed, TypeOK, FrameIds, Terminals

\* The history and the queues keep to their sizes and hold published frames.
THEOREM BusTypeCorrect == Spec => []TypeOK
<1>1. Typed => TypeOK BY DEF Typed
<1> QED BY <1>1, InitTyped, NextTyped, PTL DEF Spec

-----------------------------------------------------------------------------
(* Registration *)

\* Every step keeps exactly the open streams registered.
LEMMA NextRegistered == ASSUME Typed, OpenIsRegistered, [Next]_vars PROVE OpenIsRegistered'
<1>0. stream \in [Clients -> {"none", "replay", "live", "closed"}] BY DEF Typed, TypeOK
<1> USE DEF OpenIsRegistered, Open
<1>1. CASE UNCHANGED <<stream, subscribers>> BY <1>1
<1>2. ASSUME NEW c \in Clients, Subscribe(c) PROVE OpenIsRegistered'
  BY <1>0, <1>2 DEF Subscribe
<1>3. ASSUME NEW c \in Clients, stream' = [stream EXCEPT ![c] = "closed"],
             subscribers' = Unsubscribed(c)
      PROVE  OpenIsRegistered'
  BY <1>0, <1>3 DEF Unsubscribed
<1>4. ASSUME NEW c \in Clients, EndReplay(c) PROVE OpenIsRegistered'
  <2>1. CASE ended[c] BY <1>3, <1>4, <2>1 DEF EndReplay
  <2>2. CASE ~ended[c] BY <1>0, <1>4, <2>2 DEF EndReplay
  <2> QED BY <2>1, <2>2
<1>5. ASSUME NEW c \in Clients, Deliver(c) PROVE OpenIsRegistered'
  BY <1>1, <1>3, <1>5 DEF Deliver
<1>6. ASSUME NEW c \in Clients, Disconnect(c) PROVE OpenIsRegistered'
  BY <1>3, <1>6 DEF Disconnect
<1>7. ASSUME NEW c \in Clients, Put(c) \/ Replay(c) PROVE UNCHANGED <<stream, subscribers>>
  BY <1>7 DEF Put, Replay, streamVars
<1>8. ASSUME (\E kind \in Kinds : Publish(kind)) \/ EndPublisher \/ UNCHANGED vars
      PROVE  UNCHANGED <<stream, subscribers>>
  BY <1>8 DEF Publish, EndPublisher, vars, streamVars
<1> QED BY <1>1, <1>2, <1>4, <1>5, <1>6, <1>7, <1>8 DEF Next, Reads

\* Exactly the open streams are registered.
THEOREM RegisteredCorrect == Spec => []OpenIsRegistered
<1> DEFINE Inv == Typed /\ OpenIsRegistered
<1>1. Init => Inv BY InitTyped DEF Init, OpenIsRegistered, Open
<1>2. Inv /\ [Next]_vars => Inv' BY NextTyped, NextRegistered
<1>3. Inv => OpenIsRegistered OBVIOUS
<1> HIDE DEF Inv
<1> QED BY <1>1, <1>2, <1>3, PTL DEF Spec

-----------------------------------------------------------------------------
(* The history *)

\* The history rises to the newest frame.
LEMMA HistoryElems ==
  ASSUME Typed, NewestFrames
  PROVE  /\ Sorted(history) /\ Len(history) \in Nat /\ Len(history) <= Len(frames)
         /\ Elems(history) = (Len(frames) - Len(history) + 1)..Len(frames)
<1> DEFINE N == Len(frames)
           k == Len(history)
<1>1. N \in Nat /\ k \in Nat /\ k <= N BY FrameFacts DEF Typed, TypeOK, NewestFrames
<1>2. \A i \in 1..k : history[i] = N - k + i BY DEF NewestFrames
<1> HIDE DEF N, k
<1>3. Sorted(history)
  <2>1. ASSUME NEW i \in 1..k, NEW j \in 1..k, i < j PROVE history[i] < history[j]
    BY <1>1, <1>2, <2>1
  <2> QED BY <2>1 DEF Sorted, k
<1>4. ASSUME NEW x \in Elems(history) PROVE x \in (N - k + 1)..N
  <2>1. PICK i \in 1..k : x = history[i] BY <1>4 DEF Elems, k
  <2> QED BY <1>1, <1>2, <2>1
<1>5. ASSUME NEW x \in (N - k + 1)..N PROVE x \in Elems(history)
  <2>1. x - (N - k) \in 1..k /\ N - k + (x - (N - k)) = x BY <1>1
  <2>2. history[x - (N - k)] = x BY <1>2, <2>1
  <2> QED BY <2>1, <2>2 DEF Elems, k
<1> QED BY <1>1, <1>3, <1>4, <1>5 DEF N, k

\* A publication keeps the newest frames (Remember).
LEMMA PublishHistory ==
  ASSUME Typed, NewestFrames, NEW kind \in Kinds, Publish(kind)
  PROVE  NewestFrames'
<1> DEFINE N == Len(frames)
           k == Len(history)
<1>1. /\ N \in Nat /\ k \in Nat /\ k <= N /\ k \in {N, HistorySize} /\ k <= HistorySize
      /\ HistorySize \in Nat \ {0} /\ history \in Seq(FrameIds)
  BY FrameFacts, SizesAssumption DEF Typed, TypeOK, NewestFrames
<1>2. \A i \in 1..k : history[i] = N - k + i BY DEF NewestFrames
<1>3. Len(frames') = N + 1 BY DEF Publish, Typed, TypeOK
<1>4. CASE k = HistorySize
  <2>1. history' = Append(Tail(history), N + 1) BY <1>4 DEF Publish, Remember
  <2>2. history # <<>> BY <1>1, <1>4
  <2>3. /\ Tail(history) \in Seq(FrameIds) /\ Len(Tail(history)) = k - 1
        /\ \A i \in 1..(k - 1) : Tail(history)[i] = history[i + 1]
    BY <1>1, <2>2
  <2>4. /\ Len(history') = k /\ history'[k] = N + 1
        /\ \A i \in 1..(k - 1) : history'[i] = history[i + 1]
    <3> DEFINE t == Tail(history)
    <3>1. \A u \in Seq(FrameIds) : Len(Append(u, N + 1)) = Len(u) + 1
                                   /\ Append(u, N + 1)[Len(u) + 1] = N + 1
                                   /\ \A i \in 1..Len(u) : Append(u, N + 1)[i] = u[i]
      OBVIOUS
    <3> HIDE DEF t
    <3>2. t \in Seq(FrameIds) /\ history' = Append(t, N + 1) /\ Len(t) = k - 1
      BY <2>1, <2>3 DEF t
    <3>3. Len(t) + 1 = k BY <1>1, <3>2
    <3> QED BY <2>3, <3>1, <3>2, <3>3 DEF t
  <2> HIDE DEF N, k
  <2>5. ASSUME NEW i \in 1..k PROVE history'[i] = (N + 1) - k + i
    <3>1. CASE i = k BY <1>1, <2>4, <3>1
    <3>2. CASE i # k
      <4>1. i \in 1..(k - 1) /\ i + 1 \in 1..k BY <1>1, <3>2
      <4> QED BY <1>1, <1>2, <2>4, <4>1
    <3> QED BY <3>1, <3>2
  <2> QED BY <1>1, <1>3, <1>4, <2>4, <2>5 DEF NewestFrames
<1>5. CASE k # HistorySize
  <2>1. history' = Append(history, N + 1) BY <1>5 DEF Publish, Remember
  <2>2. /\ Len(history') = k + 1 /\ history'[k + 1] = N + 1
        /\ \A i \in 1..k : history'[i] = history[i]
    BY <1>1, <2>1
  <2> HIDE DEF N, k
  <2>3. k = N BY <1>1, <1>5
  <2>4. ASSUME NEW i \in 1..(k + 1) PROVE history'[i] = (N + 1) - (k + 1) + i
    <3>1. CASE i = k + 1 BY <1>1, <2>2, <3>1
    <3>2. CASE i # k + 1
      <4>1. i \in 1..k BY <1>1, <3>2
      <4> QED BY <1>1, <1>2, <2>2, <4>1
    <3> QED BY <3>1, <3>2
  <2> QED BY <1>1, <1>3, <2>2, <2>3, <2>4 DEF NewestFrames
<1> QED BY <1>4, <1>5

-----------------------------------------------------------------------------
(* What the clients got *)

\* What a publication, a put and a read may not disturb.
Streamed == InFlight /\ NoGap /\ Covered /\ Begun /\ OldestGot

\* Reading and closing only move what a client got: nothing else depends on
\* it.
LEMMA Moved ==
  ASSUME Typed, Streamed, UNCHANGED <<frames, targets, dropped>>,
         \A c \in Clients : Got(c)' = Got(c),
         \A c \in Clients : Open(c)' => Open(c)
  PROVE  Streamed'
<1>0. targets \subseteq Clients BY DEF Typed, TypeOK
<1>1. InFlight' BY <1>0 DEF Streamed, InFlight
<1>2. NoGap' BY DEF Streamed, NoGap
<1>3. Covered' BY DEF Streamed, Covered
<1>4. Begun' BY DEF Streamed, Begun
<1>5. OldestGot' BY DEF Streamed, OldestGot
<1> QED BY <1>1, <1>2, <1>3, <1>4, <1>5 DEF Streamed

\* A publication sets the frame in flight to all the open streams.
LEMMA PublishStreamed ==
  ASSUME Typed, OpenIsRegistered, Streamed, NEW kind \in Kinds, Publish(kind)
  PROVE  Streamed'
<1> DEFINE N == Len(frames)
<1>0. /\ N \in Nat /\ Len(frames') = N + 1 /\ targets = {} /\ targets' = subscribers
      /\ UNCHANGED <<dropped, subscribers>> /\ subscribers \subseteq Clients
      /\ UNCHANGED <<out, backlog, queue, stream>> /\ (N = 0 <=> frames = <<>>)
  BY FrameFacts DEF Publish, Typed, TypeOK, streamVars
<1>1. \A c \in Clients : Got(c)' = Got(c) /\ (Open(c)' <=> Open(c))
  BY <1>0 DEF Got, Open
<1>2. \A c \in Clients : \A x \in Got(c) : x \in Nat /\ x <= N
  BY <1>0, FrameFacts DEF FrameIds, Typed
<1>3. \A c \in Clients : Open(c) <=> c \in targets' BY <1>0 DEF OpenIsRegistered
<1> HIDE DEF N
<1>4. InFlight'
  <2>1. ASSUME NEW c \in targets'
        PROVE  frames' # <<>> /\ (\A x \in Got(c)' : x < N + 1) /\ (Got(c)' = {} => N + 1 = 1)
    <3>1. c \in Clients /\ Open(c) BY <1>0, <1>3
    <3>2. Got(c) = {} => N = 0 BY <1>0, <3>1 DEF Streamed, Begun, N
    <3>3. frames' # <<>> BY <1>0
    <3> QED BY <1>0, <1>1, <1>2, <3>1, <3>2, <3>3
  <2> QED BY <1>0, <2>1 DEF InFlight
<1>5. NoGap'
  <2>1. ASSUME NEW c \in Clients, NEW x \in Got(c), NEW y \in Got(c), NEW n \in 1..(N + 1),
               x < n, n < y
        PROVE  n \in Got(c) \cup dropped[c]
    <3>1. n \in 1..N BY <1>0, <1>2, <2>1
    <3> QED BY <2>1, <3>1 DEF Streamed, NoGap, N
  <2> QED BY <1>0, <1>1, <2>1 DEF NoGap
<1>6. Covered'
  <2>1. ASSUME NEW c \in Clients, Open(c) \/ c \in targets', NEW n \in 1..(N + 1)
        PROVE  \/ n = N + 1 /\ c \in targets'
               \/ n \in Got(c) \cup dropped[c]
               \/ \A x \in Got(c) : n < x
    <3>1. CASE n = N + 1 BY <1>3, <2>1, <3>1
    <3>2. CASE n # N + 1
      <4>1. n \in 1..N BY <1>0, <3>2
      <4> QED BY <1>0, <1>3, <2>1, <4>1 DEF Streamed, Covered, N
    <3> QED BY <3>1, <3>2
  <2> QED BY <1>0, <1>1, <2>1 DEF Covered
<1>7. Begun'
  <2>1. ASSUME NEW c \in Clients, Open(c), Got(c) = {} PROVE N + 1 = 1 /\ c \in targets'
    <3>1. N = 0 BY <1>0, <2>1 DEF Streamed, Begun, N
    <3> QED BY <1>3, <2>1, <3>1
  <2> QED BY <1>0, <1>1, <2>1 DEF Begun
<1>8. OldestGot'
  <2>1. ASSUME NEW c \in Clients, NEW x \in Got(c), \A y \in Got(c) : x <= y
        PROVE  x = 1 \/ x + HistorySize - 1 <= N + 1
    <3>1. x = 1 \/ x + HistorySize - 1 <= N BY <2>1 DEF Streamed, OldestGot, N
    <3> QED BY <1>0, <1>2, <3>1, SizesAssumption
  <2> QED BY <1>0, <1>1, <2>1 DEF OldestGot
<1> QED BY <1>4, <1>5, <1>6, <1>7, <1>8 DEF Streamed

\* The frame in flight reaches a target or is dropped there: a queue that is
\* full has something in it.
LEMMA PutGot ==
  ASSUME Typed, NEW c \in Clients, Put(c)
  PROVE  /\ UNCHANGED <<frames, stream, out, backlog>> /\ targets' = targets \ {c} /\ c \in targets
         /\ \A d \in Clients \ {c} :
              Got(d)' = Got(d) /\ dropped'[d] = dropped[d] /\ queue'[d] = queue[d]
         /\ \/ /\ Got(c)' = Got(c) \cup {Len(frames)} /\ dropped'[c] = dropped[c]
               /\ queue'[c] = Append(queue[c], Len(frames))
            \/ /\ Got(c)' = Got(c) /\ dropped'[c] = dropped[c] \cup {Len(frames)}
               /\ queue'[c] = queue[c] /\ Got(c) # {}
<1>0. /\ UNCHANGED <<frames, stream, out, backlog>> /\ targets' = targets \ {c} /\ c \in targets
      /\ Len(frames) \in FrameIds
      /\ queue \in [Clients -> Seq(FrameIds)] /\ dropped \in [Clients -> SUBSET FrameIds]
  BY DEF Put, publisherVars, streamVars, Typed, TypeOK
<1>1. CASE Len(queue[c]) < QueueSize
  <2>1. queue' = [queue EXCEPT ![c] = Append(queue[c], Len(frames))] /\ dropped' = dropped
    BY <1>1 DEF Put
  <2>2. queue'[c] = Append(queue[c], Len(frames)) /\ \A d \in Clients \ {c} : queue'[d] = queue[d]
    BY <1>0, <2>1
  <2>3. Elems(Append(queue[c], Len(frames))) = Elems(queue[c]) \cup {Len(frames)}
    BY <1>0, ElemsAppend
  <2> QED BY <1>0, <2>1, <2>2, <2>3 DEF Got
<1>2. CASE ~(Len(queue[c]) < QueueSize)
  <2>1. dropped' = [dropped EXCEPT ![c] = dropped[c] \cup {Len(frames)}] /\ queue' = queue
    BY <1>2 DEF Put
  <2>2. queue[c] # <<>> BY <1>2, SizesAssumption
  <2>3. Elems(queue[c]) # {} BY <1>0, <2>2, ElemsEmpty
  <2> QED BY <1>0, <2>1, <2>3 DEF Got
<1> QED BY <1>1, <1>2

\* A put keeps what the clients got without a gap.
LEMMA PutStreamed ==
  ASSUME Typed, Streamed, NEW c \in Clients, Put(c)
  PROVE  Streamed'
<1> DEFINE N == Len(frames)
           G == Got(c)
           D == dropped[c]
           G1 == Got(c)'
           D1 == dropped'[c]
<1>0. /\ N \in Nat \ {0} /\ G \subseteq 1..N /\ N \in 1..N
      /\ \A d \in Clients : Got(d) \subseteq 1..N
  <2>1. c \in targets BY DEF Put
  <2>2. Len(frames) \in FrameIds /\ TypeOK BY <2>1 DEF Typed
  <2> QED BY <2>2, FrameFacts DEF FrameIds
<1>1. /\ UNCHANGED <<frames, stream, out, backlog>> /\ targets' = targets \ {c} /\ c \in targets
      /\ \A d \in Clients \ {c} : Got(d)' = Got(d) /\ dropped'[d] = dropped[d]
      /\ \/ G1 = G \cup {N} /\ D1 = D
         \/ G1 = G /\ D1 = D \cup {N} /\ G # {}
  BY PutGot
<1>2. (\A x \in G : x < N) /\ (G = {} => N = 1) BY <1>1 DEF Streamed, InFlight
<1>3. \A d \in Clients : Open(d)' <=> Open(d) BY <1>1 DEF Open
<1>4. Len(frames') = N BY <1>1
<1>5. \A n \in 1..N : n = N \/ n \in G \cup D \/ (\A x \in G : n < x)
  BY <1>1 DEF Streamed, Covered
<1>6. \A x, y \in G : \A n \in 1..N : x < n /\ n < y => n \in G \cup D
  BY DEF Streamed, NoGap
<1>7. \A x \in G : (\A y \in G : x <= y) => x = 1 \/ x + HistorySize - 1 <= N
  BY DEF Streamed, OldestGot
<1> HIDE DEF G, D, G1, D1, N
<1>8. InFlight'
  BY <1>1 DEF Streamed, InFlight, Typed, TypeOK
<1>9. \A x, y \in G1 : \A n \in 1..N : x < n /\ n < y => n \in G1 \cup D1
  <2> SUFFICES ASSUME NEW x \in G1, NEW y \in G1, NEW n \in 1..N, x < n, n < y
               PROVE  n \in G1 \cup D1
    OBVIOUS
  <2>0. G1 \subseteq 1..N BY <1>0, <1>1
  <2>1. n \in Nat /\ n <= N /\ x \in 1..N /\ y \in 1..N BY <1>0, <2>0
  <2>2. n # N BY <1>0, <2>1
  <2>3. x \in G BY <1>0, <1>1, <2>1
  <2>4. ~(\A z \in G : n < z) BY <2>1, <2>3
  <2> QED BY <1>1, <1>5, <2>2, <2>4
<1>10. \A n \in 1..N : n \in G1 \cup D1 \/ \A x \in G1 : n < x
  <2> SUFFICES ASSUME NEW n \in 1..N PROVE n \in G1 \cup D1 \/ \A x \in G1 : n < x
    OBVIOUS
  <2>1. CASE n = N BY <1>1, <2>1
  <2>2. CASE n # N
    <3>1. n < N BY <1>0, <2>2
    <3> QED BY <1>1, <1>5, <2>2, <3>1
  <2> QED BY <2>1, <2>2
<1>11. G1 # {} BY <1>1
<1>12. \A x \in G1 : (\A y \in G1 : x <= y) => x = 1 \/ x + HistorySize - 1 <= N
  <2> SUFFICES ASSUME NEW x \in G1, \A y \in G1 : x <= y
               PROVE  x = 1 \/ x + HistorySize - 1 <= N
    OBVIOUS
  <2>1. CASE G = {} BY <1>1, <1>2, <2>1
  <2>2. CASE G # {}
    <3>1. PICK z \in G : TRUE BY <2>2
    <3>2. z < N /\ x <= z /\ z \in 1..N BY <1>0, <1>1, <1>2, <3>1
    <3>3. x \in G BY <1>0, <1>1, <3>2
    <3>4. \A y \in G : x <= y BY <1>1
    <3> QED BY <1>7, <3>3, <3>4
  <2> QED BY <2>1, <2>2
<1>13. NoGap'
  <2>1. ASSUME NEW d \in Clients PROVE \A x, y \in Got(d)' : \A n \in 1..Len(frames') :
                                         x < n /\ n < y => n \in Got(d)' \cup dropped'[d]
    <3>1. CASE d = c BY <1>4, <1>9, <3>1 DEF G1, D1
    <3>2. CASE d # c BY <1>1, <3>2 DEF Streamed, NoGap
    <3> QED BY <3>1, <3>2
  <2> QED BY <2>1 DEF NoGap
<1>14. Covered'
  <2>1. ASSUME NEW d \in Clients, Open(d)' \/ d \in targets', NEW n \in 1..Len(frames')
        PROVE  \/ n = Len(frames') /\ d \in targets'
               \/ n \in Got(d)' \cup dropped'[d]
               \/ \A x \in Got(d)' : n < x
    <3>1. CASE d = c BY <1>4, <1>10, <2>1, <3>1 DEF G1, D1
    <3>2. CASE d # c BY <1>1, <1>3, <2>1, <3>2 DEF Streamed, Covered
    <3> QED BY <3>1, <3>2
  <2> QED BY <2>1 DEF Covered
<1>15. Begun'
  <2>1. ASSUME NEW d \in Clients, Open(d)', Got(d)' = {}
        PROVE  frames' = <<>> \/ (Len(frames') = 1 /\ d \in targets')
    <3>1. d # c BY <1>11, <2>1 DEF G1
    <3> QED BY <1>1, <1>3, <2>1, <3>1 DEF Streamed, Begun
  <2> QED BY <2>1 DEF Begun
<1>16. OldestGot'
  <2>1. ASSUME NEW d \in Clients, NEW x \in Got(d)', \A y \in Got(d)' : x <= y
        PROVE  x = 1 \/ x + HistorySize - 1 <= Len(frames')
    <3>1. CASE d = c BY <1>4, <1>12, <2>1, <3>1 DEF G1
    <3>2. CASE d # c BY <1>1, <2>1, <3>2 DEF Streamed, OldestGot
    <3> QED BY <3>1, <3>2
  <2> QED BY <2>1 DEF OldestGot
<1> QED BY <1>8, <1>13, <1>14, <1>15, <1>16 DEF Streamed

\* Who subscribes gets the history: the newest frames, without a gap.
LEMMA SubscribeStreamed ==
  ASSUME Typed, NewestFrames, Ordered, Streamed, NEW c \in Clients, Subscribe(c)
  PROVE  Streamed'
<1> DEFINE N == Len(frames)
           k == Len(history)
           G1 == Got(c)'
<1>0. /\ UNCHANGED <<frames, targets, dropped, out, queue>>
      /\ backlog' = [backlog EXCEPT ![c] = history] /\ backlog \in [Clients -> Seq(FrameIds)]
      /\ stream' = [stream EXCEPT ![c] = "replay"] /\ stream[c] = "none"
      /\ stream \in [Clients -> {"none", "replay", "live", "closed"}]
      /\ targets \subseteq Clients
  BY DEF Subscribe, publisherVars, Typed, TypeOK
<1>1. c \notin targets /\ Got(c) = {} BY <1>0 DEF Ordered
<1>2. /\ N \in Nat /\ k \in Nat /\ k <= N /\ k \in {N, HistorySize} /\ HistorySize \in Nat \ {0}
      /\ Elems(history) = (N - k + 1)..N
  BY FrameFacts, HistoryElems, SizesAssumption DEF NewestFrames, Typed
<1>3. G1 = (N - k + 1)..N
  <2>1. Elems(out[c]) = {} /\ Elems(queue[c]) = {} BY <1>1 DEF Got
  <2>2. out'[c] = out[c] /\ queue'[c] = queue[c] /\ backlog'[c] = history BY <1>0
  <2> QED BY <1>2, <2>1, <2>2 DEF Got
<1>4. \A d \in Clients \ {c} : Got(d)' = Got(d) /\ (Open(d)' <=> Open(d))
  BY <1>0 DEF Got, Open
<1> HIDE DEF N, k, G1
<1>5. InFlight' BY <1>0, <1>1, <1>4 DEF Streamed, InFlight
<1>6. \A x, y \in G1 : \A n \in 1..N : x < n /\ n < y => n \in G1 BY <1>2, <1>3
<1>7. \A n \in 1..N : n \in G1 \/ \A x \in G1 : n < x BY <1>2, <1>3
<1>8. G1 = {} => N = 0
  <2>1. ASSUME N # 0 PROVE N \in G1 BY <1>2, <1>3, <2>1
  <2> QED BY <2>1
<1>9. \A x \in G1 : (\A y \in G1 : x <= y) => x = 1 \/ x + HistorySize - 1 <= N
  <2> SUFFICES ASSUME NEW x \in G1, \A y \in G1 : x <= y PROVE x = 1 \/ x + HistorySize - 1 <= N
    OBVIOUS
  <2>1. x \in (N - k + 1)..N /\ N - k + 1 \in G1 BY <1>2, <1>3
  <2>2. x = N - k + 1 BY <1>2, <2>1
  <2> QED BY <1>2, <2>2
<1>10. NoGap'
  <2>1. ASSUME NEW d \in Clients PROVE \A x, y \in Got(d)' : \A n \in 1..Len(frames') :
                                         x < n /\ n < y => n \in Got(d)' \cup dropped'[d]
    <3>1. CASE d = c BY <1>0, <1>6, <3>1 DEF G1, N
    <3>2. CASE d # c
      <4>1. Got(d)' = Got(d) /\ dropped'[d] = dropped[d] /\ Len(frames') = Len(frames)
        BY <1>0, <1>4, <3>2
      <4>2. \A x, y \in Got(d) : \A n \in 1..Len(frames) :
              x < n /\ n < y => n \in Got(d) \cup dropped[d]
        BY DEF Streamed, NoGap
      <4> QED BY <4>1, <4>2
    <3> QED BY <3>1, <3>2
  <2> QED BY <2>1 DEF NoGap
<1>11. Covered'
  <2>1. ASSUME NEW d \in Clients, Open(d)' \/ d \in targets', NEW n \in 1..Len(frames')
        PROVE  \/ n = Len(frames') /\ d \in targets'
               \/ n \in Got(d)' \cup dropped'[d]
               \/ \A x \in Got(d)' : n < x
    <3>1. CASE d = c BY <1>0, <1>7, <2>1, <3>1 DEF G1, N
    <3>2. CASE d # c BY <1>0, <1>4, <2>1, <3>2 DEF Streamed, Covered
    <3> QED BY <3>1, <3>2
  <2> QED BY <2>1 DEF Covered
<1>12. Begun'
  <2>1. ASSUME NEW d \in Clients, Open(d)', Got(d)' = {}
        PROVE  frames' = <<>> \/ (Len(frames') = 1 /\ d \in targets')
    <3>1. CASE d = c
      <4>1. Len(frames) = 0 BY <1>8, <2>1, <3>1 DEF G1, N
      <4>2. frames = <<>> BY <4>1 DEF Typed, TypeOK
      <4> QED BY <1>0, <4>2
    <3>2. CASE d # c BY <1>0, <1>4, <2>1, <3>2 DEF Streamed, Begun
    <3> QED BY <3>1, <3>2
  <2> QED BY <2>1 DEF Begun
<1>13. OldestGot'
  <2>1. ASSUME NEW d \in Clients, NEW x \in Got(d)', \A y \in Got(d)' : x <= y
        PROVE  x = 1 \/ x + HistorySize - 1 <= Len(frames')
    <3>1. CASE d = c BY <1>0, <1>9, <2>1, <3>1 DEF G1, N
    <3>2. CASE d # c BY <1>0, <1>4, <2>1, <3>2 DEF Streamed, OldestGot
    <3> QED BY <3>1, <3>2
  <2> QED BY <2>1 DEF OldestGot
<1> QED BY <1>5, <1>10, <1>11, <1>12, <1>13 DEF Streamed

-----------------------------------------------------------------------------
(* The order of a stream *)

\* Ordered, for one client.
OrderedFor(c) ==
  /\ Sorted(out[c]) /\ Sorted(backlog[c]) /\ Sorted(queue[c])
  /\ \A x \in Elems(out[c]) : \A y \in Elems(backlog[c]) \cup Elems(queue[c]) : x < y
  /\ \A x \in Elems(backlog[c]) : \A y \in Elems(queue[c]) : x < y
  /\ stream[c] = "live" => backlog[c] = <<>>
  /\ stream[c] = "none" => Got(c) = {} /\ c \notin targets

\* A client the step leaves alone keeps its order.
LEMMA OrderedKept ==
  ASSUME Ordered, NEW c \in Clients,
         out'[c] = out[c], backlog'[c] = backlog[c], queue'[c] = queue[c], stream'[c] = stream[c],
         stream[c] = "none" => c \notin targets'
  PROVE  OrderedFor(c)'
BY DEF Ordered, OrderedFor, Got

\* Taking the head of a backlog or of a queue and yielding it: what the client
\* got stays the same.
LEMMA TakeHead ==
  ASSUME NEW S, NEW s \in Seq(S), NEW t \in Seq(S), S \subseteq Nat, t # <<>>,
         Sorted(s), Sorted(t), \A x \in Elems(s) : \A y \in Elems(t) : x < y
  PROVE  /\ Sorted(Append(s, Head(t))) /\ Sorted(Tail(t))
         /\ \A x \in Elems(Append(s, Head(t))) : \A y \in Elems(Tail(t)) : x < y
         /\ Elems(Append(s, Head(t))) = Elems(s) \cup {Head(t)}
         /\ Elems(t) = {Head(t)} \cup Elems(Tail(t))
<1>1. s \in Seq(Nat) /\ t \in Seq(Nat) BY SeqSubset
<1>2. Head(t) \in Nat /\ Head(t) \in S BY <1>1
<1>3. Elems(t) = {Head(t)} \cup Elems(Tail(t)) BY ElemsTail
<1>4. Elems(Append(s, Head(t))) = Elems(s) \cup {Head(t)} BY <1>2, ElemsAppend
<1>5. Sorted(Tail(t)) /\ \A x \in Elems(Tail(t)) : Head(t) < x BY <1>1, SortedTail
<1>6. Sorted(Append(s, Head(t)))
  <2>1. \A x \in Elems(s) : x < Head(t) BY <1>3
  <2> QED BY <1>1, <1>2, <2>1, SortedAppend
<1> QED BY <1>3, <1>4, <1>5, <1>6

\* What a read does to the client that reads (Replay, Deliver).
LEMMA ReadStep ==
  ASSUME Typed, Ordered, NEW c \in Clients, Replay(c) \/ Deliver(c)
  PROVE  OrderedFor(c)' /\ Got(c)' = Got(c)
<1>0. /\ out \in [Clients -> Seq(FrameIds)] /\ backlog \in [Clients -> Seq(FrameIds)]
      /\ queue \in [Clients -> Seq(FrameIds)] /\ FrameIds \subseteq Nat
      /\ stream \in [Clients -> {"none", "replay", "live", "closed"}]
  BY FrameFacts DEF Typed, TypeOK
<1>1. OrderedFor(c) BY DEF Ordered, OrderedFor
<1>2. CASE Replay(c)
  <2> DEFINE t == backlog[c]
             s == out[c]
  <2>1. /\ t # <<>> /\ out'[c] = Append(s, Head(t)) /\ backlog'[c] = Tail(t)
        /\ queue'[c] = queue[c] /\ stream'[c] = "replay"
    BY <1>0, <1>2 DEF Replay
  <2>2. /\ s \in Seq(FrameIds) /\ t \in Seq(FrameIds) /\ Sorted(s) /\ Sorted(t)
        /\ \A x \in Elems(s) : \A y \in Elems(t) : x < y
    BY <1>0, <1>1 DEF OrderedFor
  <2>3. /\ Sorted(Append(s, Head(t))) /\ Sorted(Tail(t))
        /\ \A x \in Elems(Append(s, Head(t))) : \A y \in Elems(Tail(t)) : x < y
        /\ Elems(Append(s, Head(t))) = Elems(s) \cup {Head(t)}
        /\ Elems(t) = {Head(t)} \cup Elems(Tail(t))
    BY <1>0, <2>1, <2>2, TakeHead
  <2>4. Got(c)' = Got(c) BY <2>1, <2>3 DEF Got
  <2>5. /\ \A x \in Elems(out'[c]) : \A y \in Elems(backlog'[c]) \cup Elems(queue'[c]) : x < y
        /\ \A x \in Elems(backlog'[c]) : \A y \in Elems(queue'[c]) : x < y
    BY <1>1, <2>1, <2>3 DEF OrderedFor
  <2> QED BY <1>1, <2>1, <2>3, <2>4, <2>5 DEF OrderedFor
<1>3. CASE Deliver(c)
  <2> DEFINE t == queue[c]
             s == out[c]
  <2>1. /\ t # <<>> /\ out'[c] = Append(s, Head(t)) /\ queue'[c] = Tail(t)
        /\ backlog'[c] = backlog[c] /\ stream[c] = "live" /\ stream'[c] \in {"live", "closed"}
    BY <1>0, <1>3 DEF Deliver
  <2>2. /\ s \in Seq(FrameIds) /\ t \in Seq(FrameIds) /\ Sorted(s) /\ Sorted(t)
        /\ \A x \in Elems(s) : \A y \in Elems(t) : x < y
        /\ backlog[c] = <<>>
    BY <1>0, <1>1, <2>1 DEF OrderedFor
  <2>3. /\ Sorted(Append(s, Head(t))) /\ Sorted(Tail(t))
        /\ \A x \in Elems(Append(s, Head(t))) : \A y \in Elems(Tail(t)) : x < y
        /\ Elems(Append(s, Head(t))) = Elems(s) \cup {Head(t)}
        /\ Elems(t) = {Head(t)} \cup Elems(Tail(t))
    BY <1>0, <2>1, <2>2, TakeHead
  <2>4. Got(c)' = Got(c) BY <2>1, <2>3 DEF Got
  <2>5. Elems(backlog'[c]) = {} BY <1>0, <2>1, <2>2, ElemsEmpty
  <2> QED BY <1>1, <2>1, <2>2, <2>3, <2>4, <2>5 DEF OrderedFor
<1> QED BY <1>2, <1>3

\* Every step keeps the streams in order.
LEMMA NextOrdered ==
  ASSUME Typed, OpenIsRegistered, NewestFrames, Ordered, Streamed, [Next]_vars
  PROVE  Ordered'
<1> SUFFICES ASSUME NEW c \in Clients PROVE OrderedFor(c)'
  BY DEF Ordered, OrderedFor
<1>0. /\ out \in [Clients -> Seq(FrameIds)] /\ backlog \in [Clients -> Seq(FrameIds)]
      /\ queue \in [Clients -> Seq(FrameIds)] /\ FrameIds \subseteq Nat
      /\ stream \in [Clients -> {"none", "replay", "live", "closed"}]
      /\ \A s \in Seq(FrameIds) : s \in Seq(Nat)
  BY FrameFacts, SeqSubset DEF Typed, TypeOK
<1>1. OrderedFor(c) BY DEF Ordered, OrderedFor
<1>2. stream[c] = "none" => c \notin targets /\ c \notin subscribers
  BY <1>1 DEF OrderedFor, OpenIsRegistered, Open
<1>3. ASSUME NEW kind \in Kinds, Publish(kind) PROVE OrderedFor(c)'
  BY <1>2, <1>3, OrderedKept DEF Publish, streamVars
<1>4. ASSUME NEW d \in Clients, Put(d) PROVE OrderedFor(c)'
  <2>1. /\ UNCHANGED <<frames, stream, out, backlog>> /\ targets' = targets \ {d} /\ d \in targets
        /\ d # c => queue'[c] = queue[c]
        /\ d = c => queue'[c] = Append(queue[c], Len(frames)) \/ queue'[c] = queue[c]
    BY <1>4, PutGot
  <2>2. CASE queue'[c] = queue[c] BY <1>2, <2>1, <2>2, OrderedKept
  <2>3. CASE d = c /\ queue'[c] = Append(queue[c], Len(frames))
    <3>1. Len(frames) \in FrameIds /\ \A x \in Got(c) : x < Len(frames)
      BY <2>1, <2>3 DEF Typed, Streamed, InFlight
    <3>2. Elems(queue'[c]) = Elems(queue[c]) \cup {Len(frames)} BY <1>0, <2>3, <3>1, ElemsAppend
    <3>3. Sorted(queue'[c])
      <4>1. \A x \in Elems(queue[c]) : x < Len(frames) BY <3>1 DEF Got
      <4>2. queue[c] \in Seq(Nat) /\ Len(frames) \in Nat BY <1>0, <3>1
      <4> QED BY <1>1, <2>3, <4>1, <4>2, SortedAppend DEF OrderedFor
    <3>4. stream'[c] # "none" BY <1>2, <2>1, <2>3
    <3> QED BY <1>1, <2>1, <3>1, <3>2, <3>3, <3>4 DEF OrderedFor, Got
  <2> QED BY <2>1, <2>2, <2>3
<1>5. ASSUME NEW d \in Clients, Subscribe(d) PROVE OrderedFor(c)'
  <2>1. /\ UNCHANGED <<targets, out, queue>> /\ stream' = [stream EXCEPT ![d] = "replay"]
        /\ backlog' = [backlog EXCEPT ![d] = history] /\ stream[d] = "none"
    BY <1>5 DEF Subscribe
  <2>2. CASE d # c BY <1>0, <1>2, <2>1, <2>2, OrderedKept
  <2>3. CASE d = c
    <3>1. Elems(out[c]) = {} /\ Elems(queue[c]) = {} BY <1>1, <2>1, <2>3 DEF OrderedFor, Got
    <3>2. backlog'[c] = history /\ stream'[c] = "replay" BY <1>0, <2>1, <2>3
    <3>3. Sorted(history) BY HistoryElems
    <3> QED BY <1>1, <2>1, <3>1, <3>2, <3>3 DEF OrderedFor
  <2> QED BY <2>2, <2>3
<1>6. ASSUME NEW d \in Clients, Replay(d) \/ Deliver(d) PROVE OrderedFor(c)'
  <2>1. CASE d = c BY <1>6, <2>1, ReadStep
  <2>2. CASE d # c
    <3>1. /\ out'[c] = out[c] /\ backlog'[c] = backlog[c] /\ queue'[c] = queue[c]
          /\ stream'[c] = stream[c] /\ targets' = targets
      BY <1>0, <1>6, <2>2 DEF Replay, Deliver
    <3> QED BY <1>2, <3>1, OrderedKept
  <2> QED BY <2>1, <2>2
<1>7. ASSUME NEW d \in Clients, EndReplay(d) \/ Disconnect(d) PROVE OrderedFor(c)'
  <2>1. /\ UNCHANGED <<targets, out, queue, backlog>>
        /\ stream'[c] # stream[c] => stream'[c] = "closed" \/ (stream'[c] = "live" /\ backlog[c] = <<>>)
    BY <1>0, <1>7 DEF EndReplay, Disconnect
  <2>2. stream'[c] \in {"closed", "live"} \/ stream'[c] = stream[c] BY <2>1
  <2> QED BY <1>1, <2>1, <2>2 DEF OrderedFor, Got
<1>8. CASE EndPublisher \/ UNCHANGED vars
  BY <1>2, <1>8, OrderedKept DEF EndPublisher, vars, streamVars
<1> QED BY <1>3, <1>4, <1>5, <1>6, <1>7, <1>8 DEF Next, Reads

\* Every step keeps what the clients got without a gap.
LEMMA NextStreamed ==
  ASSUME Typed, OpenIsRegistered, NewestFrames, Ordered, Streamed, [Next]_vars
  PROVE  Streamed'
<1>0. stream \in [Clients -> {"none", "replay", "live", "closed"}] BY DEF Typed, TypeOK
<1>1. ASSUME NEW c \in Clients, Replay(c) \/ Deliver(c) PROVE Streamed'
  <2>1. UNCHANGED <<frames, targets, dropped>> BY <1>1 DEF Replay, Deliver, publisherVars
  <2>2. ASSUME NEW d \in Clients PROVE Got(d)' = Got(d)
    <3>1. CASE d = c BY <1>1, <3>1, ReadStep
    <3>2. CASE d # c
      <4>1. out'[d] = out[d] /\ backlog'[d] = backlog[d] /\ queue'[d] = queue[d]
        BY <1>1, <3>2 DEF Replay, Deliver, Typed, TypeOK
      <4> QED BY <4>1 DEF Got
    <3> QED BY <3>1, <3>2
  <2>3. \A d \in Clients : Open(d)' => Open(d) BY <1>0, <1>1 DEF Replay, Deliver, Open
  <2> QED BY <2>1, <2>2, <2>3, Moved
<1>2. ASSUME NEW c \in Clients, EndReplay(c) \/ Disconnect(c) PROVE Streamed'
  <2>1. UNCHANGED <<frames, targets, dropped, out, backlog, queue>>
    BY <1>2 DEF EndReplay, Disconnect, publisherVars
  <2>2. \A d \in Clients : Got(d)' = Got(d) BY <2>1 DEF Got
  <2>3. \A d \in Clients : Open(d)' => Open(d) BY <1>0, <1>2 DEF EndReplay, Disconnect, Open
  <2> QED BY <2>1, <2>2, <2>3, Moved
<1>3. CASE EndPublisher \/ UNCHANGED vars
  <2>1. UNCHANGED <<frames, targets, dropped, out, backlog, queue, stream>>
    BY <1>3 DEF EndPublisher, vars, publisherVars, streamVars
  <2>2. \A d \in Clients : Got(d)' = Got(d) BY <2>1 DEF Got
  <2>3. \A d \in Clients : Open(d)' => Open(d) BY <2>1 DEF Open
  <2> QED BY <2>1, <2>2, <2>3, Moved
<1> QED BY <1>1, <1>2, <1>3, PublishStreamed, PutStreamed, SubscribeStreamed DEF Next, Reads

\* Only a publication changes the history.
LEMMA NextNewest == ASSUME Typed, NewestFrames, [Next]_vars PROVE NewestFrames'
<1>1. CASE \E kind \in Kinds : Publish(kind) BY <1>1, PublishHistory
<1>2. CASE UNCHANGED <<frames, history>> BY <1>2 DEF NewestFrames
<1>3. (\E kind \in Kinds : Publish(kind)) \/ UNCHANGED <<frames, history>>
  BY DEF Next, Reads, vars, publisherVars, EndPublisher, Put, Subscribe, Replay, EndReplay,
         Deliver, Disconnect
<1> QED BY <1>1, <1>2, <1>3

\* A client receives frames in the order of publication, none twice, and every
\* frame between two it received was dropped by its full queue; it misses at
\* the start only what the history no longer held.
THEOREM FaithfulStreamCorrect == Spec => []FaithfulStream
<1> DEFINE Inv == Typed /\ OpenIsRegistered /\ NewestFrames /\ Ordered /\ Streamed
<1>1. ASSUME Init PROVE Inv
  <2>1. Typed /\ OpenIsRegistered BY <1>1, InitTyped DEF Init, OpenIsRegistered, Open
  <2>2. /\ frames = <<>> /\ history = <<>> /\ targets = {} /\ Len(frames) = 0
        /\ \A c \in Clients : /\ out[c] = <<>> /\ backlog[c] = <<>> /\ queue[c] = <<>>
                              /\ stream[c] = "none"
    BY <1>1 DEF Init
  <2>3. Elems(<<>>) = {} /\ Sorted(<<>>) BY DEF Elems, Sorted
  <2>4. \A c \in Clients : Got(c) = {} /\ ~Open(c) BY <2>2, <2>3 DEF Got, Open
  <2>5. NewestFrames BY <2>2 DEF NewestFrames
  <2>6. Ordered BY <2>2, <2>3, <2>4 DEF Ordered
  <2>7. Streamed
    BY <2>2, <2>4 DEF Streamed, InFlight, NoGap, Covered, Begun, OldestGot
  <2> QED BY <2>1, <2>5, <2>6, <2>7
<1>2. Inv /\ [Next]_vars => Inv'
  BY NextTyped, NextRegistered, NextNewest, NextOrdered, NextStreamed
<1>3. ASSUME Inv PROVE FaithfulStream
  <2> SUFFICES ASSUME NEW c \in Clients
               PROVE  /\ out[c] # <<>> =>
                           out[c][1] = 1 \/ out[c][1] + HistorySize - 1 <= Len(frames)
                      /\ \A i \in 1..(Len(out[c]) - 1) :
                           /\ out[c][i] < out[c][i + 1]
                           /\ (out[c][i] + 1)..(out[c][i + 1] - 1) \subseteq dropped[c]
    BY DEF FaithfulStream
  <2> DEFINE s == out[c]
  <2>1. s \in Seq(Nat) /\ Len(s) \in Nat /\ Len(frames) \in Nat /\ Got(c) \subseteq FrameIds
    BY <1>3, FrameFacts DEF Typed
  <2>2. /\ Sorted(s)
        /\ \A x \in Elems(s) : \A y \in Elems(backlog[c]) \cup Elems(queue[c]) : x < y
    BY <1>3 DEF Ordered
  <2>3. \A i \in 1..Len(s) : s[i] \in Elems(s) /\ s[i] \in Got(c) /\ s[i] \in Nat
    BY <2>1 DEF Elems, Got
  <2> HIDE DEF s
  <2>4. ASSUME s # <<>> PROVE s[1] = 1 \/ s[1] + HistorySize - 1 <= Len(frames)
    <3>1. 1 \in 1..Len(s) BY <2>1, <2>4
    <3>2. ASSUME NEW y \in Got(c) PROVE s[1] <= y
      <4>0. s[1] \in Nat /\ y \in Nat BY <2>1, <2>3, <3>1 DEF FrameIds
      <4>1. CASE y \in Elems(s)
        <5>1. PICK i \in 1..Len(s) : y = s[i] BY <4>1 DEF Elems
        <5>2. CASE i = 1 BY <4>0, <5>1, <5>2
        <5>3. CASE i # 1
          <6>1. 1 < i BY <5>1, <5>3
          <6> QED BY <2>2, <3>1, <4>0, <5>1, <6>1 DEF Sorted
        <5> QED BY <5>2, <5>3
      <4>2. CASE y \notin Elems(s) BY <2>2, <2>3, <3>1, <4>0, <4>2 DEF Got, s
      <4> QED BY <4>1, <4>2
    <3> QED BY <1>3, <2>3, <3>1, <3>2 DEF Streamed, OldestGot
  <2>5. ASSUME NEW i \in 1..(Len(s) - 1) PROVE s[i] < s[i + 1]
    <3>1. i \in 1..Len(s) /\ i + 1 \in 1..Len(s) /\ i < i + 1 BY <2>1
    <3> QED BY <2>2, <3>1 DEF Sorted
  <2>6. ASSUME NEW i \in 1..(Len(s) - 1), NEW n \in (s[i] + 1)..(s[i + 1] - 1)
        PROVE  n \in dropped[c]
    <3>1. i \in 1..Len(s) /\ i + 1 \in 1..Len(s) BY <2>1
    <3>2. s[i] \in Got(c) /\ s[i + 1] \in Got(c) /\ s[i] \in Nat /\ s[i + 1] \in FrameIds
      BY <2>1, <2>3, <3>1
    <3>3. n \in 1..Len(frames) /\ s[i] < n /\ n < s[i + 1] BY <2>1, <3>2, SMTT(20) DEF FrameIds
    <3>4. n \in Got(c) \cup dropped[c] BY <1>3, <3>2, <3>3 DEF Streamed, NoGap
    <3>5. n \notin Elems(s)
      <4>1. ASSUME NEW j \in 1..Len(s), n = s[j] PROVE FALSE
        <5>1. j <= i \/ i + 1 <= j BY <3>1
        <5>2. j < i => s[j] < s[i] BY <2>2, <3>1 DEF Sorted
        <5>3. i + 1 < j => s[i + 1] < s[j] BY <2>2, <3>1 DEF Sorted
        <5>4. j < i \/ j = i \/ j = i + 1 \/ i + 1 < j BY <3>1, <5>1
        <5> QED BY <2>3, <3>1, <3>2, <3>3, <4>1, <5>2, <5>3, <5>4
      <4> QED BY <4>1 DEF Elems
    <3>6. n \notin Elems(backlog[c]) \cup Elems(queue[c])
      <4>1. ASSUME n \in Elems(backlog[c]) \cup Elems(queue[c]) PROVE s[i + 1] < n
        BY <2>2, <2>3, <3>1, <4>1
      <4>2. s[i + 1] \in Nat /\ n \in Nat BY <2>3, <3>1, <3>3
      <4> QED BY <3>3, <4>1, <4>2
    <3> QED BY <3>4, <3>5, <3>6 DEF Got, s
  <2> QED BY <2>4, <2>5, <2>6 DEF s
<1> HIDE DEF Inv
<1> QED BY <1>1, <1>2, <1>3, PTL DEF Spec
=============================================================================
