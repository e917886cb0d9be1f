---------------------------- MODULE PcieBusProofs ----------------------------
(***************************************************************************)
(* Proofs about PcieBus: the times the PPS thread takes over are genuine   *)
(* and increase, and a run that is over leaves no trigger behind, for      *)
(* every set of polling threads and every number of edges, queries and     *)
(* answers under way.                                                      *)
(***************************************************************************)
EXTENDS PcieBus, SequenceTheorems, TLAPS

(* An answer that is not a time, or a time the board has held since the PPS  *)
(* thread last took one over.                                                *)
Genuine(word) == word.upper = 1 \/ word.frame \in last_ts .. latch

(* Of two times the one that was sent first is not the newer.                *)
InOrder(v, w) == v.upper = 1 \/ w.upper = 1 \/ v.frame <= w.frame

Answers ==
  /\ \A i \in 1 .. Len(receiver) : Genuine(receiver[i])
  /\ \A i \in 1 .. Len(wire) : Genuine(wire[i])
  /\ \A i, j \in 1 .. Len(receiver) : i < j => InOrder(receiver[i], receiver[j])
  /\ \A i, j \in 1 .. Len(wire) : i < j => InOrder(wire[i], wire[j])
  /\ \A i \in 1 .. Len(receiver), j \in 1 .. Len(wire) : InOrder(receiver[i], wire[j])

(* The queues hold words, and as long as no read failed and no board         *)
(* answered with an empty upper byte they hold them in order.                *)
BusInv ==
  /\ TypeOK
  /\ wire \in Seq(Word) /\ receiver \in Seq(Word)
  /\ ~foul => last_ts <= latch /\ Answers

(* Who may still send a trigger, by how far the read thread is.              *)
TriggerInv ==
  /\ source \in {"software", "external"}
  /\ read_pc = "start" \/ source = "external" => trig_pc = "off"
  /\ source = "external" => read_pc \notin {"stop", "join"}
  /\ read_pc \in {"off", "done"} => trig_pc \in {"off", "done"}
  /\ read_pc \in {"start", "done"} => ~board_run
-----------------------------------------------------------------------------
(* The trigger thread is started, stopped and joined in this order.          *)
LEMMA TriggerStep == TriggerInv /\ [Next]_vars => TriggerInv'
<1> SUFFICES ASSUME TriggerInv, [Next]_vars PROVE TriggerInv'
  OBVIOUS
<1>1. CASE UNCHANGED <<read_pc, source, trig_pc, board_run>>
  BY <1>1 DEF TriggerInv
<1>2. CASE ReadThread
  BY <1>2 DEF TriggerInv, ReadThread, ReadStart, ReadEnd, LeaveLoop, StopTrigger,
                    JoinTrigger, SendStopTrigger
<1>3. CASE SendStartTrigger \/ ReadLimit
  BY <1>3 DEF TriggerInv, SendStartTrigger, ReadLimit, LeaveLoop
<1>4. CASE Trigger
  BY <1>4 DEF TriggerInv, Trigger, TriggerStart, TriggerLoop, TriggerSend
<1>5. CASE PpsEdge \/ Deliver \/ Stop \/ Pps \/ PpsReadFails \/ \E p \in Pollers : Poll(p)
  BY <1>1, <1>5 DEF PpsEdge, Deliver, Stop, Pps, PpsLoop, PpsInit, PpsSend, PpsRead,
                    PpsReadFails, Poll, PollInit, PollSend, PollRead, triggers
<1>6. CASE UNCHANGED vars
  BY <1>1, <1>6 DEF vars, triggers
<1> QED
  BY <1>2, <1>3, <1>4, <1>5, <1>6 DEF Next

(* When the read thread is over the run of the trigger board is off and no   *)
(* thread is left that could send it a trigger                               *)
(* (data_handler.cpp:720-725, trigger_control.cpp:191-211).                  *)
THEOREM TriggersQuietHolds == FairSpec => []TriggersQuiet
<1>1. Init => TriggerInv
  BY DEF Init, TriggerInv
<1>2. TriggerInv => TriggersQuiet
  BY DEF TriggerInv, TriggersQuiet
<1> QED
  BY <1>1, <1>2, TriggerStep, PTL DEF FairSpec
-----------------------------------------------------------------------------
(* Ranges and lengths: a queue of words is what TypeOK says of it.           *)
LEMMA QueueFacts ==
  ASSUME NEW q \in Seq(Word)
  PROVE  /\ Range(q) \subseteq Word /\ Len(q) \in Nat
         /\ q # <<>> => /\ Len(q) >= 1 /\ Head(q) = q[1] /\ q[1] \in Word
                        /\ Tail(q) \in Seq(Word) /\ Len(Tail(q)) = Len(q) - 1
                        /\ \A i \in 1 .. Len(q) - 1 : Tail(q)[i] = q[i + 1]
         /\ \A w \in Word : /\ Append(q, w) \in Seq(Word) /\ Len(Append(q, w)) = Len(q) + 1
                            /\ \A i \in 1 .. Len(q) : Append(q, w)[i] = q[i]
                            /\ Append(q, w)[Len(q) + 1] = w
<1>1. Range(q) \subseteq Word
  BY DEF Range
<1>2. q # <<>> => /\ Len(q) >= 1 /\ Head(q) = q[1] /\ q[1] \in Word
                  /\ Tail(q) \in Seq(Word) /\ Len(Tail(q)) = Len(q) - 1
                  /\ \A i \in 1 .. Len(q) - 1 : Tail(q)[i] = q[i + 1]
  OBVIOUS
<1>3. \A w \in Word : /\ Append(q, w) \in Seq(Word) /\ Len(Append(q, w)) = Len(q) + 1
                      /\ \A i \in 1 .. Len(q) : Append(q, w)[i] = q[i]
                      /\ Append(q, w)[Len(q) + 1] = w
  OBVIOUS
<1> QED
  BY <1>1, <1>2, <1>3

(* The words there are.                                                      *)
LEMMA WordFacts ==
  /\ \A n \in 0 .. Garbage : Time(n) \in Word /\ Time(n).upper = 0 /\ Time(n).frame = n
  /\ BoardStatus \in Word /\ BoardStatus.upper = 1
  /\ SickStatus \in Word /\ Bad \in Word /\ Empty \in Word /\ Empty = Time(0)
  /\ \A w \in Word : w.upper \in {0, 1} /\ w.frame \in 0 .. Garbage
  /\ Garbage \in Nat /\ 0 .. MaxPps \subseteq 0 .. Garbage
BY BusAssumption DEF Word, Garbage, Time, BoardStatus, SickStatus, Bad, Empty

(* The answers stay in order when the board latches a new time,              *)
LEMMA AnswersEdge ==
  ASSUME BusInv, ~foul, latch' \in Nat, latch <= latch',
         UNCHANGED <<wire, receiver, last_ts>>
  PROVE  last_ts' <= latch' /\ Answers'
<1>1. last_ts \in Nat /\ latch \in Nat /\ last_ts <= latch /\ Answers
  BY WordFacts, BusAssumption DEF BusInv, TypeOK
<1>2. \A i \in 1 .. Len(wire) : wire[i] \in Word
  BY DEF BusInv
<1>3. \A i \in 1 .. Len(receiver) : receiver[i] \in Word
  BY DEF BusInv
<1>4. \A w \in Word : Genuine(w) => (w.upper = 1 \/ w.frame \in last_ts' .. latch')
  BY <1>1, WordFacts DEF Genuine
<1>5. \A i \in 1 .. Len(wire) : wire[i].upper = 1 \/ wire[i].frame \in last_ts' .. latch'
  BY <1>1, <1>2, <1>4 DEF Answers
<1>6. \A i \in 1 .. Len(receiver) :
        receiver[i].upper = 1 \/ receiver[i].frame \in last_ts' .. latch'
  BY <1>1, <1>3, <1>4 DEF Answers
<1>7. last_ts' <= latch'
  BY <1>1
<1> QED
  BY <1>1, <1>5, <1>6, <1>7 DEF Answers, Genuine, InOrder

(* when a query throws away what the receiver holds,                         *)
LEMMA AnswersInit ==
  ASSUME BusInv, ~foul, RecvInit, UNCHANGED <<last_ts, latch>>
  PROVE  last_ts' <= latch' /\ Answers'
<1>1. Len(receiver') = 0 /\ wire' = wire
  BY DEF RecvInit
<1> QED
  BY <1>1 DEF BusInv, Answers, Genuine, InOrder

(* when a board answers,                                                     *)
LEMMA AnswersSend ==
  ASSUME BusInv, ~foul, NEW answer \in Word, Send(answer), UNCHANGED <<last_ts, latch>>,
         answer.upper = 1 \/ answer.frame = latch
  PROVE  last_ts' <= latch' /\ Answers'
<1>1. last_ts \in Nat /\ latch \in Nat /\ last_ts <= latch /\ Answers
  BY WordFacts, BusAssumption DEF BusInv, TypeOK
<1>2. /\ Len(wire) \in Nat /\ Len(wire') = Len(wire) + 1 /\ wire'[Len(wire) + 1] = answer
      /\ \A i \in 1 .. Len(wire) : wire'[i] = wire[i]
      /\ \A i \in 1 .. Len(wire') : i \in 1 .. Len(wire) \/ i = Len(wire) + 1
      /\ receiver' = receiver
  BY QueueFacts DEF BusInv, Send
<1>3. Genuine(answer)
  BY <1>1 DEF Genuine
<1>4. \A w \in Word : Genuine(w) => InOrder(w, answer)
  BY <1>1, WordFacts DEF Genuine, InOrder
<1>5. \A i \in 1 .. Len(wire) : wire[i] \in Word /\ Genuine(wire[i])
  BY <1>1 DEF BusInv, Answers
<1>6. \A i \in 1 .. Len(receiver) : receiver[i] \in Word /\ Genuine(receiver[i])
  BY <1>1 DEF BusInv, Answers
<1>7. \A w : Genuine(w)' = Genuine(w)
  BY DEF Genuine
<1>8. \A i \in 1 .. Len(wire') : Genuine(wire'[i])
  BY <1>2, <1>3, <1>5
<1>9. \A i, j \in 1 .. Len(wire') : i < j => InOrder(wire'[i], wire'[j])
  <2> SUFFICES ASSUME NEW i \in 1 .. Len(wire'), NEW j \in 1 .. Len(wire'), i < j
               PROVE  InOrder(wire'[i], wire'[j])
    OBVIOUS
  <2>1. i \in 1 .. Len(wire)
    BY <1>2
  <2>2. CASE j \in 1 .. Len(wire)
    BY <1>1, <1>2, <2>1, <2>2 DEF Answers
  <2>3. CASE j = Len(wire) + 1
    BY <1>2, <1>4, <1>5, <2>1, <2>3
  <2> QED
    BY <1>2, <2>2, <2>3
<1>10. \A i \in 1 .. Len(receiver), j \in 1 .. Len(wire') : InOrder(receiver[i], wire'[j])
  BY <1>1, <1>2, <1>4, <1>6 DEF Answers
<1> QED
  BY <1>1, <1>2, <1>6, <1>8, <1>9, <1>10 DEF Answers, Genuine, InOrder

(* when an answer is delivered or dropped,                                   *)
LEMMA AnswersDeliver ==
  ASSUME BusInv, ~foul, Deliver
  PROVE  last_ts' <= latch' /\ Answers'
<1>1. last_ts \in Nat /\ latch \in Nat /\ last_ts <= latch /\ Answers
      /\ UNCHANGED <<latch, last_ts>> /\ Len(receiver) \in Nat
  BY WordFacts, BusAssumption DEF BusInv, TypeOK, Deliver, pps
<1>2. /\ wire # <<>> /\ wire' = Tail(wire) /\ Len(wire) \in Nat /\ Len(wire) >= 1
      /\ Len(wire') = Len(wire) - 1 /\ wire[1] \in Word /\ Head(wire) = wire[1]
      /\ \A i \in 1 .. Len(wire') : wire'[i] = wire[i + 1] /\ i + 1 \in 1 .. Len(wire) /\ 1 < i + 1
  BY QueueFacts DEF BusInv, Deliver
<1>3. 1 \in 1 .. Len(wire)
  BY <1>2
<1>4. \A i \in 1 .. Len(wire') : Genuine(wire'[i])
  BY <1>1, <1>2 DEF Answers
<1>5. \A i, j \in 1 .. Len(wire') : i < j => InOrder(wire'[i], wire'[j])
  <2> SUFFICES ASSUME NEW i \in 1 .. Len(wire'), NEW j \in 1 .. Len(wire'), i < j
               PROVE  InOrder(wire'[i], wire'[j])
    OBVIOUS
  <2>1. i + 1 < j + 1 /\ i + 1 \in 1 .. Len(wire) /\ j + 1 \in 1 .. Len(wire)
    BY <1>2
  <2> QED
    BY <1>1, <1>2, <2>1 DEF Answers
<1>6. CASE receiver' = receiver
  <2>1. \A i \in 1 .. Len(receiver), j \in 1 .. Len(wire') : InOrder(receiver[i], wire'[j])
    BY <1>1, <1>2 DEF Answers
  <2> QED
    BY <1>1, <1>4, <1>5, <1>6, <2>1 DEF Answers, Genuine, InOrder
<1>7. CASE receiver' = Append(receiver, wire[1])
  <2>1. /\ Len(receiver') = Len(receiver) + 1
        /\ receiver'[Len(receiver) + 1] = wire[1]
        /\ \A i \in 1 .. Len(receiver) : receiver'[i] = receiver[i]
        /\ \A i \in 1 .. Len(receiver') : i \in 1 .. Len(receiver) \/ i = Len(receiver) + 1
    BY <1>1, <1>2, <1>7, QueueFacts DEF BusInv
  <2>2. \A i \in 1 .. Len(receiver') : Genuine(receiver'[i])
    BY <1>1, <1>3, <2>1 DEF Answers
  <2>3. \A i, j \in 1 .. Len(receiver') : i < j => InOrder(receiver'[i], receiver'[j])
    <3> SUFFICES ASSUME NEW i \in 1 .. Len(receiver'), NEW j \in 1 .. Len(receiver'), i < j
                 PROVE  InOrder(receiver'[i], receiver'[j])
      OBVIOUS
    <3>1. i \in 1 .. Len(receiver)
      BY <1>1, <2>1
    <3>2. CASE j \in 1 .. Len(receiver)
      BY <1>1, <2>1, <3>1, <3>2 DEF Answers
    <3>3. CASE j = Len(receiver) + 1
      BY <1>1, <1>3, <2>1, <3>1, <3>3 DEF Answers
    <3> QED
      BY <2>1, <3>2, <3>3
  <2>4. \A i \in 1 .. Len(receiver'), j \in 1 .. Len(wire') : InOrder(receiver'[i], wire'[j])
    <3> SUFFICES ASSUME NEW i \in 1 .. Len(receiver'), NEW j \in 1 .. Len(wire')
                 PROVE  InOrder(receiver'[i], wire[j + 1])
      BY <1>2
    <3>1. j + 1 \in 1 .. Len(wire) /\ 1 < j + 1
      BY <1>2
    <3>2. CASE i \in 1 .. Len(receiver)
      BY <1>1, <2>1, <3>1, <3>2 DEF Answers
    <3>3. CASE i = Len(receiver) + 1
      BY <1>1, <1>3, <2>1, <3>1, <3>3 DEF Answers
    <3> QED
      BY <2>1, <3>2, <3>3
  <2> QED
    BY <1>1, <1>4, <1>5, <2>2, <2>3, <2>4 DEF Answers, Genuine, InOrder
<1> QED
  BY <1>2, <1>6, <1>7 DEF Deliver

(* and when a word is read, by whichever thread; the PPS thread that takes   *)
(* it over takes over a time the board has held, and no older one.           *)
LEMMA AnswersRead ==
  ASSUME BusInv, ~foul, NEW word \in Word, RecvRead(word), UNCHANGED latch,
         last_ts' = last_ts \/ KeepTime(word)
  PROVE  /\ last_ts' <= latch' /\ Answers'
         /\ last_ts' \in Nat /\ last_ts <= last_ts' /\ last_ts \in Nat
<1>1. last_ts \in Nat /\ latch \in Nat /\ last_ts <= latch /\ Answers
      /\ wire' = wire /\ Len(receiver) \in Nat
  BY WordFacts, BusAssumption DEF BusInv, TypeOK, RecvRead
<1>2. /\ \A i \in 1 .. Len(receiver) : receiver[i] \in Word /\ Genuine(receiver[i])
      /\ \A i \in 1 .. Len(wire) : wire[i] \in Word /\ Genuine(wire[i])
  BY <1>1 DEF BusInv, Answers
<1>3. CASE receiver = <<>>
  <2>1. receiver' = receiver /\ word = Time(0)
    BY <1>3, WordFacts DEF RecvRead
  <2>2. last_ts' = last_ts
    BY <2>1, WordFacts DEF KeepTime
  <2> QED
    BY <1>1, <2>1, <2>2 DEF Answers, Genuine, InOrder
<1>4. CASE receiver # <<>>
  <2>1. /\ word = receiver[1] /\ Len(receiver) >= 1 /\ Len(receiver') = Len(receiver) - 1
        /\ \A i \in 1 .. Len(receiver') : receiver'[i] = receiver[i + 1]
        /\ \A i \in 1 .. Len(receiver') : i + 1 \in 1 .. Len(receiver) /\ 1 < i + 1
        /\ 1 \in 1 .. Len(receiver)
    BY <1>1, <1>4, QueueFacts DEF BusInv, RecvRead
  <2>2. /\ last_ts' \in Nat /\ last_ts <= last_ts' /\ last_ts' <= latch
        /\ last_ts' = last_ts \/ (word.upper = 0 /\ last_ts' = word.frame)
    <3>1. CASE last_ts' = last_ts
      BY <1>1, <3>1
    <3>2. CASE word.upper = 0 /\ last_ts' = word.frame
      BY <1>1, <1>2, <2>1, <3>2, WordFacts DEF Genuine
    <3> QED
      BY <3>1, <3>2 DEF KeepTime
  <2>3. ASSUME NEW w \in Word, Genuine(w), InOrder(word, w)
        PROVE  w.upper = 1 \/ w.frame \in last_ts' .. latch'
    BY <1>1, <2>2, <2>3, WordFacts DEF Genuine, InOrder
  <2>4. \A i \in 1 .. Len(receiver') :
          receiver'[i].upper = 1 \/ receiver'[i].frame \in last_ts' .. latch'
    <3> SUFFICES ASSUME NEW i \in 1 .. Len(receiver')
                 PROVE  receiver[i + 1].upper = 1 \/ receiver[i + 1].frame \in last_ts' .. latch'
      BY <2>1
    <3>1. InOrder(word, receiver[i + 1]) /\ i + 1 \in 1 .. Len(receiver)
      BY <1>1, <2>1 DEF Answers
    <3> QED
      BY <1>2, <2>3, <3>1
  <2>5. \A j \in 1 .. Len(wire) : InOrder(word, wire[j])
    BY <1>1, <2>1 DEF Answers
  <2>6. \A j \in 1 .. Len(wire) : wire[j].upper = 1 \/ wire[j].frame \in last_ts' .. latch'
    BY <1>2, <2>3, <2>5
  <2>7. \A i, j \in 1 .. Len(receiver') : i < j => InOrder(receiver'[i], receiver'[j])
    <3> SUFFICES ASSUME NEW i \in 1 .. Len(receiver'), NEW j \in 1 .. Len(receiver'), i < j
                 PROVE  InOrder(receiver[i + 1], receiver[j + 1])
      BY <2>1
    <3>1. i + 1 < j + 1 /\ i + 1 \in 1 .. Len(receiver) /\ j + 1 \in 1 .. Len(receiver)
      BY <1>1, <2>1
    <3> QED
      BY <1>1, <3>1 DEF Answers
  <2>8. \A i \in 1 .. Len(receiver'), j \in 1 .. Len(wire) : InOrder(receiver'[i], wire[j])
    BY <1>1, <2>1 DEF Answers
  <2> QED
    BY <1>1, <2>1, <2>2, <2>4, <2>6, <2>7, <2>8 DEF Answers, Genuine, InOrder
<1> QED
  BY <1>3, <1>4
-----------------------------------------------------------------------------
(* The invariant holds when the run begins.                                  *)
LEMMA BusInit == Init => BusInv
<1> SUFFICES ASSUME Init PROVE BusInv
  OBVIOUS
<1>1. wire \in Seq(Word) /\ receiver \in Seq(Word) /\ Len(wire) = 0 /\ Len(receiver) = 0
      /\ Range(wire) = {} /\ Range(receiver) = {}
  BY DEF Init, Range
<1>2. is_running \in BOOLEAN /\ board_run \in BOOLEAN /\ trig_running \in BOOLEAN
      /\ foul \in BOOLEAN /\ revived \in BOOLEAN
  BY DEF Init
<1>3. TypeOK
  BY <1>1, <1>2, BusAssumption DEF Init, TypeOK, Garbage
<1>4. Answers
  BY <1>1 DEF Answers
<1> QED
  BY <1>1, <1>3, <1>4 DEF Init, BusInv

(* What the three calls of a query do to the queues.                         *)
LEMMA QueryFacts ==
  ASSUME BusInv,
         RecvInit \/ (\E answer \in Word : Send(answer)) \/ (\E word \in Word : RecvRead(word))
  PROVE  /\ wire' \in Seq(Word) /\ receiver' \in Seq(Word)
         /\ Len(wire') <= MaxWire /\ Len(receiver') <= MaxWire
         /\ Range(wire') \cup Range(receiver') \subseteq Word
<1>1. /\ wire \in Seq(Word) /\ receiver \in Seq(Word) /\ MaxWire \in Nat
      /\ Len(wire) <= MaxWire /\ Len(receiver) <= MaxWire
      /\ Len(wire) \in Nat /\ Len(receiver) \in Nat
  BY BusAssumption DEF BusInv, TypeOK
<1>2. /\ wire' \in Seq(Word) /\ receiver' \in Seq(Word)
      /\ Len(wire') <= MaxWire /\ Len(receiver') <= MaxWire
  <2>1. CASE RecvInit
    BY <1>1, <2>1 DEF RecvInit
  <2>2. ASSUME NEW answer \in Word, Send(answer)
        PROVE  /\ wire' \in Seq(Word) /\ receiver' \in Seq(Word)
               /\ Len(wire') <= MaxWire /\ Len(receiver') <= MaxWire
    BY <1>1, <2>2, QueueFacts DEF Send
  <2>3. ASSUME NEW word \in Word, RecvRead(word)
        PROVE  /\ wire' \in Seq(Word) /\ receiver' \in Seq(Word)
               /\ Len(wire') <= MaxWire /\ Len(receiver') <= MaxWire
    BY <1>1, <2>3, QueueFacts DEF RecvRead
  <2> QED
    BY <2>1, <2>2, <2>3
<1> QED
  BY <1>2, QueueFacts

(* A step that leaves the queues, the board and the PPS thread's time alone  *)
(* keeps the order.                                                          *)
LEMMA QuietStep ==
  ASSUME BusInv, TypeOK', UNCHANGED <<wire, receiver, last_ts, latch, foul>>
  PROVE  BusInv'
<1>1. ~foul' => last_ts' <= latch' /\ Answers'
  BY AnswersEdge, BusAssumption DEF BusInv, TypeOK
<1> QED
  BY <1>1 DEF BusInv

(* Steps of the trigger and read threads keep the types.                     *)
LEMMA TriggerTypes ==
  ASSUME TypeOK, ReadThread \/ ReadLimit \/ SendStartTrigger \/ Trigger
  PROVE  TypeOK' /\ UNCHANGED <<wire, receiver, last_ts, latch, foul>>
<1>1. UNCHANGED <<latch, bus, pps, poll, source, foul>> /\ is_running' \in BOOLEAN
  BY DEF TypeOK, ReadThread, ReadLimit, SendStartTrigger, Trigger, ReadStart, ReadEnd,
         LeaveLoop, StopTrigger, JoinTrigger, SendStopTrigger, TriggerStart, TriggerLoop,
         TriggerSend
<1>2. read_pc' \in {"start", "loop", "stop", "join", "off", "done"}
      /\ trig_pc' \in {"off", "start", "loop", "send", "done"}
  BY DEF TypeOK, ReadThread, ReadLimit, SendStartTrigger, Trigger, ReadStart, ReadEnd,
         LeaveLoop, StopTrigger, JoinTrigger, SendStopTrigger, TriggerStart, TriggerLoop, TriggerSend
<1>3. board_run' \in BOOLEAN /\ trig_running' \in BOOLEAN /\ revived' \in BOOLEAN
  <2>1. board_run \in BOOLEAN /\ trig_running \in BOOLEAN /\ revived \in BOOLEAN
    BY DEF TypeOK
  <2>2. CASE ReadThread
    BY <2>1, <2>2 DEF ReadThread, ReadStart, ReadEnd, LeaveLoop, StopTrigger,
                      JoinTrigger, SendStopTrigger
  <2>3. CASE SendStartTrigger \/ ReadLimit
    BY <2>1, <2>3 DEF SendStartTrigger, ReadLimit, LeaveLoop
  <2>4. CASE Trigger
    BY <2>1, <2>4 DEF Trigger, TriggerStart, TriggerLoop, TriggerSend
  <2> QED
    BY <2>2, <2>3, <2>4
<1> QED
  BY <1>1, <1>2, <1>3 DEF TypeOK, bus, pps, poll

(* Every step keeps the invariant.                                           *)
LEMMA BusStep == BusInv /\ [Next]_vars => BusInv'
<1> SUFFICES ASSUME BusInv, [Next]_vars PROVE BusInv'
  OBVIOUS
<1> USE BusAssumption
<1> DEFINE Queues == /\ wire' \in Seq(Word) /\ receiver' \in Seq(Word)
                     /\ Len(wire') <= MaxWire /\ Len(receiver') <= MaxWire
                     /\ Range(wire') \cup Range(receiver') \subseteq Word
           Order == ~foul' => last_ts' <= latch' /\ Answers'
<1>0. TypeOK /\ latch \in 0 .. Garbage /\ last_ts \in 0 .. Garbage /\ foul \in BOOLEAN
  BY WordFacts DEF BusInv, TypeOK
<1>1. CASE PpsEdge
  <2>1. TypeOK'
    BY <1>0, <1>1 DEF PpsEdge, TypeOK, bus, pps, poll, triggers
  <2>2. Order
    BY <1>0, <1>1, AnswersEdge DEF PpsEdge, bus, pps, TypeOK
  <2> QED
    BY <1>1, <2>1, <2>2 DEF BusInv, PpsEdge, bus
<1>2. CASE Deliver
  <2>1. Queues
    <3>1. wire \in Seq(Word) /\ receiver \in Seq(Word) /\ wire # <<>> /\ Head(wire) \in Word
      BY <1>2, QueueFacts DEF BusInv, Deliver
    <3>2. wire' \in Seq(Word) /\ Len(wire') <= MaxWire
      BY <1>0, <1>2, <3>1, QueueFacts DEF Deliver, TypeOK
    <3>3. receiver' \in Seq(Word) /\ Len(receiver') <= MaxWire
      BY <1>0, <1>2, <3>1, QueueFacts DEF Deliver, TypeOK
    <3> QED
      BY <3>2, <3>3, QueueFacts
  <2>2. TypeOK'
    BY <1>0, <1>2, <2>1 DEF Deliver, TypeOK, pps, poll, triggers
  <2>3. Order
    BY <1>2, AnswersDeliver DEF Deliver
  <2> QED
    BY <2>1, <2>2, <2>3 DEF BusInv
<1>3. CASE Stop
  <2>1. is_running' \in BOOLEAN
    BY <1>3 DEF Stop
  <2>2. TypeOK' /\ UNCHANGED <<wire, receiver, last_ts, latch, foul>>
    BY <1>0, <1>3, <2>1 DEF Stop, TypeOK, bus, pps, poll, triggers
  <2> QED
    BY <2>2, QuietStep
<1>4. CASE PpsLoop
  <2>1. TypeOK' /\ UNCHANGED <<wire, receiver, last_ts, latch, foul>>
    BY <1>0, <1>4 DEF PpsLoop, TypeOK, bus, poll, triggers
  <2> QED
    BY <2>1, QuietStep
<1>5. CASE PpsInit
  <2>1. Queues
    BY <1>5, QueryFacts DEF PpsInit
  <2>2. TypeOK'
    BY <1>0, <1>5, <2>1 DEF PpsInit, TypeOK, poll, triggers
  <2>3. Order
    BY <1>5, AnswersInit DEF PpsInit
  <2> QED
    BY <2>1, <2>2, <2>3 DEF BusInv
<1>6. CASE PpsSend
  <2>1. Time(latch) \in Word /\ Time(latch).frame = latch /\ Send(Time(latch))
    BY <1>0, <1>6, WordFacts DEF PpsSend
  <2>2. Queues
    BY <2>1, QueryFacts
  <2>3. TypeOK'
    BY <1>0, <1>6, <2>2 DEF PpsSend, TypeOK, poll, triggers
  <2>4. Order
    BY <1>6, <2>1, AnswersSend DEF PpsSend
  <2> QED
    BY <2>2, <2>3, <2>4 DEF BusInv
<1>7. CASE PpsRead
  <2> PICK word \in Word : RecvRead(word) /\ KeepTime(word)
    BY <1>7 DEF PpsRead
  <2>1. Queues
    BY QueryFacts
  <2>2. last_ts' \in 0 .. Garbage
    BY <1>0, WordFacts DEF KeepTime
  <2>3. TypeOK'
    BY <1>0, <1>7, <2>1, <2>2 DEF PpsRead, TypeOK, poll, triggers
  <2>4. Order
    BY <1>7, AnswersRead DEF PpsRead
  <2> QED
    BY <2>1, <2>3, <2>4 DEF BusInv
<1>8. CASE PpsReadFails
  <2>1. last_ts' \in 0 .. Garbage /\ foul' /\ foul' \in BOOLEAN
    BY <1>0, <1>8, WordFacts DEF PpsReadFails, KeepTime
  <2>2. UNCHANGED <<is_running, latch, bus, poll, source, triggers>>
        /\ pps_pc' \in {"loop", "init", "send", "read", "done"}
    BY <1>8 DEF PpsReadFails
  <2>3. TypeOK'
    BY <1>0, <2>1, <2>2 DEF TypeOK, bus, poll, triggers
  <2> QED
    BY <2>1, <2>2, <2>3 DEF BusInv, bus
<1>9. ASSUME NEW p \in Pollers, PollInit(p)
      PROVE  BusInv'
  <2>1. Queues
    BY <1>9, QueryFacts DEF PollInit
  <2>2. TypeOK'
    BY <1>0, <1>9, <2>1 DEF PollInit, TypeOK, pps, triggers
  <2>3. Order
    BY <1>9, AnswersInit DEF PollInit, pps
  <2> QED
    BY <2>1, <2>2, <2>3 DEF BusInv
<1>10. ASSUME NEW p \in Pollers, PollSend(p)
       PROVE  BusInv'
  <2>1. /\ UNCHANGED <<is_running, latch, pps, polls, source, triggers>>
        /\ poll_pc' = [poll_pc EXCEPT ![p] = "read"]
    BY <1>10 DEF PollSend
  <2>2. poll_pc' \in [Pollers -> {"idle", "send", "read"}]
    BY <1>0, <2>1 DEF TypeOK
  <2>3. Queues
    BY <1>10, QueryFacts, WordFacts DEF PollSend
  <2>4. foul' \in BOOLEAN
    BY <1>0, <1>10 DEF PollSend
  <2>5. TypeOK'
    BY <1>0, <2>1, <2>2, <2>3, <2>4 DEF TypeOK, pps, triggers
  <2>6. Order
    <3>1. CASE Send(BoardStatus) /\ UNCHANGED foul
      BY <2>1, <3>1, AnswersSend, WordFacts DEF pps
    <3>2. CASE foul'
      BY <3>2
    <3> QED
      BY <1>10, <3>1, <3>2 DEF PollSend
  <2> QED
    BY <2>3, <2>5, <2>6 DEF BusInv
<1>11. ASSUME NEW p \in Pollers, PollRead(p)
       PROVE  BusInv'
  <2> PICK word \in Word : RecvRead(word)
    BY <1>11 DEF PollRead
  <2>1. Queues
    BY QueryFacts
  <2>2. TypeOK'
    BY <1>0, <1>11, <2>1 DEF PollRead, TypeOK, pps, triggers
  <2>3. Order
    BY <1>11, AnswersRead DEF PollRead, pps
  <2> QED
    BY <2>1, <2>2, <2>3 DEF BusInv
<1>12. CASE ReadThread \/ ReadLimit \/ SendStartTrigger \/ Trigger
  BY <1>0, <1>12, TriggerTypes, QuietStep
<1>13. CASE UNCHANGED vars
  <2>1. TypeOK' /\ UNCHANGED <<wire, receiver, last_ts, latch, foul>>
    BY <1>0, <1>13 DEF vars, TypeOK, bus, pps, poll, triggers
  <2> QED
    BY <2>1, QuietStep
<1> QED
  BY <1>1, <1>2, <1>3, <1>4, <1>5, <1>6, <1>7, <1>8, <1>9, <1>10, <1>11, <1>12, <1>13
     DEF Next, Pps, Poll

(* The inductive invariant holds in every state of every run.                *)
THEOREM BusInvariant == FairSpec => []BusInv
  BY BusInit, BusStep, PTL DEF FairSpec

(* Each time the PPS thread takes over is one the board has latched and is   *)
(* newer than the one before, whoever else queries the receiver, unless a    *)
(* driver read failed or a board answered with an empty upper byte           *)
(* (data_handler.cpp:1186-1219).                                             *)
THEOREM PpsGenuineHolds == FairSpec => PpsGenuine
<1>1. BusInv /\ [Next]_vars =>
        [last_ts' # last_ts /\ ~foul' => last_ts' \in last_ts + 1 .. latch]_vars
  <2> SUFFICES ASSUME BusInv, [Next]_vars, last_ts' # last_ts, ~foul'
               PROVE  last_ts' \in last_ts + 1 .. latch
    OBVIOUS
  <2>1. PpsRead
    BY DEF Next, vars, PpsEdge, Deliver, Stop, Pps, PpsLoop, PpsInit, PpsSend, PpsReadFails,
           Poll, PollInit, PollSend, PollRead, ReadThread, ReadLimit, SendStartTrigger,
           Trigger, ReadStart, ReadEnd, LeaveLoop, StopTrigger, JoinTrigger, SendStopTrigger,
           TriggerStart, TriggerLoop, TriggerSend, pps
  <2> PICK word \in Word : RecvRead(word) /\ KeepTime(word)
    BY <2>1 DEF PpsRead
  <2>2. ~foul /\ latch' = latch /\ latch \in Nat
    BY <2>1, BusAssumption DEF PpsRead, BusInv, TypeOK
  <2>3. last_ts' <= latch' /\ last_ts' \in Nat /\ last_ts <= last_ts' /\ last_ts \in Nat
    BY <2>2, AnswersRead
  <2> QED
    BY <2>2, <2>3
<1> QED
  BY <1>1, BusInvariant, PTL DEF FairSpec, PpsGenuine
=============================================================================
