-------------------------- MODULE StreamFilesProofs --------------------------
(***************************************************************************)
(* Proofs about StreamFiles: no record is lost or stored twice while       *)
(* nothing fails, and segments hold the records in the order of their      *)
(* numbers unless a failover overtakes the stream, for every size of the   *)
(* buffer and every number of records, files and failures.                 *)
(***************************************************************************)
EXTENDS StreamFiles, SequenceTheorems, TLAPS

(* The sequences, and the room that is left in the buffer. *)
Shape ==
  /\ buffer \in Seq(Nat) /\ Len(buffer) < BufferSize
  /\ stored \in [Files -> Seq(Nat)]
  /\ \A f \in Files : Records(f) \subseteq 1 .. taken

(* The number published last is that of a file already begun; the one about *)
(* to be published is within the bound.                                     *)
Numbers ==
  /\ wpc # "idle" => file_count < MaxFiles
  /\ wpc = "count" => segment = file_count + 1
  /\ wpc # "count" => segment <= file_count

(* Before its first file is open the stream has taken nothing; after that,  *)
(* while nothing fails, the file is open.                                   *)
Begun ==
  /\ pc = "start" => buffer = <<>> /\ taken = 0 /\ stored = [f \in Files |-> <<>>]
                     /\ open_segment = 0
  /\ failures = 0 /\ pc # "start" => file.is = "open"

(* Where the stream stands when no failover has overtaken it: it has open   *)
(* what is published, or it is on its way there from an older segment.      *)
AtPublished == /\ file.name = <<dir, segment>> /\ pc \in {"start", "loop", "take"}
               /\ wpc # "segment"
BetweenSteps == /\ file.name = <<1 - dir, segment>> /\ pc \in {"loop", "take"}
                /\ wpc = "segment"
Behind == /\ file.name[2] < segment /\ pc \in {"loop", "take", "flush", "reopen"}
          /\ wpc # "segment"
          /\ pc \in {"flush", "reopen"} => loaded = segment

Position ==
  ~late /\ pc # "done" => /\ file.name[2] = open_segment
                          /\ AtPublished \/ BetweenSteps \/ Behind

(* What is stored comes before what is in the buffer, and the open file is  *)
(* the last that has records.                                               *)
StoredFirst ==
  ~late => /\ \A f \in Files : \A r \in Records(f) :
                /\ \A q \in Range(buffer) : r < q
                /\ f[2] <= file.name[2]
                /\ f[2] = file.name[2] => f = file.name

StreamInv == /\ TypeOK /\ Shape /\ Numbers /\ Begun /\ Position /\ StoredFirst
             /\ SegmentsInOrder /\ RecordsKept
-----------------------------------------------------------------------------
(* What appending to a sequence, and one sequence to another, adds.          *)
LEMMA RangeFacts ==
  /\ Range(<<>>) = {}
  /\ \A s \in Seq(Nat) : \A x \in Nat : Range(Append(s, x)) = Range(s) \cup {x}
  /\ \A s, t \in Seq(Nat) : Range(s \o t) = Range(s) \cup Range(t)
<1>1. Range(<<>>) = {}
  BY DEF Range
<1>2. ASSUME NEW s \in Seq(Nat), NEW x \in Nat
      PROVE  Range(Append(s, x)) = Range(s) \cup {x}
  <2>1. /\ Append(s, x) \in Seq(Nat) /\ Len(Append(s, x)) = Len(s) + 1 /\ Len(s) \in Nat
        /\ \A i \in 1 .. Len(s) : Append(s, x)[i] = s[i]
        /\ Append(s, x)[Len(s) + 1] = x
        /\ DOMAIN s = 1 .. Len(s) /\ DOMAIN Append(s, x) = 1 .. Len(s) + 1
    OBVIOUS
  <2> QED
    BY <2>1 DEF Range
<1>3. ASSUME NEW s \in Seq(Nat), NEW t \in Seq(Nat)
      PROVE  Range(s \o t) = Range(s) \cup Range(t)
  <2>1. /\ s \o t \in Seq(Nat) /\ Len(s \o t) = Len(s) + Len(t)
        /\ Len(s) \in Nat /\ Len(t) \in Nat
        /\ \A i \in 1 .. Len(s) : (s \o t)[i] = s[i]
        /\ \A i \in 1 .. Len(t) : (s \o t)[Len(s) + i] = t[i]
        /\ \A i \in 1 .. Len(s \o t) : (s \o t)[i] = IF i <= Len(s) THEN s[i] ELSE t[i - Len(s)]
        /\ DOMAIN s = 1 .. Len(s) /\ DOMAIN t = 1 .. Len(t)
        /\ DOMAIN (s \o t) = 1 .. Len(s) + Len(t)
    OBVIOUS
  <2>2. Range(s \o t) \subseteq Range(s) \cup Range(t)
    BY <2>1 DEF Range
  <2>3. Range(s) \subseteq Range(s \o t)
    BY <2>1 DEF Range
  <2>4. Range(t) \subseteq Range(s \o t)
    <3> SUFFICES ASSUME NEW i \in 1 .. Len(t) PROVE t[i] \in Range(s \o t)
      BY <2>1 DEF Range
    <3>1. Len(s) + i \in DOMAIN (s \o t)
      BY <2>1
    <3> QED
      BY <2>1, <3>1 DEF Range
  <2> QED
    BY <2>2, <2>3, <2>4
<1> QED
  BY <1>1, <1>2, <1>3

(* The parts of the state a write is about.                                  *)
Kept == /\ Shape /\ StoredFirst /\ SegmentsInOrder /\ RecordsKept

(* The records handed to a write: what is in the buffer, or that and the     *)
(* record just taken.                                                        *)
Pending(rs) == \/ rs = buffer /\ UNCHANGED taken
               \/ rs = Append(buffer, taken + 1) /\ taken' = taken + 1

(* What is to be written is not stored yet, and came after all that is.      *)
LEMMA PendingFacts ==
  ASSUME StreamInv, NEW rs, Pending(rs)
  PROVE  /\ rs \in Seq(Nat) /\ Range(rs) \subseteq 1 .. taken'
         /\ taken \in Nat /\ taken' \in Nat /\ taken <= taken'
         /\ ~late => \A f \in Files : \A r \in Records(f), q \in Range(rs) : r < q
         /\ failures = 0 => \A f \in Files : \A r \in Records(f) : r \notin Range(rs)
         /\ failures = 0 => \A r \in 1 .. taken' :
              r \in Range(rs) \/ \E f \in Files : r \in Records(f)
<1>1. /\ buffer \in Seq(Nat) /\ taken \in Nat /\ Range(buffer) \subseteq 1 .. taken
      /\ \A f \in Files : Records(f) \subseteq 1 .. taken
  BY StreamAssumption DEF StreamInv, TypeOK, Shape
<1>2. /\ ~late => \A f \in Files : \A r \in Records(f), q \in Range(buffer) : r < q
      /\ failures = 0 => \A f \in Files : \A r \in Records(f) : r \notin Range(buffer)
      /\ failures = 0 => \A r \in 1 .. taken :
           r \in Range(buffer) \/ \E f \in Files : r \in Records(f)
  BY DEF StreamInv, StoredFirst, RecordsKept
<1>3. CASE rs = buffer /\ UNCHANGED taken
  BY <1>1, <1>2, <1>3
<1>4. CASE rs = Append(buffer, taken + 1) /\ taken' = taken + 1
  <2>1. rs \in Seq(Nat) /\ Range(rs) = Range(buffer) \cup {taken + 1}
    BY <1>1, <1>4, RangeFacts
  <2>2. \A f \in Files : \A r \in Records(f) : r < taken + 1 /\ r # taken + 1
    BY <1>1
  <2>3. \A r \in 1 .. taken' : r \in 1 .. taken \/ r = taken + 1
    BY <1>1, <1>4
  <2> QED
    BY <1>1, <1>2, <1>4, <2>1, <2>2, <2>3
<1> QED
  BY <1>3, <1>4 DEF Pending

(* A write stores the records in the open file and nowhere else, or loses    *)
(* them; without a failure it does not lose any.                             *)
LEMMA WriteFacts ==
  ASSUME StreamInv, NEW rs \in Seq(Nat), Write(rs)
  PROVE  /\ buffer' = <<>> /\ stored' \in [Files -> Seq(Nat)]
         /\ \A f \in Files : \/ Records(f)' = Records(f)
                             \/ f = file.name /\ Records(f)' = Records(f) \cup Range(rs)
         /\ file'.name = file.name /\ file' \in [name : Files, is : {"open", "bad", "closed"}]
         /\ file.name \in Files
         /\ failures \in Nat /\ failures' \in 0 .. MaxFailures /\ failures <= failures'
         /\ lost' \in BOOLEAN
         /\ failures' = 0 /\ file.is = "open" =>
              /\ file' = file /\ lost' = lost
              /\ Records(file.name)' = Records(file.name) \cup Range(rs)
<1>1. /\ file \in [name : Files, is : {"open", "bad", "closed"}] /\ stored \in [Files -> Seq(Nat)]
      /\ failures \in 0 .. MaxFailures /\ MaxFailures \in Nat /\ lost \in BOOLEAN
  BY StreamAssumption DEF StreamInv, TypeOK, Shape
<1>2. buffer' = <<>>
  BY DEF Write
<1>3. CASE /\ file.is = "open"
           /\ stored' = [stored EXCEPT ![file.name] = @ \o rs]
           /\ UNCHANGED <<file, failures, lost>>
  <2>1. stored' \in [Files -> Seq(Nat)] /\ stored'[file.name] = stored[file.name] \o rs
        /\ \A f \in Files : f # file.name => stored'[f] = stored[f]
    BY <1>1, <1>3
  <2>2. Range(stored'[file.name]) = Range(stored[file.name]) \cup Range(rs)
    BY <1>1, <2>1, RangeFacts
  <2> QED
    BY <1>1, <1>2, <1>3, <2>1, <2>2 DEF Records
<1>4. CASE /\ file.is = "open" /\ failures < MaxFailures
           /\ failures' = failures + 1 /\ file' = [file EXCEPT !.is = "bad"]
           /\ lost' = TRUE /\ UNCHANGED stored
  <2>1. file'.name = file.name /\ file' \in [name : Files, is : {"open", "bad", "closed"}]
    BY <1>1, <1>4
  <2>2. lost' \in BOOLEAN
    BY <1>4
  <2>3. failures' # 0 /\ failures' \in 0 .. MaxFailures /\ failures <= failures' /\ failures \in Nat
    BY <1>1, <1>4
  <2>4. stored' = stored
    BY <1>4
  <2> QED
    BY <1>1, <1>2, <2>1, <2>2, <2>3, <2>4 DEF Records
<1>5. CASE /\ file.is # "open"
           /\ lost' = TRUE /\ UNCHANGED <<file, failures, stored>>
  <2>1. lost' \in BOOLEAN
    BY <1>5
  <2>2. file' = file /\ failures' = failures /\ stored' = stored /\ file.is # "open"
    BY <1>5
  <2> QED
    BY <1>1, <1>2, <2>1, <2>2 DEF Records
<1> QED
  BY <1>3, <1>4, <1>5 DEF Write

(* A write keeps the parts of the invariant that are about records.          *)
LEMMA WriteKeeps ==
  ASSUME StreamInv, pc # "start", NEW rs, Pending(rs), Write(rs), UNCHANGED late
  PROVE  Kept'
<1>1. /\ rs \in Seq(Nat) /\ Range(rs) \subseteq 1 .. taken'
      /\ taken \in Nat /\ taken' \in Nat /\ taken <= taken'
  BY PendingFacts
<1>2. /\ buffer' = <<>> /\ stored' \in [Files -> Seq(Nat)]
      /\ \A f \in Files : \/ Records(f)' = Records(f)
                          \/ f = file.name /\ Records(f)' = Records(f) \cup Range(rs)
      /\ file'.name = file.name /\ file.name \in Files
      /\ failures \in Nat /\ failures' \in Nat /\ failures <= failures'
  BY <1>1, WriteFacts, StreamAssumption
<1>3. Range(buffer') = {} /\ buffer' \in Seq(Nat) /\ Len(buffer') = 0
  BY <1>2, RangeFacts
<1>4. \A f \in Files : f \in Disks \X Segments
  BY DEF Files
<1>5. Shape'
  <2>1. \A f \in Files : Records(f)' \subseteq 1 .. taken'
    <3>1. \A f \in Files : Records(f) \subseteq 1 .. taken
      BY DEF StreamInv, Shape
    <3>2. 1 .. taken \subseteq 1 .. taken'
      BY <1>1
    <3> QED
      BY <1>1, <1>2, <3>1, <3>2
  <2> QED
    BY <1>2, <1>3, <2>1, StreamAssumption DEF Shape
<1>6. ASSUME ~late
      PROVE  /\ \A f \in Files : \A r \in Records(f), q \in Range(rs) : r < q
             /\ \A f \in Files : \A r \in Records(f) :
                  f[2] <= file.name[2] /\ (f[2] = file.name[2] => f = file.name)
             /\ file.name[2] \in Nat /\ \A f \in Files : f[2] \in Nat
  BY <1>2, <1>4, <1>6, PendingFacts, StreamAssumption DEF StreamInv, StoredFirst, Segments, Files
<1>7. StoredFirst'
  <2> SUFFICES ASSUME ~late, NEW f \in Files, NEW r \in Records(f)'
               PROVE  f[2] <= file.name[2] /\ (f[2] = file.name[2] => f = file.name)
    BY <1>2, <1>3 DEF StoredFirst
  <2> QED
    BY <1>2, <1>6
<1>8. SegmentsInOrder'
  <2> SUFFICES ASSUME ~late, NEW f \in Files, NEW g \in Files,
                      NEW r \in Records(f)', NEW q \in Records(g)'
               PROVE  (f[2] < g[2] => r < q) /\ (f[2] = g[2] => f = g)
    BY DEF SegmentsInOrder
  <2>1. CASE r \in Records(f) /\ q \in Records(g)
    BY <2>1 DEF StreamInv, SegmentsInOrder
  <2>2. CASE f = file.name /\ r \in Range(rs) /\ q \in Records(g)
    BY <1>6, <2>2
  <2>3. CASE g = file.name /\ q \in Range(rs) /\ r \in Records(f)
    BY <1>6, <2>3
  <2>4. CASE f = file.name /\ g = file.name
    BY <1>6, <2>4
  <2> QED
    BY <1>2, <2>1, <2>2, <2>3, <2>4
<1>9. RecordsKept'
  <2> SUFFICES ASSUME failures' = 0
               PROVE  /\ ~lost'
                      /\ \A r \in 1 .. taken' : \E f \in Files : r \in Records(f)'
                      /\ \A f \in Files : \A r \in Records(f)' :
                           \A g \in Files \ {f} : r \notin Records(g)'
    BY <1>2, <1>3 DEF RecordsKept
  <2>1. failures = 0 /\ file.is = "open"
    BY <1>2 DEF StreamInv, Begun
  <2>2. lost' = lost /\ Records(file.name)' = Records(file.name) \cup Range(rs)
    BY <1>1, <2>1, WriteFacts
  <2>3. /\ ~lost
        /\ \A f \in Files : \A r \in Records(f) : \A g \in Files \ {f} : r \notin Records(g)
    BY <2>1 DEF StreamInv, RecordsKept
  <2>4. /\ \A f \in Files : \A r \in Records(f) : r \notin Range(rs)
        /\ \A r \in 1 .. taken' : r \in Range(rs) \/ \E f \in Files : r \in Records(f)
    BY <2>1, PendingFacts
  <2>5. \A f \in Files : f # file.name => Records(f)' = Records(f)
    BY <1>2
  <2>6. \A r \in 1 .. taken' : \E f \in Files : r \in Records(f)'
    BY <1>2, <2>2, <2>4, <2>5
  <2>7. \A f \in Files : \A r \in Records(f)' : \A g \in Files \ {f} : r \notin Records(g)'
    <3> SUFFICES ASSUME NEW f \in Files, NEW r \in Records(f)', NEW g \in Files \ {f},
                        r \in Records(g)'
                 PROVE  FALSE
      OBVIOUS
    <3>1. r \in Records(f) \/ (f = file.name /\ r \in Range(rs))
      BY <1>2, <2>2, <2>5 DEF Records
    <3>2. r \in Records(g) \/ (g = file.name /\ r \in Range(rs))
      BY <1>2, <2>2, <2>5 DEF Records
    <3>3. ~(r \in Records(f) /\ r \in Records(g))
      BY <2>3
    <3>4. r \in Range(rs) => r \notin Records(f) /\ r \notin Records(g)
      BY <2>4
    <3> QED
      BY <3>1, <3>2, <3>3, <3>4
  <2> QED
    BY <2>2, <2>3, <2>6, <2>7
<1> QED
  BY <1>5, <1>7, <1>8, <1>9 DEF Kept

(* A step that stores nothing and takes nothing keeps them too, and so does  *)
(* one that only puts a record in the buffer.                                *)
LEMMA NoWriteKeeps ==
  ASSUME StreamInv, UNCHANGED <<buffer, taken, stored, lost>>, file'.name = file.name,
         late => late', failures' = 0 => failures = 0,
         pc' = "done" => pc = "done" \/ buffer = <<>>
  PROVE  Kept'
<1>1. \A f \in Files : Records(f)' = Records(f)
  BY DEF Records
<1> QED
  BY <1>1 DEF StreamInv, Kept, Shape, StoredFirst, SegmentsInOrder, RecordsKept

LEMMA BufferGrows ==
  ASSUME StreamInv, buffer' = Append(buffer, taken'), taken' = taken + 1,
         Len(buffer') < BufferSize,
         UNCHANGED <<stored, file, failures, lost, late>>, pc' # "done"
  PROVE  Kept' /\ Range(buffer') \subseteq 1 .. taken'
<1>1. Pending(buffer')
  BY DEF Pending
<1>2. /\ buffer' \in Seq(Nat) /\ Range(buffer') \subseteq 1 .. taken'
      /\ taken \in Nat /\ taken' \in Nat /\ taken <= taken'
      /\ ~late => \A f \in Files : \A r \in Records(f), q \in Range(buffer') : r < q
      /\ failures = 0 => \A f \in Files : \A r \in Records(f) : r \notin Range(buffer')
      /\ failures = 0 => \A r \in 1 .. taken' :
           r \in Range(buffer') \/ \E f \in Files : r \in Records(f)
  BY <1>1, PendingFacts
<1>3. \A f \in Files : Records(f)' = Records(f)
  BY DEF Records
<1>4. Shape' /\ SegmentsInOrder'
  BY <1>2, <1>3 DEF StreamInv, Shape, SegmentsInOrder
<1>5. StoredFirst'
  BY <1>2, <1>3 DEF StreamInv, StoredFirst
<1>6. RecordsKept'
  BY <1>2, <1>3 DEF StreamInv, RecordsKept
<1> QED
  BY <1>2, <1>4, <1>5, <1>6 DEF Kept
-----------------------------------------------------------------------------
(* The invariant holds when the run begins.                                  *)
LEMMA StreamInit == Init => StreamInv
<1> SUFFICES ASSUME Init PROVE StreamInv
  OBVIOUS
<1>1. 0 \in Segments /\ 0 \in 0 .. MaxRecords /\ 0 \in 0 .. MaxFailures
  BY StreamAssumption DEF Segments
<1>2. \A f \in Files : stored[f] = <<>> /\ Records(f) = {}
  BY RangeFacts DEF Init, Records
<1>3. TypeOK
  <2>1. is_running \in BOOLEAN /\ lost \in BOOLEAN /\ open_error \in BOOLEAN /\ late \in BOOLEAN
    BY DEF Init
  <2>2. /\ wpc \in {"idle", "segment", "count"} /\ dir \in Disks /\ segment \in Segments
        /\ file_count \in Segments /\ stream \in {"trigger", "pps"} /\ pc \in Places
        /\ loaded \in Segments /\ open_segment \in Segments
    BY <1>1 DEF Init, Places
  <2>3. file \in [name : Files, is : {"open", "bad", "closed"}]
    BY <1>1 DEF Init, Files
  <2>4. /\ Len(buffer) <= BufferSize /\ Range(buffer) \subseteq 1 .. taken
        /\ taken \in 0 .. MaxRecords /\ DOMAIN stored = Files /\ failures \in 0 .. MaxFailures
    BY <1>1, RangeFacts, StreamAssumption DEF Init
  <2> QED
    BY <2>1, <2>2, <2>3, <2>4 DEF TypeOK
<1>4. Shape
  BY <1>2, StreamAssumption DEF Init, Shape
<1>5. Numbers /\ Begun
  BY DEF Init, Numbers, Begun
<1>6. Position
  BY DEF Init, Position, AtPublished
<1>7. StoredFirst /\ SegmentsInOrder
  BY <1>2 DEF StoredFirst, SegmentsInOrder
<1>8. RecordsKept
  BY <1>2, RangeFacts DEF Init, RecordsKept
<1> QED
  BY <1>3, <1>4, <1>5, <1>6, <1>7, <1>8 DEF StreamInv

(* The steps of the write thread keep the invariant.                         *)
LEMMA WriterKeeps ==
  ASSUME StreamInv, Writer
  PROVE  StreamInv'
<1> USE StreamAssumption
<1>1. /\ TypeOK /\ Numbers /\ Begun /\ Position
      /\ UNCHANGED <<is_running, stream, reader, failures>>
  BY DEF StreamInv, Writer, NextFile, Failover, FailoverDir, FailoverSegment, FailoverCount
<1>2. late' \in BOOLEAN /\ (late => late')
  BY <1>1 DEF TypeOK, Writer, NextFile, Failover, FailoverDir, FailoverSegment, FailoverCount
<1>3. Kept'
  BY <1>1, <1>2, NoWriteKeeps DEF reader
<1>4. wpc' \in {"idle", "segment", "count"} /\ dir' \in Disks /\ segment' \in Segments
      /\ file_count' \in Segments /\ Numbers'
  BY <1>1 DEF TypeOK, Numbers, Segments, Disks, Writer, NextFile, Failover, FailoverDir,
              FailoverSegment, FailoverCount
<1>5. TypeOK'
  BY <1>1, <1>2, <1>4 DEF TypeOK, reader
<1>6. Begun'
  BY <1>1 DEF Begun, reader
<1>7. Position'
  <2> SUFFICES ASSUME ~late', pc # "done" PROVE Position'
    BY <1>1 DEF Position, reader
  <2>1. /\ file.name[2] = open_segment /\ (AtPublished \/ BetweenSteps \/ Behind)
        /\ dir \in {0, 1} /\ segment \in Nat /\ file_count \in Nat
        /\ file.name \in Files /\ open_segment \in Nat
    BY <1>1, <1>2 DEF Position, TypeOK, Disks, Segments
  <2>2. CASE NextFile
    BY <1>1, <2>1, <2>2 DEF NextFile, Position, AtPublished, BetweenSteps, Behind, reader
  <2>3. CASE FailoverDir
    <3>0. Following /\ wpc = "idle"
      BY <2>3 DEF FailoverDir
    <3>1. AtPublished /\ pc \in {"loop", "take"}
      BY <2>1, <3>0 DEF Following, AtPublished, BetweenSteps, Behind
    <3>2. 1 - dir' = dir
      BY <2>1, <2>3 DEF FailoverDir
    <3> QED
      BY <1>1, <2>1, <2>3, <3>1, <3>2 DEF FailoverDir, Position, AtPublished, BetweenSteps, reader
  <2>4. CASE FailoverSegment
    <3>1. BetweenSteps
      BY <2>1, <2>4 DEF FailoverSegment, AtPublished, Behind
    <3>2. segment < segment' /\ file.name[2] = segment
      BY <1>1, <2>1, <2>4, <3>1 DEF FailoverSegment, Numbers, BetweenSteps
    <3> QED
      BY <1>1, <2>1, <2>4, <3>1, <3>2 DEF FailoverSegment, Position, Behind, BetweenSteps, reader
  <2>5. CASE FailoverCount
    BY <1>1, <2>1, <2>5 DEF FailoverCount, Position, AtPublished, BetweenSteps, Behind, reader
  <2> QED
    BY <2>2, <2>3, <2>4, <2>5 DEF Writer, Failover
<1> QED
  BY <1>3, <1>4, <1>5, <1>6, <1>7 DEF StreamInv, Kept

(* Opening a file, whether it succeeds or not.                               *)
LEMMA OpenFacts ==
  ASSUME StreamInv, NEW name \in Files, Open(name)
  PROVE  /\ file'.name = name /\ file' \in [name : Files, is : {"open", "bad", "closed"}]
         /\ failures' \in 0 .. MaxFailures /\ open_error' \in BOOLEAN
         /\ failures' = 0 => failures = 0 /\ file'.is = "open"
<1>1. failures \in 0 .. MaxFailures /\ open_error \in BOOLEAN /\ MaxFailures \in Nat
  BY StreamAssumption DEF StreamInv, TypeOK
<1>2. CASE /\ file' = [name |-> name, is |-> "open"]
           /\ UNCHANGED <<failures, open_error>>
  BY <1>1, <1>2
<1>3. CASE /\ failures < MaxFailures /\ failures' = failures + 1
           /\ file' = [name |-> name, is |-> "closed"] /\ open_error' = TRUE
  <2>1. open_error' \in BOOLEAN
    BY <1>3
  <2>2. failures' # 0 /\ failures' \in 0 .. MaxFailures
    BY <1>1, <1>3
  <2> QED
    BY <1>3, <2>1, <2>2
<1> QED
  BY <1>2, <1>3 DEF Open

(* A step of the stream that writes the pending records keeps the invariant  *)
(* when it does not move to another file.                                    *)
LEMMA WritingStep ==
  ASSUME StreamInv, NEW rs, Pending(rs), Write(rs), taken' \in 0 .. MaxRecords,
         UNCHANGED <<is_running, writer, stream, loaded, open_segment, open_error, late>>,
         \/ pc = "flush" /\ pc' = "reopen"
         \/ pc = "take" /\ pc' = "loop"
         \/ pc' = "done" /\ pc = "loop"
  PROVE  StreamInv'
<1>1. TypeOK /\ Numbers /\ Begun /\ Position /\ pc # "start" /\ pc # "done"
  BY DEF StreamInv
<1>2. Kept'
  BY <1>1, WriteKeeps
<1>3. /\ buffer' = <<>> /\ stored' \in [Files -> Seq(Nat)] /\ file'.name = file.name
      /\ file' \in [name : Files, is : {"open", "bad", "closed"}]
      /\ failures \in Nat /\ failures' \in 0 .. MaxFailures /\ failures <= failures'
      /\ lost' \in BOOLEAN /\ (failures' = 0 /\ file.is = "open" => file' = file)
  BY PendingFacts, WriteFacts
<1>4. TypeOK'
  <2>1. pc' \in Places /\ Range(buffer') \subseteq 1 .. taken' /\ Len(buffer') <= BufferSize
        /\ DOMAIN stored' = Files
    BY <1>3, RangeFacts, StreamAssumption DEF Places
  <2> QED
    BY <1>1, <1>3, <2>1 DEF TypeOK, writer
<1>5. Numbers'
  BY <1>1 DEF Numbers, writer
<1>6. Begun'
  <2>1. failures' = 0 => failures = 0
    BY <1>3, StreamAssumption
  <2> QED
    BY <1>1, <1>3, <2>1 DEF Begun
<1>7. Position'
  BY <1>1, <1>3 DEF Position, AtPublished, BetweenSteps, Behind, writer
<1> QED
  BY <1>2, <1>4, <1>5, <1>6, <1>7 DEF StreamInv, Kept

(* A step that leaves the file and the records alone keeps it if the stream  *)
(* goes on from where it stands.                                             *)
LEMMA QuietStep ==
  ASSUME StreamInv,
         UNCHANGED <<writer, stream, open_segment, file, buffer, taken, stored, failures,
                     lost, open_error, late>>,
         is_running' \in BOOLEAN, loaded' \in Segments, pc' \in Places,
         pc' = "start" => pc = "start", pc = "start" => pc' = "start",
         pc' = "done" => pc = "done" \/ buffer = <<>>,
         Position'
  PROVE  StreamInv'
<1>1. Kept'
  BY NoWriteKeeps
<1>2. TypeOK' /\ Numbers' /\ Begun'
  BY DEF StreamInv, TypeOK, Numbers, Begun, writer
<1> QED
  BY <1>1, <1>2 DEF StreamInv, Kept

(* The steps of the stream keep the invariant.                               *)
LEMMA ReaderKeeps ==
  ASSUME StreamInv, Reader
  PROVE  StreamInv'
<1> USE StreamAssumption
<1>1. /\ TypeOK /\ Shape /\ Numbers /\ Begun /\ Position /\ StoredFirst
      /\ SegmentsInOrder /\ RecordsKept
  BY DEF StreamInv
<1>2. /\ dir \in Disks /\ segment \in Segments /\ loaded \in Segments /\ Segments \subseteq Nat
      /\ <<dir, segment>> \in Files /\ <<dir, 0>> \in Files /\ is_running \in BOOLEAN
      /\ open_segment \in Segments /\ file.name \in Files
  BY <1>1 DEF TypeOK, Files, Segments
<1>3. CASE FirstOpen
  <2>1. /\ pc = "start" /\ pc' = "loop"
        /\ UNCHANGED <<is_running, writer, stream, loaded, open_segment, buffer, taken,
                       stored, lost, late>>
    BY <1>3 DEF FirstOpen
  <2>2. /\ file'.name = <<dir, 0>> /\ file' \in [name : Files, is : {"open", "bad", "closed"}]
        /\ failures' \in 0 .. MaxFailures /\ open_error' \in BOOLEAN
        /\ failures' = 0 => failures = 0 /\ file'.is = "open"
    BY <1>2, <1>3, OpenFacts DEF FirstOpen
  <2>3. ~late => file.name = <<dir, 0>> /\ segment = 0 /\ wpc # "segment" /\ open_segment = 0
    BY <1>1, <1>2, <2>1 DEF Position, AtPublished, BetweenSteps, Behind, Begun
  <2>4. TypeOK' /\ Numbers'
    BY <1>1, <2>1, <2>2 DEF TypeOK, Numbers, Places, writer
  <2>5. Begun'
    BY <2>1, <2>2 DEF Begun
  <2>6. Position'
    BY <2>1, <2>2, <2>3 DEF Position, AtPublished, writer
  <2>7. buffer = <<>> /\ taken = 0 /\ \A f \in Files : Records(f) = {} /\ Records(f)' = {}
    BY <1>1, <2>1, RangeFacts DEF Begun, Records
  <2>8. Shape' /\ StoredFirst' /\ SegmentsInOrder' /\ RecordsKept'
    <3>1. Shape'
      BY <1>1, <2>1, <2>7 DEF Shape
    <3>2. StoredFirst' /\ SegmentsInOrder'
      BY <2>7 DEF StoredFirst, SegmentsInOrder
    <3>3. RecordsKept'
      BY <1>1, <2>1, <2>2, <2>7, RangeFacts DEF RecordsKept
    <3> QED
      BY <3>1, <3>2, <3>3
  <2> QED
    BY <2>4, <2>5, <2>6, <2>8 DEF StreamInv
<1>4. CASE Loop
  <2>1. Position'
    BY <1>1, <1>2, <1>4 DEF Loop, Position, AtPublished, BetweenSteps, Behind, writer
  <2>2. loaded' \in Segments /\ pc' \in Places /\ pc' \notin {"start", "done"} /\ pc # "start"
    BY <1>2, <1>4 DEF Loop, Places
  <2> QED
    BY <1>2, <1>4, <2>1, <2>2, QuietStep DEF Loop
<1>5. CASE Flush
  <2>1. CASE Write(buffer)
    BY <1>1, <1>5, <2>1, WritingStep DEF Flush, Pending, TypeOK
  <2>2. CASE KeepAll
    <3>1. Position'
      BY <1>1, <1>5, <2>2 DEF Flush, KeepAll, Position, AtPublished, BetweenSteps, Behind, writer
    <3>2. pc' \in Places /\ pc' \notin {"start", "done"} /\ pc # "start" /\ loaded' = loaded
      BY <1>5 DEF Flush, Places
    <3> QED
      BY <1>2, <1>5, <2>2, <3>1, <3>2, QuietStep DEF Flush, KeepAll
  <2> QED
    BY <1>5, <2>1, <2>2 DEF Flush
<1>6. CASE Reopen
  <2>1. /\ pc = "reopen" /\ pc' = "take" /\ open_segment' = loaded
        /\ UNCHANGED <<is_running, writer, stream, loaded, buffer, taken, stored, lost, late>>
    BY <1>6 DEF Reopen
  <2>2. /\ file'.name = <<dir, segment>>
        /\ file' \in [name : Files, is : {"open", "bad", "closed"}]
        /\ failures' \in 0 .. MaxFailures /\ open_error' \in BOOLEAN
        /\ failures' = 0 => failures = 0 /\ file'.is = "open"
    BY <1>2, <1>6, OpenFacts DEF Reopen
  <2>3. ~late => file.name[2] < segment /\ loaded = segment /\ wpc # "segment"
    BY <1>1, <2>1 DEF Position, AtPublished, BetweenSteps, Behind
  <2>4. TypeOK' /\ Numbers'
    BY <1>1, <2>1, <2>2 DEF TypeOK, Numbers, Places, writer
  <2>5. Begun'
    BY <2>1, <2>2 DEF Begun
  <2>6. Position'
    BY <2>1, <2>2, <2>3 DEF Position, AtPublished, writer
  <2>7. \A f \in Files : Records(f)' = Records(f) /\ f[2] \in Nat
    BY <1>2, <2>1 DEF Records, Files
  <2>8. Shape' /\ SegmentsInOrder'
    BY <1>1, <2>1, <2>7 DEF Shape, SegmentsInOrder
  <2>9. StoredFirst'
    <3> SUFFICES ASSUME ~late, NEW f \in Files, NEW r \in Records(f)
                 PROVE  (\A q \in Range(buffer) : r < q) /\ f[2] < segment
      BY <1>2, <2>1, <2>2, <2>7 DEF StoredFirst
    <3>1. f[2] <= file.name[2] /\ file.name[2] \in Nat /\ f[2] \in Nat /\ segment \in Nat
      BY <1>1, <1>2, <2>7 DEF StoredFirst
    <3> QED
      BY <1>1, <2>3, <3>1 DEF StoredFirst
  <2>10. RecordsKept'
    BY <1>1, <2>1, <2>2, <2>7 DEF RecordsKept
  <2> QED
    BY <2>4, <2>5, <2>6, <2>8, <2>9, <2>10 DEF StreamInv
<1>7. CASE Take
  <2>1. /\ pc = "take" /\ pc' = "loop" /\ taken' = taken + 1 /\ taken' \in 0 .. MaxRecords
        /\ UNCHANGED <<is_running, writer, stream, loaded, open_segment, open_error, late>>
    BY <1>1, <1>7 DEF Take, TypeOK
  <2>2. CASE Write(Append(buffer, taken'))
    <3>1. Pending(Append(buffer, taken'))
      BY <2>1 DEF Pending
    <3> QED
      BY <2>1, <2>2, <3>1, WritingStep
  <2>3. CASE /\ Len(Append(buffer, taken')) < BufferSize
             /\ buffer' = Append(buffer, taken') /\ UNCHANGED <<stored, file, failures, lost>>
    <3>1. Kept' /\ Range(buffer') \subseteq 1 .. taken'
      BY <2>1, <2>3, BufferGrows
    <3>2. TypeOK' /\ Numbers'
      BY <1>1, <2>1, <2>3, <3>1 DEF TypeOK, Kept, Shape, Numbers, Places, writer
    <3>3. Begun'
      BY <1>1, <2>1, <2>3 DEF Begun
    <3>4. Position'
      BY <1>1, <2>1, <2>3 DEF Position, AtPublished, BetweenSteps, Behind, writer
    <3> QED
      BY <3>1, <3>2, <3>3, <3>4 DEF StreamInv, Kept
  <2> QED
    BY <1>7, <2>2, <2>3 DEF Take
<1>8. CASE Nothing
  <2>1. Position'
    BY <1>1, <1>8 DEF Nothing, Position, AtPublished, BetweenSteps, Behind, writer
  <2>2. pc' \in Places /\ pc' \notin {"start", "done"} /\ pc # "start" /\ loaded' = loaded
    BY <1>8 DEF Nothing, Places
  <2> QED
    BY <1>2, <1>8, <2>1, <2>2, QuietStep DEF Nothing
<1>9. CASE Finish
  <2>1. CASE Write(buffer)
    BY <1>1, <1>9, <2>1, WritingStep DEF Finish, Pending, TypeOK
  <2>2. CASE buffer = <<>> /\ KeepAll
    <3>1. Position'
      BY <1>9 DEF Finish, Position
    <3>2. pc' \in Places /\ pc' # "start" /\ pc # "start" /\ loaded' = loaded
      BY <1>9 DEF Finish, Places
    <3> QED
      BY <1>2, <1>9, <2>2, <3>1, <3>2, QuietStep DEF Finish, KeepAll
  <2> QED
    BY <1>9, <2>1, <2>2 DEF Finish
<1> QED
  BY <1>3, <1>4, <1>5, <1>6, <1>7, <1>8, <1>9 DEF Reader

(* Every step keeps the invariant.                                           *)
LEMMA StreamStep == StreamInv /\ [Next]_vars => StreamInv'
<1> SUFFICES ASSUME StreamInv, [Next]_vars PROVE StreamInv'
  OBVIOUS
<1>1. CASE Writer
  BY <1>1, WriterKeeps
<1>2. CASE Stop
  <2>1. UNCHANGED <<writer, stream, pc, loaded, open_segment, file, buffer, taken, stored,
                    failures, lost, open_error, late>> /\ is_running' \in BOOLEAN
    BY <1>2 DEF Stop, reader
  <2>2. Position' /\ loaded' \in Segments /\ pc' \in Places
    BY <2>1 DEF StreamInv, TypeOK, Position, AtPublished, BetweenSteps, Behind, writer
  <2> QED
    BY <2>1, <2>2, QuietStep
<1>3. CASE Reader
  BY <1>3, ReaderKeeps
<1>4. CASE UNCHANGED vars
  <2>1. UNCHANGED <<writer, stream, pc, loaded, open_segment, file, buffer, taken, stored,
                    failures, lost, open_error, late>> /\ is_running' \in BOOLEAN
    BY <1>4 DEF vars, reader, StreamInv, TypeOK
  <2>2. Position' /\ loaded' \in Segments /\ pc' \in Places
    BY <2>1 DEF StreamInv, TypeOK, Position, AtPublished, BetweenSteps, Behind, writer
  <2> QED
    BY <2>1, <2>2, QuietStep
<1> QED
  BY <1>1, <1>2, <1>3, <1>4 DEF Next

(* The inductive invariant holds in every state of every run.                *)
THEOREM StreamInvariant == FairSpec => []StreamInv
  BY StreamInit, StreamStep, PTL DEF FairSpec

(* Every variable keeps its type; the buffer never holds more than           *)
(* TRIG_BUFFER_SIZE, PPS_BUFFER_SIZE records                                  *)
(* (data_handler.cpp:913-939, :1150-1157).                                   *)
THEOREM TypeCorrect == FairSpec => []TypeOK
<1>1. StreamInv => TypeOK
  BY DEF StreamInv
<1> QED
  BY <1>1, StreamInvariant, PTL

(* While no open and no write fails every record taken is in the buffer or   *)
(* in one file, and at the end all are stored                                *)
(* (data_handler.cpp:1017-1029, :1070-1082, :1150-1157).                     *)
THEOREM RecordsKeptHolds == FairSpec => []RecordsKept
<1>1. StreamInv => RecordsKept
  BY DEF StreamInv
<1> QED
  BY <1>1, StreamInvariant, PTL

(* Read in the order of their segment numbers the files hold the records in  *)
(* the order they were taken, and no segment is on two disks, unless a       *)
(* failover began before the stream had followed the last one                *)
(* (data_handler.cpp:291-300, :971-979, :1177-1183).                         *)
THEOREM SegmentsInOrderHolds == FairSpec => []SegmentsInOrder
<1>1. StreamInv => SegmentsInOrder
  BY DEF StreamInv
<1> QED
  BY <1>1, StreamInvariant, PTL
=============================================================================
