-------------------------- MODULE EvkRecordingProofs --------------------------
(***************************************************************************)
(* What the recording counters say, for queues, FIFOs and packets of any   *)
(* size: PRODUCED_IN and CONSUMED_IN do follow the queue, the one in bytes *)
(* and the other in frames, and what is wrong with the level worked out    *)
(* from them is seven bytes for every frame ever sent, and nothing else.   *)
(***************************************************************************)
EXTENDS EvkRecording, DivisionLemmas

(* The counters are wide enough for a full queue, as u32 is for            *)
(* QUEUE_BYTES.                                                            *)
Sizes ==
  /\ QueueBytes \in Nat /\ Depth \in Nat
  /\ Wrap \in Nat /\ Wrap \div 2 > QueueBytes
  /\ NOMINAL_SAMPLES \in Nat \ {0}
  /\ DRAINING \in Int /\ FILLING \in Int

-----------------------------------------------------------------------------
(* The inductive invariant                                                 *)

WellFormed(q) ==
  /\ q \in Queues
  /\ q.write <= q.last /\ q.read <= q.last

TypeOK ==
  /\ pc \in {"idle", "loaded", "gather", "count"}
  /\ produced \in 0..Wrap-1 /\ consumed \in 0..Wrap-1 /\ loaded \in 0..Wrap-1
  /\ isr \in BOOLEAN /\ armed \in BOOLEAN
  /\ fifo \in 0..Depth /\ level \in Nat
  /\ samples \in Nat /\ written \in Nat /\ taken \in Nat

(* The queue holds whole frames.                                           *)
Whole == WellFormed(queue) /\ Length(queue) % FRAME = 0

(* "Allocate space for one additional audio frame": buf takes the packet.  *)
PacketFits == written <= samples /\ samples <= NOMINAL_SAMPLES + 1

(* What went in is what is there and what came out, counted or about to be.*)
Uncounted == pc # "count" => taken = 0
Counted == produced = (FRAME * (consumed + taken) + Length(queue)) % Wrap

(* Between the two loads only the first counter can have moved on.         *)
Loaded ==
  pc = "loaded" =>
    /\ FRAME * level \in 0..QueueBytes
    /\ loaded = (FRAME * consumed + FRAME * level) % Wrap

IInv ==
  /\ TypeOK
  /\ Whole
  /\ PacketFits
  /\ Uncounted
  /\ Counted
  /\ Loaded

(* Where the division by FRAME is of a level in bytes.                     *)
Scaled == Div(AsSigned((loaded - FRAME * consumed) % Wrap), FRAME)

-----------------------------------------------------------------------------
(* The queue                                                               *)

LEMMA LengthBound ==
  ASSUME Sizes, NEW q, WellFormed(q)
  PROVE  Length(q) \in 0..QueueBytes
BY DEF Sizes, WellFormed, Queues, Length, Inverted

(* A frame that finds a place makes the queue longer by a frame, though    *)
(* twice as much is committed.                                             *)
LEMMA ProduceAdds ==
  ASSUME Sizes, NEW q, WellFormed(q), grant_exact(q, FRAME) # NoRoom
  PROVE  LET r == commit(q, grant_exact(q, FRAME), FRAME, 2 * FRAME)
         IN  WellFormed(r) /\ Length(r) = Length(q) + FRAME
<1>. DEFINE s == grant_exact(q, FRAME)
            r == commit(q, s, FRAME, 2 * FRAME)
            end == s + 8
            mark == IF end < q.write /\ q.write # QueueBytes THEN q.write
                    ELSE IF end > q.last THEN QueueBytes ELSE q.last
<1>1. /\ q \in Queues /\ QueueBytes \in Nat
      /\ q.write \in 0..QueueBytes /\ q.read \in 0..QueueBytes /\ q.last \in 0..QueueBytes
      /\ q.write <= q.last /\ q.read <= q.last
  BY DEF Sizes, WellFormed, Queues
<1>2. \/ Inverted(q) /\ s = q.write /\ q.write + 8 < q.read
      \/ ~Inverted(q) /\ s = q.write /\ q.write + 8 <= QueueBytes
      \/ ~Inverted(q) /\ s = 0 /\ 8 < q.read
  BY <1>1 DEF grant_exact, FRAME, NoRoom
<1>. HIDE DEF s
<1>3. r = [q EXCEPT !.write = end, !.last = mark]
  BY DEF commit, FRAME
<1>4. r.write = end /\ r.last = mark /\ r.read = q.read
  BY <1>1, <1>3 DEF Queues
<1>5. end \in 0..QueueBytes /\ mark \in 0..QueueBytes /\ end <= mark /\ q.read <= mark
  BY <1>1, <1>2 DEF Inverted
<1>6. r \in Queues
  BY <1>1, <1>3, <1>5 DEF Queues
<1>. HIDE DEF r
<1>7. WellFormed(r)
  <2>. HIDE DEF end, mark
  <2>. QED  BY <1>4, <1>5, <1>6 DEF WellFormed
<1>8. Length(r) = Length(q) + 8
  <2>1. CASE Inverted(q)
    <3>1. end = q.write + 8 /\ end < q.read /\ mark = q.last
      BY <1>1, <1>2, <2>1 DEF Inverted
    <3>. QED  BY <1>1, <1>4, <2>1, <3>1 DEF Length, Inverted
  <2>2. CASE ~Inverted(q) /\ s = 0 /\ 8 < q.read
    <3>1. end = 8 /\ mark = q.write
      BY <1>1, <2>2 DEF Inverted
    <3>. QED  BY <1>1, <1>4, <2>2, <3>1 DEF Length, Inverted
  <2>3. CASE ~Inverted(q) /\ s = q.write
    <3>1. end = q.write + 8
      BY <2>3
    <3>. QED  BY <1>1, <1>4, <2>3, <3>1 DEF Length, Inverted
  <2>. QED  BY <1>2, <2>1, <2>2, <2>3
<1>. QED  BY <1>7, <1>8 DEF r, s, FRAME

(* Going on from the mark to the start moves nothing.                      *)
LEMMA FrontSame ==
  ASSUME Sizes, NEW q, WellFormed(q)
  PROVE  WellFormed(AtFront(q)) /\ Length(AtFront(q)) = Length(q)
<1>1. CASE q.read = q.last /\ Inverted(q)
  <2>1. /\ AtFront(q).read = 0 /\ AtFront(q).write = q.write /\ AtFront(q).last = q.last
        /\ AtFront(q) \in Queues
    BY <1>1 DEF AtFront, WellFormed, Queues, Sizes
  <2>. QED  BY <1>1, <2>1 DEF WellFormed, Queues, Length, Inverted, Sizes
<1>2. CASE ~(q.read = q.last /\ Inverted(q))
  BY <1>2 DEF AtFront
<1>. QED  BY <1>1, <1>2

(* A release of what can be read makes the queue shorter by that.          *)
LEMMA ReleaseTakes ==
  ASSUME Sizes, NEW q, WellFormed(q), NEW n \in Nat, n <= Readable(q)
  PROVE  WellFormed(release(q, n)) /\ Length(release(q, n)) = Length(q) - n
<1>1. /\ q.write \in 0..QueueBytes /\ q.read \in 0..QueueBytes /\ q.last \in 0..QueueBytes
      /\ q.write <= q.last /\ q.read <= q.last /\ QueueBytes \in Nat
  BY DEF WellFormed, Queues, Sizes
<1>2. q.read + n <= (IF Inverted(q) THEN q.last ELSE q.write)
  BY <1>1 DEF Readable
<1>3. /\ release(q, n).write = q.write /\ release(q, n).last = q.last
      /\ release(q, n).read = q.read + n /\ release(q, n) \in Queues
  BY <1>1, <1>2 DEF release, WellFormed, Queues
<1>. QED  BY <1>1, <1>2, <1>3 DEF WellFormed, Length, Inverted

(* What can be read is never negative.                                     *)
LEMMA ReadableNat ==
  ASSUME Sizes, NEW q, WellFormed(q)
  PROVE  Readable(q) \in Nat
BY DEF Sizes, WellFormed, Queues, Readable, Inverted

-----------------------------------------------------------------------------
(* The counters                                                            *)

(* Reducing the count of frames leaves the count of bytes right.           *)
LEMMA ReduceFrames ==
  ASSUME NEW w \in Nat, w > 0, NEW c \in Int, NEW n \in Int
  PROVE  (FRAME * (c % w) + n) % w = (FRAME * c + n) % w
<1>. DEFINE d == c \div w
            r == c % w
            turns == w * (8 * d)
            rest == 8 * r + n
<1>1. d \in Int /\ r \in Int /\ c = w * d + r
  BY DivMod
<1>. HIDE DEF d, r
<1>2. turns = 8 * (w * d)
  BY <1>1
<1>3. w * d \in Int
  BY <1>1
<1>4. 8 * c + n = turns + rest
  BY <1>1, <1>2, <1>3
<1>5. 8 * d \in Int /\ rest \in Int
  BY <1>1
<1>6. (turns + rest) % w = rest % w
  <2>. HIDE DEF rest
  <2>. QED  BY <1>5, Turns
<1>7. (8 * c + n) % w = (8 * r + n) % w
  BY <1>4, <1>6
<1>. QED  BY <1>7 DEF r, FRAME

-----------------------------------------------------------------------------
(* Every step keeps the invariant.                                         *)

LEMMA Initially == Sizes /\ Init => IInv
<1>. SUFFICES ASSUME Sizes, Init PROVE IInv
  OBVIOUS
<1>0. /\ Wrap \in Nat /\ Wrap > 0 /\ Depth \in Nat
      /\ NOMINAL_SAMPLES \in Nat
  BY DEF Sizes
<1>1. TypeOK
  <2>1. isr \in BOOLEAN /\ armed \in BOOLEAN
    BY DEF Init
  <2>2. /\ produced \in 0..Wrap-1 /\ consumed \in 0..Wrap-1 /\ loaded \in 0..Wrap-1
        /\ fifo \in 0..Depth /\ level \in Nat
        /\ samples \in Nat /\ written \in Nat /\ taken \in Nat
        /\ pc \in {"idle", "loaded", "gather", "count"}
    BY <1>0 DEF Init
  <2>. QED  BY <2>1, <2>2 DEF TypeOK
<1>3. PacketFits /\ Uncounted /\ Loaded
  BY <1>0 DEF Init, PacketFits, Uncounted, Loaded
<1>2. WellFormed(queue) /\ Length(queue) = 0
  BY DEF Sizes, Init, EmptyQueue, WellFormed, Queues, Length, Inverted
<1>4. 0 % Wrap = 0
  BY <1>0
<1>5. Whole /\ Counted
  BY <1>2, <1>4 DEF Init, Whole, Counted, FRAME
<1>. QED  BY <1>1, <1>3, <1>5 DEF IInv

(* A step that leaves queue and counters alone and is not about to load.   *)
LEMMA AsideStep ==
  ASSUME Sizes, IInv, UNCHANGED <<queue, produced, consumed, task>>,
         isr' \in BOOLEAN, armed' \in BOOLEAN, fifo' \in 0..Depth
  PROVE  IInv'
BY DEF IInv, TypeOK, Whole, PacketFits, Uncounted, Counted, Loaded, task

LEMMA LoadProducedStep ==
  ASSUME Sizes, IInv, LoadProduced
  PROVE  IInv'
<1>1. /\ pc = "idle" /\ pc' = "loaded" /\ loaded' = produced
      /\ level' = Length(queue) \div FRAME
      /\ UNCHANGED <<queue, produced, consumed, samples, written, taken, isr, fifo, armed>>
  BY DEF LoadProduced
<1>2. Length(queue) \in 0..QueueBytes /\ Length(queue) % 8 = 0
  BY LengthBound DEF IInv, Whole, FRAME
<1>3. level' \in Nat /\ FRAME * level' = Length(queue)
  <2>. DEFINE n == Length(queue)
  <2>1. n \in Nat /\ n % 8 = 0
    BY <1>2 DEF Sizes
  <2>2. n \div 8 \in Nat /\ 8 * (n \div 8) = n
    <3>. HIDE DEF n
    <3>. QED  BY <2>1
  <2>. QED  BY <1>1, <2>2 DEF FRAME
<1>4. produced = (FRAME * consumed + Length(queue)) % Wrap
  <2>1. taken = 0 /\ consumed + taken = consumed
    BY <1>1 DEF IInv, Uncounted, TypeOK, Sizes
  <2>. QED  BY <2>1 DEF IInv, Counted
<1>5. Loaded'
  BY <1>1, <1>2, <1>3, <1>4 DEF Loaded
<1>6. TypeOK' /\ Whole' /\ PacketFits' /\ Uncounted' /\ Counted'
  BY <1>1, <1>3 DEF IInv, TypeOK, Whole, PacketFits, Uncounted, Counted
<1>. QED  BY <1>5, <1>6 DEF IInv

LEMMA LoadConsumedStep ==
  ASSUME Sizes, IInv, LoadConsumed
  PROVE  IInv'
<1>1. /\ pc = "loaded" /\ pc' = "gather" /\ loaded' = 0
      /\ samples' = Decide(fill) /\ written' = 0
      /\ UNCHANGED <<queue, produced, consumed, taken, level, isr, fifo, armed>>
  BY DEF LoadConsumed
<1>2. samples' \in Nat /\ samples' <= NOMINAL_SAMPLES + 1
  BY <1>1 DEF Decide, Sizes
<1>. QED  BY <1>1, <1>2 DEF Sizes, IInv, TypeOK, Whole, PacketFits, Uncounted, Counted, Loaded

LEMMA GatherStep ==
  ASSUME Sizes, IInv, Gather
  PROVE  IInv'
<1>. DEFINE front == AtFront(queue)
<1>1. /\ pc = "gather" /\ ~isr
      /\ UNCHANGED <<produced, consumed, loaded, samples, level, isr, fifo, armed>>
  BY DEF Gather
<1>2. WellFormed(front) /\ Length(front) = Length(queue) /\ Readable(front) \in Nat
  BY FrontSame, ReadableNat DEF IInv, Whole
<1>3. CASE to_copy > 0
  <2>1. /\ queue' = release(front, to_copy * FRAME)
        /\ written' = written + to_copy /\ taken' = to_copy /\ pc' = "count"
    BY <1>3 DEF Gather
  <2>2. /\ to_copy \in Nat /\ to_copy <= samples - written
        /\ to_copy <= Readable(front) \div 8
    <3>. DEFINE n == Readable(front)
    <3>1. n \div 8 \in Nat /\ samples \in Nat /\ written \in Nat
      <4>. HIDE DEF n
      <4>. QED  BY <1>2 DEF n, IInv, TypeOK
    <3>2. to_copy = Least(samples - written, n \div 8)
      BY DEF to_copy, Available, FRAME
    <3>. HIDE DEF n
    <3>3. to_copy \in Nat /\ to_copy <= samples - written /\ to_copy <= n \div 8
      BY <1>3, <3>1, <3>2 DEF Least
    <3>. QED  BY <3>3 DEF n
  <2>. DEFINE n == Readable(front)
              k == to_copy
              m == k * FRAME
  <2>3. m \in Nat /\ m <= n /\ k \in Nat /\ m = 8 * k
    <3>1. n \in Nat /\ k \in Nat /\ k <= n \div 8
      BY <1>2, <2>2
    <3>. HIDE DEF n, k
    <3>. QED  BY <3>1 DEF FRAME
  <2>4. WellFormed(queue') /\ Length(queue') = Length(queue) - m
    <3>. HIDE DEF front, m
    <3>. QED  BY <1>2, <2>1, <2>3, ReleaseTakes DEF m
  <2>5. Length(queue) \in Nat /\ Length(queue) % 8 = 0 /\ Length(queue') \in Nat
    BY <2>4, LengthBound DEF IInv, Whole, Sizes, FRAME
  <2>6. Whole'
    <3>. DEFINE a == Length(queue)
                b == Length(queue')
    <3>1. a \in Nat /\ a % 8 = 0 /\ b = a - 8 * k /\ k \in Nat /\ b \in Nat
      BY <2>3, <2>4, <2>5
    <3>2. b % 8 = 0
      <4>. HIDE DEF a, b, k
      <4>. QED  BY <3>1
    <3>. QED  BY <2>4, <3>2 DEF Whole, FRAME
  <2>7. Counted'
    <3>1. taken = 0 /\ consumed \in Nat
      BY <1>1 DEF IInv, Uncounted, TypeOK, Sizes
    <3>2. FRAME * (consumed + taken') + Length(queue') = FRAME * (consumed + taken) + Length(queue)
      <4>. HIDE DEF front, m, n, k
      <4>1. taken' = k
        BY <2>1 DEF k
      <4>. QED  BY <2>3, <2>4, <2>5, <3>1, <4>1 DEF FRAME
    <3>. QED  BY <1>1, <3>2 DEF IInv, Counted
  <2>8. TypeOK' /\ PacketFits' /\ Uncounted' /\ Loaded'
    BY <1>1, <2>1, <2>2 DEF IInv, TypeOK, PacketFits, Uncounted, Loaded
  <2>. QED  BY <2>6, <2>7, <2>8 DEF IInv
<1>4. CASE ~(to_copy > 0)
  <2>1. /\ queue' = queue \/ queue' = front
        /\ pc' = "idle" /\ written' = written /\ taken' = taken
    BY <1>4 DEF Gather
  <2>2. WellFormed(queue') /\ Length(queue') = Length(queue)
    BY <1>2, <2>1 DEF IInv, Whole
  <2>. QED  BY <1>1, <2>1, <2>2
            DEF IInv, TypeOK, Whole, PacketFits, Uncounted, Counted, Loaded
<1>. QED  BY <1>3, <1>4

LEMMA CountStep ==
  ASSUME Sizes, IInv, Count
  PROVE  IInv'
<1>1. /\ pc = "count" /\ pc' = "gather" /\ taken' = 0
      /\ consumed' = (consumed + taken) % Wrap
      /\ UNCHANGED <<queue, produced, loaded, samples, written, level, isr, fifo, armed>>
  BY DEF Count
<1>. DEFINE c == consumed + taken
            n == Length(queue)
<1>2. c \in Int /\ n \in Int /\ Wrap \in Nat /\ Wrap > 0
  BY LengthBound DEF Sizes, IInv, TypeOK, Whole
<1>3. c % Wrap \in 0..Wrap-1
  <2>. HIDE DEF c
  <2>. QED  BY <1>2, DivMod
<1>4. Counted'
  <2>1. produced = (FRAME * c + n) % Wrap
    BY DEF IInv, Counted
  <2>2. (FRAME * (c % Wrap) + n) % Wrap = (FRAME * c + n) % Wrap
    <3>. HIDE DEF c, n
    <3>. QED  BY <1>2, ReduceFrames
  <2>3. consumed' + taken' = c % Wrap
    BY <1>1, <1>3 DEF Sizes
  <2>. QED  BY <1>1, <2>1, <2>2, <2>3 DEF Counted
<1>5. TypeOK' /\ Whole' /\ PacketFits' /\ Uncounted' /\ Loaded'
  BY <1>1, <1>3 DEF IInv, TypeOK, Whole, PacketFits, Uncounted, Loaded
<1>. QED  BY <1>4, <1>5 DEF IInv

LEMMA ProduceFrameStep ==
  ASSUME Sizes, IInv, ProduceFrame
  PROVE  IInv'
<1>1. /\ grant_exact(queue, FRAME) # NoRoom /\ fifo >= WORDS
      /\ queue' = commit(queue, grant_exact(queue, FRAME), FRAME, 2 * FRAME)
      /\ produced' = (produced + FRAME) % Wrap /\ fifo' = fifo - WORDS
      /\ UNCHANGED <<consumed, task, isr, armed>>
  BY DEF ProduceFrame, Place
<1>2. WellFormed(queue') /\ Length(queue') = Length(queue) + FRAME
  BY <1>1, ProduceAdds DEF IInv, Whole
<1>3. Length(queue) \in Nat /\ Length(queue) % 8 = 0
  BY LengthBound DEF IInv, Whole, Sizes, FRAME
<1>4. Whole'
  <2>. DEFINE n == Length(queue)
  <2>1. (n + 8) % 8 = 0
    <3>1. n \in Nat /\ n % 8 = 0
      BY <1>3
    <3>. HIDE DEF n
    <3>. QED  BY <3>1
  <2>. QED  BY <1>2, <2>1 DEF Whole, FRAME
<1>5. Wrap \in Nat /\ Wrap > 0 /\ consumed \in Nat /\ taken \in Nat /\ taken' = taken
  BY <1>1 DEF Sizes, IInv, TypeOK, task
<1>6. produced' \in 0..Wrap-1 /\ Counted'
  <2>. DEFINE sum == FRAME * (consumed + taken) + Length(queue)
  <2>1. sum \in Int /\ sum + FRAME = FRAME * (consumed + taken) + Length(queue')
    BY <1>2, <1>3, <1>5 DEF FRAME
  <2>2. produced = sum % Wrap
    BY DEF IInv, Counted
  <2>3. ((sum % Wrap) + FRAME) % Wrap = (sum + FRAME) % Wrap
    <3>. HIDE DEF sum
    <3>1. FRAME \in Int /\ sum \in Int
      BY <2>1 DEF FRAME
    <3>. QED  BY <1>5, <3>1, ReduceFirst
  <2>4. (sum + FRAME) % Wrap \in 0..Wrap-1
    <3>. HIDE DEF sum
    <3>. QED  BY <1>5, <2>1, DivMod DEF FRAME
  <2>. QED  BY <1>1, <1>5, <2>1, <2>2, <2>3, <2>4 DEF Counted
<1>7. TypeOK' /\ PacketFits' /\ Uncounted' /\ Loaded'
  BY <1>1, <1>6 DEF IInv, TypeOK, PacketFits, Uncounted, Loaded, task, WORDS, Sizes
<1>. QED  BY <1>4, <1>6, <1>7 DEF IInv

LEMMA Inductive == Sizes /\ IInv /\ [Next]_vars => IInv'
<1>. SUFFICES ASSUME Sizes, IInv, [Next]_vars PROVE IInv'
  OBVIOUS
<1>1. /\ fifo \in 0..Depth /\ Depth \in Nat
      /\ isr \in BOOLEAN /\ armed \in BOOLEAN
  BY DEF Sizes, IInv, TypeOK
<1>2. CASE start_audio_in
  BY <1>1, <1>2, AsideStep DEF start_audio_in
<1>3. CASE stop_audio_in
  BY <1>1, <1>3, AsideStep DEF stop_audio_in
<1>4. CASE Interrupt
  BY <1>1, <1>4, AsideStep DEF Interrupt
<1>5. CASE Discard
  <2>1. fifo' \in 0..Depth
    BY <1>1, <1>5 DEF Discard, WORDS
  <2>. QED  BY <1>1, <1>5, <2>1, AsideStep DEF Discard
<1>6. CASE Return
  BY <1>1, <1>6, AsideStep DEF Return
<1>7. CASE Capture
  <2>1. fifo' \in 0..Depth
    BY <1>1, <1>7 DEF Capture
  <2>. QED  BY <1>1, <1>7, <2>1, AsideStep DEF Capture
<1>8. CASE UNCHANGED vars
  BY <1>1, <1>8, AsideStep DEF vars
<1>. QED
  BY <1>2, <1>3, <1>4, <1>5, <1>6, <1>7, <1>8,
     LoadProducedStep, LoadConsumedStep, GatherStep, CountStep, ProduceFrameStep
  DEF Next, UsbTask, FLEXCOMM6

-----------------------------------------------------------------------------
(* Theorems                                                                *)

(* The registers keep their ranges, the queue holds whole frames and a     *)
(* packet never outgrows audio_data_tx's buf, whatever fill came out as.   *)
THEOREM Invariance ==
  ASSUME Sizes
  PROVE  Spec => [](TypeOK /\ Whole /\ PacketFits)
<1>1. IInv => TypeOK /\ Whole /\ PacketFits
  BY DEF IInv
<1>2. Init => IInv
  BY Initially
<1>3. IInv /\ [Next]_vars => IInv'
  BY Inductive
<1>. QED  BY <1>1, <1>2, <1>3, PTL DEF Spec

(* No frame is lost or counted twice between the interrupt and the task:  *)
(* modulo 2^32 PRODUCED_IN is 8 times CONSUMED_IN, with what is released   *)
(* and not counted yet, and the bytes in the queue.                        *)
THEOREM CountersFollowQueue ==
  ASSUME Sizes
  PROVE  Spec => []Counted
<1>1. Init => IInv
  BY Initially
<1>2. IInv /\ [Next]_vars => IInv'
  BY Inductive
<1>3. IInv => Counted
  BY DEF IInv
<1>. QED  BY <1>1, <1>2, <1>3, PTL DEF Spec

(* With CONSUMED_IN taken in the units of PRODUCED_IN, the expression of   *)
(* audio_data_tx would be the queue's level at the first load, interrupts  *)
(* between the loads and wrapped counters included.                        *)
ScaledIsLevel == pc = "loaded" => Scaled = level

(* As it is, the difference is that level in bytes and on top of it seven  *)
(* bytes for every frame ever sent.                                        *)
DifferenceDrifts ==
  pc = "loaded" =>
    (loaded - consumed) % Wrap = (FRAME * level + (FRAME - 1) * consumed) % Wrap

LEMMA Differences == Sizes /\ IInv => ScaledIsLevel /\ DifferenceDrifts
<1>. SUFFICES ASSUME Sizes, IInv, pc = "loaded"
              PROVE  /\ Scaled = level
                     /\ (loaded - consumed) % Wrap
                          = (FRAME * level + (FRAME - 1) * consumed) % Wrap
  BY DEF ScaledIsLevel, DifferenceDrifts
<1>1. /\ Wrap \in Nat /\ Wrap > 0 /\ Wrap \div 2 > QueueBytes /\ QueueBytes \in Nat
      /\ consumed \in Nat /\ level \in Nat
      /\ FRAME * level \in 0..QueueBytes
      /\ loaded = (FRAME * consumed + FRAME * level) % Wrap
  BY DEF Sizes, IInv, TypeOK, Loaded
<1>. DEFINE sum == FRAME * consumed + FRAME * level
            bytes == FRAME * level
            sent == FRAME * consumed
<1>2. sum \in Int /\ bytes \in Int /\ sent \in Int
  BY <1>1 DEF FRAME
<1>3. ASSUME NEW k \in Int
      PROVE  (loaded - k) % Wrap = (sum - k) % Wrap
  <2>1. ((sum % Wrap) + (-k)) % Wrap = (sum + (-k)) % Wrap
    <3>. HIDE DEF sum
    <3>1. -k \in Int
      BY <1>3
    <3>. QED  BY <1>1, <1>2, <3>1, ReduceFirst
  <2>2. loaded = sum % Wrap /\ sum % Wrap \in Int
    <3>. HIDE DEF sum
    <3>. QED  BY <1>1, <1>2, DivMod DEF sum
  <2>3. loaded + (-k) = loaded - k /\ sum + (-k) = sum - k
    <3>. HIDE DEF sum
    <3>. QED  BY <1>2, <1>3, <2>2
  <2>. QED  BY <2>1, <2>2, <2>3
<1>4. (loaded - sent) % Wrap = bytes
  <2>1. (loaded - sent) % Wrap = (sum - sent) % Wrap
    <3>. HIDE DEF sum, sent
    <3>. QED  BY <1>2, <1>3
  <2>2. sum - sent = bytes
    BY <1>1 DEF FRAME
  <2>3. bytes \in 0..Wrap-1
    <3>. HIDE DEF bytes
    <3>1. bytes \in 0..QueueBytes
      BY <1>1 DEF bytes
    <3>. QED  BY <1>1, <3>1
  <2>4. bytes % Wrap = bytes
    <3>. HIDE DEF bytes
    <3>1. Wrap * 0 = 0 /\ bytes = Wrap * 0 + bytes
      BY <1>1, <1>2
    <3>. QED  BY <1>1, <1>2, <2>3, <3>1, Unique
  <2>. QED  BY <2>1, <2>2, <2>4
<1>5. Scaled = level
  <2>1. AsSigned(bytes) = bytes
    <3>. HIDE DEF bytes
    <3>1. bytes \in 0..QueueBytes
      BY <1>1 DEF bytes
    <3>. QED  BY <1>1, <3>1 DEF AsSigned
  <2>2. Div(bytes, FRAME) = level
    BY <1>1 DEF Div, FRAME
  <2>. QED  BY <1>4, <2>1, <2>2 DEF Scaled
<1>6. (loaded - consumed) % Wrap = (FRAME * level + (FRAME - 1) * consumed) % Wrap
  <2>1. (loaded - consumed) % Wrap = (sum - consumed) % Wrap
    <3>. HIDE DEF sum
    <3>. QED  BY <1>1, <1>3
  <2>2. sum - consumed = FRAME * level + (FRAME - 1) * consumed
    BY <1>1 DEF FRAME
  <2>. QED  BY <2>1, <2>2
<1>. QED  BY <1>5, <1>6

(* What SlippageFollowsFill fails on is the unit of CONSUMED_IN alone: not *)
(* the interrupt between the two loads, nor a wrap.                        *)
THEOREM UnitIsTheError ==
  ASSUME Sizes
  PROVE  Spec => [](ScaledIsLevel /\ DifferenceDrifts)
<1>1. Init => IInv
  BY Initially
<1>2. IInv /\ [Next]_vars => IInv'
  BY Inductive
<1>3. IInv => ScaledIsLevel /\ DifferenceDrifts
  BY Differences
<1>. QED  BY <1>1, <1>2, <1>3, PTL DEF Spec
=============================================================================
