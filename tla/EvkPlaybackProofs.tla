-------------------------- MODULE EvkPlaybackProofs --------------------------
(***************************************************************************)
(* The level that feedback() works out is the queue's, for queues, FIFOs   *)
(* and counters of any size and packets of any number of whole frames.     *)
(***************************************************************************)
EXTENDS EvkPlayback, TLAPS

-----------------------------------------------------------------------------
(* The inductive invariant                                                 *)

Even(n) == n % 2 = 0

(* Indices of bbqueue: nothing lies beyond the mark.  Whole frames only.   *)
WellFormed(q) ==
  /\ q \in Queues
  /\ q.write <= q.last /\ q.read <= q.last
  /\ Even(q.write) /\ Even(q.read) /\ Even(q.last)

(* A place for n words: at the front half of a ring that is wrapped, at    *)
(* the end of one that is not, or at its start.                            *)
Fits(q, start, n) ==
  /\ n \in 0..QueueWords /\ Even(n)
  /\ \/ start = q.write /\ Inverted(q) /\ q.write + n < q.read
     \/ start = q.write /\ ~Inverted(q) /\ q.write + n <= QueueWords
     \/ start = 0 /\ ~Inverted(q) /\ n < q.read

(* What is in the queue and not yet counted.                               *)
Uncounted == IF pc = "committed" THEN len ELSE 0
Signed(p, c) == AsSigned(wrapping_sub(p, c))

Accounted ==
  /\ Even(produced) /\ Even(consumed)
  /\ Uncounted \in 0..QueueWords /\ Even(Uncounted)
  /\ Signed(produced, consumed) = Length(queue) - Uncounted

Granted ==
  /\ WellFormed(queue)
  /\ pc = "granted" => Fits(queue, grant, len)

Loaded == pc = "loaded" => loaded = produced

IInv ==
  /\ TypeOK
  /\ Granted
  /\ Loaded
  /\ Accounted

-----------------------------------------------------------------------------
(* The queue                                                               *)

(* An exact grant is a place that fits.                                    *)
LEMMA GrantFits ==
  ASSUME NEW q \in Queues, WellFormed(q),
         NEW n \in 0..QueueWords, Even(n), grant_exact(q, n) # NoRoom
  PROVE  Fits(q, grant_exact(q, n), n) /\ grant_exact(q, n) \in 0..QueueWords
BY PlaybackAssumption DEF WellFormed, Queues, grant_exact, NoRoom, Fits, Inverted

(* A commit in a place that fits adds what was granted.                    *)
LEMMA CommitAdds ==
  ASSUME NEW q \in Queues, WellFormed(q), NEW s \in 0..QueueWords, NEW n, Fits(q, s, n)
  PROVE  /\ commit(q, s, n, n) \in Queues /\ WellFormed(commit(q, s, n, n))
         /\ Length(commit(q, s, n, n)) = Length(q) + n
<1>. DEFINE r == commit(q, s, n, n)
            end == s + n
            mark == IF end < q.write /\ q.write # QueueWords THEN q.write
                    ELSE IF end > q.last THEN QueueWords ELSE q.last
<1>1. n \in 0..QueueWords /\ QueueWords \in Nat
  BY PlaybackAssumption DEF Fits
<1>2. /\ q.write \in 0..QueueWords /\ q.read \in 0..QueueWords /\ q.last \in 0..QueueWords
      /\ q.write <= q.last /\ q.read <= q.last
  BY <1>1 DEF WellFormed, Queues
<1>3. r = [q EXCEPT !.write = end, !.last = mark]
  BY <1>1 DEF commit
<1>4. r.write = end /\ r.last = mark /\ r.read = q.read
  BY <1>3 DEF Queues
<1>5. end \in 0..QueueWords /\ mark \in 0..QueueWords /\ end <= mark /\ q.read <= mark
  BY <1>1, <1>2 DEF Fits, Inverted
<1>6. Even(end) /\ Even(mark)
  BY PlaybackAssumption, <1>1, <1>2 DEF Fits, WellFormed, Even, FRAME
<1>7. r \in Queues
  BY <1>3, <1>5 DEF Queues
<1>8. Length(r) = Length(q) + n
  <2>. HIDE DEF r
  <2>1. CASE Inverted(q)
    <3>1. end = q.write + n /\ end < q.read /\ mark = q.last
      BY <1>1, <1>2, <2>1 DEF Fits, Inverted
    <3>. QED  BY <1>1, <1>2, <1>4, <2>1, <3>1 DEF Length, Inverted
  <2>2. CASE ~Inverted(q) /\ end < q.read
    <3>1. end = n /\ mark = q.write
      BY <1>1, <1>2, <2>2 DEF Fits, Inverted
    <3>. QED  BY <1>1, <1>2, <1>4, <2>2, <3>1 DEF Length, Inverted
  <2>3. CASE ~Inverted(q) /\ ~(end < q.read)
    <3>1. end = q.write + n
      BY <1>1, <1>2, <2>3 DEF Fits, Inverted
    <3>. QED  BY <1>1, <1>2, <1>4, <2>3, <3>1 DEF Length, Inverted
  <2>. QED  BY <2>1, <2>2, <2>3
<1>9. WellFormed(r)
  <2>. HIDE DEF r, end, mark
  <2>. QED  BY <1>4, <1>5, <1>6, <1>7 DEF WellFormed
<1>. QED  BY <1>7, <1>8, <1>9

(* Going on from the mark to the start moves nothing, and a place that     *)
(* fits goes on fitting.                                                   *)
LEMMA FrontSame ==
  ASSUME NEW q \in Queues, WellFormed(q)
  PROVE  /\ AtFront(q) \in Queues /\ WellFormed(AtFront(q))
         /\ Length(AtFront(q)) = Length(q)
         /\ \A s, n : Fits(q, s, n) => Fits(AtFront(q), s, n)
<1>. USE PlaybackAssumption
<1>1. CASE q.read = q.last /\ Inverted(q)
  <2>1. AtFront(q) = [q EXCEPT !.read = 0]
    BY <1>1 DEF AtFront
  <2>2. /\ AtFront(q).read = 0 /\ AtFront(q).write = q.write /\ AtFront(q).last = q.last
        /\ AtFront(q) \in Queues
    BY <2>1 DEF Queues
  <2>3. WellFormed(AtFront(q))
    BY <2>2 DEF WellFormed, Queues, Even
  <2>4. Length(AtFront(q)) = Length(q)
    BY <1>1, <2>2 DEF Length, Inverted, Queues
  <2>5. ASSUME NEW s, NEW n, Fits(q, s, n) PROVE Fits(AtFront(q), s, n)
    BY <1>1, <2>2, <2>5 DEF Fits, Inverted, WellFormed, Queues
  <2>. QED  BY <2>2, <2>3, <2>4, <2>5
<1>2. CASE ~(q.read = q.last /\ Inverted(q))
  BY <1>2 DEF AtFront
<1>. QED  BY <1>1, <1>2

(* A frame at the front can be released, and a place goes on fitting.      *)
LEMMA ReleaseTakes ==
  ASSUME NEW q \in Queues, WellFormed(q), Readable(q) >= FRAME
  PROVE  /\ release(q, FRAME) \in Queues /\ WellFormed(release(q, FRAME))
         /\ Length(release(q, FRAME)) = Length(q) - FRAME
         /\ \A s, n : Fits(q, s, n) => Fits(release(q, FRAME), s, n)
<1>. DEFINE r == release(q, FRAME)
<1>. USE PlaybackAssumption DEF FRAME
<1>1. /\ q.write \in 0..QueueWords /\ q.read \in 0..QueueWords /\ q.last \in 0..QueueWords
      /\ q.write <= q.last /\ q.read <= q.last
      /\ Even(q.write) /\ Even(q.read) /\ Even(q.last)
  BY DEF WellFormed, Queues
<1>2. q.read + 2 <= (IF Inverted(q) THEN q.last ELSE q.write)
  BY <1>1 DEF Readable
<1>3. r.write = q.write /\ r.last = q.last /\ r.read = q.read + 2 /\ r \in Queues
  BY <1>1, <1>2 DEF release, Queues
<1>4. WellFormed(r)
  BY <1>1, <1>2, <1>3 DEF WellFormed, Even
<1>5. Length(r) = Length(q) - 2
  BY <1>1, <1>2, <1>3 DEF Length, Inverted
<1>6. ASSUME NEW s, NEW n, Fits(q, s, n) PROVE Fits(r, s, n)
  BY <1>1, <1>2, <1>3, <1>6 DEF Fits, Inverted
<1>. QED  BY <1>3, <1>4, <1>5, <1>6

(* No queue holds more than it has room for.                               *)
LEMMA LengthBound ==
  ASSUME NEW q \in Queues, WellFormed(q)
  PROVE  Length(q) \in 0..QueueWords /\ Even(Length(q))
BY PlaybackAssumption DEF WellFormed, Queues, Length, Inverted, Even

-----------------------------------------------------------------------------
(* The counters: their signed difference moves by what either is moved by, *)
(* however often they wrap, as long as it stays within a queue's length.   *)
LEMMA AddOnce ==
  ASSUME NEW a \in 0..2*Wrap-1
  PROVE  a % Wrap = IF a >= Wrap THEN a - Wrap ELSE a
BY PlaybackAssumption

LEMMA AddEven ==
  ASSUME NEW a \in 0..Wrap-1, NEW n \in 0..QueueWords, Even(a), Even(n)
  PROVE  Even((a + n) % Wrap)
<1>. DEFINE sum == a + n
<1>1. sum \in 0..2*Wrap-1 /\ Even(sum)
  BY PlaybackAssumption DEF Even
<1>2. sum % Wrap = IF sum >= Wrap THEN sum - Wrap ELSE sum
  <2>. HIDE DEF sum
  <2>. QED  BY <1>1, AddOnce
<1>. HIDE DEF sum
<1>3. Even(sum % Wrap)
  BY <1>1, <1>2, PlaybackAssumption DEF Even, FRAME
<1>. QED  BY <1>3 DEF sum

LEMMA SubtractOnce ==
  ASSUME NEW a \in 0..Wrap-1, NEW b \in 0..Wrap-1
  PROVE  wrapping_sub(a, b) = IF a >= b THEN a - b ELSE a - b + Wrap
BY PlaybackAssumption DEF wrapping_sub

LEMMA CountUp ==
  ASSUME NEW p \in 0..Wrap-1, NEW c \in 0..Wrap-1, NEW n \in 0..QueueWords,
         Signed(p, c) \in -QueueWords..QueueWords,
         Signed(p, c) + n <= QueueWords
  PROVE  /\ (p + n) % Wrap \in 0..Wrap-1
         /\ Signed((p + n) % Wrap, c) = Signed(p, c) + n
<1>. DEFINE sum == p + n
            next == sum % Wrap
            half == Wrap \div 2
<1>1. QueueWords \in Nat /\ half \in Nat /\ Wrap = 2 * half /\ half > QueueWords
  BY PlaybackAssumption DEF FRAME
<1>2. sum = p + n /\ sum \in 0..2*Wrap-1
  BY <1>1
<1>3. next = IF sum >= Wrap THEN sum - Wrap ELSE sum
  <2>. HIDE DEF sum
  <2>. QED  BY <1>2, AddOnce
<1>4. next \in 0..Wrap-1
  <2>. HIDE DEF sum, next
  <2>. QED  BY <1>1, <1>2, <1>3
<1>5. /\ wrapping_sub(p, c) = IF p >= c THEN p - c ELSE p - c + Wrap
      /\ wrapping_sub(next, c) = IF next >= c THEN next - c ELSE next - c + Wrap
  <2>. HIDE DEF sum, next
  <2>. QED  BY <1>4, SubtractOnce
<1>6. Signed(next, c) = Signed(p, c) + n
  <2>. HIDE DEF sum, next
  <2>1. \A d : AsSigned(d) = IF d < half THEN d ELSE d - Wrap
    BY DEF AsSigned
  <2>. HIDE DEF half
  <2>. QED  BY <1>1, <1>2, <1>3, <1>4, <1>5, <2>1 DEF Signed
<1>. QED  BY <1>4, <1>6

LEMMA CountDown ==
  ASSUME NEW p \in 0..Wrap-1, NEW c \in 0..Wrap-1, NEW n \in 0..QueueWords,
         Signed(p, c) \in -QueueWords..QueueWords,
         Signed(p, c) - n >= -QueueWords
  PROVE  /\ (c + n) % Wrap \in 0..Wrap-1
         /\ Signed(p, (c + n) % Wrap) = Signed(p, c) - n
<1>. DEFINE sum == c + n
            next == sum % Wrap
            half == Wrap \div 2
<1>1. QueueWords \in Nat /\ half \in Nat /\ Wrap = 2 * half /\ half > QueueWords
  BY PlaybackAssumption DEF FRAME
<1>2. sum = c + n /\ sum \in 0..2*Wrap-1
  BY <1>1
<1>3. next = IF sum >= Wrap THEN sum - Wrap ELSE sum
  <2>. HIDE DEF sum
  <2>. QED  BY <1>2, AddOnce
<1>4. next \in 0..Wrap-1
  <2>. HIDE DEF sum, next
  <2>. QED  BY <1>1, <1>2, <1>3
<1>5. /\ wrapping_sub(p, c) = IF p >= c THEN p - c ELSE p - c + Wrap
      /\ wrapping_sub(p, next) = IF p >= next THEN p - next ELSE p - next + Wrap
  <2>. HIDE DEF sum, next
  <2>. QED  BY <1>4, SubtractOnce
<1>6. Signed(p, next) = Signed(p, c) - n
  <2>. HIDE DEF sum, next
  <2>1. \A d : AsSigned(d) = IF d < half THEN d ELSE d - Wrap
    BY DEF AsSigned
  <2>. HIDE DEF half
  <2>. QED  BY <1>1, <1>2, <1>3, <1>4, <1>5, <2>1 DEF Signed
<1>. QED  BY <1>4, <1>6

-----------------------------------------------------------------------------
(* Every step keeps the invariant.                                         *)

LEMMA Initially == Init => IInv
<1>. SUFFICES ASSUME Init PROVE IInv
  OBVIOUS
<1>1. Flags
  BY DEF Init, Flags
<1>2. Registers
  BY PlaybackAssumption DEF Init, Registers, Queues, EmptyQueue
<1>3. Granted /\ Loaded
  BY PlaybackAssumption DEF Init, Granted, Loaded, WellFormed, Queues, EmptyQueue, Even
<1>4. Accounted
  <2>1. Signed(0, 0) = 0
    BY SubtractOnce, PlaybackAssumption DEF Signed, AsSigned, FRAME
  <2>2. Length(EmptyQueue) = 0
    BY DEF Length, Inverted, EmptyQueue
  <2>. QED  BY <2>1, <2>2, PlaybackAssumption DEF Init, Accounted, Uncounted, Even
<1>. QED  BY <1>1, <1>2, <1>3, <1>4 DEF IInv, TypeOK

LEMMA FlagsStep == Flags /\ [Next]_vars => Flags'
<1>. SUFFICES ASSUME Flags, [Next]_vars PROVE Flags'
  OBVIOUS
<1>. USE DEF Flags
<1>1. ASSUME NEW n \in Packets, audio_data_rx(n) PROVE Flags'
  BY <1>1 DEF audio_data_rx
<1>2. CASE Commit \/ Count \/ LoadProduced \/ LoadConsumed
  BY <1>2 DEF Commit, Count, LoadProduced, LoadConsumed
<1>3. CASE start_audio_out \/ stop_audio_out
  BY <1>3 DEF start_audio_out, stop_audio_out
<1>4. CASE FLEXCOMM7
  BY <1>4 DEF FLEXCOMM7, Interrupt, ConsumeFrame, Silence, Return, task
<1>5. CASE Play \/ UNCHANGED vars
  BY <1>5 DEF Play, vars, task
<1>. QED  BY <1>1, <1>2, <1>3, <1>4, <1>5 DEF Next, UsbTask

(* The packet finds its place.                                             *)
LEMMA GrantStep ==
  ASSUME Registers, Granted, Loaded, Accounted, NEW n \in Packets, audio_data_rx(n)
  PROVE  Registers' /\ Granted' /\ Loaded' /\ Accounted'
<1>1. /\ pc = "idle" /\ UNCHANGED <<queue, produced, consumed, loaded, fifo>>
      /\ n \in 0..QueueWords /\ Even(n)
  BY PlaybackAssumption DEF audio_data_rx, Even, FRAME
<1>2. CASE UNCHANGED <<pc, len, grant>>
  BY <1>1, <1>2 DEF Registers, Granted, Loaded, Accounted, Uncounted
<1>3. CASE /\ grant_exact(queue, n) # NoRoom
           /\ pc' = "granted" /\ len' = n /\ grant' = grant_exact(queue, n)
  <2>1. Fits(queue, grant', len') /\ grant' \in 0..QueueWords
    BY <1>1, <1>3, GrantFits DEF Registers, Granted
  <2>2. Registers'
    BY <1>1, <1>3, <2>1 DEF Registers
  <2>3. Granted' /\ Loaded'
    BY <1>1, <1>3, <2>1 DEF Granted, Loaded
  <2>4. Accounted'
    BY <1>1, <1>3 DEF Accounted, Uncounted
  <2>. QED  BY <2>2, <2>3, <2>4
<1>. QED  BY <1>2, <1>3 DEF audio_data_rx

(* What is committed is in the queue and not counted.                      *)
LEMMA CommitStep ==
  ASSUME Registers, Granted, Loaded, Accounted, Commit
  PROVE  Registers' /\ Granted' /\ Loaded' /\ Accounted'
<1>1. /\ pc = "granted" /\ pc' = "committed" /\ queue' = commit(queue, grant, len, len)
      /\ UNCHANGED <<produced, consumed, len, grant, loaded, fifo>>
  BY DEF Commit
<1>2. Fits(queue, grant, len) /\ WellFormed(queue) /\ queue \in Queues /\ grant \in 0..QueueWords
  BY <1>1 DEF Granted, Registers
<1>3. queue' \in Queues /\ WellFormed(queue') /\ Length(queue') = Length(queue) + len
  BY <1>1, <1>2, CommitAdds
<1>4. Registers'
  BY <1>1, <1>3 DEF Registers
<1>5. Granted' /\ Loaded'
  BY <1>1, <1>3 DEF Granted, Loaded
<1>6. Accounted'
  <2>1. len \in 0..QueueWords /\ Even(len)
    BY <1>2 DEF Fits
  <2>2. Length(queue) \in 0..QueueWords
    BY <1>2, LengthBound
  <2>3. Signed(produced, consumed) = Length(queue)
    BY <1>1, <2>2 DEF Accounted, Uncounted
  <2>4. Signed(produced, consumed) = Length(queue') - len
    BY <1>3, <2>1, <2>2, <2>3
  <2>. QED  BY <1>1, <2>1, <2>4 DEF Accounted, Uncounted
<1>. QED  BY <1>4, <1>5, <1>6

(* Counting makes up for it.                                               *)
LEMMA CountStep ==
  ASSUME Registers, Granted, Loaded, Accounted, Count
  PROVE  Registers' /\ Granted' /\ Loaded' /\ Accounted'
<1>1. /\ pc = "committed" /\ pc' = "idle" /\ len' = 0 /\ grant' = 0
      /\ produced' = (produced + len) % Wrap
      /\ UNCHANGED <<queue, consumed, loaded, fifo>>
  BY DEF Count, Added
<1>2. Length(queue) \in 0..QueueWords
  BY LengthBound DEF Granted, Registers
<1>3. /\ produced \in 0..Wrap-1 /\ consumed \in 0..Wrap-1
      /\ len \in 0..QueueWords /\ QueueWords \in Nat
  BY PlaybackAssumption DEF Registers
<1>4. Signed(produced, consumed) = Length(queue) - len
  BY <1>1 DEF Accounted, Uncounted
<1>5. produced' \in 0..Wrap-1 /\ Signed(produced', consumed') = Length(queue')
  <2>1. Signed(produced, consumed) \in -QueueWords..QueueWords
    BY <1>2, <1>3, <1>4
  <2>2. Signed(produced, consumed) + len <= QueueWords
    BY <1>2, <1>3, <1>4
  <2>3. /\ produced' \in 0..Wrap-1
        /\ Signed(produced', consumed) = Signed(produced, consumed) + len
    BY <1>1, <1>3, <2>1, <2>2, CountUp
  <2>4. consumed' = consumed /\ queue' = queue
    BY <1>1
  <2>. QED  BY <1>2, <1>3, <1>4, <2>3, <2>4
<1>6. Even(produced')
  BY <1>1, <1>3, AddEven DEF Accounted, Uncounted
<1>7. Registers'
  BY <1>1, <1>3, <1>5, PlaybackAssumption DEF Registers
<1>8. Granted' /\ Loaded'
  BY <1>1 DEF Granted, Loaded
<1>9. Accounted'
  BY <1>1, <1>2, <1>3, <1>5, <1>6 DEF Accounted, Uncounted, Even
<1>. QED  BY <1>7, <1>8, <1>9

(* What moves neither the queue nor a counter nor a packet on its way.     *)
LEMMA AsideStep ==
  ASSUME Registers, Granted, Loaded, Accounted,
         UNCHANGED <<queue, produced, consumed, len, grant>>,
         fifo' \in 0..Depth,
         \/ pc' = pc /\ loaded' = loaded
         \/ pc = "idle" /\ pc' = "loaded" /\ loaded' = produced
         \/ pc = "loaded" /\ pc' = "idle" /\ loaded' = 0
  PROVE  Registers' /\ Granted' /\ Loaded' /\ Accounted'
<1>1. Registers'
  BY PlaybackAssumption DEF Registers
<1>2. Granted' /\ Loaded'
  BY DEF Granted, Loaded
<1>3. Accounted'
  BY DEF Accounted, Uncounted
<1>. QED  BY <1>1, <1>2, <1>3

(* The interrupt releases what it counts.                                  *)
LEMMA ConsumeStep ==
  ASSUME Registers, Granted, Loaded, Accounted, ConsumeFrame
  PROVE  Registers' /\ Granted' /\ Loaded' /\ Accounted'
<1>. DEFINE front == AtFront(queue)
<1>1. /\ queue' = release(front, FRAME) /\ consumed' = (consumed + FRAME) % Wrap
      /\ fifo' = fifo + FRAME /\ fifo <= Depth - FRAME /\ Readable(front) >= FRAME
      /\ UNCHANGED <<produced, pc, len, grant, loaded>>
  BY DEF ConsumeFrame, Low, FrameReady, task
<1>2. /\ queue \in Queues /\ WellFormed(queue)
      /\ pc = "granted" => Fits(queue, grant, len)
      /\ pc = "loaded" => loaded = produced
  BY DEF Registers, Granted, Loaded
<1>3. /\ front \in Queues /\ WellFormed(front) /\ Length(front) = Length(queue)
      /\ pc = "granted" => Fits(front, grant, len)
  BY <1>2, FrontSame
<1>4. /\ queue' \in Queues /\ WellFormed(queue')
      /\ Length(queue') = Length(queue) - FRAME
      /\ pc = "granted" => Fits(queue', grant, len)
  <2>. HIDE DEF front
  <2>. QED  BY <1>1, <1>3, ReleaseTakes
<1>. HIDE DEF front
<1>5. Length(queue) \in 0..QueueWords /\ Length(queue') \in 0..QueueWords
  BY <1>2, <1>4, LengthBound
<1>6. /\ produced \in 0..Wrap-1 /\ consumed \in 0..Wrap-1
      /\ fifo \in 0..Depth /\ FRAME = 2 /\ QueueWords \in Nat
      /\ Uncounted \in 0..QueueWords
      /\ Signed(produced, consumed) = Length(queue) - Uncounted
  BY PlaybackAssumption DEF Registers, FRAME, Accounted
<1>7. FRAME \in 0..QueueWords
  BY <1>4, <1>5, <1>6
<1>8. /\ consumed' \in 0..Wrap-1
      /\ Signed(produced, consumed') = Length(queue') - Uncounted
  <2>1. Signed(produced, consumed) \in -QueueWords..QueueWords
    BY <1>5, <1>6
  <2>2. Signed(produced, consumed) - FRAME >= -QueueWords
    BY <1>4, <1>5, <1>6
  <2>3. /\ consumed' \in 0..Wrap-1
        /\ Signed(produced, consumed') = Signed(produced, consumed) - FRAME
    BY <1>1, <1>6, <1>7, <2>1, <2>2, CountDown
  <2>. QED  BY <1>4, <1>5, <1>6, <2>3
<1>9. Even(consumed')
  BY <1>1, <1>6, <1>7, AddEven DEF Accounted, Even
<1>10. Registers'
  <2>1. fifo' \in 0..Depth
    BY <1>1, <1>6, PlaybackAssumption
  <2>. QED  BY <1>1, <1>4, <1>8, <2>1 DEF Registers
<1>11. Granted' /\ Loaded'
  BY <1>1, <1>2, <1>4 DEF Granted, Loaded
<1>12. Accounted'
  <2>1. Uncounted' = Uncounted /\ produced' = produced
    BY <1>1 DEF Uncounted
  <2>. QED  BY <1>8, <1>9, <2>1 DEF Accounted
<1>. QED  BY <1>10, <1>11, <1>12

LEMMA SilenceStep ==
  ASSUME Registers, Granted, Loaded, Accounted, Silence
  PROVE  Registers' /\ Granted' /\ Loaded' /\ Accounted'
<1>1. /\ queue' = AtFront(queue) /\ fifo' = fifo + FRAME /\ fifo <= Depth - FRAME
      /\ UNCHANGED <<produced, consumed, pc, len, grant, loaded>>
  BY DEF Silence, Low, task
<1>2. /\ queue' \in Queues /\ WellFormed(queue') /\ Length(queue') = Length(queue)
      /\ pc = "granted" => Fits(queue', grant, len)
  BY <1>1, FrontSame DEF Registers, Granted
<1>3. Registers'
  <2>1. fifo' \in 0..Depth
    BY <1>1, PlaybackAssumption DEF Registers, FRAME
  <2>. QED  BY <1>1, <1>2, <2>1 DEF Registers
<1>4. Granted' /\ Loaded'
  BY <1>1, <1>2 DEF Granted, Loaded
<1>5. Accounted'
  BY <1>1, <1>2 DEF Accounted, Uncounted
<1>. QED  BY <1>3, <1>4, <1>5

LEMMA Inductive == IInv /\ [Next]_vars => IInv'
<1>. SUFFICES ASSUME IInv, [Next]_vars PROVE IInv'
  OBVIOUS
<1>1. Flags /\ Registers /\ Granted /\ Loaded /\ Accounted
  BY DEF IInv, TypeOK
<1>2. Flags'
  BY <1>1, FlagsStep
<1>3. Registers' /\ Granted' /\ Loaded' /\ Accounted'
  <2>1. ASSUME NEW n \in Packets, audio_data_rx(n)
        PROVE  Registers' /\ Granted' /\ Loaded' /\ Accounted'
    BY <1>1, <2>1, GrantStep
  <2>2. CASE Commit \/ Count
    BY <1>1, <2>2, CommitStep, CountStep
  <2>3. CASE LoadProduced \/ LoadConsumed
    <3>1. fifo' \in 0..Depth
      BY <1>1, <2>3 DEF LoadProduced, LoadConsumed, Registers
    <3>. QED  BY <1>1, <2>3, <3>1, AsideStep DEF LoadProduced, LoadConsumed
  <2>4. CASE start_audio_out \/ stop_audio_out \/ Interrupt \/ Return \/ Play \/ UNCHANGED vars
    <3>1. fifo' \in 0..Depth
      BY <1>1, <2>4, PlaybackAssumption
         DEF start_audio_out, stop_audio_out, Interrupt, Return, Play, vars, Registers
    <3>2. UNCHANGED <<queue, produced, consumed, len, grant, pc, loaded>>
      BY <2>4 DEF start_audio_out, stop_audio_out, Interrupt, Return, Play, vars, task
    <3>. QED  BY <1>1, <3>1, <3>2, AsideStep
  <2>5. CASE ConsumeFrame \/ Silence
    BY <1>1, <2>5, ConsumeStep, SilenceStep
  <2>. QED  BY <2>1, <2>2, <2>3, <2>4, <2>5 DEF Next, UsbTask, FLEXCOMM7
<1>. QED  BY <1>2, <1>3 DEF IInv, TypeOK

-----------------------------------------------------------------------------
(* Theorems                                                                *)

THEOREM Invariance == Spec => []IInv
  BY Initially, Inductive, PTL DEF Spec

(* Indices, counters and levels stay in range; above all, the handler      *)
(* never writes to a full FIFO.                                            *)
THEOREM TypeCorrect == Spec => []TypeOK
<1>1. IInv => TypeOK
  BY DEF IInv
<1>. QED  BY Invariance, <1>1, PTL

(* The level feedback() works out is the queue's when it takes its second  *)
(* load, however often the counters wrapped.                               *)
THEOREM LevelExact == Spec => []OutFillExact
<1>1. IInv => OutFillExact
  <2>. SUFFICES ASSUME IInv, pc = "loaded" PROVE fill * FRAME = Length(queue)
    BY DEF OutFillExact
  <2>1. Signed(loaded, consumed) = Length(queue) - 0
    BY DEF IInv, Loaded, Accounted, Uncounted
  <2>2. Length(queue) \in 0..QueueWords /\ Even(Length(queue))
    BY LengthBound DEF IInv, TypeOK, Registers, Granted
  <2>3. fill = Length(queue) \div 2
    BY <2>1, <2>2, PlaybackAssumption DEF fill, Signed, FRAME
  <2>. QED  BY <2>2, <2>3, PlaybackAssumption DEF Even, FRAME
<1>. QED  BY Invariance, <1>1, PTL
=============================================================================
