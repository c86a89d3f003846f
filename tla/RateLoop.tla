------------------------------ MODULE RateLoop ------------------------------
(***************************************************************************)
(* Asynchronous rate feedback, closed: the feedback() of the two examples, *)
(* the fixed-point words it speaks (UsbIsochronousFeedback, src/lib.rs),   *)
(* a host that sends what it was told and a device whose clock drifts.     *)
(*                                                                         *)
(* One step is one millisecond, the feedback period.  Levels are in audio  *)
(* frames of BytesPerFrame bytes.  Integers are i32 as in a release build: *)
(* they wrap.                                                              *)
(***************************************************************************)
EXTENDS Integers

CONSTANTS
  Setups,     \* examples and bus speeds to consider
  Drifts,     \* how fast the device's clock is against the host's, ppm
  LossTimes,  \* the millisecond whose packets are lost; none is repeated
  MaxTime,    \* bound: length of a run in ms
  Settling    \* ms after which a disturbance is over

ASSUME RateAssumption ==
  /\ Drifts \subseteq Int /\ \A d \in Drifts : -10000 <= d /\ d <= 10000
  /\ {MaxTime, Settling} \cup LossTimes \subseteq Nat

VARIABLES
  setup, drift, lead, lostAt,  \* fixed in a run; lead: see Seen
  time,
  fill,                        \* frames queued when the next packet is due
  hostPart, clockPart,         \* fractions of a frame not yet sent or played
  seen, v, sent                \* last feedback: level it saw, result, on the wire

fixed == <<setup, drift, lead, lostAt>>
vars == <<fixed, time, fill, hostPart, clockPart, seen, v, sent>>

-----------------------------------------------------------------------------
(* Integers.                                                               *)

BytesPerFrame == 8
Abs(a) == IF a < 0 THEN -a ELSE a
clamp(a, low, high) == IF a < low THEN low ELSE IF a > high THEN high ELSE a

(* Rust divides towards zero.                                              *)
Div(a, b) == IF a < 0 THEN -((-a) \div b) ELSE a \div b

(* a * n in 32 bits, n >= 0 and |a| small, without a larger product.       *)
MulI32(a, n) ==
  LET low == a * (n % 65536)
      high == (a * (n \div 65536) + low \div 65536) % 65536
  IN  (IF high >= 32768 THEN high - 65536 ELSE high) * 65536 + (low % 65536)

-----------------------------------------------------------------------------
(* Fixed-point words.  16.16 on a high-speed bus, 10.14 at full speed; the *)
(* host reads the word back as 16.16.                                      *)

new_float(frames, packets) == (frames \div packets) * 65536
parts(word) == word \div 65536
to_u32_12_13(word) == word
to_u32_10_14(word) == (word + 2) \div 4
to_bytes_10_14(word) == to_u32_10_14(word) % 2^24
OnWire(packets, word) ==
  IF packets = 8 THEN to_u32_12_13(word) ELSE 4 * to_bytes_10_14(word)

-----------------------------------------------------------------------------
(* The DMA example: 8 slots of 48 frames at 96 kHz, started when a packet  *)
(* makes them half full.                                                   *)

FILL_TARGET_BYTES == (48 * BytesPerFrame * 8) \div 2

(* What the producer takes; its fullest slot may be the one in play.       *)
DmaCapacity == 7 * 48
DmaSurelyTakes == 6 * 48

(* Mutants: a clamp that forbids the drifts of real clocks, and none.      *)
Tight(nominal) == nominal \div 5000
Loose(nominal) == nominal
max_allowed_deviation(nominal) == nominal \div 500

(* Mutants: a tenth of the gain; the sign lost.                            *)
Weak(error_permille, nominal) == Div(-MulI32(error_permille, nominal), 2560000)
Unsigned(error_permille, nominal) == Div(Abs(MulI32(error_permille, nominal)), 256000)
p_term(error_permille, nominal) == Div(-MulI32(error_permille, nominal), 256000)

(* A ring that ran dry is further played than produced: frames < 0.  That  *)
(* nothing was produced is never true of a ring that runs.                 *)
DmaFeedback(frames, nominal) ==
  LET error_permille ==
        Div((frames * BytesPerFrame - FILL_TARGET_BYTES) * 1000, FILL_TARGET_BYTES)
      deviation == max_allowed_deviation(nominal)
  IN  IF frames < 0 THEN nominal
      ELSE clamp(nominal + p_term(error_permille, nominal),
                 nominal - deviation, nominal + deviation)

(* The interrupt example: 256 frames at 48 kHz, started empty.  Mutant: a  *)
(* smaller gain.                                                           *)
FIFO_LENGTH == 256
Gentle(error) == error * 64
p(error) == error * 256
EvkFeedback(frames, nominal) ==
  LET error == clamp(frames - FIFO_LENGTH \div 2, -(4 * parts(nominal)), 4 * parts(nominal))
  IN  clamp(nominal - p(error), nominal - 2^14, nominal + 2^14)

Example(name, packets) ==
  IF name = "dma"
    THEN [name |-> name, packets |-> packets, frames |-> 96, capacity |-> DmaCapacity,
          target |-> FILL_TARGET_BYTES \div BytesPerFrame,
          start |-> 4 * 48 - 96 \div packets]
    ELSE [name |-> name, packets |-> packets, frames |-> 48, capacity |-> FIFO_LENGTH,
          target |-> FIFO_LENGTH \div 2, start |-> 0]

ASSUME SetupAssumption ==
  Setups \subseteq {Example(name, packets) : name \in {"dma", "evk"}, packets \in {1, 8}}

Nominal == new_float(setup.frames, setup.packets)
feedback(frames) ==
  IF setup.name = "dma" THEN DmaFeedback(frames, Nominal) ELSE EvkFeedback(frames, Nominal)

-----------------------------------------------------------------------------

Packet(s) == s.frames \div s.packets

(* The host's schedule decides whether feedback sees the level before or   *)
(* after a packet.                                                         *)
Init ==
  /\ setup \in Setups /\ drift \in Drifts
  /\ lead \in {0, Packet(setup)}
  /\ lostAt \in LossTimes
  /\ time = 0
  /\ fill = setup.start
  /\ hostPart = 0 /\ clockPart = 0
  /\ seen = setup.target
  /\ v = Nominal /\ sent = Nominal

(* Packets arrive, frames are played, feedback() looks and answers.        *)
ToSend == hostPart + setup.packets * sent
ToPlay == clockPart + setup.frames * (1000000 + drift)
Arriving == IF time = lostAt THEN 0 ELSE ToSend \div 65536
Left == fill + Arriving - ToPlay \div 1000000
Level == clamp(Left, 0, setup.capacity)

(* The DMA goes on when there is nothing left to play.                     *)
RanDry == setup.name = "dma" /\ Left < 0
Seen == (IF RanDry THEN Left ELSE Level) + lead

Millisecond ==
  /\ time < MaxTime
  /\ time' = time + 1
  /\ hostPart' = ToSend % 65536
  /\ clockPart' = ToPlay % 1000000
  /\ fill' = Level
  /\ seen' = Seen
  /\ v' = feedback(Seen)
  /\ sent' = OnWire(setup.packets, v')
  /\ UNCHANGED fixed

Next == Millisecond

Spec == Init /\ [][Next]_vars

-----------------------------------------------------------------------------
(* Properties                                                              *)

(* Levels stay in the buffer, and a rate is never further from the nominal *)
(* one than its controller may ask for (0.2% with DMA, a quarter of a      *)
(* frame a packet otherwise).                                              *)
TypeOK ==
  /\ fill \in 0..setup.capacity
  /\ hostPart \in Nat /\ hostPart < 65536
  /\ clockPart \in Nat /\ clockPart < 1000000
  /\ Abs(v - Nominal) <= IF setup.name = "dma" THEN Nominal \div 500 ELSE 16384
  /\ sent \in Nat

(* The correction works against the error: a level above the target never  *)
(* speeds the host up, one below never slows it down.                      *)
Opposes ==
  /\ seen > setup.target => v <= Nominal
  /\ seen < setup.target => v >= Nominal

(* "Feedback ensures that the host doesn't overrun or underrun the ring":  *)
(* from the warm start on, with a drifting clock and a lost millisecond,   *)
(* there is something to play and room for the next packet.                *)
InRing ==
  setup.name = "dma" => fill > 0 /\ fill + Packet(setup) <= DmaSurelyTakes

(* A disturbance passes: from then on the level is less than three frames  *)
(* from where the proportional controller balances the drift (thousandths  *)
(* of a frame; the frame in flight and the roundings are the three).       *)
Balance == (IF setup.name = "dma" THEN 50 ELSE 13) * Abs(drift)
Quiet == time >= Settling /\ (time < lostAt \/ time >= lostAt + Settling)
Settles == Quiet => 1000 * Abs(seen - setup.target) < Balance + 3000
=============================================================================
