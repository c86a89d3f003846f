--------------------------- MODULE RateLoopProofs ---------------------------
(***************************************************************************)
(* The rate feedback, for any drift, any loss and runs of any length: the  *)
(* rates it asks for are bounded and reach the host, they work against the *)
(* error, the DMA ring stays between empty and full, and the level comes   *)
(* back from a disturbance.                                                *)
(***************************************************************************)
EXTENDS RateLoop, DivisionLemmas, TLAPS

-----------------------------------------------------------------------------
(* The integers of the controllers                                         *)

LEMMA Clamped ==
  ASSUME NEW a \in Int, NEW low \in Int, NEW high \in Int, low <= high
  PROVE  /\ clamp(a, low, high) \in low..high
         /\ a \in low..high => clamp(a, low, high) = a
BY DEF clamp

(* A quotient has the sign of the dividend, and is no larger.              *)
LEMMA Quotient ==
  ASSUME NEW a \in Int, NEW b \in Nat, b > 0
  PROVE  /\ Div(a, b) \in Int
         /\ a >= 0 => Div(a, b) >= 0
         /\ a <= 0 => Div(a, b) <= 0
BY DEF Div

LEMMA Halves ==
  ASSUME NEW x \in Int
  PROVE  /\ x \div 65536 \in Int /\ x % 65536 \in Nat /\ x % 65536 < 65536
         /\ x = 65536 * (x \div 65536) + (x % 65536)
BY SMT

LEMMA Product ==
  ASSUME NEW a \in Int, NEW h \in Int, NEW l \in Int
  PROVE  /\ a * h \in Int /\ a * l \in Int
         /\ a * (65536 * h + l) = 65536 * (a * h) + a * l
<1>1. a * (65536 * h + l) = a * (65536 * h) + a * l
  <2>1. \A x, y, z \in Int : x * (y + z) = x * y + x * z
    BY Distribute
  <2>. QED  BY SMT, <2>1
<1>2. a * (65536 * h) = 65536 * (a * h)
  BY SMT
<1>. QED  BY SMT, <1>1, <1>2

(* A product that fits in 32 bits is the product.                          *)
LEMMA MulExact ==
  ASSUME NEW a \in Int, NEW n \in Nat, -2147483648 <= a * n, a * n <= 2147483647
  PROVE  MulI32(a, n) = a * n
<1>. DEFINE prod == a * n
            h == n \div 65536
            l == n % 65536
            ah == a * h
            low == a * l
            q == low \div 65536
            r == low % 65536
            t == ah + q
            high == t % 65536
<1>1. h \in Int /\ l \in Int /\ n = 65536 * h + l
  BY SMT
<1>2. ah \in Int /\ low \in Int /\ prod = 65536 * ah + low
  <2>. HIDE DEF h, l
  <2>. QED  BY SMT, <1>1, Product
<1>3. MulI32(a, n) = (IF high >= 32768 THEN high - 65536 ELSE high) * 65536 + r
  BY SMT DEF MulI32
<1>4. -2147483648 <= prod /\ prod <= 2147483647
  OBVIOUS
<1>5. SUFFICES MulI32(a, n) = prod
  OBVIOUS
<1>. HIDE DEF prod, h, l, ah, low
<1>6. q \in Int /\ r \in Nat /\ r < 65536 /\ low = 65536 * q + r
  <2>1. low \in Int
    BY <1>2
  <2>. QED  BY <2>1, Halves
<1>. HIDE DEF q, r
<1>7. t \in Int /\ prod = 65536 * t + r
  BY SMT, <1>2, <1>6
<1>. HIDE DEF t
<1>8. -32768 <= t /\ t <= 32767
  BY SMT, <1>4, <1>6, <1>7
<1>9. high = IF t >= 0 THEN t ELSE t + 65536
  BY SMT, <1>7, <1>8
<1>. HIDE DEF high
<1>. QED  BY SMT, <1>3, <1>6, <1>7, <1>8, <1>9

LEMMA MulInt ==
  ASSUME NEW a \in Int, NEW n \in Nat
  PROVE  MulI32(a, n) \in Int
<1>. DEFINE l == a * (n % 65536)
            t == a * (n \div 65536) + l \div 65536
            high == t % 65536
<1>1. l \in Int /\ a * (n \div 65536) \in Int
  BY SMT, Halves
<1>2. t \in Int /\ l % 65536 \in Int
  <2>. HIDE DEF l
  <2>. QED  BY SMT, <1>1, Halves
<1>3. high \in Int
  <2>. HIDE DEF t
  <2>. QED  BY SMT, <1>2, Halves
<1>4. MulI32(a, n) = (IF high >= 32768 THEN high - 65536 ELSE high) * 65536 + (l % 65536)
  BY SMT DEF MulI32
<1>. HIDE DEF high, l
<1>. QED  BY SMT, <1>2, <1>3, <1>4

-----------------------------------------------------------------------------
(* What the controllers answer                                             *)

LEMMA DmaRange ==
  ASSUME NEW frames \in Int, NEW nominal \in Nat
  PROVE  DmaFeedback(frames, nominal)
           \in nominal - nominal \div 500 .. nominal + nominal \div 500
<1>. DEFINE error == Div((frames * BytesPerFrame - FILL_TARGET_BYTES) * 1000, FILL_TARGET_BYTES)
            deviation == nominal \div 500
            want == nominal + p_term(error, nominal)
<1>1. error \in Int
  BY SMT, Quotient DEF BytesPerFrame, FILL_TARGET_BYTES
<1>2. deviation \in Nat
  BY SMT
<1>3. want \in Int
  <2>. HIDE DEF error
  <2>1. MulI32(error, nominal) \in Int
    BY SMT, <1>1, MulInt
  <2>2. -MulI32(error, nominal) \in Int
    BY SMT, <2>1
  <2>3. p_term(error, nominal) \in Int
    BY SMT, <2>2, Quotient DEF p_term
  <2>. QED  BY SMT, <2>3
<1>4. DmaFeedback(frames, nominal) =
        IF frames < 0 THEN nominal ELSE clamp(want, nominal - deviation, nominal + deviation)
  BY SMT DEF DmaFeedback, max_allowed_deviation
<1>. HIDE DEF want, deviation
<1>5. clamp(want, nominal - deviation, nominal + deviation)
        \in nominal - deviation .. nominal + deviation
  BY SMT, <1>2, <1>3, Clamped
<1>. QED  BY SMT, <1>2, <1>4, <1>5 DEF deviation

LEMMA EvkRange ==
  ASSUME NEW frames \in Int, NEW nominal \in Nat
  PROVE  /\ EvkFeedback(frames, nominal) \in Int
         /\ nominal - 16384 <= EvkFeedback(frames, nominal)
         /\ EvkFeedback(frames, nominal) <= nominal + 16384
BY SMT DEF EvkFeedback, clamp, p, parts, FIFO_LENGTH

(* The setups there are.                                                   *)
Shape(name, packets, frames, capacity, target, start, nominal) ==
  /\ setup.name = name /\ setup.packets = packets /\ setup.frames = frames
  /\ setup.capacity = capacity /\ setup.target = target /\ setup.start = start
  /\ Nominal = nominal

LEMMA Shapes ==
  ASSUME setup \in Setups
  PROVE  \/ Shape("dma", 8, 96, 336, 192, 180, 786432)
         \/ Shape("dma", 1, 96, 336, 192, 96, 6291456)
         \/ Shape("evk", 8, 48, 256, 128, 0, 393216)
         \/ Shape("evk", 1, 48, 256, 128, 0, 3145728)
<1>1. PICK name \in {"dma", "evk"}, packets \in {1, 8} : setup = Example(name, packets)
  BY SMT, SetupAssumption
<1>2. CASE name = "dma"
  BY SMT, <1>1, <1>2 DEF Shape, Example, Nominal, new_float, DmaCapacity, FILL_TARGET_BYTES,
                         BytesPerFrame
<1>3. CASE name = "evk"
  BY SMT, <1>1, <1>3 DEF Shape, Example, Nominal, new_float, FIFO_LENGTH
<1>. QED  BY SMT, <1>1, <1>2, <1>3

-----------------------------------------------------------------------------
(* Types                                                                   *)

Typed ==
  /\ setup \in Setups /\ drift \in Drifts /\ lead \in {0, Packet(setup)}
  /\ time \in Nat /\ lostAt \in Nat
  /\ TypeOK
  /\ seen \in Int /\ v \in Int

(* Rates as they come from the controllers, and as the host reads them.    *)
LEMMA FeedbackTyped ==
  ASSUME setup \in Setups, NEW frames \in Int
  PROVE  /\ feedback(frames) \in Int
         /\ Abs(feedback(frames) - Nominal)
              <= IF setup.name = "dma" THEN Nominal \div 500 ELSE 16384
         /\ OnWire(setup.packets, feedback(frames)) \in Nat
<1>1. /\ Nominal \in Nat /\ Nominal >= 16384 + Nominal \div 500
      /\ setup.packets \in {1, 8}
  BY SMT, Shapes DEF Shape
<1>2. feedback(frames) \in Int /\ feedback(frames) >= 0
      /\ Abs(feedback(frames) - Nominal)
              <= IF setup.name = "dma" THEN Nominal \div 500 ELSE 16384
  <2>. DEFINE answer == feedback(frames)
              nominal == Nominal
              deviation == nominal \div 500
  <2>4. nominal \in Nat
    BY SMT, <1>1
  <2>1. deviation \in Nat /\ nominal >= 16384 + deviation
    BY SMT, <1>1
  <2>2. CASE setup.name = "dma"
    <3>1. answer = DmaFeedback(frames, nominal)
      BY SMT, <2>2 DEF feedback
    <3>2. answer \in nominal - deviation .. nominal + deviation
      <4>. HIDE DEF answer, nominal
      <4>. QED  BY SMT, <2>4, <3>1, DmaRange
    <3>. HIDE DEF answer, nominal, deviation
    <3>3. /\ answer \in Int /\ answer >= 0
          /\ Abs(answer - nominal) <= deviation
      BY SMT, <2>4, <2>1, <3>2 DEF Abs
    <3>. QED  BY SMT, <2>2, <3>3 DEF answer, nominal, deviation
  <2>3. CASE setup.name # "dma"
    <3>1. answer = EvkFeedback(frames, nominal)
      BY SMT, <2>3 DEF feedback
    <3>2. answer \in Int /\ nominal - 16384 <= answer /\ answer <= nominal + 16384
      <4>. HIDE DEF answer, nominal
      <4>. QED  BY SMT, <2>4, <3>1, EvkRange
    <3>. HIDE DEF answer, nominal, deviation
    <3>3. /\ answer \in Int /\ answer >= 0
          /\ Abs(answer - nominal) <= 16384
      BY SMT, <2>4, <2>1, <3>2 DEF Abs
    <3>. QED  BY SMT, <2>3, <3>3 DEF answer, nominal
  <2>. QED  BY SMT, <2>2, <2>3
<1>3. ASSUME NEW word \in Nat PROVE OnWire(setup.packets, word) \in Nat
  <2>1. (word + 2) \div 4 \in Nat
    BY SMT
  <2>. DEFINE cut == (word + 2) \div 4
  <2>2. cut % 2^24 \in Nat
    <3>1. 2^24 = 16777216
      BY SMT
    <3>. HIDE DEF cut
    <3>. QED  BY SMT, <2>1, <3>1 DEF cut
  <2>. QED  BY SMT, <2>2 DEF OnWire, to_u32_12_13, to_bytes_10_14, to_u32_10_14
<1>. QED  BY SMT, <1>2, <1>3

LEMMA TypedInit == Init => Typed
<1>. SUFFICES ASSUME Init PROVE Typed
  BY SMT
<1>1. /\ setup \in Setups /\ lead \in {0, Packet(setup)} /\ drift \in Drifts
      /\ time \in Nat /\ lostAt \in Nat
  BY SMT, RateAssumption DEF Init
<1>2. /\ setup.start \in 0..setup.capacity /\ setup.target \in Nat /\ Nominal \in Nat
  BY SMT, <1>1, Shapes DEF Shape
<1>3. TypeOK
  BY SMT, <1>2 DEF Init, TypeOK, Abs
<1>. QED  BY SMT, <1>1, <1>2, <1>3 DEF Init, Typed

LEMMA TypedStep == Typed /\ [Next]_vars => Typed'
<1>. SUFFICES ASSUME Typed, Next PROVE Typed'
  <2>1. ASSUME Typed, UNCHANGED vars PROVE Typed'
    BY SMT, <2>1 DEF Typed, TypeOK, vars, fixed, Nominal
  <2>. QED  BY SMT, <2>1
<1>1. /\ setup' = setup /\ drift' = drift /\ lead' = lead
      /\ time' = time + 1 /\ lostAt' = lostAt
      /\ hostPart' = ToSend % 65536 /\ clockPart' = ToPlay % 1000000
      /\ fill' = Level /\ seen' = Seen /\ v' = feedback(Seen)
      /\ sent' = OnWire(setup.packets, v')
  BY SMT DEF Next, Millisecond, fixed
<1>2. /\ setup \in Setups /\ drift \in Int /\ lead \in Nat
      /\ setup.packets \in Nat /\ setup.frames \in Nat /\ setup.capacity \in Nat
  <2>1. setup \in Setups /\ drift \in Int /\ lead \in {0, Packet(setup)}
    BY SMT, RateAssumption DEF Typed
  <2>2. setup.packets \in {1, 8} /\ setup.frames \in {48, 96} /\ setup.capacity \in Nat
    BY SMT, <2>1, Shapes DEF Shape
  <2>. QED  BY SMT, <2>1, <2>2 DEF Packet
<1>3. fill \in Int /\ hostPart \in Nat /\ clockPart \in Nat /\ sent \in Nat
  BY SMT, <1>2 DEF Typed, TypeOK
<1>4. ToSend \in Int /\ ToPlay \in Int
  BY SMT, <1>2, <1>3 DEF ToSend, ToPlay
<1>5. Left \in Int /\ Level \in 0..setup.capacity
  <2>1. Left \in Int
    BY SMT, <1>2, <1>3, <1>4 DEF Left, Arriving
  <2>. QED  BY SMT, <1>2, <2>1 DEF Level, clamp
<1>6. Seen \in Int
  BY SMT, <1>2, <1>5 DEF Seen
<1>7. /\ v' \in Int /\ sent' \in Nat
      /\ Abs(v' - Nominal) <= IF setup.name = "dma" THEN Nominal \div 500 ELSE 16384
  BY SMT, <1>1, <1>2, <1>6, FeedbackTyped
<1>8. /\ hostPart' \in Nat /\ hostPart' < 65536
      /\ clockPart' \in Nat /\ clockPart' < 1000000
  BY SMT, <1>1, <1>4
<1>9. Nominal' = Nominal /\ Packet(setup') = Packet(setup)
  BY SMT, <1>1 DEF Nominal
<1>10. TypeOK'
  BY SMT, <1>1, <1>5, <1>7, <1>8, <1>9 DEF TypeOK
<1>. QED  BY SMT, <1>1, <1>6, <1>7, <1>9, <1>10 DEF Typed

(* Levels stay in the buffer, and no rate is further from the nominal one  *)
(* than its controller may ask for.                                        *)
THEOREM TypeCorrect == Spec => []TypeOK
<1>1. Typed => TypeOK
  BY SMT DEF Typed
<1>. QED  BY TypedInit, TypedStep, <1>1, PTL DEF Spec

-----------------------------------------------------------------------------
(* What the host hears                                                     *)

(* A word of 10.14 read back as 16.16 is the nearest it can be, up to 1024 *)
(* frames a packet; the other format loses nothing.                        *)
LEMMA WireRounds ==
  ASSUME NEW word \in Nat, word < 67108862
  PROVE  /\ OnWire(8, word) = word
         /\ OnWire(1, word) \in Nat /\ Abs(OnWire(1, word) - word) <= 2
<1>. DEFINE quarter == (word + 2) \div 4
<1>1. quarter \in Nat /\ quarter < 16777216 /\ 4 * quarter <= word + 2 /\ word - 2 < 4 * quarter
  BY SMT
<1>2. OnWire(1, word) = 4 * quarter
  <2>1. 2^24 = 16777216
    BY SMT
  <2>2. OnWire(1, word) = 4 * (quarter % 2^24)
    BY SMT DEF OnWire, to_bytes_10_14, to_u32_10_14
  <2>. HIDE DEF quarter
  <2>. QED  BY SMT, <1>1, <2>1, <2>2
<1>. HIDE DEF quarter
<1>3. 4 * quarter \in Nat /\ Abs(4 * quarter - word) <= 2
  BY SMT, <1>1 DEF Abs
<1>4. OnWire(8, word) = word
  BY SMT DEF OnWire, to_u32_12_13
<1>. QED  BY <1>2, <1>3, <1>4

Heard == Abs(sent - v) <= 2

(* The host hears the rate that feedback() asked for, to within two of     *)
(* 65536 parts of a frame, in all four setups: neither the rounding to     *)
(* 10.14 nor the cut to three bytes ever costs more.                       *)
THEOREM HeardAsTold == Spec => []Heard
<1>1. Init => Heard
  <2>. SUFFICES ASSUME Init PROVE Heard
    OBVIOUS
  <2>1. Nominal \in Nat
    BY SMT, Shapes DEF Shape, Init
  <2>. QED  BY SMT, <2>1 DEF Init, Heard, Abs
<1>2. Typed /\ Typed' /\ Heard /\ [Next]_vars => Heard'
  <2>. SUFFICES ASSUME Typed, Typed', Heard, [Next]_vars PROVE Heard'
    OBVIOUS
  <2>1. CASE UNCHANGED vars
    BY <2>1 DEF vars, Heard
  <2>2. CASE Next
    <3>1. setup' = setup /\ sent' = OnWire(setup.packets, v')
      BY <2>2 DEF Next, Millisecond, fixed
    <3>2. setup.packets \in {1, 8} /\ Nominal \in Nat /\ Nominal >= 393216 /\ Nominal <= 6291456
      BY SMT, Shapes DEF Shape, Typed
    <3>3. /\ v' \in Int
          /\ Abs(v' - Nominal) <= IF setup.name = "dma" THEN Nominal \div 500 ELSE 16384
      <4>1. Nominal' = Nominal
        BY <3>1 DEF Nominal
      <4>. QED  BY <3>1, <4>1 DEF Typed, TypeOK
    <3>. DEFINE word == v'
    <3>4. word \in Nat /\ word < 67108862
      <4>. DEFINE nominal == Nominal
                  deviation == IF setup.name = "dma" THEN nominal \div 500 ELSE 16384
      <4>1. /\ nominal \in Nat /\ nominal >= 393216 /\ nominal <= 6291456
            /\ word \in Int /\ Abs(word - nominal) <= deviation
        BY <3>2, <3>3
      <4>2. deviation \in Nat /\ deviation <= 16384
        <5>. HIDE DEF nominal
        <5>. QED  BY SMT, <4>1
      <4>. HIDE DEF nominal, word, deviation
      <4>. QED  BY SMT, <4>1, <4>2 DEF Abs
    <3>5. Abs(OnWire(setup.packets, word) - word) <= 2
      <4>. HIDE DEF word
      <4>. QED  BY SMT, <3>2, <3>4, WireRounds DEF Abs
    <3>. QED  BY <3>1, <3>5 DEF Heard
  <2>. QED  BY <2>1, <2>2
<1>. QED  BY TypedInit, TypedStep, <1>1, <1>2, PTL DEF Spec

-----------------------------------------------------------------------------
(* The correction works against the error.                                 *)

(* The setups whose products stay within 32 bits: not the DMA example on a *)
(* full-speed bus.                                                         *)
InWidth == Setups \subseteq {Example("dma", 8), Example("evk", 8), Example("evk", 1)}

LEMMA InWidthShapes ==
  ASSUME InWidth, setup \in Setups
  PROVE  \/ Shape("dma", 8, 96, 336, 192, 180, 786432)
         \/ Shape("evk", 8, 48, 256, 128, 0, 393216)
         \/ Shape("evk", 1, 48, 256, 128, 0, 3145728)
<1>1. setup \in {Example("dma", 8), Example("evk", 8), Example("evk", 1)}
  BY DEF InWidth
<1>2. CASE setup = Example("dma", 8)
  BY SMT, <1>2 DEF Shape, Example, Nominal, new_float, DmaCapacity, FILL_TARGET_BYTES,
                         BytesPerFrame
<1>3. CASE setup = Example("evk", 8) \/ setup = Example("evk", 1)
  BY SMT, <1>3 DEF Shape, Example, Nominal, new_float, FIFO_LENGTH
<1>. QED  BY SMT, <1>1, <1>2, <1>3

permille(frames) == Div((frames * BytesPerFrame - FILL_TARGET_BYTES) * 1000, FILL_TARGET_BYTES)

LEMMA ErrorSign ==
  ASSUME NEW frames \in Nat, frames <= 384
  PROVE  /\ permille(frames) \in Int
         /\ -1000 <= permille(frames) /\ permille(frames) <= 1000
         /\ frames >= 192 => permille(frames) >= 0
         /\ frames <= 192 => permille(frames) <= 0
BY SMT DEF permille, Div, BytesPerFrame, FILL_TARGET_BYTES

(* The proportional term without the wrapping product.                     *)
LEMMA TermExact ==
  ASSUME NEW error \in Int, -1000 <= error, error <= 1000,
         NEW nominal \in Nat, 1000 * nominal <= 2147483647
  PROVE  p_term(error, nominal) = Div(-(error * nominal), 256000)
<1>. DEFINE prod == error * nominal
<1>1. prod \in Int /\ -2147483648 <= prod /\ prod <= 2147483647
  <2>1. prod \in Int /\ -(1000 * nominal) <= prod /\ prod <= 1000 * nominal
    <3>1. nominal * (1000 - error) >= 0 /\ nominal * (1000 + error) >= 0
      BY SMT
    <3>2. /\ nominal * (1000 - error) = 1000 * nominal - prod
          /\ nominal * (1000 + error) = 1000 * nominal + prod
      BY SMT
    <3>. QED  BY SMT, <3>1, <3>2
  <2>. HIDE DEF prod
  <2>. QED  BY SMT, <2>1
<1>2. MulI32(error, nominal) = prod
  BY SMT, <1>1, MulExact
<1>. QED  BY SMT, <1>2 DEF p_term

LEMMA DmaOpposes ==
  ASSUME NEW frames \in Int, frames <= 384,
         NEW nominal \in Nat, 1000 * nominal <= 2147483647
  PROVE  /\ frames > 192 => DmaFeedback(frames, nominal) <= nominal
         /\ frames < 192 => DmaFeedback(frames, nominal) >= nominal
<1>. DEFINE error == permille(frames)
            prod == error * nominal
            term == Div(-prod, 256000)
            deviation == nominal \div 500
<1>. SUFFICES ASSUME frames >= 0
              PROVE  /\ frames > 192 => DmaFeedback(frames, nominal) <= nominal
                     /\ frames < 192 => DmaFeedback(frames, nominal) >= nominal
  <2>1. CASE frames < 0
    BY SMT, <2>1 DEF DmaFeedback
  <2>. QED  BY <2>1
<1>1. /\ error \in Int /\ -1000 <= error /\ error <= 1000
      /\ frames >= 192 => error >= 0
      /\ frames <= 192 => error <= 0
  BY SMT, ErrorSign
<1>2. prod \in Int /\ (error >= 0 => prod >= 0) /\ (error <= 0 => prod <= 0)
  <2>. HIDE DEF error
  <2>. QED  BY SMT, <1>1
<1>3. p_term(error, nominal) = term
  <2>. HIDE DEF error
  <2>. QED  BY SMT, <1>1, TermExact
<1>4. term \in Int /\ (prod >= 0 => term <= 0) /\ (prod <= 0 => term >= 0)
  <2>. HIDE DEF prod
  <2>. QED  BY SMT, <1>2, Quotient
<1>5. DmaFeedback(frames, nominal) =
        clamp(nominal + term, nominal - deviation, nominal + deviation)
  BY SMT, <1>3 DEF DmaFeedback, max_allowed_deviation, permille
<1>6. deviation \in Nat
  BY SMT
<1>. HIDE DEF error, prod, term, deviation
<1>. QED  BY SMT, <1>1, <1>2, <1>4, <1>5, <1>6 DEF clamp

LEMMA EvkOpposes ==
  ASSUME NEW frames \in Int, NEW nominal \in Nat
  PROVE  /\ frames > 128 => EvkFeedback(frames, nominal) <= nominal
         /\ frames < 128 => EvkFeedback(frames, nominal) >= nominal
BY SMT DEF EvkFeedback, clamp, p, parts, FIFO_LENGTH

(* feedback() sees at most a full ring and a packet.                       *)
LEMMA SeenBound ==
  ASSUME Typed, Next, InWidth, setup.name = "dma"
  PROVE  Seen \in Int /\ Seen <= 384
<1>1. /\ lead \in {0, Packet(setup)} /\ setup \in Setups /\ setup.name = "dma"
      /\ seen' = Seen /\ fill' = Level /\ setup' = setup
  BY DEF Typed, Next, Millisecond, fixed
<1>2. setup.capacity = 336 /\ setup.packets = 8 /\ setup.frames = 96
  BY SMT, <1>1, InWidthShapes DEF Shape
<1>3. lead \in {0, 12}
  BY SMT, <1>1, <1>2 DEF Packet
<1>4. Level \in 0..336
  <2>1. Typed'
    BY TypedStep
  <2>2. fill' \in 0..setup'.capacity
    BY <2>1 DEF Typed, TypeOK
  <2>. QED  BY <1>1, <1>2, <2>2
<1>5. Seen \in Int
  BY <1>1, TypedStep DEF Typed
<1>6. RanDry => Seen <= 384
  <2>1. RanDry => Left < 0 /\ Seen = Left + lead
    BY DEF RanDry, Seen
  <2>2. Left \in Int
    <3>1. setup \in Setups /\ fill \in Int /\ hostPart \in Int /\ clockPart \in Int /\ sent \in Int
          /\ drift \in Int
      BY SMT, <1>2, RateAssumption DEF Typed, TypeOK
    <3>2. ToSend \in Int /\ ToPlay \in Int
      BY SMT, <1>2, <3>1 DEF ToSend, ToPlay
    <3>. QED  BY SMT, <3>1, <3>2 DEF Left, Arriving
  <2>. QED  BY SMT, <1>3, <2>1, <2>2
<1>7. ~RanDry => Seen <= 384
  BY SMT, <1>3, <1>4 DEF Seen
<1>. QED  BY <1>5, <1>6, <1>7

LEMMA OpposesStep ==
  ASSUME Typed, Opposes, [Next]_vars, InWidth
  PROVE  Opposes'
<1>1. CASE UNCHANGED vars
  BY <1>1 DEF vars, fixed, Opposes, Nominal
<1>2. CASE Next
  <2>1. /\ setup' = setup /\ seen' = Seen /\ v' = feedback(Seen) /\ setup \in Setups
    BY <1>2 DEF Next, Millisecond, fixed, Typed
  <2>2. Nominal' = Nominal
    BY <2>1 DEF Nominal
  <2>3. Seen \in Int
    <3>1. Typed'
      BY <1>2, TypedStep
    <3>. QED  BY <2>1, <3>1 DEF Typed
  <2>4. CASE setup.name = "dma"
    <3>1. /\ setup.target = 192 /\ Nominal \in Nat /\ 1000 * Nominal <= 2147483647
      BY SMT, <2>1, <2>4, InWidthShapes DEF Shape
    <3>2. v' = DmaFeedback(Seen, Nominal)
      BY SMT, <2>1, <2>4 DEF feedback
    <3>3. Seen <= 384
      BY SMT, <1>2, <2>4, SeenBound
    <3>. DEFINE s == Seen
                n == Nominal
    <3>4. /\ s > 192 => DmaFeedback(s, n) <= n
          /\ s < 192 => DmaFeedback(s, n) >= n
      <4>1. s \in Int /\ s <= 384 /\ n \in Nat /\ 1000 * n <= 2147483647
        BY SMT, <2>3, <3>1, <3>3
      <4>. HIDE DEF s, n
      <4>. QED  BY SMT, <4>1, DmaOpposes
    <3>. QED  BY SMT, <2>1, <2>2, <3>1, <3>2, <3>4 DEF Opposes
  <2>5. CASE setup.name # "dma"
    <3>1. /\ setup.target = 128 /\ Nominal \in Nat
      BY SMT, <2>1, <2>5, InWidthShapes DEF Shape
    <3>2. v' = EvkFeedback(Seen, Nominal)
      BY SMT, <2>1, <2>5 DEF feedback
    <3>. DEFINE s == Seen
                n == Nominal
    <3>3. /\ s > 128 => EvkFeedback(s, n) <= n
          /\ s < 128 => EvkFeedback(s, n) >= n
      <4>1. s \in Int /\ n \in Nat
        BY SMT, <2>3, <3>1
      <4>. HIDE DEF s, n
      <4>. QED  BY SMT, <4>1, EvkOpposes
    <3>. QED  BY SMT, <2>1, <2>2, <3>1, <3>2, <3>3 DEF Opposes
  <2>. QED  BY <2>4, <2>5
<1>. QED  BY <1>1, <1>2

(* A level above the target never speeds the host up, one below never      *)
(* slows it down: for every drift and loss, on the buses where the         *)
(* products fit in 32 bits.                                                *)
THEOREM WorksAgainstError ==
  ASSUME InWidth
  PROVE  Spec => []Opposes
<1>1. Init => Opposes
  <2>1. ASSUME Init PROVE Nominal \in Nat /\ setup.target \in Nat
    BY SMT, <2>1, Shapes DEF Shape, Init
  <2>. QED  BY SMT, <2>1 DEF Init, Opposes
<1>2. Typed /\ Opposes /\ [Next]_vars => Opposes'
  BY OpposesStep
<1>. QED  BY TypedInit, TypedStep, <1>1, <1>2, PTL DEF Spec

-----------------------------------------------------------------------------
(* The ring of the DMA example, between empty and full                     *)

(* Its clocks are no further apart than two crystals at the edge of what   *)
(* a high-speed bus allows.                                                *)
BusClocks == InWidth /\ Drifts \subseteq -1000..1000

(* The level with its fractions, in a unit that is whole in both.          *)
Unit == 1024000000
FluidOf(frames, host, clock) == Unit * frames + 15625 * host - 1024 * clock
Fluid == FluidOf(fill, hostPart, clockPart)

(* From the warm start on the rate is the answer to the level.             *)
Answered ==
  /\ sent = v
  /\ \/ v = Nominal /\ fill = 180
     \/ v = DmaFeedback(fill + lead, Nominal)

(* Below the first line the correction outweighs any drift, until the lost *)
(* millisecond takes 97 frames; above the last one it does too.            *)
Held ==
  setup.name = "dma" =>
    /\ Answered
    /\ time <= lostAt => Fluid >= 129 * Unit
    /\ Fluid >= 31 * Unit
    /\ Fluid <= 243 * Unit

LEMMA Correction ==
  ASSUME NEW frames \in Nat, 0 < frames, frames <= 384
  PROVE  LET change == DmaFeedback(frames, 786432) - 786432
         IN  /\ DmaFeedback(frames, 786432) \in Nat
             /\ -1572 <= change /\ change <= 1572
             /\ frames <= 142 => change >= 787
             /\ frames >= 242 => change <= -787
<1>. DEFINE error == permille(frames)
            term == Div(-(error * 786432), 256000)
            answer == DmaFeedback(frames, 786432)
<1>1. /\ error \in Int /\ -1000 <= error /\ error <= 1000
      /\ frames <= 142 => error <= -260
      /\ frames >= 242 => error >= 260
  BY SMT DEF permille, Div, BytesPerFrame, FILL_TARGET_BYTES
<1>2. p_term(error, 786432) = term
  <2>. HIDE DEF error
  <2>. QED  BY SMT, <1>1, TermExact
<1>3. answer = clamp(786432 + term, 786432 - 1572, 786432 + 1572)
  <2>1. 786432 \div 500 = 1572
    BY SMT
  <2>. QED  BY SMT, <1>2, <2>1 DEF DmaFeedback, max_allowed_deviation, permille
<1>4. /\ term \in Int
      /\ error <= -260 => term >= 787
      /\ error >= 260 => term <= -787
  <2>. HIDE DEF error
  <2>. QED  BY SMT, <1>1 DEF Div
<1>. HIDE DEF error, term, answer
<1>5. /\ answer \in Nat
      /\ -1572 <= answer - 786432 /\ answer - 786432 <= 1572
      /\ frames <= 142 => answer - 786432 >= 787
      /\ frames >= 242 => answer - 786432 <= -787
  BY SMT, <1>1, <1>3, <1>4 DEF clamp
<1>. QED  BY SMT, <1>5 DEF answer

(* The fractions are less than a frame each.                               *)
LEMMA FluidBounds ==
  ASSUME NEW f \in Int, NEW h \in Nat, h < 65536, NEW c \in Nat, c < 1000000
  PROVE  /\ FluidOf(f, h, c) \in Int
         /\ Unit * (f - 1) < FluidOf(f, h, c) /\ FluidOf(f, h, c) < Unit * (f + 1)
BY SMT DEF FluidOf, Unit

LEMMA HeldInit == BusClocks /\ Init => Held
<1>. SUFFICES ASSUME InWidth, Init, setup.name = "dma"
     PROVE  /\ Answered
            /\ Fluid >= 129 * Unit /\ Fluid >= 31 * Unit /\ Fluid <= 243 * Unit
  BY DEF Held, BusClocks
<1>1. setup \in Setups
  BY DEF Init
<1>2. setup.start = 180
  BY SMT, <1>1, InWidthShapes DEF Shape
<1>3. Answered
  BY SMT, <1>2 DEF Answered, Init
<1>4. Fluid = 180 * Unit
  BY SMT, <1>2 DEF Init, Fluid, FluidOf, Unit
<1>. QED  BY SMT, <1>3, <1>4 DEF Unit

(* A ring that still holds 31 frames holds one and did not run dry.        *)
LEMMA HoldsSome ==
  ASSUME NEW f \in Int, NEW h \in Nat, h < 65536, NEW c \in Nat, c < 1000000
  PROVE  FluidOf(f, h, c) >= 31 * Unit => f > 0
<1>. DEFINE fluid == FluidOf(f, h, c)
<1>1. fluid \in Int /\ fluid < Unit * (f + 1)
  BY SMT, FluidBounds
<1>. HIDE DEF fluid
<1>2. fluid >= 31 * Unit => f > 0
  BY SMT, <1>1 DEF Unit
<1>. QED  BY <1>2 DEF fluid

LEMMA NotDry ==
  ASSUME BusClocks, Typed, Next, setup.name = "dma", Fluid' >= 31 * Unit
  PROVE  ~RanDry
<1>1. Typed' /\ fill' = Level /\ setup.capacity = 336
  BY SMT, TypedStep, InWidthShapes DEF Next, Millisecond, Typed, BusClocks, Shape
<1>2. fill' \in Int /\ hostPart' \in Nat /\ hostPart' < 65536
      /\ clockPart' \in Nat /\ clockPart' < 1000000
  <2>1. fill' \in 0..setup'.capacity /\ setup' = setup
    BY <1>1 DEF Typed, TypeOK, Next, Millisecond, fixed
  <2>2. fill' \in Int
    BY SMT, <1>1, <2>1
  <2>. QED  BY <1>1, <2>2 DEF Typed, TypeOK
<1>3. FluidOf(fill', hostPart', clockPart') >= 31 * Unit
  BY DEF Fluid
<1>4. fill' > 0
  BY <1>2, <1>3, HoldsSome
<1>5. ~(Left < 0)
  BY SMT, <1>1, <1>4 DEF Level, clamp
<1>. QED  BY <1>5 DEF RanDry

LEMMA HeldStep ==
  ASSUME BusClocks, Typed, Held, Next
  PROVE  Held'
<1>1. /\ setup' = setup /\ drift' = drift /\ lead' = lead /\ lostAt' = lostAt
      /\ time' = time + 1
      /\ hostPart' = ToSend % 65536 /\ clockPart' = ToPlay % 1000000
      /\ fill' = Level /\ v' = feedback(Seen) /\ sent' = OnWire(setup.packets, v')
  BY DEF Next, Millisecond, fixed
<1>. SUFFICES ASSUME setup.name = "dma"
     PROVE  /\ Answered'
            /\ time' <= lostAt' => Fluid' >= 129 * Unit
            /\ Fluid' >= 31 * Unit
            /\ Fluid' <= 243 * Unit
  BY <1>1 DEF Held
<1>2. InWidth /\ setup \in Setups /\ lead \in {0, Packet(setup)} /\ drift \in -1000..1000
  BY DEF BusClocks, Typed
<1>3. /\ setup.packets = 8 /\ setup.frames = 96 /\ setup.capacity = 336
      /\ Nominal = 786432 /\ lead \in {0, 12}
  <2>1. /\ setup.packets = 8 /\ setup.frames = 96 /\ setup.capacity = 336
        /\ Nominal = 786432
    BY SMT, <1>2, InWidthShapes DEF Shape
  <2>. QED  BY SMT, <1>2, <2>1 DEF Packet
<1>4. /\ fill \in Nat /\ fill <= 336
      /\ hostPart \in Nat /\ hostPart < 65536 /\ clockPart \in Nat /\ clockPart < 1000000
      /\ sent \in Nat
  BY SMT, <1>3 DEF Typed, TypeOK
<1>5. /\ Answered
      /\ time <= lostAt => Fluid >= 129 * Unit
      /\ Fluid >= 31 * Unit /\ Fluid <= 243 * Unit
  BY DEF Held
<1>6. /\ Fluid \in Int /\ Unit * (fill - 1) < Fluid /\ Fluid < Unit * (fill + 1)
      /\ 31 <= fill + 1
  <2>1. Fluid \in Int /\ Unit * (fill - 1) < Fluid /\ Fluid < Unit * (fill + 1)
    BY SMT, <1>4, FluidBounds DEF Fluid
  <2>. QED  BY SMT, <1>4, <1>5, <2>1 DEF Unit
<1>. DEFINE change == sent - 786432
<1>7. /\ change \in Int /\ -1572 <= change /\ change <= 1572
      /\ fill + lead <= 142 => change >= 787
      /\ fill + lead >= 242 => change <= -787
  <2>1. CASE v = Nominal /\ fill = 180
    BY SMT, <1>3, <1>5, <2>1 DEF Answered
  <2>2. CASE v = DmaFeedback(fill + lead, Nominal)
    <3>. DEFINE frames == fill + lead
    <3>1. frames \in Nat /\ 0 < frames /\ frames <= 384
      BY SMT, <1>3, <1>4, <1>6
    <3>2. sent = DmaFeedback(frames, 786432)
      BY SMT, <1>3, <1>5, <2>2 DEF Answered
    <3>3. /\ -1572 <= sent - 786432 /\ sent - 786432 <= 1572
          /\ frames <= 142 => sent - 786432 >= 787
          /\ frames >= 242 => sent - 786432 <= -787
      <4>. HIDE DEF frames
      <4>. QED  BY SMT, <3>1, <3>2, Correction
    <3>. QED  BY SMT, <1>4, <3>3
  <2>. QED  BY SMT, <1>5, <2>1, <2>2 DEF Answered
<1>. DEFINE wet == fill + ToSend \div 65536 - ToPlay \div 1000000
            dry == fill - ToPlay \div 1000000
<1>8. /\ FluidOf(wet, hostPart', clockPart') = Fluid + 125000 * change - 98304 * drift
      /\ FluidOf(dry, hostPart', clockPart')
            = Fluid + 15625 * (hostPart' - hostPart) - 98304 * (1000000 + drift)
  <2>. DEFINE come == ToSend
              go == ToPlay
  <2>1. /\ come = hostPart + 8 * sent /\ go = clockPart + 96 * (1000000 + drift)
        /\ drift \in Int
    BY SMT, <1>2, <1>3 DEF ToSend, ToPlay
  <2>2. come \in Int /\ go \in Int
    BY SMT, <1>4, <2>1
  <2>. HIDE DEF come, go
  <2>. DEFINE ci == come \div 65536
              cf == come % 65536
              gi == go \div 1000000
              gf == go % 1000000
  <2>3. /\ ci \in Int /\ cf \in Int /\ come = 65536 * ci + cf
        /\ gi \in Int /\ gf \in Int /\ go = 1000000 * gi + gf
    BY SMT, <2>2
  <2>4. /\ wet = fill + ci - gi /\ dry = fill - gi
        /\ hostPart' = cf /\ clockPart' = gf
    BY SMT, <1>1 DEF come, go
  <2>. HIDE DEF ci, cf, gi, gf, wet, dry
  <2>5. FluidOf(wet, hostPart', clockPart') = Fluid + 125000 * change - 98304 * drift
    BY SMT, <1>4, <2>1, <2>3, <2>4 DEF Fluid, FluidOf, Unit
  <2>6. FluidOf(dry, hostPart', clockPart')
          = Fluid + 15625 * (hostPart' - hostPart) - 98304 * (1000000 + drift)
    BY SMT, <1>4, <2>1, <2>3, <2>4 DEF Fluid, FluidOf, Unit
  <2>. QED  BY <2>5, <2>6
<1>9. /\ hostPart' \in Nat /\ hostPart' < 65536 /\ clockPart' \in Nat /\ clockPart' < 1000000
      /\ wet \in Int /\ dry \in Int
  <2>1. Typed'
    BY TypedStep
  <2>2. ToSend \in Int /\ ToPlay \in Int
    BY SMT, <1>2, <1>3, <1>4 DEF ToSend, ToPlay
  <2>. QED  BY SMT, <1>4, <2>1, <2>2 DEF Typed, TypeOK
<1>10. Level = clamp(IF time = lostAt THEN dry ELSE wet, 0, 336)
  <2>1. ToSend \div 65536 \in Int /\ ToPlay \div 1000000 \in Int
    <3>1. ToSend \in Int /\ ToPlay \in Int
      BY SMT, <1>2, <1>3, <1>4 DEF ToSend, ToPlay
    <3>. QED  BY SMT, <3>1
  <2>2. Left = IF time = lostAt THEN dry ELSE wet
    BY SMT, <1>4, <2>1 DEF Left, Arriving
  <2>. QED  BY SMT, <1>3, <2>2 DEF Level
<1>. HIDE DEF change, wet, dry
<1>11. drift \in Int /\ change \in Int
  BY SMT, <1>2, <1>7
<1>12. \/ fill + lead <= 142 /\ Fluid <= 143 * Unit
       \/ fill + lead >= 242 /\ Fluid >= 229 * Unit
       \/ Fluid > 130 * Unit /\ Fluid < 242 * Unit
  BY SMT, <1>3, <1>4, <1>6 DEF Unit
<1>13. ASSUME NEW level \in Int, Level = clamp(level, 0, 336),
              FluidOf(level, hostPart', clockPart') >= 31 * Unit,
              FluidOf(level, hostPart', clockPart') <= 243 * Unit
       PROVE  Fluid' = FluidOf(level, hostPart', clockPart')
  <2>. DEFINE fluid == FluidOf(level, hostPart', clockPart')
  <2>1. 0 <= level /\ level <= 336
    <3>1. fluid \in Int /\ Unit * (level - 1) < fluid /\ fluid < Unit * (level + 1)
      <4>. DEFINE h == hostPart'
                  c == clockPart'
      <4>1. h \in Nat /\ h < 65536 /\ c \in Nat /\ c < 1000000
        BY <1>9
      <4>. HIDE DEF h, c
      <4>2. /\ FluidOf(level, h, c) \in Int
            /\ Unit * (level - 1) < FluidOf(level, h, c)
            /\ FluidOf(level, h, c) < Unit * (level + 1)
        BY SMT, <4>1, FluidBounds
      <4>. QED  BY <4>2 DEF h, c
    <3>. HIDE DEF fluid
    <3>2. fluid >= 31 * Unit /\ fluid <= 243 * Unit
      BY <1>13 DEF fluid
    <3>. QED  BY SMT, <3>1, <3>2 DEF Unit
  <2>2. Level = level
    BY SMT, <1>13, <2>1 DEF clamp
  <2>. QED  BY SMT, <1>1, <2>2 DEF Fluid
<1>14. ASSUME time # lostAt
       PROVE  /\ Fluid' >= 31 * Unit /\ Fluid' <= 243 * Unit
              /\ time <= lostAt => Fluid' >= 129 * Unit
  <2>1. FluidOf(wet, hostPart', clockPart') >= 31 * Unit /\ FluidOf(wet, hostPart', clockPart') <= 243 * Unit
    BY SMT, <1>2, <1>5, <1>6, <1>7, <1>8, <1>11, <1>12 DEF Unit
  <2>2. time <= lostAt => FluidOf(wet, hostPart', clockPart') >= 129 * Unit
    BY SMT, <1>2, <1>5, <1>6, <1>7, <1>8, <1>11, <1>12 DEF Unit
  <2>3. Fluid' = FluidOf(wet, hostPart', clockPart')
    <3>1. Level = clamp(wet, 0, 336)
      BY SMT, <1>10, <1>14
    <3>. QED  BY SMT, <1>9, <1>13, <2>1, <3>1
  <2>. QED  BY SMT, <2>1, <2>2, <2>3
<1>15. ASSUME time = lostAt
       PROVE  Fluid' >= 31 * Unit /\ Fluid' <= 243 * Unit
  <2>1. FluidOf(dry, hostPart', clockPart') >= 31 * Unit /\ FluidOf(dry, hostPart', clockPart') <= 243 * Unit
    <3>. DEFINE h == hostPart'
                fluid == FluidOf(dry, hostPart', clockPart')
    <3>1. time <= lostAt
      BY SMT, <1>15 DEF Typed
    <3>2. Fluid \in Int /\ Fluid >= 129 * Unit /\ Fluid <= 243 * Unit
      BY <1>5, <1>6, <3>1
    <3>3. h \in Nat /\ h < 65536
      BY <1>9
    <3>4. fluid = Fluid + 15625 * (h - hostPart) - 98304 * (1000000 + drift)
      BY <1>8
    <3>. HIDE DEF h, fluid
    <3>5. drift \in Int /\ -1000 <= drift /\ drift <= 1000
      BY SMT, <1>2
    <3>6. fluid >= 31 * Unit /\ fluid <= 243 * Unit
      BY SMT, <1>4, <3>2, <3>3, <3>4, <3>5 DEF Unit
    <3>. QED  BY <3>6 DEF fluid
  <2>2. Fluid' = FluidOf(dry, hostPart', clockPart')
    <3>1. Level = clamp(dry, 0, 336)
      BY SMT, <1>10, <1>15
    <3>. QED  BY SMT, <1>9, <1>13, <2>1, <3>1
  <2>. QED  BY SMT, <2>1, <2>2
<1>16. Answered'
  <2>1. v' = DmaFeedback(Level + lead, Nominal)
    <3>1. ~RanDry
      BY <1>14, <1>15, NotDry
    <3>. QED  BY SMT, <1>1, <3>1 DEF feedback, Seen
  <2>2. sent' = v'
    BY SMT, <1>1, <1>3 DEF OnWire, to_u32_12_13
  <2>3. Nominal' = Nominal
    BY <1>1 DEF Nominal
  <2>. QED  BY SMT, <1>1, <2>1, <2>2, <2>3 DEF Answered
<1>17. time' <= lostAt' => time <= lostAt /\ time # lostAt
  BY SMT, <1>1 DEF Typed
<1>. QED  BY SMT, <1>14, <1>15, <1>16, <1>17

LEMMA HeldKept ==
  ASSUME BusClocks, Typed, Held, [Next]_vars
  PROVE  Held'
<1>1. CASE UNCHANGED vars
  BY <1>1 DEF vars, fixed, Held, Answered, Fluid, FluidOf, Nominal
<1>2. CASE Next
  BY <1>2, HeldStep
<1>. QED  BY <1>1, <1>2

(* A DMA ring that runs always has something to play and room for the next *)
(* packet in the slots the producer may use, on a high-speed bus, for      *)
(* every drift a pair of crystals can have and whichever millisecond is    *)
(* lost.  (At full speed the controller's products do not fit in 32 bits.) *)
THEOREM RingHolds ==
  ASSUME BusClocks
  PROVE  Spec => []InRing
<1>1. Typed /\ Held /\ [Next]_vars => Held'
  BY HeldKept
<1>2. Typed /\ Held => InRing
  <2>. SUFFICES ASSUME Typed, Held, setup.name = "dma"
       PROVE  fill > 0 /\ fill + Packet(setup) <= DmaSurelyTakes
    BY DEF InRing
  <2>1. setup.packets = 8 /\ setup.frames = 96 /\ setup.capacity = 336
    BY SMT, InWidthShapes DEF Shape, BusClocks, Typed
  <2>2. /\ fill \in Nat
        /\ hostPart \in Nat /\ hostPart < 65536 /\ clockPart \in Nat /\ clockPart < 1000000
    BY SMT, <2>1 DEF Typed, TypeOK
  <2>3. Fluid \in Int /\ Unit * (fill - 1) < Fluid /\ Fluid < Unit * (fill + 1)
    BY SMT, <2>2, FluidBounds DEF Fluid
  <2>4. Fluid >= 31 * Unit /\ Fluid <= 243 * Unit
    BY DEF Held
  <2>. QED  BY SMT, <2>1, <2>2, <2>3, <2>4 DEF Unit, Packet, DmaSurelyTakes
<1>. QED  BY TypedInit, TypedStep, HeldInit, <1>1, <1>2, PTL DEF Spec

-----------------------------------------------------------------------------
(* A disturbance passes.                                                   *)

(* A push of a controller that finds the level x frames above its target:  *)
(* against the error, by gain a frame but for a rounding, up to a cap.     *)
Answers(push, x, gain, noise, cap) ==
  /\ -768000000 <= push /\ push <= 768000000
  /\ x <= 0 => push >= gain * (-x) - noise \/ push >= cap
  /\ x >= 0 => push <= noise - gain * x \/ push <= -cap

(* In a millisecond a depth shrinks by 1/512 of itself and a bit, or by    *)
(* more than a drift can ever take; a level that is there stays.           *)
Nears(from, to) ==
  /\ from <= 0 => to <= 0
  /\ from > 0 => 512 * (from - to) >= from + 704000000 \/ from - to >= 98125000

(* Such a push, with whatever drift, brings the level back to a band of    *)
(* two frames and what the drift needs, and keeps it there.                *)
LEMMA DmaPull ==
  ASSUME NEW offset \in Int, NEW x \in Int,
         Unit * (x - 1) < offset, offset < Unit * (x + 1),
         NEW push \in Int, Answers(push, x, 2000000, 625000, 196500000),
         NEW d \in Int, -1000 <= d, d <= 1000,
         NEW band \in Int, band = 1024000 * (50 * Abs(d) + 2000)
  PROVE  /\ offset <= band => offset + push - 98304 * d <= band
         /\ Nears(-offset - band, -(offset + push - 98304 * d) - band)
BY SMT DEF Answers, Nears, Unit, Abs

LEMMA EvkPull ==
  ASSUME NEW offset \in Int, NEW x \in Int,
         Unit * (x - 1) < offset, offset < Unit * (x + 1),
         NEW push \in Int, Answers(push, x, 4000000, 0, 256000000),
         NEW d \in Int, -1000 <= d, d <= 1000,
         NEW band \in Int, band = 1024000 * (13 * Abs(d) + 2000)
  PROVE  /\ offset <= band => offset + push - 49152 * d <= band
         /\ Nears(-offset - band, -(offset + push - 49152 * d) - band)
BY SMT DEF Answers, Nears, Unit, Abs

(* The way back in legs: above from frames a depth shrinks by speed in a   *)
(* millisecond, and the legs after this one take left milliseconds.        *)
OnLeg(z, t, from, speed, left) == z <= from * Unit + speed * (3998 - left - t)

(* A depth that after t milliseconds can still be made up for in time.     *)
Timely(z, t) ==
  \/ z <= 0
  \/ OnLeg(z, t, 0, 1375000, 0)
  \/ OnLeg(z, t, 1, 3375000, 745)
  \/ OnLeg(z, t, 2, 5375000, 1049)
  \/ OnLeg(z, t, 4, 9375000, 1431)
  \/ OnLeg(z, t, 8, 17375000, 1868)
  \/ OnLeg(z, t, 16, 33375000, 2340)
  \/ OnLeg(z, t, 32, 65375000, 2831)
  \/ OnLeg(z, t, 48, 97375000, 3082)

(* A leg is followed to its end, and then the next one.                    *)
LEMMA Onward ==
  ASSUME NEW z \in Int, NEW z2 \in Int, NEW t \in Nat, Timely(z, t), Nears(z, z2)
  PROVE  Timely(z2, t + 1)
<1>1. CASE z <= 0
  BY SMT, <1>1 DEF Nears, Timely
<1>. SUFFICES ASSUME z > 0 PROVE Timely(z2, t + 1)
  BY <1>1
<1>2. ASSUME OnLeg(z, t, 0, 1375000, 0) PROVE Timely(z2, t + 1)
  <2>1. OnLeg(z2, t + 1, 0, 1375000, 0)
    BY SMT, <1>2 DEF OnLeg, Nears, Unit
  <2>. QED  BY <2>1 DEF Timely
<1>3. ASSUME OnLeg(z, t, 1, 3375000, 745) PROVE Timely(z2, t + 1)
  <2>1. \/ OnLeg(z2, t + 1, 1, 3375000, 745)
        \/ OnLeg(z, t, 0, 1375000, 0)
    BY SMT, <1>3 DEF OnLeg, Nears, Unit
  <2>. QED  BY <2>1, <1>2 DEF Timely
<1>4. ASSUME OnLeg(z, t, 2, 5375000, 1049) PROVE Timely(z2, t + 1)
  <2>1. \/ OnLeg(z2, t + 1, 2, 5375000, 1049)
        \/ OnLeg(z, t, 1, 3375000, 745)
    BY SMT, <1>4 DEF OnLeg, Nears, Unit
  <2>. QED  BY <2>1, <1>3 DEF Timely
<1>5. ASSUME OnLeg(z, t, 4, 9375000, 1431) PROVE Timely(z2, t + 1)
  <2>1. \/ OnLeg(z2, t + 1, 4, 9375000, 1431)
        \/ OnLeg(z, t, 2, 5375000, 1049)
    BY SMT, <1>5 DEF OnLeg, Nears, Unit
  <2>. QED  BY <2>1, <1>4 DEF Timely
<1>6. ASSUME OnLeg(z, t, 8, 17375000, 1868) PROVE Timely(z2, t + 1)
  <2>1. \/ OnLeg(z2, t + 1, 8, 17375000, 1868)
        \/ OnLeg(z, t, 4, 9375000, 1431)
    BY SMT, <1>6 DEF OnLeg, Nears, Unit
  <2>. QED  BY <2>1, <1>5 DEF Timely
<1>7. ASSUME OnLeg(z, t, 16, 33375000, 2340) PROVE Timely(z2, t + 1)
  <2>1. \/ OnLeg(z2, t + 1, 16, 33375000, 2340)
        \/ OnLeg(z, t, 8, 17375000, 1868)
    BY SMT, <1>7 DEF OnLeg, Nears, Unit
  <2>. QED  BY <2>1, <1>6 DEF Timely
<1>8. ASSUME OnLeg(z, t, 32, 65375000, 2831) PROVE Timely(z2, t + 1)
  <2>1. \/ OnLeg(z2, t + 1, 32, 65375000, 2831)
        \/ OnLeg(z, t, 16, 33375000, 2340)
    BY SMT, <1>8 DEF OnLeg, Nears, Unit
  <2>. QED  BY <2>1, <1>7 DEF Timely
<1>9. ASSUME OnLeg(z, t, 48, 97375000, 3082) PROVE Timely(z2, t + 1)
  <2>1. \/ OnLeg(z2, t + 1, 48, 97375000, 3082)
        \/ OnLeg(z, t, 32, 65375000, 2831)
    BY SMT, <1>9 DEF OnLeg, Nears, Unit
  <2>. QED  BY <2>1, <1>8 DEF Timely
<1>. QED  BY SMT, <1>2, <1>3, <1>4, <1>5, <1>6, <1>7, <1>8, <1>9 DEF Timely

(* Both controllers give such a push.                                      *)
LEMMA DmaAnswers ==
  ASSUME NEW frames \in Nat, 0 < frames, frames <= 384
  PROVE  Answers(125000 * (DmaFeedback(frames, 786432) - 786432), frames - 192,
                 2000000, 625000, 196500000)
<1>. DEFINE error == permille(frames)
            term == Div(-(error * 786432), 256000)
            answer == DmaFeedback(frames, 786432)
            x == frames - 192
<1>1. /\ error \in Int /\ -1000 <= error /\ error <= 1000
      /\ x >= 0 => 192 * error >= 1000 * x - 191 /\ error >= 0
      /\ x <= 0 => 192 * error <= 1000 * x + 191 /\ error <= 0
  BY SMT DEF permille, Div, BytesPerFrame, FILL_TARGET_BYTES
<1>2. p_term(error, 786432) = term
  <2>. HIDE DEF error
  <2>. QED  BY SMT, <1>1, TermExact
<1>3. answer = clamp(786432 + term, 786432 - 1572, 786432 + 1572)
  <2>1. 786432 \div 500 = 1572
    BY SMT
  <2>. QED  BY SMT, <1>2, <2>1 DEF DmaFeedback, max_allowed_deviation, permille
<1>4. /\ term \in Int
      /\ error >= 0 => 1000 * term <= 1000 - 3072 * error
      /\ error <= 0 => 1000 * term >= -3072 * error - 1000
  <2>. HIDE DEF error
  <2>. QED  BY SMT, <1>1 DEF Div
<1>5. x \in Int
  BY SMT
<1>. HIDE DEF error, term, x
<1>6. /\ term \in Int
      /\ x >= 0 => term <= 5 - 16 * x
      /\ x <= 0 => term >= -16 * x - 5
  BY SMT, <1>1, <1>4, <1>5
<1>7. answer \in Int /\ -1572 <= answer - 786432 /\ answer - 786432 <= 1572
      /\ (x >= 0 => answer - 786432 <= 5 - 16 * x \/ answer - 786432 <= -1572)
      /\ (x <= 0 => answer - 786432 >= -16 * x - 5 \/ answer - 786432 >= 1572)
  <2>. HIDE DEF answer
  <2>. QED  BY SMT, <1>3, <1>5, <1>6 DEF clamp
<1>. HIDE DEF answer
<1>8. Answers(125000 * (answer - 786432), x, 2000000, 625000, 196500000)
  BY SMT, <1>5, <1>7 DEF Answers
<1>. QED  BY <1>8 DEF answer, x

LEMMA EvkAnswers ==
  ASSUME NEW frames \in Nat
  PROVE  /\ Answers(125000 * (EvkFeedback(frames, 393216) - 393216), frames - 128,
                    4000000, 0, 256000000)
         /\ Answers(15625 * (EvkFeedback(frames, 3145728) - 3145728), frames - 128,
                    4000000, 0, 256000000)
         /\ OnWire(8, EvkFeedback(frames, 393216)) = EvkFeedback(frames, 393216)
         /\ OnWire(1, EvkFeedback(frames, 3145728)) = EvkFeedback(frames, 3145728)
<1>. DEFINE x == frames - 128
            high == clamp(x, -24, 24)
            full == clamp(x, -64, 64)
<1>1. x \in Int /\ high \in Int /\ full \in Int
  BY SMT DEF clamp
<1>2. EvkFeedback(frames, 393216) = 393216 - 256 * high
  <2>1. 393216 \div 65536 = 6
    BY SMT
  <2>. QED  BY SMT, <2>1 DEF EvkFeedback, parts, p, clamp, FIFO_LENGTH
<1>3. EvkFeedback(frames, 3145728) = 3145728 - 256 * full
  <2>1. 3145728 \div 65536 = 48
    BY SMT
  <2>. QED  BY SMT, <2>1 DEF EvkFeedback, parts, p, clamp, FIFO_LENGTH
<1>4. OnWire(1, 3145728 - 256 * full) = 3145728 - 256 * full
  <2>. DEFINE quarter == 786432 - 64 * full
  <2>1. quarter \in Nat /\ quarter < 16777216
    BY SMT, <1>1 DEF clamp
  <2>2. 3145728 - 256 * full = 4 * quarter
    BY SMT, <1>1
  <2>. HIDE DEF quarter
  <2>3. (4 * quarter + 2) \div 4 = quarter
    BY SMT, <2>1
  <2>4. quarter % 2^24 = quarter
    <3>1. 2^24 = 16777216
      BY SMT
    <3>. QED  BY SMT, <2>1, <3>1
  <2>. QED  BY SMT, <2>1, <2>2, <2>3, <2>4 DEF OnWire, to_bytes_10_14, to_u32_10_14
<1>5. OnWire(8, 393216 - 256 * high) = 393216 - 256 * high
  BY SMT DEF OnWire, to_u32_12_13
<1>6. Answers(-32000000 * high, x, 4000000, 0, 256000000)
  BY SMT, <1>1 DEF Answers, clamp
<1>7. Answers(-4000000 * full, x, 4000000, 0, 256000000)
  BY SMT, <1>1 DEF Answers, clamp
<1>. HIDE DEF high, full
<1>8. /\ 125000 * (393216 - 256 * high - 393216) = -32000000 * high
      /\ 15625 * (3145728 - 256 * full - 3145728) = -4000000 * full
  BY SMT, <1>1
<1>9. /\ Answers(125000 * (EvkFeedback(frames, 393216) - 393216), x, 4000000, 0, 256000000)
      /\ Answers(15625 * (EvkFeedback(frames, 3145728) - 3145728), x, 4000000, 0, 256000000)
  BY <1>2, <1>3, <1>6, <1>7, <1>8
<1>. QED  BY <1>2, <1>3, <1>4, <1>5, <1>9

(* A millisecond moves the level by what came less what was played.        *)
LEMMA Flow ==
  ASSUME NEW f \in Int, NEW come \in Int, NEW go \in Int
  PROVE  /\ FluidOf(f + come \div 65536 - go \div 1000000, come % 65536, go % 1000000)
              = Unit * f + 15625 * come - 1024 * go
         /\ FluidOf(f - go \div 1000000, come % 65536, go % 1000000)
              = Unit * f + 15625 * (come % 65536) - 1024 * go
<1>. DEFINE ci == come \div 65536
            cf == come % 65536
            gi == go \div 1000000
            gf == go % 1000000
<1>1. /\ ci \in Int /\ cf \in Int /\ come = 65536 * ci + cf
      /\ gi \in Int /\ gf \in Int /\ go = 1000000 * gi + gf
  BY SMT
<1>. HIDE DEF ci, cf, gi, gf
<1>2. /\ FluidOf(f + ci - gi, cf, gf) = Unit * f + 15625 * come - 1024 * go
      /\ FluidOf(f - gi, cf, gf) = Unit * f + 15625 * cf - 1024 * go
  BY SMT, <1>1 DEF FluidOf, Unit
<1>. QED  BY <1>2 DEF ci, cf, gi, gf

(* What a full or an empty buffer cuts off leaves a level at its end.      *)
Cut(whole, cut, capacity) ==
  /\ whole \in Int /\ cut \in Int
  /\ \/ cut = whole
     \/ whole <= cut /\ cut < Unit
     \/ cut <= whole /\ Unit * (capacity - 1) < cut
  /\ -Unit < cut

LEMMA Clipped ==
  ASSUME NEW level \in Int, NEW h \in Nat, h < 65536, NEW c \in Nat, c < 1000000,
         NEW capacity \in Nat
  PROVE  Cut(FluidOf(level, h, c), FluidOf(clamp(level, 0, capacity), h, c), capacity)
BY SMT DEF FluidOf, Unit, clamp, Cut

-----------------------------------------------------------------------------
(* The way back to the balance, of both examples                           *)

(* How far the level is above the target, fractions included; how far it   *)
(* may stay; how far it is below that; how long it has had.                *)
Offset == Fluid + Unit * (lead - setup.target)
Band == 1024000 * (Balance + 2000)
Depth == -Offset - Band
Elapsed == IF time <= lostAt THEN time ELSE time - lostAt - 1

(* The first rate is the nominal one, every other the answer to a level.   *)
Fresh ==
  /\ fill = setup.start /\ hostPart = 0 /\ clockPart = 0
  /\ sent = Nominal

Current ==
  /\ seen = fill + lead
  /\ sent = OnWire(setup.packets, feedback(seen))

(* Never above the band, and below it only for a time.                     *)
Returning ==
  /\ IF time = 0 THEN Fresh ELSE Current
  /\ Offset <= Band
  /\ Timely(Depth, Elapsed)
  /\ setup.name = "dma" /\ time <= lostAt => Depth <= 11 * Unit

(* The values of a state, as numbers.                                      *)
LEMMA Numbers ==
  ASSUME BusClocks, Typed
  PROVE  /\ drift \in Int /\ -1000 <= drift /\ drift <= 1000
         /\ \/ Shape("dma", 8, 96, 336, 192, 180, 786432) /\ lead \in {0, 12}
            \/ Shape("evk", 8, 48, 256, 128, 0, 393216) /\ lead \in {0, 6}
            \/ Shape("evk", 1, 48, 256, 128, 0, 3145728) /\ lead \in {0, 48}
         /\ fill \in Nat /\ fill <= setup.capacity
         /\ hostPart \in Nat /\ hostPart < 65536
         /\ clockPart \in Nat /\ clockPart < 1000000
         /\ sent \in Nat /\ seen \in Int
         /\ time \in Nat /\ lostAt \in Nat
<1>1. drift \in -1000..1000 /\ setup \in Setups /\ InWidth /\ lead \in {0, Packet(setup)}
  BY DEF BusClocks, Typed
<1>2. \/ Shape("dma", 8, 96, 336, 192, 180, 786432)
      \/ Shape("evk", 8, 48, 256, 128, 0, 393216)
      \/ Shape("evk", 1, 48, 256, 128, 0, 3145728)
  BY <1>1, InWidthShapes
<1>3. setup.capacity \in Nat
  BY SMT, <1>2 DEF Shape
<1>4. \/ Shape("dma", 8, 96, 336, 192, 180, 786432) /\ lead \in {0, 12}
      \/ Shape("evk", 8, 48, 256, 128, 0, 393216) /\ lead \in {0, 6}
      \/ Shape("evk", 1, 48, 256, 128, 0, 3145728) /\ lead \in {0, 48}
  BY SMT, <1>1, <1>2 DEF Shape, Packet
<1>. QED  BY SMT, <1>1, <1>3, <1>4 DEF Typed, TypeOK

(* Where a millisecond takes a level that no end of the buffer cuts off.   *)
Pushed == Offset + 15625 * setup.packets * (sent - Nominal) - 1024 * setup.frames * drift

(* What feedback() sees is within a frame of the level with its fractions. *)
LEMMA Near ==
  ASSUME BusClocks, Typed
  PROVE  /\ Fluid \in Int /\ Fluid < Unit * (fill + 1)
         /\ Offset \in Int
         /\ seen = fill + lead =>
              /\ Unit * (seen - setup.target - 1) < Offset
              /\ Offset < Unit * (seen - setup.target + 1)
<1>1. /\ Fluid \in Int /\ Unit * (fill - 1) < Fluid /\ Fluid < Unit * (fill + 1)
  <2>1. /\ fill \in Int
        /\ hostPart \in Nat /\ hostPart < 65536
        /\ clockPart \in Nat /\ clockPart < 1000000
    BY SMT, Numbers
  <2>. QED  BY SMT, <2>1, FluidBounds DEF Fluid
<1>2. fill \in Nat /\ lead \in Nat /\ setup.target \in Nat
  BY SMT, Numbers DEF Shape
<1>. QED  BY SMT, <1>1, <1>2 DEF Offset, Unit

LEMMA PushedNearer ==
  ASSUME BusClocks, Typed, Held, Current
  PROVE  /\ Offset <= Band => Pushed <= Band
         /\ Nears(Depth, -Pushed - Band)
<1>. DEFINE offset == Offset
            push == 15625 * setup.packets * (sent - Nominal)
            x == seen - setup.target
            d == drift
            band == Band
<1>1. /\ d \in Int /\ -1000 <= d /\ d <= 1000
      /\ seen \in Int /\ sent \in Nat /\ fill \in Nat
  BY Numbers
<1>2. CASE Shape("dma", 8, 96, 336, 192, 180, 786432) /\ lead \in {0, 12}
  <2>1. 0 < seen /\ seen <= 384
    <3>1. Fluid >= 31 * Unit /\ fill <= 336 /\ Fluid < Unit * (fill + 1)
      <4>1. setup.name = "dma" /\ setup.capacity = 336
        BY <1>2 DEF Shape
      <4>2. Fluid < Unit * (fill + 1)
        BY Near
      <4>. QED  BY SMT, <4>1, <4>2, Numbers DEF Held
    <3>2. seen = fill + lead
      BY DEF Current
    <3>3. Fluid \in Int
      BY Near
    <3>. QED  BY SMT, <1>1, <1>2, <3>1, <3>2, <3>3 DEF Unit
  <2>2. sent = DmaFeedback(seen, 786432)
    BY SMT, <1>2 DEF Current, Shape, feedback, OnWire, to_u32_12_13
  <2>3. push = 125000 * (DmaFeedback(seen, 786432) - 786432)
    BY SMT, <1>1, <1>2, <2>2 DEF Shape
  <2>4. x = seen - 192
    BY <1>2 DEF Shape
  <2>5. Answers(push, x, 2000000, 625000, 196500000)
    BY SMT, <1>1, <2>1, <2>3, <2>4, DmaAnswers
  <2>6. push \in Int /\ x \in Int
    BY SMT, <1>1, <1>2, <2>4 DEF Shape
  <2>7. band = 1024000 * (50 * Abs(d) + 2000) /\ band \in Int
    BY SMT, <1>1, <1>2 DEF Band, Balance, Shape, Abs
  <2>8. offset \in Int /\ Unit * (x - 1) < offset /\ offset < Unit * (x + 1)
    <3>1. seen = fill + lead
      BY DEF Current
    <3>. QED  BY <3>1, Near
  <2>9. Pushed = offset + push - 98304 * d
    BY SMT, <1>1, <1>2, <2>6, <2>8 DEF Pushed, Shape
  <2>. HIDE DEF offset, push, x, d, band
  <2>10. /\ offset <= band => offset + push - 98304 * d <= band
         /\ Nears(-offset - band, -(offset + push - 98304 * d) - band)
    BY SMT, <1>1, <2>5, <2>6, <2>7, <2>8, DmaPull
  <2>. QED  BY <2>9, <2>10 DEF Depth, offset, band
<1>3. CASE \/ Shape("evk", 8, 48, 256, 128, 0, 393216) /\ lead \in {0, 6}
           \/ Shape("evk", 1, 48, 256, 128, 0, 3145728) /\ lead \in {0, 48}
  <2>1. seen \in Nat
    BY SMT, <1>3 DEF Current, Typed, TypeOK
  <2>3. \/ push = 125000 * (EvkFeedback(seen, 393216) - 393216)
        \/ push = 15625 * (EvkFeedback(seen, 3145728) - 3145728)
    <3>1. ASSUME Shape("evk", 8, 48, 256, 128, 0, 393216)
          PROVE  push = 125000 * (EvkFeedback(seen, 393216) - 393216)
      <4>1. sent = EvkFeedback(seen, 393216)
        BY SMT, <1>1, <2>1, <3>1, EvkAnswers DEF Current, Shape, feedback
      <4>. QED  BY SMT, <1>1, <3>1, <4>1 DEF Shape
    <3>2. ASSUME Shape("evk", 1, 48, 256, 128, 0, 3145728)
          PROVE  push = 15625 * (EvkFeedback(seen, 3145728) - 3145728)
      <4>1. sent = EvkFeedback(seen, 3145728)
        BY SMT, <1>1, <2>1, <3>2, EvkAnswers DEF Current, Shape, feedback
      <4>. QED  BY SMT, <1>1, <3>2, <4>1 DEF Shape
    <3>. QED  BY <1>3, <3>1, <3>2
  <2>4. x = seen - 128
    BY <1>3 DEF Shape
  <2>5. Answers(push, x, 4000000, 0, 256000000)
    BY <1>1, <2>1, <2>3, <2>4, EvkAnswers
  <2>6. push \in Int /\ x \in Int
    BY SMT, <1>1, <1>3, <2>4 DEF Shape
  <2>7. band = 1024000 * (13 * Abs(d) + 2000) /\ band \in Int
    BY SMT, <1>1, <1>3 DEF Band, Balance, Shape, Abs
  <2>8. offset \in Int /\ Unit * (x - 1) < offset /\ offset < Unit * (x + 1)
    <3>1. seen = fill + lead
      BY DEF Current
    <3>. QED  BY <3>1, Near
  <2>9. Pushed = offset + push - 49152 * d
    BY SMT, <1>1, <1>3, <2>6, <2>8 DEF Pushed, Shape
  <2>. HIDE DEF offset, push, x, d, band
  <2>10. /\ offset <= band => offset + push - 49152 * d <= band
         /\ Nears(-offset - band, -(offset + push - 49152 * d) - band)
    BY SMT, <1>1, <2>5, <2>6, <2>7, <2>8, EvkPull
  <2>. QED  BY <2>9, <2>10 DEF Depth, offset, band
<1>. QED  BY <1>2, <1>3, Numbers

LEMMA Bands ==
  ASSUME BusClocks, Typed
  PROVE  /\ Offset \in Int /\ Band \in Int /\ Band >= 2 * Unit
         /\ Depth = -Offset - Band /\ Depth \in Int
         /\ Elapsed \in Nat
<1>1. Balance \in Nat
  <2>1. drift \in Int
    BY Numbers
  <2>. QED  BY SMT, <2>1 DEF Balance, Abs
<1>2. Band \in Int /\ Band >= 2 * Unit
  BY SMT, <1>1 DEF Band, Unit
<1>3. Offset \in Int
  BY Near
<1>4. Elapsed \in Nat
  BY SMT, Numbers DEF Elapsed
<1>. QED  BY SMT, <1>2, <1>3, <1>4 DEF Depth

LEMMA ReturningInit == BusClocks /\ Init => Returning
<1>. SUFFICES ASSUME BusClocks, Init PROVE Returning
  OBVIOUS
<1>1. Typed
  BY TypedInit
<1>2. /\ time = 0 /\ fill = setup.start /\ hostPart = 0 /\ clockPart = 0 /\ sent = Nominal
      /\ lostAt \in Nat
  <2>1. lostAt \in Nat
    BY <1>1, Numbers
  <2>. QED  BY <2>1 DEF Init
<1>3. Elapsed = 0
  BY SMT, <1>2 DEF Elapsed
<1>4. Offset \in Int /\ Band \in Int /\ Band >= 2 * Unit /\ Depth = -Offset - Band
  BY <1>1, Bands
<1>5. Fluid = Unit * setup.start
  <2>1. setup.start \in Nat
    BY SMT, <1>1, Numbers DEF Shape
  <2>. QED  BY SMT, <1>2, <2>1 DEF Fluid, FluidOf, Unit
<1>6. /\ Offset <= 0 /\ Offset >= -128 * Unit
      /\ setup.name = "dma" => Offset >= -12 * Unit
  BY SMT, <1>1, <1>5, Numbers DEF Shape, Offset, Unit
<1>7. Depth <= 126 * Unit /\ (setup.name = "dma" => Depth <= 11 * Unit)
  BY SMT, <1>4, <1>6 DEF Unit
<1>8. Timely(Depth, Elapsed)
  BY SMT, <1>3, <1>4, <1>7 DEF Timely, OnLeg, Unit
<1>9. Offset <= Band
  BY SMT, <1>4, <1>6 DEF Unit
<1>. QED  BY <1>2, <1>7, <1>8, <1>9 DEF Returning, Fresh

(* The levels after a millisecond whose packets came, and did not.         *)
LEMMA Moves ==
  ASSUME BusClocks, Typed, Next
  PROVE  \E level \in Int :
           LET moved == FluidOf(level, hostPart', clockPart') + Unit * (lead - setup.target)
           IN  /\ fill' = clamp(level, 0, setup.capacity)
               /\ time # lostAt => moved = Pushed
               /\ time = lostAt =>
                    /\ moved <= Offset
                    /\ setup.name = "dma" => moved >= Offset - 98 * Unit
<1>1. /\ hostPart' = ToSend % 65536 /\ clockPart' = ToPlay % 1000000 /\ fill' = Level
  BY DEF Next, Millisecond
<1>. DEFINE come == ToSend
            go == ToPlay
            wet == fill + come \div 65536 - go \div 1000000
            dry == fill - go \div 1000000
            ahead == Unit * (lead - setup.target)
            wetMoved == FluidOf(wet, hostPart', clockPart') + ahead
            dryMoved == FluidOf(dry, hostPart', clockPart') + ahead
<1>2. /\ fill \in Int /\ come \in Int /\ go \in Int /\ ahead \in Int
      /\ Unit * fill \in Int
      /\ hostPart \in Nat /\ hostPart < 65536
      /\ come = hostPart + setup.packets * sent
      /\ go = clockPart + setup.frames * (1000000 + drift)
  BY SMT, Numbers DEF ToSend, ToPlay, Shape, Unit
<1>3. /\ wetMoved = Unit * fill + 15625 * come - 1024 * go + ahead
      /\ dryMoved = Unit * fill + 15625 * (come % 65536) - 1024 * go + ahead
  <2>. HIDE DEF come, go, ahead
  <2>1. hostPart' = come % 65536 /\ clockPart' = go % 1000000
    BY <1>1 DEF come, go
  <2>. QED  BY <1>2, <2>1, Flow
<1>4. come \div 65536 \in Int /\ go \div 1000000 \in Int
      /\ come % 65536 \in Nat /\ come % 65536 < 65536
  <2>. HIDE DEF come, go
  <2>. QED  BY SMT, <1>2
<1>5. Offset = Unit * fill + 15625 * hostPart - 1024 * clockPart + ahead
  BY DEF Offset, Fluid, FluidOf
<1>6. wetMoved = Pushed
  <2>. DEFINE offset == Offset
  <2>1. /\ sent \in Int /\ drift \in Int /\ clockPart \in Int
        /\ \/ setup.packets = 8 /\ setup.frames = 96 /\ Nominal = 786432
           \/ setup.packets = 8 /\ setup.frames = 48 /\ Nominal = 393216
           \/ setup.packets = 1 /\ setup.frames = 48 /\ Nominal = 3145728
    BY SMT, Numbers DEF Shape
  <2>2. offset \in Int /\ offset = Unit * fill + 15625 * hostPart - 1024 * clockPart + ahead
    BY <1>5, Near
  <2>3. Pushed = offset + 15625 * setup.packets * (sent - Nominal) - 1024 * setup.frames * drift
    BY DEF Pushed
  <2>. HIDE DEF come, go, wet, wetMoved, ahead, offset
  <2>4. CASE setup.packets = 8 /\ setup.frames = 96 /\ Nominal = 786432
    BY SMT, <1>2, <1>3, <2>1, <2>2, <2>3, <2>4 DEF Unit
  <2>5. CASE setup.packets = 8 /\ setup.frames = 48 /\ Nominal = 393216
    BY SMT, <1>2, <1>3, <2>1, <2>2, <2>3, <2>5 DEF Unit
  <2>6. CASE setup.packets = 1 /\ setup.frames = 48 /\ Nominal = 3145728
    BY SMT, <1>2, <1>3, <2>1, <2>2, <2>3, <2>6 DEF Unit
  <2>. QED  BY <2>1, <2>4, <2>5, <2>6
<1>7. /\ dryMoved <= Offset
      /\ setup.name = "dma" => dryMoved >= Offset - 98 * Unit
  <2>. DEFINE rest == come % 65536
  <2>1. dryMoved = Unit * fill + 15625 * rest - 1024 * go + ahead /\ rest \in Nat /\ rest < 65536
    BY <1>3, <1>4
  <2>. HIDE DEF come, go, rest, dry, dryMoved, ahead
  <2>. QED  BY SMT, <1>2, <1>5, <2>1, Numbers DEF Shape, Unit
<1>8. /\ wet \in Int /\ dry \in Int
      /\ fill' = clamp(IF time = lostAt THEN dry ELSE wet, 0, setup.capacity)
  <2>. HIDE DEF come, go
  <2>1. /\ Level = clamp(fill + (IF time = lostAt THEN 0 ELSE come \div 65536) - go \div 1000000,
                         0, setup.capacity)
    BY DEF Level, Left, Arriving, come, go
  <2>. QED  BY SMT, <1>1, <1>2, <1>4, <2>1
<1>. HIDE DEF wet, dry
<1>9. CASE time = lostAt
  BY <1>7, <1>8, <1>9
<1>10. CASE time # lostAt
  BY <1>6, <1>8, <1>10
<1>. QED  BY <1>9, <1>10

(* From a depth no buffer exceeds, the way back fits in the time.          *)
LEMMA StillTimely ==
  ASSUME NEW z \in Int, z <= 127 * Unit, NEW t \in Nat, t <= 1
  PROVE  Timely(z, t)
BY SMT DEF Timely, OnLeg, Unit

LEMMA CurrentNext ==
  ASSUME BusClocks, Typed, Held, Next
  PROVE  Current'
<1>1. /\ setup' = setup /\ lead' = lead
      /\ fill' = Level /\ seen' = Seen /\ v' = feedback(Seen)
      /\ sent' = OnWire(setup.packets, v')
  BY DEF Next, Millisecond, fixed
<1>2. seen' = fill' + lead'
  <2>1. ~RanDry
    <3>1. CASE setup.name = "dma"
      <4>1. Fluid' >= 31 * Unit
        BY <1>1, <3>1, HeldStep DEF Held
      <4>. QED  BY <3>1, <4>1, NotDry
    <3>2. CASE setup.name # "dma"
      BY <3>2 DEF RanDry
    <3>. QED  BY <3>1, <3>2
  <2>. QED  BY <1>1, <2>1 DEF Seen
<1>3. sent' = OnWire(setup.packets, feedback(seen'))
  BY <1>1
<1>4. feedback(seen)' = feedback(seen')
  BY <1>1 DEF feedback, Nominal
<1>. QED  BY <1>1, <1>2, <1>3, <1>4 DEF Current

LEMMA ReturningStep ==
  ASSUME BusClocks, Typed, Held, Returning, Next
  PROVE  Returning'
<1>1. /\ setup' = setup /\ drift' = drift /\ lead' = lead /\ lostAt' = lostAt
      /\ time' = time + 1
  BY DEF Next, Millisecond, fixed
<1>2. PICK level \in Int :
        /\ fill' = clamp(level, 0, setup.capacity)
        /\ time # lostAt =>
             FluidOf(level, hostPart', clockPart') + Unit * (lead - setup.target) = Pushed
        /\ time = lostAt =>
             /\ FluidOf(level, hostPart', clockPart') + Unit * (lead - setup.target) <= Offset
             /\ setup.name = "dma" =>
                  FluidOf(level, hostPart', clockPart') + Unit * (lead - setup.target)
                    >= Offset - 98 * Unit
  BY Moves
<1>. DEFINE raw == FluidOf(level, hostPart', clockPart') + Unit * (lead - setup.target)
            got == Offset'
            band == Band
            z == Depth
            z2 == -got - band
            rawz == -raw - band
            dma == setup.name = "dma"
<1>3. Typed'
  BY TypedStep
<1>4. /\ Offset \in Int /\ band \in Int /\ band >= 2 * Unit
      /\ z = -Offset - band /\ z \in Int /\ Elapsed \in Nat
      /\ time \in Nat /\ lostAt \in Nat
  BY Bands, Numbers
<1>5. Band' = band /\ Depth' = z2
  <2>1. Band' = band
    BY <1>1 DEF Band, Balance
  <2>. QED  BY <2>1 DEF Depth
<1>6. /\ raw \in Int /\ got \in Int
      /\ raw <= band => got <= band
      /\ z2 <= rawz \/ z2 <= 0
      /\ ~dma => z2 <= 127 * Unit
  <2>. DEFINE h == hostPart'
              c == clockPart'
              ahead == lead
              target == setup.target
              capacity == setup.capacity
  <2>1. h \in Nat /\ h < 65536 /\ c \in Nat /\ c < 1000000
    BY SMT, <1>3 DEF Typed, TypeOK
  <2>2. /\ capacity \in Nat /\ target \in Nat /\ ahead \in Nat
        /\ 128 <= target /\ target < capacity /\ ahead <= 48
        /\ ~dma => target = 128
    BY SMT, Numbers DEF Shape
  <2>3. got = FluidOf(clamp(level, 0, capacity), h, c) + Unit * (ahead - target)
    BY <1>1, <1>2 DEF Offset, Fluid
  <2>4. raw = FluidOf(level, h, c) + Unit * (ahead - target)
    OBVIOUS
  <2>. DEFINE whole == FluidOf(level, h, c)
              cut == FluidOf(clamp(level, 0, capacity), h, c)
  <2>5. Cut(whole, cut, capacity)
    <3>1. level \in Int
      BY <1>2
    <3>. HIDE DEF h, c, capacity
    <3>. QED  BY SMT, <2>1, <2>2, <3>1, Clipped
  <2>6. raw = whole + Unit * (ahead - target) /\ got = cut + Unit * (ahead - target)
    BY <2>3, <2>4
  <2>. HIDE DEF h, c, ahead, target, capacity, got, raw, band, dma, whole, cut
  <2>. QED  BY SMT, <1>4, <2>2, <2>5, <2>6 DEF Unit, Cut
<1>7. /\ Offset <= band /\ Timely(z, Elapsed)
      /\ dma /\ time <= lostAt => z <= 11 * Unit
      /\ IF time = 0 THEN Fresh ELSE Current
  BY DEF Returning
<1>8. Elapsed' = IF time = lostAt THEN 0 ELSE Elapsed + 1
  BY SMT, <1>1, <1>4 DEF Elapsed
<1>9. ASSUME time = 0, time # lostAt
      PROVE  /\ raw <= band
             /\ rawz <= 127 * Unit
             /\ dma => rawz <= 11 * Unit
  <2>1. fill = setup.start /\ hostPart = 0 /\ clockPart = 0 /\ sent = Nominal /\ raw = Pushed
    BY <1>2, <1>7, <1>9 DEF Fresh
  <2>2. /\ Offset <= 0 /\ Offset >= -128 * Unit
        /\ dma => Offset >= -12 * Unit
    <3>1. Fluid = Unit * setup.start
      <4>1. setup.start \in Nat
        BY SMT, Numbers DEF Shape
      <4>. QED  BY SMT, <2>1, <4>1 DEF Fluid, FluidOf, Unit
    <3>. QED  BY SMT, <3>1, Numbers DEF Offset, Shape, Unit
  <2>3. Offset - 98304000 <= raw /\ raw <= Offset + 98304000
    <3>1. Pushed = Offset - 1024 * setup.frames * drift
      BY SMT, <1>4, <2>1, Numbers DEF Pushed, Shape
    <3>2. -98304000 <= 1024 * setup.frames * drift /\ 1024 * setup.frames * drift <= 98304000
      BY SMT, Numbers DEF Shape
    <3>3. drift \in Int /\ setup.frames \in Int
      BY SMT, Numbers DEF Shape
    <3>. DEFINE pace == 1024 * setup.frames * drift
    <3>4. pace \in Int
      BY SMT, <3>3
    <3>5. raw = Offset - pace
      BY <2>1, <3>1
    <3>. HIDE DEF raw, pace
    <3>6. raw \in Int
      BY <1>6
    <3>. QED  BY SMT, <1>4, <3>2, <3>4, <3>5, <3>6 DEF pace
  <2>. HIDE DEF raw, band, dma
  <2>. QED  BY SMT, <1>4, <1>6, <2>2, <2>3 DEF Unit
<1>10. ASSUME time # 0, time # lostAt
       PROVE  raw <= band /\ Nears(z, rawz)
  <2>1. Current
    BY <1>7, <1>10
  <2>2. raw = Pushed
    BY <1>2, <1>10
  <2>3. raw <= band
    BY <1>7, <2>1, <2>2, PushedNearer
  <2>4. Nears(Depth, -Pushed - Band)
    BY <2>1, PushedNearer
  <2>. QED  BY <2>2, <2>3, <2>4
<1>11. ASSUME time = lostAt
       PROVE  raw <= band /\ z2 <= 127 * Unit
  <2>1. raw <= Offset /\ (dma => raw >= Offset - 98 * Unit)
    BY <1>2, <1>11
  <2>2. dma => z <= 11 * Unit
    BY SMT, <1>4, <1>7, <1>11
  <2>. HIDE DEF raw, band, dma, got
  <2>. QED  BY SMT, <1>4, <1>6, <1>7, <2>1, <2>2 DEF Unit
<1>. HIDE DEF raw, band, dma, got
<1>12. got <= band
  BY <1>6, <1>9, <1>10, <1>11
<1>13. Timely(z2, Elapsed')
  <2>1. CASE time = lostAt
    BY SMT, <1>4, <1>6, <1>8, <1>11, <2>1, StillTimely
  <2>2. CASE time = 0 /\ time # lostAt
    <3>1. Elapsed' = 1
      BY SMT, <1>4, <1>8, <2>2 DEF Elapsed
    <3>2. z2 <= 127 * Unit
      BY SMT, <1>4, <1>6, <1>9, <2>2 DEF Unit
    <3>. QED  BY SMT, <1>4, <1>6, <3>1, <3>2, StillTimely
  <2>3. CASE time # 0 /\ time # lostAt
    <3>3. z \in Int /\ z2 \in Int /\ Elapsed \in Nat
      BY SMT, <1>4, <1>6
    <3>1. z2 <= 0 \/ Nears(z, z2)
      <4>1. Nears(z, rawz) /\ rawz \in Int
        BY SMT, <1>4, <1>6, <1>10, <2>3
      <4>2. z2 <= 0 \/ z2 <= rawz
        BY <1>6
      <4>. HIDE DEF z, z2, rawz
      <4>. QED  BY SMT, <1>4, <3>3, <4>1, <4>2 DEF Nears
    <3>2. Elapsed' = Elapsed + 1
      BY <1>8, <2>3
    <3>4. Timely(z2, Elapsed + 1)
      <4>1. CASE z2 <= 0
        BY <4>1 DEF Timely
      <4>2. CASE Nears(z, z2)
        <5>. HIDE DEF z, z2
        <5>. QED  BY <1>7, <3>3, <4>2, Onward
      <4>. QED  BY <3>1, <4>1, <4>2
    <3>. QED  BY <3>2, <3>4
  <2>. QED  BY <2>1, <2>2, <2>3
<1>14. dma /\ time' <= lostAt' => z2 <= 11 * Unit
  <2>. SUFFICES ASSUME dma, time + 1 <= lostAt PROVE z2 <= 11 * Unit
    BY <1>1
  <2>1. time # lostAt /\ time <= lostAt
    BY SMT, <1>4
  <2>2. CASE time = 0
    BY SMT, <1>4, <1>6, <1>9, <2>1, <2>2 DEF Unit
  <2>3. CASE time # 0
    <3>1. Nears(z, rawz) /\ z <= 11 * Unit
      BY <1>7, <1>10, <2>1, <2>3
    <3>. QED  BY SMT, <1>4, <1>6, <3>1 DEF Nears, Unit
  <2>. QED  BY <2>2, <2>3
<1>15. time' # 0
  BY SMT, <1>1, <1>4
<1>16. Current'
  BY CurrentNext
<1>17. dma' = dma
  BY <1>1 DEF dma
<1>. QED  BY <1>5, <1>12, <1>13, <1>14, <1>15, <1>16, <1>17 DEF Returning, got, dma

(* A level that comes back settles: from four seconds after the start or a *)
(* loss it is less than three frames from where the controller balances    *)
(* the drift, for every drift a pair of crystals can have and whichever    *)
(* millisecond is lost, on the buses where the products fit in 32 bits.    *)
THEOREM LevelSettles ==
  ASSUME BusClocks, Settling >= 4000
  PROVE  Spec => []Settles
<1>1. Typed /\ Held /\ [Next]_vars => Held'
  BY HeldKept
<1>2. Typed /\ Held /\ Returning /\ [Next]_vars => Returning'
  <2>1. CASE UNCHANGED vars
    <3>1. Returning /\ UNCHANGED vars => Returning'
      BY DEF vars, fixed, Returning, Fresh, Current, feedback, Nominal, Offset, Fluid, FluidOf,
             Band, Balance, Depth, Elapsed, Timely, OnLeg
    <3>. QED  BY <2>1, <3>1
  <2>2. CASE Next
    BY <2>2, ReturningStep
  <2>. QED  BY <2>1, <2>2
<1>3. Typed /\ Held /\ Returning => Settles
  <2>. SUFFICES ASSUME Typed, Returning, Quiet
       PROVE  1000 * Abs(seen - setup.target) < Balance + 3000
    BY DEF Settles
  <2>1. /\ Offset \in Int /\ Band \in Int /\ Band >= 2 * Unit
        /\ Depth = -Offset - Band /\ Depth \in Int /\ Elapsed \in Nat
        /\ time \in Nat /\ lostAt \in Nat
    BY Bands, Numbers
  <2>2. Settling \in Nat
    BY RateAssumption
  <2>3. Elapsed >= 3999 /\ time # 0
    BY SMT, <2>1, <2>2 DEF Quiet, Elapsed
  <2>4. Depth <= 0
    <3>1. Timely(Depth, Elapsed)
      BY DEF Returning
    <3>. QED  BY SMT, <2>1, <2>3, <3>1 DEF Timely, OnLeg, Unit
  <2>5. Offset <= Band /\ Current
    BY <2>3 DEF Returning
  <2>6. /\ Unit * (seen - setup.target - 1) < Offset
        /\ Offset < Unit * (seen - setup.target + 1)
    <3>1. seen = fill + lead
      BY <2>5 DEF Current
    <3>. QED  BY <3>1, Near
  <2>7. seen \in Int /\ setup.target \in Nat /\ Balance \in Nat
    BY SMT, Numbers DEF Shape, Balance, Abs
  <2>. QED  BY SMT, <2>1, <2>4, <2>5, <2>6, <2>7 DEF Band, Abs, Unit
<1>. QED  BY TypedInit, TypedStep, HeldInit, ReturningInit, <1>1, <1>2, <1>3, PTL DEF Spec
=============================================================================
