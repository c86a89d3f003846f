------------------------- MODULE UsbAudioClassProofs -------------------------
(***************************************************************************)
(* Theorems about UsbAudioClass for every configuration: any requests a    *)
(* host can form, any packet sizes, rates, handlers and clocks.            *)
(*                                                                         *)
(* IInv is the inductive invariant.  CycleAlive alone is not inductive: a  *)
(* request that finds its setting stored starts no cycle, so what is       *)
(* stored must be known to be what the handler runs at unless the handler  *)
(* is stopped (StaleOnlyWhileStopped).                                     *)
(***************************************************************************)
EXTENDS UsbAudioClass, TLAPS

IInv ==
  /\ TypeOK
  /\ HostAgreesHandler
  /\ StaleOnlyWhileStopped
  /\ CycleAlive
  /\ SpinOnlyIdle
  /\ NominalIsClock

(* The cast to u8 of a request field is a byte.                            *)
LEMMA LowByteType == \A n \in Nat : LowByte(n) \in Settings
  <1> TAKE n \in Nat
  <1>1. n % 256 \in 0..255
    OBVIOUS
  <1> QED
    BY <1>1 DEF LowByte, Settings, U8

(* A 16-bit request field is a natural number.                             *)
LEMMA WordType == \A n \in U16 : n \in Nat
  BY DEF U16

(* A request names settings and interfaces in bytes and a rate in play.    *)
LEMMA RequestTypes ==
  ASSUME NEW req \in HostRequests
  PROVE  /\ LowByte(req.value) \in Settings
         /\ LowByte(req.index) \in Settings
         /\ req.data \in RateData
  <1>1. req \in Request
    BY ClassAssumption DEF ClassAssumption
  <1>2. req.value \in U16 /\ req.index \in U16
    BY <1>1 DEF Request
  <1>3. req.data \in RateData
    BY <1>1 DEF Request
  <1>4. req.value \in Nat /\ req.index \in Nat
    BY <1>2, WordType
  <1> QED
    BY <1>3, <1>4, LowByteType

(* The endpoint size is a number whatever the rates and frames.            *)
LEMMA SizeType == MaxPacketSize \in Nat
  <1>1. AudioRate \in Nat \ {0} /\ BytesPerFrame \in Nat \ {0} /\ MaxRate \in Nat
    BY ClassAssumption DEF ClassAssumption
  <1>2. CeilDiv(MaxRate, AudioRate) \in Int
    BY <1>1 DEF CeilDiv
  <1>3. (CeilDiv(MaxRate, AudioRate) + 1) * BytesPerFrame \in Int
    BY <1>1, <1>2
  <1> QED
    BY <1>3 DEF MaxPacketSize

-----------------------------------------------------------------------------
(* One lemma per kind of step.                                             *)

(* The device starts with every stream stopped.                            *)
LEMMA InitIInv == Init => IInv
  <1> SUFFICES ASSUME Init PROVE IInv
    OBVIOUS
  <1>1. InitRate \in Rates /\ 0 \in Settings
    BY ClassAssumption DEF ClassAssumption, Settings, U8
  <1>2. TypeOK
    BY <1>1, Zenon DEF Init, TypeOK
  <1>3. HostAgreesHandler /\ StaleOnlyWhileStopped /\ CycleAlive
    BY DEF Init, HostAgreesHandler, StaleOnlyWhileStopped, CycleAlive
  <1>4. SpinOnlyIdle /\ NominalIsClock
    BY DEF Init, SpinOnlyIdle, NominalIsClock
  <1> QED
    BY <1>2, <1>3, <1>4 DEF IInv

(* Filling an endpoint never empties it, and fills it when the handler     *)
(* always has a packet.                                                    *)
LEMMA FillFacts ==
  ASSUME TypeOK, NEW d \in Dirs, Fill(d)
  PROVE  /\ queued' \in [Dirs -> BOOLEAN]
         /\ \A e \in Dirs : queued[e] => queued'[e]
         /\ \A e \in Dirs : e # d => queued'[e] = queued[e]
         /\ d \notin MayDecline => queued'[d]
  <1>1. PICK g \in Answers(d) : queued' = [queued EXCEPT ![d] = @ \/ g]
    BY DEF Fill
  <1>2. g \in BOOLEAN /\ (d \notin MayDecline => g = TRUE)
    BY <1>1 DEF Answers
  <1> QED
    BY <1>1, <1>2 DEF TypeOK

(* Kicking off a cycle is filling its endpoint.                            *)
LEMMA KickFacts ==
  ASSUME NEW d \in Dirs, Kick(d)
  PROVE  Fill(d)
  BY DEF Kick, audio_data_tx, emit_feedback, Dirs

(* SET_INTERFACE.  A repeated setting changes nothing at all: a stored 0   *)
(* means a stopped handler, so the host had nothing selected either.       *)
LEMMA SettingStep ==
  ASSUME IInv, ~spinning, NEW req \in HostRequests, set_alt_interface(req)
  PROVE  IInv'
  <1> DEFINE d == OwnerOf(LowByte(req.index))
             a == LowByte(req.value)
  <1>1. d \in Streams /\ d \in Dirs /\ a \in Settings /\ 0 \in Settings
    BY RequestTypes DEF set_alt_interface, Streams, Settings, U8
  <1>2. TypeOK /\ HostAgreesHandler /\ StaleOnlyWhileStopped /\ CycleAlive /\ NominalIsClock
    BY DEF IInv
  <1>3. UNCHANGED <<nominal, rate, complete, outPkt, spinning>>
    BY DEF set_alt_interface
  <1>4. SpinOnlyIdle' /\ NominalIsClock'
    BY <1>2, <1>3 DEF SpinOnlyIdle, NominalIsClock
  <1>5. CASE ChangeSetting(d, a)
    <2>1. /\ told' = [told EXCEPT ![d] = a]
          /\ alt' = [alt EXCEPT ![d] = a]
          /\ selected' = [selected EXCEPT ![d] = a]
      BY <1>5 DEF ChangeSetting, StoreSetting
    <2>2. /\ queued' \in [Dirs -> BOOLEAN]
          /\ \A e \in Dirs : queued[e] => queued'[e]
          /\ \A e \in Dirs : e # d => queued'[e] = queued[e]
          /\ d \notin MayDecline => queued'[d]
      BY <1>1, <1>2, <1>5, KickFacts, FillFacts DEF ChangeSetting
    <2>3. TypeOK'
      BY <1>1, <1>2, <1>3, <2>1, <2>2, Zenon DEF TypeOK
    <2>4. HostAgreesHandler' /\ StaleOnlyWhileStopped'
      BY <1>1, <1>2, <2>1 DEF TypeOK, HostAgreesHandler, StaleOnlyWhileStopped
    <2>5. CycleAlive'
      BY <1>1, <1>2, <1>3, <2>1, <2>2, Zenon DEF TypeOK, CycleAlive
    <2> QED
      BY <1>4, <2>3, <2>4, <2>5 DEF IInv
  <1>6. CASE KeepSetting(d, a)
    <2>1. UNCHANGED <<alt, told, queued>>
      BY <1>6 DEF KeepSetting
    <2>2. a = 0 => selected[d] = 0
      BY <1>1, <1>2, <1>6 DEF KeepSetting, HostAgreesHandler, StaleOnlyWhileStopped
    <2>3. selected' = selected
      BY <1>1, <1>2, <1>6, <2>2 DEF KeepSetting, StackDefault, TypeOK
    <2> QED
      BY <1>2, <1>3, <1>4, <2>1, <2>3
      DEF IInv, TypeOK, HostAgreesHandler, StaleOnlyWhileStopped, CycleAlive
  <1> QED
    BY <1>5, <1>6 DEF set_alt_interface

(* SET CUR of the clock.                                                   *)
LEMMA ClockStep ==
  ASSUME IInv, ~spinning, NEW req \in HostRequests, set_clock_cur(req)
  PROVE  IInv'
  <1>1. UNCHANGED <<alt, told, selected, queued, complete, outPkt, spinning>>
    BY DEF set_clock_cur, busVars
  <1>2. nominal' \in Rates /\ rate' \in Rates /\ NominalIsClock'
    <2>1. CASE SetRate(req)
      <3>1. req.data \in Rates
        BY <2>1, RequestTypes DEF SetRate, RateData
      <3>2. nominal' = req.data /\ rate' \in {req.data, rate}
        BY <2>1 DEF SetRate, SetNominal
      <3>3. ~RateMayFail => rate' = req.data
        BY <2>1 DEF SetRate
      <3> QED
        BY <3>1, <3>2, <3>3 DEF IInv, TypeOK, NominalIsClock
    <2>2. CASE UNCHANGED <<nominal, rate>>
      BY <2>2 DEF IInv, TypeOK, NominalIsClock
    <2> QED
      BY <2>1, <2>2 DEF set_clock_cur
  <1> QED
    BY <1>1, <1>2
    DEF IInv, TypeOK, HostAgreesHandler, StaleOnlyWhileStopped, CycleAlive, SpinOnlyIdle

(* A completion asks for the next packet: the cycle of a handler that      *)
(* always has one goes on.                                                 *)
LEMMA CompleteStep ==
  ASSUME IInv, NEW d \in Dirs, endpoint_in_complete(d)
  PROVE  IInv'
  <1>1. /\ UNCHANGED <<alt, nominal, told, rate, selected, outPkt, spinning>>
        /\ complete' = [complete EXCEPT ![d] = FALSE]
        /\ complete[d] /\ ~spinning
    BY DEF endpoint_in_complete, classVars, handlerVars
  <1>2. TypeOK /\ CycleAlive
    BY DEF IInv
  <1>3. Fill(d)
    BY DEF endpoint_in_complete, emit_feedback, audio_data_tx, Dirs
  <1>4. /\ queued' \in [Dirs -> BOOLEAN]
        /\ \A e \in Dirs : queued[e] => queued'[e]
        /\ \A e \in Dirs : e # d => queued'[e] = queued[e]
        /\ d \notin MayDecline => queued'[d]
    BY <1>2, <1>3, FillFacts
  <1>5. d \in Streams
    BY <1>1, <1>2 DEF TypeOK
  <1>6. TypeOK'
    BY <1>1, <1>2, <1>4, <1>5, Zenon DEF TypeOK
  <1>7. CycleAlive'
    BY <1>1, <1>2, <1>4, Zenon DEF TypeOK, CycleAlive
  <1> QED
    BY <1>1, <1>6, <1>7
    DEF IInv, HostAgreesHandler, StaleOnlyWhileStopped, SpinOnlyIdle, NominalIsClock

(* poll() spins only on a packet larger than its buffer, so only where the *)
(* endpoint was allocated larger.                                          *)
LEMMA PollStep ==
  ASSUME IInv, poll
  PROVE  IInv'
  <1>1. /\ UNCHANGED <<alt, nominal, told, rate, selected, queued, complete>>
        /\ spinning' = (Idle /\ Unreadable)
        /\ outPkt' \in {outPkt, NoPacket}
    BY DEF poll, classVars, handlerVars
  <1>2. TypeOK /\ StaleOnlyWhileStopped
    BY DEF IInv
  <1>3. TypeOK'
    <2>1. spinning' \in BOOLEAN
      BY <1>1
    <2> QED
      BY <1>1, <1>2, <2>1 DEF TypeOK
  <1>4. SpinOnlyIdle'
    <2> SUFFICES ASSUME Idle, Unreadable
                 PROVE  told = [d \in Dirs |-> 0] /\ ReadBuf < MaxPacketSize /\ DriverKeeps
      BY <1>1 DEF SpinOnlyIdle
    <2>1. told = [d \in Dirs |-> 0]
      BY <1>2 DEF Idle, TypeOK, StaleOnlyWhileStopped
    <2>2. outPkt > ReadBuf /\ DriverKeeps
      BY DEF Unreadable
    <2>3. outPkt \in 0..MaxPacketSize
      <3>1. outPkt # NoPacket
        BY <2>2 DEF NoPacket, ReadBuf
      <3> QED
        BY <1>2, <3>1, PacketAssumption DEF TypeOK, PacketAssumption
    <2> QED
      BY <2>1, <2>2, <2>3, SizeType DEF ReadBuf
  <1> QED
    BY <1>1, <1>3, <1>4
    DEF IInv, HostAgreesHandler, StaleOnlyWhileStopped, CycleAlive, NominalIsClock

(* A bus reset stops every stream, so nothing has to be primed.            *)
LEMMA ResetStep ==
  ASSUME IInv, reset
  PROVE  IInv'
  <1>1. /\ told' = [d \in Dirs |-> 0] /\ selected' = [d \in Dirs |-> 0]
        /\ queued' = [d \in Dirs |-> FALSE] /\ complete' = [d \in Dirs |-> FALSE]
        /\ outPkt' = NoPacket /\ ~spinning
        /\ UNCHANGED <<alt, nominal, rate, spinning>>
    BY DEF reset, StopBoth, classVars
  <1>2. 0 \in Settings
    BY DEF Settings, U8
  <1>3. TypeOK'
    BY <1>1, <1>2, Zenon DEF IInv, TypeOK
  <1>4. HostAgreesHandler' /\ StaleOnlyWhileStopped' /\ CycleAlive'
    BY <1>1 DEF HostAgreesHandler, StaleOnlyWhileStopped, CycleAlive
  <1> QED
    BY <1>1, <1>3, <1>4 DEF IInv, SpinOnlyIdle, NominalIsClock

(* The steps of host and hardware.                                         *)
LEMMA EnvironmentStep ==
  ASSUME IInv, Environment
  PROVE  IInv'
  <1>1. ASSUME NEW d \in Dirs, HostTakesIn(d) PROVE IInv'
    <2>1. /\ UNCHANGED <<alt, nominal, told, rate, selected, outPkt, spinning>>
          /\ queued[d]
          /\ queued' = [queued EXCEPT ![d] = FALSE]
          /\ complete' = [complete EXCEPT ![d] = TRUE]
      BY <1>1 DEF HostTakesIn, classVars, handlerVars
    <2>2. d \in Streams
      BY <1>1, <2>1 DEF IInv, TypeOK
    <2>3. TypeOK'
      BY <1>1, <2>1, <2>2, Zenon DEF IInv, TypeOK
    <2>4. CycleAlive'
      BY <1>1, <2>1, Zenon DEF IInv, TypeOK, CycleAlive
    <2> QED
      BY <2>1, <2>3, <2>4
      DEF IInv, HostAgreesHandler, StaleOnlyWhileStopped, SpinOnlyIdle, NominalIsClock
  <1>2. ASSUME NEW len \in PacketLens, HostSendsOut(len) PROVE IInv'
    BY <1>2
    DEF HostSendsOut, classVars, handlerVars, IInv, TypeOK, HostAgreesHandler,
        StaleOnlyWhileStopped, CycleAlive, SpinOnlyIdle, NominalIsClock
  <1>3. ASSUME NEW r \in Rates, ClockMoves(r) PROVE IInv'
    BY <1>3
    DEF ClockMoves, classVars, busVars, IInv, TypeOK, HostAgreesHandler,
        StaleOnlyWhileStopped, CycleAlive, SpinOnlyIdle, NominalIsClock
  <1> QED
    BY <1>1, <1>2, <1>3 DEF Environment

(* A step that leaves everything but the OUT packet as it is.              *)
LEMMA QuietStep ==
  ASSUME IInv, UNCHANGED <<classVars, handlerVars, selected, queued, complete, spinning>>,
         outPkt' \in {NoPacket, outPkt}
  PROVE  IInv'
  BY DEF classVars, handlerVars, IInv, TypeOK, HostAgreesHandler,
         StaleOnlyWhileStopped, CycleAlive, SpinOnlyIdle, NominalIsClock

(* Every step, the device's or the host's, keeps the invariant.            *)
THEOREM Inductive == IInv /\ [Next]_vars => IInv'
  <1> SUFFICES ASSUME IInv, [Next]_vars PROVE IInv'
    OBVIOUS
  <1>1. ASSUME NEW req \in HostRequests, control_out(req) PROVE IInv'
    <2>1. ~spinning
      BY <1>1 DEF control_out
    <2>2. CASE set_alt_interface(req)
      BY <2>1, <2>2, SettingStep
    <2>3. CASE set_clock_cur(req)
      BY <2>1, <2>3, ClockStep
    <2>4. CASE UnhandledOut(req)
      BY <2>4, QuietStep DEF UnhandledOut, busVars
    <2> QED
      BY <1>1, <2>2, <2>3, <2>4 DEF control_out
  <1>2. ASSUME NEW req \in HostRequests, control_in(req) PROVE IInv'
    BY <1>2, QuietStep DEF control_in, busVars
  <1>3. CASE endpoint_out \/ read
    BY <1>3, QuietStep DEF endpoint_out, read
  <1>4. ASSUME NEW d \in Dirs, endpoint_in_complete(d) PROVE IInv'
    BY <1>4, CompleteStep
  <1>5. CASE poll
    BY <1>5, PollStep
  <1>6. CASE reset
    BY <1>6, ResetStep
  <1>7. CASE Environment
    BY <1>7, EnvironmentStep
  <1>8. CASE UNCHANGED vars
    BY <1>8, QuietStep DEF vars, classVars, handlerVars
  <1> QED
    BY <1>1, <1>2, <1>3, <1>4, <1>5, <1>6, <1>7, <1>8 DEF Next, Device

-----------------------------------------------------------------------------
(* Theorems                                                                *)

(* The inductive invariant holds in every reachable state.                 *)
THEOREM Invariance == Spec => []IInv
  <1>1. Init => IInv
    BY InitIInv
  <1>2. IInv /\ [Next]_vars => IInv'
    BY Inductive
  <1> QED
    BY <1>1, <1>2, PTL DEF Spec

(* Every setting, rate, endpoint and packet has its type; a stream that    *)
(* was not built never runs.                                               *)
THEOREM TypeCorrect == Spec => []TypeOK
  <1>1. IInv => TypeOK
    BY DEF IInv
  <1> QED
    BY <1>1, Invariance, PTL

(* Host and handler agree on the setting of each stream, for every         *)
(* sequence of control requests and resets.                                *)
THEOREM Agreement == Spec => []HostAgreesHandler
  <1>1. IInv => HostAgreesHandler
    BY DEF IInv
  <1> QED
    BY <1>1, Invariance, PTL

(* The class disagrees with them only about a stopped stream: after a      *)
(* reset it may still hold the setting of a stream nobody runs.            *)
THEOREM ClassLags == Spec => []StaleOnlyWhileStopped
  <1>1. IInv => StaleOnlyWhileStopped
    BY DEF IInv
  <1> QED
    BY <1>1, Invariance, PTL

(* A running stream whose handler always has a packet never loses its      *)
(* IN cycle.                                                               *)
THEOREM NeverStarved == Spec => []CycleAlive
  <1>1. IInv => CycleAlive
    BY DEF IInv
  <1> QED
    BY <1>1, Invariance, PTL

(* poll() returns whenever a stream runs or its buffer fits the endpoint.  *)
THEOREM PollReturns == Spec => []SpinOnlyIdle
  <1>1. IInv => SpinOnlyIdle
    BY DEF IInv
  <1> QED
    BY <1>1, Invariance, PTL

(* The nominal rate is the clock's, with a clock that obeys and holds.     *)
THEOREM NominalTracksClock == Spec => []NominalIsClock
  <1>1. IInv => NominalIsClock
    BY DEF IInv
  <1> QED
    BY <1>1, Invariance, PTL

(* A drained packet belongs to a stopped device, whatever the traffic.     *)
THEOREM NoAudioDrained == Spec => DiscardOnlyIdle
  <1> DEFINE Drained == outPkt # NoPacket /\ outPkt' = NoPacket /\ calls' = <<>>
             AllStopped == told = [d \in Dirs |-> 0] /\ selected = told
  <1>1. ASSUME IInv, [Next]_vars PROVE [Drained => AllStopped]_vars
    <2> SUFFICES ASSUME Next, Drained PROVE AllStopped
      BY <1>1
    <2>1. ~(\E req \in HostRequests : control_out(req) \/ control_in(req))
      BY DEF control_out, control_in, set_alt_interface, set_clock_cur, UnhandledOut, busVars
    <2>2. ~endpoint_out /\ ~read
      BY DEF endpoint_out, read
    <2>3. ~(\E d \in Dirs : endpoint_in_complete(d))
      BY DEF endpoint_in_complete
    <2>4. ~reset
      BY DEF reset
    <2>5. ~Environment
      BY DEF Environment, HostTakesIn, HostSendsOut, ClockMoves, busVars
    <2>6. poll
      BY <2>1, <2>2, <2>3, <2>4, <2>5 DEF Next, Device
    <2>7. Idle
      BY <2>6 DEF poll
    <2>8. told = [d \in Dirs |-> 0]
      BY <1>1, <2>7 DEF Idle, IInv, TypeOK, StaleOnlyWhileStopped
    <2> QED
      BY <1>1, <2>8 DEF IInv, HostAgreesHandler
  <1> QED
    BY <1>1, Invariance, PTL DEF Spec, DiscardOnlyIdle

(* An answer about a stream that speaks of setting 0 leaves the class at   *)
(* setting 0; what the class stores, handler and host have too.            *)
LEMMA UnanimousStep ==
  ASSUME IInv, IInv', StopIsUnanimous, [Next]_vars
  PROVE  StopIsUnanimous'
  <1> SUFFICES ASSUME NEW d \in Dirs, reply'.about = d, reply'.data = 0
               PROVE  alt'[d] = 0
    BY DEF StopIsUnanimous, IInv, HostAgreesHandler, StaleOnlyWhileStopped
  <1>1. CASE UNCHANGED vars
    BY <1>1 DEF vars, StopIsUnanimous
  <1>2. d \notin {"none", "Clock", "Validity", "Range"}
    BY DEF Dirs
  <1>3. reply' # NoReply
    BY <1>2 DEF NoReply
  <1>4. ASSUME NEW req \in HostRequests, set_alt_interface(req)
        PROVE  alt'[d] = 0
    <2> DEFINE e == OwnerOf(LowByte(req.index))
               a == LowByte(req.value)
    <2>1. CASE ChangeSetting(e, a)
      <3>1. reply' = Accepted(e, a) /\ alt' = [alt EXCEPT ![e] = a]
        BY <2>1 DEF ChangeSetting, StoreSetting
      <3>2. e = d /\ a = 0
        BY <3>1 DEF Accepted
      <3> QED
        BY <3>1, <3>2 DEF IInv, TypeOK
    <2>2. CASE KeepSetting(e, a)
      <3>1. reply' = Unclaimed(e, a) /\ alt' = alt /\ alt[e] = a
        BY <2>2 DEF KeepSetting
      <3>2. e = d /\ a = 0
        BY <3>1 DEF Unclaimed
      <3> QED
        BY <3>1, <3>2
    <2> QED
      BY <1>4, <2>1, <2>2 DEF set_alt_interface
  <1>5. ASSUME NEW req \in HostRequests, set_clock_cur(req) \/ UnhandledOut(req)
        PROVE  FALSE
    <2>1. reply'.about \in {"Clock", "none"}
      BY <1>5 DEF set_clock_cur, SetRate, UnhandledOut, Accepted, Unclaimed
    <2> QED
      BY <1>2, <2>1
  <1>6. ASSUME NEW req \in HostRequests, control_in(req)
        PROVE  alt'[d] = 0
    <2>1. alt' = alt
      BY <1>6 DEF control_in, classVars
    <2>2. CASE reply' = get_alt_interface(req)
      <3> DEFINE e == OwnerOf(LowByte(req.index))
      <3>1. reply' \in {Accepted(e, alt[e]), Unclaimed("none", NoData)}
        BY <2>2 DEF get_alt_interface
      <3>2. e = d /\ alt[e] = 0
        BY <1>2, <3>1 DEF Accepted, Unclaimed
      <3> QED
        BY <2>1, <3>2
    <2>3. CASE reply' = ClockAnswer(req)
      <3>1. reply'.about \in {"none", "Clock", "Validity", "Range"}
        BY <2>3 DEF ClockAnswer, Accepted, Unclaimed
      <3> QED
        BY <1>2, <3>1
    <2> QED
      BY <1>6, <2>2, <2>3 DEF control_in
  <1>7. ~endpoint_out /\ ~read /\ ~poll /\ ~reset
    BY <1>3 DEF endpoint_out, read, poll, reset
  <1>8. ASSUME NEW e \in Dirs, endpoint_in_complete(e) PROVE FALSE
    BY <1>3, <1>8 DEF endpoint_in_complete
  <1>9. ~Environment
    BY <1>3 DEF Environment, HostTakesIn, HostSendsOut, ClockMoves
  <1> QED
    BY <1>1, <1>4, <1>5, <1>6, <1>7, <1>8, <1>9 DEF Next, Device, control_out

(* Whatever an answer says of setting 0 is so for everybody.               *)
THEOREM StopAgreed == Spec => []StopIsUnanimous
  <1>1. Init => StopIsUnanimous
    BY DEF Init, StopIsUnanimous
  <1>2. IInv /\ IInv' /\ StopIsUnanimous /\ [Next]_vars => StopIsUnanimous'
    BY UnanimousStep
  <1> QED
    BY <1>1, <1>2, Invariance, PTL DEF Spec

(* Every step of the class, the host or the hardware is a step of the      *)
(* contract or leaves what the contract speaks of unchanged.               *)
LEMMA ContractStep ==
  ASSUME IInv, [Next]_vars
  PROVE  [Contract!ContractNext]_(Contract!contractVars)
  <1> DEFINE primed == [e \in Dirs |-> queued[e] \/ complete[e]]
  <1> USE DEF Contract!contractVars
  <1>1. ASSUME UNCHANGED <<told, queued, complete>>
        PROVE  [Contract!ContractNext]_(Contract!contractVars)
    BY <1>1
  <1>2. ASSUME NEW req \in HostRequests, set_alt_interface(req)
        PROVE  [Contract!ContractNext]_(Contract!contractVars)
    <2> DEFINE d == OwnerOf(LowByte(req.index))
               a == LowByte(req.value)
    <2>1. d \in Dirs /\ a \in Settings
      BY <1>2, RequestTypes DEF set_alt_interface, Streams
    <2>2. CASE KeepSetting(d, a)
      BY <1>1, <1>2, <2>2 DEF KeepSetting, set_alt_interface
    <2>3. CASE ChangeSetting(d, a)
      <3>1. alt[d] # a /\ told' = [told EXCEPT ![d] = a] /\ complete' = complete
        BY <1>2, <2>3 DEF ChangeSetting, set_alt_interface
      <3>2. a # told[d] \/ a = 0
        BY <2>1, <3>1 DEF IInv, StaleOnlyWhileStopped
      <3>3. PICK g \in Answers(d) : queued' = [queued EXCEPT ![d] = @ \/ g]
        BY <2>1, <2>3, KickFacts DEF ChangeSetting, Fill
      <3>4. CASE g = TRUE
        <4>1. primed' = [primed EXCEPT ![d] = TRUE]
          BY <2>1, <3>1, <3>3, <3>4, Zenon DEF IInv, TypeOK
        <4> QED
          BY <2>1, <3>1, <3>2, <4>1 DEF Contract!ContractNext, Contract!Announce
      <3>5. CASE g = FALSE
        <4>1. primed' = primed
          BY <2>1, <3>1, <3>3, <3>5, Zenon DEF IInv, TypeOK
        <4>2. d \in MayDecline
          BY <3>3, <3>5 DEF Answers
        <4> QED
          BY <2>1, <3>1, <3>2, <4>1, <4>2 DEF Contract!ContractNext, Contract!Announce
      <3> QED
        BY <3>3, <3>4, <3>5 DEF Answers
    <2> QED
      BY <1>2, <2>2, <2>3 DEF set_alt_interface
  <1>3. ASSUME NEW d \in Dirs, endpoint_in_complete(d)
        PROVE  [Contract!ContractNext]_(Contract!contractVars)
    <2>1. /\ told' = told /\ complete[d]
          /\ complete' = [complete EXCEPT ![d] = FALSE]
      BY <1>3 DEF endpoint_in_complete, handlerVars
    <2>2. PICK g \in Answers(d) : queued' = [queued EXCEPT ![d] = @ \/ g]
      BY <1>3 DEF endpoint_in_complete, emit_feedback, audio_data_tx, Fill, Dirs
    <2>3. CASE queued[d] \/ g
      <3>1. primed' = primed
        BY <2>1, <2>2, <2>3, Zenon DEF IInv, TypeOK
      <3> QED
        BY <2>1, <3>1
    <2>4. CASE ~queued[d] /\ ~g
      <3>1. primed[d] /\ primed' = [primed EXCEPT ![d] = FALSE]
        BY <2>1, <2>2, <2>4, Zenon DEF IInv, TypeOK
      <3>2. d \in MayDecline
        BY <2>2, <2>4 DEF Answers
      <3> QED
        BY <2>1, <3>1, <3>2 DEF Contract!ContractNext, Contract!Lapse
    <2> QED
      BY <2>2, <2>3, <2>4 DEF Answers
  <1>4. ASSUME NEW d \in Dirs, HostTakesIn(d)
        PROVE  [Contract!ContractNext]_(Contract!contractVars)
    <2>1. primed' = primed
      BY <1>4, Zenon DEF HostTakesIn, IInv, TypeOK
    <2> QED
      BY <1>4, <2>1 DEF HostTakesIn, handlerVars
  <1>5. CASE reset
    <2>1. told' = [e \in Dirs |-> 0] /\ primed' = [e \in Dirs |-> FALSE]
      BY <1>5, Zenon DEF reset, StopBoth
    <2> QED
      BY <2>1 DEF Contract!ContractNext, Contract!Disconnect
  <1>6. ASSUME NEW req \in HostRequests,
               set_clock_cur(req) \/ UnhandledOut(req) \/ control_in(req)
        PROVE  UNCHANGED <<told, queued, complete>>
    BY <1>6 DEF set_clock_cur, UnhandledOut, control_in, busVars, handlerVars
  <1>7. CASE endpoint_out \/ read \/ poll \/ UNCHANGED vars
    BY <1>1, <1>7 DEF endpoint_out, read, poll, handlerVars, vars
  <1>8. ASSUME NEW len \in PacketLens, HostSendsOut(len)
        PROVE  UNCHANGED <<told, queued, complete>>
    BY <1>8 DEF HostSendsOut, handlerVars
  <1>9. ASSUME NEW r \in Rates, ClockMoves(r)
        PROVE  UNCHANGED <<told, queued, complete>>
    BY <1>9 DEF ClockMoves, busVars
  <1> QED
    BY <1>1, <1>2, <1>3, <1>4, <1>5, <1>6, <1>7, <1>8, <1>9
    DEF Next, Device, Environment, control_out

(* The class implements the contract of the AudioHandler trait.            *)
THEOREM Refinement == Spec => ImplementsContract
  <1>1. Init => Contract!ContractInit
    BY Zenon DEF Init, Contract!ContractInit
  <1>2. IInv /\ [Next]_vars => [Contract!ContractNext]_(Contract!contractVars)
    BY ContractStep
  <1> QED
    BY <1>1, <1>2, Invariance, PTL DEF Spec, ImplementsContract, Contract!ContractSpec

=============================================================================
