---------------------------- MODULE UsbAudioClass ----------------------------
(***************************************************************************)
(* The class driver of src/lib.rs: struct UsbAudioClass, its UsbClass      *)
(* implementation and the request handlers behind it, together with the    *)
(* parties it runs between: the host, the endpoint buffers of the USB      *)
(* peripheral and the application's AudioHandler and ClockSource.          *)
(*                                                                         *)
(* Every method of UsbClass runs to completion in the device's poll loop,  *)
(* so each is one action.  Host and hardware move between any two of them: *)
(* a packet is taken, a completion becomes pending or the bus is reset     *)
(* while older completions still wait to be handed to the class.           *)
(*                                                                         *)
(* "In" and "Out" name the streams.  Each has one IN endpoint that the     *)
(* class keeps going: the data endpoint of "In", the feedback endpoint of  *)
(* "Out".  queued and complete are indexed by the stream.                  *)
(***************************************************************************)
EXTENDS Integers, Sequences

CONSTANTS
  HasInput, HasOutput,  \* which streams the configuration builds
  FirstIface,           \* interfaces allocated before by other classes
  HostRequests,         \* the control requests the host may issue
  Rates,                \* sampling rates in play (Hz)
  InitRate,             \* ClockSource::sample_rate() when the class is built
  MaxRate,              \* largest rate of ClockSource::sample_rates()
  NumRanges,            \* number of entries of ClockSource::sample_rates()
  AudioRate,            \* packets per second: 1000 at full, 8000 at high speed
  BytesPerFrame,        \* TerminalConfig::bytes_per_frame()
  PacketLens,           \* lengths of the OUT packets the host sends
  ControlBuf,           \* size of the stack's control buffer
  MayDecline,           \* streams whose handler may leave a call unanswered
  RateMayFail,          \* set_sample_rate may return an error
  ClockMayMove,         \* sample_rate() may change without a request
  ValidityKnown,        \* clock_validity() is implemented
  DriverKeeps           \* a read into too small a buffer leaves the packet

Dirs == {"In", "Out"}

(* Requests are what usb-device parses from a SETUP packet: index and      *)
(* value are u16, data is the rate in the OUT data stage (NoData if short).*)
NoData == -1
NoPacket == -1
U8 == 0..255
U16 == 0..2^16-1
XferDirs == {"out", "in"}
Types == {"Standard", "Class", "Vendor"}
Recipients == {"Device", "Interface", "Endpoint"}
RateData == Rates \cup {NoData}
Request ==
  [dir : XferDirs, type : Types, recipient : Recipients, request : U8,
   index : U16, value : U16, data : RateData, length : U16]

ASSUME ClassAssumption ==
  /\ HasInput \in BOOLEAN /\ HasOutput \in BOOLEAN
  /\ FirstIface \in 0..200
  /\ HostRequests \subseteq Request
  /\ Rates \subseteq Nat /\ InitRate \in Rates
  /\ MaxRate \in Nat /\ NumRanges \in Nat \ {0}
  /\ AudioRate \in Nat \ {0} /\ BytesPerFrame \in Nat \ {0}
  /\ ControlBuf \in Nat /\ ControlBuf >= 64
  /\ MayDecline \subseteq Dirs
  /\ RateMayFail \in BOOLEAN /\ ClockMayMove \in BOOLEAN
  /\ ValidityKnown \in BOOLEAN /\ DriverKeeps \in BOOLEAN

-----------------------------------------------------------------------------
(* Allocation, done once by UsbAudioClassConfig::build().                  *)

(* bmRequest codes: standard requests and ClassSpecificRequest.            *)
GET_INTERFACE == 10
SET_INTERFACE == 11
Cur == 1
Range_ == 2

SamFreqControl == 1
ClockValidControl == 2
ClockEntity == 1

Streams == {d \in Dirs : IF d = "In" THEN HasInput ELSE HasOutput}

(* Interfaces are handed out in the order control, output, input.  The     *)
(* field of an absent stream keeps the 0 it is initialised with.           *)
control_iface == FirstIface
out_iface == IF HasOutput THEN FirstIface + 1 ELSE 0
in_iface == IF HasInput THEN FirstIface + (IF HasOutput THEN 2 ELSE 1) ELSE 0

(* wMaxPacketSize of the data endpoints, cast to u16.                      *)
CeilDiv(a, b) == (a + b - 1) \div b
MaxPacketSize == ((CeilDiv(MaxRate, AudioRate) + 1) * BytesPerFrame) % 65536

ASSUME PacketAssumption == PacketLens \subseteq 0..MaxPacketSize

(* "as u8" keeps the low byte.  Mutant: the cast is forgotten.             *)
LowByteUncast(x) == x
LowByte(x) == x % 256
HighByte(x) == (x \div 256) % 256

-----------------------------------------------------------------------------

VARIABLES
  alt,        \* AudioStream.alt_setting of each stream
  nominal,    \* nominal_fb, as the rate it was computed from
  told,       \* handler: setting last passed to alternate_setting_changed
  rate,       \* handler: ClockSource::sample_rate()
  selected,   \* host: the setting it selected last, 0 after a bus reset
  queued,     \* hardware: the stream's IN endpoint holds a packet
  complete,   \* hardware: its IN completion waits for the class
  outPkt,     \* hardware: length of the packet in the OUT endpoint
  spinning,   \* poll() never leaves its read loop
  reply,      \* outcome of the control request of the last step
  calls       \* the callbacks made by the last step, in order

classVars == <<alt, nominal>>
handlerVars == <<told, rate>>
busVars == <<queued, complete, outPkt>>
vars == <<alt, nominal, told, rate, selected, queued, complete, outPkt,
          spinning, reply, calls>>

NoReply == [status |-> "none", about |-> "none", data |-> NoData]
Unclaimed(about, data) == [status |-> "unclaimed", about |-> about, data |-> data]
Accepted(about, data) == [status |-> "accepted", about |-> about, data |-> data]

(* A call records what its callee could observe when it was made.          *)
SettingCall(d, a) == [cb |-> "alternate_setting_changed", dir |-> d, arg |-> a]
TxCall == [cb |-> "audio_data_tx", dir |-> "In", arg |-> IF queued["In"] THEN 1 ELSE 0]
ReadCall == [cb |-> "read", dir |-> "Out", arg |-> outPkt]
RxCall == [cb |-> "audio_data_rx", dir |-> "Out", arg |-> outPkt]
FeedbackCall == [cb |-> "feedback", dir |-> "Out", arg |-> nominal]

Init ==
  /\ alt = [d \in Dirs |-> 0]
  /\ nominal = InitRate
  /\ told = [d \in Dirs |-> 0]
  /\ rate = InitRate
  /\ selected = [d \in Dirs |-> 0]
  /\ queued = [d \in Dirs |-> FALSE]
  /\ complete = [d \in Dirs |-> FALSE]
  /\ outPkt = NoPacket
  /\ spinning = FALSE
  /\ reply = NoReply
  /\ calls = <<>>

-----------------------------------------------------------------------------
(* The two callbacks that fill an IN endpoint.  A write to an endpoint     *)
(* that still holds a packet fails (WouldBlock) and changes nothing, so    *)
(* only whether the handler had a packet to give matters.                  *)

Answers(d) == {g \in BOOLEAN : g \/ d \in MayDecline}

(* Mutant: a write to a full endpoint loses the packet that is there.      *)
FillOnceOnly(d) ==
  \E given \in Answers(d) :
    queued' = [queued EXCEPT ![d] = ~@ /\ given]

Fill(d) ==
  \E given \in Answers(d) :
    queued' = [queued EXCEPT ![d] = @ \/ given]

emit_feedback == Fill("Out")
audio_data_tx == Fill("In")

-----------------------------------------------------------------------------
(* SET_INTERFACE *)

IsSetInterface(req) ==
  /\ req.dir = "out" /\ req.type = "Standard" /\ req.recipient = "Interface"
  /\ req.request = SET_INTERFACE

(* The stream a request's interface number selects, input first.           *)
OwnerOf(iface) ==
  IF HasInput /\ iface = in_iface THEN "In"
  ELSE IF HasOutput /\ iface = out_iface THEN "Out"
  ELSE "none"

(* The IN cycle is kicked off whatever the old and the new setting.        *)
(* Mutant: only a stream that was stopped is kicked off.                   *)
KickIfStopped(d) ==
  IF alt[d] # 0 THEN queued' = queued
  ELSE IF d = "In" THEN audio_data_tx ELSE emit_feedback

Kick(d) == IF d = "In" THEN audio_data_tx ELSE emit_feedback

(* Mutants: the class keeps a setting it left for 0; it keeps 1 for every  *)
(* setting that runs.                                                      *)
StoreStartsOnly(d, a) == alt' = [alt EXCEPT ![d] = IF a = 0 THEN @ ELSE a]
StoreRunning(d, a) == alt' = [alt EXCEPT ![d] = IF a = 0 THEN 0 ELSE 1]

StoreSetting(d, a) == alt' = [alt EXCEPT ![d] = a]

(* A new setting: the handler is told, the cycle kicked off, the setting   *)
(* stored and the request accepted.                                        *)
ChangeSetting(d, a) ==
  /\ alt[d] # a
  /\ told' = [told EXCEPT ![d] = a]
  /\ Kick(d)
  /\ StoreSetting(d, a)
  /\ selected' = [selected EXCEPT ![d] = a]
  /\ reply' = Accepted(d, a)
  /\ calls' = <<SettingCall(d, a), IF d = "In" THEN TxCall ELSE FeedbackCall>>

(* usb-device's own answer to a SET_INTERFACE that no class claimed:       *)
(* setting 0 is accepted, any other is stalled and selects nothing.        *)
StackDefault(d, a) == selected' = [selected EXCEPT ![d] = IF a = 0 THEN 0 ELSE @]

(* The setting already stored: nothing is called, and the request is left  *)
(* to the stack's default.                                                 *)
KeepSetting(d, a) ==
  /\ alt[d] = a
  /\ StackDefault(d, a)
  /\ reply' = Unclaimed(d, a)
  /\ calls' = <<>>
  /\ UNCHANGED <<alt, told, queued>>

set_alt_interface(req) ==
  LET d == OwnerOf(LowByte(req.index))
      a == LowByte(req.value)
  IN  /\ IsSetInterface(req)
      /\ d \in Streams
      /\ ChangeSetting(d, a) \/ KeepSetting(d, a)
      /\ UNCHANGED <<nominal, rate, complete, outPkt, spinning>>

-----------------------------------------------------------------------------
(* Requests to the clock source, entity 1 of the control interface.  The   *)
(* channel (low byte of wValue) is logged and otherwise ignored.           *)

IsClockRequest(req, code, control) ==
  /\ req.type = "Class" /\ req.recipient = "Interface" /\ req.request = code
  /\ LowByte(req.index) = control_iface
  /\ HighByte(req.index) = ClockEntity
  /\ HighByte(req.value) = control

IsSetClock(req) == req.dir = "out" /\ IsClockRequest(req, Cur, SamFreqControl)

(* Mutant: the nominal rate is left alone while no feedback runs.          *)
NominalWhenRunning(r) == nominal' = IF alt["Out"] = 0 THEN nominal ELSE r
SetNominal(r) == nominal' = r

(* The verdict of set_sample_rate is dropped: nominal_fb takes the rate    *)
(* and the request is accepted whether or not the handler took it.         *)
SetRate(req) ==
  /\ req.data # NoData
  /\ \E taken \in {t \in BOOLEAN : t \/ RateMayFail} :
       rate' = IF taken THEN req.data ELSE rate
  /\ SetNominal(req.data)
  /\ reply' = Accepted("Clock", req.data)

set_clock_cur(req) ==
  /\ IsSetClock(req)
  /\ \/ SetRate(req)
     \/ req.data = NoData /\ reply' = Unclaimed("Clock", NoData) /\ UNCHANGED <<nominal, rate>>
  /\ calls' = <<>>
  /\ UNCHANGED <<alt, told, selected, busVars, spinning>>

(* Data-stage answers.  RANGE writes the count, and every triplet when the *)
(* host asks for more than the count; it fails when they exceed the buffer.*)
RangeBytes(len) == 2 + (IF len > 2 THEN 12 * NumRanges ELSE 0)

ClockAnswer(req) ==
  CASE IsClockRequest(req, Cur, SamFreqControl) -> Accepted("Clock", rate)
    [] IsClockRequest(req, Cur, ClockValidControl) ->
         IF ValidityKnown THEN Accepted("Validity", 1) ELSE Unclaimed("Validity", NoData)
    [] IsClockRequest(req, Range_, SamFreqControl) ->
         IF RangeBytes(req.length) <= ControlBuf
           THEN Accepted("Range", RangeBytes(req.length)) ELSE Unclaimed("Range", NoData)
    [] OTHER -> Unclaimed("none", NoData)

IsGetInterface(req) ==
  /\ req.type = "Standard" /\ req.recipient = "Interface"
  /\ req.request = GET_INTERFACE

get_alt_interface(req) ==
  LET d == OwnerOf(LowByte(req.index))
  IN  IF d \in Streams THEN Accepted(d, alt[d]) ELSE Unclaimed("none", NoData)

-----------------------------------------------------------------------------
(* UsbClass methods *)

(* What the class ignores.  The host's settings stay: SET_CONFIGURATION,   *)
(* which puts every interface back to 0 and which standard_request_out     *)
(* ignores, is not among the requests.  The host is assumed to reset or to *)
(* select setting 0 before it.                                             *)
UnhandledOut(req) ==
  /\ ~IsSetClock(req)
  /\ ~(IsSetInterface(req) /\ OwnerOf(LowByte(req.index)) \in Streams)
  /\ reply' = Unclaimed("none", NoData)
  /\ calls' = <<>>
  /\ UNCHANGED <<classVars, handlerVars, selected, busVars, spinning>>

control_out(req) ==
  /\ ~spinning /\ req.dir = "out"
  /\ set_alt_interface(req) \/ set_clock_cur(req) \/ UnhandledOut(req)

control_in(req) ==
  /\ ~spinning /\ req.dir = "in"
  /\ reply' = IF IsGetInterface(req) THEN get_alt_interface(req) ELSE ClockAnswer(req)
  /\ calls' = <<>>
  /\ UNCHANGED <<classVars, handlerVars, selected, busVars, spinning>>

(* The handler normally reads the packet; nothing makes it.                *)
endpoint_out ==
  /\ ~spinning /\ outPkt # NoPacket
  /\ outPkt' \in {NoPacket, outPkt}
  /\ calls' = <<RxCall>>
  /\ reply' = NoReply
  /\ UNCHANGED <<classVars, handlerVars, selected, queued, complete, spinning>>

endpoint_in_complete(d) ==
  /\ ~spinning /\ complete[d]
  /\ complete' = [complete EXCEPT ![d] = FALSE]
  /\ IF d = "Out" THEN emit_feedback ELSE audio_data_tx
  /\ calls' = <<IF d = "Out" THEN FeedbackCall ELSE TxCall>>
  /\ reply' = NoReply
  /\ UNCHANGED <<classVars, handlerVars, selected, outPkt, spinning>>

(* read(), for an application that takes packets outside the callback: it  *)
(* unwraps the output stream, so only a device that has one may call it.   *)
read ==
  /\ ~spinning /\ HasOutput /\ outPkt # NoPacket
  /\ outPkt' \in {NoPacket, outPkt}
  /\ calls' = <<ReadCall>>
  /\ reply' = NoReply
  /\ UNCHANGED <<classVars, handlerVars, selected, queued, complete, spinning>>

(* poll() drains the OUT endpoint, but only with both streams built and    *)
(* both at setting 0.  Its loop leaves on an empty or blocked endpoint; an *)
(* error that leaves the packet in place comes back on every turn.         *)
ReadBuf == 1024

(* Mutant: one stopped stream is enough (the early return's "or" as "and").*)
IdleOneStopped == Streams = Dirs /\ \E d \in Dirs : alt[d] = 0
Idle == Streams = Dirs /\ \A d \in Dirs : alt[d] = 0
Unreadable == outPkt > ReadBuf /\ DriverKeeps

poll ==
  /\ ~spinning
  /\ spinning' = (Idle /\ Unreadable)
  /\ outPkt' = IF Idle /\ ~Unreadable THEN NoPacket ELSE outPkt
  /\ calls' = <<>>
  /\ reply' = NoReply
  /\ UNCHANGED <<classVars, handlerVars, selected, queued, complete>>

(* reset() tells the handler that both streams stopped.  Mutant: it tells  *)
(* of the input only.                                                      *)
StopInput == told' = [told EXCEPT !["In"] = 0]
StopBoth == told' = [d \in Dirs |-> 0]

(* A bus reset: the peripheral's endpoints are flushed, the host starts    *)
(* over at setting 0 and the handler is told.  The settings stored by the  *)
(* class are not touched.                                                  *)
reset ==
  /\ ~spinning
  /\ StopBoth
  /\ calls' = <<SettingCall("In", 0), SettingCall("Out", 0)>>
  /\ selected' = [d \in Dirs |-> 0]
  /\ queued' = [d \in Dirs |-> FALSE]
  /\ complete' = [d \in Dirs |-> FALSE]
  /\ outPkt' = NoPacket
  /\ reply' = NoReply
  /\ UNCHANGED <<classVars, rate, spinning>>

-----------------------------------------------------------------------------
(* Host and hardware: the host moves packets of the streams it selected.   *)

HostTakesIn(d) ==
  /\ selected[d] # 0 /\ queued[d]
  /\ queued' = [queued EXCEPT ![d] = FALSE]
  /\ complete' = [complete EXCEPT ![d] = TRUE]
  /\ calls' = <<>> /\ reply' = NoReply
  /\ UNCHANGED <<classVars, handlerVars, selected, outPkt, spinning>>

HostSendsOut(len) ==
  /\ HasOutput /\ selected["Out"] # 0 /\ outPkt = NoPacket
  /\ outPkt' = len
  /\ calls' = <<>> /\ reply' = NoReply
  /\ UNCHANGED <<classVars, handlerVars, selected, queued, complete, spinning>>

(* An external or variable clock moves without the class being told.       *)
ClockMoves(r) ==
  /\ ClockMayMove
  /\ rate' = r
  /\ calls' = <<>> /\ reply' = NoReply
  /\ UNCHANGED <<classVars, told, selected, busVars, spinning>>

Device ==
  \/ \E req \in HostRequests : control_out(req) \/ control_in(req)
  \/ endpoint_out
  \/ read
  \/ \E d \in Dirs : endpoint_in_complete(d)
  \/ poll
  \/ reset

Environment ==
  \/ \E d \in Dirs : HostTakesIn(d)
  \/ \E len \in PacketLens : HostSendsOut(len)
  \/ \E r \in Rates : ClockMoves(r)

Next == Device \/ Environment

Spec == Init /\ [][Next]_vars

(* The main loop polls the device for ever, and an isochronous IN endpoint *)
(* of a selected setting is served by the host in every service interval.  *)
Fairness ==
  \A d \in Dirs :
    /\ WF_vars(endpoint_in_complete(d))
    /\ WF_vars(HostTakesIn(d))

FairSpec == Spec /\ Fairness

-----------------------------------------------------------------------------
(* Properties *)

(* Every variable has its type: settings are bytes, an absent stream has   *)
(* no packet and stays at setting 0.                                       *)
Settings == U8

TypeOK ==
  /\ alt \in [Dirs -> Settings]
  /\ told \in [Dirs -> Settings]
  /\ selected \in [Dirs -> Settings]
  /\ nominal \in Rates /\ rate \in Rates
  /\ queued \in [Dirs -> BOOLEAN]
  /\ complete \in [Dirs -> BOOLEAN]
  /\ outPkt \in PacketLens \cup {NoPacket}
  /\ spinning \in BOOLEAN
  /\ \A d \in Dirs \ Streams : alt[d] = 0 /\ ~queued[d] /\ ~complete[d]

(* The setting the host believes selected is the one the handler was last  *)
(* told, through every order of SET_INTERFACE, repeats, stalls and resets: *)
(* neither side streams alone (alternate_setting_changed, reset).          *)
HostAgreesHandler == told = selected

(* The class's own setting differs from the handler's only while the       *)
(* stream is stopped: no running stream is reported or drained wrongly     *)
(* (set_alt_interface stores what it tells; only reset() does not).        *)
StaleOnlyWhileStopped == \A d \in Dirs : alt[d] # told[d] => told[d] = 0

(* Setting 0 resynchronises: whatever came before, once a request about a  *)
(* stream ends with setting 0, class, handler and host agree on it.        *)
StopIsUnanimous ==
  \A d \in Dirs :
    reply.about = d /\ reply.data = 0 => alt[d] = 0 /\ told[d] = 0 /\ selected[d] = 0

(* "Start the IN cycle": the handler of a running stream that always has   *)
(* a packet to give has one with the endpoint, or a completion on its way  *)
(* that will ask for one.  The cycle survives restarts at another setting, *)
(* a write refused because a packet was left, and late completions.        *)
CycleAlive ==
  \A d \in Dirs \ MayDecline : told[d] # 0 => queued[d] \/ complete[d]

(* poll() may spin for ever only when both streams are stopped and the     *)
(* allocated endpoint is larger than its 1024-byte buffer.                 *)
SpinOnlyIdle ==
  spinning => told = [d \in Dirs |-> 0] /\ ReadBuf < MaxPacketSize /\ DriverKeeps

(* An OUT packet disappears without having been offered to the handler, to *)
(* the application or to a bus reset only while both streams are stopped:  *)
(* the drain in poll() never eats audio of a running stream.               *)
DiscardOnlyIdle ==
  [][outPkt # NoPacket /\ outPkt' = NoPacket /\ calls' = <<>>
       => told = [d \in Dirs |-> 0] /\ selected = told]_vars

(* With a clock that takes what it is asked and does not move by itself,   *)
(* the nominal rate handed to feedback() is the clock's rate, across every *)
(* SET CUR, good, short or misaddressed.                                   *)
NominalIsClock == ~RateMayFail /\ ~ClockMayMove => nominal = rate

(* The class keeps the contract of the AudioHandler trait: every step maps *)
(* to an announcement, a lapse or a disconnect, or is invisible.           *)
Contract == INSTANCE AudioHandlerContract WITH
  setting <- told,
  primed <- [d \in Dirs |-> queued[d] \/ complete[d]]

ImplementsContract == Contract!ContractSpec

(* While a stream stays running, its IN packets are taken and asked for    *)
(* again and again: "Start the IN cycle running" starts a cycle, not one   *)
(* packet.  Under FairSpec.                                                *)
StreamsKeepFlowing ==
  \A d \in Dirs \ MayDecline :
    <>[](told[d] # 0) => []<>complete[d] /\ []<>(~complete[d])

-----------------------------------------------------------------------------
(* What comments and docs of the source say and the code does not do.      *)

(* "Called when the alternate setting of terminal's interface is changed   *)
(* ... This is how the host signals start/stop": what is answered about a  *)
(* stream's setting, or left unanswered, is the setting the handler has.   *)
SelectionReachesHandler ==
  \A d \in Dirs : reply.about = d => told[d] = reply.data

(* "ep is ready for ep.write()" whenever audio_data_tx is called.          *)
TxEndpointIsReady ==
  \A i \in DOMAIN calls : calls[i].cb = "audio_data_tx" => calls[i].arg = 0

(* "it gets called in every cycle of the feedback loop": the nominal rate  *)
(* of a feedback call is the clock's current sample_rate().                *)
FeedbackUsesClock ==
  \A i \in DOMAIN calls : calls[i].cb = "feedback" => calls[i].arg = rate

=============================================================================
