# Verification of usbd-uac2

TLA+ specifications of the USB Audio Class 2.0 device class in `src/` (a
`UsbClass` for the Rust `usb-device` stack), model-checked with TLC and proved
about with TLAPS. Definitions carry the names of the code they model;
`PROJECT.json` maps each to its source lines.

## Inventory

| Component | State | Operations | Hard behaviour |
|---|---|---|---|
| `UsbAudioClass` (`src/lib.rs`) | `alt_setting` per stream, `nominal_fb`, interface and endpoint numbers | `control_out`, `control_in`, `endpoint_out`, `endpoint_in_complete`, `poll`, `reset`, `read` | any order of host requests, completions and resets; self-clocked IN cycles; copies of one setting in host, class and handler |
| `AudioHandler`, `ClockSource` (`src/lib.rs`, traits) | the application's | callbacks | may refuse, may have nothing to send, may change rate by itself |
| `UsbIsochronousFeedback` (`src/lib.rs`) | a 16.16 word | conversions to 10.14 and bytes | rounding, truncation, overflow |
| Configuration (`src/lib.rs`, builders) | terminal ids, formats | `build` | id collisions, u8/u16 overflow, setters that are ignored |
| Descriptors (`src/descriptors.rs`, `src/cursor.rs`, `src/lib.rs:712-918`) | a byte cursor | `write_descriptor`, `size` | a length written before the data it counts; overflow in the middle |
| DMA example (`src/examples/lpc55s28-evk-dma/src/dma.rs`, `main.rs`) | ring indices shared by USB task, DMA and ISR | produce, start, stop, ISR | real concurrency with hardware |
| Interrupt example (`src/examples/lpc55s28-evk/src/main.rs`) | byte queues and counters | two I2S ISRs, USB callbacks | real concurrency, unit mix-ups |
| Constants, logging, board support | none | none | none |

The main loop polls `usb-device`, which calls the methods of `UsbClass`; these
call the handler's callbacks, which read and write the endpoints the class owns.
Each IN endpoint is kept going by its own completions: the completion handler
asks the application for the next packet, and `SET_INTERFACE` provides the first.

What makes each part correct:

- class: host, class and handler mean the same setting; a running stream's IN
  cycle is never lost; only packets of stopped streams are thrown away; `poll`
  returns; the nominal rate is the clock's;
- feedback words: a conversion is within one unit of the rate and fits its bytes;
- descriptors: `wTotalLength` is what is written, ids are distinct, an overflow
  is an error;
- DMA example: the producer never writes the slot the DMA reads, and the fill
  level it computes is the hardware's;
- interrupt example: the fill level the feedback controller sees is the queue's.

## Modules

| Module | What it is |
|---|---|
| `AudioHandlerContract` | abstract specification: settings announced, IN cycles primed, lapsing and disconnected; no USB |
| `UsbAudioClass` | the class with host, endpoint hardware, handler and clock around it; its properties; implements `AudioHandlerContract` |
| `Descriptors` | the configuration and its entities, written field by field into a bounded buffer |
| `SlotQueue` | abstract specification: a bounded queue of slots that may break and start again |
| `DmaRing` | DMA example: USB task, DMA interrupt and DMA channel on one ring; implements `SlotQueue` |
| `BipQueue` | the `bbqueue` crate, as operators (outside `src/`) |
| `EvkPlayback` | interrupt example, output: USB task, transmit interrupt, I2S peripheral; uses `BipQueue` |
| `EvkRecording` | interrupt example, input: receive interrupt, USB task; uses `BipQueue` |
| `RateLoop` | both examples' `feedback()` and the fixed-point words, closed over host and clock |
| `MC...` | constants for TLC |
| `AudioHandlerContractProofs`, `UsbAudioClassProofs`, `DescriptorsProofs`, `DmaRingProofs`, `EvkPlaybackProofs`, `EvkRecordingProofs`, `RateLoopProofs` | TLAPS proofs |
| `DivisionLemmas` | quotients and remainders by any positive number, for the proofs about wrapping counters |

### UsbAudioClass

Class methods run to completion in the poll loop, so each is one action; host
and hardware (`HostTakesIn`, `HostSendsOut`, `ClockMoves`) move between any two.

| Variable | Code |
|---|---|
| `alt` | `AudioStream::alt_setting` |
| `nominal` | `nominal_fb`, as the rate it is computed from |
| `told` | last setting given to `alternate_setting_changed` |
| `rate` | what `ClockSource::sample_rate()` returns |
| `selected` | the host's idea of the setting |
| `queued`, `complete`, `outPkt` | endpoint buffers and pending completions |
| `spinning` | `poll` caught in its loop |
| `reply`, `calls` | outcome and callbacks of the last step, for properties |

A request is a record of the SETUP fields the code looks at, with the numeric
codes and byte-packed `wIndex` and `wValue` of the bus, so the casts to `u8` and the
entity/interface split are modelled. A write to a full endpoint fails and
changes nothing. The handler gives a packet or, if the stream is in
`MayDecline`, may give none. `usb-device` itself (version 0.3.2, outside `src/`)
appears in two places: the default answer to a `SET_INTERFACE` that no class
claimed (0 accepted, others stalled), and the flush of endpoints on a bus reset.
`DriverKeeps` leaves open what the bus driver does with a packet that does not
fit the reader's buffer, and `RateMayFail`, `ClockMayMove`, `ValidityKnown` what
the application's clock does.

Left out: bytes of audio, the fixed-point form of the rate, log output, the
channel number (logged only), and RANGE triplets beyond their number.

### Descriptors

A job is a sequence of descriptors and a way to write them: `io` is
`Descriptor::write`, which announces `size()` first, `writer` is usb-device's
`DescriptorWriter` (outside `src/`), which counts. The buffer has `room` bytes.
`BeginItem`, `WriteField` and `FinishItem` follow the writing methods; a field is
its width and whether it is written by `write_u8`, `write_u16` or `write_u32` (all or an
error) or by `write` of a slice (what fits). `EntityPayload`, `UnitPayload`,
`StreamPayload` and the tables of sizes transcribe `write_payload` and `size` of each
descriptor separately, since the code does.

An item also carries the ids the code gives it: its own, the terminal it is wired
to, the clock it names, the terminal a streaming interface links to. They follow
`TerminalConfig` (`base_id`, `base_id + 1`) and
`ClockSource::clock_configuration_descriptor` (always id 1). Every other field is
only its width. Endpoint descriptors have usb-device's 7 bytes.

### DmaRing

The USB task is one thread, cut wherever it touches what the interrupt or the
hardware also touches; `pc` says where it is.

| Code | Model |
|---|---|
| `push` | `CheckFull`, `Copy`, `Publish`, once per slot; `Account` is the end of it and of `audio_data_rx`, where a half-full ring enables the channel |
| `consumed_bytes` | `LoadStart`, `ReadReg1`, `ReadReg2`, `Compare`, and back if they disagree |
| `start`, `init` | `Start`, one step: channel off, interrupt masked until its end |
| `stop` | `Stop`, then `Stopped` once the channel is idle |
| `DMA0` | one step, any time after the flag is set and while unmasked |
| the DMA channel (outside `src/`) | `Transfer` of one unit, `Reload` of the next descriptor |

`read_slot` and `sync` are auxiliary. `read_slot` is the slot `consumed` stands for.
`sync` is "even" if `consumed` and a pending interrupt count exactly the slots
played, "ahead" if they count one too many (the flag of the previous stream,
which neither `stop` nor `init` clears), "none" once the hardware played a slot
that was not published or two interrupts became one.

### EvkPlayback and EvkRecording

Same grain: the task is cut between a grant and its commit, between a commit and
its count, and between the two loads of `feedback` and of `audio_data_tx`; the interrupt
preempts the task and runs to its end, while the peripheral goes on. A queue is
`bbqueue`'s two indices and the mark where it wrapped. Playback is in words
throughout; recording keeps the code's units, bytes for the queue and `PRODUCED_IN`,
frames for `CONSUMED_IN`, words for the FIFO.

### RateLoop

One step is a millisecond: the host sends what it was last told, the device plays
what its clock asks for, `feedback()` looks at the level. `lead` is whether it looks
before or after a packet. The DMA does not stop for an empty ring: more is then played
than was produced, `Seen` is negative (`RanDry`) and the answer is the nominal rate. `MulI32` wraps like the release build, `Div` rounds
toward zero. A clock is off by `drift` ppm; the packets of one millisecond may be lost.

## Runs

The class runs use both streams behind one interface of another class (so that no interface
has the number 0 of an unset field), rates 44100 and 48000, a control buffer of
128 bytes.

| Run | Configuration | Shows |
|---|---|---|
| `class_safety` | 192 kHz at full speed (endpoint of 1544 bytes, so larger than the 1024 of `poll`), packets of 0 and 1544 bytes, settings 0, 1, 2 and 257, every kind of clock request, short and misaddressed requests; the input's handler may decline | type invariant, `HostAgreesHandler`, `StaleOnlyWhileStopped`, `StopIsUnanimous`, `CycleAlive`, `SpinOnlyIdle`, `NominalIsClock`, `DiscardOnlyIdle`, and `ImplementsContract` (refinement) |
| `class_liveness` | high speed, settings 0 to 2, refusals and a moving clock, no declining handler, fairness | `StreamsKeepFlowing`; no deadlock |
| `class_restart` | settings only | `SelectionReachesHandler` is violated |
| `class_tx_ready` | settings only | `TxEndpointIsReady` is violated |
| `class_nominal` | settings and SET CUR, refusing clock | `FeedbackUsesClock` is violated |
| `descriptors` | every configuration of up to two streams, association and additional descriptor, ids next to each other or apart, 16 AC interface descriptors, every other descriptor on its own with 0 to 2 sources; rooms 0 to 36 and 100 to 230 | `TypeOK`, `LengthsTruthful`, `TotalTruthful`, `NoSilentTruncation`, `OverflowIsHonest`, `TopologyConnected` |
| `descriptor_units` | `ProcessingUnit` and `ExtensionUnit` | `LengthsTruthful` is violated |
| `dma_ring` | 4 slots of 2 units, gap 1, counters modulo 12, packets of 1 and 3 units | `TypeOK`, `Exclusive`, `BytesAgree`, `ReadingNear`, `OffWhileStopped`, and `ImplementsQueue` (refinement) |
| `evk_playback` | queue of 10 words, FIFO of 8, counters modulo 24, packets of 0, 1 and 3 frames; fairness | `TypeOK`, `OutFillExact`, `PlaybackAdvances`; no deadlock |
| `evk_recording` | queue of 80 bytes, FIFO of 8 words, counters modulo 256, packets of 2 frames give or take one | `SlippageFollowsFill` is violated |
| `rate_loop` | DMA example at high speed, interrupt example at both speeds; drifts of 0, 300 and 1000 ppm either way; packets lost at 1 ms, 40 ms, 3 s or never | `TypeOK`, `Opposes`, `InRing`, `Settles` |
| `rate_full_speed` | DMA example at full speed | `Opposes` is violated |

Bounds of the class runs: no variable counts anything, so the state space is finite without a
cut-off. Three settings suffice because the code only compares a setting with
the stored one and with 0; two rates because it only copies them; 0 and one
oversized packet because `poll` compares with nothing but its buffer.
`class_safety` does not check deadlock: a device caught in `poll` does stop.

Bounds of the descriptor runs: a single descriptor is at most 17 bytes, two and a
header at most 43, a configuration with one stream 110 to 142 and with both 201 to
226, so there are rooms that end in every field of a single descriptor and of
the second half of the largest configurations, and rooms that just fit. No deadlock
check: a job ends.

Bounds of the ring: four slots with one kept empty are the fewest that can be half
full, neither full nor empty; a packet of 3 units spans two slots and one of 1
unit ends inside a slot. The counters wrap several times in a run. Packets stay
below half the ring, as the code's do: one packet delivered after a stop must not
warm the ring up (`OffWhileStopped`: the channel off, its interrupt masked).

Bounds of the queues: 10 words do not hold a whole number of 6-word packets, so
grants are refused at the end of the ring and start again at 0; the counters wrap
after two turns.

Bounds of the rate: 6 s, where 2.5 s after a disturbance (`Settling`: the start or
the lost millisecond) the level is less than three frames from where the
proportional controller balances the drift. 1000 ppm is beyond two crystals, and
half of what the controllers' clamp allows. No deadlock check: a run ends at
`MaxTime`.

Assumed of the host in the class runs: its settings change by SET_INTERFACE and bus
reset only. A SET_CONFIGURATION also puts every interface back to 0, and the class
ignores it (`standard_request_out` looks at SET_INTERFACE alone); the host is taken
to reset, or to select setting 0, before it (`UnhandledOut`).

Fairness: the main loop polls for ever, so a pending completion is handed over
(`WF` of `endpoint_in_complete`); the host serves an isochronous IN endpoint of a
selected setting in every service interval (`WF` of `HostTakesIn`). Nothing is
assumed of requests, resets, OUT packets or the clock. In `EvkPlayback` a pending
unmasked interrupt is taken and its handler goes on (`WF` of `FLEXCOMM7`), and the
sample clock never stops (`WF` of `Play`, the code leaves I2S running when a stream
stops); nothing is assumed of the USB task.

## Findings

1. **A reset leaves the class's setting behind.** `reset()` tells the handler
   that both streams stopped, but keeps `alt_setting`. After SET 1, bus reset,
   SET 1 the class sees no change: no callback, no IN cycle, no accept (the stack
   stalls it), and `GET_INTERFACE` answers 1. A SET 0 recovers; that it always
   does is `StopIsUnanimous`.
2. **`audio_data_tx` on a full endpoint.** Each change of the input's setting
   calls it, ready or not; the trait promises a ready endpoint.
3. **The nominal rate may not be the clock's.** A refusal by `set_sample_rate` is
   dropped and the request accepted; nor is `sample_rate()` asked per feedback
   cycle, as its doc says.
4. **`size()` of two units is one too many.** `Descriptor::write` of a
   `ProcessingUnit` or `ExtensionUnit` announces a byte that it does not write. The
   class itself never writes these units.
5. **The input queue's counters have different units.** `PRODUCED_IN` counts bytes,
   `CONSUMED_IN` frames, so their difference grows by seven bytes with every frame
   sent and soon every packet is a long one, whatever the queue
   holds. With equal units the same model would satisfy `SlippageFollowsFill`:
   `UnitIsTheError` proves that the unit is all that is wrong.
6. **The rate correction overflows at full speed.** 342 per mille off target, the
   product of error and nominal rate leaves an `i32`, and the DMA example
   slows the host down while the ring runs low.

Observations that no property states, since nothing in the source says otherwise:

- One `None` from `feedback()` ends feedback: the next call would come from the
  completion of the packet that was not sent. The contract has it as `Lapse`.
- The DMA flag of a stopped stream survives into the next one, whose first
  interrupt then counts a slot that was not played, or reports an underrun. `Exclusive`
  holds all the same, with one slot less to spare.
- `consumed_bytes` counts a slot twice if it reads the transfer count after the last
  transfer and before the reload, with that slot's interrupt already taken. It can
  thus be a slot ahead (`ReadingNear`), and `feedback` may report an underrun there is not.
- Two DMA interrupts that become one leave the software a slot behind until the
  next start. An underrun replays old audio: the silence of `init` lasts one turn.
- `consumed < produced` and `produced_bytes < consumed_bytes` do not survive the
  counters' wrap (25 days of slots, 93 minutes of bytes at 96 kHz).
- Stopping the interrupt example's output leaves its queue full; the next stream
  begins with the rest of the last.
- Terminal ids are `base_id` and `base_id + 1`, not the fixed numbers of
  `src/lib.rs:542-549`; the clock's is always 1, whatever `clock_source_id` names.
- `build` ignores `sync_type` and `lock_delay`.

## Proofs

### The class

For every value of the constants that meets `ClassAssumption` and
`PacketAssumption` (any set of requests, packet sizes up to the endpoint's size,
rates, speeds, handlers, clocks and streams). They are assumptions on types and
ranges only: at most 200 earlier interfaces (a `u8` holds their numbers), a
control buffer of at least 64 bytes, no packet above its endpoint's size.

`IInv`, the inductive invariant, is the type invariant with `HostAgreesHandler`,
`StaleOnlyWhileStopped`, `CycleAlive`, `SpinOnlyIdle` and `NominalIsClock`.
`CycleAlive` and agreement are not inductive alone: a `SET_INTERFACE` that finds
its setting stored does nothing, which is harmless only because a stored setting
other than the handler's belongs to a stopped stream. `SpinOnlyIdle` needs the
same fact to go from the class's settings, which `poll` reads, to the handler's.
`Inductive` has a lemma per kind of step; `FillFacts` carries what a handler call
does to an endpoint.

| Theorem | States |
|---|---|
| `Invariance` | `Spec => []IInv` |
| `TypeCorrect`, `Agreement`, `ClassLags`, `NeverStarved`, `PollReturns`, `NominalTracksClock` | the parts of it that the runs check |
| `StopAgreed` | `[]StopIsUnanimous`, inductive relative to `IInv` |
| `NoAudioDrained` | the action property `DiscardOnlyIdle` |
| `Refinement` | `Spec => ImplementsContract`: each step is a step of `AudioHandlerContract` or a stutter |
| `AlwaysAskedAgain` | the contract implies `RunningIsPrimed`, whatever implements it |

### The ring

For every ring of at least two slots, gap of at least one, slot of at most 1023
transfers and set of packets (`RingAssumption`). The invariant puts the three
parties on one circle: the producer is `fill_slots` beyond `read_slot`, the hardware
one beyond it if an interrupt is pending and one before it if `sync` is "ahead".
Between producer and hardware there are then `Unplayed` slots. `InStep` says that
there is at least one while the channel runs, which needs the fact that a channel
is first enabled by a half-full ring; `Level` says that there are at most `N - 1`
while the producer copies, which needs its check for room to outlast the
interrupts that follow. Equal slots would mean 0 or `N`.

| Theorem | States |
|---|---|
| `Invariance` | `Spec => []IInv` |
| `TypeCorrect` | `[]TypeOK` |
| `NeverTorn` | `[]Exclusive` |
| `Refinement` | `Spec => ImplementsQueue`: `Publish` appends, the last `Transfer` of a slot takes the head, `Start` restarts, losing count breaks |
| `CountersAgree` | `[]BytesAgree` |
| `ReadingSettles` | `[]ReadingNear`: while the interrupt's count accounts for every slot played, what `consumed_bytes()` returns to the USB task is less than two slots behind the hardware and at most one ahead |
| `StaysOff` | `[]OffWhileStopped`: channel off and interrupt masked |

`Bytes` follows a packet through the callback: what is pushed, published and
dropped so far, in the counter's remainders, with slot size and `Wrap` as variables.
`DivisionLemmas` has what that takes: a remainder may be reduced at any time, equal
remainders move alike. `Reads` bounds what the first read of the transfer count can
return; what is left of `ReadingNear` is where slots and transfers lie on the
counter's circle (`Apart`). `StaysOff` needs `PacketAssumption`, packets below half the
ring: the buffer `audio_data_rx` reads into takes 97 frames, half the ring is 192.
`LeftOver` then says how much of a ring can be filled by one packet that arrives
after the stop.

### The playback queue

For every queue, FIFO and counter of a whole number of frames, the counter more than
twice the queue, and packets of whole frames that fit the queue
(`PlaybackAssumption`). `OutFillExact` speaks only of the moment between the two loads
of `feedback`, so it is not inductive. `IInv` says instead
that `produced - consumed`, as the signed difference the code takes, is the
queue's length less what is committed and not counted (`Accounted`); that a grant
still fits when it is committed, whatever the interrupt released meanwhile
(`Granted`); and that the indices are whole frames with nothing beyond the mark
(`WellFormed`). The last is what keeps `AtFront` and `release` from ever meeting half a
frame at the end of the ring.

| Theorem | States |
|---|---|
| `Invariance` | `Spec => []IInv` |
| `TypeCorrect` | `[]TypeOK` |
| `LevelExact` | `[]OutFillExact` |

### The recording queue

For every queue, FIFO, packet and thresholds, the counter more than twice the queue
(`Sizes`, which `EvkRecording.cfg` meets). `Counted` is the account: modulo the width,
`PRODUCED_IN` is 8 times `CONSUMED_IN` and what is released and not counted, plus the
bytes in the queue. It survives a release before its count, a wrap of either counter
(`ReduceFrames`), the gap at the end of the ring and a commit of twice the grant
(`ProduceAdds`). `Loaded` keeps it for the time between the two loads, in which the
interrupt may add frames.

| Theorem | States |
|---|---|
| `Invariance` | types; the queue holds whole frames; a packet never outgrows the `buf` of `audio_data_tx` |
| `CountersFollowQueue` | `[]Counted` |
| `UnitIsTheError` | between the loads, `loaded - consumed` is the level in bytes plus seven bytes for every frame ever sent (`DifferenceDrifts`); with 8 times `CONSUMED_IN` the quotient is the level (`ScaledIsLevel`) |

They restrict no run's property: the component's only run is the violation of
finding 5, which the last theorem explains.

### The rate loop

For the examples' two setups on the two buses (`SetupAssumption`), any drifts up to
1 %, losses and run lengths. Unlike the runs, the theorems hold for every drift in
the range, not for five of them, and for a loss in any millisecond.

| Theorem | States | Assumes |
|---|---|---|
| `TypeCorrect` | `[]TypeOK`: the level stays in the buffer, the fractions below a frame, the rate asked for within the controller's clamp | |
| `WorksAgainstError` | `[]Opposes` | `InWidth`: not the DMA example at full speed, where `rate_full_speed` refutes it |
| `RingHolds` | `[]InRing`: the DMA example's ring (96 kHz) on a high-speed bus | `BusClocks`: `InWidth`, which leaves out the DMA example at full speed, and clocks within 1000 ppm, beyond two crystals |
| `LevelSettles` | `[]Settles` | `BusClocks`, and a `Settling` of at least 4000 ms |
| `HeardAsTold` | the host hears the rate asked for, within 2/65536 frame: neither the rounding to 10.14 nor the cut to three bytes costs more | |

`MulExact` is the fixed-point lemma: a product that fits in 32 bits is not changed by
`MulI32`. `RingHolds` is about `Fluid`, the level with the fractions of a frame that host
and clock have not settled, as an integer. A millisecond moves `Fluid` by drift and
correction only. `Held`: it stays between 31 and 243 frames, and above 129 until the
lost millisecond takes its 97. Below 142 frames the correction is at least 787
units (`Correction`), which is more than 1000 ppm, so the level rises; above 242 it
falls likewise; in between one step cannot cross the line.

`LevelSettles` is about `Offset`, the same level from the target, and about `Band`, two
frames and what the controller needs to balance the drift. `Returning`, the
inductive invariant, says that the level is never above the band (it starts below, a
loss only takes frames, and the answer to a level above the target never
overshoots), and that it is below it by no more than can be made up in the time
left (`Timely`). Below the band a millisecond shrinks the `Depth` by 1/512 of itself and
a bit, or by the clamp less the drift (`DmaAnswers`, `EvkAnswers`). The exact time that
takes is a logarithm; `Timely` bounds it by eight straight legs, from 48 frames down to
none, and `Onward` follows them. From an empty buffer they take 3998 ms at most.
The run shows 2.5 s for its drifts, the theorem 4 s for every drift and any lost
millisecond; the legs are the same for both controllers, so the slower one and the
widest rounding set the bound.

### Descriptors

For every set of jobs made of descriptors with any number of sources and any ids,
written either way into buffers of any size (`JobAssumption`). `IInv` says that
what is finished is the first `item - 1` items of the job, each in full, and that
`pos` is the sum of their payloads and of the fields before the one that is due, or
else the buffer is full and that sum is beyond it: a slice was cut, and the next
field, which every payload has, will fail. The last field of no payload is a slice,
which is why `NothingCut` holds although `Cursor::write` reports success.

| Theorem | States | Assumes |
|---|---|---|
| `Invariance` | `Spec => []IInv` | |
| `TypeCorrect` | `[]TypeOK` | |
| `NothingCut` | `[]NoSilentTruncation` | |
| `HonestErrors` | `[]OverflowIsHonest` | |
| `TrueLengths` | `[]LengthsTruthful` | `AllSized`: no unit of finding 4, at most 248 sources |
| `TrueTotals` | `[]TotalTruthful` | `AllSized`; one header per job; buffers below 64 KiB (`Addressable`) |
| `WellConnected` | `[]TopologyConnected` | a job with an AC header is `get_configuration_descriptors` with `OwnIds` |

The first three hypotheses delimit what the code can represent: `size()` is a `u8`,
`wTotalLength` a `u16`, and `usb-device`'s buffers are a few hundred bytes. `OwnIds` is
what the crate's documentation asks of its caller (`src/lib.rs:18`): base ids of at
least 2 whose pairs do not overlap, below 255, additional descriptors with
ids of their own that refer to what exists. The jobs of the `descriptors` run meet
all four. `WellConnected` is then about every choice of ids, streams and any
number of additional descriptors, where the run has a handful.

Lengths and totals are sums over sequences. `Sum` is a recursive function, and the
facts about it (`SumsExist`, `UpToSums`, `Totals`) go by induction: the library's
theorem takes a predicate, which the provers cannot instantiate, so `Induction` states
it for sets of numbers and derives it from the well-foundedness of `<`.

### Model-checked only

`StreamsKeepFlowing` and `PlaybackAdvances` (liveness under fairness is beyond TLAPS);
`Settles` for a `Settling` between 2.5 s and 4 s; and the violations. Every other
property that a passing run checks is proved.

## Plan

Done: the class, the contract, descriptors and topology, both examples, the rate
loop, and a proof of every invariant and action property that the passing runs
check. Left:

1. `BipQueue`: that grants, commits and releases implement a queue of words, as a
   refinement of its own, in place of the lemmas both examples' proofs have of it.
2. `LevelSettles` from 2.5 s on, with legs of their own for each setup.

## Not modelled

- `new_float` for rates that are no whole number of frames per packet (`f32`
  rounding), and `new_frac`;
- in the DMA example: a start without a stop before it (a host that selects a setting
  without descriptor and comes back), the setters of slot size and safety gap
  (unused once a stream runs), the error interrupt (it only logs),
  `DmaRing::consumed_bytes` the field, which is written and never read, and slots
  of 1024 transfers or more, which the transfer count cannot represent;
- a SET_CONFIGURATION while a stream runs (see the class runs);
- values of descriptor fields other than ids, `bLength` and `wTotalLength`;
- `src/constants.rs` beyond the codes the class reads, `src/log.rs`, and the board
  support of the examples: tables, macros and register set-up without state.
