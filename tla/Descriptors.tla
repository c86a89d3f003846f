----------------------------- MODULE Descriptors -----------------------------
(***************************************************************************)
(* Writing class-specific descriptors (src/descriptors.rs, src/cursor.rs)  *)
(* and the configuration descriptor built of them (src/lib.rs,             *)
(* get_configuration_descriptors), field by field into a bounded buffer.   *)
(*                                                                         *)
(* A job is a sequence of items and a way to write them: "writer" is       *)
(* usb-device's DescriptorWriter, which fills bLength in afterwards, "io"  *)
(* is Descriptor::write, which writes size() first.  Of what the fields    *)
(* hold, the module keeps the ids of entities and the references to them.  *)
(***************************************************************************)
EXTENDS Integers, Sequences, Functions

CONSTANTS
  Jobs,   \* the jobs to consider
  Rooms   \* sizes of the buffer

VARIABLES
  job,       \* the job under way
  room,      \* size of its buffer
  item,      \* index of the item being written
  field,     \* index of its next payload field; 0 before its first two bytes
  pos,       \* bytes written
  start,     \* pos where the item began
  finished,  \* what has been written of the job: item, bLength, bytes
  status     \* "writing", "ok" or "overflow"

vars == <<job, room, item, field, pos, start, finished, status>>

-----------------------------------------------------------------------------
(* Fields.  write_u8, write_u16 and write_u32 are write_all: everything or *)
(* an error.  write() of a slice writes what fits, and fails only if that  *)
(* is nothing.                                                             *)
Slice(n) == [bytes |-> n, whole |-> FALSE]

(* Mutant: integers are written with write() as well.                      *)
Partly(n) == Slice(n)
Whole(n) == [bytes |-> n, whole |-> TRUE]
U8 == Whole(1)
U16 == Whole(2)
U32 == Whole(4)

(* Sums of a sequence of numbers up to each of its positions.              *)
UpTo(values) ==
  LET sum[n \in 0..Len(values)] == IF n = 0 THEN 0 ELSE sum[n - 1] + values[n]
  IN  sum
Sum(values) == UpTo(values)[Len(values)]

Bytes(fields) == [k \in 1..Len(fields) |-> fields[k].bytes]
BytesIn(fields) == Sum(Bytes(fields))

-----------------------------------------------------------------------------
(* Items: descriptors by name, with the number of sources where they have  *)
(* a variable part (0 elsewhere).  Blocks go to the writer in one piece.   *)
(* An entity has an id; source, clock and link are references to entities. *)
None == 0
Items == [name : STRING, n : Nat, id : Nat, usb : BOOLEAN,
          source : Nat, clock : Nat, link : Nat]
Item(name, n) ==
  [name |-> name, n |-> n, id |-> None, usb |-> FALSE,
   source |-> None, clock |-> None, link |-> None]
Fixed(name) == Item(name, 0)

(* write_payload: what follows bLength and bDescriptorType.                *)
BlockPayload ==
  [InterfaceAssociation |-> <<Whole(6)>>, Interface |-> <<Whole(7)>>,
   Endpoint |-> <<Whole(5)>>, ACHeader |-> <<Whole(7)>>]

EntityPayload ==
  [ClockSource |-> <<U8, U8, U8, U8, U8, U8>>,
   ClockMultiplier |-> <<U8, U8, U8, U8, U8>>,
   InputTerminal |-> <<U8, U8, U16, U8, U8, U8, Slice(4), U8, U8, U8, U8>>,
   OutputTerminal |-> <<U8, U8, U16, U8, U8, U8, U8, U8, U8>>]

StreamPayload ==
  [FormatType1 |-> <<U8, U8, U8, U8>>,
   ASInterface |-> <<U8, U8, U8, U8, U32, U8, Slice(4), U8>>,
   ASEndpoint |-> <<U8, U8, U8, U8, U16>>]

HeaderPayload == [IfaceHeader |-> <<U8, U8, U8, U8, U16, U8>>]

UnitPayload(n) ==
  [ClockSelector |-> <<U8, U8, U8, Slice(n), U8, U8>>,
   SelectorUnit |-> <<U8, U8, U8, Slice(n), U8, U8>>,
   ProcessingUnit |-> <<U8, U8, U16, U8, Slice(n), U8, Slice(4), U8, U16, U8>>,
   ExtensionUnit |-> <<U8, U8, U16, U8, Slice(n), U8, Slice(4), U8, U8, U8>>]

Payload(i) ==
  CASE i.name \in DOMAIN BlockPayload -> BlockPayload[i.name]
    [] i.name \in DOMAIN EntityPayload -> EntityPayload[i.name]
    [] i.name \in DOMAIN StreamPayload -> StreamPayload[i.name]
    [] i.name \in DOMAIN HeaderPayload -> HeaderPayload[i.name]
    [] OTHER -> UnitPayload(i.n)[i.name]

(* size(), a u8.  Mutant: the sources are not counted.                     *)
BaseSize ==
  [ClockSource |-> 8, ClockMultiplier |-> 7, InputTerminal |-> 17, OutputTerminal |-> 12,
   FormatType1 |-> 6, ASInterface |-> 16, ASEndpoint |-> 8, IfaceHeader |-> 9,
   ClockSelector |-> 7, SelectorUnit |-> 7, ProcessingUnit |-> 17, ExtensionUnit |-> 16]
SizeNoSources(i) == BaseSize[i.name]
size(i) == (BaseSize[i.name] + i.n) % 256

Names == DOMAIN BlockPayload \cup DOMAIN BaseSize
ASSUME JobAssumption ==
  /\ Jobs \subseteq [items : Seq({i \in Items : i.name \in Names}), via : {"writer", "io"}]
  /\ Rooms \subseteq Nat

(* The length of the AC header and the size() of every descriptor after it *)
(* up to the streams, a u16.  Mutant: the header's own is forgotten.       *)
Headers == {"ACHeader", "IfaceHeader"}
AfterHeader(i) == i.name \in DOMAIN EntityPayload
Sizes(items) ==
  [k \in 1..Len(items) |-> IF AfterHeader(items[k]) THEN size(items[k]) ELSE 0]
TotalOfBodies(items) == Sum(Sizes(items)) % 65536
total_length(items) == (9 + Sum(Sizes(items))) % 65536

(* TerminalConfig::builder(): base_id must be given, the clock source is 1 *)
(* if it is not.                                                           *)
build(base_id, clock_source_id) ==
  [base_id |-> base_id,
   clock_source_id |-> IF clock_source_id = None THEN 1 ELSE clock_source_id]

(* The terminals of a stream, input terminal first: the USB side has the   *)
(* base id, the audio side the next (a u8).  Mutant: both terminals of the *)
(* input stream take their ids the other way round.                        *)
Side(name, id, usb, source, config) ==
  [Fixed(name) EXCEPT !.id = id, !.usb = usb, !.source = source,
                      !.clock = config.clock_source_id]
NextId(config) == (config.base_id + 1) % 256
OutTerminals(c) ==
  <<Side("InputTerminal", c.base_id, TRUE, None, c),
    Side("OutputTerminal", NextId(c), FALSE, c.base_id, c)>>
SwappedTerminals(c) ==
  <<Side("InputTerminal", c.base_id, FALSE, None, c),
    Side("OutputTerminal", NextId(c), TRUE, c.base_id, c)>>
InTerminals(c) ==
  <<Side("InputTerminal", NextId(c), FALSE, None, c),
    Side("OutputTerminal", c.base_id, TRUE, NextId(c), c)>>

clock_configuration_descriptor(id) == [Fixed("ClockSource") EXCEPT !.id = id]

(* get_configuration_descriptors: a configuration with or without the two  *)
(* streams, with additional descriptors.  usb-device leaves the interface  *)
(* association out unless the device was built to have one (iads).         *)
Absent == [base_id |-> None, clock_source_id |-> None]
Stream(config) ==
  <<Fixed("Interface"), Fixed("Interface"),
    [Fixed("ASInterface") EXCEPT !.link = config.base_id], Fixed("FormatType1"),
    Fixed("Endpoint"), Fixed("ASEndpoint")>>
If(built, items) == IF built THEN items ELSE <<>>
get_configuration_descriptors(iads, input, output, additional) ==
  If(iads, <<Fixed("InterfaceAssociation")>>)
    \o <<Fixed("Interface"), Fixed("ACHeader"), clock_configuration_descriptor(1)>>
    \o If(output # Absent, OutTerminals(output))
    \o If(input # Absent, InTerminals(input))
    \o additional
    \o If(input # Absent, Stream(input))
    \o If(output # Absent, Stream(output) \o <<Fixed("Endpoint")>>)

(* AudioClassInterfaceDescriptor: header and descriptors, without a writer.*)
interface_descriptor(inner) == <<Fixed("IfaceHeader")>> \o inner

-----------------------------------------------------------------------------

Init ==
  /\ job \in Jobs
  /\ room \in Rooms
  /\ item = 1 /\ field = 0
  /\ pos = 0 /\ start = 0
  /\ finished = <<>>
  /\ status = "writing"

Current == job.items[item]
Writing == status = "writing" /\ item <= Len(job.items)

(* The first two bytes.  write_with() refuses when they do not fit and     *)
(* leaves room for them otherwise; write() puts size() and type there.     *)
(* After a refusal or a failed field the job is over: how much of the item *)
(* is in the buffer then is of no use to anyone.                           *)
PrefixFits == pos + 2 <= room

BeginItem ==
  /\ Writing /\ field = 0
  /\ start' = pos
  /\ IF PrefixFits
       THEN pos' = pos + 2 /\ field' = 1 /\ UNCHANGED status
       ELSE status' = "overflow" /\ UNCHANGED <<pos, field>>
  /\ UNCHANGED <<job, room, item, finished>>

(* Cursor::write, alone or under write_all, which goes on until everything *)
(* is written or nothing more is.  Mutant: the rest of the slice is not    *)
(* looked at.                                                              *)
Free == room - pos
Wanted(a, b) == a
Shorter(a, b) == IF a < b THEN a ELSE b

(* Mutant: a field that just fits is refused.                              *)
FailsTight(f) == f.bytes >= Free /\ (f.whole \/ Free = 0)
Fails(f) == f.bytes > Free /\ (f.whole \/ Free = 0)

WriteField ==
  /\ Writing /\ field \in 1..Len(Payload(Current))
  /\ LET f == Payload(Current)[field]
     IN  /\ pos' = pos + Shorter(f.bytes, Free)
         /\ IF Fails(f)
              THEN status' = "overflow" /\ UNCHANGED field
              ELSE field' = field + 1 /\ UNCHANGED status
  /\ UNCHANGED <<job, room, item, start, finished>>

(* bLength: what the writer counted, or what size() said before.           *)
FinishItem ==
  /\ Writing /\ field = Len(Payload(Current)) + 1
  /\ finished' = Append(finished,
       [item |-> Current, bytes |-> pos - start,
        bLength |-> IF job.via = "writer" \/ Current.name \in DOMAIN BlockPayload
                      THEN (pos - start) % 256 ELSE size(Current)])
  /\ item' = item + 1 /\ field' = 0
  /\ UNCHANGED <<job, room, pos, start, status>>

Finish ==
  /\ status = "writing" /\ item > Len(job.items)
  /\ status' = "ok"
  /\ UNCHANGED <<job, room, item, field, pos, start, finished>>

Next ==
  \/ BeginItem
  \/ WriteField
  \/ FinishItem
  \/ Finish

Spec == Init /\ [][Next]_vars

-----------------------------------------------------------------------------
(* Properties                                                              *)

(* Positions stay in the buffer and in the job.                            *)
TypeOK ==
  /\ pos \in 0..room /\ start \in 0..pos
  /\ item \in 1..Len(job.items) + 1
  /\ field \in 0..Len(Payload(Item("InputTerminal", 0))) + 1
  /\ Len(finished) = item - 1
  /\ status \in {"writing", "ok", "overflow"}

(* bLength of every descriptor is the number of bytes it occupies: a host  *)
(* that walks the buffer by bLength never loses its step ("The actual size *)
(* of the descriptor").                                                    *)
LengthsTruthful ==
  \A i \in DOMAIN finished : finished[i].bLength = finished[i].bytes

(* wTotalLength, written before the descriptors it counts, is what they    *)
(* then occupy ("Total length of the interface descriptor and all its      *)
(* associated descriptors").                                               *)
Counted(i) == AfterHeader(i) \/ i.name \in Headers
CountedBytes ==
  [k \in 1..Len(finished) |-> IF Counted(finished[k].item) THEN finished[k].bytes ELSE 0]
TotalTruthful ==
  status = "ok" /\ (\E d \in Range(finished) : d.item.name \in Headers)
    => total_length(job.items) = Sum(CountedBytes)

(* A descriptor that was finished was written in full.  Cursor::write may  *)
(* write part of a slice and report success; no descriptor ends there.     *)
NoSilentTruncation ==
  \A i \in DOMAIN finished :
    finished[i].bytes = 2 + BytesIn(Payload(finished[i].item))

(* Writing fails exactly when the buffer is too small for the job.         *)
Needs(items) == [k \in 1..Len(items) |-> 2 + BytesIn(Payload(items[k]))]
Needed == Sum(Needs(job.items))
OverflowIsHonest ==
  /\ status = "overflow" => room < Needed
  /\ status = "ok" => pos = Needed

(* In a configuration written in full the entities have distinct ids, and  *)
(* whatever refers to one refers to one that is there: terminals to their  *)
(* source and clock, a streaming interface to the USB side of its stream   *)
(* ("Always the USB streaming terminal id").                               *)
Entities == {d.item : d \in {e \in Range(finished) : e.item.id # None}}
Ids == {e.id : e \in Entities}
NoIds == {None} \cup Ids
TopologyConnected ==
  status = "ok" /\ Fixed("ACHeader") \in {d.item : d \in Range(finished)}
    => /\ \A d, e \in Entities : d.id = e.id => d = e
       /\ \A d \in Entities : d.source \in NoIds /\ d.clock \in NoIds
       /\ \A d \in {f.item : f \in Range(finished)} :
            d.link # None => \E e \in Entities : e.id = d.link /\ e.usb

=============================================================================
