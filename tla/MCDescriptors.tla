---------------------------- MODULE MCDescriptors ----------------------------
(***************************************************************************)
(* Jobs for TLC: every configuration with up to one additional descriptor, *)
(* an interface descriptor, and each descriptor on its own.                *)
(***************************************************************************)
EXTENDS Descriptors

AudioClassDescriptors ==
  {Fixed(n) : n \in {"ClockSource", "ClockMultiplier", "InputTerminal", "OutputTerminal"}}

(* The ids of the examples, and others: at least two apart, above the      *)
(* clock's 1 and below 255, none of which the code checks.                 *)
Streams(base_id) == {Absent, build(base_id, None)}
UserDescriptor(d) == [d EXCEPT !.id = 6, !.clock = 1]
Configurations ==
  {[items |-> get_configuration_descriptors(g, i, o, a), via |-> "writer"] :
     g \in BOOLEAN, i \in Streams(4), o \in Streams(2),
     a \in {<<>>} \cup {<<UserDescriptor(d)>> : d \in AudioClassDescriptors}}
OtherIds ==
  {[items |-> get_configuration_descriptors(TRUE, build(i, 1), build(o, None), <<>>),
    via |-> "writer"] : <<i, o>> \in {<<2, 4>>, <<253, 8>>, <<7, 9>>}}

InterfaceDescriptors ==
  {[items |-> interface_descriptor(<<c, d>>), via |-> "io"] :
     c \in AudioClassDescriptors, d \in AudioClassDescriptors}

Alone(items) == {[items |-> <<i>>, via |-> "io"] : i \in items}
SmallDescriptors ==
  AudioClassDescriptors
    \cup {Item(n, k) : n \in {"ClockSelector", "SelectorUnit"}, k \in 0..2}
    \cup {Fixed(n) : n \in {"FormatType1", "ASInterface", "ASEndpoint"}}

AllJobs == Configurations \cup OtherIds \cup InterfaceDescriptors \cup Alone(SmallDescriptors)
AllRooms == 0..36 \cup 100..230

UnitJobs == Alone({Item(n, k) : n \in {"ProcessingUnit", "ExtensionUnit"}, k \in 0..2})
UnitRooms == 15..19
=============================================================================
