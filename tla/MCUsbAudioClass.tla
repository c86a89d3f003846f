--------------------------- MODULE MCUsbAudioClass ---------------------------
(***************************************************************************)
(* Small instances of UsbAudioClass for TLC.  One earlier interface puts   *)
(* the control, output and input interfaces at 1, 2 and 3, so that none of *)
(* them is the 0 of an unset field.                                        *)
(***************************************************************************)
EXTENDS UsbAudioClass

Setup(dir, type, request, index, value, data, length) ==
  [dir |-> dir, type |-> type, recipient |-> "Interface", request |-> request,
   index |-> index, value |-> value, data |-> data, length |-> length]

(* Stop, start, start at another setting; interfaces of both streams.      *)
SettingRequests ==
  {Setup("out", "Standard", SET_INTERFACE, i, a, NoData, 0) : i \in {2, 3}, a \in 0..2}

(* An interface of another class, a setting beyond a byte (seen as its     *)
(* low byte), and the same code as a class request.                        *)
OddSettingRequests ==
  {Setup("out", "Standard", SET_INTERFACE, 4, 1, NoData, 0),
   Setup("out", "Standard", SET_INTERFACE, 3, 257, NoData, 0),
   Setup("out", "Class", SET_INTERFACE, 3, 1, NoData, 0)}

GetRequests ==
  {Setup("in", "Standard", GET_INTERFACE, i, 0, NoData, 1) : i \in {2, 3}}

(* Entity and interface share wIndex, control and channel share wValue.    *)
ClockIndex == 256 * ClockEntity + 1

SetRateRequests(rates) ==
  {Setup("out", "Class", Cur, ClockIndex, 256 * SamFreqControl, r, 4) : r \in rates}

ClockRequests ==
  {Setup("out", "Class", Cur, 512 + 1, 256 * SamFreqControl, 48000, 4),
   Setup("out", "Class", Cur, ClockIndex, 256 * ClockValidControl, 48000, 4),
   Setup("in", "Class", Cur, ClockIndex, 256 * SamFreqControl, NoData, 4),
   Setup("in", "Class", Cur, ClockIndex, 256 * ClockValidControl, NoData, 1),
   Setup("in", "Class", Range_, ClockIndex, 256 * SamFreqControl, NoData, 2),
   Setup("in", "Class", Range_, ClockIndex, 256 * SamFreqControl, NoData, 62),
   Setup("in", "Vendor", Cur, ClockIndex, 256 * SamFreqControl, NoData, 4)}

MCRates == {44100, 48000}
AllRequests ==
  SettingRequests \cup OddSettingRequests \cup GetRequests \cup ClockRequests
    \cup SetRateRequests(MCRates \cup {NoData})
StreamRequests == SettingRequests
FeedbackRequests == SettingRequests \cup SetRateRequests(MCRates)
BothDirs == {"In", "Out"}
SmallPackets == {0, 8}
AnyPackets == {0, 1544}
=============================================================================
