------------------------ MODULE AudioHandlerContract ------------------------
(***************************************************************************)
(* What the class promises an implementor of the AudioHandler trait        *)
(* (src/lib.rs, trait AudioHandler), without saying how the class keeps    *)
(* the promise: no USB requests, no endpoints, no completion events.       *)
(*                                                                         *)
(* Each direction has the alternate setting the handler was last told and  *)
(* a cycle of IN packets towards the host: audio data for "In", rate       *)
(* feedback for "Out".  A cycle is primed while a packet of it is with the *)
(* endpoint or its completion is about to ask the handler for the next.    *)
(***************************************************************************)
EXTENDS Integers

CONSTANTS
  Dirs,       \* the stream directions of a device
  Settings,   \* alternate settings a host can select; 0 stops the stream
  MayDecline  \* directions whose handler may leave a call without a packet

(* What an instance must bring along: a setting that stops a stream.       *)
ContractAssumption ==
  /\ 0 \in Settings
  /\ MayDecline \subseteq Dirs

VARIABLES
  setting,    \* the setting the handler was last told, per direction
  primed      \* whether the direction's IN cycle is going

contractVars == <<setting, primed>>

ContractTypeOK ==
  /\ setting \in [Dirs -> Settings]
  /\ primed \in [Dirs -> BOOLEAN]

ContractInit ==
  /\ setting = [d \in Dirs |-> 0]
  /\ primed = [d \in Dirs |-> FALSE]

(* A setting is announced.  Starting a stream at the setting it already    *)
(* runs at never happens; a stopped stream may be stopped once more.  The  *)
(* announcement starts the cycle unless the handler declines.              *)
Announce(d, a) ==
  /\ a # setting[d] \/ a = 0
  /\ setting' = [setting EXCEPT ![d] = a]
  /\ \/ primed' = [primed EXCEPT ![d] = TRUE]
     \/ d \in MayDecline /\ primed' = primed

(* A completion asks for the next packet and the handler has none to give. *)
Lapse(d) ==
  /\ d \in MayDecline
  /\ primed[d]
  /\ primed' = [primed EXCEPT ![d] = FALSE]
  /\ setting' = setting

(* The bus is reset: every stream is stopped and nothing is in flight.     *)
Disconnect ==
  /\ setting' = [d \in Dirs |-> 0]
  /\ primed' = [d \in Dirs |-> FALSE]

ContractNext ==
  \/ \E d \in Dirs, a \in Settings : Announce(d, a)
  \/ \E d \in Dirs : Lapse(d)
  \/ Disconnect

ContractSpec == ContractInit /\ [][ContractNext]_contractVars

-----------------------------------------------------------------------------

(* The handler of a running stream that always has a packet to give is     *)
(* asked for the next one again and again: its cycle is never lost.        *)
RunningIsPrimed ==
  \A d \in Dirs \ MayDecline : setting[d] # 0 => primed[d]

=============================================================================
