--------------------- MODULE AudioHandlerContractProofs ---------------------
(***************************************************************************)
(* What follows from the contract alone, so for anything that implements   *)
(* it: UsbAudioClassProofs!Refinement shows that the class does.           *)
(***************************************************************************)
EXTENDS AudioHandlerContract, TLAPS

(* Settings and cycles keep their types.                                   *)
LEMMA ContractTyped ==
  ASSUME ContractAssumption
  PROVE  ContractSpec => []ContractTypeOK
  <1>1. ContractInit => ContractTypeOK
    BY Zenon DEF ContractInit, ContractTypeOK, ContractAssumption
  <1>2. ContractTypeOK /\ [ContractNext]_contractVars => ContractTypeOK'
    <2> SUFFICES ASSUME ContractTypeOK, [ContractNext]_contractVars
                 PROVE  ContractTypeOK'
      OBVIOUS
    <2>1. ASSUME NEW d \in Dirs, NEW a \in Settings, Announce(d, a)
          PROVE  ContractTypeOK'
      BY <2>1, Zenon DEF Announce, ContractTypeOK
    <2>2. ASSUME NEW d \in Dirs, Lapse(d) PROVE ContractTypeOK'
      BY <2>2, Zenon DEF Lapse, ContractTypeOK
    <2>3. CASE Disconnect
      BY <2>3, Zenon DEF Disconnect, ContractTypeOK, ContractAssumption
    <2>4. CASE UNCHANGED contractVars
      BY <2>4 DEF contractVars, ContractTypeOK
    <2> QED
      BY <2>1, <2>2, <2>3, <2>4 DEF ContractNext
  <1> QED
    BY <1>1, <1>2, PTL DEF ContractSpec

(* A running stream whose handler never declines is always primed: its     *)
(* start primes it, and neither a lapse nor another stream's step unprimes *)
(* it (trait AudioHandler: feedback, audio_data_tx).                       *)
THEOREM AlwaysAskedAgain ==
  ASSUME ContractAssumption
  PROVE  ContractSpec => []RunningIsPrimed
  <1>1. ContractInit => RunningIsPrimed
    BY DEF ContractInit, RunningIsPrimed
  <1>2. ContractTypeOK /\ RunningIsPrimed /\ [ContractNext]_contractVars
          => RunningIsPrimed'
    <2> SUFFICES ASSUME ContractTypeOK, RunningIsPrimed, [ContractNext]_contractVars
                 PROVE  RunningIsPrimed'
      OBVIOUS
    <2>1. ASSUME NEW d \in Dirs, NEW a \in Settings, Announce(d, a)
          PROVE  RunningIsPrimed'
      BY <2>1, Zenon DEF Announce, ContractTypeOK, RunningIsPrimed
    <2>2. ASSUME NEW d \in Dirs, Lapse(d) PROVE RunningIsPrimed'
      BY <2>2, Zenon DEF Lapse, ContractTypeOK, RunningIsPrimed
    <2>3. CASE Disconnect
      BY <2>3 DEF Disconnect, RunningIsPrimed
    <2>4. CASE UNCHANGED contractVars
      BY <2>4 DEF contractVars, RunningIsPrimed
    <2> QED
      BY <2>1, <2>2, <2>3, <2>4 DEF ContractNext
  <1> QED
    BY <1>1, <1>2, ContractTyped, PTL DEF ContractSpec

=============================================================================
