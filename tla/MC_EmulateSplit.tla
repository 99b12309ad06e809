---------------------------- MODULE MC_EmulateSplit ----------------------------
(* A rig, wrapped or not: one receive dial, a transmit dial that comes and goes, and tune  *)
(* commands to a rig that is not wrapped.                                                  *)
EXTENDS EmulateSplitTransceiver
CONSTANT Tx, Fs, Rb
mcReadback == [f \in Frequencies |-> IF Rb = 0 THEN f ELSE Rb]
mcRequests ==
    {s \in TransceiverState :
        /\ s.online /\ s.mode = UNK /\ s.audio \in AudioSettings
        /\ s.frequency \in Fs /\ s.tx_frequency \in Tx /\ s.split = (s.tx_frequency # 0)}

\* what the properties of the emulation are stated for: no audio commands
mcNext == Next /\ (emulating => object'.requested.audio = Untouched)
mcSpec == Init /\ [][mcNext]_vars /\ WF_vars(Poll \/ LatePoll)
=============================================================================
