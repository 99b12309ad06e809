--------------------------- MODULE MC_TransceiverBase ---------------------------
EXTENDS TransceiverBase
CONSTANT Tx, Fs, Rb
mcReadback == [f \in Frequencies |-> Rb]
mcRequests == {s \in TransceiverState : s.online /\ s.mode = UNK /\ s.frequency \in Fs /\ s.tx_frequency \in Tx /\ s.split = (s.tx_frequency # 0)}
=============================================================================
