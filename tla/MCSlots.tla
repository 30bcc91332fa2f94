-------------------------------- MODULE MCSlots --------------------------------
EXTENDS SlotExchange

\* The fewest slots a segment has (default_slots_for_bytes)
TwoSlots == [s \in Segment |-> 2]

================================================================================
