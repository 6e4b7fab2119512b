SPECIFICATION Spec
CONSTANTS
    Source = {"timer_1", "timer_2", "ext_peri"}
    Pulse = {"timer_1", "timer_2"}
    ResetEnable = {"timer_1", "timer_2"}
    MaxRaise = 1
PROPERTIES
    ClearsOnlyItsBit
