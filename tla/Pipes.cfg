SPECIFICATION Spec
CONSTANTS
    Programs = {"one_file", "pjsua_file", "ring", "phone", "splitcomb",
                "left_right", "ics", "sound_conf", "pjsua_sound", "mic",
                "sip"}
    MaxFrames = 4
    Burst = 2
INVARIANTS
    
    CrashNeedsFailure
PROPERTIES
    SkipsOnlyDropped
    HeardAtLast
