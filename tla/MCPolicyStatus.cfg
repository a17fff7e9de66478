SPECIFICATION SSpec
CONSTANTS
    Names = {1}
    Specs = {"none", "good", "better", "bad"}
    SizeOf <- MCSizeOf
    Builds = {"b"}
    Compiles <- MCCompiles
    Undefined <- MCUndefined
    Limit = 1
    Replicas = {"p", "q"}
    Build = "b"
    Deadline = 2
    Interval = 2
    CheckMaxAge = 3
    Worlds <- MCWorlds
INVARIANTS StatusCoherent
PROPERTIES FleetJudged NoFalseAlarm StatusSettles
