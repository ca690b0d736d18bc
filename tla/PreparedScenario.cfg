\* Two keys, two routes, three preparations.
SPECIFICATION PreparedSpec
CONSTANTS
    Routes = {glm, gpt}
    NoRoute = NoRoute
    KeyCount = 2
    MaxCommands = 2
    MaxRestarts = 1
INVARIANTS
    PathIsOneObject
CHECK_DEADLOCK FALSE
