SPECIFICATION LiveSpec
CONSTANTS
    agent = agent
    twin = twin
    shell = shell
    Sessions = {agent, twin, shell}
    Names = {agent, shell}
    NameOf <- SharedName
    MaxOpens = 3
INVARIANTS TypeOK PlaceholderIsWatched
PROPERTY PlaceholderGoes
