SPECIFICATION OwnerSpec
CONSTANTS
    ka = ka
    kb = kb
    x = x
    y = y
    c1 = c1
    c2 = c2
    NoKey = NoKey
    Keys <- MCKeys
    Deps <- MCDeps
    Prompt <- MCPrompt
    Consumers = {c1, c2}
    TsKeys = {"pod", "db", "own"}
    TsOwned = {"own"}
    TsNeeds <- MCTsNeeds
    TsConsumers = {"n1", "n2", "n3"}
    TsWants <- MCTsWants
    Clients = {"p1", "p2"}
    Services = {"s"}
    Pods = {"p"}
    MaxUid = 2
INVARIANTS DependenciesOutliveConsumers NothingSurvivesDisposal AnsweredClientsStay TunnelsSound TsClientsSound
PROPERTIES OneClientPerKey NobodyStays
