\* One pool, two labels, two accounts, four machines around the tiers.
CONSTANTS
    Machines <- SmallMachines
    Reserve = 2048
    Worst = 1200
    HardCap = 40
    Agents <- TwoAgents
    Pool = "grok"
    AgentCaps <- Caps
    AccountDefault = 4
    Accounts <- TwoAccounts
    Default = "default"
    Configured <- OneConfigured
    Slot = 2
    Requests <- MixedRequests
    Pressures <- MixedPressures
    MaxLeases = 3
    MaxCooled = 2
SPECIFICATION Spec
INVARIANTS TypeOK LanesOrdered StopHolds BudgetNeverShort
PROPERTIES RamHeld WithinCeiling
CHECK_DEADLOCK FALSE
