SPECIFICATION Spec
CONSTANTS
    Writers = {w}
    Hosts = {1, 2}
    Addrs = {1}
    InChild = {}
    Policies = {"first-wins"}
    Ops = {"add", "delete"}
    Switched = {"F"}
    MaxId = 4
    MaxRecords = 4
INVARIANTS JournalAccounts
