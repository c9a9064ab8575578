SPECIFICATION Spec
CONSTANTS
    Names = {a, b}
    Copies = {keys, notify}
    Writers = {w1, w2}
    MaxWrites = 3
    Overtakes = FALSE
    Sockets = {u1}
    Conns = {c1, c2, c3}
    MaxTCPClients = 2
    MaxTransfers = 1
    Windows = {"datagram", "fault"}
    Secondaries = {s1}
    Tellers = {t1, t2}
    Attempts = 2
    MaxNotices = 2
    MaxVersions = 2
INVARIANTS CopiesCurrent SlotsExact Woken PairsAccounted
PROPERTIES ChangeReaches Drains NobodyForgotten
CHECK_DEADLOCK FALSE
