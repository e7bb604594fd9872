SPECIFICATION Spec
CONSTANTS
    t1 = t1  t2 = t2  group = group  c1 = c1  c2 = c2
    NoTicket = NoTicket
    Tickets = {t1, t2}
    Used = {t1}
    Callers = {c1, c2}
    SourceOf <- SameConversation
    MaxUses = 2
    MaxLapses = 1
    SteadyFrom = 1
    MaxCrashes = 1
INVARIANTS DeliveredWasTold StoreIsCurrent
PROPERTIES NoSilentFailure ReportIsKept TicketCloses
CHECK_DEADLOCK FALSE
