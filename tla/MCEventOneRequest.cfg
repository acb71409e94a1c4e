CONSTANTS
    d1 = d1
    d2 = d2
    d3 = d3
    k1 = k1
    k2 = k2
    m1 = m1
    m2 = m2
    m3 = m3
    o1 = o1
    o2 = o2
    NoDelivery = NoDelivery
    NoOp = NoOp
    Key = {k1, k2}
    KeyOf <- MCKeyOf
    Refs <- MCRefs
    Op = {o1, o2}
    BatchSize = 2
    MaxRetries = 1
    Delivery = {d1, d3}
    Message = {m1, m3}
    DeliveryOf <- MCCopies
    Foreign = {}
    MaxFaults = 0
SPECIFICATION Spec
INVARIANT OneRequestEach
