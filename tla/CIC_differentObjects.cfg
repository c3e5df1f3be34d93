SPECIFICATION Spec
SYMMETRY Symmetry
CONSTANTS
    o1 = o1
    o2 = o2
    o3 = o3
    v1 = v1
    v2 = v2
    s1 = s1
    s2 = s2
    Object <- MCObject
    AttributeValue = {v1, v2}
    Values <- MCValues
    Thread = {t1, t2}
    NoThread = noThread
    Stripe = {s1, s2}
    StripeOf <- MCStripeOf
    ValueSet = {x1, x2, x3, x4}
    NoValueSet = null
    ObjectLocking = FALSE
    Calls = {"add", "remove"}
    Overlap = "objects"
INVARIANT SettledObjectsIndexed
