\* Two inbounds, a user outbound, two rules, in every state of the tables.
SPECIFICATION Spec
CONSTANTS
    Ins = {"in1", "in2"}
    Oids = {1}
    Rids = {1, 2}
    UserTags = {"t1", "dokodemo-freedom"}
    Sorts = {1, 2}
    Shapes <- MCShapes
    KnownFields = {"ip"}
    OtherFields = {"user"}
    OddForms = {"port53"}
    Templates <- MCTemplates
    InManaged <- MCInManaged
    None = None
INVARIANTS
    RoutesByTables
    ApiReachable
    TunnelsUnrestricted
PROPERTIES
    TunnelsChangeNoOther
