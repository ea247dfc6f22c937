SPECIFICATION FairSpec
CONSTANTS
    Callers = {worker, handler}
    Tasks = {t1, t2}
    Keys = {k1}
    amazon = amazon
    walmart = walmart
    Retailers <- MCRetailers
    Lists <- MCLists
    DemoFallback = TRUE
    Demo = demo
    None = None
INVARIANTS
    TypeOK
    CertaintyIsEarned
PROPERTIES
    NeverGoesBack
    CoverageCatchesUp
