CONSTANTS
    Ops <- AllOps
    Missing = missing
    NotMap = notMap
    missing = missing
    notMap = notMap
    Lists <- FewLists
    Names <- Fields2
    Own = "test"
    Password = FALSE
    Cap = 9
SPECIFICATION Spec
INVARIANTS FalseRaises
