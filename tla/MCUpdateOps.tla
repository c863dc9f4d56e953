------------------------------ MODULE MCUpdateOps ------------------------------
(***************************************************************************)
(* Ops that pass every check and ops that fail one, alone and in pairs.    *)
(***************************************************************************)
EXTENDS UpdateOps

CONSTANTS missing, notMap

Add1 == [op |-> "+", field |-> "long", arg |-> "long"]
AddNamed == [op |-> "+", field |-> "s2", arg |-> "long"]
SetOwn == [op |-> "=", field |-> "test", arg |-> "string"]
Delete == [op |-> "#", field |-> "long", arg |-> "long"]
Splice == [op |-> ":", field |-> "long",
           offset |-> "long", length |-> "long", list |-> "string"]
SpliceTypo == [op |-> ":", field |-> "long",
               offset |-> "long", lenght |-> "long", list |-> "string"]
SpliceDouble == [op |-> ":", field |-> "long",
                 offset |-> "long", length |-> "double", list |-> "string"]
NoField == [op |-> "+", arg |-> "long"]
AddString == [op |-> "+", field |-> "long", arg |-> "string"]
Last == [op |-> "=", field |-> "minus one", arg |-> "string"]
NoOp == [op |-> "?", field |-> "long", arg |-> "long"]
NoOpNamed == [op |-> "?", field |-> "test", arg |-> "long"]

AllOps == {Add1, AddNamed, SetOwn, Delete, Splice, SpliceTypo, SpliceDouble,
           NoField, AddString, Last, NoOp, NoOpNamed}
Fields2 == {"s2", "test"}

List(s) == [hash |-> FALSE, at |-> s]
FewLists ==
    {List(<<>>), [hash |-> TRUE, at |-> <<>>], List(<<Delete, Splice>>)}
        \union {List(<<o>>) : o \in AllOps}
        \union {List(<<Add1, o>>) : o \in {AddNamed, SetOwn, AddString, NoOpNamed, notMap, missing}}
        \union {List(<<o, Add1>>) : o \in {AddNamed, SetOwn, notMap}}
=============================================================================
