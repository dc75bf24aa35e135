CONSTANTS
    NumClasses = 2
    NumTables = 2
    Objects = {o}
    Functions = {f}
    Constants = {n}
    Nil = Nil
    MaxDeclared = 4
    HostFunctions = {f1, f2}
    MaxDepth = 4
SPECIFICATION MCSpec
INVARIANTS
    ThreeWaysToAClass
    AssignedIsRead
    NoErrorLost
    NoErrorInvented
