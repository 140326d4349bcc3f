SPECIFICATION Spec
CONSTANTS
    Threads = {t1, t2}
    FirstThreads = {t1}
    first = first
    second = second
    dao1 = dao1
    dao2 = dao2
    DatabaseList <- TwoDatabases
    Daos = {dao1, dao2}
    DaosOf <- TheDaos
    MasterCount <- TheMasters
    SlaveCount <- TheSlaves
    Nobody = Nobody
    MaxDepth = 2
    MaxWrites = 2
    Nested = FALSE
    Mixed = FALSE
INVARIANTS StatementOnOwnDatabase ReadYourWrites FlagIsScoped
