SPECIFICATION FairSpec
CONSTANTS
    entry = entry
    exit = exit
    Orders <- MCOrders
    EntryOrders <- MCEntryOrders
    BuyOrders <- MCBuyOrders
    MaxEvents = 2
    MaxCrashes = 1
INVARIANTS
    TypeOK
    OneNoticePerOrder
    NoticeKnowsStep
PROPERTIES
    OutcomeSpec
    EndIsReported
CHECK_DEADLOCK FALSE
