SPECIFICATION Spec
CONSTANTS
    Names <- McNames
    Similar <- McSimilar
    Upcs = {"u"}
    Receipts <- McReceipts
    Meals <- McMeals
    Batches <- McBatches
    MaxItems = 3
    MaxTime = 2
    MaxCalls = 4
    MaxOverlaps = 3
INVARIANTS TypeOK NothingLost NamesApart KeepsName StockFollows 
CHECK_DEADLOCK FALSE
