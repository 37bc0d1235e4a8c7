SPECIFICATION InventorySpec
CONSTANTS
    r1 = r1
    r2 = r2
    cola = cola
    chips = chips
    soap = soap
    b1 = b1
    Session = {w1, w2}
    Sku = {cola, chips, soap}
    Barcode = {b1}
    Receipt = {r1, r2}
    Lines <- MCLines
    EventKey = {e1}
    Stocked = {cola}
    ReorderPoint = 1
    MaxStock = 3
    MaxProposals = 3
    MaxScans = 2
INVARIANTS
    StockConsistent
    ReceiptBookedOnce
    SharedBarcodeExplained
    
CHECK_DEADLOCK FALSE
