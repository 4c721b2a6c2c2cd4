SPECIFICATION Spec
CONSTANTS
    o1 = o1
    o2 = o2
    s1 = s1
    s2 = s2
    Products = {p1}
    Orders <- MCOrders
    Shops <- MCShops
    ShopOf <- OwnShops
    Couriers = {c1}
    NoCourier = NoCourier
    Requests = {}
    Returns = {}
    MaxQty = 2
    MaxChecked = 1
    InitialStock = 3
    Statuses <- AllStatuses
    Ops = {"create","cancel","status","delete","edit","partial"}
INVARIANTS
    ReserveExplained
    ShelfConserved
