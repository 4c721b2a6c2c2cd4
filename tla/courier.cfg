SPECIFICATION Spec
CONSTANTS
    o1 = o1
    o2 = o2
    s1 = s1
    s2 = s2
    Products = {p1}
    Orders <- MCOrders
    Shops <- MCShops
    ShopOf <- OneShop
    Couriers = {c1,c2}
    NoCourier = NoCourier
    Requests = {q1,q2}
    Returns = {}
    MaxQty = 1
    MaxChecked = 1
    InitialStock = 1
    Statuses <- FewStatuses
    Ops = {"create","bulk","out","deliver","complete","failed"}
INVARIANTS
    StockSound

    
CHECK_DEADLOCK FALSE
