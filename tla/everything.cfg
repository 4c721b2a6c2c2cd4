SPECIFICATION Spec
CONSTANTS
    o1 = o1
    o2 = o2
    s1 = s1
    s2 = s2
    Products = {p1}
    Orders <- OneOrder
    Shops <- MCShops
    ShopOf <- OnlyShop
    Couriers = {c1}
    NoCourier = NoCourier
    Requests = {q1}
    Returns = {r1}
    MaxQty = 1
    MaxChecked = 1
    InitialStock = 3
    Statuses <- AllStatuses
    Ops = {"create","cancel","status","delete","edit","partial","bulk","assign","out","deliver","complete","failed"}
INVARIANTS
    
    CountedStaysClosed
    ReturnedStaysClosed
    LifecycleInv
