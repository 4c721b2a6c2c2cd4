SPECIFICATION Spec
CONSTANTS
    o1 = o1
    o2 = o2
    s1 = s1
    s2 = s2
    Products = {p1}
    Orders <- MCOrders
    Shops <- MCShops
    ShopOf <- OneShop
    Couriers = {c1}
    NoCourier = NoCourier
    Requests = {}
    Returns = {r1,r2}
    MaxQty = 2
    MaxChecked = 1
    InitialStock = 3
    Statuses = {"new", "delivered", "cancelled"}
    Ops = {"create","status","delete"}
INVARIANTS
    StockSound
    ReturnsWithinDelivery
