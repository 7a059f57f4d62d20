SPECIFICATION RoutesSpec
CONSTANTS
    Clients = {c1}
    Remote <- OneServer
    Nets = {"net1", "net2", "net3"}
    Modes = {"none", "def1", "replace"}
    Lan = lan
    NoRoute = noroute
    UserRoutes = {"default"}
    PersistTun = TRUE
INVARIANTS
    RouteInv
    Restored
