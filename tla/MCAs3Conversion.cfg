CONSTANTS
    Common = Common
    Shared = Shared
    T = T
    f = f
    app = app
    odd = odd
    a = a
    a1 = a1
    b = b
    ip = ip
    a_p = a_p
    a_q = a_q
    a1_p = a1_p
    a1_q = a1_q
    p = p
    q = q
    x = x
    xy = xy
    Names = {Common, Shared, T, f, app, odd, a, a1, b, ip, a_p, a_q, a1_p, a1_q}
    IApps = {app, odd}
    WordyIApps = {app}
    AddressNames = {ip}
    Original <- MCOriginal
    StartsWith <- MCStartsWith
    Ports = {p, q}
    NoPort = noport
    PortName <- MCPortName
    Addresses = {x, xy}
    Includes <- MCIncludes
    ByName = byname
    NoAddress = noaddress
    Defaults <- MCDefaults
    Configs <- MCConfigs
SPECIFICATION Spec
INVARIANTS
    CommonHoldsOnlyShared
    NothingVanishes
    RedirectsPaired
\* the conversion returns or throws
CHECK_DEADLOCK FALSE
