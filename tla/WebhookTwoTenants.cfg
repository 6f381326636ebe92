\* Concurrent setup_webhook calls of two tenants sharing the monitors,
\* no vendor failures: a lost handle comes from the interleaving alone.
CONSTANTS
    c1 = c1
    c2 = c2
    t1 = t1
    t2 = t2
    Calls <- TwoTenantCalls
    Tenants <- TwoTenantTenants
    TenantOf <- TwoTenantOf
    Urls = {u1, u2}
    Keys = {k1}
    Monitors = {m1, m2}
    Deployable = {}
    NamePrefix <- NoPrefix
    NoHook = NoHook
    UserText = UserText
    MaxFailures = 0
SPECIFICATION Spec
INVARIANT PatchedOnReturn
