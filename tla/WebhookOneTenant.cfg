\* Two concurrent setup_webhook calls of one tenant, two monitors,
\* up to two failed vendor calls.
CONSTANTS
    c1 = c1
    c2 = c2
    t1 = t1
    t2 = t2
    Calls <- OneTenantCalls
    Tenants <- OneTenantTenants
    TenantOf <- OneTenantOf
    Urls = {u1, u2}
    Keys = {k1, k2}
    Monitors = {m1, m2}
    Deployable = {m2}
    NamePrefix <- NoPrefix
    NoHook = NoHook
    UserText = UserText
    MaxFailures = 2
SPECIFICATION Spec
INVARIANT TypeOK
INVARIANT PatchedOnReturn
PROPERTY UpsertRefinement
