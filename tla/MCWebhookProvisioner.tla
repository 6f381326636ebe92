------------------------ MODULE MCWebhookProvisioner ------------------------
(***************************************************************************)
(* Model-checking instances of WebhookProvisioner.                         *)
(***************************************************************************)
EXTENDS WebhookProvisioner, TLC

CONSTANTS c1, c2, t1, t2

\* Two concurrent calls for one tenant.
OneTenantCalls == {c1, c2}
OneTenantTenants == {t1}
OneTenantOf == [c \in OneTenantCalls |-> t1]

\* Two concurrent calls for two tenants of one Datadog organisation.
TwoTenantCalls == {c1, c2}
TwoTenantTenants == {t1, t2}
TwoTenantOf == (c1 :> t1) @@ (c2 :> t2)

NoPrefix == {}

=============================================================================
