# TLA+ models of the Datadog provider

The repository has one source file: `src/keep/providers/datadog_provider/datadog_provider.py`.
It defines `DatadogProvider`, the adapter between the Keep alert host and the
Datadog API. The modules here model its stateful and concurrent behaviour and
the two alert normalisations. Each run's TLC configuration is listed below.

## 1. Inventory

| Component | Code (lines) | State it touches | Operations |
|---|---|---|---|
| Webhook provisioner | `setup_webhook` 526-629 | Datadog org: webhook integrations by name (url, headers, payload); monitor messages | get, update, create, fallback update on "Webhook already exists", list monitors, update each monitor |
| Poll normaliser | `_get_alerts` 452-524, `__get_parsed_severity` 441-450 | none; reads monitors with downtimes and 30 days of events | two listings, then one normalisation per event inside try/except |
| Webhook normaliser | `format_alert` 631-666, `WEBHOOK_PAYLOAD` 139-157 | none | parse the `$TAGS` / `$ALERT_SCOPE` / title of a payload |
| Fingerprint | `FINGERPRINT_FIELDS` 138 (host function) | none | fingerprint over `groups`, `monitor_id` |
| Mute / unmute | `mute_monitor` 174-226, `unmute_monitor` 228-271 | vendor mute scopes per monitor | one POST each |
| Scope validator | `validate_scopes` 313-389 | creates and deletes a probe monitor; calls `_query` | one probe per scope |
| Query window | `_query` 397-423, `expose` 391-395, `convert_to_seconds` 159-161 | `self.to`, `self._from` | query metrics or logs, report the window |
| Read-only views | `get_monitor_events` 273-296, `get_alerts_configuration` 425-439, `get_logs` 678-688 | none | one listing each |
| Deployment | `deploy_alert` 668-676 | creates a monitor | one call |
| Configuration | auth config 20-40, `__init__`, `validate_config`, `dispose`, `get_alert_schema`, `__main__` | credentials | set-up only |

How they interact:
- `setup_webhook` registers a webhook whose payload template is `WEBHOOK_PAYLOAD`.
  It also patches every monitor's message to mention `@webhook-<name>`.
- From then on, every alert reaches Keep twice: once polled by `_get_alerts` and
  once pushed through the webhook into `format_alert`.
- The host deduplicates the two copies by fingerprint.
- `validate_scopes` calls `_query`, which overwrites the query window that
  `expose` reports.
- `deploy_alert` creates monitors in the organisation whose monitors
  `setup_webhook` lists and patches.

What makes the code hard to test:
- Several `setup_webhook` calls (one per Keep tenant, or retries) can run
  against one Datadog organisation. Each call is a sequence of remote
  read-then-write steps with no lock and no version check.
- The two normalisations must agree on every alert. Only a search over
  payload shapes shows where they do not.
- The poll loop catches every exception per event. An event dropped for a
  reason other than bad input therefore goes unnoticed.

The properties that make each part correct:
- **Provisioner:** after any interleaving and any failures, the outcome is the
  one an atomic upsert would give. A call that returns has every monitor it
  listed mentioning its webhook.
- **Scope validator:** a scope is reported granted only when its probe
  succeeded, and a probe monitor that could not be deleted is reported.
- **Normalisers:** both channels give the same alert and the same fingerprint.
  A batch keeps every good event, in order, whatever the bad ones do.

## 2. Modules

| Module | Models | Composition |
|---|---|---|
| `WebhookUpsert` | abstract spec: an atomic upsert of the webhook per call | |
| `WebhookProvisioner` | `setup_webhook`, every vendor call a step, concurrent calls, and `deploy_alert` beside them | refines `WebhookUpsert` (`Upsert == INSTANCE WebhookUpsert WITH hooks <- HookUrl, status <- UpsertStatus`) |
| `AlertNormalizer` | pure operators `PollAlert`, `FormatAlert`, tags, severity, muting, fingerprint | |
| `PollBatch` | `_get_alerts` as a state machine over the two listings and the loop | extends `AlertNormalizer` |
| `CrossPath` | one logical alert sent through both channels | extends `AlertNormalizer` |
| `QueryWindow` | `_query`, `expose`, `convert_to_seconds`: the instance fields `to`/`_from` | |
| `ScopeValidation` | abstract spec: `validate_scopes` as one atomic call that returns a verdict for every scope or raises | |
| `ScopeValidator` | `validate_scopes`, one action per probe call, plus a caller of `_query`/`expose` | `QW == INSTANCE QueryWindow`; the logs probe is `QW!Query`; refines `ScopeValidation` (`Validation == INSTANCE ScopeValidation WITH phase <- Phase, result <- Result`) |
| `MuteMonitor` | `mute_monitor`, `unmute_monitor` against the vendor's silences, with a clock | |
| `MC*` | model values and finite input sets for TLC | |

### WebhookProvisioner

**State:**
- `hooks` maps tenant to `<<url, api_key>>` or `NoHook`. `HookUrl` projects
  it to the url for the refinement mapping.
- `key` is the api_key argument of each call.
- `msg` maps monitor to the set of mentions its message holds. A mention is a
  tenant's `@webhook-` handle or `UserText`.
- `live` is the set of monitors that exist. Monitors of `Deployable` are
  absent at first.
- Per call: `pc`, `snapshot` (the monitors `list_monitors()` returned, with
  their messages), `todo`, `skipped`, `swallowed` and `failures`.

**Actions:** one per remote call and its exception branches: `Get`, `Update`,
`Create`, `Fallback`, `List`, `Patch(c, m)` and `PatchDone`. Together they
form `CallStep(c)`. `DeployAlert(m)` is `deploy_alert`: it creates `m` with
its owner's text, or fails and creates nothing.

**Rules the actions follow:**
- Every vendor call may raise. This is bounded by `MaxFailures`.
- Where the code catches an exception, the model catches it at the same point:
  - NotFound or Forbidden leads to create.
  - "already exists" leads to the fallback update.
  - An `ApiException` of the fallback update is swallowed (line 588). Any
    other error of that call (a timeout or a refused connection) propagates,
    so `Fallback` also has a branch to `raised`.
  - A patch failure is skipped.
- A substring test (line 607) is modelled by the constant `NamePrefix`. It
  relates tenant ids where one handle contains the other.
- The update at line 535 happens only when the url differs. Spec 4.4 and
  section 8 document this, so no property asks for a new key to be written.

### QueryWindow

**State:** `clock` (whole seconds), `to`, `from`, the ghost `sent` (the
window of the last vendor request) and `exposed` (what `expose()` returned).
**Actions:** `Query(type, tf, later)` writes the window and the request in one
step. `later` is a second read of `time.time()` during the same call.
`Expose` raises while `to` is None. `Tick` advances the clock.

### ScopeValidator

**State:** the `QueryWindow` variables, plus these:
- `vpc`: idle, probing, deleting, returned or raised;
- `k`: the index into `PROVIDER_SCOPES`;
- `scopes`: the result;
- `probes`: probe monitors left in the org;
- ghost `errors`: the statuses each scope's calls raised.

**Actions:** `Validate`, `Probe` (events, monitors_read, metrics and
create_webhooks), `CreateProbeMonitor`, `DeleteProbeMonitor`, `LogsProbe` and
`Return`. A `Caller` runs `QW!CallQuery` or `QW!CallExpose` while no
validation is running. `WebhookScopes` are the scopes `PROVIDER_SCOPES` marks
`mandatory_for_webhook` (lines 80-101). Each vendor call returns, raises an
`ApiException` with a status, or raises a timeout, which nothing in
`validate_scopes` catches.

### MuteMonitor

**State:**
- `clock`: hours since import;
- `silenced`: monitor to a set of `[scope, end]`;
- `lastCall`: a ghost.
**Actions:** `Mute(m, groups, end)` and `Unmute(m, groups)`, one POST each,
and `Tick`. The default `end` is computed once, at import (line 178).
The vendor's contract (one silence per scope string) is assumed, not code.

### AlertNormalizer

Data abstraction:
- A title word is a record of its core and its bracket counts.
- A tag is the sequence of its `:`-separated pieces.
- Exceptions are the record `Raised`.

`PollAlert` is one iteration of the loop at 473-517. `FormatAlert` is all of
`format_alert`.

Conversions:
- `monitor_id` reaches the two paths as different types. The poll path passes
  the int `event.monitor_id` (line 505). The webhook template quotes
  `$ALERT_ID` (line 155), so the payload carries a str. `AlertDto` declares
  `monitor_id` a str (spec 3), so `PollAlert` stores `ToString` of the int
  and `FormatAlert` stores the str as it is.
- `_get_alerts` fingerprints with `self.fingerprint_fields` (line 515). That
  attribute is not defined in this file; the base class outside the
  repository sets it. The model assumes it equals `FINGERPRINT_FIELDS`
  (line 138), which `format_alert` uses.

## 3. Runs

| Run | Config | Expect | Shows |
|---|---|---|---|
| webhook_one_tenant | `WebhookOneTenant.cfg` | pass | Two concurrent calls of one tenant, with two keys, `deploy_alert` creating a monitor and up to 2 failed vendor calls. The calls refine the atomic upsert (`UpsertRefinement`), including the fallback's swallowed `ApiException` and its propagated transport error. A call that returns leaves every monitor it listed and did not skip mentioning its webhook (`PatchedOnReturn`). |
| webhook_two_tenants | `WebhookTwoTenants.cfg` | violation | Two tenants: a patch written from a stale snapshot erases the other tenant's handle after that call returned (lines 596-611). |
| cross_path | `CrossPath.cfg` | pass | Polled and pushed copies agree on name, status, severity, tags and monitor id (the int and the quoted `$ALERT_ID` both become the same str). |
| cross_path_fingerprint | `CrossPathFingerprintAgrees.cfg` | violation | Empty groups give `[]` polled but `["*"]` pushed (line 644). The fingerprints differ. |
| cross_path_tags | `CrossPathWebhookAcceptsPolled.cfg` | violation | A bare tag, `:` inside a value, or tags without the `monitor` marker are accepted polled but make `format_alert` raise (lines 633-634). |
| poll_batch | `PollBatch.cfg` | pass | The returned batch is exactly the normalised good events in order. Every bad event is logged. |
| poll_batch_monitor_missing | `PollBatchOnlyMalformedSkipped.cfg` | violation | An event whose monitor is missing from the listing is dropped (line 490). The spec expects it kept with `created_by` null, and the guard at 511 suggests the same. |
| scope_validator | `ScopeValidator.cfg` | pass | A 403 scope is never granted (`ForbiddenNeverGranted`). A leaked probe monitor is never reported with monitors_write granted (`ProbeLeakReported`). The probe loop, with a caller's `_query`/`expose` around it, refines the atomic validation: it returns a verdict for every scope, or raises (`ValidationRefinement`). |
| scope_webhook_scopes | `ScopeValidatorWebhookScopes.cfg` | violation | A create_webhooks probe answered with 429 is recorded as granted (line 356). All `mandatory_for_webhook` scopes then read granted although one probe failed (`WebhookScopesProbed`). |
| query_window_metrics | `QueryWindowMetrics.cfg` | violation | A metrics `_query` asks the vendor for `timeframe*1000` seconds (line 420), not the window `expose()` reports. |
| mute_monitor | `MuteMonitor.cfg` | pass | Silences keep the scopes and ends callers passed (`TypeOK`). The run fires every mute and unmute branch for the dead-end check. |
| mute_default_end | `MuteMonitorDefaultMuteInFuture.cfg` | violation | A default mute made more than a day after import ends in the past (line 178). |

Every property of a passing run has a mutant in `PROJECT.json`. Each mutant is
a plausible bug in the mapped definition, and TLC finds it.

### Bounds

**Webhook runs.** They use two calls, two urls and two monitors, with up to 2
injected failures. In the one-tenant run, `m2` is created by `deploy_alert`,
so it may appear before, between or after the calls' listings. With two calls there is:
- a race on create, which leads to the fallback;
- a stale url;
- a patch between another call's list and patch.

With two monitors, a call can be part-way through its patch loop. Failures up
to 2 cover one failure in the upsert and one in the loop.

**CrossPath.** It enumerates:
- priorities inside and outside P1-P4;
- tag lists of up to two tags drawn from: a plain pair, the same key again
  (last write wins), a value with `:`, and a bare tag;
- empty, one-element and two-element groups.

**PollBatch.** It enumerates:
- listings with 0-2 monitors, each with no downtime, a downtime on
  `[g1, g2]`, or a downtime on `*`;
- feeds of up to two events covering good titles and bad titles, dated and
  undated events, known and missing monitors, and both group orders.

**ScopeValidator.** There are two statuses: 403, and 429 for any other
`ApiException`. There is one timeout outcome, two timeframes and a clock up to
1. The timeframes give a caller's `_query` both before and after a validation.

**QueryWindow.** The metrics run uses timeframes "1m" and "1s". A metrics
query over "1h" reaches 3600 * 1000 * 1000 milliseconds, which overflows TLC's
32-bit integers. The scope-validator run has no metrics caller, so it keeps the
"1h" of the logs probe.

**MuteMonitor.** The clock runs to 25 hours, one hour past `Day = 24`. Explicit
ends are 12 and 36. The group lists are empty, `*`, one group, and two groups.

### Fairness

None. Every spec is `Init /\ [][Next]_vars`, and every run checks only
safety or refinement. `request_timeout=5` (line 167) bounds each vendor
call. The model covers that bound as an outcome: a probe can time out and
the fallback update can raise. Termination of `setup_webhook` and
`validate_scopes` follows from the shape of their loops, so no liveness
property is stated.
Deadlock is checked: a terminated call or batch stutters in `Terminated` or
`Finished`.

## 4. Not modelled, and the plan

- The read-only views are not modelled. Each of `get_monitor_events`,
  `get_alerts_configuration` and `get_logs` is one vendor read. None writes
  the instance or the organisation.
  - `get_logs` and `get_monitor_events` compute their own windows and leave
    `to`/`_from` alone.
  - `get_alerts_configuration(alert_id)` indexes `monitor["id"]` on JSON
    strings (line 437). It therefore raises whenever a monitor is listed and
    an id is given. A unit test reaches this directly.
- Configuration (`__init__`, `validate_config`, `dispose`, the schema,
  `__main__`) only sets credentials. Of it, the models use the
  `request_timeout` (as a timeout outcome) and the `None` window of
  `__init__`.
- The formatting of timestamps is not modelled. Times are whole hours or
  seconds.
- Several hazards are modelled but no run checks a property on them. Each has
  a note in `PROJECT.json`:
  - the wildcard unmute (236): the outcome depends on the vendor's reading
    of the scope `*`;
  - the overwrite of `to`/`_from` by the logs probe (366), which spec 5
    documents;
  - `expose()` before any `_query` (393);
  - a timeout that aborts `validate_scopes` (378), which spec 5 allows;
  - a webhook payload without `severity` (657), which the template this
    code registers never produces;
  - the order of downtime groups (494);
  - monitors that `deploy_alert` creates after a call's `list_monitors()`,
    which never get the handle (673);
  - the `UnboundLocalError` of an unknown query type (423).
- No run has tenants whose handles are prefixes of each other. The substring
  test at line 607 is modelled but not exercised.
