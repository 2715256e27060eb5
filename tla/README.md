# Formal models of safe-client-gateway-nest

These are TLA+ models of the stateful, concurrent parts of the Safe Client
Gateway (a NestJS service; sources under `src/src/`). TLC model-checks them and
TLAPS proves some of their properties. `PROJECT.json` lists the components,
runs, mutants, the source lines each definition models, the findings and the
hazards.

## 1. Inventory

Most of the gateway is stateless request mapping: controllers call services,
services call datasources, and the results are mapped into response DTOs. A
model checker has something to find only where the code keeps shared state
and requests interleave, at their `await`s or across instances sharing a
cache or a database.

| Part | Source | State | Operations | Concurrency / hard behaviour |
|---|---|---|---|---|
| SiWe nonce store | `domain/auth/auth.repository.ts` | nonces in the shared cache, with a TTL | `generateNonce`, `verify`/`isValid` (expiry, signature and cache read, `finally` delete), `getAccessToken` | concurrent verifies of the same message; the read comes before the delete; a failing read or delete |
| Targeted messaging | `datasources/targeted-messaging/targeted-messaging.datasource.ts` | `outreaches`, `targeted_safes` and `submissions` tables; a per-outreach cache hash | create/update outreach, unprocessed outreaches, mark processed, create/get targeted Safes, create/get submission | cache-aside fill racing an invalidation; a delete failing after a commit; workers racing on an unprocessed outreach |
| Relay and rate limit | spec.md §2–§5; the code is absent from `src/`, only `routes/relay/relay.controller.spec.ts` | per-(chain, address) counters with a window | classify, check the limit, submit, record usage, window expiry | check-then-act across the provider call; crash between submission and recording |
| Transaction classifier, calldata decoder, deployment registry | spec.md §4.1–§4.3 | none (pure) | decode, classify, look up | none; these are pure functions |
| Email registration | `domain/email/email.repository.ts` | email rows | `saveEmail` | the owner check `signer in safe.owners` tests array indices |
| Users and wallets | `domain/users/users.repository.ts`, `migrations/1737368483467-create_wallet.ts` | users, wallets | `createUserWithWallet` (transaction) | rollback of the user when the wallet insert fails |
| Cache hooks | `routes/cache-hooks/cache-hooks.controller.ts` | scheduled timers | `postEvent` → `setTimeout(onEvent)` | the event is acknowledged before processing and lost on restart |
| Portfolio mapper | `routes/portfolio/mappers/portfolio.mapper.ts` | none (one synchronous call) | `mapChainPortfolio` | an unbound method passed to `map`; optional asset lists |
| Human descriptions | `datasources/human-description-api/human-description-api.service.ts` | a shared global `RegExp` (`lastIndex`) | template parsing | state carried between calls after an early exit |
| Network, prices, accounts, counterfactual Safes, auth guard, validators, controllers, bootstrap | the rest of `src/` | none of their own | HTTP and repository calls, mapping | pure I/O or pure data mapping |

The hazards of each part, at the line where they bite, are in
`PROJECT.json` under `hazards`.


## 2. Modules and runs

Each module models one component. `MC<Module>.tla` gives it small constants
(model values), and each `.cfg` is one run. Every run is listed in
`PROJECT.json`. A **pass** run must finish without error. A **violation** run
checks one property, which states what a comment, the spec or the code's
evident intent says, and TLC refutes it; each is a finding in `PROJECT.json`.
`PROJECT.json` registers twelve runs: nine pass runs, plus three
violations (`auth_concurrent_replay`, `email_owner_refused` and
`users_wallet_schema`). The other violation configurations below are kept
beside their modules and reproduce their findings by hand, with
`tlc -config <cfg> <MC module>`. Each such finding names its configuration.
Every property of a pass run has a mutant: a plausible bug in a mapped
definition, and TLC catches it under that run's configuration. Type
invariants are proved (`TypeCorrect` in every `*_proofs` module). Only
`RelayLimit`'s is also a run property, because a plausible bug breaks it: a
refund of usage that was never recorded makes a counter negative.

### AuthNonce: the SiWe nonce store (`auth.repository.ts`)

- **State:**
  - `cache`: the nonces under `getAuthNonceCacheDir`.
  - `pc`, `msg` and `ok`: each concurrent verify request.
  - History variables `generated`, `burned`, `replay` and `issued`, used only by the properties.
- **Actions:** `verify`/`isValid` is split at its awaits.
  - `VerifyStart`: the `isExpired` early return (121–135).
  - `VerifyRead`: `Promise.all([verifyMessage, cache.get])` (137–143).
  - `VerifyReadError`: the `catch` (144–145).
  - `VerifyFinally`: the `finally` delete and the token issue (146–148, 80–112).
  - `VerifyFinallyError`: the `.catch` of `verify` (74–78).
  - `GenerateNonce` (39–49) and `NonceTtlExpires`.
- **`auth_no_sequential_replay`** (pass, `NoSequentialReplay`): a request that starts after a verify of its nonce finished never gets a token. Bounds: 2 nonces, 3 requests, with symmetry.
- **`auth_concurrent_replay`** (violation, `NonceSingleUse`): two requests both read the nonce before either deletes it, and both get tokens. This contradicts the comment at line 42.
- **Refinement `ImplementsNonceStore`** (checked in `auth_no_sequential_replay`): `AuthNonce` implements `NonceStore`, an abstract store with the live nonces, the generated nonces, and each request's stage (`idle`, `pending`, `granted`, `done`), presented nonce and token.
  - Mapping: `live` is `cache`. `nonce[r]` is `msg[r].nonce` (`StoreNonce`). `StoreStage` maps `reading` to `pending`, and `finally` to `granted` when `ok[r]` holds and to `pending` otherwise.
  - Steps:
    - `VerifyStart` is `Start`.
    - `VerifyRead` is `Grant` when its read found the nonce live, and a stutter otherwise.
    - `VerifyReadError` is a stutter.
    - `VerifyFinally` is `Finish`: the nonce is removed, and a token is issued iff the request was granted.
    - `VerifyFinallyError` is `Abandon`.
  - The store's `Grant` checks the nonce and `Finish` removes it in separate steps. That is exactly why two requests can both be granted: the concurrent-replay finding shows the code does not implement a store that checks and deletes atomically.
  - Mutant: `VerifyReadNoNonceCheck`, a read that ignores the cache, breaks the refinement.

### AuthToken: the token lifetime (`auth.repository.ts`)

- **State:** a millisecond clock that advances in steps of `Step` while requests wait, and per request:
  - the message's `expirationTime`;
  - the `expiresIn` verify signed;
  - the issue time.
- **Actions:**
  - `VerifyStart`: `isExpired`, read before the awaits.
  - `VerifyIssue`: `getSecondsUntil`, with `Math.floor` read after them.
  - `Tick`.
- **The JWT's `exp`** is `floor(now/1000) + expiresIn`, as jwt sign computes it.
- **`auth_token_within_message`** (pass, `TokenNotBeyondMessage`): a token never expires after its message. Bounds: 2 requests, expiries of 1000 and 1750 ms, a 250 ms clock up to 1500 ms. Expiries on and off a whole second occur, before and during the awaits.
- **`auth_token_expired_at_issue`** (`MCAuthTokenLive.cfg`, violation by hand, `TokenLiveAtIssue`): a message that expires within the second, or during the awaits, yields a token with `expiresIn <= 0`.

### AccessToken: the Authorization header (`auth.repository.ts` 162–176)

- **Model:** `getAccessToken` on a header given as a character sequence.
  - `Split` is `split(' ')`, empty pieces included.
  - Destructuring past the end gives `undefined`.
- **`access_token_scheme`** (pass, `TokenFromScheme`): a returned token is non-empty, holds no space, and follows the type and one space.
  - All 121 headers of up to four characters over `B`, `x` and space are checked.
  - Doubled, leading and trailing spaces all occur.

### TargetedSafes (`targeted-messaging.datasource.ts` 139–193)

- **State:**
  - committed rows of one outreach;
  - the outreach's cache hash: each field is a miss, a cached row, or a cached empty result;
  - the hash's TTL;
  - concurrent readers and writers.
- **Actions:**
  - A cache miss is lookup → SELECT → fill, three awaits.
  - A creation is the transaction or INSERT, then `deleteByKey`, which can throw after the commit.
  - `CacheExpires`.
- **Why one outreach:** the cache key is per outreach, and outreaches share nothing.
- **`targeted_stale_expires`** (pass, liveness `StaleNotFoundExpires`): a cached "not found" for an existing row is dropped eventually. It bounds the race below and a failed `deleteByKey` by the TTL; it does not prevent them. It assumes weak fairness on `CacheExpires` only: the store drops a key once its TTL elapses, whatever the service does. There is no symmetry, since symmetry reduction is unsound for liveness.
- **`targeted_read_your_writes`** (`MCTargetedSafesStale.cfg`, violation by hand): a reader's SELECT runs before the commit, and its empty result is cached after the invalidation. The new row then reads as not found until the TTL elapses.
- **Submissions:** `createSubmission`/`getSubmission` (195–236) repeat the same
  pattern line for line, on (Safe, signer) fields of the same hash. They are
  not modelled separately.

### Outreaches: the outreach table (`targeted-messaging.datasource.ts` 52–137)

- **State:**
  - `rows`: the outreaches table. A row is its source id, its editable details, its source file, and whether `source_file_processed_date` is set.
  - `nextId`: the serial.
  - `listed`: each client's last `getUnprocessedOutreaches` result.
  - `answer`: how each client's last call ended.
- **Actions:**
  - `CreateOutreach`: the INSERT takes `source_file_processed_date` from the DTO as it comes, so a row can be created already processed.
  - `UpdateOutreach`: every row of the source id is updated. No row leaves `[outreach]` undefined.
  - `GetUnprocessedOutreaches`.
  - `MarkOutreachAsProcessed`: of a listed outreach, unconditionally.
  - `StatementFails`: the `catch` → `UnprocessableEntityException`.
- **`outreaches_implement_log`** (pass, `ImplementsOutreachLog`): no interleaving un-marks a processed outreach, changes its file or source id, or marks an outreach that does not exist.
  - **Refinement:** `OutreachLog` is the abstract promise. An id, once created, names one source id and one file for good; it is created processed or not. The set of processed outreaches only grows, and only by existing outreaches.
  - **The mapping:** `LogUpload` projects each row to its source id and file, and `LogDone` is the set of rows with `source_file_processed_date` set.
  - **Steps:** `CreateOutreach` is the log's `Create` of `nextId`, with the DTO's processed flag, and `MarkOutreachAsProcessed` is its `Process`. The other actions are stutters. Bounds: 2 clients, 2 source ids, 2 details, 2 files and 2 rows, so a source id can be uploaded twice and a client can hold a stale list. About 20k states.
  - **Mutant:** `UpdateOutreachReset`, an update whose SET list also clears `source_file_processed_date`, breaks the refinement.
- **What is not checked:** the worker that lists, fills and marks outreaches is not in the repository. Double processing by two workers is listed as a hazard without a property.

### UsersWallets (`users.repository.ts`, `create_wallet` migration)

- **Model:** `createUserWithWallet` as a transaction: `Begin`, `SaveUser`, `SaveWallet`, and `DbError` with rollback. The rollback is the transaction helper's, which is not under `src/`. The wallets schema comes from the migration (`address` is NOT NULL).
- **`users_wallet_schema`** (violation, `WalletSatisfiesSchema`): the wallet is built without an address, so every sign-up fails and rolls back. Bounds: 3 concurrent calls and 2 addresses.
- No pass run: that a settled call leaves no user row would only restate the helper's rollback, which every failing action performs.

### EmailRegistration (`email.repository.ts`)

- **Model:** `saveEmail`: email validation, the awaited `getSafe`, its failure, and the owner test `signer in safe.owners`. `JsIn` is JavaScript's `in` on an array, which tests indices.
- **`email_owner_refused`** (violation, `OwnerNotRefused`): every owner is refused. The save path after the check is therefore unreachable and has no action.

### BalancesHooks: webhook invalidation of cached balances (`cache-hooks.controller.ts`, `valk-balances-api.service.ts`)

- **State:**
  - provider versions per Safe;
  - the shared cache and its TTLs;
  - the events the transaction service still has to deliver;
  - in-process `setTimeout` timers;
  - the instance's up/down state and restart count;
  - concurrent `getBalances` calls.
- **Actions:**
  - `PostEvent`: the 202 plus `setTimeout`.
  - `TimerFires`: `onEvent` → `clearBalances`.
  - `GetBalances` → `FetchBalances`/`FetchFails` → `FillBalances`.
  - `Crash`: the timers and in-flight requests are lost, and the cache survives.
  - `Restart`, `CacheExpires` and `BalanceChanges`.
- **Fairness:** weak fairness on delivery, timers, restart and TTL expiry. The transaction service retries a POST, a due timer of a running process fires, a stopped instance is restarted, and the store expires keys.
- **`hooks_stale_replaced`** (pass, liveness `StaleBalanceReplaced`): stale balances are replaced eventually, even across a restart and a lost event. It bounds the two findings below by the TTL; it does not prevent them. Bounds: 1 Safe, 2 readers, up to 2 balance changes, 1 restart.
- **`hooks_lost_on_restart`** (`MCBalancesHooksRestart.cfg`, violation by hand, `AckedEventProcessed`): a restart between the 202 and the timer loses the event.
- **`hooks_stale_after_clear`** (`MCBalancesHooksStale.cfg`, violation by hand, `NoStaleAfterHook`): a fetch in flight across a change refills old balances after `clearBalances`.

### PortfolioMapper (`portfolio.mapper.ts`)

- **Model:** `mapChainPortfolio` as one step over small portfolios.
  - Protocols are present on some chains.
  - Positions are regular or complex, with optional asset lists that are absent, `undefined` or set.
  - An unbound `this` is `undefined` (class bodies are strict).
- **`portfolio_page_matches_chain`** (pass, `PageMatchesChain`): whenever the mapper returns, the page is exactly the requested chain's protocols, positions and typed assets. It is checked against a reference that counts instead of filtering, and that has its own type/field table.
- **`portfolio_complex_positions`** (`MCPortfolioMapperComplex.cfg`, violation by hand, `SupportedChainMapped`): any complex position with an asset throws a TypeError.

### HumanDescription: the template parser (`human-description-api.service.ts`)

- **Model:** templates are character sequences. `Exec` evaluates the global regex from `lastIndex` by what it matches. `ProcessLoop` is the `while` loop of `process()`, with its skip, word, parse and throw cases. The module uses RECURSIVE operators, so it holds no theorems.
- **`description_templates`** (pass): with a `parseParam` case for every ValueType, every call returns its template's fragments, in any order of calls. Bounds: 4 templates and 3 parameter lists.
- **`description_stale_lastindex`** (`MCHumanDescriptionThrow.cfg`, violation by hand): after a throw, the next template starts at a stale `lastIndex`.

### RelayLimit: the relay rate limiter (spec-modelled)

The relay code is not under `src/`, so this module is modelled from spec.md (§2, §4.4, §5), and the controller test pins its behaviour.

- **Actions:** `Classify` → `CheckLimit` → `Submit`/`SubmitFail` → `Record`, then `WindowExpires`.
- **`relay_quota`** (`MCRelayLimitQuota.cfg`, violation by hand, `QuotaNeverExceeded`): the check and the increment are separated by the provider call.
- **`relay_overshoot_bound`** (pass): the overshoot stays below the number of concurrent requests. Bounds: 2 keys, 3 slots, a limit of 2.

## 3. Proofs

TLAPS checks every proof in `*_proofs.tla`, for every value of the constants, under the `ASSUME`s of the module they extend:

- `NoNonce ∉ Nonces`;
- `Capacity ∈ Nat \ {0}` and `IsFiniteSet(Req)`;
- `Step ∈ Nat \ {0}`, `MaxTime ∈ Nat`, `Expirations ⊆ Nat` and `NoExpiry ∉ Int`;
- `MaxOutreaches ∈ Nat`, and `None` is neither a row nor a log entry (it is a model value in every run);
- `NoSafe ∉ Safes`;
- `MaxVersion ∈ Nat \ {0}`, `MaxRestarts ∈ Nat` and `Miss ∉ Nat`.

The `ASSUME`s hold in every run, and TLC evaluates them.

- **AuthNonce_proofs:**
  - `TypeCorrect`.
  - `NoSequentialReplayThm`, via an `IInv` with five conjuncts:
    - the cache holds only generated nonces;
    - a burned nonce never returns;
    - a replay presents a burned nonce;
    - a true result is not a replay;
    - a token holder is done with a true result.
  - `ImplementsNonceStoreThm`: `Spec => Store!Spec`, from `InitRefines` and `StepRefines`, with one lemma per action (`StartRefines`, `ReadRefines`, `ReadErrorStutters`, `FinallyRefines`, `FinallyErrorRefines`). The lemma `StageFrame` shows that a step changing only request `r`'s `pc` and `ok` changes only `r`'s abstract stage. The only invariant needed is `TypeOK`: for instance, a started request holds a message with a real nonce.
- **RelayLimit_proofs:**
  - `TypeCorrect`.
  - `OvershootBoundThm`: the counter plus the requests in flight for a key stay within the budget. The cardinality facts come from `FiniteSetTheorems`.
- **AuthToken_proofs:**
  - `TypeCorrect`.
  - `TokenNotBeyondMessageThm`. The invariant is not inductive, because it does not say how `expiresIn` was computed. `IInv` adds that an issued token with a lifetime has a message expiry in `Expirations`, and `expiresIn = getSecondsUntil(expiry, issuedAt)`. The lemma `FloorSum` then gives `(c div 1000 + (e - c) div 1000) * 1000 <= e`.
- **Outreaches_proofs:**
  - `TypeCorrect`. `TypeOK` is not inductive. `IInv` adds that listed ids name existing rows, which `MarkOutreachAsProcessed` needs, and that ids from `nextId` on are free, which `CreateOutreach` needs.
  - `ImplementsOutreachLogThm`: `Spec => Log!Spec`.
  - It needs `InitRefines` and `StepRefines`, with one lemma per action that moves the log (`CreateRefines`, `MarkRefines`) and one for `UpdateStutters`.
  - It uses the same `IInv`: `CreateOutreach` is a log `Create` only because `nextId` is free, and a mark is a log `Process` only because a listed id names an existing row. A row created with a processed date enters `LogDone` in the same step, which is the log's `Create` with `p` true.
- **TargetedSafes_proofs:** `TypeCorrect`. `IInv` adds that a reader between its miss and its fill holds a real safe, since the fill writes that safe's field.
- **BalancesHooks_proofs:** `TypeCorrect`. `TypeOK` alone is not inductive: `Restart` counts restarts without checking the bound, which only `Crash` checks. `IInv` adds that a stopped instance has a restart left.

**Only model-checked:**
- The liveness properties (`StaleNotFoundExpires`, `StaleBalanceReplaced`), because TLAPS does not handle liveness or `ENABLED` here.
- The properties of `HumanDescription`, `PortfolioMapper` and `AccessToken`:
  - `ProcessDescribesTemplate` rests on `RECURSIVE` operators, which take the SMT backend out of any module that reaches them.
  - `PageMatchesChain` rests on `SelectSeq`, `FlattenSeq` and the `SetToSeq`/`SortSeq` sort.
  - `TokenFromScheme` rests on a split of the header into a sequence of pieces.
  - Saying what these compute for every input is induction over sequences, which the installed provers cannot instantiate.
- No refinement is stated for `RelayLimit`. Its inductive bound (`OvershootBoundThm`) counts the usage in flight. But an abstract limiter whose consume respects the limit atomically is exactly what the overshoot finding shows the code does not implement. Mapping to such a limiter would have to hide the finding.
- The violations, which are counterexamples.

## 4. Not modelled, and why

- **Transaction classifier, calldata decoder, deployment registry** (spec §4.1–§4.3): their code is not under `src/`. Only the relay test exercises them.
- **`AuthGuard`:** it calls `authRepository.verifyToken`, which the `AuthRepository` under `src/` does not define.
- **The outreach worker:** it is not in the repository, so its sequence of calls is not modelled.
- **`createSubmission`/`getSubmission`:** they repeat the targeted-Safe cache pattern that `TargetedSafes` checks, on another field of the same hash.
- **Network (`axios.network.service.ts`), prices, accounts and counterfactual Safes services, the safe-apps validator, the transactions controller, bootstrap:** each is one awaited call to a collaborator that is not under `src/`, plus data mapping. They hold no state and have no interleaving to check.
- **Valk `_mapBalances`:** a per-balance number formatting whose helpers (`getNumberString`, `isHex`) are not under `src/`.

## 5. Plan for the next sittings

1. **RelayLimit:** add a crash between `Submit` and `Record`, and check what the bound becomes when recording is lost.
2. **Proofs:** `TypeOK` of the `HumanDescription` state, in a module that keeps the recursive parser out of reach. Also the `TargetedSafes` state machine as a refinement of a plain TTL cache.
3. **Classifier:** write spec §4.3 as a pure operator, checked against the controller test's scenarios.
