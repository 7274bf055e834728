# A verification of the Aptos Agent Framework

TLA+ specifications of the Aptos Agent Framework (`src/aptos-agent-framework/sources/`) and of
the framework crate it is built with (`src/aptos-agent-framework/framework/`): the objects it stands on,
the Rust natives behind Move, and the way from source to code on the chain. TLC configurations check them on small
instances, and proofs, checked by TLAPS, hold for every value of the constants.

The project has four groups of models, which share conventions and little else:

- the **agents**: three Move modules. They hold no balances and run no loop; what can go wrong
  with them goes wrong over *sequences* of transactions: an authorisation granted, used up, revoked
  and granted again; a request that expires, or is answered and made again in the same second; an
  NFT that is "soulbound" while the object layer underneath offers transfer, burn and reclaim to
  everyone;
- **permissions**: signers that can do a part of what their account can, handed to keys with a limit, a rate and a
  time, and revoked while they are in use;
- the **natives**: Rust behind the Move VM. Each keeps caches, deltas or handles for one session,
  next to structs of Move that count or name the same things, and gives them up as a whole or not at all
  while other transactions change storage;
- the **release path**: packages are checked, built, bundled, cut into transactions and published,
  by programs that stop half way and governance that executes in any order.

## 1. The system

| part | state it keeps | operations | used by |
|---|---|---|---|
| `agent.move` | `Agent` at an object address: `owner`, `metadata_uri`, `domain`, table `feedback_auths` of client -> (`index_limit`, `expiry`, `last_index`) | create, grant, revoke, update, transfer owner; friend `verify_and_consume_feedback_auth` | `agent_reputation` |
| `agent_reputation.move` | `ReputationNFT` and `ResponseRecord` at object addresses; `IssuerCapabilityStore`, `GovernanceConfig` at `@aaf` | issue, revoke, append response, grant and revoke issuer capability, transfer governance | callers |
| `agent_validation.move` | tables `pending` and `completed` of one `ValidationRegistry` at `@aaf` | request, respond | callers |
| `object.move` | `ObjectCore` (owner, gate), `TombStone`, `Untransferable` at an address; refs held by modules | create (three ways), generate refs, transfer, burn, unburn, delete, gate | the two above, and anyone on their objects |
| `timestamp.move` | the clock in microseconds | the block prologue moves it, `now_seconds` reads it | all three |
| `table.move` | entries in global storage | `add`, `borrow_mut`, `remove`, `contains` | all three |
| `permissioned_signer.move`, `natives/permissioned_signer.rs` | `PermissionStorage` at an address per handle; `GrantedPermissionHandles` per account | create, destroy and revoke handles; authorize, consume, increase and revoke permissions | the framework's own modules |
| `permissioned_delegation.move`, `rate_limiter.move`, `transaction_validation.move` | keys of an account with handle, expiry and token bucket | register, remove, authenticate; the prologue and epilogue that charge a permissioned signer | the VM |
| `scripts/ts/*.ts` | none on chain | one transaction each, then reading of events | users |
| `table-natives/src/lib.rs` | per session: new and removed handles, a cache of `GlobalValue`s; `TableWithLength` counts in Move | new, add, borrow, contains, remove, destroy; change set | `table.move` |
| `natives/aggregator_natives/` | per session: deltas with their history; predicted and delayed values | create, add, sub, read, snapshot, derive string, destroy; change set | `aggregator*.move` |
| `natives/transaction_context.rs`, `object.rs`, `randomness.rs` | per session: counter of unique addresses, cache of derived addresses, counter of randomness | generate, derive, draw, read the context | Move |
| `natives/event.rs`, `event.move`, `guid.move` | events of the session; counters of handles and GUIDs in Move | new handle, emit, destroy | Move |
| `natives/cryptography/algebra/` | per session: elements in a memory-limited store, handles in Move | deserialize, serialize, cast, operations | `crypto_algebra.move` |
| `natives/cryptography/ristretto255*.rs` | per session: the point store, handles in Move | decompress, compress, clone, operations, also in place | `ristretto255.move` |
| `natives/cryptography/bls12381.rs`, `ed25519.rs`, `multi_ed25519.rs` | none; what they accept becomes a struct of Move | validate, prove possession, aggregate, verify | signature modules |
| `code.move`, `object_code_deployment.move`, `natives/code.rs` | package registries, code; the publish request of a transaction | publish, upgrade, freeze, request | VM |
| `chunked_publish.rs`, `large_packages.move` | payloads outside; a staging area on chain | cut, stage, assemble, publish, clean up | clients |
| `built_package.rs` | a package while it is built | build, extract code and metadata | releases |
| `release_builder.rs`, `release_bundle.rs`, `aptos.rs` | packages, bundle, bindings, scripts | build all, order, generate proposals | genesis, governance |
| `extended_checks.rs` | a cache of the call graph and the metadata to record, for one run | one pass per kind of check | builds |

How they interact. `agent_reputation::issue_reputation_internal` calls
`agent::verify_and_consume_feedback_auth`, the only call between the three modules that changes
state; the counter it increments and the NFT it numbers live in different modules.
Both create objects with `object::create_object`, then drop every ref: `agent` after closing the
gate with a `TransferRef`, `agent_reputation` after `set_untransferable`; response records are left
open. From then on the objects are reachable by anyone through the entry functions of `object.move`,
which know nothing of agents. Permission checks of `agent` read `Agent.owner`, never
`ObjectCore.owner`, and the two drift apart. `agent_validation` calls neither of the others.
All read the same clock.

What is hard here:

- *Transactions in any order.* Each transaction is atomic and an abort undoes it, so there is no
  interleaving inside a function. Any account may send any of them at any time, and two accounts'
  transactions come in either order.
- *Time.* Deadlines and expiries are in seconds; several blocks, each with many transactions, fall in the same
  second. Expiry is lazy: nothing happens at a deadline, a later transaction aborts.
- *Counters that outlive what they count.* `last_index` goes on under a re-grant and starts again
  after a revocation; `response_count` numbers objects that are elsewhere.
- *Capabilities.* A ref that is dropped pins an object for ever; a ref that is kept unpins it at any
  time; a `ConstructorRef` can be used in any order within its transaction.
- *A graph of owners.* Objects own objects, up to a nesting limit in the checks and with no limit, and
  cycles, in the state.

- *Sessions.* A native changes the cached state first and charges gas afterwards; it relies on the whole session
  being dropped. Storage is read once, at different times for different entries, and changes before the commit.
- *Two books.* A counter in a struct of Move and a list in a Rust context describe the same thing, and
  either can be changed without the other: table lengths, event counters, aggregators, handles to points and elements.
- *Speculation.* `try_add` answers by a predicted value, and Move goes on with the answer. The commit must see that
  the answer would be the same on the value that storage has by then.
- *Programs that stop.* The upload of a large package is many transactions with a staging area that outlives them.
  A release is many scripts that governance executes in any order, each of which may come too early.
- *Signers that outlive their permission.* A handle is revoked by a call of the transaction that it signs and pays for.
- *A cached walk.* The check for randomness caches an answer for functions whose callees it is still looking at.

There is no message passing, no lock and no crash of a node inside the system: consensus
and storage are beneath it, and state is what committed transactions left. What fails and starts again are
sessions, clients and proposals.

Correctness, part by part. *agent, agent_reputation*: a quota accounts for the NFTs issued under it and
bounds them; responses are numbered; NFTs are immutable but for revocation and responses, and stay
with their issuer. *agent_validation*: a request is answered at most once, in time, by whom it
named, for good. *object*: a signer can move what it owns through open gates within the
limit, and nothing else; what is pinned or untransferable stays. *timestamp*: only moves forward.
*natives*: what Move sees is what it would see if it worked on plain values, one transaction at a time, and a change
set fits the storage it is applied to; identifiers are never given twice; a struct stands for what was checked.
*publishing*: the registry tells of exactly the code there is, what is immutable stays, and what
is imported is as permanent as what imports it. *uploads, releases*: a package arrives whole, as it was built, and in the end.
*checks*: what passes them has the properties that the VM goes by.

The rest of the repository is the vendored Move of Aptos (staking, governance, coins, tokens, account
abstraction, experimental trading), which the agent modules do not reach, generated transaction builders, and natives and tools
without state. `PROJECT.json` lists it part by part, with what is modelled of it and why the rest is not.

## 2. The modules

    MoveTable   Timestamp ---- RateLimiter        tables and resources; the clock; a token bucket
      |  |  \      |     \          |
      |  |   AgentValidation ......>|..... ValidationLifecycle          (implements)
      |  |                          |
      |  PermissionedSigner --- AccountDelegation                       part of what a master can do
      |
    ObjectCore ---- ObjectRefs                    what signers can do; what refs can do
      |
    Agent ---- AgentReputation ---- AgentFramework ......> ReputationLedger    (implements)

    NativeSession -- TableNatives ......> TableStore                    (implements)
                  -- AggregatorV1, AggregatorV2, TransactionContext, EventNatives,
                     CryptoAlgebra, RistrettoPoints
    SignatureNatives

    CodePublishing -- ChunkedPublish              publishing on chain; in pieces
                   -- ReleaseBundle -- PackageBuild   building, bundling and deploying a release
    ExtendedChecks

Each line is an EXTENDS, `......>` is a refinement. `MCx` instantiates modules for TLC; `xProofs` and
`xTheorems` hold the theorems; `NativesProofs` is about all the natives and `PublishingProofs` about the whole release path. Three of the MC modules put several models side by side, of which a behaviour
uses one, chosen at the start, so that the state space is the sum of theirs: `MCClock` (validation and
delegation), `MCNatives` (one extension of the VM in each behaviour; extensions share no state), `MCRelease` (publish,
upload, release or check).

**Conventions.** An action is one committed transaction and has the name of its function, unless a module says
otherwise below; its
guards are the function's asserts and the aborts of what it calls (a missing table key, a resource
that exists already). A transaction that aborts is a stuttering step. An account stands for its signer.
Global storage of a resource type is a table keyed by address. An `Option` is a set of at most one
element. Events and views that only read are left out, and so are hashes and URIs that no decision reads:
of a URI only whether it is empty counts. Definitions under a comment that begins with *Fault:* are not part of a model: each is a
way in which the definition after it could be wrong, and shows that a property notices.

### The agents

**MoveTable, Timestamp.** Operators for `table.move`; `update_global_time` is a block
prologue with a later time. A NIL block must repeat the time and changes nothing. `MICRO_CONVERSION_FACTOR`
is a constant, so that a small instance has several blocks to a second.

**AgentValidation.** `pending` and `completed` are the two tables. A request id is a
keccak256 hash; the hashed string has fixed-width parts around one variable part, so it determines them, and the
hash is assumed to be free of collisions: the id *is* the record of the hashed parts.
`respond_validation` aborts, for an id that is completed, in `table::add`; that is its last guard.

**ValidationLifecycle.** What callers rely on: opened once, answered at most once by the deadline, final.
The mapping shows a request as answered once there is an answer, even if it is pending again.

**ObjectCore.** `objects` (owner and gate), `untransferable`, `tombstones`. `walk` is the loop of
`verify_ungated_and_descendant` with its counter, started at the owner of the object as in the code. Like the loops of the
release path, it is a recursive function and not a RECURSIVE operator, so that theorems can be about it.
`unburn` has the two branches of the code: the present owner takes the tombstone away; for an object
at the burn address, the account in the tombstone gets it back.

**ObjectRefs.** The life of objects under their refs. A transaction is a sequence of calls ended by
`EndTransaction`, where `ConstructorRef`s and `LinearTransferRef`s, which have no `store` ability, disappear
and any of the storable refs may be dropped. The calls between are unrestricted: they stand for every module
anyone could write. Signers include objects whose `ConstructorRef` or `ExtendRef` is held.
Addresses of `create_object` are never generated twice; named objects cannot be deleted, so
their addresses are used once as well.

**Agent, AgentReputation.** `agents` and `feedback_auths` are the fields of `Agent`, with the table
apart. `grant_first` and `grant_again` are the two branches of `grant_feedback_auth`. `epochs` and
`epoch_of` are history variables, not state of the program: how often a client was authorised afresh by an
agent, the largest limit since then, and which of those authorisations an NFT used.

**AgentFramework.** The two modules together with `ObjectStep`: any account transfers, burns and
reclaims any object, and has objects of its own (assets). Because the framework keeps no ref of its objects,
these are all the calls of `object.move` that apply to them.

**ReputationLedger.** What readers of NFTs rely on: an entry's contents and holder are fixed
when it is issued, revocation is final, responses are counted one by one up to a limit.

### Permissions and delegation

**PermissionedSigner.** Here an action is a *call within* a transaction. A signer is a value: the account and the
address of its `PermissionStorage`, 0 for a master. `storages` are those resources, `active_handles` the lists in
`GrantedPermissionHandles`, `enabled` the feature flag. The natives are operators with the condition under which they return.
Of the permissions of the framework there is one for each way of use.

**RateLimiter.** A token bucket as a value, with the division and its rest, and the sums that do not fit.

**AccountDelegation.** Keys registered with a handle and a limiter, and the transactions they sign: the prologue asks whether the
signer may pay the largest fee, calls follow, the epilogue settles fee and refund. `tx` is the running transaction with the
signers its code has got hold of; `Fail` goes back to `tx.saved`, the state after the prologue, and
charges the fee on it. `budget` and `accepted` are history: what was granted to a storage less what was spent through it,
and how much a limiter has granted since each second. Two things a reader may not expect: a payload that
revokes the handle that pays for it fails in the epilogue (unless fee and refund are equal), since `check_permission_consume` aborts
when the storage is gone; and a key whose handle was revoked stays occupied until it is removed.

### The natives

**NativeSession.** A session of the VM gets the hash of its transaction, runs, and commits or fails. What each
native does, it does in the order of the code: a failure for want of gas leaves the changes made before it, in a session that is
`"failed"` and can only be discarded.

**TableNatives** has storage, the cache of entries of the session with the status of each `GlobalValue`, the sets of new
and removed handles, and the lengths that `table_with_length.move` keeps. **TableStore** is what Move
relies on: transactions on plain maps with fresh handles, which take effect as a whole.

**AggregatorV1** keeps a delta with its history of extremes for each aggregator while `counters`, in storage, goes on changing; `calls`
is history, the additions and subtractions of the session.
**AggregatorV2** has the delayed fields, snapshots and derived strings, and the other
mode in which natives work on values. Its history `plain_ones` runs plain counters beside every aggregator, one from each value that storage may turn out to
have, and says of each whether it would have given Move the same answers. The delta algebra (`DeltaHistory`, `DelayedFieldData`) is in another crate and modelled by
what the natives use of it.

**TransactionContext** has unique addresses, derived addresses with their cache, the byte-wise counter behind randomness, and the
answers about the user transaction. **EventNatives** has both kinds of events under the counters of Move's handles.
**CryptoAlgebra** and **RistrettoPoints** have a store of elements per session and handles in Move; the arithmetic is that of
small groups. **SignatureNatives** keeps nothing: what a native has accepted becomes a struct of Move, in `keys_with_pop` and `made`, and a native is
a sequence of stages, each charged before it is tried; a curve is a subgroup with a cofactor, so that points outside
the subgroup exist.

### The release path

**CodePublishing.** Registries, modules, and a transaction that calls `publish_package` (also through a code object) and then
hands over to the VM, whose compatibility and import checks are modelled by what they do. **ChunkedPublish** cuts metadata and modules
into payloads, byte by byte because cutting is its subject; a client outside the repository sends them and may fail, start again with another build, and
clean up or not. **PackageBuild** is `built_package.rs` after the compiler, **ReleaseBundle** the loop over packages, the order of modules
for genesis, the scripts for governance and their execution in any order. **ExtendedChecks** makes the passes of
`extended_checks.rs`; the walk of the call graph with its cache is an action per step.

Left out of the parts that are modelled: a permissioned signer as the caller of the agent and object modules (there it
can do a part of what its master can), objects derived from a `DeriveRef`, token groups, the views `owns` and `root_owner`, and objects that
sign as issuers, clients or owners of agents through an `ExtendRef` of another module.

## 3. What TLC checks

| run | configuration | checks |
|---|---|---|
| `validation` | `MCClock.cfg` | `TypeOK`, `RecordsMatchIds`, `ReopenedWithinTheSecond`, `UnanswerableIsPermanent`, `ImplementsLifecycle`; `DelegationTypeOK`, `RevocationIsFinal`, `SpentWithinGrants`, `LimiterLikeWindows` |
| `objects` | `MCObjectRefs.cfg` | `TypeOK`, `TransferAuthority`, `PinnedObjectsStay`, `UntransferableStays` |
| `reputation` | `MCAgentReputation.cfg` | `TypeOK`, `QuotaLedger`, `RateLimited`, `ResponsesNumbered` |
| `framework` | `MCAgentFramework.cfg` | `EnclosedObjectsStay`, `ImplementsLedger` |
| `natives` | `MCNatives.cfg` | `TableTypeOK`, `ChangeSetFits`, `LengthsCount`, `ImplementsStore`; `MergesLikePlain`, `CountersMatchStructs`; `DelayedLikePlain`; `IdentifiersAreFresh`; `StreamsAreNumbered`; `ElementsMatchTypes`; `PointsLikeValues`; `AcceptedMeansSigned` |
| `release` | `MCRelease.cfg` | `RegistryMatchesModules`, `ImportsAreProtected`, `ImmutableStays`; `PublishedWhole`, `UploadCompletes`; `ReleasedAsBuilt`, `ReleaseCompletes`; `RandomnessChecked`, `AcceptedIsMarked` |

What they say, each over every order of steps of the instance:

- `RecordsMatchIds`: both tables agree with the ids they are keyed by, and answers are in time.
  `ReopenedWithinTheSecond`: a request can be pending *and* answered, but only when it was answered in
  the second it was made. `UnanswerableIsPermanent`: an expired request is never removed, answered or
  changed. `ImplementsLifecycle`: in spite of both, callers see a request answered at most once.
- `RevocationIsFinal`: every storage is listed with its account, where it can be revoked, or belongs to a handle of the running
  transaction; a signer is never for something that was revoked before its transaction. `SpentWithinGrants`: what
  is left in a storage is never more than what was granted to it less what was spent, fees of failed transactions included.
  `LimiterLikeWindows`: the bucket with its rest equals what one computes from scratch over all windows that end at its last request.
- `QuotaLedger`: the NFTs issued under the present authorisation carry exactly the indices
  1 to `last_index`, each once. `RateLimited`: `last_index` never passes the largest limit granted since the
  authorisation began, though it may well be above the present one.
- `ResponsesNumbered`: the responses to an NFT carry 0 to `response_count - 1`, each once.
- `TransferAuthority`: the transfer check accepts a signer exactly if there is a chain of at most
  `MAXIMUM_OBJECT_NESTING` owners with open gates, in cyclic graphs too. `PinnedObjectsStay`:
  closing the gate and dropping the refs does pin an object. `UntransferableStays`: refs made earlier do not
  help either. In both, the burn address is the exception that the code makes.
- `EnclosedObjectsStay`: whatever is moved into an agent or an NFT, at any depth, stays there.
- `ImplementsLedger`: nothing an account can do with the objects disturbs the ledger of NFTs.
- `ChangeSetFits`: at any moment the change set of a session creates only entries that are not stored, and modifies and deletes
  only entries that are. `LengthsCount`: the counters in Move count the entries. `ImplementsStore`: see `TableStore`.
- `MergesLikePlain`, `DelayedLikePlain`: if the history lets a session commit on what storage has *then*, every call would have had the same
  answer, and the result is the same, as with plain values; strings derived from snapshots agree with them.
  `CountersMatchStructs`: storage has a counter for exactly the aggregators that Move has a struct for, and keys are fresh.
- `IdentifiersAreFresh`: unique addresses and random blobs never repeat, in one session or several, failed ones included, and the cache of
  derived addresses agrees with the hash. `StreamsAreNumbered`: the events of a handle carry 0 to its counter, in the order of the ledger.
- `ElementsMatchTypes`: a handle stands for an element of its structure, and one of type Gt for a member of the subgroup. `PointsLikeValues`: handles behave as
  the values they stand for, assignment in place and clones included. `AcceptedMeansSigned`: a verification with a
  struct that Move can have accepts exactly what its signers have signed: each of them, under a threshold the right number of them, and nothing else.
- `RegistryMatchesModules`: after every transaction the registry tells of exactly the modules there are. `ImportsAreProtected`: what a
  module imports is at least as hard to change as the module, after freezing too. `ImmutableStays`: no module of an immutable package is changed or taken over by another.
- `PublishedWhole`: what a staged upload publishes is one build, whole, whatever earlier attempts have staged. `UploadCompletes`, `ReleaseCompletes`: liveness, below.
  `ReleasedAsBuilt`: the metadata of a released package tells of its modules and of what they import, in the version the VM looks for, and scripts hold it in constants Move allows;
  packages are released in the order of the list and in the language asked for, a bundle lacks none but where one of the three lists ends before, and the bindings on disk are those of what
  was released and, after a failure, at most that of the package at which it happened.
- `RandomnessChecked`: when the checker ends without an error, no function that must not use randomness reaches it, in call
  graphs with cycles too, and an error tells of a call that is there. `AcceptedIsMarked`: what a build without errors uses is in the metadata that the VM goes by.

**Bounds, and why they are enough.** Every bound is a constant with a comment where it is declared.

- *Validation*: 2 addresses, 1 data hash, 2 microseconds to a second, times 0 to 5, `MAX_TTL_SECS` 1 for 30 days.
  Both sides of every boundary occur: time to live 0, 1 and 2, answers in the same second, in the last second
  and after it, two blocks in a second. Ids do not interact beyond being equal or not, so two validators and three
  seconds give all relations between two requests.
- *Delegation*: one key, three calls to a transaction (grant, use and revoke), and three instances: *spending* (amounts to 2, fees to 2, refunds,
  two handles), *agents* (two accounts that sign together, the feature on and off, three handles), *limiters* (capacities 1 and 2, intervals 0, 1 and
  3, seconds 0 to 4, integers to 6: buckets that are full, empty, between, locked and overflowing).
- *Objects*, `refs`: one object at a unique address, one named, two accounts, 2 stored refs, 1 linear ref. A ref concerns one
  object; the second one makes nesting, signing by an object and cycles possible. `nesting`: limit 2 in place of 8, three
  objects: chains one longer than the limit, and cycles of all lengths up to three.
- *Reputation*, `quotas`: limits 1 and 2, 3 NFTs, at most 2 authorisations of a client (`MaxEpochs`), expiries 1 and 2 with a clock of 0 and 1. A third NFT is
  what a counter off by one would issue; two authorisations are what repeats an index. A
  transfer of the agent between the two accounts is included. `responses`: `MAX_RESPONSES` 2 for 100, 3 response addresses, 2 NFTs: one response more than fits.
- *Framework*: one agent, NFT, response and asset and the real nesting limit 8, which four objects cannot reach except by cycles.
  Accounts transfer open objects to every address. The clock is 0 or 1.
- *Natives*: two sessions (two transaction hashes), each with as many calls as make the case that a property is about: two tables with one key and two values (add,
  write, remove and add again in the session after), two aggregators with three additions or subtractions on a limit of 2, two unique addresses, a counter of
  two bytes of two values (both carries and the wrap), two handles and two events, three points, memory for three elements, lists of two signatures over
  groups of order 3 with a cofactor of 2.
- *Release*: two accounts, a code object and the core addresses, packages of one or two modules under all three policies with one upgrade each; two builds of one
  package cut at sizes 0 to 3 into chunks of up to 3 bytes, two faults; nine packages with wrong orders, wrong policies, failing builds and lists of different lengths among them; all call graphs on three
  functions and one of randomness with calls in the directions that `MCRelease` lists, and every combination of the attributes that one pass reads.

Symmetry is used for accounts, addresses and transaction hashes where no constant names one of them, and never with a property that
needs more than a step. Deadlock is not checked: clocks, addresses and quotas of an instance run out, and then nothing more happens.

**Fairness and liveness.** The agents have no liveness property: nothing there schedules anything, no transaction is ever
bound to be sent, a validator need not answer, and a block need not come. The nearest thing to progress,
that an expired request is eventually cleaned up, is false, and `UnanswerableIsPermanent` says so.

`UploadCompletes`: an upload that has begun ends with the package published. It assumes WF of `Client`,
the program that sends the payloads: that it goes on, and starts again after a failure, of which there are
at most `MaxFaults`. That client is not in the repository; the assumption says what `large_packages.move` asks of it.
`ReleaseCompletes`: the packages of a bundle in the order of their dependencies are all deployed in the end. It assumes WF of `Deploy`: genesis goes through its list, and a
proposal that has passed is executed again until it succeeds. A proposal that fails changes nothing, so this is what operators do. That
`sort_by_deps` orders the modules of a package is what genesis rests on.

### Where the code and its documentation disagree

Each is a run of its own that TLC ends with a counterexample.

| run | documentation | code |
|---|---|---|
| `validation_ids` | request ids are globally unique (`agent_validation.move:119`, AIP line 54) | a request answered in the second it was made can be made again with the same id, and then never be answered |
| `feedback_index` | monotonic index for an issuer and an agent (`agent_reputation.move:40`) | revoke and grant restart it at 1 |
| `ownership` | `transfer_owner` maintains ownership consistency (`agent.move:127`) | it changes `Agent.owner` only; the object stays with the creator |
| `reputation_holder` | an agent can own its reputation NFTs (AIP line 42) | the NFT is an untransferable object of the issuer |
| `open_feedback` | feedback that is not gated is permissionless (AIP line 71, `issue_reputation.ts:112`) | an authorisation is required either way; `gated` adds the issuer capability |
| `signature_gas` | a validation costs a deserialization and a subgroup check (`bls12381.rs:387`, `:529`) | `bls12381_pk_subgroub_check` charges a second deserialization in its place (`bls12381.rs:158`) |

Noticed on the way and not made into runs: `object.move:120` says that an object with `Untransferable` cannot be moved, and `unburn`
moves it back from the burn address; the first version of the MultiEd25519 validation does not look at the threshold, although the comment
on `check_and_get_threshold` says that every validated key passed it; `aggregate_signatures` charges one signature more than its comment counts when one
does not parse; a `resource_group_member` without a parameter makes the extended checks panic instead of reporting an error (`extended_checks.rs:329`); an interval
of 0 in a rate limiter is accepted and locks its key (`rate_limiter.move:48`).

## 4. What is proved

TLAPS checks the theorems below for every number of accounts, objects, blocks, quotas, sessions, keys, packages and chunks, from the
named assumptions on constants. Every safety property that a run checks has a theorem, the three refinements
included. Each follows from an inductive invariant by the usual three facts; the invariant is named where the property
alone is not inductive, which is nearly everywhere.

Most assumptions say that constants have their types, that addresses of different kinds are disjoint and that limits and times
are natural numbers. Those that say more: `FinitelyManyAddresses` (the objects of an instance are finitely many; addresses have 32
bytes), `GeneratorOfGt` (the generator of Gt is in the subgroup, as the curve's definition has it), `ReleaseConstants`,
`UploadAssumption` and `ExtendedChecksConstants` (sources, builds and call graphs are of the shape that the compiler delivers).

**The agents**

- **`AgentValidationProofs`**: `TypeCorrect`; `RecordsAlwaysMatchIds`, inductive given the types;
  `ReopenedOnlyWithinTheSecond`, which needs `RecordsMatchIds`: a request can only reuse an
  id of the present second, and the answer stored under it is not earlier than its id and not later than now.
  `UnanswerableForever` is an action property from the types and the clock's monotonicity.
  `RegistryImplementsLifecycle` maps every step to an opening, an answer, a tick or a stutter; that a request under an
  answered id is a stutter is where the mapping earns its keep.
- **`ObjectCoreTheorems`, `ObjectRefsProofs`**: `TypeCorrect`. `UntransferableObjectsStay` rests on the invariant that an untransferable
  object's gate is closed: a `TransferRef` made before could open it, and the check in
  `enable_ungated_transfer` is what prevents it. `PinnedObjectsAreFixed` holds step by step from the types: with
  no ref to an object left, no step makes one. `TransfersFollowOwners` says of the loop of `verify_ungated_and_descendant` that it
  accepts exactly the signers at the end of a path of open owners within the limit, on any graph and for any limit.
- **`AgentFrameworkProofs`**, which has the proofs about reputation too: the invariant for the quotas is `QuotaInv`. `QuotaLedger` alone is not inductive: a first
  grant starts at index 0, so one must know that no NFT belongs to the epoch that begins.
  `EpochsInThePast` says so, and `NftsAreObjects` that the address of a new NFT is in no table.
  `QuotasAreLedgered` and `RateIsLimited` come from it. For `ResponsesAreNumbered`, `ResponsesInv` adds that
  responses are objects, so that a new one replaces none.
  `FrameworkIsSafe` carries all of these over to the framework among accounts that
  transfer, burn and reclaim. `FrameworkImplementsLedger` is the refinement of `ReputationLedger`; its
  invariant `Soulbound` says that an NFT is an untransferable object with a closed gate that belongs to its issuer, an
  account and so never the burn address, which is why `unburn` cannot move it.
  `EnclosedForever`: an account cannot reach what is inside an agent or an NFT, because its walk up the owners has to stop at a closed gate.
  The invariant `PinnedInv` adds to the ledger that the gates of agents are closed.

**Permissions and delegation**

- **`AccountDelegationProofs`**: `DelegationTypeCorrect`, `RevocationIsAlwaysFinal`, `SpendingIsGranted` and `LimitersAreWindows` for any number of accounts, keys,
  storages, signers and calls in a transaction. The invariants have to hold twice, of the state and of the one that a
  failed transaction comes back to. Their part `Linked` adds what `RevocationIsFinal` does not say, that no storage is in two handles: without it
  a revocation could take the storage of another key. For spending, `Reserved` says of the running transaction that its largest fee is
  still there, or was granted and is gone: the prologue establishes it, and it is why the epilogue may ignore a permission that is no longer there.
  For the limiters, `Windowed` says that the bucket with its rest is the least of what the windows that end at its last request leave, in whole and fractional parts: a refill
  that lost the rest of its division would keep the bound and break the equality.

**The natives** (`NativesProofs`)

- *Tables*: `TablesTypeCorrect`, `ChangeSetsFit`, `LengthsAlwaysCount`, `NoOrphansEver` (no entry is stored without its table) and
  `NativesImplementStore`. The invariant has four parts beside the types: handles of the session are hashes of its transaction with numbers
  below the count of those it made (so that fresh is fresh), the cache agrees with storage about what exists (`CacheInv`, on which the change set
  rests), what is stored or cached belongs to a table that exists, and an idle session has nothing. In the refinement a native maps to
  the operation on a plain map, a native that fails to a stutter, since the abstract transaction shows only sessions that can still commit.
- *Aggregators, first version*: `DeltasMergeLikePlain` and `CountersFollowStructs`. `StructsInv` and `StorageInv` are the two books, storage and structs of Move, with
  what the session has done to each; `IdsInv` keeps new ids apart from old ones; `TracksInv` ties a delta and its history to the calls so far:
  the extremes stand for *all* the totals between, so that a start at which the extremes fit is one at which every call does.
- *Aggregators, second version*: `DelayedDecidesLikePlain`. An answer was computed from a predicted value. `Followed` says that as long as the
  history admits a start, the plain counter that began there was given the same answers and stands at that start plus the delta. A
  failed `try_add` is a bound on the starts too, on the other side.
- *Events*: `EventsAreNumbered`, from `Consistent`: for each handle, the numbers of its events, in storage and in the
  session, are the positions below its counter, in order.
- *Transaction context*: `IdentifiersNeverRepeat`. The counter of randomness is bytes with carries; it grows in the
  order of its bytes (`Below`) with every draw, so that the blobs of a transaction are those of exactly the states below it; it wraps when all of them are
given out, where the model stops. Two sessions have different hashes.
- *Points*: `PointsAreValues`. `PointsInv` says that every handle of Move is in the store, which of them Move has, and that an in-place operation
  on one changes no other. *Algebra*: `HandlesAreElements` needs that the product of two members of the subgroup is in it again, for any order and
  modulus, and that powers stay in it; `AlgebraInv` puts an element of its structure behind each handle.
- *Signatures*: `SignedIsAccepted`. A verification is a comparison of points. One that is accepted must not have passed by a point outside
  the subgroup or a wrong sum: `TypesSayChecked` says what every struct that Move can have was checked for, and lemmas about sums of points do the aggregates.

**The release path** (`PublishingProofs`)

- *Publishing*: `RegistryMatchesAlways`, `ImportsAlwaysProtected` and `ImmutableForever`. Between the call that changes the registry and the VM's
  that changes the code the two disagree, by the request under way (`Ahead`), otherwise they agree (`Settled`). `Declared` says of each import that the package
  names its dependency, `Grown` that modules never leave a registry and policies only become stricter.
- *Extended checks*: `RandomnessIsChecked` and `AcceptedIsAlwaysMarked`. In `ExtendedInv` the stack is a path of calls, and until an error is reported either
  a caller of randomness has been found and is being returned along it, or the functions that the cache calls harmless, with those on the stack, are closed under calls. A cache
  that is filled too early breaks the second half exactly at a cycle.
- *Releases*: `ReleasedIsBuilt`. `ReleaseInv` follows a package from the compiler through the bundle into a script; its part `AskedInv` says that what was released and what is still to do are, together, the three
  lists zipped, so that a failing build ends the release and skips nothing; the constants of a script, joined again,
  are the data that were cut.
- *Uploads*: `UploadsAreWhole`. What an earlier attempt has staged cannot be told from the present one, so the invariant cannot be that the area *is* what was sent. `UploadInv` says
  that it *ends* in what was sent, whatever comes before, and that the payloads that remain are a path that carries the rest; when the last has come the area ends
  in the whole, and bytes that can be read as a part of a build and end in one as long are that one.

**How loops are dealt with.** The provers cannot use an induction principle with a predicate as its parameter, so a statement about a recursive
definition of unknown depth is not to be had by induction. The loops of the models are functions on an interval of numbers, and one fact replaces it, that a set of numbers that is not empty has a
least member, which follows from the library's theorem that < is well-founded: a counterexample at the least place contradicts the equation one place before. In this way
one proves first that a function with the equation exists (`LoopIsFunction`), then what it returns. For the release path, walks along owners, carries, powers and sums
of points this was enough.

Model-checked only:

- `UploadCompletes` and `ReleaseCompletes`: liveness under fairness, which the prover does not do.
- The counterexamples of section 3, by nature. `OpenFeedbackPermissionless` is about ENABLED as well.

## 5. Plan, and what is not modelled

Done: the agent framework and the objects it rests on, permissioned signers and delegated keys, the natives that keep
state, signatures, and the release path, with their compositions, three refinements of abstract specifications, liveness of uploads and
releases, and a theorem for every safety property.
Worth doing next, in this order:

1. *Object views*: `owns` and `root_owner` as operators, checked against the relation of owners
   (`owns` has the same limit but ignores gates; `root_owner` has no limit), with cycles.
2. *Abstract specifications* of publishing (a registry whose packages only grow) and of delegation (an allowance for each key), and that the models
   implement them: what the invariants of section 4 say, in a form for readers who do not know the models.
3. *Clients* (`scripts/ts`): read, submit and wait for events, against a chain that other clients change in between.
4. *Multisig account* (`multisig_account.move`), *nonce validation* (`nonce_validation.move`), *voting* (`voting.move`): vendored protocols with
   abstract specifications worth stating (a queue executed in order with enough approvals; no nonce twice before it expires; a proposal resolved once), which the
   framework's own code does not call.

**Not modelled.** The generated builders of `cached-packages` (more than a third of the Rust) translate arguments into payloads, one function for each entry function, and keep
nothing. Natives that format, hash, compare or serialize a value of the VM, and those that hand a function or a signer over to it, are functions of
their arguments. The prover, the documentation generator and the command line configure tools that are outside the repository. The vendored Move of
staking, governance, coins, tokens and experimental trading is not reached from the agents; what matters in it is arithmetic of shares over
wide integers, which small instances do not reach. Scripts and tests were read for the behaviour they expect.
