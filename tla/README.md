# aep-node: a verification project

TLA+ modules, TLC configurations and TLAPS proofs for the stateful core of aep-node, the TypeScript SDKs of
the Agent Enrollment Protocol. An *Agent* acts for an Owner towards *Services*; a *Platform* may hold the
Agent's identities and sign for it. The three SDKs are libraries that run in JavaScript event loops: within
one process a step runs to its next `await` undisturbed, and everything that waits interleaves. Most of what
is hard in this code comes from that, from stores that are read before an `await` and written after it, from
retries under idempotency keys, and from clocks that are read more than once.

Paths are relative to the root of the repository; `service`, `agent`, `platform` and `core` stand for
`packages/<name>/src`.

## Inventory

| Component | State | Operations | What is hard about it | What makes it correct |
|---|---|---|---|---|
| Service: client assertions (`service/index.ts`, `core/jwt.ts`) | replay store | `authenticateClientAssertion`, `consumeReplay` | the verifier is awaited by any number of requests; the clock is read twice; records are evicted while others are in flight | one (agent, jti) is accepted once while its window is open |
| Service: command idempotency (`createInMemoryCommandIdempotencyStore`) | records and pending promises by key | `runOnce` | waiters, bodies that throw, retries before, during and after | bodies of a key never overlap; all answers agree with the one that created the record; every call is answered |
| Service: Enroll, Grant (`handleEnrollRequest`, `handleGrantRequest`) | enrollment store | enroll, grant, and the operator's own writes | read, await a policy, write back | required claims are always held; a Grant had an active enrollment; updates are lost only to overlapping ones |
| Service: credentials (`storedBuiltInGrantType`, `handleRevokeRequest`, `authenticateProtectedResource`) | credential store | grant, revoke one or all, authenticate | issue and save are apart; a list is matched while a Revoke runs; handlers run in turn and may throw | revocation is final and covers what was stored; only live, unambiguous credentials authenticate |
| Platform: identities (`createAepPlatform`) | identity, key, replay and idempotency stores | provision, sign, verify, update, get | authorized on a record that has changed since; retention of idempotency records; expiry | callbacks run once per retention; identities have keys; signatures rest on an identity that was active |
| Agent: sessions (`createAepServiceSession`, `createAepAgent`) | identity store, credential store, grant flights, promises and flags of each session | enroll, status, grant, revoke, forgetCredential, identity | sessions share stores; answers are late or lost | one Grant per flight; a Grant rests on evidence about its own identity; the local store forgets what was revoked and nothing else |
| Agent: pending signing (`signClientAssertion`, the Platform's delegated signer) | the signing's keys; the Platform's records | sign, continueSign | polls and retries are the same call | one assertion per signing; an approved signing ends |
| Agent: protected resources (`fetchProtectedResource`) | target, redirects, policy, challenge; stored credentials | fetch with policy, probe, challenge, Grant, authenticated request | redirects that leave an origin and come back; a cached policy replaces the challenge | credentials go only where they were asked for; the caller's header fields only home; body and method everywhere |
| Agent: public documents (`public-documents.ts`) | cache by URL, flights | fetch, revalidate, redirect alias | two flights of one URL overtake each other; entity tags after redirects | a cached document is not older than it is dated |
| Agent: Inspect (`inspectService`, `inspectOnce`) | Inspect cache, promise of a session | fetch, revalidate, check the Service's DID | the Service is deployed anew while an answer is on its way; a cache shared by calls that read the clock before they ask; callers that join a promise | no document is used for longer than its lifetime; only those whose DID is the origin's; a session asks once at a time |
| Commands on the wire (`core/protocol.ts`, the builders of the Service, the readers of the Agent) | the Agent's Inspect document, the Service's enrollment and records | build and read requests, responses, problems | three packages have to agree about every combination of optional members, across retries, policy changes and deployments | every answer is read, every problem reaches the caller, and what a refusal asks for suffices |
| Hosted verification (`createHostedPlatformClientAssertionVerifier`) | those of Service and Platform | verify through the Platform | two replay stores, two clocks, a key derived from the request; verdicts are recorded, lost, or late | what is accepted was presented while the identity was active; a suspension takes effect within a bounded time; a verdict is not taken back while its assertion lives |
| What is written by one package and read by another (`core/http.ts`, `core/jwt.ts`, `core/did-web.ts`, the builders and parsers of all four) | none | carriers of credentials, challenges, claims, DIDs and their documents, discovery, OpenAPI policies | the two sides are written apart, with checks of different strictness, in four packages | what one side writes the other reads, and takes for what it was meant |
| Inspect documents (`buildInspectDocument`, `core/inspect.ts`) | none | built from a configuration, parsed, looked into | three packages read the same members with different checks | what is built is what the Service does, and what an Agent makes of it |
| Service documents (`agent/service-documents.ts`, `core/service-documents.ts`) | one download | choice, download with redirects and a digest, parsing of portable documents | limits of size, depth and hops; a redirect that leaves the origin | a document is the one that was described, and bounded |
| Adapters (`packages/adapters`), HTTP of the Service | none | requests in, answers out | four frameworks with their own idea of a header field, of the origin and of the path | the framework makes no difference; a command is done for the Agent that sent it |
| Conformance package and scripts, examples | | | test harnesses and demonstrations | not modelled |

How they interact: an Agent command resolves Inspect, has an assertion signed (locally, or by the Platform's
Sign with its idempotency store), and posts it with an Idempotency-Key. The Service authenticates the
assertion (verifier, claim check, replay store), then runs the command under its idempotency store, over the
enrollment and the credential store. Fetching a protected resource puts policy documents, challenges,
redirects and Grant in front of that. All ports (stores, policies, fetch, clocks) are callbacks that may be
slow, fail, or be shared with other code of the application.

PROJECT.json lists the hazards found, each at its line, with the properties aimed at it.

## Modules

| Module | Models | State in the model and in the code |
|---|---|---|
| `ClientAssertionReplay` | `authenticateClientAssertion` and the in-memory replay store | `store` is the map of `consumeReplay`; `validatedAt` and `consumedAt` the two readings of the clock; `running` the request that the event loop runs between them |
| `OnceCommand` | nothing of its own: the abstract write-once register that command idempotency promises | `record` fixed by the first `Create`; `Replay` and `Conflict` in one step |
| `CommandIdempotency` | `createInMemoryCommandIdempotencyStore` | `record` and `pending` are its two maps; `waitsOn` the promise a call awaits |
| `ServiceEnrollment` | Enroll and Grant, over `INSTANCE CommandIdempotency` | `enrollment` is the record of one Agent; `seen` and `decision` the locals a body holds across awaits; a body that throws may have written or issued before (`effects` remembers which did) |
| `ServiceCredentials` | stored grant types, Revoke, authentication of protected resources | `credential` is the store; `snapshot` the list a request matches |
| `PlatformIdentities` | Provision, Sign, Verify, Update, Get | one variable per store; `seen`, `asked`, `fresh` the locals of a call |
| `AgentSession` | sessions of one Agent with one Service | `stored`, `local`, `flight`, `promise`, `active` as in the code; `wire` the requests and answers under way |
| `PendingSigning` | pending signing, Agent and Platform together | `key` drawn by the Agent, `record` of the Platform with the time it has left |
| `PublicDocumentCache` | `fetchAepPublicDocument` | `cache`, `flight`; `frame` the locals of a fetch, the clock it began with among them, which the awaited `cache.get` is compared to later; `site` the web |
| `ProtectedResource` | `fetchProtectedResource`, over `INSTANCE PublicDocumentCache` | `target`, `redirects`, `demand`, `policy` are its locals; `held` the stored credentials |
| `CommandExchange` | Enroll, Status, Grant and Revoke from the Agent's call to what it gets of the answer | `deployed` is the configuration `createAepService` was given, `inspected` the document of the Agent's session, `record` the idempotency store; `config` and `seen` the closure and the locals of a handler; `reply` the latest answer |
| `HostedVerification` | the hosted verifier over the Platform's `verify`, EXTENDS `ClientAssertionReplay` | `record`, `pending` and `used` are the Platform's idempotency and replay stores; `ahead` is the difference of the two clocks; `stage`, `seen`, `asked`, `verdict` are the locals of a verification under way |
| `Inspection` | `inspectService` with its cache, and `inspectOnce` of a session, against a Service that is deployed anew | `cache` is the AgentInspectCache, `promise` the session's; `frame` the locals of a call; `current` and `last` what the Service serves and when it served it |
| `SigningAndInspection` | `PendingSigning` beside `Inspection`, which share nothing | those of the two; `step` is `Inspection`'s `stage` |
| `InspectDocuments` | the Inspect document from the configuration through its validation to what an Agent does by it | none: operators |
| `ServiceDocuments` | descriptors, declarations and portable documents, and how an Agent downloads one | none: operators |
| `ClaimValues` | which values of a claim are acceptable, and the limits to their size | none: operators |
| `HttpAdapters` | the four adapters, the Service's part that they call, the Agent's requests to it | none: operators |
| `CredentialBodies` | a credential from the body of a Grant to the request that presents it; Revoke's body; migration of records | none: operators |
| `PlatformCommands` | the Platform's commands on the wire, and the registry of managed Agents | none: operators |
| `OpenApiPolicy` | `interpretAepOpenApiOperation` | none: operators |
| `Presentation` | how a credential is put in header fields, chosen from them and evaluated, and what challenge comes back | none: operators |
| `AssertionClaims` | the claims of an assertion from who signs it to who accepts it | none: operators |
| `DidWeb` | the DIDs and DID documents of managed Agents, and how a Service finds a key in them | none: operators |
| `PlatformDocuments` | discovery, pages of identities, answers to Sign, verdicts: as written and as read | none: operators |
| `*_proofs` | the theorems about a module | |
| `MC*` | instances for TLC | |

An action is one stretch of a handler from one `await` to the next, and every early return on the way is a
disjunct of it. `map` in PROJECT.json names the lines each definition stands for. Variables marked
"history" in the modules are read by properties alone.

Compositions: the commands of `ServiceEnrollment` take the steps of the idempotency store of
`CommandIdempotency`, so that what is proved of the store holds of them; the two together implement `OnceCommand`
(`ImplementsOnceCommand`), and `ProtectedResource` reads its policies through `PublicDocumentCache`. `AgentSession` and `PendingSigning`
have the other side of the wire in them, as far as the Agent's requests can see it. `CommandExchange` is about
the content of the same handlers: `ServiceEnrollment` tells claims and documents apart and interleaves their
awaits, `CommandExchange` takes the same steps (a body between its read and its write is one of its stages)
and follows the lists of their answers through the validators of core into the Agent. `HostedVerification`
puts the Platform's `verify` where `ClientAssertionReplay` lets a verifier answer as it likes, and is shown to
refine it (`ServiceRefined`). `MCProtectedResource` takes the policies of `ProtectedResource` from OpenAPI
documents that `OpenApiPolicy` interprets. `SigningAndInspection` puts `PendingSigning` and `Inspection`
into one specification, and a step of one leaves the other as it is; `MCPendingSigning` bounds it to behaviours
about one of them, for the two share nothing. `Inspection`
stands for `PublicDocumentCache` by how old a document that may give, which `ProtectedResource_proofs`
justifies. The modules of operators are the data of the others: `InspectDocuments` and `ServiceDocuments` of
the documents that `CommandExchange` numbers, `ClaimValues` of its claims that are present or missing,
`CredentialBodies` of the credentials of `AgentSession` and `ServiceCredentials`, `PlatformCommands` of the
calls of `PlatformIdentities`.

What is abstract, in every module: signatures, digests and identifiers are values that match or do not;
claim values are present or missing; responses are the outcomes a caller can tell apart; wording and logging
are left out, and header fields outside `Presentation` and `HttpAdapters`. In the modules with variables,
malformed requests are refused before any state is touched and are not sent; `PlatformCommands`,
`CredentialBodies` and `HttpAdapters` have them.

## Runs

Deadlock is not checked in any run: every model ends when its calls have been made.

| Run | Bounds | What it shows |
|---|---|---|
| `assertion_accepted_once` | 3 requests, 4 assertions (two pairs that share a jti, one issued in the future, one that does not fit), skew 1, lifetime 2, clock to 5, past every window but the latest | **violated**: an assertion is accepted twice (finding 1); by `AssertionClaims`, whatever an Agent builds is signed, and accepted exactly where and when it was meant; by `ClaimValues`, values have their grammar |
| `command_idempotency` | 3 calls, 2 keys, 2 materials, 2 responses | termination of every call, whoever threw before it; by `InspectDocuments` and `ServiceDocuments`, documents mean what Services do and are read safely |
| `service_enrollment` | 3 calls, 2 keys, 1 required claim and document, 1 operator write | what is stored and granted, whatever interleaves; mutual exclusion of bodies; an effect is repeated under a key only after the body that had it threw; refinement of `OnceCommand` |
| `enrollment_body_once` | the same | **violated**: a call that waited repeats what a body did that then threw (finding 2) |
| `service_credentials` | 2 calls, 2 agents, 3 identifiers, 2 secrets, 2 grant types, one tick, three kinds of initial store | revocation, coverage, liveness and ambiguity of credentials; by `Presentation`, a credential that is sent is evaluated as itself |
| `platform_identities` | 3 calls, 2 keys, 2 identities, retention 2, lifetime 1, clock to 2 | the Platform's promises across waits, expiry and updates; by `DidWeb`, `PlatformDocuments` and `PlatformCommands`, what it publishes is found and read, and what it is asked is done for those who may ask |
| `agent_session` | 2 sessions, 3 calls, 2 identities, 2 credentials, 2 types, 1 caller's key | flights, evidence, what the local store forgets, and which credentials are lost |
| `pending_signing` | 1 signing, 4 keys, retention 3; or 2 inspections (both direct, both in a session, one of each), 3 documents of which one has another's DID, lifetime 1, clock to 3, answers that are cached or not | a second assertion is signed for one signing only when the record of the first has expired; an approved signing ends; no inspection returns a document that was out of date for longer than its lifetime; a session asks once at a time; by `HttpAdapters` and `CredentialBodies`, frameworks agree and credentials are kept and presented as granted |
| `pending_poll_repeats` | the same | **violated**: a poll repeats the recorded "pending" (finding 3) |
| `command_exchange` | 2 calls, 1 key and random keys, 2 configurations (with required claim and documents; without them and without a handler for its grant type), 3 decisions, 12 requests, 1 deployment or write of the operator | every answer is read, no problem is lost, the documents a refusal names suffice |
| `protected_resource` | 1 fetch and 1 other reader of the cache, 2 origins, 2 redirects, lifetimes of 1, clock to 1, 1 change of the web | cached documents are no older than they are dated; where credentials and the caller's header fields go; by `OpenApiPolicy`, a document demands what its most specific template says |
| `hosted_verification` | any verifier: as `assertion_accepted_once`; the Platform: 2 requests, 2 assertions of one Agent with one jti, the Platform's clock equal or one ahead, skew 1, lifetime 2, retention 2, clock to 4 | with any verifier, no (agent, jti) is accepted twice within a window, and an accepted assertion is accepted again only when its window closes between the two readings of a request; with the Platform, what is accepted rests on an active identity, a suspension takes effect, verdicts stand; `AssertionClaims` and `ClaimValues` as above |

Why these bounds are enough to be of use. Each hazard is a conflict between two calls, or a call and an
operator, over one record; three calls add one that comes in between, such as the eviction of a record by a
third request, or a waiter that is overtaken when a body throws. Two keys (identities, secrets, origins) are
one to conflict over and one to be confused with. Clocks run far enough for a lifetime, a window and a
retention to end while a call is under way. Two redirects are the least that leave an origin and come back.
Symmetry is used over interchangeable model values, and never in a run with a liveness property. The bounds
`MaxTime`, `MaxMoves`, `MaxChanges` and `Asked` exist for TLC alone; the proofs are for all of their values.
`command_exchange` has also been run with two moves (the same verdict, in about three minutes); one is enough
to make a configuration, an Inspect document and a handler under way disagree.

Type invariants are proved as `TypeCorrect` (`StoreTypeCorrect` for `CommandIdempotency`, `HostedTypeOK` within
`HostedInv`) where a module has proofs, and are then not checked again by a run.

The modules without variables are checked by TLC before it explores any state: the named `ASSUME`s of
`MCProtectedResource`, `MCServiceCredentials`, `MCClientAssertionReplay`, `MCPlatformIdentities`,
`MCCommandIdempotency` and `MCPendingSigning` compare the operators with each other, and with reference definitions, over all inputs from small sets.

| `ASSUME`s | What they say |
|---|---|
| `SpecificityIsAPreorder`, `ConcreteFirst`, `TiesAreOneTemplate`, `SlashesAsAdvertised`, `AlternativesCommute` | the comparison by which templates are sorted is one that a sort may use; a template as the path is written wins; only templates that differ in the names of variables tie; a suggested path is one that would match; the order of alternatives decides nothing but the order of methods |
| `PresentedIsEvaluated`, `ProbesAreAnonymous`, `SelectorsAgree`, `RepeatedIsRefused`, `ChallengesUnderstood` | what an Agent presents authenticates its holder by its method, whatever else the caller put in the request, and nobody else; a probe presents nothing; the two selectors of core and of the Service agree where they should; a repeated field is refused; a challenge is understood |
| `BuiltIsSigned`, `AcceptedWhereMeant` | claims that are built are signed, directly and through a Platform; they are accepted by each verifier and by the Service's own check at their target and in their time, and at no other |
| `EscapesAreUndone`, `ConfigurationCarriesOver`, `SomeConfigurationFits`, `SampleInPrefix`, `KidsNameTheirKeys`, `DocumentsSpeakForThemselves`, `RelativeIdsAndLoopback` | the URL on an identity's record is where a Service looks; a kid leads to the key of the method it names while the identity is active; a document speaks for its own DID only |
| `DiscoveryIsUsable`, `SomeDocumentsAreWritten`, `AnswersAreRead`, `VerdictsAreUnderstood` | a discovery document that can be made can be read, leads to the Platform, and promises a lifetime that is signed for; pages, answers and verdicts that are written are read as meant |
| `OnlyRightConfigurationsAreBuilt`, `DocumentsMeanWhatServicesDo`, `OthersMayLeaveOut`, `BasesAgree`, `ReferencesLeadToBoundServices`, `ReferencesKeepTheirOrigin` | a configuration that is built gives a document that parses and says what the Service does; documents of others may leave out what can be left out; the Service's and the Agent's URL of a command agree for every base; an OpenAPI reference is one of the Service's own origin |
| `DocumentsAreBounded`, `DescriptorsCanBeRead`, `DocumentsAreReadSafely`, `LoopbackDocuments` | what passes as a portable document is within every limit; what a Service may describe an Agent can read; what is read is what was described, over secure hops within the origin and in its size; only loopback hosts are read over http |
| `MailboxesFollowTheirGrammar`, `AddressesHaveTheirWords`, `DatesAreDays`, `AddressesAreWhole`, `ClaimsAreCheckedByName`, `SupportPredictsWhatIsMissing`, `ValuesStayWithinLimits` | the validators of claims against grammars stated apart from them; what an Agent finds supported is what the Service will not miss; no value is larger or deeper than the limits |
| `FrameworksAgree`, `CommandsAreForTheirAgent`, `LaterLinesAreNotUsed`, `KeysResolveAsServed`, `RoutesLeadToHandlers`, `OnlyTheAuthenticatedProceed`, `ResourcesStayAtTheirOrigin` | a request has the same answer behind each framework; it is done for the Agent whose assertion came, with the key that came; of repeated fields no later line is used; the paths an Agent asks for are those an adapter serves; nothing behind an adapter runs unauthenticated; the origin a client claims decides nothing that it should not |
| `GrantedIsRecognized`, `WrongBodiesAreRefused`, `MigrationKeepsCredentials`, `MembersOfTwoTypes`, `ParametersDoNotWiden` | what a Service grants, an Agent keeps and presents and the Service recognizes; a body without its members is refused; migrating a record changes no secret; what `MembersOfTwoTypes` and `ParametersDoNotWiden` except is under *Observations* |
| `AsksAreHonoured`, `StrangersLearnNothing`, `OwnersAreTold`, `CommandsNeedKeys`, `IdentitiesAreFound`, `ServicesAreDids`, `KeptIdentitiesSign`, `CommandFieldsStand`, `PathsNameTheIdentity`, `RegistriesKeepIdentities`, `UpdatesAddUp` | requests an Agent writes are read as meant, or refused; who may not use an identity is not told whether there is one; an owner is told what became of it and can move it where the policy lets it; a command that is done once needs a key and a principal; the Agent keeps an identity that signs where there is one; an identity that was kept gets its own signer; a caller's header fields do not touch those of the command; a path leads to the identity it is for; a registry keeps one identity for each DID, and an update keeps what it does not name |
| `UnfitListsAreLost` | see *Findings* |

Mutants: for every property of a passing run PROJECT.json names a definition of the model and a plausible bug
in it (kept beside it, with the suffix `Mutant` or a name of its own) under which TLC finds the property
violated.

### Fairness

Only two specifications state fairness. `CommandIdempotency!FairSpec` has weak fairness of `Enter`, `Wake`
and `Finish` of each call: the event loop resumes whatever can be resumed, and a command body settles, with a
response or an exception. `PendingSigning` has weak fairness of the clock and of `Continue` (the resolver
loop of the Agent's README polls until it is done) and strong fairness of the Platform answering a poll and
of its answer being taken, for the network may lose any answer, but not all of them. Nothing is assumed of
the Owner's approval.

### Findings

1. *An assertion is accepted twice.* The claim check and the replay store read the clock separately
   (`service/index.ts`, 1539 and 1509). When `exp + skew` falls between the readings, the check still passes
   and the record of the first acceptance has just expired. `ReplayNeedsBoundary`, proved, says that nothing
   else leads there.
2. *A command body runs twice for concurrent matching requests.* INTEGRATION.md (81) asks the idempotency store
   to prevent that. The store the Service package ships serializes bodies, but keeps nothing of one that throws
   (`service/index.ts`, 772 to 794): a waiter then runs the body again, though the first may have written the
   enrollment, or issued a credential, before its promise was rejected. `RepeatedOnlyAfterThrows`, proved, says
   that nothing else repeats an effect.
3. *A poll repeats "pending".* `continueSign` keeps one idempotency key, and the Platform records a pending
   answer under it for an hour. `ApprovedSigningEnds` holds because records expire.

*Observations*, which no run refutes a claim with and properties are worded around:

* The body of a caller's request and its method are sent to every target of a redirect, in another origin too,
  by the probe and by the authenticated request (`agent/index.ts`, 1989 and 2093). The Agent's README has it
  so: it calls it "exact request replay" (251), and says of header fields alone that they are not forwarded to
  another origin (259). So `RequestsCarryTheirOwn` is about header fields, and `Send` has nothing else in it.
* An Enroll whose body read the enrollment before the operator suspended it writes the old status back
  (`service/index.ts`, 1036 and 1086). `LifecycleKept` says that nothing else changes a status, and the
  Service's README concedes lost updates between concurrent ones.
* Lists of the operator's that core's validators refuse (a claim required twice, an empty name,
  `service_documents` among the pending requirements) are sent all the same, and the Agent then drops the
  whole problem: `UnfitListsAreLost` in `MCCommandExchange` shows it, and `ListsAreSendable` is assumed
  elsewhere.
* Provisions of one Service under two keys that look before either has created make two identities.
  `DuplicatesOnlyFromRaces` says that this is the only way.
* A resource at a loopback host, over http, can only be accepted by the did:web verifier: the other two do not
  pass `allowInsecureLoopback` on (`AcceptedWhereMeant` is worded by verifier). None of them is given the
  Service's `clockSkewSeconds` either, so the tolerance after `exp` is in effect only for verifiers of the
  application's own.
* core renders a credential with a comma for the dedicated field, which the parser of that field refuses; and
  a Service that selects `AEP-Authorization` as the field of its API keys never recognizes one.
  `PresentedIsEvaluated` names both exceptions.
* A repeated `Authorization` field is refused by core's selector, and composes with the dedicated field in the
  Service's: `SelectorsAgree` is about fields that stand once.
* A Platform whose maximum is below 300 seconds refuses the lifetime an Agent asks for by default.
* An id generator may return ids that no did:web URL can have (a slash, a space, dots alone). The identity is
  then provisioned, and no Service finds its document (`ConfigurationCarriesOver`). And a prefix that contains
  the id `createAepPlatform` tries its configuration with passes templates it should not (`SampleInPrefix`).
* `AgentInspectCache`, which INTEGRATION.md lists among what an integration provides, is consulted by
  `inspectService` alone: sessions pass their `publicDocumentCache` on, and the other makes no difference. When a Service changes its DID, a session keeps
  signing with the identity it has; and an `identityPromise` that was rejected stays the session's answer, for
  every later command of that session (`agent/index.ts`, 769).
* A Grant whose caller chose no idempotency key, and whose answer is lost, leaves a credential that works at the
  Service and that nobody can fetch. No other Grant does (`LostOnlyUnderRandomKeys`): a caller that means to
  retry has to choose the key.
* A repeated field is ambiguous and resolves to no value, says a comment of the Express and Fastify adapters
  (`adapters/express/src/index.ts`, 235); but Node keeps the first `Authorization` line and drops the others
  before an adapter sees them, so the first assertion is presented, and joins `Idempotency-Key` lines into one
  key with a comma, which `resolveIdempotencyKey` would refuse. That function takes a blank key which the
  Service refuses (`LaterLinesAreNotUsed`, `KeysResolveAsServed`).
* An endpoint base that begins with two slashes passes its pattern and leads to another host; bases are plain
  in `BasesAgree`. In the address literal of a mailbox, "::" may stand for one word, and octets may come before
  it (`AddressesHaveTheirWords` has the grammar of the code).
* A grant body with the members of two grant types passes, and the Agent may present it as the type that it is
  not (`MembersOfTwoTypes`). Two Basic credentials whose user and password meet in a colon are presented
  alike. A Service may issue API keys that no header field can carry, which the Agent then refuses to present.
* `parameters` of a Revoke are put in after the advertised members were checked and may add a `credential_id`
  to a Service that does not take one (`ParametersDoNotWiden` says that nothing else is added).
* A Provision may hand out an identity that is suspended, and the Agent keeps it though it cannot sign
  (`KeptIdentitiesSign`). What it finds or is given is not compared with the Service it asked for. Only the
  first `{agent_identity_id}` of an endpoint template is filled (`PathsNameTheIdentity`), and a header of the
  caller's spelled `authorization` joins the Agent's own (`CommandFieldsStand`).

## Proofs

TLAPS checks the theorems below for all values of the constants that satisfy the named assumptions. Each rests
on an inductive invariant of named conjuncts, one lemma per action, and temporal steps by PTL.

| Module | Inductive invariant, and why it is needed | Theorems |
|---|---|---|
| `ServiceEnrollment_proofs` | of `CommandIdempotency`, through `INSTANCE`, for the requests and answers of Enroll and Grant: `Phases` and `PendingRuns` (the pending map names exactly the running call of a key), `AnswerFitsRecord`, `OneCreator`. Of `ServiceEnrollment`: that invariant, `Bodies` (what a body has read, by its step), `RequiredClaimsHeld`, `GrantsSawActive`, `EffectsEnd` (who has written or issued has ended, created or thrown), `SavedIsCovered` (what an Enroll saved is stored, or a rival is to blame) | of the store: `StoreTypeCorrect`, `StoreBodiesExclude`, `AnswersConsistent`, and `StoreImplementsOnce`, where each step is one of `OnceCommand` or a stutter; and, as the commands take its steps, of the commands: `BodiesExclude`, `CommandsImplementOnce`; `TypeCorrect`, `EffectsRepeatOnlyAfterThrows`, `ClaimsAlwaysHeld`, `GrantsAreEntitled`, `OnlyRivalsLose`, `LifecycleIsKept`, `DemandsAreKept` |
| `ServiceCredentials_proofs` | the store only *grows* (records are added or revoked, never replaced): `HistoryGrows` relates the store to what it was when each call began, `RevokedSoFar` what a Revoke has done so far, `PrincipalStored` the credential a request settled on | `TypeCorrect`, `GrantsRecorded`, `RevocationFinal`, `RevokesCover`, `OnlyLiveAuthenticate`, `AmbiguousRefused` |
| `PlatformIdentities_proofs` | `Course` (what a call has, by its step), `PendingRuns` (the pending map names exactly the running call of a key), `LatestIsKept` (a record is that of the latest call that ran under its key, which came when the one before had expired), `CreatedOnce`, `AnswersAreStored` (what was answered, now or from a record, is in the store), `ActiveWasSeen`, `ConsumedIsRemembered` | `TypeCorrect`, `RetriesRunOnce`, `AnsweredIsUsable`, `DuplicatesAreRaces`, `SignsActive`, `ReplaysAreLate`, `TerminatedStays` |
| `AgentSession_proofs` | `CallsRun` (by its stage, what a call has, what is on the wire for it, and what a Revoke that was handled has revoked), `FlightsLed` (a flight names the one call that leads it: what makes joining safe), `BeliefsHaveEvidence`, `OneIdentity` (all stores and calls name one identity until provisions race), `KeptWereIssued`, `RevokedStaysForgotten`; besides, `KeysFetch` (a credential granted under a key is recorded under it) | `TypeCorrect`, `GrantsDoNotOverlap`, `GrantsHaveEvidence`, `RevokedIsForgotten`, `ForgottenWereRevoked`, `LostWereUnderRandomKeys` |
| `PendingSigning_proofs` | `KeysAreOwned` and `StraysAreTheirs` (whose a key, and a request still on its way, is), `NothingSignedYet`, `SignedIsRecorded` (what was signed is on record, under the key its signing still has: what makes a retry harmless), `SpentIsExpired`. `InspectionInv`, of `Inspection`: `DocumentsInv` (the cache, a call that holds an entry or an answer, and a settled flight each say from when on their document was served at the latest; what was served only grows, so this stays true while the Service is deployed anew) and `PromiseInv` (whoever awaits has a flight; a flight has somebody who awaits it; a promise has exactly one leader, and an open flight is the promise) | `TypeCorrect`, `SignsOnce`, `SignedStaysOnRecord`; of `Inspection`: `InspectionTypeCorrect`, `InspectedIsCurrent`, `SessionInspectsOnce` |
| `ProtectedResource_proofs` | of the cache: `FlightsHeld` (a flight names a reader at work on its key), `DatedFromStart` (a record is dated with the start of its fetch), `VersionsCount`, `FramesOnlyAtWork`, `HonestCache`; of the calls: `WaitsInCache` (a call is in the cache exactly while it looks up or refreshes), `PoliciesAreRecent` (the answer that a lookup gets, or will get from a flight it joined, is not older than `MaxAge` at the time from which it may be answered), `CallsRun` (who invited a call, with which method, by its stage) | `TypeCorrect`, `AgesHonest`, `InvitedFirst`, `OwnRequests` |
| `CommandExchange_proofs` | `ExchangeInv`: `Frames` (what a handler under way has read fits its step), `ListsStaySendable` (whatever is stored or held by a handler has lists that can be sent), `ReplyFits` and `RecordsFit` (an answer can be read now and when it is repeated), `DeclaredDocumentsSuffice` (nothing is missing that the Agent has not been told, because a handler under way that read another enrollment cannot settle it) | `TypeCorrect`, `AnswersUnderstood`, `ProblemsReachCallers`, `DeclarationsSuffice` |
| `HostedVerification_proofs` | of `ClientAssertionReplay`: `TypeOK`, `Readings` (readings lie in the past; whoever is validated holds the event loop), `OpenWindowRecorded` (an accepted assertion keeps its record until the window ends: what makes `Known` catch a replay), `NoReplayInWindow`. `HostedInv`: that invariant, taken through the refinement; `Evidence` (a verdict, recorded or on its way, rests on a read of an identity that was active after the assertion was presented); `Lives` (how long a signed assertion lives, counted from when its identity was last active). `Course` besides, for the verdicts that stand: what each record, and each verification under way, says of its assertion | of `ClientAssertionReplay`: `TypeCorrect`, `Recorded`, `ReplayPrevented`, `ReplayOnlyAtBoundary`; `ServiceRefined`, `HostedReplayPrevented`, `AcceptedOnEvidence`, `SuspensionBounded`, `VerdictsStand` |

Some modules of operators have theorems besides, in the proofs of a module that uses what they describe. They
are about all inputs, where TLC evaluates the same statement over small sets, and have their hypotheses on the
constants in their statement, under one name for each module:

| Theorem | of | What it says, and from what |
|---|---|---|
| `BuiltIsSigned`, `AcceptedWhereMeant`, `ReplayChecksClaims` (`HostedVerification_proofs`) | `AssertionClaims` | what an Agent builds is signed, by its key or by the Platform; it is accepted by a verifier and the claim check together exactly where and while it was meant to be, spelled out for each of the three verifiers; and the claim check of `ClientAssertionReplay` is this one, seen from the claims it tells apart. From `ClaimsConstants`: a record is not `None` |
| `DidsDiffer`, `ConfigurationCarriesOver` (`PlatformIdentities_proofs`) | `DidWeb` | DIDs of distinct identities differ; a template that fits the sample id fits every other. From `DidConstants`: escapes can be undone, the sample id is a segment of a path. The second needs a host and a prefix without the sample in them, for the reason under *Observations* |
| `AsksAreHonoured` (`PlatformIdentities_proofs`) | `PlatformCommands` | a request to sign is read as meant, signed only for an active identity of that Service, and unreadable for two reasons only. From `CommandConstants`: every lifetime can be written as a number |
| `PresentedIsEvaluated` (`ServiceCredentials_proofs`) | `Presentation` | a credential that is sent authenticates its holder, for every list of methods, store, carrier and whatever the caller adds. The least method and field that fit come from the well-founded order of the numbers. From `WireConstants`: a field's content is not `None` |
| `GrantedIsRecognized` (`ServiceCredentials_proofs`) | `CredentialBodies` | what is granted is taken, kept and presented as what the Service has on record, and matches no record of another type or value. From `BodyConstants`: digests do not collide, a user name is a prefix of its credential's value; and from `OfOneType` for the body granted, for the reason under *Observations* |

Assumptions: those named in the modules (`ReplayConstants`, `NoneIsNoValue`, `NoneAssumption`,
`KeysAssumption`, `RequiredAssumption`, `DecisionAssumption`, `MaxMovesAssumption`, `MethodsAssumption`, `StoreAssumption`,
`PlatformAssumption`, `RetentionAssumption`, `DocsAssumption`, `ReadersAssumption`, `TargetsAssumption`,
`OptionsAssumption`, `ExchangeConstants`, `HostedAssumption`, `DocumentsAssumption`, `MissingAssumption`,
`FlightsAssumption`): types of the constants, and that `None` is none
of the values it stands beside. `HostedAssumption` also says that the Platform keeps a verdict for at least as
long as it signs for, and that the hosted verifier compares no `exp` with the Service's clock;
`ReadersAssumption` that fetches and the other readers of the cache are told apart; `FlightsAssumption` that
there are as many flights as inspections, so that one is always free: promises do not run out. `CommandExchange` assumes
two things of its configurations besides: `CatalogsHoldRequired` (required documents are in the catalog,
handlers are of advertised types: so `buildInspectDocument` and `createGrantHandlerMap` derive them) and
`ListsAreSendable`. TLC evaluates them in the runs. `TerminatedStays` alone has a premise of its own: the
policy lets nothing leave "terminated", which is the application's choice.

Only model-checked: what the other `ASSUME`s say of the modules of operators (all of `InspectDocuments`,
`ServiceDocuments`, `ClaimValues`, `HttpAdapters`, `OpenApiPolicy` and `PlatformDocuments` among them), and all
liveness. Out of this prover's reach are liveness under fairness, ENABLED and induction
over data; recursive operators are too, and only MC modules have any, as reference definitions.

## Not modelled, and why

* JOSE cryptography and the transport: a signature is right or it is not, a response arrives or it does not.
  `ClientAssertionReplay` lets a verifier answer at any time, in any way its own expiry check allows.
* A restart of a Service: its in-memory stores are documented as unfit for production, and durable ones are
  outside the repository.
* The JWT grant handler, which keeps no record.
* The conformance package, its vectors and the three adapters under `scripts` that run them; examples. They drive
  the packages from outside and hold nothing that an application runs.
* Titles, contacts, links, metadata and dates that are copied from one document into another, JSON schemas, the
  wording of problems and errors, and argument checks of constructors whose only effect is to throw, where no
  model has them.

## Plan

Done: the modules above, in this order: assertions, idempotency, enrollment, credentials; the Platform; the
Agent's sessions; pending signing; protected resources and their document cache; commands on the wire; hosted
verification; what one package writes and another reads; Inspect, its documents and caches; service documents;
claim values; adapters; credential and Platform bodies. Proofs of everything with variables, and of
what matters most about `AssertionClaims`, `DidWeb`, `PlatformCommands`, `Presentation` and `CredentialBodies`.

Next, by importance:

1. Lemmas about the other operator modules, where TLC compares them over small sets only: `FrameworksAgree` of
   `HttpAdapters`, the round trips of `PlatformDocuments`, `StrangersLearnNothing` of `PlatformCommands`,
   `MigrationKeepsCredentials` and `ParametersDoNotWiden` of `CredentialBodies`, `KidsNameTheirKeys` of `DidWeb`.
2. A session whose `identityPromise` was rejected, a hazard that no property covers: nothing in the repository
   promises that such a session recovers, so it takes a decision of the maintainers first.
