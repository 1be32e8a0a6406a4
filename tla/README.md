# Data Veracity: a TLA+ verification project

Data Veracity lets a data provider attest that a payload satisfies a Veracity Level Agreement
(VLA), and lets the consumer verify that attestation. This directory models the services of the
repository as TLA+ modules, checks them on small instances with TLC, and proves the most important
safety properties for every instance with TLAPS. `PROJECT.json` lists the components, the runs, the
mutants (plausible bugs that each property must notice), the source lines behind each definition,
the findings, the hazards and the theorems; this file says how they fit together.

To run: `tlc -config <X>.cfg <Module>.tla` for a row of "Runs", `tlapm <Module>.tla` for a proof
module. Operators that begin with the comment "Mutant:" belong to no specification; they are the
replacements used to test the properties.

## 1. The system

| Component | State it keeps | Operations |
|---|---|---|
| `dva-api` (Kotlin/Ktor gateway) | table `request_logs` (audit), an empty `verif_request_logs` | POST /attestation, POST /attestation/verify, GET /info/*, docs |
| `dva-vc-manager` (FastAPI) | Ed25519 key pair in memory, key file, table `did_key_whitelist` behind a lazily built repository | POST /aov/issue, POST /aov/verify, GET /admin/keys, POST/DELETE/GET /admin/whitelist |
| `vla-manager-api` (FastAPI, asyncpg) | tables `vlas`, `templates`, `evaluation_methods`; two lazily built repositories with a pool each | POST/GET/DELETE /vla, POST/PATCH/DELETE/GET /template, render |
| `dva-processing` (FastAPI) | none | POST /evaluate, /evaluate-batch, /evaluate/from-template |
| `dva-acapy-controller` (legacy, FastAPI with blocking requests) | globals for connection and credential definition, a queue of events and a log of webhooks with its file, the agent's records, `request_logs.vc_id` | init_all_self, generate_aov, request_presentation_from_peer, webhooks, event stream |
| `vla-manager` (Vue) | refs of CreateView, ReqModal, SampleModal, ListView | assemble a VLA from templates, test a fragment, try a VLA |
| `dva-dashboard` (Vue) | what it fetched last | show requests |

How they interact. A connector posts to the gateway; the gateway resolves the VLA at the
VLA manager (unless it is sent inline), has `dva-processing` evaluate the payload, asks the VC
manager for a signed credential when every requirement succeeded, writes the audit row and
answers. Verification goes from the gateway to the VC manager, which consults the whitelist.
Templates are authored in the user interface and stored by the VLA manager; `dva-processing`
fetches one to evaluate it. There is no transaction across services, no retry, no idempotency key
and no queue between them: everything is a synchronous call that may fail on either side of its
effect.

What is hard, per component, and what makes it correct:

* **Attestation**: three downstream calls and one insert, any of which may fail or time out after
  its effect; the gateway or the VC manager may die in between; VLAs may be wiped meanwhile.
  Correct if a credential is always earned, a passing row always has its credential, a 200 always
  has its row, and what is left without a row was reported as a failure.
* **Issuing**: a key that is generated lazily and written to a file that a crash can leave empty.
  Correct if the service has one identity until its file is removed.
* **Verification and whitelist**: two reads per verification and two statements per addition, each
  its own transaction, racing with removals. Correct if requests are linearizable, with the table as
  with the dictionary that a start without a database uses.
* **Template store**: additions, updates and removals of two tables, one transaction per
  *statement*. Correct if no template ever lacks its evaluation method, if orphans and mixtures
  are owed to failures and overlaps only, no successful update is lost, and requests that do not
  meet behave as with the dictionary that replaces the database in a development start.
* **Repositories of both services** (VLAs, templates, whitelist): published in a global after an
  await. Correct if nobody runs a statement before its tables exist, a second pool has a reason,
  connections are given back, and a VLA that a client was told of survives restarts.
* **Evaluation**: three shapes of documents, engines that raise, and handlers in threads that share
  the project context of Great Expectations. Correct if there is one result per requirement, in
  order, no positive verdict that an output contradicts, and if an evaluation that runs alone fails
  on its own account only.
* **ACA-Py controller**: two globals set at different steps, a handler that awaits after it issued;
  streams that share one queue, and a log file rewritten from memory. Correct if the log and the
  agent agree on what was issued, credentials do not mix two initialisations, each event goes to
  one client, and an answered webhook stays logged while its process does.
* **User interface**: refs read before and after an await, dialogs that the browser can close on
  its own. Correct if the page never mixes up what it is about — which it does, under conditions
  that the properties pin down.

## 2. Modules

Each component has a module with its state, actions and specification, a `...Props` module with
its properties and refinement mapping, an `MC...` module where TLC needs definitions for constants,
and possibly a `...Proofs` module.

| Module | Models | State and actions against the code |
|---|---|---|
| `AoVLedger` | *abstract*: what POST /attestation promises | verdict, credentials, records, answered, failed |
| `Attestation` | `aovRoutes.kt` POST /attestation; the VC manager's half of the issue call; VLA creation and wipe; crash of the gateway | `pc[r]` is the point between two downstream calls; each action runs from one call's answer to the next call; `inflight`/`reply` are the issue call, `signed` the credentials that exist, `auditLog` the table |
| `Issuer` | `keys.py`, `routes.py` issue and keys | `file` (absent, torn, or a key), `cached`, the event loop (`busy`); open and write are two steps because `write_text` truncates first |
| `TrustRegistry` | *abstract*: every whitelist request and verification is one instant | asked, trusted, outcome |
| `Verifier` | `aov_verify`, `whitelist_add/remove`, `PgWhitelist`, `FakeWhitelist`, `require_api_key`, gateway relay | one action per SQL statement if `durable`, one action per request (`InMemory`) if not; `table`, `pc`, `answer`, `told` |
| `TemplateStore` | *abstract*, and yet code: `FakeTemplateRepo` behind the routes | every request in one step on a dictionary |
| `TemplateRepo` | `PgTemplateRepo` with its routes | one action per SQL statement; a column holds the call that wrote it |
| `VlaStore` | `get_repo`, `get_template_repo` and the builders of the VLA manager, `get_whitelist` and its builder of the VC manager, `PgVLARepo`, `FakeVLARepo`, routes | `durable` is the set of services with a database; `global`, `pools`, `ready` are per kind of repository; acquire and statement-with-release are steps; `Crash(s)` ends the process of one service |
| `Evaluation` | `processing.py`, `eval.py`, `http.py`, `engines/` | one action per loop turn, and two more for what `validate_expectation` does to the library's `project`; data are folded into the outputs of each requirement |
| `AcaPyController` | `controller.py`: initialisation, issuing, presentation | the event loop is held (`busy`) from call to call of the agent, except at the one await |
| `AcaPyEvents` | `controller.py`: webhooks, log file, queue, event streams | `queue` is `presentation_queue`, `holds[s]` the event between `get` and `yield` of a stream, `file` the log file |
| `VlaManagerUi` | `CreateView.vue`, `ReqModal.vue`, `SampleModal.vue`, `ListView.vue`, `main.js` | `dialogs` is the browser's stack of modal dialogs; `calls` the axios requests, answered in any order |

Composition. `Attestation` contains the gateway, the VC manager's signer and the VLA manager's
table as seen by the gateway; `Verifier` contains the gateway's relay and the VC manager.
`Issuer` and `VlaStore` look into the two services that `Attestation` sees from outside, and
`VlaStore` into how `TemplateRepo` and `Verifier` come by their tables.
`Attestation` implements `AoVLedger` (property `RefinesLedger`), `Verifier` implements
`TrustRegistry` (`RefinesRegistry`), and `TemplateRepo` implements `TemplateStore` for as long as
no request fails or meets another about the same template (`ImplementsStore`, with `Orderly`).

Conventions of the models:

* A statement in flight when its process dies or its answer is lost was applied or not applied;
  both are behaviours (`StatementFails`, `AuditFails`, `LoseIssueCall`, `IssueFails`...).
* UUIDs never collide: a fresh id is named by the call that drew it.
* History variables (`before`, `retired`, `drawn`, `failed`, `escaped`, `alone`, `put`, `gone`) only
  record; no guard reads them.
* Removal of all templates is modelled for an authorised caller; GETs, listings and rendering are
  single SELECTs without a state change and are left out unless a property is about their answer.

## 3. Runs

| Run | Bounds | States | What it shows |
|---|---|---|---|
| `attestation_safety` | 2 calls, 3 VLAs (one requirement, two, none), 3 payloads | 1.4M | credentials earned; audit, answers and credentials agree whatever fails |
| `attestation_ledger` | 2 calls, 1 VLA, fairness | 152k | refinement of the ledger; an outcome is final; every call is answered |
| `attestation_nonobject` | 2 calls, 1 VLA | violation | see Findings |
| `issuer` | 3 requests, 4 keys, fairness | 95k | one identity, no overwritten key, every request answered |
| `verifier` | 3 requests: two updates and one of any kind; a did:key and one that does not decode; table or dictionary; fairness | 68k | linearizability; additions agree on one row; every request is settled |
| `templates_safety` | 3 requests, 1 template column, 2 method columns | 3.2M | what survives non-atomic operations; agreement with the dictionary |
| `vla_store` | 2 requests of any kind at 2 services, pools of 1 connection, every choice of databases, fairness | 29k | lazily built repositories, connections, durability |
| `evaluation_safety` | documents of up to 2 schema items of up to 2 requirements of 3 outcomes, or a single requirement of every kind, beside one expectation | 212k | results against requirements, in every shape; evaluations that overlap |
| `evaluation_every` | one request | violation | see Findings |
| `acapy` | 2 requests, 2 initialisations, 1 log row, fairness | 478k | issuing and its log, pairs of globals, event loop |
| `acapy_events` | 2 webhooks, 2 streams, 2 processes, fairness | 42k | where events go, what the log file knows |
| `ui` | 2 elements, 1 template, 2 VLAs, 2 fragments, 4 calls | 1.2M | which gestures must coincide for a mix-up |

Why these bounds are enough to be interesting. In `Attestation` calls share only the VLAs and the
two stores, so two calls with a wipe between them meet every interaction; the payloads are one that
satisfies all, the empty object, and a non-object. A race on one whitelist entry needs an addition,
a removal and an addition or a verification: three calls; verifications change nothing, so one
of them is enough. A column mixture of the template store
needs two updates, and a third request to remove the row under them; one template column stands for
four since each is written by the same statement form, while the methods need two columns for a
mixture to exist. The pool bound of one connection makes two requests exhaust it, as four
connections and five requests would. In `AcaPyController` a mixed pair needs two initialisations
(the second one partial) and one issuing request; the second request allows for a second writer of
the same log row. Two streams compete for the events of two webhooks and of two starts, and the
second process is the one that overwrites the first one's log. One expectation beside a request
of every shape is enough to take the Great Expectations project away from it, at every point.
In the user interface, four calls are two loads of the templates and two
evaluations or attestations that overlap. The bounds on what could go on for ever (`MaxRun`, `MaxStarts`, `MaxCalls`,
`MaxFragments`) are guards named in the modules.

Symmetry is used in the runs without liveness: calls, or elements and VLAs of the user interface,
are interchangeable.

`CHECK_DEADLOCK FALSE` stands in the configurations of services whose calls are finite: when all
are answered the system rests. The user interface never rests and has deadlock checked.

### Fairness

Only the services' own handlers are weakly fair; clients, operators, crashes and restarts are not.

* `Attestation`: each handler goes on. Downstream calls end because the Ktor CIO engine has a
  request timeout by default; JDBC statements return or throw.
* `Issuer`, `Verifier`, `VlaStore`: the event loop runs what is ready; statements return or raise;
  a pool serves its waiters first come, first served.
* `AcaPyController`: requests to the agent return or raise. The code sets no timeout on them, so
  this is an assumption about the agent and its network. *No* fairness is assumed of a connection
  becoming active: the bounded poll must take care of it.
* `AcaPyEvents`: the loop resumes a stream that has an event, or whose client reads. Clients
  connect and leave as they like; the liveness property is about streams that stay.
* `TemplateRepo`, `Evaluation` and `VlaManagerUi` have no liveness properties. For `Evaluation`
  none would be honest: a jq program need not terminate.

## 4. Findings

* `attestation_nonobject`: data that is not a JSON object is evaluated as `{}` but signed as sent.
  If `{}` satisfies the VLA (a jq program without output does), the credential attests data that
  nobody checked.
* `evaluation_every`: "Evaluate every requirement in a VLA" (`processing.py:51`) does not hold for
  documents with requirements both in the schema and at the top level, nor for a schema item whose
  quality is a single object: these are passed over, and the data can be attested without them.

Divergences noticed while reading, for which no run is kept:

* `/evaluate/from-template` should always answer 200 (`docs/spec/dva-processing.yaml:162`), but the
  final `eval_requirement` is outside every `try` (`processing.py:161`); `HandleTemplate` has the 500.
* A `SCHEMA` requirement always raises, as `JSONSchemaValidationResult.errors` is a `str` and is given
  `None` or an exception; `Raises` in `Evaluation` says so. No VLA with one is ever satisfied.
* The gateway relays the VC manager's status where `docs/spec/dva-api.yaml:118` speaks of 502.
* `aov_issue` never reads the `evaluation_results` it is sent.
* Verifications are not logged, although `docs/design-document.md:240` says so.
* `templates` and `evaluation_methods` are not one to one after a partial failure (`repo.py:128`):
  `OrphanNeedsFailure` is what does hold.
* "Shares the same asyncpg pool as the VLA repo" (`main.py:77` of the VLA manager): each repository
  opens a pool of its own; `PoolsNeedOverlap` says when there are more.
* `models.py:48-51` of the VC manager has it decide by `all_success` whether to issue; only the
  gateway decides.
* The user interface announces a created VLA whatever POST /vla/from-templates answers, and that
  endpoint answers 501. `CreationMatchesPage` is about the page that it then leaves.
* Two evaluations with Great Expectations at once may report an error that neither has alone, which
  refuses a credential (`FailureNeedsOverlap`); no overlap turns a negative verdict positive
  (`PositiveVerdictIsBacked`).

## 5. Proofs

All theorems are of the form `Spec => []P` (or `Spec => [][A]_vars`) for the specification that TLC
checks, for every value of the constants that satisfies the named assumptions.

**`AttestationProofs`** — `TypeCorrect`, `CredentialsAreEarned`, `AuditTrailIsBacked`, `AnswersAreBacked`,
`UnauditedCredentialsFailed`, from `ContentAssumption`, `MeetsAssumption` and
`PayloadAssumption`. None of the properties is inductive: they relate credentials, rows and
answers, but what keeps them together is where each handler stands. `IInv` adds
`VerdictInv` (a passing verdict is earned by the document that was resolved, and there is none
before it is reached), `IssueInv` (an issue call is under way, or answered, only from the point
where it was sent, and only for a passing verdict), `SignedInv` (credentials carry what their call
sent), `AuditInv` (a passing row has its JWS, and only handlers past the insert have rows) and
`ResponseInv` (what a given answer says about where the handler went). The late signature, which
comes to a caller that gave up, is why `IssueInv` speaks of calls that are `done` or `lost`, too.

The same module proves `FlowIsLedger` (`Spec => RefinesLedger`) and `OutcomesAreFinal` from the same
`IInv`. In the ledger's terms a call is open exactly until it ends
(`OpenCall`), and the reply of the VC manager tells whether there is a credential
(`CredentialKnown`). `Evaluate` decides, `Sign` makes the credential, `Audit` records, a failing
audit records or fails, a 200 answers, every error response and a crash fail; all other steps are
invisible (`QuietStep`, `EnvironmentQuiet`). `OutcomesAreFinal` needs of `IInv` that a signature still
outstanding after the answer belongs to a caller that was told 502.

**`IssuerProofs`** — `IssuerTypeCorrect`, `IdentityIsStable`, `KeyFileIsKept`, from
`IssuerAssumption`. `IInv` adds `LoopInv` (a handler between two steps occupies the event loop),
`ProgressInv` (how far it has come with the key it holds, and that no key is in the file then) and
`DrawnInv` (keys in the file or in an answer were drawn once, so that a new key is really new).
`KeyFileIsKept` is an action property: it needs `LoopInv` to know that whoever opens the file for
writing found none.

**`TemplateRepoProofs`** — `TemplateRepoTypeCorrect`, `TemplatesHaveMethods`, `OrphansNeedFailures`,
`UpdatesAreNotLost`, `MixedMethodsNeedOverlaps` and `StoreIsImplemented` (`Spec => ImplementsStore`),
from `PriorAssumption`, `ColumnsAssumption` and `NoRowAssumption` (no row, request or joined row is
`NoRow`). `IInv` adds `RequestInv` (which requests can be at which statement), `AnswerInv`,
`UpdateInv` (what an update has yet to write), `OrphanInv` (an orphan has a culprit that
has not finished, or finished without success), `FreshInv` (the rows of an addition are not there
before their statements), `WriterInv` (a cell was written by the addition of its row or by an update
that patches its column) and `KeptInv`. The foreign key
with its cascade is what makes `TemplateHasMethod` inductive: the removals' order of statements
would not suffice. `UpdateIsNotLost` speaks of updates that were answered; `KeptInv` says the same of
each column from the moment it is written, with whoever wrote it since not ended when the
update came. `MixedMethodNeedsOverlap` then needs no induction: two updates that succeeded without
meeting came one after the other, and the second patched all columns of the method.
The refinement has an invariant of its own, `OrderInv`: as long as requests are
orderly, what a handler found or did at its first statement stays so. Disorder lasts
(`DisorderLasts`), so that a step that ends in an orderly state began in one; then whoever is
under way is the only one about its template (`Alone`), the joined row of each template is known
cell by cell, a column still to be written showing what the update will have made of it
(`JoinedCells`), and each action is a step of the dictionary or invisible (`WriteIsQuiet`,
`QuietSteps`, `AddCounts`, `UpdateCounts`, `RemoveCounts`, `RemoveAllCounts`).

**`VlaStoreProofs`** — `StatementsFollowTables`, `PoolsComeFromOverlaps`, `CreatedVlasAreKept`, from
`StoreAssumption` and `RequestAssumption`. `IInv` adds `ArrivedInv` (who is in `before` has ended,
and stays so), `PoolInv` (a handler past the test of its global has a database), `GlobalInv` (a global
holds a repository of its kind, with tables if there is a database, and is set once there is one) and
`OverlapInv`: whoever builds a pool found no global, so that whatever has tables meanwhile was still
under way when it came. `PoolsNeedOverlap` is its symmetric consequence. That a crash of one service
leaves the other alone needs the kinds to be partitioned between them (`KindsPartitioned`).

**`VerifierProofs`** — `VerifierTypeCorrect`, `AdditionsAgreeOnOne` and `WhitelistIsRegistry`
(`Spec => RefinesRegistry`), from `IdAssumption` and `JwsAssumption`. `IInv` adds
`HandlerInv` (the statement that a handler is at tells its operation, and that there is a database)
and `MetInv` (whoever was refused a row met one or a removal that may have taken it; a 201 carries
an id). The refinement follows the table: it changes only in the step by which the abstract request
takes effect, so that each action is a step of the registry or invisible (`VerifyStep`, `AddStep`,
`RemoveStep`, `FailStep`, `QuietStep`, `CrashRefines`).

**`EvaluationProofs`** — `ResultsMatchRequirements`, `FailuresNeedOverlaps` and
`PositiveVerdictsAreBacked`, for documents with any number of schema items and of requirements in
each, from `RequirementAssumption`, `DocumentAssumption` and `AskedAssumption`. The properties say
where the results of each list of requirements begin by a function (`Layout`) rather than by
concatenating the lists: what a concatenation computes is an induction over data, which these
provers do not do, while the function can be extended step by step. `Covers` is that statement for
a handler that has come half way: what it has judged, then what it has to do, lie on the lists it has
seen (`CoversNext` for the next list, `CoversMore` for the next result). `ItemsInv` ties the lists seen to
the items that are left, and says that nothing was judged only if nothing was listed, which is when the
handler falls back to the top level as the reference definition does; `TopInv` is what remains from
there. `AloneInv` is about Great Expectations: while a call has met nobody, the library's project is
its own context, so that its expectations find their data source (`NextVerdict`).

**`AcaPyProofs`** — `AcaPyTypeCorrect`, `LogsAgree` and `MixedPairsNeedFailures`, from
`ControllerAssumption` and `NoneAssumption`. `IInv` adds `LoopInv` (a handler occupies the event loop
from its first call of the agent to its end, but for the one await), `RequestInv`, `IssuedInv` (the agent
has issued for whoever awaits the database, and for nobody who has not begun) and `PairInv` (the two
globals are of one run, or of a run that failed since it set the first one, or that stands
between the two steps that set them). That nobody issues in between is `LoopInv`: the run holds the loop
there. Without it a request could take a pair that no failure explains.

The same module proves `EachEventIsOnce` and `LogKeepsWhatWasAnswered` about `AcaPyEvents`, the other
half of `controller.py`, from `EventsAssumption` (the two models have variables and names of
their own, so that one module extends both). `EventsInv` adds `AnsweredInv` (the log
in memory has what the running process answered, and a process that only starts has answered nothing)
and `OriginInv` (an event is the number of a process that was started, or a webhook that was answered;
so the next one is new). `PlacesInv` and `StreamsInv` are the theorem in the parts that a step disturbs:
what was put is distinct, the queue is its end, each event is at one place, and what a stream holds comes
after what its client got. An event that leaves the queue is at its head, hence after everything that was
taken before (`SuffixTaken`); a step that only loses events moves them to `gone` (`EventLost`).

**`VlaManagerUiProofs`** — `MismatchesNeedEscapes`, `WrongResultsNeedTrouble`, `CreationsMatchPages` and
`LostVlasNeedOverlaps`, from `UiAssumption`. `IInv` adds `TypeInv`, `StackInv` (only ReqModal opens over
another dialog), `ChoiceInv` (a template that is chosen and did not outlive its dialog belongs to the
dialog on top, with the element of the page), `ResultInv` (the latest evaluation, if it overlapped none,
is the only one that can still change the result) and `TryInv` (the fields of a try are kept, or were
cleared by the answer of an attestation that was pending when the VLA was clicked). Answers come
in any order, and `Proceeds` collects what every step does to the calls that were sent before: they keep
what they are about, and an overlap stays one.

Only model-checked: liveness (outside the prover's reach: fairness and ENABLED), and
`EveryRequirementEvaluated` and `AttestedDataMeetsVLA`, which do not hold. Every other property of the
runs is stated by a theorem.

## 6. Not modelled

* Byte-level conversions: base64url, base58, JWS headers, Ed25519. `Verifier` keeps their outcomes
  (malformed, forged, unreadable, mismatching).
* JSON to data frames (`util.py`) and the engines' own semantics; their outcome is an input.
* The fake repositories that only tests of `dva-api` use, bodies that do not validate (422/400
  before a handler runs), the delivery of an answer after it was computed, Exposed's retry of a failed
  transaction.
* The ACA-Py agent itself: a connection becomes active or not, a record appears or not. Of
  its webhooks, only that they are posted and may be posted again.
* Forms: the values typed into a template's form, the text of a `SampleModal`. The dashboard
  fetches once when it is mounted and displays; it has no behaviour that a property could be about.
* Deployment files and scripts.

## 7. Plan

Done in this order: `Attestation` (with `AoVLedger`), `Issuer`, `Verifier` (with `TrustRegistry`),
`TemplateRepo`, `VlaStore`, `Evaluation`, `AcaPyController`, `VlaManagerUi`; then `AcaPyEvents`,
`TemplateStore` as the specification of `TemplateRepo`, the starts without a database, the whitelist's
repository in `VlaStore`, and concurrent evaluations.

Next, models: a composition of `Attestation` with `Evaluation`'s verdict, so that the two findings
meet in one behaviour, and of `Issuer` with `Attestation`'s signer.

Next, theorems: those of these compositions. Every safety property of the present runs is proved.
