# A verification project for did_rust

TLA+ models of did_rust, TLC configurations that check them on small instances,
and TLAPS proofs that hold for every instance. Paths are relative to the
repository; `lib.rs`, `resolver.rs`, `crypto.rs` and `vault_crypto.rs` are in
`src/`, `the checker` is `scripts/check_did_submodules.sh`, `the hook` is
`scripts/githooks/pre-push`.

    tlc -workers 2 -config MCVerifier_documents.cfg MCVerifier.tla
    tlapm VerifierProofs.tla

`PROJECT.json` lists the runs, the source lines behind every definition, the
hazards and the properties that cover them.

## 1. The system

| Component | Source | State it keeps | Operations | Here |
|---|---|---|---|---|
| Credential issuing | lib.rs 301-385 | none; returns JSON texts to the application | `generate_did`, `issue_vc`, `issue_vp` | `Issuance` |
| Credential verification | lib.rs 80-299 | none between calls; a call blocks its thread through a chain of fetches | `verify_vc`, `verify_vp` | `Verifier`, `VerifierSpec` |
| DID resolution | resolver.rs | one process-wide HTTP client, no cache | `resolve` for did:key, did:web, did:ipfs | `Credentials`, `Verifier` |
| Key derivation | crypto.rs | none; secrets are derived again when needed | `derive_identity_from_prf`, `derive_dependent_subkeys` | `KeyDerivation` |
| Parity checker (SEC-003) | the checker | git repositories it only reads | strict, tolerant and pre-push mode | `Parity` |
| Pre-push hook (SEC-003) | the hook | its exit code | the loop over ref updates | `Parity` |
| Rollout procedure (SEC-003) | docs/strategy/SECURITY_HARDENING.md 84-114 | pins, worktrees, branches | five steps by hand | `Rollout` |
| CI workflow | .github/workflows/parity.yml | none | a strict run of the checker | `Parity` (its checker run) |
| C FFI layer | lib.rs 41-46, 394-663 | heap strings owned by the caller | ten `*_ffi`, `free_string` | `Bindings` |
| WASM layer | lib.rs 665-851 | none | the same calls but `issue_vp` | `Bindings` |
| Vault encryption | vault_crypto.rs | none; ciphertexts are the application's | seal and open under a key | `Vault`, `Bindings` |
| PKCE / OIDC engine | docs/ecosystem_shared/auth_pkce.py (the backend) | Django session, user table | login request, token exchange, provisioning, privileges | `PkceLogin` |
| Ecosystem specifications | docs/ecosystem_shared/*.md | - | - | no code here |
| python_wrapper, wasm-bindings | one empty file each | - | - | nothing to model |

**How they interact.** An issuer serializes an ordered JSON object, signs the
bytes and puts the signature into the object; the application keeps and passes
on the text; a verifier parses it, takes the proof out, serializes again and
checks the signature with keys it resolves from the signer's DID. The two ends
share nothing but the text, so the order in which an object keeps its members
is part of the protocol. Resolution is local for did:key and a blocking HTTP
request for did:web, while hosts change what they serve and the clock that
expiries are compared with runs on. Native callers reach all of this through C
functions whose results they have to read and give back to `free_string`, pages
through WASM functions; a payload sealed by either layer is opened by the other,
from its bytes alone. The three consumer repositories of
`did_rust` each say in their own way which commit they build against; the
checker reads them one by one, the hook runs it for each ref that is pushed,
and people commit, pull and update submodules all the time. The PKCE module is
what a satellite app copies: its view and backend run in several worker
processes over one user table, which operators edit as well.

**What is hard.** Fetches in the middle of a verdict (stale expiry, keys that
rotate between items, two timeouts per fetch, hosts that stall); a signed text
rebuilt by removing a member from an ordered map; sequences of issuing, editing
and issuing again; a check that reads several repositories that do not stand
still; a push let through while a pin is being committed, or one that the remote
refuses because somebody else was faster; secrets told apart
only by the bytes that are hashed, with no separators between the fields;
pointers that outlive or miss their `free_string` while another thread is given
the address; arguments that cannot be read and are signed all the same; two
logins of one user whose statements interleave, with a worker dying in between.

**What makes each part correct.**

- Verifier: "valid" only for a document in order, with a fitting signature on
  *every* item, by a key that the signer's DID offered during the call; no
  rejection without a cause; a verdict that outlives an expiry by no more than
  its own fetches; a bound on the duration of a call; every call returns.
- Bindings: every string has one owner until it is freed; what a caller signs
  with an argument the library could not read proves nothing.
- Vault: whichever layer sealed a payload, callers of either get it back under
  its key, byte for byte, and are refused everything else.
- Issuing: what is issued verifies until it expires; what verifies was asked
  for, member for member.
- Key derivation: no secret of a seed is another one; deriving again brings the
  same.
- Checker: when it passes, the sites did build against the canonical commit
  (strict) or one commit of its history (tolerant), and what did so all through
  the run passes. Hook: no push orphans a pin. Procedure: it ends, in parity,
  unless a pin would be orphaned or somebody pushes in the middle of it; and its
  last check says which.
- Login: the admin's user is handed out with an elevated, passwordless row; no
  one else's roles change; a row that a login creates is left with an unusable
  password; every request ends.

## 2. The modules

    JsonObject --- Credentials --+-- Verifier ----- MCVerifier
                                 |     | \--------- VerifierProofs --- VerifierPromiseProofs
                                 |     +-- INSTANCE VerifierSpec
                                 +-- Issuance ----- MCIssuance
                                 |        \-------- IssuanceProofs ---+
                                 +-- CredentialsProofs ---------------+
                                 +-- Bindings ----- MCBindings        |
                      Vault -----+        \-------- BindingsProofs ---+
    Parity ------+-- MCParity          KeyDerivation -- MCKeyDerivation
                 +-- Rollout -- MCRollout      \------- KeyDerivationProofs
                        \------ ParityProofs
    PkceLogin ---+-- MCPkceLogin
                 +-- PkceLoginProofs

### JsonObject, Credentials (no behaviour of their own)

`JsonObject` is serde_json's map with `preserve_order` (Cargo.toml): a sequence
of members with distinct keys. `Insert` overwrites in place or appends, and
`SwapRemove` moves the *last* member into the hole, as `Map::remove` does. Both
are modelled from how lib.rs uses the library.

`Credentials` translates the data side of lib.rs: `IssueVc`, `IssueVp`,
`VcError`, `VpError` and `LocalError` (the early returns in their order),
`CredentialsIn` (array, single object, or missing), `UsableKey`
(`publicKeyBase58` wins even when it does not decode), `SignedByOneOf` (the loop
over verification methods). `Sound` says what a verdict *should* be; it is
written with quantifiers over all the items, not as a loop with returns.

A signature is `[by, over]`: it verifies under its key over exactly that
ordered object. A payload is the object itself, since `to_vec` writes the
members in order. `Invalid` stands for every text that does not decode, and
`Absent` for a member that is missing or of another type.

### Verifier

| Model | Code |
|---|---|
| `pc`, `doc`, `item` | where `verify_vc` / `verify_vp` is: item 0 the presentation, 1.. the credentials |
| `CheckRejects`, `CheckUndecodable` | the early returns of `internal_verify_vc`, `verify_vp`; the decoding of `proofValue` |
| `ResolveKeyDid`, `ResolveUnsupported`, `ResolveWebDid` | the three ways out of `resolve` |
| `SendAnswered`, `SendRefused`, `BodyRead`, `FetchBreaks`, `FetchTimesOut` | `fetch_did_document`: `send()`, the status, `json()`, each with its own 10 s timer |
| `Conclude`, `Accept`, `Answer` | the loop over keys, the loop over items, the return |
| `published`, `Publish` | what hosts serve, and that they change it at any instant |
| `now`, `Tick` | `Utc::now()` and the timers |

`calledAt`, `answeredAt`, `views` and `failed` are history: properties read them,
no guard of the code does (`MaxViews`, a bound, caps how often hosts change).
`views` is the set of what the hosts of a call's document offered together, at
each instant of the call: its members are what a verifier could have seen had
it looked at once, their union all it could have come by. Local computation
takes no time (`Tick` waits for a call in `check`), and a call that is past its
timeout answers before the clock goes on; without this the bound on durations
could not even be stated.

### VerifierSpec, the promise

A call, a verdict, and hosts and a clock that go on: no items, no fetches, no
methods. "valid" takes a document that was sound when the call began under all
that was offered since (`Sound` of the union of `views`); an error takes one
that is not sound under what was offered at *some one instant*, or the network,
which only a document with a did:web signer can blame; and the clock waits for
a call at its deadline. `Verifier!Promise` instantiates it: `phase` is `pc` with
the steps of a call collapsed, `offering` is what the keys in `published` amount
to, the other variables are the verifier's own. The steps of a call but the last
are stutters; an `Answer` is `Respond`, a `Publish` is `Change` or a stutter.
`KeepsPromise` is the refinement, `CallReturns` its liveness.

### Issuance

Texts in circulation (`held`) with what the keys were asked to sign (`asked`).
`Issue`, `Reissue` (proof and all), `Renew` (proof taken off first), `Present`,
`Edit` (one member changed or added, as any JSON tool does; the member may be
the list of credentials in a presentation), `Graft` (the proof of one text put
into another), `Tick`. What an edit writes carries no proof of its own
(`EditedAssumption`): a proof is made by a call or moved by a graft. Signers are did:keys.

### Vault, Bindings

| Model | Code |
|---|---|
| `EncryptVaultPayload`, `DecryptVaultPayload` | vault_crypto.rs: nonce, sealed bytes and tag in a row; the length check and the split |
| `seals` | the encryptions made: byte i of the n-th is `<<what, n, i>>`, so that bytes of different ones differ and a cut or a splice is visible |
| `Damaged` | what storage can make of ciphertexts: cut off, headless, two of them spliced |
| `heap`, `Allocate` | the C heap and `c_string`; an address is handed out again as soon as it is free |
| `*Ffi(t)` | one C function: which arguments it checks for null, what it takes an unreadable one for, the result or null |
| `Read`, `FreeString` | the guide's `_read_c_string`: the bytes are copied, then `free_string` is called, always |
| `*Wasm`, `TakeShown` | one WASM function, and the page that goes on with its result |
| `held` | the signed texts an application keeps and passes in again |

`Bindings` calls `Credentials` for what `verify_vc`, `verify_vp`, `issue_vc`,
`issue_vp` and `resolve_did` do, without time and hosts (signers are did:keys),
and `Vault` for the payloads. What the layers add is what is modelled in full:
`generate_did_ffi` takes null for an empty method, the verifying functions have
an envelope for every bad argument, the issuing ones return null for null and
for an error but put `"{}"` or `""` in place of what is not UTF-8; the vault's
take a null payload for an error even if it has no bytes; the WASM functions
have no pointers and take hex. `made` (what each call returned) and `unread` (a
text was signed with an unreadable argument) are history, and so are `to_seal`
and `to_open` beside an envelope of the vault: what that call was to seal, and
what the bytes it was given hold under the key it was given, so that the
property can be asked of what a caller reads in the end.

### KeyDerivation

What is hashed, byte by byte. The search for a valid scalar is an oracle: the
answer for a candidate is chosen when it is first tried and kept in `scalars`
or `refused`, so every behaviour of the hash is covered, a search that fails
256 times included. SHA-256 is taken to be injective.

### Parity, Rollout

`Parity` has the workspace (`head`, `pin`, `tree`, `remote`), one run of the
checker (`check`) and one push (`push`). Each site is read in a step of its
own and `Decide` is the verdict; `Resolve`, `Aligned`, `Preserved` and
`Violated` are the script's branches. `HookSkips`/`HookChecks` is the body of
the hook's loop. `Edit` is what people do in between. `built` (what each site
built against at the moments of the run) and `raced` (the sites whose pin was
committed after the hook had read it) are history.

`Rollout` extends it: a program counter walks the procedure of
SECURITY_HARDENING.md, its checks and pushes *being* `Parity`'s actions. Each
command is one step and is carried out once:

| Model | Procedure |
|---|---|
| `Land`, `PushMain`, `PushOutcome` | a commit, or a reset, and `git push origin main`, forced or not, through the hook (lines 89-91) |
| `PushStale`, `PushLate` | the remote refuses what is no fast-forward, and any update from a commit that the branch has left since git connected |
| `UpdateSubmodule`, for iyou_idp and then iyou_home | `git submodule update --remote --merge` in each parent (93-95) |
| `Pull` | the pull in the canonical checkout (97-98) |
| `StageCheck` | the check of step 4 (100-101) |
| `BumpPin`, for iyou_idp and then iyou_home | the gitlink is committed in each parent (103-105) |
| `FinalCheck`, `Finish` | the check of the release checklist (111-114) |

`OthersPush` fast-forwards the branch between any two of these and of the
checker's and hook's own steps, so that the two submodules and the pull may
find different commits there. `torn` is history: a push fell between the first
update and the pull.

### PkceLogin

| Model | Code |
|---|---|
| `AuthRequest` | the request view: the verifier is stored, then `params` is read before its assignment and the handler redirects to the failure page |
| `Authenticate`, `TokenGranted`, `TokenLacksAccess`, `ProviderFails`, `UserinfoAnswered` | `authenticate`: its early returns and the two exchanges, each under its own timeout |
| `CreateUser`, `GetUser`, `SavePassword`, `ProvisioningFails` | the `try` of `_get_or_create_user` |
| `IsAdmin`, `Dirty`, `ElevateAdmin`, `ReturnUser`, `SavePrivileges`, `SaveRaises` | the privilege evaluation, outside that `try` |
| `users`, `user` | the table, and each worker's copy of a row; `Saved` is `save(update_fields)` |
| `Crash`, `OperatorEdits` | a worker dies between two statements; the admin site or manage.py changes, resets or deletes a row |

Each database statement is a step and commits by itself (Django's default). A
row is its password (blank, unusable, usable) and its two roles. `authenticate`
is modelled as Django calls it, whoever does: with the view as it is, no
browser gets there through iyou_idp. `meddled`, `edited` and `brokenOff` are
history.

Mutants - definitions named `X_Something` before an `X`, each marked `Mutant:`
- are plausible bugs that no specification uses; with one of them in place of
`X` the property it is listed with fails, which shows that the property can.

## 3. What is checked

| Run | Bounds | Shows |
|---|---|---|
| `verifier_documents` | 1 caller, 32 documents, 2 hosts, 2 keys, calls started at 0..1, clock to 6, 3 views a call | verdicts are sound, have causes, are fresh and bounded, and keep the promise of `VerifierSpec` |
| `verifier_rotation` | 2 callers, 2 documents with shared and different hosts, odd DID documents, clock to 4, 2 views a call | the inductive invariant, the causes and the promise under concurrent calls; `CallReturns` (liveness) |
| `issuance_lifecycle` | 2 keys, 4 texts, clock to 2 | `IssuedVerifies`, `VerifiedWasAsked` |
| `issuance_reissue` | the same | **violation**, finding 1 |
| `parity` | 3 commits with a fork, 2 clones, 2 branches, 4 pushes of one or two refs, 2 edits | strict and tolerant exit codes are right, edits during a run included; `PushKeepsPins` for branch pushes |
| `parity_unchecked` | one clone, deletions, pushed expressions, 2 edits | **violation**, finding 2 |
| `rollout_procedure` | a line of 4 commits, every drift, 2 pushes by others | the procedure is not blocked for nothing, ends in parity exactly if it was not torn and its last check says so, keeps pins, ends |
| `rollout_stage_check` | the same | **violation**, finding 3 |
| `pkce_backend` | 2 workers, the admin and another user, 3 requests, 1 operator's edit | the six login properties, `RequestEnds` (liveness) included |
| `pkce_request` | the same | **violation**, finding 4 |
| `keys` | 3 seeds, 2 indices, 2 retries, 3 derivations | separate and stable secrets |
| `bindings` | 2 threads, 2 addresses, 1 signer, 1 credential, 2 KEKs, 3 payloads (empty, text, not text), a nonce of 2 and a tag of 3 bytes, load 3 | ownership of strings, unreadable arguments, what callers of either layer get from the vault |

**Why the bounds are enough.** The documents of `verifier_documents` take every
exit of both functions at the first, the middle and the last item, and put two
did:web items next to each other; the clock is bounded so that a call started
last may use up all its timeouts (two items, two operations each, after 1)
and still be seen to return. `OpTimeout = 1` is the 10 s of the client: the
properties only compare multiples of it. Two callers are as many as can matter
to one another, sharing nothing but the hosts and the clock. Four texts let a
credential be issued, presented, edited and grafted. Three commits with a fork
are the least in which "ancestor", "descendant" and "neither" differ; two
edits suffice to break a site and mend it, or another, while the checker reads.
Two pushes by others can fall at two different places of the procedure, and a
line of four commits has room for a drift, a landing and both of them.
Two workers can hold copies of one row of different ages, a third request
reads what both left behind, and one edit can fall between any two statements
(the theorems of section 5 have no such bounds). Two
threads on two addresses are the least in which an address is freed by one and
handed to the other while both hold a string; `MaxLoad` counts strings out,
texts kept and payloads sealed, and three let two ciphertexts be spliced while a
call is out, or a credential be presented and verified. Nonce and tag are of
different lengths, so that a split at the wrong one is seen; every cut up to a
whole header is tried. The
seeds of `keys` are the worst ones: one repeats `secp256k1-nostr`, and one ends
like the tail of a dependent's preimage; two indices differ in their second
byte only. Bounds are named: `MaxTime`, `LastCall`, `MaxViews`, `MaxLoad`, `MaxHeld`, `MaxEdits`,
`MaxPushes`, `MaxCalls`, `MaxRequests`.

Deadlock checking is off where a run stops at its bound: in all but the
verifier runs and `bindings`, whose callers always have a next step. `bindings`
uses symmetry of threads and addresses, which no property but the invariants
there depends on.

**Fairness.** `Verifier!Fairness` has weak fairness of a call's local steps (its
thread is scheduled) and of `FetchTimesOut` (the client's timer fires), and
strong fairness of `Tick`: other threads may call again and again, each of
them stopping the clock while it computes, and weak fairness would let them
stop it for good, which no thread does to a real clock. Nothing is assumed of the network: a host may accept a connection and
stall for ever, and `CallReturns` then rests on the timers alone (the mutant
that arms none for the body breaks it). `FairRollout` assumes that the
developer goes on with the procedure; the others' pushes are bounded and not
fair. `PkceLogin!FairSpec` has weak fairness of a worker's own steps, of its
timeout and of the database answering or failing (`WorkerStep`); the provider's
answers are not fair, so `RequestEnds` rests on the two timeouts. Those are
requests' timeouts (auth_pkce.py 416, 431), which limit each read and not the
exchange: the fairness is justified for a provider that falls silent, and one
that drips a byte at a time is outside what `RequestEnds` says.

**How the properties relate to the code.**

- `ValidMeansSound` ranges over *all* items, the presentation included, and
  over what hosts offered at some instant of the call: a rotation in the
  middle of a call may make it accept a key that is gone by the time it
  answers, but never one that was not offered.
- `RejectionHasCause` is the converse, and holds however hosts rotate: unless
  the network broke off, an error means that there was one instant of the call
  at which the document was not sound under what its hosts offered together.
  A verifier that asks each host at a time of its own does reject nothing that
  was sound throughout. A presentation of an empty array is valid by the code, one without
  the member is not.
- `AcceptedWhileFresh`: the expiry is looked at *before* the signer's document
  is fetched (lib.rs 134), so "valid" may be answered after the expiry; the
  property gives the exact window, two timeouts for each did:web item from
  that one on.
- `CallIsBounded`: a presentation of n did:web items may block its thread for
  2n timeouts; there is no overall deadline.
- `KeepsPromise` is all of these in one, as steps: whatever a call does between
  its entry and its verdict is invisible, and its verdict is one that
  `VerifierSpec` allows at that moment.
- `OneOwner` is about the layer *and* its caller: with the guide's wrapper, no
  string is read that another call was given meanwhile, none is freed twice and
  none is forgotten. The guide calls the functions "not thread-safe with respect
  to memory management" (line 364) and asks for exactly what the wrapper does;
  with that, any number of threads may call.
- `UnreadProvesNothing` bounds the damage of a silent substitution: what
  `issue_vc_ffi` signs for a credential it cannot read says only who issued it.
  That it signs at all is no part of the guide's "zero logic, only C-string
  marshalling" (line 15), but nothing there says what becomes of such input.
- `VaultKeepsPayloads` is about the answers callers have in their hands (what a
  thread has read, what a page was shown), of four functions over one set of
  encryptions: it fails for a C function that refuses what the library opens,
  for an envelope that loses a payload that is not text or is empty, for a
  ciphertext that does not hold what was to be sealed, and for an opened splice.
- `StrictVerdictIsWitnessed` and `TolerantVerdictIsWitnessed` speak of a
  workspace that people edit while it is read. No checker that reads one site
  after the other can answer for one moment; this one answers for *some* moment
  of the run at each site, with one commit for all of them, and never fails
  what was right throughout. For a workspace at rest (where all moments are one)
  the two halves make an equivalence.
- `PushKeepsPins` speaks of what the remote has when the push lands, and of each
  ref of a push: the hook has to remember a failed check of an earlier ref, and
  every commit pushed to a branch has every pin in its history. A pin that is
  committed while the hook runs counts as long as its site has not been read
  for the last check; one committed after that (`raced`) does slip through, the
  hook has no way to see it.
- `RolloutConverges` is exact: the procedure ends in parity if and only if nobody
  pushed between the first `git submodule update` and the pull. The three look at
  the remote one after the other, so such a push leaves the consumers, or
  them and the canonical checkout, at different commits; the document does not
  mention it, but its last check is right about it.
- `AdminIsElevated` and `OthersKeepTheirRoles` leave out rows that an operator
  edits while a login holds a copy: such an edit is overwritten or missed, the
  code does not lock the row.
- `CreatedPasswordless` is about the row, not about what is handed out: a second
  login of a new user may fetch and return the row before the first has saved
  the unusable password. It leaves out a user whose creation broke off
  (`brokenOff`): after a crash between the two statements the password stays
  blank, and no later login of that user mends it unless it is the admin's. That
  the admin's next login does is in `AdminIsElevated`, which leaves out nothing
  but operators' edits.

## 4. Findings

1. **Issuing a credential again** (`issuance_reissue`). `issue_vc` signs the
   object with whatever `proof` it has and then overwrites that member, while
   the verifier takes the proof out before it checks: the returned credential
   never verifies. `IssuanceProofs!ReissueNeverVerifies` proves it for every
   credential and key. Taking the proof off first (`Renew`) is enough.
2. **Pushes past the hook** (`parity_unchecked`). Deletions, and local refs
   that are not under `refs/heads`, are skipped, though INV-2 names branch
   deletes.
3. **The stage check** (`rollout_stage_check`). Before the pins are committed
   the worktrees differ from them, so the check of step 4 is red in every mode;
   the document promises a green one with `--tolerate-canonical-ahead`.
4. **The login request** (`pkce_request`). `params` is read before it is
   assigned, so every request ends on the failure page, with a fresh verifier in
   the session, where the docstring has the browser redirected to iyou_idp.

A smaller one, without a run: a missing repository and an uninitialized
submodule end the checker with 1 (line 396), where its header (line 18) has 2 for
them.

## 5. What is proved

TLAPS proves these for all values of the constants under the `ASSUME`s of the
modules. Most of those only say that constants are of the right kind; the others
say what people cannot do (an edit writes no proof, `EditedAssumption`) or what
the procedure needs at hand (`RolloutAssumption`: its branch exists, its commits
can be pushed, its checks be run), or that history is acyclic
(`HistoryAssumption`). TLC evaluates them on the runs of each module.

- **Verifier** (`VerifierProofs`): `TypeCorrect`, `PrefixSoundness`,
  `Soundness`, `Completeness`, for any number of callers, documents, hosts, keys
  and any timeout. `ValidMeansSound` is not inductive: it says nothing of a call
  under way. The strengthening `CallInv` adds that the items before the current
  one passed their checks and are vouched for, that a fetch is for a did:web
  item, and that the body being read is what that host offered at one instant of
  the call, neither more (soundness) nor less (completeness). `CallStep` goes
  through the eleven actions of a call; other calls and hosts only add to
  `views`, which everything in the invariant bears.
- **The promise** (`VerifierPromiseProofs`): `Boundedness`, `Freshness` and
  `Refinement`. A time invariant says how much of its deadline each call has
  used up when it is at an item and at a fetch's first or second operation:
  cardinalities of the sets of did:web items before it and from it on.
  `Refinement` maps initial states to initial states and every step to a step of
  `VerifierSpec` or a stutter; that the clock waits at the deadline is where it
  needs the time invariant, and that a verdict is allowed where it needs
  `CallInv`.
- **Bindings** (`BindingsProofs`): `Ownership`, for any number of threads and
  addresses; the strengthening says that a call with a string out did not return
  null. `VaultRoundTrip`, for payloads, nonces and tags of any length: a
  ciphertext splits into what it was put together from (`Splits`), nonces tell
  encryptions apart (`NoncesDiffer`), so that exactly the bytes that were put
  out are opened (`Opens`, `OpensOnly`). `SealingIsFaithful` and
  `OpeningIsFaithful` carry that over to the envelopes of both layers, and
  `VaultInv` to the answers on their way: as encryptions are only added, a
  faithful answer stays one (`FaithfulGrow`). `UnreadIsWorthless` and `TypeCorrect`
  are about what an application keeps. A text gets there through the string that
  a call left on the heap, so `KeptInv` says the same (`Good`) of what each call
  returned and of what a page was shown; that the wrapper reads what *its* call
  left there is `OwnerInv` again. `SignedVcGood` and `SignedVpGood` are the heart: what
  `IssueVc` and `IssueVp` make of `"{}"` and `""` fails to verify or says nothing.
- **JsonObject, Credentials** (`CredentialsProofs`): `Insert` and `SwapRemove`
  keep an object an object and lose no member, and `AppendThenRemove`: taking out the member
  that was appended last gives back the object, order and all. That is why the
  verifier's rebuilt bytes are the signed ones. `RemovedMembers` says which
  members `SwapRemove` leaves whatever their order, `SignedMembers` and
  `PresentationShape` what a signed text and a presentation consist of.
- **Issuance** (`IssuanceProofs`): `IssuedStaysValid`, `ReissueNeverVerifies`,
  `VerifiedSaysWhatWasAsked` and `TypeCorrect`, for any sequence of calls, edits
  and grafts. The first rests on an invariant (`IInv`) of the texts marked as
  issued: what their members are and what their proof signs.
  `VerifiedWasAsked` is not inductive: a text that does not verify now may after
  a graft. `AInv` speaks of all proofs in circulation, those that fit nothing
  and those inside presentations included: each is a signature that some key was asked
  for (`Accounted`). `VouchedWasAsked` then needs only that a
  signature that fits is over exactly the members that are there. The theorems
  have `MarkersApart` as a hypothesis: `Invalid` and
  `Absent` are different from the objects and DIDs the program builds, which
  TLC takes for granted of model values and TLA+ does not.
- **KeyDerivation** (`KeyDerivationProofs`): `TypeCorrect`, `Separation`,
  `Stability` for all 32-byte seeds and u32 indices and up to 255 retries.
  `SearchInv` says that every candidate before the current one was refused and
  that no hash is both valid and refused. `Separation` rests on
  `EdInjective`, `CandidateInjective` and `CurvesApart`. The last is the subtle
  one: a dependent's Ed25519 preimage (seed, `iyou/dependent/`, index) and the
  holder's first scalar (`secp256k1-nostr`, seed, index) are both 51 bytes. If
  they were equal the third byte of `secp256k1-nostr`, 'c', would be the third
  of the seed, so its eighteenth, so byte 33 of the whole, which is the 'i' of
  `iyou`. The argument works per seed. Across two seeds the bytes *can* be the
  same (two of the seeds of the `keys` run show it), so the property speaks of
  one seed; hashing makes such a pair of PRF outputs unreachable in practice.

- **PkceLogin** (`PkceLoginProofs`): `TypeCorrect`, `CopiesStayCurrent`,
  `AdminElevated`, `RolesKept`, `CreatedWithoutPassword`, for any number of workers, users, requests and
  edits. `AdminIsElevated` is not inductive: a worker about to hand out the
  admin decides on a copy. `LoginInv` adds `CopyInv`: the copy never grants more
  than the row does, since logins only ever add to a row (`Improved`). `OwnStep`
  goes through the actions of the worker that moves; `StaysCurrent` is all that
  the others need. For the last theorem: a row without an unusable password is a row
  that somebody is about to take it from (`Pending`), and `PendingStays` has
  that worker stay there, whatever others do.

- **Parity** (`ParityProofs`): `TypeCorrect`, `StrictVerdict`, `TolerantVerdict`
  and `PinsKept`, for any history of commits, any clones, branches, pushes and
  edits. A verdict is about what was read, site by site, so `ReadInv` says what
  each reading tells (`Tells`): what its site built against at some moment of the
  run; `VerdictIsRight` is the verdict on one complete reading, whatever made it.
  `PinsKept` has the
  hypothesis `BranchUpdatesAreChecked`: no deletion of a branch and no expression
  pushed to one. The `parity` run's pushes satisfy it, those of
  `parity_unchecked` (finding 2) do not, and the theorem says that the hook has
  no other gap but the pin committed after it was read. `HookInv` carries, for
  each site whose pin is still what was read, what each checked update was found
  to have in its history, up to the moment the remote takes them all
  (`LandedIsChecked`); a failed check of any of them keeps `rc` from 0.
- **Rollout** (also in `ParityProofs`): `RolloutTypeCorrect`, `PinsStayFetchable`,
  `OnlyLeftBehindBlocks`, `RolloutEndsInParity`, for any history of commits,
  any initial drift, any number of pushes by others. The checks and pushes of
  the procedure are `Parity`'s actions, so its lemmas carry over. What is added
  says what the program counter knows: `StepInv`, that a check is under way
  only where the procedure runs one, and that the push in the hook is that of the
  head; `WorkInv`, what the steps so far have made of pins and worktrees,
  and that every pin is in the history of the remote's main. That alone, which is
  `PinsStayFetchable`, is not inductive: `BumpPins` commits what the worktrees
  hold, so these must be known to be reachable since step 2.
  `TornInv` says that between the first update and the pull the procedure is torn
  exactly if an updated worktree is not at the remote's main, and after the pull
  if one is not at the canonical HEAD: others only move the branch on, and no
  commit is an ancestor of its own ancestors (`HistoryAssumption`), so that a
  branch that was moved never comes back to where a worktree is.
  `PushInv` and `FinalInv` say what the two checks have read so far. They have
  `PathTarget = Canonical` as a hypothesis (iyou_mobile's path dependency points
  at the canonical checkout, as SECURITY_HARDENING.md line 33 has it and both
  rollout runs set it): the procedure has no step that would mend another.

**Only model-checked.** Liveness (`CallReturns`, `RolloutEnds`, `RequestEnds`),
which the prover cannot do. Every invariant and action property of a passing run
is a theorem as well.

## 6. What is not modelled

- JSON text: number formats, escapes, duplicate keys in the input, depth limits;
  a text is parsed or `Invalid`, and what is parsed again compares equal. (Built
  without `float_roundtrip`, serde_json may re-read a float one unit in the last
  place off; such a credential would not verify.)
- The cryptography: signatures are symbolic, SHA-256 is injective, whether a
  scalar is valid is an oracle, and secrets are not zeroized.
- URLs: a did:web is its host. That the fetched document's `id` is not compared
  with the DID, and that `verify_vp` does not look at the challenge, is how the
  model behaves too; no property claims otherwise.
- The build without `http-resolver` is in the model (`HttpResolver`) and in the
  proofs, but no run sets it to FALSE.
- The checker's exits with 2 (bad usage, missing root, unknown pushed commit),
  its JSON report and custom layouts; commits that a clone does not have;
  installing the hook.
- In auth_pkce.py: the callback's `get_backend_kwargs`, the nonce and the
  session between request and callback (no request gets that far), the logout
  view, `get_user`, and answers that are not JSON objects.
- In the bindings: did:web signers (fetches are `Verifier`'s), callers other than
  the guide's wrapper, memory behind a pointer that is shorter than the caller
  says or than the 32 bytes of a KEK, running out of memory, the wording of
  errors. A string with a NUL inside cannot come out of the JSON the library
  writes, so `c_string` never returns null.

## 7. Plan

Written in this order: `JsonObject`, `Credentials`, `Verifier` (the core: what
the library is for), `Issuance`, `Parity`, `Rollout`, `KeyDerivation`,
`PkceLogin`, `VerifierSpec`, `Vault`, `Bindings`, each with its MC module or run,
and the eight proof modules.

What is left:

1. The callback beside `PkceLogin`, its session and the popped verifier, with
   the request view as its docstring has it; the promise of `None` on any
   failure, and the length of a verifier, as runs of their own.
2. The checker's exits with 2, its report and custom layouts.
3. For `Rollout`, what becomes of a path dependency that points elsewhere (no
   step of the procedure mends it).
