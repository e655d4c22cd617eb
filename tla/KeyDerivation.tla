---------------------------- MODULE KeyDerivation ----------------------------
(***************************************************************************)
(* src/src/crypto.rs: the identities derived from one root seed, the root   *)
(* holder's (derive_identity_from_prf) and the dependents'                   *)
(* (derive_dependent_subkeys), each a pair of an Ed25519 secret and a       *)
(* secp256k1 scalar.                                                        *)
(*                                                                         *)
(* SHA-256 is taken to be injective: a secret IS the bytes that are hashed. *)
(* Which hashes are valid scalars nobody knows beforehand: the answer is    *)
(* chosen when a candidate is first tried and is the same ever after.       *)
(***************************************************************************)
EXTENDS Integers, Sequences, FiniteSets

CONSTANTS
    Seed,            \* root seeds, 32 bytes each
    Index,           \* derivation indices, u32
    ScalarAttempts,  \* retries of the search for a scalar, a u8: 255
    MaxCalls         \* bound: derivations

Byte == 0 .. 255

ASSUME SeedAssumption == \A s \in Seed : s \in Seq(Byte) /\ Len(s) = 32
ASSUME IndexAssumption == \A n \in Index : n \in Nat /\ n \div 16777216 \in Byte
ASSUME AttemptsAssumption == ScalarAttempts \in 1 .. 255
ASSUME CallsAssumption == MaxCalls \in Nat

\* "secp256k1-nostr"
NostrDomain ==
    <<115, 101, 99, 112, 50, 53, 54, 107, 49, 45, 110, 111, 115, 116, 114>>

\* "iyou/dependent/"
DependentDomain ==
    <<105, 121, 111, 117, 47, 100, 101, 112, 101, 110, 100, 101, 110, 116, 47>>

\* "secp256k1-nostr/dependent/"
DependentNostrDomain ==
    NostrDomain \o <<47, 100, 101, 112, 101, 110, 100, 101, 110, 116, 47>>

Request == [kind : {"root", "dependent"}, seed : Seed, index : Index]

NoRequest == << >>

VARIABLES
    request,   \* the derivation under way, or NoRequest
    attempt,   \* its candidate scalar: 0, then 1 .. ScalarAttempts
    scalars,   \* hashes known to be valid scalars
    refused,   \* hashes known not to be
    derived,   \* the identities returned: [of, ed, secp]
    failed,    \* the requests answered with ScalarDerivationFailed
    calls      \* bound

vars == <<request, attempt, scalars, refused, derived, failed, calls>>

-----------------------------------------------------------------------------
(* What is hashed                                                          *)

\* u32::to_le_bytes
LE32(n) ==
    <<n % 256, (n \div 256) % 256, (n \div 65536) % 256, n \div 16777216>>

EdSecret(r) ==
    IF r.kind = "root"
    THEN r.seed \o LE32(r.index)
    ELSE r.seed \o DependentDomain \o LE32(r.index)

\* Mutant: dependents share the holder's domain.
ScalarDomain_Shared(r) == NostrDomain

ScalarDomain(r) ==
    IF r.kind = "root" THEN NostrDomain ELSE DependentNostrDomain

\* The first candidate carries no attempt byte.
Candidate(r, n) ==
    ScalarDomain(r) \o r.seed \o LE32(r.index) \o
        (IF n = 0 THEN << >> ELSE <<n>>)

-----------------------------------------------------------------------------
Init ==
    /\ request = NoRequest
    /\ attempt = 0
    /\ scalars = {}
    /\ refused = {}
    /\ derived = {}
    /\ failed = {}
    /\ calls = 0

\* Mutant: the search goes on where the last one stopped.
Derive_KeepsAttempt(r) ==
    /\ request = NoRequest
    /\ calls < MaxCalls
    /\ request' = r
    /\ calls' = calls + 1
    /\ UNCHANGED <<attempt, scalars, refused, derived, failed>>

Derive(r) ==
    /\ request = NoRequest
    /\ calls < MaxCalls
    /\ request' = r
    /\ attempt' = 0
    /\ calls' = calls + 1
    /\ UNCHANGED <<scalars, refused, derived, failed>>

Searching == request # NoRequest

FindScalar ==
    /\ Searching
    /\ Candidate(request, attempt) \notin refused
    /\ scalars' = scalars \cup {Candidate(request, attempt)}
    /\ derived' = derived \cup
         { [of |-> request, ed |-> EdSecret(request),
            secp |-> Candidate(request, attempt)] }
    /\ request' = NoRequest
    /\ UNCHANGED <<attempt, refused, failed, calls>>

Refuse ==
    /\ Searching
    /\ Candidate(request, attempt) \notin scalars
    /\ refused' = refused \cup {Candidate(request, attempt)}
    /\ UNCHANGED <<scalars, derived, calls>>

\* Mutant: one attempt too many (a byte that does not exist).
RetryScalar_OneMore ==
    /\ Refuse
    /\ attempt <= ScalarAttempts
    /\ attempt' = attempt + 1
    /\ UNCHANGED <<request, failed>>

RetryScalar ==
    /\ Refuse
    /\ attempt < ScalarAttempts
    /\ attempt' = attempt + 1
    /\ UNCHANGED <<request, failed>>

\* The secret derived for the other curve is dropped with the error.
GiveUp ==
    /\ Refuse
    /\ attempt = ScalarAttempts
    /\ failed' = failed \cup {request}
    /\ request' = NoRequest
    /\ UNCHANGED attempt

Next ==
    \/ \E r \in Request : Derive(r)
    \/ FindScalar
    \/ RetryScalar
    \/ GiveUp

Spec == Init /\ [][Next]_vars

-----------------------------------------------------------------------------
(* Properties                                                              *)

\* The attempt fits its byte, and the requests are of the program's types.
TypeOK ==
    /\ request \in Request \cup {NoRequest}
    /\ attempt \in 0 .. ScalarAttempts
    /\ \A x \in derived : x.of \in Request
    /\ failed \subseteq Request
    /\ calls \in 0 .. MaxCalls

\* The secrets that come of one seed are all different: no dependent has a
\* secret of the root holder or of another dependent, no index has that of
\* another, and none serves on both curves, though the bytes hashed for a
\* dependent's Ed25519 secret are as many as those for the holder's scalar
\* and nothing marks where domain, seed and index meet.
SecretsAreSeparate ==
    \A x, y \in derived : x.of.seed = y.of.seed =>
        /\ x.ed # y.secp
        /\ x.ed = y.ed => x.of = y.of
        /\ x.secp = y.secp => x.of = y.of

\* An identity can be recovered from the seed: deriving it again brings the
\* same secrets, and what was derived once does not fail another time.
DerivationIsStable ==
    /\ \A x, y \in derived : x.of = y.of => x = y
    /\ \A x \in derived : x.of \notin failed

=============================================================================
