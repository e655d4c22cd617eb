---------------------------- MODULE Credentials -----------------------------
(***************************************************************************)
(* Credentials and presentations as src/src/lib.rs builds and reads them.   *)
(*                                                                         *)
(* Signatures are symbolic: Sign(k, payload) verifies under key k over      *)
(* exactly that payload.  A payload is the ordered object itself, because   *)
(* serde_json::to_vec writes the members in their order.                    *)
(***************************************************************************)
EXTENDS JsonObject

CONSTANTS
    Key,       \* Ed25519 key pairs
    WebName,   \* what follows "did:web:"
    Invalid,   \* a text that does not decode: JSON, base58, hex, a timestamp
    Absent     \* no such member, or a value of another JSON type

ASSUME MarkersAreNotKeys == Invalid \notin Key /\ Absent \notin Key

-----------------------------------------------------------------------------
(* Identifiers.  A did:key carries its key; a did:web names a host whose    *)
(* document is fetched; did:ipfs stands for every method that resolves to   *)
(* an error.                                                                *)

KeyDid(k) == <<"did:key", k>>
WebDid(w) == <<"did:web", w>>
IpfsDid   == <<"did:ipfs", Invalid>>

\* A verification method [b58, mb]: its two key members, each a key, Absent
\* or Invalid.  publicKeyBase58 is used whenever it is there, decodable or not.
UsableKey(method) ==
    IF method.b58 # Absent THEN method.b58 ELSE method.mb

\* The keys a DID document (a set of methods) really offers a verifier.
KeysOf(methods) == { UsableKey(m) : m \in methods } \cap Key

\* KeyResolver::resolve: the document of a did:key is computed from the DID.
KeyResolve(k) ==
    IF k \in Key THEN { [b58 |-> k, mb |-> k] } ELSE {}

-----------------------------------------------------------------------------
(* Signing and reading signed objects                                      *)

Sign(k, payload) == [by |-> k, over |-> payload]

\* Mutant: the signature is not held against the payload.
KeyVerifies_AnyPayload(k, payload, sig) == sig.by = k

KeyVerifies(k, payload, sig) == sig = Sign(k, payload)

\* value.get(key).and_then(..); a text that does not parse has no members.
Lookup(o, key) == IF o # Invalid /\ Has(o, key) THEN Get(o, key) ELSE Absent

PayloadOf(o) == SwapRemove(o, "proof")

ProofOf(o) == Lookup(o, "proof")

SignatureOf(o) == ProofOf(o).proofValue

\* The second half of both issuers: sign the object as it stands, whatever
\* is in it, and put the proof into it.
SignInto(o, key) == Insert(o, "proof", [proofValue |-> Sign(key, o)])

\* issue_vc.  Err(..) is Invalid.
IssueVc(credential, did, key) ==
    IF credential = Invalid \/ key \notin Key
    THEN Invalid
    ELSE SignInto(Insert(credential, "issuer", did), key)

\* issue_vp: a new object around ONE credential, the proof its last member.
Presentation(vc, holder, challenge) ==
    << <<"holder", holder>>, <<"challenge", challenge>>,
       <<"verifiableCredential", <<"array", <<vc>> >> >> >>

IssueVp(vc, holder, challenge, key) ==
    IF vc = Invalid \/ key \notin Key
    THEN Invalid
    ELSE SignInto(Presentation(vc, holder, challenge), key)

-----------------------------------------------------------------------------
(* The items of a verification.  A document handed to the verifier is       *)
(* [kind, text]: kind is "vc" (verify_vc) or "vp" (verify_vp) and text the   *)
(* parsed object, or Invalid.  Item 0 is a presentation itself, items 1..n   *)
(* its credentials; verify_vc looks at item 1 only.                         *)

FirstItem(document) == IF document.kind = "vp" THEN 0 ELSE 1

\* An array, or one object standing alone; anything else is Absent.
CredentialMember(document) == Lookup(document.text, "verifiableCredential")

CredentialsIn(document) ==
    IF document.kind = "vc" THEN <<document.text>>
    ELSE IF CredentialMember(document) = Absent THEN << >>
    ELSE IF CredentialMember(document)[1] = "array"
         THEN CredentialMember(document)[2]
         ELSE <<CredentialMember(document)[2]>>

LastItem(document) == Len(CredentialsIn(document))

ItemText(document, i) ==
    IF i = 0 THEN document.text ELSE CredentialsIn(document)[i]

\* The member that names the signer of item i.
SignerMember(i) == IF i = 0 THEN "holder" ELSE "issuer"

SignerOf(document, i) == Lookup(ItemText(document, i), SignerMember(i))

Expired(vc, at) ==
    /\ Lookup(vc, "expirationDate") \in Nat
    /\ at > Lookup(vc, "expirationDate")

\* What a verdict can say besides "valid".
Errors ==
    { "Invalid JSON", "Missing proof object", "Missing issuer DID",
      "VC is expired", "Missing proofValue", "VP is missing proof",
      "VP is missing holder DID", "VP proof missing proofValue",
      "VP is missing verifiableCredential", "VP Signature Failure",
      "VC Signature Failure" }

\* Mutant: the expiry is never looked at.
VcError_NoExpiry(vc, at) ==
    IF ProofOf(vc) = Absent                   THEN "Missing proof object"
    ELSE IF Lookup(vc, "issuer") = Absent     THEN "Missing issuer DID"
    ELSE IF SignatureOf(vc) = Absent          THEN "Missing proofValue"
    ELSE "none"

\* The early returns of internal_verify_vc before the signature, in order.
VcError(vc, at) ==
    IF ProofOf(vc) = Absent                   THEN "Missing proof object"
    ELSE IF Lookup(vc, "issuer") = Absent     THEN "Missing issuer DID"
    ELSE IF Expired(vc, at)                   THEN "VC is expired"
    ELSE IF SignatureOf(vc) = Absent          THEN "Missing proofValue"
    ELSE "none"

\* The early returns of verify_vp before the holder's signature, in order.
VpError(vp) ==
    IF ProofOf(vp) = Absent                   THEN "VP is missing proof"
    ELSE IF Lookup(vp, "holder") = Absent     THEN "VP is missing holder DID"
    ELSE IF SignatureOf(vp) = Absent          THEN "VP proof missing proofValue"
    ELSE "none"

SignatureError(i) ==
    IF i = 0 THEN "VP Signature Failure" ELSE "VC Signature Failure"

LocalError(document, i, at) ==
    IF document.text = Invalid              THEN "Invalid JSON"
    ELSE IF i = 0                           THEN VpError(document.text)
    ELSE VcError(ItemText(document, i), at)

\* Mutant: every key has to fit, so none is as good as the right one.
SignedByOneOf_Every(document, i, keys) ==
    \A k \in keys : KeyVerifies(k, PayloadOf(ItemText(document, i)),
                                SignatureOf(ItemText(document, i)))

\* Some key in `keys' made the signature of item i over what is left of the
\* item without its proof.
SignedByOneOf(document, i, keys) ==
    \E k \in keys : KeyVerifies(k, PayloadOf(ItemText(document, i)),
                                SignatureOf(ItemText(document, i)))

-----------------------------------------------------------------------------
(* What a verdict should mean                                              *)

Items(document) == FirstItem(document) .. LastItem(document)

\* Item i carries a signature, over the item without its proof, by the key
\* its did:key names or by a key its did:web host offers: << host, key >> is
\* one of `pairs'.
Vouched(document, i, pairs) ==
    \E k \in Key :
        /\ KeyVerifies(k, PayloadOf(ItemText(document, i)),
                          SignatureOf(ItemText(document, i)))
        /\ \/ SignerOf(document, i) = KeyDid(k)
           \/ \E w \in WebName :
                 SignerOf(document, i) = WebDid(w) /\ <<w, k>> \in pairs

\* What the verifier should say of the document, were the hosts to offer
\* `pairs' and the time to be `at' throughout.
Sound(document, pairs, at) ==
    /\ document.text # Invalid
    /\ document.kind = "vp" => CredentialMember(document) # Absent
    /\ \A i \in Items(document) :
          /\ LocalError(document, i, at) = "none"
          /\ Vouched(document, i, pairs)

=============================================================================
