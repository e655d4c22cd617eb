------------------------------ MODULE Issuance ------------------------------
(***************************************************************************)
(* The life of credentials between the library's calls: an application      *)
(* issues them (issue_vc), presents them (issue_vp), keeps the returned     *)
(* JSON, edits it with other JSON tools, and issues it again.  Every step   *)
(* is one call, or one edit of a text that somebody holds.                  *)
(***************************************************************************)
EXTENDS Credentials, FiniteSets

CONSTANTS
    Draft,      \* credentials an application writes: objects without a proof
    Edited,     \* << member, value >> pairs that somebody may put in a text
    MaxHeld,    \* bound: texts in circulation
    MaxTime     \* bound: the clock stops here

ASSUME DraftAssumption ==
    \A o \in Draft : IsObject(o) /\ ~Has(o, "proof")

\* The credentials a presentation holds after such a change.
Brought(change) == CredentialsIn([kind |-> "vp", text |-> << change >>])

\* A proof is only ever put in by a call or by a graft: what people write,
\* in a text or as one more credential of a presentation, carries none.
ASSUME EditedAssumption ==
    \A change \in Edited :
        /\ change[1] # "proof"
        /\ \A i \in 1 .. Len(Brought(change)) :
              ProofOf(Brought(change)[i]) = Absent

ASSUME MaxTimeAssumption == MaxTime \in Nat

VARIABLES
    held,       \* [kind, text, from]: the texts people hold; `from' is history
    asked,      \* history: what each key was asked to sign, [by, said]
    now

vars == <<held, asked, now>>

Circulated(kind, text, from) == [kind |-> kind, text |-> text, from |-> from]

\* The members of an object, whatever their order.
Content(o) == { o[i] : i \in DOMAIN o }

Unsigned(o) == { member \in Content(o) : member[1] # "proof" }

Init ==
    /\ held = {}
    /\ asked = {}
    /\ now = 0

Circulate(kind, text, from) ==
    /\ Cardinality(held) < MaxHeld
    /\ held' = held \cup {Circulated(kind, text, from)}
    /\ UNCHANGED now

\* issue_vc(o, did:key of k, k)
Certify(o, k, from) ==
    /\ Circulate("vc", IssueVc(o, KeyDid(k), k), from)
    /\ asked' = asked \cup
         { [by |-> k, said |-> Content(Insert(o, "issuer", KeyDid(k)))] }

Issue(draft, k) == Certify(draft, k, "issued")

\* The credential is issued again as it is held, proof and all.
Reissue(h, change, k) ==
    /\ h.kind = "vc"
    /\ Certify(Insert(h.text, change[1], change[2]), k, "reissued")

\* The application takes the old proof off first, as the verifier does.
Renew(h, change, k) ==
    /\ h.kind = "vc"
    /\ Certify(Insert(PayloadOf(h.text), change[1], change[2]),
               k, "issued")

\* issue_vp(h, did:key of k, .., k)
Present(h, k) ==
    /\ h.kind = "vc"
    /\ LET vp == IssueVp(h.text, KeyDid(k), "nonce", k)
       IN  /\ Circulate("vp", vp,
                        IF h.from = "issued" THEN "issued" ELSE "edited")
           /\ asked' = asked \cup
                { [by |-> k,
                   said |-> Content(Presentation(h.text, KeyDid(k), "nonce"))] }

Edit(h, change) ==
    /\ Circulate(h.kind, Insert(h.text, change[1], change[2]), "edited")
    /\ UNCHANGED asked

\* The proof of one text in the place of another's.
Graft(h, g) ==
    /\ Circulate(h.kind, Insert(h.text, "proof", ProofOf(g.text)), "edited")
    /\ UNCHANGED asked

Tick ==
    /\ now < MaxTime
    /\ now' = now + 1
    /\ UNCHANGED <<held, asked>>

Next ==
    \/ \E draft \in Draft, k \in Key : Issue(draft, k)
    \/ \E h \in held, change \in Edited, k \in Key :
          Reissue(h, change, k) \/ Renew(h, change, k)
    \/ \E h \in held, k \in Key : Present(h, k)
    \/ \E h \in held, change \in Edited : Edit(h, change)
    \/ \E h, g \in held : Graft(h, g)
    \/ Tick

Spec == Init /\ [][Next]_vars

-----------------------------------------------------------------------------
(* Properties                                                              *)

\* verify_vc / verify_vp: every signer here is a did:key, nothing is fetched.
Verifies(h) == Sound(h, {}, now)

OutOfDate(h) ==
    \E j \in 1 .. LastItem(h) : Expired(ItemText(h, j), now)

\* Every text in circulation is an object with distinct members.
TypeOK ==
    /\ now \in 0 .. MaxTime
    /\ \A h \in held :
          /\ h.kind \in {"vc", "vp"}
          /\ h.from \in {"issued", "reissued", "edited"}
          /\ IsObject(h.text)
    /\ \A a \in asked : a.by \in Key

\* What issue_vc makes of a credential without a proof verifies until it
\* expires, and so does what issue_vp makes of that, though the verifier
\* rebuilds the signed bytes by taking a member out of an ordered map.
IssuedVerifies ==
    \A h \in held : h.from = "issued" /\ ~OutOfDate(h) => Verifies(h)

\* A text that verifies says what the keys it names were asked to sign, no
\* member more, less or different, whoever edited or regrafted it since.
VerifiedWasAsked ==
    \A h \in held : Verifies(h) =>
        \A i \in Items(h) :
            \E a \in asked :
                /\ SignerOf(h, i) = KeyDid(a.by)
                /\ a.said = Unsigned(ItemText(h, i))

\* Claimed of issue_vc without regard to what it is given: the credential it
\* returns is valid (the assertion of test_generate_and_verify_vc).
ReissuedVerifies ==
    \A h \in held : h.from = "reissued" /\ ~OutOfDate(h) => Verifies(h)

=============================================================================
