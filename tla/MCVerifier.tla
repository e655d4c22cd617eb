----------------------------- MODULE MCVerifier -----------------------------
(* Documents and hosts for model checking Verifier.                         *)
EXTENDS Verifier

CONSTANTS k1, k2, w1, w2

MCKey     == {k1, k2}
MCWebName == {w1, w2}

Method(b58, mb) == [b58 |-> b58, mb |-> mb]
Offers(k)       == {Method(k, k)}

\* What a did:web host may serve: one key; the other, beside a method whose
\* base58 member is garbage though its multibase member is good; or an error.
Rotations == { Offers(k1), Offers(k2) \cup {Method(Invalid, k1)}, NoDoc }

\* A document that lists both keys, and a body that is no DID document.
OddPublications == { Offers(k1) \cup {Method(Absent, k2)}, Invalid }

-----------------------------------------------------------------------------
Plain(id)      == << <<"id", id>> >>
Until(id, exp) == << <<"id", id>>, <<"expirationDate", exp>> >>

Vc(text) == [kind |-> "vc", text |-> text]
Vp(text) == [kind |-> "vp", text |-> text]

\* A presentation put together by a wallet, as tests/ and the guide do.
Wrap(holder, credentials, key) ==
    SignInto(<< <<"holder", holder>>, <<"verifiableCredential", credentials>> >>,
             key)

KeyVc     == IssueVc(Plain("a"), KeyDid(k1), k1)
ShortVc   == IssueVc(Until("b", 0), KeyDid(k1), k1)
UndatedVc == IssueVc(Until("b", Invalid), KeyDid(k1), k1)
WebVc     == IssueVc(Plain("c"), WebDid(w1), k1)
ShortWebVc == IssueVc(Until("c", 1), WebDid(w1), k1)
OtherWebVc == IssueVc(Plain("d"), WebDid(w2), k2)

WithProof(o, proof) == Append(o, <<"proof", proof>>)
ByK1 == Insert(Plain("a"), "issuer", KeyDid(k1))

LocalDocuments ==
    { Vc(KeyVc), Vc(ShortVc), Vc(UndatedVc), Vc(Invalid), Vp(Invalid),
      Vc(ByK1), Vc(WithProof(Plain("a"), [proofValue |-> Invalid])),
      Vc(WithProof(ByK1, [proofValue |-> Absent])),
      Vc(WithProof(ByK1, [proofValue |-> Invalid])),
      Vc(WithProof(ByK1, [proofValue |-> Sign(k2, ByK1)])),
      Vc(IssueVc(Plain("a"), IpfsDid, k1)),
      Vc(IssueVc(Plain("a"), KeyDid(Invalid), k1)),
      Vc(Insert(KeyVc, "id", "b")),
      \* members added behind the proof, and taken from before it
      Vc(Append(KeyVc, <<"note", "n">>)),
      Vc(SwapRemove(KeyVc, "id")),
      Vp(IssueVp(KeyVc, KeyDid(k2), "nonce", k2)),
      Vp(IssueVp(ShortVc, KeyDid(k2), "nonce", k2)),
      Vp(IssueVp(Insert(KeyVc, "id", "b"), KeyDid(k2), "nonce", k2)),
      Vp(IssueVp(KeyVc, KeyDid(k2), "nonce", k1)),
      Vp(Wrap(KeyDid(k2), <<"array", <<KeyVc, ShortVc>> >>, k2)),
      Vp(Wrap(KeyDid(k2), <<"object", KeyVc>>, k2)),
      Vp(Wrap(KeyDid(k2), <<"array", << >> >>, k2)),
      Vp(Wrap(KeyDid(k2), Absent, k2)),
      Vp(Plain("a")),
      Vp(WithProof(Plain("a"), [proofValue |-> Invalid])),
      Vp(WithProof(<< <<"holder", KeyDid(k2)>> >>, [proofValue |-> Absent])),
      Vp(WithProof(<< <<"holder", KeyDid(k2)>> >>, [proofValue |-> Invalid])) }

WebDocuments ==
    { Vc(WebVc), Vc(ShortWebVc), Vc(Insert(WebVc, "id", "d")),
      Vp(Wrap(WebDid(w2), <<"array", <<ShortWebVc, KeyVc>> >>, k2)),
      Vp(Wrap(KeyDid(k2), <<"array", <<ShortWebVc, OtherWebVc>> >>, k2)) }

AllDocuments == LocalDocuments \cup WebDocuments

\* Two documents that fetch from the same host and from different ones.
SharedHostDocuments ==
    { Vc(ShortWebVc), Vp(Wrap(WebDid(w2), <<"array", <<WebVc>> >>, k2)) }

=============================================================================
