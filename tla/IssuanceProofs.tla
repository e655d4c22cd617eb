--------------------------- MODULE IssuanceProofs ---------------------------
(***************************************************************************)
(* The signed bytes survive the trip through the ordered map: whatever the  *)
(* credential and however many members it has, what issue_vc and issue_vp   *)
(* return verifies - if the credential had no proof to begin with, and      *)
(* never if it had one.                                                     *)
(***************************************************************************)
EXTENDS Issuance, CredentialsProofs

(* Invalid and Absent are markers, not values that the program builds.      *)
MarkersApart ==
    /\ \A o : IsObject(o) => o # Invalid
    /\ \A sig : [proofValue |-> sig] # Absent
    /\ \A k, o : Sign(k, o) # Absent
    /\ \A k : KeyDid(k) # Absent
    /\ \A vcs : <<"array", vcs>> # Absent

(* What the verifier takes apart is what the issuer put together.          *)
LEMMA SignedObject ==
    ASSUME MarkersApart, NEW o, NEW k, IsObject(o), ~Has(o, "proof")
    PROVE  /\ IsObject(SignInto(o, k))
           /\ SignInto(o, k) # Invalid
           /\ PayloadOf(SignInto(o, k)) = o
           /\ ProofOf(SignInto(o, k)) = [proofValue |-> Sign(k, o)]
           /\ SignatureOf(SignInto(o, k)) = Sign(k, o)
           /\ \A key : key # "proof" =>
                 Lookup(SignInto(o, k), key) = Lookup(o, key)
  <1> DEFINE s == SignInto(o, k)
             proof == [proofValue |-> Sign(k, o)]
  <1>1. s = Insert(o, "proof", proof)
    BY DEF SignInto
  <1>2. /\ IsObject(s) /\ s # Invalid /\ o # Invalid
        /\ Has(s, "proof") /\ Get(s, "proof") = proof
    BY <1>1, InsertObject DEF MarkersApart
  <1>3. PayloadOf(s) = o
    BY <1>1, AppendThenRemove DEF PayloadOf
  <1>4. ProofOf(s) = proof /\ SignatureOf(s) = Sign(k, o)
    BY <1>2 DEF ProofOf, SignatureOf, Lookup
  <1>5. ASSUME NEW key, key # "proof"
        PROVE  Lookup(s, key) = Lookup(o, key)
    BY <1>1, <1>2, <1>5, InsertObject DEF Lookup
  <1> QED
    BY <1>2, <1>3, <1>4, <1>5

(* issue_vc on a credential that carries a proof signs the proof with it;   *)
(* the verifier takes the proof out, so that no key ever verifies what was  *)
(* issued.                                                                  *)
THEOREM ReissueNeverVerifies ==
    ASSUME MarkersApart, NEW o, NEW did, NEW k \in Key, NEW any,
           IsObject(o), Has(o, "proof")
    PROVE  ~KeyVerifies(any, PayloadOf(IssueVc(o, did, k)),
                             SignatureOf(IssueVc(o, did, k)))
  <1> DEFINE vc == Insert(o, "issuer", did)
             s  == SignInto(vc, k)
  <1>1. IssueVc(o, did, k) = s
    BY DEF IssueVc, MarkersApart
  <1>2. IsObject(vc) /\ Has(vc, "proof")
    BY InsertObject
  <1>3. /\ IsObject(s) /\ s # Invalid
        /\ Has(s, "proof") /\ Get(s, "proof") = [proofValue |-> Sign(k, vc)]
    BY <1>2, InsertObject DEF SignInto, MarkersApart
  <1>4. SignatureOf(s) = [by |-> k, over |-> vc]
    BY <1>3 DEF SignatureOf, ProofOf, Lookup, Sign
  <1>5. ~Has(PayloadOf(s), "proof")
    BY <1>3, RemoveObject DEF PayloadOf
  <1>6. PayloadOf(s) # vc
    BY <1>2, <1>5
  <1> QED
    BY <1>1, <1>4, <1>6 DEF KeyVerifies, Sign

-----------------------------------------------------------------------------
(* Everything the library issued, wherever it is held                      *)

SignedBy(text, signer, k, o) ==
    /\ IsObject(o) /\ ~Has(o, "proof")
    /\ text = SignInto(o, k)
    /\ Lookup(o, signer) = KeyDid(k)

IssuedVc(text) == \E k \in Key : \E o : SignedBy(text, "issuer", k, o)

IssuedVp(text) ==
    \E k \in Key : \E o, vc :
        /\ SignedBy(text, "holder", k, o)
        /\ Lookup(o, "verifiableCredential") = <<"array", <<vc>> >>
        /\ IssuedVc(vc)

Issued(h) ==
    IF h.kind = "vc" THEN IssuedVc(h.text) ELSE IssuedVp(h.text)

HeldInv(h) ==
    /\ h.kind \in {"vc", "vp"}
    /\ IsObject(h.text)
    /\ h.from = "issued" => Issued(h)

IInv == \A h \in held : HeldInv(h)

(* issue_vc of an object is an object, and an issued credential if the      *)
(* object had no proof.                                                     *)
LEMMA IssueVcIssues ==
    ASSUME MarkersApart, NEW o, NEW k \in Key, IsObject(o)
    PROVE  /\ IsObject(IssueVc(o, KeyDid(k), k))
           /\ ~Has(o, "proof") => IssuedVc(IssueVc(o, KeyDid(k), k))
  <1> DEFINE vc == Insert(o, "issuer", KeyDid(k))
  <1>1. IssueVc(o, KeyDid(k), k) = SignInto(vc, k)
    BY DEF IssueVc, MarkersApart
  <1>2. /\ IsObject(vc) /\ vc # Invalid
        /\ Has(vc, "issuer") /\ Get(vc, "issuer") = KeyDid(k)
        /\ Has(vc, "proof") <=> Has(o, "proof")
    BY InsertObject DEF MarkersApart
  <1>3. IsObject(SignInto(vc, k))
    BY <1>2, InsertObject DEF SignInto
  <1>4. ASSUME ~Has(o, "proof")
        PROVE  SignedBy(SignInto(vc, k), "issuer", k, vc)
    BY <1>2, <1>4 DEF SignedBy, Lookup
  <1> QED
    BY <1>1, <1>3, <1>4 DEF IssuedVc

(* The same of issue_vp.                                                   *)
LEMMA IssueVpIssues ==
    ASSUME MarkersApart, NEW vc, NEW k \in Key, NEW challenge, IsObject(vc)
    PROVE  /\ IsObject(IssueVp(vc, KeyDid(k), challenge, k))
           /\ IssuedVc(vc) => IssuedVp(IssueVp(vc, KeyDid(k), challenge, k))
  <1> DEFINE vp == Presentation(vc, KeyDid(k), challenge)
  <1>1. IssueVp(vc, KeyDid(k), challenge, k) = SignInto(vp, k)
    BY DEF IssueVp, MarkersApart
  <1>6. /\ IsObject(vp) /\ ~Has(vp, "proof")
        /\ Has(vp, "holder") /\ Get(vp, "holder") = KeyDid(k)
        /\ Has(vp, "verifiableCredential")
        /\ Get(vp, "verifiableCredential") = <<"array", <<vc>> >>
    BY PresentationShape
  <1>8. /\ Lookup(vp, "holder") = KeyDid(k)
        /\ Lookup(vp, "verifiableCredential") = <<"array", <<vc>> >>
    BY <1>6 DEF Lookup, MarkersApart
  <1>9. IsObject(SignInto(vp, k))
    BY <1>6, InsertObject DEF SignInto
  <1>10. SignedBy(SignInto(vp, k), "holder", k, vp)
    BY <1>6, <1>8 DEF SignedBy
  <1> QED
    BY <1>1, <1>8, <1>9, <1>10 DEF IssuedVp

-----------------------------------------------------------------------------
(* What was issued verifies                                                *)

(* An issued credential is accepted until it expires.                      *)
LEMMA IssuedVcSound ==
    ASSUME MarkersApart, NEW text, IssuedVc(text), NEW at
    PROVE  /\ Expired(text, at) \/ VcError(text, at) = "none"
           /\ \E k \in Key :
                 /\ KeyVerifies(k, PayloadOf(text), SignatureOf(text))
                 /\ Lookup(text, "issuer") = KeyDid(k)
  <1>1. PICK k, o : k \in Key /\ SignedBy(text, "issuer", k, o)
    BY DEF IssuedVc
  <1>2. /\ PayloadOf(text) = o
        /\ ProofOf(text) = [proofValue |-> Sign(k, o)]
        /\ SignatureOf(text) = Sign(k, o)
        /\ Lookup(text, "issuer") = KeyDid(k)
    BY <1>1, SignedObject DEF SignedBy
  <1> QED
    BY <1>1, <1>2 DEF VcError, MarkersApart, KeyVerifies

(* A held credential or presentation from the library is sound, unless one  *)
(* of its credentials is out of date.                                       *)
LEMMA IssuedSound ==
    ASSUME MarkersApart, NEW h, HeldInv(h), h.from = "issued", ~OutOfDate(h)
    PROVE  Verifies(h)
  <1>0. h.text # Invalid
    BY DEF HeldInv, MarkersApart
  <1>1. CASE h.kind = "vc"
    <2>1. /\ CredentialsIn(h) = <<h.text>>
          /\ LastItem(h) = 1 /\ FirstItem(h) = 1
          /\ ItemText(h, 1) = h.text
          /\ \A i \in Items(h) : i = 1
      BY <1>1 DEF CredentialsIn, LastItem, FirstItem, ItemText, Items
    <2>2. IssuedVc(h.text)
      BY <1>1 DEF HeldInv, Issued
    <2>3. ~Expired(h.text, now)
      BY <2>1 DEF OutOfDate
    <2>4. LocalError(h, 1, now) = "none"
      BY <1>0, <2>1, <2>2, <2>3, IssuedVcSound DEF LocalError
    <2>5. Vouched(h, 1, {})
      BY <2>1, <2>2, IssuedVcSound DEF Vouched, SignerOf, SignerMember
    <2> QED
      BY <1>0, <1>1, <2>1, <2>4, <2>5 DEF Verifies, Sound
  <1>2. CASE h.kind = "vp"
    <2>1. PICK k, o, vc :
             /\ k \in Key
             /\ SignedBy(h.text, "holder", k, o)
             /\ Lookup(o, "verifiableCredential") = <<"array", <<vc>> >>
             /\ IssuedVc(vc)
      BY <1>2 DEF HeldInv, Issued, IssuedVp
    <2>2. /\ PayloadOf(h.text) = o
          /\ ProofOf(h.text) = [proofValue |-> Sign(k, o)]
          /\ SignatureOf(h.text) = Sign(k, o)
          /\ Lookup(h.text, "holder") = KeyDid(k)
          /\ CredentialMember(h) = <<"array", <<vc>> >>
      BY <2>1, SignedObject DEF SignedBy, CredentialMember
    <2>3. CredentialMember(h) # Absent
      BY <2>2 DEF MarkersApart
    <2>4. /\ CredentialsIn(h) = <<vc>>
          /\ LastItem(h) = 1 /\ FirstItem(h) = 0
          /\ ItemText(h, 0) = h.text /\ ItemText(h, 1) = vc
          /\ \A i \in Items(h) : i = 0 \/ i = 1
      BY <1>2, <2>2, <2>3
      DEF CredentialsIn, LastItem, FirstItem, ItemText, Items
    <2>5. ~Expired(vc, now)
      BY <2>4 DEF OutOfDate
    <2>6. LocalError(h, 0, now) = "none"
      BY <1>0, <2>2 DEF LocalError, VpError, MarkersApart
    <2>7. LocalError(h, 1, now) = "none"
      BY <1>0, <2>1, <2>4, <2>5, IssuedVcSound DEF LocalError
    <2>8. Vouched(h, 0, {})
      BY <2>1, <2>2, <2>4 DEF Vouched, SignerOf, SignerMember, KeyVerifies
    <2>9. Vouched(h, 1, {})
      BY <2>1, <2>4, IssuedVcSound DEF Vouched, SignerOf, SignerMember
    <2> QED
      BY <1>0, <2>3, <2>4, <2>6, <2>7, <2>8, <2>9 DEF Verifies, Sound
  <1> QED
    BY <1>1, <1>2 DEF HeldInv

(* Each call and each edit puts an object into circulation, and whatever    *)
(* it marks as issued really is.                                            *)
LEMMA CertifyInv ==
    ASSUME MarkersApart, IInv, NEW o, NEW k \in Key, NEW from, IsObject(o),
           from = "issued" => ~Has(o, "proof"), Certify(o, k, from)
    PROVE  IInv'
  <1>1. HeldInv(Circulated("vc", IssueVc(o, KeyDid(k), k), from))
    BY IssueVcIssues DEF HeldInv, Circulated, Issued
  <1> QED
    BY <1>1 DEF IInv, Certify, Circulate

(* Every call, edit and graft, and the clock, keep the invariant.           *)
LEMMA StepIInv ==
    ASSUME MarkersApart, IInv, [Next]_vars
    PROVE  IInv'
  <1>1. ASSUME NEW draft \in Draft, NEW k \in Key, Issue(draft, k)
        PROVE  IInv'
    BY <1>1, DraftAssumption, CertifyInv DEF Issue
  <1>2. ASSUME NEW h \in held, NEW change \in Edited, NEW k \in Key,
               Reissue(h, change, k)
        PROVE  IInv'
    <2>1. IsObject(Insert(h.text, change[1], change[2]))
      BY InsertObject DEF IInv, HeldInv
    <2> QED
      BY <1>2, <2>1, CertifyInv DEF Reissue
  <1>3. ASSUME NEW h \in held, NEW change \in Edited, NEW k \in Key,
               Renew(h, change, k)
        PROVE  IInv'
    <2> DEFINE bare == PayloadOf(h.text)
    <2>1. IsObject(bare) /\ ~Has(bare, "proof")
      BY RemoveObject DEF IInv, HeldInv, PayloadOf
    <2>2. /\ IsObject(Insert(bare, change[1], change[2]))
          /\ ~Has(Insert(bare, change[1], change[2]), "proof")
      BY <2>1, InsertObject, EditedAssumption
    <2> QED
      BY <1>3, <2>2, CertifyInv DEF Renew
  <1>4. ASSUME NEW h \in held, NEW k \in Key, Present(h, k)
        PROVE  IInv'
    <2>1. IsObject(h.text) /\ h.kind = "vc"
      BY <1>4 DEF IInv, HeldInv, Present
    <2>2. h.from = "issued" => IssuedVc(h.text)
      BY <2>1 DEF IInv, HeldInv, Issued
    <2>3. HeldInv(Circulated("vp", IssueVp(h.text, KeyDid(k), "nonce", k),
                     IF h.from = "issued" THEN "issued" ELSE "edited"))
      BY <2>1, <2>2, IssueVpIssues DEF HeldInv, Circulated, Issued
    <2> QED
      BY <1>4, <2>3 DEF IInv, Present, Circulate
  <1>5. ASSUME NEW h \in held, NEW change \in Edited, Edit(h, change)
        PROVE  IInv'
    <2>1. HeldInv(Circulated(h.kind, Insert(h.text, change[1], change[2]),
                             "edited"))
      BY InsertObject DEF IInv, HeldInv, Circulated
    <2> QED
      BY <1>5, <2>1 DEF IInv, Edit, Circulate
  <1>6. ASSUME NEW h \in held, NEW g \in held, Graft(h, g)
        PROVE  IInv'
    <2>1. HeldInv(Circulated(h.kind, Insert(h.text, "proof", ProofOf(g.text)),
                             "edited"))
      BY InsertObject DEF IInv, HeldInv, Circulated
    <2> QED
      BY <1>6, <2>1 DEF IInv, Graft, Circulate
  <1>7. CASE Tick
    BY <1>7 DEF IInv, Tick
  <1>8. CASE UNCHANGED vars
    BY <1>8 DEF IInv, vars
  <1> QED
    BY <1>1, <1>2, <1>3, <1>4, <1>5, <1>6, <1>7, <1>8 DEF Next

(* Whatever issue_vc and issue_vp return for credentials without a proof    *)
(* verifies, alone or presented, until one of its credentials expires.      *)
THEOREM IssuedStaysValid ==
    ASSUME MarkersApart
    PROVE  Spec => []IssuedVerifies
  <1>1. Init => IInv
    BY DEF Init, IInv
  <1>2. IInv /\ [Next]_vars => IInv'
    BY StepIInv
  <1>3. IInv => IssuedVerifies
    BY IssuedSound DEF IInv, IssuedVerifies
  <1> QED
    BY <1>1, <1>2, <1>3, PTL DEF Spec

-----------------------------------------------------------------------------
(* Everything that carries a proof, whoever has edited it                  *)

(* The signature in a text is one that a key was asked for.                 *)
AskedFor(text) ==
    LET sig == SignatureOf(text)
    IN  /\ ProofOf(text) = [proofValue |-> Sign(sig.by, sig.over)]
        /\ [by |-> sig.by, said |-> Content(sig.over)] \in asked

Accounted(text) == ProofOf(text) # Absent => IsObject(text) /\ AskedFor(text)

HeldAccounted(h) ==
    /\ Accounted(h.text)
    /\ \A i \in 1 .. LastItem(h) : Accounted(CredentialsIn(h)[i])

AInv ==
    /\ \A h \in held : HeldAccounted(h)
    /\ \A a \in asked : a.by \in Key

(* The verifier reads back what was last written under a key, and nothing   *)
(* that was not.                                                            *)
LEMMA LookupInserted ==
    ASSUME MarkersApart, NEW o, NEW key, NEW v, IsObject(o)
    PROVE  /\ Lookup(Insert(o, key, v), key) = v
           /\ \A other : other # key =>
                 Lookup(Insert(o, key, v), other) = Lookup(o, other)
  <1>1. Insert(o, key, v) # Invalid /\ o # Invalid
    BY InsertObject DEF MarkersApart
  <1> QED
    BY <1>1, InsertObject DEF Lookup

(* Signatures asked for stay asked for.                                     *)
LEMMA AccountedStays ==
    ASSUME NEW text, asked \subseteq asked', Accounted(text)
    PROVE  Accounted(text)'
  BY DEF Accounted, AskedFor

(* One more text in circulation, its proofs accounted for.                  *)
LEMMA CirculateAccounted ==
    ASSUME AInv, NEW h, asked \subseteq asked',
           held' = held \cup {h}, HeldAccounted(h)',
           \A a \in asked' : a.by \in Key
    PROVE  AInv'
  <1>1. ASSUME NEW g \in held
        PROVE  HeldAccounted(g)'
    BY <1>1, AccountedStays DEF AInv, HeldAccounted
  <1> QED
    BY <1>1 DEF AInv

(* A text that was just signed is accounted for by that.                    *)
LEMMA SignedAccounted ==
    ASSUME MarkersApart, NEW o, NEW k \in Key, IsObject(o),
           [by |-> k, said |-> Content(o)] \in asked'
    PROVE  Accounted(SignInto(o, k))'
  <1> DEFINE s == SignInto(o, k)
  <1>1. IsObject(s) /\ ProofOf(s) = [proofValue |-> Sign(k, o)]
    BY InsertObject, LookupInserted DEF SignInto, ProofOf
  <1>2. SignatureOf(s) = Sign(k, o)
    BY <1>1 DEF SignatureOf
  <1>3. SignatureOf(s).by = k /\ SignatureOf(s).over = o
    BY <1>2 DEF Sign
  <1> HIDE DEF s
  <1> QED
    BY <1>1, <1>3 DEF Accounted, AskedFor, s

LEMMA CertifyAccounted ==
    ASSUME MarkersApart, AInv, NEW o, NEW k \in Key, NEW from, IsObject(o),
           Certify(o, k, from)
    PROVE  AInv'
  <1> DEFINE vc == Insert(o, "issuer", KeyDid(k))
             h  == Circulated("vc", SignInto(vc, k), from)
  <1>1. IssueVc(o, KeyDid(k), k) = SignInto(vc, k)
    BY DEF IssueVc, MarkersApart
  <1>2. /\ held' = held \cup {h}
        /\ asked' = asked \cup {[by |-> k, said |-> Content(vc)]}
    BY <1>1 DEF Certify, Circulate
  <1>3. Accounted(SignInto(vc, k))'
    BY <1>2, InsertObject, SignedAccounted
  <1>4. h.text = SignInto(vc, k) /\ CredentialsIn(h) = <<h.text>>
    BY DEF Circulated, CredentialsIn
  <1>5. HeldAccounted(h)'
    <2> HIDE DEF h
    <2>1. LastItem(h) = 1
      BY <1>4 DEF LastItem
    <2>2. \A i \in 1 .. LastItem(h) : CredentialsIn(h)[i] = h.text
      BY <1>4, <2>1
    <2> QED
      BY <1>3, <1>4, <2>2 DEF HeldAccounted
  <1>6. \A a \in asked' : a.by \in Key
    BY <1>2 DEF AInv
  <1> QED
    BY <1>2, <1>5, <1>6, CirculateAccounted

LEMMA PresentAccounted ==
    ASSUME MarkersApart, IInv, AInv, NEW g \in held, NEW k \in Key,
           Present(g, k)
    PROVE  AInv'
  <1> DEFINE vp == Presentation(g.text, KeyDid(k), "nonce")
             from == IF g.from = "issued" THEN "issued" ELSE "edited"
             h  == Circulated("vp", SignInto(vp, k), from)
  <1>0. IsObject(g.text) /\ g.text # Invalid
    BY DEF IInv, HeldInv, MarkersApart
  <1>1. IssueVp(g.text, KeyDid(k), "nonce", k) = SignInto(vp, k)
    BY <1>0 DEF IssueVp, MarkersApart
  <1>2. /\ held' = held \cup {h}
        /\ asked' = asked \cup {[by |-> k, said |-> Content(vp)]}
    BY <1>1 DEF Present, Circulate
  <1>3. /\ IsObject(vp) /\ Has(vp, "verifiableCredential")
        /\ Get(vp, "verifiableCredential") = <<"array", <<g.text>> >>
    BY PresentationShape
  <1>4. Accounted(SignInto(vp, k))'
    BY <1>2, <1>3, SignedAccounted
  <1>5. Lookup(SignInto(vp, k), "verifiableCredential")
          = <<"array", <<g.text>> >>
    <2>1. vp # Invalid
      BY <1>3 DEF MarkersApart
    <2>2. Lookup(vp, "verifiableCredential") = <<"array", <<g.text>> >>
      BY <1>3, <2>1 DEF Lookup
    <2> QED
      BY <1>3, <2>2, LookupInserted DEF SignInto
  <1>6. /\ h.text = SignInto(vp, k) /\ h.kind = "vp"
    BY DEF Circulated
  <1>7. CredentialsIn(h) = <<g.text>>
    <2> HIDE DEF h, vp
    <2>1. CredentialMember(h) = <<"array", <<g.text>> >>
      BY <1>5, <1>6 DEF CredentialMember
    <2> QED
      BY <1>6, <2>1 DEF CredentialsIn, MarkersApart
  <1>8. HeldAccounted(h)'
    <2> HIDE DEF h
    <2>1. LastItem(h) = 1
      BY <1>7 DEF LastItem
    <2>2. \A i \in 1 .. LastItem(h) : CredentialsIn(h)[i] = g.text
      BY <1>7, <2>1
    <2>3. Accounted(g.text)'
      BY <1>2, AccountedStays DEF AInv, HeldAccounted
    <2> QED
      BY <1>4, <1>6, <2>2, <2>3 DEF HeldAccounted
  <1>9. \A a \in asked' : a.by \in Key
    BY <1>2 DEF AInv
  <1> QED
    BY <1>2, <1>8, <1>9, CirculateAccounted

(* An edit leaves the proof of the text alone, and those of the credentials *)
(* in it unless it puts others in, which have none.                         *)
LEMMA EditAccounted ==
    ASSUME MarkersApart, IInv, AInv, NEW g \in held, NEW change \in Edited,
           Edit(g, change)
    PROVE  AInv'
  <1> DEFINE text == Insert(g.text, change[1], change[2])
             h    == Circulated(g.kind, text, "edited")
  <1>0. IsObject(g.text) /\ g.kind \in {"vc", "vp"}
    BY DEF IInv, HeldInv
  <1>1. /\ held' = held \cup {h}
        /\ asked' = asked
    BY DEF Edit, Circulate
  <1>2. /\ IsObject(text)
        /\ ProofOf(text) = ProofOf(g.text)
        /\ Lookup(text, change[1]) = change[2]
        /\ "verifiableCredential" # change[1] =>
              Lookup(text, "verifiableCredential")
                = Lookup(g.text, "verifiableCredential")
    BY <1>0, InsertObject, LookupInserted, EditedAssumption DEF ProofOf
  <1> HIDE DEF text
  <1>3. Accounted(text)
    BY <1>0, <1>2 DEF AInv, HeldAccounted, Accounted, AskedFor, SignatureOf
  <1>4. h.text = text /\ h.kind = g.kind
    BY DEF Circulated
  <1> HIDE DEF h
  <1>5. HeldAccounted(h)
    <2>1. CASE g.kind = "vc"
      <3>1. CredentialsIn(h) = <<text>> /\ LastItem(h) = 1
        BY <1>4, <2>1 DEF CredentialsIn, LastItem
      <3>2. \A i \in 1 .. LastItem(h) : CredentialsIn(h)[i] = text
        BY <3>1
      <3> QED
        BY <1>3, <1>4, <3>2 DEF HeldAccounted
    <2>2. CASE g.kind = "vp" /\ change[1] # "verifiableCredential"
      <3>1. CredentialsIn(h) = CredentialsIn(g) /\ LastItem(h) = LastItem(g)
        BY <1>2, <1>4, <2>2 DEF CredentialsIn, CredentialMember, LastItem
      <3> QED
        BY <1>3, <1>4, <3>1 DEF HeldAccounted, AInv
    <2>3. CASE g.kind = "vp" /\ change[1] = "verifiableCredential"
      <3>1. CredentialMember(h) = change[2]
        BY <1>2, <1>4, <2>3 DEF CredentialMember
      <3>2. Lookup(<< change >>, "verifiableCredential") = change[2]
        <4> DEFINE o == << change >>
        <4>1. Len(o) = 1 /\ DOMAIN o = 1 .. 1 /\ o[1] = change
              /\ o = [i \in 1 .. 1 |-> o[i]]
          OBVIOUS
        <4>2. \A i \in 1 .. 1 : i = 1
          OBVIOUS
        <4>3. IsObject(o)
          <5>1. DistinctKeys(o)
            BY <4>1, <4>2 DEF DistinctKeys
          <5> QED
            BY <4>1, <5>1, ShapeIsSequence DEF IsObject
        <4>4. 1 \in 1 .. Len(o) /\ o[1][1] = "verifiableCredential"
          BY <2>3, <4>1
        <4> HIDE DEF o
        <4>5. /\ Has(o, "verifiableCredential")
              /\ Position(o, "verifiableCredential") = 1
          BY <4>3, <4>4, PositionOfMember
        <4>6. o # Invalid
          BY <4>3 DEF MarkersApart
        <4>7. Lookup(o, "verifiableCredential") = change[2]
          BY <4>1, <4>5, <4>6 DEF Lookup, Get
        <4> QED
          BY <4>7 DEF o
      <3>3. CredentialsIn(h) = Brought(change)
        <4> DEFINE d == [kind |-> "vp", text |-> << change >>]
        <4>1. d.kind = "vp" /\ d.text = << change >>
          OBVIOUS
        <4> HIDE DEF d
        <4>2. CredentialMember(d) = CredentialMember(h)
          BY <3>1, <3>2, <4>1 DEF CredentialMember
        <4>3. CredentialsIn(d) = CredentialsIn(h)
          BY <1>4, <2>3, <4>1, <4>2 DEF CredentialsIn
        <4> QED
          BY <4>3 DEF Brought, d
      <3>4. \A i \in 1 .. LastItem(h) : ProofOf(CredentialsIn(h)[i]) = Absent
        BY <3>3, EditedAssumption DEF LastItem
      <3> QED
        BY <1>3, <1>4, <3>4 DEF HeldAccounted, Accounted
    <2> QED
      BY <1>0, <2>1, <2>2, <2>3
  <1>6. HeldAccounted(h)'
    BY <1>1, <1>5, AccountedStays DEF HeldAccounted
  <1> QED
    BY <1>1, <1>6, CirculateAccounted DEF AInv

(* A graft moves a proof that is accounted for, and no credential.          *)
LEMMA GraftAccounted ==
    ASSUME MarkersApart, IInv, AInv, NEW f \in held, NEW g \in held,
           Graft(f, g)
    PROVE  AInv'
  <1> DEFINE text == Insert(f.text, "proof", ProofOf(g.text))
             h    == Circulated(f.kind, text, "edited")
  <1>0. IsObject(f.text) /\ f.kind \in {"vc", "vp"}
    BY DEF IInv, HeldInv
  <1>1. /\ held' = held \cup {h}
        /\ asked' = asked
    BY DEF Graft, Circulate
  <1>2. /\ IsObject(text)
        /\ ProofOf(text) = ProofOf(g.text)
        /\ Lookup(text, "verifiableCredential")
             = Lookup(f.text, "verifiableCredential")
    BY <1>0, InsertObject, LookupInserted DEF ProofOf
  <1> HIDE DEF text
  <1>3. Accounted(text)
    BY <1>2 DEF AInv, HeldAccounted, Accounted, AskedFor, SignatureOf
  <1>4. h.text = text /\ h.kind = f.kind
    BY DEF Circulated
  <1> HIDE DEF h
  <1>5. HeldAccounted(h)
    <2>1. CASE f.kind = "vc"
      <3>1. CredentialsIn(h) = <<text>> /\ LastItem(h) = 1
        BY <1>4, <2>1 DEF CredentialsIn, LastItem
      <3>2. \A i \in 1 .. LastItem(h) : CredentialsIn(h)[i] = text
        BY <3>1
      <3> QED
        BY <1>3, <1>4, <3>2 DEF HeldAccounted
    <2>2. CASE f.kind = "vp"
      <3>1. CredentialsIn(h) = CredentialsIn(f) /\ LastItem(h) = LastItem(f)
        BY <1>2, <1>4, <2>2 DEF CredentialsIn, CredentialMember, LastItem
      <3> QED
        BY <1>3, <1>4, <3>1 DEF HeldAccounted, AInv
    <2> QED
      BY <1>0, <2>1, <2>2
  <1>6. HeldAccounted(h)'
    BY <1>1, <1>5, AccountedStays DEF HeldAccounted
  <1> QED
    BY <1>1, <1>6, CirculateAccounted DEF AInv

LEMMA StepAInv ==
    ASSUME MarkersApart, IInv, AInv, [Next]_vars
    PROVE  AInv'
  <1>1. ASSUME NEW draft \in Draft, NEW k \in Key, Issue(draft, k)
        PROVE  AInv'
    BY <1>1, DraftAssumption, CertifyAccounted DEF Issue
  <1>2. ASSUME NEW h \in held, NEW change \in Edited, NEW k \in Key,
               Reissue(h, change, k)
        PROVE  AInv'
    <2>1. IsObject(Insert(h.text, change[1], change[2]))
      BY InsertObject DEF IInv, HeldInv
    <2> QED
      BY <1>2, <2>1, CertifyAccounted DEF Reissue
  <1>3. ASSUME NEW h \in held, NEW change \in Edited, NEW k \in Key,
               Renew(h, change, k)
        PROVE  AInv'
    <2>1. IsObject(PayloadOf(h.text))
      BY RemoveObject DEF IInv, HeldInv, PayloadOf
    <2>2. IsObject(Insert(PayloadOf(h.text), change[1], change[2]))
      BY <2>1, InsertObject
    <2> QED
      BY <1>3, <2>2, CertifyAccounted DEF Renew
  <1>4. CASE Tick
    BY <1>4, AccountedStays DEF AInv, HeldAccounted, Tick
  <1>5. CASE UNCHANGED vars
    BY <1>5, AccountedStays DEF AInv, HeldAccounted, vars
  <1> QED
    BY <1>1, <1>2, <1>3, <1>4, <1>5,
       PresentAccounted, EditAccounted, GraftAccounted DEF Next

(* An item that is vouched for has a signature somebody was asked for, and  *)
(* what was signed then is what the item says now.                          *)
LEMMA VouchedWasAsked ==
    ASSUME MarkersApart, AInv, NEW h \in held, NEW i \in Items(h),
           Accounted(ItemText(h, i)), ProofOf(ItemText(h, i)) # Absent,
           Vouched(h, i, {})
    PROVE  \E a \in asked :
              /\ SignerOf(h, i) = KeyDid(a.by)
              /\ a.said = Unsigned(ItemText(h, i))
  <1> DEFINE text == ItemText(h, i)
             sig  == SignatureOf(text)
             bare == PayloadOf(text)
  <1>1. /\ IsObject(text)
        /\ [by |-> sig.by, said |-> Content(sig.over)] \in asked
    BY DEF Accounted, AskedFor
  <1>2. PICK k \in Key : sig = Sign(k, bare) /\ SignerOf(h, i) = KeyDid(k)
    BY DEF Vouched, KeyVerifies
  <1>3. sig.by = k /\ sig.over = bare
    BY <1>2 DEF Sign
  <1>4. Content(bare) = Unsigned(text)
    BY <1>1, RemovedMembers DEF Content, Unsigned, PayloadOf
  <1> HIDE DEF text, sig, bare
  <1>5. [by |-> k, said |-> Unsigned(text)] \in asked
    BY <1>1, <1>3, <1>4
  <1> QED
    BY <1>2, <1>5 DEF text

(* A text that verifies says what the keys it names were asked to sign:     *)
(* credentials edited, presentations filled with others, proofs grafted     *)
(* from one text to another never do.                                       *)
THEOREM VerifiedSaysWhatWasAsked ==
    ASSUME MarkersApart
    PROVE  Spec => []VerifiedWasAsked
  <1>1. Init => IInv /\ AInv
    BY DEF Init, IInv, AInv
  <1>2. IInv /\ AInv /\ [Next]_vars => IInv' /\ AInv'
    BY StepIInv, StepAInv
  <1>3. IInv /\ AInv => VerifiedWasAsked
    <2> SUFFICES ASSUME IInv, AInv, NEW h \in held, Verifies(h),
                        NEW i \in Items(h)
                 PROVE  \E a \in asked :
                           /\ SignerOf(h, i) = KeyDid(a.by)
                           /\ a.said = Unsigned(ItemText(h, i))
      BY DEF VerifiedWasAsked
    <2>1. LocalError(h, i, now) = "none" /\ Vouched(h, i, {})
      BY DEF Verifies, Sound
    <2>2. ProofOf(ItemText(h, i)) # Absent
      <3>1. i = 0 => ItemText(h, i) = h.text
        BY DEF ItemText
      <3> QED
        BY <2>1, <3>1 DEF LocalError, VcError, VpError
    <2>3. Accounted(ItemText(h, i))
      <3>1. CASE i = 0
        BY <3>1 DEF AInv, HeldAccounted, ItemText
      <3>2. CASE i # 0
        <4>1. i \in 1 .. LastItem(h)
          BY <3>2 DEF Items, FirstItem
        <4> QED
          BY <3>2, <4>1 DEF AInv, HeldAccounted, ItemText
      <3> QED
        BY <3>1, <3>2
    <2> QED
      BY <2>1, <2>2, <2>3, VouchedWasAsked
  <1> QED
    BY <1>1, <1>2, <1>3, PTL DEF Spec

-----------------------------------------------------------------------------
(* Types                                                                   *)

TypeInv ==
    /\ now \in 0 .. MaxTime
    /\ \A h \in held : h.from \in {"issued", "reissued", "edited"}

(* Every text that the calls, edits and grafts put into circulation is an   *)
(* object with distinct members, whatever the drafts and the edits are.     *)
THEOREM TypeCorrect ==
    ASSUME MarkersApart
    PROVE  Spec => []TypeOK
  <1>1. Init => IInv /\ AInv /\ TypeInv
    BY MaxTimeAssumption DEF Init, IInv, AInv, TypeInv
  <1>2. IInv /\ AInv /\ TypeInv /\ [Next]_vars => IInv' /\ AInv' /\ TypeInv'
    <2> SUFFICES ASSUME IInv, AInv, TypeInv, [Next]_vars
                 PROVE  TypeInv'
      BY StepIInv, StepAInv
    <2>1. ASSUME NEW kind, NEW text,
                 NEW from \in {"issued", "reissued", "edited"},
                 Circulate(kind, text, from)
          PROVE  TypeInv'
      BY <2>1 DEF TypeInv, Circulate, Circulated
    <2>2. CASE Tick
      BY <2>2, MaxTimeAssumption DEF TypeInv, Tick
    <2>3. CASE UNCHANGED vars
      BY <2>3 DEF TypeInv, vars
    <2>4. ASSUME NEW o, NEW k, NEW from \in {"issued", "reissued"},
                 Certify(o, k, from)
          PROVE  TypeInv'
      BY <2>1, <2>4 DEF Certify
    <2>5. ASSUME NEW h \in held, NEW k \in Key, Present(h, k)
          PROVE  TypeInv'
      BY <2>1, <2>5 DEF Present
    <2>6. ASSUME NEW h \in held, NEW change \in Edited, Edit(h, change)
          PROVE  TypeInv'
      BY <2>1, <2>6 DEF Edit
    <2>7. ASSUME NEW h \in held, NEW g \in held, Graft(h, g)
          PROVE  TypeInv'
      BY <2>1, <2>7 DEF Graft
    <2> QED
      BY <2>2, <2>3, <2>4, <2>5, <2>6, <2>7 DEF Next, Issue, Reissue, Renew
  <1>3. IInv /\ AInv /\ TypeInv => TypeOK
    BY DEF IInv, HeldInv, AInv, TypeInv, TypeOK
  <1> QED
    BY <1>1, <1>2, <1>3, PTL DEF Spec

=============================================================================
