--------------------------- MODULE VerifierProofs ---------------------------
(***************************************************************************)
(* What Verifier guarantees for any number of callers, documents of any     *)
(* length, any hosts and any timeout.                                       *)
(***************************************************************************)
EXTENDS Verifier, FiniteSetTheorems, TLAPS

-----------------------------------------------------------------------------
(* Type correctness                                                        *)

Verdicts == Errors \cup {"none", "valid"}

(* Every early return is one of the errors, or none.                       *)
LEMMA LocalErrorType ==
    ASSUME NEW d, NEW i, NEW at
    PROVE  LocalError(d, i, at) \in Verdicts /\ SignatureError(i) \in Verdicts
  <1>1. VcError(ItemText(d, i), at) \in Verdicts
    BY DEF VcError, Verdicts, Errors
  <1>2. VpError(d.text) \in Verdicts
    BY DEF VpError, Verdicts, Errors
  <1> QED
    BY <1>1, <1>2 DEF LocalError, SignatureError, Verdicts, Errors

(* No early return is a favourable verdict.                                *)
LEMMA ErrorsAreNotValid ==
    ASSUME NEW d, NEW i, NEW at
    PROVE  LocalError(d, i, at) # "valid" /\ SignatureError(i) # "valid"
  <1>1. VcError(ItemText(d, i), at) # "valid"
    BY DEF VcError
  <1>2. VpError(d.text) # "valid"
    BY DEF VpError
  <1> QED
    BY <1>1, <1>2 DEF LocalError, SignatureError

(* Returning keeps the types.                                              *)
LEMMA AnswerType ==
    ASSUME TypeOK, NEW c \in Caller, NEW a \in Verdicts, Answer(c, a)
    PROVE  /\ pc' \in [Caller -> {"idle", "check", "send", "body", "done"}]
           /\ item' \in [Caller -> Nat]
           /\ since' \in [Caller -> Nat]
           /\ fetched' \in [Caller -> Publication \cup {NoDoc}]
           /\ answer' \in [Caller -> Verdicts]
           /\ answeredAt' \in [Caller -> Nat]
  BY DEF TypeOK, Answer, Verdicts

(* So does the verdict on one item, whatever keys were resolved.           *)
LEMMA ConcludeType ==
    ASSUME TypeOK, NEW c \in Caller, NEW keys, Conclude(c, keys)
    PROVE  /\ pc' \in [Caller -> {"idle", "check", "send", "body", "done"}]
           /\ item' \in [Caller -> Nat]
           /\ since' \in [Caller -> Nat]
           /\ fetched' \in [Caller -> Publication \cup {NoDoc}]
           /\ answer' \in [Caller -> Verdicts]
           /\ answeredAt' \in [Caller -> Nat]
  <1>1. CASE \E a \in Verdicts : Answer(c, a)
    BY <1>1, AnswerType
  <1>2. CASE ~ \E a \in Verdicts : Answer(c, a)
    <2>1. /\ pc' = [pc EXCEPT ![c] = "check"]
          /\ item' = [item EXCEPT ![c] = @ + 1]
          /\ since' = [since EXCEPT ![c] = 0]
          /\ fetched' = [fetched EXCEPT ![c] = NoDoc]
          /\ UNCHANGED <<answer, answeredAt>>
      BY <1>2, LocalErrorType DEF Conclude, Accept, Verdicts, Errors
    <2> QED
      BY <2>1 DEF TypeOK, Verdicts
  <1> QED
    BY <1>1, <1>2

(* A host that is being asked is one of the hosts.                         *)
LEMMA HostIsWebName ==
    ASSUME NEW c \in Caller, IsWebItem(doc[c], item[c])
    PROVE  /\ Host(c) \in WebName
           /\ SignerOf(doc[c], item[c]) = WebDid(Host(c))
  BY DEF IsWebItem, Host, WebDid

-----------------------------------------------------------------------------
(* Items and what vouches for them                                         *)

(* The items of a document are numbered from its first to its last.        *)
LEMMA ItemNumbers ==
    ASSUME NEW d \in Document
    PROVE  /\ FirstItem(d) \in Items(d)
           /\ LastItem(d) \in Nat
           /\ \A i \in Items(d) : i \in Nat /\ i <= LastItem(d)
                               /\ ~(i < FirstItem(d))
           /\ \A i \in Items(d) : i # LastItem(d) => i + 1 \in Items(d)
           /\ 0 \in Items(d) => d.kind = "vp"
  <1>1. d.kind \in {"vc", "vp"} /\ LastItem(d) \in Nat
    BY DocumentAssumption
  <1>2. d.kind = "vc" => LastItem(d) = 1
    BY DEF LastItem, CredentialsIn
  <1> QED
    BY <1>1, <1>2 DEF Items, FirstItem

(* More pairs vouch for no less.                                           *)
LEMMA VouchedMonotone ==
    ASSUME NEW d, NEW i, NEW P, NEW Q, P \subseteq Q, Vouched(d, i, P)
    PROVE  Vouched(d, i, Q)
  BY DEF Vouched

(* An item that passes its checks passed them earlier: only expiry depends  *)
(* on the time.                                                            *)
LEMMA ChecksPassedEarlier ==
    ASSUME NEW d, NEW i, NEW s \in Nat, NEW t \in Nat, s <= t,
           LocalError(d, i, t) = "none"
    PROVE  LocalError(d, i, s) = "none"
  BY DEF LocalError, VcError, Expired

(* A did:key resolves to the key it names, which is the one that vouches.  *)
LEMMA KeyDidVouches ==
    ASSUME NEW d, NEW i, NEW P, NEW k,
           SignerOf(d, i) = KeyDid(k)
    PROVE  SignedByOneOf(d, i, KeysOf(KeyResolve(k))) <=> Vouched(d, i, P)
  <1>1. KeysOf(KeyResolve(k)) = {k} \cap Key
    <2>1. CASE k \in Key
      <3>1. UsableKey([b58 |-> k, mb |-> k]) = k
        BY DEF UsableKey
      <3>2. KeyResolve(k) = { [b58 |-> k, mb |-> k] }
        BY <2>1 DEF KeyResolve
      <3> QED
        BY <2>1, <3>1, <3>2 DEF KeysOf
    <2>2. CASE k \notin Key
      BY <2>2 DEF KeysOf, KeyResolve
    <2> QED
      BY <2>1, <2>2
  <1>2. \A j : SignerOf(d, i) = KeyDid(j) => j = k
    BY DEF KeyDid
  <1>3. \A w : SignerOf(d, i) # WebDid(w)
    BY DEF KeyDid, WebDid
  <1> QED
    BY <1>1, <1>2, <1>3 DEF SignedByOneOf, Vouched

(* The keys a host offers, and no others, vouch for an item it signs.      *)
LEMMA WebDidVouches ==
    ASSUME NEW d, NEW i, NEW P, NEW w \in WebName, NEW keys \in SUBSET Key,
           SignerOf(d, i) = WebDid(w),
           \A k \in Key : <<w, k>> \in P <=> k \in keys
    PROVE  SignedByOneOf(d, i, keys) <=> Vouched(d, i, P)
  <1>1. \A v : SignerOf(d, i) = WebDid(v) => v = w
    BY DEF WebDid
  <1>2. \A k : SignerOf(d, i) # KeyDid(k)
    BY DEF KeyDid, WebDid
  <1> QED
    BY <1>1, <1>2 DEF SignedByOneOf, Vouched

(* What does not decode, or has a signer that resolves to nothing, is       *)
(* vouched for by no offers.                                               *)
LEMMA UnresolvedIsNotVouched ==
    ASSUME NEW d \in Document, NEW i \in Items(d), NEW P,
           d.text # Invalid,
           \/ SignatureOf(ItemText(d, i)) = Invalid
           \/ /\ \A k \in Key : SignerOf(d, i) # KeyDid(k)
              /\ IsWebItem(d, i) => P = {}
    PROVE  ~Vouched(d, i, P)
  <1>1. CASE SignatureOf(ItemText(d, i)) = Invalid
    BY <1>1, UndecodableAssumption DEF Vouched, KeyVerifies
  <1>2. CASE /\ \A k \in Key : SignerOf(d, i) # KeyDid(k)
             /\ IsWebItem(d, i) => P = {}
    BY <1>2 DEF Vouched, IsWebItem
  <1> QED
    BY <1>1, <1>2

(* A document offers keys and nothing else, however it is garbled.         *)
LEMMA KeysServedAreKeys ==
    ASSUME NEW p
    PROVE  KeysServed(p) \in SUBSET Key
  BY DEF KeysServed, KeysOf

(* What a host of the document serves is part of what is listed for it.    *)
LEMMA ListedForHost ==
    ASSUME HttpResolver, NEW d, NEW i \in Items(d), NEW w \in WebName,
           SignerOf(d, i) = WebDid(w), NEW pub
    PROVE  \A k \in Key : <<w, k>> \in ListedFor(d, pub)
                            <=> k \in KeysServed(pub[w])
  BY DEF ListedFor, Uses

(* A document with a did:web item has time for its fetch.                  *)
LEMMA WebItemsTakeTime ==
    ASSUME NEW d \in Document, NEW i \in Items(d), IsWebItem(d, i)
    PROVE  Deadline(d) > 0
  <1> DEFINE W == WebItemsFrom(d, 0)
  <1>1. i \in W
    BY ItemNumbers DEF WebItemsFrom
  <1>2. IsFiniteSet(W)
    <2>1. IsFiniteSet(0 .. LastItem(d))
      BY ItemNumbers, FS_Interval
    <2>2. W \subseteq 0 .. LastItem(d)
      BY ItemNumbers DEF WebItemsFrom
    <2> QED
      BY <2>1, <2>2, FS_Subset
  <1>3. Cardinality(W) \in Nat /\ Cardinality(W) # 0
    BY <1>1, <1>2, FS_CardinalityType, FS_EmptySet
  <1> HIDE DEF W
  <1>4. OpTimeout \in Nat /\ OpTimeout > 0
    BY TimeAssumption
  <1>5. 2 * OpTimeout * Cardinality(W) > 0
    BY <1>3, <1>4
  <1> QED
    BY <1>5 DEF Deadline, W

-----------------------------------------------------------------------------
(* Verdicts                                                                *)

\* What a verdict rests on, once it is given.
VerdictInv(c) ==
    pc[c] = "done" =>
        IF answer[c] = "valid"
        THEN ~failed[c] /\ Sound(doc[c], Offered(c), calledAt[c])
        ELSE IF failed[c]
        THEN Deadline(doc[c]) > 0
        ELSE \E view \in views[c] : ~Sound(doc[c], view, answeredAt[c])

CallSound(c) == CallInv(c) /\ VerdictInv(c)

(* An error is sound if the network or some view of the hosts accounts for  *)
(* it.                                                                     *)
LEMMA ErrorSound ==
    ASSUME TypeOK, NEW c \in Caller, NEW a, a # "valid",
           CallSound(c), pc[c] # "idle", Answer(c, a),
           UNCHANGED <<doc, views>>,
           IF failed'[c] THEN Deadline(doc[c]) > 0
           ELSE \E view \in views[c] : ~Sound(doc[c], view, now)
    PROVE  CallSound(c)'
  <1>1. /\ pc'[c] = "done" /\ answer'[c] = a /\ answeredAt'[c] = now
        /\ doc'[c] = doc[c] /\ views'[c] = views[c] /\ doc[c] \in Document
    BY DEF TypeOK, Answer, CallSound, CallInv
  <1>2. CallInv(c)'
    BY <1>1 DEF CallInv, Active
  <1>3. VerdictInv(c)'
    BY <1>1 DEF VerdictInv
  <1> QED
    BY <1>2, <1>3 DEF CallSound

(* Every item counts: one that is not vouched for, or fails its checks,     *)
(* makes the document unsound.                                             *)
LEMMA OneItemIsEnough ==
    ASSUME NEW d, NEW i \in Items(d), NEW P, NEW t,
           LocalError(d, i, t) # "none" \/ ~Vouched(d, i, P)
    PROVE  ~Sound(d, P, t)
  BY DEF Sound

(* Concluding an item whose checks are passed, with the keys that vouch for *)
(* it: on to the next one, to "valid" behind the last, or to an error that  *)
(* some view of the hosts accounts for.                                    *)
LEMMA ConcludeSound ==
    ASSUME TypeOK, NEW c \in Caller, NEW keys, CallSound(c), Active(c),
           LocalError(doc[c], item[c], calledAt[c]) = "none",
           NEW view \in views[c],
           SignedByOneOf(doc[c], item[c], keys)
               <=> Vouched(doc[c], item[c], view),
           Conclude(c, keys),
           UNCHANGED <<doc, views, published, failed, calledAt, now>>
    PROVE  CallSound(c)'
  <1> DEFINE d == doc[c]
             i == item[c]
  <1>1. /\ d \in Document /\ i \in Items(d) /\ pc[c] # "idle"
        /\ calledAt[c] <= now /\ ~failed[c]
        /\ ListedFor(d, published) \in views[c]
        /\ \A j \in Items(d) : j < i =>
              /\ LocalError(d, j, calledAt[c]) = "none"
              /\ Vouched(d, j, Offered(c))
    BY DEF CallSound, CallInv, Active, Passed
  <1>2. ~failed'[c] /\ Offered(c)' = Offered(c) /\ calledAt'[c] = calledAt[c]
    BY <1>1 DEF Offered
  <1>3. CASE ~SignedByOneOf(d, i, keys)
    <2>1. ~Sound(d, view, now)
      BY <1>1, <1>3, OneItemIsEnough
    <2>2. Answer(c, SignatureError(i)) /\ SignatureError(i) # "valid"
      BY <1>3, ErrorsAreNotValid DEF Conclude
    <2> QED
      BY <1>1, <1>2, <2>1, <2>2, ErrorSound
  <1>4. CASE SignedByOneOf(d, i, keys) /\ i = 0 /\ CredentialMember(d) = Absent
    <2>1. d.kind = "vp"
      BY <1>1, <1>4, ItemNumbers
    <2>2. ~Sound(d, view, now)
      BY <1>4, <2>1 DEF Sound
    <2>3. Answer(c, "VP is missing verifiableCredential")
      BY <1>4 DEF Conclude, Accept
    <2> QED
      BY <1>1, <1>2, <2>2, <2>3, ErrorSound
  <1>5. CASE /\ SignedByOneOf(d, i, keys)
             /\ ~(i = 0 /\ CredentialMember(d) = Absent)
    <2>1. Vouched(d, i, Offered(c))
      BY <1>5, VouchedMonotone DEF Offered
    <2>2. \A j \in Items(d) : j \in Nat /\ j <= LastItem(d)
      BY <1>1, ItemNumbers
    <2>3. \A j \in Items(d) : j <= i =>
             /\ LocalError(d, j, calledAt[c]) = "none"
             /\ Vouched(d, j, Offered(c))
      BY <1>1, <2>1, <2>2
    <2>4. CASE i = LastItem(d)
      <3>1. d.kind = "vp" => CredentialMember(d) # Absent
        BY <1>5, <2>4 DEF LastItem, CredentialsIn
      <3>2. d.text # Invalid
        BY DEF LocalError
      <3>3. Sound(d, Offered(c), calledAt[c])
        BY <2>2, <2>3, <2>4, <3>1, <3>2 DEF Sound
      <3>4. Answer(c, "valid")
        BY <1>5, <2>4 DEF Conclude, Accept
      <3>5. pc'[c] = "done" /\ answer'[c] = "valid" /\ doc'[c] = d
        BY <3>4 DEF TypeOK, Answer
      <3>6. CallInv(c)'
        BY <1>1, <3>5 DEF CallInv, Active
      <3>7. VerdictInv(c)'
        BY <1>2, <3>3, <3>5 DEF VerdictInv
      <3> QED
        BY <3>6, <3>7 DEF CallSound
    <2>5. CASE i # LastItem(d)
      <3>1. pc' = [pc EXCEPT ![c] = "check"] /\ item' = [item EXCEPT ![c] = @ + 1]
        BY <1>5, <2>5 DEF Conclude, Accept
      <3>2. /\ pc'[c] = "check" /\ item'[c] = i + 1
            /\ doc'[c] = d /\ views'[c] = views[c]
        BY <3>1 DEF TypeOK
      <3>3. i + 1 \in Items(d)
        BY <1>1, <2>5, ItemNumbers
      <3>4. \A j \in Items(d) : j < i + 1 =>
               /\ LocalError(d, j, calledAt[c]) = "none"
               /\ Vouched(d, j, Offered(c))
        BY <1>1, <2>2, <2>3
      <3>5. CallInv(c)'
        BY <1>1, <1>2, <3>2, <3>3, <3>4
        DEF CallInv, Active, Passed
      <3>6. VerdictInv(c)'
        BY <3>2 DEF VerdictInv
      <3> QED
        BY <3>5, <3>6 DEF CallSound
    <2> QED
      BY <2>4, <2>5
  <1> QED
    BY <1>3, <1>4, <1>5

(* The step of another call leaves a call sound.                           *)
LEMMA OthersSound ==
    ASSUME TypeOK, NEW c \in Caller, CallSound(c),
           pc'[c] = pc[c], doc'[c] = doc[c], item'[c] = item[c],
           fetched'[c] = fetched[c], answer'[c] = answer[c],
           views'[c] = views[c], failed'[c] = failed[c],
           calledAt'[c] = calledAt[c], answeredAt'[c] = answeredAt[c],
           published' = published, now' \in Nat, now <= now'
    PROVE  CallSound(c)'
  <1>1. CallInv(c)'
    <2>1. calledAt[c] \in Nat /\ now \in Nat
      BY DEF TypeOK
    <2>2. calledAt[c] <= now => calledAt[c] <= now'
      BY <2>1
    <2> QED
      BY <2>2 DEF CallSound, CallInv, Active, Host, Passed, Offered
  <1>2. VerdictInv(c)'
    BY DEF CallSound, VerdictInv, Offered
  <1> QED
    BY <1>1, <1>2 DEF CallSound

CallOf(c) ==
    \/ \E d \in Document : Call(c, d)
    \/ LocalStep(c)
    \/ NetworkStep(c)

(* Every step of a call is local to it.                                    *)
LEMMA CallIsLocal ==
    ASSUME TypeOK, NEW c \in Caller, NEW e \in Caller, e # c, CallOf(c)
    PROVE  /\ pc'[e] = pc[e] /\ doc'[e] = doc[e] /\ item'[e] = item[e]
           /\ fetched'[e] = fetched[e] /\ answer'[e] = answer[e]
           /\ views'[e] = views[e] /\ failed'[e] = failed[e]
           /\ calledAt'[e] = calledAt[e] /\ answeredAt'[e] = answeredAt[e]
           /\ since'[e] = since[e]
           /\ published' = published /\ now' = now
  <1> DEFINE Same == /\ pc'[e] = pc[e] /\ item'[e] = item[e]
                     /\ fetched'[e] = fetched[e] /\ answer'[e] = answer[e]
                     /\ answeredAt'[e] = answeredAt[e] /\ since'[e] = since[e]
  <1>1. ASSUME NEW a, Answer(c, a)
        PROVE  Same
    BY <1>1 DEF TypeOK, Answer
  <1>2. ASSUME NEW keys, Conclude(c, keys)
        PROVE  Same
    <2> DEFINE GoesOn ==
            /\ pc' = [pc EXCEPT ![c] = "check"]
            /\ item' = [item EXCEPT ![c] = @ + 1]
            /\ since' = [since EXCEPT ![c] = 0]
            /\ fetched' = [fetched EXCEPT ![c] = NoDoc]
            /\ answer' = answer /\ answeredAt' = answeredAt
    <2>1. (\E a : Answer(c, a)) \/ GoesOn
      BY <1>2 DEF Conclude, Accept
    <2>2. CASE GoesOn
      BY <2>2 DEF TypeOK
    <2> QED
      BY <1>1, <2>1, <2>2
  <1> HIDE DEF Same
  <1>3. CASE \E d \in Document : Call(c, d)
    BY <1>3 DEF TypeOK, Call
  <1>4. CASE LocalStep(c)
    <2>1. Checking(c)
      BY <1>4 DEF LocalStep, CheckRejects, CheckUndecodable, ResolveKeyDid,
                  ResolveUnsupported, ResolveWebDid, Resolvable
    <2>2. UNCHANGED <<doc, views, failed, calledAt, published, now>>
      BY <2>1 DEF Checking
    <2>3. Same
      BY <1>1, <1>2, <1>4
      DEF Same, TypeOK, LocalStep, CheckRejects, CheckUndecodable,
          ResolveKeyDid, ResolveUnsupported, ResolveWebDid
    <2> QED
      BY <2>2, <2>3 DEF Same
  <1>5. CASE NetworkStep(c)
    <2>1. \E at : Fetching(c, at)
      BY <1>5 DEF NetworkStep, SendAnswered, SendRefused, BodyRead,
                  FetchBreaks, FetchTimesOut
    <2>2. UNCHANGED <<doc, views, calledAt, published, now>>
      BY <2>1 DEF Fetching
    <2>3. failed'[e] = failed[e]
      BY <1>5 DEF TypeOK, NetworkStep, SendAnswered, SendRefused, BodyRead,
                  FetchBreaks, FetchTimesOut
    <2>4. Same
      BY <1>1, <1>2, <1>5
      DEF Same, TypeOK, NetworkStep, SendAnswered, SendRefused, BodyRead,
          FetchBreaks, FetchTimesOut
    <2> QED
      BY <2>2, <2>3, <2>4 DEF Same
  <1> QED
    BY <1>3, <1>4, <1>5 DEF CallOf

(* What a call knows while it checks or fetches an item.                   *)
LEMMA ActiveFacts ==
    ASSUME TypeOK, NEW c \in Caller, CallSound(c), Active(c)
    PROVE  /\ doc[c] \in Document /\ item[c] \in Items(doc[c])
           /\ pc[c] # "idle"
           /\ calledAt[c] \in Nat /\ now \in Nat /\ calledAt[c] <= now
           /\ ~failed[c]
           /\ ListedFor(doc[c], published) \in views[c]
  BY DEF TypeOK, CallSound, CallInv, Active

(* The early returns and the resolution of an item.                        *)
LEMMA LocalStepSound ==
    ASSUME TypeOK, NEW c \in Caller, CallSound(c), LocalStep(c)
    PROVE  CallSound(c)'
  <1> DEFINE d == doc[c]
             i == item[c]
             v == ListedFor(d, published)
  <1>1. /\ pc[c] = "check" /\ Active(c)
        /\ UNCHANGED <<doc, published, now, calledAt, views, failed>>
    BY DEF LocalStep, CheckRejects, CheckUndecodable, ResolveKeyDid,
           ResolveUnsupported, ResolveWebDid, Resolvable, Checking, Active
  <1>2. /\ d \in Document /\ i \in Items(d) /\ pc[c] # "idle"
        /\ ~failed'[c] /\ v \in views[c]
    BY <1>1, ActiveFacts
  <1>3. PassesChecks(c) => /\ LocalError(d, i, calledAt[c]) = "none"
                           /\ d.text # Invalid
    <2>1. LocalError(d, i, now) = "none" => d.text # Invalid
      BY DEF LocalError
    <2> QED
      BY <1>1, <2>1, ActiveFacts, ChecksPassedEarlier DEF PassesChecks
  <1>4. CASE CheckRejects(c)
    <2>1. ~Sound(d, v, now)
      BY <1>2, <1>4, OneItemIsEnough DEF CheckRejects
    <2> QED
      BY <1>1, <1>2, <1>4, <2>1, ErrorSound, ErrorsAreNotValid DEF CheckRejects
  <1>5. CASE CheckUndecodable(c)
    <2>1. ~Sound(d, v, now)
      BY <1>2, <1>3, <1>5, UnresolvedIsNotVouched, OneItemIsEnough
      DEF CheckUndecodable
    <2> QED
      BY <1>1, <1>2, <1>5, <2>1, ErrorSound, ErrorsAreNotValid
      DEF CheckUndecodable
  <1>6. CASE ResolveKeyDid(c)
    <2>1. PICK k \in Key \cup {Invalid} :
             SignerOf(d, i) = KeyDid(k) /\ Conclude(c, KeysOf(KeyResolve(k)))
      BY <1>6 DEF ResolveKeyDid
    <2>2. SignedByOneOf(d, i, KeysOf(KeyResolve(k))) <=> Vouched(d, i, v)
      BY <2>1, KeyDidVouches
    <2> QED
      BY <1>1, <1>2, <1>3, <1>6, <2>1, <2>2, ConcludeSound
      DEF ResolveKeyDid, Resolvable
  <1>7. CASE ResolveUnsupported(c)
    <2>1. IsWebItem(d, i) => v = {}
      BY <1>7 DEF ResolveUnsupported, ListedFor
    <2>2. ~Sound(d, v, now)
      BY <1>2, <1>3, <1>7, <2>1, UnresolvedIsNotVouched, OneItemIsEnough
      DEF ResolveUnsupported, Resolvable
    <2> QED
      BY <1>1, <1>2, <1>7, <2>2, ErrorSound, ErrorsAreNotValid
      DEF ResolveUnsupported
  <1>8. CASE ResolveWebDid(c)
    <2>1. /\ pc'[c] = "send" /\ doc'[c] = d /\ item'[c] = i
          /\ views'[c] = views[c] /\ calledAt'[c] = calledAt[c]
          /\ HttpResolver /\ IsWebItem(d, i) /\ PassesChecks(c)
      BY <1>1, <1>8 DEF TypeOK, ResolveWebDid, Resolvable
    <2>2. LocalError(d, i, calledAt[c]) = "none"
      BY <1>3, <2>1
    <2>3. CallInv(c)'
      BY <1>1, <1>2, <2>1, <2>2
      DEF CallSound, CallInv, Active, Passed, Offered
    <2>4. VerdictInv(c)'
      BY <2>1 DEF VerdictInv
    <2> QED
      BY <2>3, <2>4 DEF CallSound
  <1> QED
    BY <1>4, <1>5, <1>6, <1>7, <1>8 DEF LocalStep

(* The fetch of a host's document.                                         *)
LEMMA NetworkStepSound ==
    ASSUME TypeOK, NEW c \in Caller, CallSound(c), NetworkStep(c)
    PROVE  CallSound(c)'
  <1> DEFINE d == doc[c]
             i == item[c]
             v == ListedFor(d, published)
  <1>1. /\ pc[c] \in {"send", "body"} /\ Active(c)
        /\ UNCHANGED <<doc, published, now, calledAt, views>>
    BY DEF NetworkStep, SendAnswered, SendRefused, BodyRead, FetchBreaks,
           FetchTimesOut, Fetching, Active
  <1>2. /\ d \in Document /\ i \in Items(d) /\ pc[c] # "idle"
        /\ ~failed[c] /\ v \in views[c]
    BY <1>1, ActiveFacts
  <1>3. /\ HttpResolver /\ IsWebItem(d, i)
        /\ LocalError(d, i, calledAt[c]) = "none"
    BY <1>1, <1>2 DEF CallSound, CallInv, Passed
  <1>4. Host(c) \in WebName /\ SignerOf(d, i) = WebDid(Host(c))
    BY <1>3, HostIsWebName
  <1>5. \A k \in Key : <<Host(c), k>> \in v
                        <=> k \in KeysServed(published[Host(c)])
    BY <1>2, <1>3, <1>4, ListedForHost
  <1>6. CASE SendAnswered(c)
    <2>1. /\ pc'[c] = "body" /\ doc'[c] = d /\ item'[c] = i
          /\ views'[c] = views[c] /\ calledAt'[c] = calledAt[c]
          /\ fetched'[c] = published[Host(c)] /\ failed'[c] = failed[c]
      BY <1>1, <1>6 DEF TypeOK, SendAnswered
    <2>2. Host(c)' = Host(c)
      BY <2>1 DEF Host
    <2>3. CallInv(c)'
      BY <1>1, <1>2, <1>3, <1>5, <2>1, <2>2
      DEF CallSound, CallInv, Active, Passed, Offered
    <2>4. VerdictInv(c)'
      BY <2>1 DEF VerdictInv
    <2> QED
      BY <2>3, <2>4 DEF CallSound
  <1>7. CASE SendRefused(c)
    <2>1. KeysServed(published[Host(c)]) = {}
      BY <1>7 DEF SendRefused, KeysServed
    <2>2. ~SignedByOneOf(d, i, {})
      BY DEF SignedByOneOf
    <2>3. ~Vouched(d, i, v)
      BY <1>4, <1>5, <2>1, <2>2, WebDidVouches
    <2>4. ~Sound(d, v, now) /\ ~failed'[c]
      BY <1>2, <1>7, <2>3, OneItemIsEnough DEF SendRefused
    <2> QED
      BY <1>1, <1>2, <1>7, <2>4, ErrorSound, ErrorsAreNotValid DEF SendRefused
  <1>8. CASE BodyRead(c)
    <2>1. pc[c] = "body" /\ Conclude(c, KeysServed(fetched[c]))
          /\ failed' = failed
      BY <1>8 DEF BodyRead, Fetching
    <2>2. PICK view \in views[c] :
             \A k \in Key : <<Host(c), k>> \in view
                             <=> k \in KeysServed(fetched[c])
      BY <2>1 DEF CallSound, CallInv
    <2>3. SignedByOneOf(d, i, KeysServed(fetched[c])) <=> Vouched(d, i, view)
      BY <1>4, <2>2, KeysServedAreKeys, WebDidVouches
    <2> QED
      BY <1>1, <1>3, <2>1, <2>3, ConcludeSound
  <1>9. CASE FetchBreaks(c) \/ FetchTimesOut(c)
    <2>1. failed'[c] /\ Answer(c, SignatureError(i))
      BY <1>9 DEF TypeOK, FetchBreaks, FetchTimesOut
    <2>2. Deadline(d) > 0
      BY <1>2, <1>3, WebItemsTakeTime
    <2> QED
      BY <1>1, <1>2, <2>1, <2>2, ErrorSound, ErrorsAreNotValid
  <1> QED
    BY <1>6, <1>7, <1>8, <1>9 DEF NetworkStep

(* The inductive step of the caller that moves.                            *)
LEMMA CallStep ==
    ASSUME TypeOK, NEW c \in Caller, CallSound(c), CallOf(c)
    PROVE  CallSound(c)'
  <1>1. ASSUME NEW d \in Document, Call(c, d)
        PROVE  CallSound(c)'
    <2>1. /\ pc'[c] = "check" /\ doc'[c] = d /\ item'[c] = FirstItem(d)
          /\ views'[c] = {ListedFor(d, published)} /\ published' = published
          /\ calledAt'[c] = now /\ now' = now /\ ~failed'[c]
      BY <1>1 DEF TypeOK, Call
    <2>2. now \in Nat /\ now <= now
      BY DEF TypeOK
    <2>3. CallInv(c)'
      BY <2>1, <2>2, ItemNumbers DEF CallInv, Active, Passed
    <2>4. VerdictInv(c)'
      BY <2>1 DEF VerdictInv
    <2> QED
      BY <2>3, <2>4 DEF CallSound
  <1> QED
    BY <1>1, LocalStepSound, NetworkStepSound DEF CallOf

(* What a host publishes during a call only adds to what it lived through. *)
LEMMA PublishSound ==
    ASSUME TypeOK, NEW c \in Caller, CallSound(c),
           NEW w \in WebName, NEW p \in Publication, Publish(w, p)
    PROVE  CallSound(c)'
  <1>1. UNCHANGED <<pc, doc, item, fetched, answer, calledAt, answeredAt,
                    failed, now>>
    BY DEF Publish, callVars
  <1>2. /\ views[c] \subseteq views'[c]
        /\ Active(c) => ListedFor(doc[c], published') \in views'[c]
        /\ ~Active(c) => views'[c] = views[c]
    BY DEF Publish, TypeOK
  <1>3. \A i : Vouched(doc[c], i, Offered(c)) =>
               Vouched(doc[c], i, Offered(c)')
    BY <1>1, <1>2, VouchedMonotone DEF Offered
  <1>4. CallInv(c)'
    BY <1>1, <1>2, <1>3
    DEF CallSound, CallInv, Active, Host, Passed
  <1>5. VerdictInv(c)'
    BY <1>1, <1>2 DEF CallSound, VerdictInv, Active, Offered
  <1> QED
    BY <1>4, <1>5 DEF CallSound

(* The types are kept by every step of a sound state: that a call asks a   *)
(* host and nothing else is part of what makes it well typed.               *)
LEMMA TypeStep ==
    ASSUME TypeOK, \A c \in Caller : CallSound(c), [Next]_vars
    PROVE  TypeOK'
  <1>1. ASSUME NEW c \in Caller, NEW d \in Document, Call(c, d)
        PROVE  TypeOK'
    <2>1. {ListedFor(d, published)} \in SUBSET SUBSET (WebName \X Key)
      BY DEF ListedFor
    <2>2. views' \in [Caller -> SUBSET SUBSET (WebName \X Key)]
      BY <1>1, <2>1 DEF TypeOK, Call
    <2> QED
      BY <1>1, <2>2 DEF TypeOK, Call, FirstItem
  <1>2. ASSUME NEW c \in Caller, CheckRejects(c)
        PROVE  TypeOK'
    BY <1>2, AnswerType, LocalErrorType
    DEF TypeOK, Verdicts, CheckRejects, Checking
  <1>3. ASSUME NEW c \in Caller, CheckUndecodable(c)
        PROVE  TypeOK'
    BY <1>3, AnswerType, LocalErrorType
    DEF TypeOK, Verdicts, CheckUndecodable, Checking
  <1>4. ASSUME NEW c \in Caller, ResolveKeyDid(c)
        PROVE  TypeOK'
    BY <1>4, ConcludeType
    DEF TypeOK, Verdicts, ResolveKeyDid, Resolvable, Checking
  <1>5. ASSUME NEW c \in Caller, ResolveUnsupported(c)
        PROVE  TypeOK'
    BY <1>5, AnswerType, LocalErrorType
    DEF TypeOK, Verdicts, ResolveUnsupported, Resolvable, Checking
  <1>6. ASSUME NEW c \in Caller, ResolveWebDid(c)
        PROVE  TypeOK'
    BY <1>6 DEF TypeOK, ResolveWebDid, Resolvable, Checking
  <1>7. ASSUME NEW c \in Caller, SendAnswered(c)
        PROVE  TypeOK'
    <2>1. Host(c) \in WebName
      BY <1>7, HostIsWebName DEF SendAnswered, Fetching, CallSound, CallInv
    <2>2. published[Host(c)] \in Publication
      BY <2>1 DEF TypeOK
    <2> QED
      BY <1>7, <2>2 DEF TypeOK, SendAnswered, Fetching
  <1>8. ASSUME NEW c \in Caller, SendRefused(c)
        PROVE  TypeOK'
    BY <1>8, AnswerType, LocalErrorType
    DEF TypeOK, Verdicts, SendRefused, Fetching
  <1>9. ASSUME NEW c \in Caller, BodyRead(c)
        PROVE  TypeOK'
    BY <1>9, ConcludeType DEF TypeOK, Verdicts, BodyRead, Fetching
  <1>10. ASSUME NEW c \in Caller, FetchBreaks(c)
         PROVE  TypeOK'
    BY <1>10, AnswerType, LocalErrorType
    DEF TypeOK, Verdicts, FetchBreaks, Fetching
  <1>11. ASSUME NEW c \in Caller, FetchTimesOut(c)
         PROVE  TypeOK'
    BY <1>11, AnswerType, LocalErrorType
    DEF TypeOK, Verdicts, FetchTimesOut, Fetching
  <1>12. ASSUME NEW w \in WebName, NEW p \in Publication, Publish(w, p)
         PROVE  TypeOK'
    <2>1. \A e \in Caller :
             ListedFor(doc[e], published') \in SUBSET (WebName \X Key)
      BY DEF ListedFor
    <2>3. views' = [e \in Caller |->
                       IF Active(e)
                       THEN views[e] \cup {ListedFor(doc[e], published')}
                       ELSE views[e]]
      BY <1>12 DEF Publish
    <2>4. \A e \in Caller : views[e] \in SUBSET SUBSET (WebName \X Key)
      BY DEF TypeOK
    <2>5. views' \in [Caller -> SUBSET SUBSET (WebName \X Key)]
      BY <2>1, <2>3, <2>4
    <2> QED
      BY <1>12, <2>5 DEF TypeOK, Publish, callVars
  <1>13. CASE Tick
    BY <1>13 DEF TypeOK, Tick, callVars, historyVars
  <1>14. CASE UNCHANGED vars
    BY <1>14 DEF TypeOK, vars, callVars, historyVars
  <1> QED
    BY <1>1, <1>2, <1>3, <1>4, <1>5, <1>6, <1>7, <1>8, <1>9, <1>10, <1>11,
       <1>12, <1>13, <1>14 DEF Next, LocalStep, NetworkStep

-----------------------------------------------------------------------------
IInv ==
    /\ TypeOK
    /\ \A c \in Caller : CallSound(c)

(* Before any call there is nothing to vouch for.                          *)
LEMMA InitIInv == Init => IInv
  <1> SUFFICES ASSUME Init
               PROVE  IInv
    OBVIOUS
  <1>1. TypeOK
    BY TimeAssumption DEF Init, TypeOK
  <1>2. \A c \in Caller : CallSound(c)
    BY DEF Init, CallSound, CallInv, VerdictInv, Active
  <1> QED
    BY <1>1, <1>2 DEF IInv

(* Every step of a call, of a host and of the clock keeps the invariant.   *)
LEMMA StepIInv == IInv /\ [Next]_vars => IInv'
  <1> SUFFICES ASSUME TypeOK, \A c \in Caller : CallSound(c), [Next]_vars
               PROVE  IInv'
    BY DEF IInv
  <1>1. TypeOK'
    BY TypeStep
  <1>2. now \in Nat /\ now' \in Nat
    BY <1>1 DEF TypeOK
  <1>3. ASSUME NEW e \in Caller
        PROVE  CallSound(e)'
    <2>1. ASSUME NEW c \in Caller, CallOf(c)
          PROVE  CallSound(e)'
      <3>1. CASE e = c
        BY <2>1, <3>1, CallStep
      <3>2. CASE e # c
        BY <1>2, <2>1, <3>2, CallIsLocal, OthersSound
      <3> QED
        BY <3>1, <3>2
    <2>2. ASSUME NEW w \in WebName, NEW p \in Publication, Publish(w, p)
          PROVE  CallSound(e)'
      BY <2>2, PublishSound
    <2>3. CASE Tick
      <3>1. now <= now'
        BY <1>2, <2>3 DEF Tick
      <3>2. UNCHANGED <<callVars, published, historyVars>>
        BY <2>3 DEF Tick
      <3> QED
        BY <1>2, <3>1, <3>2, OthersSound DEF callVars, historyVars
    <2>4. CASE UNCHANGED vars
      BY <1>2, <2>4, OthersSound DEF vars, callVars, historyVars
    <2> QED
      BY <2>1, <2>2, <2>3, <2>4 DEF Next, CallOf
  <1> QED
    BY <1>1, <1>3 DEF IInv

(* Every variable keeps a value of the program's types.                    *)
THEOREM TypeCorrect == Spec => []TypeOK
  <1>1. IInv => TypeOK
    BY DEF IInv
  <1> QED
    BY <1>1, InitIInv, StepIInv, PTL DEF Spec

(* At every step of a call the items it has passed are in order and vouched *)
(* for, a fetch asks a did:web host, and a body being read is what that     *)
(* host offered at some instant of the call.                               *)
THEOREM PrefixSoundness == Spec => []VouchedSoFar
  <1>1. IInv => VouchedSoFar
    BY DEF IInv, CallSound, VouchedSoFar
  <1> QED
    BY <1>1, InitIInv, StepIInv, PTL DEF Spec

(* verify_vc and verify_vp answer "valid" only for documents that were in    *)
(* order when the call began and whose every item was signed by a key its   *)
(* signer's DID offered during the call.                                   *)
THEOREM Soundness == Spec => []ValidMeansSound
  <1>1. IInv => ValidMeansSound
    BY DEF IInv, CallSound, VerdictInv, ValidMeansSound, Accepted
  <1> QED
    BY <1>1, InitIInv, StepIInv, PTL DEF Spec

(* An error that is not the network's has a cause: at some instant of the   *)
(* call the document did not deserve better.                               *)
THEOREM Completeness == Spec => []RejectionHasCause
  <1>1. IInv => RejectionHasCause
    BY DEF IInv, CallSound, VerdictInv, RejectionHasCause
  <1> QED
    BY <1>1, InitIInv, StepIInv, PTL DEF Spec

=============================================================================
