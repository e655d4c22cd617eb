----------------------- MODULE VerifierPromiseProofs ------------------------
(***************************************************************************)
(* How long a verification may take, how stale its verdict may be, and that  *)
(* Verifier implements VerifierSpec, for any callers, hosts and timeout.     *)
(***************************************************************************)
EXTENDS VerifierProofs

-----------------------------------------------------------------------------
(* Counting did:web items                                                  *)

WebItemsBetween(d, j, i) ==
    { k \in Items(d) : j <= k /\ k < i /\ IsWebItem(d, k) }

\* The time for the did:web items from j on, and for those of them before i.
Window(d, j)     == 2 * OpTimeout * Cardinality(WebItemsFrom(d, j))
Between(d, j, i) == 2 * OpTimeout * Cardinality(WebItemsBetween(d, j, i))

(* More items take more time, by two timeouts at least.                    *)
LEMMA TimeoutsAddUp ==
    ASSUME NEW a \in Nat, NEW b \in Nat
    PROVE  /\ 2 * OpTimeout * a \in Nat
           /\ a <= b => 2 * OpTimeout * a <= 2 * OpTimeout * b
           /\ a + 1 <= b => 2 * OpTimeout * a + 2 * OpTimeout <= 2 * OpTimeout * b
  <1>1. OpTimeout \in Nat
    BY TimeAssumption
  <1>2. ASSUME NEW n \in Nat
        PROVE  2 * OpTimeout * n \in Nat
    BY <1>1
  <1>3. CASE a <= b
    <2>1. b - a \in Nat
      BY <1>3
    <2>2. 2 * OpTimeout * b = 2 * OpTimeout * a + 2 * OpTimeout * (b - a)
      BY <1>1
    <2>3. 2 * OpTimeout * (b - a) \in Nat
      BY <1>2, <2>1
    <2>4. a + 1 <= b => 2 * OpTimeout * (b - a) >= 2 * OpTimeout
      <3>1. a + 1 <= b =>
              2 * OpTimeout * (b - a) = 2 * OpTimeout + 2 * OpTimeout * (b - a - 1)
        BY <1>1
      <3>2. a + 1 <= b => b - a - 1 \in Nat
        BY <1>3
      <3>3. a + 1 <= b => 2 * OpTimeout * (b - a - 1) \in Nat
        BY <1>2, <3>2
      <3> QED
        BY <1>1, <2>3, <3>1, <3>3
    <2> QED
      BY <1>1, <1>2, <2>2, <2>3, <2>4
  <1> QED
    BY <1>2, <1>3

(* Any part of the did:web items of a document can be counted.             *)
LEMMA WebItemsCount ==
    ASSUME NEW d \in Document, NEW S, NEW T, S \subseteq T, T \subseteq Items(d)
    PROVE  /\ IsFiniteSet(S) /\ IsFiniteSet(T)
           /\ Cardinality(S) \in Nat /\ Cardinality(T) \in Nat
           /\ Cardinality(S) <= Cardinality(T)
  <1>1. IsFiniteSet(0 .. LastItem(d))
    BY ItemNumbers, FS_Interval
  <1>2. T \subseteq 0 .. LastItem(d)
    BY ItemNumbers
  <1>3. IsFiniteSet(T)
    BY <1>1, <1>2, FS_Subset
  <1> QED
    BY <1>3, FS_Subset, FS_CardinalityType

(* The time up to an item, up to the next one, and for all of them.        *)
LEMMA BetweenGrows ==
    ASSUME NEW d \in Document, NEW i \in Items(d), NEW j \in Nat
    PROVE  /\ Between(d, j, i) \in Nat /\ Between(d, j, i + 1) \in Nat
           /\ Window(d, j) \in Nat
           /\ Between(d, j, i) <= Between(d, j, i + 1)
           /\ Between(d, j, i + 1) <= Window(d, j)
           /\ IsWebItem(d, i) /\ j <= i =>
                 Between(d, j, i) + 2 * OpTimeout <= Between(d, j, i + 1)
  <1> DEFINE A == WebItemsBetween(d, j, i)
             B == WebItemsBetween(d, j, i + 1)
             W == WebItemsFrom(d, j)
  <1>1. i \in Nat /\ \A k \in Items(d) : k \in Nat
    BY ItemNumbers
  <1>2. A \subseteq B /\ B \subseteq W /\ W \subseteq Items(d)
    <2>1. \A k \in Items(d) : /\ k < i => k < i + 1
                              /\ j <= k => k >= j
      BY <1>1
    <2> QED
      BY <2>1 DEF WebItemsBetween, WebItemsFrom
  <1>3. /\ Cardinality(A) \in Nat /\ Cardinality(B) \in Nat
        /\ Cardinality(W) \in Nat
        /\ Cardinality(A) <= Cardinality(B) /\ Cardinality(B) <= Cardinality(W)
    BY <1>2, WebItemsCount
  <1>4. IsWebItem(d, i) /\ j <= i => Cardinality(A) + 1 <= Cardinality(B)
    <2>1. IsWebItem(d, i) /\ j <= i => A \cup {i} \subseteq B
      BY <1>1, <1>2 DEF WebItemsBetween
    <2>2. i \notin A
      BY <1>1 DEF WebItemsBetween
    <2>3. IsFiniteSet(A) /\ B \subseteq Items(d)
      BY <1>2, WebItemsCount
    <2>4. Cardinality(A \cup {i}) = Cardinality(A) + 1
      BY <2>2, <2>3, FS_AddElement
    <2> HIDE DEF A, B
    <2> QED
      BY <2>1, <2>3, <2>4, WebItemsCount
  <1> HIDE DEF A, B, W
  <1>5. /\ 2 * OpTimeout * Cardinality(A) \in Nat
        /\ 2 * OpTimeout * Cardinality(B) \in Nat
        /\ 2 * OpTimeout * Cardinality(W) \in Nat
        /\ 2 * OpTimeout * Cardinality(A) <= 2 * OpTimeout * Cardinality(B)
        /\ 2 * OpTimeout * Cardinality(B) <= 2 * OpTimeout * Cardinality(W)
    BY <1>3, TimeoutsAddUp
  <1>6. IsWebItem(d, i) /\ j <= i =>
           2 * OpTimeout * Cardinality(A) + 2 * OpTimeout
              <= 2 * OpTimeout * Cardinality(B)
    BY <1>3, <1>4, TimeoutsAddUp
  <1> QED
    BY <1>5, <1>6 DEF Between, Window, A, B, W

(* Nothing lies between an item and itself.                                *)
LEMMA NothingBetween ==
    ASSUME NEW d \in Document, NEW i \in Items(d)
    PROVE  Between(d, i, i) = 0
  <1>1. WebItemsBetween(d, i, i) = {}
    BY ItemNumbers DEF WebItemsBetween
  <1>2. Cardinality({}) = 0 /\ OpTimeout \in Nat
    BY FS_EmptySet, TimeAssumption
  <1>3. 2 * OpTimeout * 0 = 0
    BY <1>2
  <1> QED
    BY <1>1, <1>2, <1>3 DEF Between

-----------------------------------------------------------------------------
(* The duration of a call and the age of what it has looked at             *)

\* The call is at its item no later than the items before it account for,
\* and a pending operation is not past its timeout.
DurationInv(c) ==
    LET spent == Between(doc[c], 0, item[c])
    IN  /\ pc[c] = "check" => now <= calledAt[c] + spent
        /\ pc[c] = "send"  => /\ since[c] <= calledAt[c] + spent
                              /\ now <= since[c] + OpTimeout
        /\ pc[c] = "body"  => /\ since[c] <= calledAt[c] + spent + OpTimeout
                              /\ now <= since[c] + OpTimeout
        /\ pc[c] = "done"  => answeredAt[c] <= calledAt[c] + Deadline(doc[c])

Fresh(c, j, at) == ~Expired(ItemText(doc[c], j), at)

\* A credential that was looked at had not expired then, and that was no
\* longer ago than the fetches since account for.
FreshInv(c) ==
    \A j \in Items(doc[c]) : j > 0 =>
        LET fetches == Between(doc[c], j, item[c])
        IN  /\ pc[c] = "check" /\ j < item[c] => Fresh(c, j, now - fetches)
            /\ pc[c] = "send" /\ j <= item[c] => Fresh(c, j, since[c] - fetches)
            /\ pc[c] = "body" /\ j <= item[c] =>
                  Fresh(c, j, since[c] - OpTimeout - fetches)
            /\ Accepted(c) => Fresh(c, j, answeredAt[c] - Window(doc[c], j))

TimeInv(c) == DurationInv(c) /\ FreshInv(c)

(* What was not expired at a time was not expired before.                  *)
LEMMA FreshEarlier ==
    ASSUME NEW c, NEW j, NEW s \in Int, NEW t \in Int, s <= t, Fresh(c, j, t)
    PROVE  Fresh(c, j, s)
  BY DEF Fresh, Expired

(* Passing the checks means not being expired.                             *)
LEMMA ChecksMeanFresh ==
    ASSUME NEW c, NEW j, j > 0, j \in Nat, LocalError(doc[c], j, now) = "none"
    PROVE  Fresh(c, j, now)
  <1>1. VcError(ItemText(doc[c], j), now) = "none"
    BY DEF LocalError
  <1> QED
    BY <1>1 DEF VcError, Fresh

(* The verdict on an item ends the call, favourably behind the last item   *)
(* only, or moves it to the next item.                                     *)
LEMMA ConcludeMoves ==
    ASSUME TypeOK, NEW c \in Caller, NEW keys, Conclude(c, keys)
    PROVE  \/ /\ pc'[c] = "done" /\ answeredAt'[c] = now
              /\ answer'[c] = "valid" => item[c] = LastItem(doc[c])
           \/ pc'[c] = "check" /\ item'[c] = item[c] + 1
  <1>1. ASSUME NEW a, Answer(c, a)
        PROVE  pc'[c] = "done" /\ answeredAt'[c] = now /\ answer'[c] = a
    BY <1>1 DEF TypeOK, Answer
  <1>2. \/ \E a : Answer(c, a) /\ (a = "valid" => item[c] = LastItem(doc[c]))
        \/ /\ pc' = [pc EXCEPT ![c] = "check"]
           /\ item' = [item EXCEPT ![c] = @ + 1]
    <2>1. CASE ~SignedByOneOf(doc[c], item[c], keys)
      BY <2>1, ErrorsAreNotValid DEF Conclude
    <2>2. CASE SignedByOneOf(doc[c], item[c], keys)
      <3>1. Accept(c)
        BY <2>2 DEF Conclude
      <3>2. CASE item[c] = 0 /\ CredentialMember(doc[c]) = Absent
        <4> DEFINE missing == "VP is missing verifiableCredential"
        <4>1. Answer(c, missing) /\ missing # "valid"
          BY <3>1, <3>2 DEF Accept
        <4> HIDE DEF missing
        <4> QED
          BY <4>1
      <3>3. CASE ~(item[c] = 0 /\ CredentialMember(doc[c]) = Absent)
        <4>1. CASE item[c] = LastItem(doc[c])
          <5>1. Answer(c, "valid")
            BY <3>1, <3>3, <4>1 DEF Accept
          <5> QED
            BY <4>1, <5>1
        <4>2. CASE item[c] # LastItem(doc[c])
          BY <3>1, <3>3, <4>2 DEF Accept
        <4> QED
          BY <4>1, <4>2
      <3> QED
        BY <3>2, <3>3
    <2> QED
      BY <2>1, <2>2
  <1> QED
    BY <1>1, <1>2 DEF TypeOK

(* An item that was concluded in time leaves the call in time.             *)
LEMMA ConcludeTimely ==
    ASSUME TypeOK, NEW c \in Caller, CallSound(c), Active(c), NEW keys,
           Conclude(c, keys), UNCHANGED <<doc, now, calledAt>>,
           now <= calledAt[c] + Between(doc[c], 0, item[c] + 1),
           \A j \in Items(doc[c]) : j > 0 /\ j <= item[c] =>
              Fresh(c, j, now - Between(doc[c], j, item[c] + 1))
    PROVE  TimeInv(c)'
  <1> DEFINE d == doc[c]
             i == item[c]
  <1>1. /\ d \in Document /\ i \in Items(d)
        /\ calledAt[c] \in Nat /\ now \in Nat
    BY ActiveFacts
  <1>2. /\ i \in Nat /\ LastItem(d) \in Nat
        /\ \A j \in Items(d) : j \in Nat /\ j <= LastItem(d)
    BY <1>1, ItemNumbers
  <1>3. \A j \in Nat : /\ Between(d, j, i + 1) \in Nat /\ Window(d, j) \in Nat
                       /\ Between(d, j, i + 1) <= Window(d, j)
    BY <1>1, BetweenGrows
  <1>4. Deadline(d) = Window(d, 0)
    BY DEF Deadline, Window
  <1>5. CASE /\ pc'[c] = "done" /\ answeredAt'[c] = now
             /\ answer'[c] = "valid" => i = LastItem(d)
    <2>1. now <= calledAt[c] + Deadline(d)
      BY <1>1, <1>2, <1>3, <1>4
    <2>2. DurationInv(c)'
      BY <1>5, <2>1 DEF DurationInv, Deadline, WebItemsFrom
    <2>3. ASSUME NEW j \in Items(d), j > 0, i = LastItem(d)
          PROVE  Fresh(c, j, now - Window(d, j))
      <3>1. j \in Nat /\ Fresh(c, j, now - Between(d, j, i + 1))
        BY <1>2, <2>3
      <3>2. /\ now - Between(d, j, i + 1) \in Int /\ now - Window(d, j) \in Int
            /\ now - Window(d, j) <= now - Between(d, j, i + 1)
        BY <1>1, <1>3, <3>1
      <3> QED
        BY <3>1, <3>2, FreshEarlier
    <2>4. FreshInv(c)'
      BY <1>5, <2>3 DEF FreshInv, Fresh, Accepted, Window, WebItemsFrom
    <2> QED
      BY <2>2, <2>4 DEF TimeInv
  <1>6. CASE pc'[c] = "check" /\ item'[c] = i + 1
    <2>1. DurationInv(c)'
      BY <1>6 DEF DurationInv, Between, WebItemsBetween
    <2>2. \A j \in Items(d) : j > 0 /\ j < i + 1 =>
             Fresh(c, j, now - Between(d, j, i + 1))
      BY <1>2
    <2>3. FreshInv(c)'
      BY <1>6, <2>2 DEF FreshInv, Fresh, Accepted, Between, WebItemsBetween
    <2> QED
      BY <2>1, <2>3 DEF TimeInv
  <1> QED
    BY <1>5, <1>6, ConcludeMoves

(* An error that is given in time.                                         *)
LEMMA ErrorTimely ==
    ASSUME TypeOK, NEW c \in Caller, NEW a, a # "valid", Answer(c, a),
           UNCHANGED <<doc, calledAt>>, now <= calledAt[c] + Deadline(doc[c])
    PROVE  TimeInv(c)'
  <1>1. pc'[c] = "done" /\ answeredAt'[c] = now /\ answer'[c] = a
    BY DEF TypeOK, Answer
  <1>2. DurationInv(c)'
    BY <1>1 DEF DurationInv, Deadline, WebItemsFrom
  <1>3. FreshInv(c)'
    BY <1>1 DEF FreshInv, Accepted
  <1> QED
    BY <1>2, <1>3 DEF TimeInv

(* The steps of a call keep it in time.                                    *)
LEMMA LocalStepTimely ==
    ASSUME TypeOK, NEW c \in Caller, CallSound(c), TimeInv(c), LocalStep(c)
    PROVE  TimeInv(c)'
  <1> DEFINE d == doc[c]
             i == item[c]
  <1>1. /\ pc[c] = "check" /\ Active(c)
        /\ UNCHANGED <<doc, published, now, calledAt, views, failed>>
    BY DEF LocalStep, CheckRejects, CheckUndecodable, ResolveKeyDid,
           ResolveUnsupported, ResolveWebDid, Resolvable, Checking, Active
  <1>2. /\ d \in Document /\ i \in Items(d) /\ i \in Nat
        /\ calledAt[c] \in Nat /\ now \in Nat
        /\ \A j \in Items(d) : j \in Nat
    BY <1>1, ActiveFacts, ItemNumbers
  <1>3. \A j \in Nat :
           /\ Between(d, j, i) \in Nat /\ Between(d, j, i + 1) \in Nat
           /\ Window(d, j) \in Nat
           /\ Between(d, j, i) <= Between(d, j, i + 1)
           /\ Between(d, j, i + 1) <= Window(d, j)
    BY <1>2, BetweenGrows
  <1>4. now <= calledAt[c] + Between(d, 0, i)
    BY <1>1 DEF TimeInv, DurationInv
  <1>5. now <= calledAt[c] + Between(d, 0, i + 1)
    BY <1>2, <1>3, <1>4
  <1>6. now <= calledAt[c] + Deadline(d)
    <2>1. Deadline(d) = Window(d, 0)
      BY DEF Deadline, Window
    <2> QED
      BY <1>2, <1>3, <1>5, <2>1
  <1>7. \A j \in Items(d) : j > 0 /\ j < i => Fresh(c, j, now - Between(d, j, i))
    BY <1>1 DEF TimeInv, FreshInv
  <1>8. PassesChecks(c) /\ i > 0 => Fresh(c, i, now)
    BY <1>2, ChecksMeanFresh DEF PassesChecks
  <1>9. CASE CheckRejects(c)
    BY <1>1, <1>6, <1>9, ErrorTimely, ErrorsAreNotValid DEF CheckRejects
  <1>10. CASE CheckUndecodable(c)
    BY <1>1, <1>6, <1>10, ErrorTimely, ErrorsAreNotValid DEF CheckUndecodable
  <1>11. CASE ResolveKeyDid(c)
    <2>1. PICK k : Conclude(c, KeysOf(KeyResolve(k)))
      BY <1>11 DEF ResolveKeyDid
    <2>2. ASSUME NEW j \in Items(d), j > 0, j <= i
          PROVE  Fresh(c, j, now - Between(d, j, i + 1))
      <3>1. /\ j \in Nat /\ now - Between(d, j, i) \in Int
            /\ now - Between(d, j, i + 1) \in Int
            /\ now - Between(d, j, i + 1) <= now - Between(d, j, i)
            /\ now - Between(d, j, i + 1) <= now
        BY <1>2, <1>3
      <3>2. CASE j < i
        BY <1>7, <2>2, <3>1, <3>2, FreshEarlier
      <3>3. CASE j = i
        BY <1>2, <1>8, <1>11, <2>2, <3>1, <3>3, FreshEarlier
        DEF ResolveKeyDid, Resolvable
      <3> QED
        BY <1>2, <2>2, <3>1, <3>2, <3>3
    <2> QED
      BY <1>1, <1>5, <2>1, <2>2, ConcludeTimely
  <1>12. CASE ResolveUnsupported(c)
    BY <1>1, <1>6, <1>12, ErrorTimely, ErrorsAreNotValid DEF ResolveUnsupported
  <1>13. CASE ResolveWebDid(c)
    <2>1. /\ pc'[c] = "send" /\ doc'[c] = d /\ item'[c] = i /\ since'[c] = now
          /\ calledAt'[c] = calledAt[c] /\ now' = now /\ PassesChecks(c)
      BY <1>1, <1>13 DEF TypeOK, ResolveWebDid, Resolvable
    <2>2. now <= now + OpTimeout
      BY <1>2, TimeAssumption
    <2>3. DurationInv(c)'
      BY <1>4, <2>1, <2>2 DEF DurationInv, Between, WebItemsBetween
    <2>4. ASSUME NEW j \in Items(d), j > 0, j <= i
          PROVE  Fresh(c, j, now - Between(d, j, i))
      <3>1. CASE j < i
        BY <1>7, <2>4, <3>1
      <3>2. CASE j = i
        <4>1. now - Between(d, i, i) = now
          BY <1>2, NothingBetween
        <4> QED
          BY <1>8, <2>1, <2>4, <3>2, <4>1
      <3> QED
        BY <1>2, <2>4, <3>1, <3>2
    <2>5. FreshInv(c)'
      BY <2>1, <2>4 DEF FreshInv, Fresh, Accepted, Between, WebItemsBetween
    <2> QED
      BY <2>3, <2>5 DEF TimeInv
  <1> QED
    BY <1>9, <1>10, <1>11, <1>12, <1>13 DEF LocalStep

LEMMA NetworkStepTimely ==
    ASSUME TypeOK, NEW c \in Caller, CallSound(c), TimeInv(c), NetworkStep(c)
    PROVE  TimeInv(c)'
  <1> DEFINE d == doc[c]
             i == item[c]
  <1>1. /\ pc[c] \in {"send", "body"} /\ Active(c)
        /\ UNCHANGED <<doc, published, now, calledAt, views>>
    BY DEF NetworkStep, SendAnswered, SendRefused, BodyRead, FetchBreaks,
           FetchTimesOut, Fetching, Active
  <1>2. /\ d \in Document /\ i \in Items(d) /\ i \in Nat
        /\ calledAt[c] \in Nat /\ now \in Nat /\ since[c] \in Nat
        /\ \A j \in Items(d) : j \in Nat
        /\ OpTimeout \in Nat
    BY <1>1, ActiveFacts, ItemNumbers, TimeAssumption DEF TypeOK
  <1>3. IsWebItem(d, i)
    BY <1>1 DEF CallSound, CallInv
  <1>4. \A j \in Nat :
           /\ Between(d, j, i) \in Nat /\ Between(d, j, i + 1) \in Nat
           /\ Window(d, j) \in Nat
           /\ Between(d, j, i + 1) <= Window(d, j)
           /\ j <= i => Between(d, j, i) + 2 * OpTimeout <= Between(d, j, i + 1)
    BY <1>2, <1>3, BetweenGrows
  <1>5. /\ Between(d, 0, i) \in Nat /\ Between(d, 0, i + 1) \in Nat
        /\ Between(d, 0, i) + 2 * OpTimeout <= Between(d, 0, i + 1)
    BY <1>2, <1>4
  <1>6. now <= since[c] + OpTimeout
    BY <1>1 DEF TimeInv, DurationInv
  <1>7. since[c] <= calledAt[c] + Between(d, 0, i) + OpTimeout
    <2>1. CASE pc[c] = "send"
      <3>1. since[c] <= calledAt[c] + Between(d, 0, i)
        BY <2>1 DEF TimeInv, DurationInv
      <3> QED
        BY <1>2, <1>5, <3>1
    <2>2. CASE pc[c] = "body"
      BY <2>2 DEF TimeInv, DurationInv
    <2> QED
      BY <1>1, <2>1, <2>2
  <1>8. now <= calledAt[c] + Between(d, 0, i + 1)
    BY <1>2, <1>5, <1>6, <1>7
  <1>9. now <= calledAt[c] + Deadline(d)
    <2>1. Deadline(d) = Window(d, 0)
      BY DEF Deadline, Window
    <2> QED
      BY <1>2, <1>4, <1>8, <2>1
  <1>10. CASE SendAnswered(c)
    <2>1. /\ pc[c] = "send" /\ pc'[c] = "body" /\ doc'[c] = d /\ item'[c] = i
          /\ since'[c] = now /\ calledAt'[c] = calledAt[c] /\ now' = now
      BY <1>1, <1>10 DEF TypeOK, SendAnswered, Fetching
    <2>2. since[c] <= calledAt[c] + Between(d, 0, i)
      BY <2>1 DEF TimeInv, DurationInv
    <2>3. /\ now <= calledAt[c] + Between(d, 0, i) + OpTimeout
          /\ now <= now + OpTimeout
      BY <1>2, <1>5, <1>6, <2>2
    <2>4. DurationInv(c)'
      BY <2>1, <2>3 DEF DurationInv, Between, WebItemsBetween
    <2>5. ASSUME NEW j \in Items(d), j > 0, j <= i
          PROVE  Fresh(c, j, now - OpTimeout - Between(d, j, i))
      <3>1. Fresh(c, j, since[c] - Between(d, j, i))
        BY <2>1, <2>5 DEF TimeInv, FreshInv
      <3>2. /\ since[c] - Between(d, j, i) \in Int
            /\ now - OpTimeout - Between(d, j, i) \in Int
            /\ now - OpTimeout - Between(d, j, i) <= since[c] - Between(d, j, i)
        BY <1>2, <1>4, <1>6
      <3> QED
        BY <3>1, <3>2, FreshEarlier
    <2>6. FreshInv(c)'
      BY <2>1, <2>5 DEF FreshInv, Fresh, Accepted, Between, WebItemsBetween
    <2> QED
      BY <2>4, <2>6 DEF TimeInv
  <1>11. CASE SendRefused(c)
    BY <1>1, <1>9, <1>11, ErrorTimely, ErrorsAreNotValid DEF SendRefused
  <1>12. CASE BodyRead(c)
    <2>1. pc[c] = "body" /\ Conclude(c, KeysServed(fetched[c]))
      BY <1>12 DEF BodyRead, Fetching
    <2>2. ASSUME NEW j \in Items(d), j > 0, j <= i
          PROVE  Fresh(c, j, now - Between(d, j, i + 1))
      <3>1. Fresh(c, j, since[c] - OpTimeout - Between(d, j, i))
        BY <2>1, <2>2 DEF TimeInv, FreshInv
      <3>2. /\ Between(d, j, i) \in Nat /\ Between(d, j, i + 1) \in Nat
            /\ Between(d, j, i) + 2 * OpTimeout <= Between(d, j, i + 1)
        BY <1>2, <1>4, <2>2
      <3>3. /\ since[c] - OpTimeout - Between(d, j, i) \in Int
            /\ now - Between(d, j, i + 1) \in Int
            /\ now - Between(d, j, i + 1)
                  <= since[c] - OpTimeout - Between(d, j, i)
        BY <1>2, <1>6, <3>2
      <3> QED
        BY <3>1, <3>3, FreshEarlier
    <2> QED
      BY <1>1, <1>8, <2>1, <2>2, ConcludeTimely
  <1>13. CASE FetchBreaks(c) \/ FetchTimesOut(c)
    BY <1>1, <1>9, <1>13, ErrorTimely, ErrorsAreNotValid
    DEF FetchBreaks, FetchTimesOut
  <1> QED
    BY <1>10, <1>11, <1>12, <1>13 DEF NetworkStep

-----------------------------------------------------------------------------
PInv == IInv /\ \A c \in Caller : TimeInv(c)

(* Before any call nothing has taken time.                                 *)
LEMMA InitPInv == Init => PInv
  <1> SUFFICES ASSUME Init
               PROVE  PInv
    OBVIOUS
  <1>1. \A c \in Caller : TimeInv(c)
    BY DEF Init, TimeInv, DurationInv, FreshInv, Accepted
  <1> QED
    BY <1>1, InitIInv DEF PInv

(* A step that leaves a call and the clock alone keeps its times.          *)
LEMMA OthersTimely ==
    ASSUME NEW c \in Caller, TimeInv(c),
           pc'[c] = pc[c], doc'[c] = doc[c], item'[c] = item[c],
           since'[c] = since[c], answer'[c] = answer[c],
           calledAt'[c] = calledAt[c], answeredAt'[c] = answeredAt[c],
           pc[c] = "check" => now' = now,
           pc[c] \in {"send", "body"} => now' <= since[c] + OpTimeout
    PROVE  TimeInv(c)'
  <1>1. DurationInv(c)'
    BY DEF TimeInv, DurationInv, Between, WebItemsBetween, Deadline, WebItemsFrom
  <1>2. FreshInv(c)'
    BY DEF TimeInv, FreshInv, Fresh, Accepted, Between, WebItemsBetween,
           Window, WebItemsFrom
  <1> QED
    BY <1>1, <1>2 DEF TimeInv

(* Every step keeps every call in time; the clock waits for those that are  *)
(* computing or at a timeout.                                              *)
LEMMA StepPInv == PInv /\ [Next]_vars => PInv'
  <1> SUFFICES ASSUME PInv, [Next]_vars
               PROVE  PInv'
    OBVIOUS
  <1>1. /\ TypeOK /\ \A c \in Caller : CallSound(c) /\ TimeInv(c)
        /\ IInv'
    BY StepIInv DEF PInv, IInv
  <1>2. ASSUME NEW e \in Caller
        PROVE  TimeInv(e)'
    <2>1. /\ now \in Nat /\ since[e] \in Nat /\ OpTimeout \in Nat
          /\ pc[e] \in {"send", "body"} => now <= since[e] + OpTimeout
      BY <1>1, TimeAssumption DEF TypeOK, TimeInv, DurationInv
    <2>2. ASSUME NEW c \in Caller, CallOf(c)
          PROVE  TimeInv(e)'
      <3>1. CASE e # c
        <4>1. /\ pc'[e] = pc[e] /\ doc'[e] = doc[e] /\ item'[e] = item[e]
              /\ since'[e] = since[e] /\ answer'[e] = answer[e]
              /\ calledAt'[e] = calledAt[e] /\ answeredAt'[e] = answeredAt[e]
              /\ now' = now
          BY <1>1, <2>2, <3>1, CallIsLocal
        <4> QED
          BY <1>1, <2>1, <4>1, OthersTimely
      <3>2. CASE e = c /\ \E d \in Document : Call(c, d)
        <4>1. PICK d \in Document : Call(c, d)
          BY <3>2
        <4>2. /\ pc'[c] = "check" /\ doc'[c] = d /\ item'[c] = FirstItem(d)
              /\ calledAt'[c] = now /\ now' = now
          BY <1>1, <4>1 DEF TypeOK, Call
        <4>3. Between(d, 0, FirstItem(d)) \in Nat
          BY ItemNumbers, BetweenGrows
        <4>4. now <= now + Between(d, 0, FirstItem(d))
          BY <2>1, <4>3
        <4>5. DurationInv(c)'
          BY <4>2, <4>4 DEF DurationInv, Between, WebItemsBetween
        <4>6. \A j \in Items(d) : ~(j < FirstItem(d))
          BY ItemNumbers
        <4>7. FreshInv(c)'
          BY <4>2, <4>6 DEF FreshInv, Accepted
        <4> QED
          BY <3>2, <4>5, <4>7 DEF TimeInv
      <3>3. CASE e = c /\ (LocalStep(c) \/ NetworkStep(c))
        BY <1>1, <3>3, LocalStepTimely, NetworkStepTimely
      <3> QED
        BY <2>2, <3>1, <3>2, <3>3 DEF CallOf
    <2>3. CASE \E w \in WebName, p \in Publication : Publish(w, p)
      BY <1>1, <2>1, <2>3, OthersTimely DEF Publish, callVars
    <2>4. CASE Tick
      <3>1. UNCHANGED <<callVars, published, historyVars>> /\ now' = now + 1
        BY <2>4 DEF Tick
      <3>2. pc[e] # "check" /\ (pc[e] \in {"send", "body"} => now < since[e] + OpTimeout)
        BY <2>4 DEF Tick
      <3>3. pc[e] \in {"send", "body"} => now' <= since[e] + OpTimeout
        BY <2>1, <3>1, <3>2
      <3> QED
        BY <1>1, <3>1, <3>2, <3>3, OthersTimely DEF callVars, historyVars
    <2>5. CASE UNCHANGED vars
      BY <1>1, <2>1, <2>5, OthersTimely DEF vars, callVars, historyVars
    <2> QED
      BY <2>2, <2>3, <2>4, <2>5 DEF Next, CallOf
  <1> QED
    BY <1>1, <1>2 DEF PInv

(* However hosts stall, a call lasts at most two timeouts for every did:web *)
(* item of its document.                                                   *)
THEOREM Boundedness == Spec => []CallIsBounded
  <1>1. PInv => CallIsBounded
    <2> SUFFICES ASSUME PInv, NEW c \in Caller, pc[c] # "idle"
                 PROVE  (IF pc[c] = "done" THEN answeredAt[c] ELSE now)
                           - calledAt[c] <= Deadline(doc[c])
      BY DEF CallIsBounded
    <2>1. TypeOK /\ CallSound(c) /\ TimeInv(c)
      BY DEF PInv, IInv
    <2>2. /\ calledAt[c] \in Nat /\ now \in Nat /\ since[c] \in Nat
          /\ answeredAt[c] \in Nat /\ OpTimeout \in Nat
      BY <2>1, TimeAssumption DEF TypeOK
    <2>3. Deadline(doc[c]) = Window(doc[c], 0)
      BY DEF Deadline, Window
    <2>4. ASSUME Active(c)
          PROVE  now <= calledAt[c] + Deadline(doc[c])
      <3>1. doc[c] \in Document /\ item[c] \in Items(doc[c]) /\ item[c] \in Nat
        BY <2>1, <2>4, ActiveFacts, ItemNumbers
      <3> DEFINE A == Between(doc[c], 0, item[c])
                 B == Between(doc[c], 0, item[c] + 1)
      <3>2. /\ A \in Nat /\ B \in Nat /\ Window(doc[c], 0) \in Nat
            /\ A <= B /\ B <= Window(doc[c], 0)
            /\ IsWebItem(doc[c], item[c]) => A + 2 * OpTimeout <= B
        BY <3>1, BetweenGrows
      <3>3. pc[c] \in {"send", "body"} => IsWebItem(doc[c], item[c])
        BY <2>1 DEF CallSound, CallInv
      <3>4. /\ pc[c] = "check" => now <= calledAt[c] + A
            /\ pc[c] = "send"  => since[c] <= calledAt[c] + A
                                  /\ now <= since[c] + OpTimeout
            /\ pc[c] = "body"  => since[c] <= calledAt[c] + A + OpTimeout
                                  /\ now <= since[c] + OpTimeout
        BY <2>1 DEF TimeInv, DurationInv
      <3> HIDE DEF A, B
      <3>5. CASE pc[c] = "check"
        BY <2>2, <2>3, <3>2, <3>4, <3>5
      <3>6. CASE pc[c] = "send"
        BY <2>2, <2>3, <3>2, <3>3, <3>4, <3>6
      <3>7. CASE pc[c] = "body"
        BY <2>2, <2>3, <3>2, <3>3, <3>4, <3>7
      <3> QED
        BY <2>4, <3>5, <3>6, <3>7 DEF Active
    <2>5. CASE Active(c)
      <3>1. pc[c] # "done" /\ doc[c] \in Document /\ item[c] \in Items(doc[c])
        BY <2>1, <2>5, ActiveFacts DEF Active
      <3>2. Deadline(doc[c]) \in Nat
        BY <2>3, <3>1, BetweenGrows
      <3> QED
        BY <2>2, <2>4, <2>5, <3>1, <3>2
    <2>6. CASE pc[c] = "done"
      <3>1. doc[c] \in Document
        BY <2>1, <2>6 DEF CallSound, CallInv
      <3>2. Deadline(doc[c]) \in Nat
        BY <2>3, <3>1, ItemNumbers, BetweenGrows
      <3>3. answeredAt[c] <= calledAt[c] + Deadline(doc[c])
        BY <2>1, <2>6 DEF TimeInv, DurationInv
      <3> QED
        BY <2>2, <2>6, <3>2, <3>3
    <2> QED
      BY <2>1, <2>5, <2>6 DEF TypeOK, Active
  <1> QED
    BY <1>1, InitPInv, StepPInv, PTL DEF Spec

(* The verdict "valid" outlives an expiry by no more than the timeouts of   *)
(* the fetches that followed the look at it.                               *)
THEOREM Freshness == Spec => []AcceptedWhileFresh
  <1>1. PInv => AcceptedWhileFresh
    <2> SUFFICES ASSUME PInv, NEW c \in Caller, Accepted(c),
                        NEW j \in 1 .. LastItem(doc[c])
                 PROVE  ~Expired(ItemText(doc[c], j),
                                 answeredAt[c] - Window(doc[c], j))
      BY DEF AcceptedWhileFresh, Window
    <2>1. doc[c] \in Document
      BY DEF PInv, IInv, CallSound, CallInv, Accepted
    <2>2. j \in Items(doc[c]) /\ j > 0
      BY <2>1, DocumentAssumption DEF Items, FirstItem
    <2> QED
      BY <2>2 DEF PInv, TimeInv, FreshInv, Fresh
  <1> QED
    BY <1>1, InitPInv, StepPInv, PTL DEF Spec

-----------------------------------------------------------------------------
(* Verifier implements VerifierSpec                                        *)

(* What hosts publish is something they may offer, and the part of it that  *)
(* concerns a document is what is listed for the document.                 *)
LEMMA OffersAreOfferings ==
    /\ KeysOffered \in [WebName -> SUBSET Key]
    /\ \A d : PartFor(d, KeysOffered) = ListedFor(d, published)
  <1>1. KeysOffered \in [WebName -> SUBSET Key]
    BY KeysServedAreKeys DEF KeysOffered
  <1>2. ASSUME NEW d
        PROVE  PartFor(d, KeysOffered) = ListedFor(d, published)
    BY DEF PartFor, ListedFor, KeysOffered
  <1> QED
    BY <1>1, <1>2

(* The initial states are initial states of the promise.                   *)
LEMMA InitPromise == Init => Promise!Init
  <1> SUFFICES ASSUME Init
               PROVE  Promise!Init
    OBVIOUS
  <1>1. Phase = [c \in Caller |-> "idle"]
    BY DEF Init, Phase, Active
  <1> QED
    BY <1>1, OffersAreOfferings DEF Init, Promise!Init

(* A call of verify_vc or verify_vp is a request.                          *)
LEMMA CallRequests ==
    ASSUME TypeOK, NEW c \in Caller, NEW d \in Document, Call(c, d)
    PROVE  Promise!Request(c, d)
  <1>1. Phase[c] # "called"
    BY DEF Call, Phase, Active
  <1>2. Phase' = [Phase EXCEPT ![c] = "called"]
    BY DEF Call, Phase, Active, TypeOK
  <1>3. KeysOffered' = KeysOffered
    BY DEF Call, KeysOffered
  <1>4. PartFor(d, KeysOffered) = ListedFor(d, published)
    BY OffersAreOfferings
  <1> QED
    BY <1>1, <1>2, <1>3, <1>4 DEF Call, Promise!Request

(* The verdicts of a call are errors or "valid".                           *)
LEMMA SignatureErrorIsError ==
    ASSUME NEW i
    PROVE  SignatureError(i) \in Errors
  BY DEF SignatureError, Errors

(* Accepting an item ends the call with an error or "valid", or goes on.    *)
LEMMA ConcludeAnswers ==
    ASSUME NEW c \in Caller, NEW keys, Conclude(c, keys)
    PROVE  \/ \E a \in Errors \cup {"valid"} : Answer(c, a)
           \/ /\ pc' = [pc EXCEPT ![c] = "check"]
              /\ UNCHANGED answer
  <1>1. CASE ~SignedByOneOf(doc[c], item[c], keys)
    BY <1>1, SignatureErrorIsError DEF Conclude
  <1>2. CASE SignedByOneOf(doc[c], item[c], keys)
    <2>1. Accept(c)
      BY <1>2 DEF Conclude
    <2>2. CASE item[c] = 0 /\ CredentialMember(doc[c]) = Absent
      <3> DEFINE missing == "VP is missing verifiableCredential"
      <3>1. missing \in Errors
        BY DEF Errors
      <3>2. Answer(c, missing)
        BY <2>1, <2>2 DEF Accept
      <3> HIDE DEF missing
      <3> QED
        BY <3>1, <3>2
    <2>3. CASE ~(item[c] = 0 /\ CredentialMember(doc[c]) = Absent)
               /\ item[c] = LastItem(doc[c])
      <3>1. Answer(c, "valid")
        BY <2>1, <2>3 DEF Accept
      <3> QED
        BY <3>1
    <2>4. CASE ~(item[c] = 0 /\ CredentialMember(doc[c]) = Absent)
               /\ item[c] # LastItem(doc[c])
      BY <2>1, <2>4 DEF Accept
    <2> QED
      BY <2>2, <2>3, <2>4
  <1> QED
    BY <1>1, <1>2

(* A step of a call either ends it with such a verdict or changes nothing  *)
(* the promise speaks of.                                                  *)
LEMMA StepAnswers ==
    ASSUME NEW c \in Caller, TypeOK, LocalStep(c) \/ NetworkStep(c)
    PROVE  /\ Active(c) /\ UNCHANGED <<doc, published, now, calledAt, views>>
           /\ \/ /\ \E a \in Errors \cup {"valid"} : Answer(c, a)
                 /\ failed' = [failed EXCEPT ![c] = failed'[c]]
              \/ /\ \E s \in {"check", "send", "body"} : pc' = [pc EXCEPT ![c] = s]
                 /\ UNCHANGED <<answer, failed>>
  <1>1. Active(c) /\ UNCHANGED <<doc, published, now, calledAt, views>>
    BY DEF LocalStep, NetworkStep, CheckRejects, CheckUndecodable, Resolvable,
           ResolveKeyDid, ResolveUnsupported, ResolveWebDid, Checking,
           SendAnswered, SendRefused, BodyRead, FetchBreaks, FetchTimesOut,
           Fetching, Active
  <1>2. failed' = failed => failed' = [failed EXCEPT ![c] = failed'[c]]
    BY DEF TypeOK
  <1>3. CASE CheckRejects(c)
    <2> DEFINE e == LocalError(doc[c], item[c], now)
    <2>1. e \in Errors
      BY <1>3, LocalErrorType, ErrorsAreNotValid DEF CheckRejects, Verdicts
    <2>2. Answer(c, e) /\ UNCHANGED failed
      BY <1>3 DEF CheckRejects, Checking
    <2> HIDE DEF e
    <2> QED
      BY <1>1, <1>2, <2>1, <2>2
  <1>4. CASE CheckUndecodable(c) \/ ResolveUnsupported(c) \/ SendRefused(c)
    <2>1. Answer(c, SignatureError(item[c])) /\ UNCHANGED failed
      BY <1>4 DEF CheckUndecodable, ResolveUnsupported, SendRefused, Resolvable, Checking
    <2> QED
      BY <1>1, <1>2, <2>1, SignatureErrorIsError
  <1>5. CASE FetchBreaks(c) \/ FetchTimesOut(c)
    <2>1. Answer(c, SignatureError(item[c])) /\ failed' = [failed EXCEPT ![c] = TRUE]
      BY <1>5 DEF FetchBreaks, FetchTimesOut
    <2>2. failed' = [failed EXCEPT ![c] = failed'[c]]
      BY <2>1 DEF TypeOK
    <2> QED
      BY <1>1, <2>1, <2>2, SignatureErrorIsError
  <1>6. CASE ResolveKeyDid(c) \/ BodyRead(c)
    <2>1. (\E keys : Conclude(c, keys)) /\ UNCHANGED failed
      BY <1>6 DEF ResolveKeyDid, BodyRead, Resolvable, Checking
    <2> QED
      BY <1>1, <1>2, <2>1, ConcludeAnswers
  <1>7. CASE ResolveWebDid(c)
    <2>1. pc' = [pc EXCEPT ![c] = "send"] /\ UNCHANGED <<answer, failed>>
      BY <1>7 DEF ResolveWebDid, Resolvable, Checking
    <2> QED
      BY <1>1, <2>1
  <1>8. CASE SendAnswered(c)
    <2>1. pc' = [pc EXCEPT ![c] = "body"] /\ UNCHANGED <<answer, failed>>
      BY <1>8 DEF SendAnswered
    <2> QED
      BY <1>1, <2>1
  <1> QED
    BY <1>3, <1>4, <1>5, <1>6, <1>7, <1>8 DEF LocalStep, NetworkStep

(* A verdict that is given is one the promise allows.                      *)
LEMMA VerdictResponds ==
    ASSUME TypeOK, NEW c \in Caller, Active(c), CallSound(c)',
           NEW a \in Errors \cup {"valid"}, Answer(c, a),
           UNCHANGED <<doc, published, now, calledAt, views>>,
           TypeOK', failed' = [failed EXCEPT ![c] = failed'[c]]
    PROVE  Promise!Respond(c)
  <1>1. /\ pc' = [pc EXCEPT ![c] = "done"] /\ answer' = [answer EXCEPT ![c] = a]
        /\ pc'[c] = "done" /\ answer'[c] = a /\ answeredAt'[c] = now
        /\ failed'[c] \in BOOLEAN
    BY DEF Answer, TypeOK
  <1>2. Phase[c] = "called"
    BY DEF Phase
  <1>3. Phase' = [Phase EXCEPT ![c] = "returned"]
    BY <1>1 DEF Phase, Active, TypeOK
  <1>4. KeysOffered' = KeysOffered
    BY DEF KeysOffered
  <1>5. Promise!MayAnswer(c, a, failed'[c])
    <2>1. /\ doc'[c] = doc[c] /\ views'[c] = views[c] /\ calledAt'[c] = calledAt[c]
      OBVIOUS
    <2>2. IF a = "valid"
          THEN ~failed'[c] /\ Sound(doc[c], UNION views[c], calledAt[c])
          ELSE IF failed'[c] THEN Deadline(doc[c]) > 0
          ELSE \E view \in views[c] : ~Sound(doc[c], view, now)
      BY <1>1, <2>1 DEF CallSound, VerdictInv, Offered, Deadline, WebItemsFrom
    <2> QED
      BY <2>2 DEF Promise!MayAnswer
  <1> QED
    BY <1>1, <1>2, <1>3, <1>4, <1>5 DEF Promise!Respond

(* A host that publishes changes what is offered, to those who are called.  *)
LEMMA PublishChanges ==
    ASSUME TypeOK, TypeOK', NEW w \in WebName, NEW p \in Publication, Publish(w, p)
    PROVE  Promise!Change
  <1>1. UNCHANGED <<pc, doc, answer, now, calledAt, failed>>
    BY DEF Publish, callVars
  <1>2. Phase' = Phase
    BY <1>1 DEF Phase, Active
  <1>3. /\ KeysOffered' \in [WebName -> SUBSET Key]
        /\ \A d : PartFor(d, KeysOffered') = ListedFor(d, published')
    <2>1. ASSUME NEW d
          PROVE  PartFor(d, KeysOffered') = ListedFor(d, published')
      BY DEF PartFor, ListedFor, KeysOffered
    <2> QED
      BY <2>1, KeysServedAreKeys DEF KeysOffered
  <1>4. \A c \in Caller : Phase[c] = "called" <=> Active(c)
    BY DEF Phase
  <1>5. views' = [c \in Caller |->
                     IF Phase[c] = "called"
                     THEN views[c] \cup {PartFor(doc[c], KeysOffered')}
                     ELSE views[c]]
    BY <1>3, <1>4 DEF Publish
  <1> QED
    BY <1>1, <1>2, <1>3, <1>5 DEF Promise!Change

(* The clock goes on only while every call has time left.                  *)
LEMMA TickPasses ==
    ASSUME PInv, Tick
    PROVE  Promise!PassTime
  <1>1. UNCHANGED <<pc, doc, answer, published, calledAt, views, failed>>
        /\ now' = now + 1
    BY DEF Tick, callVars, historyVars
  <1>2. Phase' = Phase /\ KeysOffered' = KeysOffered
    BY <1>1 DEF Phase, Active, KeysOffered
  <1>3. ASSUME NEW c \in Caller, Phase[c] = "called"
        PROVE  now < calledAt[c] + Deadline(doc[c])
    <2>1. /\ TypeOK /\ CallSound(c) /\ TimeInv(c) /\ Active(c)
      BY <1>3 DEF PInv, IInv, Phase
    <2>2. /\ calledAt[c] \in Nat /\ now \in Nat /\ since[c] \in Nat
          /\ OpTimeout \in Nat
      BY <2>1, TimeAssumption DEF TypeOK
    <2>3. /\ pc[c] \in {"send", "body"} /\ now < since[c] + OpTimeout
      BY <2>1 DEF Tick, Active
    <2>4. doc[c] \in Document /\ item[c] \in Items(doc[c]) /\ item[c] \in Nat
      BY <2>1, ActiveFacts, ItemNumbers
    <2>5. Deadline(doc[c]) = Window(doc[c], 0)
      BY DEF Deadline, Window
    <2> DEFINE A == Between(doc[c], 0, item[c])
               B == Between(doc[c], 0, item[c] + 1)
    <2>6. /\ A \in Nat /\ B \in Nat /\ Window(doc[c], 0) \in Nat
          /\ B <= Window(doc[c], 0)
          /\ IsWebItem(doc[c], item[c]) => A + 2 * OpTimeout <= B
      BY <2>4, BetweenGrows
    <2>7. IsWebItem(doc[c], item[c])
      BY <2>1, <2>3 DEF CallSound, CallInv
    <2>8. \/ since[c] <= calledAt[c] + A
          \/ since[c] <= calledAt[c] + A + OpTimeout
      BY <2>1, <2>3 DEF TimeInv, DurationInv
    <2> HIDE DEF A, B
    <2> QED
      BY <2>2, <2>3, <2>5, <2>6, <2>7, <2>8
  <1> QED
    BY <1>1, <1>2, <1>3 DEF Promise!PassTime

(* Every step is a step of the promise, or one it does not see.             *)
LEMMA StepPromise == PInv /\ PInv' /\ [Next]_vars => [Promise!Next]_(Promise!vars)
  <1> SUFFICES ASSUME PInv, PInv', [Next]_vars
               PROVE  Promise!Next \/ UNCHANGED Promise!vars
    OBVIOUS
  <1>1. TypeOK /\ TypeOK' /\ \A c \in Caller : CallSound(c)'
    BY DEF PInv, IInv
  <1>2. ASSUME NEW c \in Caller, NEW d \in Document, Call(c, d)
        PROVE  Promise!Next
    BY <1>1, <1>2, CallRequests DEF Promise!Next
  <1>3. ASSUME NEW c \in Caller, LocalStep(c) \/ NetworkStep(c)
        PROVE  Promise!Next \/ UNCHANGED Promise!vars
    <2>1. /\ Active(c) /\ UNCHANGED <<doc, published, now, calledAt, views>>
      BY <1>1, <1>3, StepAnswers
    <2>2. CASE /\ \E a \in Errors \cup {"valid"} : Answer(c, a)
               /\ failed' = [failed EXCEPT ![c] = failed'[c]]
      BY <1>1, <2>1, <2>2, VerdictResponds DEF Promise!Next
    <2>3. CASE /\ \E s \in {"check", "send", "body"} : pc' = [pc EXCEPT ![c] = s]
               /\ UNCHANGED <<answer, failed>>
      <3>1. Phase' = Phase
        BY <1>1, <2>1, <2>3 DEF Phase, Active, TypeOK
      <3>2. KeysOffered' = KeysOffered
        BY <2>1 DEF KeysOffered
      <3> QED
        BY <2>1, <2>3, <3>1, <3>2 DEF Promise!vars
    <2> QED
      BY <1>1, <1>3, <2>2, <2>3, StepAnswers
  <1>4. CASE \E w \in WebName, p \in Publication : Publish(w, p)
    BY <1>1, <1>4, PublishChanges DEF Promise!Next
  <1>5. CASE Tick
    BY <1>5, TickPasses DEF Promise!Next
  <1>6. CASE UNCHANGED vars
    <2>1. Phase' = Phase /\ KeysOffered' = KeysOffered
      BY <1>6 DEF vars, callVars, Phase, Active, KeysOffered
    <2> QED
      BY <1>6, <2>1 DEF vars, callVars, historyVars, Promise!vars
  <1> QED
    BY <1>2, <1>3, <1>4, <1>5, <1>6 DEF Next

(* verify_vc and verify_vp keep their promise: a verdict with its reason,   *)
(* within the deadline, whoever else calls and whatever hosts publish.      *)
THEOREM Refinement == Spec => KeepsPromise
  <1> QED
    BY InitPInv, StepPInv, InitPromise, StepPromise, PTL
    DEF Spec, KeepsPromise, Promise!Spec

=============================================================================
