------------------------- MODULE KeyDerivationProofs -------------------------
(***************************************************************************)
(* That the secrets of one seed are separate, and derivation is stable, for *)
(* every set of 32-byte seeds, every set of u32 indices and any number of   *)
(* attempts that fits a byte.                                               *)
(***************************************************************************)
EXTENDS KeyDerivation, SequenceTheorems, TLAPS

-----------------------------------------------------------------------------
(* The bytes that are hashed                                               *)

\* The little-endian bytes of an index are four.
LEMMA IndexBytes ==
    ASSUME NEW n \in Index
    PROVE  LE32(n) \in Seq(Byte) /\ Len(LE32(n)) = 4
BY IndexAssumption DEF LE32, Byte

\* to_le_bytes loses nothing of a u32.
LEMMA IndexBytesInjective ==
    ASSUME NEW m \in Index, NEW n \in Index,
           \A i \in 1 .. 4 : LE32(m)[i] = LE32(n)[i]
    PROVE  m = n
<1>1. m \in Nat /\ n \in Nat
  BY IndexAssumption
<1>2. /\ m % 256 = n % 256
      /\ (m \div 256) % 256 = (n \div 256) % 256
      /\ (m \div 65536) % 256 = (n \div 65536) % 256
      /\ m \div 16777216 = n \div 16777216
  BY DEF LE32
<1> QED
  BY <1>1, <1>2, SMTT(60)

\* Where the bytes of s and t are in st.
Joined(s, t, st) ==
    /\ st \in Seq(Byte)
    /\ Len(st) = Len(s) + Len(t)
    /\ \A i \in 1 .. Len(s) : st[i] = s[i]
    /\ \A i \in 1 .. Len(t) : st[Len(s) + i] = t[i]

\* Putting two texts together keeps every byte of both, in its place.
LEMMA ConcatBytes ==
    ASSUME NEW s \in Seq(Byte), NEW t \in Seq(Byte)
    PROVE  Joined(s, t, s \o t)
BY DEF Joined

\* The domains, as far as the argument looks at them.
LEMMA Domains ==
    /\ NostrDomain \in Seq(Byte) /\ Len(NostrDomain) = 15
    /\ DependentDomain \in Seq(Byte) /\ Len(DependentDomain) = 15
    /\ DependentNostrDomain \in Seq(Byte) /\ Len(DependentNostrDomain) = 26
    /\ NostrDomain[3] = 99
    /\ DependentDomain[1] = 105
<1>1. NostrDomain \in Seq(Byte) /\ Len(NostrDomain) = 15 /\ NostrDomain[3] = 99
  BY DEF NostrDomain, Byte
<1>2. /\ DependentDomain \in Seq(Byte) /\ Len(DependentDomain) = 15
      /\ DependentDomain[1] = 105
  BY DEF DependentDomain, Byte
<1> DEFINE tail == <<47, 100, 101, 112, 101, 110, 100, 101, 110, 116, 47>>
<1>3. tail \in Seq(Byte) /\ Len(tail) = 11
  BY DEF Byte
<1>4. DependentNostrDomain = NostrDomain \o tail
  BY DEF DependentNostrDomain
<1> HIDE DEF tail
<1>5. DependentNostrDomain \in Seq(Byte) /\ Len(DependentNostrDomain) = 26
  <2>1. Joined(NostrDomain, tail, DependentNostrDomain)
    BY <1>1, <1>3, <1>4, ConcatBytes
  <2> QED
    BY <1>1, <1>3, <2>1 DEF Joined
<1> QED
  BY <1>1, <1>2, <1>5

\* A request names a 32-byte seed and a u32 index.
LEMMA RequestBytes ==
    ASSUME NEW r \in Request
    PROVE  /\ r.kind \in {"root", "dependent"}
           /\ r.seed \in Seq(Byte) /\ Len(r.seed) = 32
           /\ r.index \in Index
           /\ LE32(r.index) \in Seq(Byte) /\ Len(LE32(r.index)) = 4
BY SeedAssumption, IndexBytes DEF Request

\* A request is told by its three parts.
LEMMA RequestEquality ==
    ASSUME NEW r \in Request, NEW q \in Request,
           r.kind = q.kind, r.seed = q.seed, r.index = q.index
    PROVE  r = q
BY DEF Request

\* The holder's Ed25519 secret: seed, index.
LEMMA RootSecret ==
    ASSUME NEW r \in Request, r.kind = "root"
    PROVE  /\ Len(EdSecret(r)) = 36
           /\ \A i \in 1 .. 4 : EdSecret(r)[32 + i] = LE32(r.index)[i]
<1>0. /\ r.seed \in Seq(Byte) /\ Len(r.seed) = 32
      /\ LE32(r.index) \in Seq(Byte) /\ Len(LE32(r.index)) = 4
  BY RequestBytes
<1>1. Joined(r.seed, LE32(r.index), EdSecret(r))
  BY <1>0, ConcatBytes DEF EdSecret
<1> QED
  BY <1>0, <1>1 DEF Joined

\* A dependent's Ed25519 secret: seed, domain, index.
LEMMA DependentSecret ==
    ASSUME NEW r \in Request, r.kind = "dependent"
    PROVE  /\ Len(EdSecret(r)) = 51
           /\ \A i \in 1 .. 32 : EdSecret(r)[i] = r.seed[i]
           /\ EdSecret(r)[33] = 105
           /\ \A i \in 1 .. 4 : EdSecret(r)[47 + i] = LE32(r.index)[i]
<1> DEFINE rest == DependentDomain \o LE32(r.index)
<1>0. /\ r.seed \in Seq(Byte) /\ Len(r.seed) = 32
      /\ LE32(r.index) \in Seq(Byte) /\ Len(LE32(r.index)) = 4
  BY RequestBytes
<1>1. /\ rest \in Seq(Byte) /\ Len(rest) = 19
      /\ rest[1] = 105
      /\ \A i \in 1 .. 4 : rest[15 + i] = LE32(r.index)[i]
  <2>1. Joined(DependentDomain, LE32(r.index), rest)
    BY <1>0, Domains, ConcatBytes
  <2> HIDE DEF rest
  <2>2. Len(DependentDomain) = 15 /\ DependentDomain[1] = 105
    BY Domains
  <2> QED
    BY <1>0, <2>1, <2>2 DEF Joined
<1>2. EdSecret(r) = r.seed \o rest
  <2>1. EdSecret(r) = (r.seed \o DependentDomain) \o LE32(r.index)
    BY DEF EdSecret
  <2>2. /\ r.seed \in Seq(Byte)
        /\ DependentDomain \in Seq(Byte)
        /\ LE32(r.index) \in Seq(Byte)
    BY <1>0, Domains
  <2>3. \A s, t, u \in Seq(Byte) : (s \o t) \o u = s \o (t \o u)
    BY ConcatAssociative
  <2> QED
    BY <2>1, <2>2, <2>3, Zenon
<1> HIDE DEF rest
<1>3. /\ Len(EdSecret(r)) = 51
      /\ \A i \in 1 .. 32 : EdSecret(r)[i] = r.seed[i]
      /\ \A i \in 1 .. 19 : EdSecret(r)[32 + i] = rest[i]
  <2>1. Joined(r.seed, rest, EdSecret(r))
    BY <1>0, <1>1, <1>2, ConcatBytes
  <2> DEFINE whole == EdSecret(r)
  <2>2. Joined(r.seed, rest, whole)
    BY <2>1
  <2> HIDE DEF whole
  <2>3. Len(whole) = 51
    BY <1>0, <1>1, <2>2 DEF Joined
  <2>4. \A i \in 1 .. 32 : whole[i] = r.seed[i]
    BY <1>0, <2>2 DEF Joined
  <2>5. \A i \in 1 .. 19 : whole[32 + i] = rest[i]
    BY <1>0, <1>1, <2>2 DEF Joined
  <2> QED
    BY <2>3, <2>4, <2>5 DEF whole
<1>4. EdSecret(r)[33] = 105
  <2>1. EdSecret(r)[32 + 1] = rest[1]
    BY <1>3
  <2> QED
    BY <1>1, <2>1
<1>5. ASSUME NEW i \in 1 .. 4
      PROVE  EdSecret(r)[47 + i] = LE32(r.index)[i]
  <2>1. 15 + i \in 1 .. 19 /\ 47 + i = 32 + (15 + i)
    OBVIOUS
  <2> QED
    BY <1>1, <1>3, <2>1
<1> QED
  BY <1>3, <1>4, <1>5

DomainLength(r) == IF r.kind = "root" THEN 15 ELSE 26

\* How `bytes' is made: domain, seed, index, and the attempt from the second on.
ScalarShape(r, n, bytes) ==
    /\ Len(bytes) = DomainLength(r) + 36 + (IF n = 0 THEN 0 ELSE 1)
    /\ r.kind = "root" => bytes[3] = 99
    /\ \A i \in 1 .. 32 : bytes[DomainLength(r) + i] = r.seed[i]
    /\ \A i \in 1 .. 4 : bytes[DomainLength(r) + 32 + i] = LE32(r.index)[i]

\* A candidate scalar has that shape.
LEMMA CandidateBytes ==
    ASSUME NEW r \in Request, NEW n \in 0 .. ScalarAttempts
    PROVE  ScalarShape(r, n, Candidate(r, n))
<1> DEFINE d == ScalarDomain(r)
           last == IF n = 0 THEN << >> ELSE <<n>>
           front == d \o r.seed
           most == front \o LE32(r.index)
<1>0. /\ r.seed \in Seq(Byte) /\ Len(r.seed) = 32
      /\ LE32(r.index) \in Seq(Byte) /\ Len(LE32(r.index)) = 4
  BY RequestBytes
<1>1. /\ d \in Seq(Byte) /\ Len(d) = DomainLength(r)
      /\ r.kind = "root" => d[3] = 99
      /\ DomainLength(r) \in Nat /\ DomainLength(r) >= 3
  <2>1. CASE r.kind = "root"
    <3>1. d = NostrDomain /\ DomainLength(r) = 15
      BY <2>1 DEF ScalarDomain, DomainLength
    <3> QED
      BY <3>1, Domains
  <2>2. CASE r.kind # "root"
    <3>1. d = DependentNostrDomain /\ DomainLength(r) = 26
      BY <2>2 DEF ScalarDomain, DomainLength
    <3> QED
      BY <2>2, <3>1, Domains
  <2> QED
    BY <2>1, <2>2
<1>2. last \in Seq(Byte) /\ Len(last) = IF n = 0 THEN 0 ELSE 1
  <2>1. CASE n = 0
    BY <2>1
  <2>2. CASE n # 0
    <3>1. n \in Byte
      BY AttemptsAssumption DEF Byte
    <3> QED
      BY <2>2, <3>1
  <2> QED
    BY <2>1, <2>2
<1>3. Candidate(r, n) = most \o last
  BY DEF Candidate
<1> HIDE DEF d, last
<1>4. /\ front \in Seq(Byte) /\ Len(front) = DomainLength(r) + 32
      /\ r.kind = "root" => front[3] = 99
      /\ \A i \in 1 .. 32 : front[DomainLength(r) + i] = r.seed[i]
  <2>1. Joined(d, r.seed, front)
    BY <1>0, <1>1, ConcatBytes
  <2> HIDE DEF front
  <2> QED
    BY <1>0, <1>1, <2>1 DEF Joined
<1>5. /\ most \in Seq(Byte) /\ Len(most) = DomainLength(r) + 36
      /\ \A i \in 1 .. DomainLength(r) + 32 : most[i] = front[i]
      /\ \A i \in 1 .. 4 : most[DomainLength(r) + 32 + i] = LE32(r.index)[i]
  <2> HIDE DEF front
  <2>1. Joined(front, LE32(r.index), most)
    BY <1>0, <1>4, ConcatBytes
  <2> HIDE DEF most
  <2> QED
    BY <1>0, <1>1, <1>4, <2>1 DEF Joined
<1>6. /\ Len(Candidate(r, n)) = DomainLength(r) + 36 + (IF n = 0 THEN 0 ELSE 1)
      /\ \A i \in 1 .. DomainLength(r) + 36 : Candidate(r, n)[i] = most[i]
  <2> HIDE DEF most
  <2>1. Joined(most, last, Candidate(r, n))
    BY <1>2, <1>3, <1>5, ConcatBytes
  <2> QED
    BY <1>1, <1>2, <1>5, <2>1 DEF Joined
<1> HIDE DEF front, most
<1>7. r.kind = "root" => Candidate(r, n)[3] = 99
  <2>1. 3 \in 1 .. DomainLength(r) + 32 /\ 3 \in 1 .. DomainLength(r) + 36
    BY <1>1
  <2> QED
    BY <1>4, <1>5, <1>6, <2>1
<1>8. ASSUME NEW i \in 1 .. 32
      PROVE  Candidate(r, n)[DomainLength(r) + i] = r.seed[i]
  <2>1. /\ DomainLength(r) + i \in 1 .. DomainLength(r) + 32
        /\ DomainLength(r) + i \in 1 .. DomainLength(r) + 36
    BY <1>1
  <2>2. Candidate(r, n)[DomainLength(r) + i] = most[DomainLength(r) + i]
    BY <1>6, <2>1
  <2>3. most[DomainLength(r) + i] = front[DomainLength(r) + i]
    BY <1>5, <2>1
  <2>4. front[DomainLength(r) + i] = r.seed[i]
    BY <1>4
  <2> QED
    BY <2>2, <2>3, <2>4
<1>9. ASSUME NEW i \in 1 .. 4
      PROVE  Candidate(r, n)[DomainLength(r) + 32 + i] = LE32(r.index)[i]
  <2>1. DomainLength(r) + 32 + i \in 1 .. DomainLength(r) + 36
    BY <1>1
  <2> QED
    BY <1>5, <1>6, <2>1
<1> QED
  BY <1>6, <1>7, <1>8, <1>9 DEF ScalarShape

-----------------------------------------------------------------------------
(* No two of the secrets of a seed are made of the same bytes              *)

\* An Ed25519 secret tells its request.
LEMMA EdInjective ==
    ASSUME NEW r \in Request, NEW q \in Request,
           r.seed = q.seed, EdSecret(r) = EdSecret(q)
    PROVE  r = q
<1>1. r.kind = q.kind
  <2>1. CASE r.kind = "root" /\ q.kind = "dependent"
    BY <2>1, RootSecret, DependentSecret
  <2>2. CASE r.kind = "dependent" /\ q.kind = "root"
    BY <2>2, RootSecret, DependentSecret
  <2> QED
    BY <2>1, <2>2, RequestBytes
<1>2. \A i \in 1 .. 4 : LE32(r.index)[i] = LE32(q.index)[i]
  <2> SUFFICES ASSUME NEW i \in 1 .. 4
               PROVE  LE32(r.index)[i] = LE32(q.index)[i]
    OBVIOUS
  <2>1. CASE r.kind = "root"
    <3>1. /\ EdSecret(r)[32 + i] = LE32(r.index)[i]
          /\ EdSecret(q)[32 + i] = LE32(q.index)[i]
      BY <1>1, <2>1, RootSecret
    <3> QED
      BY <3>1
  <2>2. CASE r.kind = "dependent"
    <3>1. /\ EdSecret(r)[47 + i] = LE32(r.index)[i]
          /\ EdSecret(q)[47 + i] = LE32(q.index)[i]
      BY <1>1, <2>2, DependentSecret
    <3> QED
      BY <3>1
  <2> QED
    BY <2>1, <2>2, RequestBytes
<1>3. r.index = q.index
  BY <1>2, RequestBytes, IndexBytesInjective
<1> QED
  BY <1>1, <1>3, RequestEquality

\* A candidate scalar tells its request, whichever attempt it is of.
LEMMA CandidateInjective ==
    ASSUME NEW r \in Request, NEW q \in Request,
           NEW m \in 0 .. ScalarAttempts, NEW n \in 0 .. ScalarAttempts,
           r.seed = q.seed, Candidate(r, m) = Candidate(q, n)
    PROVE  r = q
<1>0. ScalarShape(r, m, Candidate(r, m)) /\ ScalarShape(q, n, Candidate(q, n))
  BY CandidateBytes
<1>1. DomainLength(r) = DomainLength(q)
  <2>1. /\ Len(Candidate(r, m)) = DomainLength(r) + 36 + (IF m = 0 THEN 0 ELSE 1)
        /\ Len(Candidate(q, n)) = DomainLength(q) + 36 + (IF n = 0 THEN 0 ELSE 1)
    BY <1>0 DEF ScalarShape
  <2> QED
    BY <2>1 DEF DomainLength
<1>2. r.kind = q.kind
  BY <1>1, RequestBytes DEF DomainLength
<1>3. \A i \in 1 .. 4 : LE32(r.index)[i] = LE32(q.index)[i]
  <2> SUFFICES ASSUME NEW i \in 1 .. 4
               PROVE  LE32(r.index)[i] = LE32(q.index)[i]
    OBVIOUS
  <2>1. /\ Candidate(r, m)[DomainLength(r) + 32 + i] = LE32(r.index)[i]
        /\ Candidate(q, n)[DomainLength(q) + 32 + i] = LE32(q.index)[i]
    BY <1>0 DEF ScalarShape
  <2> QED
    BY <1>1, <2>1
<1>4. r.index = q.index
  BY <1>3, RequestBytes, IndexBytesInjective
<1> QED
  BY <1>2, <1>4, RequestEquality

\* A dependent's Ed25519 secret and a scalar of the root holder are as long.
\* Were they the same bytes, the third byte of the scalar's domain would be
\* the third of the seed, hence its eighteenth, hence the first of "iyou/..".
LEMMA CurvesApart ==
    ASSUME NEW r \in Request, NEW q \in Request,
           NEW n \in 0 .. ScalarAttempts, r.seed = q.seed
    PROVE  EdSecret(r) # Candidate(q, n)
<1> SUFFICES ASSUME EdSecret(r) = Candidate(q, n) PROVE FALSE
  OBVIOUS
<1>1. Len(Candidate(q, n)) = DomainLength(q) + 36 + (IF n = 0 THEN 0 ELSE 1)
  BY CandidateBytes DEF ScalarShape
<1>2. DomainLength(q) \in {15, 26}
  BY DEF DomainLength
<1>3. r.kind = "dependent"
  <2>1. CASE r.kind = "root"
    <3>1. Len(EdSecret(r)) = 36
      BY <2>1, RootSecret
    <3>2. Len(Candidate(q, n)) >= 51
      BY <1>1, <1>2
    <3> QED
      BY <3>1, <3>2
  <2> QED
    BY <2>1, RequestBytes
<1>4. q.kind = "root" /\ DomainLength(q) = 15
  <2>1. Len(EdSecret(r)) = 51
    BY <1>3, DependentSecret
  <2>2. DomainLength(q) # 26
    <3>1. DomainLength(q) = 26 => Len(Candidate(q, n)) >= 62
      BY <1>1
    <3> QED
      BY <2>1, <3>1
  <2> QED
    BY <1>2, <2>2 DEF DomainLength
<1> DEFINE bytes == EdSecret(r)
<1>5. /\ \A i \in 1 .. 32 : bytes[i] = r.seed[i]
      /\ bytes[33] = 105
  BY <1>3, DependentSecret
<1>6. /\ bytes[3] = 99
      /\ \A i \in 1 .. 32 : bytes[15 + i] = r.seed[i]
  <2>1. ScalarShape(q, n, bytes)
    BY CandidateBytes
  <2> HIDE DEF bytes
  <2> QED
    BY <1>4, <2>1 DEF ScalarShape
<1> HIDE DEF bytes
<1>7. r.seed[3] = 99
  BY <1>5, <1>6
<1>8. r.seed[18] = 99
  <2>1. bytes[15 + 3] = r.seed[3] /\ bytes[18] = r.seed[18]
    BY <1>5, <1>6
  <2> QED
    BY <1>7, <2>1
<1>9. bytes[33] = 99
  <2>1. bytes[15 + 18] = r.seed[18]
    BY <1>6
  <2> QED
    BY <1>8, <2>1
<1> QED
  BY <1>5, <1>9

-----------------------------------------------------------------------------
(* The invariants                                                          *)

\* Every derivation keeps the types.
THEOREM TypeCorrect == Spec => []TypeOK
<1>1. Init => TypeOK
  BY AttemptsAssumption, CallsAssumption DEF Init, TypeOK
<1>2. TypeOK /\ [Next]_vars => TypeOK'
  <2> SUFFICES ASSUME TypeOK, [Next]_vars PROVE TypeOK'
    OBVIOUS
  <2> USE DEF TypeOK
  <2>1. ASSUME NEW r \in Request, Derive(r) PROVE TypeOK'
    BY <2>1, AttemptsAssumption, CallsAssumption DEF Derive
  <2>2. CASE FindScalar
    BY <2>2 DEF FindScalar, Searching
  <2>3. CASE RetryScalar
    BY <2>3, AttemptsAssumption DEF RetryScalar, Refuse, Searching
  <2>4. CASE GiveUp
    BY <2>4 DEF GiveUp, Refuse, Searching
  <2>5. CASE UNCHANGED vars
    BY <2>5 DEF vars
  <2> QED
    BY <2>1, <2>2, <2>3, <2>4, <2>5 DEF Next
<1> QED
  BY <1>1, <1>2, PTL DEF Spec

\* The candidates of r before the n-th are known not to be scalars.
RefusedBefore(r, n, hashes) ==
    \A m \in 0 .. ScalarAttempts : m < n => Candidate(r, m) \in hashes

\* What the search has found out: no hash is both, every identity has the
\* secrets of its request - the scalar being the first candidate that is not
\* refused - and a failed request had all its candidates refused.
SearchInv ==
    /\ scalars \cap refused = {}
    /\ \A x \in derived :
          /\ x = [of |-> x.of, ed |-> x.ed, secp |-> x.secp]
          /\ x.ed = EdSecret(x.of)
          /\ \E n \in 0 .. ScalarAttempts :
                /\ x.secp = Candidate(x.of, n)
                /\ x.secp \in scalars
                /\ RefusedBefore(x.of, n, refused)
    /\ \A r \in failed :
          \A m \in 0 .. ScalarAttempts : Candidate(r, m) \in refused
    /\ request # NoRequest => RefusedBefore(request, attempt, refused)

\* Every call starts its search afresh, and no answer of the oracle changes.
LEMMA SearchInvHolds == Spec => []SearchInv
<1>1. Init => SearchInv
  BY DEF Init, SearchInv
<1>2. TypeOK /\ SearchInv /\ [Next]_vars => SearchInv'
  <2> SUFFICES ASSUME TypeOK, SearchInv, [Next]_vars PROVE SearchInv'
    OBVIOUS
  <2>1. ASSUME NEW r \in Request, Derive(r) PROVE SearchInv'
    BY <2>1 DEF Derive, SearchInv, RefusedBefore
  <2>2. CASE FindScalar
    <3> DEFINE found == Candidate(request, attempt)
               new == [of |-> request, ed |-> EdSecret(request), secp |-> found]
    <3>1. /\ found \notin refused /\ refused' = refused
          /\ scalars' = scalars \cup {found}
          /\ derived' = derived \cup {new}
          /\ failed' = failed /\ request' = NoRequest
          /\ attempt \in 0 .. ScalarAttempts
          /\ RefusedBefore(request, attempt, refused)
      BY <2>2 DEF FindScalar, Searching, SearchInv, TypeOK
    <3>2. /\ new.of = request /\ new.ed = EdSecret(request)
          /\ new.secp = found /\ found = Candidate(request, attempt)
          /\ new = [of |-> new.of, ed |-> new.ed, secp |-> new.secp]
      OBVIOUS
    <3> HIDE DEF found, new
    <3>3. (scalars \cap refused = {})'
      BY <3>1 DEF SearchInv
    <3>4. ASSUME NEW x \in derived'
          PROVE  /\ x = [of |-> x.of, ed |-> x.ed, secp |-> x.secp]
                 /\ x.ed = EdSecret(x.of)
                 /\ \E n \in 0 .. ScalarAttempts :
                       /\ x.secp = Candidate(x.of, n)
                       /\ x.secp \in scalars'
                       /\ RefusedBefore(x.of, n, refused')
      <4>1. CASE x = new
        BY <3>1, <3>2, <4>1
      <4>2. CASE x \in derived
        BY <3>1, <4>2 DEF SearchInv
      <4> QED
        BY <3>1, <4>1, <4>2
    <3>5. (\A r \in failed :
             \A m \in 0 .. ScalarAttempts : Candidate(r, m) \in refused)'
      BY <3>1 DEF SearchInv
    <3> QED
      BY <3>1, <3>3, <3>4, <3>5 DEF SearchInv
  <2>3. ASSUME Refuse
        PROVE  /\ (scalars \cap refused = {})'
               /\ refused \subseteq refused'
               /\ derived' = derived /\ scalars' = scalars
               /\ attempt \in 0 .. ScalarAttempts
               /\ \A m \in 0 .. ScalarAttempts :
                     m <= attempt => Candidate(request, m) \in refused'
    <3>1. /\ Candidate(request, attempt) \notin scalars
          /\ refused' = refused \cup {Candidate(request, attempt)}
          /\ derived' = derived /\ scalars' = scalars
          /\ RefusedBefore(request, attempt, refused)
          /\ attempt \in 0 .. ScalarAttempts
      BY <2>3 DEF Refuse, Searching, SearchInv, TypeOK
    <3>2. ASSUME NEW m \in 0 .. ScalarAttempts, m <= attempt
          PROVE  Candidate(request, m) \in refused'
      <4>1. CASE m = attempt
        BY <3>1, <4>1
      <4>2. CASE m < attempt
        BY <3>1, <4>2 DEF RefusedBefore
      <4> QED
        BY <3>1, <3>2, <4>1, <4>2
    <3> QED
      BY <3>1, <3>2 DEF SearchInv
  <2>4. ASSUME Refuse
        PROVE  \A x \in derived' :
                 /\ x = [of |-> x.of, ed |-> x.ed, secp |-> x.secp]
                 /\ x.ed = EdSecret(x.of)
                 /\ \E n \in 0 .. ScalarAttempts :
                       /\ x.secp = Candidate(x.of, n)
                       /\ x.secp \in scalars'
                       /\ RefusedBefore(x.of, n, refused')
    BY <2>3, <2>4 DEF SearchInv, RefusedBefore
  <2>5. CASE RetryScalar
    <3>1. Refuse /\ attempt' = attempt + 1 /\ request' = request /\ failed' = failed
      BY <2>5 DEF RetryScalar
    <3>2. RefusedBefore(request, attempt + 1, refused')
      BY <2>3, <3>1 DEF RefusedBefore
    <3>3. \A r \in failed :
             \A m \in 0 .. ScalarAttempts : Candidate(r, m) \in refused'
      BY <2>3, <3>1 DEF SearchInv
    <3> QED
      BY <2>3, <2>4, <3>1, <3>2, <3>3 DEF SearchInv
  <2>6. CASE GiveUp
    <3>1. /\ Refuse /\ attempt = ScalarAttempts
          /\ failed' = failed \cup {request} /\ request' = NoRequest
      BY <2>6 DEF GiveUp
    <3>2. \A m \in 0 .. ScalarAttempts : Candidate(request, m) \in refused'
      BY <2>3, <3>1, AttemptsAssumption
    <3>3. \A r \in failed' :
             \A m \in 0 .. ScalarAttempts : Candidate(r, m) \in refused'
      BY <2>3, <3>1, <3>2 DEF SearchInv
    <3> QED
      BY <2>3, <2>4, <3>1, <3>3 DEF SearchInv
  <2>7. CASE UNCHANGED vars
    BY <2>7 DEF vars, SearchInv, RefusedBefore
  <2> QED
    BY <2>1, <2>2, <2>5, <2>6, <2>7 DEF Next
<1> QED
  BY <1>1, <1>2, TypeCorrect, PTL DEF Spec

\* The secrets of one seed are separate (crypto.rs's domain strings do what
\* they are there for), whatever 32 bytes the seed is.
THEOREM Separation == Spec => []SecretsAreSeparate
<1>1. TypeOK /\ SearchInv => SecretsAreSeparate
  <2> SUFFICES ASSUME TypeOK, SearchInv,
                      NEW x \in derived, NEW y \in derived,
                      x.of.seed = y.of.seed
               PROVE  /\ x.ed # y.secp
                      /\ x.ed = y.ed => x.of = y.of
                      /\ x.secp = y.secp => x.of = y.of
    BY DEF SecretsAreSeparate
  <2>1. x.of \in Request /\ y.of \in Request
    BY DEF TypeOK
  <2>2. x.ed = EdSecret(x.of) /\ y.ed = EdSecret(y.of)
    BY DEF SearchInv
  <2>3. PICK m \in 0 .. ScalarAttempts : x.secp = Candidate(x.of, m)
    BY DEF SearchInv
  <2>4. PICK n \in 0 .. ScalarAttempts : y.secp = Candidate(y.of, n)
    BY DEF SearchInv
  <2>5. x.ed # y.secp
    BY <2>1, <2>2, <2>4, CurvesApart
  <2>6. x.ed = y.ed => x.of = y.of
    BY <2>1, <2>2, EdInjective
  <2>7. x.secp = y.secp => x.of = y.of
    BY <2>1, <2>3, <2>4, CandidateInjective
  <2> QED
    BY <2>5, <2>6, <2>7
<1> QED
  BY <1>1, TypeCorrect, SearchInvHolds, PTL

\* What a seed brought once it brings again, and does not fail to.
THEOREM Stability == Spec => []DerivationIsStable
<1>1. SearchInv => DerivationIsStable
  <2> SUFFICES ASSUME SearchInv PROVE DerivationIsStable
    OBVIOUS
  <2>1. ASSUME NEW x \in derived, NEW y \in derived, x.of = y.of
        PROVE  x = y
    <3>1. PICK m \in 0 .. ScalarAttempts :
            /\ x.secp = Candidate(x.of, m)
            /\ x.secp \in scalars
            /\ RefusedBefore(x.of, m, refused)
      BY DEF SearchInv
    <3>2. PICK n \in 0 .. ScalarAttempts :
            /\ y.secp = Candidate(y.of, n)
            /\ y.secp \in scalars
            /\ RefusedBefore(y.of, n, refused)
      BY DEF SearchInv
    <3>3. scalars \cap refused = {}
      BY DEF SearchInv
    <3>4. ~(m < n)
      BY <2>1, <3>1, <3>2, <3>3 DEF RefusedBefore
    <3>5. ~(n < m)
      BY <2>1, <3>1, <3>2, <3>3 DEF RefusedBefore
    <3>6. m = n
      BY <3>4, <3>5
    <3>7. x.secp = y.secp /\ x.ed = y.ed
      BY <2>1, <3>1, <3>2, <3>6 DEF SearchInv
    <3>8. /\ x = [of |-> x.of, ed |-> x.ed, secp |-> x.secp]
          /\ y = [of |-> y.of, ed |-> y.ed, secp |-> y.secp]
      BY DEF SearchInv
    <3> QED
      BY <2>1, <3>7, <3>8
  <2>2. ASSUME NEW x \in derived, x.of \in failed
        PROVE  FALSE
    BY <2>2 DEF SearchInv
  <2> QED
    BY <2>1, <2>2 DEF DerivationIsStable
<1> QED
  BY <1>1, SearchInvHolds, PTL

=============================================================================
