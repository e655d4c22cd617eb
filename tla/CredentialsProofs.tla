------------------------- MODULE CredentialsProofs --------------------------
(***************************************************************************)
(* What the ordered map guarantees, for objects of any length, and what      *)
(* that means for the objects that are signed and verified.                 *)
(***************************************************************************)
EXTENDS Credentials, TLAPS

(* Objects                                                                 *)

(* An object is the sequence of its members.                               *)
LEMMA ObjectShape ==
    ASSUME NEW o, IsObject(o)
    PROVE  /\ Len(o) \in Nat
           /\ DOMAIN o = 1 .. Len(o)
           /\ o = [i \in 1 .. Len(o) |-> o[i]]
  BY DEF IsObject

(* A function on 1 .. n is a sequence of that length.                      *)
LEMMA ShapeIsSequence ==
    ASSUME NEW n \in Nat, NEW o, o = [i \in 1 .. n |-> o[i]]
    PROVE  o \in Seq({ o[i] : i \in DOMAIN o }) /\ Len(o) = n
  OBVIOUS

(* A key that is there is at exactly one position.                         *)
LEMMA PositionOfMember ==
    ASSUME NEW o, NEW key, IsObject(o), NEW i \in 1 .. Len(o), o[i][1] = key
    PROVE  Has(o, key) /\ Position(o, key) = i
  BY DEF IsObject, DistinctKeys, Has, Position

(* The position of a key that is there is one of the object's.             *)
LEMMA PositionInObject ==
    ASSUME NEW o, NEW key, IsObject(o), Has(o, key)
    PROVE  /\ Position(o, key) \in 1 .. Len(o)
           /\ o[Position(o, key)][1] = key
  BY DEF IsObject, Has, Position

-----------------------------------------------------------------------------
(* Map::insert                                                             *)

(* Insertion keeps an object an object, and touches no other member.       *)
LEMMA InsertObject ==
    ASSUME NEW o, NEW key, NEW v, IsObject(o)
    PROVE  /\ IsObject(Insert(o, key, v))
           /\ Has(Insert(o, key, v), key)
           /\ Get(Insert(o, key, v), key) = v
           /\ \A other : other # key =>
                 /\ Has(Insert(o, key, v), other) <=> Has(o, other)
                 /\ Has(o, other) =>
                       Get(Insert(o, key, v), other) = Get(o, other)
  <1> DEFINE q == Insert(o, key, v)
  <1>0. /\ Len(o) \in Nat /\ DOMAIN o = 1 .. Len(o)
        /\ o = [i \in 1 .. Len(o) |-> o[i]]
    BY ObjectShape
  <1>1. CASE Has(o, key)
    <2> DEFINE p == Position(o, key)
    <2>1. p \in 1 .. Len(o) /\ o[p][1] = key
      BY <1>1, PositionInObject
    <2>2. q = [o EXCEPT ![p] = <<key, v>>]
      BY <1>1 DEF Insert
    <2>3. /\ DOMAIN q = 1 .. Len(o)
          /\ q[p] = <<key, v>>
          /\ \A i \in 1 .. Len(o) : i # p => q[i] = o[i]
          /\ \A i \in 1 .. Len(o) : q[i][1] = o[i][1]
      BY <1>0, <2>1, <2>2
    <2>4. IsObject(q) /\ Len(q) = Len(o)
      <3>1. q = [i \in 1 .. Len(o) |-> q[i]]
        BY <1>0, <2>2
      <3>2. DistinctKeys(q)
        BY <1>0, <2>3 DEF IsObject, DistinctKeys
      <3> QED
        BY <1>0, <3>1, <3>2, ShapeIsSequence DEF IsObject
    <2>5. Has(q, key) /\ Get(q, key) = v
      BY <2>1, <2>3, <2>4, PositionOfMember DEF Get
    <2>6. ASSUME NEW other, other # key
          PROVE  /\ Has(q, other) <=> Has(o, other)
                 /\ Has(o, other) => Get(q, other) = Get(o, other)
      <3>1. Has(q, other) <=> Has(o, other)
        BY <1>0, <2>3 DEF Has
      <3>2. ASSUME Has(o, other)
            PROVE  Get(q, other) = Get(o, other)
        <4>1. /\ Position(o, other) \in 1 .. Len(o)
              /\ o[Position(o, other)][1] = other
          BY <3>2, PositionInObject
        <4>2. Position(q, other) = Position(o, other)
          BY <2>3, <2>4, <4>1, PositionOfMember
        <4> QED
          BY <2>1, <2>3, <2>6, <4>1, <4>2 DEF Get
      <3> QED
        BY <3>1, <3>2
    <2> QED
      BY <2>4, <2>5, <2>6
  <1>2. CASE ~Has(o, key)
    <2> DEFINE n == Len(o)
    <2>1. q = Append(o, <<key, v>>)
      BY <1>2 DEF Insert
    <2>2. /\ q = [i \in 1 .. n + 1 |-> IF i = n + 1 THEN <<key, v>> ELSE o[i]]
          /\ Len(q) = n + 1
          /\ DOMAIN q = 1 .. n + 1
      BY <1>0, <2>1 DEF IsObject
    <2>3. /\ q[n + 1] = <<key, v>>
          /\ \A i \in 1 .. n : q[i] = o[i] /\ o[i][1] # key
      BY <1>0, <1>2, <2>2 DEF Has
    <2>4. DistinctKeys(q)
      <3>1. \A i, j \in 1 .. n : o[i][1] = o[j][1] => i = j
        BY <1>0 DEF IsObject, DistinctKeys
      <3>2. q[n + 1][1] = key
        BY <2>3
      <3>3. \A i \in 1 .. n + 1 : i \in 1 .. n \/ i = n + 1
        BY <1>0
      <3>4. ASSUME NEW i \in 1 .. n + 1, NEW j \in 1 .. n + 1,
                   q[i][1] = q[j][1]
            PROVE  i = j
        <4>1. CASE i \in 1 .. n /\ j \in 1 .. n
          BY <2>3, <3>1, <3>4, <4>1
        <4>2. CASE i = n + 1 /\ j = n + 1
          BY <4>2
        <4>3. CASE i \in 1 .. n /\ j = n + 1
          BY <2>3, <3>2, <3>4, <4>3
        <4>4. CASE i = n + 1 /\ j \in 1 .. n
          BY <2>3, <3>2, <3>4, <4>4
        <4> QED
          BY <3>3, <4>1, <4>2, <4>3, <4>4
      <3> QED
        BY <2>2, <3>4 DEF DistinctKeys
    <2>5. IsObject(q)
      BY <1>0, <2>2, <2>4 DEF IsObject
    <2>6. Has(q, key) /\ Get(q, key) = v
      BY <1>0, <2>2, <2>3, <2>5, PositionOfMember DEF Get
    <2>7. ASSUME NEW other, other # key
          PROVE  /\ Has(q, other) <=> Has(o, other)
                 /\ Has(o, other) => Get(q, other) = Get(o, other)
      <3>1. Has(q, other) <=> Has(o, other)
        BY <1>0, <2>2, <2>3, <2>7 DEF Has
      <3>2. ASSUME Has(o, other)
            PROVE  Get(q, other) = Get(o, other)
        <4>1. /\ Position(o, other) \in 1 .. n
              /\ o[Position(o, other)][1] = other
          BY <3>2, PositionInObject
        <4>2. Position(q, other) = Position(o, other)
          BY <1>0, <2>2, <2>3, <2>5, <4>1, PositionOfMember
        <4> QED
          BY <2>3, <4>1, <4>2 DEF Get
      <3> QED
        BY <3>1, <3>2
    <2> QED
      BY <2>5, <2>6, <2>7
  <1> QED
    BY <1>1, <1>2

-----------------------------------------------------------------------------
(* Map::remove                                                             *)

(* Removal keeps an object an object, takes the key out, and loses no       *)
(* other member, though it moves the last one.                              *)
LEMMA RemoveObject ==
    ASSUME NEW o, NEW key, IsObject(o)
    PROVE  /\ IsObject(SwapRemove(o, key))
           /\ ~Has(SwapRemove(o, key), key)
           /\ \A other : other # key =>
                 (Has(SwapRemove(o, key), other) <=> Has(o, other))
  <1> DEFINE q == SwapRemove(o, key)
  <1>0. /\ Len(o) \in Nat /\ DOMAIN o = 1 .. Len(o)
    BY ObjectShape
  <1>1. CASE ~Has(o, key)
    BY <1>1 DEF SwapRemove
  <1>2. CASE Has(o, key)
    <2> DEFINE p == Position(o, key)
               n == Len(o)
    <2>0. \A i \in 1 .. n : i \in 1 .. n - 1 \/ i = n
      <3>1. \A m \in Nat : \A i \in 1 .. m : i \in 1 .. m - 1 \/ i = m
        OBVIOUS
      <3> QED
        BY <1>0, <3>1
    <2>1. p \in 1 .. n /\ o[p][1] = key
      BY <1>2, PositionInObject
    <2>2. q = [i \in 1 .. n - 1 |-> IF i = p THEN o[n] ELSE o[i]]
      BY <1>2 DEF SwapRemove
    <2>3. n - 1 \in Nat /\ DOMAIN q = 1 .. n - 1
      BY <1>0, <2>1, <2>2
    <2>4. \A i \in 1 .. n : o[i][1] = key => i = p
      BY <1>0, <2>1 DEF IsObject, DistinctKeys
    <2>5. DistinctKeys(q)
      BY <1>0, <2>1, <2>2, <2>3 DEF IsObject, DistinctKeys
    <2>6. IsObject(q)
      <3>1. q = [i \in 1 .. n - 1 |-> q[i]]
        BY <2>2
      <3> QED
        BY <2>3, <2>5, <3>1, ShapeIsSequence DEF IsObject
    <2>7. ~Has(q, key)
      BY <1>0, <2>1, <2>2, <2>3, <2>4 DEF Has
    <2>8. ASSUME NEW other, other # key
          PROVE  Has(q, other) <=> Has(o, other)
      <3>1. ASSUME Has(q, other)
            PROVE  Has(o, other)
        BY <1>0, <2>1, <2>2, <2>3, <3>1 DEF Has
      <3>2. ASSUME NEW i \in 1 .. n, o[i][1] = other
            PROVE  Has(q, other)
        <4>1. i # p
          BY <2>1, <2>8, <3>2
        <4>2. CASE i \in 1 .. n - 1
          <5>1. q[i] = o[i]
            BY <2>2, <4>1, <4>2
          <5> QED
            BY <2>3, <3>2, <4>2, <5>1 DEF Has
        <4>3. CASE i = n
          <5>1. p \in 1 .. n - 1 /\ q[p] = o[n]
            BY <2>0, <2>1, <2>2, <4>1, <4>3
          <5> QED
            BY <2>3, <3>2, <4>3, <5>1 DEF Has
        <4> QED
          BY <2>0, <4>2, <4>3
      <3> QED
        BY <1>0, <3>1, <3>2 DEF Has
    <2> QED
      BY <2>6, <2>7, <2>8
  <1> QED
    BY <1>1, <1>2

(* What was appended under a new key is taken out again without a trace:    *)
(* the order of the other members, and so the signed bytes, survive.        *)
LEMMA AppendThenRemove ==
    ASSUME NEW o, NEW key, NEW v, IsObject(o), ~Has(o, key)
    PROVE  SwapRemove(Insert(o, key, v), key) = o
  <1> DEFINE n == Len(o)
             q == Insert(o, key, v)
  <1>0. /\ n \in Nat /\ DOMAIN o = 1 .. n /\ o = [i \in 1 .. n |-> o[i]]
    BY ObjectShape
  <1>1. q = Append(o, <<key, v>>)
    BY DEF Insert
  <1>2. /\ Len(q) = n + 1
        /\ q[n + 1] = <<key, v>>
        /\ \A i \in 1 .. n : q[i] = o[i]
    BY <1>0, <1>1 DEF IsObject
  <1>3. IsObject(q) /\ Has(q, key)
    BY InsertObject
  <1>4. Position(q, key) = n + 1
    BY <1>0, <1>2, <1>3, PositionOfMember
  <1>5. SwapRemove(q, key) =
           [i \in 1 .. n |-> IF i = n + 1 THEN q[n + 1] ELSE q[i]]
    BY <1>0, <1>2, <1>3, <1>4 DEF SwapRemove
  <1>6. [i \in 1 .. n |-> IF i = n + 1 THEN q[n + 1] ELSE q[i]]
           = [i \in 1 .. n |-> o[i]]
    BY <1>0, <1>2
  <1> QED
    BY <1>0, <1>5, <1>6

(* What is left after a removal is the other members, whatever their order. *)
LEMMA RemovedMembers ==
    ASSUME NEW o, NEW key, IsObject(o)
    PROVE  { SwapRemove(o, key)[i] : i \in DOMAIN SwapRemove(o, key) }
              = { m \in { o[i] : i \in DOMAIN o } : m[1] # key }
  <1> DEFINE q == SwapRemove(o, key)
             n == Len(o)
  <1>0. n \in Nat /\ DOMAIN o = 1 .. n
    BY ObjectShape
  <1>1. CASE ~Has(o, key)
    BY <1>1 DEF SwapRemove, Has
  <1>2. CASE Has(o, key)
    <2> DEFINE p == Position(o, key)
    <2>0. \A i \in 1 .. n : i \in 1 .. n - 1 \/ i = n
      <3>1. \A m \in Nat : \A i \in 1 .. m : i \in 1 .. m - 1 \/ i = m
        OBVIOUS
      <3> QED
        BY <1>0, <3>1
    <2>1. p \in 1 .. n /\ o[p][1] = key
      BY <1>2, PositionInObject
    <2>2. q = [i \in 1 .. n - 1 |-> IF i = p THEN o[n] ELSE o[i]]
      BY <1>2 DEF SwapRemove
    <2>3. /\ DOMAIN q = 1 .. n - 1
          /\ \A i \in 1 .. n - 1 : q[i] = IF i = p THEN o[n] ELSE o[i]
      BY <2>2
    <2>4. \A i \in 1 .. n : o[i][1] = key <=> i = p
      BY <1>0, <2>1 DEF IsObject, DistinctKeys
    <2>5. n \in 1 .. n /\ \A i \in 1 .. n - 1 : i \in 1 .. n /\ i # n
      <3>1. \A m \in Nat : \A l \in 1 .. m :
               /\ m \in 1 .. m
               /\ \A i \in 1 .. m - 1 : i \in 1 .. m /\ i # m
        OBVIOUS
      <3> HIDE DEF p, n
      <3> QED
        BY <1>0, <2>1, <3>1 DEF n
    <2> HIDE DEF p, q
    <2>6. ASSUME NEW i \in 1 .. n - 1
          PROVE  \E j \in 1 .. n : q[i] = o[j] /\ o[j][1] # key
      <3>1. CASE i = p
        <4>1. n # p
          BY <2>5, <3>1
        <4> QED
          BY <2>3, <2>4, <2>5, <3>1, <4>1
      <3>2. CASE i # p
        BY <2>3, <2>4, <2>5, <3>2
      <3> QED
        BY <3>1, <3>2
    <2>7. ASSUME NEW j \in 1 .. n, o[j][1] # key
          PROVE  \E i \in 1 .. n - 1 : q[i] = o[j]
      <3>1. j # p
        BY <2>1, <2>7
      <3>2. CASE j \in 1 .. n - 1
        BY <2>3, <3>1, <3>2
      <3>3. CASE j = n
        <4>1. p \in 1 .. n - 1
          BY <2>0, <2>1, <3>1, <3>3
        <4> QED
          BY <2>3, <3>3, <4>1
      <3> QED
        BY <2>0, <3>2, <3>3
    <2>8. { q[i] : i \in 1 .. n - 1 } = { m \in { o[i] : i \in 1 .. n } : m[1] # key }
      <3> DEFINE before == 1 .. n
                 after  == 1 .. n - 1
      <3>1. \A i \in after : \E j \in before : q[i] = o[j] /\ o[j][1] # key
        BY <2>6
      <3>2. \A j \in before : o[j][1] # key => \E i \in after : q[i] = o[j]
        BY <2>7
      <3> HIDE DEF before, after, n
      <3>3. ASSUME NEW m \in { q[i] : i \in after }
            PROVE  m \in { x \in { o[i] : i \in before } : x[1] # key }
        <4>1. PICK i \in after : m = q[i]
          BY <3>3
        <4>2. PICK j \in before : q[i] = o[j] /\ o[j][1] # key
          BY <3>1
        <4> QED
          BY <4>1, <4>2
      <3>4. ASSUME NEW m \in { x \in { o[i] : i \in before } : x[1] # key }
            PROVE  m \in { q[i] : i \in after }
        <4>1. PICK j \in before : m = o[j] /\ m[1] # key
          BY <3>4
        <4>2. PICK i \in after : q[i] = o[j]
          BY <3>2, <4>1
        <4> QED
          BY <4>1, <4>2
      <3>5. { q[i] : i \in after } = { x \in { o[i] : i \in before } : x[1] # key }
        BY <3>3, <3>4
      <3> QED
        BY <3>5 DEF before, after
    <2> QED
      BY <1>0, <2>3, <2>8 DEF q
  <1> QED
    BY <1>1, <1>2

-----------------------------------------------------------------------------
(* Signed objects                                                          *)

(* Signing adds the proof and leaves every other member.                    *)
LEMMA SignedMembers ==
    ASSUME NEW o, NEW k, IsObject(o)
    PROVE  /\ IsObject(SignInto(o, k))
           /\ Has(SignInto(o, k), "proof")
           /\ Get(SignInto(o, k), "proof") = [proofValue |-> Sign(k, o)]
           /\ \A key : key # "proof" =>
                 /\ Has(SignInto(o, k), key) <=> Has(o, key)
                 /\ Has(o, key) => Get(SignInto(o, k), key) = Get(o, key)
  BY InsertObject DEF SignInto

(* A new presentation is an object of three members.                        *)
LEMMA PresentationShape ==
    ASSUME NEW vc, NEW holder, NEW challenge
    PROVE  LET vp == Presentation(vc, holder, challenge)
           IN  /\ IsObject(vp) /\ ~Has(vp, "proof")
               /\ Has(vp, "holder") /\ Get(vp, "holder") = holder
               /\ Has(vp, "challenge") /\ Get(vp, "challenge") = challenge
               /\ Has(vp, "verifiableCredential")
               /\ Get(vp, "verifiableCredential") = <<"array", <<vc>> >>
  <1> DEFINE vp == Presentation(vc, holder, challenge)
  <1>1. /\ Len(vp) = 3 /\ DOMAIN vp = 1 .. 3
        /\ vp[1] = <<"holder", holder>>
        /\ vp[2] = <<"challenge", challenge>>
        /\ vp[3] = <<"verifiableCredential", <<"array", <<vc>> >> >>
        /\ vp = [i \in 1 .. 3 |-> vp[i]]
    BY DEF Presentation
  <1>2. /\ vp[1][1] = "holder" /\ vp[2][1] = "challenge"
        /\ vp[3][1] = "verifiableCredential"
        /\ vp[1][2] = holder /\ vp[2][2] = challenge
        /\ vp[3][2] = <<"array", <<vc>> >>
    BY <1>1
  <1>3. \A i \in 1 .. 3 : i = 1 \/ i = 2 \/ i = 3
    OBVIOUS
  <1>4. DistinctKeys(vp)
    BY <1>1, <1>2, <1>3 DEF DistinctKeys
  <1>5. IsObject(vp)
    BY <1>1, <1>4, ShapeIsSequence DEF IsObject
  <1>6. ~Has(vp, "proof")
    BY <1>1, <1>2, <1>3 DEF Has
  <1>7. 1 \in 1 .. Len(vp) /\ 2 \in 1 .. Len(vp) /\ 3 \in 1 .. Len(vp)
    BY <1>1
  <1>8. /\ Has(vp, "holder") /\ Position(vp, "holder") = 1
        /\ Has(vp, "challenge") /\ Position(vp, "challenge") = 2
        /\ Has(vp, "verifiableCredential")
        /\ Position(vp, "verifiableCredential") = 3
    BY <1>2, <1>5, <1>7, PositionOfMember
  <1> QED
    BY <1>2, <1>5, <1>6, <1>8 DEF Get

=============================================================================
