--------------------------- MODULE BindingsProofs ---------------------------
(***************************************************************************)
(* Proofs about the C functions' strings, about what the application keeps  *)
(* of them, and about the vault, for any number of threads, addresses, keys *)
(* and drafts and payloads of any length.                                   *)
(***************************************************************************)
EXTENDS Bindings, CredentialsProofs, SequenceTheorems, TLAPS

(* The strings of the C functions                                          *)

\* f is a function on S, whatever its values.
On(f, S) == f = [x \in S |-> f[x]]

Functions ==
    On(heap, Address) /\ On(pc, Thread) /\ On(ptr, Thread)
      /\ On(got, Thread) /\ On(made, Thread)

\* What OneOwner needs to be inductive: a call that returned a string did not
\* return null.
OwnerInv ==
    /\ Functions
    /\ \A t \in Thread : Busy(t) => made[t] # Null
    /\ OneOwner

(* Before any call there are no strings.                                   *)
LEMMA InitOwner == Init => OwnerInv
  BY DEF Init, OwnerInv, Functions, On, OneOwner, Busy, Free

(* A string goes to a free address, of which no one has the pointer.        *)
LEMMA ReturnOwner ==
    ASSUME OwnerInv, NEW t \in Thread, NEW s, Return(t, s)
    PROVE  OwnerInv'
  <1>1. CASE s = Null
    BY <1>1 DEF Return, threadVars, OwnerInv, Functions, On, OneOwner, Busy, Free
  <1>2. CASE s # Null
    <2>1. PICK a \in Address : Allocate(t, s, a)
      BY <1>2 DEF Return
    <2>2. /\ heap[a] = Null /\ heap' = [heap EXCEPT ![a] = s]
          /\ ptr' = [ptr EXCEPT ![t] = a]
          /\ pc[t] = "idle" /\ pc' = [pc EXCEPT ![t] = "read"]
          /\ made' = [made EXCEPT ![t] = s] /\ got' = got
      BY <1>2, <2>1 DEF Return, Allocate, Free
    <2>3. Functions'
      BY <2>2 DEF OwnerInv, Functions, On
    <2>4. /\ heap'[a] = s /\ \A b \in Address : b # a => heap'[b] = heap[b]
          /\ ptr'[t] = a /\ pc'[t] = "read" /\ made'[t] = s
          /\ \A u \in Thread : u # t =>
                /\ ptr'[u] = ptr[u] /\ pc'[u] = pc[u] /\ made'[u] = made[u]
                /\ got'[u] = got[u]
      BY <2>2 DEF OwnerInv, Functions, On
    <2>5. \A u \in Thread : Busy(u) => u # t /\ ptr[u] # a
      BY <2>2 DEF OwnerInv, OneOwner, Busy
    <2>6. \A u \in Thread : u # t => (Busy(u)' <=> Busy(u))
      BY <2>4 DEF Busy
    <2>7. \A u \in Thread : Busy(u)' => made'[u] # Null
      BY <1>2, <2>4, <2>6 DEF OwnerInv
    <2>8. OneOwner'
      <3>1. \A u \in Thread : Busy(u)' =>
               ptr'[u] \in Address /\ heap'[ptr'[u]] = made'[u]
        BY <2>4, <2>5, <2>6 DEF OwnerInv, OneOwner
      <3>2. \A u \in Thread : pc'[u] = "free" => got'[u] = made'[u]
        BY <2>4 DEF OwnerInv, OneOwner
      <3>3. \A u, v \in Thread : Busy(u)' /\ Busy(v)' /\ u # v => ptr'[u] # ptr'[v]
        BY <2>4, <2>5, <2>6 DEF OwnerInv, OneOwner
      <3>4. \A b \in Address : heap'[b] # Null =>
               \E u \in Thread : Busy(u)' /\ ptr'[u] = b
        <4>1. Busy(t)' /\ ptr'[t] = a
          BY <2>4 DEF Busy
        <4>2. ASSUME NEW b \in Address, b # a, heap'[b] # Null
              PROVE  \E u \in Thread : Busy(u)' /\ ptr'[u] = b
          <5>1. PICK u \in Thread : Busy(u) /\ ptr[u] = b
            BY <2>4, <4>2 DEF OwnerInv, OneOwner, Free
          <5> QED
            BY <2>4, <2>5, <2>6, <5>1
        <4> QED
          BY <4>1, <4>2
      <3> QED
        BY <3>1, <3>2, <3>3, <3>4 DEF OneOwner, Free
    <2> QED
      BY <2>3, <2>7, <2>8 DEF OwnerInv
  <1> QED
    BY <1>1, <1>2

(* Reading leaves the string where it is.                                  *)
LEMMA ReadOwner ==
    ASSUME OwnerInv, NEW t \in Thread, Read(t)
    PROVE  OwnerInv'
  <1>1. /\ pc[t] = "read" /\ got' = [got EXCEPT ![t] = heap[ptr[t]]]
        /\ pc' = [pc EXCEPT ![t] = "free"]
        /\ UNCHANGED <<heap, ptr, made>>
    BY DEF Read
  <1>2. Functions'
    BY <1>1 DEF OwnerInv, Functions, On
  <1>3. \A u \in Thread : Busy(u)' <=> Busy(u)
    BY <1>1 DEF OwnerInv, Functions, On, Busy
  <1>4. heap[ptr[t]] = made[t]
    BY <1>1 DEF OwnerInv, OneOwner, Busy
  <1>5. \A u \in Thread : pc'[u] = "free" => got'[u] = made'[u]
    BY <1>1, <1>4 DEF OwnerInv, Functions, On, OneOwner
  <1> QED
    BY <1>1, <1>2, <1>3, <1>5 DEF OwnerInv, OneOwner, Free

(* free_string takes the one string away that nobody else points to.        *)
LEMMA FreeOwner ==
    ASSUME OwnerInv, NEW t \in Thread, FreeString(t)
    PROVE  OwnerInv'
  <1>1. /\ pc[t] = "free" /\ heap' = [heap EXCEPT ![ptr[t]] = Null]
        /\ pc' = [pc EXCEPT ![t] = "idle"] /\ ptr' = [ptr EXCEPT ![t] = Null]
        /\ got' = [got EXCEPT ![t] = Null] /\ made' = [made EXCEPT ![t] = Null]
    BY DEF FreeString
  <1>2. Functions'
    BY <1>1 DEF OwnerInv, Functions, On
  <1>3. ptr[t] \in Address /\ Busy(t)
    BY <1>1 DEF OwnerInv, OneOwner, Busy
  <1>4. /\ heap'[ptr[t]] = Null
        /\ \A b \in Address : b # ptr[t] => heap'[b] = heap[b]
        /\ pc'[t] = "idle"
        /\ \A u \in Thread : u # t =>
              /\ ptr'[u] = ptr[u] /\ pc'[u] = pc[u] /\ made'[u] = made[u]
              /\ got'[u] = got[u]
    BY <1>1, <1>3 DEF OwnerInv, Functions, On
  <1>5. ~Busy(t)' /\ \A u \in Thread : u # t => (Busy(u)' <=> Busy(u))
    BY <1>4 DEF Busy
  <1>6. \A u \in Thread : Busy(u) /\ u # t => ptr[u] # ptr[t]
    BY <1>3 DEF OwnerInv, OneOwner
  <1>7. \A u \in Thread : Busy(u)' => made'[u] # Null
    BY <1>4, <1>5 DEF OwnerInv
  <1>8. OneOwner'
    <2>1. \A u \in Thread : Busy(u)' =>
             ptr'[u] \in Address /\ heap'[ptr'[u]] = made'[u]
      BY <1>4, <1>5, <1>6 DEF OwnerInv, OneOwner
    <2>2. \A u \in Thread : pc'[u] = "free" => got'[u] = made'[u]
      BY <1>4 DEF OwnerInv, OneOwner
    <2>3. \A u, v \in Thread : Busy(u)' /\ Busy(v)' /\ u # v => ptr'[u] # ptr'[v]
      BY <1>4, <1>5 DEF OwnerInv, OneOwner
    <2>4. ASSUME NEW b \in Address, heap'[b] # Null
          PROVE  \E u \in Thread : Busy(u)' /\ ptr'[u] = b
      <3>1. b # ptr[t] /\ heap[b] # Null
        BY <1>4, <2>4
      <3>2. PICK u \in Thread : Busy(u) /\ ptr[u] = b
        BY <3>1 DEF OwnerInv, OneOwner, Free
      <3> QED
        BY <1>4, <1>5, <3>1, <3>2
    <2> QED
      BY <2>1, <2>2, <2>3, <2>4 DEF OneOwner, Free
  <1> QED
    BY <1>2, <1>7, <1>8 DEF OwnerInv

(* What every C function does to the strings is one Return.                *)
LEMMA CallFfiReturns ==
    ASSUME NEW t \in Thread, CallFfi(t)
    PROVE  \E s : Return(t, s)
  <1>1. CASE GenerateDidFfi(t)
    BY <1>1 DEF GenerateDidFfi
  <1>2. CASE VerifyFfi(t)
    BY <1>2 DEF VerifyFfi
  <1>3. CASE IssueVcFfi(t)
    BY <1>3 DEF IssueVcFfi
  <1>4. CASE IssueVpFfi(t)
    BY <1>4 DEF IssueVpFfi
  <1>5. CASE ResolveDidFfi(t)
    BY <1>5 DEF ResolveDidFfi
  <1>6. CASE DeriveFfi(t)
    BY <1>6 DEF DeriveFfi
  <1>7. CASE EncryptFfi(t)
    BY <1>7 DEF EncryptFfi
  <1>8. CASE DecryptFfi(t)
    BY <1>8 DEF DecryptFfi
  <1> QED
    BY <1>1, <1>2, <1>3, <1>4, <1>5, <1>6, <1>7, <1>8 DEF CallFfi

(* The page and the application leave the strings of the C functions alone. *)
LEMMA WasmLeavesThreads ==
    CallWasm \/ TakeShown \/ (\E h \in held : Discard(h)) => UNCHANGED threadVars
  BY DEF CallWasm, GenerateDidWasm, VerifyWasm, IssueVcWasm, ResolveDidWasm,
         DeriveWasm, EncryptWasm, DecryptWasm, Show, TakeShown, Discard

LEMMA StepOwner == OwnerInv /\ [Next]_vars => OwnerInv'
  <1> SUFFICES ASSUME OwnerInv, [Next]_vars
               PROVE  OwnerInv'
    OBVIOUS
  <1>1. CASE UNCHANGED threadVars
    BY <1>1 DEF threadVars, OwnerInv, Functions, On, OneOwner, Busy, Free
  <1>2. ASSUME NEW t \in Thread, CallFfi(t) \/ Read(t) \/ FreeString(t)
        PROVE  OwnerInv'
    BY <1>2, CallFfiReturns, ReturnOwner, ReadOwner, FreeOwner
  <1> QED
    BY <1>1, <1>2, WasmLeavesThreads DEF Next, vars

(* Every string the C functions hand out has one owner from the call to its *)
(* free_string: nothing dangles, is freed twice, read by another or lost.   *)
THEOREM Ownership == Spec => []OneOwner
  <1>1. OwnerInv => OneOwner
    BY DEF OwnerInv
  <1> QED
    BY <1>1, InitOwner, StepOwner, PTL DEF Spec

-----------------------------------------------------------------------------
(* The vault                                                               *)

Bytes == {"nonce", "sealed"} \X Nat \X Nat

(* A function on 1 .. k is a sequence of length k.                         *)
LEMMA FunctionIsSeq ==
    ASSUME NEW S, NEW k \in Nat, NEW f \in [1 .. k -> S]
    PROVE  f \in Seq(S) /\ Len(f) = k
  OBVIOUS

LEMMA Element ==
    ASSUME NEW S, NEW q \in Seq(S), NEW n \in DOMAIN q
    PROVE  n \in Nat /\ q[n] \in S
  OBVIOUS

LEMMA SealsAreSeq ==
    ASSUME NEW s, IsSeals(s), NEW n \in DOMAIN s
    PROVE  n \in Nat /\ s[n] \in [kek : Kek, plaintext : Plaintext]
  <1> DEFINE S == [kek : Kek, plaintext : Plaintext]
  <1>1. s \in Seq(S)
    BY DEF IsSeals
  <1> HIDE DEF S
  <1>2. n \in Nat /\ s[n] \in S
    BY <1>1, Element
  <1> QED
    BY <1>2 DEF S

(* Nonce and sealed bytes are strings of bytes of the lengths given.        *)
LEMMA Pieces ==
    ASSUME NEW s, IsSeals(s), NEW n \in DOMAIN s
    PROVE  /\ Nonce(n) \in Seq(Bytes) /\ Len(Nonce(n)) = NONCE_LEN
           /\ Sealed(s, n) \in Seq(Bytes)
           /\ s[n].plaintext.len \in Nat
           /\ Len(Sealed(s, n)) = s[n].plaintext.len + TAG_LEN
           /\ s[n] \in [kek : Kek, plaintext : Plaintext]
  <1>1. n \in Nat /\ s[n] \in [kek : Kek, plaintext : Plaintext]
    BY SealsAreSeq
  <1>2. s[n].plaintext.len \in Nat /\ NONCE_LEN \in Nat /\ TAG_LEN \in Nat
    BY <1>1, VaultAssumption
  <1>3. Nonce(n) \in [1 .. NONCE_LEN -> Bytes]
    BY <1>1, <1>2 DEF Nonce, Bytes
  <1>4. Sealed(s, n) \in [1 .. s[n].plaintext.len + TAG_LEN -> Bytes]
    BY <1>1, <1>2 DEF Sealed, Bytes
  <1>5. Nonce(n) \in Seq(Bytes) /\ Len(Nonce(n)) = NONCE_LEN
    BY <1>2, <1>3, FunctionIsSeq
  <1>6. s[n].plaintext.len + TAG_LEN \in Nat
    BY <1>2
  <1>7. /\ Sealed(s, n) \in Seq(Bytes)
        /\ Len(Sealed(s, n)) = s[n].plaintext.len + TAG_LEN
    BY <1>4, <1>6, FunctionIsSeq
  <1> QED
    BY <1>1, <1>2, <1>5, <1>7

(* A ciphertext splits into the nonce and the sealed bytes again.           *)
LEMMA Splits ==
    ASSUME NEW s, IsSeals(s), NEW n \in DOMAIN s,
           NEW b, b = EncryptVaultPayload(s, n)
    PROVE  /\ b \in Seq(Bytes) /\ Len(b) \in Nat /\ ~(Len(b) < HEADER_LEN)
           /\ SubSeq(b, 1, NONCE_LEN) = Nonce(n)
           /\ SubSeq(b, NONCE_LEN + 1, Len(b)) = Sealed(s, n)
  <1>1. /\ Nonce(n) \in Seq(Bytes) /\ Len(Nonce(n)) = NONCE_LEN
        /\ Sealed(s, n) \in Seq(Bytes) /\ s[n].plaintext.len \in Nat
        /\ Len(Sealed(s, n)) = s[n].plaintext.len + TAG_LEN
    BY Pieces
  <1>2. b \in Seq(Bytes) /\ Len(b) = NONCE_LEN + Len(Sealed(s, n))
    BY <1>1, ConcatProperties DEF EncryptVaultPayload
  <1>3. Len(b) \in Nat /\ ~(Len(b) < HEADER_LEN)
    BY <1>1, <1>2, VaultAssumption DEF HEADER_LEN
  <1>4. SubSeq(b, 1, NONCE_LEN) = Nonce(n)
    BY <1>1, SubSeqOfConcat1 DEF EncryptVaultPayload
  <1>5. SubSeq(b, NONCE_LEN + 1, Len(b)) = Sealed(s, n)
    BY <1>1, <1>2, SubSeqOfConcat2 DEF EncryptVaultPayload
  <1> QED
    BY <1>2, <1>3, <1>4, <1>5

(* No two encryptions have the same nonce.                                 *)
LEMMA NoncesDiffer ==
    ASSUME NEW m, NEW n, Nonce(m) = Nonce(n)
    PROVE  m = n
  <1>1. 1 \in 1 .. NONCE_LEN
    BY VaultAssumption
  <1>2. Nonce(m)[1] = <<"nonce", m, 1>> /\ Nonce(n)[1] = <<"nonce", n, 1>>
    BY <1>1 DEF Nonce
  <1> QED
    BY <1>2

(* What was sealed is opened.                                              *)
LEMMA Opens ==
    ASSUME NEW s, IsSeals(s), NEW kek, NEW b, NEW p, Holds(s, kek, b, p)
    PROVE  DecryptVaultPayload(s, kek, b) = Opened(p)
  <1>1. PICK n \in DOMAIN s :
           s[n] = Seal(kek, p) /\ b = EncryptVaultPayload(s, n)
    BY DEF Holds
  <1>2. /\ ~(Len(b) < HEADER_LEN)
        /\ SubSeq(b, 1, NONCE_LEN) = Nonce(n)
        /\ SubSeq(b, NONCE_LEN + 1, Len(b)) = Sealed(s, n)
    BY <1>1, Splits
  <1>3. s[n].kek = kek /\ s[n].plaintext = p
    BY <1>1 DEF Seal
  <1>4. Fits(s, n, kek, Nonce(n), Sealed(s, n))
    BY <1>3 DEF Fits
  <1>5. \A m \in DOMAIN s : Fits(s, m, kek, Nonce(n), Sealed(s, n)) => m = n
    BY NoncesDiffer DEF Fits
  <1>6. n = CHOOSE m \in DOMAIN s : Fits(s, m, kek, Nonce(n), Sealed(s, n))
    BY <1>4, <1>5
  <1>7. CipherDecrypt(s, kek, Nonce(n), Sealed(s, n)) = Opened(p)
    BY <1>3, <1>4, <1>6 DEF CipherDecrypt
  <1> QED
    BY <1>2, <1>7 DEF DecryptVaultPayload

(* What is opened was sealed, under this key, as these bytes.               *)
LEMMA OpensOnly ==
    ASSUME NEW s, IsSeals(s), NEW kek, NEW b \in Seq(Bytes),
           DecryptVaultPayload(s, kek, b).valid
    PROVE  Holds(s, kek, b, DecryptVaultPayload(s, kek, b).plaintext)
  <1> DEFINE head == SubSeq(b, 1, NONCE_LEN)
             tail == SubSeq(b, NONCE_LEN + 1, Len(b))
             fits(m) == Fits(s, m, kek, head, tail)
             n == CHOOSE m \in DOMAIN s : fits(m)
  <1>1. ~Refused.valid
    BY DEF Refused
  <1>2. /\ ~(Len(b) < HEADER_LEN)
        /\ DecryptVaultPayload(s, kek, b) = CipherDecrypt(s, kek, head, tail)
    BY <1>1 DEF DecryptVaultPayload
  <1>3. /\ \E m \in DOMAIN s : fits(m)
        /\ DecryptVaultPayload(s, kek, b) = Opened(s[n].plaintext)
    BY <1>1, <1>2 DEF CipherDecrypt
  <1>4. n \in DOMAIN s /\ fits(n)
    BY <1>3
  <1>5. s[n].kek = kek /\ head = Nonce(n) /\ tail = Sealed(s, n)
    BY <1>4 DEF Fits
  <1>6. NONCE_LEN \in Nat /\ NONCE_LEN <= Len(b) /\ Len(b) \in Nat /\ NONCE_LEN >= 1
    BY <1>2, VaultAssumption DEF HEADER_LEN
  <1>7. b = head \o tail
    <2>1. SubSeq(b, 1, Len(b)) = head \o tail
      BY <1>6, ConcatAdjacentSubSeq
    <2>2. SubSeq(b, 1, Len(b)) = b
      BY SubSeqFull
    <2> QED
      BY <2>1, <2>2
  <1>8. b = EncryptVaultPayload(s, n)
    BY <1>5, <1>7 DEF EncryptVaultPayload
  <1>9. s[n] \in [kek : Kek, plaintext : Plaintext]
    BY <1>4, Pieces
  <1>10. s[n] = Seal(kek, s[n].plaintext)
    BY <1>5, <1>9 DEF Seal
  <1>11. DecryptVaultPayload(s, kek, b).plaintext = s[n].plaintext
    BY <1>3 DEF Opened
  <1> HIDE DEF n
  <1> QED
    BY <1>4, <1>8, <1>10, <1>11 DEF Holds

(* However storage damages ciphertexts, they are strings of bytes.          *)
LEMMA DamagedBytes ==
    ASSUME NEW s, IsSeals(s)
    PROVE  Ciphertexts(s) \subseteq Seq(Bytes)
  <1>1. \A b \in Intact(s) :
           b \in Seq(Bytes) /\ Len(b) \in Nat /\ ~(Len(b) < HEADER_LEN)
    BY Splits DEF Intact
  <1>2. HEADER_LEN \in Nat
    BY VaultAssumption DEF HEADER_LEN
  <1>3. ASSUME NEW b \in Intact(s), NEW i \in Nat, NEW j \in 0 .. Len(b), i >= 1
        PROVE  SubSeq(b, i, j) \in Seq(Bytes)
    <2>1. \A k \in i .. j : b[k] \in Bytes
      BY <1>1, <1>3
    <2> QED
      BY <1>1, <2>1, SubSeqProperties
  <1>4. \A b \in Intact(s), m \in 0 .. HEADER_LEN :
           SubSeq(b, 1, m) \in Seq(Bytes)
    BY <1>1, <1>2, <1>3
  <1>5. \A b \in Intact(s) : SubSeq(b, 2, Len(b)) \in Seq(Bytes)
    BY <1>1, <1>3
  <1>6. \A b \in Intact(s), m \in 0 .. HEADER_LEN :
           SubSeq(b, m + 1, Len(b)) \in Seq(Bytes)
    BY <1>1, <1>2, <1>3
  <1>7. ASSUME NEW x \in { SubSeq(b, 1, m) : b \in Intact(s), m \in 0 .. HEADER_LEN }
        PROVE  x \in Seq(Bytes)
    <2>1. PICK b \in Intact(s), m \in 0 .. HEADER_LEN : x = SubSeq(b, 1, m)
      OBVIOUS
    <2> QED
      BY <1>4, <2>1
  <1>8. { SubSeq(b, 2, Len(b)) : b \in Intact(s) } \subseteq Seq(Bytes)
    BY <1>5
  <1>9. ASSUME NEW x \in { Splice(b, c, m) : b \in Intact(s), c \in Intact(s),
                                            m \in 0 .. HEADER_LEN }
        PROVE  x \in Seq(Bytes)
    <2>1. PICK b \in Intact(s), c \in Intact(s), m \in 0 .. HEADER_LEN :
             x = Splice(b, c, m)
      OBVIOUS
    <2>2. SubSeq(b, 1, m) \in Seq(Bytes) /\ SubSeq(c, m + 1, Len(c)) \in Seq(Bytes)
      BY <1>4, <1>6
    <2> QED
      BY <2>1, <2>2, ConcatProperties DEF Splice
  <1>10. Intact(s) \subseteq Seq(Bytes)
    BY <1>1
  <1> QED
    BY <1>7, <1>8, <1>9, <1>10 DEF Ciphertexts, Damaged

(* Encryptions are only ever added, one at a time.                         *)
LEMMA SealsAppended ==
    ASSUME [Next]_vars
    PROVE  \/ seals' = seals
           \/ \E kek \in Kek, p \in Plaintext :
                 seals' = Append(seals, Seal(kek, p))
  <1> DEFINE Appended ==
               \/ seals' = seals
               \/ \E kek \in Kek, p \in Plaintext :
                     seals' = Append(seals, Seal(kek, p))
  <1>1. ASSUME NEW t \in Thread, CallFfi(t)
        PROVE  Appended
    <2>1. CASE EncryptFfi(t)
      BY <2>1 DEF EncryptFfi
    <2>2. CASE ~EncryptFfi(t)
      BY <1>1, <2>2 DEF CallFfi, GenerateDidFfi, VerifyFfi, IssueVcFfi,
         IssueVpFfi, ResolveDidFfi, DeriveFfi, DecryptFfi
    <2> QED
      BY <2>1, <2>2
  <1>2. ASSUME CallWasm
        PROVE  Appended
    <2>1. CASE EncryptWasm
      BY <2>1 DEF EncryptWasm
    <2>2. CASE ~EncryptWasm
      BY <1>2, <2>2 DEF CallWasm, GenerateDidWasm, VerifyWasm, IssueVcWasm,
         ResolveDidWasm, DeriveWasm, DecryptWasm
    <2> QED
      BY <2>1, <2>2
  <1>3. CASE (\E t \in Thread : Read(t) \/ FreeString(t)) \/ TakeShown
               \/ (\E h \in held : Discard(h))
    BY <1>3 DEF Read, FreeString, TakeShown, Discard
  <1> QED
    BY <1>1, <1>2, <1>3 DEF Next, vars

LEMMA SealsGrow ==
    IsSeals(seals) /\ [Next]_vars => IsSeals(seals)'
  <1> SUFFICES ASSUME IsSeals(seals), [Next]_vars
               PROVE  IsSeals(seals')
    BY DEF IsSeals
  <1>1. ASSUME NEW kek \in Kek, NEW p \in Plaintext,
               seals' = Append(seals, Seal(kek, p))
        PROVE  IsSeals(seals')
    BY <1>1 DEF IsSeals, Seal
  <1> QED
    BY <1>1, SealsAppended

-----------------------------------------------------------------------------
(* What the application keeps                                              *)

(* What is signed in the place of an argument that could not be read.       *)
ProvesNothing(s) ==
    IF s.kind = "vc"
    THEN { member \in { s.text[i] : i \in DOMAIN s.text } :
              member[1] \notin {"issuer", "proof"} } = {}
    ELSE Get(s.text, "challenge") = ""

Good(s) ==
    /\ s.kind \in {"vc", "vp"}
    /\ s.text # Invalid
    /\ IsObject(s.text)
    /\ s.unread /\ Sound(s, {}, 0) => ProvesNothing(s)

\* What a call may return: if it is a signed text at all, a good one.
Returned(s) == "text" \in DOMAIN s => Good(s)

(* The empty object is one.                                                *)
LEMMA EmptyObject == IsObject(<< >>) /\ \A key : ~Has(<< >>, key)
  BY DEF IsObject, DistinctKeys, Has

(* A signature under a DID of another method is nobody's.                   *)
LEMMA IpfsVouchesForNothing ==
    ASSUME NEW s, NEW i, SignerOf(s, i) = IpfsDid
    PROVE  ~Vouched(s, i, {})
  BY DEF Vouched, IpfsDid, KeyDid

(* issue_vc_ffi signs an object, and if it could not read an argument, one  *)
(* that says only who issued it or one that nobody vouches for.             *)
LEMMA SignedVcGood ==
    ASSUME NEW credential, NEW did, NEW key, NEW unread,
           credential # NotUtf8 /\ ObjectOr(credential) # Invalid
              => IsObject(credential),
           unread => NotUtf8 \in {credential, did, key}
    PROVE  Returned(Signed("vc",
                      IssueVc(ObjectOr(credential), Utf8Or(did, IpfsDid),
                              Utf8Or(key, Invalid)), unread))
  <1> DEFINE o    == ObjectOr(credential)
             d    == Utf8Or(did, IpfsDid)
             k    == Utf8Or(key, Invalid)
             text == IssueVc(o, d, k)
             s    == [kind |-> "vc", text |-> text, unread |-> unread]
  <1>1. CASE text = Invalid
    <2>1. "text" \notin DOMAIN Failed
      BY DEF Failed
    <2> QED
      BY <1>1, <2>1 DEF Signed, Returned
  <1>2. CASE text # Invalid
    <2> DEFINE vc == Insert(o, "issuer", d)
    <2>1. text = SignInto(vc, k) /\ o # Invalid /\ k \in Key
      BY <1>2 DEF IssueVc
    <2>2. IsObject(o)
      BY <2>1, EmptyObject DEF ObjectOr, Utf8Or
    <2>3. /\ IsObject(vc) /\ Has(vc, "issuer") /\ Get(vc, "issuer") = d
          /\ \A other : other # "issuer" => (Has(vc, other) <=> Has(o, other))
      BY <2>2, InsertObject
    <2> HIDE DEF vc
    <2>4. /\ IsObject(text) /\ Has(text, "issuer") /\ Get(text, "issuer") = d
          /\ \A other : other # "proof" => (Has(text, other) <=> Has(vc, other))
      BY <2>1, <2>3, SignedMembers
    <2> HIDE DEF text
    <2>5. s.kind = "vc" /\ s.text = text /\ s.unread = unread
      OBVIOUS
    <2> HIDE DEF s
    <2>6. ASSUME credential = NotUtf8
          PROVE  Good(s)
      <3>1. o = << >>
        BY <2>6 DEF ObjectOr, Utf8Or, o
      <3>2. \A other : Has(text, other) => other \in {"issuer", "proof"}
        BY <2>3, <2>4, <3>1, EmptyObject
      <3>3. \A i \in DOMAIN text : text[i][1] \in {"issuer", "proof"}
        BY <3>2 DEF Has
      <3>4. ProvesNothing(s)
        BY <2>5, <3>3 DEF ProvesNothing
      <3> QED
        BY <1>2, <2>4, <2>5, <3>4 DEF Good
    <2>7. ASSUME did = NotUtf8
          PROVE  Good(s)
      <3>1. d = IpfsDid
        BY <2>7 DEF Utf8Or, d
      <3>2. /\ CredentialsIn(s) = <<text>> /\ LastItem(s) = 1 /\ FirstItem(s) = 1
            /\ ItemText(s, 1) = text
        BY <2>5 DEF CredentialsIn, LastItem, FirstItem, ItemText
      <3>3. SignerOf(s, 1) = IpfsDid
        BY <1>2, <2>4, <3>1, <3>2 DEF SignerOf, SignerMember, Lookup
      <3>4. 1 \in Items(s)
        BY <3>2 DEF Items
      <3>5. ~Sound(s, {}, 0)
        BY <3>3, <3>4, IpfsVouchesForNothing DEF Sound
      <3> QED
        BY <1>2, <2>4, <2>5, <3>5 DEF Good
    <2>8. ASSUME ~unread
          PROVE  Good(s)
      BY <1>2, <2>4, <2>5, <2>8 DEF Good
    <2>9. key # NotUtf8
      BY <2>1, MarkersAreNotKeys DEF Utf8Or, k
    <2>10. Good(s)
      BY <2>6, <2>7, <2>8, <2>9
    <2> QED
      BY <1>2, <2>10 DEF Signed, Returned, s, text
  <1> QED
    BY <1>1, <1>2

(* The same of issue_vp_ffi: a presentation that is not sound, or answers   *)
(* the empty challenge.                                                     *)
LEMMA SignedVpGood ==
    ASSUME NEW vc, NEW holder, NEW challenge, NEW key, NEW unread,
           unread => NotUtf8 \in {vc, holder, challenge, key}
    PROVE  Returned(Signed("vp",
                      IssueVp(ObjectOr(vc), Utf8Or(holder, IpfsDid),
                              Utf8Or(challenge, ""), Utf8Or(key, Invalid)),
                      unread))
  <1> DEFINE o    == ObjectOr(vc)
             d    == Utf8Or(holder, IpfsDid)
             c    == Utf8Or(challenge, "")
             k    == Utf8Or(key, Invalid)
             text == IssueVp(o, d, c, k)
             s    == [kind |-> "vp", text |-> text, unread |-> unread]
  <1>1. CASE text = Invalid
    <2>1. "text" \notin DOMAIN Failed
      BY DEF Failed
    <2> QED
      BY <1>1, <2>1 DEF Signed, Returned
  <1>2. CASE text # Invalid
    <2> DEFINE vp == Presentation(o, d, c)
    <2>1. text = SignInto(vp, k) /\ k \in Key
      BY <1>2 DEF IssueVp
    <2> HIDE DEF o, d, c, k
    <2>2. /\ IsObject(vp)
          /\ Has(vp, "holder") /\ Get(vp, "holder") = d
          /\ Has(vp, "challenge") /\ Get(vp, "challenge") = c
          /\ Has(vp, "verifiableCredential")
          /\ Get(vp, "verifiableCredential") = <<"array", <<o>> >>
      BY PresentationShape
    <2> HIDE DEF vp
    <2>3. /\ IsObject(text)
          /\ Has(text, "holder") /\ Get(text, "holder") = d
          /\ Get(text, "challenge") = c
          /\ Has(text, "verifiableCredential")
          /\ Get(text, "verifiableCredential") = <<"array", <<o>> >>
      BY <2>1, <2>2, SignedMembers
    <2> HIDE DEF text
    <2>4. s.kind = "vp" /\ s.text = text /\ s.unread = unread
      OBVIOUS
    <2> HIDE DEF s
    <2>5. ASSUME Sound(s, {}, 0)
          PROVE  /\ FirstItem(s) = 0 /\ LastItem(s) = 1
                 /\ ItemText(s, 0) = text /\ ItemText(s, 1) = o
                 /\ 0 \in Items(s) /\ 1 \in Items(s)
      <3>1. /\ CredentialMember(s) = <<"array", <<o>> >>
            /\ CredentialMember(s) # Absent
        BY <1>2, <2>3, <2>4, <2>5 DEF CredentialMember, Lookup, Sound
      <3>2. CredentialsIn(s) = <<o>>
        BY <2>4, <3>1 DEF CredentialsIn
      <3> QED
        BY <2>4, <3>2 DEF FirstItem, LastItem, ItemText, Items
    <2>6. ASSUME vc = NotUtf8
          PROVE  Good(s)
      <3>1. o = << >>
        BY <2>6 DEF ObjectOr, Utf8Or, o
      <3>2. ProofOf(o) = Absent
        BY <3>1, EmptyObject DEF ProofOf, Lookup
      <3>3. ASSUME Sound(s, {}, 0)
            PROVE  FALSE
        <4>1. LocalError(s, 1, 0) = "none" /\ s.text # Invalid
          BY <2>5, <3>3 DEF Sound
        <4>2. LocalError(s, 1, 0) = "Missing proof object"
          BY <2>5, <3>2, <3>3, <4>1 DEF LocalError, VcError
        <4> QED
          BY <4>1, <4>2
      <3> QED
        BY <1>2, <2>3, <2>4, <3>3 DEF Good
    <2>7. ASSUME holder = NotUtf8
          PROVE  Good(s)
      <3>1. d = IpfsDid
        BY <2>7 DEF Utf8Or, d
      <3>2. ASSUME Sound(s, {}, 0)
            PROVE  FALSE
        <4>1. SignerOf(s, 0) = IpfsDid
          BY <1>2, <2>3, <2>5, <3>1, <3>2 DEF SignerOf, SignerMember, Lookup
        <4> QED
          BY <2>5, <3>2, <4>1, IpfsVouchesForNothing DEF Sound
      <3> QED
        BY <1>2, <2>3, <2>4, <3>2 DEF Good
    <2>8. ASSUME challenge = NotUtf8
          PROVE  Good(s)
      <3>1. ProvesNothing(s)
        BY <2>3, <2>4, <2>8 DEF ProvesNothing, Utf8Or, c
      <3> QED
        BY <1>2, <2>3, <2>4, <3>1 DEF Good
    <2>9. ASSUME ~unread
          PROVE  Good(s)
      BY <1>2, <2>3, <2>4, <2>9 DEF Good
    <2>10. key # NotUtf8
      BY <2>1, MarkersAreNotKeys DEF Utf8Or, k
    <2>11. Good(s)
      BY <2>6, <2>7, <2>8, <2>9, <2>10
    <2> QED
      BY <1>2, <2>11 DEF Signed, Returned, s, text, o, d, c, k
  <1> QED
    BY <1>1, <1>2

\* An answer that is neither a signed text nor the vault's.
Plain(r) == DOMAIN r \cap {"text", "to_seal", "to_open"} = {}

(* Which answers those are.                                                *)
LEMMA PlainAnswers ==
    /\ Plain(Failed)
    /\ \A valid : Plain(Verdict(valid))
    /\ \A method, k : Plain(GenerateDid(method, k))
    /\ \A did : Plain(ResolveDid(did))
    /\ \A seed : \A r \in Derived(seed) : Plain(r)
  <1>1. \A valid : Plain(Verdict(valid))
    BY DEF Verdict, Plain
  <1>2. Plain(Failed)
    BY DEF Failed, Plain
  <1>3. ASSUME NEW method, NEW k
        PROVE  Plain(GenerateDid(method, k))
    <2>1. CASE method = "web:"
      BY <1>2, <2>1 DEF GenerateDid
    <2>2. CASE method # "web:" /\ method \in WebName
      <3> DEFINE document == { [b58 |-> k, mb |-> k] }
                 did == WebDid(method)
      <3>1. GenerateDid(method, k)
              = [did |-> did, key |-> k, did_document |-> document]
        BY <2>2 DEF GenerateDid
      <3> HIDE DEF document, did
      <3>2. Plain([did |-> did, key |-> k, did_document |-> document])
        BY DEF Plain
      <3> QED
        BY <3>1, <3>2
    <2>3. CASE method # "web:" /\ method \notin WebName
      <3> DEFINE did == KeyDid(k)
      <3>1. GenerateDid(method, k) = [did |-> did, key |-> k]
        BY <2>3 DEF GenerateDid
      <3> HIDE DEF did
      <3>2. Plain([did |-> did, key |-> k])
        BY DEF Plain
      <3> QED
        BY <3>1, <3>2
    <2> QED
      BY <2>1, <2>2, <2>3
  <1>4. \A did : Plain(ResolveDid(did))
    <2>1. \A document : Plain([did_document |-> document])
      BY DEF Plain
    <2> QED
      BY <1>2, <2>1 DEF ResolveDid
  <1>5. ASSUME NEW seed, NEW r \in Derived(seed)
        PROVE  Plain(r)
    <2>1. Plain([valid |-> TRUE, identity |-> seed])
      BY DEF Plain
    <2>2. r = Verdict(FALSE) \/ r = [valid |-> TRUE, identity |-> seed]
      BY <1>5 DEF Derived
    <2> QED
      BY <1>1, <2>1, <2>2
  <1> QED
    BY <1>1, <1>2, <1>3, <1>4, <1>5

(* Nothing of those, and no envelope of the vault, is kept.                 *)
LEMMA OthersAreNotTexts ==
    /\ Returned(Failed) /\ Returned(NotEncrypted)
    /\ \A valid : Returned(Verdict(valid))
    /\ \A method, k : Returned(GenerateDid(method, k))
    /\ \A did : Returned(ResolveDid(did))
    /\ \A seed : \A r \in Derived(seed) : Returned(r)
    /\ \A kek, p : Returned(Encrypted(kek, p))
    /\ \A e, o : Returned([envelope |-> e, to_open |-> o])
  <1>1. \A r : Plain(r) => Returned(r)
    BY DEF Plain, Returned
  <1>2. \A e, o : "text" \notin DOMAIN [envelope |-> e, to_open |-> o]
    OBVIOUS
  <1>3. \A e, s : "text" \notin DOMAIN [envelope |-> e, to_seal |-> s]
    OBVIOUS
  <1>4. "text" \notin DOMAIN NotEncrypted
    BY <1>3 DEF NotEncrypted
  <1>5. \A kek, p : "text" \notin DOMAIN Encrypted(kek, p)
    BY <1>3 DEF Encrypted
  <1>6. \A e, o : Returned([envelope |-> e, to_open |-> o])
    BY <1>2 DEF Returned
  <1>7. Returned(NotEncrypted) /\ \A kek, p : Returned(Encrypted(kek, p))
    BY <1>4, <1>5 DEF Returned
  <1> QED
    BY <1>1, <1>6, <1>7, PlainAnswers

\* The strings on their way and the texts that arrived.
KeptInv ==
    /\ \A t \in Thread : Busy(t) => Returned(made[t])
    /\ shown # Null => Returned(shown)
    /\ \A h \in held : Good(h)

\* Where the threads are.
PlaceInv ==
    /\ pc \in [Thread -> {"idle", "read", "free"}]
    /\ ptr \in [Thread -> Address \cup {Null}]
    /\ IsSeals(seals)

(* Every C function returns null or something that may be returned.         *)
LEMMA CallFfiReturned ==
    ASSUME KeptInv, NEW t \in Thread, CallFfi(t)
    PROVE  /\ \E s : Return(t, s) /\ (s # Null => Returned(s))
           /\ UNCHANGED <<shown, held>>
  <1>0. \A s : OrNull(s) = s \/ OrNull(s) = Null
    BY DEF OrNull
  <1>1. CASE GenerateDidFfi(t)
    BY <1>0, <1>1, OthersAreNotTexts DEF GenerateDidFfi
  <1>2. CASE VerifyFfi(t)
    BY <1>2, OthersAreNotTexts DEF VerifyFfi, Verify
  <1>3. CASE IssueVcFfi(t)
    <2>1. PICK credential \in Pointer(Text), did \in Pointer(Did),
               key \in Pointer(Key \cup {Invalid}) :
             Return(t, IF Null \in {credential, did, key} THEN Null
                       ELSE OrNull(Signed("vc",
                            IssueVc(ObjectOr(credential),
                                    Utf8Or(did, IpfsDid), Utf8Or(key, Invalid)),
                            Unread({credential, did, key}))))
      BY <1>3 DEF IssueVcFfi
    <2> DEFINE s == Signed("vc",
                      IssueVc(ObjectOr(credential),
                              Utf8Or(did, IpfsDid), Utf8Or(key, Invalid)),
                      Unread({credential, did, key}))
    <2>2. CASE Null \in {credential, did, key}
      BY <1>3, <2>1, <2>2 DEF IssueVcFfi
    <2>3. CASE Null \notin {credential, did, key}
      <3>1. credential # NotUtf8 /\ ObjectOr(credential) # Invalid
               => IsObject(credential)
        BY <2>3, DraftAssumption DEF Pointer, Text, ObjectOr, Utf8Or
      <3>2. Returned(s)
        BY <3>1, SignedVcGood DEF Unread
      <3> HIDE DEF s
      <3>3. Return(t, OrNull(s))
        BY <2>1, <2>3 DEF s
      <3> QED
        BY <1>0, <1>3, <3>2, <3>3 DEF IssueVcFfi
    <2> QED
      BY <2>2, <2>3
  <1>4. CASE IssueVpFfi(t)
    <2>1. PICK vc \in Pointer(HeldVc), holder \in Pointer(Did),
               challenge \in Pointer({"nonce"}),
               key \in Pointer(Key \cup {Invalid}) :
             Return(t, IF Null \in {vc, holder, challenge, key} THEN Null
                       ELSE OrNull(Signed("vp",
                            IssueVp(ObjectOr(vc), Utf8Or(holder, IpfsDid),
                                    Utf8Or(challenge, ""), Utf8Or(key, Invalid)),
                            Unread({vc, holder, challenge, key}))))
      BY <1>4 DEF IssueVpFfi
    <2> DEFINE s == Signed("vp",
                      IssueVp(ObjectOr(vc), Utf8Or(holder, IpfsDid),
                              Utf8Or(challenge, ""), Utf8Or(key, Invalid)),
                      Unread({vc, holder, challenge, key}))
    <2>2. CASE Null \in {vc, holder, challenge, key}
      BY <1>4, <2>1, <2>2 DEF IssueVpFfi
    <2>3. CASE Null \notin {vc, holder, challenge, key}
      <3>1. Returned(s)
        BY SignedVpGood DEF Unread
      <3> HIDE DEF s
      <3>2. Return(t, OrNull(s))
        BY <2>1, <2>3 DEF s
      <3> QED
        BY <1>0, <1>4, <3>1, <3>2 DEF IssueVpFfi
    <2> QED
      BY <2>2, <2>3
  <1>5. CASE ResolveDidFfi(t)
    BY <1>5, OthersAreNotTexts DEF ResolveDidFfi
  <1>6. CASE DeriveFfi(t)
    <2>1. PICK seed, r : r \in (IF seed = Null THEN {Verdict(FALSE)}
                                ELSE Derived(seed)) /\ Return(t, r)
      BY <1>6 DEF DeriveFfi
    <2> QED
      BY <1>6, <2>1, OthersAreNotTexts DEF DeriveFfi
  <1>7. CASE EncryptFfi(t)
    BY <1>7, OthersAreNotTexts DEF EncryptFfi
  <1>8. CASE DecryptFfi(t)
    BY <1>8, OthersAreNotTexts DEF DecryptFfi
  <1> QED
    BY <1>1, <1>2, <1>3, <1>4, <1>5, <1>6, <1>7, <1>8 DEF CallFfi

(* So does every WASM function, which can read all its arguments.           *)
LEMMA CallWasmReturned ==
    ASSUME CallWasm
    PROVE  \E s : Show(s) /\ Returned(s)
  <1>1. CASE GenerateDidWasm
    BY <1>1, OthersAreNotTexts DEF GenerateDidWasm
  <1>2. CASE VerifyWasm
    BY <1>2, OthersAreNotTexts DEF VerifyWasm, Verify
  <1>3. CASE IssueVcWasm
    <2>1. PICK credential \in Text, did \in Did, key \in Key \cup {Invalid} :
             Show(Signed("vc", IssueVc(credential, did, key), FALSE))
      BY <1>3 DEF IssueVcWasm
    <2> DEFINE text == IssueVc(credential, did, key)
    <2>2. CASE text = Invalid
      BY <2>1, <2>2, OthersAreNotTexts DEF Signed
    <2>3. CASE text # Invalid
      <3> DEFINE s == [kind |-> "vc", text |-> text, unread |-> FALSE]
      <3>1. /\ text = SignInto(Insert(credential, "issuer", did), key)
            /\ credential # Invalid
        BY <2>3 DEF IssueVc
      <3>2. IsObject(text)
        BY <3>1, DraftAssumption, InsertObject, SignedMembers DEF Text
      <3>3. Show(s)
        BY <2>1, <2>3 DEF Signed
      <3> HIDE DEF text
      <3>4. s.kind = "vc" /\ s.text = text /\ ~s.unread
        OBVIOUS
      <3> HIDE DEF s
      <3>5. Good(s)
        BY <2>3, <3>2, <3>4 DEF Good
      <3> QED
        BY <3>3, <3>5 DEF Returned
    <2> QED
      BY <2>2, <2>3
  <1>4. CASE ResolveDidWasm
    BY <1>4, OthersAreNotTexts DEF ResolveDidWasm
  <1>5. CASE DeriveWasm
    BY <1>5, OthersAreNotTexts DEF DeriveWasm
  <1>6. CASE EncryptWasm
    BY <1>6, OthersAreNotTexts DEF EncryptWasm
  <1>7. CASE DecryptWasm
    BY <1>7, OthersAreNotTexts DEF DecryptWasm
  <1> QED
    BY <1>1, <1>2, <1>3, <1>4, <1>5, <1>6, <1>7 DEF CallWasm

(* Only what a call returned is kept.                                      *)
LEMMA StepKept ==
    ASSUME OwnerInv, KeptInv, [Next]_vars
    PROVE  KeptInv'
  <1>1. ASSUME NEW t \in Thread, CallFfi(t)
        PROVE  KeptInv'
    <2>1. UNCHANGED <<shown, held>>
      BY <1>1, CallFfiReturned
    <2>2. PICK s : Return(t, s) /\ (s # Null => Returned(s))
      BY <1>1, CallFfiReturned
    <2>3. CASE s = Null
      BY <2>1, <2>2, <2>3 DEF Return, threadVars, KeptInv, Busy
    <2>4. CASE s # Null
      <3>1. /\ pc' = [pc EXCEPT ![t] = "read"]
            /\ made' = [made EXCEPT ![t] = s]
        BY <2>2, <2>4 DEF Return
      <3>2. /\ pc'[t] = "read" /\ made'[t] = s
            /\ \A u \in Thread : u # t => pc'[u] = pc[u] /\ made'[u] = made[u]
        BY <3>1 DEF OwnerInv, Functions, On
      <3> QED
        BY <2>1, <2>2, <2>4, <3>2 DEF KeptInv, Busy
    <2> QED
      BY <2>3, <2>4
  <1>2. ASSUME NEW t \in Thread, Read(t)
        PROVE  KeptInv'
    <2>1. /\ pc[t] = "read" /\ pc' = [pc EXCEPT ![t] = "free"]
          /\ UNCHANGED <<made, shown, held>>
      BY <1>2 DEF Read
    <2>2. \A u \in Thread : Busy(u)' <=> Busy(u)
      BY <2>1 DEF OwnerInv, Functions, On, Busy
    <2> QED
      BY <2>1, <2>2 DEF KeptInv
  <1>3. ASSUME NEW t \in Thread, FreeString(t)
        PROVE  KeptInv'
    <2>1. /\ pc[t] = "free" /\ pc' = [pc EXCEPT ![t] = "idle"]
          /\ made' = [made EXCEPT ![t] = Null]
          /\ Keep(got[t]) /\ shown' = shown
      BY <1>3 DEF FreeString
    <2>2. /\ ~Busy(t)'
          /\ \A u \in Thread : u # t =>
                (Busy(u)' <=> Busy(u)) /\ made'[u] = made[u]
      BY <2>1 DEF OwnerInv, Functions, On, Busy
    <2>3. Returned(got[t])
      BY <2>1 DEF OwnerInv, OneOwner, KeptInv, Busy
    <2>4. \A h \in held' : Good(h)
      BY <2>1, <2>3 DEF Keep, KeptInv, Returned
    <2> QED
      BY <2>1, <2>2, <2>4 DEF KeptInv
  <1>4. CASE CallWasm
    <2>1. PICK s : Show(s) /\ Returned(s)
      BY <1>4, CallWasmReturned
    <2> QED
      BY <2>1 DEF Show, threadVars, KeptInv, Busy
  <1>5. CASE TakeShown
    BY <1>5 DEF TakeShown, Keep, threadVars, KeptInv, Busy, Returned
  <1>6. ASSUME NEW h \in held, Discard(h)
        PROVE  KeptInv'
    BY <1>6 DEF Discard, threadVars, KeptInv, Busy
  <1>7. CASE UNCHANGED vars
    BY <1>7 DEF vars, threadVars, KeptInv, Busy
  <1> QED
    BY <1>1, <1>2, <1>3, <1>4, <1>5, <1>6, <1>7 DEF Next

LEMMA StepPlace ==
    ASSUME PlaceInv, [Next]_vars
    PROVE  PlaceInv'
  <1>0. IsSeals(seals)'
    BY SealsGrow DEF PlaceInv
  <1>1. ASSUME NEW t \in Thread, CallFfi(t)
        PROVE  PlaceInv'
    <2>1. PICK s : Return(t, s)
      BY <1>1, CallFfiReturns
    <2> QED
      BY <1>0, <2>1 DEF Return, Allocate, threadVars, PlaceInv
  <1>2. ASSUME NEW t \in Thread, Read(t) \/ FreeString(t)
        PROVE  PlaceInv'
    BY <1>0, <1>2 DEF Read, FreeString, PlaceInv
  <1>3. CASE UNCHANGED threadVars
    BY <1>0, <1>3 DEF threadVars, PlaceInv
  <1> QED
    BY <1>1, <1>2, <1>3, WasmLeavesThreads DEF Next, vars

LEMMA InitKept == Init => KeptInv /\ PlaceInv
  BY DEF Init, KeptInv, PlaceInv, Busy, IsSeals

(* Every text an application keeps is an object, whichever layer signed it  *)
(* and whatever was passed to it.                                           *)
THEOREM TypeCorrect == Spec => []BindingsTypeOK
  <1>1. KeptInv /\ PlaceInv => BindingsTypeOK
    BY DEF KeptInv, Good, PlaceInv, BindingsTypeOK
  <1> QED
    BY <1>1, InitOwner, InitKept, StepOwner, StepKept, StepPlace, PTL DEF Spec

(* A text signed over an argument that the C function could not read proves *)
(* nothing: for every credential, DID, challenge and key.                   *)
THEOREM UnreadIsWorthless == Spec => []UnreadProvesNothing
  <1>1. KeptInv => UnreadProvesNothing
    BY DEF KeptInv, Good, ProvesNothing, UnreadProvesNothing
  <1> QED
    BY <1>1, InitOwner, InitKept, StepOwner, StepKept, PTL DEF Spec

-----------------------------------------------------------------------------
(* What the vault answers                                                  *)

\* The vault's answers on their way to callers and in their hands.
VaultInv ==
    /\ \A t \in Thread : Busy(t) => Faithful(seals, made[t])
    /\ shown # Null => Faithful(seals, shown)

(* What a ciphertext holds it holds whatever is sealed later.               *)
LEMMA HoldsGrow ==
    ASSUME NEW s, IsSeals(s), NEW x \in [kek : Kek, plaintext : Plaintext],
           NEW kek, NEW b, NEW p, Holds(s, kek, b, p)
    PROVE  Holds(Append(s, x), kek, b, p)
  <1> DEFINE S == [kek : Kek, plaintext : Plaintext]
             all == Append(s, x)
  <1>1. s \in Seq(S) /\ x \in S
    BY DEF IsSeals
  <1> HIDE DEF S
  <1>2. PICK n \in DOMAIN s : s[n] = Seal(kek, p) /\ b = EncryptVaultPayload(s, n)
    BY DEF Holds
  <1>3. n \in DOMAIN all /\ all[n] = s[n]
    BY <1>1, <1>2
  <1> HIDE DEF all
  <1>4. EncryptVaultPayload(all, n) = EncryptVaultPayload(s, n)
    BY <1>3 DEF EncryptVaultPayload, Sealed
  <1>5. Holds(all, kek, b, p)
    BY <1>2, <1>3, <1>4 DEF Holds
  <1> QED
    BY <1>5 DEF all

(* The ciphertext put out last holds what was sealed.                       *)
LEMMA LastHolds ==
    ASSUME NEW s, IsSeals(s), NEW kek \in Kek, NEW p \in Plaintext,
           NEW all, all = Append(s, Seal(kek, p))
    PROVE  Holds(all, kek, EncryptVaultPayload(all, Len(all)), p)
  <1> DEFINE S == [kek : Kek, plaintext : Plaintext]
             x == Seal(kek, p)
  <1>1. s \in Seq(S) /\ x \in S /\ all = Append(s, x)
    BY DEF IsSeals, Seal
  <1> HIDE DEF S, x
  <1>2. Len(all) \in DOMAIN all /\ all[Len(all)] = x
    BY <1>1
  <1> QED
    BY <1>2 DEF Holds, x

(* An answer stays as good as it was.                                      *)
LEMMA FaithfulGrow ==
    ASSUME NEW s, IsSeals(s), NEW x \in [kek : Kek, plaintext : Plaintext],
           NEW a, Faithful(s, a)
    PROVE  Faithful(Append(s, x), a)
  BY HoldsGrow DEF Faithful

LEMMA FaithfulStays ==
    ASSUME IsSeals(seals), [Next]_vars
    PROVE  \A a : Faithful(seals, a) => Faithful(seals', a)
  BY SealsAppended, FaithfulGrow DEF Seal

(* What is not the vault's answer is none of its business.                  *)
LEMMA OthersAreFaithful ==
    ASSUME NEW all
    PROVE  /\ \A r : Plain(r) => Faithful(all, r)
           /\ \A kind, text, unread : Faithful(all, Signed(kind, text, unread))
  <1>1. \A r : Plain(r) => Faithful(all, r)
    BY DEF Plain, Faithful
  <1>2. ASSUME NEW kind, NEW text, NEW unread
        PROVE  Faithful(all, Signed(kind, text, unread))
    <2>1. CASE text = Invalid
      BY <1>1, <2>1, PlainAnswers DEF Signed
    <2>2. CASE text # Invalid
      BY <2>2 DEF Signed, Faithful
    <2> QED
      BY <2>1, <2>2
  <1> QED
    BY <1>1, <1>2

(* Both layers' envelopes of a payload.                                    *)
LEMMA PayloadFields ==
    ASSUME NEW p
    PROVE  /\ Payload(Opened(p)).valid
           /\ Payload(Opened(p)).plaintext_hex = p
           /\ Payload(Opened(p)).plaintext_utf8 = IF p.utf8 THEN p ELSE Null
  BY DEF Payload, Opened

(* Both layers open what the bytes hold, and refuse what they do not.       *)
LEMMA OpeningIsFaithful ==
    ASSUME IsSeals(seals), NEW bad, NEW kek \in Kek \cup {bad},
           NEW bytes \in Ciphertexts(seals) \cup {bad}
    PROVE  Faithful(seals,
             [envelope |-> IF bad \in {kek, bytes} THEN Refused
                           ELSE Payload(DecryptVaultPayload(seals, kek, bytes)),
              to_open  |-> ToOpen(kek, bytes, bad)])
  <1> DEFINE e == IF bad \in {kek, bytes} THEN Refused
                  ELSE Payload(DecryptVaultPayload(seals, kek, bytes))
             o == ToOpen(kek, bytes, bad)
             a == [envelope |-> e, to_open |-> o]
  <1>1. CASE bad \in {kek, bytes}
    BY <1>1 DEF ToOpen, Refused, Faithful
  <1>2. CASE bad \notin {kek, bytes}
    <2>1. e = Payload(DecryptVaultPayload(seals, kek, bytes))
      BY <1>2
    <2>2. o = { p \in Plaintext : Holds(seals, kek, bytes, p) }
      BY <1>2 DEF ToOpen
    <2>3. bytes \in Seq(Bytes)
      BY <1>2, DamagedBytes
    <2> HIDE DEF e, o
    <2>4. ASSUME NEW p \in o
          PROVE  /\ e.valid /\ e.plaintext_hex = p
                 /\ e.plaintext_utf8 = IF p.utf8 THEN p ELSE Null
      BY <2>1, <2>2, Opens, PayloadFields
    <2>5. ASSUME e.valid
          PROVE  e.plaintext_hex \in o
      <3> DEFINE opened == DecryptVaultPayload(seals, kek, bytes)
      <3>1. opened = Refused \/ \E p : opened = Opened(p)
        BY DEF DecryptVaultPayload, CipherDecrypt
      <3>2. opened # Refused
        BY <2>1, <2>5 DEF Payload, Refused
      <3>3. PICK p : opened = Opened(p)
        BY <3>1, <3>2
      <3>4. opened.valid /\ opened.plaintext = p
        BY <3>3 DEF Opened
      <3>5. Holds(seals, kek, bytes, p)
        BY <2>3, <3>4, OpensOnly
      <3>6. p \in Plaintext
        BY <3>5, SealsAreSeq DEF Holds, Seal
      <3> QED
        BY <2>1, <2>2, <3>3, <3>5, <3>6, PayloadFields
    <2>6. a.envelope = e /\ a.to_open = o /\ "to_seal" \notin DOMAIN a
      OBVIOUS
    <2> HIDE DEF a
    <2>7. Faithful(seals, a)
      BY <2>4, <2>5, <2>6 DEF Faithful
    <2> QED
      BY <2>7 DEF a, e, o
  <1> QED
    BY <1>1, <1>2

(* Both layers' envelopes of a ciphertext.                                 *)
LEMMA SealingIsFaithful ==
    ASSUME IsSeals(seals), NEW kek \in Kek, NEW p \in Plaintext,
           NEW all, all = Append(seals, Seal(kek, p))
    PROVE  Faithful(all, Encrypted(kek, p))
  <1> DEFINE e == Ciphertext(all)
             o == {Seal(kek, p)}
             a == [envelope |-> e, to_seal |-> o]
  <1>1. e.valid /\ e.ciphertext = EncryptVaultPayload(all, Len(all))
    BY DEF Ciphertext
  <1>2. Holds(all, kek, e.ciphertext, p)
    BY <1>1, LastHolds
  <1> HIDE DEF e
  <1>3. \A asked \in o : asked.kek = kek /\ asked.plaintext = p
    BY DEF Seal
  <1> HIDE DEF o
  <1>4. a.envelope = e /\ a.to_seal = o /\ "to_open" \notin DOMAIN a
    OBVIOUS
  <1> HIDE DEF a
  <1>5. Faithful(all, a)
    BY <1>1, <1>2, <1>3, <1>4 DEF Faithful
  <1>6. Encrypted(kek, p) = a
    BY DEF Encrypted, a, e, o
  <1> QED
    BY <1>5, <1>6

LEMMA RefusingIsFaithful ==
    ASSUME NEW all
    PROVE  Faithful(all, NotEncrypted)
  BY DEF Faithful, NotEncrypted

(* Every C function answers so.                                            *)
LEMMA CallFfiFaithful ==
    ASSUME IsSeals(seals), NEW t \in Thread, CallFfi(t)
    PROVE  /\ \E s : Return(t, s) /\ (s # Null => Faithful(seals', s))
           /\ shown' = shown
  <1>0. \A s : OrNull(s) = s \/ OrNull(s) = Null
    BY DEF OrNull
  <1>1. CASE GenerateDidFfi(t)
    BY <1>0, <1>1, PlainAnswers, OthersAreFaithful DEF GenerateDidFfi
  <1>2. CASE VerifyFfi(t)
    BY <1>2, PlainAnswers, OthersAreFaithful DEF VerifyFfi, Verify
  <1>3. CASE IssueVcFfi(t)
    BY <1>0, <1>3, OthersAreFaithful DEF IssueVcFfi
  <1>4. CASE IssueVpFfi(t)
    BY <1>0, <1>4, OthersAreFaithful DEF IssueVpFfi
  <1>5. CASE ResolveDidFfi(t)
    BY <1>5, PlainAnswers, OthersAreFaithful DEF ResolveDidFfi
  <1>6. CASE DeriveFfi(t)
    <2>1. PICK seed, r : r \in (IF seed = Null THEN {Verdict(FALSE)}
                                ELSE Derived(seed)) /\ Return(t, r)
      BY <1>6 DEF DeriveFfi
    <2> QED
      BY <1>6, <2>1, PlainAnswers, OthersAreFaithful DEF DeriveFfi
  <1>7. CASE EncryptFfi(t)
    <2>1. PICK kek \in Kek \cup {Null}, p \in Plaintext \cup {Null} :
             IF Null \in {kek, p}
             THEN Return(t, NotEncrypted)
             ELSE seals' = Append(seals, Seal(kek, p)) /\ Return(t, Encrypted(kek, p))
      BY <1>7 DEF EncryptFfi
    <2>2. CASE Null \in {kek, p}
      BY <1>7, <2>1, <2>2, RefusingIsFaithful DEF EncryptFfi
    <2>3. CASE Null \notin {kek, p}
      BY <1>7, <2>1, <2>3, SealingIsFaithful DEF EncryptFfi
    <2> QED
      BY <2>2, <2>3
  <1>8. CASE DecryptFfi(t)
    <2>1. PICK kek \in Kek \cup {Null}, bytes \in Ciphertexts(seals) \cup {Null} :
             Return(t,
               [envelope |-> IF Null \in {kek, bytes} THEN Refused
                             ELSE Payload(DecryptVaultPayload(seals, kek, bytes)),
                to_open  |-> ToOpen(kek, bytes, Null)])
      BY <1>8 DEF DecryptFfi
    <2>2. seals' = seals /\ shown' = shown
      BY <1>8 DEF DecryptFfi
    <2> QED
      BY <2>1, <2>2, OpeningIsFaithful
  <1> QED
    BY <1>1, <1>2, <1>3, <1>4, <1>5, <1>6, <1>7, <1>8 DEF CallFfi

(* And every WASM function.                                                *)
LEMMA CallWasmFaithful ==
    ASSUME IsSeals(seals), CallWasm
    PROVE  \E s : Show(s) /\ Faithful(seals', s)
  <1>1. CASE GenerateDidWasm
    BY <1>1, PlainAnswers, OthersAreFaithful DEF GenerateDidWasm
  <1>2. CASE VerifyWasm
    BY <1>2, PlainAnswers, OthersAreFaithful DEF VerifyWasm, Verify
  <1>3. CASE IssueVcWasm
    BY <1>3, OthersAreFaithful DEF IssueVcWasm
  <1>4. CASE ResolveDidWasm
    BY <1>4, PlainAnswers, OthersAreFaithful DEF ResolveDidWasm
  <1>5. CASE DeriveWasm
    BY <1>5, PlainAnswers, OthersAreFaithful DEF DeriveWasm
  <1>6. CASE EncryptWasm
    <2>1. PICK kek \in Kek \cup {Malformed}, p \in Plaintext :
             IF kek = Malformed
             THEN Show(NotEncrypted)
             ELSE seals' = Append(seals, Seal(kek, p)) /\ Show(Encrypted(kek, p))
      BY <1>6 DEF EncryptWasm
    <2>2. CASE kek = Malformed
      BY <2>1, <2>2, RefusingIsFaithful
    <2>3. CASE kek # Malformed
      BY <2>1, <2>3, SealingIsFaithful
    <2> QED
      BY <2>2, <2>3
  <1>7. CASE DecryptWasm
    <2>1. PICK kek \in Kek \cup {Malformed},
               bytes \in Ciphertexts(seals) \cup {Malformed} :
             Show(
               [envelope |-> IF Malformed \in {kek, bytes} THEN Refused
                             ELSE Payload(DecryptVaultPayload(seals, kek, bytes)),
                to_open  |-> ToOpen(kek, bytes, Malformed)])
      BY <1>7 DEF DecryptWasm
    <2>2. seals' = seals
      BY <1>7 DEF DecryptWasm
    <2> QED
      BY <2>1, <2>2, OpeningIsFaithful
  <1> QED
    BY <1>1, <1>2, <1>3, <1>4, <1>5, <1>6, <1>7 DEF CallWasm

(* Answers that are on their way stay as good as they were.                 *)
LEMMA StepVault ==
    ASSUME OwnerInv, IsSeals(seals), VaultInv, [Next]_vars
    PROVE  VaultInv'
  <1>0. \A a : Faithful(seals, a) => Faithful(seals', a)
    BY FaithfulStays
  <1>1. ASSUME NEW t \in Thread, CallFfi(t)
        PROVE  VaultInv'
    <2>1. PICK s : Return(t, s) /\ (s # Null => Faithful(seals', s))
      BY <1>1, CallFfiFaithful
    <2>2. shown' = shown
      BY <1>1, CallFfiFaithful
    <2>3. CASE s = Null
      BY <1>0, <2>1, <2>2, <2>3 DEF Return, threadVars, VaultInv, Busy
    <2>4. CASE s # Null
      <3>1. /\ pc' = [pc EXCEPT ![t] = "read"]
            /\ made' = [made EXCEPT ![t] = s]
        BY <2>1, <2>4 DEF Return
      <3>2. /\ pc'[t] = "read" /\ made'[t] = s
            /\ \A u \in Thread : u # t => pc'[u] = pc[u] /\ made'[u] = made[u]
        BY <3>1 DEF OwnerInv, Functions, On
      <3> QED
        BY <1>0, <2>1, <2>2, <2>4, <3>2 DEF VaultInv, Busy
    <2> QED
      BY <2>3, <2>4
  <1>2. ASSUME NEW t \in Thread, Read(t)
        PROVE  VaultInv'
    <2>1. /\ pc[t] = "read" /\ pc' = [pc EXCEPT ![t] = "free"]
          /\ UNCHANGED <<made, shown, seals>>
      BY <1>2 DEF Read
    <2>2. \A u \in Thread : Busy(u)' <=> Busy(u)
      BY <2>1 DEF OwnerInv, Functions, On, Busy
    <2> QED
      BY <2>1, <2>2 DEF VaultInv
  <1>3. ASSUME NEW t \in Thread, FreeString(t)
        PROVE  VaultInv'
    <2>1. /\ pc' = [pc EXCEPT ![t] = "idle"]
          /\ made' = [made EXCEPT ![t] = Null]
          /\ UNCHANGED <<shown, seals>>
      BY <1>3 DEF FreeString
    <2>2. /\ ~Busy(t)'
          /\ \A u \in Thread : u # t =>
                (Busy(u)' <=> Busy(u)) /\ made'[u] = made[u]
      BY <2>1 DEF OwnerInv, Functions, On, Busy
    <2> QED
      BY <2>1, <2>2 DEF VaultInv
  <1>4. CASE CallWasm
    <2>1. PICK s : Show(s) /\ Faithful(seals', s)
      BY <1>4, CallWasmFaithful
    <2> QED
      BY <1>0, <2>1 DEF Show, threadVars, VaultInv, Busy
  <1>5. CASE TakeShown \/ (\E h \in held : Discard(h)) \/ UNCHANGED vars
    BY <1>5 DEF TakeShown, Discard, vars, threadVars, VaultInv, Busy
  <1> QED
    BY <1>1, <1>2, <1>3, <1>4, <1>5 DEF Next

(* What callers of either layer hold: for a payload they sealed, bytes that  *)
(* hold it; for bytes they asked to open, the payload those bytes hold under *)
(* that key, byte for byte, or a refusal if they hold none.  For keys,       *)
(* payloads, nonces and tags of any number and length.                      *)
THEOREM VaultRoundTrip == Spec => []VaultKeepsPayloads
  <1>1. Init => IsSeals(seals) /\ VaultInv
    BY DEF Init, IsSeals, VaultInv, Busy
  <1>2. OwnerInv /\ VaultInv => VaultKeepsPayloads
    BY DEF OwnerInv, OneOwner, VaultInv, VaultKeepsPayloads, Answers, Busy
  <1> QED
    BY <1>1, <1>2, InitOwner, StepOwner, SealsGrow, StepVault, PTL DEF Spec

=============================================================================
