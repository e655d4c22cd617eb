------------------------------- MODULE Vault --------------------------------
(***************************************************************************)
(* vault_crypto.rs: a payload is sealed under a key-encryption key, with a  *)
(* nonce of its own in front and the tag behind, and opened again from the  *)
(* bytes alone.                                                            *)
(*                                                                         *)
(* The cipher is symbolic.  `seals' is the sequence of all encryptions ever *)
(* made, and each byte the n-th of them puts out is << what, n, position >>: *)
(* nonces do not repeat, nothing else yields those bytes, and the cipher     *)
(* opens exactly the bytes of one encryption under its nonce and key.       *)
(***************************************************************************)
EXTENDS Naturals, Sequences

CONSTANTS
    Kek,         \* key-encryption keys, 32 bytes each
    Plaintext,   \* payloads: [len, utf8], and whatever tells them apart
    NONCE_LEN,
    TAG_LEN

ASSUME VaultAssumption ==
    /\ NONCE_LEN \in Nat \ {0} /\ TAG_LEN \in Nat \ {0}
    /\ \A p \in Plaintext : p.len \in Nat

HEADER_LEN == NONCE_LEN + TAG_LEN

Seal(kek, plaintext) == [kek |-> kek, plaintext |-> plaintext]

IsSeals(seals) == seals \in Seq([kek : Kek, plaintext : Plaintext])

-----------------------------------------------------------------------------
(* ChaCha20-Poly1305                                                       *)

Nonce(n) == [i \in 1 .. NONCE_LEN |-> <<"nonce", n, i>>]

\* What cipher.encrypt puts out: as many bytes as the payload has, and a tag.
Sealed(seals, n) ==
    [i \in 1 .. seals[n].plaintext.len + TAG_LEN |-> <<"sealed", n, i>>]

Fits(seals, n, kek, nonce, sealed) ==
    seals[n].kek = kek /\ nonce = Nonce(n) /\ sealed = Sealed(seals, n)

Opened(plaintext) == [valid |-> TRUE, plaintext |-> plaintext]
Refused           == [valid |-> FALSE]

CipherDecrypt(seals, kek, nonce, sealed) ==
    IF \E n \in DOMAIN seals : Fits(seals, n, kek, nonce, sealed)
    THEN Opened(seals[CHOOSE n \in DOMAIN seals :
                         Fits(seals, n, kek, nonce, sealed)].plaintext)
    ELSE Refused

-----------------------------------------------------------------------------
\* encrypt_vault_payload, the n-th time it is called.
EncryptVaultPayload(seals, n) == Nonce(n) \o Sealed(seals, n)

\* decrypt_vault_payload: too short, or split behind the nonce.
DecryptVaultPayload(seals, kek, bytes) ==
    IF Len(bytes) < HEADER_LEN
    THEN Refused
    ELSE CipherDecrypt(seals, kek, SubSeq(bytes, 1, NONCE_LEN),
                       SubSeq(bytes, NONCE_LEN + 1, Len(bytes)))

-----------------------------------------------------------------------------
(* What storage can make of ciphertexts: cut one short, lose the head of    *)
(* one, put two together.                                                  *)

Intact(seals) == { EncryptVaultPayload(seals, n) : n \in DOMAIN seals }

Splice(b, c, m) == SubSeq(b, 1, m) \o SubSeq(c, m + 1, Len(c))

Damaged(seals) ==
    { SubSeq(b, 1, m) : b \in Intact(seals), m \in 0 .. HEADER_LEN }
      \cup { SubSeq(b, 2, Len(b)) : b \in Intact(seals) }
      \cup { Splice(b, c, m) :
                b \in Intact(seals), c \in Intact(seals), m \in 0 .. HEADER_LEN }

Ciphertexts(seals) == Intact(seals) \cup Damaged(seals)

\* What a ciphertext ought to open to: the payload it was sealed from, under
\* the key it was sealed with, byte for byte as it was put out.
Holds(seals, kek, bytes, plaintext) ==
    \E n \in DOMAIN seals :
        /\ seals[n] = Seal(kek, plaintext)
        /\ bytes = EncryptVaultPayload(seals, n)

=============================================================================
