------------------------------ MODULE Bindings ------------------------------
(***************************************************************************)
(* The two layers around the library: the C functions, which return strings *)
(* the caller has to give back to free_string, and the WASM functions.      *)
(*                                                                         *)
(* Native threads call the C functions as the Python wrapper of the         *)
(* developer guide does: call, read the string, free it, in three steps     *)
(* between which the others go on.  The allocator hands out any address     *)
(* that is free, one just freed among them.  WASM functions run on a thread *)
(* and a memory of their own and return in one step.                        *)
(*                                                                         *)
(* Signers are did:keys (fetches are Verifier's); a result is the envelope  *)
(* its JSON decodes to, without the wording of errors.                      *)
(***************************************************************************)
EXTENDS Credentials, Vault, FiniteSets

CONSTANTS
    Thread,      \* native threads
    Address,     \* where the allocator can put a string
    Null,        \* the null pointer
    NotUtf8,     \* a C string that is not UTF-8
    Draft,       \* credentials without a proof
    Seed,        \* PRF seeds of 32 bytes
    Malformed,   \* bytes or hex of another length, or no hex
    MaxLoad      \* bound: strings out, texts kept and payloads sealed at once

ASSUME DraftAssumption == \A o \in Draft : IsObject(o)

VARIABLES
    heap,        \* Address -> the string there, or Null
    pc,          \* of each thread: "idle", "read", "free"
    ptr,         \* the string it has yet to free
    got,         \* what it has read from there
    held,        \* signed texts the application keeps: [kind, text, unread]
    shown,       \* what the page's last WASM call returned, or Null
    seals        \* all encryptions, in the order they were made

\* History: what the library made of each thread's call.
VARIABLE made

threadVars == <<heap, pc, ptr, got, made>>
vars       == <<threadVars, shown, held, seals>>

Free(a) == heap[a] = Null

Busy(t) == pc[t] \in {"read", "free"}

Room ==
    Cardinality({ t \in Thread : Busy(t) }) + Cardinality(held)
      + (IF shown = Null THEN 0 ELSE 1) + Len(seals) < MaxLoad

RoomToSeal == Len(seals) + 1 < MaxLoad

-----------------------------------------------------------------------------
(* What the calls return                                                   *)

Failed == [error |-> TRUE]         \* Err(..), and {"error": ..}

Verdict(valid) == [valid |-> valid]

\* Mutant: Err(..) is not told from Ok(..).
Signed_Unchecked(kind, text, unread) ==
    [kind |-> kind, text |-> text, unread |-> unread]

\* A signed text, and whether some argument could not be read (history).
Signed(kind, text, unread) ==
    IF text = Invalid THEN Failed
    ELSE [kind |-> kind, text |-> text, unread |-> unread]

\* generate_did: an empty domain is an error, and whatever does not begin
\* with "web:" or "did:web:" is taken to mean a did:key.
GenerateDid(method, k) ==
    IF method = "web:"
    THEN Failed
    ELSE IF method \in WebName
    THEN [did |-> WebDid(method), key |-> k,
          did_document |-> { [b58 |-> k, mb |-> k] }]
    ELSE [did |-> KeyDid(k), key |-> k]

\* resolve_did: an error is an object too.
ResolveDid(did) ==
    IF \E k \in Key : did = KeyDid(k)
    THEN [did_document |-> KeyResolve(did[2])]
    ELSE Failed

Verify(kind, text) == Verdict(Sound([kind |-> kind, text |-> text], {}, 0))

\* Every caller that holds a 32-byte seed may be told that no scalar fits.
Derived(seed) ==
    IF seed = Malformed THEN {Verdict(FALSE)}
    ELSE {Verdict(FALSE), [valid |-> TRUE, identity |-> seed]}

\* The hex of the last ciphertext put out.
Ciphertext(all) ==
    [valid |-> TRUE, ciphertext |-> EncryptVaultPayload(all, Len(all))]

\* Mutant: String::from_utf8(plaintext)?, a payload has to be text.
Payload_Text(opened) ==
    IF ~opened.valid \/ ~opened.plaintext.utf8 THEN Refused
    ELSE [valid |-> TRUE, plaintext_hex |-> opened.plaintext,
          plaintext_utf8 |-> opened.plaintext]

\* The hex of a payload, and its text if it is one.
Payload(opened) ==
    IF ~opened.valid THEN opened
    ELSE [valid |-> TRUE, plaintext_hex |-> opened.plaintext,
          plaintext_utf8 |-> IF opened.plaintext.utf8 THEN opened.plaintext
                             ELSE Null]

\* An envelope of the vault, and (history) what the call was to seal.
Encrypted(kek, p) ==
    [envelope |-> Ciphertext(Append(seals, Seal(kek, p))),
     to_seal  |-> {Seal(kek, p)}]

NotEncrypted == [envelope |-> Refused, to_seal |-> {}]

\* History: what a call is to open, given that `bad' is no argument.
ToOpen(kek, bytes, bad) ==
    IF bad \in {kek, bytes} THEN {}
    ELSE { p \in Plaintext : Holds(seals, kek, bytes, p) }

Text     == Draft \cup {Invalid}
HeldVc   == { h.text : h \in { g \in held : g.kind = "vc" } } \cup {Invalid}
HeldText == { h.text : h \in held } \cup {Invalid}
Did      == { KeyDid(k) : k \in Key }
Method   == {"key", "web:"} \cup WebName

-----------------------------------------------------------------------------
(* C strings                                                               *)

\* Mutant: c_string hands out as_ptr() of a CString that is dropped.
Allocate_Dropped(t, s, a) ==
    /\ Free(a)
    /\ heap' = heap
    /\ ptr' = [ptr EXCEPT ![t] = a]

\* c_string: the string leaves the library's hands where the allocator put it.
Allocate(t, s, a) ==
    /\ Free(a)
    /\ heap' = [heap EXCEPT ![a] = s]
    /\ ptr' = [ptr EXCEPT ![t] = a]

\* A call of thread t returns the string s, or null.
Return(t, s) ==
    /\ pc[t] = "idle"
    /\ Room
    /\ IF s = Null
       THEN UNCHANGED threadVars
       ELSE /\ \E a \in Address : Allocate(t, s, a)
            /\ pc' = [pc EXCEPT ![t] = "read"]
            /\ made' = [made EXCEPT ![t] = s]
            /\ UNCHANGED got

\* The functions that return Err as null.
OrNull(r) == IF r = Failed THEN Null ELSE r

\* to_str().unwrap_or(default)
Utf8Or(p, default) == IF p = NotUtf8 THEN default ELSE p

\* Mutant: from_utf8_lossy.
ObjectOr_Lossy(p) == Utf8Or(p, << <<"credentialSubject", "garbled">> >>)

\* to_str().unwrap_or("{}")
ObjectOr(p) == Utf8Or(p, << >>)

Pointer(values) == values \cup {Null, NotUtf8}

Unread(args) == NotUtf8 \in args

-----------------------------------------------------------------------------
(* The C functions                                                         *)

GenerateDidFfi(t) ==
    /\ \E p \in Pointer(Method), k \in Key :
          Return(t, OrNull(GenerateDid(IF p = Null THEN "" ELSE Utf8Or(p, ""), k)))
    /\ UNCHANGED <<shown, held, seals>>

\* verify_vc_ffi and verify_vp_ffi have an envelope for every bad argument.
VerifyFfi(t) ==
    /\ \E p \in Pointer(HeldText), kind \in {"vc", "vp"} :
          Return(t, IF p \in {Null, NotUtf8} THEN Verdict(FALSE)
                    ELSE Verify(kind, p))
    /\ UNCHANGED <<shown, held, seals>>

IssueVcFfi(t) ==
    /\ \E credential \in Pointer(Text), did \in Pointer(Did),
          key \in Pointer(Key \cup {Invalid}) :
          Return(t, IF Null \in {credential, did, key} THEN Null
                    ELSE OrNull(Signed("vc",
                            IssueVc(ObjectOr(credential),
                                    Utf8Or(did, IpfsDid), Utf8Or(key, Invalid)),
                            Unread({credential, did, key}))))
    /\ UNCHANGED <<shown, held, seals>>

IssueVpFfi(t) ==
    /\ \E vc \in Pointer(HeldVc), holder \in Pointer(Did),
          challenge \in Pointer({"nonce"}), key \in Pointer(Key \cup {Invalid}) :
          Return(t, IF Null \in {vc, holder, challenge, key} THEN Null
                    ELSE OrNull(Signed("vp",
                            IssueVp(ObjectOr(vc), Utf8Or(holder, IpfsDid),
                                    Utf8Or(challenge, ""), Utf8Or(key, Invalid)),
                            Unread({vc, holder, challenge, key}))))
    /\ UNCHANGED <<shown, held, seals>>

ResolveDidFfi(t) ==
    /\ \E p \in Pointer(Did) :
          Return(t, IF p = Null THEN Null ELSE ResolveDid(Utf8Or(p, IpfsDid)))
    /\ UNCHANGED <<shown, held, seals>>

\* derive_identity_from_prf_ffi and derive_dependent_subkeys_ffi.
DeriveFfi(t) ==
    /\ \E seed \in Seed \cup {Null, Malformed} :
          \E r \in IF seed = Null THEN {Verdict(FALSE)} ELSE Derived(seed) :
             Return(t, r)
    /\ UNCHANGED <<shown, held, seals>>

\* kek_ptr is taken to have 32 bytes behind it; a null plaintext is refused
\* even when it is 0 bytes long.
EncryptFfi(t) ==
    \E kek \in Kek \cup {Null}, p \in Plaintext \cup {Null} :
        /\ IF Null \in {kek, p}
           THEN Return(t, NotEncrypted) /\ UNCHANGED seals
           ELSE /\ RoomToSeal
                /\ seals' = Append(seals, Seal(kek, p))
                /\ Return(t, Encrypted(kek, p))
        /\ UNCHANGED <<shown, held>>

DecryptFfi(t) ==
    /\ \E kek \in Kek \cup {Null}, bytes \in Ciphertexts(seals) \cup {Null} :
          Return(t, [envelope |-> IF Null \in {kek, bytes} THEN Refused
                                  ELSE Payload(DecryptVaultPayload(seals, kek, bytes)),
                     to_open  |-> ToOpen(kek, bytes, Null)])
    /\ UNCHANGED <<shown, held, seals>>

-----------------------------------------------------------------------------
(* The caller                                                              *)

Read(t) ==
    /\ pc[t] = "read"
    /\ got' = [got EXCEPT ![t] = heap[ptr[t]]]
    /\ pc' = [pc EXCEPT ![t] = "free"]
    /\ UNCHANGED <<heap, ptr, made, shown, held, seals>>

\* An application keeps the signed texts it is given.
Keep(s) == held' = IF "text" \in DOMAIN s THEN held \cup {s} ELSE held

Discard(h) ==
    /\ held' = held \ {h}
    /\ UNCHANGED <<threadVars, shown, seals>>

\* free_string, and the wrapper returns what it has read.
FreeString(t) ==
    /\ pc[t] = "free"
    /\ heap' = [heap EXCEPT ![ptr[t]] = Null]
    /\ pc' = [pc EXCEPT ![t] = "idle"]
    /\ ptr' = [ptr EXCEPT ![t] = Null]
    /\ got' = [got EXCEPT ![t] = Null]
    /\ made' = [made EXCEPT ![t] = Null]
    /\ Keep(got[t])
    /\ UNCHANGED <<shown, seals>>

-----------------------------------------------------------------------------
(* The WASM functions: no pointers, only valid strings, and hex for bytes.  *)
(* They return Err as an object.                                           *)

Show(s) ==
    /\ shown = Null
    /\ Room
    /\ shown' = s
    /\ UNCHANGED <<threadVars, held>>

\* The page goes on with what it was returned.
TakeShown ==
    /\ shown # Null
    /\ shown' = Null
    /\ Keep(shown)
    /\ UNCHANGED <<threadVars, seals>>

GenerateDidWasm ==
    /\ \E method \in Method, k \in Key : Show(GenerateDid(method, k))
    /\ UNCHANGED seals

VerifyWasm ==
    /\ \E text \in HeldText, kind \in {"vc", "vp"} : Show(Verify(kind, text))
    /\ UNCHANGED seals

IssueVcWasm ==
    /\ \E credential \in Text, did \in Did, key \in Key \cup {Invalid} :
          Show(Signed("vc", IssueVc(credential, did, key), FALSE))
    /\ UNCHANGED seals

ResolveDidWasm ==
    /\ \E did \in Did : Show(ResolveDid(did))
    /\ UNCHANGED seals

DeriveWasm ==
    /\ \E seed \in Seed \cup {Malformed} : \E r \in Derived(seed) : Show(r)
    /\ UNCHANGED seals

\* The payload is a string here.
EncryptWasm ==
    \E kek \in Kek \cup {Malformed}, p \in Plaintext :
        /\ p.utf8
        /\ IF kek = Malformed
           THEN Show(NotEncrypted) /\ UNCHANGED seals
           ELSE /\ RoomToSeal
                /\ seals' = Append(seals, Seal(kek, p))
                /\ Show(Encrypted(kek, p))

DecryptWasm ==
    /\ \E kek \in Kek \cup {Malformed}, bytes \in Ciphertexts(seals) \cup {Malformed} :
          Show([envelope |-> IF Malformed \in {kek, bytes} THEN Refused
                             ELSE Payload(DecryptVaultPayload(seals, kek, bytes)),
                to_open  |-> ToOpen(kek, bytes, Malformed)])
    /\ UNCHANGED seals

-----------------------------------------------------------------------------
Init ==
    /\ heap = [a \in Address |-> Null]
    /\ pc = [t \in Thread |-> "idle"]
    /\ ptr = [t \in Thread |-> Null]
    /\ got = [t \in Thread |-> Null]
    /\ made = [t \in Thread |-> Null]
    /\ shown = Null
    /\ held = {}
    /\ seals = << >>

CallFfi(t) ==
    \/ GenerateDidFfi(t)
    \/ VerifyFfi(t)
    \/ IssueVcFfi(t)
    \/ IssueVpFfi(t)
    \/ ResolveDidFfi(t)
    \/ DeriveFfi(t)
    \/ EncryptFfi(t)
    \/ DecryptFfi(t)

CallWasm ==
    \/ GenerateDidWasm
    \/ VerifyWasm
    \/ IssueVcWasm
    \/ ResolveDidWasm
    \/ DeriveWasm
    \/ EncryptWasm
    \/ DecryptWasm

Next ==
    \/ \E t \in Thread : CallFfi(t) \/ Read(t) \/ FreeString(t)
    \/ CallWasm \/ TakeShown
    \/ \E h \in held : Discard(h)

Spec == Init /\ [][Next]_vars

-----------------------------------------------------------------------------
(* Properties                                                              *)

\* Threads are where the wrapper can be, texts and payloads what calls take.
BindingsTypeOK ==
    /\ pc \in [Thread -> {"idle", "read", "free"}]
    /\ ptr \in [Thread -> Address \cup {Null}]
    /\ IsSeals(seals)
    /\ \A h \in held :
          h.kind \in {"vc", "vp"} /\ h.text # Invalid /\ IsObject(h.text)

\* Every string the library has handed out is owned by one call, whose
\* pointer is the only one to it, from the call to its free_string: what a
\* thread reads is what its own call returned, whoever allocates and frees
\* meanwhile, no pointer dangles or is freed twice, and none is forgotten.
OneOwner ==
    /\ \A t \in Thread : Busy(t) => ptr[t] \in Address /\ heap[ptr[t]] = made[t]
    /\ \A t \in Thread : pc[t] = "free" => got[t] = made[t]
    /\ \A t, u \in Thread : Busy(t) /\ Busy(u) /\ t # u => ptr[t] # ptr[u]
    /\ \A a \in Address : ~Free(a) => \E t \in Thread : Busy(t) /\ ptr[t] = a

\* issue_vc_ffi and issue_vp_ffi do not report an argument they cannot read
\* but put "{}" or "" in its place.  What they then sign proves next to
\* nothing: if it verifies at all, it is a credential that says only who
\* issued it, or a presentation that answers the empty challenge.
UnreadProvesNothing ==
    \A h \in held : h.unread /\ Sound(h, {}, 0) =>
        IF h.kind = "vc"
        THEN { member \in { h.text[i] : i \in DOMAIN h.text } :
                  member[1] \notin {"issuer", "proof"} } = {}
        ELSE Get(h.text, "challenge") = ""

\* The answers callers have in their hands.
Answers ==
    { got[t] : t \in { u \in Thread : pc[u] = "free" } }
      \cup (IF shown = Null THEN {} ELSE {shown})

\* An answer of the vault's functions does what the call was for, given all
\* encryptions that were made.
Faithful(all, answer) ==
    /\ "to_seal" \in DOMAIN answer => \A asked \in answer.to_seal :
          /\ answer.envelope.valid
          /\ Holds(all, asked.kek, answer.envelope.ciphertext, asked.plaintext)
    /\ "to_open" \in DOMAIN answer =>
          /\ \A p \in answer.to_open :
                /\ answer.envelope.valid
                /\ answer.envelope.plaintext_hex = p
                /\ answer.envelope.plaintext_utf8 = IF p.utf8 THEN p ELSE Null
          /\ answer.envelope.valid =>
                answer.envelope.plaintext_hex \in answer.to_open

\* Whichever layer sealed a payload, the ciphertext in the answer is one that
\* both layers open: what a caller reads there is the payload byte for byte,
\* be it empty, with its text if and only if it is text.  And whatever else
\* a caller asks them to open - under another key, cut or put together by
\* storage, with an argument missing - the answer it reads is a refusal.
VaultKeepsPayloads == \A answer \in Answers : Faithful(seals, answer)

=============================================================================
