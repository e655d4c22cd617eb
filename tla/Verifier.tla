------------------------------ MODULE Verifier ------------------------------
(***************************************************************************)
(* verify_vc and verify_vp as the concurrent, blocking calls they are.      *)
(*                                                                         *)
(* A call checks the items of its document in order.  Checking an item is   *)
(* local until its signer turns out to be a did:web: the document of that   *)
(* DID is then fetched in two blocking operations (send, read the body),    *)
(* each with its own timeout, while the clock runs and hosts go on changing *)
(* what they publish.  Nothing is cached: every item fetches anew.          *)
(*                                                                         *)
(* Local computation takes no time: the clock waits for a call in "check".  *)
(***************************************************************************)
EXTENDS Credentials, FiniteSets

CONSTANTS
    Caller,        \* threads calling the library
    Document,      \* the documents they verify: [kind, text]
    Publication,   \* what a host may serve: a set of methods, NoDoc, Invalid
    NoDoc,         \* the host answers with an HTTP error
    HttpResolver,  \* the crate feature "http-resolver" is compiled in
    OpTimeout,     \* the HTTP client's timeout, for each blocking operation
    LastCall,      \* bound: no call starts after this time
    MaxTime,       \* bound: the clock stops here
    MaxViews       \* bound: a call lives through so many offers of its hosts

ASSUME TimeAssumption ==
    OpTimeout \in Nat \ {0} /\ LastCall \in Nat /\ MaxTime \in Nat

ASSUME DocumentAssumption ==
    \A d \in Document : d.kind \in {"vc", "vp"} /\ LastItem(d) \in Nat

\* A proof value that does not decode is no signature.
ASSUME UndecodableAssumption ==
    \A d \in Document : d.text # Invalid =>
        \A i \in Items(d), k \in Key :
            Invalid # Sign(k, PayloadOf(ItemText(d, i)))

VARIABLES
    pc,         \* where each call is
    doc,        \* the document it verifies
    item,       \* the item it is at
    since,      \* when its pending network operation began
    fetched,    \* the body the host answered its pending fetch with
    answer,     \* what it returned: "valid" or an error
    published,  \* what each did:web host serves
    now         \* Utc::now()

\* History, read by the properties alone.
VARIABLES
    calledAt, answeredAt,
    views,      \* what hosts offered, at every instant of the call
    failed      \* the call broke off on the network

callVars    == <<pc, doc, item, since, fetched, answer>>
historyVars == <<calledAt, answeredAt, views, failed>>
vars        == <<callVars, published, now, historyVars>>

NotCalled == [kind |-> "vc", text |-> Invalid]

Active(c) == pc[c] \in {"check", "send", "body"}

KeysServed(p) == IF p \in {NoDoc, Invalid} THEN {} ELSE KeysOf(p)

Uses(document, w) ==
    \E i \in Items(document) : SignerOf(document, i) = WebDid(w)

\* What the hosts that a document names offer its verifier, as pairs
\* << w, k >>: host w offers key k; nothing to one built without HTTP.
ListedFor(document, pub) ==
    { wk \in WebName \X Key :
        /\ HttpResolver
        /\ Uses(document, wk[1])
        /\ wk[2] \in KeysServed(pub[wk[1]]) }

IsWebItem(document, i) ==
    \E w \in WebName : SignerOf(document, i) = WebDid(w)

-----------------------------------------------------------------------------
Init ==
    /\ pc = [c \in Caller |-> "idle"]
    /\ doc = [c \in Caller |-> NotCalled]
    /\ item = [c \in Caller |-> 0]
    /\ since = [c \in Caller |-> 0]
    /\ fetched = [c \in Caller |-> NoDoc]
    /\ answer = [c \in Caller |-> "none"]
    /\ published \in [WebName -> Publication]
    /\ now = 0
    /\ calledAt = [c \in Caller |-> 0]
    /\ answeredAt = [c \in Caller |-> 0]
    /\ views = [c \in Caller |-> {}]
    /\ failed = [c \in Caller |-> FALSE]

\* verify_vc(text) or verify_vp(text) is entered, for the first time or again.
Call(c, d) ==
    /\ pc[c] \in {"idle", "done"}
    /\ now <= LastCall
    /\ pc' = [pc EXCEPT ![c] = "check"]
    /\ doc' = [doc EXCEPT ![c] = d]
    /\ item' = [item EXCEPT ![c] = FirstItem(d)]
    /\ answer' = [answer EXCEPT ![c] = "none"]
    /\ calledAt' = [calledAt EXCEPT ![c] = now]
    /\ answeredAt' = [answeredAt EXCEPT ![c] = 0]
    /\ views' = [views EXCEPT ![c] = {ListedFor(d, published)}]
    /\ failed' = [failed EXCEPT ![c] = FALSE]
    /\ UNCHANGED <<since, fetched, published, now>>

\* The call returns.
Answer(c, a) ==
    /\ pc' = [pc EXCEPT ![c] = "done"]
    /\ answer' = [answer EXCEPT ![c] = a]
    /\ answeredAt' = [answeredAt EXCEPT ![c] = now]
    /\ since' = [since EXCEPT ![c] = 0]
    /\ fetched' = [fetched EXCEPT ![c] = NoDoc]
    /\ UNCHANGED item

\* Mutant: the last credential is left out (off by one).
Accept_SkipsLast(c) ==
    IF item[c] = 0 /\ CredentialMember(doc[c]) = Absent
    THEN Answer(c, "VP is missing verifiableCredential")
    ELSE IF item[c] + 1 >= LastItem(doc[c])
    THEN Answer(c, "valid")
    ELSE /\ pc' = [pc EXCEPT ![c] = "check"]
         /\ item' = [item EXCEPT ![c] = @ + 1]
         /\ since' = [since EXCEPT ![c] = 0]
         /\ fetched' = [fetched EXCEPT ![c] = NoDoc]
         /\ UNCHANGED <<answer, answeredAt>>

\* Mutant: a presentation of no credentials counts as one without the member.
Accept_EmptyIsMissing(c) ==
    IF item[c] = 0 /\ LastItem(doc[c]) = 0
    THEN Answer(c, "VP is missing verifiableCredential")
    ELSE IF item[c] = LastItem(doc[c])
    THEN Answer(c, "valid")
    ELSE /\ pc' = [pc EXCEPT ![c] = "check"]
         /\ item' = [item EXCEPT ![c] = @ + 1]
         /\ since' = [since EXCEPT ![c] = 0]
         /\ fetched' = [fetched EXCEPT ![c] = NoDoc]
         /\ UNCHANGED <<answer, answeredAt>>

\* The signature of the current item verified: go on with the next one.
Accept(c) ==
    IF item[c] = 0 /\ CredentialMember(doc[c]) = Absent
    THEN Answer(c, "VP is missing verifiableCredential")
    ELSE IF item[c] = LastItem(doc[c])
    THEN Answer(c, "valid")
    ELSE /\ pc' = [pc EXCEPT ![c] = "check"]
         /\ item' = [item EXCEPT ![c] = @ + 1]
         /\ since' = [since EXCEPT ![c] = 0]
         /\ fetched' = [fetched EXCEPT ![c] = NoDoc]
         /\ UNCHANGED <<answer, answeredAt>>

\* Mutant: the first method of the document is the only one tried.
Conclude_FirstMethodOnly(c, keys) ==
    IF keys # {} /\ SignedByOneOf(doc[c], item[c], {CHOOSE k \in keys : TRUE})
    THEN Accept(c)
    ELSE Answer(c, SignatureError(item[c]))

\* The loop of internal_verify_signature over the resolved methods.
Conclude(c, keys) ==
    IF SignedByOneOf(doc[c], item[c], keys)
    THEN Accept(c)
    ELSE Answer(c, SignatureError(item[c]))

-----------------------------------------------------------------------------
(* One item                                                                *)

Checking(c) ==
    /\ pc[c] = "check"
    /\ UNCHANGED <<doc, published, now, calledAt, views, failed>>

\* An early return, the expiry check among them.
CheckRejects(c) ==
    /\ Checking(c)
    /\ LocalError(doc[c], item[c], now) # "none"
    /\ Answer(c, LocalError(doc[c], item[c], now))

PassesChecks(c) == LocalError(doc[c], item[c], now) = "none"

\* The proof value is decoded before the signer is resolved.
CheckUndecodable(c) ==
    /\ Checking(c)
    /\ PassesChecks(c)
    /\ SignatureOf(ItemText(doc[c], item[c])) = Invalid
    /\ Answer(c, SignatureError(item[c]))

Resolvable(c) ==
    /\ Checking(c)
    /\ PassesChecks(c)
    /\ SignatureOf(ItemText(doc[c], item[c])) # Invalid

ResolveKeyDid(c) ==
    /\ Resolvable(c)
    /\ \E k \in Key \cup {Invalid} :
          /\ SignerOf(doc[c], item[c]) = KeyDid(k)
          /\ Conclude(c, KeysOf(KeyResolve(k)))

\* Every other method, and did:web when the crate is built without HTTP.
ResolveUnsupported(c) ==
    /\ Resolvable(c)
    /\ \A k \in Key \cup {Invalid} : SignerOf(doc[c], item[c]) # KeyDid(k)
    /\ IsWebItem(doc[c], item[c]) => ~HttpResolver
    /\ Answer(c, SignatureError(item[c]))

ResolveWebDid(c) ==
    /\ Resolvable(c)
    /\ HttpResolver
    /\ IsWebItem(doc[c], item[c])
    /\ pc' = [pc EXCEPT ![c] = "send"]
    /\ since' = [since EXCEPT ![c] = now]
    /\ UNCHANGED <<item, fetched, answer, answeredAt>>

-----------------------------------------------------------------------------
(* The fetch of a did:web document                                         *)

\* Mutant: every signer's document is taken from the first signer's host.
Host_OfFirst(c) == SignerOf(doc[c], FirstItem(doc[c]))[2]

Host(c) == SignerOf(doc[c], item[c])[2]

Fetching(c, at) ==
    /\ pc[c] \in at
    /\ UNCHANGED <<doc, published, now, calledAt, views>>

\* send() returns with a success status: the body is what the host serves
\* at this instant.
SendAnswered(c) ==
    /\ Fetching(c, {"send"})
    /\ published[Host(c)] # NoDoc
    /\ pc' = [pc EXCEPT ![c] = "body"]
    /\ since' = [since EXCEPT ![c] = now]
    /\ fetched' = [fetched EXCEPT ![c] = published[Host(c)]]
    /\ UNCHANGED <<item, answer, answeredAt, failed>>

SendRefused(c) ==
    /\ Fetching(c, {"send"})
    /\ published[Host(c)] = NoDoc
    /\ Answer(c, SignatureError(item[c]))
    /\ UNCHANGED failed

\* json(): a body that is no DID document is an error like a wrong key.
BodyRead(c) ==
    /\ Fetching(c, {"body"})
    /\ Conclude(c, KeysServed(fetched[c]))
    /\ UNCHANGED failed

FetchBreaks(c) ==
    /\ Fetching(c, {"send", "body"})
    /\ Answer(c, SignatureError(item[c]))
    /\ failed' = [failed EXCEPT ![c] = TRUE]

\* Mutant: the transport's error is the verdict.
FetchTimesOut_RawError(c) ==
    /\ Fetching(c, {"send", "body"})
    /\ now >= since[c] + OpTimeout
    /\ Answer(c, "operation timed out")
    /\ failed' = [failed EXCEPT ![c] = TRUE]

\* Mutant: a fetch that timed out is tried again.
FetchTimesOut_Retries(c) ==
    /\ Fetching(c, {"send", "body"})
    /\ now >= since[c] + OpTimeout
    /\ pc' = [pc EXCEPT ![c] = "send"]
    /\ since' = [since EXCEPT ![c] = now]
    /\ failed' = [failed EXCEPT ![c] = TRUE]
    /\ UNCHANGED <<item, fetched, answer, answeredAt>>

\* Mutant: a host that does not answer is taken for one that confirms.
FetchTimesOut_FailsOpen(c) ==
    /\ Fetching(c, {"send", "body"})
    /\ now >= since[c] + OpTimeout
    /\ Accept(c)
    /\ UNCHANGED failed

\* Mutant: the timer of the body is never armed.
FetchTimesOut_SendOnly(c) ==
    /\ Fetching(c, {"send"})
    /\ now >= since[c] + OpTimeout
    /\ Answer(c, SignatureError(item[c]))
    /\ failed' = [failed EXCEPT ![c] = TRUE]

FetchTimesOut(c) ==
    /\ Fetching(c, {"send", "body"})
    /\ now >= since[c] + OpTimeout
    /\ Answer(c, SignatureError(item[c]))
    /\ failed' = [failed EXCEPT ![c] = TRUE]

-----------------------------------------------------------------------------
(* The world                                                               *)

\* A host rotates its keys, breaks its document or takes it down.
Publish(w, p) ==
    /\ published[w] # p
    /\ published' = [published EXCEPT ![w] = p]
    /\ views' = [c \in Caller |->
                    IF Active(c)
                    THEN views[c] \cup {ListedFor(doc[c], published')}
                    ELSE views[c]]
    /\ \A c \in Caller : Cardinality(views'[c]) <= MaxViews
    /\ UNCHANGED <<callVars, now, calledAt, answeredAt, failed>>

\* No call is computing and no network operation is past its timeout.
Tick ==
    /\ now < MaxTime
    /\ \A c \in Caller :
          /\ pc[c] # "check"
          /\ pc[c] \in {"send", "body"} => now < since[c] + OpTimeout
    /\ now' = now + 1
    /\ UNCHANGED <<callVars, published, historyVars>>

\* What a call does of itself.
LocalStep(c) ==
    \/ CheckRejects(c)
    \/ CheckUndecodable(c)
    \/ ResolveKeyDid(c)
    \/ ResolveUnsupported(c)
    \/ ResolveWebDid(c)

\* What depends on the network.
NetworkStep(c) ==
    \/ SendAnswered(c)
    \/ SendRefused(c)
    \/ BodyRead(c)
    \/ FetchBreaks(c)
    \/ FetchTimesOut(c)

Next ==
    \/ \E c \in Caller :
          \/ \E d \in Document : Call(c, d)
          \/ LocalStep(c)
          \/ NetworkStep(c)
    \/ \E w \in WebName, p \in Publication : Publish(w, p)
    \/ Tick

Spec == Init /\ [][Next]_vars

\* A thread is scheduled and its timers fire; the network owes nothing.  The
\* clock goes on however many calls other threads make: an instant does not
\* hold endless calls, though each of them keeps Tick from happening.
Fairness ==
    /\ SF_vars(Tick)
    /\ \A c \in Caller : WF_vars(LocalStep(c)) /\ WF_vars(FetchTimesOut(c))

FairSpec == Spec /\ Fairness

-----------------------------------------------------------------------------
(* Properties                                                              *)

\* Every variable holds a value of the program's types.
TypeOK ==
    /\ pc \in [Caller -> {"idle", "check", "send", "body", "done"}]
    /\ doc \in [Caller -> Document \cup {NotCalled}]
    /\ item \in [Caller -> Nat]
    /\ since \in [Caller -> Nat]
    /\ fetched \in [Caller -> Publication \cup {NoDoc}]
    /\ answer \in [Caller -> Errors \cup {"none", "valid"}]
    /\ published \in [WebName -> Publication]
    /\ now \in Nat
    /\ calledAt \in [Caller -> Nat]
    /\ answeredAt \in [Caller -> Nat]
    /\ views \in [Caller -> SUBSET SUBSET (WebName \X Key)]
    /\ failed \in [Caller -> BOOLEAN]

\* All that hosts have offered since the call began.
Offered(c) == UNION views[c]

Accepted(c) == pc[c] = "done" /\ answer[c] = "valid"

\* verify_vp and verify_vc answer "valid" only for a document that was in
\* order when the call began and whose every item, the presentation itself
\* included, was signed by a key its signer's DID offered at some instant of
\* the call, whatever hosts rotate meanwhile.
ValidMeansSound ==
    \A c \in Caller :
        Accepted(c) => ~failed[c] /\ Sound(doc[c], Offered(c), calledAt[c])

\* A document is not rejected by accident: an error that is not the network's
\* means that the document was wanting, under what hosts offered at some one
\* instant of the call.
RejectionHasCause ==
    \A c \in Caller :
        pc[c] = "done" /\ answer[c] # "valid" /\ ~failed[c] =>
            \E view \in views[c] : ~Sound(doc[c], view, answeredAt[c])

\* Item i has been through the checks that precede its signature's.
Passed(c, i) ==
    i < item[c] \/ (i = item[c] /\ pc[c] \in {"send", "body"})

\* Why the verdicts are right, at every step of a call: the item it is at is
\* one of its document's; the items before it passed their checks and are
\* vouched for; a fetch is always for a did:web item, and what it brought is
\* what that host offered at some instant of the call, neither more nor less.
CallInv(c) ==
    /\ pc[c] # "idle" => doc[c] \in Document
    /\ Active(c) =>
          /\ item[c] \in Items(doc[c])
          /\ calledAt[c] <= now
          /\ ~failed[c]
          /\ ListedFor(doc[c], published) \in views[c]
          /\ \A i \in Items(doc[c]) :
                /\ Passed(c, i) => LocalError(doc[c], i, calledAt[c]) = "none"
                /\ i < item[c] => Vouched(doc[c], i, Offered(c))
    /\ pc[c] \in {"send", "body"} =>
          HttpResolver /\ IsWebItem(doc[c], item[c])
    /\ pc[c] = "body" =>
          \E view \in views[c] : \A k \in Key :
             <<Host(c), k>> \in view <=> k \in KeysServed(fetched[c])

\* The prefix of a document that a call has been through is vouched for.
VouchedSoFar == \A c \in Caller : CallInv(c)

WebItemsFrom(document, j) ==
    { i \in Items(document) : i >= j /\ IsWebItem(document, i) }

\* The expiry of a credential is looked at before its signer and the signers
\* of the credentials after it are fetched: "valid" can outlive the expiry,
\* but by no more than the two timeouts of each of those fetches.
AcceptedWhileFresh ==
    \A c \in Caller : Accepted(c) =>
        \A j \in 1 .. LastItem(doc[c]) :
            ~Expired(ItemText(doc[c], j),
                     answeredAt[c] - 2 * OpTimeout
                                       * Cardinality(WebItemsFrom(doc[c], j)))

\* Two timeouts for every did:web item.
Deadline(document) == 2 * OpTimeout * Cardinality(WebItemsFrom(document, 0))

\* However hosts stall, a call lasts at most two timeouts for every did:web
\* item of its document.
CallIsBounded ==
    \A c \in Caller : pc[c] # "idle" =>
        LET end == IF pc[c] = "done" THEN answeredAt[c] ELSE now
        IN  end - calledAt[c] <= Deadline(doc[c])

-----------------------------------------------------------------------------
(* The promise this implements                                             *)

Phase ==
    [c \in Caller |-> IF Active(c) THEN "called"
                      ELSE IF pc[c] = "done" THEN "returned"
                      ELSE "idle"]

\* Which keys each host offers, and the part of it that concerns a document.
KeysOffered ==
    [w \in WebName |-> IF HttpResolver THEN KeysServed(published[w]) ELSE {}]

PartFor(document, offering) ==
    { wk \in WebName \X Key :
        Uses(document, wk[1]) /\ wk[2] \in offering[wk[1]] }

Promise == INSTANCE VerifierSpec WITH
    NoRequest <- NotCalled,
    Error     <- Errors,
    Offering  <- [WebName -> SUBSET Key],
    Part      <- PartFor,
    phase     <- Phase,
    request   <- doc,
    verdict   <- answer,
    offering  <- KeysOffered

\* Every step of every call, of the hosts and of the clock is a step of the
\* promise or changes nothing that it speaks of.
KeepsPromise == Promise!Spec

\* Every call returns, though hosts may stall for ever.  With KeepsPromise
\* this is the promise as a whole, Promise!FairSpec.
CallReturns == Promise!Responds

=============================================================================
