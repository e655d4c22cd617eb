---------------------------- MODULE VerifierSpec ----------------------------
(***************************************************************************)
(* What verify_vc and verify_vp promise a caller, whoever else calls and     *)
(* whatever hosts do meanwhile: one verdict, in time, with a reason.         *)
(*                                                                         *)
(* Nothing is said of items, fetches or methods.  A document is sound under  *)
(* what hosts offer at one time; the promise relates the verdict to what     *)
(* they offered while the call lasted.  Verifier implements this.            *)
(***************************************************************************)
EXTENDS Naturals

CONSTANTS
    Caller,
    Document,
    NoRequest,       \* stands for the document of a caller that never called
    Error,           \* the verdicts besides "valid"
    Offering,        \* what all hosts together may offer at one time
    Part(_, _),      \* of document and offering: what concerns the document
    Sound(_, _, _),  \* document, such a part, time
    Deadline(_)      \* how long a call for a document may last

VARIABLES
    phase,     \* of each caller: "idle", "called", "returned"
    request,   \* the document it had verified
    verdict,
    offering,  \* what hosts offer now
    now,
    calledAt,
    views,     \* what they offered its document, at each instant of the call
    failed     \* the call broke off on the network

vars == <<phase, request, verdict, offering, now, calledAt, views, failed>>

Init ==
    /\ phase = [c \in Caller |-> "idle"]
    /\ request = [c \in Caller |-> NoRequest]
    /\ verdict = [c \in Caller |-> "none"]
    /\ offering \in Offering
    /\ now = 0
    /\ calledAt = [c \in Caller |-> 0]
    /\ views = [c \in Caller |-> {}]
    /\ failed = [c \in Caller |-> FALSE]

Request(c, d) ==
    /\ phase[c] # "called"
    /\ phase' = [phase EXCEPT ![c] = "called"]
    /\ request' = [request EXCEPT ![c] = d]
    /\ verdict' = [verdict EXCEPT ![c] = "none"]
    /\ calledAt' = [calledAt EXCEPT ![c] = now]
    /\ views' = [views EXCEPT ![c] = {Part(d, offering)}]
    /\ failed' = [failed EXCEPT ![c] = FALSE]
    /\ UNCHANGED <<offering, now>>

\* "valid" takes a document that was sound when the call began, under all
\* that was offered since; an error takes one that is not sound under what
\* was offered at some instant of the call - or the network, which only a
\* document that needs it can blame.
MayAnswer(c, v, broke) ==
    IF v = "valid"
    THEN ~broke /\ Sound(request[c], UNION views[c], calledAt[c])
    ELSE IF broke
    THEN Deadline(request[c]) > 0
    ELSE \E o \in views[c] : ~Sound(request[c], o, now)

Respond(c) ==
    /\ phase[c] = "called"
    /\ phase' = [phase EXCEPT ![c] = "returned"]
    /\ \E v \in Error \cup {"valid"}, broke \in BOOLEAN :
          /\ MayAnswer(c, v, broke)
          /\ verdict' = [verdict EXCEPT ![c] = v]
          /\ failed' = [failed EXCEPT ![c] = broke]
    /\ UNCHANGED <<request, offering, now, calledAt, views>>

Change ==
    /\ offering' \in Offering
    /\ views' = [c \in Caller |->
                    IF phase[c] = "called"
                    THEN views[c] \cup {Part(request[c], offering')}
                    ELSE views[c]]
    /\ UNCHANGED <<phase, request, verdict, now, calledAt, failed>>

\* Time waits for a call that has come to its deadline.
PassTime ==
    /\ \A c \in Caller :
          phase[c] = "called" => now < calledAt[c] + Deadline(request[c])
    /\ now' = now + 1
    /\ UNCHANGED <<phase, request, verdict, offering, calledAt, views, failed>>

Next ==
    \/ \E c \in Caller : Respond(c) \/ \E d \in Document : Request(c, d)
    \/ Change
    \/ PassTime

Spec == Init /\ [][Next]_vars

Responds == \A c \in Caller : phase[c] = "called" ~> phase[c] = "returned"

\* The promise as a whole: no verdict without its reason, and a verdict.
FairSpec == Spec /\ Responds

=============================================================================
