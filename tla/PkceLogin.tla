----------------------------- MODULE PkceLogin ------------------------------
(***************************************************************************)
(* docs/ecosystem_shared/auth_pkce.py in a satellite app: the request view  *)
(* that should send a browser to iyou_idp, and the authentication backend   *)
(* that exchanges a code for a user, carried out by several workers over    *)
(* one user table that operators edit too.                                  *)
(*                                                                         *)
(* authenticate() is modelled as Django's entry into the backend, whichever *)
(* view calls it: every statement against the database is a step, and a     *)
(* worker may die between two of them (Django commits each by itself).      *)
(***************************************************************************)
EXTENDS Naturals

CONSTANTS
    Worker,        \* processes of the app
    Sub,           \* DIDs that userinfo may name
    AdminDid,      \* settings.ADMIN_DID, or None
    None,          \* a missing sub, a missing row, a function's None
    VerifierSize,  \* settings.OIDC_PKCE_CODE_VERIFIER_SIZE
    MaxRequests,   \* bound: requests to the app
    OperatorRow,   \* what operators make of a row; None deletes it
    MaxEdits       \* bound: operators' changes to the user table

ASSUME SizeAssumption == VerifierSize \in Nat
ASSUME BoundsAssumption == MaxRequests \in Nat /\ MaxEdits \in Nat

\* A user row.  get_or_create leaves the password blank, which Django counts
\* as usable until set_unusable_password.
Row == [password : {"blank", "unusable", "usable"},
        staff : BOOLEAN, superuser : BOOLEAN]

ASSUME NoneAssumption == None \notin Sub /\ None \notin Row

ASSUME OperatorAssumption == OperatorRow \subseteq Row \cup {None}

Fresh == [password |-> "blank", staff |-> FALSE, superuser |-> FALSE]

VARIABLES
    pc,        \* where each worker is
    sub,       \* the DID its login is for
    user,      \* its copy of the row
    outcome,   \* how its last request ended
    session,   \* length of the verifier in its browser's session, 0: none
    users,     \* the user table
    requests,  \* bound
    edits      \* bound

\* History, read by the properties alone.
VARIABLES
    meddled,   \* an operator has edited the row since this login read it
    edited,    \* the rows operators have edited
    brokenOff  \* a worker died, or the database failed, while creating it

loginVars   == <<pc, sub, user, outcome>>
historyVars == <<meddled, edited, brokenOff>>
vars        == <<loginVars, session, users, requests, edits, historyVars>>

Stages == {"token", "userinfo", "lookup", "password", "privileges", "save"}

Busy(w) == pc[w] \in Stages

-----------------------------------------------------------------------------
Init ==
    /\ pc = [w \in Worker |-> "idle"]
    /\ sub = [w \in Worker |-> None]
    /\ user = [w \in Worker |-> Fresh]
    /\ outcome = [w \in Worker |-> "none"]
    /\ session = [w \in Worker |-> 0]
    /\ users = [s \in Sub |-> None]
    /\ requests = 0
    /\ edits = 0
    /\ meddled = [w \in Worker |-> FALSE]
    /\ edited = {}
    /\ brokenOff = {}

\* Mutant: one request too many.
Accepts_OneMore(w) ==
    /\ ~Busy(w)
    /\ requests <= MaxRequests
    /\ requests' = requests + 1

Accepts(w) ==
    /\ ~Busy(w)
    /\ requests < MaxRequests
    /\ requests' = requests + 1

\* The request ends: a user, None, an exception, or where it redirects to.
Ends(w, how) ==
    /\ pc' = [pc EXCEPT ![w] = "done"]
    /\ outcome' = [outcome EXCEPT ![w] = how]
    /\ user' = [user EXCEPT ![w] = Fresh]

GoesOn(w, stage) ==
    /\ pc' = [pc EXCEPT ![w] = stage]
    /\ UNCHANGED outcome

-----------------------------------------------------------------------------
(* PKCEOIDCAuthenticationRequestView.get                                   *)

SizeAllowed == VerifierSize \in 43 .. 128

\* Characters of base64url for that many random bytes.
VerifierLength == (4 * VerifierSize + 2) \div 3

\* `params' is read where the redirect URI is stored, before it is assigned:
\* the verifier is in the session and the request ends in the handler.
AuthRequest(w) ==
    /\ Accepts(w)
    /\ session' = IF SizeAllowed THEN [session EXCEPT ![w] = VerifierLength]
                  ELSE session
    /\ Ends(w, "failure page")
    /\ sub' = [sub EXCEPT ![w] = None]
    /\ UNCHANGED <<users, edits, historyVars>>

-----------------------------------------------------------------------------
(* PKCEAuthenticationBackend.authenticate                                  *)

\* Without a code and a state there is nothing to exchange.
Authenticate(w, complete) ==
    /\ Accepts(w)
    /\ IF complete THEN GoesOn(w, "token") /\ UNCHANGED user
       ELSE Ends(w, "None")
    /\ sub' = [sub EXCEPT ![w] = None]
    /\ meddled' = [meddled EXCEPT ![w] = FALSE]
    /\ UNCHANGED <<session, users, edits, edited, brokenOff>>

At(w, stage) ==
    /\ pc[w] = stage
    /\ UNCHANGED <<session, requests, edits, edited>>

TokenGranted(w) ==
    /\ At(w, "token")
    /\ GoesOn(w, "userinfo")
    /\ UNCHANGED <<sub, user, users, meddled, brokenOff>>

\* ValueError, which is no RequestException.
TokenLacksAccess(w) ==
    /\ At(w, "token")
    /\ Ends(w, "raised")
    /\ UNCHANGED <<sub, users, meddled, brokenOff>>

\* Mutant: the second exchange has no timeout.
ProviderFails_TokenOnly(w) ==
    /\ At(w, "token")
    /\ Ends(w, "None")
    /\ UNCHANGED <<sub, users, meddled, brokenOff>>

\* Either exchange is refused, breaks, times out or answers with an error.  The
\* timeout is that of each read from the socket: it ends an exchange with a
\* provider that falls silent, not one with a provider that drips.
ProviderFails(w) ==
    /\ \E stage \in {"token", "userinfo"} : At(w, stage)
    /\ Ends(w, "None")
    /\ UNCHANGED <<sub, users, meddled, brokenOff>>

UserinfoAnswered(w, s) ==
    /\ At(w, "userinfo")
    /\ IF s = None THEN Ends(w, "None")
       ELSE GoesOn(w, "lookup") /\ UNCHANGED user
    /\ sub' = [sub EXCEPT ![w] = s]
    /\ UNCHANGED <<users, meddled, brokenOff>>

-----------------------------------------------------------------------------
(* _get_or_create_user                                                     *)

\* get_or_create(username=sub): atomic, for usernames are unique.
CreateUser(w) ==
    /\ At(w, "lookup")
    /\ users[sub[w]] = None
    /\ users' = [users EXCEPT ![sub[w]] = Fresh]
    /\ user' = [user EXCEPT ![w] = Fresh]
    /\ meddled' = [meddled EXCEPT ![w] = FALSE]
    /\ GoesOn(w, "password")
    /\ UNCHANGED <<sub, brokenOff>>

GetUser(w) ==
    /\ At(w, "lookup")
    /\ users[sub[w]] # None
    /\ user' = [user EXCEPT ![w] = users[sub[w]]]
    /\ meddled' = [meddled EXCEPT ![w] = FALSE]
    /\ GoesOn(w, "privileges")
    /\ UNCHANGED <<sub, users, brokenOff>>

\* The row with these fields of the worker's copy written over it.
Saved(w, copy, fields) ==
    [users EXCEPT ![sub[w]] =
        [f \in DOMAIN Fresh |-> IF f \in fields THEN copy[f] ELSE @[f]]]

Passwordless(row) == [row EXCEPT !.password = "unusable"]

\* Mutant: save() without update_fields.
SavePassword_WholeRow(w) ==
    /\ At(w, "password")
    /\ users[sub[w]] # None
    /\ user' = [user EXCEPT ![w] = Passwordless(@)]
    /\ users' = Saved(w, user'[w], {"password", "staff", "superuser"})
    /\ GoesOn(w, "privileges")
    /\ UNCHANGED <<sub, meddled, brokenOff>>

\* Mutant: "on admin elevation only".
SavePassword_AdminOnly(w) ==
    /\ At(w, "password")
    /\ users[sub[w]] # None
    /\ user' = [user EXCEPT ![w] = Passwordless(@)]
    /\ users' = IF sub[w] = AdminDid THEN Saved(w, user'[w], {"password"})
                ELSE users
    /\ GoesOn(w, "privileges")
    /\ UNCHANGED <<sub, meddled, brokenOff>>

SavePassword(w) ==
    /\ At(w, "password")
    /\ users[sub[w]] # None
    /\ user' = [user EXCEPT ![w] = Passwordless(@)]
    /\ users' = Saved(w, user'[w], {"password"})
    /\ GoesOn(w, "privileges")
    /\ UNCHANGED <<sub, meddled, brokenOff>>

\* The except clause around both statements: the database fails, or an
\* operator has deleted the row that is to be saved.
ProvisioningFails(w) ==
    /\ \E stage \in {"lookup", "password"} : At(w, stage)
    /\ brokenOff' = IF pc[w] = "password" THEN brokenOff \cup {sub[w]}
                    ELSE brokenOff
    /\ Ends(w, "None")
    /\ UNCHANGED <<sub, users, meddled>>

\* What an admin's row is made into.
Elevated == [password |-> "unusable", staff |-> TRUE, superuser |-> TRUE]

\* Mutant: any configured admin elevates everybody.
IsAdmin_Configured(w) == AdminDid # None

IsAdmin(w) == AdminDid # None /\ sub[w] = AdminDid

\* Mutant: the roles alone decide whether there is something to save.
Dirty_RolesOnly(w) == IsAdmin(w) /\ ~(user[w].staff /\ user[w].superuser)

Dirty(w) == IsAdmin(w) /\ user[w] # Elevated

ElevateAdmin(w) ==
    /\ At(w, "privileges")
    /\ Dirty(w)
    /\ user' = [user EXCEPT ![w] = Elevated]
    /\ GoesOn(w, "save")
    /\ UNCHANGED <<sub, users, meddled, brokenOff>>

ReturnUser(w) ==
    /\ At(w, "privileges")
    /\ ~Dirty(w)
    /\ Ends(w, "user")
    /\ UNCHANGED <<sub, users, meddled, brokenOff>>

SavePrivileges(w) ==
    /\ At(w, "save")
    /\ users[sub[w]] # None
    /\ users' = Saved(w, user[w], {"staff", "superuser", "password"})
    /\ Ends(w, "user")
    /\ UNCHANGED <<sub, meddled, brokenOff>>

\* This save stands outside the try.
SaveRaises(w) ==
    /\ At(w, "save")
    /\ Ends(w, "raised")
    /\ UNCHANGED <<sub, users, meddled, brokenOff>>

-----------------------------------------------------------------------------
(* The world                                                               *)

Crash(w) ==
    /\ Busy(w)
    /\ Ends(w, "crashed")
    /\ brokenOff' = IF pc[w] = "password" THEN brokenOff \cup {sub[w]}
                    ELSE brokenOff
    /\ UNCHANGED <<sub, session, users, requests, edits, meddled, edited>>

\* Through the admin site or manage.py: roles, passwords, deletion.
OperatorEdits(s, row) ==
    /\ edits < MaxEdits
    /\ edits' = edits + 1
    /\ users[s] # row
    /\ users' = [users EXCEPT ![s] = row]
    /\ edited' = edited \cup {s}
    /\ meddled' = [w \in Worker |-> meddled[w] \/ sub[w] = s]
    /\ UNCHANGED <<loginVars, session, requests, brokenOff>>

\* What a worker does of itself or when its patience ends.
WorkerStep(w) ==
    \/ ProviderFails(w)
    \/ CreateUser(w)
    \/ GetUser(w)
    \/ SavePassword(w)
    \/ ProvisioningFails(w)
    \/ ElevateAdmin(w)
    \/ ReturnUser(w)
    \/ SavePrivileges(w)
    \/ SaveRaises(w)

Next ==
    \/ \E w \in Worker :
          \/ AuthRequest(w)
          \/ \E complete \in BOOLEAN : Authenticate(w, complete)
          \/ TokenGranted(w)
          \/ TokenLacksAccess(w)
          \/ \E s \in Sub \cup {None} : UserinfoAnswered(w, s)
          \/ WorkerStep(w)
          \/ Crash(w)
    \/ \E s \in Sub, row \in OperatorRow : OperatorEdits(s, row)

Spec == Init /\ [][Next]_vars

\* Workers are scheduled, the database answers or fails, and a provider that
\* does not answer is silent (it does not drip), so that reads time out.
FairSpec == Spec /\ \A w \in Worker : WF_vars(WorkerStep(w))

-----------------------------------------------------------------------------
(* Properties                                                              *)

\* Past userinfo a login knows whose it is.
NamesItsUser ==
    \A w \in Worker :
        pc[w] \in {"lookup", "password", "privileges", "save"} => sub[w] \in Sub

\* Every variable holds a value of the program's types.
TypeOK ==
    /\ pc \in [Worker -> Stages \cup {"idle", "done"}]
    /\ sub \in [Worker -> Sub \cup {None}]
    /\ NamesItsUser
    /\ user \in [Worker -> Row]
    /\ outcome \in [Worker -> {"none", "None", "user", "raised", "crashed",
                               "failure page"}]
    /\ session \in [Worker -> {0} \cup 58 .. 171]
    /\ users \in [Sub -> Row \cup {None}]
    /\ requests \in 0 .. MaxRequests
    /\ edits \in 0 .. MaxEdits
    /\ meddled \in [Worker -> BOOLEAN]
    /\ edited \subseteq Sub
    /\ brokenOff \subseteq Sub

\* Nobody but an operator takes back what a login has read or is writing.
CopyInv(w) ==
    /\ pc[w] = "password" => user[w] = Fresh
    /\ pc[w] = "save" => user[w] = Elevated /\ IsAdmin(w)
    /\ pc[w] \in {"password", "privileges", "save"} /\ ~meddled[w] =>
          users[sub[w]] \in Row
    /\ pc[w] = "privileges" /\ ~meddled[w] =>
          /\ user[w].staff => users[sub[w]].staff
          /\ user[w].superuser => users[sub[w]].superuser
          /\ user[w].password = "unusable" =>
                users[sub[w]].password = "unusable"

\* Why AdminIsElevated holds: a worker may act on a copy that is behind the
\* row, but never on one that is ahead of it.
CopiesAreCurrent == \A w \in Worker : CopyInv(w)

\* Whenever the backend hands out the admin's user, the row in the database is
\* the elevated one and has no password, though other workers are creating,
\* reading and saving the same row with older copies of it.
AdminIsElevated ==
    \A w \in Worker :
        /\ outcome[w] = "user" /\ pc[w] = "done" /\ ~meddled[w]
        /\ sub[w] = AdminDid
        => users[AdminDid] = Elevated

\* A login changes nothing in another user's row, and takes back nothing an
\* operator put there, but for the password of a row it has just created.
OthersKeepTheirRoles ==
    [][\A s \in Sub \ {AdminDid} :
          users[s] # None /\ edits' = edits =>
              users'[s] \in {users[s], Passwordless(users[s])}]_vars

\* A row that logins created lacks an unusable password only while the login
\* that created it has yet to save one - another login may read and hand out
\* the user in that moment - and is left with one, however many logins there
\* were for it, unless a worker died or the database failed between the two
\* statements that create it, or an operator edited the row.
CreatedPasswordless ==
    \A s \in Sub \ (edited \cup brokenOff) :
        users[s] # None /\ users[s].password # "unusable" =>
            \E w \in Worker : pc[w] = "password" /\ sub[w] = s

\* Every request ends, though the provider may fall silent at either exchange.
RequestEnds == \A w \in Worker : Busy(w) ~> ~Busy(w)

\* Claimed by the docstring of the request view: it redirects the browser to
\* iyou_idp with the challenge (whenever the settings allow a verifier).
RequestReachesProvider ==
    \A w \in Worker : session[w] > 0 => outcome[w] # "failure page"

=============================================================================
