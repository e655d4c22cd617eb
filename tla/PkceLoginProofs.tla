-------------------------- MODULE PkceLoginProofs ---------------------------
(***************************************************************************)
(* What the backend does to the user table, for any number of workers,      *)
(* users, requests and operators' edits: the admin it hands out is elevated *)
(* in the database, and nobody else's roles are touched.                    *)
(***************************************************************************)
EXTENDS PkceLogin, TLAPS

Fields == {"password", "staff", "superuser"}

(* A row is its three fields.                                              *)
LEMMA RowFields ==
    ASSUME NEW row \in Row
    PROVE  /\ row = [password |-> row.password, staff |-> row.staff,
                     superuser |-> row.superuser]
           /\ row.password \in {"blank", "unusable", "usable"}
           /\ row.staff \in BOOLEAN /\ row.superuser \in BOOLEAN
  BY DEF Row

(* The rows that logins make are rows.                                     *)
LEMMA MadeRows ==
    ASSUME NEW row \in Row
    PROVE  /\ Passwordless(row) = [password |-> "unusable", staff |-> row.staff,
                                   superuser |-> row.superuser]
           /\ Passwordless(row) \in Row
           /\ Elevated \in Row /\ Fresh \in Row
  <1>1. Elevated \in Row /\ Fresh \in Row
    BY DEF Row, Elevated, Fresh
  <1>2. PICK p, st, su : row = [password |-> p, staff |-> st, superuser |-> su]
    BY RowFields
  <1>3. Passwordless(row) = [password |-> "unusable", staff |-> st,
                             superuser |-> su]
    BY <1>2 DEF Passwordless
  <1>4. [password |-> "unusable", staff |-> st, superuser |-> su] \in Row
    BY <1>2, RowFields DEF Row
  <1> QED
    BY <1>1, <1>2, <1>3, <1>4

(* save(update_fields) puts the copy's fields over the row.                *)
LEMMA SavedRow ==
    ASSUME NEW w, NEW copy \in Row, NEW fields \in SUBSET Fields,
           users \in [Sub -> Row \cup {None}],
           sub[w] \in Sub, users[sub[w]] \in Row
    PROVE  /\ Saved(w, copy, fields) \in [Sub -> Row \cup {None}]
           /\ Saved(w, copy, fields)[sub[w]] \in Row
           /\ \A f \in Fields :
                 Saved(w, copy, fields)[sub[w]][f] =
                    IF f \in fields THEN copy[f] ELSE users[sub[w]][f]
           /\ \A s \in Sub : s # sub[w] =>
                 Saved(w, copy, fields)[s] = users[s]
  <1> DEFINE merged == [f \in DOMAIN Fresh |->
                          IF f \in fields THEN copy[f] ELSE users[sub[w]][f]]
  <1>1. DOMAIN Fresh = Fields
    BY DEF Fresh, Fields
  <1>2. merged = [password |-> merged.password, staff |-> merged.staff,
                  superuser |-> merged.superuser]
    BY <1>1 DEF Fields
  <1>3. /\ merged.password \in {"blank", "unusable", "usable"}
        /\ merged.staff \in BOOLEAN /\ merged.superuser \in BOOLEAN
    BY <1>1, RowFields DEF Fields
  <1>4. merged \in Row
    BY <1>2, <1>3 DEF Row
  <1>5. Saved(w, copy, fields) = [users EXCEPT ![sub[w]] = merged]
    BY DEF Saved
  <1>6. \A f \in Fields : merged[f] = IF f \in fields THEN copy[f]
                                      ELSE users[sub[w]][f]
    BY <1>1
  <1> HIDE DEF merged
  <1>7. /\ [users EXCEPT ![sub[w]] = merged] \in [Sub -> Row \cup {None}]
        /\ [users EXCEPT ![sub[w]] = merged][sub[w]] = merged
        /\ \A s \in Sub : s # sub[w] =>
              [users EXCEPT ![sub[w]] = merged][s] = users[s]
    BY <1>4
  <1> QED
    BY <1>4, <1>5, <1>6, <1>7

-----------------------------------------------------------------------------
(* The types                                                               *)

(* The first state is well typed: nobody is at work and no row exists.     *)
LEMMA InitTypeOK == Init => TypeOK
  <1>1. Fresh \in Row
    BY DEF Row, Fresh
  <1> QED
    BY <1>1, BoundsAssumption DEF Init, TypeOK, NamesItsUser, Stages

(* Ending a request keeps the types, for what it does to the DID is moot.  *)
LEMMA EndsType ==
    ASSUME TypeOK, NEW w \in Worker, NEW how, Ends(w, how),
           how \in {"None", "user", "raised", "crashed", "failure page"},
           \A v \in Worker \ {w} : sub'[v] = sub[v]
    PROVE  /\ pc' \in [Worker -> Stages \cup {"idle", "done"}]
           /\ pc' = [pc EXCEPT ![w] = "done"]
           /\ NamesItsUser'
           /\ user' \in [Worker -> Row]
           /\ outcome' \in [Worker -> {"none", "None", "user", "raised",
                                       "crashed", "failure page"}]
  <1>1. Fresh \in Row
    BY DEF Row, Fresh
  <1>2. NamesItsUser'
    <2> SUFFICES ASSUME NEW v \in Worker,
                        pc'[v] \in {"lookup", "password", "privileges", "save"}
                 PROVE  sub'[v] \in Sub
      BY DEF NamesItsUser
    <2>1. pc'[w] = "done"
      BY DEF TypeOK, Ends
    <2>2. v # w /\ pc'[v] = pc[v] /\ sub'[v] = sub[v]
      BY <2>1 DEF TypeOK, Ends
    <2> QED
      BY <2>2 DEF TypeOK, NamesItsUser
  <1>3. outcome' = [outcome EXCEPT ![w] = how]
    BY DEF Ends
  <1> QED
    BY <1>1, <1>2, <1>3 DEF TypeOK, Ends

(* A verifier that is made at all has between 58 and 171 characters.       *)
LEMMA VerifierFits ==
    ASSUME SizeAllowed
    PROVE  VerifierLength \in 58 .. 171
  BY SizeAssumption DEF SizeAllowed, VerifierLength

(* A request that is accepted is within the bound.                         *)
LEMMA AcceptsType ==
    ASSUME TypeOK, NEW w \in Worker, Accepts(w)
    PROVE  requests' \in 0 .. MaxRequests
  <1>1. /\ requests \in 0 .. MaxRequests
        /\ requests < MaxRequests
        /\ requests' = requests + 1
    BY DEF TypeOK, Accepts
  <1> QED
    BY <1>1, BoundsAssumption

(* Every request, every step of a login and every edit keeps the types.     *)
LEMMA TypeStep == TypeOK /\ [Next]_vars => TypeOK'
  <1> SUFFICES ASSUME TypeOK, [Next]_vars PROVE TypeOK'
    OBVIOUS
  <1>1. ASSUME NEW w \in Worker, AuthRequest(w) PROVE TypeOK'
    <2>1. session' \in [Worker -> {0} \cup 58 .. 171]
      BY <1>1, VerifierFits DEF TypeOK, AuthRequest
    <2>2. /\ sub' \in [Worker -> Sub \cup {None}]
          /\ \A v \in Worker \ {w} : sub'[v] = sub[v]
      BY <1>1 DEF TypeOK, AuthRequest
    <2>3. Ends(w, "failure page") /\ UNCHANGED <<users, edits, historyVars>>
      BY <1>1 DEF AuthRequest
    <2>4. requests' \in 0 .. MaxRequests
      BY <1>1, AcceptsType DEF AuthRequest
    <2> QED
      BY <2>1, <2>2, <2>3, <2>4, EndsType DEF TypeOK, historyVars
  <1>2. ASSUME NEW w \in Worker, NEW complete \in BOOLEAN,
               Authenticate(w, complete)
        PROVE  TypeOK'
    <2>1. requests' \in 0 .. MaxRequests
      BY <1>2, AcceptsType DEF Authenticate
    <2>2. /\ sub' \in [Worker -> Sub \cup {None}]
          /\ \A v \in Worker \ {w} : sub'[v] = sub[v]
          /\ meddled' \in [Worker -> BOOLEAN]
          /\ UNCHANGED <<session, users, edits, edited, brokenOff>>
      BY <1>2 DEF TypeOK, Authenticate
    <2>3. CASE complete
      <3>1. /\ pc' = [pc EXCEPT ![w] = "token"]
            /\ UNCHANGED <<user, outcome>>
        BY <1>2, <2>3 DEF Authenticate, GoesOn
      <3>2. NamesItsUser'
        BY <2>2, <3>1 DEF TypeOK, NamesItsUser
      <3> QED
        BY <2>1, <2>2, <3>1, <3>2 DEF TypeOK, Stages
    <2>4. CASE ~complete
      <3>1. Ends(w, "None")
        BY <1>2, <2>4 DEF Authenticate
      <3> QED
        BY <2>1, <2>2, <3>1, EndsType DEF TypeOK
    <2> QED
      BY <2>3, <2>4
  <1>3. ASSUME NEW w \in Worker, TokenGranted(w) PROVE TypeOK'
    BY <1>3 DEF TypeOK, NamesItsUser, TokenGranted, At, GoesOn, Stages
  <1>4. ASSUME NEW w \in Worker, TokenLacksAccess(w) PROVE TypeOK'
    BY <1>4, EndsType DEF TypeOK, TokenLacksAccess, At
  <1>5. ASSUME NEW w \in Worker, ProviderFails(w) PROVE TypeOK'
    BY <1>5, EndsType DEF TypeOK, ProviderFails, At
  <1>6. ASSUME NEW w \in Worker, NEW s \in Sub \cup {None},
               UserinfoAnswered(w, s)
        PROVE  TypeOK'
    <2>1. CASE s = None
      <3>1. /\ Ends(w, "None")
            /\ sub' = [sub EXCEPT ![w] = None]
            /\ UNCHANGED <<users, meddled, brokenOff, session, requests, edits,
                           edited>>
        BY <1>6, <2>1 DEF UserinfoAnswered, At
      <3> QED
        BY <3>1, EndsType DEF TypeOK
    <2>2. CASE s # None
      <3>1. /\ pc' = [pc EXCEPT ![w] = "lookup"]
            /\ sub' = [sub EXCEPT ![w] = s]
            /\ s \in Sub
        BY <1>6, <2>2 DEF UserinfoAnswered, GoesOn
      <3>2. NamesItsUser'
        BY <3>1 DEF TypeOK, NamesItsUser
      <3>3. /\ pc' \in [Worker -> Stages \cup {"idle", "done"}]
            /\ sub' \in [Worker -> Sub \cup {None}]
        BY <3>1 DEF TypeOK, Stages
      <3> QED
        BY <1>6, <2>2, <3>2, <3>3 DEF TypeOK, UserinfoAnswered, At, GoesOn
    <2> QED
      BY <2>1, <2>2
  <1>7. ASSUME NEW w \in Worker, CreateUser(w) PROVE TypeOK'
    <2>1. Fresh \in Row
      BY DEF Row, Fresh
    <2> QED
      BY <1>7, <2>1 DEF TypeOK, NamesItsUser, CreateUser, At, GoesOn, Stages
  <1>8. ASSUME NEW w \in Worker, GetUser(w) PROVE TypeOK'
    <2>1. users[sub[w]] \in Row
      BY <1>8 DEF TypeOK, NamesItsUser, GetUser, At
    <2> QED
      BY <1>8, <2>1 DEF TypeOK, NamesItsUser, GetUser, At, GoesOn, Stages
  <1>9. ASSUME NEW w \in Worker, SavePassword(w) PROVE TypeOK'
    <2>1. users[sub[w]] \in Row /\ sub[w] \in Sub /\ user[w] \in Row
      BY <1>9 DEF TypeOK, NamesItsUser, SavePassword, At
    <2>2. Passwordless(user[w]) \in Row
      BY <2>1, MadeRows
    <2>3. user' \in [Worker -> Row] /\ user'[w] \in Row
      BY <1>9, <2>2 DEF TypeOK, NamesItsUser, SavePassword
    <2>4. users' \in [Sub -> Row \cup {None}]
      BY <1>9, <2>1, <2>3, SavedRow DEF TypeOK, NamesItsUser, SavePassword, Fields
    <2> QED
      BY <1>9, <2>3, <2>4 DEF TypeOK, NamesItsUser, SavePassword, At, GoesOn, Stages
  <1>10. ASSUME NEW w \in Worker, ProvisioningFails(w) PROVE TypeOK'
    <2>1. pc[w] = "password" => sub[w] \in Sub
      BY DEF TypeOK, NamesItsUser
    <2>2. brokenOff' \subseteq Sub
      BY <1>10, <2>1 DEF TypeOK, ProvisioningFails
    <2>3. /\ Ends(w, "None")
          /\ UNCHANGED <<sub, users, meddled, session, requests, edits, edited>>
      BY <1>10 DEF ProvisioningFails, At
    <2> QED
      BY <2>2, <2>3, EndsType DEF TypeOK
  <1>11. ASSUME NEW w \in Worker, ElevateAdmin(w) PROVE TypeOK'
    <2>1. Elevated \in Row
      BY DEF Row, Elevated
    <2> QED
      BY <1>11, <2>1 DEF TypeOK, NamesItsUser, ElevateAdmin, At, GoesOn, Stages
  <1>12. ASSUME NEW w \in Worker, ReturnUser(w) PROVE TypeOK'
    BY <1>12, EndsType DEF TypeOK, ReturnUser, At
  <1>13. ASSUME NEW w \in Worker, SavePrivileges(w) PROVE TypeOK'
    <2>1. users[sub[w]] \in Row /\ sub[w] \in Sub /\ user[w] \in Row
      BY <1>13 DEF TypeOK, NamesItsUser, SavePrivileges, At
    <2>2. users' \in [Sub -> Row \cup {None}]
      BY <1>13, <2>1, SavedRow DEF TypeOK, NamesItsUser, SavePrivileges, Fields
    <2>3. /\ Ends(w, "user")
          /\ UNCHANGED <<sub, meddled, brokenOff, session, requests, edits,
                         edited>>
      BY <1>13 DEF SavePrivileges, At
    <2> QED
      BY <2>2, <2>3, EndsType DEF TypeOK
  <1>14. ASSUME NEW w \in Worker, SaveRaises(w) PROVE TypeOK'
    BY <1>14, EndsType DEF TypeOK, SaveRaises, At
  <1>15. ASSUME NEW w \in Worker, Crash(w) PROVE TypeOK'
    <2>1. pc[w] = "password" => sub[w] \in Sub
      BY DEF TypeOK, NamesItsUser
    <2>2. brokenOff' \subseteq Sub
      BY <1>15, <2>1 DEF TypeOK, Crash
    <2>3. /\ Ends(w, "crashed")
          /\ UNCHANGED <<sub, users, meddled, session, requests, edits, edited>>
      BY <1>15 DEF Crash
    <2> QED
      BY <2>2, <2>3, EndsType DEF TypeOK
  <1>16. ASSUME NEW s \in Sub, NEW row \in OperatorRow, OperatorEdits(s, row)
         PROVE  TypeOK'
    <2>1. edits \in 0 .. MaxEdits /\ edits < MaxEdits /\ edits' = edits + 1
      BY <1>16 DEF TypeOK, OperatorEdits
    <2>2. edits' \in 0 .. MaxEdits
      BY <2>1, BoundsAssumption
    <2>3. users' \in [Sub -> Row \cup {None}]
      BY <1>16, OperatorAssumption DEF TypeOK, OperatorEdits
    <2>4. edited' \subseteq Sub /\ meddled' \in [Worker -> BOOLEAN]
      <3>1. \A w \in Worker : (meddled[w] \/ sub[w] = s) \in BOOLEAN
        OBVIOUS
      <3> QED
        BY <1>16, <3>1 DEF TypeOK, OperatorEdits
    <2>5. UNCHANGED <<pc, sub, user, outcome, session, requests, brokenOff>>
      BY <1>16 DEF OperatorEdits, loginVars
    <2> QED
      BY <2>2, <2>3, <2>4, <2>5 DEF TypeOK, NamesItsUser
  <1>17. CASE UNCHANGED vars
    BY <1>17 DEF TypeOK, NamesItsUser, vars, loginVars, historyVars
  <1> QED
    BY <1>1, <1>2, <1>3, <1>4, <1>5, <1>6, <1>7, <1>8, <1>9, <1>10, <1>11,
       <1>12, <1>13, <1>14, <1>15, <1>16, <1>17 DEF Next, WorkerStep

(* Every variable keeps a value of the program's types.                    *)
THEOREM TypeCorrect == Spec => []TypeOK
  BY InitTypeOK, TypeStep, PTL DEF Spec

-----------------------------------------------------------------------------
(* The user table                                                          *)

\* Nothing a login would grant is taken from the row.
Keeps(s) ==
    users[s] \in Row =>
        /\ users'[s] \in Row
        /\ users[s].staff => users'[s].staff
        /\ users[s].superuser => users'[s].superuser
        /\ users[s].password = "unusable" => users'[s].password = "unusable"

\* A login that has handed out the admin left the elevated row behind.
AdminInv(w) ==
    pc[w] = "done" /\ outcome[w] = "user" =>
        /\ sub[w] \in Sub
        /\ ~meddled[w] /\ sub[w] = AdminDid => users[AdminDid] = Elevated

LoginInv == TypeOK /\ \A w \in Worker : CopyInv(w) /\ AdminInv(w)

(* A row with both roles and no password is the elevated one.              *)
LEMMA ElevatedRow ==
    ASSUME NEW row \in Row
    PROVE  row = Elevated <=>
              row.staff /\ row.superuser /\ row.password = "unusable"
  <1>1. PICK p, st, su : row = [password |-> p, staff |-> st, superuser |-> su]
    BY RowFields
  <1>2. st \in BOOLEAN /\ su \in BOOLEAN
    BY <1>1, RowFields
  <1> QED
    BY <1>1, <1>2 DEF Elevated

(* Saving a password changes nothing else in the row.                      *)
LEMMA PasswordSaved ==
    ASSUME LoginInv, NEW w \in Worker, SavePassword(w)
    PROVE  /\ sub[w] \in Sub /\ users[sub[w]] \in Row
           /\ users'[sub[w]] = Passwordless(users[sub[w]])
           /\ \A s \in Sub \ {sub[w]} : users'[s] = users[s]
           /\ user'[w] = Passwordless(Fresh)
  <1>1. /\ sub[w] \in Sub /\ users[sub[w]] \in Row /\ user[w] = Fresh
        /\ users \in [Sub -> Row \cup {None}]
        /\ user' = [user EXCEPT ![w] = Passwordless(@)]
        /\ users' = Saved(w, user'[w], {"password"})
    BY DEF LoginInv, CopyInv, TypeOK, NamesItsUser, SavePassword, At
  <1>2. user'[w] = Passwordless(Fresh)
    BY <1>1 DEF LoginInv, TypeOK
  <1>3. user'[w] \in Row /\ user'[w].password = "unusable"
    <2>1. Fresh \in Row
      BY DEF Row, Fresh
    <2> QED
      BY <1>2, <2>1, MadeRows
  <1>4. /\ users'[sub[w]] \in Row
        /\ users'[sub[w]].password = "unusable"
        /\ users'[sub[w]].staff = users[sub[w]].staff
        /\ users'[sub[w]].superuser = users[sub[w]].superuser
        /\ \A s \in Sub \ {sub[w]} : users'[s] = users[s]
    BY <1>1, <1>3, SavedRow DEF Fields
  <1>5. users'[sub[w]] = Passwordless(users[sub[w]])
    BY <1>1, <1>4, RowFields, MadeRows
  <1> QED
    BY <1>1, <1>2, <1>4, <1>5

(* Saving privileges makes the admin's row the elevated one.               *)
LEMMA PrivilegesSaved ==
    ASSUME LoginInv, NEW w \in Worker, SavePrivileges(w)
    PROVE  /\ sub[w] \in Sub /\ sub[w] = AdminDid
           /\ users'[sub[w]] = Elevated
           /\ \A s \in Sub \ {sub[w]} : users'[s] = users[s]
  <1>1. /\ sub[w] \in Sub /\ users[sub[w]] \in Row
        /\ user[w] = Elevated /\ sub[w] = AdminDid
        /\ users \in [Sub -> Row \cup {None}]
        /\ users' = Saved(w, Elevated, Fields)
    BY DEF LoginInv, CopyInv, TypeOK, NamesItsUser, SavePrivileges, At, IsAdmin,
           Fields
  <1>2. Elevated \in Row
    BY DEF Row, Elevated
  <1>3. /\ users'[sub[w]] \in Row
        /\ \A f \in Fields : users'[sub[w]][f] = Elevated[f]
        /\ \A s \in Sub \ {sub[w]} : users'[s] = users[s]
    BY <1>1, <1>2, SavedRow
  <1>4. users'[sub[w]] = Elevated
    BY <1>2, <1>3, RowFields DEF Fields
  <1> QED
    BY <1>1, <1>3, <1>4

(* Every edit is counted.                                                  *)
LEMMA EditCounts ==
    ASSUME TypeOK, NEW t, NEW row, OperatorEdits(t, row)
    PROVE  edits' # edits
  <1>1. edits \in 0 .. MaxEdits /\ edits' = edits + 1
    BY DEF TypeOK, OperatorEdits
  <1> QED
    BY <1>1, BoundsAssumption

(* Logins only ever add to a row: only an operator takes anything away.    *)
LEMMA Improved ==
    ASSUME LoginInv, [Next]_vars, edits' = edits, NEW s \in Sub
    PROVE  Keeps(s)
  <1>1. CASE users' = users
    BY <1>1 DEF Keeps
  <1>2. ASSUME NEW w \in Worker, CreateUser(w) PROVE Keeps(s)
    <2>1. users[sub[w]] = None /\ users' = [users EXCEPT ![sub[w]] = Fresh]
      BY <1>2 DEF CreateUser
    <2>2. users[s] \in Row => users'[s] = users[s]
      BY <2>1, NoneAssumption DEF LoginInv, TypeOK
    <2> QED
      BY <2>2 DEF Keeps
  <1>3. ASSUME NEW w \in Worker, SavePassword(w) PROVE Keeps(s)
    BY <1>3, PasswordSaved, MadeRows DEF Keeps
  <1>4. ASSUME NEW w \in Worker, SavePrivileges(w) PROVE Keeps(s)
    BY <1>4, PrivilegesSaved, MadeRows, ElevatedRow DEF Keeps
  <1>5. ASSUME NEW t \in Sub, NEW row \in OperatorRow, OperatorEdits(t, row)
        PROVE  FALSE
    BY <1>5, EditCounts DEF LoginInv
  <1> QED
    BY <1>1, <1>2, <1>3, <1>4, <1>5
    DEF Next, WorkerStep, AuthRequest, Authenticate, TokenGranted,
        TokenLacksAccess, ProviderFails, UserinfoAnswered, GetUser,
        ProvisioningFails, ElevateAdmin, ReturnUser, SaveRaises, Crash, vars

(* A worker that does not move stays current, whatever the row gains.      *)
LEMMA StaysCurrent ==
    ASSUME LoginInv, TypeOK', NEW w \in Worker,
           /\ pc'[w] = pc[w] /\ sub'[w] = sub[w] /\ user'[w] = user[w]
           /\ outcome'[w] = outcome[w],
           meddled[w] => meddled'[w],
           ~meddled'[w] /\ sub[w] \in Sub => Keeps(sub[w])
    PROVE  CopyInv(w)' /\ AdminInv(w)'
  <1>1. CopyInv(w) /\ AdminInv(w) /\ TypeOK
    BY DEF LoginInv
  <1>2. IsAdmin(w)' <=> IsAdmin(w)
    BY DEF IsAdmin
  <1>3. CASE meddled'[w]
    BY <1>1, <1>2, <1>3 DEF CopyInv, AdminInv
  <1>4. CASE ~meddled'[w]
    <2>1. sub[w] \in Sub => Keeps(sub[w])
      BY <1>4
    <2>2. CopyInv(w)'
      BY <1>1, <1>2, <1>4, <2>1 DEF CopyInv, Keeps, TypeOK, NamesItsUser
    <2>3. AdminInv(w)'
      <3> SUFFICES ASSUME pc[w] = "done", outcome[w] = "user", sub[w] = AdminDid
                   PROVE  users'[AdminDid] = Elevated
        BY <1>1 DEF AdminInv
      <3>1. AdminDid \in Sub /\ users[AdminDid] = Elevated
        BY <1>1, <1>4 DEF AdminInv
      <3>2. Elevated \in Row
        BY DEF Row, Elevated
      <3> QED
        BY <2>1, <3>1, <3>2, ElevatedRow DEF Keeps
    <2> QED
      BY <2>2, <2>3
  <1> QED
    BY <1>3, <1>4

(* What a worker does leaves it with a copy that is not ahead of the row.  *)
LEMMA OwnStep ==
    ASSUME LoginInv, TypeOK', NEW w \in Worker,
           \/ AuthRequest(w)
           \/ \E complete \in BOOLEAN : Authenticate(w, complete)
           \/ TokenGranted(w)
           \/ TokenLacksAccess(w)
           \/ \E s \in Sub \cup {None} : UserinfoAnswered(w, s)
           \/ WorkerStep(w)
           \/ Crash(w)
    PROVE  CopyInv(w)' /\ AdminInv(w)'
  <1>1. CopyInv(w) /\ AdminInv(w) /\ TypeOK
    BY DEF LoginInv
  <1>2. ASSUME pc'[w] \in {"token", "userinfo", "lookup"} PROVE CopyInv(w)' /\ AdminInv(w)'
    BY <1>2 DEF CopyInv, AdminInv
  <1>3. ASSUME NEW how \in {"None", "raised", "crashed", "failure page"},
               Ends(w, how)
        PROVE  CopyInv(w)' /\ AdminInv(w)'
    <2>1. pc'[w] = "done" /\ outcome'[w] = how
      BY <1>1, <1>3 DEF Ends, TypeOK
    <2> QED
      BY <2>1 DEF CopyInv, AdminInv
  <1>4. CASE \/ AuthRequest(w) \/ TokenLacksAccess(w) \/ ProviderFails(w)
             \/ ProvisioningFails(w) \/ SaveRaises(w) \/ Crash(w)
    BY <1>3, <1>4 DEF AuthRequest, TokenLacksAccess, ProviderFails,
                      ProvisioningFails, SaveRaises, Crash
  <1>5. ASSUME NEW complete \in BOOLEAN, Authenticate(w, complete)
        PROVE  CopyInv(w)' /\ AdminInv(w)'
    <2>1. CASE complete
      BY <1>1, <1>2, <1>5, <2>1 DEF Authenticate, GoesOn, TypeOK
    <2>2. CASE ~complete
      BY <1>3, <1>5, <2>2 DEF Authenticate
    <2> QED
      BY <2>1, <2>2
  <1>6. CASE TokenGranted(w)
    BY <1>1, <1>2, <1>6 DEF TokenGranted, GoesOn, TypeOK
  <1>7. ASSUME NEW s \in Sub \cup {None}, UserinfoAnswered(w, s)
        PROVE  CopyInv(w)' /\ AdminInv(w)'
    <2>1. CASE s = None
      BY <1>3, <1>7, <2>1 DEF UserinfoAnswered
    <2>2. CASE s # None
      BY <1>1, <1>2, <1>7, <2>2 DEF UserinfoAnswered, GoesOn, TypeOK
    <2> QED
      BY <2>1, <2>2
  <1>8. CASE CreateUser(w)
    <2>1. /\ pc'[w] = "password" /\ user'[w] = Fresh /\ sub'[w] = sub[w]
          /\ users'[sub[w]] = Fresh /\ Fresh \in Row
      <3>1. sub[w] \in Sub
        BY <1>1, <1>8 DEF CreateUser, At, TypeOK, NamesItsUser
      <3> QED
        BY <1>1, <1>8, <3>1 DEF CreateUser, GoesOn, TypeOK, Row, Fresh
    <2> QED
      BY <2>1 DEF CopyInv, AdminInv
  <1>9. CASE GetUser(w)
    <2>1. /\ pc'[w] = "privileges" /\ user'[w] = users[sub[w]]
          /\ sub'[w] = sub[w] /\ users' = users /\ users[sub[w]] \in Row
      <3>1. sub[w] \in Sub
        BY <1>1, <1>9 DEF GetUser, At, TypeOK, NamesItsUser
      <3> QED
        BY <1>1, <1>9, <3>1 DEF GetUser, GoesOn, TypeOK
    <2> QED
      BY <2>1 DEF CopyInv, AdminInv
  <1>10. CASE SavePassword(w)
    <2>1. /\ pc'[w] = "privileges" /\ sub'[w] = sub[w]
          /\ user'[w] = Passwordless(Fresh)
          /\ users[sub[w]] \in Row
          /\ users'[sub[w]] = Passwordless(users[sub[w]])
      BY <1>1, <1>10, PasswordSaved DEF SavePassword, GoesOn, TypeOK
    <2>2. /\ users'[sub[w]] \in Row /\ users'[sub[w]].password = "unusable"
      BY <2>1, MadeRows
    <2>3. ~user'[w].staff /\ ~user'[w].superuser
      BY <2>1 DEF Passwordless, Fresh
    <2> QED
      BY <2>1, <2>2, <2>3 DEF CopyInv, AdminInv
  <1>11. CASE ElevateAdmin(w)
    <2>1. /\ pc'[w] = "save" /\ user'[w] = Elevated /\ sub'[w] = sub[w]
          /\ users' = users /\ meddled' = meddled
          /\ pc[w] = "privileges" /\ IsAdmin(w)
      BY <1>1, <1>11 DEF ElevateAdmin, At, GoesOn, Dirty, TypeOK
    <2> QED
      BY <1>1, <2>1 DEF CopyInv, AdminInv, IsAdmin
  <1>12. CASE ReturnUser(w)
    <2>1. /\ pc'[w] = "done" /\ outcome'[w] = "user" /\ sub'[w] = sub[w]
          /\ users' = users /\ meddled' = meddled
          /\ pc[w] = "privileges" /\ ~Dirty(w)
      BY <1>1, <1>12 DEF ReturnUser, At, Ends, TypeOK
    <2>2. sub[w] \in Sub /\ user[w] \in Row
      BY <1>1, <2>1 DEF TypeOK, NamesItsUser
    <2>3. ASSUME ~meddled[w], sub[w] = AdminDid PROVE users[AdminDid] = Elevated
      <3>1. user[w] = Elevated
        BY <2>1, <2>2, <2>3, NoneAssumption DEF Dirty, IsAdmin
      <3>2. user[w].staff /\ user[w].superuser /\ user[w].password = "unusable"
        BY <3>1 DEF Elevated
      <3>3. /\ users[AdminDid] \in Row
            /\ users[AdminDid].staff /\ users[AdminDid].superuser
            /\ users[AdminDid].password = "unusable"
        BY <1>1, <2>1, <2>3, <3>2 DEF CopyInv
      <3> QED
        BY <3>3, ElevatedRow
    <2> QED
      BY <2>1, <2>2, <2>3 DEF CopyInv, AdminInv
  <1>13. CASE SavePrivileges(w)
    <2>1. /\ pc'[w] = "done" /\ sub'[w] = sub[w]
      BY <1>1, <1>13 DEF SavePrivileges, Ends, TypeOK
    <2> QED
      BY <1>13, <2>1, PrivilegesSaved DEF CopyInv, AdminInv
  <1> QED
    BY <1>4, <1>5, <1>6, <1>7, <1>8, <1>9, <1>10, <1>11, <1>12, <1>13
    DEF WorkerStep

(* One worker's step leaves the others where they were.                    *)
LEMMA OthersWait ==
    ASSUME TypeOK, NEW w \in Worker, NEW v \in Worker \ {w},
           \/ AuthRequest(w)
           \/ \E complete \in BOOLEAN : Authenticate(w, complete)
           \/ TokenGranted(w)
           \/ TokenLacksAccess(w)
           \/ \E s \in Sub \cup {None} : UserinfoAnswered(w, s)
           \/ WorkerStep(w)
           \/ Crash(w)
    PROVE  /\ pc'[v] = pc[v] /\ sub'[v] = sub[v] /\ user'[v] = user[v]
           /\ outcome'[v] = outcome[v] /\ meddled'[v] = meddled[v]
           /\ edits' = edits
  <1>1. ASSUME \/ \E how : Ends(w, how)
               \/ \E stage : GoesOn(w, stage)
        PROVE  pc'[v] = pc[v] /\ outcome'[v] = outcome[v]
    BY <1>1 DEF Ends, GoesOn, TypeOK
  <1>2. \A how : Ends(w, how) => user'[v] = user[v]
    BY DEF Ends, TypeOK
  <1>3. CASE \/ AuthRequest(w)
             \/ \E complete \in BOOLEAN : Authenticate(w, complete)
    BY <1>1, <1>2, <1>3 DEF AuthRequest, Authenticate, TypeOK, historyVars
  <1>4. CASE \/ TokenGranted(w) \/ TokenLacksAccess(w)
             \/ \E s \in Sub \cup {None} : UserinfoAnswered(w, s)
    BY <1>1, <1>2, <1>4
    DEF TokenGranted, TokenLacksAccess, UserinfoAnswered, At, TypeOK
  <1>5. CASE CreateUser(w) \/ GetUser(w) \/ SavePassword(w) \/ ElevateAdmin(w)
    BY <1>1, <1>5 DEF CreateUser, GetUser, SavePassword, ElevateAdmin, At, TypeOK
  <1>6. CASE \/ ProviderFails(w) \/ ProvisioningFails(w) \/ ReturnUser(w)
             \/ SavePrivileges(w) \/ SaveRaises(w) \/ Crash(w)
    BY <1>1, <1>2, <1>6 DEF ProviderFails, ProvisioningFails, ReturnUser,
                            SavePrivileges, SaveRaises, Crash, At
  <1> QED
    BY <1>3, <1>4, <1>5, <1>6 DEF WorkerStep

(* The invariant holds at first and every step keeps it.                   *)
LEMMA LoginInvariant == Spec => []LoginInv
  <1>1. Init => LoginInv
    BY InitTypeOK DEF Init, LoginInv, CopyInv, AdminInv
  <1>2. LoginInv /\ [Next]_vars => LoginInv'
    <2> SUFFICES ASSUME LoginInv, [Next]_vars, NEW v \in Worker
                 PROVE  CopyInv(v)' /\ AdminInv(v)'
      BY TypeStep DEF LoginInv
    <2>1. TypeOK /\ TypeOK'
      BY TypeStep DEF LoginInv
    <2>2. ASSUME NEW w \in Worker,
                 \/ AuthRequest(w)
                 \/ \E complete \in BOOLEAN : Authenticate(w, complete)
                 \/ TokenGranted(w)
                 \/ TokenLacksAccess(w)
                 \/ \E s \in Sub \cup {None} : UserinfoAnswered(w, s)
                 \/ WorkerStep(w)
                 \/ Crash(w)
          PROVE  CopyInv(v)' /\ AdminInv(v)'
      <3>1. CASE w = v
        BY <2>1, <2>2, <3>1, OwnStep
      <3>2. CASE w # v
        <4>1. /\ pc'[v] = pc[v] /\ sub'[v] = sub[v] /\ user'[v] = user[v]
              /\ outcome'[v] = outcome[v] /\ meddled'[v] = meddled[v]
              /\ edits' = edits
          BY <2>1, <2>2, <3>2, OthersWait
        <4>2. sub[v] \in Sub => Keeps(sub[v])
          BY <4>1, Improved
        <4> QED
          BY <2>1, <4>1, <4>2, StaysCurrent
      <3> QED
        BY <3>1, <3>2
    <2>3. ASSUME NEW s \in Sub, NEW row \in OperatorRow, OperatorEdits(s, row)
          PROVE  CopyInv(v)' /\ AdminInv(v)'
      <3>1. /\ UNCHANGED <<pc, sub, user, outcome>>
            /\ meddled'[v] = (meddled[v] \/ sub[v] = s)
            /\ users' = [users EXCEPT ![s] = row]
        BY <2>3 DEF OperatorEdits, loginVars
      <3>2. sub[v] \in Sub /\ sub[v] # s => Keeps(sub[v])
        BY <2>1, <3>1 DEF Keeps, TypeOK
      <3>3. ~meddled'[v] /\ sub[v] \in Sub => Keeps(sub[v])
        BY <3>1, <3>2
      <3>4. meddled[v] => meddled'[v]
        BY <3>1
      <3> QED
        BY <2>1, <3>1, <3>3, <3>4, StaysCurrent
    <2>4. CASE UNCHANGED vars
      <3>1. /\ UNCHANGED <<pc, sub, user, outcome, meddled, users>>
        BY <2>4 DEF vars, loginVars, historyVars
      <3> QED
        BY <3>1 DEF LoginInv, CopyInv, AdminInv, IsAdmin
    <2> QED
      BY <2>2, <2>3, <2>4 DEF Next
  <1> QED
    BY <1>1, <1>2, PTL DEF Spec

(* No worker ever acts on a copy that grants more than the row does, unless *)
(* an operator has just been at that row.                                   *)
THEOREM CopiesStayCurrent == Spec => []CopiesAreCurrent
  <1>1. LoginInv => CopiesAreCurrent
    BY DEF LoginInv, CopiesAreCurrent
  <1> QED
    BY <1>1, LoginInvariant, PTL

(* The admin's user is handed out elevated and without a password.         *)
THEOREM AdminElevated == Spec => []AdminIsElevated
  <1>1. LoginInv => AdminIsElevated
    BY DEF LoginInv, AdminInv, AdminIsElevated
  <1> QED
    BY <1>1, LoginInvariant, PTL

(* A login leaves every other row as it is, its own new password apart.    *)
THEOREM RolesKept == Spec => OthersKeepTheirRoles
  <1>1. LoginInv /\ [Next]_vars =>
          [\A s \in Sub \ {AdminDid} :
              users[s] # None /\ edits' = edits =>
                  users'[s] \in {users[s], Passwordless(users[s])}]_vars
    <2> SUFFICES ASSUME LoginInv, [Next]_vars, NEW s \in Sub \ {AdminDid},
                        users[s] # None, edits' = edits
                 PROVE  users'[s] \in {users[s], Passwordless(users[s])}
      OBVIOUS
    <2>1. CASE users' = users
      BY <2>1
    <2>2. ASSUME NEW w \in Worker, CreateUser(w)
          PROVE  users'[s] = users[s]
      BY <2>2 DEF CreateUser, LoginInv, TypeOK
    <2>3. ASSUME NEW w \in Worker, SavePassword(w)
          PROVE  users'[s] \in {users[s], Passwordless(users[s])}
      BY <2>3, PasswordSaved
    <2>4. ASSUME NEW w \in Worker, SavePrivileges(w)
          PROVE  users'[s] = users[s]
      BY <2>4, PrivilegesSaved
    <2>5. ASSUME NEW t \in Sub, NEW row \in OperatorRow, OperatorEdits(t, row)
          PROVE  FALSE
      BY <2>5, EditCounts DEF LoginInv
    <2> QED
      BY <2>1, <2>2, <2>3, <2>4, <2>5
      DEF Next, WorkerStep, AuthRequest, Authenticate, TokenGranted,
          TokenLacksAccess, ProviderFails, UserinfoAnswered, GetUser,
          ProvisioningFails, ElevateAdmin, ReturnUser, SaveRaises, Crash, vars
  <1> QED
    BY <1>1, LoginInvariant, PTL DEF Spec, OthersKeepTheirRoles

-----------------------------------------------------------------------------
(* The passwords of created users                                          *)

\* Somebody is about to take the password of row s away.
Pending(s) == \E w \in Worker : pc[w] = "password" /\ sub[w] = s

(* Between creating a row and taking its password away a login stays at it,  *)
(* whatever others do, unless it breaks off.                                *)
LEMMA PendingStays ==
    ASSUME LoginInv, Next, NEW s \in Sub, Pending(s), s \notin brokenOff'
    PROVE  Pending(s)' \/ \E w \in Worker : SavePassword(w) /\ sub[w] = s
  <1>1. TypeOK
    BY DEF LoginInv
  <1>2. PICK w \in Worker : pc[w] = "password" /\ sub[w] = s
    BY DEF Pending
  <1>3. ASSUME pc'[w] = pc[w], sub'[w] = sub[w]
        PROVE  Pending(s)'
    BY <1>2, <1>3 DEF Pending
  <1>4. ASSUME NEW v \in Worker \ {w},
               \/ AuthRequest(v)
               \/ \E complete \in BOOLEAN : Authenticate(v, complete)
               \/ TokenGranted(v)
               \/ TokenLacksAccess(v)
               \/ \E t \in Sub \cup {None} : UserinfoAnswered(v, t)
               \/ WorkerStep(v)
               \/ Crash(v)
        PROVE  Pending(s)'
    <2>1. w \in Worker \ {v}
      BY <1>4
    <2> QED
      BY <1>1, <1>3, <1>4, <2>1, OthersWait
  <1>5. ~AuthRequest(w) /\ ~(\E complete \in BOOLEAN : Authenticate(w, complete))
    BY <1>2 DEF AuthRequest, Authenticate, Accepts, Busy, Stages
  <1>6. /\ ~TokenGranted(w) /\ ~TokenLacksAccess(w)
        /\ ~(\E t \in Sub \cup {None} : UserinfoAnswered(w, t))
    BY <1>2 DEF TokenGranted, TokenLacksAccess, UserinfoAnswered, At
  <1>7. /\ ~ProviderFails(w) /\ ~CreateUser(w) /\ ~GetUser(w)
        /\ ~ElevateAdmin(w) /\ ~ReturnUser(w) /\ ~SavePrivileges(w) /\ ~SaveRaises(w)
    BY <1>2 DEF ProviderFails, CreateUser, GetUser, ElevateAdmin, ReturnUser,
                SavePrivileges, SaveRaises, At
  <1>8. ~Crash(w) /\ ~ProvisioningFails(w)
    BY <1>2 DEF Crash, ProvisioningFails
  <1>9. ASSUME NEW t \in Sub, NEW row \in OperatorRow, OperatorEdits(t, row)
        PROVE  Pending(s)'
    BY <1>3, <1>9 DEF OperatorEdits, loginVars
  <1> QED
    BY <1>2, <1>4, <1>5, <1>6, <1>7, <1>8, <1>9 DEF Next, WorkerStep

(* What a step makes of the rows.                                          *)
LEMMA RowsChange ==
    ASSUME LoginInv, Next
    PROVE  \/ users' = users
           \/ \E w \in Worker : CreateUser(w)
           \/ \E w \in Worker : SavePassword(w)
           \/ \E w \in Worker : SavePrivileges(w)
           \/ \E t \in Sub, row \in OperatorRow : OperatorEdits(t, row)
  BY DEF Next, WorkerStep, AuthRequest, Authenticate, TokenGranted,
         TokenLacksAccess, ProviderFails, UserinfoAnswered, GetUser,
         ProvisioningFails, ElevateAdmin, ReturnUser, SaveRaises, Crash

(* The histories of edited and broken-off rows only grow.                  *)
LEMMA HistoriesGrow ==
    ASSUME Next
    PROVE  edited \subseteq edited' /\ brokenOff \subseteq brokenOff'
  BY DEF Next, WorkerStep, AuthRequest, Authenticate, TokenGranted, At,
         TokenLacksAccess, ProviderFails, UserinfoAnswered, CreateUser, GetUser,
         SavePassword, ProvisioningFails, ElevateAdmin, ReturnUser,
         SavePrivileges, SaveRaises, Crash, OperatorEdits, historyVars

(* No interleaving of logins leaves a created row with its blank password.   *)
LEMMA PasswordlessStep ==
    LoginInv /\ CreatedPasswordless /\ [Next]_vars => CreatedPasswordless'
  <1> SUFFICES ASSUME LoginInv, CreatedPasswordless, Next
               PROVE  CreatedPasswordless'
    BY DEF CreatedPasswordless, vars, loginVars, historyVars
  <1> SUFFICES ASSUME NEW s \in Sub, s \notin edited', s \notin brokenOff',
                      users'[s] # None, users'[s].password # "unusable"
               PROVE  Pending(s)'
    BY DEF CreatedPasswordless, Pending
  <1>1. s \notin edited /\ s \notin brokenOff
    BY HistoriesGrow
  <1>2. TypeOK
    BY DEF LoginInv
  <1>3. ASSUME users[s] # None, users[s].password # "unusable"
        PROVE  Pending(s)'
    <2>1. Pending(s)
      BY <1>1, <1>3 DEF CreatedPasswordless, Pending
    <2>2. ASSUME NEW w \in Worker, SavePassword(w), sub[w] = s
          PROVE  FALSE
      BY <2>2, PasswordSaved, MadeRows
    <2> QED
      BY <2>1, <2>2, PendingStays
  <1>4. CASE users'[s] = users[s]
    BY <1>3, <1>4
  <1>5. ASSUME NEW w \in Worker, CreateUser(w)
        PROVE  Pending(s)'
    <2>1. CASE sub[w] = s
      BY <1>2, <1>5, <2>1 DEF CreateUser, GoesOn, TypeOK, Pending
    <2>2. CASE sub[w] # s
      BY <1>2, <1>4, <1>5, <2>2 DEF CreateUser, TypeOK
    <2> QED
      BY <2>1, <2>2
  <1>6. ASSUME NEW w \in Worker, SavePassword(w)
        PROVE  Pending(s)'
    BY <1>4, <1>6, PasswordSaved, MadeRows
  <1>7. ASSUME NEW w \in Worker, SavePrivileges(w)
        PROVE  Pending(s)'
    <2>1. Elevated.password = "unusable"
      BY DEF Elevated
    <2> QED
      BY <1>4, <1>7, <2>1, PrivilegesSaved
  <1>8. ASSUME NEW t \in Sub, NEW row \in OperatorRow, OperatorEdits(t, row)
        PROVE  Pending(s)'
    <2>1. s # t
      BY <1>8 DEF OperatorEdits
    <2> QED
      BY <1>2, <1>4, <1>8, <2>1 DEF OperatorEdits, TypeOK
  <1> QED
    BY <1>4, <1>5, <1>6, <1>7, <1>8, RowsChange

(* A row that logins created has an unusable password, but while the login  *)
(* that created it has yet to save one, or if a creation of it broke off or  *)
(* an operator was at it.  Of what a login hands out meanwhile it says       *)
(* nothing.                                                                  *)
THEOREM CreatedWithoutPassword == Spec => []CreatedPasswordless
  <1>1. Init => CreatedPasswordless
    BY DEF Init, CreatedPasswordless
  <1> QED
    BY <1>1, LoginInvariant, PasswordlessStep, PTL DEF Spec

=============================================================================
