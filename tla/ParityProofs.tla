---------------------------- MODULE ParityProofs ----------------------------
(***************************************************************************)
(* Proofs about the SEC-003 guard, for any history of commits, any clones,   *)
(* branches and pushes, and any number of edits; and about the rollout       *)
(* procedure carried out over it.                                           *)
(***************************************************************************)
EXTENDS Rollout, FiniteSetTheorems, TLAPS

(* Types                                                                   *)

Reading == [effective : Commit \cup {Unresolvable}, faulty : BOOLEAN]

CheckRecord ==
    [at : {"idle", "reading", "done"},
     mode : {"strict", "tolerant", "pre-push"},
     sha : Commit \cup {None}, canon : Commit \cup {None},
     sites : Seq(Reading), exit : {0, 1}]

PushRecord ==
    [at : {"idle", "hook", "landed", "rejected"}, updates : Push \cup {<< >>},
     next : Nat, rc : {0, 1}]

Workspace ==
    /\ head \in [Checkout -> Commit]
    /\ pin \in [Site -> Commit \cup {None}]
    /\ tree \in [Site -> Commit \cup {NoRepo, Uninit, ByPath}]
    /\ \A s \in Site : pin[s] # None => tree[s] # ByPath

Runs ==
    /\ check \in CheckRecord
    /\ Len(check.sites) <= 3
    /\ push \in PushRecord
    /\ push.next \in 1 .. Len(push.updates) + 1
    /\ push.at = "hook" /\ Running =>
          /\ check.mode = "pre-push"
          /\ push.next <= Len(push.updates)
          /\ check.sha = push.updates[push.next].sha

(* The updates of a push are a sequence, those of NoPush the empty one.     *)
LEMMA UpdatesAreSeq ==
    ASSUME push \in PushRecord
    PROVE  Len(push.updates) \in Nat
  BY PushAssumption DEF PushRecord

(* What each step makes of the two records.                                *)
LEMMA BeginRecord ==
    ASSUME NEW mode \in {"strict", "tolerant", "pre-push"},
           NEW sha \in Commit \cup {None}, NEW canon \in Commit \cup {None},
           Begin(mode, sha, canon)
    PROVE  /\ check' \in CheckRecord
           /\ check'.at = "reading" /\ check'.mode = mode /\ check'.sha = sha
           /\ check'.canon = canon /\ check'.sites = << >> /\ check'.exit = 0
           /\ built' = [s \in Site |-> {Builds(s)}]
  BY DEF Begin, CheckRecord

LEMMA SiteRecord ==
    ASSUME check \in CheckRecord, NEW r \in Reading,
           check' = [check EXCEPT !.sites = Append(@, r)]
    PROVE  /\ check' \in CheckRecord
           /\ check'.at = check.at /\ check'.mode = check.mode
           /\ check'.sha = check.sha /\ check'.canon = check.canon
           /\ check'.exit = check.exit
           /\ check'.sites = Append(check.sites, r)
  <1> DEFINE sites == Append(check.sites, r)
  <1>1. sites \in Seq(Reading)
    BY DEF CheckRecord
  <1>2. check' = [check EXCEPT !.sites = sites]
    OBVIOUS
  <1> HIDE DEF sites
  <1>3. /\ check' \in CheckRecord /\ check'.sites = sites
        /\ check'.at = check.at /\ check'.mode = check.mode
        /\ check'.sha = check.sha /\ check'.canon = check.canon
        /\ check'.exit = check.exit
    BY <1>1, <1>2 DEF CheckRecord
  <1> QED
    BY <1>3 DEF sites

LEMMA DoneRecord ==
    ASSUME check \in CheckRecord, NEW code \in {0, 1},
           check' = [check EXCEPT !.at = "done", !.exit = code]
    PROVE  /\ check' \in CheckRecord
           /\ check'.at = "done" /\ check'.mode = check.mode
           /\ check'.sha = check.sha /\ check'.canon = check.canon
           /\ check'.exit = code /\ check'.sites = check.sites
  BY DEF CheckRecord

LEMMA NextRecord ==
    ASSUME push \in PushRecord, NEW rc \in {0, 1},
           push' = [push EXCEPT !.next = @ + 1, !.rc = rc]
    PROVE  /\ push' \in PushRecord
           /\ push'.at = push.at /\ push'.updates = push.updates
           /\ push'.next = push.next + 1 /\ push'.rc = rc
  <1> DEFINE next == push.next + 1
  <1>1. next \in Nat
    BY DEF PushRecord
  <1>2. push' = [push EXCEPT !.next = next, !.rc = rc]
    OBVIOUS
  <1> HIDE DEF next
  <1>3. /\ push' \in PushRecord /\ push'.next = next
        /\ push'.at = push.at /\ push'.updates = push.updates /\ push'.rc = rc
    BY <1>1, <1>2 DEF PushRecord
  <1> QED
    BY <1>3 DEF next

LEMMA EndRecord ==
    ASSUME push \in PushRecord, NEW at \in {"landed", "rejected"},
           push' = [push EXCEPT !.at = at]
    PROVE  /\ push' \in PushRecord
           /\ push'.at = at /\ push'.updates = push.updates
           /\ push'.next = push.next /\ push'.rc = push.rc
  BY DEF PushRecord

-----------------------------------------------------------------------------
(* What reading a site tells of it                                         *)

LEMMA BuildsType ==
    ASSUME Workspace, NEW s \in Site
    PROVE  Builds(s) \in Commit \cup {None}
  BY CheckoutAssumption DEF Workspace, Builds

LEMMA SiteRead ==
    ASSUME Workspace, NEW s \in Site
    PROVE  /\ Resolve(s) \in Reading
           /\ ~Resolve(s).faulty =>
                 Resolve(s).effective = Builds(s) /\ Builds(s) \in Commit
           /\ Resolve(s).faulty => Builds(s) = None
           /\ pin[s] # None => Resolve(s).faulty \/ Resolve(s).effective = pin[s]
  <1>1. /\ None \notin Commit /\ NoRepo \notin Commit /\ Uninit \notin Commit
        /\ ByPath \notin Commit
    BY CommitAssumption
  <1>2. NoRepo # ByPath /\ Uninit # ByPath
    BY DEF NoRepo, Uninit, ByPath
  <1>3. /\ pin[s] \in Commit \cup {None}
        /\ tree[s] \in Commit \cup {NoRepo, Uninit, ByPath}
        /\ head[PathTarget] \in Commit
        /\ pin[s] # None => tree[s] # ByPath
    BY CheckoutAssumption DEF Workspace
  <1>4. CASE tree[s] \in {NoRepo, Uninit}
    <2>1. Resolve(s) = [effective |-> Unresolvable, faulty |-> TRUE]
      BY <1>1, <1>2, <1>4 DEF Resolve
    <2>2. Builds(s) = None
      BY <1>1, <1>2, <1>4 DEF Builds
    <2> QED
      BY <2>1, <2>2 DEF Reading
  <1>5. CASE tree[s] = ByPath
    <2>1. tree[s] \notin {NoRepo, Uninit} /\ tree[s] = ByPath /\ tree[s] \notin Commit
      BY <1>1, <1>2, <1>5
    <2>2. Resolve(s) = [effective |-> head[PathTarget], faulty |-> FALSE]
      BY <2>1, Zenon DEF Resolve
    <2>3. Builds(s) = head[PathTarget]
      BY <2>1 DEF Builds
    <2> QED
      BY <1>3, <1>5, <2>2, <2>3 DEF Reading
  <1>6. CASE tree[s] \in Commit /\ pin[s] # None
    <2> DEFINE off == tree[s] # pin[s]
    <2>1. Resolve(s) = [effective |-> pin[s], faulty |-> off] /\ off \in BOOLEAN
      BY <1>1, <1>6 DEF Resolve
    <2>2. off <=> tree[s] # pin[s]
      OBVIOUS
    <2>3. Builds(s) = IF tree[s] = pin[s] THEN tree[s] ELSE None
      BY <1>1, <1>6 DEF Builds
    <2> HIDE DEF off
    <2>4. Resolve(s).effective = pin[s] /\ Resolve(s).faulty = off
      BY <2>1
    <2>5. /\ Resolve(s).effective = pin[s]
          /\ Resolve(s).faulty <=> tree[s] # pin[s]
      BY <2>2, <2>4
    <2>6. Resolve(s) \in Reading
      BY <1>3, <1>6, <2>1 DEF Reading
    <2> QED
      BY <1>3, <1>6, <2>3, <2>5, <2>6
  <1>7. CASE tree[s] \in Commit /\ pin[s] = None
    <2>1. Resolve(s) = [effective |-> tree[s], faulty |-> FALSE]
      BY <1>1, <1>7 DEF Resolve
    <2>2. Builds(s) = tree[s]
      BY <1>1, <1>7 DEF Builds
    <2> QED
      BY <1>7, <2>1, <2>2 DEF Reading
  <1> QED
    BY <1>3, <1>4, <1>5, <1>6, <1>7

LEMMA Sites ==
    /\ Site = { SiteOrder[i] : i \in 1 .. 3 }
    /\ Len(SiteOrder) = 3
    /\ \A i \in 1 .. 3 : SiteOrder[i] \in Site
  BY DEF Site, SiteOrder

Accepts(run, c) ==
    c = run.canon \/ (run.mode = "tolerant" /\ IsAncestor(c, run.canon))

(* Of three readings the exit code is 0 exactly when none is a violation and *)
(* all are of one commit, one that the mode accepts.                         *)
LEMMA VerdictIsRight ==
    ASSUME NEW run, DOMAIN run.sites = 1 .. 3, run.mode # "pre-push",
           \A i \in 1 .. 3 :
              ~run.sites[i].faulty => run.sites[i].effective \in Commit
    PROVE  ExitCode(run) = 0 <=>
              \E c \in Commit :
                 /\ Accepts(run, c)
                 /\ \A i \in 1 .. 3 :
                       ~run.sites[i].faulty /\ run.sites[i].effective = c
  <1> DEFINE e(i) == run.sites[i].effective
  <1>1. Violated(run) <=> (\E i \in 1 .. 3 : run.sites[i].faulty) \/ ~Aligned(run)
    BY DEF Violated
  <1>2. CASE \E i \in 1 .. 3 : run.sites[i].faulty
    BY <1>1, <1>2 DEF ExitCode
  <1>3. CASE \A i \in 1 .. 3 : ~run.sites[i].faulty
    <2>1. \A i \in 1 .. 3 : e(i) \in Commit
      BY <1>3
    <2>2. Effectives(run) = {e(1), e(2), e(3)}
      BY DEF Effectives
    <2>3. Unresolvable \notin Effectives(run)
      BY <2>1, <2>2, CommitAssumption
    <2>4. Cardinality(Effectives(run)) = 1 <=> e(1) = e(2) /\ e(2) = e(3)
      <3>1. ASSUME e(1) = e(2), e(2) = e(3)
            PROVE  Cardinality(Effectives(run)) = 1
        <4>1. Effectives(run) = {e(1)}
          BY <2>2, <3>1
        <4> QED
          BY <4>1, FS_Singleton
      <3>2. ASSUME Cardinality(Effectives(run)) = 1
            PROVE  e(1) = e(2) /\ e(2) = e(3)
        <4>1. IsFiniteSet(Effectives(run))
          <5>1. IsFiniteSet({e(1)}) /\ IsFiniteSet({e(2)}) /\ IsFiniteSet({e(3)})
            BY FS_Singleton
          <5>2. IsFiniteSet(({e(1)} \cup {e(2)}) \cup {e(3)})
            BY <5>1, FS_Union
          <5> QED
            BY <2>2, <5>2
        <4>2. PICK x : Effectives(run) = {x}
          BY <3>2, <4>1, FS_Singleton
        <4> QED
          BY <2>2, <4>2
      <3> QED
        BY <3>1, <3>2
    <2>5. Aligned(run) <=> e(1) = e(2) /\ e(2) = e(3) /\ Accepts(run, e(1))
      BY <2>3, <2>4 DEF Aligned, Accepts
    <2>6. (\E c \in Commit : Accepts(run, c) /\ \A i \in 1 .. 3 : e(i) = c)
             <=> e(1) = e(2) /\ e(2) = e(3) /\ Accepts(run, e(1))
      <3>1. \A c : (\A i \in 1 .. 3 : e(i) = c) <=> e(1) = c /\ e(2) = c /\ e(3) = c
        OBVIOUS
      <3> HIDE DEF e
      <3> QED
        BY <2>1, <3>1
    <2> QED
      BY <1>1, <1>3, <2>5, <2>6 DEF ExitCode
  <1> QED
    BY <1>2, <1>3

-----------------------------------------------------------------------------
(* Types                                                                   *)

TypeInv ==
    /\ Workspace
    /\ Runs
    /\ remote \in [Branch -> Commit \cup {None}]
    /\ edits \in 0 .. MaxEdits
    /\ built \in [Site -> SUBSET (Commit \cup {None})]
    /\ raced \subseteq Site

LEMMA InitTypes == Init => TypeInv
  <1> SUFFICES ASSUME Init
               PROVE  TypeInv
    OBVIOUS
  <1>1. PICK c \in Commit, mobile \in Commit \cup {ByPath} :
           /\ head = [k \in Checkout |-> c]
           /\ pin = [s \in Site |-> IF s = "iyou_mobile" THEN None ELSE c]
           /\ tree = [s \in Site |-> IF s = "iyou_mobile" THEN mobile ELSE c]
           /\ remote \in [Branch -> Commit \cup {None}]
           /\ check = Idle /\ push = NoPush /\ edits = 0
           /\ built = [s \in Site |-> {}] /\ raced = {}
    BY DEF Init
  <1>2. c # ByPath
    BY CommitAssumption
  <1>3. Workspace
    BY <1>1, <1>2 DEF Workspace, Site
  <1>4. check \in CheckRecord /\ Len(check.sites) = 0 /\ check.at = "idle"
    BY <1>1 DEF Idle, CheckRecord
  <1>5. push \in PushRecord /\ push.next = 1 /\ Len(push.updates) = 0
    <2>1. push = [at |-> "idle", updates |-> << >>, next |-> 1, rc |-> 0]
      BY <1>1 DEF NoPush
    <2>2. push.next = 1 /\ push.updates = << >> /\ push \in PushRecord
      BY <2>1 DEF PushRecord
    <2> QED
      BY <2>2
  <1>6. Runs
    BY <1>4, <1>5 DEF Runs, Running
  <1>7. edits \in 0 .. MaxEdits
    BY <1>1, EditsAssumption
  <1>8. built \in [Site -> SUBSET (Commit \cup {None})] /\ raced \subseteq Site
    BY <1>1
  <1> QED
    BY <1>1, <1>3, <1>6, <1>7, <1>8, Zenon DEF TypeInv

(* What people do changes the workspace, one thing at a time, and neither    *)
(* the checker nor the push; a pin that the hook has read is marked when it   *)
(* changes.                                                                  *)
LEMMA EditStep ==
    ASSUME TypeInv, Edit
    PROVE  /\ check' = check /\ push' = push /\ remote' = remote
           /\ edits' \in 0 .. MaxEdits
           /\ Workspace' /\ raced' \subseteq Site
           /\ built' = [s \in Site |-> IF Running THEN built[s] \cup {Builds(s)'}
                                                  ELSE built[s]]
           /\ raced \subseteq raced'
           /\ \A s \in Site : \/ pin'[s] = pin[s]
                              \/ s \in raced' \/ ~HookHasRead(s)
  <1> USE DEF TypeInv
  <1>0. built' = [s \in Site |-> IF Running THEN built[s] \cup {Builds(s)'}
                                            ELSE built[s]]
    BY DEF Edit
  <1>1. CASE \E k \in Checkout, c \in Commit : MoveHead(k, c)
    BY <1>0, <1>1, EditsAssumption DEF MoveHead, Edited, Workspace
  <1>2. CASE \E s \in Site, c \in Commit : MoveTree(s, c)
    BY <1>0, <1>2, EditsAssumption, CommitAssumption DEF MoveTree, Edited, Workspace
  <1>3. ASSUME NEW s \in Site, CommitPin(s)
        PROVE  /\ check' = check /\ push' = push /\ remote' = remote
               /\ edits' \in 0 .. MaxEdits
               /\ Workspace' /\ raced' \subseteq Site
               /\ raced \subseteq raced'
               /\ \A r \in Site : \/ pin'[r] = pin[r]
                                  \/ r \in raced' \/ ~HookHasRead(r)
    <2>1. raced' = IF HookHasRead(s) THEN raced \cup {s} ELSE raced
      BY <1>3 DEF CommitPin
    <2> QED
      BY <1>3, <2>1, EditsAssumption, CommitAssumption DEF CommitPin, Edited, Workspace
  <1>4. CASE \E s \in Site : InitTree(s)
    BY <1>0, <1>4, EditsAssumption, CommitAssumption DEF InitTree, Edited, Workspace
  <1>5. CASE \E s \in Site, what \in {Uninit, NoRepo} : LoseTree(s, what)
    <2>1. Uninit # ByPath /\ NoRepo # ByPath
      BY DEF Uninit, NoRepo, ByPath
    <2> QED
      BY <1>0, <1>5, <2>1, EditsAssumption DEF LoseTree, Edited, Workspace
  <1> QED
    BY <1>0, <1>1, <1>2, <1>3, <1>4, <1>5 DEF Edit

(* A site that is read is one of the three, and what is read is a reading.  *)
LEMMA ReadSiteStep ==
    ASSUME TypeInv, ReadSite
    PROVE  /\ check' \in CheckRecord
           /\ check.at = "reading" /\ check'.at = "reading"
           /\ check'.mode = check.mode /\ check'.sha = check.sha
           /\ check'.canon = check.canon
           /\ Len(check.sites) + 1 \in 1 .. 3
           /\ Len(check'.sites) = Len(check.sites) + 1
           /\ check'.sites[Len(check'.sites)] = Resolve(SiteOrder[Len(check'.sites)])
           /\ \A i \in DOMAIN check.sites :
                 i \in DOMAIN check'.sites /\ check'.sites[i] = check.sites[i]
           /\ \A i \in DOMAIN check'.sites :
                 i \in DOMAIN check.sites \/ i = Len(check'.sites)
           /\ UNCHANGED <<workspace, push, edits, built, raced>>
  <1> DEFINE n == Len(check.sites) + 1
             r == Resolve(SiteOrder[n])
  <1>1. /\ check \in CheckRecord /\ check.sites \in Seq(Reading)
        /\ Len(check.sites) \in Nat
    BY DEF TypeInv, Runs, CheckRecord
  <1>2. n \in 1 .. 3
    BY <1>1, Sites DEF ReadSite
  <1>3. r \in Reading
    BY <1>2, SiteRead, Sites DEF TypeInv
  <1>4. check' = [check EXCEPT !.sites = Append(@, r)]
    BY DEF ReadSite
  <1> HIDE DEF r
  <1>5. /\ check' \in CheckRecord /\ check'.at = check.at
        /\ check'.mode = check.mode /\ check'.sha = check.sha
        /\ check'.canon = check.canon /\ check'.sites = Append(check.sites, r)
    BY <1>1, <1>3, <1>4, SiteRecord
  <1>6. /\ Len(check'.sites) = n /\ check'.sites[n] = r
        /\ DOMAIN check.sites = 1 .. Len(check.sites) /\ DOMAIN check'.sites = 1 .. n
        /\ \A i \in 1 .. Len(check.sites) : check'.sites[i] = check.sites[i]
    BY <1>1, <1>3, <1>5
  <1>7. check.at = "reading" /\ UNCHANGED <<workspace, push, edits, built, raced>>
    BY DEF ReadSite, Running
  <1> QED
    BY <1>1, <1>2, <1>5, <1>6, <1>7 DEF r

LEMMA DecideStep ==
    ASSUME TypeInv, Decide
    PROVE  /\ check' \in CheckRecord
           /\ check.at = "reading" /\ check'.at = "done"
           /\ check'.mode = check.mode /\ check'.canon = check.canon
           /\ check'.sha = check.sha
           /\ check'.sites = check.sites /\ Len(check.sites) = 3
           /\ check'.exit = ExitCode(check)
           /\ push \in PushRecord
           /\ push.at # "hook" => push' = push
           /\ push.at = "hook" =>
                 /\ push' \in PushRecord
                 /\ push'.at = "hook" /\ push'.updates = push.updates
                 /\ push'.next = push.next + 1
                 /\ push'.rc = IF ExitCode(check) # 0 THEN 1 ELSE push.rc
           /\ UNCHANGED <<workspace, edits, built, raced>>
  <1>1. /\ check \in CheckRecord /\ push \in PushRecord
        /\ ExitCode(check) \in {0, 1}
    BY DEF TypeInv, Runs, ExitCode
  <1>2. check' = [check EXCEPT !.at = "done", !.exit = ExitCode(check)]
    BY DEF Decide
  <1>3. /\ check' \in CheckRecord /\ check'.at = "done"
        /\ check'.mode = check.mode /\ check'.canon = check.canon
        /\ check'.sha = check.sha
        /\ check'.sites = check.sites /\ check'.exit = ExitCode(check)
    BY <1>1, <1>2, DoneRecord
  <1> DEFINE rc == IF ExitCode(check) # 0 THEN 1 ELSE push.rc
  <1>4. rc \in {0, 1}
    BY <1>1 DEF PushRecord
  <1>5. push' = IF push.at = "hook"
                THEN [push EXCEPT !.next = @ + 1, !.rc = rc] ELSE push
    BY DEF Decide
  <1> HIDE DEF rc
  <1>6. push.at = "hook" =>
           /\ push' \in PushRecord
           /\ push'.at = "hook" /\ push'.updates = push.updates
           /\ push'.next = push.next + 1 /\ push'.rc = rc
    BY <1>1, <1>4, <1>5, NextRecord
  <1>7. /\ check.at = "reading" /\ Len(check.sites) = 3
        /\ UNCHANGED <<workspace, edits, built, raced>>
    BY Sites DEF Decide, Running
  <1> QED
    BY <1>1, <1>3, <1>5, <1>6, <1>7 DEF rc

LEMMA HookSkipsStep ==
    ASSUME TypeInv, HookSkips
    PROVE  /\ push' \in PushRecord
           /\ push.at = "hook" /\ push'.at = "hook"
           /\ push'.updates = push.updates /\ push'.rc = push.rc
           /\ push'.next = push.next + 1
           /\ push.next <= Len(push.updates)
           /\ Unchecked(push.updates[push.next])
           /\ check.at # "reading"
           /\ UNCHANGED <<workspace, check, edits, built, raced>>
  <1>1. push \in PushRecord
    BY DEF TypeInv, Runs
  <1>2. push' = [push EXCEPT !.next = @ + 1]
    BY DEF HookSkips
  <1>3. push.rc \in {0, 1} /\ push' = [push EXCEPT !.next = @ + 1, !.rc = push.rc]
    BY <1>1, <1>2 DEF PushRecord
  <1>4. /\ push' \in PushRecord /\ push'.at = push.at
        /\ push'.updates = push.updates /\ push'.rc = push.rc
        /\ push'.next = push.next + 1
    BY <1>1, <1>3, NextRecord
  <1> QED
    BY <1>4 DEF HookSkips, InHook, Running, Update

LEMMA UpdateSha ==
    ASSUME push \in PushRecord, NEW i \in 1 .. Len(push.updates)
    PROVE  i \in DOMAIN push.updates /\ push.updates[i].sha \in Commit \cup {None}
  <1>1. push.updates \in Push \cup {<< >>}
    BY DEF PushRecord
  <1>2. push.updates # << >>
    OBVIOUS
  <1> QED
    BY <1>1, <1>2, PushAssumption

LEMMA HookChecksStep ==
    ASSUME TypeInv, HookChecks
    PROVE  /\ check' \in CheckRecord
           /\ check'.at = "reading" /\ check'.mode = "pre-push"
           /\ check'.sha = push.updates[push.next].sha
           /\ check'.sites = << >>
           /\ push.at = "hook" /\ push.next <= Len(push.updates)
           /\ built' = [s \in Site |-> {Builds(s)}]
           /\ UNCHANGED <<workspace, push, edits, raced>>
  <1>1. /\ push.at = "hook" /\ push.next <= Len(push.updates)
        /\ Begin("pre-push", push.updates[push.next].sha, None)
        /\ UNCHANGED <<workspace, push, edits, raced>>
    BY DEF HookChecks, InHook, Update
  <1>2. push \in PushRecord /\ push.next \in 1 .. Len(push.updates)
    BY <1>1, UpdatesAreSeq DEF TypeInv, Runs
  <1>3. push.updates[push.next].sha \in Commit \cup {None}
    BY <1>2, UpdateSha
  <1> QED
    BY <1>1, <1>3, BeginRecord

LEMMA RunCheckerStep ==
    ASSUME TypeInv, NEW mode \in ManualModes, RunChecker(mode)
    PROVE  /\ check' \in CheckRecord
           /\ check'.at = "reading" /\ check'.mode = mode
           /\ check'.canon = head[Canonical] /\ check'.sites = << >>
           /\ push.at # "hook"
           /\ built' = [s \in Site |-> {Builds(s)}]
           /\ UNCHANGED <<workspace, push, edits, raced>>
  <1>1. head[Canonical] \in Commit
    BY CheckoutAssumption DEF TypeInv, Workspace
  <1> QED
    BY <1>1, BeginRecord, ModeAssumption DEF RunChecker

LEMMA PushLandsStep ==
    ASSUME TypeInv, PushLands
    PROVE  /\ push' \in PushRecord
           /\ push.at = "hook" /\ push'.at = "landed"
           /\ push'.updates = push.updates /\ push'.next = push.next
           /\ push.next > Len(push.updates) /\ push.rc = 0
           /\ remote' \in [Branch -> Commit \cup {None}]
           /\ \A b \in Branch :
                 \/ remote'[b] = remote[b]
                 \/ \E i \in DOMAIN push.updates :
                       /\ push.updates[i].to = b
                       /\ remote'[b] = push.updates[i].sha
           /\ UNCHANGED <<head, pin, tree, check, edits, built, raced>>
  <1>1. push \in PushRecord /\ remote \in [Branch -> Commit \cup {None}]
    BY DEF TypeInv, Runs
  <1>2. push' = [push EXCEPT !.at = "landed"]
    BY DEF PushLands
  <1>3. /\ push' \in PushRecord /\ push'.at = "landed"
        /\ push'.updates = push.updates /\ push'.next = push.next
    BY <1>1, <1>2, EndRecord
  <1> DEFINE latest(b) == CHOOSE i \in LatestFor(b) : TRUE
  <1>4. remote' = [b \in Branch |-> IF LatestFor(b) = {} THEN remote[b]
                                    ELSE push.updates[latest(b)].sha]
    BY DEF PushLands
  <1>5. \A b \in Branch : LatestFor(b) # {} =>
           latest(b) \in DOMAIN push.updates /\ push.updates[latest(b)].to = b
    BY DEF LatestFor
  <1>6. \A i \in DOMAIN push.updates : push.updates[i].sha \in Commit \cup {None}
    BY <1>1, PushAssumption DEF PushRecord
  <1> HIDE DEF latest
  <1>7. /\ remote' \in [Branch -> Commit \cup {None}]
        /\ \A b \in Branch :
              \/ remote'[b] = remote[b]
              \/ \E i \in DOMAIN push.updates :
                    /\ push.updates[i].to = b
                    /\ remote'[b] = push.updates[i].sha
    BY <1>1, <1>4, <1>5, <1>6
  <1>8. /\ push.at = "hook" /\ push.next > Len(push.updates) /\ push.rc = 0
        /\ UNCHANGED <<head, pin, tree, check, edits, built, raced>>
    BY DEF PushLands, HookDone
  <1> QED
    BY <1>3, <1>7, <1>8

LEMMA PushRejectedStep ==
    ASSUME TypeInv, PushRejected
    PROVE  /\ push' \in PushRecord
           /\ push.at = "hook" /\ push'.at = "rejected"
           /\ push'.updates = push.updates /\ push'.next = push.next
           /\ push'.rc = push.rc /\ push.rc # 0
           /\ UNCHANGED <<workspace, check, edits, built, raced>>
  <1>1. push \in PushRecord /\ push' = [push EXCEPT !.at = "rejected"]
    BY DEF TypeInv, Runs, PushRejected
  <1> QED
    BY <1>1, EndRecord DEF PushRejected, HookDone

LEMMA StartPushStep ==
    ASSUME TypeInv, NEW updates \in Push, StartPush(updates)
    PROVE  /\ push' \in PushRecord
           /\ push'.at = "hook" /\ push'.updates = updates
           /\ push'.next = 1 /\ push'.rc = 0
           /\ check.at # "reading" /\ raced' = {}
           /\ UNCHANGED <<workspace, check, edits, built>>
  BY DEF StartPush, PushRecord, Running

LEMMA TypeStep == TypeInv /\ [Next]_vars => TypeInv'
  <1> SUFFICES ASSUME TypeInv, [Next]_vars
               PROVE  TypeInv'
    OBVIOUS
  <1>1. /\ Len(push.updates) \in Nat /\ push.next \in Nat
        /\ push.next \in 1 .. Len(push.updates) + 1
        /\ check \in CheckRecord /\ push \in PushRecord
    BY UpdatesAreSeq DEF TypeInv, Runs, PushRecord
  <1>2. CASE UNCHANGED vars
    BY <1>2 DEF vars, workspace, TypeInv, Workspace, Runs, Running
  <1>3. CASE Edit
    <2>1. Workspace' /\ Runs'
      BY <1>3, EditStep DEF TypeInv, Runs, Running
    <2>2. \A s \in Site : Builds(s)' \in Commit \cup {None}
      BY <2>1, CheckoutAssumption DEF Workspace, Builds
    <2>3. built' = [s \in Site |-> IF Running THEN built[s] \cup {Builds(s)'}
                                              ELSE built[s]]
      BY <1>3, EditStep
    <2>4. built' \in [Site -> SUBSET (Commit \cup {None})]
      BY <2>2, <2>3 DEF TypeInv
    <2> QED
      BY <1>3, <2>1, <2>4, EditStep DEF TypeInv
  <1>4. ASSUME NEW mode \in ManualModes, RunChecker(mode)
        PROVE  TypeInv'
    <2>1. /\ check' \in CheckRecord
          /\ check'.sites = << >> /\ push.at # "hook"
          /\ built' = [s \in Site |-> {Builds(s)}]
          /\ UNCHANGED <<workspace, push, edits, raced>>
      BY <1>4, RunCheckerStep
    <2>2. push' = push /\ Len(check'.sites) = 0
      BY <2>1
    <2>3. Runs'
      BY <1>1, <2>1, <2>2 DEF Runs
    <2> QED
      BY <2>1, <2>3, BuildsType DEF TypeInv, Workspace, workspace
  <1>5. CASE ReadSite
    <2>1. Runs'
      BY <1>1, <1>5, ReadSiteStep DEF TypeInv, Runs, Running
    <2> QED
      BY <1>5, <2>1, ReadSiteStep DEF TypeInv, Workspace, workspace
  <1>6. CASE Decide
    <2>1. Runs'
      BY <1>1, <1>6, DecideStep DEF TypeInv, Runs, Running
    <2> QED
      BY <1>6, <2>1, DecideStep DEF TypeInv, Workspace, workspace
  <1>7. ASSUME NEW updates \in Push, StartPush(updates)
        PROVE  TypeInv'
    <2>1. Len(updates) \in Nat
      BY PushAssumption
    <2>2. /\ push' \in PushRecord /\ push'.updates = updates /\ push'.next = 1
          /\ check.at # "reading" /\ check' = check /\ raced' = {}
          /\ UNCHANGED <<workspace, edits, built>>
      BY <1>7, StartPushStep
    <2>3. push'.next \in 1 .. Len(push'.updates) + 1
      BY <2>1, <2>2
    <2>4. Runs'
      BY <2>2, <2>3 DEF TypeInv, Runs, Running
    <2> QED
      BY <2>2, <2>4 DEF TypeInv, Workspace, workspace
  <1>8. CASE HookSkips
    <2>1. /\ push' \in PushRecord
          /\ push'.updates = push.updates /\ push'.next = push.next + 1
          /\ push.next <= Len(push.updates)
          /\ check.at # "reading" /\ check' = check
          /\ UNCHANGED <<workspace, edits, built, raced>>
      BY <1>8, HookSkipsStep
    <2>2. push'.next \in 1 .. Len(push'.updates) + 1
      BY <1>1, <2>1
    <2>3. Runs'
      BY <2>1, <2>2 DEF TypeInv, Runs, Running
    <2> QED
      BY <2>1, <2>3 DEF TypeInv, Workspace, workspace
  <1>9. CASE HookChecks
    <2>1. /\ check' \in CheckRecord
          /\ check'.mode = "pre-push"
          /\ check'.sha = push.updates[push.next].sha
          /\ check'.sites = << >> /\ push.next <= Len(push.updates)
          /\ built' = [s \in Site |-> {Builds(s)}]
          /\ UNCHANGED <<workspace, push, edits, raced>>
      BY <1>9, HookChecksStep
    <2>2. push' = push /\ Len(check'.sites) = 0
      BY <2>1
    <2>3. Runs'
      BY <1>1, <2>1, <2>2 DEF Runs
    <2> QED
      BY <2>1, <2>3, BuildsType DEF TypeInv, Workspace, workspace
  <1>10. CASE PushLands
    <2>1. Runs'
      BY <1>1, <1>10, PushLandsStep DEF TypeInv, Runs, Running
    <2> QED
      BY <1>10, <2>1, PushLandsStep DEF TypeInv, Workspace
  <1>11. CASE PushRejected
    <2>1. Runs'
      BY <1>1, <1>11, PushRejectedStep DEF TypeInv, Runs, Running
    <2> QED
      BY <1>11, <2>1, PushRejectedStep DEF TypeInv, Workspace, workspace
  <1> QED
    BY <1>2, <1>3, <1>4, <1>5, <1>6, <1>7, <1>8, <1>9, <1>10, <1>11 DEF Next, Guard

(* The scripts' records and the workspace keep their types.                *)
THEOREM TypeCorrect == Spec => []TypeOK
  <1>1. TypeInv => TypeOK
    BY Sites DEF TypeInv, Workspace, Runs, CheckRecord, PushRecord, TypeOK
  <1> QED
    BY <1>1, InitTypes, TypeStep, PTL DEF Spec

-----------------------------------------------------------------------------
(* Verdicts                                                                *)

\* What a reading tells of a site that built against the commits of a set: a
\* violation, that for a moment there was no commit it built against; else one
\* of the commits.
Tells(reading, commits) ==
    IF reading.faulty THEN None \in commits
    ELSE reading.effective \in commits /\ reading.effective \in Commit

\* Every reading is of some moment of the run; a verdict is the verdict on what
\* was read.
ReadInv ==
    /\ \A i \in DOMAIN check.sites : Tells(check.sites[i], built[SiteOrder[i]])
    /\ Running => \A s \in Site : Builds(s) \in built[s]
    /\ check.at # "idle" /\ check.mode # "pre-push" => check.canon \in Commit
    /\ check.at = "done" => Len(check.sites) = 3 /\ check.exit = ExitCode(check)

LEMMA InitRead == Init => ReadInv
  <1> SUFFICES ASSUME Init
               PROVE  ReadInv
    OBVIOUS
  <1>1. check.at = "idle" /\ check.sites = << >>
    BY DEF Init, Idle
  <1> QED
    BY <1>1 DEF ReadInv, Running

(* A step that keeps the run and the workspace keeps what is known of both. *)
LEMMA ReadKept ==
    ASSUME ReadInv, check' = check, built' = built,
           head' = head, pin' = pin, tree' = tree
    PROVE  ReadInv'
  <1>1. \A s \in Site : Builds(s)' = Builds(s)
    BY DEF Builds
  <1>2. ExitCode(check)' = ExitCode(check)
    BY DEF ExitCode, Violated, Preserved, Aligned, Effectives
  <1> QED
    BY <1>1, <1>2 DEF ReadInv, Tells, Running

(* When a run begins, each site is as it is, and nothing has been read.      *)
LEMMA ReadBegins ==
    ASSUME check'.at = "reading", check'.sites = << >>,
           check'.mode = "pre-push" \/ check'.canon \in Commit,
           UNCHANGED <<head, pin, tree>>,
           built' = [s \in Site |-> {Builds(s)}]
    PROVE  ReadInv'
  <1>1. \A s \in Site : Builds(s)' = Builds(s)
    BY DEF Builds
  <1> QED
    BY <1>1 DEF ReadInv, Running

LEMMA ReadStep == TypeInv /\ ReadInv /\ [Next]_vars => ReadInv'
  <1> SUFFICES ASSUME TypeInv, ReadInv, [Next]_vars
               PROVE  ReadInv'
    OBVIOUS
  <1>0. /\ DOMAIN check.sites \subseteq 1 .. 3
        /\ \A i \in 1 .. 3 : SiteOrder[i] \in Site
    <2>1. check.sites \in Seq(Reading) /\ Len(check.sites) <= 3
      BY DEF TypeInv, Runs, CheckRecord
    <2> QED
      BY <2>1, Sites
  <1>1. CASE UNCHANGED vars
    BY <1>1, ReadKept DEF vars, workspace
  <1>2. CASE Edit
    <2>1. /\ check' = check
          /\ built' = [s \in Site |-> IF Running THEN built[s] \cup {Builds(s)'}
                                                 ELSE built[s]]
      BY <1>2, EditStep
    <2>2. ExitCode(check)' = ExitCode(check)
      BY <2>1 DEF ExitCode, Violated, Preserved, Aligned, Effectives
    <2>3. \A s \in Site : built[s] \subseteq built'[s]
      BY <2>1
    <2>4. Running => \A s \in Site : Builds(s)' \in built'[s]
      BY <2>1
    <2>5. ASSUME NEW i \in DOMAIN check.sites
          PROVE  Tells(check'.sites[i], built'[SiteOrder[i]])
      <3>1. SiteOrder[i] \in Site
        BY <1>0
      <3>2. built[SiteOrder[i]] \subseteq built'[SiteOrder[i]]
        BY <2>3, <3>1
      <3> QED
        BY <2>1, <3>2 DEF ReadInv, Tells
    <2> QED
      BY <2>1, <2>2, <2>4, <2>5 DEF ReadInv, Running, Tells
  <1>3. ASSUME NEW mode \in ManualModes, RunChecker(mode)
        PROVE  ReadInv'
    <2>1. /\ check'.at = "reading" /\ check'.sites = << >>
          /\ check'.canon = head[Canonical] /\ UNCHANGED <<head, pin, tree>>
          /\ built' = [s \in Site |-> {Builds(s)}]
      BY <1>3, RunCheckerStep DEF workspace
    <2>2. head[Canonical] \in Commit
      BY CheckoutAssumption DEF TypeInv, Workspace
    <2> QED
      BY <2>1, <2>2, ReadBegins
  <1>4. CASE ReadSite
    <2> DEFINE n == Len(check'.sites)
    <2>1. /\ check.at = "reading" /\ check'.at = "reading"
          /\ check'.mode = check.mode /\ check'.canon = check.canon
          /\ UNCHANGED <<head, pin, tree, built>>
      BY <1>4, ReadSiteStep DEF workspace
    <2>2. /\ n \in 1 .. 3
          /\ check'.sites[n] = Resolve(SiteOrder[n])
          /\ \A i \in DOMAIN check.sites : check'.sites[i] = check.sites[i]
          /\ \A i \in DOMAIN check'.sites : i \in DOMAIN check.sites \/ i = n
      BY <1>4, ReadSiteStep
    <2> HIDE DEF n
    <2>3. Tells(Resolve(SiteOrder[n]), built[SiteOrder[n]])
      <3>1. SiteOrder[n] \in Site
        BY <1>0, <2>2
      <3>2. Builds(SiteOrder[n]) \in built[SiteOrder[n]]
        BY <2>1, <3>1 DEF ReadInv, Running
      <3> QED
        BY <3>1, <3>2, SiteRead DEF Tells, TypeInv
    <2>4. \A i \in DOMAIN check'.sites : Tells(check'.sites[i], built[SiteOrder[i]])
      BY <2>2, <2>3 DEF ReadInv
    <2>5. \A s \in Site : Builds(s)' = Builds(s)
      BY <2>1 DEF Builds
    <2> QED
      BY <2>1, <2>4, <2>5 DEF ReadInv, Running, Tells
  <1>5. CASE Decide
    <2>1. /\ check.at = "reading" /\ check'.at = "done"
          /\ check'.mode = check.mode /\ check'.sites = check.sites
          /\ check'.canon = check.canon /\ check'.sha = check.sha
          /\ Len(check.sites) = 3 /\ check'.exit = ExitCode(check)
          /\ built' = built
      BY <1>5, DecideStep DEF workspace
    <2>2. ExitCode(check)' = ExitCode(check)
      BY <2>1 DEF ExitCode, Violated, Preserved, Aligned, Effectives
    <2> QED
      BY <2>1, <2>2 DEF ReadInv, Running, Tells
  <1>6. ASSUME NEW updates \in Push, StartPush(updates)
        PROVE  ReadInv'
    BY <1>6, StartPushStep, ReadKept DEF workspace
  <1>7. CASE HookSkips
    BY <1>7, HookSkipsStep, ReadKept DEF workspace
  <1>8. CASE HookChecks
    BY <1>8, HookChecksStep, ReadBegins DEF workspace
  <1>9. CASE PushLands
    BY <1>9, PushLandsStep, ReadKept
  <1>10. CASE PushRejected
    BY <1>10, PushRejectedStep, ReadKept DEF workspace
  <1> QED
    BY <1>1, <1>2, <1>3, <1>4, <1>5, <1>6, <1>7, <1>8, <1>9, <1>10 DEF Next, Guard

LEMMA VerdictInvariant == Spec => [](TypeInv /\ ReadInv)
  BY InitTypes, InitRead, TypeStep, ReadStep, PTL DEF Spec

(* The verdict of a finished run: a green one is witnessed at every site,    *)
(* and what was held by every site is accepted.                              *)
LEMMA Verdict ==
    ASSUME TypeInv, ReadInv, check.at = "done", check.mode # "pre-push"
    PROVE  /\ check.canon \in Commit
           /\ check.exit = 0 =>
                 \E c \in Commit : Accepts(check, c) /\ Witnessed(c)
           /\ check.exit # 0 =>
                 \A c \in Commit : Accepts(check, c) => ~Held(c)
  <1>1. check.canon \in Commit
    BY DEF ReadInv
  <1>2. Len(check.sites) = 3 /\ check.exit = ExitCode(check)
    BY DEF ReadInv
  <1>3. DOMAIN check.sites = 1 .. 3
    <2>1. check.sites \in Seq(Reading)
      BY DEF TypeInv, Runs, CheckRecord
    <2> QED
      BY <1>2, <2>1
  <1>4. \A i \in 1 .. 3 : Tells(check.sites[i], built[SiteOrder[i]])
    BY <1>3 DEF ReadInv
  <1>5. check.exit = 0 <=>
           \E c \in Commit :
              /\ Accepts(check, c)
              /\ \A i \in 1 .. 3 :
                    ~check.sites[i].faulty /\ check.sites[i].effective = c
    BY <1>2, <1>3, <1>4, VerdictIsRight DEF Tells
  <1>6. ASSUME NEW c \in Commit,
               \A i \in 1 .. 3 :
                  ~check.sites[i].faulty /\ check.sites[i].effective = c
        PROVE  Witnessed(c)
    BY <1>4, <1>6, Sites DEF Tells, Witnessed
  <1>7. ASSUME NEW c \in Commit, Held(c), NEW i \in 1 .. 3
        PROVE  ~check.sites[i].faulty /\ check.sites[i].effective = c
    <2>1. built[SiteOrder[i]] = {c} /\ None # c
      BY <1>7, Sites, CommitAssumption DEF Held
    <2> QED
      BY <1>4, <2>1 DEF Tells
  <1> QED
    BY <1>1, <1>5, <1>6, <1>7

(* However people go on working while the sites are read: when the strict     *)
(* check passes, each site built against the canonical HEAD it began with at  *)
(* some moment of the run, and it passes when all did so all through.         *)
THEOREM StrictVerdict == Spec => []StrictVerdictIsWitnessed
  <1>1. TypeInv /\ ReadInv => StrictVerdictIsWitnessed
    <2> SUFFICES ASSUME TypeInv, ReadInv, check.at = "done", check.mode = "strict"
                 PROVE  /\ check.exit = 0 => Witnessed(check.canon)
                        /\ check.exit # 0 => ~Held(check.canon)
      BY DEF StrictVerdictIsWitnessed, Finished
    <2>1. \A c : Accepts(check, c) <=> c = check.canon
      BY DEF Accepts
    <2> QED
      BY <2>1, Verdict
  <1> QED
    BY <1>1, VerdictInvariant, PTL

(* The same of the tolerant check and some one commit in the history of the   *)
(* canonical HEAD.                                                            *)
THEOREM TolerantVerdict == Spec => []TolerantVerdictIsWitnessed
  <1>1. TypeInv /\ ReadInv => TolerantVerdictIsWitnessed
    <2> SUFFICES ASSUME TypeInv, ReadInv, check.at = "done", check.mode = "tolerant"
                 PROVE  /\ check.exit = 0 =>
                              \E c \in Commit : IsAncestor(c, check.canon) /\ Witnessed(c)
                        /\ check.exit # 0 =>
                              \A c \in Commit : IsAncestor(c, check.canon) => ~Held(c)
      BY DEF TolerantVerdictIsWitnessed, Finished
    <2>1. check.canon \in Commit
      BY Verdict
    <2>2. IsAncestor(check.canon, check.canon)
      BY <2>1, CommitAssumption DEF IsAncestor
    <2>3. \A c : Accepts(check, c) <=> IsAncestor(c, check.canon)
      BY <2>2 DEF Accepts
    <2> QED
      BY <2>3, Verdict
  <1> QED
    BY <1>1, VerdictInvariant, PTL

-----------------------------------------------------------------------------
(* The hook                                                                *)

\* Every update of a branch is one that the hook looks at: no deletions and
\* no refspec whose source is an expression.
BranchUpdatesAreChecked ==
    \A updates \in Push : \A i \in DOMAIN updates :
        updates[i].to \in Branch => ~Unchecked(updates[i])

\* Of the pins that did not change after the hook had read them: what it has
\* read of a pinned site is faulty or the pin; while it found nothing, every
\* pin is in the history of every update it has checked.
HookInv ==
    push.at = "hook" =>
        /\ Running =>
              \A i \in DOMAIN check.sites :
                  SiteOrder[i] \notin raced /\ pin[SiteOrder[i]] # None =>
                      \/ check.sites[i].faulty
                      \/ check.sites[i].effective = pin[SiteOrder[i]]
        /\ push.rc = 0 =>
              \A i \in 1 .. push.next - 1 : ~Unchecked(push.updates[i]) =>
                  \A s \in Site \ raced :
                      pin[s] # None => IsAncestor(pin[s], push.updates[i].sha)

LEMMA InitHook == Init => HookInv
  <1> SUFFICES ASSUME Init
               PROVE  HookInv
    OBVIOUS
  <1>1. push = NoPush
    BY DEF Init
  <1>2. push.at # "hook"
    BY <1>1 DEF NoPush
  <1> QED
    BY <1>2 DEF HookInv

(* A hook run that exits with 0 has found every pin in the history of the    *)
(* update that it checked.                                                  *)
LEMMA HookVerdict ==
    ASSUME TypeInv, HookInv, Decide, push.at = "hook",
           ExitCode(check) = 0, NEW s \in Site \ raced, pin[s] # None
    PROVE  IsAncestor(pin[s], push.updates[push.next].sha)
  <1>1. /\ check.at = "reading" /\ Len(check.sites) = 3
        /\ check.sites \in Seq(Reading)
    BY DecideStep DEF TypeInv, Runs, CheckRecord
  <1>2. DOMAIN check.sites = 1 .. 3
    BY <1>1
  <1>3. check.mode = "pre-push" /\ check.sha = push.updates[push.next].sha
    BY <1>1 DEF TypeInv, Runs, Running
  <1>4. /\ \A i \in 1 .. 3 : ~check.sites[i].faulty
        /\ Preserved(check)
    BY <1>2, <1>3 DEF ExitCode, Violated
  <1>5. PICK i \in 1 .. 3 : s = SiteOrder[i]
    BY Sites
  <1>6. check.sites[i].effective = pin[s]
    BY <1>1, <1>2, <1>4, <1>5 DEF HookInv, Running
  <1>7. pin[s] # Unresolvable
    BY CommitAssumption DEF TypeInv, Workspace
  <1> QED
    BY <1>2, <1>3, <1>4, <1>6, <1>7 DEF Preserved

LEMMA HookStep == TypeInv /\ HookInv /\ [Next]_vars => HookInv'
  <1> SUFFICES ASSUME TypeInv, HookInv, [Next]_vars,
                      push'.at = "hook"
               PROVE  /\ check'.at = "reading" =>
                            \A i \in DOMAIN check'.sites :
                                SiteOrder[i] \notin raced' /\ pin'[SiteOrder[i]] # None =>
                                    \/ check'.sites[i].faulty
                                    \/ check'.sites[i].effective = pin'[SiteOrder[i]]
                      /\ push'.rc = 0 =>
                            \A i \in 1 .. push'.next - 1 :
                                ~Unchecked(push'.updates[i]) =>
                                    \A s \in Site \ raced' : pin'[s] # None =>
                                        IsAncestor(pin'[s], push'.updates[i].sha)
    BY DEF HookInv, Running, Unchecked, IsAncestor
  <1> DEFINE Found == \A i \in DOMAIN check.sites :
                         SiteOrder[i] \notin raced /\ pin[SiteOrder[i]] # None =>
                             \/ check.sites[i].faulty
                             \/ check.sites[i].effective = pin[SiteOrder[i]]
             Kept(i) == ~Unchecked(push.updates[i]) =>
                           \A s \in Site \ raced : pin[s] # None =>
                               IsAncestor(pin[s], push.updates[i].sha)
  <1>1. push.at = "hook" =>
           /\ check.at = "reading" => Found
           /\ push.rc = 0 => \A i \in 1 .. push.next - 1 : Kept(i)
    BY DEF HookInv, Running
  <1>2. /\ push.next \in Nat /\ push.next >= 1
        /\ check.sites \in Seq(Reading)
    BY UpdatesAreSeq DEF TypeInv, Runs, CheckRecord
  <1>3. CASE UNCHANGED vars
    BY <1>1, <1>3 DEF vars, workspace
  <1>4. CASE Edit
    <2>1. /\ check' = check /\ push' = push /\ raced \subseteq raced'
          /\ \A s \in Site \ raced' : pin'[s] = pin[s] \/ ~HookHasRead(s)
      BY <1>4, EditStep
    <2>2. ASSUME check.at = "reading", NEW i \in DOMAIN check.sites,
                 SiteOrder[i] \notin raced'
          PROVE  pin'[SiteOrder[i]] = pin[SiteOrder[i]]
      <3>1. SiteOrder[i] \in Site
        <4>1. i \in 1 .. 3
          BY <1>2 DEF TypeInv, Runs
        <4> QED
          BY <4>1, Sites
      <3>2. HookHasRead(SiteOrder[i])
        BY <2>1, <2>2 DEF HookHasRead, Running
      <3> QED
        BY <2>1, <2>2, <3>1, <3>2
    <2>3. ASSUME NEW i \in 1 .. push.next - 1, ~Unchecked(push.updates[i]),
                 NEW s \in Site \ raced'
          PROVE  pin'[s] = pin[s]
      BY <2>1, <2>3 DEF HookHasRead
    <2> QED
      BY <1>1, <2>1, <2>2, <2>3
  <1>5. ASSUME NEW mode \in ManualModes, RunChecker(mode)
        PROVE  FALSE
    BY <1>5, RunCheckerStep
  <1>6. CASE ReadSite
    <2>1. push' = push /\ raced' = raced /\ pin' = pin /\ check.at = "reading"
      BY <1>6, ReadSiteStep DEF workspace
    <2> DEFINE n == Len(check'.sites)
    <2>2. /\ n \in 1 .. 3
          /\ check'.sites[n] = Resolve(SiteOrder[n])
          /\ \A i \in DOMAIN check.sites : check'.sites[i] = check.sites[i]
          /\ \A i \in DOMAIN check'.sites : i \in DOMAIN check.sites \/ i = n
      BY <1>6, ReadSiteStep
    <2>3. pin[SiteOrder[n]] # None =>
             \/ check'.sites[n].faulty
             \/ check'.sites[n].effective = pin[SiteOrder[n]]
      BY <2>2, SiteRead, Sites DEF TypeInv
    <2> HIDE DEF n
    <2> QED
      BY <1>1, <2>1, <2>2, <2>3
  <1>7. CASE Decide
    <2>1. /\ check'.at = "done" /\ push.at = "hook" /\ pin' = pin /\ raced' = raced
          /\ push'.updates = push.updates /\ push'.next = push.next + 1
          /\ push'.rc = IF ExitCode(check) # 0 THEN 1 ELSE push.rc
      BY <1>7, DecideStep DEF workspace
    <2>2. ASSUME push'.rc = 0, NEW i \in 1 .. push'.next - 1
          PROVE  Kept(i)
      <3>1. push.rc = 0 /\ ExitCode(check) = 0
        BY <2>1, <2>2
      <3>2. CASE i = push.next
        BY <1>7, <2>1, <3>1, <3>2, HookVerdict
      <3>3. CASE i # push.next
        <4>1. i \in 1 .. push.next - 1
          BY <1>2, <2>1, <2>2, <3>3
        <4> QED
          BY <1>1, <2>1, <3>1, <4>1
      <3> QED
        BY <3>2, <3>3
    <2> QED
      BY <2>1, <2>2
  <1>8. ASSUME NEW updates \in Push, StartPush(updates)
        PROVE  check'.at # "reading" /\ push'.next = 1
    BY <1>8, StartPushStep
  <1>9. CASE HookSkips
    <2>1. /\ push.at = "hook" /\ raced' = raced /\ pin' = pin
          /\ check' = check /\ check.at # "reading"
          /\ push'.updates = push.updates /\ push'.rc = push.rc
          /\ push'.next = push.next + 1 /\ Unchecked(push.updates[push.next])
      BY <1>9, HookSkipsStep DEF workspace
    <2>2. ASSUME push'.rc = 0, NEW i \in 1 .. push'.next - 1
          PROVE  Kept(i)
      <3>1. i = push.next \/ i \in 1 .. push.next - 1
        BY <1>2, <2>1, <2>2
      <3> QED
        BY <1>1, <2>1, <2>2, <3>1
    <2> QED
      BY <2>1, <2>2
  <1>10. CASE HookChecks
    <2>1. /\ push' = push /\ raced' = raced /\ pin' = pin
          /\ check'.sites = << >>
      BY <1>10, HookChecksStep DEF workspace
    <2> QED
      BY <1>1, <2>1
  <1>11. CASE PushLands
    BY <1>11, PushLandsStep
  <1>12. CASE PushRejected
    BY <1>12, PushRejectedStep
  <1> QED
    BY <1>3, <1>4, <1>5, <1>6, <1>7, <1>8, <1>9, <1>10, <1>11, <1>12
       DEF Next, Guard

(* What the hook has checked of a push that lands has every pin in its       *)
(* history, but of the sites whose pin changed after it was read.             *)
LEMMA LandedIsChecked ==
    ASSUME TypeInv, HookInv, PushLands, NEW s \in Site \ raced, pin[s] # None,
           NEW i \in DOMAIN push.updates, ~Unchecked(push.updates[i])
    PROVE  IsAncestor(pin[s], push.updates[i].sha)
  <1>1. push.at = "hook" /\ push.rc = 0 /\ push.next > Len(push.updates)
    BY PushLandsStep
  <1>2. /\ push.updates \in Push \cup {<< >>} /\ Len(push.updates) \in Nat
        /\ push.next \in Nat
    BY UpdatesAreSeq DEF TypeInv, Runs, PushRecord
  <1>3. push.updates \in Push
    BY <1>2
  <1>4. i \in 1 .. Len(push.updates)
    BY <1>3, PushAssumption
  <1>5. i \in 1 .. push.next - 1
    BY <1>1, <1>2, <1>4
  <1> QED
    BY <1>1, <1>5 DEF HookInv

(* A push of checked updates lands only where it keeps every pin reachable: a *)
(* branch it moves goes to a commit that has every pin in its history, the    *)
(* others stay.                                                               *)
LEMMA LandedKeepsPins ==
    ASSUME BranchUpdatesAreChecked, TypeInv, HookInv, PushLands,
           NEW s \in Site \ raced, pin[s] # None, Reachable(pin[s], remote)
    PROVE  Reachable(pin[s], remote')
  <1>1. /\ push.at = "hook" /\ push.rc = 0 /\ push.next > Len(push.updates)
        /\ \A b \in Branch :
              \/ remote'[b] = remote[b]
              \/ \E i \in DOMAIN push.updates :
                    push.updates[i].to = b /\ remote'[b] = push.updates[i].sha
    BY PushLandsStep
  <1>2. PICK b \in Branch : remote[b] # None /\ IsAncestor(pin[s], remote[b])
    BY DEF Reachable
  <1>3. CASE remote'[b] = remote[b]
    BY <1>2, <1>3 DEF Reachable
  <1>4. ASSUME NEW i \in DOMAIN push.updates,
               push.updates[i].to = b, remote'[b] = push.updates[i].sha
        PROVE  Reachable(pin[s], remote')
    <2>1. push.updates \in Push
      BY <1>4 DEF TypeInv, Runs, PushRecord
    <2>2. ~Unchecked(push.updates[i])
      BY <1>4, <2>1 DEF BranchUpdatesAreChecked
    <2>5. IsAncestor(pin[s], push.updates[i].sha)
      BY <2>2, LandedIsChecked
    <2>6. push.updates[i].sha # None
      BY <2>2 DEF Unchecked
    <2> QED
      BY <1>4, <2>5, <2>6 DEF Reachable
  <1> QED
    BY <1>1, <1>3, <1>4

(* INV-2: if the hook looks at every update of a branch, no push that lands   *)
(* makes a reachable pin unreachable, and each branch commit it pushed has     *)
(* every pin in its history; but for pins committed after they were read.      *)
THEOREM PinsKept ==
    ASSUME BranchUpdatesAreChecked
    PROVE  Spec => PushKeepsPins
  <1> DEFINE Step ==
         \A s \in Site \ raced :
             push.at = "hook" /\ push'.at = "landed" /\ pin[s] # None =>
                 /\ Reachable(pin[s], remote) => Reachable(pin[s], remote')
                 /\ \A i \in DOMAIN push.updates : ~Unchecked(push.updates[i]) =>
                       IsAncestor(pin[s], push.updates[i].sha)
  <1>1. TypeInv /\ HookInv /\ [Next]_vars => [Step]_vars
    <2> SUFFICES ASSUME TypeInv, HookInv, Next,
                        push.at = "hook", push'.at = "landed",
                        NEW s \in Site \ raced, pin[s] # None
                 PROVE  /\ Reachable(pin[s], remote) => Reachable(pin[s], remote')
                        /\ \A i \in DOMAIN push.updates :
                              ~Unchecked(push.updates[i]) =>
                                  IsAncestor(pin[s], push.updates[i].sha)
      OBVIOUS
    <2>1. CASE PushLands
      BY <2>1, LandedKeepsPins, LandedIsChecked
    <2>2. CASE Edit
      BY <2>2, EditStep
    <2>3. CASE \E mode \in ManualModes : RunChecker(mode)
      BY <2>3, RunCheckerStep
    <2>4. CASE ReadSite
      BY <2>4, ReadSiteStep
    <2>5. CASE Decide
      BY <2>5, DecideStep
    <2>6. CASE \E updates \in Push : StartPush(updates)
      BY <2>6, StartPushStep
    <2>7. CASE HookSkips
      BY <2>7, HookSkipsStep
    <2>8. CASE HookChecks
      BY <2>8, HookChecksStep
    <2>9. CASE PushRejected
      BY <2>9, PushRejectedStep
    <2> QED
      BY <2>1, <2>2, <2>3, <2>4, <2>5, <2>6, <2>7, <2>8, <2>9 DEF Next, Guard
  <1>2. Spec => [](TypeInv /\ HookInv)
    BY InitTypes, InitHook, TypeStep, HookStep, PTL DEF Spec
  <1>3. Spec => [][Step]_vars
    BY <1>1, <1>2, PTL DEF Spec
  <1> QED
    BY <1>3 DEF PushKeepsPins

-----------------------------------------------------------------------------
(* The rollout procedure                                                   *)

Behind == \E s \in Submodules : ~IsAncestor(pin[s], head[Canonical])

Unpulled == {"land", "push", "hook", "blocked", "refused", "update idp"}
Bumped   == {"final check", "ending", "finished"}
Pulled   == {"stage check", "commit idp", "commit home"} \cup Bumped
FinalRun == {"ending", "finished"}

\* Where the procedure is when a check or the push of its commit is under way.
StepInv ==
    /\ step \in Steps /\ overtaken \in 0 .. MaxPushes /\ torn \in BOOLEAN
    /\ seen \in Commit
    /\ raced = {}
    /\ push.at = "hook" => step = "hook"
    /\ Running => step \in {"hook", "commit idp", "ending"}
    /\ Running /\ step = "hook" => push.at = "hook"
    /\ step = "hook" => push.updates \in {<< >>, MainPush(head[Canonical])}

\* The workspace that the procedure has made so far: no submodule is ahead of
\* the remote.
WorkInv ==
    /\ remote[Main] \in Commit
    /\ tree["iyou_mobile"] = ByPath
    /\ \A s \in Submodules :
          /\ tree[s] \in Commit /\ pin[s] \in Commit
          /\ IsAncestor(pin[s], remote[Main]) /\ IsAncestor(tree[s], remote[Main])
          /\ step \in {"land", "push", "hook"} \cup Bumped => tree[s] = pin[s]
    /\ step = "commit home" => tree["iyou_idp"] = pin["iyou_idp"]

\* What was fetched so far is one commit exactly when nobody pushed in between;
\* once the remote has gone beyond iyou_idp's commit, the rest is fetched there.
TornInv ==
    /\ step \in Unpulled => ~torn
    /\ step = "update home" => (torn <=> tree["iyou_idp"] # remote[Main])
    /\ step = "pull" => (torn <=> \E s \in Submodules : tree[s] # remote[Main])
    /\ step \in Pulled => (torn <=> \E s \in Submodules : tree[s] # head[Canonical])

\* The push under way is found wanting only over a pin that it leaves behind.
PushInv ==
    /\ step = "hook" =>
          /\ push.rc # 0 => Behind
          /\ push.at = "rejected" => push.rc # 0
    /\ step = "blocked" => Behind

SitesRead == \A i \in DOMAIN check.sites : check.sites[i] = Resolve(SiteOrder[i])

\* What the hook and the final check have read is what is there.
FinalInv ==
    /\ Running /\ step = "hook" => SitesRead
    /\ step \in FinalRun =>
          /\ check.at \in {"reading", "done"}
          /\ check.mode = "strict" /\ check.canon = head[Canonical]
          /\ SitesRead
          /\ check.at = "done" =>
                Len(check.sites) = 3 /\ check.exit = ExitCode(check)
    /\ step = "finished" => check.at = "done"

Base == TypeInv /\ HookInv /\ StepInv /\ WorkInv

\* What the developer does to the workspace without any script.
Handwork ==
    \/ \E c \in Commit : Land(c)
    \/ UpdateSubmodules \/ Pull \/ BumpPins

LEMMA RolloutSites ==
    /\ \A s \in Submodules : s \in Site /\ s # "iyou_mobile"
    /\ \A s \in Site : s \in Submodules \/ s = "iyou_mobile"
    /\ "iyou_mobile" \in Site
    /\ "iyou_idp" \in Submodules /\ "iyou_home" \in Submodules
  BY DEF Site, Submodules

LEMMA MainPushShape ==
    ASSUME NEW c
    PROVE  /\ Len(MainPush(c)) = 1 /\ DOMAIN MainPush(c) = 1 .. 1
           /\ MainPush(c)[1].sha = c /\ MainPush(c)[1].to = Main
           /\ MainPush(c)[1].local = "branch"
  BY DEF MainPush

(* The push of the canonical HEAD is looked at by the hook, and nothing else *)
(* is pushed with it.                                                       *)
LEMMA PushOfHead ==
    ASSUME TypeInv, StepInv, step = "hook"
    PROVE  /\ head[Canonical] \in Commit
           /\ \A i \in DOMAIN push.updates :
                 /\ push.updates[i].sha = head[Canonical]
                 /\ ~Unchecked(push.updates[i])
  <1>1. head[Canonical] \in Commit
    BY CheckoutAssumption DEF TypeInv, Workspace
  <1>2. push.updates = << >> \/ push.updates = MainPush(head[Canonical])
    BY DEF StepInv
  <1>3. head[Canonical] # None
    BY <1>1, CommitAssumption
  <1>4. \A i \in 1 .. 1 : i = 1
    OBVIOUS
  <1>5. CASE push.updates = << >>
    <2>1. DOMAIN push.updates = {}
      BY <1>5
    <2> QED
      BY <1>1, <2>1
  <1>6. CASE push.updates = MainPush(head[Canonical])
    BY <1>1, <1>3, <1>4, <1>6, MainPushShape DEF Unchecked
  <1> QED
    BY <1>2, <1>5, <1>6

(* The checks and the push of the procedure are the guard's.                *)
LEMMA PushMainIsStart ==
    ASSUME TypeInv, NEW forced \in BOOLEAN, PushMain(forced)
    PROVE  \E updates \in Push \cap {<< >>, MainPush(head[Canonical])} :
              StartPush(updates)
  <1>1. head[Canonical] \in Commit
    BY CheckoutAssumption DEF TypeInv, Workspace
  <1>2. << >> \in Push /\ MainPush(head[Canonical]) \in Push
    BY <1>1, RolloutAssumption
  <1>3. CASE head[Canonical] = remote[Main]
    BY <1>2, <1>3 DEF PushMain
  <1>4. CASE head[Canonical] # remote[Main]
    BY <1>2, <1>4 DEF PushMain
  <1> QED
    BY <1>3, <1>4

LEMMA GuardSteps ==
    ASSUME TypeInv,
           \/ \E forced \in BOOLEAN : PushMain(forced)
           \/ StageCheck \/ FinalCheck \/ CheckerStep
    PROVE  Next
  <1>1. CASE \E forced \in BOOLEAN : PushMain(forced)
    BY <1>1, PushMainIsStart DEF Next, Guard
  <1>2. CASE StageCheck \/ FinalCheck \/ CheckerStep
    BY <1>2, RolloutAssumption
       DEF StageCheck, FinalCheck, CheckerStep, Next, Guard
  <1> QED
    BY <1>1, <1>2

(* What the guard leaves alone while the procedure is under way.            *)
LEMMA CheckerFrame ==
    ASSUME TypeInv, CheckerStep
    PROVE  /\ UNCHANGED <<head, pin, tree, raced, step, seen, overtaken, torn>>
           /\ remote' = remote \/ PushLands
  BY ReadSiteStep, DecideStep, HookChecksStep, PushLandsStep, PushRejectedStep
     DEF CheckerStep, workspace

LEMMA PushMainStep ==
    ASSUME TypeInv, NEW forced \in BOOLEAN, PushMain(forced)
    PROVE  /\ step = "push" /\ step' = "hook"
           /\ overtaken' = overtaken /\ torn' = torn /\ seen' = remote[Main]
           /\ push'.at = "hook" /\ push'.rc = 0
           /\ push'.updates \in {<< >>, MainPush(head[Canonical])}
           /\ check.at # "reading" /\ raced' = {}
           /\ UNCHANGED <<head, pin, tree, remote, check>>
  <1>1. PICK updates \in Push \cap {<< >>, MainPush(head[Canonical])} :
           StartPush(updates)
    BY PushMainIsStart
  <1> QED
    BY <1>1, StartPushStep DEF PushMain, workspace

LEMMA PushLateStep ==
    ASSUME TypeInv, PushLate
    PROVE  /\ TypeInv' /\ step = "hook" /\ step' = "refused"
           /\ push'.at = "rejected" /\ check.at # "reading"
           /\ UNCHANGED <<head, pin, tree, remote, check, raced, seen,
                          overtaken, torn>>
  <1>1. /\ push \in PushRecord /\ push' = [push EXCEPT !.at = "rejected"]
        /\ check.at # "reading" /\ step = "hook" /\ step' = "refused"
        /\ UNCHANGED <<workspace, check, edits, built, raced, seen,
                       overtaken, torn>>
    BY DEF PushLate, TypeInv, Runs, HookDone, Running, Then
  <1>2. /\ push' \in PushRecord /\ push'.at = "rejected"
        /\ push'.updates = push.updates /\ push'.next = push.next
    BY <1>1, EndRecord
  <1>3. Runs'
    BY <1>1, <1>2 DEF TypeInv, Runs, Running
  <1> QED
    BY <1>1, <1>2, <1>3 DEF TypeInv, Workspace, workspace

LEMMA ManualStep ==
    ASSUME TypeInv, NEW mode \in {StageMode, "strict"}, RunChecker(mode)
    PROVE  /\ check'.at = "reading" /\ check'.mode = mode
           /\ check'.canon = head[Canonical] /\ check'.sites = << >>
           /\ push.at # "hook"
           /\ UNCHANGED <<head, pin, tree, remote, push, raced>>
  BY RunCheckerStep, RolloutAssumption DEF workspace

(* What each piece of handwork changes.                                     *)
LEMMA LandStep ==
    ASSUME TypeInv, NEW c \in Commit, Land(c)
    PROVE  /\ step = "land" /\ step' = "push"
           /\ head' \in [Checkout -> Commit]
           /\ UNCHANGED <<pin, tree, remote, seen, overtaken, torn>>
  BY DEF Land, Then, TypeInv, Workspace

LEMMA PullStep ==
    ASSUME Base, Pull
    PROVE  /\ step = "pull" /\ step' = "stage check"
           /\ head' \in [Checkout -> Commit] /\ head'[Canonical] = remote[Main]
           /\ UNCHANGED <<pin, tree, remote, seen, overtaken, torn>>
  BY CheckoutAssumption DEF Pull, Then, Base, TypeInv, Workspace, WorkInv

LEMMA UpdateStep ==
    ASSUME Base, UpdateSubmodules
    PROVE  \E s \in Submodules :
              /\ \/ /\ s = "iyou_idp" /\ step = "update idp"
                    /\ step' = "update home"
                 \/ /\ s = "iyou_home" /\ step = "update home"
                    /\ step' = "pull"
              /\ tree' \in [Site -> Commit \cup {NoRepo, Uninit, ByPath}]
              /\ tree'[s] = remote[Main]
              /\ \A r \in Site : r # s => tree'[r] = tree[r]
              /\ UNCHANGED <<head, pin, remote, seen, overtaken, torn>>
  <1> USE RolloutSites DEF UpdateSubmodule, Then, Base, TypeInv, Workspace, WorkInv
  <1>1. CASE UpdateSubmodule("iyou_idp", "update idp", "update home")
    BY <1>1
  <1>2. CASE UpdateSubmodule("iyou_home", "update home", "pull")
    BY <1>2
  <1> QED
    BY <1>1, <1>2 DEF UpdateSubmodules

LEMMA BumpStep ==
    ASSUME Base, BumpPins
    PROVE  \E s \in Submodules :
              /\ \/ /\ s = "iyou_idp" /\ step = "commit idp"
                    /\ step' = "commit home"
                 \/ /\ s = "iyou_home" /\ step = "commit home"
                    /\ step' = "final check"
              /\ check.at = "done"
              /\ pin' \in [Site -> Commit \cup {None}]
              /\ pin'[s] = tree[s]
              /\ \A r \in Site : r # s => pin'[r] = pin[r]
              /\ UNCHANGED <<head, tree, remote, seen, overtaken, torn>>
  <1> USE RolloutSites DEF BumpPin, Then, Base, TypeInv, Workspace, WorkInv
  <1>1. CASE BumpPin("iyou_idp", "commit idp", "commit home")
    BY <1>1
  <1>2. CASE BumpPin("iyou_home", "commit home", "final check")
    BY <1>2
  <1> QED
    BY <1>1, <1>2 DEF BumpPins

(* It keeps the workspace one that the scripts can meet, and no script is    *)
(* running meanwhile.                                                        *)
LEMMA HandStep ==
    ASSUME Base, Handwork
    PROVE  /\ TypeInv' /\ push.at # "hook" /\ ~Running
           /\ step' \in Steps \ {"hook", "blocked", "ending", "finished"}
           /\ UNCHANGED <<check, push, raced, remote, seen, overtaken, torn>>
  <1>1. UNCHANGED <<check, push, edits, built, raced>>
    BY DEF Handwork, Land, UpdateSubmodules, UpdateSubmodule, Pull, BumpPins, BumpPin
  <1>2. Workspace /\ \A s \in Submodules : tree[s] \in Commit /\ pin[s] \in Commit
    BY DEF Base, TypeInv, WorkInv
  <1>3. /\ Workspace' /\ push.at # "hook" /\ ~Running
        /\ step' \in Steps \ {"hook", "blocked", "ending", "finished"}
        /\ UNCHANGED <<remote, seen, overtaken, torn>>
    <2>1. CASE \E c \in Commit : Land(c)
      BY <1>2, <2>1, LandStep DEF Workspace, Steps, Base, StepInv
    <2>2. CASE UpdateSubmodules
      <3>1. PICK s \in Submodules :
              /\ \/ step = "update idp" /\ step' = "update home"
                 \/ step = "update home" /\ step' = "pull"
              /\ tree' \in [Site -> Commit \cup {NoRepo, Uninit, ByPath}]
              /\ tree'[s] = remote[Main]
              /\ \A r \in Site : r # s => tree'[r] = tree[r]
              /\ UNCHANGED <<head, pin, remote, seen, overtaken, torn>>
        BY <2>2, UpdateStep
      <3>2. remote[Main] # ByPath
        BY CommitAssumption DEF Base, WorkInv
      <3>3. Workspace'
        BY <1>2, <3>1, <3>2 DEF Workspace
      <3> QED
        BY <3>1, <3>3 DEF Steps, Base, StepInv
    <2>3. CASE Pull
      BY <1>2, <2>3, PullStep DEF Workspace, Steps, Base, StepInv
    <2>4. CASE BumpPins
      <3>1. PICK s \in Submodules :
              /\ \/ step = "commit idp" /\ step' = "commit home"
                 \/ step = "commit home" /\ step' = "final check"
              /\ check.at = "done"
              /\ pin' \in [Site -> Commit \cup {None}]
              /\ pin'[s] = tree[s]
              /\ \A r \in Site : r # s => pin'[r] = pin[r]
              /\ UNCHANGED <<head, tree, remote, seen, overtaken, torn>>
        BY <2>4, BumpStep
      <3>2. tree[s] # ByPath
        BY <1>2, CommitAssumption
      <3>3. Workspace'
        BY <1>2, <3>1, <3>2 DEF Workspace
      <3> QED
        BY <3>1, <3>3 DEF Steps, Base, StepInv, Running
    <2> QED
      BY <2>1, <2>2, <2>3, <2>4 DEF Handwork
  <1>4. Runs'
    BY <1>1 DEF Base, TypeInv, Runs, Running
  <1> QED
    BY <1>1, <1>3, <1>4 DEF Base, TypeInv

(* Others change the remote's branch and nothing else.                       *)
LEMMA OthersStep ==
    ASSUME Base, NEW c \in Commit, OthersPush(c)
    PROVE  /\ TypeInv'
           /\ remote'[Main] = c /\ remote[Main] # c /\ IsAncestor(remote[Main], c)
           /\ overtaken' \in 0 .. MaxPushes
           /\ torn' = (torn \/ step \in {"update home", "pull"})
           /\ UNCHANGED <<head, pin, tree, check, push, raced, step, seen>>
  <1>1. /\ remote' \in [Branch -> Commit \cup {None}] /\ remote'[Main] = c
        /\ UNCHANGED <<head, pin, tree, check, push, edits, built, raced, step, seen>>
    BY RolloutAssumption DEF OthersPush, Base, TypeInv
  <1>2. Workspace' /\ Runs'
    BY <1>1 DEF Base, TypeInv, Workspace, Runs, Running
  <1>3. overtaken' \in 0 .. MaxPushes
    <2>1. overtaken < MaxPushes /\ overtaken' = overtaken + 1
      BY DEF OthersPush
    <2>2. overtaken \in 0 .. MaxPushes /\ MaxPushes \in Nat
      BY RolloutAssumption DEF Base, StepInv
    <2> QED
      BY <2>1, <2>2
  <1> QED
    BY <1>1, <1>2, <1>3 DEF OthersPush, Base, TypeInv

LEMMA RolloutTypeStep ==
    ASSUME Base, [RolloutNext]_rolloutVars
    PROVE  TypeInv' /\ HookInv'
  <1>1. CASE [Next]_vars
    BY <1>1, TypeStep, HookStep DEF Base
  <1>2. CASE \/ \E forced \in BOOLEAN : PushMain(forced)
             \/ StageCheck \/ FinalCheck \/ CheckerStep
    BY <1>1, <1>2, GuardSteps DEF Base
  <1>3. CASE PushStale \/ PushOutcome \/ Finish \/ UNCHANGED rolloutVars
    BY <1>1, <1>3 DEF PushStale, PushOutcome, Finish, rolloutVars
  <1>4. CASE Handwork
    <2>1. TypeInv' /\ push'.at # "hook"
      BY <1>4, HandStep
    <2> QED
      BY <2>1 DEF HookInv
  <1>5. CASE PushLate
    <2>1. TypeInv' /\ push'.at = "rejected"
      BY <1>5, PushLateStep DEF Base
    <2> QED
      BY <2>1 DEF HookInv
  <1>6. ASSUME NEW c \in Commit, OthersPush(c)
        PROVE  TypeInv' /\ HookInv'
    <2>1. TypeInv' /\ UNCHANGED <<pin, check, push, raced>>
      BY <1>6, OthersStep
    <2> QED
      BY <2>1 DEF Base, HookInv, Running, Unchecked, IsAncestor
  <1> QED
    BY <1>2, <1>3, <1>4, <1>5, <1>6 DEF RolloutNext, ProcedureStep, Handwork

LEMMA StepStep ==
    ASSUME Base, [RolloutNext]_rolloutVars
    PROVE  StepInv'
  <1> USE DEF Base
  <1>0. \A s \in { "land", "push", "hook", "blocked", "refused", "update idp",
                   "update home", "pull", "stage check", "commit idp",
                   "commit home", "final check", "ending", "finished" } : s \in Steps
    BY DEF Steps
  <1>1. CASE Handwork
    BY <1>1, HandStep DEF StepInv, Running
  <1>2. ASSUME NEW forced \in BOOLEAN, PushMain(forced)
        PROVE  StepInv'
    <2>1. remote[Main] \in Commit
      BY DEF WorkInv
    <2> QED
      BY <1>0, <1>2, <2>1, PushMainStep DEF StepInv, Running
  <1>3. CASE PushStale \/ PushOutcome \/ Finish
    BY <1>0, <1>3
       DEF StepInv, Running, PushStale, PushOutcome, Finish, Then, vars, workspace
  <1>4. CASE PushLate
    BY <1>0, <1>4, PushLateStep DEF StepInv, Running
  <1>5. CASE StageCheck
    <2>1. /\ push.at # "hook" /\ UNCHANGED <<push, raced, seen, overtaken, torn>>
          /\ step' = "commit idp"
      BY <1>5, ManualStep DEF StageCheck, Then
    <2> QED
      BY <1>0, <2>1 DEF StepInv, Running
  <1>6. CASE FinalCheck
    <2>1. /\ push.at # "hook" /\ UNCHANGED <<push, raced, seen, overtaken, torn>>
          /\ step' = "ending"
      BY <1>6, ManualStep DEF FinalCheck, Then
    <2> QED
      BY <1>0, <2>1 DEF StepInv, Running
  <1>7. CASE CheckerStep
    <2>1. UNCHANGED <<head, raced, step, seen, overtaken, torn>>
      BY <1>7, CheckerFrame
    <2>2. CASE ReadSite
      BY <2>1, <2>2, ReadSiteStep DEF StepInv, Running
    <2>3. CASE Decide
      BY <2>1, <2>3, DecideStep DEF StepInv, Running
    <2>4. CASE HookChecks
      BY <2>1, <2>4, HookChecksStep DEF StepInv, Running
    <2>5. CASE PushLands
      <3>1. check.at # "reading"
        BY <2>5 DEF PushLands, HookDone, Running
      <3> QED
        BY <2>1, <2>5, <3>1, PushLandsStep DEF StepInv, Running
    <2>6. CASE PushRejected
      <3>1. check.at # "reading"
        BY <2>6 DEF PushRejected, HookDone, Running
      <3> QED
        BY <2>1, <2>6, <3>1, PushRejectedStep DEF StepInv, Running
    <2> QED
      BY <1>7, <2>2, <2>3, <2>4, <2>5, <2>6 DEF CheckerStep
  <1>8. ASSUME NEW c \in Commit, OthersPush(c)
        PROVE  StepInv'
    <2>1. /\ UNCHANGED <<head, check, push, raced, step, seen>>
          /\ overtaken' \in 0 .. MaxPushes
          /\ torn' = (torn \/ step \in {"update home", "pull"})
      BY <1>8, OthersStep
    <2>2. torn' \in BOOLEAN
      BY <2>1
    <2> QED
      BY <2>1, <2>2 DEF StepInv, Running
  <1>9. CASE UNCHANGED rolloutVars
    BY <1>9 DEF rolloutVars, vars, workspace, StepInv, Running
  <1> QED
    BY <1>1, <1>2, <1>3, <1>4, <1>5, <1>6, <1>7, <1>8, <1>9
       DEF RolloutNext, ProcedureStep, Handwork

(* The order of the history.                                               *)
LEMMA AncestorOfSelf ==
    ASSUME NEW c \in Commit
    PROVE  IsAncestor(c, c)
  BY CommitAssumption DEF IsAncestor

LEMMA AncestorOfLater ==
    ASSUME NEW a \in Commit, NEW b \in Commit, NEW c \in Commit,
           IsAncestor(a, b), IsAncestor(b, c)
    PROVE  IsAncestor(a, c)
  BY CommitAssumption DEF IsAncestor

(* The procedure's push lands where every pin is in the history.            *)
LEMMA LandedWork ==
    ASSUME Base, PushLands
    PROVE  /\ remote'[Main] \in Commit
           /\ \A s \in Submodules : IsAncestor(pin[s], remote'[Main])
  <1> USE DEF Base
  <1>1. /\ push.at = "hook"
        /\ \A b \in Branch :
              \/ remote'[b] = remote[b]
              \/ \E i \in DOMAIN push.updates :
                    push.updates[i].to = b /\ remote'[b] = push.updates[i].sha
    BY PushLandsStep
  <1>2. step = "hook" /\ raced = {}
    BY <1>1 DEF StepInv
  <1>3. CASE remote'[Main] = remote[Main]
    BY <1>3 DEF WorkInv
  <1>4. ASSUME NEW i \in DOMAIN push.updates, remote'[Main] = push.updates[i].sha
        PROVE  /\ remote'[Main] \in Commit
               /\ \A s \in Submodules : IsAncestor(pin[s], remote'[Main])
    <2>1. /\ head[Canonical] \in Commit
          /\ push.updates[i].sha = head[Canonical] /\ ~Unchecked(push.updates[i])
      BY <1>2, <1>4, PushOfHead
    <2>2. ASSUME NEW s \in Submodules
          PROVE  IsAncestor(pin[s], push.updates[i].sha)
      <3>1. s \in Site \ raced /\ pin[s] # None
        BY <1>2, RolloutSites, CommitAssumption DEF WorkInv
      <3> QED
        BY <1>4, <2>1, <3>1, LandedIsChecked
    <2> QED
      BY <1>4, <2>1, <2>2
  <1> QED
    BY <1>1, <1>3, <1>4, RolloutAssumption

LEMMA WorkStep ==
    ASSUME Base, [RolloutNext]_rolloutVars
    PROVE  WorkInv'
  <1> USE DEF Base, Bumped
  <1>1. ASSUME NEW c \in Commit, Land(c)
        PROVE  WorkInv'
    BY <1>1, LandStep DEF WorkInv
  <1>2. ASSUME NEW forced \in BOOLEAN, PushMain(forced)
        PROVE  WorkInv'
    BY <1>2, PushMainStep DEF WorkInv
  <1>3. CASE PushStale \/ PushOutcome \/ Finish
    BY <1>3 DEF WorkInv, PushStale, PushOutcome, Finish, Then, vars, workspace
  <1>4. CASE PushLate
    BY <1>4, PushLateStep DEF WorkInv
  <1>5. CASE UpdateSubmodules
    <2>1. PICK s \in Submodules :
             /\ step' \in {"update home", "pull"}
             /\ tree'[s] = remote[Main]
             /\ \A r \in Site : r # s => tree'[r] = tree[r]
             /\ UNCHANGED <<head, pin, remote>>
      BY <1>5, UpdateStep
    <2>2. IsAncestor(remote[Main], remote[Main])
      BY AncestorOfSelf DEF WorkInv
    <2> QED
      BY <2>1, <2>2, RolloutSites DEF WorkInv
  <1>6. CASE Pull
    BY <1>6, PullStep DEF WorkInv
  <1>7. CASE StageCheck
    <2>1. step' = "commit idp" /\ UNCHANGED <<head, pin, tree, remote>>
      BY <1>7, ManualStep DEF StageCheck, Then
    <2> QED
      BY <2>1 DEF WorkInv
  <1>8. CASE BumpPins
    <2>1. PICK s \in Submodules :
             /\ \/ /\ s = "iyou_idp" /\ step = "commit idp"
                   /\ step' = "commit home"
                \/ /\ s = "iyou_home" /\ step = "commit home"
                   /\ step' = "final check"
             /\ pin'[s] = tree[s]
             /\ \A r \in Site : r # s => pin'[r] = pin[r]
             /\ UNCHANGED <<head, tree, remote>>
      BY <1>8, BumpStep
    <2>2. \A r \in Submodules : pin'[r] = IF r = s THEN tree[r] ELSE pin[r]
      BY <2>1, RolloutSites
    <2>3. step' = "final check" => \A r \in Submodules : pin'[r] = tree[r]
      BY <2>1, <2>2 DEF WorkInv, Submodules
    <2>4. step' = "commit home" => pin'["iyou_idp"] = tree["iyou_idp"]
      BY <2>1
    <2> QED
      BY <2>1, <2>2, <2>3, <2>4 DEF WorkInv
  <1>9. CASE FinalCheck
    <2>1. /\ step = "final check" /\ step' = "ending"
          /\ UNCHANGED <<head, pin, tree, remote>>
      BY <1>9, ManualStep DEF FinalCheck, Then
    <2> QED
      BY <2>1 DEF WorkInv
  <1>10. CASE CheckerStep
    <2>1. UNCHANGED <<head, pin, tree, step>>
      BY <1>10, CheckerFrame
    <2>2. CASE remote' = remote
      BY <2>1, <2>2 DEF WorkInv
    <2>3. CASE PushLands
      <3>1. step = "hook"
        BY <2>3, PushLandsStep DEF StepInv
      <3> QED
        BY <2>1, <2>3, <3>1, LandedWork DEF WorkInv
    <2> QED
      BY <1>10, <2>2, <2>3, CheckerFrame
  <1>11. ASSUME NEW c \in Commit, OthersPush(c)
         PROVE  WorkInv'
    <2>1. /\ remote'[Main] = c /\ IsAncestor(remote[Main], c)
          /\ UNCHANGED <<head, pin, tree, step>>
      BY <1>11, OthersStep
    <2>2. \A a \in Commit : IsAncestor(a, remote[Main]) => IsAncestor(a, c)
      BY <2>1, AncestorOfLater DEF WorkInv
    <2> QED
      BY <2>1, <2>2 DEF WorkInv
  <1>12. CASE UNCHANGED rolloutVars
    BY <1>12 DEF rolloutVars, vars, workspace, WorkInv
  <1> QED
    BY <1>1, <1>2, <1>3, <1>4, <1>5, <1>6, <1>7, <1>8, <1>9, <1>10, <1>11,
       <1>12 DEF RolloutNext, ProcedureStep

LEMMA InitBase == RolloutInit => Base
  <1> SUFFICES ASSUME RolloutInit
               PROVE  Base
    OBVIOUS
  <1>1. PICK c \in Commit :
           /\ head = [k \in Checkout |-> c]
           /\ remote = [b \in Branch |-> IF b = Main THEN c ELSE None]
           /\ pin \in [Site -> { a \in Commit : IsAncestor(a, c) } \cup {None}]
           /\ \A s \in Site : pin[s] = None <=> s = "iyou_mobile"
           /\ tree = [s \in Site |-> IF s \in Submodules THEN pin[s] ELSE ByPath]
           /\ check = Idle /\ push = NoPush /\ edits = 0
           /\ built = [s \in Site |-> {}] /\ raced = {}
           /\ step = "land" /\ seen = c /\ overtaken = 0 /\ torn = FALSE
    BY DEF RolloutInit
  <1>2. /\ \A s \in Submodules :
              /\ s \in Site /\ s # "iyou_mobile"
              /\ pin[s] \in Commit /\ IsAncestor(pin[s], c) /\ tree[s] = pin[s]
        /\ tree["iyou_mobile"] = ByPath /\ pin["iyou_mobile"] = None
        /\ remote[Main] = c
    <2>1. "iyou_mobile" \notin Submodules
      BY DEF Submodules
    <2> QED
      BY <1>1, <2>1, RolloutSites, RolloutAssumption
  <1>3. Workspace
    BY <1>1, <1>2, RolloutSites, CommitAssumption DEF Workspace
  <1>4. check \in CheckRecord /\ Len(check.sites) = 0 /\ check.at = "idle"
    BY <1>1 DEF Idle, CheckRecord
  <1>5. /\ push \in PushRecord /\ push.next = 1 /\ Len(push.updates) = 0
        /\ push.at = "idle"
    <2>1. push = [at |-> "idle", updates |-> << >>, next |-> 1, rc |-> 0]
      BY <1>1 DEF NoPush
    <2>2. /\ push.next = 1 /\ push.updates = << >> /\ push \in PushRecord
          /\ push.at = "idle"
      BY <2>1 DEF PushRecord
    <2> QED
      BY <2>2
  <1>6. Runs
    BY <1>4, <1>5 DEF Runs, Running
  <1>7. TypeInv
    <2>1. remote \in [Branch -> Commit \cup {None}]
      BY <1>1
    <2>2. edits \in 0 .. MaxEdits
      BY <1>1, EditsAssumption
    <2>3. built \in [Site -> SUBSET (Commit \cup {None})] /\ raced \subseteq Site
      BY <1>1
    <2> QED
      BY <1>3, <1>6, <2>1, <2>2, <2>3, Zenon DEF TypeInv
  <1>8. HookInv
    BY <1>5 DEF HookInv
  <1>9. StepInv
    <2>1. 0 \in 0 .. MaxPushes
      BY RolloutAssumption
    <2> QED
      BY <1>1, <1>4, <1>5, <2>1 DEF StepInv, Steps, Running
  <1>10. WorkInv
    BY <1>1, <1>2 DEF WorkInv, Bumped
  <1> QED
    BY <1>7, <1>8, <1>9, <1>10 DEF Base

LEMMA BaseInvariant == RolloutSpec => []Base
  <1>1. Base /\ [RolloutNext]_rolloutVars => Base'
    <2> SUFFICES ASSUME Base, [RolloutNext]_rolloutVars
                 PROVE  Base'
      OBVIOUS
    <2> QED
      BY RolloutTypeStep, StepStep, WorkStep DEF Base
  <1> QED
    BY <1>1, InitBase, PTL DEF RolloutSpec

(* Through the procedure the workspace stays one that the scripts can meet. *)
THEOREM RolloutTypeCorrect == RolloutSpec => []RolloutTypeOK
  <1>1. TypeInv => TypeOK
    BY Sites DEF TypeInv, Workspace, Runs, CheckRecord, PushRecord, TypeOK
  <1>2. Base => RolloutTypeOK
    BY <1>1 DEF Base, StepInv, RolloutTypeOK
  <1> QED
    BY <1>2, BaseInvariant, PTL

(* Whatever history the developer rewrote and whoever else pushes, a fresh   *)
(* clone can fetch the pin of either submodule at every moment.              *)
THEOREM PinsStayFetchable == RolloutSpec => []PinsStayReachable
  <1>1. Base => PinsStayReachable
    BY CommitAssumption, RolloutAssumption
       DEF Base, WorkInv, PinsStayReachable, Reachable
  <1> QED
    BY <1>1, BaseInvariant, PTL

-----------------------------------------------------------------------------
(* What the rollout comes to                                               *)

(* When nothing but a commit left behind can be wrong with the submodules,   *)
(* that is what the hook finds.                                             *)
LEMMA HookFindsBehind ==
    ASSUME PathTarget = Canonical, Base, FinalInv, Decide, push.at = "hook",
           ExitCode(check) # 0
    PROVE  Behind
  <1> USE DEF Base
  <1>0. step = "hook"
    BY DEF StepInv
  <1>1. /\ check.at = "reading" /\ Len(check.sites) = 3
        /\ check.sites \in Seq(Reading)
    BY DecideStep DEF TypeInv, Runs, CheckRecord
  <1>2. DOMAIN check.sites = 1 .. 3
    BY <1>1
  <1>3. /\ check.mode = "pre-push" /\ check.sha = head[Canonical]
    <2>1. /\ check.mode = "pre-push"
          /\ push.next \in 1 .. Len(push.updates)
          /\ check.sha = push.updates[push.next].sha
          /\ push \in PushRecord
      BY <1>0, <1>1, UpdatesAreSeq DEF TypeInv, Runs, Running, PushRecord
    <2>2. push.next \in DOMAIN push.updates
      BY <2>1, UpdateSha
    <2> QED
      BY <1>0, <2>1, <2>2, PushOfHead
  <1>4. /\ \A i \in 1 .. 3 : check.sites[i] = Resolve(SiteOrder[i])
    BY <1>0, <1>1, <1>2 DEF FinalInv, SitesRead, Running
  <1>5. ASSUME NEW s \in Site
        PROVE  /\ ~Resolve(s).faulty
               /\ s \in Submodules => Resolve(s).effective = pin[s]
               /\ s \notin Submodules => Resolve(s).effective = head[Canonical]
    <2>1. CASE s \in Submodules
      <3>1. tree[s] \in Commit /\ pin[s] = tree[s] /\ pin[s] # None
        BY <1>0, <2>1, CommitAssumption DEF WorkInv
      <3>2. Builds(s) # None
        BY <3>1, CommitAssumption DEF Builds
      <3> QED
        BY <2>1, <3>1, <3>2, SiteRead DEF TypeInv
    <2>2. CASE s = "iyou_mobile"
      <3>1. tree[s] = ByPath /\ s \notin Submodules
        BY <2>2 DEF WorkInv, Submodules
      <3>2. head[Canonical] \in Commit /\ Builds(s) = head[Canonical]
        BY <3>1, CheckoutAssumption, CommitAssumption DEF Builds, TypeInv, Workspace
      <3> QED
        BY <3>1, <3>2, SiteRead, CommitAssumption DEF TypeInv
    <2> QED
      BY <2>1, <2>2, RolloutSites
  <1>6. ~Preserved(check)
    BY <1>2, <1>3, <1>4, <1>5, Sites DEF ExitCode, Violated
  <1>7. PICK i \in 1 .. 3 :
           ~IsAncestor(check.sites[i].effective, head[Canonical])
    BY <1>2, <1>3, <1>6 DEF Preserved
  <1>8. head[Canonical] \in Commit
    BY CheckoutAssumption DEF TypeInv, Workspace
  <1>9. SiteOrder[i] \in Submodules /\ ~IsAncestor(pin[SiteOrder[i]], head[Canonical])
    BY <1>4, <1>5, <1>7, <1>8, AncestorOfSelf, Sites
  <1> QED
    BY <1>9 DEF Behind

LEMMA PushStep ==
    ASSUME PathTarget = Canonical, Base, FinalInv, PushInv,
           [RolloutNext]_rolloutVars
    PROVE  PushInv'
  <1> USE DEF Base
  <1>1. CASE Handwork
    <2>1. step' \notin {"hook", "blocked"}
      BY <1>1, HandStep
    <2> QED
      BY <2>1 DEF PushInv
  <1>2. CASE \E forced \in BOOLEAN : PushMain(forced)
    BY <1>2, PushMainStep DEF PushInv
  <1>3. CASE PushOutcome
    BY <1>3 DEF PushOutcome, Then, vars, workspace, PushInv, Behind
  <1>4. CASE PushStale \/ PushLate \/ StageCheck \/ FinalCheck \/ Finish
    BY <1>4 DEF PushStale, PushLate, StageCheck, FinalCheck, Finish, Then, PushInv
  <1>5. CASE CheckerStep
    <2>1. UNCHANGED <<head, pin, step>>
      BY <1>5, CheckerFrame
    <2>2. Behind' = Behind
      BY <2>1 DEF Behind
    <2>3. step = "hook" =>
             /\ push'.rc # 0 => Behind
             /\ push'.at = "rejected" => push'.rc # 0
      <3>1. CASE ReadSite
        BY <3>1, ReadSiteStep DEF PushInv
      <3>2. CASE Decide
        <4>1. CASE push.at = "hook"
          BY <3>2, <4>1, DecideStep, HookFindsBehind DEF PushInv
        <4>2. CASE push.at # "hook"
          BY <3>2, <4>2, DecideStep DEF PushInv
        <4> QED
          BY <4>1, <4>2
      <3>3. CASE HookChecks
        BY <3>3, HookChecksStep DEF PushInv
      <3>4. CASE PushLands
        <4>1. push.rc = 0 /\ push'.rc = push.rc /\ push'.at = "landed"
          <5>1. push \in PushRecord /\ push' = [push EXCEPT !.at = "landed"]
            BY <3>4 DEF PushLands, TypeInv, Runs
          <5> QED
            BY <3>4, <5>1, EndRecord DEF PushLands
        <4> QED
          BY <4>1
      <3>5. CASE PushRejected
        BY <3>5, PushRejectedStep DEF PushInv
      <3> QED
        BY <1>5, <3>1, <3>2, <3>3, <3>4, <3>5 DEF CheckerStep
    <2> QED
      BY <2>1, <2>2, <2>3 DEF PushInv
  <1>6. CASE UNCHANGED rolloutVars
    BY <1>6 DEF rolloutVars, vars, workspace, PushInv, Behind
  <1>7. CASE \E c \in Commit : OthersPush(c)
    BY <1>7, OthersStep DEF PushInv, Behind
  <1> QED
    BY <1>1, <1>2, <1>3, <1>4, <1>5, <1>6, <1>7
       DEF RolloutNext, ProcedureStep, Handwork

(* What was read stays what is there while the run and the sites are kept.  *)
LEMMA ReadAgain ==
    ASSUME check' = check, UNCHANGED <<head, pin, tree>>
    PROVE  SitesRead' = SitesRead /\ ExitCode(check)' = ExitCode(check)
  <1>1. \A i : Resolve(SiteOrder[i])' = Resolve(SiteOrder[i])
    BY DEF Resolve
  <1>2. ExitCode(check)' = ExitCode(check)
    BY DEF ExitCode, Violated, Preserved, Aligned, Effectives
  <1> QED
    BY <1>1, <1>2 DEF SitesRead

LEMMA FinalStep ==
    ASSUME Base, FinalInv, [RolloutNext]_rolloutVars
    PROVE  FinalInv'
  <1> USE DEF Base, FinalRun
  <1>1. CASE Handwork
    <2>1. step' \notin {"hook", "ending", "finished"}
      BY <1>1, HandStep
    <2> QED
      BY <2>1 DEF FinalInv
  <1>2. CASE \/ \E c \in Commit : OthersPush(c)
             \/ UNCHANGED rolloutVars
    <2>1. UNCHANGED <<check, head, pin, tree, step>>
      BY <1>2 DEF OthersPush, rolloutVars, vars, workspace
    <2> QED
      BY <2>1, ReadAgain DEF FinalInv, Running
  <1>3. CASE \E forced \in BOOLEAN : PushMain(forced)
    BY <1>3, PushMainStep DEF FinalInv, Running
  <1>4. CASE PushStale \/ PushLate \/ PushOutcome \/ StageCheck
    BY <1>4 DEF PushStale, PushLate, PushOutcome, StageCheck, Then, FinalInv
  <1>5. CASE FinalCheck
    <2>1. /\ check'.at = "reading" /\ check'.mode = "strict"
          /\ check'.canon = head[Canonical] /\ check'.sites = << >>
          /\ head' = head /\ step' = "ending"
      BY <1>5, ManualStep DEF FinalCheck, Then
    <2>2. SitesRead'
      BY <2>1 DEF SitesRead
    <2> QED
      BY <2>1, <2>2 DEF FinalInv
  <1>6. CASE Finish
    <2>1. /\ step = "ending" /\ step' = "finished" /\ check.at = "done"
          /\ UNCHANGED <<check, head, pin, tree>>
      BY <1>6 DEF Finish, Then, vars, workspace
    <2> QED
      BY <2>1, ReadAgain DEF FinalInv, Running
  <1>7. CASE CheckerStep
    <2>1. UNCHANGED <<head, pin, tree, step>>
      BY <1>7, CheckerFrame
    <2>2. CASE ReadSite
      <3>1. /\ check.at = "reading" /\ check'.at = "reading"
            /\ check'.mode = check.mode /\ check'.canon = check.canon
        BY <2>2, ReadSiteStep
      <3>2. \A i : Resolve(SiteOrder[i])' = Resolve(SiteOrder[i])
        BY <2>1 DEF Resolve
      <3>3. SitesRead => SitesRead'
        <4>1. ASSUME SitesRead, NEW i \in DOMAIN check'.sites
              PROVE  check'.sites[i] = Resolve(SiteOrder[i])
          BY <2>2, <4>1, ReadSiteStep DEF SitesRead
        <4> QED
          BY <3>2, <4>1 DEF SitesRead
      <3> QED
        BY <2>1, <3>1, <3>3 DEF FinalInv, Running
    <2>3. CASE Decide
      <3>1. /\ check.at = "reading" /\ check'.at = "done"
            /\ check'.mode = check.mode /\ check'.sites = check.sites
            /\ check'.canon = check.canon /\ check'.sha = check.sha
            /\ Len(check.sites) = 3 /\ check'.exit = ExitCode(check)
        BY <2>3, DecideStep
      <3>2. \A i : Resolve(SiteOrder[i])' = Resolve(SiteOrder[i])
        BY <2>1 DEF Resolve
      <3>3. SitesRead' = SitesRead
        BY <3>1, <3>2 DEF SitesRead
      <3>4. ExitCode(check)' = ExitCode(check)
        BY <3>1 DEF ExitCode, Violated, Preserved, Aligned, Effectives
      <3>5. step # "finished"
        BY <3>1 DEF StepInv, Running
      <3> QED
        BY <2>1, <3>1, <3>3, <3>4, <3>5 DEF FinalInv, Running
    <2>4. CASE HookChecks
      <3>1. check'.sites = << >> /\ step = "hook"
        BY <2>4, HookChecksStep DEF StepInv
      <3>2. SitesRead'
        BY <3>1 DEF SitesRead
      <3> QED
        BY <2>1, <3>1, <3>2 DEF FinalInv
    <2>5. CASE PushLands \/ PushRejected
      <3>1. check' = check
        BY <2>5, PushLandsStep, PushRejectedStep
      <3> QED
        BY <2>1, <3>1, ReadAgain DEF FinalInv, Running
    <2> QED
      BY <1>7, <2>2, <2>3, <2>4, <2>5 DEF CheckerStep
  <1> QED
    BY <1>1, <1>2, <1>3, <1>4, <1>5, <1>6, <1>7
       DEF RolloutNext, ProcedureStep, Handwork

LEMMA InitFinal == RolloutInit => FinalInv /\ PushInv /\ TornInv
  <1> SUFFICES ASSUME RolloutInit
               PROVE  step = "land" /\ torn = FALSE
    BY DEF FinalInv, FinalRun, PushInv, TornInv, Pulled, Bumped
  <1> QED
    BY DEF RolloutInit

(* The history is a line without cycles: once the remote has left iyou_idp's *)
(* commit, it does not come back to it.                                      *)
LEMMA TornStep ==
    ASSUME Base, TornInv, [RolloutNext]_rolloutVars
    PROVE  TornInv'
  <1> USE DEF Unpulled, Pulled, Bumped
  <1>1. ASSUME NEW c \in Commit, Land(c)
        PROVE  TornInv'
    BY <1>1, LandStep DEF TornInv, Base
  <1>2. CASE \E forced \in BOOLEAN : PushMain(forced)
    BY <1>2, PushMainStep DEF TornInv, Base
  <1>3. CASE PushStale \/ PushOutcome \/ Finish
    <2>1. /\ UNCHANGED <<head, tree, remote, torn>>
          /\ \/ step \in Unpulled /\ step' \in Unpulled
             \/ step = "ending" /\ step' = "finished"
      BY <1>3 DEF PushStale, PushOutcome, Finish, Then, vars, workspace
    <2> QED
      BY <2>1 DEF TornInv
  <1>4. CASE PushLate
    BY <1>4, PushLateStep DEF TornInv, Base
  <1>5. CASE UpdateSubmodules
    <2>1. PICK s \in Submodules :
              /\ \/ /\ s = "iyou_idp" /\ step = "update idp"
                    /\ step' = "update home"
                 \/ /\ s = "iyou_home" /\ step = "update home"
                    /\ step' = "pull"
              /\ tree'[s] = remote[Main]
              /\ \A r \in Site : r # s => tree'[r] = tree[r]
              /\ UNCHANGED <<head, pin, remote, torn>>
      BY <1>5, UpdateStep
    <2>2. step' = "update home" => (~torn /\ tree'["iyou_idp"] = remote[Main])
      BY <2>1 DEF TornInv
    <2>3. step' = "pull" =>
             /\ tree'["iyou_idp"] = tree["iyou_idp"]
             /\ tree'["iyou_home"] = remote[Main]
             /\ torn <=> tree["iyou_idp"] # remote[Main]
      BY <2>1, RolloutSites DEF TornInv
    <2>4. step' = "pull" =>
             (torn <=> \E r \in Submodules : tree'[r] # remote[Main])
      BY <2>3 DEF Submodules
    <2> QED
      BY <2>1, <2>2, <2>4 DEF TornInv
  <1>6. CASE Pull
    <2>1. /\ step = "pull" /\ step' = "stage check"
          /\ head'[Canonical] = remote[Main] /\ tree' = tree /\ torn' = torn
      BY <1>6, PullStep
    <2>2. torn <=> \E s \in Submodules : tree[s] # remote[Main]
      BY <2>1 DEF TornInv
    <2> QED
      BY <2>1, <2>2 DEF TornInv
  <1>7. CASE StageCheck \/ FinalCheck
    <2>1. /\ step \in Pulled /\ step' \in Pulled
          /\ step' \notin Unpulled \cup {"update home", "pull"}
          /\ UNCHANGED <<head, tree, torn>>
      BY <1>7, ManualStep DEF StageCheck, FinalCheck, Then, Base
    <2> QED
      BY <2>1 DEF TornInv
  <1>8. CASE BumpPins
    <2>1. /\ step \in Pulled /\ step' \in Pulled
          /\ step' \notin Unpulled \cup {"update home", "pull"}
          /\ UNCHANGED <<head, tree, torn>>
      BY <1>8, BumpStep
    <2> QED
      BY <2>1 DEF TornInv
  <1>9. CASE CheckerStep
    <2>1. UNCHANGED <<head, tree, step, torn>>
      BY <1>9, CheckerFrame DEF Base
    <2>2. CASE remote' = remote
      BY <2>1, <2>2 DEF TornInv
    <2>3. CASE PushLands
      <3>1. step = "hook"
        BY <2>3, PushLandsStep DEF Base, StepInv
      <3> QED
        BY <2>1, <3>1 DEF TornInv
    <2> QED
      BY <1>9, <2>2, <2>3, CheckerFrame DEF Base
  <1>10. ASSUME NEW c \in Commit, OthersPush(c)
         PROVE  TornInv'
    <2>1. /\ remote'[Main] = c /\ remote[Main] # c /\ IsAncestor(remote[Main], c)
          /\ torn' = (torn \/ step \in {"update home", "pull"})
          /\ UNCHANGED <<head, tree, step>>
      BY <1>10, OthersStep
    <2>2. \A s \in Submodules : tree[s] # c
      BY <2>1, HistoryAssumption DEF Base, WorkInv
    <2>3. "iyou_idp" \in Submodules
      BY DEF Submodules
    <2>4. CASE step \in {"update home", "pull"}
      <3>1. torn' = TRUE
        BY <2>1, <2>4
      <3> QED
        BY <2>1, <2>2, <2>3, <2>4, <3>1 DEF TornInv
    <2>5. CASE step \notin {"update home", "pull"}
      <3>1. torn' = torn
        BY <2>1, <2>5 DEF Base, StepInv
      <3> QED
        BY <2>1, <2>5, <3>1 DEF TornInv
    <2> QED
      BY <2>4, <2>5
  <1>11. CASE UNCHANGED rolloutVars
    BY <1>11 DEF rolloutVars, vars, workspace, TornInv
  <1> QED
    BY <1>1, <1>2, <1>3, <1>4, <1>5, <1>6, <1>7, <1>8, <1>9, <1>10, <1>11
       DEF RolloutNext, ProcedureStep

LEMMA FinalInvariant == RolloutSpec => [](Base /\ FinalInv /\ TornInv)
  BY BaseInvariant, InitFinal, FinalStep, TornStep, PTL DEF RolloutSpec

(* The documented procedure is never stopped by the hook, but where it would *)
(* leave a pin behind; the path dependency follows the canonical checkout.   *)
THEOREM OnlyLeftBehindBlocks ==
    ASSUME PathTarget = Canonical
    PROVE  RolloutSpec => []RolloutIsNotBlocked
  <1>1. Base /\ FinalInv /\ PushInv /\ [RolloutNext]_rolloutVars => PushInv'
    BY PushStep
  <1>2. PushInv => RolloutIsNotBlocked
    BY DEF PushInv, Behind, RolloutIsNotBlocked
  <1> QED
    BY <1>1, <1>2, InitFinal, FinalInvariant, PTL DEF RolloutSpec

(* The check that ends the procedure is right about the workspace, and the   *)
(* procedure ends in parity exactly if nobody pushed between the first        *)
(* submodule update and the pull.                                             *)
THEOREM RolloutEndsInParity ==
    ASSUME PathTarget = Canonical
    PROVE  RolloutSpec => []RolloutConverges
  <1>1. Base /\ FinalInv /\ TornInv => RolloutConverges
    <2> SUFFICES ASSUME Base, FinalInv, TornInv, step = "finished"
                 PROVE  /\ check.exit = 0 <=> InParity
                        /\ InParity <=> ~torn
      BY DEF RolloutConverges
    <2> USE DEF Base
    <2>1. head[Canonical] \in Commit /\ Workspace
      BY CheckoutAssumption DEF TypeInv, Workspace
    <2>2. /\ check.at = "done" /\ check.mode = "strict"
          /\ check.canon = head[Canonical] /\ SitesRead
          /\ Len(check.sites) = 3 /\ check.exit = ExitCode(check)
      BY DEF FinalInv, FinalRun
    <2>3. DOMAIN check.sites = 1 .. 3
      <3>1. check.sites \in Seq(Reading)
        BY DEF TypeInv, Runs, CheckRecord
      <3> QED
        BY <2>2, <3>1
    <2>4. \A i \in 1 .. 3 : check.sites[i] = Resolve(SiteOrder[i])
      BY <2>2, <2>3 DEF SitesRead
    <2>5. check.exit = 0 <=> InParity
      <3>1. ASSUME NEW i \in 1 .. 3
            PROVE  /\ ~check.sites[i].faulty => check.sites[i].effective \in Commit
                   /\ \A c \in Commit :
                         ~check.sites[i].faulty /\ check.sites[i].effective = c
                            <=> Builds(SiteOrder[i]) = c
        BY <2>1, <2>4, SiteRead, Sites, CommitAssumption
      <3>2. check.exit = 0 <=>
               \E c \in Commit :
                  /\ Accepts(check, c)
                  /\ \A i \in 1 .. 3 :
                        ~check.sites[i].faulty /\ check.sites[i].effective = c
        BY <2>2, <2>3, <3>1, VerdictIsRight
      <3>3. \A c \in Commit :
               (\A i \in 1 .. 3 :
                   ~check.sites[i].faulty /\ check.sites[i].effective = c)
                <=> \A s \in Site : Builds(s) = c
        BY <3>1, Sites
      <3>4. \A c : Accepts(check, c) <=> c = head[Canonical]
        BY <2>2 DEF Accepts
      <3> QED
        BY <2>1, <3>2, <3>3, <3>4 DEF InParity
    <2>6. InParity <=> \A s \in Submodules : tree[s] = head[Canonical]
      <3>1. ASSUME NEW s \in Submodules
            PROVE  Builds(s) = tree[s]
        <4>1. tree[s] \in Commit /\ tree[s] = pin[s] /\ tree[s] # ByPath
          BY CommitAssumption DEF WorkInv, Bumped
        <4> QED
          BY <4>1 DEF Builds
      <3>2. Builds("iyou_mobile") = head[Canonical]
        BY CommitAssumption DEF WorkInv, Builds
      <3> QED
        BY <3>1, <3>2, RolloutSites DEF InParity
    <2>7. (\A s \in Submodules : tree[s] = head[Canonical]) <=> ~torn
      BY DEF TornInv, Pulled, Bumped
    <2> QED
      BY <2>5, <2>6, <2>7
  <1> QED
    BY <1>1, FinalInvariant, PTL

=============================================================================
