------------------------------- MODULE Parity -------------------------------
(***************************************************************************)
(* The SEC-003 guard: scripts/check_did_submodules.sh run by hand, by CI or *)
(* by the pre-push hook, over a workspace that developers go on changing.   *)
(*                                                                         *)
(* Three consumers resolve did_rust: iyou_idp and iyou_home by a submodule  *)
(* (a pin recorded in the parent's HEAD and a worktree), iyou_mobile by a   *)
(* cargo path dependency on a local checkout or by a vendored checkout.     *)
(* The checker reads them one after the other; nothing keeps them still     *)
(* meanwhile.                                                               *)
(***************************************************************************)
EXTENDS Naturals, Sequences, FiniteSets

CONSTANTS
    Commit,       \* did_rust commits
    Ancestry,     \* pairs << a, c >>: a is c or an ancestor of c
    Branch,       \* branches of the did_rust remote
    Checkout,     \* local did_rust clones; Canonical is one of them
    Canonical,
    PathTarget,   \* the checkout that path dependencies point at
    Push,         \* what may be pushed: sequences of ref updates
    ManualModes,  \* the modes people and CI run the checker in
    None,         \* no commit: no branch, no pin, a deleted ref (ZERO)
    MaxEdits      \* bound: changes people make to the workspace

\* What is found where a consumer should be, when it is not a worktree.
NoRepo == "no repository"
Uninit == "uninitialized"
ByPath == "cargo path"
Unresolvable == "unresolvable"

ASSUME CheckoutAssumption == {Canonical, PathTarget} \subseteq Checkout
ASSUME ModeAssumption == ManualModes \subseteq {"strict", "tolerant"}
ASSUME CommitAssumption ==
    /\ {None, NoRepo, Uninit, ByPath, Unresolvable} \cap Commit = {}
    /\ \A c \in Commit : <<c, c>> \in Ancestry
    /\ \A a, b, c \in Commit :
          <<a, b>> \in Ancestry /\ <<b, c>> \in Ancestry => <<a, c>> \in Ancestry
ASSUME PushAssumption ==
    \A updates \in Push :
        /\ Len(updates) \in Nat /\ DOMAIN updates = 1 .. Len(updates)
        /\ \A i \in DOMAIN updates : updates[i].sha \in Commit \cup {None}
ASSUME EditsAssumption == MaxEdits \in Nat

Site == {"iyou_idp", "iyou_home", "iyou_mobile"}

\* The order of the three resolve_consumer calls.
SiteOrder == <<"iyou_idp", "iyou_home", "iyou_mobile">>

IsAncestor(a, c) == <<a, c>> \in Ancestry

VARIABLES
    head,      \* HEAD of each local clone
    pin,       \* the gitlink committed in each consumer, or None
    tree,      \* the submodule worktree's HEAD, NoRepo, Uninit or ByPath
    remote,    \* the commit of each remote branch, or None
    check,     \* the running or last run of the checker
    push,      \* the running or last git push
    edits      \* bound

\* History, which only the properties read.
VARIABLES
    built,     \* what each site built against since the checker started
    raced      \* the sites whose pin was committed after the hook read it

workspace == <<head, pin, tree, remote>>
vars == <<workspace, check, push, edits, built, raced>>

-----------------------------------------------------------------------------
(* The workspace                                                           *)

\* Mutant: only the pin is read, not what is checked out.
Resolve_PinOnly(s) ==
    CASE tree[s] \in {NoRepo, Uninit} ->
            [effective |-> Unresolvable, faulty |-> TRUE]
      [] tree[s] = ByPath ->
            [effective |-> head[PathTarget], faulty |-> FALSE]
      [] tree[s] \in Commit ->
            [effective |-> IF pin[s] # None THEN pin[s] ELSE tree[s],
             faulty |-> FALSE]

\* resolve_consumer: what a site resolves to, and whether reading it already
\* is a violation (repository missing, submodule not initialized, worktree
\* off its pin).
Resolve(s) ==
    CASE tree[s] \in {NoRepo, Uninit} ->
            [effective |-> Unresolvable, faulty |-> TRUE]
      [] tree[s] = ByPath ->
            [effective |-> head[PathTarget], faulty |-> FALSE]
      [] pin[s] # None /\ tree[s] \in Commit ->
            [effective |-> pin[s], faulty |-> tree[s] # pin[s]]
      [] pin[s] = None /\ tree[s] \in Commit ->
            [effective |-> tree[s], faulty |-> FALSE]

\* The commit a consumer builds against today and, its pin being checked out,
\* from a fresh clone; None when there is no one such commit.
Builds(s) ==
    CASE tree[s] = ByPath -> head[PathTarget]
      [] tree[s] \in Commit /\ pin[s] \in {None, tree[s]} -> tree[s]
      [] OTHER -> None

Reachable(c, branches) ==
    \E b \in Branch : branches[b] # None /\ IsAncestor(c, branches[b])

-----------------------------------------------------------------------------
(* The checker                                                             *)

Idle == [at |-> "idle", mode |-> "strict", sha |-> None, canon |-> None,
         sites |-> << >>, exit |-> 0]

Running == check.at = "reading"

Begin(mode, sha, canon) ==
    /\ check' = [at |-> "reading", mode |-> mode, sha |-> sha, canon |-> canon,
                 sites |-> << >>, exit |-> 0]
    /\ built' = [s \in Site |-> {Builds(s)}]

\* By hand or in CI: the canonical HEAD is read first.
RunChecker(mode) ==
    /\ check.at # "reading"
    /\ push.at # "hook"
    /\ Begin(mode, None, head[Canonical])
    /\ UNCHANGED <<workspace, push, edits, raced>>

ReadSite ==
    /\ Running
    /\ Len(check.sites) < Len(SiteOrder)
    /\ check' = [check EXCEPT
                    !.sites = Append(@, Resolve(SiteOrder[Len(@) + 1]))]
    /\ UNCHANGED <<workspace, push, edits, built, raced>>

Effectives(run) == { run.sites[i].effective : i \in DOMAIN run.sites }

\* Mutant: the arguments of merge-base --is-ancestor the wrong way round.
Aligned_Reversed(run) ==
    IF Unresolvable \in Effectives(run) THEN TRUE
    ELSE /\ Cardinality(Effectives(run)) = 1
         /\ LET shared == run.sites[1].effective
            IN  \/ shared = run.canon
                \/ run.mode = "tolerant" /\ IsAncestor(run.canon, shared)

\* The verdict of the strict and the tolerant mode.  One unresolvable site
\* switches the comparison off: it is a violation already.
Aligned(run) ==
    IF Unresolvable \in Effectives(run) THEN TRUE
    ELSE /\ Cardinality(Effectives(run)) = 1
         /\ LET shared == run.sites[1].effective
            IN  \/ shared = run.canon
                \/ run.mode = "tolerant" /\ IsAncestor(shared, run.canon)

\* Mutant: the same slip in the hook mode.
Preserved_Reversed(run) ==
    \A i \in DOMAIN run.sites :
        run.sites[i].effective # Unresolvable =>
            IsAncestor(run.sha, run.sites[i].effective)

\* Mutant: consumers have to be at the pushed commit itself.
Preserved_Exact(run) ==
    \A i \in DOMAIN run.sites :
        run.sites[i].effective # Unresolvable =>
            run.sites[i].effective = run.sha

\* The verdict of the hook mode.
Preserved(run) ==
    \A i \in DOMAIN run.sites :
        run.sites[i].effective # Unresolvable =>
            IsAncestor(run.sites[i].effective, run.sha)

Violated(run) ==
    \/ \E i \in DOMAIN run.sites : run.sites[i].faulty
    \/ run.mode = "pre-push" /\ ~Preserved(run)
    \/ run.mode # "pre-push" /\ ~Aligned(run)

ExitCode(run) == IF Violated(run) THEN 1 ELSE 0

\* Mutant: the check of the last ref decides for all.
Decide_LastRef ==
    /\ Running
    /\ Len(check.sites) = Len(SiteOrder)
    /\ check' = [check EXCEPT !.at = "done", !.exit = ExitCode(check)]
    /\ push' = IF push.at = "hook"
               THEN [push EXCEPT !.next = @ + 1, !.rc = ExitCode(check)]
               ELSE push
    /\ UNCHANGED <<workspace, edits, built, raced>>

Decide ==
    /\ Running
    /\ Len(check.sites) = Len(SiteOrder)
    /\ check' = [check EXCEPT !.at = "done", !.exit = ExitCode(check)]
    /\ push' = IF push.at = "hook"
               THEN [push EXCEPT !.next = @ + 1,
                                 !.rc = IF ExitCode(check) # 0 THEN 1 ELSE @]
               ELSE push
    /\ UNCHANGED <<workspace, edits, built, raced>>

-----------------------------------------------------------------------------
(* git push and its hook                                                   *)

NoPush == [at |-> "idle", updates |-> << >>, next |-> 1, rc |-> 0]

\* A ref update [local, sha, to]: local is the kind of the local ref, sha its
\* commit (None deletes), to the remote branch.
StartPush(updates) ==
    /\ push.at # "hook"
    /\ ~Running
    /\ push' = [at |-> "hook", updates |-> updates, next |-> 1, rc |-> 0]
    /\ raced' = {}
    /\ UNCHANGED <<workspace, check, edits, built>>

InHook == push.at = "hook" /\ ~Running /\ push.next <= Len(push.updates)

Update == push.updates[push.next]

\* Deletions and refs that are no local branch are not looked at.
Unchecked(update) == update.sha = None \/ update.local # "branch"

HookSkips ==
    /\ InHook
    /\ Unchecked(Update)
    /\ push' = [push EXCEPT !.next = @ + 1]
    /\ UNCHANGED <<workspace, check, edits, built, raced>>

HookChecks ==
    /\ InHook
    /\ ~Unchecked(Update)
    /\ Begin("pre-push", Update.sha, None)
    /\ UNCHANGED <<workspace, push, edits, raced>>

HookDone == push.at = "hook" /\ ~Running /\ push.next > Len(push.updates)

LatestFor(b) ==
    { i \in DOMAIN push.updates : push.updates[i].to = b }

\* The remote takes every update, forced ones too.
PushLands ==
    /\ HookDone
    /\ push.rc = 0
    /\ remote' = [b \in Branch |->
                     IF LatestFor(b) = {} THEN remote[b]
                     ELSE push.updates[CHOOSE i \in LatestFor(b) : TRUE].sha]
    /\ push' = [push EXCEPT !.at = "landed"]
    /\ UNCHANGED <<head, pin, tree, check, edits, built, raced>>

PushRejected ==
    /\ HookDone
    /\ push.rc # 0
    /\ push' = [push EXCEPT !.at = "rejected"]
    /\ UNCHANGED <<workspace, check, edits, built, raced>>

-----------------------------------------------------------------------------
(* What people do to the workspace                                         *)

Edited ==
    /\ edits < MaxEdits
    /\ edits' = edits + 1
    /\ UNCHANGED <<check, push>>

\* commit, pull or checkout in a local clone
MoveHead(k, c) ==
    /\ Edited
    /\ head[k] # c
    /\ head' = [head EXCEPT ![k] = c]
    /\ UNCHANGED <<pin, tree, remote, raced>>

\* git submodule update --remote, or a checkout inside the submodule
MoveTree(s, c) ==
    /\ Edited
    /\ tree[s] \in Commit \ {c}
    /\ tree' = [tree EXCEPT ![s] = c]
    /\ UNCHANGED <<head, pin, remote, raced>>

\* The hook has read the site, for this ref or for an earlier one.
HookHasRead(s) ==
    /\ push.at = "hook"
    /\ \/ \E i \in 1 .. push.next - 1 : ~Unchecked(push.updates[i])
       \/ Running /\ \E i \in DOMAIN check.sites : SiteOrder[i] = s

\* git add, git commit of the submodule path in the parent
CommitPin(s) ==
    /\ Edited
    /\ pin[s] # None
    /\ tree[s] \in Commit \ {pin[s]}
    /\ pin' = [pin EXCEPT ![s] = tree[s]]
    /\ raced' = IF HookHasRead(s) THEN raced \cup {s} ELSE raced
    /\ UNCHANGED <<head, tree, remote>>

\* Mutant: a checkout that has no pin is initialized all the same.
InitTree_Unpinned(s) ==
    /\ Edited
    /\ tree[s] = Uninit
    /\ tree' = [tree EXCEPT ![s] = pin[s]]
    /\ UNCHANGED <<head, pin, remote, raced>>

\* git submodule update --init
InitTree(s) ==
    /\ Edited
    /\ tree[s] = Uninit
    /\ pin[s] # None
    /\ tree' = [tree EXCEPT ![s] = pin[s]]
    /\ UNCHANGED <<head, pin, remote, raced>>

\* a fresh clone without its submodules, or a repository moved away
LoseTree(s, what) ==
    /\ Edited
    /\ what = Uninit => tree[s] \in Commit
    /\ tree[s] # what
    /\ tree' = [tree EXCEPT ![s] = what]
    /\ UNCHANGED <<head, pin, remote, raced>>

Edit ==
    /\ \/ \E k \in Checkout, c \in Commit : MoveHead(k, c)
       \/ \E s \in Site, c \in Commit : MoveTree(s, c)
       \/ \E s \in Site : CommitPin(s) \/ InitTree(s)
       \/ \E s \in Site, what \in {Uninit, NoRepo} : LoseTree(s, what)
    /\ built' = [s \in Site |-> IF Running THEN built[s] \cup {Builds(s)'}
                                          ELSE built[s]]

Guard ==
    \/ \E mode \in ManualModes : RunChecker(mode)
    \/ ReadSite
    \/ Decide
    \/ \E updates \in Push : StartPush(updates)
    \/ HookSkips
    \/ HookChecks
    \/ PushLands
    \/ PushRejected

Next == Edit \/ Guard

\* An aligned workspace: everybody at one published commit, iyou_mobile by a
\* path dependency or by a checkout of its own that no gitlink records.
Init ==
    \E c \in Commit, mobile \in Commit \cup {ByPath} :
        /\ mobile \in {c, ByPath}
        /\ head = [k \in Checkout |-> c]
        /\ pin = [s \in Site |-> IF s = "iyou_mobile" THEN None ELSE c]
        /\ tree = [s \in Site |-> IF s = "iyou_mobile" THEN mobile ELSE c]
        /\ remote \in [Branch -> Commit \cup {None}]
        /\ Reachable(c, remote)
        /\ check = Idle
        /\ push = NoPush
        /\ edits = 0
        /\ built = [s \in Site |-> {}]
        /\ raced = {}

Spec == Init /\ [][Next]_vars

-----------------------------------------------------------------------------
(* Properties                                                              *)

\* Every variable holds what the scripts can put there.
TypeOK ==
    /\ head \in [Checkout -> Commit]
    /\ pin \in [Site -> Commit \cup {None}]
    /\ tree \in [Site -> Commit \cup {NoRepo, Uninit, ByPath}]
    /\ remote \in [Branch -> Commit \cup {None}]
    /\ check.at \in {"idle", "reading", "done"}
    /\ check.mode \in {"strict", "tolerant", "pre-push"}
    /\ Len(check.sites) <= Len(SiteOrder)
    /\ check.exit \in {0, 1}
    /\ push.at \in {"idle", "hook", "landed", "rejected"}
    /\ push.next \in 1 .. Len(push.updates) + 1
    /\ push.rc \in {0, 1}
    /\ edits \in 0 .. MaxEdits
    /\ built \in [Site -> SUBSET (Commit \cup {None})]
    /\ raced \subseteq Site

\* INV-1 of SECURITY_HARDENING.md: one commit everywhere, and it is the one
\* the canonical checkout has.
InParity == \A s \in Site : Builds(s) = head[Canonical]

Finished(mode) == check.at = "done" /\ check.mode = mode

\* Every site built against c at some moment of the run; at all of them.
Witnessed(c) == \A s \in Site : c \in built[s]
Held(c)      == \A s \in Site : built[s] = {c}

\* The strict check reads one site after the other while people go on working.
\* When it exits with 0, every consumer did build against the canonical HEAD it
\* began with, each at some moment of the run; and what has been in parity all
\* through the run does not fail.  In a workspace at rest that makes the exit
\* code 0 exactly when the workspace is in parity, though the checker compares
\* pins and gives up the comparison at an unresolvable site.
StrictVerdictIsWitnessed ==
    Finished("strict") =>
        /\ check.exit = 0 => Witnessed(check.canon)
        /\ check.exit # 0 => ~Held(check.canon)

\* The same of the tolerant check and some one commit in the history of the
\* canonical HEAD.
TolerantVerdictIsWitnessed ==
    Finished("tolerant") =>
        LET shared == { c \in Commit : IsAncestor(c, check.canon) }
        IN  /\ check.exit = 0 => \E c \in shared : Witnessed(c)
            /\ check.exit # 0 => \A c \in shared : ~Held(c)

\* INV-2: a push that lands makes no pin unreachable that was reachable,
\* force-pushes included, and has every pin in the history of each branch
\* commit it pushed, not only of the last one looked at.  A pin committed
\* while the hook is running counts if its site had not been read yet.
PushKeepsPins ==
    [][\A s \in Site \ raced :
          push.at = "hook" /\ push'.at = "landed" /\ pin[s] # None =>
              /\ Reachable(pin[s], remote) => Reachable(pin[s], remote')
              /\ \A i \in DOMAIN push.updates : ~Unchecked(push.updates[i]) =>
                    IsAncestor(pin[s], push.updates[i].sha)]_vars

=============================================================================
