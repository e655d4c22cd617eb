------------------------------- MODULE Rollout -------------------------------
(***************************************************************************)
(* The canonical synchronized-update procedure of SECURITY_HARDENING.md,    *)
(* carried out by one developer over the guard of Parity: land a commit,    *)
(* push it through the hook, fast-forward one submodule and then the other, *)
(* pull, check, commit the two pins, check again.  Others may push at any    *)
(* moment, and the developer may have rewritten history: then the push is a *)
(* forced one.                                                              *)
(***************************************************************************)
EXTENDS Parity

CONSTANTS
    Main,        \* the branch submodules track
    StageMode,   \* the mode of the check before the pins are committed
    MaxPushes    \* bound: pushes by others

\* git push origin main
MainPush(c) == << [local |-> "branch", sha |-> c, to |-> Main] >>

\* The procedure runs and pushes what the guard of Parity knows, the push of
\* nothing included.
ASSUME RolloutAssumption ==
    /\ Main \in Branch
    /\ {StageMode, "strict"} \subseteq ManualModes
    /\ << >> \in Push
    /\ \A c \in Commit : MainPush(c) \in Push
    /\ MaxPushes \in Nat

\* No commit is an ancestor of its own ancestors.
ASSUME HistoryAssumption ==
    \A a, c \in Commit : IsAncestor(a, c) /\ IsAncestor(c, a) => a = c

Submodules == {"iyou_idp", "iyou_home"}

VARIABLES
    step,        \* where the procedure is
    seen,        \* the remote's Main when git push connected
    overtaken    \* bound: pushes by others

\* History: somebody pushed between the first submodule update and the pull.
VARIABLE torn

rolloutVars == <<vars, step, seen, overtaken, torn>>

Then(from, to) ==
    /\ step = from
    /\ step' = to
    /\ UNCHANGED <<seen, overtaken, torn>>

\* A change is committed in the canonical checkout, or there is nothing to
\* land and drift is to be remedied; or the branch has been reset.
Land(c) ==
    /\ Then("land", "push")
    /\ head' = [head EXCEPT ![Canonical] = c]
    /\ UNCHANGED <<pin, tree, remote, check, push, edits, built, raced>>

\* git push, with --force or without: the remote's branch is read, and the hook
\* is given what there is to update.
PushMain(forced) ==
    /\ step = "push"
    /\ forced \/ IsAncestor(remote[Main], head[Canonical])
    /\ StartPush(IF head[Canonical] = remote[Main] THEN << >>
                                                   ELSE MainPush(head[Canonical]))
    /\ step' = "hook"
    /\ seen' = remote[Main]
    /\ UNCHANGED <<overtaken, torn>>

\* What is no fast-forward is refused without --force.
PushStale ==
    /\ Then("push", "refused")
    /\ ~IsAncestor(remote[Main], head[Canonical])
    /\ UNCHANGED vars

\* Nobody has moved the branch since git push connected.
InTime == push.updates = << >> \/ remote[Main] = seen

\* An update from another commit than the branch is at is refused, forced ones
\* too.
PushLate ==
    /\ Then("hook", "refused")
    /\ HookDone /\ push.rc = 0
    /\ ~InTime
    /\ push' = [push EXCEPT !.at = "rejected"]
    /\ UNCHANGED <<workspace, check, edits, built, raced>>

\* Mutant: a push that the hook turns down is not noticed.
PushOutcome_Waits ==
    /\ push.at = "landed"
    /\ Then("hook", "update idp")
    /\ UNCHANGED vars

PushOutcome ==
    /\ push.at \in {"landed", "rejected"}
    /\ Then("hook", IF push.at = "landed" THEN "update idp" ELSE "blocked")
    /\ UNCHANGED vars

\* Mutant: without --remote the worktree goes to the pin.
UpdateSubmodule_Pinned(s, from, to) ==
    /\ Then(from, to)
    /\ tree' = [tree EXCEPT ![s] = pin[s]]
    /\ UNCHANGED <<head, pin, remote, check, push, edits, built, raced>>

\* git submodule update --remote --merge, once in each parent.
UpdateSubmodule(s, from, to) ==
    /\ Then(from, to)
    /\ tree' = [tree EXCEPT ![s] = remote[Main]]
    /\ UNCHANGED <<head, pin, remote, check, push, edits, built, raced>>

Pull ==
    /\ Then("pull", "stage check")
    /\ head' = [head EXCEPT ![Canonical] = remote[Main]]
    /\ UNCHANGED <<pin, tree, remote, check, push, edits, built, raced>>

StageCheck ==
    /\ Then("stage check", "commit idp")
    /\ RunChecker(StageMode)

StageChecked == step = "commit idp" /\ check.at = "done"

\* git add and git commit of the gitlink in one parent
BumpPin(s, from, to) ==
    /\ Then(from, to)
    /\ check.at = "done"
    /\ pin' = [pin EXCEPT ![s] = tree[s]]
    /\ UNCHANGED <<head, tree, remote, check, push, edits, built, raced>>

FinalCheck ==
    /\ Then("final check", "ending")
    /\ RunChecker("strict")

Finish ==
    /\ check.at = "done"
    /\ Then("ending", "finished")
    /\ UNCHANGED vars

\* Mutant: one push more than there may be.
OthersPush_OneMore(c) ==
    /\ overtaken <= MaxPushes
    /\ c # remote[Main] /\ IsAncestor(remote[Main], c)
    /\ remote' = [remote EXCEPT ![Main] = c]
    /\ overtaken' = overtaken + 1
    /\ torn' = (torn \/ step \in {"update home", "pull"})
    /\ UNCHANGED <<head, pin, tree, check, push, edits, built, raced, step, seen>>

\* Somebody else fast-forwards the branch from another machine.
OthersPush(c) ==
    /\ overtaken < MaxPushes
    /\ c # remote[Main] /\ IsAncestor(remote[Main], c)
    /\ remote' = [remote EXCEPT ![Main] = c]
    /\ overtaken' = overtaken + 1
    /\ torn' = (torn \/ step \in {"update home", "pull"})
    /\ UNCHANGED <<head, pin, tree, check, push, edits, built, raced, step, seen>>

CheckerStep ==
    /\ ReadSite \/ Decide \/ HookChecks \/ (InTime /\ PushLands) \/ PushRejected
    /\ UNCHANGED <<step, seen, overtaken, torn>>

UpdateSubmodules ==
    \/ UpdateSubmodule("iyou_idp", "update idp", "update home")
    \/ UpdateSubmodule("iyou_home", "update home", "pull")

BumpPins ==
    \/ BumpPin("iyou_idp", "commit idp", "commit home")
    \/ BumpPin("iyou_home", "commit home", "final check")

ProcedureStep ==
    \/ \E c \in Commit : Land(c)
    \/ \E forced \in BOOLEAN : PushMain(forced)
    \/ PushStale
    \/ PushLate
    \/ PushOutcome
    \/ UpdateSubmodules
    \/ Pull
    \/ StageCheck
    \/ BumpPins
    \/ FinalCheck
    \/ Finish
    \/ CheckerStep

RolloutNext == ProcedureStep \/ \E c \in Commit : OthersPush(c)

\* The submodules may have drifted apart, each behind the published commit.
RolloutInit ==
    \E c \in Commit :
        /\ head = [k \in Checkout |-> c]
        /\ remote = [b \in Branch |-> IF b = Main THEN c ELSE None]
        /\ pin \in [Site -> { a \in Commit : IsAncestor(a, c) } \cup {None}]
        /\ \A s \in Site : pin[s] = None <=> s = "iyou_mobile"
        /\ tree = [s \in Site |-> IF s \in Submodules THEN pin[s] ELSE ByPath]
        /\ check = Idle /\ push = NoPush /\ edits = 0
        /\ built = [s \in Site |-> {}] /\ raced = {}
        /\ step = "land" /\ seen = c /\ overtaken = 0 /\ torn = FALSE

RolloutSpec == RolloutInit /\ [][RolloutNext]_rolloutVars

\* The developer goes on; the others push a bounded number of times.
FairRollout == RolloutSpec /\ WF_rolloutVars(ProcedureStep)

-----------------------------------------------------------------------------
(* Properties                                                              *)

Steps ==
    { "land", "push", "hook", "blocked", "refused", "update idp",
      "update home", "pull", "stage check", "commit idp", "commit home",
      "final check", "ending", "finished" }

\* The workspace is one the scripts can meet, the procedure at one of its steps.
RolloutTypeOK ==
    /\ TypeOK
    /\ step \in Steps
    /\ seen \in Commit
    /\ overtaken \in 0 .. MaxPushes
    /\ torn \in BOOLEAN

\* The hook stops no push but one that leaves a pin behind, though the pins of
\* the workspace lag and differ: "so the documented staged-rollout flow below
\* stays possible".
RolloutIsNotBlocked ==
    step = "blocked" =>
        \E s \in Submodules : ~IsAncestor(pin[s], head[Canonical])

\* The final check tells the truth, and it is green - the procedure has brought
\* a drifted workspace into parity - exactly when nobody pushed between the
\* first submodule update and the pull: each of the three looks at the remote
\* once, so a push in between leaves the consumers at different commits, and
\* one before or after them does no harm.
RolloutConverges ==
    step = "finished" =>
        /\ check.exit = 0 <=> InParity
        /\ InParity <=> ~torn

\* Through all of it, whatever history the developer rewrote, every pin can be
\* fetched by a fresh clone.
PinsStayReachable ==
    \A s \in Submodules : Reachable(pin[s], remote)

\* The procedure ends, however the pushes of others fall: with the pins
\* committed, blocked by the hook or refused by the remote.
RolloutEnds == <>(step \in {"finished", "blocked", "refused"})

\* Claimed of the check before the pins are committed: it can be green.
StageCheckIsGreen == StageChecked /\ overtaken = 0 => check.exit = 0

=============================================================================
