----------------------------- MODULE PullRequests -----------------------------
(***************************************************************************)
(* The tools that change a repository: tools/github_pr.py (the checks,     *)
(* then branch, commits and pull request, on the upstream or on a fork)    *)
(* and, of tools/github_ops.py, the merge, the edit and the fork.          *)
(*                                                                         *)
(* PyGithub is synchronous: between two awaits a call has the process to   *)
(* itself, but people act on GitHub, a request may fail, before or after   *)
(* its effect, and the process may die after any of them.  A file is one   *)
(* of a few contents; what the checks on text make of it is its name.      *)
(***************************************************************************)
EXTENDS Integers, Sequences, FiniteSets

CONSTANTS Calls,      \* calls of github_pr
          Paths,
          Workflows,  \* the paths under .github/workflows/
          SameName,   \* path -> the other paths with the same file name
          Requests,   \* what an agent asks for
          None,
          MaxPrs, MaxMishaps  \* bounds; a mishap is a failed request or a crash

Branches == {"main", "dev", "fix"}
Default == "main"

\* part: without some definitions that were there; rump: hardly anything of what was there;
\* note: empty, a placeholder, a stub, or in another language than its path says.
Contents == {"old", "fix", "part", "rump", "note"}

Tree == [Paths -> Contents \cup {"none"}]

IsRepo(repo) == DOMAIN repo \subseteq Branches /\ repo \in [DOMAIN repo -> Tree]

\* body: what the description says of the diff, or claims was run.
Request == [head : Branches, base : Branches \cup {None},
            files : UNION {[P -> Contents] : P \in SUBSET Paths},
            body : {"plain", "ungrounded", "unaccounted", "no defect", "ran", "ran clean"}]

ASSUME PullRequestsAssumption ==
  /\ None \notin Branches \cup Calls
  /\ Workflows \subseteq Paths
  /\ SameName \in [Paths -> SUBSET Paths]
  /\ Requests \subseteq Request
  /\ {MaxPrs, MaxMishaps} \subseteq Nat

VARIABLES repos,    \* "upstream" and "fork": branch -> tree; no branch: no repository
          prs,      \* the pull requests of the upstream, by number
          push,     \* may the token push to the upstream?
          calls,
          merger,   \* a call of github_merge_pr
          faults,   \* requests to GitHub that failed
          crashes

github == <<repos, prs>>
world == <<push, crashes>>
vars == <<repos, prs, push, calls, merger, faults, crashes>>

\* health: mergeable and mergeable_state; "bad" is every state but clean and has_hooks.
Pr == [from : {"upstream", "fork"}, head : Branches, base : Branches,
       state : {"open", "closed", "merged"}, health : {"unknown", "clean", "bad"},
       objected : BOOLEAN]

Blocking == {"branch", "commit", "open", "find", "fork", "done"}

Call == [pc : {"idle", "claims", "poll"} \cup Blocking,
         req : Requests \cup {None}, base : Branches, root : Tree \cup {None},
         at : {"upstream", "fork"}, todo : SUBSET Paths,
         again : BOOLEAN,   \* the second try of the fork path, from the fork's default
         wrote : BOOLEAN,   \* history: it had GitHub change something
         out : {"none", "ok", "existing", "refused", "failed"}]

Idle == [pc |-> "idle", req |-> None, base |-> Default, root |-> None, at |-> "upstream",
         todo |-> {}, again |-> FALSE, wrote |-> FALSE, out |-> "none"]

\* merged: GitHub has confirmed it.
Merger == [pc : {"idle", "read", "poll", "decide", "merge", "delete", "done"}, n : Nat,
           health : {"unknown", "clean", "bad"}, merged : BOOLEAN,
           out : {"none", "ok", "refused", "failed"}]

Resting == [pc |-> "idle", n |-> 0, health |-> "unknown", merged |-> FALSE, out |-> "none"]

PullRequestsTypeOK ==
  /\ repos = [r \in {"upstream", "fork"} |-> repos[r]]
  /\ IsRepo(repos["upstream"]) /\ IsRepo(repos["fork"])
  /\ prs \in Seq(Pr) /\ Len(prs) <= MaxPrs
  /\ push \in BOOLEAN
  /\ calls \in [Calls -> Call]
  /\ merger \in Merger /\ merger.n <= Len(prs)
  /\ faults \in 0 .. MaxMishaps /\ crashes \in 0 .. MaxMishaps

Init ==
  /\ \E t \in {[p \in Paths |-> IF SameName[p] = {} THEN "old" ELSE "none"]} :
       repos = [upstream |-> [b \in {"main", "dev"} |-> t], fork |-> [b \in {} |-> t]]
  /\ prs = << >>
  /\ push \in BOOLEAN
  /\ calls = [c \in Calls |-> Idle]
  /\ merger = Resting
  /\ faults = 0 /\ crashes = 0

-----------------------------------------------------------------------------
(* What the checks of github_pr say, given the base they look at *)

PolicyRefuses(r) == DOMAIN r.files = {} \/ DOMAIN r.files \cap Workflows # {}

\* _empty_contents, _placeholder_contents, _unimplemented_stubs, _language_mismatches.
NotACompleteFile(r) == \E p \in DOMAIN r.files : r.files[p] = "note"

\* _misplaced_new_files: a new file in place of one that is there under that name.
Misplaced(r, tree) ==
  \E p \in DOMAIN r.files : tree[p] = "none" /\ \E q \in SameName[p] : tree[q] # "none"

Loses(r, tree, content) ==
  \E p \in DOMAIN r.files : r.files[p] = content /\ tree[p] \in {"old", "fix"}

GutsTheFile(r, tree) == Loses(r, tree, "rump")

DropsDefinitions(r, tree) == Loses(r, tree, "part")

ChangesNothing(r, tree) == \A p \in DOMAIN r.files : tree[p] = r.files[p]

\* The repository is unreadable: no existing file, so nothing to compare with.
BlindTree == [p \in Paths |-> "none"]

UnsupportedClaims(r, tree) == r.body = "ungrounded" /\ tree # BlindTree

\* Of what is not accounted for, only "nothing was wrong" is seen without the old files.
UnrequestedChanges(r, tree) == \/ r.body = "no defect"
                               \/ r.body = "unaccounted" /\ tree # BlindTree

ContentRefuses(r, tree) ==
  \/ NotACompleteFile(r) \/ Misplaced(r, tree)
  \/ GutsTheFile(r, tree) \/ DropsDefinitions(r, tree) \/ ChangesNothing(r, tree)
  \/ UnsupportedClaims(r, tree) \/ UnrequestedChanges(r, tree)

\* What the executions of the goal, by any task of it, came to: a rerun replays what is in
\* the ledger.  A ledger that cannot be read counts as clean.
Executions == {"nothing", "failed", "clean"}

Claims(r) == r.body \in {"ran", "ran clean"}

SuccessClaims(r) == r.body = "ran clean"

ExecutedInGoal(ran) == ran # "nothing"

ExecutionSucceededInGoal(ran) == ran = "clean"

ClaimRefuses(r, ran) == \/ (Claims(r) \/ SuccessClaims(r)) /\ ~ ExecutedInGoal(ran)
                        \/ SuccessClaims(r) /\ ~ ExecutionSucceededInGoal(ran)

-----------------------------------------------------------------------------
(* Helpers *)

NoFork == DOMAIN repos["fork"] = {}

\* No other call of this process is between two awaits.
Alone(c) == /\ \A d \in Calls \ {c} : calls[d].pc \notin Blocking
            /\ merger.pc \notin {"decide", "merge", "delete", "done"}

At(c, pc) == calls[c].pc = pc /\ Alone(c)

Fault == faults + crashes < MaxMishaps /\ faults' = faults + 1

Set(c, call) == calls' = [calls EXCEPT ![c] = call]

Goto(c, pc) == Set(c, [calls[c] EXCEPT !.pc = pc])

Return(c, out) == Set(c, [Idle EXCEPT !.pc = "done", !.out = out])

SameAs(c) == {n \in DOMAIN prs : /\ prs[n].state = "open" /\ prs[n].from = calls[c].at
                                 /\ prs[n].head = calls[c].req.head
                                 /\ prs[n].base = calls[c].base}

\* A commit on a branch: GitHub has to look at its pull requests anew.
Commit(r, b, tree) ==
  /\ repos' = [repos EXCEPT ![r] = [x \in DOMAIN @ \cup {b} |-> IF x = b THEN tree ELSE @[x]]]
  /\ prs' = [n \in DOMAIN prs |->
       IF prs[n].state = "open" /\ prs[n].from = r /\ prs[n].head = b THEN [prs[n] EXCEPT !.health = "unknown"]
       ELSE prs[n]]

\* Where a GithubException takes a call: from the upstream to the search for a pull
\* request and from there to the fork, there to a second try.
Raised(c, wrote) ==
  LET call == [calls[c] EXCEPT !.wrote = @ \/ wrote]
      retries == call.pc \notin {"open", "find"} /\ call.at = "fork"
  IN
  \/ call.pc = "find" /\ call.at = "upstream" /\ Set(c, [call EXCEPT !.pc = "fork"])
  \/ call.pc = "find" /\ call.at = "fork" /\ Return(c, "failed")
  \/ call.pc # "find" /\ ~ retries /\ Set(c, [call EXCEPT !.pc = "find"])
  \/ retries /\ call.again /\ Return(c, "failed")
  \/ /\ retries /\ ~ call.again
     /\ Set(c, [call EXCEPT !.pc = "branch", !.again = TRUE, !.todo = DOMAIN call.req.files])

-----------------------------------------------------------------------------
(* github_pr *)

ResolveBase(r) == IF r.base \in DOMAIN repos["upstream"] THEN r.base ELSE Default

Inspected(c, r, base, seen) ==
  IF r.head = base \/ ContentRefuses(r, seen) THEN Return(c, "refused")
  ELSE Set(c, [Idle EXCEPT !.pc = "claims", !.req = r, !.base = base,
                           !.root = repos["upstream"][base]])

\* Every check reads the base, and has nothing to say if it cannot; a base that cannot
\* be looked up is taken for a wrong one.
Inspect(c, r) ==
  LET tree(b) == repos["upstream"][b] IN
  /\ At(c, "idle")
  /\ IF PolicyRefuses(r) THEN Return(c, "refused") /\ UNCHANGED faults
     ELSE \/ Inspected(c, r, ResolveBase(r), tree(ResolveBase(r))) /\ UNCHANGED faults
          \/ /\ Fault
             /\ \/ Inspected(c, r, ResolveBase(r), BlindTree)
                \/ Inspected(c, r, Default, tree(Default))
                \/ Return(c, "failed")
  /\ UNCHANGED <<github, merger, world>>

\* Which way to go: by the permissions of the token.
Proceed(c) ==
  \/ /\ Set(c, [calls[c] EXCEPT !.pc = IF push THEN "branch" ELSE "fork",
                                 !.todo = DOMAIN calls[c].req.files])
     /\ UNCHANGED faults
  \/ Fault /\ Return(c, "failed")

\* What the body claims was run; then the client of the user.
CheckClaims(c) ==
  /\ At(c, "claims")
  /\ \E ran \in Executions :
       IF ClaimRefuses(calls[c].req, ran) THEN Return(c, "refused") /\ UNCHANGED faults
       ELSE Proceed(c)
  /\ UNCHANGED <<github, merger, world>>

EnsureBranch(c) ==
  LET r == calls[c].at
      b == calls[c].req.head
  IN
  /\ At(c, "branch")
  /\ \/ b \in DOMAIN repos[r] /\ Goto(c, "commit") /\ UNCHANGED <<github, faults>>
     \/ /\ b \notin DOMAIN repos[r]
        /\ Commit(r, b, IF calls[c].again THEN repos[r][Default] ELSE calls[c].root)
        /\ \/ Set(c, [calls[c] EXCEPT !.pc = "commit", !.wrote = TRUE]) /\ UNCHANGED faults
           \/ Fault /\ Raised(c, TRUE)
     \/ Fault /\ Raised(c, FALSE) /\ UNCHANGED github
  /\ UNCHANGED <<merger, world>>

\* Mutant: a file that cannot be written is left out.
CommitWhatWorks(c) ==
  LET call == calls[c] IN
  /\ At(c, "commit")
  /\ \E p \in call.todo :
       /\ \/ Commit(call.at, call.req.head,
                    [repos[call.at][call.req.head] EXCEPT ![p] = call.req.files[p]])
             /\ UNCHANGED faults
          \/ Fault /\ UNCHANGED github
       /\ Set(c, [call EXCEPT !.todo = @ \ {p}, !.wrote = TRUE,
                              !.pc = IF call.todo = {p} THEN "open" ELSE "commit"])
  /\ UNCHANGED <<merger, world>>

\* One file after the other; update_file that fails after its effect is taken for a file
\* to create, which GitHub refuses.
CommitFile(c) ==
  LET call == calls[c] IN
  /\ At(c, "commit")
  /\ \E p \in call.todo :
       \/ /\ Commit(call.at, call.req.head,
                    [repos[call.at][call.req.head] EXCEPT ![p] = call.req.files[p]])
          /\ \/ /\ Set(c, [call EXCEPT !.todo = @ \ {p}, !.wrote = TRUE,
                                       !.pc = IF call.todo = {p} THEN "open" ELSE "commit"])
                /\ UNCHANGED faults
             \/ Fault /\ Raised(c, TRUE)
       \/ Fault /\ Raised(c, FALSE) /\ UNCHANGED github
  /\ UNCHANGED <<merger, world>>

NewPr(c) == [from |-> calls[c].at, head |-> calls[c].req.head, base |-> calls[c].base,
             state |-> "open", health |-> "unknown", objected |-> FALSE]

\* Mutant: what the body claims is looked up when the files are on their branch.
ClaimsAreLate(c) ==
  /\ At(c, "open")
  /\ \/ ClaimRefuses(calls[c].req, "failed") /\ Return(c, "refused") /\ UNCHANGED prs
     \/ Len(prs) < MaxPrs /\ Return(c, "ok") /\ prs' = Append(prs, NewPr(c))
  /\ UNCHANGED <<repos, merger, world, faults>>

\* GitHub refuses a second pull request from a branch to a base.  A failed request
\* may have opened one.
CreatePull(c) ==
  /\ At(c, "open")
  /\ IF SameAs(c) # {} THEN Raised(c, FALSE) /\ UNCHANGED <<github, faults>>
     ELSE /\ Len(prs) < MaxPrs
          /\ \/ Return(c, "ok") /\ prs' = Append(prs, NewPr(c)) /\ UNCHANGED faults
             \/ /\ Fault
                /\ \/ Raised(c, FALSE) /\ UNCHANGED prs
                   \/ Raised(c, TRUE) /\ prs' = Append(prs, NewPr(c))
          /\ UNCHANGED repos
  /\ UNCHANGED <<merger, world>>

\* Mutant: whatever is open is not looked for.
FindNoPr(c) ==
  /\ At(c, "find")
  /\ Raised(c, FALSE)
  /\ UNCHANGED <<github, merger, world, faults>>

FindOpenPr(c) ==
  /\ At(c, "find")
  /\ \/ /\ IF SameAs(c) # {} THEN Return(c, "existing") ELSE Raised(c, FALSE)
        /\ UNCHANGED faults
     \/ Fault /\ Raised(c, FALSE)
  /\ UNCHANGED <<github, merger, world>>

OnFork(c, wrote) ==
  Set(c, [calls[c] EXCEPT !.at = "fork", !.todo = DOMAIN calls[c].req.files,
                          !.pc = IF wrote THEN "poll" ELSE "branch", !.wrote = @ \/ wrote])

\* A fork that cannot be looked up is asked for; GitHub then answers with the one there is.
Fork(c) ==
  /\ At(c, "fork")
  /\ \/ ~ NoFork /\ OnFork(c, FALSE) /\ UNCHANGED <<github, faults>>
     \/ ~ NoFork /\ Fault /\ OnFork(c, TRUE) /\ UNCHANGED github
     \/ /\ NoFork
        /\ repos' = [repos EXCEPT !["fork"] = repos["upstream"]]
        /\ \/ OnFork(c, TRUE) /\ UNCHANGED faults
           \/ Fault /\ Return(c, "failed")
        /\ UNCHANGED prs
     \/ Fault /\ Return(c, "failed") /\ UNCHANGED github
  /\ UNCHANGED <<merger, world>>

\* Twenty looks, three seconds apart.
PollFork(c) ==
  /\ At(c, "poll")
  /\ Goto(c, "branch") \/ Return(c, "failed")
  /\ UNCHANGED <<github, merger, world, faults>>

End(c) ==
  /\ At(c, "done")
  /\ Set(c, Idle)
  /\ UNCHANGED <<github, merger, world, faults>>

-----------------------------------------------------------------------------
(* github_merge_pr *)

AtMerge(pc) == merger.pc = pc /\ \A c \in Calls : calls[c].pc \notin Blocking

MergerGoes(pc) == merger' = [merger EXCEPT !.pc = pc]

MergeEnds(out) == merger' = [merger EXCEPT !.pc = "done", !.out = out, !.health = "unknown"]

BeginMerge(n) ==
  /\ AtMerge("idle")
  /\ merger' = [Resting EXCEPT !.pc = "read", !.n = n]
  /\ UNCHANGED <<github, calls, world, faults>>

ReadPr ==
  /\ AtMerge("read")
  /\ LET pr == prs[merger.n] IN
     CASE pr.state = "merged" -> MergeEnds("ok")
       [] pr.state = "closed" -> MergeEnds("refused")
       [] OTHER -> merger' = [merger EXCEPT !.health = pr.health,
                                !.pc = IF pr.health = "unknown" THEN "poll" ELSE "decide"]
  /\ UNCHANGED <<github, calls, world, faults>>

\* Until GitHub knows, or six times.
PollPr ==
  /\ AtMerge("poll")
  /\ LET pr == prs[merger.n] IN
     \/ pr.health # "unknown" /\ merger' = [merger EXCEPT !.health = pr.health, !.pc = "decide"]
     \/ MergerGoes("decide")
  /\ UNCHANGED <<github, calls, world, faults>>

\* Reviews that cannot be read are no objection.
Decide ==
  /\ AtMerge("decide")
  /\ \E objected \in {prs[merger.n].objected, FALSE} :
       /\ IF objected = prs[merger.n].objected THEN UNCHANGED faults ELSE Fault
       /\ IF objected \/ merger.health # "clean" THEN MergeEnds("refused")
          ELSE MergerGoes("merge")
  /\ UNCHANGED <<github, calls, world>>

Merged(tree, into) ==
  [p \in Paths |-> IF tree[p] = "none" THEN into[p] ELSE tree[p]]

\* Nobody asks for the health of, or objects to, a pull request that is not open.
Ended(pr, state) == [pr EXCEPT !.state = state, !.health = "unknown", !.objected = FALSE]

Land(n) ==
  LET pr == prs[n] IN
  /\ prs' = [prs EXCEPT ![n] = Ended(@, "merged")]
  /\ repos' = [repos EXCEPT !["upstream"][pr.base] =
                 Merged(repos[pr.from][pr.head], @)]

\* GitHub merges a pull request that is open; otherwise, or when the request fails,
\* the tool reports an error.
Merge ==
  LET n == merger.n IN
  /\ AtMerge("merge")
  /\ IF prs[n].state # "open" \/ prs[n].head \notin DOMAIN repos[prs[n].from]
     THEN MergeEnds("failed") /\ UNCHANGED <<github, faults>>
     ELSE \/ Land(n) /\ merger' = [merger EXCEPT !.pc = "delete", !.merged = TRUE]
             /\ UNCHANGED faults
          \/ Fault /\ MergeEnds("failed") /\ (UNCHANGED github \/ Land(n))
  /\ UNCHANGED <<calls, world>>

DeleteHead(n) ==
  repos' = [repos EXCEPT !["upstream"] =
              [b \in DOMAIN @ \ {prs[n].head} |-> @[b]]]

\* Mutant: an error of the clean-up is an error of the merge.
DeleteOrFail ==
  /\ AtMerge("delete")
  /\ \/ MergeEnds("ok") /\ UNCHANGED <<repos, faults>>
     \/ Fault /\ MergeEnds("failed") /\ UNCHANGED repos
  /\ UNCHANGED <<prs, calls, world>>

\* delete_branch is the caller's choice; GitHub does not delete the default branch.
DeleteBranch ==
  LET pr == prs[merger.n] IN
  /\ AtMerge("delete")
  /\ MergeEnds("ok")
  /\ \/ UNCHANGED <<repos, faults>>
     \/ /\ pr.from = "upstream" /\ pr.head # Default /\ DeleteHead(merger.n)
        /\ UNCHANGED faults \/ Fault
     \/ Fault /\ UNCHANGED repos
  /\ UNCHANGED <<prs, calls, world>>

EndMerge ==
  /\ AtMerge("done")
  /\ merger' = Resting
  /\ UNCHANGED <<github, calls, world, faults>>

-----------------------------------------------------------------------------
(* github_update_pr, github_fork, github_review_pr, people on GitHub, and crashes *)

Open(n) == n \in DOMAIN prs /\ prs[n].state = "open"

ClosePr(n) ==
  /\ Open(n)
  /\ prs' = [prs EXCEPT ![n] = Ended(@, "closed")]
  /\ UNCHANGED <<repos, calls, merger, world, faults>>

Objects(n) ==
  /\ Open(n)
  /\ prs' = [prs EXCEPT ![n].objected = TRUE]
  /\ UNCHANGED <<repos, calls, merger, world, faults>>

PersonMerges(n) ==
  /\ Open(n)
  /\ prs[n].head \in DOMAIN repos[prs[n].from]
  /\ Land(n)
  /\ UNCHANGED <<calls, merger, world, faults>>

ChecksEnd(n) ==
  /\ Open(n)
  /\ prs[n].health = "unknown"
  /\ \E h \in {"clean", "bad"} : prs' = [prs EXCEPT ![n].health = h]
  /\ UNCHANGED <<repos, calls, merger, world, faults>>

ForkRepository ==
  /\ merger.pc \notin {"decide", "merge", "delete", "done"}
  /\ \A c \in Calls : calls[c].pc \notin Blocking
  /\ NoFork
  /\ repos' = [repos EXCEPT !["fork"] = repos["upstream"]]
  /\ UNCHANGED <<prs, calls, merger, world, faults>>

Crash ==
  /\ faults + crashes < MaxMishaps
  /\ crashes' = crashes + 1
  /\ calls' = [c \in Calls |-> Idle]
  /\ merger' = Resting
  /\ UNCHANGED <<github, push, faults>>

PrStep(c) ==
  \/ \E r \in Requests : Inspect(c, r)
  \/ CheckClaims(c) \/ EnsureBranch(c) \/ CommitFile(c)
  \/ CreatePull(c) \/ FindOpenPr(c) \/ Fork(c) \/ PollFork(c) \/ End(c)

MergeStep ==
  \/ \E n \in DOMAIN prs : BeginMerge(n)
  \/ ReadPr \/ PollPr \/ Decide \/ Merge \/ DeleteBranch \/ EndMerge

WorldStep ==
  \/ \E n \in DOMAIN prs : ClosePr(n) \/ Objects(n) \/ PersonMerges(n) \/ ChecksEnd(n)
  \/ ForkRepository

Next == (\E c \in Calls : PrStep(c)) \/ MergeStep \/ WorldStep \/ Crash

Spec == Init /\ [][Next]_vars

-----------------------------------------------------------------------------
(* Properties *)

Ends(c, out) == calls[c].pc # "done" /\ calls'[c].pc = "done" /\ calls'[c].out = out

\* A refusal leaves no branch, commit, fork or pull request behind: whatever is refused
\* is refused before the first write, on every path through github_pr.
RefusalIsClean ==
  [][\A c \in Calls : Ends(c, "refused") => ~ calls[c].wrote /\ UNCHANGED github]_vars

MergedInto(r, b) ==
  r = "upstream" /\ \E n \in DOMAIN prs : prs[n].state = "merged" /\ prs[n].base = b

\* A pull request a call says it opened is open and its branch has every file of the
\* request, in full, whatever failed on the way to it; only a branch that is itself the
\* base of pull requests may have had something merged over them.
FreshPrIsWhole ==
  [][\A c \in Calls : Ends(c, "ok") =>
       LET call == calls[c] IN
       /\ \E n \in DOMAIN prs' : prs'[n] = NewPr(c)
       /\ MergedInto(call.at, call.req.head)
          \/ \A p \in DOMAIN call.req.files :
               repos'[call.at][call.req.head][p] = call.req.files[p]]_vars

Between(n, head, base) == prs[n].head = head /\ prs[n].base = base

\* However often a task is run again, also after a crash in the middle, one branch has
\* one open pull request to a base.  Two come of an error of GitHub, or of an earlier
\* one that people ended while a call looked for it: _find_open_pr finds nothing, and
\* the second try goes to the fork.
OnePr ==
  faults = 0 =>
    \A m, n \in DOMAIN prs :
      /\ m < n /\ Open(m) /\ Open(n)
      /\ Between(m, prs[n].head, prs[n].base)
      => \E k \in DOMAIN prs : k < n /\ ~ Open(k) /\ Between(k, prs[n].head, prs[n].base)

\* A merge GitHub has confirmed is reported as one, whatever becomes of the branch
\* afterwards, and a reported one landed.
MergeIsReported ==
  merger.pc = "done" => /\ merger.merged => merger.out = "ok"
                        /\ merger.out = "ok" => prs[merger.n].state = "merged"
=============================================================================
