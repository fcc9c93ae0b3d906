------------------------- MODULE PullRequestsProofs -------------------------
(***************************************************************************)
(* The tools that change a repository, for any requests, calls and paths.  *)
(***************************************************************************)
EXTENDS PullRequests, SequenceTheorems, TLAPS

-----------------------------------------------------------------------------
(* The inductive invariant *)

Under == {"branch", "commit", "open", "find", "fork", "poll", "claims"}

\* What a call has done so far is on its branch.
Written(call) ==
  call.pc \in {"commit", "open"} =>
    /\ call.req.head \in DOMAIN repos[call.at]
    /\ \/ MergedInto(call.at, call.req.head)
       \/ \A p \in DOMAIN call.req.files \ call.todo :
            repos[call.at][call.req.head][p] = call.req.files[p]

CallBase(call) ==
  /\ call.pc \in {"idle", "claims"} => ~ call.wrote
  /\ call.pc \in Under => /\ call.req \in Requests /\ call.root \in Tree
                          /\ call.todo \subseteq DOMAIN call.req.files
  /\ call.pc \in {"branch", "poll"} => call.todo = DOMAIN call.req.files
  /\ call.pc = "open" => call.todo = {}
  /\ call.at = "fork" => ~ NoFork
  /\ call.pc \in {"branch", "commit", "open", "find", "poll"} /\ ~ push => call.at = "fork"
  /\ Written(call)

EndedOne(head, base) == \E k \in DOMAIN prs : ~ Open(k) /\ Between(k, head, base)

\* With the right to push and without an error of GitHub, a call goes to the fork only
\* where people ended a pull request.
CallTwice(call) ==
  faults = 0 /\ push =>
    /\ call.pc = "find" => \E k \in DOMAIN prs : /\ prs[k].from = call.at
                                                 /\ Between(k, call.req.head, call.base)
    /\ call.pc = "fork" \/ (call.pc \in Under /\ call.at = "fork")
         => EndedOne(call.req.head, call.base)

ReposFit ==
  /\ Default \in DOMAIN repos["upstream"]
  /\ NoFork \/ Default \in DOMAIN repos["fork"]

\* GitHub has one open pull request from a branch of a repository to a base.
OneEach ==
  \A m, n \in DOMAIN prs :
    /\ Open(m) /\ Open(n) /\ prs[m].from = prs[n].from
    /\ Between(m, prs[n].head, prs[n].base)
    => m = n

ForkedForAReason ==
  \A n \in DOMAIN prs :
    /\ ~ push => prs[n].from = "fork"
    /\ faults = 0 /\ push /\ prs[n].from = "fork" =>
         \E k \in DOMAIN prs : k < n /\ ~ Open(k) /\ Between(k, prs[n].head, prs[n].base)

MergerFits ==
  /\ merger.pc # "idle" => merger.n \in DOMAIN prs
  /\ merger.merged => merger.pc \in {"delete", "done"}
  /\ merger.pc = "delete" => merger.merged /\ prs[merger.n].state = "merged"
  /\ MergeIsReported

PrInv ==
  /\ PullRequestsTypeOK
  /\ ReposFit
  /\ \A c \in Calls : CallBase(calls[c]) /\ CallTwice(calls[c])
  /\ OneEach
  /\ ForkedForAReason
  /\ MergerFits

-----------------------------------------------------------------------------
(* Pull requests only grow in number, and one that has ended has ended *)

Later(pr, new) ==
  /\ new.from = pr.from /\ new.head = pr.head /\ new.base = pr.base
  /\ pr.state # "open" => new.state = pr.state

Grows ==
  /\ prs' \in Seq(Pr) /\ Len(prs') >= Len(prs) /\ Len(prs') <= MaxPrs
  /\ \A n \in 1 .. Len(prs) : Later(prs[n], prs'[n])

Moves == Grows /\ Len(prs') = Len(prs)

LEMMA PrsTyped ==
  ASSUME PrInv
  PROVE  /\ prs \in Seq(Pr) /\ Len(prs) \in Nat /\ Len(prs) <= MaxPrs
         /\ DOMAIN prs = 1 .. Len(prs) /\ \A n \in 1 .. Len(prs) : prs[n] \in Pr
  BY LenProperties, ElementOfSeq DEF PrInv, PullRequestsTypeOK

LEMMA SeqOf ==
  ASSUME NEW S, NEW n \in Nat, NEW f \in [1 .. n -> S]
  PROVE  f \in Seq(S) /\ Len(f) = n /\ DOMAIN f = 1 .. n
  BY SeqDef

LEMMA StaysMoves ==
  ASSUME PrInv, UNCHANGED prs
  PROVE  Moves
  BY PrsTyped DEF Moves, Grows, Later

\* One pull request changes, and is open or keeps its state.
LEMMA OneMoves ==
  ASSUME PrInv, NEW n \in DOMAIN prs, NEW new \in Pr, Later(prs[n], new),
         prs' = [prs EXCEPT ![n] = new]
  PROVE  Moves
<1>1. n \in 1 .. Len(prs) /\ prs \in Seq(Pr) /\ Len(prs) \in Nat /\ Len(prs) <= MaxPrs
  BY PrsTyped
<1>2. /\ prs' \in Seq(Pr) /\ Len(prs') = Len(prs)
      /\ \A j \in 1 .. Len(prs) : prs'[j] = IF j = n THEN new ELSE prs[j]
  BY <1>1, ExceptSeq
<1> QED
  BY <1>1, <1>2 DEF Moves, Grows, Later

LEMMA CommitMoves ==
  ASSUME PrInv, NEW r, NEW b, NEW tree, Commit(r, b, tree)
  PROVE  Moves
<1> DEFINE new(n) == IF prs[n].state = "open" /\ prs[n].from = r /\ prs[n].head = b
                     THEN [prs[n] EXCEPT !.health = "unknown"] ELSE prs[n]
<1>1. \A n \in 1 .. Len(prs) : new(n) \in Pr /\ Later(prs[n], new(n))
  BY PrsTyped DEF Pr, Later
<1>2. prs' = [n \in 1 .. Len(prs) |-> new(n)]
  BY PrsTyped DEF Commit
<1> HIDE DEF new
<1>3. prs' \in [1 .. Len(prs) -> Pr] /\ \A n \in 1 .. Len(prs) : prs'[n] = new(n)
  BY <1>1, <1>2
<1>4. prs' \in Seq(Pr) /\ Len(prs') = Len(prs)
  BY <1>3, PrsTyped, SeqOf
<1> QED
  BY <1>1, <1>3, <1>4, PrsTyped DEF Moves, Grows

LEMMA AppendGrows ==
  ASSUME PrInv, NEW pr \in Pr, prs' = Append(prs, pr), Len(prs) < MaxPrs,
         PullRequestsAssumption
  PROVE  /\ Grows /\ Len(prs') = Len(prs) + 1 /\ prs'[Len(prs) + 1] = pr
         /\ \A n \in 1 .. Len(prs) : prs'[n] = prs[n]
<1>1. prs \in Seq(Pr) /\ Len(prs) \in Nat /\ MaxPrs \in Nat
  BY PrsTyped DEF PullRequestsAssumption
<1>2. /\ prs' \in Seq(Pr) /\ Len(prs') = Len(prs) + 1 /\ prs'[Len(prs) + 1] = pr
      /\ \A n \in 1 .. Len(prs) : prs'[n] = prs[n]
  BY <1>1, AppendProperties
<1> QED
  BY <1>1, <1>2 DEF Grows, Later

LEMMA EndedTyped ==
  ASSUME NEW pr \in Pr, NEW state \in {"closed", "merged"}, pr.state = "open"
  PROVE  Ended(pr, state) \in Pr /\ Later(pr, Ended(pr, state)) /\ Ended(pr, state).state = state
  BY DEF Pr, Ended, Later

LEMMA LandMoves ==
  ASSUME PrInv, NEW n \in DOMAIN prs, prs[n].state = "open", Land(n)
  PROVE  Moves /\ prs'[n].state = "merged"
<1>1. prs[n] \in Pr /\ prs \in Seq(Pr)
  BY PrsTyped
<1>2. PICK new \in Pr : new = Ended(prs[n], "merged")
  BY <1>1, EndedTyped
<1>3. prs' = [prs EXCEPT ![n] = new] /\ Later(prs[n], new) /\ new.state = "merged"
  BY <1>1, <1>2, EndedTyped DEF Land
<1>4. prs'[n] = new
  BY <1>1, <1>3, PrsTyped
<1> QED
  BY <1>3, <1>4, OneMoves

\* What a step makes of the pull requests without a new one fits.
LEMMA MovesFit ==
  ASSUME PrInv, Moves, push' = push, faults' = 0 => faults = 0
  PROVE  OneEach' /\ ForkedForAReason'
<1>1. /\ DOMAIN prs = 1 .. Len(prs) /\ DOMAIN prs' = 1 .. Len(prs)
      /\ \A n \in 1 .. Len(prs) : Later(prs[n], prs'[n])
  BY PrsTyped, LenProperties DEF Moves, Grows
<1>2. OneEach'
  BY <1>1 DEF PrInv, OneEach, Open, Between, Later
<1>3. ForkedForAReason'
  BY <1>1, PrsTyped DEF PrInv, ForkedForAReason, Open, Between, Later
<1> QED
  BY <1>2, <1>3

LEMMA GrowsEnded ==
  ASSUME PrInv, Grows
  PROVE  /\ \A head, base : EndedOne(head, base) => EndedOne(head, base)'
         /\ \A r, b : MergedInto(r, b) => MergedInto(r, b)'
         /\ \A r, head, base :
              (\E k \in DOMAIN prs : prs[k].from = r /\ Between(k, head, base))
              => (\E k \in DOMAIN prs : prs[k].from = r /\ Between(k, head, base))'
<1>1. /\ DOMAIN prs = 1 .. Len(prs) /\ DOMAIN prs' = 1 .. Len(prs') /\ Len(prs) \in Nat
      /\ Len(prs') \in Nat /\ Len(prs) <= Len(prs')
      /\ \A n \in 1 .. Len(prs) : Later(prs[n], prs'[n])
  BY PrsTyped, LenProperties DEF Grows
<1>2. ASSUME NEW n \in DOMAIN prs PROVE n \in DOMAIN prs' /\ Later(prs[n], prs'[n])
  BY <1>1
<1>3. \A head, base : EndedOne(head, base) => EndedOne(head, base)'
  BY <1>2 DEF EndedOne, Open, Between, Later
<1>4. \A r, b : MergedInto(r, b) => MergedInto(r, b)'
  BY <1>2 DEF MergedInto, Later
<1> QED
  BY <1>2, <1>3, <1>4 DEF Between, Later

-----------------------------------------------------------------------------
(* What a step makes of the repositories *)

Repos == {"upstream", "fork"}

ReposTyped ==
  /\ repos = [r \in Repos |-> repos[r]]
  /\ \A r \in Repos : IsRepo(repos[r])

\* A branch is there for good unless the merger deletes it, and so is a fork.
ReposStay == \A r \in Repos : DOMAIN repos[r] \subseteq DOMAIN repos'[r]

LEMMA ReposAreTyped ==
  ASSUME PrInv
  PROVE  ReposTyped /\ ReposFit
  BY DEF PrInv, PullRequestsTypeOK, ReposTyped, Repos

LEMMA RepoChanges ==
  ASSUME ReposTyped, ReposFit, NEW r \in Repos, NEW new, IsRepo(new),
         DOMAIN repos[r] \subseteq DOMAIN new, Default \in DOMAIN new,
         repos' = [repos EXCEPT ![r] = new]
  PROVE  /\ ReposTyped' /\ ReposFit' /\ ReposStay /\ (NoFork' => NoFork)
         /\ repos'[r] = new /\ \A x \in Repos \ {r} : repos'[x] = repos[x]
<1>1. /\ repos' = [x \in Repos |-> repos'[x]] /\ repos'[r] = new
      /\ \A x \in Repos \ {r} : repos'[x] = repos[x]
  BY DEF ReposTyped
<1>2. ReposTyped' /\ ReposStay
  BY <1>1 DEF ReposTyped, ReposStay
<1>3. ReposFit' /\ (NoFork' => NoFork)
  BY <1>1 DEF ReposFit, NoFork, Repos
<1> QED
  BY <1>1, <1>2, <1>3

LEMMA CommitRepos ==
  ASSUME PrInv, NEW r \in Repos, NEW b \in Branches, NEW tree \in Tree, r = "fork" => ~ NoFork,
         Commit(r, b, tree)
  PROVE  /\ ReposTyped' /\ ReposFit' /\ ReposStay /\ (NoFork' => NoFork)
         /\ b \in DOMAIN repos'[r] /\ repos'[r][b] = tree
<1> DEFINE new == [x \in DOMAIN repos[r] \cup {b} |-> IF x = b THEN tree ELSE repos[r][x]]
<1>1. IsRepo(repos[r]) /\ Default \in DOMAIN repos[r]
  BY ReposAreTyped DEF ReposTyped, ReposFit, Repos
<1>2. IsRepo(new) /\ DOMAIN repos[r] \subseteq DOMAIN new /\ b \in DOMAIN new /\ new[b] = tree
  BY <1>1 DEF IsRepo
<1>3. repos' = [repos EXCEPT ![r] = new]
  BY DEF Commit
<1> HIDE DEF new
<1> QED
  BY <1>1, <1>2, <1>3, ReposAreTyped, RepoChanges

LEMMA ForkRepos ==
  ASSUME PrInv, NoFork, repos' = [repos EXCEPT !["fork"] = repos["upstream"]]
  PROVE  ReposTyped' /\ ReposFit' /\ ReposStay /\ (NoFork' => NoFork) /\ ~ NoFork'
<1>1. /\ IsRepo(repos["upstream"]) /\ Default \in DOMAIN repos["upstream"]
      /\ DOMAIN repos["fork"] = {} /\ "fork" \in Repos
  BY ReposAreTyped DEF ReposTyped, ReposFit, Repos, NoFork
<1>2. /\ ReposTyped' /\ ReposFit' /\ ReposStay /\ (NoFork' => NoFork)
      /\ repos'["fork"] = repos["upstream"]
  BY <1>1, ReposAreTyped, RepoChanges
<1> QED
  BY <1>1, <1>2 DEF NoFork

LEMMA LandRepos ==
  ASSUME PrInv, NEW n \in DOMAIN prs, prs[n].head \in DOMAIN repos[prs[n].from], Land(n)
  PROVE  /\ ReposTyped' /\ ReposFit' /\ ReposStay /\ (NoFork' => NoFork)
         /\ \A r \in Repos : \A b \in DOMAIN repos[r] :
              r # "upstream" \/ b # prs[n].base => repos'[r][b] = repos[r][b]
<1> DEFINE base == prs[n].base
           tree == repos[prs[n].from][prs[n].head]
           up == repos["upstream"]
           new == [up EXCEPT ![base] = Merged(tree, up[base])]
<1>1. IsRepo(up) /\ Default \in DOMAIN up /\ "upstream" \in Repos
  BY ReposAreTyped DEF ReposTyped, ReposFit, Repos
<1>2. tree \in Tree
  BY PrsTyped, ReposAreTyped DEF ReposTyped, IsRepo, Pr, Repos
<1>3. repos' = [repos EXCEPT !["upstream"] = new]
  BY DEF Land
<1>4. base \in DOMAIN up => Merged(tree, up[base]) \in Tree
  BY <1>1, <1>2 DEF Merged, Tree, IsRepo
<1> HIDE DEF tree, up, base
<1>5. /\ IsRepo(new) /\ DOMAIN up = DOMAIN new
      /\ \A b \in DOMAIN up : b # base => new[b] = up[b]
  <2>1. up \in [DOMAIN up -> Tree] /\ DOMAIN up \subseteq Branches
    BY <1>1 DEF IsRepo
  <2>2. DOMAIN new = DOMAIN up
    BY <2>1
  <2>3. new \in [DOMAIN up -> Tree]
    BY <1>4, <2>1
  <2>4. \A b \in DOMAIN up : b # base => new[b] = up[b]
    BY <2>1
  <2> QED
    BY <2>1, <2>2, <2>3, <2>4 DEF IsRepo
<1> HIDE DEF new
<1>6. /\ ReposTyped' /\ ReposFit' /\ ReposStay /\ (NoFork' => NoFork)
      /\ repos'["upstream"] = new /\ \A x \in Repos \ {"upstream"} : repos'[x] = repos[x]
  BY <1>1, <1>3, <1>5, ReposAreTyped, RepoChanges DEF up
<1>7. ASSUME NEW r \in Repos, NEW b \in DOMAIN repos[r], r # "upstream" \/ b # prs[n].base
      PROVE  repos'[r][b] = repos[r][b]
  BY <1>5, <1>6, <1>7 DEF up, base
<1> QED
  BY <1>6, <1>7

-----------------------------------------------------------------------------
(* Calls *)

LEMMA RequestTyped ==
  ASSUME PullRequestsAssumption, NEW r \in Requests
  PROVE  /\ r.head \in Branches /\ r.base \in Branches \cup {None}
         /\ DOMAIN r.files \subseteq Paths
         /\ \A p \in DOMAIN r.files : r.files[p] \in Contents
<1>1. r \in Request
  BY DEF PullRequestsAssumption
<1>2. PICK P \in SUBSET Paths : r.files \in [P -> Contents]
  BY <1>1 DEF Request
<1> QED
  BY <1>1, <1>2 DEF Request

LEMMA CallTyped ==
  ASSUME PrInv, NEW c \in Calls
  PROVE  calls[c] \in Call /\ CallBase(calls[c]) /\ CallTwice(calls[c])
  BY DEF PrInv, PullRequestsTypeOK

NowMergedInto(r, b) ==
  r = "upstream" /\ \E n \in DOMAIN prs' : prs'[n].state = "merged" /\ prs'[n].base = b

\* What a call that does not move relies on.
Kept(call) ==
  call.pc \in {"commit", "open"} =>
    /\ call.req.head \in DOMAIN repos'[call.at]
    /\ \/ NowMergedInto(call.at, call.req.head)
       \/ repos'[call.at][call.req.head] = repos[call.at][call.req.head]

LEMMA CallStays ==
  ASSUME PrInv, NEW call \in Call, CallBase(call), CallTwice(call), Kept(call),
         Grows, NoFork' => NoFork, push' = push, faults' = 0 => faults = 0
  PROVE  CallBase(call)' /\ CallTwice(call)'
<1>1. Written(call)'
  <2>1. ASSUME call.pc \in {"commit", "open"}, MergedInto(call.at, call.req.head)
        PROVE  MergedInto(call.at, call.req.head)'
    BY <2>1, GrowsEnded
  <2>2. NowMergedInto(call.at, call.req.head) => MergedInto(call.at, call.req.head)'
    BY DEF NowMergedInto, MergedInto
  <2> QED
    BY <2>1, <2>2 DEF CallBase, Written, Kept
<1>2. CallBase(call)'
  BY <1>1 DEF CallBase
<1>3. CallTwice(call)'
  <2>1. SUFFICES ASSUME faults = 0, push, CallTwice(call)
                 PROVE  /\ call.pc = "find" => (\E k \in DOMAIN prs : /\ prs[k].from = call.at
                                                 /\ Between(k, call.req.head, call.base))'
                        /\ call.pc = "fork" \/ (call.pc \in Under /\ call.at = "fork")
                             => EndedOne(call.req.head, call.base)'
    BY DEF CallTwice
  <2> QED
    BY <2>1, GrowsEnded DEF CallTwice
<1> QED
  BY <1>2, <1>3

LEMMA MergerStays ==
  ASSUME PrInv, Grows, merger' = merger
  PROVE  MergerFits' /\ merger' \in Merger /\ merger'.n <= Len(prs')
<1>1. merger \in Merger /\ merger.n <= Len(prs) /\ merger.n \in Nat
  BY DEF PrInv, PullRequestsTypeOK, Merger
<1>2. /\ DOMAIN prs = 1 .. Len(prs) /\ DOMAIN prs' = 1 .. Len(prs') /\ Len(prs) \in Nat
      /\ Len(prs') \in Nat /\ Len(prs) <= Len(prs')
      /\ \A n \in 1 .. Len(prs) : Later(prs[n], prs'[n])
  BY PrsTyped, LenProperties DEF Grows
<1>3. merger.n \in DOMAIN prs /\ prs[merger.n].state = "merged" => prs'[merger.n].state = "merged"
  BY <1>2 DEF Later
<1>4. MergerFits
  BY DEF PrInv
<1>5. MergerFits'
  BY <1>1, <1>2, <1>3, <1>4 DEF MergerFits, MergeIsReported, Merger
<1> QED
  BY <1>1, <1>2, <1>5

\* A step of one call, of which the others notice nothing.
LEMMA CallMoves ==
  ASSUME PrInv, NEW c \in Calls, NEW new \in Call, calls' = [calls EXCEPT ![c] = new],
         CallBase(new)', CallTwice(new)', Alone(c), merger' = merger,
         UNCHANGED world, Fault \/ UNCHANGED faults, Grows, ReposTyped', ReposFit',
         NoFork' => NoFork, OneEach', ForkedForAReason', PullRequestsAssumption
  PROVE  PrInv'
<1>1. /\ faults' \in 0 .. MaxMishaps /\ (faults' = 0 => faults = 0) /\ push' = push
      /\ push \in BOOLEAN /\ crashes' \in 0 .. MaxMishaps
  BY DEF PrInv, PullRequestsTypeOK, Fault, world, PullRequestsAssumption
<1>2. calls' \in [Calls -> Call] /\ calls'[c] = new /\ \A d \in Calls \ {c} : calls'[d] = calls[d]
  BY DEF PrInv, PullRequestsTypeOK
<1>3. ASSUME NEW d \in Calls PROVE (CallBase(calls[d]) /\ CallTwice(calls[d]))'
  <2>1. CASE d = c
    BY <1>2, <2>1
  <2>2. CASE d # c
    <3>1. PICK call \in Call : call = calls[d] /\ calls'[d] = call
      BY <1>2, <2>2, CallTyped
    <3>2. Kept(call)
      BY <2>2, <3>1 DEF Alone, Kept, Blocking
    <3>3. CallBase(call)' /\ CallTwice(call)'
      BY <1>1, <3>1, <3>2, CallTyped, CallStays
    <3> QED
      BY <3>1, <3>3
  <2> QED
    BY <2>1, <2>2
<1>4. MergerFits' /\ merger' \in Merger /\ merger'.n <= Len(prs')
  BY MergerStays
<1>5. PullRequestsTypeOK'
  BY <1>1, <1>2, <1>4 DEF PullRequestsTypeOK, ReposTyped, Repos, Grows
<1> QED
  BY <1>3, <1>4, <1>5 DEF PrInv

\* A step of one call that leaves GitHub alone.
LEMMA CallThinks ==
  ASSUME PrInv, NEW c \in Calls, NEW new \in Call, calls' = [calls EXCEPT ![c] = new],
         CallBase(new), CallTwice(new) \/ Fault, Alone(c), UNCHANGED <<github, merger, world>>,
         Fault \/ UNCHANGED faults, PullRequestsAssumption
  PROVE  PrInv'
<1>1. /\ UNCHANGED <<repos, prs, push>> /\ (faults' = 0 => faults = 0) /\ merger' = merger
  BY DEF github, world, Fault, PrInv, PullRequestsTypeOK
<1>2. Moves /\ Grows
  BY <1>1, StaysMoves DEF Moves
<1>3. OneEach' /\ ForkedForAReason'
  BY <1>1, <1>2, MovesFit
<1>4. ReposTyped' /\ ReposFit' /\ (NoFork' => NoFork)
  BY <1>1, ReposAreTyped DEF ReposTyped, ReposFit, NoFork
<1>5. CallBase(new)'
  BY <1>1 DEF CallBase, Written, MergedInto, NoFork
<1>6. CallTwice(new)'
  <2>1. CASE Fault
    <3>1. faults' # 0
      BY <2>1 DEF Fault, PrInv, PullRequestsTypeOK
    <3> QED
      BY <3>1 DEF CallTwice
  <2>2. CASE ~ Fault
    <3>1. faults' = faults /\ CallTwice(new)
      BY <2>2
    <3> QED
      BY <1>1, <3>1 DEF CallTwice, EndedOne, Open, Between
  <2> QED
    BY <2>1, <2>2
<1> QED
  BY <1>1, <1>2, <1>3, <1>4, <1>5, <1>6, CallMoves

LEMMA ReturnKeeps ==
  ASSUME PrInv, NEW c \in Calls, NEW out \in {"ok", "existing", "refused", "failed"},
         Return(c, out), Alone(c), UNCHANGED <<github, merger, world>>,
         Fault \/ UNCHANGED faults, PullRequestsAssumption
  PROVE  PrInv'
<1> DEFINE new == [Idle EXCEPT !.pc = "done", !.out = out]
<1>1. new \in Call /\ new.pc = "done" /\ new.at = "upstream"
  BY DEF Idle, Call, Blocking, Branches, Default, Return
<1>2. calls' = [calls EXCEPT ![c] = new]
  BY DEF Return, Set
<1> HIDE DEF new
<1>3. CallBase(new) /\ CallTwice(new)
  BY <1>1 DEF CallBase, CallTwice, Written, Under
<1> QED
  BY <1>1, <1>2, <1>3, CallThinks

\* Where an exception leads to.
LEMMA RaisedTo ==
  ASSUME PrInv, NEW c \in Calls, NEW wrote \in BOOLEAN, Raised(c, wrote),
         calls[c].pc \in {"branch", "commit", "open", "find"}, PullRequestsAssumption
  PROVE  \E new \in Call :
           /\ calls' = [calls EXCEPT ![c] = new]
           /\ CallBase(new) /\ new.pc \in {"done", "fork", "find", "branch"}
           /\ new.pc = "done" => new.out = "failed"
           /\ \/ calls[c].pc = "open" /\ SameAs(c) # {}
              \/ calls[c].pc = "find" /\ SameAs(c) = {}
              => CallTwice(new)
<1> DEFINE touched == [calls[c] EXCEPT !.wrote = @ \/ wrote]
<1>1. PICK call \in Call : /\ call = touched
                          /\ call.pc = calls[c].pc /\ call.at = calls[c].at
                          /\ call.req = calls[c].req /\ call.base = calls[c].base
                          /\ call.root = calls[c].root /\ call.todo = calls[c].todo
                          /\ call.again = calls[c].again
  <2>1. PICK old \in Call : old = calls[c]
    BY CallTyped
  <2>2. PICK written \in BOOLEAN : written = (old.wrote \/ wrote)
    BY DEF Call
  <2>3. touched = [old EXCEPT !.wrote = written]
    BY <2>1, <2>2
  <2> QED
    BY <2>1, <2>2, <2>3 DEF Call
<1>2. CallBase(call) /\ CallTwice(call)
  <2>1. CallBase(calls[c]) /\ CallTwice(calls[c]) /\ calls[c].pc \notin {"idle", "claims"}
    BY CallTyped
  <2> QED
    BY <1>1, <2>1 DEF CallBase, CallTwice, Written
<1> HIDE DEF touched
<1>3. \/ call.pc = "find" /\ call.at = "upstream" /\ Set(c, [call EXCEPT !.pc = "fork"])
      \/ call.pc = "find" /\ call.at = "fork" /\ Return(c, "failed")
      \/ /\ call.pc # "find"
         /\ call.pc \in {"open", "find"} \/ call.at # "fork"
         /\ Set(c, [call EXCEPT !.pc = "find"])
      \/ /\ call.pc \notin {"open", "find"} /\ call.at = "fork"
         /\ call.again /\ Return(c, "failed")
      \/ /\ call.pc \notin {"open", "find"} /\ call.at = "fork"
         /\ ~ call.again
         /\ Set(c, [call EXCEPT !.pc = "branch", !.again = TRUE,
                                !.todo = DOMAIN call.req.files])
  BY <1>1 DEF Raised, touched
<1>4. ASSUME Return(c, "failed")
      PROVE  \E new \in Call :
               /\ calls' = [calls EXCEPT ![c] = new]
               /\ CallBase(new) /\ new.pc = "done" /\ new.out = "failed" /\ CallTwice(new)
  <2> DEFINE new == [Idle EXCEPT !.pc = "done", !.out = "failed"]
  <2>1. new \in Call /\ new.pc = "done" /\ new.at = "upstream" /\ new.out = "failed"
    BY DEF Idle, Call, Blocking, Branches, Default
  <2>2. calls' = [calls EXCEPT ![c] = new]
    BY <1>4 DEF Return, Set
  <2> HIDE DEF new
  <2>3. CallBase(new) /\ CallTwice(new)
    BY <2>1 DEF CallBase, CallTwice, Written, Under
  <2> QED
    BY <2>1, <2>2, <2>3
<1>5. CASE call.pc = "find" /\ call.at # "fork"
  <2> DEFINE new == [call EXCEPT !.pc = "fork"]
  <2>1. /\ new \in Call /\ new.pc = "fork" /\ new.at = call.at /\ new.req = call.req
        /\ new.base = call.base /\ new.root = call.root /\ new.todo = call.todo
    BY DEF Call, Blocking
  <2>2. calls' = [calls EXCEPT ![c] = new]
    BY <1>1, <1>5, <1>3 DEF Set, Call
  <2> HIDE DEF new
  <2>3. CallBase(new)
    BY <1>2, <1>5, <2>1 DEF CallBase, Written, Under
  <2>4. SameAs(c) = {} => CallTwice(new)
    BY <1>1, <1>2, <1>5, <2>1 DEF CallTwice, SameAs, EndedOne, Open, Between, Under
  <2> QED
    BY <1>1, <1>5, <2>1, <2>2, <2>3, <2>4
<1>6. CASE call.pc # "find" /\ (call.at = "upstream" \/ call.pc = "open")
  <2> DEFINE new == [call EXCEPT !.pc = "find"]
  <2>1. /\ new \in Call /\ new.pc = "find" /\ new.at = call.at /\ new.req = call.req
        /\ new.base = call.base /\ new.root = call.root /\ new.todo = call.todo
    BY DEF Call, Blocking
  <2>2. calls' = [calls EXCEPT ![c] = new]
    BY <1>1, <1>6, <1>3 DEF Set, Call
  <2> HIDE DEF new
  <2>3. CallBase(new)
    BY <1>1, <1>2, <1>6, <2>1 DEF CallBase, Written, Under
  <2>4. call.pc = "open" /\ SameAs(c) # {} => CallTwice(new)
    BY <1>1, <1>2, <1>6, <2>1 DEF CallTwice, SameAs, EndedOne, Open, Between, Under
  <2> QED
    BY <1>1, <1>6, <2>1, <2>2, <2>3, <2>4
<1>7. CASE call.pc \notin {"find", "open"} /\ call.at # "upstream" /\ ~ call.again
  <2>1. call.req \in Requests
    BY <1>1, <1>2 DEF CallBase, Under
  <2>2. PICK todo \in SUBSET Paths : todo = DOMAIN call.req.files
    BY <2>1, RequestTyped
  <2> DEFINE new == [call EXCEPT !.pc = "branch", !.again = TRUE, !.todo = todo]
  <2>3. /\ new \in Call /\ new.pc = "branch" /\ new.at = call.at /\ new.req = call.req
        /\ new.base = call.base /\ new.root = call.root /\ new.todo = todo
    BY DEF Call, Blocking
  <2>4. calls' = [calls EXCEPT ![c] = new]
    BY <1>1, <1>7, <1>3, <2>2 DEF Set, Call
  <2> HIDE DEF new
  <2>5. CallBase(new)
    BY <1>1, <1>2, <1>7, <2>2, <2>3 DEF CallBase, Written, Under
  <2> QED
    BY <1>1, <1>7, <2>3, <2>4, <2>5
<1>8. CASE \/ call.pc = "find" /\ call.at = "fork"
           \/ call.pc \notin {"find", "open"} /\ call.at # "upstream" /\ call.again
  <2>1. Return(c, "failed")
    BY <1>1, <1>8, <1>3 DEF Call
  <2> QED
    BY <1>4, <2>1
<1> QED
  BY <1>1, <1>5, <1>6, <1>7, <1>8 DEF Call

LEMMA RaisedKeeps ==
  ASSUME PrInv, NEW c \in Calls, NEW wrote \in BOOLEAN, Raised(c, wrote),
         calls[c].pc \in {"branch", "commit", "open", "find"}, Alone(c),
         UNCHANGED <<github, merger, world>>, PullRequestsAssumption,
         \/ Fault
         \/ /\ UNCHANGED faults
            /\ \/ calls[c].pc = "open" /\ SameAs(c) # {}
               \/ calls[c].pc = "find" /\ SameAs(c) = {}
  PROVE  PrInv'
<1>1. PICK new \in Call :
           /\ calls' = [calls EXCEPT ![c] = new]
           /\ CallBase(new)
           /\ \/ calls[c].pc = "open" /\ SameAs(c) # {}
              \/ calls[c].pc = "find" /\ SameAs(c) = {}
              => CallTwice(new)
  BY RaisedTo
<1> QED
  BY <1>1, CallThinks

-----------------------------------------------------------------------------
(* github_pr *)

LEMMA InspectedKeeps ==
  ASSUME PrInv, NEW c \in Calls, NEW r \in Requests, NEW base \in Branches, NEW seen,
         base \in DOMAIN repos["upstream"], Inspected(c, r, base, seen), Alone(c),
         UNCHANGED <<github, merger, world>>, Fault \/ UNCHANGED faults, PullRequestsAssumption
  PROVE  PrInv'
<1>1. CASE Return(c, "refused")
  BY <1>1, ReturnKeeps
<1>2. CASE ~ Return(c, "refused")
  <2>1. PICK root \in Tree : root = repos["upstream"][base]
    BY ReposAreTyped DEF ReposTyped, IsRepo, Repos
  <2> DEFINE new == [Idle EXCEPT !.pc = "claims", !.req = r, !.base = base, !.root = root]
  <2>2. /\ new \in Call /\ new.pc = "claims" /\ new.at = "upstream" /\ ~ new.wrote
        /\ new.req = r /\ new.root = root /\ new.todo = {}
    BY DEF Idle, Call, Blocking, Branches, Default
  <2>3. calls' = [calls EXCEPT ![c] = new]
    BY <1>2, <2>1 DEF Inspected, Set
  <2> HIDE DEF new
  <2>4. CallBase(new) /\ CallTwice(new)
    BY <2>2 DEF CallBase, CallTwice, Written, Under
  <2> QED
    BY <2>2, <2>3, <2>4, CallThinks
<1> QED
  BY <1>1, <1>2

LEMMA InspectKeeps ==
  ASSUME PrInv, NEW c \in Calls, NEW r \in Requests, Inspect(c, r), PullRequestsAssumption
  PROVE  PrInv'
<1>1. Alone(c) /\ UNCHANGED <<github, merger, world>>
  BY DEF Inspect, At
<1>2. CASE Return(c, "refused") /\ UNCHANGED faults
  BY <1>1, <1>2, ReturnKeeps
<1>3. CASE Return(c, "failed") /\ Fault
  BY <1>1, <1>3, ReturnKeeps
<1>4. /\ ResolveBase(r) \in Branches /\ ResolveBase(r) \in DOMAIN repos["upstream"]
      /\ Default \in Branches /\ Default \in DOMAIN repos["upstream"]
  BY ReposAreTyped DEF ResolveBase, ReposFit, ReposTyped, IsRepo, Repos, Branches, Default
<1>5. ASSUME NEW base \in {ResolveBase(r), Default}, NEW seen, Inspected(c, r, base, seen),
             Fault \/ UNCHANGED faults
      PROVE  PrInv'
  BY <1>1, <1>4, <1>5, InspectedKeeps
<1> QED
  BY <1>2, <1>3, <1>5 DEF Inspect

LEMMA CheckClaimsKeeps ==
  ASSUME PrInv, NEW c \in Calls, CheckClaims(c), PullRequestsAssumption
  PROVE  PrInv'
<1>1. Alone(c) /\ UNCHANGED <<github, merger, world>> /\ calls[c].pc = "claims"
  BY DEF CheckClaims, At
<1>2. CASE Return(c, "refused") /\ UNCHANGED faults
  BY <1>1, <1>2, ReturnKeeps
<1>3. CASE Return(c, "failed") /\ Fault
  BY <1>1, <1>3, ReturnKeeps
<1>4. CASE /\ Set(c, [calls[c] EXCEPT !.pc = IF push THEN "branch" ELSE "fork",
                                      !.todo = DOMAIN calls[c].req.files])
           /\ UNCHANGED faults
  <2>1. PICK call \in Call : call = calls[c]
    BY CallTyped
  <2>2. CallBase(call) /\ CallTwice(call) /\ call.req \in Requests
    BY <1>1, <2>1, CallTyped DEF CallBase, Under
  <2>3. PICK todo \in SUBSET Paths : todo = DOMAIN call.req.files
    BY <2>2, RequestTyped
  <2>4. PICK pc \in {"branch", "fork"} : pc = IF push THEN "branch" ELSE "fork"
    OBVIOUS
  <2> DEFINE new == [call EXCEPT !.pc = pc, !.todo = todo]
  <2>5. /\ new \in Call /\ new.pc = pc /\ new.at = call.at /\ new.req = call.req
        /\ new.base = call.base /\ new.root = call.root /\ new.todo = todo
    BY DEF Call, Blocking
  <2>6. calls' = [calls EXCEPT ![c] = new]
    BY <1>4, <2>1, <2>3, <2>4 DEF Set
  <2> HIDE DEF new
  <2>7. CallBase(new)
    BY <1>1, <2>1, <2>2, <2>3, <2>4, <2>5 DEF CallBase, Written, Under
  <2>8. CallTwice(new)
    BY <1>1, <2>1, <2>2, <2>4, <2>5 DEF CallTwice, Under
  <2> QED
    BY <1>1, <1>4, <2>5, <2>6, <2>7, <2>8, CallThinks
<1> QED
  BY <1>2, <1>3, <1>4 DEF CheckClaims, Proceed

\* A commit a call makes, and what it is then.
LEMMA CommitKeeps ==
  ASSUME PrInv, NEW c \in Calls, NEW new \in Call, calls' = [calls EXCEPT ![c] = new],
         NEW b \in Branches, NEW tree \in Tree, Commit(calls[c].at, b, tree),
         calls[c].at = "fork" => ~ NoFork, new.pc \in {"commit", "open"}, new.at = calls[c].at,
         new.req = calls[c].req, new.base = calls[c].base, calls[c].pc \in Under,
         Alone(c), UNCHANGED <<merger, world, faults>>, PullRequestsAssumption,
         CallBase(new)'
  PROVE  PrInv'
<1>1. calls[c].at \in Repos /\ push' = push /\ merger' = merger
  BY CallTyped DEF Call, Repos, world
<1>2. ReposTyped' /\ ReposFit' /\ (NoFork' => NoFork)
  BY <1>1, CommitRepos
<1>3. Moves /\ Grows
  BY CommitMoves DEF Moves
<1>4. OneEach' /\ ForkedForAReason'
  BY <1>1, <1>3, MovesFit
<1>5. CallTwice(new)'
  <2>1. SUFFICES ASSUME faults = 0, push, new.at = "fork"
                 PROVE  EndedOne(new.req.head, new.base)'
    BY <1>1 DEF CallTwice
  <2>2. CASE calls[c].at = "fork"
    <3>1. EndedOne(calls[c].req.head, calls[c].base)
      BY <2>1, <2>2, CallTyped DEF CallTwice
    <3> QED
      BY <1>3, <3>1, GrowsEnded
  <2> QED
    BY <2>1, <2>2
<1> QED
  BY <1>1, <1>2, <1>3, <1>4, <1>5, CallMoves

\* A commit whose request fails all the same.
LEMMA CommitRaises ==
  ASSUME PrInv, NEW c \in Calls, Raised(c, TRUE), Fault, calls[c].pc \in {"branch", "commit"},
         NEW b \in Branches, NEW tree \in Tree, Commit(calls[c].at, b, tree),
         Alone(c), UNCHANGED <<merger, world>>, PullRequestsAssumption
  PROVE  PrInv'
<1>1. /\ calls[c].at \in Repos /\ push' = push /\ merger' = merger
      /\ (calls[c].at = "fork" => ~ NoFork)
  BY CallTyped DEF Call, CallBase, Repos, world
<1>2. ReposTyped' /\ ReposFit' /\ (NoFork' => NoFork)
  BY <1>1, CommitRepos
<1>3. Moves /\ Grows
  BY CommitMoves DEF Moves
<1>4. faults' # 0 /\ (faults' = 0 => faults = 0)
  BY DEF Fault, PrInv, PullRequestsTypeOK
<1>5. OneEach' /\ ForkedForAReason'
  BY <1>1, <1>3, <1>4, MovesFit
<1>6. PICK new \in Call : /\ calls' = [calls EXCEPT ![c] = new] /\ CallBase(new)
                          /\ new.pc \in {"done", "fork", "find", "branch"}
  BY RaisedTo
<1>7. CallBase(new)'
  BY <1>1, <1>2, <1>6 DEF CallBase, Written
<1>8. CallTwice(new)'
  BY <1>4 DEF CallTwice
<1> QED
  BY <1>1, <1>2, <1>3, <1>5, <1>6, <1>7, <1>8, CallMoves

LEMMA EnsureBranchKeeps ==
  ASSUME PrInv, NEW c \in Calls, EnsureBranch(c), PullRequestsAssumption
  PROVE  PrInv'
<1>1. PICK call \in Call : call = calls[c]
  BY CallTyped
<1>2. /\ CallBase(call) /\ CallTwice(call) /\ call.req \in Requests /\ call.pc = "branch"
      /\ call.root \in Tree /\ call.todo = DOMAIN call.req.files /\ call.at \in Repos
      /\ (call.at = "fork" => ~ NoFork)
  BY <1>1, CallTyped DEF EnsureBranch, At, CallBase, Under, Call, Repos
<1>3. Alone(c) /\ UNCHANGED <<merger, world>>
  BY DEF EnsureBranch, At
<1>4. CASE call.req.head \in DOMAIN repos[call.at] /\ Goto(c, "commit")
           /\ UNCHANGED <<github, faults>>
  <2> DEFINE new == [call EXCEPT !.pc = "commit"]
  <2>1. /\ new \in Call /\ new.pc = "commit" /\ new.at = call.at /\ new.req = call.req
        /\ new.base = call.base /\ new.root = call.root /\ new.todo = call.todo
    BY DEF Call, Blocking
  <2>2. calls' = [calls EXCEPT ![c] = new]
    BY <1>1, <1>4 DEF Goto, Set
  <2> HIDE DEF new
  <2>3. CallBase(new) /\ CallTwice(new)
    BY <1>2, <1>4, <2>1 DEF CallBase, CallTwice, Written, Under
  <2> QED
    BY <1>3, <1>4, <2>1, <2>2, <2>3, CallThinks
<1>5. CASE Fault /\ Raised(c, FALSE) /\ UNCHANGED github
  BY <1>1, <1>2, <1>3, <1>5, RaisedKeeps
<1>6. CASE /\ Commit(call.at, call.req.head,
                     IF call.again THEN repos[call.at][Default] ELSE call.root)
           /\ Fault /\ Raised(c, TRUE)
  <2>1. PICK tree \in Tree : tree = IF call.again THEN repos[call.at][Default] ELSE call.root
    BY <1>2, ReposAreTyped DEF ReposTyped, ReposFit, IsRepo, Repos
  <2>2. Commit(call.at, call.req.head, tree) /\ call.req.head \in Branches
    BY <1>2, <1>6, <2>1, RequestTyped
  <2> QED
    BY <1>1, <1>2, <1>3, <1>6, <2>2, CommitRaises
<1>7. CASE /\ Commit(call.at, call.req.head,
                     IF call.again THEN repos[call.at][Default] ELSE call.root)
           /\ Set(c, [call EXCEPT !.pc = "commit", !.wrote = TRUE]) /\ UNCHANGED faults
  <2>1. PICK tree \in Tree : tree = IF call.again THEN repos[call.at][Default] ELSE call.root
    BY <1>2, ReposAreTyped DEF ReposTyped, ReposFit, IsRepo, Repos
  <2> DEFINE new == [call EXCEPT !.pc = "commit", !.wrote = TRUE]
  <2>2. /\ new \in Call /\ new.pc = "commit" /\ new.at = call.at /\ new.req = call.req
        /\ new.base = call.base /\ new.root = call.root /\ new.todo = call.todo
    BY DEF Call, Blocking
  <2>3. calls' = [calls EXCEPT ![c] = new]
    BY <1>7 DEF Set
  <2> HIDE DEF new
  <2>4. Commit(call.at, call.req.head, tree) /\ call.req.head \in Branches
    BY <1>2, <1>7, <2>1, RequestTyped
  <2>5. (NoFork' => NoFork) /\ call.req.head \in DOMAIN repos'[call.at]
    BY <1>2, <2>4, CommitRepos
  <2>6. CallBase(new)'
    BY <1>2, <1>3, <2>2, <2>5 DEF CallBase, Written, Under, world
  <2> QED
    BY <1>1, <1>2, <1>3, <1>7, <2>2, <2>3, <2>4, <2>6, CommitKeeps DEF Under
<1> QED
  BY <1>1, <1>4, <1>5, <1>7, <1>6 DEF EnsureBranch

LEMMA CommitFileKeeps ==
  ASSUME PrInv, NEW c \in Calls, CommitFile(c), PullRequestsAssumption
  PROVE  PrInv'
<1>1. PICK call \in Call : call = calls[c]
  BY CallTyped
<1>2. /\ CallBase(call) /\ CallTwice(call) /\ call.req \in Requests /\ call.pc = "commit"
      /\ call.root \in Tree /\ call.todo \subseteq DOMAIN call.req.files /\ call.at \in Repos
      /\ (call.at = "fork" => ~ NoFork) /\ call.req.head \in DOMAIN repos[call.at] /\ Written(call)
  BY <1>1, CallTyped DEF CommitFile, At, CallBase, Under, Call, Repos, Written
<1>3. Alone(c) /\ UNCHANGED <<merger, world>>
  BY DEF CommitFile, At
<1>4. CASE Fault /\ Raised(c, FALSE) /\ UNCHANGED github
  BY <1>1, <1>2, <1>3, <1>4, RaisedKeeps
<1>5. ASSUME NEW p \in call.todo, Fault, Raised(c, TRUE),
             Commit(call.at, call.req.head,
                    [repos[call.at][call.req.head] EXCEPT ![p] = call.req.files[p]])
      PROVE  PrInv'
  <2>1. repos[call.at][call.req.head] \in Tree
    BY <1>2, ReposAreTyped DEF ReposTyped, IsRepo
  <2>2. /\ p \in Paths /\ call.req.files[p] \in Contents /\ call.req.head \in Branches
    BY <1>2, <1>5, RequestTyped
  <2>3. PICK tree \in Tree :
          tree = [repos[call.at][call.req.head] EXCEPT ![p] = call.req.files[p]]
    BY <2>1, <2>2 DEF Tree
  <2>4. Commit(call.at, call.req.head, tree)
    BY <1>5, <2>3
  <2> QED
    BY <1>1, <1>2, <1>3, <1>5, <2>2, <2>4, CommitRaises
<1>6. ASSUME NEW p \in call.todo, UNCHANGED faults,
             Commit(call.at, call.req.head,
                    [repos[call.at][call.req.head] EXCEPT ![p] = call.req.files[p]]),
             Set(c, [call EXCEPT !.todo = @ \ {p}, !.wrote = TRUE,
                                 !.pc = IF call.todo = {p} THEN "open" ELSE "commit"])
      PROVE  PrInv'
  <2>1. repos[call.at][call.req.head] \in Tree
    BY <1>2, ReposAreTyped DEF ReposTyped, IsRepo
  <2>2. /\ p \in Paths /\ p \in DOMAIN call.req.files /\ call.req.files[p] \in Contents
        /\ call.req.head \in Branches
    BY <1>2, <1>6, RequestTyped
  <2> DEFINE tree == [repos[call.at][call.req.head] EXCEPT ![p] = call.req.files[p]]
  <2>3. /\ tree \in Tree /\ tree[p] = call.req.files[p]
        /\ \A q \in Paths : q # p => tree[q] = repos[call.at][call.req.head][q]
    BY <2>1, <2>2 DEF Tree
  <2>4. PICK pc \in {"open", "commit"} : pc = IF call.todo = {p} THEN "open" ELSE "commit"
    OBVIOUS
  <2>5. PICK todo \in SUBSET Paths : todo = call.todo \ {p}
    BY <1>2, RequestTyped
  <2> DEFINE new == [call EXCEPT !.todo = todo, !.wrote = TRUE, !.pc = pc]
  <2>6. /\ new \in Call /\ new.pc = pc /\ new.at = call.at /\ new.req = call.req
        /\ new.base = call.base /\ new.root = call.root /\ new.todo = todo
    BY DEF Call, Blocking
  <2>7. calls' = [calls EXCEPT ![c] = new]
    BY <1>6, <2>4, <2>5 DEF Set
  <2>8. Commit(call.at, call.req.head, tree)
    BY <1>6
  <2> HIDE DEF new, tree
  <2>9. /\ (NoFork' => NoFork) /\ call.req.head \in DOMAIN repos'[call.at]
        /\ repos'[call.at][call.req.head] = tree
    BY <1>2, <2>2, <2>3, <2>8, CommitRepos
  <2>10. Written(new)'
    <3>1. CASE MergedInto(call.at, call.req.head)
      <4>1. MergedInto(call.at, call.req.head)'
        BY <2>8, <3>1, CommitMoves, GrowsEnded DEF Moves
      <4> QED
        BY <2>6, <2>9, <4>1 DEF Written
    <3>2. CASE ~ MergedInto(call.at, call.req.head)
      <4>1. \A q \in DOMAIN call.req.files \ call.todo :
               repos[call.at][call.req.head][q] = call.req.files[q]
        BY <1>2, <3>2 DEF Written
      <4>2. \A q \in DOMAIN call.req.files \ todo : tree[q] = call.req.files[q]
        BY <1>2, <2>3, <2>5, <4>1, RequestTyped
      <4> QED
        BY <2>6, <2>9, <4>2 DEF Written
    <3> QED
      BY <3>1, <3>2
  <2>11. CallBase(new)'
    BY <1>2, <1>3, <2>4, <2>5, <2>6, <2>9, <2>10 DEF CallBase, Under, world
  <2> QED
    BY <1>1, <1>2, <1>3, <1>6, <2>2, <2>3, <2>4, <2>6, <2>7, <2>8, <2>11, CommitKeeps DEF Under
<1> QED
  BY <1>1, <1>4, <1>6, <1>5 DEF CommitFile

\* A new pull request: the only one of its kind, and on the fork for a reason.
LEMMA NewPrTyped ==
  ASSUME PrInv, NEW c \in Calls, calls[c].pc = "open", PullRequestsAssumption
  PROVE  NewPr(c) \in Pr
<1>1. PICK call \in Call : call = calls[c]
  BY CallTyped
<1>2. call.req \in Requests
  BY <1>1, CallTyped DEF CallBase, Under
<1> QED
  BY <1>1, <1>2, RequestTyped DEF NewPr, Pr, Call

LEMMA NewPrFits ==
  ASSUME PrInv, NEW c \in Calls, calls[c].pc = "open", SameAs(c) = {}, Len(prs) < MaxPrs,
         prs' = Append(prs, NewPr(c)), UNCHANGED push, faults' = 0 => faults = 0,
         PullRequestsAssumption
  PROVE  Grows /\ OneEach' /\ ForkedForAReason'
<1>1. PICK call \in Call : call = calls[c]
  BY CallTyped
<1>2. /\ CallBase(call) /\ CallTwice(call) /\ call.req \in Requests /\ call.pc = "open"
      /\ (~ push => call.at = "fork")
      /\ (faults = 0 /\ push /\ call.at = "fork" => EndedOne(call.req.head, call.base))
  BY <1>1, CallTyped DEF CallBase, CallTwice, Under
<1>3. PICK pr \in Pr : pr = NewPr(c)
  BY NewPrTyped
<1>4. pr.from = call.at /\ pr.head = call.req.head /\ pr.base = call.base /\ pr.state = "open"
  BY <1>1, <1>3 DEF NewPr
<1>5. /\ Grows /\ Len(prs') = Len(prs) + 1 /\ prs'[Len(prs) + 1] = pr
      /\ \A n \in 1 .. Len(prs) : prs'[n] = prs[n]
  BY <1>3, AppendGrows
<1>6. /\ DOMAIN prs = 1 .. Len(prs) /\ DOMAIN prs' = 1 .. Len(prs) + 1 /\ Len(prs) \in Nat
  BY <1>5, PrsTyped, LenProperties DEF Grows
<1>7. \A n \in DOMAIN prs : /\ prs[n].state = "open" /\ prs[n].from = pr.from
                            => ~ (prs[n].head = pr.head /\ prs[n].base = pr.base)
  BY <1>1, <1>4 DEF SameAs
<1>8. OneEach'
  <2> SUFFICES ASSUME NEW m \in DOMAIN prs', NEW n \in DOMAIN prs', Open(m)', Open(n)',
                      prs'[m].from = prs'[n].from, prs'[m].head = prs'[n].head,
                      prs'[m].base = prs'[n].base
               PROVE  m = n
    BY DEF OneEach, Between
  <2>1. CASE m \in DOMAIN prs /\ n \in DOMAIN prs
    BY <1>5, <1>6, <2>1 DEF PrInv, OneEach, Open, Between
  <2>2. CASE m = Len(prs) + 1 /\ n \in DOMAIN prs
    BY <1>5, <1>6, <1>7, <2>2 DEF Open
  <2>3. CASE n = Len(prs) + 1 /\ m \in DOMAIN prs
    BY <1>5, <1>6, <1>7, <2>3 DEF Open
  <2> QED
    BY <1>6, <2>1, <2>2, <2>3
<1>9. ForkedForAReason'
  <2> SUFFICES ASSUME NEW n \in DOMAIN prs'
               PROVE  /\ ~ push => prs'[n].from = "fork"
                      /\ faults = 0 /\ push /\ prs'[n].from = "fork" =>
                           \E k \in DOMAIN prs' : k < n /\ ~ Open(k)'
                             /\ prs'[k].head = prs'[n].head /\ prs'[k].base = prs'[n].base
    BY DEF ForkedForAReason, Between
  <2>1. ASSUME NEW k \in DOMAIN prs, ~ Open(k) PROVE k \in DOMAIN prs' /\ ~ Open(k)'
    BY <1>5, <1>6, <2>1 DEF Open
  <2>2. CASE n \in DOMAIN prs
    BY <1>5, <1>6, <2>1, <2>2 DEF PrInv, ForkedForAReason, Between
  <2>3. CASE n = Len(prs) + 1
    <3>1. ~ push => prs'[n].from = "fork"
      BY <1>2, <1>4, <1>5, <2>3
    <3>2. ASSUME faults = 0, push, prs'[n].from = "fork"
          PROVE  \E k \in DOMAIN prs' : k < n /\ ~ Open(k)'
                    /\ prs'[k].head = prs'[n].head /\ prs'[k].base = prs'[n].base
      <4>1. PICK k \in DOMAIN prs : ~ Open(k) /\ Between(k, call.req.head, call.base)
        BY <1>2, <1>4, <1>5, <2>3, <3>2 DEF EndedOne
      <4>2. k < n /\ k \in DOMAIN prs' /\ ~ Open(k)' /\ prs'[k] = prs[k]
        BY <1>5, <1>6, <2>1, <2>3, <4>1
      <4> QED
        BY <1>4, <1>5, <2>3, <4>1, <4>2 DEF Between
    <3> QED
      BY <3>1, <3>2
  <2> QED
    BY <1>6, <2>2, <2>3
<1> QED
  BY <1>5, <1>8, <1>9

LEMMA CreatePullKeeps ==
  ASSUME PrInv, NEW c \in Calls, CreatePull(c), PullRequestsAssumption
  PROVE  PrInv'
<1>1. /\ Alone(c) /\ UNCHANGED <<merger, world>> /\ calls[c].pc = "open"
      /\ push' = push /\ merger' = merger
  BY DEF CreatePull, At, world
<1>2. CASE SameAs(c) # {}
  BY <1>1, <1>2, RaisedKeeps DEF CreatePull
<1>3. CASE SameAs(c) = {} /\ Raised(c, FALSE) /\ Fault /\ UNCHANGED <<github>>
  BY <1>1, <1>3, RaisedKeeps
<1>4. CASE /\ SameAs(c) = {} /\ Len(prs) < MaxPrs /\ repos' = repos
           /\ prs' = Append(prs, NewPr(c))
           /\ \/ Return(c, "ok") /\ UNCHANGED faults
              \/ Fault /\ Raised(c, TRUE)
  <2>1. Fault \/ UNCHANGED faults
    BY <1>4
  <2>2. faults' = 0 => faults = 0
    BY <2>1 DEF Fault, PrInv, PullRequestsTypeOK
  <2>3. Grows /\ OneEach' /\ ForkedForAReason'
    BY <1>1, <1>4, <2>2, NewPrFits
  <2>4. ReposTyped' /\ ReposFit' /\ (NoFork' => NoFork)
    BY <1>4, ReposAreTyped DEF ReposTyped, ReposFit, NoFork
  <2>5. CASE Return(c, "ok") /\ UNCHANGED faults
    <3> DEFINE new == [Idle EXCEPT !.pc = "done", !.out = "ok"]
    <3>1. new \in Call /\ new.pc = "done" /\ new.at = "upstream"
      BY DEF Idle, Call, Blocking, Branches, Default
    <3>2. calls' = [calls EXCEPT ![c] = new]
      BY <2>5 DEF Return, Set
    <3> HIDE DEF new
    <3>3. CallBase(new)' /\ CallTwice(new)'
      BY <3>1 DEF CallBase, CallTwice, Written, Under
    <3> QED
      BY <1>1, <2>1, <2>3, <2>4, <3>1, <3>2, <3>3, CallMoves
  <2>6. CASE Fault /\ Raised(c, TRUE)
    <3>1. PICK new \in Call : /\ calls' = [calls EXCEPT ![c] = new] /\ CallBase(new)
                              /\ new.pc \in {"done", "fork", "find", "branch"}
      BY <1>1, <2>6, RaisedTo
    <3>2. CallBase(new)'
      BY <1>1, <1>4, <3>1 DEF CallBase, Written, NoFork
    <3>3. CallTwice(new)'
      BY <2>6 DEF CallTwice, Fault, PrInv, PullRequestsTypeOK
    <3> QED
      BY <1>1, <2>1, <2>3, <2>4, <3>1, <3>2, <3>3, CallMoves
  <2> QED
    BY <1>4, <2>5, <2>6
<1> QED
  BY <1>2, <1>3, <1>4 DEF CreatePull, github

LEMMA FindOpenPrKeeps ==
  ASSUME PrInv, NEW c \in Calls, FindOpenPr(c), PullRequestsAssumption
  PROVE  PrInv'
<1>1. Alone(c) /\ UNCHANGED <<github, merger, world>> /\ calls[c].pc = "find"
  BY DEF FindOpenPr, At
<1>2. CASE Return(c, "existing") /\ UNCHANGED faults
  BY <1>1, <1>2, ReturnKeeps
<1>3. CASE Raised(c, FALSE) /\ (Fault \/ (UNCHANGED faults /\ SameAs(c) = {}))
  BY <1>1, <1>3, RaisedKeeps
<1> QED
  BY <1>2, <1>3 DEF FindOpenPr

LEMMA OnForkTyped ==
  ASSUME PrInv, NEW c \in Calls, NEW wrote \in BOOLEAN, OnFork(c, wrote),
         calls[c].pc = "fork", PullRequestsAssumption
  PROVE  \E new \in Call :
           /\ calls' = [calls EXCEPT ![c] = new] /\ new.at = "fork"
           /\ new.pc \in {"branch", "poll"} /\ new.req = calls[c].req /\ new.base = calls[c].base
           /\ new.root = calls[c].root /\ new.todo = DOMAIN new.req.files /\ new.req \in Requests
<1>1. PICK call \in Call : call = calls[c]
  BY CallTyped
<1>2. call.req \in Requests /\ call.wrote \in BOOLEAN
  BY <1>1, CallTyped DEF CallBase, Under, Call
<1>3. PICK todo \in SUBSET Paths : todo = DOMAIN call.req.files
  BY <1>2, RequestTyped
<1>4. PICK pc \in {"branch", "poll"} : pc = IF wrote THEN "poll" ELSE "branch"
  OBVIOUS
<1>5. PICK written \in BOOLEAN : written = (call.wrote \/ wrote)
  BY <1>2
<1> DEFINE half == [call EXCEPT !.at = "fork", !.todo = todo]
<1>6. /\ half \in Call /\ half.at = "fork" /\ half.req = call.req /\ half.base = call.base
      /\ half.root = call.root /\ half.todo = todo
  BY DEF Call
<1> DEFINE new == [half EXCEPT !.pc = pc, !.wrote = written]
<1>7. new = [call EXCEPT !.at = "fork", !.todo = todo, !.pc = pc, !.wrote = written]
  OBVIOUS
<1>8. calls' = [calls EXCEPT ![c] = new]
  BY <1>1, <1>3, <1>4, <1>5, <1>7 DEF OnFork, Set
<1> HIDE DEF half
<1>9. /\ new \in Call /\ new.at = "fork" /\ new.req = call.req /\ new.base = call.base
      /\ new.root = call.root /\ new.todo = todo /\ new.pc = pc
  BY <1>6 DEF Call, Blocking
<1> HIDE DEF new
<1> QED
  BY <1>1, <1>2, <1>3, <1>8, <1>9

LEMMA ForkKeeps ==
  ASSUME PrInv, NEW c \in Calls, Fork(c), PullRequestsAssumption
  PROVE  PrInv'
<1>1. /\ Alone(c) /\ UNCHANGED <<merger, world>> /\ calls[c].pc = "fork"
      /\ push' = push /\ merger' = merger
  BY DEF Fork, At, world
<1>2. CASE Fault /\ Return(c, "failed") /\ UNCHANGED github
  BY <1>1, <1>2, ReturnKeeps
<1>3. ASSUME NEW wrote \in BOOLEAN, ~ NoFork, OnFork(c, wrote), UNCHANGED github,
             Fault \/ (~ wrote /\ UNCHANGED faults)
      PROVE  PrInv'
  <2>1. PICK new \in Call :
           /\ calls' = [calls EXCEPT ![c] = new] /\ new.at = "fork"
           /\ new.pc \in {"branch", "poll"} /\ new.req = calls[c].req /\ new.base = calls[c].base
           /\ new.root = calls[c].root /\ new.todo = DOMAIN new.req.files /\ new.req \in Requests
    BY <1>1, <1>3, OnForkTyped
  <2>2. CallBase(new) /\ CallTwice(new)
    BY <1>1, <1>3, <2>1, CallTyped DEF CallBase, CallTwice, Written, Under
  <2> QED
    BY <1>1, <1>3, <2>1, <2>2, CallThinks
<1>4. CASE /\ NoFork /\ Fault /\ Return(c, "failed") /\ UNCHANGED prs
           /\ repos' = [repos EXCEPT !["fork"] = repos["upstream"]]
  <2>1. ReposTyped' /\ ReposFit' /\ (NoFork' => NoFork)
    BY <1>4, ForkRepos
  <2>2. Moves /\ Grows
    BY <1>4, StaysMoves DEF Moves
  <2>3. OneEach' /\ ForkedForAReason'
    BY <1>1, <1>4, <2>2, MovesFit DEF Fault, PrInv, PullRequestsTypeOK
  <2> DEFINE new == [Idle EXCEPT !.pc = "done", !.out = "failed"]
  <2>4. new \in Call /\ new.pc = "done" /\ new.at = "upstream"
    BY DEF Idle, Call, Blocking, Branches, Default
  <2>5. calls' = [calls EXCEPT ![c] = new]
    BY <1>4 DEF Return, Set
  <2> HIDE DEF new
  <2>6. CallBase(new)' /\ CallTwice(new)'
    BY <2>4 DEF CallBase, CallTwice, Written, Under
  <2> QED
    BY <1>1, <1>4, <2>1, <2>2, <2>3, <2>4, <2>5, <2>6, CallMoves
<1>5. CASE /\ NoFork /\ OnFork(c, TRUE) /\ repos' = [repos EXCEPT !["fork"] = repos["upstream"]]
           /\ UNCHANGED <<prs, faults>>
  <2>1. PICK new \in Call :
           /\ calls' = [calls EXCEPT ![c] = new] /\ new.at = "fork"
           /\ new.pc \in {"branch", "poll"} /\ new.req = calls[c].req /\ new.base = calls[c].base
           /\ new.root = calls[c].root /\ new.todo = DOMAIN new.req.files /\ new.req \in Requests
    BY <1>1, <1>5, OnForkTyped
  <2>2. ReposTyped' /\ ReposFit' /\ (NoFork' => NoFork) /\ ~ NoFork'
    BY <1>5, ForkRepos
  <2>3. Moves /\ Grows
    BY <1>5, StaysMoves DEF Moves
  <2>4. OneEach' /\ ForkedForAReason'
    BY <1>1, <1>5, <2>3, MovesFit
  <2>5. CallBase(new)'
    BY <1>1, <2>1, <2>2, CallTyped DEF CallBase, Written, Under
  <2>6. CallTwice(new)'
    BY <1>1, <1>5, <2>1, CallTyped DEF CallTwice, Under, EndedOne, Open, Between
  <2> QED
    BY <1>1, <1>5, <2>1, <2>2, <2>3, <2>4, <2>5, <2>6, CallMoves
<1> QED
  BY <1>2, <1>3, <1>5, <1>4 DEF Fork, github

LEMMA PollForkKeeps ==
  ASSUME PrInv, NEW c \in Calls, PollFork(c), PullRequestsAssumption
  PROVE  PrInv'
<1>1. Alone(c) /\ UNCHANGED <<github, merger, world, faults>> /\ calls[c].pc = "poll"
  BY DEF PollFork, At
<1>2. CASE Return(c, "failed")
  BY <1>1, <1>2, ReturnKeeps
<1>3. CASE Goto(c, "branch")
  <2>1. PICK call \in Call : call = calls[c]
    BY CallTyped
  <2>2. CallBase(call) /\ CallTwice(call)
    BY <2>1, CallTyped
  <2> DEFINE new == [call EXCEPT !.pc = "branch"]
  <2>3. /\ new \in Call /\ new.pc = "branch" /\ new.at = call.at /\ new.req = call.req
        /\ new.base = call.base /\ new.root = call.root /\ new.todo = call.todo
    BY DEF Call, Blocking
  <2>4. calls' = [calls EXCEPT ![c] = new]
    BY <1>3, <2>1 DEF Goto, Set
  <2> HIDE DEF new
  <2>5. CallBase(new)
    BY <1>1, <2>1, <2>2, <2>3 DEF CallBase, Written, Under
  <2>6. CallTwice(new)
    BY <1>1, <2>1, <2>2, <2>3 DEF CallTwice, Under
  <2> QED
    BY <1>1, <2>3, <2>4, <2>5, <2>6, CallThinks
<1> QED
  BY <1>2, <1>3 DEF PollFork

LEMMA IdleCall == Idle \in Call /\ CallBase(Idle) /\ CallTwice(Idle)
<1>1. /\ Idle \in Call /\ Idle.pc = "idle" /\ Idle.at = "upstream" /\ ~ Idle.wrote
  BY DEF Idle, Call, Blocking, Branches, Default
<1> QED
  BY <1>1 DEF CallBase, CallTwice, Written, Under

LEMMA EndKeeps ==
  ASSUME PrInv, NEW c \in Calls, End(c), PullRequestsAssumption
  PROVE  PrInv'
  BY IdleCall, CallThinks DEF End, At, Set

-----------------------------------------------------------------------------
(* github_merge_pr and people: no call moves *)

LEMMA WorldMoves ==
  ASSUME PrInv, calls' = calls, UNCHANGED world, Fault \/ UNCHANGED faults, Moves,
         ReposTyped', ReposFit', NoFork' => NoFork, \A d \in Calls : Kept(calls[d]),
         MergerFits', merger' \in Merger, merger'.n <= Len(prs'), PullRequestsAssumption
  PROVE  PrInv'
<1>1. /\ faults' \in 0 .. MaxMishaps /\ (faults' = 0 => faults = 0) /\ push' = push
      /\ push \in BOOLEAN /\ crashes' \in 0 .. MaxMishaps /\ Grows
  BY DEF PrInv, PullRequestsTypeOK, Fault, world, PullRequestsAssumption, Moves
<1>2. ASSUME NEW d \in Calls PROVE (CallBase(calls[d]) /\ CallTwice(calls[d]))'
  <2>1. PICK call \in Call : call = calls[d] /\ calls'[d] = call
    BY CallTyped
  <2>2. CallBase(call)' /\ CallTwice(call)'
    BY <1>1, <2>1, CallTyped, CallStays
  <2> QED
    BY <2>1, <2>2
<1>3. OneEach' /\ ForkedForAReason'
  BY <1>1, MovesFit
<1>4. PullRequestsTypeOK'
  BY <1>1 DEF PullRequestsTypeOK, ReposTyped, Repos, Grows, PrInv
<1> QED
  BY <1>2, <1>3, <1>4 DEF PrInv

\* Nothing on GitHub changes but, maybe, one pull request.
LEMMA QuietMoves ==
  ASSUME PrInv, calls' = calls, UNCHANGED world, Fault \/ UNCHANGED faults, Moves,
         repos' = repos, MergerFits', merger' \in Merger, merger'.n <= Len(prs'),
         PullRequestsAssumption
  PROVE  PrInv'
<1>1. ReposTyped' /\ ReposFit' /\ (NoFork' => NoFork)
  BY ReposAreTyped DEF ReposTyped, ReposFit, NoFork
<1>2. \A d \in Calls : Kept(calls[d])
  BY CallTyped DEF Kept, CallBase, Written
<1> QED
  BY <1>1, <1>2, WorldMoves

LEMMA MergerTyped ==
  ASSUME PrInv
  PROVE  /\ merger \in Merger /\ merger.n <= Len(prs) /\ MergerFits
         /\ merger.pc # "idle" => merger.n \in DOMAIN prs /\ prs[merger.n] \in Pr
  BY PrsTyped DEF PrInv, PullRequestsTypeOK, MergerFits

\* The merger moves and GitHub does not.
LEMMA MergerThinks ==
  ASSUME PrInv, NEW new \in Merger, merger' = new, UNCHANGED <<github, calls, world>>,
         Fault \/ UNCHANGED faults, PullRequestsAssumption,
         new.pc # "idle" => new.n \in DOMAIN prs, new.n <= Len(prs),
         new.merged => new.pc = "done" /\ new.out = "ok",
         new.pc # "delete",
         new.pc = "done" /\ new.out = "ok" => prs[new.n].state = "merged"
  PROVE  PrInv'
<1>1. UNCHANGED <<repos, prs, calls>>
  BY DEF github
<1>2. Moves
  BY <1>1, StaysMoves
<1>3. MergerFits'
  BY <1>1 DEF MergerFits, MergeIsReported
<1> QED
  BY <1>1, <1>2, <1>3, QuietMoves

LEMMA MergeEndsTyped ==
  ASSUME PrInv, NEW out \in {"ok", "refused", "failed"}, MergeEnds(out)
  PROVE  \E new \in Merger : /\ merger' = new /\ new.pc = "done" /\ new.out = out
                             /\ new.n = merger.n /\ new.merged = merger.merged
<1> DEFINE new == [merger EXCEPT !.pc = "done", !.out = out, !.health = "unknown"]
<1>1. /\ new \in Merger /\ new.pc = "done" /\ new.out = out /\ new.n = merger.n
      /\ new.merged = merger.merged
  BY MergerTyped DEF Merger
<1>2. merger' = new
  BY DEF MergeEnds
<1> HIDE DEF new
<1> QED
  BY <1>1, <1>2

\* A merge that ends before anything was merged.
LEMMA RefusedKeeps ==
  ASSUME PrInv, NEW out \in {"ok", "refused", "failed"}, MergeEnds(out), ~ merger.merged,
         merger.pc # "idle", out = "ok" => prs[merger.n].state = "merged",
         UNCHANGED <<github, calls, world>>, Fault \/ UNCHANGED faults, PullRequestsAssumption
  PROVE  PrInv'
<1>1. PICK new \in Merger : /\ merger' = new /\ new.pc = "done" /\ new.out = out
                            /\ new.n = merger.n /\ new.merged = merger.merged
  BY MergeEndsTyped
<1> QED
  BY <1>1, MergerTyped, MergerThinks

LEMMA BeginMergeKeeps ==
  ASSUME PrInv, NEW n \in DOMAIN prs, BeginMerge(n), PullRequestsAssumption
  PROVE  PrInv'
<1> DEFINE new == [Resting EXCEPT !.pc = "read", !.n = n]
<1>1. n \in Nat /\ n <= Len(prs)
  BY PrsTyped
<1>2. new \in Merger /\ new.pc = "read" /\ new.n = n /\ ~ new.merged
  BY <1>1 DEF Merger, Resting
<1>3. merger' = new
  BY DEF BeginMerge
<1> HIDE DEF new
<1> QED
  BY <1>1, <1>2, <1>3, MergerThinks DEF BeginMerge

LEMMA ReadPrKeeps ==
  ASSUME PrInv, ReadPr, PullRequestsAssumption
  PROVE  PrInv'
<1>1. /\ merger.pc = "read" /\ UNCHANGED <<github, calls, world, faults>> /\ ~ merger.merged
      /\ prs[merger.n] \in Pr
  BY MergerTyped DEF ReadPr, AtMerge, MergerFits
<1>2. PICK pr \in Pr : pr = prs[merger.n]
  BY <1>1
<1>3. CASE pr.state = "merged"
  <2>1. MergeEnds("ok")
    BY <1>2, <1>3 DEF ReadPr
  <2> QED
    BY <1>1, <1>2, <1>3, <2>1, RefusedKeeps
<1>4. CASE pr.state = "closed"
  <2>1. MergeEnds("refused")
    BY <1>2, <1>4 DEF ReadPr
  <2> QED
    BY <1>1, <2>1, RefusedKeeps
<1>5. CASE pr.state = "open"
  <2>1. PICK pc \in {"poll", "decide"} : pc = IF pr.health = "unknown" THEN "poll" ELSE "decide"
    OBVIOUS
  <2> DEFINE new == [merger EXCEPT !.health = pr.health, !.pc = pc]
  <2>2. new \in Merger /\ new.pc = pc /\ new.n = merger.n /\ new.merged = merger.merged
    BY MergerTyped DEF Merger, Pr
  <2>3. merger' = new
    BY <1>2, <1>5, <2>1 DEF ReadPr
  <2> HIDE DEF new
  <2> QED
    BY <1>1, <2>2, <2>3, MergerTyped, MergerThinks
<1> QED
  BY <1>3, <1>4, <1>5 DEF Pr

\* The merger goes on to decide or to merge.
LEMMA MergerGoesOn ==
  ASSUME PrInv, NEW pc \in {"decide", "merge"}, NEW health \in {"unknown", "clean", "bad"},
         merger' = [merger EXCEPT !.health = health, !.pc = pc], ~ merger.merged,
         merger.pc # "idle", UNCHANGED <<github, calls, world>>, Fault \/ UNCHANGED faults,
         PullRequestsAssumption
  PROVE  PrInv'
<1> DEFINE new == [merger EXCEPT !.health = health, !.pc = pc]
<1>1. new \in Merger /\ new.pc = pc /\ new.n = merger.n /\ new.merged = merger.merged
  BY MergerTyped DEF Merger
<1>2. merger' = new
  OBVIOUS
<1> HIDE DEF new
<1> QED
  BY <1>1, <1>2, MergerTyped, MergerThinks

LEMMA PollPrKeeps ==
  ASSUME PrInv, PollPr, PullRequestsAssumption
  PROVE  PrInv'
<1>1. /\ merger.pc = "poll" /\ UNCHANGED <<github, calls, world, faults>> /\ ~ merger.merged
      /\ merger \in Merger /\ prs[merger.n] \in Pr
  BY MergerTyped DEF PollPr, AtMerge, MergerFits
<1>2. PICK health \in {"unknown", "clean", "bad"} : health = prs[merger.n].health
  BY <1>1 DEF Pr
<1>3. CASE merger' = [merger EXCEPT !.health = prs[merger.n].health, !.pc = "decide"]
  BY <1>1, <1>2, <1>3, MergerGoesOn
<1>4. CASE MergerGoes("decide")
  <2>1. PICK old \in {"unknown", "clean", "bad"} : old = merger.health
    BY <1>1 DEF Merger
  <2>2. merger' = [merger EXCEPT !.health = old, !.pc = "decide"]
    BY <1>1, <1>4, <2>1 DEF MergerGoes, Merger
  <2> QED
    BY <1>1, <2>2, MergerGoesOn
<1> QED
  BY <1>3, <1>4 DEF PollPr

LEMMA DecideKeeps ==
  ASSUME PrInv, Decide, PullRequestsAssumption
  PROVE  PrInv'
<1>1. /\ merger.pc = "decide" /\ UNCHANGED <<github, calls, world>> /\ ~ merger.merged
      /\ merger \in Merger /\ (Fault \/ UNCHANGED faults)
  BY MergerTyped DEF Decide, AtMerge, MergerFits
<1>2. CASE MergeEnds("refused")
  BY <1>1, <1>2, RefusedKeeps
<1>3. CASE MergerGoes("merge")
  <2>1. PICK old \in {"unknown", "clean", "bad"} : old = merger.health
    BY <1>1 DEF Merger
  <2>2. merger' = [merger EXCEPT !.health = old, !.pc = "merge"]
    BY <1>1, <1>3, <2>1 DEF MergerGoes, Merger
  <2> QED
    BY <1>1, <2>2, MergerGoesOn
<1> QED
  BY <1>2, <1>3 DEF Decide

\* While nobody is between two commits, nobody relies on a branch.
LEMMA NobodyMinds ==
  ASSUME \A c \in Calls : calls[c].pc \notin Blocking
  PROVE  \A c \in Calls : Kept(calls[c])
  BY DEF Kept, Blocking

\* A pull request that is merged carries over what its branch has.
LEMMA LandKept ==
  ASSUME PrInv, NEW n \in DOMAIN prs, prs[n].state = "open",
         prs[n].head \in DOMAIN repos[prs[n].from], Land(n)
  PROVE  \A c \in Calls : Kept(calls[c])
<1> SUFFICES ASSUME NEW c \in Calls, calls[c].pc \in {"commit", "open"}
             PROVE  Kept(calls[c])
  BY DEF Kept
<1>1. PICK call \in Call : call = calls[c]
  BY CallTyped
<1>2. call.at \in Repos /\ call.req.head \in DOMAIN repos[call.at]
  BY <1>1, CallTyped DEF CallBase, Written, Call, Repos
<1>3. ReposStay
  BY LandRepos
<1>4. call.req.head \in DOMAIN repos'[call.at]
  BY <1>2, <1>3 DEF ReposStay
<1>5. CASE call.at = "upstream" /\ call.req.head = prs[n].base
  <2>1. Moves /\ prs'[n].state = "merged"
    BY LandMoves
  <2>2. n \in DOMAIN prs' /\ prs'[n].base = prs[n].base
    BY <2>1, PrsTyped, LenProperties DEF Moves, Grows, Later
  <2>3. \E m \in DOMAIN prs' : prs'[m].state = "merged" /\ prs'[m].base = call.req.head
    BY <1>5, <2>1, <2>2
  <2>4. NowMergedInto(call.at, call.req.head)
    BY <1>5, <2>3 DEF NowMergedInto
  <2> QED
    BY <1>1, <1>4, <2>4 DEF Kept
<1>6. CASE ~ (call.at = "upstream" /\ call.req.head = prs[n].base)
  <2>1. repos'[call.at][call.req.head] = repos[call.at][call.req.head]
    BY <1>2, <1>6, LandRepos
  <2> QED
    BY <1>1, <1>4, <2>1 DEF Kept
<1> QED
  BY <1>5, <1>6

LEMMA MergeKeeps ==
  ASSUME PrInv, Merge, PullRequestsAssumption
  PROVE  PrInv'
<1>1. /\ merger.pc = "merge" /\ UNCHANGED <<calls, world>> /\ ~ merger.merged
      /\ merger \in Merger /\ (Fault \/ UNCHANGED faults)
      /\ \A c \in Calls : calls[c].pc \notin Blocking
  BY MergerTyped DEF Merge, AtMerge, MergerFits
<1>2. PICK n \in DOMAIN prs : n = merger.n
  BY <1>1, MergerTyped
<1>3. CASE MergeEnds("failed") /\ UNCHANGED github
  BY <1>1, <1>3, RefusedKeeps
<1>4. CASE /\ prs[n].state = "open" /\ prs[n].head \in DOMAIN repos[prs[n].from] /\ Land(n)
           /\ \/ MergeEnds("failed")
              \/ merger' = [merger EXCEPT !.pc = "delete", !.merged = TRUE]
  <2>1. Moves /\ prs'[n].state = "merged"
    BY <1>4, LandMoves
  <2>2. ReposTyped' /\ ReposFit' /\ (NoFork' => NoFork)
    BY <1>4, LandRepos
  <2>3. \A c \in Calls : Kept(calls[c])
    BY <1>1, NobodyMinds
  <2>4. DOMAIN prs' = DOMAIN prs /\ Len(prs') = Len(prs) /\ merger.n <= Len(prs)
    BY <2>1, PrsTyped, LenProperties, MergerTyped DEF Moves, Grows
  <2>5. \E one \in Merger : /\ merger' = one /\ one.n = merger.n
                            /\ \/ one.pc = "done" /\ one.out = "failed" /\ ~ one.merged
                               \/ one.pc = "delete" /\ one.merged
    <3>1. CASE MergeEnds("failed")
      BY <1>1, <3>1, MergeEndsTyped
    <3>2. CASE merger' = [merger EXCEPT !.pc = "delete", !.merged = TRUE]
      <4> DEFINE going == [merger EXCEPT !.pc = "delete", !.merged = TRUE]
      <4>1. going \in Merger /\ going.pc = "delete" /\ going.n = merger.n /\ going.merged
        BY <1>1 DEF Merger
      <4>2. merger' = going
        BY <3>2
      <4> HIDE DEF going
      <4> QED
        BY <4>1, <4>2
    <3> QED
      BY <1>4, <3>1, <3>2
  <2>6. PICK new \in Merger : /\ merger' = new /\ new.n = merger.n
                              /\ \/ new.pc = "done" /\ new.out = "failed" /\ ~ new.merged
                                 \/ new.pc = "delete" /\ new.merged
    BY <2>5
  <2>7. MergerFits'
    BY <1>2, <2>1, <2>4, <2>6 DEF MergerFits, MergeIsReported
  <2> QED
    BY <1>1, <2>1, <2>2, <2>3, <2>4, <2>6, <2>7, WorldMoves
<1> QED
  BY <1>1, <1>2, <1>3, <1>4 DEF Merge, github

LEMMA DeleteBranchKeeps ==
  ASSUME PrInv, DeleteBranch, PullRequestsAssumption
  PROVE  PrInv'
<1>1. /\ merger.pc = "delete" /\ UNCHANGED <<prs, calls, world>> /\ MergeEnds("ok")
      /\ (Fault \/ UNCHANGED faults) /\ \A c \in Calls : calls[c].pc \notin Blocking
  BY DEF DeleteBranch, AtMerge
<1>2. PICK new \in Merger : /\ merger' = new /\ new.pc = "done" /\ new.out = "ok"
                            /\ new.n = merger.n /\ new.merged = merger.merged
  BY <1>1, MergeEndsTyped
<1>3. Moves
  BY <1>1, StaysMoves
<1>4. MergerFits' /\ merger' \in Merger /\ merger'.n <= Len(prs')
  BY <1>1, <1>2, MergerTyped DEF MergerFits, MergeIsReported
<1>5. CASE repos' = repos
  BY <1>1, <1>3, <1>4, <1>5, QuietMoves
<1>6. CASE prs[merger.n].head # Default /\ DeleteHead(merger.n)
  <2> DEFINE up == repos["upstream"]
             left == [b \in DOMAIN up \ {prs[merger.n].head} |-> up[b]]
  <2>1. IsRepo(up) /\ Default \in DOMAIN up
    BY ReposAreTyped DEF ReposTyped, ReposFit, Repos
  <2>2. IsRepo(left) /\ Default \in DOMAIN left
    BY <1>6, <2>1 DEF IsRepo
  <2>3. repos' = [repos EXCEPT !["upstream"] = left]
    BY <1>6 DEF DeleteHead
  <2> HIDE DEF left
  <2>4. ReposTyped' /\ ReposFit' /\ (NoFork' => NoFork)
    BY <2>2, <2>3, ReposAreTyped DEF ReposTyped, ReposFit, NoFork, Repos
  <2> QED
    BY <1>1, <1>3, <1>4, <2>4, NobodyMinds, WorldMoves
<1> QED
  BY <1>1, <1>5, <1>6 DEF DeleteBranch

LEMMA RestingTyped ==
  Resting \in Merger /\ Resting.pc = "idle" /\ Resting.n = 0 /\ ~ Resting.merged
  BY DEF Resting, Merger

LEMMA EndMergeKeeps ==
  ASSUME PrInv, EndMerge, PullRequestsAssumption
  PROVE  PrInv'
<1>1. PICK new \in Merger : new = Resting /\ new.pc = "idle" /\ new.n = 0 /\ ~ new.merged
  BY RestingTyped
<1> QED
  BY <1>1, MergerThinks, PrsTyped DEF EndMerge

LEMMA TouchedTyped ==
  ASSUME NEW pr \in Pr, NEW h \in {"clean", "bad"}
  PROVE  /\ [pr EXCEPT !.objected = TRUE] \in Pr /\ Later(pr, [pr EXCEPT !.objected = TRUE])
         /\ [pr EXCEPT !.health = h] \in Pr /\ Later(pr, [pr EXCEPT !.health = h])
<1>1. [pr EXCEPT !.objected = TRUE] \in Pr /\ [pr EXCEPT !.health = h] \in Pr
  BY DEF Pr
<1>2. Later(pr, [pr EXCEPT !.objected = TRUE])
  BY DEF Pr, Later
<1>3. Later(pr, [pr EXCEPT !.health = h])
  BY DEF Pr, Later
<1> QED
  BY <1>1, <1>2, <1>3

\* People change one pull request.
LEMMA PersonKeeps ==
  ASSUME PrInv, NEW n \in DOMAIN prs, NEW new \in Pr, Later(prs[n], new),
         prs' = [prs EXCEPT ![n] = new], UNCHANGED <<repos, calls, merger, world, faults>>,
         PullRequestsAssumption
  PROVE  PrInv'
<1>1. Moves /\ Grows
  BY OneMoves DEF Moves
<1>2. MergerFits' /\ merger' \in Merger /\ merger'.n <= Len(prs')
  BY <1>1, MergerStays
<1> QED
  BY <1>1, <1>2, QuietMoves

LEMMA WorldKeeps ==
  ASSUME PrInv, WorldStep, PullRequestsAssumption
  PROVE  PrInv'
<1>1. ASSUME NEW n \in DOMAIN prs, ClosePr(n) PROVE PrInv'
  <2>1. PICK new \in Pr : new = Ended(prs[n], "closed") /\ Later(prs[n], new)
    BY <1>1, PrsTyped, EndedTyped DEF ClosePr, Open
  <2>2. prs' = [prs EXCEPT ![n] = new]
    BY <1>1, <2>1 DEF ClosePr
  <2> QED
    BY <1>1, <2>1, <2>2, PersonKeeps DEF ClosePr
<1>2. ASSUME NEW n \in DOMAIN prs, Objects(n) PROVE PrInv'
  <2>0. PICK pr \in Pr : pr = prs[n]
    BY PrsTyped
  <2>1. PICK new \in Pr : new = [pr EXCEPT !.objected = TRUE] /\ Later(prs[n], new)
    BY <2>0, TouchedTyped
  <2>2. prs' = [prs EXCEPT ![n] = new]
    BY <1>2, <2>0, <2>1 DEF Objects
  <2> QED
    BY <1>2, <2>1, <2>2, PersonKeeps DEF Objects
<1>3. ASSUME NEW n \in DOMAIN prs, ChecksEnd(n) PROVE PrInv'
  <2>1. PICK h \in {"clean", "bad"} : prs' = [prs EXCEPT ![n].health = h]
    BY <1>3 DEF ChecksEnd
  <2>0. PICK pr \in Pr : pr = prs[n]
    BY PrsTyped
  <2>2. PICK new \in Pr : new = [pr EXCEPT !.health = h] /\ Later(prs[n], new)
    BY <2>0, TouchedTyped
  <2>3. prs' = [prs EXCEPT ![n] = new]
    BY <2>0, <2>1, <2>2
  <2> QED
    BY <1>3, <2>2, <2>3, PersonKeeps DEF ChecksEnd
<1>4. ASSUME NEW n \in DOMAIN prs, PersonMerges(n) PROVE PrInv'
  <2>1. /\ prs[n].state = "open" /\ prs[n].head \in DOMAIN repos[prs[n].from] /\ Land(n)
        /\ UNCHANGED <<calls, merger, world, faults>>
    BY <1>4 DEF PersonMerges, Open
  <2>2. Moves /\ Grows
    BY <2>1, LandMoves DEF Moves
  <2>3. MergerFits' /\ merger' \in Merger /\ merger'.n <= Len(prs')
    BY <2>1, <2>2, MergerStays
  <2>4. ReposTyped' /\ ReposFit' /\ (NoFork' => NoFork)
    BY <2>1, LandRepos
  <2> QED
    BY <2>1, <2>2, <2>3, <2>4, LandKept, WorldMoves
<1>5. ASSUME ForkRepository PROVE PrInv'
  <2>1. /\ UNCHANGED <<prs, calls, merger, world, faults>>
        /\ \A c \in Calls : calls[c].pc \notin Blocking
    BY <1>5 DEF ForkRepository
  <2>2. Moves /\ Grows
    BY <2>1, StaysMoves DEF Moves
  <2>3. ReposTyped' /\ ReposFit' /\ (NoFork' => NoFork)
    BY <1>5, ForkRepos DEF ForkRepository
  <2>4. MergerFits' /\ merger' \in Merger /\ merger'.n <= Len(prs')
    BY <2>1, <2>2, MergerStays
  <2> QED
    BY <2>1, <2>2, <2>3, <2>4, NobodyMinds, WorldMoves
<1> QED
  BY <1>1, <1>2, <1>3, <1>4, <1>5 DEF WorldStep

LEMMA CrashKeeps ==
  ASSUME PrInv, Crash, PullRequestsAssumption
  PROVE  PrInv'
<1>1. UNCHANGED <<repos, prs, push, faults>> /\ merger' = Resting /\ crashes' \in 0 .. MaxMishaps
  BY DEF Crash, github, PrInv, PullRequestsTypeOK, PullRequestsAssumption
<1>2. calls' \in [Calls -> Call] /\ \A c \in Calls : calls'[c] = Idle
  BY IdleCall DEF Crash
<1>3. (CallBase(Idle) /\ CallTwice(Idle))'
  <2>1. Idle.pc = "idle" /\ Idle.at = "upstream" /\ ~ Idle.wrote
    BY DEF Idle
  <2> QED
    BY <2>1 DEF CallBase, CallTwice, Written, Under
<1>4. MergerFits' /\ merger' \in Merger /\ merger'.n <= Len(prs')
  BY <1>1, RestingTyped, PrsTyped DEF MergerFits, MergeIsReported
<1>5. Moves
  BY <1>1, StaysMoves
<1>6. OneEach' /\ ForkedForAReason'
  BY <1>1, <1>5, MovesFit
<1>7. PullRequestsTypeOK' /\ ReposFit'
  BY <1>1, <1>2, <1>4 DEF PullRequestsTypeOK, PrInv, ReposFit, NoFork, IsRepo
<1> QED
  BY <1>2, <1>3, <1>4, <1>6, <1>7 DEF PrInv

-----------------------------------------------------------------------------
(* The specification *)

LEMMA PrInit ==
  ASSUME Init, PullRequestsAssumption
  PROVE  PrInv
<1>1. PICK t \in Tree :
        repos = [upstream |-> [b \in {"main", "dev"} |-> t], fork |-> [b \in {} |-> t]]
  BY DEF Init, Tree, Contents
<1>2. /\ repos = [r \in {"upstream", "fork"} |-> repos[r]]
      /\ IsRepo(repos["upstream"]) /\ IsRepo(repos["fork"]) /\ ReposFit
  BY <1>1 DEF IsRepo, ReposFit, NoFork, Branches, Default
<1>3. calls \in [Calls -> Call] /\ \A c \in Calls : CallBase(calls[c]) /\ CallTwice(calls[c])
  BY IdleCall DEF Init
<1>4. prs \in Seq(Pr) /\ Len(prs) = 0 /\ DOMAIN prs = {}
  BY EmptySeq, LenProperties DEF Init
<1>5. MergerFits /\ merger \in Merger /\ merger.n <= Len(prs)
  BY <1>4, RestingTyped DEF Init, MergerFits, MergeIsReported
<1>6. PullRequestsTypeOK
  BY <1>2, <1>3, <1>4, <1>5 DEF Init, PullRequestsTypeOK, PullRequestsAssumption
<1> QED
  BY <1>2, <1>3, <1>4, <1>5, <1>6 DEF PrInv, OneEach, ForkedForAReason

LEMMA PrInvStep ==
  ASSUME PrInv, [Next]_vars, PullRequestsAssumption
  PROVE  PrInv'
<1>1. ASSUME NEW c \in Calls, PrStep(c) PROVE PrInv'
  BY <1>1, InspectKeeps, CheckClaimsKeeps, EnsureBranchKeeps, CommitFileKeeps, CreatePullKeeps,
     FindOpenPrKeeps, ForkKeeps, PollForkKeeps, EndKeeps DEF PrStep
<1>2. ASSUME MergeStep PROVE PrInv'
  BY <1>2, BeginMergeKeeps, ReadPrKeeps, PollPrKeeps, DecideKeeps, MergeKeeps,
     DeleteBranchKeeps, EndMergeKeeps DEF MergeStep
<1>3. CASE UNCHANGED vars
  BY <1>3
  DEF vars, PrInv, PullRequestsTypeOK, ReposFit, CallBase, CallTwice, Written, MergedInto,
      EndedOne, Between, Open, OneEach, ForkedForAReason, MergerFits, MergeIsReported, NoFork,
      IsRepo
<1> QED
  BY <1>1, <1>2, <1>3, WorldKeeps, CrashKeeps DEF Next

\* The repositories, the pull requests, the calls and the merger agree in every state.
THEOREM PrInvHolds == Spec => []PrInv
<1>1. Init => PrInv
  BY PrInit, PullRequestsAssumption
<1>2. PrInv /\ [Next]_vars => PrInv'
  BY PrInvStep, PullRequestsAssumption
<1> QED
  BY <1>1, <1>2, PTL DEF Spec

\* Every variable of the repository tools keeps its type.
THEOREM PullRequestsTypeCorrect == Spec => []PullRequestsTypeOK
<1>1. PrInv => PullRequestsTypeOK
  BY DEF PrInv
<1> QED
  BY <1>1, PrInvHolds, PTL

\* However often github_pr runs again, one branch has one open pull request to a base,
\* unless GitHub failed or people ended an earlier one.
THEOREM OnePrHolds == Spec => []OnePr
<1>1. PrInv => OnePr
  <2> SUFFICES ASSUME PrInv, faults = 0, NEW m \in DOMAIN prs, NEW n \in DOMAIN prs, m < n,
                      Open(m), Open(n), Between(m, prs[n].head, prs[n].base)
               PROVE  \E k \in DOMAIN prs :
                        k < n /\ ~ Open(k) /\ Between(k, prs[n].head, prs[n].base)
    BY DEF OnePr
  <2>1. m \in Nat /\ n \in Nat /\ prs[m] \in Pr /\ prs[n] \in Pr /\ DOMAIN prs \subseteq Nat
    BY PrsTyped
  <2>2. prs[m].from # prs[n].from
    BY <2>1 DEF PrInv, OneEach
  <2>3. push \in BOOLEAN /\ prs[m].from \in {"upstream", "fork"} /\ prs[n].from \in {"upstream", "fork"}
    BY <2>1 DEF PrInv, PullRequestsTypeOK, Pr
  <2>4. push
    BY <2>2, <2>3 DEF PrInv, ForkedForAReason
  <2>5. CASE prs[n].from = "fork"
    BY <2>4, <2>5 DEF PrInv, ForkedForAReason
  <2>6. CASE prs[m].from = "fork"
    <3>1. PICK k \in DOMAIN prs : k < m /\ ~ Open(k) /\ Between(k, prs[m].head, prs[m].base)
      BY <2>4, <2>6 DEF PrInv, ForkedForAReason
    <3>2. k < n /\ Between(k, prs[n].head, prs[n].base)
      BY <2>1, <3>1 DEF Between
    <3> QED
      BY <3>1, <3>2
  <2> QED
    BY <2>2, <2>3, <2>5, <2>6
<1> QED
  BY <1>1, PrInvHolds, PTL

\* github_merge_pr reports the merge GitHub has confirmed, and no other.
THEOREM MergeIsReportedHolds == Spec => []MergeIsReported
<1>1. PrInv => MergeIsReported
  BY DEF PrInv, MergerFits
<1> QED
  BY <1>1, PrInvHolds, PTL

-----------------------------------------------------------------------------
(* What it takes for a call to end *)

\* The call at its end, whatever it was before.
LEMMA SetsCall ==
  ASSUME PrInv, NEW c \in Calls, NEW call, Set(c, call)
  PROVE  calls'[c] = call /\ \A d \in Calls \ {c} : calls'[d] = calls[d]
  BY DEF Set, PrInv, PullRequestsTypeOK

LEMMA ReturnEnds ==
  ASSUME PrInv, NEW c \in Calls, NEW out, Return(c, out)
  PROVE  calls'[c].out = out /\ \A d \in Calls \ {c} : calls'[d] = calls[d]
<1>1. PICK new : new = [Idle EXCEPT !.pc = "done", !.out = out]
  OBVIOUS
<1>2. new.out = out
  BY <1>1 DEF Idle
<1>3. Set(c, new)
  BY <1>1 DEF Return
<1> QED
  BY <1>2, <1>3, SetsCall

\* The next place of a call, when it is not its end.
Goes(c, pcs) == calls'[c].pc \in pcs /\ \A d \in Calls \ {c} : calls'[d] = calls[d]

LEMMA SetGoes ==
  ASSUME PrInv, NEW c \in Calls, NEW call, NEW pcs, Set(c, call), call.pc \in pcs
  PROVE  Goes(c, pcs)
  BY SetsCall DEF Goes

LEMMA RaisedEnds ==
  ASSUME PrInv, NEW c \in Calls, NEW wrote \in BOOLEAN, Raised(c, wrote),
         calls[c].pc \in {"branch", "commit", "open", "find"}, PullRequestsAssumption
  PROVE  /\ \A d \in Calls \ {c} : calls'[d] = calls[d]
         /\ calls'[c].pc = "done" => calls'[c].out = "failed"
<1>1. PICK new \in Call : /\ calls' = [calls EXCEPT ![c] = new]
                          /\ new.pc = "done" => new.out = "failed"
  BY RaisedTo
<1>2. Set(c, new)
  BY <1>1 DEF Set
<1> QED
  BY <1>1, <1>2, SetsCall

\* A call ends well or is refused at two places each, and what it leaves alone there.
WellEnded(c) ==
  calls'[c].pc = "done" =>
    \/ calls'[c].out \in {"existing", "failed"}
    \/ calls'[c].out = "refused" /\ calls[c].pc \in {"idle", "claims"} /\ UNCHANGED github
    \/ /\ calls'[c].out = "ok" /\ calls[c].pc = "open" /\ repos' = repos
       /\ prs' = Append(prs, NewPr(c))

OthersStay(c) == \A d \in Calls \ {c} : calls'[d] = calls[d]

LEMMA GoesWell ==
  ASSUME NEW c \in Calls, NEW pcs, Goes(c, pcs), "done" \notin pcs
  PROVE  WellEnded(c) /\ OthersStay(c)
  BY DEF Goes, WellEnded, OthersStay

LEMMA FailsWell ==
  ASSUME PrInv, NEW c \in Calls, NEW out \in {"existing", "failed"}, Return(c, out)
  PROVE  WellEnded(c) /\ OthersStay(c)
  BY ReturnEnds DEF WellEnded, OthersStay

LEMMA RefusedWell ==
  ASSUME PrInv, NEW c \in Calls, Return(c, "refused"), calls[c].pc \in {"idle", "claims"},
         UNCHANGED github
  PROVE  WellEnded(c) /\ OthersStay(c)
  BY ReturnEnds DEF WellEnded, OthersStay

LEMMA RaisedWell ==
  ASSUME PrInv, NEW c \in Calls, NEW wrote \in BOOLEAN, Raised(c, wrote),
         calls[c].pc \in {"branch", "commit", "open", "find"}, PullRequestsAssumption
  PROVE  WellEnded(c) /\ OthersStay(c)
  BY RaisedEnds DEF WellEnded, OthersStay

LEMMA InspectEnds ==
  ASSUME PrInv, NEW c \in Calls, NEW r \in Requests, Inspect(c, r)
  PROVE  WellEnded(c) /\ OthersStay(c)
<1>1. calls[c].pc = "idle" /\ UNCHANGED github
  BY DEF Inspect, At
<1>2. CASE Return(c, "refused")
  BY <1>1, <1>2, RefusedWell
<1>3. CASE Return(c, "failed")
  BY <1>3, FailsWell
<1>4. ASSUME NEW base, NEW seen, Inspected(c, r, base, seen)
      PROVE  WellEnded(c) /\ OthersStay(c)
  <2>1. CASE Return(c, "refused")
    BY <1>1, <2>1, RefusedWell
  <2>2. ASSUME NEW new, new = [Idle EXCEPT !.pc = "claims", !.req = r, !.base = base,
                                           !.root = repos["upstream"][base]], Set(c, new)
        PROVE  WellEnded(c) /\ OthersStay(c)
    <3>1. new.pc = "claims"
      BY <2>2 DEF Idle
    <3>2. Goes(c, {"claims"})
      BY <2>2, <3>1, SetGoes
    <3> QED
      BY <3>2, GoesWell
  <2> QED
    BY <1>4, <2>1, <2>2 DEF Inspected
<1> QED
  BY <1>2, <1>3, <1>4 DEF Inspect

LEMMA GotoGoes ==
  ASSUME PrInv, NEW c \in Calls, NEW pc, Goto(c, pc), pc # "done"
  PROVE  WellEnded(c) /\ OthersStay(c)
<1>1. PICK call \in Call : call = calls[c]
  BY CallTyped
<1>2. PICK new : new = [call EXCEPT !.pc = pc]
  OBVIOUS
<1>3. new.pc = pc
  BY <1>2 DEF Call
<1>4. Set(c, new)
  BY <1>1, <1>2 DEF Goto
<1>5. Goes(c, {pc})
  BY <1>3, <1>4, SetGoes
<1> QED
  BY <1>5, GoesWell

LEMMA CheckClaimsEnds ==
  ASSUME PrInv, NEW c \in Calls, CheckClaims(c)
  PROVE  WellEnded(c) /\ OthersStay(c)
<1>1. calls[c].pc = "claims" /\ UNCHANGED github
  BY DEF CheckClaims, At
<1>2. CASE Return(c, "refused")
  BY <1>1, <1>2, RefusedWell
<1>3. CASE Return(c, "failed")
  BY <1>3, FailsWell
<1>4. ASSUME NEW todo, Set(c, [calls[c] EXCEPT !.pc = IF push THEN "branch" ELSE "fork",
                                               !.todo = todo])
      PROVE  WellEnded(c) /\ OthersStay(c)
  <2>1. PICK call \in Call : call = calls[c]
    BY CallTyped
  <2>2. PICK pc \in {"branch", "fork"} : pc = IF push THEN "branch" ELSE "fork"
    OBVIOUS
  <2>3. PICK new : new = [call EXCEPT !.pc = pc, !.todo = todo]
    OBVIOUS
  <2>4. new.pc = pc
    BY <2>3 DEF Call
  <2>5. Set(c, new)
    BY <1>4, <2>1, <2>2, <2>3
  <2>6. Goes(c, {"branch", "fork"})
    BY <2>4, <2>5, SetGoes
  <2> QED
    BY <2>6, GoesWell
<1> QED
  BY <1>2, <1>3, <1>4 DEF CheckClaims, Proceed

LEMMA EnsureBranchEnds ==
  ASSUME PrInv, NEW c \in Calls, EnsureBranch(c), PullRequestsAssumption
  PROVE  WellEnded(c) /\ OthersStay(c)
<1>1. CASE Goto(c, "commit")
  BY <1>1, GotoGoes
<1>2. ASSUME NEW wrote \in BOOLEAN, Raised(c, wrote) PROVE WellEnded(c) /\ OthersStay(c)
  BY <1>2, RaisedWell DEF EnsureBranch, At
<1>3. CASE Set(c, [calls[c] EXCEPT !.pc = "commit", !.wrote = TRUE])
  <2>1. PICK call \in Call : call = calls[c]
    BY CallTyped
  <2>2. PICK new : new = [call EXCEPT !.pc = "commit", !.wrote = TRUE]
    OBVIOUS
  <2>3. new.pc = "commit"
    BY <2>2 DEF Call
  <2>4. Goes(c, {"commit"})
    BY <1>3, <2>1, <2>2, <2>3, SetGoes
  <2> QED
    BY <2>4, GoesWell
<1> QED
  BY <1>1, <1>2, <1>3 DEF EnsureBranch

LEMMA CommitFileEnds ==
  ASSUME PrInv, NEW c \in Calls, CommitFile(c), PullRequestsAssumption
  PROVE  WellEnded(c) /\ OthersStay(c)
<1>1. ASSUME NEW wrote \in BOOLEAN, Raised(c, wrote) PROVE WellEnded(c) /\ OthersStay(c)
  BY <1>1, RaisedWell DEF CommitFile, At
<1>2. ASSUME NEW p, Set(c, [calls[c] EXCEPT !.todo = @ \ {p}, !.wrote = TRUE,
                              !.pc = IF calls[c].todo = {p} THEN "open" ELSE "commit"])
      PROVE  WellEnded(c) /\ OthersStay(c)
  <2>1. PICK call \in Call : call = calls[c]
    BY CallTyped
  <2>2. PICK pc \in {"open", "commit"} : pc = IF call.todo = {p} THEN "open" ELSE "commit"
    OBVIOUS
  <2>3. PICK new : new = [call EXCEPT !.todo = @ \ {p}, !.wrote = TRUE, !.pc = pc]
    OBVIOUS
  <2>4. new.pc = pc
    BY <2>3 DEF Call
  <2>5. Set(c, new)
    BY <1>2, <2>1, <2>2, <2>3
  <2>6. Goes(c, {"open", "commit"})
    BY <2>4, <2>5, SetGoes
  <2> QED
    BY <2>6, GoesWell
<1> QED
  BY <1>1, <1>2 DEF CommitFile

LEMMA CreatePullEnds ==
  ASSUME PrInv, NEW c \in Calls, CreatePull(c), PullRequestsAssumption
  PROVE  WellEnded(c) /\ OthersStay(c)
<1>1. calls[c].pc = "open"
  BY DEF CreatePull, At
<1>2. ASSUME NEW wrote \in BOOLEAN, Raised(c, wrote) PROVE WellEnded(c) /\ OthersStay(c)
  BY <1>1, <1>2, RaisedWell
<1>3. CASE Return(c, "ok") /\ prs' = Append(prs, NewPr(c)) /\ repos' = repos
  BY <1>1, <1>3, ReturnEnds DEF WellEnded, OthersStay
<1> QED
  BY <1>2, <1>3 DEF CreatePull

LEMMA FindOpenPrEnds ==
  ASSUME PrInv, NEW c \in Calls, FindOpenPr(c), PullRequestsAssumption
  PROVE  WellEnded(c) /\ OthersStay(c)
  BY FailsWell, RaisedWell DEF FindOpenPr, At

LEMMA ForkEnds ==
  ASSUME PrInv, NEW c \in Calls, Fork(c)
  PROVE  WellEnded(c) /\ OthersStay(c)
<1>1. CASE Return(c, "failed")
  BY <1>1, FailsWell
<1>2. ASSUME NEW wrote \in BOOLEAN, OnFork(c, wrote)
      PROVE  WellEnded(c) /\ OthersStay(c)
  <2>1. PICK call \in Call : call = calls[c]
    BY CallTyped
  <2>2. PICK pc \in {"poll", "branch"} : pc = IF wrote THEN "poll" ELSE "branch"
    OBVIOUS
  <2>3. PICK new : new = [call EXCEPT !.at = "fork", !.todo = DOMAIN call.req.files,
                                      !.pc = pc, !.wrote = @ \/ wrote]
    OBVIOUS
  <2>4. new.pc = pc
    BY <2>3 DEF Call
  <2>5. Set(c, new)
    BY <1>2, <2>1, <2>2, <2>3 DEF OnFork
  <2>6. Goes(c, {"poll", "branch"})
    BY <2>4, <2>5, SetGoes
  <2> QED
    BY <2>6, GoesWell
<1> QED
  BY <1>1, <1>2 DEF Fork

LEMMA PollForkEnds ==
  ASSUME PrInv, NEW c \in Calls, PollFork(c)
  PROVE  WellEnded(c) /\ OthersStay(c)
  BY GotoGoes, FailsWell DEF PollFork

LEMMA EndEnds ==
  ASSUME PrInv, NEW c \in Calls, End(c)
  PROVE  WellEnded(c) /\ OthersStay(c)
<1>1. Goes(c, {"idle"})
  BY SetGoes DEF End, Idle
<1> QED
  BY <1>1, GoesWell

LEMMA StepEnds ==
  ASSUME PrInv, NEW c \in Calls, PrStep(c), PullRequestsAssumption
  PROVE  WellEnded(c) /\ OthersStay(c)
  BY InspectEnds, CheckClaimsEnds, EnsureBranchEnds, CommitFileEnds, CreatePullEnds,
     FindOpenPrEnds, ForkEnds, PollForkEnds, EndEnds DEF PrStep

\* A step that ends a call is a step of that call.
LEMMA EndsWell ==
  ASSUME PrInv, [Next]_vars, NEW c \in Calls, calls[c].pc # "done", calls'[c].pc = "done",
         PullRequestsAssumption
  PROVE  WellEnded(c)
<1>1. ASSUME NEW d \in Calls, PrStep(d) PROVE WellEnded(c)
  <2>1. WellEnded(d) /\ OthersStay(d)
    BY <1>1, StepEnds
  <2> QED
    BY <2>1 DEF OthersStay
<1>2. CASE calls' = calls
  BY <1>2
<1>3. CASE Crash
  BY <1>3 DEF Crash, Idle
<1>4. ASSUME MergeStep PROVE calls' = calls
  BY <1>4 DEF MergeStep, BeginMerge, ReadPr, PollPr, Decide, Merge, DeleteBranch, EndMerge
<1>5. ASSUME WorldStep PROVE calls' = calls
  BY <1>5 DEF WorldStep, ClosePr, Objects, PersonMerges, ChecksEnd, ForkRepository
<1> QED
  BY <1>1, <1>2, <1>3, <1>4, <1>5 DEF Next, vars

\* Whatever github_pr refuses, it refuses before its first write.
THEOREM RefusalIsCleanHolds == Spec => RefusalIsClean
<1>1. ASSUME PrInv, [Next]_vars, PullRequestsAssumption, NEW c \in Calls, Ends(c, "refused")
      PROVE  ~ calls[c].wrote /\ UNCHANGED github
  <2>1. WellEnded(c)
    BY <1>1, EndsWell DEF Ends
  <2>2. calls[c].pc \in {"idle", "claims"} /\ UNCHANGED github
    BY <1>1, <2>1 DEF WellEnded, Ends
  <2> QED
    BY <1>1, <2>2, CallTyped DEF CallBase
<1>2. PrInv /\ [Next]_vars
        => [\A c \in Calls : Ends(c, "refused") => ~ calls[c].wrote /\ UNCHANGED github]_vars
  BY <1>1, PullRequestsAssumption
<1> QED
  BY <1>2, PrInvHolds, PTL DEF Spec, RefusalIsClean

\* The pull request github_pr reports as opened is there, with every file in full.
THEOREM FreshPrIsWholeHolds == Spec => FreshPrIsWhole
<1> DEFINE Whole(c) ==
      LET call == calls[c] IN
      /\ \E n \in DOMAIN prs' : prs'[n] = NewPr(c)
      /\ MergedInto(call.at, call.req.head)
         \/ \A p \in DOMAIN call.req.files :
              repos'[call.at][call.req.head][p] = call.req.files[p]
<1>1. ASSUME PrInv, [Next]_vars, PullRequestsAssumption, NEW c \in Calls, Ends(c, "ok")
      PROVE  Whole(c)
  <2>1. WellEnded(c)
    BY <1>1, EndsWell DEF Ends
  <2>2. calls[c].pc = "open" /\ repos' = repos /\ prs' = Append(prs, NewPr(c))
    BY <1>1, <2>1 DEF WellEnded, Ends
  <2>3. \E n \in DOMAIN prs' : prs'[n] = NewPr(c)
    <3>1. prs \in Seq(Pr) /\ Len(prs) \in Nat /\ NewPr(c) \in Pr
      BY <1>1, <2>2, PrsTyped, NewPrTyped
    <3>2. Len(prs) + 1 \in DOMAIN prs' /\ prs'[Len(prs) + 1] = NewPr(c)
      BY <2>2, <3>1, AppendProperties, LenProperties
    <3> QED
      BY <3>2
  <2>4. calls[c].todo = {} /\ Written(calls[c])
    BY <1>1, <2>2, CallTyped DEF CallBase
  <2>5. \/ MergedInto(calls[c].at, calls[c].req.head)
        \/ \A p \in DOMAIN calls[c].req.files :
             repos[calls[c].at][calls[c].req.head][p] = calls[c].req.files[p]
    BY <2>2, <2>4 DEF Written
  <2> QED
    BY <2>2, <2>3, <2>5
<1>2. PrInv /\ [Next]_vars => [\A c \in Calls : Ends(c, "ok") => Whole(c)]_vars
  BY <1>1, PullRequestsAssumption
<1> QED
  BY <1>2, PrInvHolds, PTL DEF Spec, FreshPrIsWhole
=============================================================================
