---------------------------- MODULE MCPullRequests ----------------------------
(* Instances of PullRequests small enough for TLC. *)
EXTENDS PullRequests, TLC

CONSTANTS c1, c2

MCPaths == {"calc.py", "README.md", "main/calc.py", "ci.yml"}

MCSameName == [p \in MCPaths |-> IF p = "main/calc.py" THEN {"calc.py"} ELSE {}]

Ask(head, base, files, body) == [head |-> head, base |-> base, files |-> files, body |-> body]

Whole == "calc.py" :> "fix" @@ "README.md" :> "fix"

\* A fix with a claim, and what the checks are for.
MCRequests ==
  {Ask("fix", None, Whole, "ran clean"),
   Ask("main", None, "calc.py" :> "fix", "plain"),
   Ask("fix", "main", "calc.py" :> "part", "plain"),
   Ask("fix", "main", "main/calc.py" :> "fix", "ungrounded"),
   Ask("fix", "main", "ci.yml" :> "fix", "plain")}

CallSymmetry == Permutations(Calls)
=============================================================================
