----------------------------- MODULE MCPlanRepair -----------------------------
(* Every plan of one or two tasks in which a task lists at most one dependency   *)
(* and writes at most one reference, of each kind the functions tell apart.      *)
EXTENDS PlanRepair, TLC

CONSTANTS t1, t2

Described(agent) ==
  CASE agent = "integrator" -> {<<w, FALSE>> : w \in {"plain", "acts", "ships"}}
    [] agent = "writer"     -> {<<"plain", b>> : b \in BOOLEAN}
    [] OTHER                -> {<<"plain", FALSE>>}

AtMostOne(S) == {{}} \cup {{x} : x \in S}

Ref(id, field, below, how) == [id |-> id, field |-> field, below |-> below, how |-> how]

Tasks(agents, deps, refs) ==
  UNION {{[agent |-> a, deps |-> d, refs |-> r, work |-> w[1], pointers |-> w[2]] :
           d \in AtMostOne(deps), r \in AtMostOne(refs), w \in Described(a)} : a \in agents}

Plain(id, fields) == {Ref(id, f, "", "exact") : f \in fields}

First == Tasks({"researcher", "writer", "coder"}, {t2},
               Plain(t2, {"whole", "url"}) \cup Plain(Stray, {"whole"})
                 \cup {Ref(t2, "result", ".", "exact"), Ref(t2, "whole", "", "key")})
Last == Tasks(Agents \cup {"unknown"}, {t1, t2, Stray},
              Plain(t1, {"whole", "code", "path", "code_context"})
                \cup Plain(t2, {"code"}) \cup Plain(Stray, {"whole"})
                \cup {Ref(t1, "code", below, "exact") : below \in {".", "["}}
                \cup {Ref(t1, "code", "", how) : how \in {"loose", "deep", "key"}})
Alone == Tasks(Agents, {}, Plain(t1, {"whole"}))

MCAnswers ==
  {[tasks |-> t1 :> a @@ t2 :> b, terminal |-> t] : a \in First, b \in Last, t \in {t1, t2, Stray}}
  \cup {[tasks |-> t1 :> a, terminal |-> t] : a \in Alone, t \in {t1, Stray}}
=============================================================================
