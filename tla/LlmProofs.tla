------------------------------- MODULE LlmProofs -------------------------------
(***************************************************************************)
(* Theorems about what comes from a language model.                        *)
(* LlmCalls, for every set of roles, models, fallbacks and calls: no call  *)
(* gives up early or blames a fallback, no outage is cut short, and what   *)
(* is served is what is saved.                                             *)
(* PlanRepair, for every set of answers a planner may give: what is stored *)
(* hands every task what its plan meant, and no complaint is lost.         *)
(***************************************************************************)
EXTENDS LlmCalls, PlanRepair, FiniteSetTheorems, SequenceTheorems, TLAPS

-----------------------------------------------------------------------------
(* Lists *)

LEMMA Joined ==
  ASSUME NEW S, NEW s \in Seq(S), NEW t \in Seq(S)
  PROVE  /\ s \o t \in Seq(S) /\ Len(s \o t) = Len(s) + Len(t)
         /\ \A i \in 1 .. Len(s) : (s \o t)[i] = s[i]
         /\ \A i \in 1 .. Len(t) : (s \o t)[Len(s) + i] = t[i]
<1>1. Len(s) \in Nat /\ Len(t) \in Nat
  BY LenProperties
<1>2. PICK u : u = s \o t
  OBVIOUS
<1>3. /\ u \in Seq(S) /\ Len(u) = Len(s) + Len(t)
      /\ \A i \in 1 .. Len(s) + Len(t) : u[i] = IF i <= Len(s) THEN s[i] ELSE t[i - Len(s)]
  BY <1>2, ConcatProperties
<1>4. \A i \in 1 .. Len(s) : u[i] = s[i]
  BY <1>1, <1>3
<1>5. ASSUME NEW i \in 1 .. Len(t) PROVE u[Len(s) + i] = t[i]
  <2>1. /\ Len(s) + i \in 1 .. Len(s) + Len(t) /\ ~ (Len(s) + i <= Len(s))
        /\ (Len(s) + i) - Len(s) = i
    BY <1>1
  <2> QED
    BY <1>3, <2>1
<1> QED
  BY <1>2, <1>3, <1>4, <1>5

LEMMA LeastExists ==
  ASSUME NEW T \in SUBSET Nat, T # {}
  PROVE  \E i \in T : \A j \in T : i <= j
<1> SUFFICES ASSUME \A i \in T : \E j \in T : j < i PROVE FALSE
  OBVIOUS
<1>1. PICK n \in T : TRUE
  OBVIOUS
<1> DEFINE Above == {k \in 0 .. n : \E j \in T : j <= k}
           down == [k \in Above |-> k - 1]
<1>2. IsFiniteSet(Above)
  <2>1. IsFiniteSet(0 .. n) /\ Above \in SUBSET (0 .. n)
    BY FS_Interval
  <2> QED
    BY <2>1, FS_Subset
<1>3. ASSUME NEW k \in Above PROVE k \in Int /\ k - 1 \in Above
  <2>1. PICK j \in T : j <= k
    OBVIOUS
  <2>2. PICK m \in T : m < j
    OBVIOUS
  <2>3. k \in 0 .. n /\ m \in Nat /\ j \in Nat
    OBVIOUS
  <2>4. k - 1 \in 0 .. n /\ m <= k - 1
    BY <2>1, <2>2, <2>3
  <2> QED
    BY <2>4
<1>4. n \in Above /\ \A k \in Above : k - 1 # n
  <2>1. \A k \in Above : k \in 0 .. n
    OBVIOUS
  <2> QED
    BY <1>1, <2>1
<1> HIDE DEF Above
<1>5. down \in Injection(Above, Above)
  <2>1. down \in [Above -> Above]
    BY <1>3
  <2>2. ASSUME NEW a \in Above, NEW b \in Above, down[a] = down[b] PROVE a = b
    BY <1>3, <2>2
  <2> HIDE DEF down
  <2> QED
    BY <2>1, <2>2 DEF Injection, IsInjective
<1>6. down \in Surjection(Above, Above)
  BY <1>2, <1>5, FS_Injection
<1>7. PICK k \in Above : down[k] = n
  BY <1>4, <1>6 DEF Surjection
<1> QED
  BY <1>4, <1>7

\* How Keep goes through a list: what it has kept of the first n.
Keeping(list, set, n, g) ==
  g = [i \in 0 .. n |-> IF i = 0 THEN <<>>
                        ELSE IF list[i] \in set THEN Append(g[i - 1], list[i]) ELSE g[i - 1]]

LEMMA KeepingExists ==
  ASSUME NEW list, NEW set, NEW n \in Nat
  PROVE  \E g : Keeping(list, set, n, g)
<1> DEFINE Bad == {k \in Nat : ~ \E g : Keeping(list, set, k, g)}
<1> SUFFICES ASSUME Bad # {} PROVE FALSE
  OBVIOUS
<1>1. PICK k \in Bad : \A j \in Bad : k <= j
  <2>1. Bad \in SUBSET Nat
    OBVIOUS
  <2> HIDE DEF Bad
  <2> QED
    BY <2>1, LeastExists
<1>2. CASE k = 0
  <2>1. Keeping(list, set, 0, [i \in 0 .. 0 |-> <<>>])
    BY DEF Keeping
  <2> QED
    BY <1>2, <2>1
<1>3. CASE k # 0
  <2>1. k - 1 \in Nat /\ k - 1 \notin Bad /\ k \in Nat
    BY <1>1, <1>3
  <2>2. PICK g : Keeping(list, set, k - 1, g)
    BY <2>1
  <2> DEFINE step == IF list[k] \in set THEN Append(g[k - 1], list[k]) ELSE g[k - 1]
             h == [i \in 0 .. k |-> IF i = k THEN step ELSE g[i]]
  <2>3. \A i \in 0 .. (k - 1) : h[i] = g[i] /\ i \in 0 .. k
    BY <2>1
  <2>4. ASSUME NEW i \in 0 .. k
        PROVE  h[i] = IF i = 0 THEN <<>>
                      ELSE IF list[i] \in set THEN Append(h[i - 1], list[i]) ELSE h[i - 1]
    <3>1. CASE i = k
      <4>1. h[i - 1] = g[i - 1]
        BY <2>1, <2>3, <3>1
      <4> QED
        BY <1>3, <3>1, <4>1
    <3>2. CASE i # k
      <4>1. i \in 0 .. (k - 1) /\ h[i] = g[i]
        BY <2>1, <3>2
      <4>2. g[i] = IF i = 0 THEN <<>>
                   ELSE IF list[i] \in set THEN Append(g[i - 1], list[i]) ELSE g[i - 1]
        BY <2>2, <4>1 DEF Keeping
      <4>3. i # 0 => h[i - 1] = g[i - 1]
        BY <2>1, <2>3, <4>1
      <4> QED
        BY <4>1, <4>2, <4>3
    <3> QED
      BY <3>1, <3>2
  <2>5. h = [i \in 0 .. k |-> h[i]]
    OBVIOUS
  <2>6. Keeping(list, set, k, h)
    <3> HIDE DEF h
    <3> QED
      BY <2>4, <2>5 DEF Keeping
  <2> QED
    BY <2>6
<1> QED
  BY <1>2, <1>3

LEMMA KeepIs ==
  ASSUME NEW S, NEW list \in Seq(S), NEW set
  PROVE  \E g : Keeping(list, set, Len(list), g) /\ Keep(list, set) = g[Len(list)]
<1> DEFINE g == CHOOSE g : Keeping(list, set, Len(list), g)
<1>1. Keeping(list, set, Len(list), g)
  <2>1. Len(list) \in Nat
    OBVIOUS
  <2>2. \E f : Keeping(list, set, Len(list), f)
    BY <2>1, KeepingExists
  <2> QED
    BY <2>2
<1>2. Keep(list, set) = g[Len(list)]
  BY DEF Keep, Keeping
<1> QED
  BY <1>1, <1>2

\* What is kept are members of the list, and every member that is in the set.
LEMMA KeepFacts ==
  ASSUME NEW S, NEW list \in Seq(S), NEW set
  PROVE  /\ Keep(list, set) \in Seq(S)
         /\ \A i \in DOMAIN list : list[i] \in set =>
              \E j \in DOMAIN Keep(list, set) : Keep(list, set)[j] = list[i]
<1> DEFINE L == Len(list)
<1>1. PICK g : Keeping(list, set, L, g) /\ Keep(list, set) = g[L]
  BY KeepIs
<1>2. L \in Nat /\ DOMAIN list = 1 .. L /\ \A i \in 1 .. L : list[i] \in S
  OBVIOUS
<1>3. \A i \in 0 .. L : g[i] = IF i = 0 THEN <<>>
                               ELSE IF list[i] \in set THEN Append(g[i - 1], list[i]) ELSE g[i - 1]
  BY <1>1 DEF Keeping
<1> HIDE DEF L
<1> DEFINE Good(n) == /\ g[n] \in Seq(S)
                      /\ \A i \in 1 .. n : list[i] \in set => \E j \in DOMAIN g[n] : g[n][j] = list[i]
           Bad == {n \in 0 .. L : ~ Good(n)}
<1>4. Bad = {}
  <2> SUFFICES ASSUME Bad # {} PROVE FALSE
    OBVIOUS
  <2>1. PICK k \in Bad : \A j \in Bad : k <= j
    <3>1. Bad \in SUBSET Nat
      BY <1>2
    <3> HIDE DEF Bad
    <3> QED
      BY <3>1, LeastExists
  <2>2. k \in 0 .. L /\ ~ Good(k)
    OBVIOUS
  <2>3. CASE k = 0
    <3>1. g[0] = <<>>
      BY <1>3, <2>2, <2>3
    <3>2. Good(0)
      BY <3>1
    <3> QED
      BY <2>2, <2>3, <3>2
  <2>4. CASE k # 0
    <3>1. k - 1 \in 0 .. L /\ k \in 1 .. L /\ ~ (k <= k - 1)
      BY <1>2, <2>2, <2>4
    <3>2. Good(k - 1)
      BY <2>1, <3>1
    <3> DEFINE h == g[k - 1]
    <3>3. /\ h \in Seq(S)
          /\ \A i \in 1 .. (k - 1) : list[i] \in set => \E j \in DOMAIN h : h[j] = list[i]
      BY <3>2
    <3>4. g[k] = IF list[k] \in set THEN Append(h, list[k]) ELSE h
      BY <1>3, <2>2, <2>4
    <3>5. list[k] \in S
      BY <1>2, <3>1
    <3>6. \A i \in 1 .. k : i = k \/ i \in 1 .. (k - 1)
      BY <3>1
    <3> HIDE DEF h
    <3>7. CASE list[k] \in set
      <4> DEFINE q == Append(h, list[k])
      <4>1. /\ q \in Seq(S) /\ Len(q) = Len(h) + 1 /\ q[Len(h) + 1] = list[k]
            /\ \A j \in 1 .. Len(h) : q[j] = h[j]
        BY <3>3, <3>5, AppendProperties
      <4>2. /\ DOMAIN h = 1 .. Len(h) /\ DOMAIN q = 1 .. Len(q) /\ Len(h) \in Nat
        BY <3>3, <4>1
      <4> HIDE DEF q
      <4>3. \A j \in DOMAIN h : j \in DOMAIN q /\ q[j] = h[j]
        BY <4>1, <4>2
      <4>4. Len(h) + 1 \in DOMAIN q
        BY <4>1, <4>2
      <4>5. \A i \in 1 .. k : list[i] \in set => \E j \in DOMAIN q : q[j] = list[i]
        BY <3>3, <3>6, <4>1, <4>3, <4>4
      <4>6. g[k] = q
        BY <3>4, <3>7 DEF q
      <4> QED
        BY <2>2, <4>1, <4>5, <4>6
    <3>8. CASE list[k] \notin set
      <4>1. g[k] = h
        BY <3>4, <3>8
      <4>2. \A i \in 1 .. k : list[i] \in set => \E j \in DOMAIN h : h[j] = list[i]
        BY <3>3, <3>6, <3>8
      <4> QED
        BY <2>2, <3>3, <4>1, <4>2
    <3> QED
      BY <3>7, <3>8
  <2> QED
    BY <2>3, <2>4
<1>5. Good(L)
  <2>1. L \in 0 .. L
    BY <1>2
  <2> QED
    BY <1>4, <2>1
<1> QED
  BY <1>1, <1>2, <1>5

-----------------------------------------------------------------------------
(* The configuration *)

LEMMA FileServes ==
  ASSUME ConfigAssumption, ConfigTypeOK
  PROVE  FromFile \in [Roles -> Models] /\ Loaded \in [Roles -> Models]
<1>1. Defaults \in [Roles -> Models]
  BY DEF ConfigAssumption
<1>2. file \notin {NoFile, Superseded} => \A r \in DOMAIN file : r \in Roles => file[r] \in Models
  BY DEF ConfigTypeOK, ConfigAssumption
<1> QED
  BY <1>1, <1>2 DEF FromFile, Loaded, ConfigTypeOK

\* A saved choice is read back as it was: it is never taken for the old defaults.
LEMMA SavedServes ==
  ASSUME ConfigAssumption, file \in [Roles -> Models]
  PROVE  FromFile = file
  BY DEF FromFile, ConfigAssumption

LEMMA ReadKeeps ==
  ASSUME ConfigAssumption, ConfigTypeOK, ServedIsSaved, cache' = Loaded, UNCHANGED file,
         lapsed' \in BOOLEAN, lapsed => lapsed'
  PROVE  ConfigTypeOK' /\ ServedIsSaved'
  BY FileServes DEF ConfigTypeOK, ServedIsSaved, Loaded, FromFile

LEMMA AssignedType ==
  ASSUME ConfigAssumption, ConfigTypeOK, NEW n \in {0, 1, 2}, NEW changes,
         \A i \in 1 .. n : changes[i].model \in Models
  PROVE  Assigned(changes, n) \in [Roles -> Models]
<1>1. Loaded \in [Roles -> Models]
  BY FileServes
<1>2. ASSUME NEW r \in Roles
      PROVE  LET mine == {i \in 1 .. n : changes[i].role = r}
             IN  mine # {} => (CHOOSE i \in mine : \A j \in mine : j <= i) \in 1 .. n
  <2> DEFINE mine == {i \in 1 .. n : changes[i].role = r}
  <2> SUFFICES ASSUME mine # {} PROVE \E i \in mine : \A j \in mine : j <= i
    OBVIOUS
  <2>1. mine \subseteq {1, 2}
    OBVIOUS
  <2> HIDE DEF mine
  <2>2. CASE 2 \in mine
    BY <2>1, <2>2
  <2>3. CASE 2 \notin mine
    <3>1. mine = {1}
      BY <2>1, <2>3
    <3> QED
      BY <3>1
  <2> QED
    BY <2>2, <2>3
<1> QED
  BY <1>1, <1>2 DEF Assigned

LEMMA EditConfigKeeps ==
  ASSUME ConfigAssumption, ConfigTypeOK, ServedIsSaved, EditConfig
  PROVE  ConfigTypeOK' /\ ServedIsSaved'
<1>1. PICK changes \in Changes :
         \/ \E saved \in BOOLEAN : Update(changes, saved)
         \/ \E n \in DOMAIN changes : Rejected(changes, n)
  BY DEF EditConfig
<1>2. /\ Len(changes) \in {0, 1, 2} /\ DOMAIN changes = 1 .. Len(changes)
      /\ \A i \in DOMAIN changes : changes[i].model \in Models
  BY DEF Changes
<1>3. ASSUME NEW saved \in BOOLEAN, Update(changes, saved)
      PROVE  ConfigTypeOK' /\ ServedIsSaved'
  <2>1. cache' \in [Roles -> Models]
    BY <1>2, <1>3, AssignedType DEF Update
  <2>2. CASE saved
    <3>1. file' = cache' /\ lapsed' = FALSE
      BY <1>3, <2>2 DEF Update
    <3>2. FromFile' = file'
      BY <2>1, <3>1 DEF FromFile, ConfigAssumption
    <3> QED
      BY <2>1, <3>1, <3>2 DEF ConfigTypeOK, ServedIsSaved
  <2>3. CASE ~ saved
    BY <1>3, <2>1, <2>3 DEF Update, ConfigTypeOK, ServedIsSaved
  <2> QED
    BY <2>2, <2>3
<1>4. ASSUME NEW n \in DOMAIN changes, Rejected(changes, n)
      PROVE  ConfigTypeOK' /\ ServedIsSaved'
  <2>1. n - 1 \in {0, 1, 2} /\ \A i \in 1 .. (n - 1) : i \in DOMAIN changes
    BY <1>2
  <2>2. cache' \in [Roles -> Models]
    BY <1>2, <1>4, <2>1, AssignedType DEF Rejected
  <2>3. lapsed' = (lapsed \/ cache' # Loaded) /\ file' = file
    BY <1>4 DEF Rejected
  <2>4. CASE cache' = Loaded
    BY <2>3, <2>4, ReadKeeps DEF ConfigTypeOK
  <2>5. CASE cache' # Loaded
    BY <2>2, <2>3, <2>5 DEF ConfigTypeOK, ServedIsSaved
  <2> QED
    BY <2>4, <2>5
<1> QED
  BY <1>1, <1>3, <1>4

-----------------------------------------------------------------------------
(* The calls *)

CallState == [pc : {"new", "try", "answered", "raised"}, model : Models \cup {NoModel},
              rest : Seq(Models), tries : 0 .. 2, first : Models \cup {NoModel},
              error : Models \cup {NoModel}, tried : SUBSET Models, cold : SUBSET Models]

Fallback(m, f) == f \in Keyed /\ \E i \in DOMAIN Fallbacks[m] : Fallbacks[m][i] = f

\* A call under way: nothing is left out of what it has still to try, and its first
\* error is its primary's unless that was cooling down.
Going(st) ==
  /\ st.model \in Models /\ st.rest # <<>> /\ Head(st.rest) \in st.tried
  /\ st.model \notin st.cold => \/ st.first = NoModel /\ Head(st.rest) = st.model
                                \/ st.first = st.model
  /\ \A f \in Models : Fallback(st.model, f) =>
       f \in st.tried \cup st.cold \/ \E i \in DOMAIN st.rest : st.rest[i] = f

\* A call that gave up.
GaveUp(st) ==
  /\ st.tried # {} /\ st.model \in Models
  /\ st.model \notin st.cold => st.error = st.model
  /\ st.error = st.model \/ \A f \in Models : Fallback(st.model, f) => f \in st.tried \cup st.cold

CallOK(st) == (st.pc = "try" => Going(st)) /\ (st.pc = "raised" => GaveUp(st))

LlmInv ==
  /\ LlmTypeOK
  /\ ServedIsSaved
  /\ \A c \in Calls : CallOK(call[c])

LEMMA LeastColdType ==
  ASSUME cooling \in [Models -> Nat], NEW ms \in Seq(Models), ms # <<>>
  PROVE  LeastCold(ms) \in Models
<1>1. /\ Len(ms) \in Nat /\ DOMAIN ms = 1 .. Len(ms) /\ 1 \in DOMAIN ms
      /\ \A i \in DOMAIN ms : ms[i] \in Models /\ i \in Nat /\ cooling[ms[i]] \in Nat
  OBVIOUS
<1> DEFINE Left == {cooling[ms[i]] : i \in DOMAIN ms}
<1>2. PICK least \in Left : \A x \in Left : least <= x
  <2>1. Left \in SUBSET Nat /\ Left # {}
    BY <1>1
  <2> HIDE DEF Left
  <2> QED
    BY <2>1, LeastExists
<1>3. least \in Nat /\ \A i \in DOMAIN ms : least <= cooling[ms[i]]
  BY <1>1, <1>2
<1> DEFINE At == {i \in DOMAIN ms : cooling[ms[i]] = least}
<1>4. PICK i \in At : \A j \in At : i <= j
  <2>1. At \in SUBSET Nat /\ At # {}
    BY <1>1, <1>2
  <2> HIDE DEF At
  <2> QED
    BY <2>1, LeastExists
<1>5. /\ i \in DOMAIN ms
      /\ \A j \in DOMAIN ms : cooling[ms[i]] < cooling[ms[j]]
                              \/ (cooling[ms[i]] = cooling[ms[j]] /\ i <= j)
  BY <1>1, <1>3, <1>4
<1> QED
  BY <1>1, <1>5 DEF LeastCold

LEMMA CandidateFacts ==
  ASSUME FallbackAssumption, cooling \in [Models -> Nat], NEW m \in Models
  PROVE  /\ CandidateModels(m) \in Seq(Models) /\ CandidateModels(m) # <<>>
         /\ IsHealthy(m) => Head(CandidateModels(m)) = m
         /\ \A f \in Models : Fallback(m, f) /\ IsHealthy(f) =>
              \E i \in DOMAIN CandidateModels(m) : CandidateModels(m)[i] = f
<1> DEFINE fallbacks == Keep(Fallbacks[m], Keyed)
           healthy == Keep(fallbacks, {f \in Models : IsHealthy(f)})
<1>1. /\ fallbacks \in Seq(Models)
      /\ \A f \in Models : Fallback(m, f) => \E i \in DOMAIN fallbacks : fallbacks[i] = f
  <2>1. PICK list \in Seq(Models) : list = Fallbacks[m]
    BY DEF FallbackAssumption
  <2>2. PICK kept : kept = Keep(list, Keyed)
    OBVIOUS
  <2>3. /\ kept \in Seq(Models)
        /\ \A i \in DOMAIN list : list[i] \in Keyed => \E j \in DOMAIN kept : kept[j] = list[i]
    BY <2>2, KeepFacts
  <2>4. fallbacks = kept
    BY <2>1, <2>2
  <2> HIDE DEF fallbacks
  <2> QED
    BY <2>1, <2>3, <2>4 DEF Fallback
<1> HIDE DEF fallbacks
<1>2. /\ healthy \in Seq(Models)
      /\ \A f \in Models : Fallback(m, f) /\ IsHealthy(f) => \E i \in DOMAIN healthy : healthy[i] = f
  <2>1. PICK set : set = {f \in Models : IsHealthy(f)}
    OBVIOUS
  <2>2. PICK kept : kept = Keep(fallbacks, set)
    OBVIOUS
  <2>3. /\ kept \in Seq(Models)
        /\ \A i \in DOMAIN fallbacks : fallbacks[i] \in set =>
             \E j \in DOMAIN kept : kept[j] = fallbacks[i]
    BY <1>1, <2>2, KeepFacts
  <2>4. healthy = kept
    BY <2>1, <2>2
  <2> HIDE DEF healthy
  <2> QED
    BY <1>1, <2>1, <2>3, <2>4
<1>3. CandidateModels(m) = IF IsHealthy(m) THEN <<m>> \o healthy
                           ELSE IF healthy # <<>> THEN healthy \o <<m>>
                           ELSE <<LeastCold(<<m>> \o fallbacks)>>
  BY DEF CandidateModels, fallbacks
<1> HIDE DEF healthy
<1>4. CASE IsHealthy(m)
  <2> DEFINE ms == <<m>> \o healthy
  <2>0. <<m>> \in Seq(Models) /\ Len(<<m>>) = 1 /\ DOMAIN <<m>> = 1 .. 1 /\ <<m>>[1] = m
    OBVIOUS
  <2>1. /\ ms \in Seq(Models) /\ Len(ms) = Len(healthy) + 1 /\ ms[1] = m
        /\ \A i \in DOMAIN healthy : ms[i + 1] = healthy[i]
    <3>1. PICK one \in Seq(Models) : one = <<m>> /\ Len(one) = 1 /\ one[1] = m
      BY <2>0
    <3>2. Len(healthy) \in Nat /\ DOMAIN healthy = 1 .. Len(healthy)
      BY <1>2, LenProperties
    <3>3. PICK all : all = one \o healthy
      OBVIOUS
    <3>4. /\ all \in Seq(Models) /\ Len(all) = 1 + Len(healthy)
          /\ \A i \in 1 .. 1 : all[i] = one[i]
          /\ \A i \in 1 .. Len(healthy) : all[1 + i] = healthy[i]
      BY <1>2, <3>1, <3>3, Joined
    <3>5. \A i \in 1 .. Len(healthy) : 1 + i = i + 1
      BY <3>2
    <3>6. ms = all
      BY <3>1, <3>3
    <3> HIDE DEF ms
    <3> QED
      BY <3>1, <3>2, <3>4, <3>5, <3>6
  <2>2. \A i \in DOMAIN healthy : i + 1 \in DOMAIN ms /\ ms[i + 1] = healthy[i]
    <3> HIDE DEF ms
    <3>1. DOMAIN ms = 1 .. Len(ms) /\ DOMAIN healthy = 1 .. Len(healthy) /\ Len(healthy) \in Nat
      BY <1>2, <2>1, LenProperties
    <3> QED
      BY <2>1, <3>1
  <2>3. CandidateModels(m) = ms
    BY <1>3, <1>4
  <2> HIDE DEF ms
  <2>4. ms # <<>> /\ Head(ms) = m
    BY <1>2, <2>1
  <2> QED
    BY <1>2, <2>1, <2>2, <2>3, <2>4
<1>5. CASE ~ IsHealthy(m) /\ healthy # <<>>
  <2> DEFINE ms == healthy \o <<m>>
  <2>0. /\ <<m>> \in Seq(Models) /\ Len(<<m>>) = 1
        /\ Len(healthy) \in Nat /\ DOMAIN healthy = 1 .. Len(healthy)
    BY <1>2, LenProperties
  <2>1. /\ ms \in Seq(Models) /\ Len(ms) = Len(healthy) + 1
        /\ \A i \in 1 .. Len(healthy) : ms[i] = healthy[i]
    <3>1. PICK one \in Seq(Models) : one = <<m>> /\ Len(one) = 1
      BY <2>0
    <3>2. PICK all : all = healthy \o one
      OBVIOUS
    <3>3. /\ all \in Seq(Models) /\ Len(all) = Len(healthy) + 1
          /\ \A i \in 1 .. Len(healthy) : all[i] = healthy[i]
      BY <1>2, <3>1, <3>2, Joined
    <3> QED
      BY <3>1, <3>2, <3>3
  <2>2. \A i \in DOMAIN healthy : i \in DOMAIN ms /\ ms[i] = healthy[i]
    <3> HIDE DEF ms
    <3>1. DOMAIN ms = 1 .. Len(ms)
      BY <2>1, LenProperties
    <3> QED
      BY <2>0, <2>1, <3>1
  <2>3. CandidateModels(m) = ms
    BY <1>3, <1>5
  <2> HIDE DEF ms
  <2>4. ms # <<>>
    BY <1>2, <2>1
  <2> QED
    BY <1>2, <1>5, <2>1, <2>2, <2>3, <2>4
<1>6. CASE ~ IsHealthy(m) /\ healthy = <<>>
  <2>1. <<m>> \o fallbacks \in Seq(Models) /\ <<m>> \o fallbacks # <<>>
    BY <1>1
  <2>2. LeastCold(<<m>> \o fallbacks) \in Models
    BY <2>1, LeastColdType
  <2>3. CandidateModels(m) \in Seq(Models) /\ CandidateModels(m) # <<>>
    BY <1>3, <1>6, <2>2
  <2>4. \A f \in Models : ~ (Fallback(m, f) /\ IsHealthy(f))
    BY <1>2, <1>6
  <2> QED
    BY <1>6, <2>3, <2>4
<1> QED
  BY <1>4, <1>5, <1>6

\* A step of one call.
LEMMA CallKeeps ==
  ASSUME LlmInv, ConfigTypeOK', ServedIsSaved', NEW c \in Calls, NEW new \in CallState,
         call' = [call EXCEPT ![c] = new], CallOK(new),
         cooling' \in [Models -> Nat], UNCHANGED edits
  PROVE  LlmInv'
<1>1. call' \in [Calls -> CallState]
  BY DEF LlmInv, LlmTypeOK, CallState
<1>2. LlmTypeOK'
  BY <1>1 DEF LlmInv, LlmTypeOK, CallState
<1>3. ASSUME NEW d \in Calls PROVE CallOK(call[d])'
  <2>1. call'[d] = new \/ call'[d] = call[d]
    BY DEF LlmInv, LlmTypeOK
  <2>2. CallOK(call'[d])
    BY <2>1 DEF LlmInv
  <2> QED
    BY <2>2 DEF CallOK, Going, GaveUp
<1> QED
  BY <1>2, <1>3 DEF LlmInv

LEMMA ConfigStays ==
  ASSUME LlmInv, UNCHANGED configVars
  PROVE  ConfigTypeOK' /\ ServedIsSaved'
  BY DEF LlmInv, LlmTypeOK, ConfigTypeOK, ServedIsSaved, FromFile, configVars

LEMMA StartKeeps ==
  ASSUME ConfigAssumption, FallbackAssumption, LlmInv, NEW c \in Calls, NEW role \in Roles,
         Start(c, role)
  PROVE  LlmInv'
<1>1. PICK m \in Models : m = GetModel(role)
  BY FileServes DEF LlmInv, LlmTypeOK, GetModel
<1>2. PICK rest \in Seq(Models) : rest = CandidateModels(m)
  BY CandidateFacts DEF FallbackAssumption, LlmInv, LlmTypeOK
<1>3. PICK cold \in SUBSET Models : cold = {n \in Models : ~ IsHealthy(n)}
  OBVIOUS
<1>4. /\ rest # <<>> /\ Head(rest) \in Models
      /\ m \notin cold => Head(rest) = m
      /\ \A f \in Models : Fallback(m, f) => f \in cold \/ \E i \in DOMAIN rest : rest[i] = f
  <2>1. /\ rest # <<>> /\ (IsHealthy(m) => Head(rest) = m)
        /\ \A f \in Models : Fallback(m, f) /\ IsHealthy(f) => \E i \in DOMAIN rest : rest[i] = f
    <3>1. cooling \in [Models -> Nat]
      BY DEF LlmInv, LlmTypeOK
    <3>2. /\ CandidateModels(m) # <<>>
          /\ IsHealthy(m) => Head(CandidateModels(m)) = m
          /\ \A f \in Models : Fallback(m, f) /\ IsHealthy(f) =>
               \E i \in DOMAIN CandidateModels(m) : CandidateModels(m)[i] = f
      BY <3>1, CandidateFacts
    <3> QED
      BY <1>2, <3>2
  <2> QED
    BY <1>3, <2>1
<1> DEFINE next == [NoCall EXCEPT !.pc = "try", !.model = m, !.rest = rest,
                                  !.tried = {Head(rest)}, !.cold = cold]
<1>5. /\ next \in CallState /\ next.pc = "try" /\ next.model = m /\ next.rest = rest
      /\ next.tried = {Head(rest)} /\ next.cold = cold /\ next.first = NoModel
  <2>1. NoCall \in CallState /\ NoCall.first = NoModel
    BY DEF NoCall, CallState
  <2>2. {Head(rest)} \in SUBSET Models
    BY <1>4
  <2> HIDE DEF NoCall
  <2> QED
    BY <2>1, <2>2 DEF CallState
<1>6. call' = [call EXCEPT ![c] = next]
  BY <1>1, <1>2, <1>3 DEF Start
<1> HIDE DEF next
<1>8. CallOK(next)
  BY <1>4, <1>5 DEF CallOK, Going
<1>9. PICK new \in CallState : new = next
  BY <1>5
<1>10. ConfigTypeOK' /\ ServedIsSaved'
  BY ReadKeeps DEF Start, Read, LlmInv, LlmTypeOK, ConfigTypeOK
<1>11. cooling' \in [Models -> Nat] /\ UNCHANGED edits
  BY DEF Start, LlmInv, LlmTypeOK
<1> QED
  BY <1>6, <1>8, <1>9, <1>10, <1>11, CallKeeps

-----------------------------------------------------------------------------
(* One try after another *)

\* Any of these ends a call in peace, or leaves it at the same candidate.
LEMMA SameCandidate ==
  ASSUME LlmInv, NEW c \in Calls, Answered(c) \/ SoftLimit(c)
  PROVE  LlmInv'
<1>1. call[c] \in CallState /\ CallOK(call[c]) /\ call[c].pc = "try"
  BY DEF LlmInv, LlmTypeOK, CallState, Answered, SoftLimit, Trying
<1>2. UNCHANGED <<configVars, cooling, edits>> /\ cooling' \in [Models -> Nat]
  BY DEF LlmInv, LlmTypeOK, Answered, SoftLimit, others
<1>3. CASE Answered(c)
  <2> DEFINE next == [call[c] EXCEPT !.pc = "answered"]
  <2>1. next \in CallState /\ CallOK(next)
    BY <1>1 DEF CallState, CallOK
  <2>2. call' = [call EXCEPT ![c] = next]
    BY <1>3 DEF Answered
  <2> HIDE DEF next
  <2>3. PICK new \in CallState : new = next
    BY <2>1
  <2> QED
    BY <1>2, <2>1, <2>2, <2>3, ConfigStays, CallKeeps
<1>4. CASE SoftLimit(c)
  <2>1. PICK n \in 0 .. 2 : n = call[c].tries + 1
    BY <1>1, <1>4 DEF SoftLimit, CallState
  <2> DEFINE next == [call[c] EXCEPT !.tries = n]
  <2>2. /\ next \in CallState /\ next.pc = "try" /\ next.model = call[c].model
        /\ next.rest = call[c].rest /\ next.first = call[c].first
        /\ next.tried = call[c].tried /\ next.cold = call[c].cold
    BY <1>1 DEF CallState
  <2>3. call' = [call EXCEPT ![c] = next]
    BY <1>4, <2>1 DEF SoftLimit
  <2> HIDE DEF next
  <2>4. CallOK(next)
    BY <1>1, <2>2 DEF CallOK, Going
  <2>5. PICK new \in CallState : new = next
    BY <2>2
  <2> QED
    BY <1>2, <2>3, <2>4, <2>5, ConfigStays, CallKeeps
<1> QED
  BY <1>3, <1>4

LEMMA RaiseKeeps ==
  ASSUME LlmInv, NEW c \in Calls, call[c].pc = "try", NEW m \in Models, Raise(c, m),
         call[c].model \notin call[c].cold => m = call[c].model,
         \/ m = call[c].model
         \/ \A f \in Models : Fallback(call[c].model, f) => f \in call[c].tried \cup call[c].cold,
         UNCHANGED others, cooling' \in [Models -> Nat]
  PROVE  LlmInv'
<1>1. call[c] \in CallState /\ Going(call[c])
  BY DEF LlmInv, LlmTypeOK, CallState, CallOK
<1> DEFINE next == [call[c] EXCEPT !.pc = "raised", !.error = m]
<1>2. /\ next \in CallState /\ next.pc = "raised" /\ next.error = m
      /\ next.model = call[c].model /\ next.tried = call[c].tried /\ next.cold = call[c].cold
  BY <1>1 DEF CallState
<1>3. call' = [call EXCEPT ![c] = next]
  BY DEF Raise
<1> HIDE DEF next
<1>4. CallOK(next)
  BY <1>1, <1>2 DEF CallOK, Going, GaveUp
<1>5. PICK new \in CallState : new = next
  BY <1>2
<1> QED
  BY <1>3, <1>4, <1>5, ConfigStays, CallKeeps DEF others

\* The next candidate is taken up, or the first error is raised.
LEMMA NextModelKeeps ==
  ASSUME LlmInv, FallbackAssumption, NEW c \in Calls, call[c].pc = "try", NextModel(c),
         UNCHANGED others, cooling' \in [Models -> Nat]
  PROVE  LlmInv'
<1> DEFINE st == call[c]
           first == First(c)
           rest == Tail(st.rest)
<1>1. st \in CallState /\ Going(st) /\ st.pc = "try"
  BY DEF LlmInv, LlmTypeOK, CallState, CallOK
<1>2. /\ st.rest \in Seq(Models) /\ st.rest # <<>> /\ Current(c) \in Models
      /\ st.rest[1] = Current(c) /\ Current(c) = Head(st.rest)
  BY <1>1 DEF CallState, Going, Current
<1>3. first \in Models /\ (st.model \notin st.cold => first = st.model)
  BY <1>1, <1>2 DEF First, CallState, Going
<1>4. /\ rest \in Seq(Models) /\ Len(rest) = Len(st.rest) - 1
      /\ \A i \in 1 .. Len(rest) : rest[i] = st.rest[i + 1]
  BY <1>2, HeadTailProperties
<1>5. \A f \in Models : Fallback(st.model, f) =>
        f \in st.tried \cup st.cold \/ \E i \in DOMAIN rest : rest[i] = f
  <2> SUFFICES ASSUME NEW f \in Models, Fallback(st.model, f), f \notin st.tried \cup st.cold
               PROVE  \E i \in DOMAIN rest : rest[i] = f
    OBVIOUS
  <2>1. PICK i \in DOMAIN st.rest : st.rest[i] = f
    BY <1>1 DEF Going
  <2>2. i # 1
    BY <1>1, <1>2, <2>1 DEF Going
  <2>3. i \in 1 .. Len(st.rest) /\ Len(st.rest) \in Nat /\ DOMAIN rest = 1 .. Len(rest)
    BY <1>2, <1>4, <2>1
  <2>4. i - 1 \in DOMAIN rest /\ rest[i - 1] = st.rest[i]
    <3> HIDE DEF rest
    <3>1. i - 1 \in 1 .. Len(rest) /\ (i - 1) + 1 = i
      <4>1. PICK n \in Nat : n = Len(st.rest)
        BY <2>3
      <4>2. i \in 2 .. n /\ Len(rest) = n - 1
        BY <1>4, <2>2, <2>3, <4>1
      <4> QED
        BY <4>2
    <3>2. rest[i - 1] = st.rest[(i - 1) + 1]
      BY <1>4, <3>1
    <3> QED
      BY <2>3, <3>1, <3>2
  <2> QED
    BY <2>1, <2>4
<1>6. CASE rest = <<>>
  <2>1. Raise(c, first)
    BY <1>6 DEF NextModel
  <2>2. \A f \in Models : Fallback(st.model, f) => f \in st.tried \cup st.cold
    BY <1>5, <1>6
  <2>3. PICK m \in Models : m = first
    BY <1>3
  <2> QED
    BY <1>1, <1>3, <2>1, <2>2, <2>3, RaiseKeeps
<1>7. CASE rest # <<>>
  <2>1. PICK next1 \in Models : next1 = Head(rest)
    <3> HIDE DEF rest
    <3> QED
      BY <1>4, <1>7
  <2>2. PICK tried \in SUBSET Models : tried = st.tried \cup {next1}
    BY <1>1 DEF CallState
  <2> DEFINE next == [st EXCEPT !.first = first, !.rest = rest, !.tries = 0, !.tried = tried]
  <2>3. call' = [call EXCEPT ![c] = next]
    BY <1>7, <2>1, <2>2 DEF NextModel
  <2>4. /\ next \in CallState /\ next.pc = "try" /\ next.model = st.model /\ next.cold = st.cold
        /\ next.rest = rest /\ next.first = first /\ next.tried = tried
    <3>1. PICK p \in Models, q \in Seq(Models), x \in CallState : p = first /\ q = rest /\ x = st
      BY <1>1, <1>3, <1>4
    <3> DEFINE half == [x EXCEPT !.first = p, !.rest = q]
    <3>2. /\ half \in CallState /\ half.pc = x.pc /\ half.model = x.model /\ half.cold = x.cold
          /\ half.rest = q /\ half.first = p
      BY <3>1 DEF CallState
    <3>z. PICK zero \in 0 .. 2 : zero = 0
      OBVIOUS
    <3>h. PICK taken \in CallState : taken = half
      BY <3>2
    <3> DEFINE mid == [taken EXCEPT !.tries = zero]
    <3>3. next = [mid EXCEPT !.tried = tried]
      BY <3>1, <3>z, <3>h
    <3>4. /\ mid \in CallState /\ mid.pc = half.pc /\ mid.model = half.model
          /\ mid.cold = half.cold /\ mid.rest = half.rest /\ mid.first = half.first
      <4> HIDE DEF half
      <4>1. /\ mid \in CallState /\ mid.pc = taken.pc /\ mid.model = taken.model
            /\ mid.cold = taken.cold /\ mid.rest = taken.rest /\ mid.first = taken.first
        BY DEF CallState
      <4> QED
        BY <4>1, <3>h
    <3> HIDE DEF half, mid, next
    <3>5. /\ next \in CallState /\ next.pc = mid.pc /\ next.model = mid.model
          /\ next.cold = mid.cold /\ next.rest = mid.rest /\ next.first = mid.first
          /\ next.tried = tried
      BY <3>3, <3>4 DEF CallState
    <3> QED
      BY <1>1, <3>1, <3>2, <3>4, <3>5
  <2> HIDE DEF first, rest
  <2> HIDE DEF next
  <2>5. CallOK(next)
    BY <1>1, <1>3, <1>5, <1>7, <2>1, <2>2, <2>4 DEF CallOK, Going
  <2>6. PICK new \in CallState : new = next
    BY <2>4
  <2> QED
    BY <2>3, <2>5, <2>6, ConfigStays, CallKeeps DEF others
<1> QED
  BY <1>6, <1>7

LEMMA FailsKeeps ==
  ASSUME LlmInv, FallbackAssumption, NEW c \in Calls, Fails(c)
  PROVE  LlmInv'
<1>1. /\ call[c].pc = "try" /\ cooling' \in [Models -> Nat] /\ UNCHANGED others
      /\ call[c].rest \in Seq(Models) /\ call[c].rest # <<>>
  BY DEF Fails, Trying, LlmInv, LlmTypeOK, CallOK, Going
<1>2. CASE Current(c) = call[c].model
  <2>1. Raise(c, Current(c))
    BY <1>2 DEF Fails
  <2>2. PICK m \in Models : m = Current(c)
    BY <1>1 DEF Current
  <2> QED
    BY <1>1, <1>2, <2>1, <2>2, RaiseKeeps
<1>3. CASE Current(c) # call[c].model
  BY <1>1, <1>3, NextModelKeeps DEF Fails
<1> QED
  BY <1>2, <1>3

LEMMA HardLimitKeeps ==
  ASSUME LlmInv, FallbackAssumption, CooldownAssumption, NEW c \in Calls, NEW secs \in Cooldowns,
         HardLimit(c, secs)
  PROVE  LlmInv'
<1>1. secs \in Nat /\ cooling \in [Models -> Nat] /\ call[c].pc = "try"
  BY DEF CooldownAssumption, HardLimit, Trying, LlmInv, LlmTypeOK
<1>2. cooling' \in [Models -> Nat]
  BY <1>1 DEF HardLimit, MarkUnhealthy
<1> QED
  BY <1>1, <1>2, NextModelKeeps DEF HardLimit

LEMMA TryKeeps ==
  ASSUME LlmInv, ConfigAssumption, FallbackAssumption, CooldownAssumption,
         NEW c \in Calls, Try(c)
  PROVE  LlmInv'
<1>1. CASE NoUse(c)
  <2>1. call[c].pc = "try" /\ cooling' \in [Models -> Nat]
    BY <1>1 DEF NoUse, Trying, LlmInv, LlmTypeOK
  <2> QED
    BY <1>1, <2>1, NextModelKeeps DEF NoUse
<1>2. CASE ~ NoUse(c)
  BY <1>2, StartKeeps, SameCandidate, FailsKeeps, HardLimitKeeps DEF Try
<1> QED
  BY <1>1, <1>2

\* Steps of no call's.
LEMMA CallsStay ==
  ASSUME LlmInv, ConfigTypeOK', ServedIsSaved', call' \in [Calls -> CallState],
         \A c \in Calls : call'[c] = call[c] \/ call'[c].pc = "new",
         cooling' \in [Models -> Nat], edits' \in 0 .. MaxEdits
  PROVE  LlmInv'
<1>1. LlmTypeOK'
  BY DEF LlmInv, LlmTypeOK, CallState
<1>2. ASSUME NEW c \in Calls PROVE CallOK(call[c])'
  BY DEF LlmInv, CallOK, Going, GaveUp
<1> QED
  BY <1>1, <1>2 DEF LlmInv

LEMMA TickKeeps ==
  ASSUME LlmInv, Tick
  PROVE  LlmInv'
<1>1. cooling' \in [Models -> Nat]
  BY DEF Tick, LlmInv, LlmTypeOK
<1>2. call' \in [Calls -> CallState] /\ call' = call
  BY DEF Tick, LlmInv, LlmTypeOK, CallState
<1>3. ConfigTypeOK' /\ ServedIsSaved' /\ edits' \in 0 .. MaxEdits
  BY ConfigStays DEF Tick, others, LlmInv, LlmTypeOK
<1> QED
  BY <1>1, <1>2, <1>3, CallsStay

LEMMA EditKeeps ==
  ASSUME LlmInv, ConfigAssumption, BoundAssumption, EditConfig \/ Die
  PROVE  LlmInv'
<1>1. edits' \in 0 .. MaxEdits
  BY DEF EditConfig, Die, LlmInv, LlmTypeOK, BoundAssumption
<1>2. call \in [Calls -> CallState] /\ NoCall \in CallState /\ NoCall.pc = "new"
  BY DEF LlmInv, LlmTypeOK, CallState, NoCall
<1>3. CASE EditConfig
  <2>1. cooling' \in [Models -> Nat] /\ call' = call
    BY <1>3 DEF EditConfig, LlmInv, LlmTypeOK
  <2>2. ConfigTypeOK' /\ ServedIsSaved'
    BY <1>3, EditConfigKeeps DEF LlmInv, LlmTypeOK
  <2> QED
    BY <1>1, <1>2, <2>1, <2>2, CallsStay
<1>4. CASE Die
  <2>1. cooling' \in [Models -> Nat]
    BY <1>4 DEF Die
  <2>2. /\ call' \in [Calls -> CallState]
        /\ \A c \in Calls : call'[c] = call[c] \/ call'[c].pc = "new"
    BY <1>2, <1>4 DEF Die
  <2>3. ConfigTypeOK' /\ ServedIsSaved'
    BY <1>4 DEF Die, Restart, ConfigTypeOK, ServedIsSaved, LlmInv, LlmTypeOK
  <2> QED
    BY <1>1, <2>1, <2>2, <2>3, CallsStay
<1> QED
  BY <1>3, <1>4

-----------------------------------------------------------------------------
(* The specification *)

LEMMA LlmInit ==
  ASSUME ConfigAssumption, FallbackAssumption, BoundAssumption, CallInit
  PROVE  LlmInv
<1>1. ConfigTypeOK /\ ServedIsSaved
  BY DEF CallInit, ConfigInit, ConfigTypeOK, ServedIsSaved, ConfigAssumption
<1>2. NoCall \in CallState /\ NoCall.pc = "new"
  BY DEF CallState, NoCall
<1>3. call \in [Calls -> CallState] /\ \A c \in Calls : call[c] = NoCall
  BY <1>2 DEF CallInit
<1>4. LlmTypeOK
  BY <1>1, <1>3 DEF CallInit, LlmTypeOK, CallState, BoundAssumption
<1>5. ASSUME NEW c \in Calls PROVE CallOK(call[c])
  BY <1>2, <1>3 DEF CallOK
<1> QED
  BY <1>1, <1>4, <1>5 DEF LlmInv

LEMMA LlmStep ==
  ASSUME ConfigAssumption, FallbackAssumption, CooldownAssumption, BoundAssumption,
         LlmInv, [CallNext]_callVars
  PROVE  LlmInv'
<1>1. ASSUME NEW c \in Calls, Try(c) PROVE LlmInv'
  BY <1>1, TryKeeps
<1>2. CASE Tick
  BY <1>2, TickKeeps
<1>3. CASE EditConfig \/ Die
  BY <1>3, EditKeeps
<1>4. CASE UNCHANGED callVars
  <2>1. ConfigTypeOK' /\ ServedIsSaved'
    BY <1>4, ConfigStays DEF callVars
  <2>2. call' \in [Calls -> CallState] /\ call' = call
    BY <1>4 DEF callVars, LlmInv, LlmTypeOK, CallState
  <2>3. cooling' \in [Models -> Nat] /\ edits' \in 0 .. MaxEdits
    BY <1>4 DEF callVars, LlmInv, LlmTypeOK
  <2> QED
    BY <2>1, <2>2, <2>3, CallsStay
<1> QED
  BY <1>1, <1>2, <1>3, <1>4 DEF CallNext

\* The configuration, the calls and the cool-downs agree in every state.
THEOREM LlmInvHolds == CallSpec => []LlmInv
<1>1. CallInit => LlmInv
  BY LlmInit, ConfigAssumption, FallbackAssumption, BoundAssumption
<1>2. LlmInv /\ [CallNext]_callVars => LlmInv'
  BY LlmStep, ConfigAssumption, FallbackAssumption, CooldownAssumption, BoundAssumption
<1> QED
  BY <1>1, <1>2, PTL DEF CallSpec

\* Every variable of the calls and of the configuration keeps its type.
THEOREM LlmTypeCorrect == CallSpec => []LlmTypeOK
<1>1. LlmInv => LlmTypeOK
  BY DEF LlmInv
<1> QED
  BY <1>1, LlmInvHolds, PTL

\* However calls, outages and edits interleave, a call that acompletion gives up has
\* its primary's own error, or every keyed fallback was tried or known to be out.
THEOREM NothingLeftUntriedHolds == CallSpec => []NothingLeftUntried
<1>1. ASSUME LlmInv, FallbackAssumption PROVE NothingLeftUntried
  <2> SUFFICES ASSUME NEW c \in Calls, call[c].pc = "raised"
               PROVE  /\ call[c].tried # {}
                      /\ \/ call[c].error = call[c].model
                         \/ \A i \in DOMAIN Fallbacks[call[c].model] :
                              Fallbacks[call[c].model][i] \in Keyed =>
                                Fallbacks[call[c].model][i] \in call[c].tried \cup call[c].cold
    BY DEF NothingLeftUntried
  <2>1. GaveUp(call[c])
    BY <1>1 DEF LlmInv, CallOK
  <2>2. ASSUME NEW i \in DOMAIN Fallbacks[call[c].model],
               Fallbacks[call[c].model][i] \in Keyed
        PROVE  /\ Fallbacks[call[c].model][i] \in Models
               /\ Fallback(call[c].model, Fallbacks[call[c].model][i])
    BY <1>1, <2>2 DEF FallbackAssumption, Fallback
  <2> QED
    BY <2>1, <2>2 DEF GaveUp
<1> QED
  BY <1>1, FallbackAssumption, LlmInvHolds, PTL

\* The error a call raises is its primary's, unless that was cooling down at the start.
THEOREM ErrorExplainsHolds == CallSpec => []ErrorExplains
<1>1. LlmInv => ErrorExplains
  BY DEF LlmInv, ErrorExplains, CallOK, GaveUp
<1> QED
  BY <1>1, LlmInvHolds, PTL

\* What model_config serves from memory is what a restart would read from the file,
\* but for a save the disk refused and an update rejected halfway.
THEOREM ServedIsSavedHolds == CallSpec => []ServedIsSaved
<1>1. LlmInv => ServedIsSaved
  BY DEF LlmInv
<1> QED
  BY <1>1, LlmInvHolds, PTL

LEMMA StepHeals ==
  ASSUME LlmInv, CooldownAssumption, CallNext, NEW m \in Models, cooling'[m] < cooling[m]
  PROVE  cache' = NotLoaded \/ cooling'[m] = cooling[m] - 1
<1>1. cooling \in [Models -> Nat] /\ cooling[m] \in Nat
  BY DEF LlmInv, LlmTypeOK
<1>2. ASSUME NEW c \in Calls, NEW secs \in Cooldowns, HardLimit(c, secs) PROVE FALSE
  <2>1. cooling' = [cooling EXCEPT ![Current(c)] = IF cooling[Current(c)] < secs
                                                   THEN secs ELSE cooling[Current(c)]]
    BY <1>2 DEF HardLimit, MarkUnhealthy
  <2>2. secs \in Nat
    BY DEF CooldownAssumption
  <2>3. cooling'[m] = cooling[m] \/ cooling'[m] > cooling[m]
    BY <1>1, <2>1, <2>2
  <2> QED
    BY <1>1, <2>2, <2>3, <2>1
<1>3. ASSUME NEW c \in Calls, Try(c) PROVE FALSE
  <2>1. cooling' # cooling
    BY <1>1
  <2> QED
    BY <1>2, <1>3, <2>1 DEF Try, Start, Answered, SoftLimit, NoUse, Fails
<1>4. CASE Tick
  BY <1>1, <1>4 DEF Tick
<1>5. CASE EditConfig
  BY <1>1, <1>5 DEF EditConfig
<1>6. CASE Die
  BY <1>6 DEF Die, Restart
<1> QED
  BY <1>3, <1>4, <1>5, <1>6 DEF CallNext

\* Whatever the order in which calls learn of one outage, mark_unhealthy never cuts it
\* short: only the clock does, a tick at a time, or the end of the process.
THEOREM OnlyTimeHealsHolds == CallSpec => OnlyTimeHeals
<1>1. ASSUME LlmInv, CooldownAssumption, [CallNext]_callVars
      PROVE  [\A m \in Models : cooling'[m] < cooling[m] =>
                cache' = NotLoaded \/ cooling'[m] = cooling[m] - 1]_callVars
  BY <1>1, StepHeals
<1> QED
  BY <1>1, CooldownAssumption, LlmInvHolds, PTL DEF CallSpec, OnlyTimeHeals

-----------------------------------------------------------------------------
(* Plans *)

\* A complaint is in the prompt or about to be; an attempt earns at most one.
Heard ==
  /\ pc = "ask" => faults = (IF complaint THEN heard + 1 ELSE heard) /\ faults <= attempt
  /\ pc = "reply" => faults = heard /\ faults < attempt /\ ~ complaint

\* Repair has made every reference in a value to another task a dependency.
Filled(p) ==
  \A t \in TasksOf(p) : \A r \in p.tasks[t].refs :
    r.how # "key" /\ r.id \in TasksOf(p) \ {t} => r.id \in p.tasks[t].deps

Rewritten(p, r) ==
  IF r.how \in {"exact", "deep"} /\ r.id \in TasksOf(p) THEN [r EXCEPT !.id = Prefixed(r.id)] ELSE r

\* The rows are the plan under global ids.
StoredAs(p) ==
  /\ DOMAIN task = {Prefixed(t) : t \in TasksOf(p)}
  /\ \A t \in TasksOf(p) :
       task[Prefixed(t)] = [agent |-> p.tasks[t].agent, work |-> p.tasks[t].work,
                            deps |-> {Prefixed(d) : d \in p.tasks[t].deps},
                            refs |-> {Rewritten(p, r) : r \in p.tasks[t].refs}]

\* What a plain reference to a task reads as: its output, the very field if it is assured.
Reads(p, r, got) ==
  \/ got = Value(Prefixed(r.id), Path(r))
  \/ ~ Assured(p.tasks[r.id].agent, Path(r)) /\ got = Value(Prefixed(r.id), Whole)

\* What a task was given for a reference of its own.
Meant(p, t, r, x) ==
  /\ x.asked = Rewritten(p, r)
  /\ r.how # "exact" => x.got = Text
  /\ r.how = "exact" /\ r.id \in TasksOf(p) \ {t} /\ Prefixed(r.id) \in judged =>
       Reads(p, r, x.got)

GivenAsMeant(p, t) ==
  /\ \A x \in given[Prefixed(t)] : \E r \in p.tasks[t].refs : Meant(p, t, r, x)
  /\ \A r \in p.tasks[t].refs : \E x \in given[Prefixed(t)] : Meant(p, t, r, x)

Planned ==
  /\ PlanSchema(accepted) /\ IsValid(accepted) /\ Filled(accepted) /\ StoredAs(accepted)
  /\ \A t \in TasksOf(accepted) : Prefixed(t) \in done => GivenAsMeant(accepted, t)

\* The rows of the loop mode refer to nothing.
Looped ==
  /\ \A g \in DOMAIN task : task[g].agent = "operator" /\ task[g].refs = {}
  /\ \A g \in DOMAIN given : given[g] = {}

\* Tasks ran after what they depend on, and a checked result has what is assured: a
\* result that is checked later cannot change what was handed out before.
Settled ==
  /\ \A g \in done : task[g].deps \subseteq done
  /\ \A g \in judged : \A path \in Referred(g) :
       Assured(task[g].agent, path) => path \in output[g]

PlanInv ==
  /\ PlanTypeOK
  /\ Heard
  /\ Settled
  /\ IF pc = "stored" THEN Looped \/ Planned ELSE task = <<>>

-----------------------------------------------------------------------------
(* The operators *)

LEMMA Renamed ==
  ASSUME NEW p, NEW r \in Reference
  PROVE  /\ Rewritten(p, r).how = r.how /\ Path(Rewritten(p, r)) = Path(r)
         /\ r.how = "exact" /\ r.id \in TasksOf(p) => Rewritten(p, r).id = Prefixed(r.id)
  BY DEF Rewritten, Reference, Path

LEMMA PrefixedOnce ==
  ASSUME NEW t, NEW u
  PROVE  Prefixed(t)[2] = t /\ (Prefixed(t) = Prefixed(u) => t = u)
<1>1. <<Goal, t>>[2] = t /\ <<Goal, u>>[2] = u
  OBVIOUS
<1> QED
  BY <1>1 DEF Prefixed

\* A global id is no short one, and none is None.
LEMMA PrefixedApart ==
  ASSUME PlanAssumption, NEW t \in Ids \cup {Stray}
  PROVE  Prefixed(t) \notin Ids \cup {Stray, None}
<1>1. Prefixed(t) \in {Goal} \X (Ids \cup {Stray})
  BY DEF Prefixed
<1> QED
  BY <1>1 DEF PlanAssumption

\* Repair touches the dependencies alone, and leaves none out.
LEMMA AutoFillKeeps ==
  ASSUME NEW p, PlanSchema(p)
  PROVE  PlanSchema(AutoFillDeps(p)) /\ Filled(AutoFillDeps(p))
<1> DEFINE q == AutoFillDeps(p)
           more(t) == p.tasks[t].deps \cup ((Mentioned(p.tasks[t].refs) \cap TasksOf(p)) \ {t})
           filled == [t \in TasksOf(p) |-> [p.tasks[t] EXCEPT !.deps = more(t)]]
<1>1. q = [p EXCEPT !.tasks = filled]
  BY DEF AutoFillDeps
<1>2. p = [tasks |-> p.tasks, terminal |-> p.terminal]
  BY DEF PlanSchema
<1>3. /\ q = [tasks |-> filled, terminal |-> p.terminal]
      /\ q.tasks = filled /\ q.terminal = p.terminal /\ TasksOf(q) = TasksOf(p)
  <2> HIDE DEF filled, q
  <2>1. q = [tasks |-> filled, terminal |-> p.terminal]
    BY <1>1, <1>2
  <2>2. q.tasks = filled /\ q.terminal = p.terminal
    BY <2>1
  <2> QED
    BY <2>1, <2>2 DEF TasksOf, filled
<1>4. TasksOf(p) \in SUBSET Ids \ {{}} /\ p.terminal \in Ids \cup {Stray}
  BY DEF PlanSchema, TasksOf
<1>5. ASSUME NEW t \in TasksOf(p)
      PROVE  /\ filled[t] \in TaskSchema /\ filled[t].refs = p.tasks[t].refs
             /\ filled[t].deps = more(t)
  <2>1. p.tasks[t] \in TaskSchema
    BY DEF PlanSchema, TasksOf
  <2>2. PICK deps \in SUBSET (Ids \cup {Stray}) : deps = more(t)
    <3>1. p.tasks[t].deps \in SUBSET (Ids \cup {Stray})
      BY <2>1 DEF TaskSchema
    <3> QED
      BY <1>4, <3>1
  <2> HIDE DEF more
  <2>3. filled[t] = [p.tasks[t] EXCEPT !.deps = deps]
    BY <2>2
  <2> QED
    BY <2>1, <2>2, <2>3 DEF TaskSchema
<1>6. PlanSchema(q)
  <2> HIDE DEF q
  <2>1. q.tasks \in [TasksOf(q) -> TaskSchema]
    BY <1>3, <1>5
  <2> QED
    BY <1>3, <1>4, <2>1 DEF PlanSchema, TasksOf
<1>7. Filled(q)
  <2> HIDE DEF q, filled
  <2> SUFFICES ASSUME NEW t \in TasksOf(q), NEW r \in q.tasks[t].refs, r.how # "key",
                      r.id \in TasksOf(q) \ {t}
               PROVE  r.id \in q.tasks[t].deps
    BY DEF Filled
  <2>1. r.id \in Mentioned(p.tasks[t].refs)
    BY <1>3, <1>5 DEF Mentioned
  <2> QED
    BY <1>3, <1>5, <2>1
<1> QED
  BY <1>6, <1>7

\* The fields of a row.
LEMMA RowOf ==
  ASSUME NEW p, StoredAs(p), NEW t \in TasksOf(p)
  PROVE  /\ Prefixed(t) \in DOMAIN task
         /\ task[Prefixed(t)].agent = p.tasks[t].agent
         /\ task[Prefixed(t)].work = p.tasks[t].work
         /\ task[Prefixed(t)].deps = {Prefixed(d) : d \in p.tasks[t].deps}
         /\ task[Prefixed(t)].refs = {Rewritten(p, r) : r \in p.tasks[t].refs}
<1>1. PICK deps, refs : /\ deps = {Prefixed(d) : d \in p.tasks[t].deps}
                        /\ refs = {Rewritten(p, r) : r \in p.tasks[t].refs}
  OBVIOUS
<1>2. task[Prefixed(t)] = [agent |-> p.tasks[t].agent, work |-> p.tasks[t].work,
                           deps |-> deps, refs |-> refs]
  BY <1>1 DEF StoredAs
<1>3. /\ task[Prefixed(t)].agent = p.tasks[t].agent
      /\ task[Prefixed(t)].work = p.tasks[t].work
      /\ task[Prefixed(t)].deps = deps /\ task[Prefixed(t)].refs = refs
  BY <1>2
<1>4. Prefixed(t) \in DOMAIN task
  BY DEF StoredAs
<1> QED
  BY <1>1, <1>3, <1>4

-----------------------------------------------------------------------------
(* The steps *)

\* Steps before there is a plan.
LEMMA AskingKeeps ==
  ASSUME PlanInv, PlanTypeOK', Heard', pc # "stored", pc' # "stored", UNCHANGED results
  PROVE  PlanInv'
  BY DEF PlanInv, Settled, Referred, results

\* Steps after it.
LEMMA HeardNoMore ==
  ASSUME pc' = "stored" PROVE Heard'
  BY DEF Heard

LEMMA AskKeeps ==
  ASSUME PlanInv, PlanAssumption, Ask
  PROVE  PlanInv'
<1>1. attempt' \in 0 .. MaxAttempts /\ {faults', heard'} \subseteq 0 .. MaxAttempts /\ Heard'
  BY DEF PlanInv, PlanTypeOK, Heard, Ask, PlanAssumption
<1>2. PlanTypeOK'
  BY <1>1 DEF Ask, PlanInv, PlanTypeOK, results, PlanSchema, TaskSchema
<1> QED
  BY <1>1, <1>2, AskingKeeps DEF Ask

LEMMA FaultKeeps ==
  ASSUME PlanInv, PlanAssumption, pc = "reply", Fault
  PROVE  PlanInv'
<1>1. {faults', heard'} \subseteq 0 .. MaxAttempts /\ Heard'
  BY DEF PlanInv, PlanTypeOK, Heard, Fault, Complain, PlanAssumption
<1>2. PlanTypeOK'
  BY <1>1 DEF Fault, Complain, PlanInv, PlanTypeOK, results, PlanSchema, TaskSchema
<1> QED
  BY <1>1, <1>2, AskingKeeps DEF Fault

LEMMA PauseKeeps ==
  ASSUME PlanInv, PlanAssumption, GiveUp \/ Retry \/ Raises
  PROVE  PlanInv'
<1>1. Heard'
  BY DEF PlanInv, PlanTypeOK, Heard, GiveUp, Retry, Raises, PlanAssumption
<1>2. PlanTypeOK'
  BY DEF GiveUp, Retry, Raises, PlanInv, PlanTypeOK, results, PlanSchema, TaskSchema
<1> QED
  BY <1>1, <1>2, AskingKeeps DEF GiveUp, Retry, Raises

\* There are no rows before there is a plan.
LEMMA Unstored ==
  ASSUME PlanInv, pc # "stored"
  PROVE  done = {} /\ judged = {} /\ DOMAIN given = {} /\ DOMAIN output = {}
  BY DEF PlanInv, PlanTypeOK

LEMMA StoreKeeps ==
  ASSUME PlanInv, PlanAssumption, pc = "reply", NEW p, PlanSchema(p), IsValid(p), Filled(p), Store(p)
  PROVE  PlanInv'
<1>1. /\ done' = {} /\ judged' = {} /\ DOMAIN given' = {} /\ DOMAIN output' = {}
      /\ pc' = "stored" /\ accepted' = p
  BY Unstored DEF Store
<1>2. TasksOf(p) \subseteq Ids
  BY DEF PlanSchema, TasksOf
<1>3. DOMAIN task' = {Prefixed(t) : t \in TasksOf(p)}
  BY DEF Store
<1>4. StoredAs(p)'
  <2> SUFFICES ASSUME NEW t \in TasksOf(p)
               PROVE  task'[Prefixed(t)] =
                        [agent |-> p.tasks[t].agent, work |-> p.tasks[t].work,
                         deps |-> {Prefixed(d) : d \in p.tasks[t].deps},
                         refs |-> {Rewritten(p, r) : r \in p.tasks[t].refs}]
    BY <1>3 DEF StoredAs
  <2>1. Prefixed(t) \in {Prefixed(u) : u \in TasksOf(p)} /\ Prefixed(t)[2] = t
    BY PrefixedOnce
  <2>2. RewriteTemplates(p, p.tasks[t].refs) = {Rewritten(p, r) : r \in p.tasks[t].refs}
    BY DEF RewriteTemplates, Rewritten
  <2> QED
    BY <2>1, <2>2 DEF Store
<1>5. Planned'
  BY <1>1, <1>4 DEF Planned
<1>6. DOMAIN task' \subseteq {Goal} \X Ids
  BY <1>2, <1>3 DEF Prefixed
<1>7. PlanTypeOK'
  BY <1>1, <1>6 DEF Store, PlanInv, PlanTypeOK
<1>8. Settled'
  BY <1>1 DEF Settled
<1> QED
  BY <1>1, <1>5, <1>7, <1>8, HeardNoMore DEF PlanInv

LEMMA PlanKeeps ==
  ASSUME PlanInv, PlanAssumption, pc = "reply", NEW p \in Answers, Plan(p)
  PROVE  PlanInv'
<1>1. PlanSchema(p)
  BY DEF PlanAssumption
<1>2. PICK q : q = AutoFillDeps(p)
  OBVIOUS
<1>3. PlanSchema(q) /\ Filled(q)
  BY <1>1, <1>2, AutoFillKeeps
<1>4. CASE IsValid(q)
  BY <1>2, <1>3, <1>4, StoreKeeps DEF Plan
<1>5. CASE ~ IsValid(q)
  BY <1>2, <1>5, FaultKeeps DEF Plan
<1> QED
  BY <1>4, <1>5

LEMMA LoopKeeps ==
  ASSUME PlanInv, PlanAssumption, RunAsLoop
  PROVE  PlanInv'
<1>1. /\ done' = {} /\ judged' = {} /\ DOMAIN given' = {} /\ DOMAIN output' = {}
      /\ pc' = "stored"
  BY Unstored DEF RunAsLoop
<1>2. (CHOOSE t \in Ids : TRUE) \in Ids
  BY DEF PlanAssumption
<1>3. /\ DOMAIN task' \subseteq {Goal} \X Ids
      /\ \A g \in DOMAIN task' : task'[g].agent = "operator" /\ task'[g].refs = {}
  BY <1>2 DEF RunAsLoop, Prefixed
<1>4. Looped'
  BY <1>1, <1>3 DEF Looped
<1>5. PlanTypeOK'
  BY <1>1, <1>3 DEF RunAsLoop, PlanInv, PlanTypeOK, PlanSchema, TaskSchema
<1>6. Settled'
  BY <1>1 DEF Settled
<1> QED
  BY <1>1, <1>4, <1>5, <1>6, HeardNoMore DEF PlanInv

\* A path a reference follows is one of those into the output it reads.
LEMMA PathReferred ==
  ASSUME NEW h \in DOMAIN task, NEW q \in task[h].refs
  PROVE  Path(q) \in Referred(q.id) /\ Whole \in Referred(q.id)
<1>1. q \in {r \in UNION {task[i].refs : i \in DOMAIN task} : r.id = q.id}
  OBVIOUS
<1> QED
  BY <1>1 DEF Referred

\* What a task is given for its references, when its dependencies are done.
LEMMA LookupMeans ==
  ASSUME PlanAssumption, Settled, judged \subseteq done,
         NEW p, PlanSchema(p), Filled(p), StoredAs(p),
         NEW t \in TasksOf(p), task[Prefixed(t)].deps \subseteq done,
         NEW r \in p.tasks[t].refs
  PROVE  Meant(p, t, r, [asked |-> Rewritten(p, r), got |-> Resolve(Rewritten(p, r))])
<1>1. r \in Reference
  BY DEF PlanSchema, TasksOf, TaskSchema
<1>2. r.how # "exact" => Resolve(Rewritten(p, r)) = Text
  BY <1>1, Renamed DEF Resolve
<1>3. ASSUME r.how = "exact", r.id \in TasksOf(p) \ {t}, Prefixed(r.id) \in judged
      PROVE  Reads(p, r, Resolve(Rewritten(p, r)))
  <2>1. PICK q : q = Rewritten(p, r)
    OBVIOUS
  <2>2. q.how = "exact" /\ q.id = Prefixed(r.id) /\ Path(q) = Path(r)
    BY <1>1, <1>3, <2>1, Renamed
  <2>3. Prefixed(t) \in DOMAIN task /\ q \in task[Prefixed(t)].refs
    BY <2>1, RowOf
  <2>4. Path(q) \in Referred(q.id) /\ Whole \in Referred(q.id)
    BY <2>3, PathReferred
  <2>5. task[q.id].agent = p.tasks[r.id].agent
    BY <1>3, <2>2, RowOf
  <2>6. \A path \in Referred(q.id) : Assured(task[q.id].agent, path) => path \in output[q.id]
    BY <1>3, <2>2 DEF Settled
  <2>7. Whole \in output[q.id]
    <3>1. Assured(task[q.id].agent, Whole)
      BY DEF Assured, Whole
    <3> QED
      BY <2>4, <2>6, <3>1
  <2>8. Resolve(q) = Value(q.id, IF Path(q) \in output[q.id] THEN Path(q) ELSE Whole)
    BY <1>3, <2>2, <2>7 DEF Resolve, Lookup
  <2> QED
    BY <2>1, <2>2, <2>4, <2>5, <2>6, <2>8 DEF Reads
<1> QED
  BY <1>2, <1>3 DEF Meant

\* What a task was given stays what was meant: the results it reads were in before it ran.
LEMMA MeantStays ==
  ASSUME PlanInv, Planned, NEW g \in DOMAIN task, RunTask(g),
         NEW t \in TasksOf(accepted), Prefixed(t) \in done,
         NEW r \in accepted.tasks[t].refs, NEW x, Meant(accepted, t, r, x)
  PROVE  Meant(accepted, t, r, x)'
<1>1. /\ accepted' = accepted /\ g \notin done
      /\ judged' \subseteq judged \cup {g}
  BY DEF RunTask
<1>2. ASSUME r.how = "exact", r.id \in TasksOf(accepted) \ {t}, Prefixed(r.id) \in judged'
      PROVE  Prefixed(r.id) \in judged
  <2>1. r.id \in accepted.tasks[t].deps
    BY <1>2 DEF Planned, Filled
  <2>2. Prefixed(r.id) \in task[Prefixed(t)].deps
    BY <2>1, RowOf DEF Planned
  <2>3. Prefixed(r.id) \in done
    BY <2>2 DEF PlanInv, Settled
  <2> QED
    BY <1>1, <1>2, <2>3
<1>3. PICK p : p = accepted
  OBVIOUS
<1>4. Meant(p, t, r, x)'
  BY <1>2, <1>3 DEF Meant
<1> QED
  BY <1>1, <1>3, <1>4

\* The result of the task that ran is settled like the others.
LEMMA RunSettles ==
  ASSUME PlanInv, NEW g \in DOMAIN task, RunTask(g)
  PROVE  Settled' /\ judged' \subseteq done' /\ DOMAIN output' = done'
<1>1. /\ task' = task /\ done' = done \cup {g} /\ g \notin done /\ task[g].deps \subseteq done
      /\ judged \subseteq done /\ DOMAIN output = done
  BY DEF RunTask, PlanInv, PlanTypeOK
<1>2. \A h : Referred(h)' = Referred(h)
  BY <1>1 DEF Referred
<1>3. PICK out \in SUBSET Referred(g), checked \in BOOLEAN :
        /\ Result(g, out, checked)
        /\ output' = [h \in DOMAIN output \cup {g} |-> IF h = g THEN out ELSE output[h]]
        /\ judged' = IF checked THEN judged \cup {g} ELSE judged
  BY DEF RunTask
<1>4. DOMAIN output' = done' /\ judged' \subseteq done'
  BY <1>1, <1>3
<1>5. \A h \in done' : task'[h].deps \subseteq done'
  BY <1>1 DEF PlanInv, Settled
<1>6. ASSUME NEW h \in judged', NEW path \in Referred(h), Assured(task[h].agent, path)
      PROVE  path \in output'[h]
  <2>1. CASE h = g
    <3>1. checked
      BY <1>1, <1>3, <1>6, <2>1
    <3> QED
      BY <1>3, <1>6, <2>1, <3>1 DEF Result
  <2>2. CASE h # g
    <3>1. h \in judged /\ output'[h] = output[h]
      BY <1>1, <1>3, <1>6, <2>2
    <3> QED
      BY <1>6, <3>1 DEF PlanInv, Settled
  <2> QED
    BY <2>1, <2>2
<1>7. Settled'
  BY <1>1, <1>2, <1>5, <1>6 DEF Settled
<1> QED
  BY <1>4, <1>7

LEMMA RunTaskKeeps ==
  ASSUME PlanInv, PlanAssumption, NEW g \in DOMAIN task, RunTask(g)
  PROVE  PlanInv'
<1>1. /\ pc = "stored" /\ pc' = "stored" /\ accepted' = accepted /\ task' = task
      /\ done' = done \cup {g} /\ DOMAIN given' = DOMAIN given \cup {g}
      /\ g \notin done /\ task[g].deps \subseteq done
      /\ given'[g] = {[asked |-> r, got |-> Resolve(r)] : r \in task[g].refs}
      /\ judged' \subseteq judged \cup {g}
      /\ \A h \in DOMAIN given : h # g => given'[h] = given[h]
  BY DEF RunTask
<1>2. DOMAIN given = done
  BY DEF PlanInv, PlanTypeOK
<1>3. PlanTypeOK' /\ Settled'
  BY <1>1, <1>2, RunSettles DEF RunTask, PlanInv, PlanTypeOK, PlanSchema, TaskSchema
<1>4. CASE Looped
  BY <1>1, <1>3, <1>4, HeardNoMore DEF Looped, PlanInv
<1>5. CASE Planned
  <2>1. PICK p : p = accepted
    OBVIOUS
  <2>2. PlanSchema(p) /\ IsValid(p) /\ Filled(p) /\ StoredAs(p)
    BY <1>5, <2>1 DEF Planned
  <2>3. ASSUME NEW t \in TasksOf(p), Prefixed(t) \in done' PROVE GivenAsMeant(p, t)'
    <3>1. CASE Prefixed(t) = g
      <4>1. task[g].refs = {Rewritten(p, r) : r \in p.tasks[t].refs}
        BY <2>2, <3>1, RowOf
      <4>2. given'[Prefixed(t)] =
              {[asked |-> Rewritten(p, r), got |-> Resolve(Rewritten(p, r))] : r \in p.tasks[t].refs}
        BY <1>1, <3>1, <4>1
      <4>3. ASSUME NEW r \in p.tasks[t].refs
            PROVE  \E x : /\ x = [asked |-> Rewritten(p, r), got |-> Resolve(Rewritten(p, r))]
                          /\ Meant(p, t, r, x)'
        <5>1. PICK x : x = [asked |-> Rewritten(p, r), got |-> Resolve(Rewritten(p, r))]
          OBVIOUS
        <5>2. Meant(p, t, r, x)
          BY <1>1, <2>2, <3>1, <5>1, LookupMeans DEF PlanInv, PlanTypeOK
        <5>3. ASSUME r.how = "exact", r.id \in TasksOf(p) \ {t} PROVE Prefixed(r.id) \in done
          <6>1. r.id \in p.tasks[t].deps
            BY <2>2, <5>3 DEF Filled
          <6>2. Prefixed(r.id) \in task[Prefixed(t)].deps
            BY <2>2, <6>1, RowOf
          <6> QED
            BY <1>1, <3>1, <6>2
        <5>4. Meant(p, t, r, x)'
          BY <1>1, <5>2, <5>3 DEF Meant
        <5> QED
          BY <5>1, <5>4
      <4>4. \A x \in given'[Prefixed(t)] : \E r \in p.tasks[t].refs : Meant(p, t, r, x)'
        BY <4>2, <4>3
      <4>5. \A r \in p.tasks[t].refs : \E x \in given'[Prefixed(t)] : Meant(p, t, r, x)'
        BY <4>2, <4>3
      <4> QED
        BY <4>4, <4>5 DEF GivenAsMeant
    <3>2. CASE Prefixed(t) # g
      <4>1. given'[Prefixed(t)] = given[Prefixed(t)] /\ GivenAsMeant(p, t)
        BY <1>1, <1>2, <1>5, <2>1, <2>3, <3>2 DEF Planned
      <4> QED
        BY <1>1, <1>5, <2>1, <2>3, <3>2, <4>1, MeantStays DEF GivenAsMeant
    <3> QED
      BY <3>1, <3>2
  <2>4. StoredAs(p)'
    BY <1>1, <2>2 DEF StoredAs
  <2>5. Planned'
    BY <1>1, <2>1, <2>2, <2>3, <2>4 DEF Planned
  <2> QED
    BY <1>1, <1>3, <2>5, HeardNoMore DEF PlanInv
<1> QED
  BY <1>1, <1>4, <1>5 DEF PlanInv

-----------------------------------------------------------------------------
(* The specification *)

\* The complaints, the rows and what they were given agree in every state.
THEOREM PlanInvHolds == Spec => []PlanInv
<1>1. Init => PlanInv
  <2> SUFFICES ASSUME Init PROVE PlanInv
    OBVIOUS
  <2>1. 0 \in 0 .. MaxAttempts
    BY PlanAssumption DEF PlanAssumption
  <2>2. PlanTypeOK
    <3>1. pc \in {"ask", "reply", "loop", "stored", "failed"} /\ complaint \in BOOLEAN
      BY DEF Init
    <3>2. attempt \in 0 .. MaxAttempts /\ {faults, heard} \subseteq 0 .. MaxAttempts
      BY <2>1 DEF Init
    <3>3. accepted = None
      BY DEF Init
    <3>4. /\ DOMAIN task = {} /\ DOMAIN given = {} /\ DOMAIN output = {}
          /\ done = {} /\ judged = {}
      BY DEF Init
    <3> QED
      BY <3>1, <3>2, <3>3, <3>4 DEF PlanTypeOK
  <2>3. Heard
    <3>1. pc # "reply" /\ attempt = 0 /\ ~ complaint /\ faults = 0 /\ heard = 0
      BY DEF Init
    <3> QED
      BY <3>1 DEF Heard
  <2>4. Settled
    BY DEF Init, Settled
  <2> QED
    BY <2>2, <2>3, <2>4 DEF Init, PlanInv
<1>2. PlanInv /\ [Next]_vars => PlanInv'
  <2> SUFFICES ASSUME PlanInv, [Next]_vars PROVE PlanInv'
    OBVIOUS
  <2> USE PlanAssumption
  <2>1. CASE Ask
    BY <2>1, AskKeeps
  <2>2. CASE GiveUp \/ Retry \/ Raises
    BY <2>2, PauseKeeps
  <2>3. CASE Malformed
    BY <2>3, FaultKeeps DEF Malformed
  <2>4. CASE RunAsLoop
    BY <2>4, LoopKeeps
  <2>5. CASE pc = "reply" /\ \E p \in Answers : Plan(p)
    BY <2>5, PlanKeeps
  <2>6. CASE \E g \in DOMAIN task : RunTask(g)
    BY <2>6, RunTaskKeeps
  <2>7. CASE UNCHANGED vars
    <3>1. PlanTypeOK' /\ Heard'
      BY <2>7 DEF vars, results, PlanInv, PlanTypeOK, Heard, PlanSchema, TaskSchema
    <3>2. Settled'
      <4>1. \A h : Referred(h)' = Referred(h)
        BY <2>7 DEF vars, results, Referred
      <4> QED
        BY <2>7, <4>1 DEF vars, results, PlanInv, Settled
    <3>3. Looped => Looped'
      BY <2>7 DEF vars, results, Looped
    <3>4. Planned => Planned'
      BY <2>7 DEF vars, results, Planned, StoredAs, GivenAsMeant, Meant
    <3> QED
      BY <2>7, <3>1, <3>2, <3>3, <3>4 DEF vars, results, PlanInv
  <2> QED
    BY <2>1, <2>2, <2>3, <2>4, <2>5, <2>6, <2>7 DEF Next
<1> QED
  BY <1>1, <1>2, PTL DEF Spec

\* Every variable of the planning and its rows keeps its type.
THEOREM PlanTypeCorrect == Spec => []PlanTypeOK
<1>1. PlanInv => PlanTypeOK
  BY DEF PlanInv
<1> QED
  BY <1>1, PlanInvHolds, PTL

\* Whenever plan asks the model again, the model has been told what was wrong with every
\* answer before.
THEOREM ComplaintsAreHeardHolds == Spec => []ComplaintsAreHeard
<1>1. PlanInv => ComplaintsAreHeard
  BY DEF PlanInv, Heard, ComplaintsAreHeard
<1> QED
  BY <1>1, PlanInvHolds, PTL

\* A task that was given something has its row, and there is a plan unless its
\* references are none.
LEMMA GivenInPlan ==
  ASSUME PlanInv, NEW g \in DOMAIN given
  PROVE  Looped \/ (Planned /\ \E t \in TasksOf(accepted) : g = Prefixed(t) /\ g[2] = t)
<1>1. g \in done /\ g \in DOMAIN task
  BY DEF PlanInv, PlanTypeOK
<1>2. Looped \/ Planned
  BY <1>1, Unstored DEF PlanInv
<1>3. CASE Planned
  BY <1>1, <1>3, PrefixedOnce DEF Planned, StoredAs
<1> QED
  BY <1>2, <1>3

\* What a task is handed for a reference is what repair, validation, renaming and
\* interpolation make of it together: a plain reference to another task whose result was
\* checked reads as that task's output, as the very field if its schema requires it; any
\* other arrives as it was written.
THEOREM HandedWhatWasMeantHolds == Spec => []HandedWhatWasMeant
<1>1. ASSUME PlanInv, PlanAssumption PROVE HandedWhatWasMeant
  <2> SUFFICES ASSUME NEW g \in DOMAIN given, NEW x \in given[g]
               PROVE  \E r \in accepted.tasks[g[2]].refs :
                        /\ x.asked \in {r, [r EXCEPT !.id = Prefixed(r.id)]}
                        /\ r.how # "exact" => x.got = Text
                        /\ (/\ r.how = "exact" /\ r.id \in TasksOf(accepted) \ {g[2]}
                            /\ Prefixed(r.id) \in judged) => Reads(accepted, r, x.got)
    BY DEF HandedWhatWasMeant, Reads
  <2>1. CASE Looped
    BY <2>1 DEF Looped
  <2>2. CASE Planned /\ \E t \in TasksOf(accepted) : g = Prefixed(t) /\ g[2] = t
    <3>1. PICK t \in TasksOf(accepted) : g = Prefixed(t) /\ g[2] = t
      BY <2>2
    <3>2. g \in done
      BY <1>1 DEF PlanInv, PlanTypeOK
    <3>3. PICK r \in accepted.tasks[t].refs : Meant(accepted, t, r, x)
      BY <2>2, <3>1, <3>2 DEF Planned, GivenAsMeant
    <3>4. x.asked \in {r, [r EXCEPT !.id = Prefixed(r.id)]}
      BY <3>3 DEF Meant, Rewritten
    <3> QED
      BY <3>1, <3>3, <3>4 DEF Meant
  <2> QED
    BY <1>1, <2>1, <2>2, GivenInPlan
<1> QED
  BY <1>1, PlanAssumption, PlanInvHolds, PTL

\* A pull request opened in a plan with a coder is opened by a task that refers to what
\* a coder wrote, and holds it for every such reference that is plain and reads a checked
\* result.
THEOREM ShippedIsWrittenHolds == Spec => []ShippedIsWritten
<1>1. ASSUME PlanInv, PlanAssumption PROVE ShippedIsWritten
  <2> DEFINE carrying(g) == {r \in accepted.tasks[g[2]].refs :
                               /\ r.id \in By(accepted, "coder") /\ r.how # "loose"
                               /\ r.field \in {"whole", "code"}}
  <2> SUFFICES ASSUME NEW g \in DOMAIN given, task[g].work = "ships",
                      task[g].agent = "integrator",
                      NEW h \in DOMAIN task, task[h].agent = "coder"
               PROVE  /\ carrying(g) # {}
                      /\ \A r \in carrying(g) :
                           r.how = "exact" /\ r.below = "" /\ Prefixed(r.id) \in judged =>
                             \E x \in given[g] : x.got = Value(Prefixed(r.id), Path(r))
    BY DEF ShippedIsWritten
  <2>1. CASE Looped
    BY <2>1 DEF Looped
  <2>2. CASE Planned /\ \E t \in TasksOf(accepted) : g = Prefixed(t) /\ g[2] = t
    <3>1. PICK t \in TasksOf(accepted) : g = Prefixed(t) /\ g[2] = t
      BY <2>2
    <3>2. g \in done /\ IsValid(accepted) /\ StoredAs(accepted)
      BY <1>1, <2>2 DEF PlanInv, PlanTypeOK, Planned
    <3>3. PICK u \in TasksOf(accepted) : h = Prefixed(u)
      BY <3>2 DEF StoredAs
    <3>4. t \in Shipping(accepted) /\ u \in By(accepted, "coder")
      BY <3>1, <3>2, <3>3, RowOf DEF Shipping, By
    <3>5. CarriesCode(accepted, t)
      BY <3>2, <3>4 DEF IsValid, PrTaskWithoutTheCode
    <3>6. carrying(g) # {}
      BY <3>1, <3>5 DEF CarriesCode
    <3>7. ASSUME NEW r \in carrying(g), r.how = "exact", r.below = "", Prefixed(r.id) \in judged
          PROVE  \E x \in given[g] : x.got = Value(Prefixed(r.id), Path(r))
      <4>1. /\ r \in accepted.tasks[t].refs /\ r.field \in {"whole", "code"}
            /\ r.id \in TasksOf(accepted) \ {t} /\ accepted.tasks[r.id].agent = "coder"
        BY <3>1, <3>4, <3>7 DEF By, Shipping
      <4>2. PICK x \in given[g] : Meant(accepted, t, r, x)
        BY <2>2, <3>1, <3>2, <4>1 DEF Planned, GivenAsMeant
      <4>3. Reads(accepted, r, x.got)
        BY <3>7, <4>1, <4>2 DEF Meant
      <4>4. Assured("coder", Path(r))
        <5>1. "code" \in Required["coder"]
          BY DEF Required, Properties
        <5> QED
          BY <3>7, <4>1, <5>1 DEF Assured, Path
      <4> QED
        BY <4>1, <4>3, <4>4 DEF Reads
    <3> QED
      BY <3>6, <3>7
  <2> QED
    BY <1>1, <2>1, <2>2, GivenInPlan
<1> QED
  BY <1>1, PlanAssumption, PlanInvHolds, PTL
=============================================================================
