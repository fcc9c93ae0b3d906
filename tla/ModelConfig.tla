------------------------------ MODULE ModelConfig ------------------------------
(***************************************************************************)
(* Which model each role uses: backend/model_config.py, a dictionary in       *)
(* memory in front of model_config.json, and PUT /api/config/models.          *)
(***************************************************************************)
EXTENDS Naturals, Sequences, FiniteSets

CONSTANTS Roles,       \* the keys of DEFAULTS
          Models,
          Available,   \* AVAILABLE_MODELS
          Defaults,    \* DEFAULTS
          Superseded,  \* _SUPERSEDED_DEFAULTS, which lacks the newest role
          OldFiles,    \* what earlier versions of the service saved
          NoFile,      \* model_config.json is absent or unreadable
          NotLoaded    \* _cache is None

ASSUME ConfigAssumption ==
  /\ Available \subseteq Models
  /\ Defaults \in [Roles -> Available]
  /\ DOMAIN Superseded \subseteq Roles /\ DOMAIN Superseded # Roles
  /\ OldFiles \subseteq UNION {[D -> Models] : D \in SUBSET Roles}
  /\ NoFile \notin [Roles -> Models] /\ NotLoaded \notin [Roles -> Models]

VARIABLES cache,   \* _cache
          file,    \* model_config.json
          lapsed   \* the two were left different: a save failed, an update was rejected

configVars == <<cache, file, lapsed>>

ConfigTypeOK ==
  /\ cache \in [Roles -> Models] \cup {NotLoaded}
  /\ file \in OldFiles \cup [Roles -> Models] \cup {NoFile}
  /\ lapsed \in BOOLEAN

ConfigInit == cache = NotLoaded /\ file \in OldFiles \cup {NoFile} /\ lapsed = FALSE

\* What the file stands for: exactly the old defaults are nobody's choice, anything
\* else is merged over the defaults.
FromFile ==
  IF file \in {NoFile, Superseded} THEN Defaults
  ELSE [r \in Roles |-> IF r \in DOMAIN file THEN file[r] ELSE Defaults[r]]

\* _load, and get_model of a role
Loaded == IF cache = NotLoaded THEN FromFile ELSE cache
GetModel(role) == Loaded[role]

\* Any use of the configuration leaves it in memory.
Read == cache' = Loaded /\ UNCHANGED <<file, lapsed>>

\* The roles of an update in the order of the request; each is checked when its turn
\* comes, and those before it are in the dictionary by then.
Valid(change) == change.model \in Available

Assigned(changes, n) ==
  [r \in Roles |->
     LET mine == {i \in 1..n : changes[i].role = r}
     IN  IF mine = {} THEN Loaded[r] ELSE changes[CHOOSE i \in mine : \A j \in mine : j <= i].model]

\* Variant with a bug: the new choice stays in memory.
UpdateUnsaved(changes, saved) ==
  /\ \A i \in DOMAIN changes : Valid(changes[i])
  /\ cache' = Assigned(changes, Len(changes))
  /\ UNCHANGED <<file, lapsed>>

\* update: everything is valid and saved, unless the disk refuses (saved = FALSE).
Update(changes, saved) ==
  /\ \A i \in DOMAIN changes : Valid(changes[i])
  /\ cache' = Assigned(changes, Len(changes))
  /\ file' = IF saved THEN cache' ELSE file
  /\ lapsed' = ~ saved

\* update raises at change n, and what it had assigned stays: current is the cache.
Rejected(changes, n) ==
  /\ \A i \in 1..(n - 1) : Valid(changes[i])
  /\ ~ Valid(changes[n])
  /\ cache' = Assigned(changes, n - 1)
  /\ lapsed' = (lapsed \/ cache' # Loaded)
  /\ UNCHANGED file

\* The process starts anew.
Restart == cache' = NotLoaded /\ lapsed' = FALSE /\ UNCHANGED file
=============================================================================
