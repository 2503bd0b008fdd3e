--------------------------------- MODULE Workload ---------------------------------
(* The data of a reconciliation: versions of the Backstage CR, the ConfigMaps   *)
(* its spec names, the objects InitObjects makes for it, and when the objects   *)
(* that are live are the ones it asks for.                                      *)
EXTENDS RuntimeModel, Sequences, Functions

CONSTANTS
  Specs,            \* the specs a user may give the CR
  Apps,             \* values of what a spec says about the Backstage pod
  ConfigMaps,       \* names of the ConfigMaps specs refer to
  CmValues,         \* their possible contents
  Passwords,        \* what GeneratePassword may return
  Nothing,          \* an absent value
  RawOverlay,       \* what a content overlays when used as raw configuration
  DefaultFiles,     \* the default configuration
  IsOpenShift,      \* BackstageReconciler.IsOpenShift
  OwnsRuntime       \* BackstageReconciler.OwnsRuntime

(***************************************************************************)
(* A CR spec: what RuntimeModel looks at, the rest of spec.application     *)
(* (replicas, image, environment...) as one opaque value, and the          *)
(* ConfigMaps in the order preprocessSpec reads them; with raw, the first  *)
(* of them is the raw configuration.                                       *)
(***************************************************************************)
CrSpecType ==
  [ decisions : SpecType, app : Apps, raw : BOOLEAN, cms : Seq(ConfigMaps) ]

ASSUME WorkloadAssumption ==
  /\ Specs \subseteq CrSpecType
  /\ \A s \in Specs : s.raw => s.cms # << >>
  /\ Nothing \notin CmValues
  /\ RawOverlay \in [CmValues -> [Kinds -> FileState]]
  /\ DefaultFiles \in [Kinds -> FileState]
  /\ IsOpenShift \in BOOLEAN /\ OwnsRuntime \in BOOLEAN

Conditions == {"none", "DeployInProgress", "DeployFailed", "Deployed"}

CrType ==
  [ exists : BOOLEAN, uid : Nat, rv : Nat, spec : Specs, cond : Conditions ]

\* The API server gives each write of the CR a new resourceVersion, and each CR
\* created under the name a new uid.
NewVersion(c) == [c EXCEPT !.rv = @ + 1]

Created(c, s) ==
  [exists |-> TRUE, uid |-> c.uid + 1, rv |-> c.rv + 1, spec |-> s, cond |-> "none"]
Edited(c, s) == NewVersion([c EXCEPT !.spec = s])
Deleted(c)   == NewVersion([c EXCEPT !.exists = FALSE])

\* What a version of the CR asks for, whatever its status.
VersionOf(c) == [exists |-> c.exists, uid |-> c.uid, rv |-> c.rv, spec |-> c.spec]

ExtType == [ConfigMaps -> CmValues \cup {Nothing}]

(***************************************************************************)
(* A Kubernetes object: the spec it was made from (app), the objects and   *)
(* ConfigMaps its pod reads (refs, ext), the fields or keys that come from *)
(* files or are generated (entries; two contents of a file are different   *)
(* keys), the uid of its controller reference (0: none), and whether       *)
(* others have put a label or an annotation on it.                         *)
(***************************************************************************)
Entries == Passwords \cup CmValues \cup {"default"}

ObjType ==
  [ exists : BOOLEAN, app : Apps \cup {Nothing}, refs : SUBSET Kinds,
    ext : ExtType, entries : SUBSET Entries, owner : Nat, label : BOOLEAN ]

NoExt  == [c \in ConfigMaps |-> Nothing]
Absent ==
  [ exists |-> FALSE, app |-> Nothing, refs |-> {}, ext |-> NoExt,
    entries |-> {}, owner |-> 0, label |-> FALSE ]
NoObjects == [k \in Kinds |-> Absent]

\* The arguments of InitObjects for a spec and the ConfigMaps read for it.
InitInput(spec, e) ==
  [ default     |-> DefaultFiles,
    overlay     |-> IF spec.raw THEN RawOverlay[e[Head(spec.cms)]]
                                ELSE [k \in Kinds |-> "absent"],
    pluginsInit |-> TRUE,
    openshift   |-> IsOpenShift,
    spec        |-> spec.decisions ]

\* The fields or keys of k that come from its files.
FileEntries(in, k, e, spec) ==
  (IF in.default[k] = "good" THEN {"default"} ELSE {}) \cup
  (IF in.overlay[k] = "good" THEN {e[Head(spec.cms)]} ELSE {})

\* The DB secret gets a new password, unless the CR names a secret of its own.
SecretEntries(k, spec, password) ==
  IF k = "db-secret" /\ ~IsAuthSecretSpecified(spec.decisions) THEN {password} ELSE {}

\* Wrong variant: the objects are never owned.
OwnerOfNone(uid) == 0

\* setMetaInfo: the controller reference, if the operator owns its objects.
OwnerOf(uid) == IF OwnsRuntime THEN uid ELSE 0

\* The object InitObjects makes for k.
DesiredObject(k, spec, uid, e, password) ==
  LET in    == InitInput(spec, e)
      isPod == k = "deployment"
  IN  [ exists  |-> TRUE,
        app     |-> IF isPod THEN spec.app ELSE Nothing,
        refs    |-> IF isPod THEN Added(in) \cap (PodContributors \cup {"db-secret"}) ELSE {},
        ext     |-> IF isPod THEN e ELSE NoExt,
        entries |-> FileEntries(in, k, e, spec) \cup SecretEntries(k, spec, password),
        owner   |-> OwnerOf(uid),
        label   |-> FALSE ]

\* What a pass for the spec may have read; ConfigMaps are not watched, so it need
\* not be what they hold now.
Reads(spec) ==
  {e \in ExtType : \A c \in ConfigMaps : e[c] # Nothing <=> c \in Range(spec.cms)}

\* obj is what InitObjects makes for k; the DB secret keeps the password it was
\* created with, and other secrets may hold more entries.
Realises(obj, k, spec, uid, e) ==
  LET want == DesiredObject(k, spec, uid, e, Nothing)
  IN  /\ obj.exists
      /\ obj.owner = OwnerOf(uid)
      /\ obj.app = want.app /\ obj.refs = want.refs /\ obj.ext = want.ext
      /\ IF k = "db-secret" THEN TRUE
         ELSE IF k \in SecretKinds THEN want.entries \subseteq obj.entries
         ELSE obj.entries = want.entries

\* The objects are what the spec asks for: all that InitObjects returns, owned
\* by the CR, and none of those cleanObjects deletes.
InSync(objects, spec, uid, e) ==
  LET gone == CleanKinds(spec.decisions, IsOpenShift)
  IN  /\ \A k \in Added(InitInput(spec, e)) \ gone : Realises(objects[k], k, spec, uid, e)
      /\ \A k \in gone : ~objects[k].exists
================================================================================
