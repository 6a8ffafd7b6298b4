----------------------------- MODULE SyncEngine -----------------------------
(***************************************************************************)
(* The downstream sync engine, scripts/sync-engine.py: one run applies the *)
(* upstream manifest to a consumer's working tree, entry by entry, after   *)
(* two admission passes over the whole manifest.  A run may die between    *)
(* two steps; the consumer and the upstream change things between runs.    *)
(*                                                                         *)
(* A tree without symbolic links is modelled (the engine's docstrings put  *)
(* them outside its promises), file names are members of Path, and a text  *)
(* is the source version it was rendered from.                             *)
(***************************************************************************)
EXTENDS Integers, Sequences, FiniteSets

CONSTANTS Path, Above,       \* the paths, and the directories above each one
          Guarded, Surface,  \* paths the sensitive patterns match; prompt surface
          ConfigPath,        \* where the consumer's .platform-config.yml is
          Src, Version,      \* upstream files and their versions
          Mode, Keep,        \* permission bits; Keep: the entry gives no mode
          Default,           \* 0o644, the bits of a new file
          Manifests, Configs, Trees, Sources,  \* the inputs that are tried
          MaxSyncRuns, MaxSyncEdits

ASSUME SyncAssumption ==
    /\ Above \in [Path -> SUBSET Path]
    /\ \A p \in Path : p \notin Above[p] /\ \A a \in Above[p] : Above[a] \subseteq Above[p]
    /\ ConfigPath \in Path /\ Default \in Mode /\ Keep \notin Mode

VARIABLES repo,      \* what each path of the consumer's tree is
          manifest,  \* sync-targets.yml, a sequence of entries
          upstream,    \* the version of each upstream file, or "missing"
          conf,      \* what the consumer's config says
          engine,    \* the running engine, or how the last run ended
          began,     \* the tree when the run started
          origin,    \* the tree when a person or upstream last changed an input
          temps,     \* temporary files in the tree: beside which path, of which run
          cut,       \* the runs that were killed while they wrote a file
          syncEdits, syncRuns

syncVars == <<repo, manifest, upstream, conf, engine, began, origin, temps, cut,
              syncEdits, syncRuns>>

Absent == [text |-> <<"no", "file">>, mode |-> Keep]
Dir == [text |-> <<"a", "directory">>, mode |-> Keep]
Own == <<"consumer", "own">>   \* a text the consumer wrote
FileText == {Own} \cup (Src \X Version)
FileNode == [text : FileText, mode : Mode]
Node == {Absent, Dir} \cup FileNode
NeedsConsent == Guarded \ Surface
IsFile(t, p) == t[p] \notin {Absent, Dir}

(* The inputs: what is there has directories above it, as on every disk.   *)
WellFormed(t) == \A p \in Path : t[p] # Absent => \A a \in Above[p] : t[a] = Dir
EntryType == [op : {"copy", "seed", "delete"}, src : Src \cup {"none"}, dest : Path,
              mode : Mode \cup {Keep}, flaw : {"none", "shape", "field", "escapes", "alias"}]
ConfigType == [grants : SUBSET Path, skip : SUBSET (Path \cup Src), allowed : SUBSET Path,
               values : SUBSET Src, valid : BOOLEAN]
SourceType == [Src -> Version \cup {"missing"}]

ASSUME InputAssumption ==
    /\ \A m \in Manifests : m \in Seq(EntryType)
    /\ \A c \in Configs : c \in ConfigType
    /\ \A t \in Trees : t \in [Path -> Node] /\ WellFormed(t)
    /\ \A s \in Sources : s \in SourceType

NoRun == [phase |-> "off", at |-> 0, dry |-> FALSE, status |-> "none"]

SyncInit ==
    /\ repo = [p \in Path |-> Absent] /\ manifest = <<>> /\ upstream = [s \in Src |-> "missing"]
    /\ conf = [grants |-> {}, skip |-> {}, allowed |-> Path, values |-> {}, valid |-> TRUE]
    /\ engine = NoRun /\ began = repo /\ origin = repo /\ temps = {} /\ cut = {}
    /\ syncEdits = 0 /\ syncRuns = 0

(* A person or upstream sets the inputs; later edits change one of them.   *)
SetInputs ==
    /\ engine.phase = "off"
    /\ \E m \in Manifests, c \in Configs, t \in Trees, s \in Sources :
         /\ manifest' = m /\ conf' = c /\ repo' = t /\ origin' = t /\ upstream' = s
    /\ engine' = [engine EXCEPT !.phase = "idle"]
    /\ UNCHANGED <<began, temps, cut, syncEdits, syncRuns>>

EditInputs ==
    /\ engine.phase = "idle" /\ syncRuns > 0 /\ syncEdits < MaxSyncEdits
    /\ syncEdits' = syncEdits + 1
    /\ \/ \E p \in Path : /\ IsFile(repo, p) /\ repo[p].text # Own
                          /\ repo' = [repo EXCEPT ![p].text = Own]
                          /\ UNCHANGED <<upstream, conf>>
       \/ \E s \in Src, v \in Version : /\ upstream[s] # v
                                        /\ upstream' = [upstream EXCEPT ![s] = v]
                                        /\ UNCHANGED <<repo, conf>>
       \/ \E p \in NeedsConsent : /\ p \in conf.grants
                               /\ conf' = [conf EXCEPT !.grants = @ \ {p}]
                               /\ UNCHANGED <<repo, upstream>>
    /\ origin' = repo'
    /\ engine' = [engine EXCEPT !.status = "none"]
    /\ UNCHANGED <<manifest, began, temps, cut, syncRuns>>

-----------------------------------------------------------------------------
(* What the loop and the admission passes ask of one entry.                *)

Entries == {manifest[i] : i \in DOMAIN manifest}
Skipped(e) == e.src \in conf.skip \/ (e.flaw \notin {"escapes", "alias"} /\ e.dest \in conf.skip)
Preserved(e) == e.op = "seed" /\ IsFile(repo, e.dest)
Writes(e) == e.op # "delete" /\ ~Skipped(e) /\ ~Preserved(e)
Ungranted(e) == e.dest \in NeedsConsent \ conf.grants

(* config_write_targets: an entry that would write the consent store.      *)
ConfigWrites ==
    {e \in Entries : e.op # "delete" /\ e.flaw \notin {"shape", "escapes"} /\ e.dest = ConfigPath}

UnconsentedWrites_SeedOnDir ==                                     \* mutant
    {e \in Entries : /\ e.flaw \notin {"shape", "escapes", "alias"}
                     /\ e.op = "seed" => repo[e.dest] = Absent
                     /\ Writes(e) /\ e.dest \in conf.allowed /\ Ungranted(e)}

(* unconsented_sensitive_writes: what the loop would refuse, found first.  *)
UnconsentedWrites ==
    {e \in Entries : /\ e.flaw \notin {"shape", "escapes", "alias"}
                     /\ Writes(e) /\ e.dest \in conf.allowed /\ Ungranted(e)}

BadEntry_AnyDelete(e) ==                                           \* mutant
    \/ e.flaw \in {"shape", "field"}
    \/ ~Skipped(e) /\ (e.flaw # "none" \/ e.dest \notin conf.allowed \/ repo[e.dest] = Dir)

(* The rules the loop holds an entry to before it touches its destination. *)
BadEntry(e) ==
    \/ e.flaw \in {"shape", "field"}
    \/ /\ ~Skipped(e)
       /\ \/ e.flaw # "none" \/ e.dest \notin conf.allowed
          \/ e.op = "delete" /\ (e.dest \in NeedsConsent \/ repo[e.dest] = Dir)
          \/ e.op = "seed" /\ repo[e.dest] = Dir

(* substitute needs every placeholder's value; with a file above the       *)
(* destination, mkdir raises before it has made anything.                  *)
CannotRender(e) == upstream[e.src] = "missing" \/ e.src \notin conf.values
CannotPlace(e) == ~engine.dry /\ \E a \in Above[e.dest] : IsFile(repo, a)

Verdict(e) ==
    IF BadEntry(e) THEN "error"
    ELSE IF ~Writes(e) THEN "go"
    ELSE IF e.dest = ConfigPath \/ Ungranted(e) THEN "refused"
    ELSE IF CannotRender(e) \/ CannotPlace(e) THEN "error" ELSE "go"

RenderedText(e) == <<e.src, upstream[e.src]>>

(* The bits of the temporary file that replaces the destination.           *)
DesiredMode(t, e) ==
    IF e.mode # Keep THEN e.mode ELSE IF IsFile(t, e.dest) THEN t[e.dest].mode ELSE Default

TextDiffers(e) == ~IsFile(repo, e.dest) \/ repo[e.dest].text # RenderedText(e)
ModeDiffers(e) == e.mode # Keep /\ IsFile(repo, e.dest) /\ repo[e.dest].mode # e.mode

(* prune_empty_parents stops at the first directory that holds anything    *)
(* which is not itself being removed, a left temporary file included.      *)
EmptyAbove(p) ==
    {a \in Above[p] : /\ \A q \in Path : a \in Above[q] /\ repo[q] # Absent => q \in Above[p]
                      /\ \A t \in temps : a \notin Above[t[1]]}

-----------------------------------------------------------------------------
End(s) == engine' = [engine EXCEPT !.phase = "idle", !.status = s]
Advance == engine' = [engine EXCEPT !.phase = "loop", !.at = @ + 1]
Current == manifest[engine.at]
AtEntry == engine.phase = "loop" /\ engine.at <= Len(manifest)
Temp == <<Current.dest, syncRuns>>   \* its name is random: no other run's is replaced
Steady == UNCHANGED <<manifest, upstream, conf, began, origin, syncEdits, syncRuns>>
Quiet == Steady /\ UNCHANGED <<temps, cut>>

(* Reading the config, then both admission passes, before any write.       *)
StartSync(dry) ==
    /\ engine.phase = "idle" /\ syncRuns < MaxSyncRuns
    /\ syncRuns' = syncRuns + 1 /\ began' = repo
    /\ LET admitted ==
             IF ~IsFile(repo, ConfigPath) THEN "missing"
             ELSE IF ~conf.valid \/ ~(conf.grants \subseteq Guarded) THEN "error"
             ELSE IF ConfigWrites # {} \/ UnconsentedWrites # {} THEN "refused" ELSE "none"
       IN engine' = [phase |-> IF admitted = "none" THEN "loop" ELSE "idle",
                     at |-> 1, dry |-> dry, status |-> admitted]
    /\ UNCHANGED <<repo, manifest, upstream, conf, origin, temps, cut, syncEdits>>

StopAtEntry ==
    /\ AtEntry /\ Verdict(Current) # "go"
    /\ End(Verdict(Current)) /\ UNCHANGED repo /\ Quiet

(* Opted out, preserved, already absent, already equal, or a dry run.      *)
PassOver ==
    /\ AtEntry /\ Verdict(Current) = "go"
    /\ \/ engine.dry \/ Skipped(Current) \/ Preserved(Current)
       \/ Current.op = "delete" /\ repo[Current.dest] = Absent
       \/ Current.op # "delete" /\ ~TextDiffers(Current) /\ ~ModeDiffers(Current)
    /\ Advance /\ UNCHANGED repo /\ Quiet

Unlink ==
    /\ AtEntry /\ Verdict(Current) = "go" /\ ~engine.dry /\ ~Skipped(Current)
    /\ Current.op = "delete" /\ repo[Current.dest] # Absent
    /\ repo' = [repo EXCEPT ![Current.dest] = Absent]
    /\ engine' = [engine EXCEPT !.phase = "prune"] /\ Quiet

Prune ==
    /\ engine.phase = "prune"
    /\ repo' = [p \in Path |-> IF p \in EmptyAbove(Current.dest) THEN Absent ELSE repo[p]]
    /\ Advance /\ Quiet

(* write_if_changed: the directories above the destination are made from   *)
(* the top, one at a time.                                                 *)
Writing == AtEntry /\ Verdict(Current) = "go" /\ ~engine.dry /\ Writes(Current)

MakeParent ==
    /\ Writing
    /\ \E a \in Above[Current.dest] : /\ repo[a] = Absent /\ \A b \in Above[a] : repo[b] = Dir
                                      /\ repo' = [repo EXCEPT ![a] = Dir]
    /\ UNCHANGED engine /\ Quiet

(* write_utf8: a temporary file beside the destination is made, filled and *)
(* given its bits; from its first byte on it is a file in the tree.        *)
OpenTemp ==
    /\ Writing /\ TextDiffers(Current) /\ \A a \in Above[Current.dest] : repo[a] = Dir
    /\ temps' = temps \cup {Temp} /\ engine' = [engine EXCEPT !.phase = "write"]
    /\ UNCHANGED <<repo, cut>> /\ Steady

Place_DefaultMode(e) ==                                            \* mutant
    /\ repo' = [repo EXCEPT ![e.dest] =
                  [text |-> RenderedText(e), mode |-> IF e.mode # Keep THEN e.mode ELSE Default]]
    /\ Advance

(* os.replace moves it over the destination, which gets the new text and   *)
(* the new bits together.                                                  *)
Place(e) ==
    /\ repo' = [repo EXCEPT ![e.dest] = [text |-> RenderedText(e), mode |-> DesiredMode(repo, e)]]
    /\ Advance

PlaceEntry ==
    /\ engine.phase = "write" /\ repo[Current.dest] # Dir /\ Place(Current)
    /\ temps' = temps \ {Temp} /\ UNCHANGED cut /\ Steady

(* An OSError: the disk is full, or the destination is a directory, which  *)
(* os.replace refuses.  The finally clause takes the temporary file away.  *)
FailWrite ==
    /\ engine.phase = "write" /\ End("error")
    /\ temps' = temps \ {Temp} /\ UNCHANGED <<repo, cut>> /\ Steady

ChmodEntry ==
    /\ Writing /\ ~TextDiffers(Current) /\ ModeDiffers(Current)
    /\ repo' = [repo EXCEPT ![Current.dest].mode = Current.mode]
    /\ Advance /\ Quiet

FinishSync ==
    /\ engine.phase = "loop" /\ engine.at > Len(manifest)
    /\ End("ok") /\ UNCHANGED repo /\ Quiet

(* The job is killed between two steps; no finally clause runs, so the     *)
(* temporary file it was at, half written or whole, stays in the tree.     *)
KillSync ==
    /\ engine.phase \in {"loop", "write", "prune"} /\ End("killed")
    /\ cut' = cut \cup (IF engine.phase = "write" THEN {syncRuns} ELSE {})
    /\ UNCHANGED <<repo, temps>> /\ Steady

EngineStep ==
    \/ \E dry \in BOOLEAN : StartSync(dry)
    \/ StopAtEntry \/ PassOver \/ Unlink \/ Prune \/ MakeParent \/ OpenTemp \/ PlaceEntry
    \/ FailWrite \/ ChmodEntry \/ FinishSync

SyncNext == SetInputs \/ EditInputs \/ EngineStep \/ KillSync

SyncSpec == SyncInit /\ [][SyncNext]_syncVars

-----------------------------------------------------------------------------
EngineType == [phase : {"off", "idle", "loop", "write", "prune"}, at : Nat, dry : BOOLEAN,
               status : {"none", "ok", "error", "refused", "missing", "killed"}]

SyncTypeOK ==
    /\ repo \in [Path -> Node] /\ began \in [Path -> Node] /\ origin \in [Path -> Node]
    /\ \A t \in {repo, began, origin} : WellFormed(t)
    /\ manifest \in Seq(EntryType) /\ conf \in ConfigType /\ upstream \in SourceType
    /\ engine \in EngineType /\ syncRuns \in Nat
    /\ temps \subseteq Path \X Nat /\ cut \subseteq Nat

(* A refusal for missing consent leaves the tree as it found it, whatever  *)
(* entries stand ahead of the refused one (unconsented_sensitive_writes:   *)
(* "a refusal really does leave the tree untouched").                      *)
RefusalLeavesTree == engine.status = "refused" => repo = began

(* The consent store is never written by the engine, and a file on a       *)
(* sensitive path changes only to a rendered text the consumer granted.    *)
ConsentRespected ==
    [][engine.phase \in {"loop", "write", "prune"} =>
         \A p \in Path : repo'[p] # repo[p] =>
           /\ p = ConfigPath => ~IsFile(repo', p)
           /\ p \in NeedsConsent /\ (IsFile(repo, p) \/ IsFile(repo', p)) =>
                p \in conf.grants /\ IsFile(repo', p)]_syncVars

(* What a completed run promises of each path, from the tree t that people *)
(* left: a deleted file gone, a bootstrap file kept if there was one, any  *)
(* other destination the rendered text with its bits, the rest untouched.  *)
OneEntryPerPath ==
    \A i, j \in DOMAIN manifest : manifest[i].dest = manifest[j].dest => i = j

PromisedFile(t, p) ==
    LET here == {e \in Entries : e.dest = p /\ ~Skipped(e)} IN
    IF here = {} THEN (IF IsFile(t, p) THEN t[p] ELSE Absent)
    ELSE LET e == CHOOSE x \in here : TRUE IN
         IF e.op = "delete" THEN Absent
         ELSE IF e.op = "seed" /\ IsFile(t, p) THEN t[p]
         ELSE [text |-> RenderedText(e), mode |-> DesiredMode(t, e)]

(* However many earlier runs were killed half way or failed, a completed   *)
(* run leaves at every path exactly the file, bits included, that an       *)
(* undisturbed run on the people's own tree would have left there.  What   *)
(* else is in the tree was left by killed runs: at most one temporary file *)
(* of each, of the file it was writing; no later run takes these away      *)
(* (write_utf8's finally is the only place that does).  A run is promised  *)
(* nothing before it completes: a directory that a kill left bare at the   *)
(* destination of a later entry makes the runs after it end with an error. *)
OnlyCutRunsLitter ==
    \A s, t \in temps : t[2] \in cut /\ (s[2] = t[2] => s = t)

CompletedRunConverges ==
    engine.status = "ok" /\ ~engine.dry /\ OneEntryPerPath =>
        /\ OnlyCutRunsLitter
        /\ \A p \in Path : (IF IsFile(repo, p) THEN repo[p] ELSE Absent) = PromisedFile(origin, p)
=============================================================================
