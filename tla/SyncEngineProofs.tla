-------------------------- MODULE SyncEngineProofs --------------------------
(***************************************************************************)
(* Proofs about the downstream sync engine, for any paths, manifests,      *)
(* configs and trees: it keeps consent, a refusal touches nothing, and a   *)
(* run that completes converges, over any number of killed runs.           *)
(***************************************************************************)
EXTENDS SyncEngine, SyncTemplate, WellFoundedInduction, FiniteSetTheorems, TLAPS

Running == engine.phase \in {"loop", "write", "prune"}

(* What the file at a path is; a directory there is no file.               *)
FileAt(t, p) == IF IsFile(t, p) THEN t[p] ELSE Absent

(* The loop is at an entry that is there; nothing was set while it is off. *)
EngineInPlace ==
    /\ engine.phase = "off" => engine.status = "none"
    /\ engine.status # "none" => engine.phase = "idle"
    /\ Running => engine.at >= 1
    /\ engine.phase = "prune" =>
         /\ engine.at \in DOMAIN manifest
         /\ Current.op = "delete" /\ repo[Current.dest] = Absent
         /\ \A a \in Above[Current.dest] : repo[a] = Dir
    /\ engine.phase = "write" =>
         /\ engine.at \in DOMAIN manifest /\ ~engine.dry
         /\ Verdict(Current) = "go" /\ Writes(Current)
         /\ \A a \in Above[Current.dest] : repo[a] = Dir

(* A temporary file is of a run that was killed at it, or the one that the *)
(* running engine is filling; a run has one at a time.                     *)
TempsKept ==
    /\ \A t \in temps : t[2] <= syncRuns
    /\ \A t \in temps : t[2] \in cut \/ (engine.phase = "write" /\ t = Temp)
    /\ Running => \A t \in temps : t[2] = syncRuns => (engine.phase = "write" /\ t = Temp)
    /\ \A s, t \in temps : s[2] = t[2] => s = t

(* What the admission passes found before the first write stays true: the  *)
(* loop meets no entry that it would have to refuse.                       *)
ConsentKept == Running => ConfigWrites = {} /\ UnconsentedWrites = {}

(* Every file is the one people left or the promised one, and behind the   *)
(* loop it is the promised one.                                            *)
Reached == IF engine.phase = "prune" THEN engine.at + 1 ELSE engine.at
Behind(t, k) ==
    \A i \in DOMAIN manifest : i < k /\ ~Skipped(manifest[i]) =>
        FileAt(t, manifest[i].dest) = PromisedFile(origin, manifest[i].dest)

Converging ==
    OneEntryPerPath =>
      /\ \A p \in Path : FileAt(repo, p) \in {FileAt(origin, p), PromisedFile(origin, p)}
      /\ Running /\ ~engine.dry => Behind(repo, Reached)

SyncInv ==
    /\ SyncTypeOK /\ EngineInPlace /\ TempsKept /\ ConsentKept /\ Converging
    /\ RefusalLeavesTree /\ CompletedRunConverges
-----------------------------------------------------------------------------
(* Trees.                                                                  *)
LEMMA NodeKinds ==
    /\ Absent # Dir /\ {Absent, Dir} \subseteq Node
    /\ \A n \in Node : n \notin {Absent, Dir} <=> n \in FileNode
  <1>1. Absent.mode = Keep /\ Dir.mode = Keep /\ Absent.text # Dir.text
    BY DEF Absent, Dir
  <1>2. \A n \in FileNode : n.mode # Keep
    BY SyncAssumption DEF FileNode
  <1> QED
    BY <1>1, <1>2 DEF Node

LEMMA AboveFacts ==
    ASSUME NEW p \in Path
    PROVE  Above[p] \subseteq Path /\ p \notin Above[p] /\ \A a \in Above[p] : Above[a] \subseteq Above[p]
  BY SyncAssumption

(* A file is taken away, or changed.                                       *)
LEMMA SetFile ==
    ASSUME NEW t \in [Path -> Node], WellFormed(t), NEW p \in Path, IsFile(t, p),
           NEW n \in FileNode \cup {Absent}
    PROVE  [t EXCEPT ![p] = n] \in [Path -> Node] /\ WellFormed([t EXCEPT ![p] = n])
  BY NodeKinds, AboveFacts DEF WellFormed, IsFile, Node

(* Empty directories above p are taken away, but for those that hold a     *)
(* temporary file of T.                                                    *)
EmptyIn(t, T, p) ==
    {a \in Above[p] : /\ \A q \in Path : a \in Above[q] /\ t[q] # Absent => q \in Above[p]
                      /\ \A x \in T : a \notin Above[x[1]]}
Pruned(t, T, p) == [q \in Path |-> IF q \in EmptyIn(t, T, p) THEN Absent ELSE t[q]]

LEMMA PruneTree ==
    ASSUME NEW t \in [Path -> Node], WellFormed(t), NEW p \in Path, NEW T \in SUBSET (Path \X Nat)
    PROVE  Pruned(t, T, p) \in [Path -> Node] /\ WellFormed(Pruned(t, T, p))
  <1> DEFINE E == EmptyIn(t, T, p)
             u == Pruned(t, T, p)
  <1>1. u \in [Path -> Node]
    BY NodeKinds DEF Pruned
  <1>2. ASSUME NEW q \in Path, u[q] # Absent, NEW a \in Above[q] PROVE u[a] = Dir
    <2>1. q \notin E /\ t[q] # Absent /\ a \in Path
      BY <1>2, AboveFacts DEF Pruned
    <2>2. t[a] = Dir
      BY <2>1 DEF WellFormed
    <2>3. a \notin E
      <3> SUFFICES ASSUME a \in E PROVE FALSE
        OBVIOUS
      <3>1. q \in Above[p]
        BY <2>1 DEF EmptyIn
      <3>2. CASE \E r \in Path : q \in Above[r] /\ t[r] # Absent /\ r \notin Above[p]
        <4>1. PICK r \in Path : q \in Above[r] /\ t[r] # Absent /\ r \notin Above[p]
          BY <3>2
        <4>2. a \in Above[r]
          BY <4>1, AboveFacts
        <4> QED
          BY <4>1, <4>2 DEF EmptyIn
      <3>3. CASE \E x \in T : q \in Above[x[1]]
        <4>1. PICK x \in T : q \in Above[x[1]]
          BY <3>3
        <4>2. a \in Above[x[1]]
          BY <4>1, AboveFacts
        <4> QED
          BY <4>1, <4>2 DEF EmptyIn
      <3> QED
        BY <2>1, <3>1, <3>2, <3>3 DEF EmptyIn
    <2> QED
      BY <2>1, <2>2, <2>3 DEF Pruned
  <1> QED
    BY <1>1, <1>2 DEF WellFormed

(* A file or a directory is put at d, in directories that are there.       *)
LEMMA PutTree ==
    ASSUME NEW t \in [Path -> Node], WellFormed(t), NEW d \in Path, NEW n \in FileNode \cup {Dir},
           t[d] # Dir, \A a \in Above[d] : t[a] = Dir
    PROVE  [t EXCEPT ![d] = n] \in [Path -> Node] /\ WellFormed([t EXCEPT ![d] = n])
  <1> DEFINE u == [t EXCEPT ![d] = n]
  <1>1. u \in [Path -> Node] /\ \A p \in Path : u[p] = IF p = d THEN n ELSE t[p]
    BY DEF Node
  <1>2. ASSUME NEW p \in Path, u[p] # Absent, NEW a \in Above[p] PROVE u[a] = Dir
    <2>1. a \in Path /\ a # p
      BY AboveFacts
    <2>2. t[a] = Dir
      BY <1>1, <1>2 DEF WellFormed
    <2>3. a # d
      BY <2>2
    <2> QED
      BY <1>1, <2>1, <2>2, <2>3
  <1> QED
    BY <1>1, <1>2 DEF WellFormed

-----------------------------------------------------------------------------
(* Entries.                                                                *)
LEMMA EntriesTyped ==
    ASSUME SyncTypeOK
    PROVE  /\ \A i \in DOMAIN manifest : manifest[i] \in EntryType /\ manifest[i].dest \in Path
           /\ Entries \subseteq EntryType
  <1>1. \A i \in DOMAIN manifest : manifest[i] \in EntryType
    BY DEF SyncTypeOK
  <1> QED
    BY <1>1 DEF Entries, EntryType

LEMMA CurrentEntry ==
    ASSUME SyncTypeOK, EngineInPlace, AtEntry \/ engine.phase \in {"write", "prune"}
    PROVE  /\ engine.at \in DOMAIN manifest /\ Current \in EntryType /\ Current \in Entries
           /\ Current.dest \in Path
  <1>1. engine.at \in DOMAIN manifest
    BY DEF SyncTypeOK, EngineType, EngineInPlace, AtEntry, Running
  <1>2. Current \in EntryType
    BY <1>1 DEF SyncTypeOK, Current
  <1> QED
    BY <1>1, <1>2 DEF Current, Entries, EntryType

(* The engine goes on at an entry that is sound.                           *)
LEMMA GoFacts ==
    ASSUME NEW e \in EntryType, Verdict(e) = "go", ~Skipped(e)
    PROVE  /\ e.flaw = "none" /\ e.dest \in conf.allowed
           /\ e.op = "delete" => e.dest \notin NeedsConsent /\ repo[e.dest] # Dir
           /\ e.op = "seed" => repo[e.dest] # Dir
           /\ Writes(e) => /\ e.dest # ConfigPath /\ ~Ungranted(e)
                            /\ upstream[e.src] # "missing" /\ e.src \in conf.values
                            /\ ~CannotPlace(e)
  BY DEF Verdict, BadEntry, CannotRender

LEMMA RenderedIsText ==
    ASSUME SyncTypeOK, NEW e \in EntryType, Verdict(e) = "go", Writes(e)
    PROVE  RenderedText(e) \in FileText
  BY GoFacts DEF SyncTypeOK, SourceType, ConfigType, RenderedText, FileText, Writes

LEMMA DesiredIsMode ==
    ASSUME NEW t \in [Path -> Node], NEW e \in EntryType
    PROVE  DesiredMode(t, e) \in Mode
  BY NodeKinds, SyncAssumption DEF DesiredMode, IsFile, FileNode, EntryType

(* What a completed run promises at the destination of an entry that is    *)
(* the only one for its path.                                              *)
Promise(t, e) ==
    IF e.op = "delete" THEN Absent
    ELSE IF e.op = "seed" /\ IsFile(t, e.dest) THEN t[e.dest]
    ELSE [text |-> RenderedText(e), mode |-> DesiredMode(t, e)]

LEMMA PromiseOfEntry ==
    ASSUME OneEntryPerPath, NEW t, NEW e \in Entries, ~Skipped(e)
    PROVE  PromisedFile(t, e.dest) = Promise(t, e)
  <1> DEFINE here == {x \in Entries : x.dest = e.dest /\ ~Skipped(x)}
  <1>1. here = {e}
    BY DEF OneEntryPerPath, Entries
  <1>2. (CHOOSE x \in here : TRUE) = e
    BY <1>1
  <1> HIDE DEF here
  <1>3. PromisedFile(t, e.dest) =
          IF here = {} THEN (IF IsFile(t, e.dest) THEN t[e.dest] ELSE Absent)
          ELSE Promise(t, CHOOSE x \in here : TRUE)
    <2>1. here = {} \/ (CHOOSE x \in here : TRUE).dest = e.dest
      BY <1>1, <1>2
    <2> QED
      BY <1>1, <1>2 DEF PromisedFile, Promise, here
  <1> QED
    BY <1>1, <1>2, <1>3

-----------------------------------------------------------------------------
(* Steps of a running engine.                                              *)
LEMMA SteadyFacts ==
    ASSUME Steady
    PROVE  /\ Entries' = Entries /\ OneEntryPerPath' = OneEntryPerPath
           /\ \A e : Skipped(e)' = Skipped(e) /\ Ungranted(e)' = Ungranted(e)
           /\ \A p : PromisedFile(origin, p)' = PromisedFile(origin, p)
           /\ \A p : FileAt(origin, p)' = FileAt(origin, p)
  <1>1. /\ Entries' = Entries /\ OneEntryPerPath' = OneEntryPerPath
        /\ \A e : Skipped(e)' = Skipped(e) /\ Ungranted(e)' = Ungranted(e)
        /\ \A e : RenderedText(e)' = RenderedText(e)
    BY DEF Steady, Entries, OneEntryPerPath, Skipped, Ungranted, RenderedText
  <1>2. origin' = origin
    BY DEF Steady
  <1>3. \A e : DesiredMode(origin, e)' = DesiredMode(origin, e)
    BY <1>2 DEF DesiredMode, IsFile
  <1> QED
    BY <1>1, <1>2, <1>3 DEF PromisedFile, FileAt, IsFile

(* A step that takes no sensitive file away, and leaves every file as it   *)
(* was or as promised.                                                     *)
LEMMA RunKeeps ==
    ASSUME SyncInv, Running, Steady,
           \A p \in NeedsConsent : p \in Path /\ IsFile(repo, p) => IsFile(repo', p),
           OneEntryPerPath =>
             \A p \in Path : FileAt(repo', p) \in {FileAt(repo, p), PromisedFile(origin, p)}
    PROVE  /\ ConfigWrites' = {} /\ UnconsentedWrites' = {}
           /\ OneEntryPerPath =>
                /\ \A p \in Path : FileAt(repo', p) \in {FileAt(origin, p), PromisedFile(origin, p)}
                /\ ~engine.dry => Behind(repo', Reached)
  <1> USE DEF SyncInv
  <1>1. ConfigWrites' = {}
    BY DEF ConsentKept, ConfigWrites, Steady, Entries
  <1>2. UnconsentedWrites' = {}
    <2> SUFFICES ASSUME NEW e \in UnconsentedWrites' PROVE FALSE
      OBVIOUS
    <2>1. /\ e \in Entries /\ e.flaw \notin {"shape", "escapes", "alias"}
          /\ e.op # "delete" /\ ~Skipped(e) /\ ~Preserved(e)' /\ e.dest \in conf.allowed /\ Ungranted(e)
      BY SteadyFacts DEF UnconsentedWrites, Writes, Steady
    <2>2. Preserved(e)
      BY <2>1 DEF ConsentKept, UnconsentedWrites, Writes
    <2>3. e.dest \in Path
      BY <2>1, EntriesTyped DEF EntryType
    <2>4. IsFile(repo', e.dest)
      BY <2>1, <2>2, <2>3 DEF Preserved, Ungranted
    <2> QED
      BY <2>1, <2>2, <2>4 DEF Preserved, IsFile
  <1>3. ASSUME OneEntryPerPath
        PROVE  \A p \in Path : FileAt(repo', p) \in {FileAt(origin, p), PromisedFile(origin, p)}
    BY <1>3 DEF Converging
  <1>4. ASSUME OneEntryPerPath, ~engine.dry PROVE Behind(repo', Reached)
    BY <1>4, EntriesTyped DEF Converging, Behind
  <1> QED
    BY <1>1, <1>2, <1>3, <1>4

(* Outside a write, and when a write ends, no temporary file is the run's. *)
TempsTyped == temps \subseteq Path \X Nat /\ cut \subseteq Nat
TempsAtRest ==
    \/ engine.phase # "write" /\ UNCHANGED <<temps, cut>>
    \/ engine.phase = "write" /\ temps' = temps \ {Temp} /\ UNCHANGED cut

LEMMA TempsRest ==
    ASSUME SyncInv, Running, Steady, TempsAtRest, engine'.phase # "write"
    PROVE  TempsTyped' /\ TempsKept' /\ OnlyCutRunsLitter'
  <1>1. \A t \in temps' : t \in temps /\ t[2] <= syncRuns /\ t[2] \in cut /\ t[2] # syncRuns
    BY DEF SyncInv, TempsKept, TempsAtRest, Running
  <1>2. cut' = cut /\ syncRuns' = syncRuns
    BY DEF TempsAtRest, Steady
  <1>3. TempsTyped'
    BY <1>1, <1>2 DEF SyncInv, SyncTypeOK, TempsTyped
  <1>4. \A x, t \in temps' : x[2] = t[2] => x = t
    BY <1>1 DEF SyncInv, TempsKept
  <1> QED
    BY <1>1, <1>2, <1>3, <1>4 DEF TempsKept, OnlyCutRunsLitter

(* The entry is dealt with: the engine goes to the next one, or to the     *)
(* directories above what it deleted.                                      *)
ToPrune == engine' = [engine EXCEPT !.phase = "prune"]

LEMMA PassKeeps ==
    ASSUME SyncInv, AtEntry \/ engine.phase \in {"write", "prune"}, Steady, TempsAtRest,
           Advance \/ (ToPrune /\ engine.phase = "loop"),
           repo' \in [Path -> Node], WellFormed(repo'),
           \A p \in NeedsConsent : p \in Path /\ IsFile(repo, p) => IsFile(repo', p),
           OneEntryPerPath =>
             \A p \in Path : FileAt(repo', p) \in {FileAt(repo, p), PromisedFile(origin, p)},
           OneEntryPerPath /\ ~engine.dry /\ ~Skipped(Current) =>
             FileAt(repo', Current.dest) = PromisedFile(origin, Current.dest)
    PROVE  /\ SyncTypeOK' /\ ConsentKept' /\ Converging'
           /\ RefusalLeavesTree' /\ CompletedRunConverges' /\ TempsKept'
           /\ Advance => EngineInPlace'
  <1> USE DEF SyncInv
  <1>1. Running /\ engine.status = "none" /\ engine.at \in Nat /\ engine.at >= 1
    BY DEF AtEntry, Running, EngineInPlace, SyncTypeOK, EngineType
  <1>2. /\ engine' \in EngineType /\ engine'.status = "none" /\ engine'.dry = engine.dry
        /\ engine'.phase \in {"loop", "prune"}
        /\ Reached' = engine.at + 1
        /\ Advance => engine'.phase = "loop" /\ engine'.at >= 1
    <2>1. engine \in EngineType
      BY DEF SyncTypeOK
    <2>2. CASE Advance
      <3>1. engine' = [engine EXCEPT !.phase = "loop", !.at = engine.at + 1]
        BY <2>2 DEF Advance
      <3>2. /\ engine'.status = engine.status /\ engine'.dry = engine.dry
            /\ engine'.phase = "loop" /\ engine'.at = engine.at + 1 /\ engine' \in EngineType
        <4>1. ASSUME NEW n \in Nat, engine' = [engine EXCEPT !.phase = "loop", !.at = n]
              PROVE  /\ engine'.status = engine.status /\ engine'.dry = engine.dry
                     /\ engine'.phase = "loop" /\ engine'.at = n /\ engine' \in EngineType
          BY <2>1, <4>1 DEF EngineType
        <4>2. engine.at + 1 \in Nat
          BY <1>1
        <4> QED
          BY <3>1, <4>1, <4>2
      <3> QED
        BY <1>1, <3>2 DEF Reached
    <2>3. CASE ToPrune /\ ~Advance
      <3>1. /\ engine'.status = engine.status /\ engine'.dry = engine.dry
            /\ engine'.phase = "prune" /\ engine'.at = engine.at /\ engine' \in EngineType
        BY <2>1, <2>3 DEF EngineType, ToPrune
      <3> QED
        BY <1>1, <2>3, <3>1 DEF Reached
    <2> QED
      BY <2>2, <2>3
  <1>3. SyncTypeOK' /\ TempsKept'
    <2>1. TempsTyped' /\ TempsKept'
      BY <1>1, <1>2, TempsRest
    <2> QED
      BY <1>2, <2>1 DEF SyncTypeOK, TempsTyped, Steady
  <1>4. /\ ConfigWrites' = {} /\ UnconsentedWrites' = {}
        /\ OneEntryPerPath =>
             /\ \A p \in Path : FileAt(repo', p) \in {FileAt(origin, p), PromisedFile(origin, p)}
             /\ ~engine.dry => Behind(repo', Reached)
    BY <1>1, RunKeeps
  <1>5. ASSUME OneEntryPerPath, ~engine.dry PROVE Behind(repo', engine.at + 1)
    <2> SUFFICES ASSUME NEW i \in DOMAIN manifest, i < engine.at + 1, ~Skipped(manifest[i])
                 PROVE  FileAt(repo', manifest[i].dest) = PromisedFile(origin, manifest[i].dest)
      BY DEF Behind
    <2>1. CASE i = engine.at
      BY <1>5, <2>1 DEF Current
    <2>2. CASE i # engine.at
      <3>1. i < engine.at /\ engine.at <= Reached
        BY <1>1, <2>2 DEF Reached, SyncTypeOK
      <3>2. i < Reached
        BY <1>1, <3>1 DEF Reached, SyncTypeOK
      <3> QED
        BY <1>4, <1>5, <3>2 DEF Behind
    <2> QED
      BY <2>1, <2>2
  <1>6. Converging'
    <2> SUFFICES ASSUME OneEntryPerPath
                 PROVE  /\ \A p \in Path : FileAt(repo', p) \in {FileAt(origin, p)', PromisedFile(origin, p)'}
                        /\ ~engine.dry => Behind(repo, Reached)'
      BY <1>2, SteadyFacts DEF Converging
    <2>1. \A i : manifest'[i] = manifest[i] /\ DOMAIN manifest' = DOMAIN manifest
      BY DEF Steady
    <2> QED
      BY <1>2, <1>4, <1>5, <2>1, SteadyFacts DEF Behind
  <1>7. ConsentKept' /\ RefusalLeavesTree' /\ CompletedRunConverges'
    BY <1>2, <1>4 DEF ConsentKept, RefusalLeavesTree, CompletedRunConverges
  <1>8. Advance => EngineInPlace'
    BY <1>2 DEF EngineInPlace, Running
  <1> QED
    BY <1>3, <1>6, <1>7, <1>8

(* A step of a write that leaves the engine at its entry.                  *)
LEMMA StayKeeps ==
    ASSUME SyncInv, Writing, Steady, TempsTyped', TempsKept',
           NEW ph \in {"loop", "write"}, engine' = [engine EXCEPT !.phase = ph],
           repo' \in [Path -> Node], WellFormed(repo'),
           \A p \in Path : FileAt(repo', p) = FileAt(repo, p) /\ (IsFile(repo, p) => IsFile(repo', p))
    PROVE  /\ SyncTypeOK' /\ ConsentKept' /\ Converging'
           /\ RefusalLeavesTree' /\ CompletedRunConverges'
           /\ ph = "loop" => EngineInPlace'
  <1> USE DEF SyncInv
  <1>1. Running /\ engine.phase = "loop" /\ engine.status = "none" /\ engine.at >= 1
    BY DEF Writing, AtEntry, Running, EngineInPlace
  <1>2. /\ engine' \in EngineType /\ engine'.status = "none" /\ engine'.dry = engine.dry
        /\ engine'.phase = ph /\ engine'.at = engine.at /\ Reached' = Reached
    BY <1>1 DEF SyncTypeOK, EngineType, Reached
  <1>3. SyncTypeOK'
    BY <1>2 DEF SyncTypeOK, TempsTyped, Steady
  <1>4. /\ ConfigWrites' = {} /\ UnconsentedWrites' = {}
        /\ OneEntryPerPath =>
             /\ \A p \in Path : FileAt(repo', p) \in {FileAt(origin, p), PromisedFile(origin, p)}
             /\ ~engine.dry => Behind(repo', Reached)
    BY <1>1, RunKeeps
  <1>5. Converging'
    <2> SUFFICES ASSUME OneEntryPerPath
                 PROVE  /\ \A p \in Path : FileAt(repo', p) \in {FileAt(origin, p)', PromisedFile(origin, p)'}
                        /\ ~engine.dry => Behind(repo, Reached)'
      BY <1>2, SteadyFacts DEF Converging
    <2>1. \A i : manifest'[i] = manifest[i] /\ DOMAIN manifest' = DOMAIN manifest
      BY DEF Steady
    <2> QED
      BY <1>2, <1>4, <2>1, SteadyFacts DEF Behind
  <1>6. ConsentKept' /\ RefusalLeavesTree' /\ CompletedRunConverges'
    BY <1>2, <1>4 DEF ConsentKept, RefusalLeavesTree, CompletedRunConverges
  <1>7. ph = "loop" => EngineInPlace'
    BY <1>1, <1>2 DEF EngineInPlace, Running
  <1> QED
    BY <1>3, <1>5, <1>6, <1>7

(* A run that ends, other than with a refusal, where it stands.            *)
LEMMA EndKeeps ==
    ASSUME SyncInv, Running, Steady, UNCHANGED repo, TempsTyped', TempsKept',
           NEW s \in {"ok", "error", "killed"}, End(s),
           s = "ok" => engine.phase = "loop" /\ engine.at > Len(manifest) /\ OnlyCutRunsLitter'
    PROVE  SyncInv'
  <1> USE DEF SyncInv
  <1>1. /\ engine' \in EngineType /\ engine'.phase = "idle" /\ engine'.status = s
        /\ engine'.dry = engine.dry /\ ~Running'
    BY DEF SyncTypeOK, EngineType, End, Running
  <1>2. SyncTypeOK' /\ EngineInPlace' /\ ConsentKept' /\ RefusalLeavesTree'
    BY <1>1 DEF SyncTypeOK, TempsTyped, Steady, EngineInPlace, ConsentKept, RefusalLeavesTree
  <1>3. Converging'
    <2>1. \A p : FileAt(repo', p) = FileAt(repo, p)
      OBVIOUS
    <2> QED
      BY <1>1, <2>1, SteadyFacts DEF Converging
  <1>4. CompletedRunConverges'
    <2> SUFFICES ASSUME s = "ok", ~engine.dry, OneEntryPerPath, NEW p \in Path
                 PROVE  FileAt(repo, p) = PromisedFile(origin, p)
      BY <1>1, SteadyFacts DEF CompletedRunConverges, FileAt, IsFile
    <2>1. CASE \E e \in Entries : e.dest = p /\ ~Skipped(e)
      <3>1. PICK i \in DOMAIN manifest : manifest[i].dest = p /\ ~Skipped(manifest[i])
        BY <2>1 DEF Entries
      <3>2. i < Reached
        BY DEF SyncTypeOK, EngineType, Reached
      <3> QED
        BY <3>1, <3>2 DEF Converging, Behind
    <2>2. CASE ~\E e \in Entries : e.dest = p /\ ~Skipped(e)
      <3>1. PromisedFile(origin, p) = FileAt(origin, p)
        BY <2>2 DEF PromisedFile, FileAt
      <3> QED
        BY <3>1 DEF Converging
    <2> QED
      BY <2>1, <2>2
  <1> QED
    BY <1>2, <1>3, <1>4

-----------------------------------------------------------------------------
(* What ConsentRespected says of one step.                                 *)
Consented ==
    \A p \in Path : repo'[p] # repo[p] =>
      /\ p = ConfigPath => ~IsFile(repo', p)
      /\ p \in NeedsConsent /\ (IsFile(repo, p) \/ IsFile(repo', p)) =>
           p \in conf.grants /\ IsFile(repo', p)

LEMMA ConsentedKeepsFiles ==
    ASSUME Consented, NEW p \in Path, p \in NeedsConsent, IsFile(repo, p)
    PROVE  IsFile(repo', p)
  BY DEF Consented, IsFile

(* The admission passes left the loop nothing to refuse.                   *)
LEMMA NoRefusal ==
    ASSUME SyncInv, AtEntry
    PROVE  Verdict(Current) # "refused"
  <1> SUFFICES ASSUME Verdict(Current) = "refused" PROVE FALSE
    OBVIOUS
  <1>1. /\ ~BadEntry(Current) /\ Writes(Current)
        /\ Current.dest = ConfigPath \/ Ungranted(Current)
    BY DEF Verdict
  <1>2. Current \in Entries /\ Running
    BY CurrentEntry DEF SyncInv, AtEntry, Running
  <1>3. /\ Current.flaw = "none" /\ Current.dest \in conf.allowed /\ Current.op # "delete"
    BY <1>1 DEF BadEntry, Writes
  <1> QED
    BY <1>1, <1>2, <1>3 DEF SyncInv, ConsentKept, ConfigWrites, UnconsentedWrites

(* A killed run leaves the temporary file it was filling.                  *)
LEMMA KilledTemps ==
    ASSUME SyncInv, KillSync
    PROVE  TempsTyped' /\ TempsKept'
  <1> DEFINE gone == IF engine.phase = "write" THEN {syncRuns} ELSE {}
  <1>1. /\ temps' = temps /\ cut' = cut \cup gone /\ syncRuns' = syncRuns /\ syncRuns \in Nat
        /\ engine'.phase = "idle"
    BY DEF KillSync, Steady, End, SyncInv, SyncTypeOK, EngineType
  <1>2. TempsTyped'
    BY <1>1 DEF SyncInv, SyncTypeOK, TempsTyped
  <1>3. \A t \in temps : t[2] <= syncRuns /\ t[2] \in cut'
    BY <1>1 DEF SyncInv, TempsKept, Temp
  <1>4. \A x, t \in temps : x[2] = t[2] => x = t
    BY DEF SyncInv, TempsKept
  <1> QED
    BY <1>1, <1>2, <1>3, <1>4 DEF TempsKept, Running

Stops == StopAtEntry \/ FinishSync \/ KillSync \/ FailWrite

LEMMA StopStep == SyncInv /\ Stops => SyncInv' /\ Consented
  <1> SUFFICES ASSUME SyncInv, Stops PROVE SyncInv' /\ Consented
    OBVIOUS
  <1>1. Running /\ Steady /\ UNCHANGED repo
    BY DEF Stops, StopAtEntry, FinishSync, KillSync, FailWrite, Quiet, Running, AtEntry
  <1>2. ASSUME NEW s \in {"ok", "error", "killed"}, End(s) PROVE engine'.phase = "idle"
    BY <1>2 DEF End, SyncInv, SyncTypeOK, EngineType
  <1>3. CASE StopAtEntry
    <2>1. Verdict(Current) \in {"error", "refused", "go"}
      BY DEF Verdict
    <2>2. End("error")
      BY <1>3, <2>1, NoRefusal DEF StopAtEntry
    <2>3. TempsAtRest
      BY <1>3 DEF StopAtEntry, AtEntry, Quiet, TempsAtRest
    <2> QED
      BY <1>1, <1>2, <2>2, <2>3, TempsRest, EndKeeps DEF Consented
  <1>4. CASE FinishSync
    <2>1. TempsAtRest /\ End("ok") /\ engine.phase = "loop" /\ engine.at > Len(manifest)
      BY <1>4 DEF FinishSync, Quiet, TempsAtRest
    <2> QED
      BY <1>1, <1>2, <2>1, TempsRest, EndKeeps DEF Consented
  <1>5. CASE KillSync
    <2>1. End("killed")
      BY <1>5 DEF KillSync
    <2> QED
      BY <1>1, <1>5, <2>1, KilledTemps, EndKeeps DEF Consented
  <1>6. CASE FailWrite
    <2>1. TempsAtRest /\ End("error")
      BY <1>6 DEF FailWrite, TempsAtRest
    <2> QED
      BY <1>1, <1>2, <2>1, TempsRest, EndKeeps DEF Consented
  <1> QED
    BY <1>3, <1>4, <1>5, <1>6 DEF Stops

(* What an entry of the loop promises, given the file that is there.       *)
LEMMA FileHere ==
    ASSUME SyncInv, AtEntry \/ engine.phase = "write", OneEntryPerPath, ~Skipped(Current)
    PROVE  /\ PromisedFile(origin, Current.dest) = Promise(origin, Current)
           /\ FileAt(repo, Current.dest) \in {FileAt(origin, Current.dest), Promise(origin, Current)}
  BY CurrentEntry, PromiseOfEntry DEF SyncInv, Converging

LEMMA PassOverStep == SyncInv /\ PassOver => SyncInv' /\ Consented
  <1> SUFFICES ASSUME SyncInv, PassOver PROVE SyncInv' /\ Consented
    OBVIOUS
  <1> DEFINE e == Current
  <1>1. /\ AtEntry /\ Steady /\ TempsAtRest /\ Advance /\ UNCHANGED repo /\ Verdict(e) = "go"
        /\ e \in EntryType /\ e.dest \in Path
    BY CurrentEntry DEF PassOver, SyncInv, AtEntry, Quiet, TempsAtRest
  <1>2. Consented
    BY <1>1 DEF Consented
  <1>3. ASSUME OneEntryPerPath, ~engine.dry, ~Skipped(e)
        PROVE  FileAt(repo, e.dest) = Promise(origin, e)
    <2>1. FileAt(repo, e.dest) \in {FileAt(origin, e.dest), Promise(origin, e)}
      BY <1>1, <1>3, FileHere
    <2>2. repo[e.dest] \in Node /\ origin[e.dest] \in Node
      BY <1>1 DEF SyncInv, SyncTypeOK
    <2>3. CASE Preserved(e)
      BY <2>1, <2>3, NodeKinds DEF Preserved, FileAt, IsFile, Promise
    <2>4. CASE e.op = "delete"
      BY <2>4 , <1>1, <1>3 DEF PassOver, Writes, FileAt, IsFile, Promise, Preserved
    <2>5. CASE e.op # "delete" /\ ~Preserved(e)
      <3>1. ~TextDiffers(e) /\ ~ModeDiffers(e)
        BY <1>3, <2>5 DEF PassOver
      <3>2. IsFile(repo, e.dest) /\ repo[e.dest].text = RenderedText(e) /\ e.op # "seed"
        BY <2>5, <3>1 DEF TextDiffers, Preserved
      <3>3. e.mode # Keep => repo[e.dest].mode = e.mode
        BY <3>1, <3>2 DEF ModeDiffers
      <3>4. repo[e.dest] = [text |-> repo[e.dest].text, mode |-> repo[e.dest].mode]
        BY <2>2, <3>2, NodeKinds DEF IsFile, FileNode
      <3>5. FileAt(repo, e.dest) = repo[e.dest] /\ repo[e.dest] # Absent
        BY <3>2 DEF FileAt, IsFile
      <3>6. CASE repo[e.dest] = Promise(origin, e)
        BY <3>5, <3>6
      <3>7. CASE repo[e.dest] = FileAt(origin, e.dest)
        <4>1. IsFile(origin, e.dest) /\ origin[e.dest] = repo[e.dest]
          BY <3>5, <3>7 DEF FileAt
        <4>2. DesiredMode(origin, e) = repo[e.dest].mode
          BY <3>3, <4>1 DEF DesiredMode
        <4> QED
          BY <2>5, <3>2, <3>4, <3>5, <4>2 DEF Promise
      <3> QED
        BY <2>1, <3>5, <3>6, <3>7
    <2> QED
      BY <2>3, <2>4, <2>5
  <1>4. OneEntryPerPath /\ ~engine.dry /\ ~Skipped(e) =>
          FileAt(repo', e.dest) = PromisedFile(origin, e.dest)
    BY <1>1, <1>3, FileHere
  <1>5. /\ repo' \in [Path -> Node] /\ WellFormed(repo')
        /\ \A p \in Path : FileAt(repo', p) \in {FileAt(repo, p), PromisedFile(origin, p)}
    BY <1>1 DEF SyncInv, SyncTypeOK
  <1>6. SyncInv'
    BY <1>1, <1>2, <1>4, <1>5, ConsentedKeepsFiles, PassKeeps DEF SyncInv
  <1> QED
    BY <1>2, <1>6

(* Only a file that is no sensitive one is deleted; the directories above  *)
(* it are there.                                                           *)
LEMMA UnlinkStep == SyncInv /\ Unlink => SyncInv' /\ Consented
  <1> SUFFICES ASSUME SyncInv, Unlink PROVE SyncInv' /\ Consented
    OBVIOUS
  <1> DEFINE e == Current
  <1>1. /\ AtEntry /\ Steady /\ TempsAtRest /\ ToPrune /\ engine.phase = "loop" /\ Verdict(e) = "go"
        /\ e \in EntryType /\ e.dest \in Path /\ engine.at \in DOMAIN manifest
        /\ ~Skipped(e) /\ e.op = "delete" /\ repo' = [repo EXCEPT ![e.dest] = Absent]
    BY CurrentEntry DEF Unlink, SyncInv, ToPrune, AtEntry, Quiet, TempsAtRest
  <1>2. repo \in [Path -> Node] /\ WellFormed(repo)
    BY DEF SyncInv, SyncTypeOK
  <1>3. IsFile(repo, e.dest) /\ e.dest \notin NeedsConsent
    BY <1>1, GoFacts DEF Unlink, IsFile
  <1>4. repo' \in [Path -> Node] /\ WellFormed(repo')
    BY <1>1, <1>2, <1>3, SetFile
  <1>5. \A p \in Path : IF p = e.dest THEN repo'[p] = Absent ELSE repo'[p] = repo[p]
    BY <1>1, <1>2
  <1>6. Consented
    BY <1>3, <1>5 DEF Consented, IsFile
  <1>7. ASSUME OneEntryPerPath PROVE PromisedFile(origin, e.dest) = Absent
    BY <1>1, <1>7, FileHere DEF Promise
  <1>8. FileAt(repo', e.dest) = Absent
    BY <1>1, <1>5 DEF FileAt, IsFile
  <1>9. OneEntryPerPath =>
          \A p \in Path : FileAt(repo', p) \in {FileAt(repo, p), PromisedFile(origin, p)}
    BY <1>5, <1>7, <1>8 DEF FileAt, IsFile
  <1>10. /\ SyncTypeOK' /\ ConsentKept' /\ Converging'
         /\ RefusalLeavesTree' /\ CompletedRunConverges' /\ TempsKept'
    BY <1>1, <1>4, <1>6, <1>7, <1>8, <1>9, ConsentedKeepsFiles, PassKeeps
  <1>11. EngineInPlace'
    <2>1. /\ engine'.phase = "prune" /\ engine'.at = engine.at /\ engine'.status = engine.status
          /\ manifest' = manifest
      BY <1>1 DEF ToPrune, Steady, SyncInv, SyncTypeOK, EngineType
    <2>2. engine.status = "none" /\ engine.at >= 1
      BY <1>1 DEF SyncInv, EngineInPlace, Running
    <2>3. \A a \in Above[e.dest] : repo'[a] = Dir
      BY <1>1, <1>2, <1>3, <1>5, AboveFacts DEF WellFormed, IsFile
    <2>4. Current' = e
      BY <2>1 DEF Current
    <2> QED
      BY <1>1, <1>5, <2>1, <2>2, <2>3, <2>4 DEF EngineInPlace
  <1> QED
    BY <1>6, <1>10, <1>11 DEF SyncInv

LEMMA PruneStep == SyncInv /\ Prune => SyncInv' /\ Consented
  <1> SUFFICES ASSUME SyncInv, Prune PROVE SyncInv' /\ Consented
    OBVIOUS
  <1> DEFINE d == Current.dest
  <1>1. /\ engine.phase = "prune" /\ Steady /\ TempsAtRest /\ Advance
        /\ d \in Path /\ \A a \in Above[d] : repo[a] = Dir
        /\ repo' = [p \in Path |-> IF p \in EmptyAbove(d) THEN Absent ELSE repo[p]]
    BY CurrentEntry DEF Prune, SyncInv, EngineInPlace, Quiet, TempsAtRest
  <1>2. repo \in [Path -> Node] /\ WellFormed(repo)
    BY DEF SyncInv, SyncTypeOK
  <1>3. repo' \in [Path -> Node] /\ WellFormed(repo')
    <2>1. repo' = Pruned(repo, temps, d) /\ temps \in SUBSET (Path \X Nat)
      BY <1>1 DEF EmptyAbove, EmptyIn, Pruned, SyncInv, SyncTypeOK
    <2> QED
      BY <1>1, <1>2, <2>1, PruneTree
  <1>4. \A p \in Path : repo'[p] = repo[p] \/ (repo'[p] = Absent /\ repo[p] = Dir)
    BY <1>1 DEF EmptyAbove
  <1>5. Consented
    BY <1>4 DEF Consented, IsFile
  <1>6. \A p \in Path : FileAt(repo', p) = FileAt(repo, p)
    BY <1>4 DEF FileAt, IsFile
  <1>7. OneEntryPerPath /\ ~engine.dry /\ ~Skipped(Current) =>
          FileAt(repo', d) = PromisedFile(origin, d)
    <2>1. engine.at < Reached /\ Running /\ engine.at \in DOMAIN manifest
      BY <1>1 DEF SyncInv, SyncTypeOK, EngineType, EngineInPlace, Reached, Running
    <2> QED
      BY <1>1, <1>6, <2>1 DEF SyncInv, Converging, Behind, Current
  <1>8. SyncInv'
    BY <1>1, <1>3, <1>5, <1>6, <1>7, ConsentedKeepsFiles, PassKeeps DEF SyncInv
  <1> QED
    BY <1>5, <1>8

(* The mode of the file that is there and the one people left lead to the  *)
(* same bits.                                                              *)
LEMMA SameMode ==
    ASSUME SyncInv, AtEntry \/ engine.phase = "write", OneEntryPerPath,
           Verdict(Current) = "go", Writes(Current)
    PROVE  /\ DesiredMode(repo, Current) = DesiredMode(origin, Current)
           /\ Promise(origin, Current) =
                [text |-> RenderedText(Current), mode |-> DesiredMode(origin, Current)]
  <1> DEFINE e == Current
             P == [text |-> RenderedText(e), mode |-> DesiredMode(origin, e)]
  <1>1. e \in EntryType /\ e.dest \in Path /\ ~Skipped(e) /\ ~Preserved(e) /\ e.op # "delete"
    BY CurrentEntry DEF SyncInv, Writes
  <1>2. repo \in [Path -> Node] /\ origin \in [Path -> Node]
    BY DEF SyncInv, SyncTypeOK
  <1>3. FileAt(repo, e.dest) \in {FileAt(origin, e.dest), Promise(origin, e)}
    BY <1>1, FileHere
  <1>4. P \in FileNode
    BY <1>1, <1>2, DesiredIsMode, RenderedIsText DEF SyncInv, FileNode
  <1>5. P # Absent
    BY <1>4, NodeKinds DEF Node
  <1>6. ~(e.op = "seed" /\ IsFile(origin, e.dest))
    <2> SUFFICES ASSUME e.op = "seed", IsFile(origin, e.dest) PROVE FALSE
      OBVIOUS
    <2>1. ~IsFile(repo, e.dest)
      BY <1>1 DEF Preserved
    <2> QED
      BY <1>3, <2>1 DEF FileAt, IsFile, Promise
  <1>7. Promise(origin, e) = P
    BY <1>1, <1>6 DEF Promise
  <1>8. DesiredMode(repo, e) = DesiredMode(origin, e)
    <2>1. CASE e.mode # Keep
      BY <2>1 DEF DesiredMode
    <2>2. CASE e.mode = Keep /\ ~IsFile(repo, e.dest)
      <3>1. ~IsFile(origin, e.dest)
        BY <1>3, <1>5, <1>7, <2>2 DEF FileAt, IsFile
      <3> QED
        BY <2>2, <3>1 DEF DesiredMode
    <2>3. CASE e.mode = Keep /\ IsFile(repo, e.dest)
      <3>1. CASE repo[e.dest] = P
        BY <2>3, <3>1 DEF DesiredMode
      <3>2. CASE repo[e.dest] # P
        <4>1. IsFile(origin, e.dest) /\ repo[e.dest] = origin[e.dest]
          BY <1>3, <1>7, <2>3, <3>2 DEF FileAt, IsFile
        <4> QED
          BY <2>3, <4>1 DEF DesiredMode
      <3> QED
        BY <3>1, <3>2
    <2> QED
      BY <2>1, <2>2, <2>3
  <1> QED
    BY <1>7, <1>8

LEMMA MakeParentStep == SyncInv /\ MakeParent => SyncInv' /\ Consented
  <1> SUFFICES ASSUME SyncInv, MakeParent PROVE SyncInv' /\ Consented
    OBVIOUS
  <1>1. PICK a \in Above[Current.dest] :
          repo[a] = Absent /\ (\A b \in Above[a] : repo[b] = Dir) /\ repo' = [repo EXCEPT ![a] = Dir]
    BY DEF MakeParent
  <1>2. /\ repo \in [Path -> Node] /\ WellFormed(repo) /\ a \in Path /\ engine \in EngineType
        /\ Writing /\ Steady /\ AtEntry /\ Running
    BY CurrentEntry, AboveFacts DEF SyncInv, SyncTypeOK, MakeParent, Quiet, Writing, AtEntry, Running
  <1>3. repo' \in [Path -> Node] /\ WellFormed(repo')
    <2>1. [repo EXCEPT ![a] = Dir] \in [Path -> Node] /\ WellFormed([repo EXCEPT ![a] = Dir])
      BY <1>1, <1>2, NodeKinds, PutTree
    <2> QED
      BY <1>1, <2>1
  <1>4. \A p \in Path : repo'[p] = repo[p] \/ (repo[p] = Absent /\ repo'[p] = Dir)
    BY <1>1, <1>2
  <1>5. Consented
    BY <1>4 DEF Consented, IsFile
  <1>6. \A p \in Path : FileAt(repo', p) = FileAt(repo, p) /\ (IsFile(repo, p) => IsFile(repo', p))
    BY <1>4 DEF FileAt, IsFile
  <1>7. engine' = [engine EXCEPT !.phase = "loop"] /\ engine'.phase # "write" /\ TempsAtRest
    BY <1>2 DEF MakeParent, AtEntry, EngineType, Quiet, TempsAtRest
  <1>8. TempsTyped' /\ TempsKept'
    BY <1>2, <1>7, TempsRest
  <1>9. SyncInv'
    BY <1>2, <1>3, <1>6, <1>7, <1>8, StayKeeps DEF SyncInv
  <1> QED
    BY <1>5, <1>9

LEMMA OpenTempStep == SyncInv /\ OpenTemp => SyncInv' /\ Consented
  <1> SUFFICES ASSUME SyncInv, OpenTemp PROVE SyncInv' /\ Consented
    OBVIOUS
  <1>1. /\ Writing /\ Steady /\ AtEntry /\ Running /\ engine.phase = "loop" /\ UNCHANGED <<repo, cut>>
        /\ temps' = temps \cup {Temp} /\ engine' = [engine EXCEPT !.phase = "write"]
        /\ \A a \in Above[Current.dest] : repo[a] = Dir
    BY DEF OpenTemp, Writing, AtEntry, Running
  <1>2. /\ Current.dest \in Path /\ engine.at \in DOMAIN manifest /\ engine \in EngineType
        /\ repo' \in [Path -> Node] /\ WellFormed(repo') /\ syncRuns \in Nat
    BY <1>1, CurrentEntry DEF SyncInv, SyncTypeOK
  <1>3. /\ engine'.phase = "write" /\ engine'.at = engine.at /\ engine'.dry = engine.dry
        /\ engine'.status = engine.status /\ manifest' = manifest /\ syncRuns' = syncRuns
        /\ Current' = Current /\ Temp' = Temp
    BY <1>1, <1>2 DEF EngineType, Steady, Current, Temp
  <1>4. TempsTyped' /\ TempsKept'
    <2>1. Temp \in Path \X Nat /\ Temp[2] = syncRuns
      BY <1>2 DEF Temp
    <2>2. \A t \in temps : t \in Path \X Nat /\ t[2] <= syncRuns /\ t[2] \in cut /\ t[2] # syncRuns
      BY <1>1 DEF SyncInv, SyncTypeOK, TempsKept
    <2>3. TempsTyped'
      BY <1>1, <2>1 DEF TempsTyped, SyncInv, SyncTypeOK
    <2>4. \A x, t \in temps' : x[2] = t[2] => x = t
      BY <1>1, <2>1, <2>2 DEF SyncInv, TempsKept
    <2>5. \A t \in temps' : /\ t[2] <= syncRuns /\ (t[2] \in cut \/ t = Temp)
                            /\ t[2] = syncRuns => t = Temp
      BY <1>1, <1>2, <2>1, <2>2
    <2> QED
      BY <1>1, <1>3, <2>3, <2>4, <2>5 DEF TempsKept
  <1>5. /\ SyncTypeOK' /\ ConsentKept' /\ Converging' /\ RefusalLeavesTree' /\ CompletedRunConverges'
    BY <1>1, <1>2, <1>4, StayKeeps
  <1>6. EngineInPlace'
    <2>1. ~engine.dry /\ Verdict(Current) = "go" /\ Writes(Current) /\ engine.at >= 1 /\ engine.status = "none"
      BY <1>1 DEF Writing, SyncInv, EngineInPlace
    <2>2. Verdict(Current)' = Verdict(Current) /\ Writes(Current)' = Writes(Current)
      BY <1>1, <1>3 DEF Verdict, BadEntry, Writes, Skipped, Preserved, Ungranted, CannotRender,
                        CannotPlace, IsFile, Steady
    <2> QED
      BY <1>1, <1>2, <1>3, <2>1, <2>2 DEF EngineInPlace
  <1> QED
    BY <1>1, <1>4, <1>5, <1>6 DEF SyncInv, Consented

LEMMA PlaceStep == SyncInv /\ PlaceEntry => SyncInv' /\ Consented
  <1> SUFFICES ASSUME SyncInv, PlaceEntry PROVE SyncInv' /\ Consented
    OBVIOUS
  <1> DEFINE e == Current
             n == [text |-> RenderedText(e), mode |-> DesiredMode(repo, e)]
  <1>1. /\ engine.phase = "write" /\ Steady /\ TempsAtRest /\ Advance
        /\ Verdict(e) = "go" /\ Writes(e) /\ ~Skipped(e) /\ e \in EntryType /\ e.dest \in Path
        /\ repo[e.dest] # Dir /\ \A a \in Above[e.dest] : repo[a] = Dir
        /\ repo' = [repo EXCEPT ![e.dest] = n]
    BY CurrentEntry DEF PlaceEntry, Place, SyncInv, EngineInPlace, Writes, TempsAtRest
  <1>2. repo \in [Path -> Node] /\ WellFormed(repo)
    BY DEF SyncInv, SyncTypeOK
  <1>3. n \in FileNode
    BY <1>1, <1>2, DesiredIsMode, RenderedIsText DEF SyncInv, FileNode
  <1>4. e.dest # ConfigPath /\ ~Ungranted(e)
    BY <1>1, GoFacts
  <1>5. repo' \in [Path -> Node] /\ WellFormed(repo')
    <2>1. e.dest \in Path /\ n \in FileNode \cup {Dir}
      BY <1>1, <1>3
    <2> HIDE DEF n, e
    <2>2. [repo EXCEPT ![e.dest] = n] \in [Path -> Node] /\ WellFormed([repo EXCEPT ![e.dest] = n])
      BY <1>1, <1>2, <2>1, PutTree
    <2> QED
      BY <1>1, <2>2
  <1>6. /\ repo'[e.dest] = n /\ IsFile(repo', e.dest)
        /\ \A p \in Path : p # e.dest => repo'[p] = repo[p]
    BY <1>1, <1>2, <1>3, NodeKinds DEF IsFile, Node
  <1>7. Consented
    BY <1>4, <1>6 DEF Consented, Ungranted, IsFile
  <1>8. ASSUME OneEntryPerPath PROVE FileAt(repo', e.dest) = PromisedFile(origin, e.dest)
    BY <1>1, <1>6, <1>8, SameMode, FileHere DEF FileAt
  <1>9. ASSUME OneEntryPerPath, NEW p \in Path
        PROVE  FileAt(repo', p) \in {FileAt(repo, p), PromisedFile(origin, p)}
    BY <1>6, <1>8, <1>9 DEF FileAt, IsFile
  <1>10. SyncInv'
    BY <1>1, <1>5, <1>7, <1>8, <1>9, ConsentedKeepsFiles, PassKeeps DEF SyncInv
  <1> QED
    BY <1>7, <1>10

LEMMA ChmodStep == SyncInv /\ ChmodEntry => SyncInv' /\ Consented
  <1> SUFFICES ASSUME SyncInv, ChmodEntry PROVE SyncInv' /\ Consented
    OBVIOUS
  <1> DEFINE e == Current
             n == [text |-> RenderedText(e), mode |-> DesiredMode(repo, e)]
  <1>1. /\ AtEntry /\ Steady /\ TempsAtRest /\ Advance /\ Verdict(e) = "go" /\ Writes(e)
        /\ ~Skipped(e) /\ e \in EntryType /\ e.dest \in Path
        /\ e.mode # Keep /\ IsFile(repo, e.dest) /\ repo[e.dest].text = RenderedText(e)
        /\ repo' = [repo EXCEPT ![e.dest].mode = e.mode]
    BY CurrentEntry DEF ChmodEntry, Writing, SyncInv, AtEntry, Writes, TextDiffers, ModeDiffers,
                        Quiet, TempsAtRest
  <1>2. repo \in [Path -> Node] /\ WellFormed(repo)
    BY DEF SyncInv, SyncTypeOK
  <1>3. n \in FileNode
    BY <1>1, <1>2, DesiredIsMode, RenderedIsText DEF SyncInv, FileNode
  <1>4. repo' = [repo EXCEPT ![e.dest] = n]
    <2>1. repo[e.dest] \in FileNode
      BY <1>1, <1>2, NodeKinds DEF IsFile
    <2>2. [repo[e.dest] EXCEPT !.mode = e.mode] = n
      BY <1>1, <2>1 DEF FileNode, DesiredMode
    <2> QED
      BY <1>1, <2>2
  <1>5. e.dest # ConfigPath /\ ~Ungranted(e)
    BY <1>1, GoFacts
  <1>6. repo' \in [Path -> Node] /\ WellFormed(repo')
    <2>1. e.dest \in Path /\ IsFile(repo, e.dest) /\ n \in FileNode \cup {Absent}
      BY <1>1, <1>3
    <2> HIDE DEF n, e
    <2>2. [repo EXCEPT ![e.dest] = n] \in [Path -> Node] /\ WellFormed([repo EXCEPT ![e.dest] = n])
      BY <1>2, <2>1, SetFile
    <2> QED
      BY <1>4, <2>2
  <1>7. /\ repo'[e.dest] = n /\ IsFile(repo', e.dest)
        /\ \A p \in Path : p # e.dest => repo'[p] = repo[p]
    BY <1>1, <1>2, <1>3, <1>4, NodeKinds DEF IsFile, Node
  <1>8. Consented
    BY <1>5, <1>7 DEF Consented, Ungranted
  <1>9. ASSUME OneEntryPerPath PROVE FileAt(repo', e.dest) = PromisedFile(origin, e.dest)
    BY <1>1, <1>7, <1>9, SameMode, FileHere DEF FileAt
  <1>10. ASSUME OneEntryPerPath, NEW p \in Path
         PROVE  FileAt(repo', p) \in {FileAt(repo, p), PromisedFile(origin, p)}
    BY <1>7, <1>9, <1>10 DEF FileAt, IsFile
  <1>11. SyncInv'
    BY <1>1, <1>6, <1>8, <1>9, <1>10, ConsentedKeepsFiles, PassKeeps DEF SyncInv
  <1> QED
    BY <1>8, <1>11

-----------------------------------------------------------------------------
(* Between runs.                                                           *)
LEMMA SyncInitInv == SyncInit => SyncInv
  <1> SUFFICES ASSUME SyncInit PROVE SyncInv
    OBVIOUS
  <1>1. repo \in [Path -> Node] /\ WellFormed(repo) /\ origin = repo /\ began = repo
    BY NodeKinds DEF SyncInit, WellFormed
  <1>2. /\ engine \in EngineType /\ engine.phase = "off" /\ engine.status = "none"
    BY DEF SyncInit, NoRun, EngineType
  <1>3. manifest \in Seq(EntryType) /\ upstream \in SourceType
    BY DEF SyncInit, SourceType
  <1>4. conf \in ConfigType
    BY DEF SyncInit, ConfigType
  <1>5. SyncTypeOK /\ TempsKept
    BY <1>1, <1>2, <1>3, <1>4 DEF SyncTypeOK, TempsKept, SyncInit
  <1> QED
    BY <1>1, <1>2, <1>5 DEF SyncInv, EngineInPlace, ConsentKept, Converging, Running,
                            RefusalLeavesTree, CompletedRunConverges

(* A change by people: the tree they leave is the origin of what follows.  *)
LEMMA ChangedInputs ==
    ASSUME repo' \in [Path -> Node], WellFormed(repo'), origin' = repo',
           began' = began, SyncTypeOK, TempsKept, ~Running, UNCHANGED <<temps, cut, syncRuns>>,
           manifest' \in Seq(EntryType), conf' \in ConfigType,
           upstream' \in SourceType, engine' \in EngineType,
           engine'.phase = "idle", engine'.status = "none"
    PROVE  SyncInv'
  <1>1. SyncTypeOK' /\ TempsKept'
    BY DEF SyncTypeOK, TempsKept, Running
  <1>2. \A p : FileAt(repo, p)' = FileAt(origin, p)'
    OBVIOUS
  <1> QED
    BY <1>1, <1>2 DEF SyncInv, EngineInPlace, ConsentKept, Converging, Running,
                      RefusalLeavesTree, CompletedRunConverges

LEMMA InputStep == SyncInv /\ (SetInputs \/ EditInputs) => SyncInv'
  <1> SUFFICES ASSUME SyncInv, SetInputs \/ EditInputs PROVE SyncInv'
    OBVIOUS
  <1>1. /\ SyncTypeOK /\ engine \in EngineType /\ EngineInPlace /\ TempsKept /\ ~Running
        /\ UNCHANGED <<temps, cut, syncRuns>>
    BY DEF SyncInv, SyncTypeOK, SetInputs, EditInputs, Running
  <1>2. CASE SetInputs
    <2>1. /\ repo' \in [Path -> Node] /\ WellFormed(repo') /\ origin' = repo' /\ began' = began
          /\ manifest' \in Seq(EntryType) /\ conf' \in ConfigType /\ upstream' \in SourceType
      BY <1>2, InputAssumption DEF SetInputs
    <2>2. engine' \in EngineType /\ engine'.phase = "idle" /\ engine'.status = "none"
      BY <1>1, <1>2 DEF SetInputs, EngineType, EngineInPlace
    <2> QED
      BY <1>1, <2>1, <2>2, ChangedInputs
  <1>3. CASE EditInputs
    <2>1. repo \in [Path -> Node] /\ WellFormed(repo)
      BY <1>1 DEF SyncTypeOK
    <2>2. /\ origin' = repo' /\ began' = began /\ manifest' = manifest
          /\ engine' = [engine EXCEPT !.status = "none"] /\ engine.phase = "idle"
      BY <1>3 DEF EditInputs
    <2>3. repo' \in [Path -> Node] /\ WellFormed(repo')
      <3>1. CASE \E p \in Path : IsFile(repo, p) /\ repo' = [repo EXCEPT ![p].text = Own]
        <4>1. PICK p \in Path : IsFile(repo, p) /\ repo' = [repo EXCEPT ![p].text = Own]
          BY <3>1
        <4>2. repo[p] \in FileNode
          BY <2>1, <4>1, NodeKinds DEF IsFile
        <4>3. [repo[p] EXCEPT !.text = Own] \in FileNode
          BY <4>2 DEF FileNode, FileText
        <4>4. PICK n \in FileNode : repo' = [repo EXCEPT ![p] = n]
          BY <4>1, <4>3
        <4>5. [repo EXCEPT ![p] = n] \in [Path -> Node] /\ WellFormed([repo EXCEPT ![p] = n])
          BY <2>1, <4>1, SetFile
        <4> QED
          BY <4>4, <4>5
      <3>2. CASE repo' = repo
        BY <2>1, <3>2
      <3> QED
        BY <1>3, <3>1, <3>2 DEF EditInputs
    <2>4. conf' \in ConfigType
      <3>1. conf \in ConfigType
        BY <1>1 DEF SyncTypeOK
      <3>2. conf' = conf \/ \E S \in SUBSET conf.grants : conf' = [conf EXCEPT !.grants = S]
        <4>1. conf' = conf \/ \E p \in NeedsConsent : conf' = [conf EXCEPT !.grants = conf.grants \ {p}]
          BY <1>3 DEF EditInputs
        <4> QED
          BY <4>1
      <3> QED
        BY <3>1, <3>2 DEF ConfigType
    <2>5. upstream' \in SourceType
      BY <1>1, <1>3 DEF EditInputs, SyncTypeOK, SourceType
    <2>6. engine' \in EngineType /\ engine'.phase = "idle" /\ engine'.status = "none"
      BY <1>1, <2>2 DEF EngineType
    <2> QED
      BY <1>1, <2>2, <2>3, <2>4, <2>5, <2>6, ChangedInputs DEF SyncTypeOK
  <1> QED
    BY <1>2, <1>3

LEMMA SyncStartStep == ASSUME SyncInv, NEW dry \in BOOLEAN, StartSync(dry) PROVE SyncInv'
  <1>1. /\ UNCHANGED <<repo, manifest, upstream, conf, origin>> /\ began' = repo
        /\ engine' \in EngineType /\ engine'.phase \in {"loop", "idle"} /\ engine'.at = 1
        /\ engine'.status # "ok" /\ (engine'.phase = "loop" <=> engine'.status = "none")
        /\ engine'.phase = "loop" => ConfigWrites = {} /\ UnconsentedWrites = {}
    BY DEF StartSync, EngineType
  <1>2. SyncTypeOK' /\ TempsKept'
    <2>1. /\ temps' = temps /\ cut' = cut /\ syncRuns' = syncRuns + 1 /\ syncRuns \in Nat
          /\ engine.phase = "idle" /\ engine'.phase # "write"
      BY <1>1 DEF StartSync, SyncInv, SyncTypeOK
    <2>2. \A t \in temps : t[2] \in Nat /\ t[2] <= syncRuns /\ t[2] \in cut
      BY <2>1 DEF SyncInv, SyncTypeOK, TempsKept
    <2>3. \A t \in temps : t[2] <= syncRuns + 1 /\ t[2] # syncRuns + 1
      BY <2>1, <2>2
    <2> QED
      BY <1>1, <2>1, <2>2, <2>3 DEF SyncInv, SyncTypeOK, TempsKept
  <1>3. EngineInPlace' /\ RefusalLeavesTree' /\ CompletedRunConverges'
    BY <1>1 DEF EngineInPlace, Running, RefusalLeavesTree, CompletedRunConverges
  <1>4. ConsentKept'
    <2>1. ConfigWrites' = ConfigWrites /\ UnconsentedWrites' = UnconsentedWrites
      BY <1>1 DEF ConfigWrites, UnconsentedWrites, Entries, Writes, Skipped, Preserved,
                  Ungranted, IsFile
    <2> QED
      BY <1>1, <2>1 DEF ConsentKept, Running
  <1>5. Converging'
    <2>1. /\ OneEntryPerPath' = OneEntryPerPath /\ \A p : PromisedFile(origin, p)' = PromisedFile(origin, p)
          /\ \A p : FileAt(repo, p)' = FileAt(repo, p) /\ FileAt(origin, p)' = FileAt(origin, p)
      BY <1>1 DEF OneEntryPerPath, PromisedFile, Entries, Skipped, RenderedText, DesiredMode,
                  FileAt, IsFile
    <2>2. \A i \in DOMAIN manifest' : ~(i < 1)
      BY <1>1 DEF SyncInv, SyncTypeOK
    <2>3. engine'.phase # "prune" /\ Reached' = 1
      BY <1>1 DEF Reached
    <2> QED
      BY <2>1, <2>2, <2>3 DEF SyncInv, Converging, Behind
  <1> QED
    BY <1>2, <1>3, <1>4, <1>5 DEF SyncInv

-----------------------------------------------------------------------------
LEMMA SyncStep == SyncInv /\ [SyncNext]_syncVars => SyncInv' /\ (Running => Consented)
  <1> SUFFICES ASSUME SyncInv, [SyncNext]_syncVars PROVE SyncInv' /\ (Running => Consented)
    OBVIOUS
  <1>1. CASE UNCHANGED syncVars
    <2>1. /\ OneEntryPerPath' = OneEntryPerPath /\ Reached' = Reached /\ Running' = Running
          /\ \A t, p : PromisedFile(t, p)' = PromisedFile(t', p)
      BY <1>1 DEF syncVars, OneEntryPerPath, Reached, Running, PromisedFile, Entries, Skipped,
                  RenderedText, DesiredMode, IsFile
    <2> QED
      BY <1>1, <2>1
         DEF syncVars, SyncInv, SyncTypeOK, EngineInPlace, TempsKept, Temp, OnlyCutRunsLitter,
             Verdict, BadEntry, CannotRender, CannotPlace, ConsentKept, Converging, Behind, Current,
             RefusalLeavesTree, CompletedRunConverges, ConfigWrites, UnconsentedWrites, Entries,
             Writes, Skipped, Preserved, Ungranted, FileAt, IsFile, Consented
  <1>2. CASE SetInputs \/ EditInputs
    BY <1>2, InputStep DEF SetInputs, EditInputs, Running
  <1>3. CASE \E dry \in BOOLEAN : StartSync(dry)
    BY <1>3, SyncStartStep DEF StartSync, Running
  <1> QED
    BY <1>1, <1>2, <1>3, StopStep, PassOverStep, UnlinkStep, PruneStep, MakeParentStep,
       OpenTempStep, PlaceStep, ChmodStep DEF SyncNext, EngineStep, Stops

LEMMA SyncInvariance == SyncSpec => []SyncInv
  BY SyncInitInv, SyncStep, PTL DEF SyncSpec

(* The trees stay trees of files and directories, whatever is synced.      *)
THEOREM SyncTypeCorrect == SyncSpec => []SyncTypeOK
  BY SyncInvariance, PTL DEF SyncInv

(* A refusal for missing consent leaves the tree as the run found it, for  *)
(* every manifest, config and tree: the loop never meets an entry it would *)
(* have to refuse, because what the admission passes found stays true.     *)
THEOREM RefusalTouchesNothing == SyncSpec => []RefusalLeavesTree
  BY SyncInvariance, PTL DEF SyncInv

(* No step of a run writes the consent store, or changes a file on a       *)
(* sensitive path that the consumer did not grant.                         *)
THEOREM ConsentIsRespected == SyncSpec => ConsentRespected
  <1>1. SyncInv /\ [SyncNext]_syncVars =>
          [engine.phase \in {"loop", "write", "prune"} => Consented]_syncVars
    BY SyncStep DEF Running
  <1> QED
    BY <1>1, SyncInvariance, PTL DEF SyncSpec, ConsentRespected, Consented

(* A run that completes leaves at every path the file that an undisturbed  *)
(* run on the people's own tree would have left, whatever number of runs   *)
(* were killed or failed before it, for every manifest with one entry per  *)
(* path; beside these files the tree holds only temporary files of killed  *)
(* runs, at most one of each, which no later run removes.                  *)
THEOREM CompletedRunsConverge == SyncSpec => []CompletedRunConverges
  BY SyncInvariance, PTL DEF SyncInv

-----------------------------------------------------------------------------
(* The lines of a template.                                                *)
(* The line kept after line i, or the end of the file.                     *)
NextKept(n, S, i) == Min({j \in S : j > i} \cup {n + 1})

(* After line k: the lines from k + 1 on are there, but for a blank that   *)
(* was dropped with line k.                                                *)
CollapsedTo(lines, k, S) ==
    /\ S \subseteq 1..Len(lines)
    /\ \A j \in (1..Len(lines)) \ S :
         IF j <= k THEN lines[j] \in {"vacant", "blank"} ELSE j = k + 1 /\ lines[j] = "blank"
    /\ \A j \in S : j <= k => lines[j] # "vacant"
    /\ Cardinality((1..Len(lines)) \ S) <= 2 * Cardinality({j \in 1..k : lines[j] = "vacant"})
    /\ S # {} => Cardinality(BlankRuns(lines, S)) = Cardinality(BlankRuns(lines, 1..Len(lines)))
    /\ \A a, b \in S : lines[a] # "blank" /\ lines[b] # "blank" /\ Parted(lines, 1..Len(lines), a, b) =>
                         Parted(lines, S, a, b)

(* The least number of a set.                                              *)
LEMMA Before == \A x, y \in Nat : x < y => <<x, y>> \in OpToRel(<, Nat)
  BY DEF OpToRel

LEMMA LeastOf ==
    ASSUME NEW S \in SUBSET Nat, S # {}
    PROVE  Min(S) \in S /\ \A k \in S : Min(S) <= k
  <1>1. \E m \in S : \A k \in S : <<k, m>> \notin OpToRel(<, Nat)
    BY NatLessThanWellFounded, WFMin
  <1>2. PICK m \in S : \A k \in S : <<k, m>> \notin OpToRel(<, Nat)
    BY <1>1
  <1>3. \A k \in S : ~(k < m)
    BY <1>2, Before, Zenon
  <1>4. \A k \in S : m <= k
    BY <1>3
  <1> QED
    BY <1>4 DEF Min

LEMMA PreviousIs ==
    ASSUME NEW n \in Nat, NEW S \in SUBSET (1..n), NEW i \in 1..n
    PROVE  /\ PreviousKept(S, i) \in {0} \cup S /\ PreviousKept(S, i) < i
           /\ \A k \in S : k < i => k <= PreviousKept(S, i)
  <1> DEFINE D == {0} \cup {j \in S : j < i}
             U == {i - x : x \in D}
  <1>0. \A k \in S : k \in Nat /\ 1 <= k /\ k <= n
    OBVIOUS
  <1>11. \A k \in D : k \in Nat /\ k < i
    BY <1>0
  <1>12. \A k \in D : i - k \in Nat
    BY <1>11
  <1>1. U \in SUBSET Nat /\ U # {} /\ D \in SUBSET Nat
    BY <1>11, <1>12
  <1>2. \E m \in U : \A k \in U : m <= k
    <2> HIDE DEF U
    <2> QED
      BY <1>1, LeastOf
  <1>3. PICK m \in D : \A k \in U : i - m <= k
    BY <1>2
  <1>4. \A k \in D : i - m <= i - k
    BY <1>3
  <1>5. \A k \in D : k <= m
    BY <1>1, <1>4
  <1>6. Max(D) \in D /\ \A k \in D : k <= Max(D)
    BY <1>1, <1>5 DEF Max
  <1> QED
    BY <1>6 DEF PreviousKept

LEMMA NextIs ==
    ASSUME NEW n \in Nat, NEW S \in SUBSET (1..n), NEW i \in 0..n
    PROVE  /\ NextKept(n, S, i) \in S \cup {n + 1} /\ NextKept(n, S, i) > i
           /\ \A k \in S : k > i => NextKept(n, S, i) <= k
           /\ \A m \in S \cup {n + 1} :
                m > i /\ (\A k \in S : k > i => m <= k) => NextKept(n, S, i) = m
  <1> DEFINE D == {j \in S : j > i} \cup {n + 1}
  <1>0. \A k \in S : k \in Nat /\ 1 <= k /\ k <= n
    OBVIOUS
  <1>01. i \in Nat /\ i <= n /\ n + 1 \in Nat /\ n + 1 > i
    OBVIOUS
  <1>10. \A k \in D : k \in Nat /\ (k \in S \/ k = n + 1) /\ k > i
    BY <1>0, <1>01
  <1>1. D \in SUBSET Nat /\ D # {}
    BY <1>10
  <1>2. Min(D) \in D /\ \A k \in D : Min(D) <= k
    <2> HIDE DEF D
    <2> QED
      BY <1>1, LeastOf
  <1>3. NextKept(n, S, i) = Min(D)
    BY DEF NextKept
  <1>4. Min(D) \in Nat /\ (Min(D) \in S \/ Min(D) = n + 1) /\ Min(D) > i
    BY <1>10, <1>2
  <1>5. \A k \in S : k > i => Min(D) <= k
    BY <1>2
  <1>6. ASSUME NEW m \in S \cup {n + 1}, m > i, \A k \in S : k > i => m <= k
        PROVE  Min(D) = m
    <2>1. m \in D /\ m \in Nat
      BY <1>0, <1>6
    <2>2. Min(D) <= m
      BY <2>1, <1>2
    <2>3. m <= Min(D)
      BY <1>6, <1>4, <1>0
    <2> QED
      BY <2>1, <2>2, <2>3, <1>4
  <1> HIDE DEF D
  <1> QED
    BY <1>3, <1>4, <1>5, <1>6

LEMMA SameNext ==
    ASSUME NEW n \in Nat, NEW S \in SUBSET (1..n), NEW T \in SUBSET S,
           NEW x \in 0..n, NextKept(n, S, x) \notin S \ T
    PROVE  NextKept(n, T, x) = NextKept(n, S, x)
  <1>1. T \in SUBSET (1..n)
    OBVIOUS
  <1>2. NextKept(n, S, x) \in T \cup {n + 1} /\ NextKept(n, S, x) > x
    BY NextIs
  <1>3. \A k \in T : k > x => NextKept(n, S, x) <= k
    BY NextIs
  <1> QED
    <2>1. \A m \in T \cup {n + 1} :
            m > x /\ (\A k \in T : k > x => m <= k) => NextKept(n, T, x) = m
      BY <1>1, NextIs
    <2> QED
      BY <2>1, <1>2, <1>3, Zenon

LEMMA NextBy ==
    ASSUME NEW n \in Nat, NEW S \in SUBSET (1..n), NEW x \in 0..n, NEW m \in S \cup {n + 1},
           m > x, \A k \in S : k > x => m <= k
    PROVE  NextKept(n, S, x) = m
  <1>1. \A m1 \in S \cup {n + 1} :
          m1 > x /\ (\A k \in S : k > x => m1 <= k) => NextKept(n, S, x) = m1
    BY NextIs
  <1> QED
    BY <1>1, Zenon

LEMMA LinesOf ==
    ASSUME NEW n \in Nat, NEW S \in SUBSET (1..n)
    PROVE  /\ \A k \in S : k \in 1..n /\ k \in 0..n /\ k \in Int /\ 1 <= k /\ k <= n
           /\ \A k \in S \cup {0} : k \in 0..n /\ k \in Int /\ 0 <= k /\ k <= n
           /\ \A k \in S \cup {n + 1} : k \in Int /\ 1 <= k /\ k <= n + 1
  OBVIOUS

(* Line i follows the last line kept before it and no other.               *)
LEMMA FollowsPrevious ==
    ASSUME NEW n \in Nat, NEW S \in SUBSET (1..n), NEW i \in S
    PROVE  /\ PreviousKept(S, i) \in {0} \cup S /\ PreviousKept(S, i) < i
           /\ PreviousKept(S, i) \in 0..n
           /\ \A k \in S : k < i => k <= PreviousKept(S, i)
           /\ NextKept(n, S, PreviousKept(S, i)) = i
           /\ \A x \in S \cup {0} : NextKept(n, S, x) = i => x = PreviousKept(S, i)
  <1> DEFINE p == PreviousKept(S, i)
  <1>1. \A k \in S : k \in 1..n /\ k \in 0..n /\ k \in Int /\ 1 <= k /\ k <= n
    BY LinesOf
  <1>2. p \in {0} \cup S /\ p < i /\ \A k \in S : k < i => k <= p
    BY <1>1, PreviousIs
  <1> HIDE DEF p
  <1>3. p \in 0..n /\ p \in Int
    BY <1>1, <1>2
  <1>4. \A k \in S : k > p => i <= k
    BY <1>1, <1>2, <1>3
  <1>5. NextKept(n, S, p) = i
    <2>1. i > p /\ i \in S \cup {n + 1}
      BY <1>1, <1>2, <1>3
    <2> QED
      BY <2>1, <1>3, <1>4, NextBy
  <1>6. ASSUME NEW x \in S \cup {0}, NextKept(n, S, x) = i, x # p
        PROVE  FALSE
    <2>0. x \in 0..n /\ x \in Int
      BY LinesOf
    <2>1. i > x /\ \A k \in S : k > x => i <= k
      BY <2>0, <1>6, NextIs
    <2>2. x < p
      BY <1>1, <1>2, <1>3, <1>6, <2>0, <2>1
    <2>3. p \in S
      BY <2>0, <2>2, <1>2, <1>3
    <2>4. i <= p
      BY <2>0, <1>3, <2>1, <2>2, <2>3
    <2> QED
      BY <2>4, <1>1, <1>2, <1>3
  <1> QED
    BY <1>2, <1>3, <1>5, <1>6 DEF p

(* The lines of B, here the blank ones, that a line of B follows.          *)
RunsOf(n, B, S) == {x \in S \cup {0} : x \in B /\ NextKept(n, S, x) \in B}

LEMMA FiniteRuns ==
    ASSUME NEW n \in Nat, NEW S \in SUBSET (1..n), NEW B
    PROVE  IsFiniteSet(RunsOf(n, B, S))
  <1>1. RunsOf(n, B, S) \subseteq 0..n
    BY LinesOf DEF RunsOf
  <1>2. IsFiniteSet(0..n)
    BY FS_Interval
  <1> QED
    BY <1>1, <1>2, FS_Subset

(* Lines that keep their follower keep their run.                          *)
LEMMA SameRun ==
    ASSUME NEW n \in Nat, NEW S \in SUBSET (1..n), NEW T \in SUBSET S, NEW B,
           NEW x \in T \cup {0}, NextKept(n, S, x) \notin S \ T
    PROVE  x \in RunsOf(n, B, T) <=> x \in RunsOf(n, B, S)
  <1>1. x \in 0..n /\ x \in S \cup {0}
    BY LinesOf
  <1>2. NextKept(n, T, x) = NextKept(n, S, x)
    BY <1>1, SameNext
  <1> QED
    BY <1>1, <1>2 DEF RunsOf

(* A line outside B that does not stand between two lines of B.            *)
LEMMA DropAlone ==
    ASSUME NEW n \in Nat, NEW S \in SUBSET (1..n), NEW i \in S, NEW B, i \notin B,
           ~(PreviousKept(S, i) \in B /\ NextKept(n, S, i) \in B)
    PROVE  RunsOf(n, B, S \ {i}) = RunsOf(n, B, S)
  <1> DEFINE p == PreviousKept(S, i)
             q == NextKept(n, S, i)
             T == S \ {i}
  <1>1. /\ p \in {0} \cup S /\ p < i /\ p \in 0..n /\ \A k \in S : k < i => k <= p
        /\ NextKept(n, S, p) = i /\ \A x \in S \cup {0} : NextKept(n, S, x) = i => x = p
    BY FollowsPrevious
  <1>2. i \in 0..n /\ i \in Int /\ p \in Int /\ 1 <= i
    BY <1>1, LinesOf
  <1>3. q \in S \cup {n + 1} /\ q > i /\ \A k \in S : k > i => q <= k
    BY <1>2, NextIs
  <1> HIDE DEF q, p
  <1>4. NextKept(n, T, p) = q
    <2>0. q \in Int
      BY <1>3, LinesOf
    <2>1. q \in T \cup {n + 1} /\ q > p
      BY <2>0, <1>1, <1>2, <1>3
    <2>2. \A k \in T : k > p => k > i
      BY <1>1, <1>2, LinesOf
    <2>3. \A k \in T : k > p => q <= k
      BY <2>2, <1>3
    <2> HIDE DEF T
    <2>4. T \in SUBSET (1..n)
      BY DEF T
    <2> QED
      BY <2>1, <2>3, <2>4, <1>1, NextBy
  <1>5. \A x \in T \cup {0} : x # p => (x \in RunsOf(n, B, T) <=> x \in RunsOf(n, B, S))
    <2> TAKE x \in T \cup {0}
    <2> HAVE x # p
    <2>1. NextKept(n, S, x) \notin S \ T
      BY <1>1
    <2> HIDE DEF T
    <2>2. T \in SUBSET S
      BY DEF T
    <2> QED
      BY <2>1, <2>2, SameRun
  <1>6. p \notin RunsOf(n, B, S) /\ i \notin RunsOf(n, B, S)
    BY <1>1 DEF RunsOf
  <1>7. p \notin RunsOf(n, B, T)
    BY <1>4 DEF RunsOf, p, q
  <1>8. \A x \in RunsOf(n, B, S) : x \in T \cup {0}
    BY <1>6 DEF RunsOf
  <1>9. \A x \in RunsOf(n, B, T) : x \in T \cup {0}
    BY DEF RunsOf
  <1> HIDE DEF T
  <1>10. RunsOf(n, B, T) = RunsOf(n, B, S)
    BY <1>5, <1>6, <1>7, <1>8, <1>9
  <1> QED
    BY <1>10 DEF T

(* Of two lines that follow each other, only the line before them feels it *)
(* when both are dropped: it is followed by what followed them.            *)
LEMMA DropTwo ==
    ASSUME NEW n \in Nat, NEW S \in SUBSET (1..n), NEW u \in S, NEW v \in S,
           NextKept(n, S, u) = v, NEW B
    PROVE  LET T == S \ {u, v}
               w == PreviousKept(S, u)
           IN /\ w \in T \cup {0} /\ NextKept(n, T, w) = NextKept(n, S, v)
              /\ \A x \in T \cup {0} :
                   x # w => (x \in RunsOf(n, B, T) <=> x \in RunsOf(n, B, S))
  <1> DEFINE w == PreviousKept(S, u)
             z == NextKept(n, S, v)
             T == S \ {u, v}
  <1>1. /\ w \in {0} \cup S /\ w < u /\ w \in 0..n /\ \A k \in S : k < u => k <= w
        /\ NextKept(n, S, w) = u /\ \A x \in S \cup {0} : NextKept(n, S, x) = u => x = w
    BY FollowsPrevious
  <1>2. /\ u \in 0..n /\ u \in Int /\ v \in 0..n /\ v \in Int /\ w \in Int /\ 1 <= u /\ 1 <= v
        /\ \A k \in S : k \in Int
    BY <1>1, LinesOf
  <1>3. z \in S \cup {n + 1} /\ z > v /\ \A k \in S : k > v => z <= k
    BY <1>2, NextIs
  <1>4. v > u /\ \A k \in S : k > u => v <= k
    BY <1>2, NextIs
  <1>5. \A x \in S \cup {0} : NextKept(n, S, x) = v => x = u
    <2>1. u = PreviousKept(S, v)
      BY FollowsPrevious
    <2> QED
      BY <2>1, FollowsPrevious
  <1>50. z \in Int
    BY <1>3, LinesOf
  <1>60. T \in SUBSET S /\ T \in SUBSET (1..n) /\ S \ T = {u, v}
    OBVIOUS
  <1> HIDE DEF w, z
  <1>6. w \in T \cup {0}
    BY <1>1, <1>2, <1>4
  <1>7. NextKept(n, T, w) = z
    <2>1. z \in T \cup {n + 1} /\ z > w
      BY <1>1, <1>2, <1>3, <1>4, <1>50
    <2>2. \A k \in T : k > w => k > v
      BY <1>1, <1>2, <1>4
    <2>3. \A k \in T : k > w => z <= k
      BY <2>2, <1>3
    <2> HIDE DEF T
    <2> QED
      BY <2>1, <2>3, <1>60, <1>1, NextBy
  <1>8. \A x \in T \cup {0} : x # w => (x \in RunsOf(n, B, T) <=> x \in RunsOf(n, B, S))
    <2> TAKE x \in T \cup {0}
    <2> HAVE x # w
    <2>1. NextKept(n, S, x) \notin S \ T
      BY <1>1, <1>2, <1>5
    <2> HIDE DEF T
    <2> QED
      BY <2>1, <1>60, SameRun
  <1> QED
    BY <1>6, <1>7, <1>8 DEF w, z

(* The blank between a vacant line and a blank before it: the run at the   *)
(* line before becomes one with that line's, if there is one.              *)
LEMMA DropWithPrevious ==
    ASSUME NEW n \in Nat, NEW S \in SUBSET (1..n), NEW i \in S, NEW B, i \notin B,
           PreviousKept(S, i) \in S \cap B, NextKept(n, S, i) \in B
    PROVE  RunsOf(n, B, S \ {i, PreviousKept(S, i)}) = RunsOf(n, B, S)
  <1> DEFINE p == PreviousKept(S, i)
             o == PreviousKept(S, p)
             T == S \ {p, i}
  <1>1. NextKept(n, S, p) = i /\ p \in S
    BY FollowsPrevious
  <1> HIDE DEF p
  <1>2. NextKept(n, S, o) = p /\ o \in S \cup {0}
    BY <1>1, FollowsPrevious
  <1>3. /\ o \in T \cup {0} /\ NextKept(n, T, o) = NextKept(n, S, i)
        /\ \A x \in T \cup {0} : x # o => (x \in RunsOf(n, B, T) <=> x \in RunsOf(n, B, S))
    BY <1>1, DropTwo
  <1>4. o \in RunsOf(n, B, T) <=> o \in RunsOf(n, B, S)
    BY <1>2, <1>3 DEF RunsOf, p
  <1>5. p \notin RunsOf(n, B, S) /\ i \notin RunsOf(n, B, S)
    BY <1>1 DEF RunsOf
  <1>6. \A x \in RunsOf(n, B, S) : x \in T \cup {0}
    BY <1>5 DEF RunsOf
  <1>7. \A x \in RunsOf(n, B, T) : x \in T \cup {0}
    BY DEF RunsOf
  <1>8. RunsOf(n, B, T) = RunsOf(n, B, S)
    <2> HIDE DEF T, o
    <2> QED
      BY <1>3, <1>4, <1>6, <1>7
  <1>9. T = S \ {i, p}
    OBVIOUS
  <1> QED
    BY <1>8, <1>9 DEF p

(* A vacant line between two blanks and the blank after it: what follows   *)
(* that blank now follows the one before.                                  *)
LEMMA DropWithNext ==
    ASSUME NEW n \in Nat, NEW S \in SUBSET (1..n), NEW i \in S, NEW B, i \notin B,
           PreviousKept(S, i) \in B, NextKept(n, S, i) \in S \cap B
    PROVE  Cardinality(RunsOf(n, B, S \ {i, NextKept(n, S, i)})) = Cardinality(RunsOf(n, B, S))
  <1> DEFINE p == PreviousKept(S, i)
             q == NextKept(n, S, i)
             T == S \ {i, q}
             R == RunsOf(n, B, S) \ {q}
  <1>1. NextKept(n, S, p) = i /\ p \in S \cup {0}
    BY FollowsPrevious
  <1>2. /\ p \in T \cup {0} /\ NextKept(n, T, p) = NextKept(n, S, q)
        /\ \A x \in T \cup {0} : x # p => (x \in RunsOf(n, B, T) <=> x \in RunsOf(n, B, S))
    BY DropTwo
  <1>3. p \in RunsOf(n, B, T) <=> q \in RunsOf(n, B, S)
    BY <1>1, <1>2 DEF RunsOf
  <1>4. p \notin RunsOf(n, B, S) /\ i \notin RunsOf(n, B, S)
    BY <1>1 DEF RunsOf
  <1>40. q # 0 /\ i # 0
    BY LinesOf
  <1>5. \A x \in RunsOf(n, B, S) : x = q \/ x \in T \cup {0}
    BY <1>4 DEF RunsOf
  <1>6. \A x \in RunsOf(n, B, T) : x \in T \cup {0}
    BY DEF RunsOf
  <1>7. q \notin T \cup {0}
    BY <1>40
  <1>8. IsFiniteSet(RunsOf(n, B, S))
    BY FiniteRuns
  <1> HIDE DEF p, q, T
  <1>9. CASE q \in RunsOf(n, B, S)
    <2>1. IsFiniteSet(R) /\ Cardinality(R) = Cardinality(RunsOf(n, B, S)) - 1
      BY <1>8, <1>9, FS_RemoveElement
    <2>2. RunsOf(n, B, T) = R \cup {p}
      BY <1>2, <1>3, <1>4, <1>5, <1>6, <1>7, <1>9
    <2>3. p \notin R
      BY <1>4
    <2>4. Cardinality(R \cup {p}) = Cardinality(R) + 1
      <3> HIDE DEF R
      <3> QED
        BY <2>1, <2>3, FS_AddElement
    <2>5. Cardinality(RunsOf(n, B, S)) \in Nat
      BY <1>8, FS_CardinalityType
    <2>6. Cardinality(RunsOf(n, B, T)) = Cardinality(RunsOf(n, B, S))
      BY <2>1, <2>2, <2>4, <2>5
    <2> QED
      BY <2>6 DEF T, q
  <1>10. CASE q \notin RunsOf(n, B, S)
    <2>1. RunsOf(n, B, T) = RunsOf(n, B, S)
      BY <1>2, <1>3, <1>4, <1>5, <1>6, <1>10
    <2> QED
      BY <2>1 DEF T, q
  <1> QED
    BY <1>9, <1>10

-----------------------------------------------------------------------------
(* One turn of the loop.                                                   *)
BlankPlaces(lines) == {i \in Nat : IsBlank(lines, i)}

LEMMA RunsAreRuns ==
    ASSUME NEW lines \in Seq(LineKind), NEW S \in SUBSET (1..Len(lines))
    PROVE  BlankRuns(lines, S) = RunsOf(Len(lines), BlankPlaces(lines), S)
  <1> DEFINE n == Len(lines)
  <1>1. n \in Nat
    OBVIOUS
  <1> HIDE DEF n
  <1>2. \A x \in S \cup {0} : x \in 0..n /\ x \in Nat
    BY <1>1 DEF n
  <1>3. \A x \in S \cup {0} : NextKept(n, S, x) \in Nat
    <2> TAKE x \in S \cup {0}
    <2>1. NextKept(n, S, x) \in S \cup {n + 1}
      BY <1>1, <1>2, NextIs DEF n
    <2>2. \A k \in S \cup {n + 1} : k \in Nat
      BY <1>1, <1>2
    <2> QED
      BY <2>1, <2>2
  <1>4. \A x \in S \cup {0} : (x \in BlankRuns(lines, S) <=> x \in RunsOf(n, BlankPlaces(lines), S))
    BY <1>2, <1>3 DEF BlankRuns, RunsOf, BlankPlaces, NextKept, n
  <1> QED
    BY <1>4 DEF n, BlankRuns, RunsOf

LEMMA DropMovesRuns ==
    ASSUME NEW lines \in Seq(LineKind), NEW S \in SUBSET (1..Len(lines)), NEW i \in S,
           lines[i] = "vacant", i..Len(lines) \subseteq S, DropLine(lines, S, i) # {}
    PROVE  Cardinality(BlankRuns(lines, DropLine(lines, S, i))) = Cardinality(BlankRuns(lines, S))
  <1> DEFINE n == Len(lines)
             p == PreviousKept(S, i)
             B == BlankPlaces(lines)
  <1>1. n \in Nat /\ i \in 1..n /\ DOMAIN lines = 1..n
    OBVIOUS
  <1>2. i \notin B
    BY <1>1 DEF BlankPlaces, IsBlank
  <1>3. p \in {0} \cup S /\ p < i /\ p \in 0..n /\ \A k \in S : k < i => k <= p
    BY <1>1, FollowsPrevious
  <1>4. i + 1 \in S \cup {n + 1} /\ i + 1 > i /\ \A k \in S : k > i => i + 1 <= k
    BY <1>1
  <1>40. i \in 0..n
    BY <1>1
  <1>5. NextKept(n, S, i) = i + 1
    <2> HIDE DEF n
    <2> QED
      BY <1>1, <1>40, <1>4, NextBy DEF n
  <1>6. p \in Nat /\ i + 1 \in Nat
    BY <1>1, <1>3
  <1>7. (p \in B <=> IsBlank(lines, p)) /\ (i + 1 \in B <=> IsBlank(lines, i + 1))
    BY <1>6 DEF BlankPlaces
  <1> HIDE DEF n, p, B
  <1>8. DropLine(lines, S, i) \in SUBSET (1..Len(lines))
    BY DEF DropLine
  <1>9. CASE ~(p \in B /\ i + 1 \in B)
    <2>1. DropLine(lines, S, i) = S \ {i}
      BY <1>7, <1>9 DEF DropLine, p
    <2>2. RunsOf(n, B, S \ {i}) = RunsOf(n, B, S)
      BY <1>1, <1>2, <1>5, <1>9, DropAlone DEF n, p
    <2>3. BlankRuns(lines, DropLine(lines, S, i)) = BlankRuns(lines, S)
      BY <2>1, <2>2, <1>8, RunsAreRuns DEF n, B
    <2> QED
      BY <2>3
  <1>10. CASE p \in B /\ i + 1 \in B /\ i < n
    <2>1. DropLine(lines, S, i) = S \ {i, i + 1}
      BY <1>7, <1>10 DEF DropLine, p, n
    <2>2. i + 1 \in S
      BY <1>1, <1>10 DEF n
    <2>3. Cardinality(RunsOf(n, B, S \ {i, i + 1})) = Cardinality(RunsOf(n, B, S))
      BY <2>2, <1>1, <1>2, <1>5, <1>10, DropWithNext DEF n, p
    <2> QED
      BY <2>1, <2>3, <1>8, RunsAreRuns DEF n, B
  <1>11. CASE p \in B /\ i + 1 \in B /\ ~(i < n)
    <2>1. DropLine(lines, S, i) = S \ {i, p}
      BY <1>7, <1>11 DEF DropLine, p, n
    <2>2. \A k \in S : k <= i /\ k \in Nat /\ k >= 1
      BY <1>1, <1>11 DEF n
    <2>3. p \in S
      <3>1. CASE p = 0
        <4>1. S \ {i} = {}
          BY <2>2, <3>1, <1>1, <1>3
        <4> QED
          BY <4>1, <2>1
      <3> QED
        BY <3>1, <1>3
    <2>4. RunsOf(n, B, S \ {i, p}) = RunsOf(n, B, S)
      BY <2>3, <1>1, <1>2, <1>5, <1>11, DropWithPrevious DEF n, p
    <2>5. BlankRuns(lines, DropLine(lines, S, i)) = BlankRuns(lines, S)
      BY <2>1, <2>4, <1>8, RunsAreRuns DEF n, B
    <2> QED
      BY <2>5
  <1> QED
    BY <1>9, <1>10, <1>11

Vacant(lines, k) == {j \in 1..k : lines[j] = "vacant"}

LEMMA DropTakesBlanks ==
    ASSUME NEW lines \in Seq(LineKind), NEW S \in SUBSET (1..Len(lines)), NEW i \in S
    PROVE  \E x : /\ DropLine(lines, S, i) = S \ {i, x}
                  /\ x = i \/ lines[x] = "blank" \/ x \notin S
                  /\ x <= i + 1
  <1> DEFINE p == PreviousKept(S, i)
  <1>1. Len(lines) \in Nat /\ i \in 1..Len(lines) /\ DOMAIN lines = 1..Len(lines)
    OBVIOUS
  <1>2. p \in {0} \cup S /\ p < i /\ p \in 0..Len(lines)
    BY <1>1, FollowsPrevious
  <1>3. CASE ~(IsBlank(lines, p) /\ IsBlank(lines, i + 1))
    <2>1. DropLine(lines, S, i) = S \ {i, i} /\ i <= i + 1
      BY <1>1, <1>3 DEF DropLine
    <2> QED
      BY <2>1
  <1>4. CASE IsBlank(lines, p) /\ IsBlank(lines, i + 1) /\ i < Len(lines)
    <2>1. DropLine(lines, S, i) = S \ {i, i + 1} /\ i + 1 <= i + 1 /\ lines[i + 1] = "blank"
      BY <1>1, <1>4 DEF DropLine, IsBlank
    <2> QED
      BY <2>1
  <1>5. CASE IsBlank(lines, p) /\ IsBlank(lines, i + 1) /\ ~(i < Len(lines))
    <2>1. DropLine(lines, S, i) = S \ {i, p} /\ p <= i + 1
      BY <1>1, <1>2, <1>5 DEF DropLine
    <2>2. lines[p] = "blank" \/ p \notin S
      BY <1>1, <1>5 DEF IsBlank
    <2> QED
      BY <2>1, <2>2
  <1> QED
    BY <1>3, <1>4, <1>5

(* Of two blank lines on both sides of a dropped line one stays, so what a  *)
(* blank line parted is still parted.                                      *)
LEMMA DropKeepsParted ==
    ASSUME NEW lines \in Seq(LineKind), NEW S \in SUBSET (1..Len(lines)), NEW i \in S,
           lines[i] = "vacant", NEW j \in DropLine(lines, S, i), NEW k \in DropLine(lines, S, i),
           lines[j] # "blank", lines[k] # "blank", Parted(lines, S, j, k)
    PROVE  Parted(lines, DropLine(lines, S, i), j, k)
  <1> DEFINE p == PreviousKept(S, i)
             n == Len(lines)
             T == DropLine(lines, S, i)
  <1>1. n \in Nat /\ i \in 1..n /\ DOMAIN lines = 1..n
    OBVIOUS
  <1>2. p \in {0} \cup S /\ p < i /\ p \in 0..n /\ \A x \in S : x < i => x <= p
    BY <1>1, FollowsPrevious
  <1>3. PICK b \in S : j < b /\ b < k /\ lines[b] = "blank"
    BY DEF Parted
  <1>4. j \in S \ {i} /\ k \in S \ {i} /\ b # i
    BY <1>3 DEF DropLine
  <1>5. \A x \in S : x \in Nat /\ 1 <= x /\ x <= n
    BY <1>1
  <1>6. CASE b \in T
    BY <1>3, <1>6 DEF Parted
  <1>7. CASE b \notin T /\ i < n
    <2>1. T = S \ {i, i + 1} /\ b = i + 1 /\ IsBlank(lines, p)
      BY <1>1, <1>3, <1>4, <1>7 DEF DropLine
    <2>2. j <= p /\ p # 0
      BY <1>2, <1>3, <1>4, <1>5, <2>1
    <2>3. p \in S /\ lines[p] = "blank" /\ p # j
      BY <1>1, <1>2, <2>1, <2>2 DEF IsBlank
    <2>4. p \in T /\ j < p /\ p < k
      BY <1>2, <1>3, <1>4, <1>5, <2>1, <2>2, <2>3
    <2> QED
      BY <2>3, <2>4 DEF Parted
  <1>8. CASE b \notin T /\ ~(i < n)
    <2>1. b = p
      BY <1>3, <1>4, <1>8 DEF DropLine
    <2>2. k < i
      BY <1>1, <1>4, <1>5, <1>8
    <2> QED
      BY <1>2, <1>3, <1>4, <1>5, <2>1, <2>2
  <1> QED
    BY <1>6, <1>7, <1>8

LEMMA OneMore ==
    ASSUME NEW D, IsFiniteSet(D), NEW x
    PROVE  /\ IsFiniteSet(D \cup {x}) /\ Cardinality(D \cup {x}) \in Nat /\ Cardinality(D) \in Nat
           /\ Cardinality(D \cup {x}) <= Cardinality(D) + 1
  <1>1. IsFiniteSet(D \cup {x})
    BY FS_AddElement
  <1>2. Cardinality(D \cup {x}) = IF x \in D THEN Cardinality(D) ELSE Cardinality(D) + 1
    BY FS_AddElement
  <1>3. Cardinality(D \cup {x}) \in Nat /\ Cardinality(D) \in Nat
    BY <1>1, FS_CardinalityType
  <1> QED
    BY <1>1, <1>2, <1>3

LEMMA CollapseTurn ==
    ASSUME NEW lines \in Seq(LineKind), NEW i \in 1..Len(lines), NEW S, CollapsedTo(lines, i - 1, S)
    PROVE  CollapsedTo(lines, i, IF lines[i] = "vacant" THEN DropLine(lines, S, i) ELSE S)
  <1> DEFINE n == Len(lines)
  <1>1. n \in Nat /\ i \in Int /\ 1 <= i /\ i <= n /\ S \in SUBSET (1..n)
    BY DEF CollapsedTo
  <1>2. IsFiniteSet(1..n) /\ IsFiniteSet(1..(i - 1))
    BY <1>1, FS_Interval
  <1>3. IsFiniteSet((1..n) \ S) /\ Cardinality((1..n) \ S) \in Nat
    BY <1>2, FS_Subset, FS_CardinalityType
  <1>4. IsFiniteSet(Vacant(lines, i - 1)) /\ Cardinality(Vacant(lines, i - 1)) \in Nat
    BY <1>2, FS_Subset, FS_CardinalityType DEF Vacant
  <1>5. CASE lines[i] # "vacant"
    <2>1. Vacant(lines, i) = Vacant(lines, i - 1)
      BY <1>1, <1>5 DEF Vacant
    <2>2. ASSUME NEW j \in (1..n) \ S
          PROVE  IF j <= i THEN lines[j] \in {"vacant", "blank"} ELSE j = i + 1 /\ lines[j] = "blank"
      <3>1. IF j <= i - 1 THEN lines[j] \in {"vacant", "blank"} ELSE j = i /\ lines[j] = "blank"
        BY <1>1 DEF CollapsedTo
      <3> QED
        BY <3>1, <1>1
    <2>3. ASSUME NEW j \in S, j <= i PROVE lines[j] # "vacant"
      <3>1. j = i \/ j <= i - 1
        BY <2>3, <1>1
      <3> QED
        BY <3>1, <1>5 DEF CollapsedTo
    <2>4. Cardinality((1..n) \ S) <= 2 * Cardinality(Vacant(lines, i))
      BY <2>1 DEF CollapsedTo, Vacant
    <2>5. CollapsedTo(lines, i, S)
      BY <2>2, <2>3, <2>4, Zenon DEF CollapsedTo, Vacant
    <2> QED
      BY <2>5, <1>5
  <1>6. CASE lines[i] = "vacant"
    <2> DEFINE T == DropLine(lines, S, i)
    <2>1. \A j \in i..n : j \in S
      BY <1>1, <1>6 DEF CollapsedTo
    <2>2. i \in S /\ i..n \subseteq S
      BY <2>1, <1>1
    <2>3. PICK x : /\ T = S \ {i, x} /\ (x = i \/ lines[x] = "blank" \/ x \notin S)
                   /\ x <= i + 1
      BY <2>2, <1>1, DropTakesBlanks
    <2> HIDE DEF T
    <2>4. T \subseteq 1..n
      BY <2>3, <1>1
    <2>5. ASSUME NEW j \in (1..n) \ T
          PROVE  IF j <= i THEN lines[j] \in {"vacant", "blank"} ELSE j = i + 1 /\ lines[j] = "blank"
      <3>1. CASE j \in S
        <4>1. j = i \/ (j = x /\ lines[j] = "blank")
          BY <3>1, <2>3
        <4> QED
          BY <4>1, <2>3, <1>1, <1>6
      <3>2. CASE j \notin S
        <4>1. ~(j \in i..n)
          BY <3>2, <2>1
        <4>2. j <= i - 1
          BY <4>1, <1>1
        <4> QED
          BY <3>2, <4>2, <1>1 DEF CollapsedTo
      <3> QED
        BY <3>1, <3>2
    <2>6. ASSUME NEW j \in T, j <= i PROVE lines[j] # "vacant"
      <3>1. j \in S /\ j # i
        BY <2>3
      <3>2. j <= i - 1
        BY <3>1, <2>6, <1>1
      <3> QED
        BY <3>1, <3>2 DEF CollapsedTo
    <2>7. Cardinality((1..n) \ T) <= 2 * Cardinality(Vacant(lines, i))
      <3> DEFINE D == (1..n) \ S
                 V == Vacant(lines, i - 1)
      <3>1. Vacant(lines, i) = V \cup {i} /\ i \notin V
        BY <1>1, <1>6 DEF Vacant
      <3>2. (1..n) \ T \in SUBSET ((D \cup {i}) \cup {x})
        BY <2>3
      <3>3. Cardinality(D) <= 2 * Cardinality(V)
        BY DEF CollapsedTo, Vacant
      <3> HIDE DEF D, V
      <3>4. Cardinality(V \cup {i}) = Cardinality(V) + 1
        BY <3>1, <1>4, FS_AddElement DEF V
      <3>5. IsFiniteSet(D \cup {i}) /\ Cardinality(D \cup {i}) <= Cardinality(D) + 1
            /\ Cardinality(D \cup {i}) \in Nat /\ Cardinality(D) \in Nat
        BY <1>3, OneMore DEF D
      <3>6. IsFiniteSet((D \cup {i}) \cup {x}) 
            /\ Cardinality((D \cup {i}) \cup {x}) <= Cardinality(D \cup {i}) + 1
            /\ Cardinality((D \cup {i}) \cup {x}) \in Nat
        BY <3>5, OneMore
      <3>7. Cardinality((1..n) \ T) <= Cardinality((D \cup {i}) \cup {x})
            /\ Cardinality((1..n) \ T) \in Nat
        BY <3>2, <3>6, FS_Subset, FS_CardinalityType
      <3>8. Cardinality(V) \in Nat
        BY <1>4 DEF V
      <3> QED
        BY <3>1, <3>3, <3>4, <3>5, <3>6, <3>7, <3>8
    <2>8. ASSUME T # {}
          PROVE  Cardinality(BlankRuns(lines, T)) = Cardinality(BlankRuns(lines, 1..n))
      <3>1. S # {}
        BY <2>8, <2>3
      <3>2. Cardinality(BlankRuns(lines, S)) = Cardinality(BlankRuns(lines, 1..n))
        BY <3>1 DEF CollapsedTo
      <3>3. Cardinality(BlankRuns(lines, T)) = Cardinality(BlankRuns(lines, S))
        BY <2>8, <2>2, <1>1, <1>6, DropMovesRuns DEF T
      <3> QED
        BY <3>2, <3>3
    <2>9. ASSUME NEW a \in T, NEW b \in T, lines[a] # "blank", lines[b] # "blank",
                 Parted(lines, 1..n, a, b)
          PROVE  Parted(lines, T, a, b)
      <3>1. a \in S /\ b \in S
        BY <2>3
      <3>2. Parted(lines, S, a, b)
        BY <2>9, <3>1 DEF CollapsedTo
      <3> QED
        BY <2>9, <3>2, <2>2, <1>1, <1>6, DropKeepsParted DEF T
    <2>10. CollapsedTo(lines, i, T)
      BY <2>4, <2>5, <2>6, <2>7, <2>8, <2>9, Zenon DEF CollapsedTo, Vacant
    <2> QED
      BY <2>10, <1>6 DEF T
  <1> QED
    BY <1>5, <1>6

-----------------------------------------------------------------------------
(* The whole loop.  Its turns are a function on the lines: there is one, by *)
(* the least line up to which there is none.                               *)
Turn(lines, f, i) ==
    IF i = 0 THEN DOMAIN lines
    ELSE IF lines[i] = "vacant" THEN DropLine(lines, f[i - 1], i) ELSE f[i - 1]

LEMMA TurnsExist ==
    ASSUME NEW lines \in Seq(LineKind)
    PROVE  \E f : f = [i \in 0..Len(lines) |-> Turn(lines, f, i)]
  <1> DEFINE Upto(k) == \E f : f = [i \in 0..k |-> Turn(lines, f, i)]
             Missing == {k \in Nat : ~Upto(k)}
  <1>1. Len(lines) \in Nat
    OBVIOUS
  <1>2. SUFFICES ASSUME Missing # {} PROVE FALSE
    BY <1>1
  <1>3. PICK k \in Missing : \A m \in Missing : k <= m
    <2> HIDE DEF Missing
    <2>1. Missing \in SUBSET Nat
      BY DEF Missing
    <2> QED
      BY <2>1, <1>2, LeastOf
  <1>4. k \in Nat /\ ~Upto(k)
    BY <1>3
  <1>5. CASE k = 0
    <2> DEFINE f == [i \in 0..0 |-> DOMAIN lines]
    <2>1. f = [i \in 0..0 |-> Turn(lines, f, i)]
      BY DEF Turn
    <2> QED
      BY <2>1, <1>4, <1>5
  <1>6. CASE k # 0
    <2>1. k - 1 \in Nat /\ k - 1 \notin Missing
      BY <1>3, <1>4, <1>6
    <2>2. PICK f : f = [i \in 0..(k - 1) |-> Turn(lines, f, i)]
      BY <2>1
    <2> DEFINE g == [i \in 0..k |-> IF i = k THEN Turn(lines, f, k) ELSE f[i]]
    <2>3. \A i \in 0..(k - 1) : f[i] = Turn(lines, f, i)
      BY <2>2
    <2>4. \A i \in 0..k : g[i] = IF i = k THEN Turn(lines, f, k) ELSE Turn(lines, f, i)
      BY <2>3, <1>4
    <2>5. \A i \in 0..k : i # 0 => g[i - 1] = f[i - 1]
      BY <1>4
    <2>6. \A i \in 0..k : g[i] = Turn(lines, g, i)
      <3> HIDE DEF g
      <3> QED
        BY <2>4, <2>5 DEF Turn
    <2>7. g = [i \in 0..k |-> Turn(lines, g, i)]
      <3>1. g = [i \in 0..k |-> g[i]]
        OBVIOUS
      <3> HIDE DEF g
      <3> QED
        BY <2>6, <3>1
    <2> QED
      BY <2>7, <1>4
  <1> QED
    BY <1>5, <1>6

LEMMA KeptIsCollapsed ==
    ASSUME NEW lines \in Seq(LineKind)
    PROVE  CollapsedTo(lines, Len(lines), Kept(lines))
  <1> DEFINE after == CHOOSE f : f = [i \in 0..Len(lines) |-> Turn(lines, f, i)]
             n == Len(lines)
             Wrong == {k \in 0..n : ~CollapsedTo(lines, k, after[k])}
  <1>1. n \in Nat
    OBVIOUS
  <1>2. after = [i \in 0..n |-> Turn(lines, after, i)]
    BY TurnsExist
  <1>3. Kept(lines) = after[n]
    BY DEF Kept, Turn
  <1> HIDE DEF after
  <1>4. \A i \in 0..n : after[i] = Turn(lines, after, i)
    BY <1>2
  <1>5. CollapsedTo(lines, 0, after[0])
    <2>1. after[0] = 1..n
      BY <1>1, <1>4 DEF Turn
    <2>2. (1..n) \ (1..n) = {} /\ Vacant(lines, 0) = {} /\ \A j \in 1..n : ~(j <= 0)
      BY DEF Vacant
    <2>3. Cardinality({}) = 0
      BY FS_EmptySet
    <2>4. Cardinality((1..n) \ (1..n)) <= 2 * Cardinality(Vacant(lines, 0))
      <3>1. Cardinality((1..n) \ (1..n)) = 0 /\ Cardinality(Vacant(lines, 0)) = 0
        BY <2>2, <2>3, Zenon
      <3> QED
        BY <3>1
    <2>5. CollapsedTo(lines, 0, 1..n)
      BY <2>2, <2>4, Zenon DEF CollapsedTo, Vacant
    <2> QED
      BY <2>1, <2>5
  <1>6. Wrong = {}
    <2> SUFFICES ASSUME Wrong # {} PROVE FALSE
      OBVIOUS
    <2>1. PICK k \in Wrong : \A m \in Wrong : k <= m
      <3> HIDE DEF Wrong
      <3>1. Wrong \in SUBSET Nat
        BY <1>1 DEF Wrong
      <3> QED
        BY <3>1, LeastOf
    <2>2. k \in 1..n
      BY <2>1, <1>1, <1>5
    <2>3. k - 1 \in 0..n /\ k - 1 \notin Wrong
      BY <2>1, <2>2, <1>1
    <2>4. CollapsedTo(lines, k - 1, after[k - 1])
      BY <2>3
    <2>5. after[k] = IF lines[k] = "vacant" THEN DropLine(lines, after[k - 1], k) ELSE after[k - 1]
      BY <2>2, <1>4 DEF Turn
    <2>6. CollapsedTo(lines, k, after[k])
      BY <2>2, <2>4, <2>5, CollapseTurn
    <2> QED
      BY <2>1, <2>6
  <1> QED
    BY <1>1, <1>3, <1>6

PageInv == page.lines \in Seq(LineKind) /\ (page.rendered => page.kept = Kept(page.lines))

LEMMA InitPage == TemplateInit => PageInv
  BY DEF TemplateInit, PageInv

LEMMA NextPage == PageInv /\ [TemplateNext]_templateVars => PageInv'
  <1> SUFFICES ASSUME PageInv, [TemplateNext]_templateVars PROVE PageInv'
    OBVIOUS
  <1>1. CASE WriteLine
    BY <1>1 DEF WriteLine, PageInv
  <1>2. CASE RenderPage
    BY <1>2 DEF RenderPage, PageInv
  <1>3. CASE UNCHANGED templateVars
    BY <1>3 DEF templateVars, PageInv
  <1> QED
    BY <1>1, <1>2, <1>3 DEF TemplateNext

LEMMA PageIsClean == PageInv => CollapseIsClean
  <1> SUFFICES ASSUME PageInv, page.rendered PROVE CollapseIsClean
    BY DEF CollapseIsClean
  <1> DEFINE lines == page.lines
             vacant == {i \in DOMAIN lines : lines[i] = "vacant"}
  <1>1. lines \in Seq(LineKind) /\ CollapsedTo(lines, Len(lines), page.kept)
    BY KeptIsCollapsed DEF PageInv
  <1>2. DOMAIN lines = 1..Len(lines) /\ Len(lines) \in Nat
    BY <1>1
  <1>3. vacant = Vacant(lines, Len(lines))
    BY <1>2 DEF Vacant
  <1>4. \A i \in vacant : i \notin page.kept
    BY <1>1, <1>2 DEF CollapsedTo
  <1>5. \A i \in (DOMAIN lines \ page.kept) \ vacant : lines[i] = "blank"
    BY <1>1, <1>2 DEF CollapsedTo
  <1>6. Cardinality(DOMAIN lines \ page.kept) <= 2 * Cardinality(vacant)
    BY <1>1, <1>2, <1>3 DEF CollapsedTo, Vacant
  <1>7. page.kept # {} =>
          Cardinality(BlankRuns(lines, page.kept)) = Cardinality(BlankRuns(lines, DOMAIN lines))
    BY <1>1, <1>2 DEF CollapsedTo
  <1>8. \A j, k \in page.kept :
          lines[j] # "blank" /\ lines[k] # "blank" /\ Parted(lines, DOMAIN lines, j, k) =>
              Parted(lines, page.kept, j, k)
    BY <1>1, <1>2 DEF CollapsedTo
  <1> QED
    BY <1>4, <1>5, <1>6, <1>7, <1>8 DEF CollapseIsClean

(* Whatever the template: rendering has exactly as many runs of blank lines *)
(* as the template, unless nothing is left, and parts the lines it parted. *)
THEOREM CollapseStaysClean == TemplateSpec => []CollapseIsClean
  BY InitPage, NextPage, PageIsClean, PTL DEF TemplateSpec
=============================================================================
