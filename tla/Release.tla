------------------------------ MODULE Release ------------------------------
(***************************************************************************)
(* The two checks around an npm release: release-preflight.py before the   *)
(* tag and the publication, verify-published-package.py after it.  Both    *)
(* only read, one command after another, while the operator, other users   *)
(* and the release workflow change what they read: the tarball, the tag    *)
(* here and on the remote, and the registry, where one version of the      *)
(* package can be published once and never changes.                        *)
(*                                                                         *)
(* A tarball is the commit it was built from.  A tag object is its kind    *)
(* and target: "light" is not annotated, "annotated" is, but not signed by *)
(* the approved key, "signed" is both.  A provenance bundle is the tarball *)
(* and commit it binds and whether the rest of it (source repository,      *)
(* workflow, tag, builder, certificate) is this release's.                 *)
(***************************************************************************)
EXTENDS Integers, FiniteSets

CONSTANTS Commit, MaxReleaseMoves   \* bound: changes by others

ASSUME ReleaseAssumption == Commit # {} /\ 0 \notin Commit

VARIABLES tarball,    \* the build-once artifact
          localTag, remoteTag,
          registry,   \* the published version: its tarball and provenance bundles
          checker,    \* the running check and what it has read
          preflight,  \* the tag that a publish preflight last found in order
          report,     \* the report of the last verification that passed
          replaced,   \* the tag objects that a forced push took from the remote
          releaseMoves

releaseVars == <<tarball, localTag, remoteTag, registry, checker,
                 preflight, report, replaced, releaseMoves>>

NoTag == [kind |-> "none", target |-> 0]
Tags == [kind : {"light", "annotated", "signed"}, target : Commit]
Bundle == [tarball : Commit, commit : Commit, ours : BOOLEAN]
Unpublished == [tarball |-> 0, bundles |-> {}]
NoCheck == [step |-> "none", phase |-> "none", commit |-> 0, tarball |-> 0,
            tag |-> NoTag, provenance |-> "none", retagged |-> FALSE]
Phases == {"prepare", "tag", "publish"}
Outside == <<tarball, localTag, remoteTag, registry, replaced, releaseMoves>>

ReleaseInit ==
    /\ tarball = (CHOOSE c \in Commit : TRUE)
    /\ localTag = NoTag /\ remoteTag = NoTag /\ registry = Unpublished
    /\ checker = NoCheck /\ preflight = NoTag /\ report = NoCheck
    /\ replaced = {} /\ releaseMoves = 0

At(s) == checker.step = s
Refuse == checker' = NoCheck /\ UNCHANGED <<preflight, report>>

(* A command of the check: it goes on with what it read, or refuses.       *)
GoOn(fits, next) ==
    /\ IF fits THEN checker' = next /\ UNCHANGED <<preflight, report>> ELSE Refuse
    /\ UNCHANGED Outside

-----------------------------------------------------------------------------
(* release-preflight.py, which reads the head of a clean checkout once.    *)
BeginPreflight(phase, commit) ==
    /\ At("none")
    /\ checker' = [NoCheck EXCEPT !.step = "local", !.phase = phase, !.commit = commit]
    /\ UNCHANGED <<Outside, preflight, report>>

(* The tag is new, here and on the remote, in "prepare"; later it is here. *)
FindLocalTag ==
    /\ At("local")
    /\ GoOn((localTag = NoTag) = (checker.phase = "prepare"), [checker EXCEPT !.step = "remote"])

ReadRemoteTag ==
    /\ At("remote")
    /\ IF checker.phase = "prepare" THEN GoOn(remoteTag = NoTag, [checker EXCEPT !.step = "absent"])
       ELSE GoOn(TRUE, [checker EXCEPT !.step = "type", !.tag = remoteTag])

CheckAbsent ==
    /\ At("absent") /\ GoOn(registry = Unpublished, [checker EXCEPT !.step = "digest"])

ReportPreflight ==
    /\ At("digest")
    /\ preflight' = IF checker.phase = "publish" THEN checker.tag ELSE preflight
    /\ checker' = NoCheck /\ UNCHANGED <<Outside, report>>

-----------------------------------------------------------------------------
(* Both checks ask git for the tag's type, signer, target and object, in   *)
(* this order, each time by the tag's name.                                *)
Signed(tag, commit) == tag.kind = "signed" /\ tag.target = commit

ReadTagType ==
    /\ At("type")
    /\ GoOn(localTag.kind \in {"annotated", "signed"}, [checker EXCEPT !.step = "signer"])

VerifyTagSigner ==
    /\ At("signer") /\ GoOn(localTag.kind = "signed", [checker EXCEPT !.step = "target"])

ReadTagTarget ==
    /\ At("target") /\ GoOn(localTag.target = checker.commit, [checker EXCEPT !.step = "object"])

(* The preflight has read the remote: in "tag" it has none yet, in         *)
(* "publish" this object.  The verification reads the remote next.         *)
ObjectFits(phase, seen) ==
    CASE phase = "tag"     -> seen = NoTag
      [] phase = "publish" -> seen = localTag
      [] OTHER             -> TRUE

ReadTagObject ==
    /\ At("object")
    /\ GoOn(ObjectFits(checker.phase, checker.tag),
            [checker EXCEPT !.step = IF checker.phase = "none" THEN "match" ELSE "absent",
                            !.tag = localTag])

-----------------------------------------------------------------------------
(* verify-published-package.py, for the commit and provenance it is given. *)
BeginVerify(commit, provenance) ==
    /\ At("none")
    /\ checker' = [NoCheck EXCEPT !.step = "registry", !.commit = commit,
                                  !.tarball = tarball, !.provenance = provenance]
    /\ UNCHANGED <<Outside, preflight, report>>

(* npm view and the download: published, signed, and the same bytes.       *)
CompareRegistry ==
    /\ At("registry")
    /\ GoOn(registry.tarball = checker.tarball, [checker EXCEPT !.step = "audit"])

Binds_AnyCommit(b, c) == b.ours /\ b.tarball = c.tarball           \* mutant

(* verify_slsa: one bundle must bind all of the release; with provenance   *)
(* "unavailable" the registry must have none.                              *)
Binds(b, c) == b.ours /\ b.tarball = c.tarball /\ b.commit = c.commit
ProvenanceFits(c) ==
    IF c.provenance = "required" THEN \E b \in registry.bundles : Binds(b, c)
    ELSE registry.bundles = {}

Audit == At("audit") /\ GoOn(ProvenanceFits(checker), [checker EXCEPT !.step = "type"])

(* verify_release_tag ends with the remote's object.                       *)
RemoteMatches(seen) == remoteTag = seen

ReportVerified ==
    /\ At("match")
    /\ report' = IF RemoteMatches(checker.tag) THEN [checker EXCEPT !.step = "passed"] ELSE report
    /\ checker' = NoCheck /\ UNCHANGED <<Outside, preflight>>

CheckerStep ==
    \/ \E p \in Phases, c \in Commit : BeginPreflight(p, c)
    \/ FindLocalTag \/ ReadRemoteTag \/ CheckAbsent \/ ReportPreflight
    \/ ReadTagType \/ VerifyTagSigner \/ ReadTagTarget \/ ReadTagObject
    \/ \E c \in Commit, p \in {"required", "unavailable"} : BeginVerify(c, p)
    \/ CompareRegistry \/ Audit \/ ReportVerified

-----------------------------------------------------------------------------
(* The others, at any moment.                                              *)
Meanwhile == releaseMoves < MaxReleaseMoves /\ releaseMoves' = releaseMoves + 1
             /\ UNCHANGED <<preflight, report>>

(* Someone checks out another commit and builds it.                        *)
Build == /\ Meanwhile /\ tarball' \in Commit \ {tarball}
         /\ UNCHANGED <<localTag, remoteTag, registry, checker, replaced>>

(* A check that has read the tag's signer, but not its object, is noted.   *)
TagHere == /\ Meanwhile /\ localTag' \in Tags \ {localTag}
           /\ checker' = IF checker.step \in {"target", "object"}
                         THEN [checker EXCEPT !.retagged = TRUE] ELSE checker
           /\ UNCHANGED <<tarball, remoteTag, registry, replaced>>

(* A push that is not forced only creates the tag.                         *)
PushTag == /\ Meanwhile /\ localTag \notin {NoTag, remoteTag} /\ remoteTag' = localTag
           /\ replaced' = replaced \cup ({remoteTag} \ {NoTag})
           /\ UNCHANGED <<tarball, localTag, registry, checker>>

(* The workflow publishes what it builds from the tagged commit, and its   *)
(* provenance says so; or someone publishes the tarball by hand.  Either   *)
(* way there can be provenance of other workflows, for any commits.        *)
Others(t, S) == {[tarball |-> t, commit |-> c, ours |-> FALSE] : c \in S}
OfWorkflow(t) == [tarball |-> t, commit |-> t, ours |-> TRUE]

Publish ==
    /\ Meanwhile /\ registry = Unpublished
    /\ \E S \in SUBSET Commit :
         \/ /\ remoteTag # NoTag
            /\ registry' = [tarball |-> remoteTag.target, bundles |->
                              {OfWorkflow(remoteTag.target)} \cup Others(remoteTag.target, S)]
         \/ registry' = [tarball |-> tarball, bundles |-> Others(tarball, S)]
    /\ UNCHANGED <<tarball, localTag, remoteTag, checker, replaced>>

ReleaseNext == CheckerStep \/ Build \/ TagHere \/ PushTag \/ Publish

ReleaseSpec == ReleaseInit /\ [][ReleaseNext]_releaseVars

-----------------------------------------------------------------------------
CheckType == [step : {"none", "local", "remote", "type", "signer", "target", "object",
                      "absent", "digest", "registry", "audit", "match", "passed"},
              phase : Phases \cup {"none"}, commit : Commit \cup {0}, tarball : Commit \cup {0},
              tag : Tags \cup {NoTag}, provenance : {"none", "required", "unavailable"},
              retagged : BOOLEAN]

ReleaseTypeOK ==
    /\ tarball \in Commit
    /\ {localTag, remoteTag} \subseteq Tags \cup {NoTag} /\ replaced \subseteq Tags
    /\ registry.tarball \in Commit \cup {0} /\ registry.bundles \subseteq Bundle
    /\ checker \in CheckType /\ preflight \in Tags \cup {NoTag} /\ report \in CheckType

(* What a verification that passed has reported stays true, with tags that *)
(* move, a rebuilt tarball and a publication between any two commands: the *)
(* registry has, to the byte, the tarball; with provenance, what was built *)
(* from the commit, and without it, none that another reading would find;  *)
(* the reported tag object is one the remote had; so is the object that a  *)
(* publish preflight matched, and the two differ only if a forced push     *)
(* took the preflight's from the remote.  The reported object is signed    *)
(* and at the commit, with one exception: verify_release_tag asks for      *)
(* signer, target and object one by one by the tag's name and reports the  *)
(* object it read last, so when the local tag is replaced after its signer *)
(* was read, the reported object was never checked.                        *)
VerifiedIsTheRelease ==
    report # NoCheck =>
        /\ registry.tarball = report.tarball
        /\ report.provenance = "required" => report.tarball = report.commit
        /\ report.provenance = "unavailable" => registry.bundles = {}
        /\ report.tag \in ({remoteTag} \ {NoTag}) \cup replaced
        /\ preflight \in {NoTag, report.tag} \cup replaced
        /\ report.retagged \/ Signed(report.tag, report.commit)
=============================================================================
