----------------------------- MODULE MCToolbox -----------------------------
EXTENDS Toolbox

MCPath == {"config", "docker", "notes", "claude", "package"}
MCAbove == [p \in MCPath |-> CASE p = "notes" -> {"docker"}
                              [] p = "package" -> {"claude"}
                              [] OTHER -> {}]
MCGuarded == {"docker", "package"}
MCSurface == {"package"}
MCSrc == {"image", "pkg"}

Copy(s, d, m) == [op |-> "copy", src |-> s, dest |-> d, mode |-> m, flaw |-> "none"]
Seed(s, d, m) == [Copy(s, d, m) EXCEPT !.op = "seed"]
Delete(d) == [Copy("none", d, "keep") EXCEPT !.op = "delete"]

MCEntry == {Copy("image", "docker", "keep"), Seed("image", "docker", "keep"), Delete("notes"),
            Delete("docker"), Copy("pkg", "package", "exec"), Copy("pkg", "package", "keep"),
            Copy("pkg", "config", "keep"), Copy("pkg", "notes", "keep"),
            [Copy("pkg", "notes", "keep") EXCEPT !.flaw = "alias"],
            [Seed("image", "docker", "keep") EXCEPT !.flaw = "field"]}
MCManifests == {<<d, e>> : d, e \in MCEntry} \ {<<e, e>> : e \in MCEntry}

MCConfig(g, s, a) ==
    [grants |-> g, skip |-> s, allowed |-> a, values |-> MCSrc, valid |-> TRUE]
MCConfigs == {MCConfig({}, {}, MCPath), MCConfig({"docker"}, {}, MCPath),
              [MCConfig({"docker"}, {"pkg"}, {"docker", "package"}) EXCEPT !.values = {"image"}]}

MCOwn(m) == [text |-> Own, mode |-> m]
MCTree(docker, notes, claude, package) ==
    [config |-> MCOwn("plain"), docker |-> docker, notes |-> notes, claude |-> claude, package |-> package]
MCTrees == {MCTree(Absent, Absent, Absent, Absent),
            MCTree(MCOwn("plain"), Absent, Dir, MCOwn("plain")),
            MCTree(Dir, MCOwn("plain"), Dir, MCOwn("exec"))}
MCSources == {[s \in MCSrc |-> "v1"], [image |-> "v1", pkg |-> "missing"]}

-----------------------------------------------------------------------------
(* The synced content of the two upstream releases.                        *)
MCShips == <<"a", "b">>

MCHeads == [File -> {"t1", "absent"}]
MCPolicies == {[allowed |-> File, skipped |-> {}, granted |-> {}],
               [allowed |-> File \ {"x"}, skipped |-> {}, granted |-> {"ci"}]}

MCTierCap == [t \in Tier |-> IF t = "lean" THEN 1 ELSE 2]

MCBlocked == [l1 |-> 1, l2 |-> 2]
MCBlocking == [l1 |-> 2, l2 |-> 3]

MCTicketLists ==
    {[open |-> {1, 2}, blockers |-> [i \in Ticket |-> IF i = 1 THEN b ELSE {}],
      agent |-> {1}, excluded |-> x] : b \in {{}, {2}}, x \in {{}, {2}}}
MCPullSets ==
    {[p \in Pull |-> NoPull]} \cup
    {[p \in Pull |-> IF p = "pr1" THEN [state |-> s, linked |-> l, worded |-> {1}] ELSE NoPull] :
       s \in {"open", "merged"}, l \in {{}, {2}}}
============================================================================
