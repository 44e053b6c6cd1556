----------------------------- MODULE MCKnowledge -----------------------------
\* Three documents that the chunker cuts into two chunks, none and two; the
\* chunker itself is checked on every short text, and the plugins on small sets of manifests.
EXTENDS KnowledgeStore, Chunker, TLC

MCTexts == <<<<3, 0, 5>>, <<0>>, <<4, 2, 1>>>>
MCChunkCount == [d \in 1 .. MaxDocs |-> Len(Pack(MCTexts[d]))]

\* The chunker keeps its promise on every text of the bounds.
ASSUME PackerAssumption == PackedWhole

\* No action or property names a thread of the pool.
Symmetry == Permutations(Tasks)

------------------------------------------------------------------------------
Plugins == INSTANCE PluginLifecycle

Manifest(id, deps, tools, listens, breaks) ==
    [id |-> id, file |-> id, deps |-> deps, tools |-> tools, listens |-> listens, breaks |-> breaks]

\* Three plugins, or two and a second manifest of the first, with chains, cycles, a missing
\* and a repeated dependency.
DependencyLists == {<< >>, <<1>>, <<2>>, <<3, 4>>, <<3, 1>>, <<2, 2>>}
ASSUME OrderAssumption ==
    \A a, b, c \in DependencyLists, third \in {1, 3} :
        Plugins!DependenciesComeFirst(<<Manifest(1, a, << >>, TRUE, "never"),
                                        Manifest(2, b, << >>, TRUE, "never"),
                                        Manifest(third, c, << >>, TRUE, "never")>>)

\* Any of three plugins may break at any point, and two may want the same tool.
ASSUME FaultAssumption ==
    \A a, b, c \in Plugins!BreakPoints, ta, tb \in {<< >>, <<"x">>, <<"y", "x">>} :
        Plugins!FaultsIsolated(<<Manifest(1, <<2>>, ta, TRUE, a), Manifest(2, << >>, tb, TRUE, b),
                                 Manifest(3, << >>, <<"z">>, FALSE, c)>>)

\* Up to four calls, on manifest files that stay, that change or that go.
Manifests ==
    {<<Manifest(1, <<2>>, ta, TRUE, a), Manifest(2, << >>, tb, TRUE, b)>> :
        ta \in {<< >>, <<"x">>}, tb \in {<<"x">>, <<"y", "z">>},
        a \in Plugins!BreakPoints, b \in {"never", "events"}}
Disks(ms) == {ms, <<ms[1], Manifest(2, << >>, << >>, TRUE, "never")>>, <<ms[1]>>}
ASSUME ReloadAssumption ==
    \A ms \in Manifests : \A disk \in Disks(ms) :
        Plugins!InstancesMatch(ms, disk, 3) /\ Plugins!ReloadNeedsNoTool(ms, disk, 3)
==============================================================================
