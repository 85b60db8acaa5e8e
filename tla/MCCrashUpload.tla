---------------------------- MODULE MCCrashUpload ---------------------------
(* A small instance of CrashUpload: context files with distinct names and   *)
(* with one name twice, bodies in every order and number of parts, and      *)
(* metadata, a dump at one level and an attachment over their limits.       *)
EXTENDS CrashUpload, TLC

File(n, d) == [name |-> n, data |-> d]

MCContextLists ==
    {<<File("a.json", "c1"), File("b.json", "c2")>>,
     <<File("a.json", "c1"), File("a.json", "c2")>>}

Meta == Part("metadata", None, "application/json", None, Raw("metadata"))
Dump == Part("dump", None, "application/octet-stream", None, Raw("other"))
Attach == Part("attach", <<"x", 0>>, "application/octet-stream", None, Raw("other"))
Unexpected == [Attach EXCEPT !.name = "note"]

MCOtherBodies ==
    {<<Dump, Meta>>, <<Meta>>, <<Meta, Attach, Dump>>, <<Meta, Dump, Dump>>, <<Meta, Dump, Meta>>,
     <<Meta, Unexpected>>}

MCOversizes ==
    {{}, {<<"metadata", Raw("metadata")>>},
     {<<"blob", [data |-> "dump", level |-> 1]>>, <<"blob", Raw("c2")>>}}

Symmetry == Permutations(Handlers)
=============================================================================
