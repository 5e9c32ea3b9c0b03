---- MODULE MCAcquisition ----
(* Two syncs and a checkout with one locked artifact. *)
EXTENDS Acquisition, TLC

MCFolded == [n \in {"root", "a", "A", "b", "long", "..", ""} |-> IF n = "A" THEN "a" ELSE n]

E(path, dir) == [path |-> path, dir |-> dir, plain |-> TRUE]

U(host, query) == [host |-> host, query |-> query, clean |-> TRUE]

MCTargets == {U("github", FALSE), U("assets", TRUE), U("github", TRUE), U("vendor", FALSE)}

MCWorlds ==
  LET tree == <<E(<<"root">>, TRUE), E(<<"root", "a">>, FALSE), E(<<"root", "b">>, FALSE)>>
      bare == <<E(<<"a">>, TRUE), E(<<"a", "b">>, FALSE), E(<<"b">>, FALSE)>>
      W(host, shape, listing) ==
        [origin |-> U(host, FALSE), shape |-> shape, listing |-> listing]
      rooted   == [kind |-> "rooted", roots |-> {"root"}]
      rootless == [kind |-> "rootless", entries |-> 3, directories |-> 1, files |-> 1]
      single   == [kind |-> "single", roots |-> {"a"}, only |-> "a"]
  IN  {W("github", rooted, tree), W("vendor", rootless, bare),
       W("vendor", single, <<E(<<"a">>, FALSE)>>),
       W("vendor", rooted, Append(tree, E(<<"root", "A">>, FALSE))),
       W("vendor", rooted, Append(tree, E(<<"root", "..">>, TRUE))),
       W("vendor", rootless, SubSeq(bare, 2, 3)), W("vendor", single, tree)}

Curl(version, below, class, signature) ==
  [present |-> TRUE, version |-> version, belowMinimum |-> below, class |-> class,
   signature |-> signature]

MCMachines ==
  {[command |-> c, cmake |-> v, transport |-> t] :
     c \in {"ambient", "prepared"}, v \in {"locked", "candidate"},
     t \in {Curl("parsable", FALSE, "packaged", FALSE), Curl("parsable", FALSE, "signed", TRUE),
            Curl("parsable", TRUE, "packaged", FALSE), Curl("parsable", FALSE, "signed", FALSE)}}

MCSymmetry == Permutations(Syncs)
====
