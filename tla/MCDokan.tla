------------------------------- MODULE MCDokan -------------------------------
(* Instances of Dokan: contents; security; attributes, given by creates too;   *)
(* hidden and read-only files; files that are deleted on close.  One file has  *)
(* the more calls, two have the renames.                                       *)
EXTENDS Dokan

Bytes == {<<1>>, <<1, 1>>}

Keeping == {"CREATE_NEW", "OPEN_EXISTING", "OPEN_ALWAYS"}
Every == Keeping \cup {"CREATE_ALWAYS", "TRUNCATE_EXISTING"}

Setting(names, disps, attrs, secs, diff, size) ==
    [names |-> names, disps |-> disps, attrs |-> attrs, secs |-> secs, diff |-> diff, size |-> size]

Instances ==
    {Setting({"a"}, Every, {{}}, {"s1"}, TRUE, 2),
     Setting(Names, Every, {{}}, {"s1"}, TRUE, 1),
     Setting(Names, Keeping, {{}}, {"s1", "s2"}, FALSE, 0),
     Setting({"a"}, Every, {{}, {"archive"}}, {"s1"}, FALSE, 1),
     Setting(Names, {"CREATE_ALWAYS"}, {{}, {"archive"}}, {"s1"}, FALSE, 0),
     Setting({"a"}, {"CREATE_NEW", "OPEN_ALWAYS", "CREATE_ALWAYS"},
             {{}, {"hidden"}, {"readonly"}}, {"s1"}, FALSE, 1),
     Setting(Names, {"CREATE_ALWAYS"}, {{}, {"readonly"}}, {"s1"}, FALSE, 0),
     Setting({"a"}, {"CREATE_NEW", "OPEN_ALWAYS", "CREATE_ALWAYS"},
             {{}, {"delete_on_close"}}, {"s1"}, FALSE, 1),
     Setting(Names, {"CREATE_NEW"}, {{}, {"delete_on_close"}}, {"s1"}, FALSE, 0)}
=============================================================================
