------------------------- MODULE MCPlayerCommands ---------------------------
(* A small instance of the commands for one player, for TLC. *)
EXTENDS PlayerCommands

\* Three channels match, two of them in full; the other provider has one of
\* them as well.
TwoProviders ==
    [here |-> {<<"news", "news2">>, <<"news2", "film", "news">>, <<"News", "news2", "news">>},
     there |-> {<<"film", "news">>, <<"news2">>}]

\* Files of versions 1 to 3, two of version 2; a beta of version 3, a candidate of
\* version 2 and the stable release promoted from it, a variant, a manifest that
\* names another version than its file, and a stable release that differs from
\* its candidate.
Codes == [old |-> 1, full |-> 2, api22 |-> 2, new |-> 3]
Manifest(tag, sha, code) == [tag |-> tag, sha |-> sha, code |-> code, source |-> "commit"]
Published(channel, manifest) ==
    [channel |-> channel, published |-> TRUE, manifest |-> manifest, source |-> "commit"]
SixReleases ==
    [beta |-> Published("beta", Manifest("beta", "new", 3)),
     rc |-> Published("rc", Manifest("rc", "full", 2)),
     stable |-> Published("stable", Manifest("rc", "full", 2)),
     variant |-> Published("beta", Manifest("variant", "api22", 2)),
     wrong |-> Published("beta", Manifest("wrong", "full", 3)),
     forged |-> Published("stable", Manifest("rc", "new", 3))]
=============================================================================
