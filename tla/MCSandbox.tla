----------------------------- MODULE MCSandbox ------------------------------
EXTENDS Sandbox

Share(host, guest) == [host |-> host, guest |-> guest]
Run(argv_) == [kind |-> "run", argv |-> argv_]

(* Two shares, one at a path with a colon, and arguments with every        *)
(* character that the command line gives a meaning to; a path with a       *)
(* space; a path that init refuses; an OCI image.                          *)
MCConfigs ==
    {[shares |-> <<Share("h1", <<"/", "x">>), Share("h2", <<"/", "x", ":", "x">>)>>,
      main   |-> Run(<< <<"/", "x">>, <<"x", " ", ":", "%", "x">>, <<>>, <<"..">> >>)],
     [shares |-> <<Share("h1", <<"/", "x", " ", "x">>)>>, main |-> Run(<< <<"x">> >>)],
     [shares |-> <<Share("h1", <<"/", "..", "x">>)>>, main |-> Run(<< <<"x">> >>)],
     [shares |-> <<>>, main |-> [kind |-> "oci", argv |-> << <<"x">> >>]]}
=============================================================================
