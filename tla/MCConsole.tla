----------------------------- MODULE MCConsole ------------------------------
EXTENDS Console

CONSTANTS a, b

(* Two callers that execute at the same time; one that executes four times *)
(* and may give up each time; one that goes on to wait for a prompt; one   *)
(* that reads what is there.                                               *)
MCScripts ==
    {(a :> <<"exec", "exec">> @@ b :> <<"exec">>),
     (a :> <<"exec", "exec", "exec", "exec">> @@ b :> <<>>),
     (a :> <<"exec", "prompt">> @@ b :> <<"exec">>),
     (a :> <<"exec", "drain", "exec">> @@ b :> <<>>)}
=============================================================================
