-------------------------- MODULE SandboxCmdline ----------------------------
(***************************************************************************)
(* How a sandbox's configuration reaches its init: written into the kernel *)
(* command line on the host (crates/capsa/src/sandbox/builder.rs) and read *)
(* back in the guest (crates/sandbox/init/src/cmdline.rs).                 *)
(*                                                                         *)
(* A text is a sequence of pieces: "x" stands for letters and digits,      *)
(* "/", ":", "%", " " for themselves, ".." for two dots, and a keyword or  *)
(* a tag is one piece.                                                     *)
(***************************************************************************)
EXTENDS Naturals, Sequences, SequencesExt

(* utf8_percent_encode with NON_ALPHANUMERIC, and percent_decode_str.      *)
Escapes == [c \in {"/", ":", "%", " ", ".."} |->
              CASE c = "/" -> "%2F" [] c = ":" -> "%3A" [] c = "%" -> "%25"
                [] c = " " -> "%20" [] c = ".." -> "%2E%2E"]

(* Mutant: only what separates parameters is escaped.                      *)
EncodeSpaces(text) == [i \in DOMAIN text |-> IF text[i] = " " THEN "%20" ELSE text[i]]

Encode(text) ==
    [i \in DOMAIN text |-> IF text[i] \in DOMAIN Escapes THEN Escapes[text[i]] ELSE text[i]]

Decode(text) ==
    [i \in DOMAIN text |->
        IF \E c \in DOMAIN Escapes : Escapes[c] = text[i]
        THEN CHOOSE c \in DOMAIN Escapes : Escapes[c] = text[i]
        ELSE text[i]]

RECURSIVE Split(_, _), Join(_, _)

Split(text, sep) ==
    LET at == SelectInSeq(text, LAMBDA c : c = sep)
    IN  IF at = 0 THEN <<text>>
        ELSE <<SubSeq(text, 1, at - 1)>> \o Split(SubSeq(text, at + 1, Len(text)), sep)

Join(parts, sep) ==
    IF Len(parts) = 1 THEN parts[1] ELSE parts[1] \o <<sep>> \o Join(Tail(parts), sep)

SplitWhitespace(text) == SelectSeq(Split(text, " "), LAMBDA part : part # <<>>)

-----------------------------------------------------------------------------
(* The builder.  Shares are tagged by their index.                         *)
Tags == <<"share0", "share1", "share2", "share3">>

MountParameter(i, path) == <<"capsa.mount=", Tags[i], ":">> \o path

MainParameter(main) ==
    <<IF main.kind = "run" THEN "capsa.run=" ELSE "capsa.oci=">>
        \o Join([i \in DOMAIN main.argv |-> Encode(main.argv[i])], ":")

(* generate_cmdline: the fixed parameters, the mounts, the main process.   *)
GenerateCmdline(config) ==
    Join(<< <<"console=hvc0">>, <<"reboot=t">>, <<"panic=-1">>, <<"threadirqs">>,
            <<"acpi=off">>, <<"quiet">> >>
            \o [i \in DOMAIN config.shares |-> MountParameter(i, config.shares[i].guest)]
            \o <<MainParameter(config.main)>>, " ")

(* generate_shares: the device of each share, by tag.                      *)
GenerateShares(config) ==
    [i \in DOMAIN config.shares |-> [tag |-> <<Tags[i]>>, host |-> config.shares[i].host]]

-----------------------------------------------------------------------------
(* The init: validate_mount_path.                                          *)
ValidMountPath(path) ==
    path # <<>> /\ path[1] = "/" /\ \A i \in DOMAIN path : path[i] # ".."

(* split_once(':') of a capsa.mount= parameter.                            *)
MountSpec(part) ==
    LET colon == SelectInSeq(part, LAMBDA c : c = ":")
    IN  [tag |-> SubSeq(part, 2, colon - 1),
         path |-> SubSeq(part, colon + 1, Len(part)), colon |-> colon]

IsMount(part) == part[1] = "capsa.mount=" /\ MountSpec(part).colon # 0
IsRun(part) == part[1] = "capsa.run="

BadMount(part) ==
    IsMount(part) /\ (MountSpec(part).tag = <<>> \/ ~ValidMountPath(MountSpec(part).path))

(* parse_cmdline_str: a bad mount is an error; the last capsa.run= counts; *)
(* capsa.oci= is not read.                                                 *)
ParseCmdline(text) ==
    LET parts == SplitWhitespace(text)
        mounts == SelectSeq(parts, IsMount)
        runs == SelectSeq(parts, IsRun)
        argv(run) == LET fields == Split(Tail(run), ":")
                     IN  [i \in DOMAIN fields |-> Decode(fields[i])]
    IN  [error  |-> \E i \in DOMAIN parts : BadMount(parts[i]),
         mounts |-> [i \in DOMAIN mounts |-> [tag |-> MountSpec(mounts[i]).tag,
                                              path |-> MountSpec(mounts[i]).path]],
         main   |-> IF runs = <<>> THEN <<>> ELSE argv(Last(runs))]
=============================================================================
