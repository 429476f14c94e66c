---------------------------- MODULE MCCommandLine ----------------------------
(***************************************************************************)
(* The command lines for TLC: up to two options before operands in the     *)
(* tree of MCRemoval, with -r or not, and arguments after them that are    *)
(* options in one profile and operands in another; and restore and purge   *)
(* with up to four arguments.                                              *)
(***************************************************************************)
EXTENDS CommandLine, MCRemoval

Short(letters) ==
    [form |-> "short", text |-> letters,
     names |-> CASE letters = <<"i">> -> o [] letters = <<"r">> -> p [] OTHER -> x]
Named(name) == [form |-> "long", text |-> name, names |-> x]
End == [form |-> "end", text |-> "--", names |-> q]
Word(text, n) == [form |-> "word", text |-> text, names |-> n]
File(n) == Word("file", n)

RmOptions ==
    {Short(<<l>>) : l \in {"f", "i", "I", "d", "v"}} \cup {Short(<<"i", "f">>), Short(<<"r", "x">>)}
    \cup {Named(l) : l \in {"interactive=never", "one-file-system", "preserve-root=all"}}

Before ==
    {l \o m : l \in {<<>>, <<Short(<<"r">>)>>},
              m \in {<<>>} \cup {<<a>> : a \in RmOptions} \cup {<<a, b>> : a \in RmOptions, b \in RmOptions}}

Files(nodes) == [j \in 1 .. Len(nodes) |-> File(nodes[j])]
Lists == {<<d>>, <<s, d>>, <<d, s>>, <<h>>, <<x, e>>, <<e, e, x, e>>, <<s, e>>, <<v, d>>, <<d, v>>, <<w, v>>}
Mixed ==
    {<<File(e), Short(<<"i">>)>>, <<File(d), Short(<<"r">>)>>, <<End, Short(<<"i">>)>>,
     <<File(e), End, End>>, <<File(e), Short(<<"i">>), Short(<<"r">>)>>}
Back == {Files(l) : l \in Lists} \cup Mixed \cup {<<>>}

Native ==
    {Named("last"), Named("operation"), Named("yes"), Named("json"), Word("item", x), Word("", x)}
Selections == UNION {[1 .. n -> Native] : n \in 0 .. 4}
Listings ==
    UNION {[1 .. n -> {Named("json"), Named("operation"), Named("limit"), Word("positive", x)}] : n \in 0 .. 3}
Others ==
    {<<>>} \cup {<<Word(l, x)>> : l \in {"path", "check", "item"}} \cup {<<Named("json")>>}

TheCommandLines ==
    [program : {"rm"}, args : {l \o m : l \in Before, m \in Back}]
    \cup [program : {"bearm"}, args :
        {<<Word(l, x)>> \o m : l \in {"restore", "purge"}, m \in Selections}
        \cup {<<Word("list", x)>> \o m : m \in Listings}
        \cup {<<Word(l, x)>> \o m :
                  l \in {"doctor", "config", "help", "version", "remove"}, m \in Others}
        \cup {<<>>, <<Word("rm", x), Short(<<"r">>), File(d)>>, <<Named("help")>>, <<Short(<<"h">>)>>,
            <<Short(<<"h">>), Word("list", x)>>, <<Named("last")>>}]

Setting(file, env, os, inspect) == [file |-> file, env |-> env, os |-> os, inspect |-> inspect]
TheSettings ==
    {Setting("auto", "", l, m) : l \in {"linux", "darwin"}, m \in BOOLEAN}
    \cup {Setting("gnu", "posix", "linux", FALSE), Setting("gnu", "GNU", "linux", FALSE)}

(* The requests that a parser may come to: -f goes with no prompt, and the *)
(* options of GNU are for GNU.                                             *)
ParsedOptions ==
    {l \in RemoveOptions :
        /\ l.force => l.interactive = "never"
        /\ l.bsd => ~l.oneFileSystem /\ ~l.preserveAll}
ParsedRequests ==
    [operands : Lists \cup {<<>>, <<e, o>>, <<d, p>>, <<o>>, <<e, q>>, <<e, q, q>>, <<e, o, p>>, <<e>>},
     options : ParsedOptions]
=============================================================================
