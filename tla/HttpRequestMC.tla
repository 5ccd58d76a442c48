--------------------------- MODULE HttpRequestMC ---------------------------
(* Small instance of HttpRequest: buffers of a few dozen bytes. *)
EXTENDS HttpRequest, TLC

Plain(ch) == [ch |-> ch, esc |-> FALSE]
Escaped(ch) == [ch |-> ch, esc |-> TRUE]
Tokens == {Plain("/"), Plain("."), Plain("a"), Plain("+"), Escaped("."),
           Escaped("NUL")}

Kinds == {"absent", "denied", "dir", "reg", "other"}
Name(len, dir, stat) == [len |-> len, dir |-> dir, stat |-> stat]
Entries == {Name(1, FALSE, TRUE), Name(2, TRUE, TRUE), Name(1, FALSE, FALSE),
            Name(8, FALSE, TRUE)}

Answers(kinds, entries) ==
    [first : kinds, index : kinds, again : kinds, access : BOOLEAN,
     open : BOOLEAN, opendir : BOOLEAN, size : {0, 50}, entries : entries]

Paths == BoundedSeq(Tokens, 5)
FewPaths == {<<Plain("/")>>, <<Plain("/"), Plain("a")>>, <<Plain("a")>>,
             <<Plain("/"), Plain("a"), Plain("a"), Plain("a")>>}

Get(path) == [get |-> TRUE, space |-> TRUE, path |-> path]
Malformed == {[get |-> g, space |-> s, path |-> <<Plain("/"), Plain(".")>>] :
              g \in BOOLEAN, s \in BOOLEAN}

HereFile == [first |-> "reg", index |-> "absent", again |-> "reg",
             access |-> TRUE, open |-> TRUE, opendir |-> TRUE, size |-> 50,
             entries |-> <<>>]
HereDir == [HereFile EXCEPT !.first = "dir", !.index = "reg"]

ManyCases ==
    {<<Get(p), os>> : p \in Paths, os \in {HereFile, HereDir}}
    \cup {<<rq, HereFile>> : rq \in Malformed}
    \cup {<<Get(p), os>> : p \in FewPaths, os \in Answers(Kinds, {<<>>})}
    \cup {<<Get(p), os>> : p \in FewPaths,
             os \in {[HereDir EXCEPT !.index = "absent", !.entries = es] :
                        es \in BoundedSeq(Entries, 4)}}
=============================================================================
