--------------------------- MODULE AsyncServerMC ---------------------------
(***************************************************************************)
(* Small instances of AsyncServer.  What handle_request leaves in a client *)
(* is not invented here: it is computed by HttpHandler, with buffers and   *)
(* texts of a few units, for the requests and file systems below.          *)
(***************************************************************************)
EXTENDS AsyncServer, TLC

Http == INSTANCE HttpHandler WITH
           BUFFER_SIZE <- 5, MAX_PATH_LEN <- 4, PATH_MAX <- 6, RootLen <- 1,
           IndexLen <- 1, HeaderLen <- 1, TextLen <- 2, PrefixLen <- 0,
           RowLen <- 1, FooterLen <- 1

Get(get) == [get |-> get, space |-> TRUE, path |-> <<[ch |-> "/", esc |-> FALSE]>>]

FileOf(n) == [first |-> "reg", index |-> "absent", again |-> "reg",
              access |-> TRUE, open |-> TRUE, opendir |-> TRUE, size |-> n,
              entries |-> <<>>]
DirOf(n) == [FileOf(0) EXCEPT
               !.first = "dir", !.again = "dir",
               !.entries = [i \in 1..n |-> [len |-> 0, dir |-> FALSE, stat |-> TRUE]]]

Served(rqs, oss) ==
    {Http!AsOutcome(Http!handle_request(rq, os)) : rq \in rqs, os \in oss}

\* 405, an empty file, a file of three units, a listing that is delivered and
\* one whose page does not fit (the connection is closed).
OneOutcomes == Served({Get(TRUE)}, {FileOf(0), FileOf(3), DirOf(0), DirOf(1)})
               \cup Served({Get(FALSE)}, {FileOf(0)})

\* 405 and a file of two units.
TwoOutcomes == Served({Get(TRUE)}, {FileOf(2)}) \cup Served({Get(FALSE)}, {FileOf(2)})

\* Those of OneOutcomes that differ in kind, written out: ENABLED, which
\* fairness needs, would compute the set again in every state.
LiveOutcomes ==
    {[state |-> "WRITING", response_len |-> 3, file |-> FALSE, file_size |-> 0],
     [state |-> "WRITING", response_len |-> 1, file |-> TRUE, file_size |-> 0],
     [state |-> "WRITING", response_len |-> 1, file |-> TRUE, file_size |-> 3],
     [state |-> "CLOSING", response_len |-> 0, file |-> FALSE, file_size |-> 0]}

ASSUME LiveOutcomesAreComputed == LiveOutcomes \subseteq OneOutcomes

Symmetry == Permutations(Conns)
=============================================================================
