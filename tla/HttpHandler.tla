---------------------------- MODULE HttpHandler ----------------------------
(***************************************************************************)
(* hw12_async_server/http.c: what handle_request decides for one request.  *)
(* The request is the text before the blank line; the file system is the   *)
(* answers its system calls give.  Each call gets an answer of its own, so *)
(* a file that appears, disappears or changes its kind between two calls   *)
(* is covered.                                                             *)
(*                                                                         *)
(* A path in the request is a sequence of tokens: a character as it is, or *)
(* one written as %XX, which takes three bytes and is decoded to one.      *)
(* Fixed texts are represented by their lengths.                           *)
(***************************************************************************)
EXTENDS Naturals, Sequences, FiniteSetsExt, SequencesExt

CONSTANTS
    BUFFER_SIZE, MAX_PATH_LEN, PATH_MAX,
    RootLen,      \* strlen(root_dir)
    IndexLen,     \* strlen("/index.html")
    HeaderLen,    \* the status line and headers of an answer
    TextLen,      \* the body of an error answer
    PrefixLen, RowLen, FooterLen    \* fixed texts of a listing

ASSUME LengthAssumption ==
    /\ {BUFFER_SIZE, MAX_PATH_LEN, PATH_MAX, HeaderLen, RowLen} \subseteq Nat \ {0}
    /\ {RootLen, IndexLen, TextLen, PrefixLen, FooterLen} \subseteq Nat
    /\ HeaderLen + TextLen <= BUFFER_SIZE

Missing == {"absent", "denied"}     \* stat() fails: ENOENT, EACCES

\* The first row whose condition holds decides.
FirstOf(rows, otherwise) ==
    LET hits == {i \in DOMAIN rows : rows[i][1]} IN
    IF hits = {} THEN otherwise ELSE rows[Min(hits)][2]

(***************************************************************************)
(* Responses.                                                              *)
(***************************************************************************)
Closed == [state |-> "CLOSING", status |-> 0, response_len |-> 0,
           content_length |-> 0, file |-> FALSE, file_size |-> 0, listed |-> 0]

\* (slip) The body is copied without a look at the room.
send_response_Unchecked(status, body_len) ==
    [Closed EXCEPT
        !.state = "WRITING", !.status = status, !.content_length = body_len,
        !.response_len = HeaderLen + body_len]

\* A body that does not fit behind the header is left out.
send_response(status, body_len) ==
    [Closed EXCEPT
        !.state = "WRITING", !.status = status, !.content_length = body_len,
        !.response_len = HeaderLen + IF HeaderLen + body_len <= BUFFER_SIZE
                                     THEN body_len ELSE 0]

send_file_response(size) ==
    [Closed EXCEPT
        !.state = "WRITING", !.status = 200, !.content_length = size,
        !.response_len = HeaderLen, !.file = TRUE, !.file_size = size]

Text(status) == send_response(status, TextLen)

\* What the event loop reads of the answer in the client record.
AsOutcome(r) ==
    [state |-> r.state, response_len |-> r.response_len, file |-> r.file,
     file_size |-> r.file_size]

(***************************************************************************)
(* The path.                                                               *)
(***************************************************************************)
Width(raw) == FoldLeft(LAMBDA n, t : n + IF t.esc THEN 3 ELSE 1, 0, raw)

\* The C string url_decode leaves: an escaped NUL ends it.
url_decode(raw) ==
    LET chars == [i \in DOMAIN raw |->
                    IF raw[i].ch = "+" /\ ~raw[i].esc THEN " " ELSE raw[i].ch]
        whole == SubSeq(chars, 1, Min({Len(raw), MAX_PATH_LEN - 1}))
        nul   == SelectInSeq(whole, LAMBDA ch : ch = "NUL")
    IN IF nul = 0 THEN whole ELSE SubSeq(whole, 1, nul - 1)

HasDotDot(path) ==
    \E i \in 1..Len(path) - 1 : path[i] = "." /\ path[i + 1] = "."

\* (slip) Looked for in the text as it came.
Climbs_Raw(raw) ==
    HasDotDot([i \in DOMAIN raw |-> IF raw[i].esc THEN "%" ELSE raw[i].ch])

Climbs(raw) == HasDotDot(url_decode(raw))

TooLong(raw) == Width(raw) >= MAX_PATH_LEN

(***************************************************************************)
(* send_dir_listing.                                                       *)
(***************************************************************************)
LinkLen(path, e) == (IF path = <<"/">> THEN 0 ELSE Len(path)) + 1 + e.len

\* An entry that gets a row: its names fit and stat() reaches it.
Listed(path, e) ==
    /\ LinkLen(path, e) < MAX_PATH_LEN
    /\ RootLen + Len(path) + 1 + e.len < PATH_MAX
    /\ e.stat

\* The rows of readdir's entries.
Rows(os, path) ==
    FoldLeft(LAMBDA rows, e : IF Listed(path, e) THEN Append(rows, e) ELSE rows,
             <<>>, os.entries)

\* The length of the page with the first k rows, without the footer.
Offset(rows, path, k) ==
    FoldLeft(LAMBDA n, e : n + RowLen + LinkLen(path, e) + e.len
                             + (IF e.dir THEN 2 ELSE 0),
             PrefixLen + 2 * Len(path), SubSeq(rows, 1, k))

\* How many rows may stand on the page when the loop ends.
Fitting(rows, path) ==
    {k \in 0..Len(rows) : Offset(rows, path, k) < BUFFER_SIZE}

send_dir_listing(os, path) ==
    LET rows == Rows(os, path)
        fit  == Fitting(rows, path)
        page == Offset(rows, path, Max(fit)) + FooterLen
    IN IF ~os.opendir THEN Text(403)
       ELSE IF fit = {} THEN Closed
       ELSE IF page >= BUFFER_SIZE THEN Closed
       ELSE [send_response(200, page) EXCEPT !.listed = Max(fit)]

(***************************************************************************)
(* handle_request.                                                         *)
(***************************************************************************)
handle_request(rq, os) ==
    LET path  == url_decode(rq.path)
        full  == RootLen + Len(path)
        isdir == os.first = "dir"
        index == isdir /\ path # <<"/">> /\ os.index \notin Missing
    IN FirstOf(<<
        <<~rq.get, Text(405)>>,
        <<~rq.space, Text(400)>>,
        <<TooLong(rq.path), Text(414)>>,
        <<Climbs(rq.path), Text(403)>>,
        <<full >= PATH_MAX, Text(414)>>,
        <<isdir /\ path = <<"/">>, send_dir_listing(os, path)>>,
        <<isdir /\ full + IndexLen >= PATH_MAX, Text(414)>>,
        <<isdir /\ ~index, send_dir_listing(os, path)>>,
        <<os.again \in Missing, Text(404)>>,
        <<os.again # "reg" \/ ~os.access \/ ~os.open, Text(403)>> >>,
        send_file_response(os.size))
=============================================================================
