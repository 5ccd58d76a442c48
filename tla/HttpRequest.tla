---------------------------- MODULE HttpRequest ----------------------------
(***************************************************************************)
(* One request through handle_request of hw12_async_server/http.c: any of  *)
(* the given requests meets any of the given answers of the file system.   *)
(***************************************************************************)
EXTENDS HttpHandler

CONSTANT Cases     \* the pairs of a request and the answers it meets

Entry == [len : Nat, dir : BOOLEAN, stat : BOOLEAN]

ASSUME CaseAssumption ==
    \A case \in Cases :
       LET rq == case[1]
           os == case[2]
       IN /\ {rq.get, rq.space, os.access, os.open, os.opendir} \subseteq BOOLEAN
          /\ rq.path \in Seq(ToSet(rq.path)) /\ os.entries \in Seq(Entry)
          /\ os.size \in Nat

VARIABLES request, answers, response

NoResponse == [Closed EXCEPT !.state = "READING"]

Arrival ==
    /\ \E case \in Cases : request = case[1] /\ answers = case[2]
    /\ response = NoResponse

HandleRequest ==
    /\ response = NoResponse
    /\ response' = handle_request(request, answers)
    /\ UNCHANGED <<request, answers>>

RequestSpec == Arrival /\ [][HandleRequest]_<<request, answers, response>>

(***************************************************************************)
(* Properties.                                                             *)
(***************************************************************************)
Answered == response # NoResponse

AnswerInBounds ==
    /\ response.state \in {"READING", "WRITING", "CLOSING"}
    /\ response.status \in {0, 200, 400, 403, 404, 405, 414}
    /\ response.response_len \in 0..BUFFER_SIZE
    /\ response.listed \in 0..Len(answers.entries)

\* There is room for the path, with the name of the index page behind it.
PathFits(rq) ==
    /\ ~(Width(rq.path) >= MAX_PATH_LEN)
    /\ RootLen + Len(url_decode(rq.path)) + IndexLen < PATH_MAX

\* In a file system that stays as the first answers found it, ...
ForList(rq, os) ==      \* ... the list of a directory is asked for,
    os.first = "dir" /\ (url_decode(rq.path) = <<"/">> \/ os.index = "absent")

\* ... and the answer is the one README.md promises.
Promised(rq, os) ==
    LET found == IF os.first = "dir" THEN os.index ELSE os.first IN
    CASE ~rq.get                                   -> 405
      [] rq.get /\ HasDotDot(url_decode(rq.path))  -> 403
      [] OTHER -> IF ForList(rq, os) THEN (IF os.opendir THEN 200 ELSE 403)
                  ELSE IF found = "absent" THEN 404
                  ELSE IF found = "reg" /\ os.access THEN 200 ELSE 403

\* The file system changes while handle_request looks: the second stat is about
\* the name that is served, and open may refuse what access allowed.  These are
\* the file systems that stay as one of the two looks found them.
Look(first, index, os) ==
    [first |-> first, index |-> index, access |-> os.access /\ os.open,
     opendir |-> os.opendir]

Moments(rq, os) ==
    {Look(os.first, os.index, os),
     IF ForList(rq, os) THEN Look(os.first, os.index, os)
     ELSE IF os.first = "dir" THEN Look(os.first, os.again, os)
     ELSE Look(os.again, os.index, os)}

\* The status of the answer is the one README.md promises for the file system
\* as it was at one of the two looks, however it changed in between, for
\* requests of one line with room for the path and a file system that lets the
\* server look up every name.  A list too long for the buffer closes the
\* connection.  Two changes get an answer no moment explains: the index page
\* goes away, or what was a file becomes a directory, between the two calls.
StatusAsPromised ==
    (/\ Answered /\ request.space /\ PathFits(request)
     /\ "denied" \notin {answers.first, answers.index, answers.again})
    => \/ \E now \in Moments(request, answers) :
             \/ response.status = Promised(request, now)
             \/ response.state = "CLOSING" /\ ForList(request, now)
       \/ /\ answers.first = "dir" /\ ~ForList(request, answers)
          /\ answers.again = "absent" /\ response.status = 404
       \/ /\ answers.first # "dir" /\ answers.again = "dir"
          /\ response.status = 403

\* README.md: a directory without index.html shows the list of its files.
\* The code drops the body, or the whole answer, when the page is too long.
ListingIsDelivered ==
    (/\ Answered /\ request.get /\ request.space /\ answers.opendir
     /\ answers.first = "dir" /\ url_decode(request.path) = <<"/">>)
    => response.response_len = HeaderLen + response.content_length
       /\ response.state = "WRITING"
=============================================================================
