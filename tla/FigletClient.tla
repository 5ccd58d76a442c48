---------------------------- MODULE FigletClient ----------------------------
(***************************************************************************)
(* The client of hw11 (main.c): it connects to one of the addresses of a   *)
(* host, takes the banner, sends a command, takes the answer and prints    *)
(* what follows the first line end of it.  Both are taken until nothing    *)
(* comes for TIMEOUT_SEC, the buffer is full or the server closes.         *)
(*                                                                         *)
(* What the server sends is a sequence of cells, CRLF or something else;   *)
(* it may pause between any two of them, shortly or beyond the timeout.    *)
(***************************************************************************)
EXTENDS Integers, Sequences, FiniteSetsExt

CONSTANT BUFFER_SIZE    \* cells the response holds

VARIABLES
    job,    \* [program, addresses: how many, banner, answer: cells, closes: after the answer]
    work,   \* [tried: addresses tried, open: sockets open, sent: the command is,
            \*  coming: what the server has still to send, arrived: cells not yet received,
            \*  response: the buffer, len: the cells of it that are current,
            \*  missed: a timeout came before what the server was sending, printed]
    status  \* "connecting", "banner", "answer"; "failed", "done" or "undefined"

IsInput(j) ==
    j \in [program : {"figlet"}, addresses : Nat, banner : Seq(STRING),
          answer : Seq(STRING), closes : BOOLEAN]

Garbage == "garbage"
Start(banner) ==
    [tried |-> 0, open |-> 0, coming |-> banner, arrived |-> <<>>, missed |-> FALSE,
     response |-> [i \in 1..BUFFER_SIZE |-> Garbage], len |-> 0, printed |-> <<>>]

-----------------------------------------------------------------------------
\* socket, setsockopt or connect fails; after connect the socket is not closed.
TryFails ==
    /\ status = "connecting" /\ work.tried < job.addresses
    /\ \E kept \in 0..1 : work' = [work EXCEPT !.tried = @ + 1, !.open = @ + kept]
    /\ UNCHANGED <<job, status>>

Connect ==
    /\ status = "connecting" /\ work.tried < job.addresses
    /\ work' = [work EXCEPT !.open = @ + 1]
    /\ status' = "banner"
    /\ UNCHANGED job

\* getaddrinfo fails, or no address is left.
NoConnection ==
    /\ status = "connecting" /\ work.tried \in {0, job.addresses}
    /\ status' = "failed"
    /\ UNCHANGED <<job, work>>

Receiving == status \in {"banner", "answer"}
Room == BUFFER_SIZE - work.len

ServerSends ==
    /\ Receiving /\ work.coming # <<>>
    /\ work' = [work EXCEPT !.coming = Tail(@), !.arrived = Append(@, Head(work.coming))]
    /\ UNCHANGED <<job, status>>

Receive ==
    /\ Receiving
    /\ \E n \in 1..Room :
        /\ n <= Len(work.arrived)
        /\ work' = [work EXCEPT
                !.response = [i \in DOMAIN @ |-> IF i \in work.len + 1..work.len + n
                                                 THEN work.arrived[i - work.len] ELSE @[i]],
                !.len = @ + n,
                !.arrived = SubSeq(@, n + 1, Len(@))]
    /\ UNCHANGED <<job, status>>

\* (slip) Without SO_RCVTIMEO recv waits.
Ends_NoTimeout ==
    \/ Room = 0
    \/ work.arrived \o work.coming = <<>> /\ status = "answer" /\ job.closes

\* recv returns 0 into a full buffer or of a closed connection, and -1 after the timeout.
Ends == Room = 0 \/ work.arrived = <<>>

\* (slip) The answer is put behind the banner.
SendCommand_KeepsLen ==
    /\ status = "banner" /\ Ends
    /\ work' = [work EXCEPT !.missed = work.coming \o work.arrived # <<>>,
                            !.coming = @ \o job.answer]
    /\ status' = "answer"
    /\ UNCHANGED job

\* The end of the banner: the command is sent, and the server answers it.
SendCommand ==
    /\ status = "banner" /\ Ends
    /\ \/ /\ work' = [work EXCEPT
                !.missed = work.coming \o work.arrived # <<>>,
                !.coming = @ \o job.answer, !.len = 0]
          /\ status' = "answer"
       \/ /\ work' = [work EXCEPT !.open = @ - 1]
          /\ status' = "failed"
    /\ UNCHANGED job

\* strstr does not stop at the end of what was received: it goes on in what is
\* left of the banner, and with no line end there its result is no pointer.
FirstLineEnd == CHOOSE i \in 1..BUFFER_SIZE :
    work.response[i] = "CRLF" /\ \A j \in 1..i - 1 : work.response[j] # "CRLF"

PrintAnswer ==
    /\ status = "answer" /\ Ends
    /\ LET paused == work.missed \/ (Room > 0 /\ work.coming # <<>>)
       IN IF "CRLF" \in Range(work.response)
          THEN /\ status' = "done"
               /\ work' = [work EXCEPT !.open = @ - 1, !.missed = paused,
                              !.printed = SubSeq(work.response, FirstLineEnd + 1, work.len)]
          ELSE /\ status' = "undefined"
               /\ work' = [work EXCEPT !.missed = paused]
    /\ UNCHANGED job

Next ==
    /\ job.program = "figlet"
    /\ \/ TryFails \/ Connect \/ NoConnection \/ ServerSends \/ Receive
       \/ SendCommand \/ PrintAnswer

-----------------------------------------------------------------------------
LineEnds(cells) == {i \in DOMAIN cells : cells[i] = "CRLF"}

(* With a server that does not pause beyond the timeout, an answer that     *)
(* has a line end in the part the buffer holds is printed from there on, up *)
(* to that part's end, whatever the banner left in the buffer.              *)
AnswerPrinted ==
    LET whole == SubSeq(job.answer, 1, Min({BUFFER_SIZE, Len(job.answer)}))
    IN status \in {"done", "undefined"} /\ ~work.missed /\ LineEnds(whole) # {} =>
         /\ status = "done"
         /\ work.printed = SubSeq(whole, Min(LineEnds(whole)) + 1, Len(whole))
=============================================================================
