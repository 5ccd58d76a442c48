------------------------------- MODULE Weather -------------------------------
(***************************************************************************)
(* The weather of hw2 (main.c): the answer of wttr.in is collected by      *)
(* write_cb in parts of any size, parsed, and six texts of it are copied   *)
(* into a struct and printed.                                              *)
(*                                                                         *)
(* An answer is a sequence of cells, of which all are needed for a JSON    *)
(* document.  A document has the sections "current_condition",             *)
(* "weatherDesc" and "weather" (a section is there when it is a non-empty  *)
(* array) and fields, each "absent", a text that is "short" or does not    *)
(* fit, "long", or a "number", whose valuestring is NULL.                  *)
(***************************************************************************)
EXTENDS Integers, Sequences, FiniteSets

VARIABLES
    job,    \* [program, size: cells of the answer, json: whether they are JSON,
            \*  sections, fields: of the document]
    work,   \* [held: what was acquired, a set, response: the cells collected,
            \*  error_code, missed: whether a call failed, wd: the struct]
    status  \* "starting", "receiving", "parsing", "copying", "checking"; "failed", "done" or "undefined"

Current == {"temp_C", "weatherDesc", "windspeedKmph", "winddir16Point"}
Today == {"maxtempC", "mintempC"}
Sections == {"current_condition", "weatherDesc", "weather"}
IsInput(j) ==
    j \in [program : {"weather"}, size : Nat, json : BOOLEAN, sections : SUBSET Sections,
          fields : [Current \cup Today -> {"absent", "short", "long", "number"}]]

Stray == 99     \* any value but 0

Start == [held |-> {}, response |-> <<>>, error_code |-> 0, missed |-> FALSE,
          wd |-> [f \in Current \cup Today |-> "unset"]]

-----------------------------------------------------------------------------
(* get_weather_data *)

\* curl_easy_init, after init_memory.
StartTransfer ==
    /\ status = "starting"
    /\ work' = [work EXCEPT !.held = {"response", "handler"}]
    /\ status' = "receiving"
    /\ UNCHANGED job

\* No argument or no handle; the transfer breaks, or write_cb gets no memory
\* and tells libcurl to break it.
TransferFails ==
    /\ status \in {"starting", "receiving"}
    /\ work' = [work EXCEPT !.held = {}, !.missed = TRUE]
    /\ status' = "failed"
    /\ UNCHANGED job

write_cb ==
    /\ status = "receiving"
    /\ \E n \in Len(work.response) + 1..job.size :
        work' = [work EXCEPT !.response = @ \o [i \in 1..n - Len(@) |-> Len(@) + i]]
    /\ UNCHANGED <<job, status>>

\* Of an empty answer nothing was written, not even the terminating NUL.
TransferEnds ==
    /\ status = "receiving" /\ Len(work.response) = job.size
    /\ work' = [work EXCEPT !.held = @ \ {"handler"}]
    /\ status' = IF job.size = 0 THEN "undefined" ELSE "parsing"
    /\ UNCHANGED job

-----------------------------------------------------------------------------
(* parse_weather_data *)

Whole == work.response = [i \in 1..job.size |-> i]

\* The text of a field ends in the struct when it is short enough; strncpy
\* leaves the last byte of a longer one as it was, and what follows may be
\* printed with it, as of the fields in unended.
Copied(field, unended) ==
    CASE job.fields[field] = "absent" -> "N/A"
      [] job.fields[field] = "short" -> "short"
      [] job.fields[field] = "long" -> IF field \in unended THEN "cut and more" ELSE "cut"

HasNumber(fields) == \E f \in fields : job.fields[f] = "number"

Fail(code) ==
    /\ work' = [work EXCEPT !.error_code = code, !.held = @ \ {"root"}]
    /\ status' = "checking"

Parse ==
    /\ status = "parsing"
    /\ CASE ~(job.json /\ Whole) -> Fail(1)
         [] job.json /\ Whole /\ "current_condition" \notin job.sections -> Fail(2)
         [] job.json /\ Whole /\ {"current_condition", "weatherDesc"} \subseteq job.sections ->
                /\ work' = [work EXCEPT !.held = @ \cup {"root"}]
                /\ status' = "copying"
         [] OTHER -> Fail(3)
    /\ UNCHANGED job

\* strncpy of NULL.
CopyNull ==
    /\ status = "copying"
    /\ HasNumber(Current) \/ ("weather" \in job.sections /\ HasNumber(Today))
    /\ status' = "undefined"
    /\ UNCHANGED <<job, work>>

NoForecast ==
    /\ status = "copying" /\ ~HasNumber(Current) /\ "weather" \notin job.sections
    /\ Fail(4)
    /\ UNCHANGED job

\* The error_code of the struct is not set.
Copy ==
    /\ status = "copying" /\ ~HasNumber(Current \cup Today) /\ "weather" \in job.sections
    /\ \E unended \in SUBSET DOMAIN work.wd, code \in {0, Stray} :
        work' = [work EXCEPT !.wd = [f \in DOMAIN @ |-> Copied(f, unended)],
                             !.error_code = code, !.held = @ \ {"root"}]
    /\ status' = "checking"
    /\ UNCHANGED job

\* The answer is given back only after it was printed.
main ==
    /\ status = "checking"
    /\ IF work.error_code # 0 THEN status' = "failed" /\ UNCHANGED work
       ELSE status' = "done" /\ work' = [work EXCEPT !.held = {}]
    /\ UNCHANGED job

Next ==
    /\ job.program = "weather"
    /\ \/ StartTransfer \/ TransferFails \/ write_cb \/ TransferEnds
       \/ Parse \/ CopyNull \/ NoForecast \/ Copy \/ main

-----------------------------------------------------------------------------
Good == job.json /\ job.size > 0 /\ Sections \subseteq job.sections

(* A document that came in any number of parts is refused only when it     *)
(* lacks a section (or for the error_code nobody set), and what is printed *)
(* are its texts that fit and N/A for those that are not there.            *)
WeatherPrinted ==
    /\ status = "failed" /\ ~work.missed => ~Good \/ work.error_code = Stray
    /\ status = "done" =>
        /\ Good
        /\ \A f \in Current \cup Today :
            /\ job.fields[f] = "short" <=> work.wd[f] = "short"
            /\ job.fields[f] = "absent" <=> work.wd[f] = "N/A"

(* The document and the handle are given back on every way, the answer but *)
(* when it is refused.                                                     *)
WeatherReleased ==
    status \in {"failed", "done"} =>
        work.held = IF status = "failed" /\ ~work.missed THEN {"response"} ELSE {}
=============================================================================
