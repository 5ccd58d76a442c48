------------------------------ MODULE Encoding ------------------------------
(***************************************************************************)
(* The converter of hw1_encoding (main.c, charsets.h): a text in one of    *)
(* three eight-bit charsets, written as UTF-8 byte by byte.  The tables of *)
(* charsets.h hold the UTF-8 bytes of each character and their number; a   *)
(* row is given here by its character, Undefined when its length is 0.     *)
(***************************************************************************)
EXTENDS Integers, Sequences

VARIABLES
    job,    \* [program, charset, text: the bytes of the input file]
    work,   \* [read: bytes read, output: the bytes given to the stream for them, written:
            \*  how many of those are in the file, input, disk: no read, no write failed]
    status  \* "running", "failed" or "done"

IsInput(j) == j \in [program : {"encoding"}, charset : STRING, text : Seq(0..255)]

Undefined == -1
Codes(first, last) == [i \in 1..last - first + 1 |-> first + i - 1]

\* Rows 0x80 to 0xFF; those without the letters are named apart.
cp1251_signs == <<
    \h402, \h403, \h201A, \h453, \h201E, \h2026, \h2020, \h2021, \h20AC, \h2030, \h409,
    \h2039, \h40A, \h40C, \h40B, \h40F, \h452, \h2018, \h2019, \h201C, \h201D, \h2022,
    \h2013, \h2014, Undefined, \h2122, \h459, \h203A, \h45A, \h45C, \h45B, \h45F, \hA0, \h40E,
    \h45E, \h408, \hA4, \h490, \hA6, \hA7, \h401, \hA9, \h404, \hAB, \hAC, \hAD, \hAE,
    \h407, \hB0, \hB1, \h406, \h456, \h491, \hB5, \hB6, \hB7, \h451, \h2116, \h454,
    \hBB, \h458, \h405, \h455, \h457 >>
cp1251_to_utf8 == cp1251_signs \o Codes(\h410, \h44F)

\* (slip) The row of U+0439 is written like that of U+0438.
koi8r_letters_Twice == <<
    \h4E, \h30, \h31, \h46, \h34, \h35, \h44, \h33, \h45, \h38, \h38, \h3A, \h3B, \h3C,
    \h3D, \h3E, \h3F, \h4F, \h40, \h41, \h42, \h43, \h36, \h32, \h4C, \h4B, \h37, \h48,
    \h4D, \h49, \h47, \h4A >>

\* The letters in the order of the charset, without the \h400.
koi8r_letters == <<
    \h4E, \h30, \h31, \h46, \h34, \h35, \h44, \h33, \h45, \h38, \h39, \h3A, \h3B, \h3C,
    \h3D, \h3E, \h3F, \h4F, \h40, \h41, \h42, \h43, \h36, \h32, \h4C, \h4B, \h37, \h48,
    \h4D, \h49, \h47, \h4A >>

koi8r_signs == <<
    \h2500, \h2502, \h250C, \h2510, \h2514, \h2518, \h251C, \h2524, \h252C, \h2534,
    \h253C, \h2580, \h2584, \h2588, \h258C, \h2590, \h2591, \h2592, \h2593, \h2320,
    \h25A0, \h2219, \h221A, \h2248, \h2264, \h2265, \hA0, \h2321, \hB0, \hB2, \hB7, \hF7,
    \h2550, \h2551, \h2552, \h451 >>
koi8r_to_utf8 ==
    koi8r_signs \o Codes(\h2553, \h2561) \o <<\h401>> \o Codes(\h2562, \h256C) \o <<\hA9>> \o
    [i \in 1..32 |-> \h400 + koi8r_letters[i]] \o [i \in 1..32 |-> \h3E0 + koi8r_letters[i]]

iso88595_to_utf8 ==
    [i \in 1..32 |-> Undefined] \o <<\hA0>> \o Codes(\h401, \h40C) \o <<\hAD>> \o
    Codes(\h40E, \h44F) \o <<\h2116>> \o Codes(\h451, \h45C) \o <<\hA7, \h45E, \h45F>>

Charsets == {"CP-1251", "KOI8-R", "ISO-8859-5"}
chartable(charset) ==
    CASE charset = "CP-1251" -> cp1251_to_utf8
      [] charset = "KOI8-R" -> koi8r_to_utf8
      [] charset = "ISO-8859-5" -> iso88595_to_utf8

Char(charset, byte) == IF byte < \h80 THEN byte ELSE chartable(charset)[byte - \h80 + 1]

\* The bytes of a row: two up to U+07FF, then three.
Bytes(char) ==
    CASE char < \h80 -> <<char>>
      [] char \in \h80..\h7FF -> <<\hC0 + (char \div 64), \h80 + (char % 64)>>
      [] char > \h7FF -> <<\hE0 + (char \div 4096), \h80 + ((char \div 64) % 64), \h80 + (char % 64)>>

Start == [read |-> 0, output |-> <<>>, written |-> 0, input |-> TRUE, disk |-> TRUE]

\* The output file is opened, and emptied, before the charset is looked at.
UnknownCharset ==
    /\ status = "running" /\ job.charset \notin Charsets
    /\ status' = "failed"
    /\ UNCHANGED <<job, work>>

NextByte == job.text[work.read + 1]
CanRead == status = "running" /\ job.charset \in Charsets /\ work.read < Len(job.text)
More == work.output \o Bytes(Char(job.charset, NextByte))

\* The stream passes on what it likes of the bytes it has.
Convert ==
    /\ CanRead /\ Char(job.charset, NextByte) # Undefined
    /\ \E n \in work.written..Len(More) :
        work' = [work EXCEPT !.read = @ + 1, !.output = More, !.written = n]
    /\ UNCHANGED <<job, status>>

\* A write fails, of this character or of those the stream still has.
WriteFails ==
    /\ CanRead /\ Char(job.charset, NextByte) # Undefined
    /\ \E n \in work.written..Len(More) - 1 :
        work' = [work EXCEPT !.read = @ + 1, !.output = More, !.written = n, !.disk = FALSE]
    /\ status' = "failed"
    /\ UNCHANGED job

\* fclose, and exit() when the program returns early, pass on the rest; nobody
\* looks whether they could.
Closed(w) == {[w EXCEPT !.written = n, !.disk = @ /\ n = Len(w.output)] : n \in w.written..Len(w.output)}

UndefinedByte ==
    /\ CanRead /\ Char(job.charset, NextByte) = Undefined
    /\ work' \in Closed(work)
    /\ status' = "failed"
    /\ UNCHANGED job

EndOfFile ==
    /\ status = "running" /\ job.charset \in Charsets /\ work.read = Len(job.text)
    /\ work' \in Closed(work)
    /\ status' = "done"
    /\ UNCHANGED job

\* fgetc returns EOF also when reading fails, and the program ends as at the end.
ReadFails ==
    /\ CanRead
    /\ work' \in Closed([work EXCEPT !.input = FALSE])
    /\ status' = "done"
    /\ UNCHANGED job

Next ==
    /\ job.program = "encoding"
    /\ UnknownCharset \/ Convert \/ WriteFails \/ UndefinedByte \/ EndOfFile \/ ReadFails

-----------------------------------------------------------------------------
\* A decoder of UTF-8: the characters, the bytes the last one lacks, and its bits so far.
DecodeByte(byte, seen) ==
    CASE byte < \h80 -> [seen EXCEPT !.chars = Append(@, byte), !.valid = @ /\ seen.lacks = 0]
      [] byte \in \h80..\hBF ->
            LET bits == 64 * seen.bits + byte - \h80
            IN [seen EXCEPT !.valid = @ /\ seen.lacks > 0, !.lacks = @ - 1, !.bits = bits,
                            !.chars = IF seen.lacks = 1 THEN Append(@, bits) ELSE @]
      [] byte \in \hC2..\hDF ->
            [seen EXCEPT !.valid = @ /\ seen.lacks = 0, !.lacks = 1, !.bits = byte - \hC0]
      [] byte \in \hE0..\hEF ->
            [seen EXCEPT !.valid = @ /\ seen.lacks = 0, !.lacks = 2, !.bits = byte - \hE0]
      [] OTHER -> [seen EXCEPT !.valid = FALSE]
Decoded(bytes) ==
    LET seen[n \in 0..Len(bytes)] ==
          IF n = 0 THEN [chars |-> <<>>, lacks |-> 0, bits |-> 0, valid |-> TRUE]
          ELSE DecodeByte(bytes[n], seen[n - 1])
    IN seen[Len(bytes)]

InFile == Decoded(SubSeq(work.output, 1, work.written))

(* The file is UTF-8 of the beginning of the text: from each character in  *)
(* it the byte it was written for can be told.  When the program ends and  *)
(* no read or write has failed nothing is missing or cut, and it stopped   *)
(* early only at a byte the charset does not define.                       *)
TextRecoverable ==
    /\ InFile.valid /\ Len(InFile.chars) <= work.read
    /\ \A i \in DOMAIN InFile.chars :
        {b \in 0..255 : Char(job.charset, b) = InFile.chars[i]} = {job.text[i]}
    /\ status # "running" /\ work.input /\ work.disk /\ job.charset \in Charsets =>
        /\ Len(InFile.chars) = work.read /\ InFile.lacks = 0
        /\ status = "done" => work.read = Len(job.text)
        /\ status = "failed" => Char(job.charset, NextByte) = Undefined

(* Each charset has all the letters of the Russian alphabet.               *)
LettersDefined ==
    \A charset \in Charsets :
        (\h410..\h44F) \cup {\h401, \h451} \subseteq {Char(charset, b) : b \in 128..255}
=============================================================================
