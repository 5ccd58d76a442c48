--------------------------- MODULE ArchiveSearch ---------------------------
(***************************************************************************)
(* The archive in a picture of hw1_rarjpeg (main.c): find_eocdr looks for  *)
(* the end record of a zip archive from the end of the file backwards, and *)
(* print_cfhs lists the central directory in front of it.                  *)
(*                                                                         *)
(* A file is a sequence of cells, each some bytes of one meaning: a        *)
(* signature, the fields behind it, a name, or "noise".  The end record is *)
(* two cells, its signature and its fields; a file header is its           *)
(* signature, its fields and its name, then its extra data and comment.    *)
(***************************************************************************)
EXTENDS Integers, SequencesExt

CONSTANT MAX_BACK_OFFSET    \* cells find_eocdr goes back

VARIABLES
    job,    \* [program, file: the cells, members: those of its archive, archive: has it one]
    work,   \* [back: back_offset, at: the position in the file, left: entries to print,
            \*  printed: the names]
    status  \* "searching", "listing"; "none", "empty", "bad", "done" or "undefined"

Cell(kind) == [kind |-> kind]
Noise(n) == [i \in 1..n |-> Cell("noise")]
Header(m) ==
    <<Cell("CFH_SIGNATURE"),
      [kind |-> "cfh", name_len |-> m.len, extra_len |-> m.extra, comment_len |-> m.comment],
      [kind |-> "name", name |-> m.name]>> \o Noise(m.extra + m.comment)
Directory(members) == FlattenSeq([i \in DOMAIN members |-> Header(members[i])])
EndRecord(members) ==
    <<Cell("EOCDR_SIGNATURE"),
      [kind |-> "eocdr", cd_entries |-> Len(members), cd_size |-> Len(Directory(members))]>>

\* An archive behind a picture; offsets inside it count from its own start.
Rarjpeg(picture, members, comment) ==
    picture \o Directory(members) \o EndRecord(members) \o Noise(comment)

\* A file ends in an archive with no longer a comment than is searched, or has
\* no end record there.
Member == [name : STRING, len : Nat, extra : Nat, comment : Nat]
AnyCell == [kind : STRING] \cup [kind : {"name"}, name : STRING]
           \cup [kind : {"cfh"}, name_len : Nat, extra_len : Nat, comment_len : Nat]
           \cup [kind : {"eocdr"}, cd_entries : Nat, cd_size : Nat]
IsInput(j) ==
    /\ j \in [program : {"rarjpeg"}, file : Seq(AnyCell), members : Seq(Member),
             archive : BOOLEAN]
    /\ j.archive => \E n \in 0..Len(j.file), comment \in 0..MAX_BACK_OFFSET :
                       j.file = Rarjpeg(SubSeq(j.file, 1, n), j.members, comment)
    /\ ~j.archive => \A i \in 1..Len(j.file) - 1 :
                       Len(j.file) - 1 - i <= MAX_BACK_OFFSET => j.file[i].kind # "EOCDR_SIGNATURE"

EOCDR_BASE_SZ == 2
Start == [back |-> 0, at |-> 0, left |-> 0, printed |-> <<>>]
At(position) == job.file[position + 1]

-----------------------------------------------------------------------------
CanSearch ==
    work.back <= MAX_BACK_OFFSET /\ EOCDR_BASE_SZ + work.back <= Len(job.file)
SearchStart == Len(job.file) - EOCDR_BASE_SZ - work.back

NoArchive ==
    /\ status = "searching" /\ ~CanSearch
    /\ status' = "none"
    /\ UNCHANGED <<job, work>>

StepBack ==
    /\ status = "searching" /\ CanSearch /\ At(SearchStart).kind # "EOCDR_SIGNATURE"
    /\ work' = [work EXCEPT !.back = @ + 1]
    /\ UNCHANGED <<job, status>>

\* The offset in the record is replaced: the directory ends where the record starts.
Found ==
    /\ status = "searching" /\ CanSearch /\ At(SearchStart).kind = "EOCDR_SIGNATURE"
    /\ LET eocdr == At(SearchStart + 1)
       IN /\ work' = [work EXCEPT !.at = SearchStart - eocdr.cd_size, !.left = eocdr.cd_entries]
          /\ status' = IF eocdr.cd_entries = 0 THEN "empty" ELSE "listing"
    /\ UNCHANGED job

CanPrint == status = "listing" /\ work.left > 0 /\ At(work.at).kind = "CFH_SIGNATURE"
file_header == At(work.at + 1)

\* The lengths of a name for which it and its NUL fit in filename and its last
\* character is in it.
NameLengths == 1..255

PrintEntry ==
    /\ CanPrint /\ file_header.name_len \in NameLengths
    /\ work' = [work EXCEPT
            !.left = @ - 1,
            !.printed = Append(@, At(work.at + 2).name),
            !.at = @ + 3 + file_header.extra_len + file_header.comment_len]
    /\ UNCHANGED <<job, status>>

\* The name is read past the end of filename, or filename[-1] is looked at.
NameMisfits ==
    /\ CanPrint /\ file_header.name_len \notin NameLengths
    /\ status' = "undefined"
    /\ UNCHANGED <<job, work>>

BadSignature ==
    /\ status = "listing" /\ work.left > 0 /\ At(work.at).kind # "CFH_SIGNATURE"
    /\ status' = "bad"
    /\ UNCHANGED <<job, work>>

Listed ==
    /\ status = "listing" /\ work.left = 0
    /\ status' = "done"
    /\ UNCHANGED <<job, work>>

Next ==
    /\ job.program = "rarjpeg"
    /\ \/ NoArchive \/ StepBack \/ Found
       \/ PrintEntry \/ NameMisfits \/ BadSignature \/ Listed

-----------------------------------------------------------------------------
(* An archive behind a picture is found, with a comment or without, also   *)
(* when the picture holds another archive, and its members are listed, all *)
(* and in order, up to the first name of no byte or of more than 255; a    *)
(* file that does not end in an archive is not taken for one.              *)
ArchiveListed ==
    /\ status \in {"none", "empty", "bad", "done"} =>
         status = IF ~job.archive THEN "none" ELSE IF job.members = <<>> THEN "empty" ELSE "done"
    /\ work.printed = [i \in 1..Len(work.printed) |-> job.members[i].name]
    /\ status = "done" => Len(work.printed) = Len(job.members)
    /\ status = "undefined" =>
         /\ job.archive /\ Len(work.printed) < Len(job.members)
         /\ job.members[Len(work.printed) + 1].len \notin NameLengths
=============================================================================
