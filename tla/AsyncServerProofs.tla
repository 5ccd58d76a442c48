------------------------- MODULE AsyncServerProofs -------------------------
(***************************************************************************)
(* The server of hw12, for every size and any number of connections, in    *)
(* two parts.  The first is about handle_request: the answer fits, its     *)
(* status is the one promised, and what it leaves in the client record is  *)
(* what the event loop expects of it (IsOutcome).  The second is about the *)
(* event loop, which takes that for granted, and ends with its refinement  *)
(* of HttpExchange.                                                        *)
(***************************************************************************)
EXTENDS AsyncServer, HttpRequest, Induction, SequenceTheorems

-----------------------------------------------------------------------------
(* The table of handle_request *)

LEMMA FirstOfRow ==
    ASSUME NEW rows, NEW n \in Nat, DOMAIN rows = 1..n, NEW otherwise,
           NEW i \in 1..n, rows[i][1], \A j \in 1..n : j < i => ~rows[j][1]
    PROVE  FirstOf(rows, otherwise) = rows[i][2]
<1> DEFINE hits == {j \in DOMAIN rows : rows[j][1]}
<1>1. hits \in SUBSET Nat /\ hits # {} /\ i \in hits
  OBVIOUS
<1>2. Min(hits) \in hits /\ \A y \in hits : Min(hits) <= y
  BY <1>1, MinIs
<1>3. Min(hits) \in 1..n /\ rows[Min(hits)][1] /\ Min(hits) <= i
  BY <1>1, <1>2
<1>4. Min(hits) = i
  <2> HIDE DEF hits
  <2>. QED
    BY <1>3
<1>. QED
  BY <1>1, <1>4 DEF FirstOf

LEMMA FirstOfNone ==
    ASSUME NEW rows, NEW n \in Nat, DOMAIN rows = 1..n, NEW otherwise,
           \A j \in 1..n : ~rows[j][1]
    PROVE  FirstOf(rows, otherwise) = otherwise
BY DEF FirstOf

\* The conditions of handle_request, in their order.
LEMMA Decision ==
    ASSUME NEW rq, NEW os, rq.get \in BOOLEAN, rq.space \in BOOLEAN
    PROVE  LET path == url_decode(rq.path)
               full == RootLen + Len(path)
               isdir == os.first = "dir"
               index == isdir /\ path # <<"/">> /\ os.index \notin Missing
               answer == handle_request(rq, os)
           IN IF ~rq.get THEN answer = Text(405)
              ELSE IF ~rq.space THEN answer = Text(400)
              ELSE IF TooLong(rq.path) THEN answer = Text(414)
              ELSE IF Climbs(rq.path) THEN answer = Text(403)
              ELSE IF full >= PATH_MAX THEN answer = Text(414)
              ELSE IF isdir /\ path = <<"/">> THEN answer = send_dir_listing(os, path)
              ELSE IF isdir /\ full + IndexLen >= PATH_MAX THEN answer = Text(414)
              ELSE IF isdir /\ ~index THEN answer = send_dir_listing(os, path)
              ELSE IF os.again \in Missing THEN answer = Text(404)
              ELSE IF os.again # "reg" \/ ~os.access \/ ~os.open THEN answer = Text(403)
              ELSE answer = send_file_response(os.size)
<1> DEFINE path == url_decode(rq.path)
           full == RootLen + Len(path)
           isdir == os.first = "dir"
           index == isdir /\ path # <<"/">> /\ os.index \notin Missing
           rows == <<
             <<~rq.get, Text(405)>>,
             <<~rq.space, Text(400)>>,
             <<TooLong(rq.path), Text(414)>>,
             <<Climbs(rq.path), Text(403)>>,
             <<full >= PATH_MAX, Text(414)>>,
             <<isdir /\ path = <<"/">>, send_dir_listing(os, path)>>,
             <<isdir /\ full + IndexLen >= PATH_MAX, Text(414)>>,
             <<isdir /\ ~index, send_dir_listing(os, path)>>,
             <<os.again \in Missing, Text(404)>>,
             <<os.again # "reg" \/ ~os.access \/ ~os.open, Text(403)>> >>
<1>1. DOMAIN rows = 1..10
  OBVIOUS
<1>2. handle_request(rq, os) = FirstOf(rows, send_file_response(os.size))
  BY DEF handle_request
<1>3. /\ (rows[1][1] <=> (~rq.get)) /\ rows[1][2] = Text(405)
      /\ (rows[2][1] <=> (~rq.space)) /\ rows[2][2] = Text(400)
      /\ (rows[3][1] <=> (TooLong(rq.path))) /\ rows[3][2] = Text(414)
      /\ (rows[4][1] <=> (Climbs(rq.path))) /\ rows[4][2] = Text(403)
      /\ (rows[5][1] <=> (full >= PATH_MAX)) /\ rows[5][2] = Text(414)
      /\ (rows[6][1] <=> (isdir /\ path = <<"/">>)) /\ rows[6][2] = send_dir_listing(os, path)
      /\ (rows[7][1] <=> (isdir /\ full + IndexLen >= PATH_MAX)) /\ rows[7][2] = Text(414)
      /\ (rows[8][1] <=> (isdir /\ ~index)) /\ rows[8][2] = send_dir_listing(os, path)
      /\ (rows[9][1] <=> (os.again \in Missing)) /\ rows[9][2] = Text(404)
      /\ (rows[10][1] <=> (os.again # "reg" \/ ~os.access \/ ~os.open)) /\ rows[10][2] = Text(403)
  OBVIOUS
<1> HIDE DEF rows
<1>4. ASSUME NEW i \in 1..10, rows[i][1], \A j \in 1..10 : j < i => ~rows[j][1]
      PROVE  handle_request(rq, os) = rows[i][2]
  BY <1>1, <1>2, <1>4, FirstOfRow
<1>5. (\A j \in 1..10 : ~rows[j][1]) => handle_request(rq, os) = send_file_response(os.size)
  BY <1>1, <1>2, FirstOfNone
<1>. QED
  BY <1>3, <1>4, <1>5

-----------------------------------------------------------------------------
(* The listing of a directory *)

\* No more rows than entries.
LEMMA RowsType ==
    ASSUME NEW os, os.entries \in Seq(Entry), NEW path
    PROVE  Rows(os, path) \in Seq(Entry) /\ Len(Rows(os, path)) <= Len(os.entries)
<1> DEFINE seq == os.entries
           n == Len(seq)
           S == Seq(Entry)
           step == [i \in 1..n |-> [rows \in S |->
                      IF Listed(path, seq[i]) THEN Append(rows, seq[i]) ELSE rows]]
           Fold(f) == f = [s \in SUBSET DOMAIN seq |->
                             IF s = {} THEN <<>>
                             ELSE IF Listed(path, seq[Max(s)])
                                  THEN Append(f[s \ {Max(s)}], seq[Max(s)])
                                  ELSE f[s \ {Max(s)}]]
           G == CHOOSE f : Fold(f)
<1>1. n \in Nat /\ DOMAIN seq = 1..n /\ <<>> \in S /\ \A i \in 1..n : seq[i] \in Entry
  OBVIOUS
<1>2. step \in [1..n -> [S -> S]]
  <2>1. \A rows \in S, i \in 1..n : Append(rows, seq[i]) \in S
    BY <1>1
  <2> HIDE DEF S
  <2>. QED
    BY <2>1
<1>3. Rows(os, path) = G[1..n]
  BY <1>1 DEF Rows, FoldLeft, MapThenFoldSet
<1>4. PICK g \in [SUBSET (1..n) -> S] : IsFold(g, <<>>, step, n)
  <2> HIDE DEF S, step
  <2>. QED
    BY <1>1, <1>2, FoldExists
<1>5. ASSUME NEW s \in SUBSET (1..n), s # {}
      PROVE  Max(s) \in 1..n /\ s \ {Max(s)} \in SUBSET (1..n)
  BY <1>1, <1>5, LastOf
<1>6. Fold(g)
  <2>1. \A s \in SUBSET (1..n) : s # {} => g[s \ {Max(s)}] \in S
    BY <1>4, <1>5
  <2>2. \A s \in SUBSET (1..n) : s # {} =>
           step[Max(s)][g[s \ {Max(s)}]] = IF Listed(path, seq[Max(s)])
                                          THEN Append(g[s \ {Max(s)}], seq[Max(s)])
                                          ELSE g[s \ {Max(s)}]
    <3> HIDE DEF S
    <3>. QED
      BY <1>5, <2>1
  <2> HIDE DEF S, step
  <2>. QED
    BY <1>1, <1>4, <2>2 DEF IsFold
<1>7. Fold(G)
  BY <1>6
<1> HIDE DEF G, step
<1>8. G[1..0] = <<>>
  BY <1>1, <1>7
<1>9. ASSUME NEW k \in Nat, k + 1 \in 1..n
      PROVE  G[1..k + 1] = IF Listed(path, seq[k + 1]) THEN Append(G[1..k], seq[k + 1]) ELSE G[1..k]
  <2>1. Max(1..k + 1) = k + 1 /\ (1..k + 1) \ {k + 1} = 1..k
    BY LastOfPrefix
  <2>2. 1..k + 1 \in SUBSET DOMAIN seq /\ 1..k + 1 # {}
    BY <1>1, <1>9
  <2>. QED
    BY <1>7, <2>1, <2>2
<1> DEFINE R(k) == G[1..k]
           Short(k) == R(k) \in Seq(Entry) /\ Len(R(k)) <= k
           T == {k \in Nat : k <= n => Short(k)}
<1>10. R(0) = <<>> /\ \A k \in Nat : k + 1 \in 1..n =>
          R(k + 1) = IF Listed(path, seq[k + 1]) THEN Append(R(k), seq[k + 1]) ELSE R(k)
  BY <1>8, <1>9
<1> HIDE DEF R
<1>11. 0 \in T
  <2>1. <<>> \in Seq(Entry) /\ Len(<<>>) = 0
    OBVIOUS
  <2>2. R(0) \in Seq(Entry) /\ Len(R(0)) = 0
    BY <1>10, <2>1, Zenon
  <2>3. Short(0)
    BY <2>2
  <2> HIDE DEF Short
  <2>. QED
    BY <2>3
<1>12. ASSUME NEW k \in Nat, k \in T PROVE k + 1 \in T
  <2>1. ASSUME k + 1 <= n PROVE Short(k + 1)
    <3>1. k + 1 \in 1..n /\ R(k) \in Seq(Entry) /\ Len(R(k)) <= k
      BY <1>12, <2>1
    <3>2. seq[k + 1] \in Entry
      BY <1>1, <3>1
    <3>3. /\ Append(R(k), seq[k + 1]) \in Seq(Entry)
          /\ Len(Append(R(k), seq[k + 1])) = Len(R(k)) + 1
      BY <3>1, <3>2
    <3>4. Len(R(k)) \in Nat
      BY <3>1
    <3>5. R(k + 1) = Append(R(k), seq[k + 1]) \/ R(k + 1) = R(k)
      BY <1>10, <3>1
    <3>. QED
      BY <3>1, <3>3, <3>4, <3>5
  <2> HIDE DEF Short
  <2>. QED
    BY <2>1
<1>13. n \in T
  <2> HIDE DEF T
  <2>. QED
    BY <1>1, <1>11, <1>12, CountingUp
<1>. QED
  BY <1>1, <1>3, <1>13 DEF R

\* The length of a page with some rows.
LEMMA OffsetType ==
    ASSUME NEW rows \in Seq(Entry), NEW path, Len(path) \in Nat, NEW k \in 0..Len(rows)
    PROVE  Offset(rows, path, k) \in Nat
<1> DEFINE seq == SubSeq(rows, 1, k)
           Add(n, e) == n + RowLen + LinkLen(path, e) + e.len + (IF e.dir THEN 2 ELSE 0)
           base == PrefixLen + 2 * Len(path)
           step == [i \in 1..k |-> [n \in Nat |-> Add(n, seq[i])]]
           Fold(f) == f = [s \in SUBSET DOMAIN seq |->
                             IF s = {} THEN base ELSE Add(f[s \ {Max(s)}], seq[Max(s)])]
           G == CHOOSE f : Fold(f)
<1>1. k \in Nat /\ seq \in Seq(Entry) /\ DOMAIN seq = 1..k /\ \A i \in 1..k : seq[i] \in Entry
  OBVIOUS
<1>2. base \in Nat
  BY LengthAssumption
<1>3. \A n \in Nat, i \in 1..k : Add(n, seq[i]) \in Nat
  <2>1. \A e \in Entry : LinkLen(path, e) \in Nat /\ e.len \in Nat
    BY DEF LinkLen, Entry
  <2>2. RowLen \in Nat
    BY LengthAssumption
  <2>. QED
    BY <1>1, <2>1, <2>2
<1>4. Offset(rows, path, k) = G[1..k]
  BY <1>1 DEF Offset, FoldLeft, MapThenFoldSet
<1> HIDE DEF Add, base, seq
<1>5. step \in [1..k -> [Nat -> Nat]]
  BY <1>3
<1>6. PICK g \in [SUBSET (1..k) -> Nat] : IsFold(g, base, step, k)
  <2> HIDE DEF step
  <2>. QED
    BY <1>1, <1>2, <1>5, FoldExists
<1>7. Fold(g)
  <2>1. \A s \in SUBSET (1..k) : s # {} =>
           Max(s) \in 1..k /\ s \ {Max(s)} \in SUBSET (1..k)
    BY <1>1, LastOf
  <2>2. \A s \in SUBSET (1..k) : s # {} =>
           step[Max(s)][g[s \ {Max(s)}]] = Add(g[s \ {Max(s)}], seq[Max(s)])
    BY <1>6, <2>1
  <2> HIDE DEF step
  <2>. QED
    BY <1>1, <1>6, <2>2 DEF IsFold
<1>8. Fold(G)
  BY <1>7
<1> HIDE DEF G, step
<1>9. G[1..0] = base
  BY <1>1, <1>8
<1>10. ASSUME NEW j \in Nat, j + 1 \in 1..k
       PROVE  G[1..j + 1] = Add(G[1..j], seq[j + 1])
  <2>1. Max(1..j + 1) = j + 1 /\ (1..j + 1) \ {j + 1} = 1..j
    BY LastOfPrefix
  <2>2. 1..j + 1 \in SUBSET DOMAIN seq /\ 1..j + 1 # {}
    BY <1>1, <1>10
  <2>. QED
    BY <1>8, <2>1, <2>2
<1> DEFINE T == {j \in Nat : j <= k => G[1..j] \in Nat}
<1>11. 0 \in T
  BY <1>2, <1>9
<1>12. ASSUME NEW j \in Nat, j \in T PROVE j + 1 \in T
  <2>1. ASSUME j + 1 <= k PROVE G[1..j + 1] \in Nat
    <3>1. j + 1 \in 1..k /\ G[1..j] \in Nat
      BY <1>12, <2>1
    <3>. QED
      BY <1>3, <1>10, <3>1
  <2>. QED
    BY <2>1
<1>13. k \in T
  <2> HIDE DEF T
  <2>. QED
    BY <1>1, <1>11, <1>12, CountingUp
<1>. QED
  BY <1>1, <1>4, <1>13

Statuses == {0, 200, 400, 403, 404, 405, 414}

\* An answer that fits into the buffer.
Fits(answer) ==
    /\ IsOutcome(AsOutcome(answer))
    /\ answer.state \in {"READING", "WRITING", "CLOSING"}
    /\ answer.status \in Statuses
    /\ answer.response_len \in 0..BUFFER_SIZE

LEMMA SendFits ==
    ASSUME NEW status \in Statuses, NEW body_len \in Nat
    PROVE  /\ Fits(send_response(status, body_len))
           /\ send_response(status, body_len).status = status
           /\ send_response(status, body_len).state = "WRITING"
           /\ send_response(status, body_len).listed = 0
<1> DEFINE n == HeaderLen + IF HeaderLen + body_len <= BUFFER_SIZE THEN body_len ELSE 0
           answer == send_response(status, body_len)
<1>1. HeaderLen \in Nat \ {0} /\ TextLen \in Nat /\ BUFFER_SIZE \in Nat /\ HeaderLen + TextLen <= BUFFER_SIZE
  BY LengthAssumption
<1>2. n \in 0..BUFFER_SIZE /\ n \in Nat /\ n > 0
  BY <1>1
<1>3. /\ answer.state = "WRITING" /\ answer.status = status /\ answer.response_len = n
      /\ answer.file = FALSE /\ answer.file_size = 0 /\ answer.listed = 0
  BY DEF send_response, Closed
<1> HIDE DEF n, answer
<1>4. IsOutcome(AsOutcome(answer))
  <2>1. AsOutcome(answer) = [state |-> "WRITING", response_len |-> n, file |-> FALSE, file_size |-> 0]
    BY <1>3 DEF AsOutcome
  <2>. QED
    BY <1>2, <2>1 DEF IsOutcome, Outcome
<1>. QED
  BY <1>2, <1>3, <1>4 DEF Fits, answer

LEMMA TextFits ==
    ASSUME NEW status \in Statuses
    PROVE  Fits(Text(status)) /\ Text(status).status = status
           /\ Text(status).state = "WRITING" /\ Text(status).listed = 0
<1>1. TextLen \in Nat
  BY LengthAssumption
<1>. QED
  BY <1>1, SendFits DEF Text

\* The page ends where the rows stop to fit; an answer of another size is not
\* given.
LEMMA ListingFits ==
    ASSUME NEW os, os.entries \in Seq(Entry), NEW path, Len(path) \in Nat
    PROVE  LET answer == send_dir_listing(os, path)
           IN /\ Fits(answer) /\ answer.listed \in 0..Len(os.entries)
              /\ IF ~os.opendir THEN answer = Text(403)
                 ELSE \/ answer.state = "CLOSING" /\ answer.status = 0
                      \/ answer.state = "WRITING" /\ answer.status = 200
<1> DEFINE rows == Rows(os, path)
           fit == Fitting(rows, path)
           page == Offset(rows, path, Max(fit)) + FooterLen
           answer == send_dir_listing(os, path)
<1>1. rows \in Seq(Entry) /\ Len(rows) <= Len(os.entries) /\ Len(rows) \in Nat /\ Len(os.entries) \in Nat
  <2>1. rows \in Seq(Entry) /\ Len(rows) <= Len(os.entries)
    BY RowsType
  <2> HIDE DEF rows
  <2>. QED
    BY <2>1
<1>2. CASE ~os.opendir
  <2>1. answer = Text(403)
    BY <1>2 DEF send_dir_listing
  <2>. QED
    BY <1>1, <1>2, <2>1, TextFits DEF Statuses
<1>3. CASE os.opendir /\ fit = {}
  <2>1. answer = Closed
    BY <1>3 DEF send_dir_listing
  <2>2. BUFFER_SIZE \in Nat
    BY LengthAssumption
  <2>. QED
    BY <1>1, <1>3, <2>1, <2>2 DEF Closed, Fits, Statuses, AsOutcome, IsOutcome, Outcome
<1>4. CASE os.opendir /\ fit # {}
  <2>1. fit \in SUBSET Nat /\ \A k \in fit : k <= Len(rows)
    BY <1>1 DEF Fitting
  <2>2. Max(fit) \in fit
    BY <1>1, <1>4, <2>1, MaxIs
  <2>3. Max(fit) \in 0..Len(rows)
    BY <2>2 DEF Fitting
  <2>4. Offset(rows, path, Max(fit)) \in Nat
    BY <1>1, <2>3, OffsetType
  <2>5. page \in Nat
    BY <2>4, LengthAssumption
  <2>6. CASE page >= BUFFER_SIZE
    <3>1. answer = Closed
      BY <1>4, <2>6 DEF send_dir_listing
    <3>2. BUFFER_SIZE \in Nat
      BY LengthAssumption
    <3>. QED
      BY <1>1, <1>4, <3>1, <3>2 DEF Closed, Fits, Statuses, AsOutcome, IsOutcome, Outcome
  <2>7. CASE ~(page >= BUFFER_SIZE)
    <3>1. answer = [send_response(200, page) EXCEPT !.listed = Max(fit)]
      BY <1>4, <2>7 DEF send_dir_listing
    <3>2. Fits(send_response(200, page)) /\ send_response(200, page).status = 200
          /\ send_response(200, page).state = "WRITING"
      BY <2>5, SendFits DEF Statuses
    <3> HIDE DEF page, fit
    <3>3. /\ AsOutcome(answer) = AsOutcome(send_response(200, page))
          /\ answer.state = send_response(200, page).state
          /\ answer.status = send_response(200, page).status
          /\ answer.response_len = send_response(200, page).response_len
          /\ answer.listed = Max(fit)
      BY <3>1 DEF send_response, Closed, AsOutcome
    <3>4. Max(fit) \in 0..Len(os.entries)
      BY <1>1, <2>3
    <3>. QED
      BY <1>4, <3>2, <3>3, <3>4 DEF Fits
  <2>. QED
    BY <2>6, <2>7
<1>. QED
  BY <1>2, <1>3, <1>4

-----------------------------------------------------------------------------
(* The request *)

IsCase(rq, os) ==
    /\ rq.get \in BOOLEAN /\ rq.space \in BOOLEAN
    /\ os.access \in BOOLEAN /\ os.open \in BOOLEAN /\ os.opendir \in BOOLEAN
    /\ rq.path \in Seq(ToSet(rq.path)) /\ os.entries \in Seq(Entry)
    /\ os.size \in Nat

\* There is one answer, and it is the one of handle_request.
AnswerInv ==
    /\ IsCase(request, answers)
    /\ response = NoResponse \/ response = handle_request(request, answers)

\* What url_decode leaves is a string.
LEMMA PathType ==
    ASSUME NEW raw, raw \in Seq(ToSet(raw))
    PROVE  Len(url_decode(raw)) \in Nat
<1> DEFINE chars == [i \in DOMAIN raw |-> IF raw[i].ch = "+" /\ ~raw[i].esc THEN " " ELSE raw[i].ch]
           C == {chars[i] : i \in DOMAIN raw}
           m == Min({Len(raw), MAX_PATH_LEN - 1})
           whole == SubSeq(chars, 1, m)
           nuls == {i \in 1..Len(whole) : whole[i] = "NUL"}
<1>1. DOMAIN raw = 1..Len(raw) /\ Len(raw) \in Nat
  OBVIOUS
<1>2. m \in 0..Len(raw)
  <2> DEFINE two == {Len(raw), MAX_PATH_LEN - 1}
  <2>1. two \in SUBSET Nat /\ two # {} /\ Len(raw) \in two
    BY <1>1, LengthAssumption
  <2>2. Min(two) \in two /\ \A y \in two : Min(two) <= y
    BY <2>1, MinIs
  <2>3. m = Min(two)
    OBVIOUS
  <2> HIDE DEF m, two
  <2>4. m \in Nat /\ m <= Len(raw)
    BY <2>1, <2>2, <2>3
  <2>. QED
    BY <1>1, <2>4
<1>3. whole \in Seq(C) /\ Len(whole) \in Nat
  <2>1. \A i \in DOMAIN raw : chars[i] \in C
    OBVIOUS
  <2> HIDE DEF chars, C, m
  <2>2. \A i \in 1..m : chars[i] \in C
    BY <1>1, <1>2, <2>1
  <2>3. whole \in Seq(C)
    BY <1>2, <2>2, SubSeqProperties
  <2> HIDE DEF whole
  <2>. QED
    BY <2>3
<1>4. url_decode(raw) = IF nuls = {} THEN whole ELSE IF Min(nuls) = 0 THEN whole ELSE SubSeq(whole, 1, Min(nuls) - 1)
  BY DEF url_decode, SelectInSeq
<1> HIDE DEF whole, C
<1>5. nuls # {} => Min(nuls) \in 1..Len(whole)
  <2>1. nuls \in SUBSET Nat
    BY <1>3
  <2>. QED
    BY <2>1, MinIs
<1>6. nuls # {} => Len(SubSeq(whole, 1, Min(nuls) - 1)) \in Nat
  BY <1>3, <1>5
<1>. QED
  BY <1>3, <1>4, <1>6

\* Every answer fits and lists no more than there is.
LEMMA AnswerFits ==
    ASSUME NEW rq, NEW os, IsCase(rq, os)
    PROVE  Fits(handle_request(rq, os)) /\ handle_request(rq, os).listed \in 0..Len(os.entries)
<1> DEFINE path == url_decode(rq.path)
           answer == handle_request(rq, os)
<1>1. rq.get \in BOOLEAN /\ rq.space \in BOOLEAN /\ os.entries \in Seq(Entry) /\ Len(path) \in Nat
  BY PathType DEF IsCase
<1>2. \/ \E status \in {403, 404, 405, 400, 414} : answer = Text(status)
      \/ answer = send_dir_listing(os, path)
      \/ answer = send_file_response(os.size)
  BY <1>1, Decision
<1>3. Len(os.entries) \in Nat
  BY <1>1
<1>4. ASSUME NEW status \in {403, 404, 405, 400, 414}, answer = Text(status)
      PROVE  Fits(answer) /\ answer.listed \in 0..Len(os.entries)
  <2>1. status \in Statuses
    BY DEF Statuses
  <2> HIDE DEF answer
  <2>. QED
    BY <1>3, <1>4, <2>1, TextFits
<1>5. CASE answer = send_dir_listing(os, path)
  <2> HIDE DEF path
  <2>. QED
    BY <1>1, <1>5, ListingFits
<1>6. CASE answer = send_file_response(os.size)
  <2>1. /\ HeaderLen \in Nat \ {0} /\ BUFFER_SIZE \in Nat /\ HeaderLen <= BUFFER_SIZE
        /\ os.size \in Nat
    BY LengthAssumption DEF IsCase
  <2> DEFINE reply == send_file_response(os.size)
  <2>2. /\ reply.state = "WRITING" /\ reply.status = 200 /\ reply.response_len = HeaderLen
        /\ reply.listed = 0 /\ reply.file = TRUE /\ reply.file_size = os.size
    BY DEF send_file_response, Closed
  <2> HIDE DEF reply
  <2>3. IsOutcome(AsOutcome(reply))
    <3>1. AsOutcome(reply) = [state |-> "WRITING", response_len |-> HeaderLen,
                              file |-> TRUE, file_size |-> os.size]
      BY <2>2 DEF AsOutcome
    <3>. QED
      BY <2>1, <3>1 DEF IsOutcome, Outcome
  <2>4. Fits(reply) /\ reply.listed \in 0..Len(os.entries)
    BY <1>3, <2>1, <2>2, <2>3 DEF Fits, Statuses
  <2>. QED
    BY <1>6, <2>4 DEF reply
<1>. QED
  BY <1>2, <1>4, <1>5, <1>6

\* The answer is given once and not changed.
LEMMA AnswerAlways == RequestSpec => []AnswerInv
<1>1. Arrival => AnswerInv
  <2>1. ASSUME NEW case \in Cases PROVE IsCase(case[1], case[2])
    BY CaseAssumption DEF IsCase
  <2>. QED
    BY <2>1 DEF Arrival, AnswerInv
<1>2. AnswerInv /\ [HandleRequest]_<<request, answers, response>> => AnswerInv'
  BY DEF AnswerInv, HandleRequest
<1>. QED
  BY <1>1, <1>2, PTL DEF RequestSpec

(* handle_request writes no more than client->buffer holds, whatever the     *)
(* length of the path and the names in the directory.                        *)
THEOREM AnswerFitsBuffer == RequestSpec => []AnswerInBounds
<1>1. AnswerInv => AnswerInBounds
  <2>1. ASSUME AnswerInv, response = NoResponse PROVE AnswerInBounds
    <3>1. Len(answers.entries) \in Nat
      BY <2>1 DEF AnswerInv, IsCase
    <3>2. BUFFER_SIZE \in Nat
      BY LengthAssumption
    <3>. QED
      BY <2>1, <3>1, <3>2 DEF NoResponse, Closed, AnswerInBounds
  <2>2. ASSUME AnswerInv, response = handle_request(request, answers) PROVE AnswerInBounds
    <3>1. Fits(response) /\ response.listed \in 0..Len(answers.entries)
      BY <2>2, AnswerFits DEF AnswerInv
    <3>. QED
      BY <3>1 DEF Fits, Statuses, AnswerInBounds
  <2>. QED
    BY <2>1, <2>2 DEF AnswerInv
<1>. QED
  BY <1>1, AnswerAlways, PTL

(* What handle_request leaves in the client record is what the event loop    *)
(* is proved for below: OutcomeAssumption holds of every answer.             *)
THEOREM OutcomeAsAssumed == RequestSpec => [](Answered => IsOutcome(AsOutcome(response)))
<1>1. AnswerInv => (Answered => IsOutcome(AsOutcome(response)))
  BY AnswerFits DEF AnswerInv, Answered, Fits
<1>. QED
  BY <1>1, AnswerAlways, PTL

(* The status is the one README.md promises for one of the two moments at    *)
(* which the server looked, for a request of any length and a file system    *)
(* that changes between the calls.                                           *)
THEOREM StatusIsPromised == RequestSpec => []StatusAsPromised
<1>1. ASSUME AnswerInv, Answered, request.space, PathFits(request),
             "denied" \notin {answers.first, answers.index, answers.again}
      PROVE  \/ \E now \in Moments(request, answers) :
                   \/ response.status = Promised(request, now)
                   \/ response.state = "CLOSING" /\ ForList(request, now)
             \/ /\ answers.first = "dir" /\ ~ForList(request, answers)
                /\ answers.again = "absent" /\ response.status = 404
             \/ /\ answers.first # "dir" /\ answers.again = "dir"
                /\ response.status = 403
  <2> DEFINE path == url_decode(request.path)
             isdir == answers.first = "dir"
             index == isdir /\ path # <<"/">> /\ answers.index \notin Missing
             readable == answers.access /\ answers.open
             before == Look(answers.first, answers.index, answers)
             after == IF ForList(request, answers) THEN before
                      ELSE IF isdir THEN Look(answers.first, answers.again, answers)
                      ELSE Look(answers.again, answers.index, answers)
  <2>1. /\ response = handle_request(request, answers) /\ IsCase(request, answers)
        /\ request.get \in BOOLEAN /\ request.space \in BOOLEAN /\ Len(path) \in Nat
    BY <1>1, PathType DEF Answered, AnswerInv, IsCase
  <2>2. \A status \in {400, 403, 404, 405, 414} : Text(status).status = status
    BY TextFits DEF Statuses
  <2>3. IF ~request.get THEN response = Text(405)
        ELSE IF HasDotDot(path) THEN response = Text(403)
        ELSE IF ForList(request, answers) THEN response = send_dir_listing(answers, path)
        ELSE IF answers.again = "absent" THEN response = Text(404)
        ELSE IF answers.again # "reg" \/ ~readable THEN response = Text(403)
        ELSE response = send_file_response(answers.size)
    <3> DEFINE full == RootLen + Len(path)
    <3>1. IF ~request.get THEN response = Text(405)
          ELSE IF ~request.space THEN response = Text(400)
          ELSE IF TooLong(request.path) THEN response = Text(414)
          ELSE IF Climbs(request.path) THEN response = Text(403)
          ELSE IF full >= PATH_MAX THEN response = Text(414)
          ELSE IF isdir /\ path = <<"/">> THEN response = send_dir_listing(answers, path)
          ELSE IF isdir /\ full + IndexLen >= PATH_MAX THEN response = Text(414)
          ELSE IF isdir /\ ~index THEN response = send_dir_listing(answers, path)
          ELSE IF answers.again \in Missing THEN response = Text(404)
          ELSE IF answers.again # "reg" \/ ~answers.access \/ ~answers.open THEN response = Text(403)
          ELSE response = send_file_response(answers.size)
      BY <2>1, Decision
    <3>2. ~TooLong(request.path) /\ full + IndexLen < PATH_MAX
      BY <1>1 DEF PathFits, TooLong
    <3>3. ~(full >= PATH_MAX) /\ ~(full + IndexLen >= PATH_MAX)
      BY <2>1, <3>2, LengthAssumption
    <3>4. Climbs(request.path) <=> HasDotDot(path)
      BY DEF Climbs
    <3>5. /\ ForList(request, answers) <=> isdir /\ (path = <<"/">> \/ ~index)
          /\ answers.again \in Missing <=> answers.again = "absent"
      BY <1>1 DEF ForList, Missing
    <3>6. ~(TooLong(request.path)) /\ request.space
      BY <1>1, <3>2
    <3> HIDE DEF path, isdir, index, full
    <3>7. IF ~request.get THEN response = Text(405)
          ELSE IF HasDotDot(path) THEN response = Text(403)
          ELSE IF isdir /\ (path = <<"/">> \/ ~index) THEN response = send_dir_listing(answers, path)
          ELSE IF answers.again \in Missing THEN response = Text(404)
          ELSE IF answers.again # "reg" \/ ~answers.access \/ ~answers.open THEN response = Text(403)
          ELSE response = send_file_response(answers.size)
      BY ONLY <3>1, <3>3, <3>4, <3>6
    <3>. QED
      BY ONLY <3>5, <3>7
  <2>4. /\ before \in Moments(request, answers) /\ after \in Moments(request, answers)
        /\ before.first = answers.first /\ before.index = answers.index
        /\ ForList(request, before) <=> ForList(request, answers)
        /\ before.opendir = answers.opendir
    BY DEF Moments, Look, ForList
  <2>5. CASE ~request.get
    <3>1. response = Text(405)
      BY <2>5, <2>3
    <3>2. Promised(request, before) = 405
      BY <2>5 DEF Promised
    <3>. QED
      BY <2>2, <2>4, <3>1, <3>2
  <2>6. CASE request.get /\ HasDotDot(path)
    <3>1. response = Text(403)
      BY <2>6, <2>3
    <3>2. Promised(request, before) = 403
      BY <2>6 DEF Promised
    <3>. QED
      BY <2>2, <2>4, <3>1, <3>2
  <2>7. CASE request.get /\ ~HasDotDot(path)
    <3>1. \A os : Promised(request, os) =
             LET found == IF os.first = "dir" THEN os.index ELSE os.first IN
             IF ForList(request, os) THEN (IF os.opendir THEN 200 ELSE 403)
             ELSE IF found = "absent" THEN 404
             ELSE IF found = "reg" /\ os.access THEN 200 ELSE 403
      BY <2>7 DEF Promised
    <3>2. CASE ForList(request, answers)
      <4>1. response = send_dir_listing(answers, path)
        BY <2>7, <2>3, <3>2
      <4>2. answers.entries \in Seq(Entry)
        BY <2>1 DEF IsCase
      <4>3. IF ~answers.opendir THEN response = Text(403)
            ELSE \/ response.state = "CLOSING"
                 \/ response.status = 200
        <5> HIDE DEF path
        <5>. QED
          BY <2>1, <4>1, <4>2, ListingFits
      <4>4. Promised(request, before) = IF answers.opendir THEN 200 ELSE 403
        <5> HIDE DEF before
        <5>. QED
          BY <2>4, <3>1, <3>2
      <4> HIDE DEF before
      <4>. QED
        BY <2>2, <2>4, <3>2, <4>3, <4>4
    <3>3. CASE ~ForList(request, answers)
      <4>1. response = IF answers.again = "absent" THEN Text(404)
                       ELSE IF answers.again # "reg" \/ ~readable THEN Text(403)
                       ELSE send_file_response(answers.size)
        BY <2>7, <2>3, <3>3
      <4>2. send_file_response(answers.size).status = 200
        BY DEF send_file_response, Closed
      <4>3. response.status = IF answers.again = "absent" THEN 404
                              ELSE IF answers.again # "reg" \/ ~readable THEN 403 ELSE 200
        <5> HIDE DEF readable
        <5>. QED
          BY <2>2, <4>1, <4>2
      <4>4. CASE isdir
        <5>1. /\ after.first = "dir" /\ after.index = answers.again /\ after.access = readable
              /\ path # <<"/">>
          BY <3>3, <4>4 DEF Look, ForList
        <5>2. ForList(request, after) <=> answers.again = "absent"
          BY <5>1 DEF ForList
        <5> HIDE DEF after, readable
        <5>3. answers.again # "absent" => response.status = Promised(request, after)
          BY <3>1, <4>3, <5>1, <5>2
        <5>. QED
          BY <2>4, <3>3, <4>3, <4>4, <5>3
      <4>5. CASE ~isdir
        <5>1. after.first = answers.again /\ after.access = readable
          BY <3>3, <4>5 DEF Look
        <5> HIDE DEF after, readable
        <5>2. answers.again # "dir" => response.status = Promised(request, after)
          <6>1. ASSUME answers.again # "dir" PROVE ~ForList(request, after)
            BY <5>1, <6>1 DEF ForList
          <6>. QED
            BY <3>1, <4>3, <5>1, <6>1
        <5>. QED
          BY <2>4, <4>3, <4>5, <5>2
      <4>. QED
        BY <4>4, <4>5
    <3>. QED
      BY <3>2, <3>3
  <2>. QED
    BY <2>1, <2>5, <2>6, <2>7
<1>2. AnswerInv => StatusAsPromised
  BY <1>1 DEF StatusAsPromised
<1>. QED
  BY <1>2, AnswerAlways, PTL

-----------------------------------------------------------------------------
(* The event loop *)

USE ListenerAssumption, SizeAssumption

\* What the inductive invariant says of one connection, types aside.
ConnInv(c) ==
    LET cl == client[c]
        s  == sock[c]
    IN
    /\ cl.state # "CLOSING"
    /\ Live(c) <=> s.phase = "open"
    /\ s.phase \in {"idle", "backlog"} => cl.state = "none"
    /\ why[c] = "open" <=> s.phase # "closed"
    /\ why[c] = "done" => cl.state = "freed"
    /\ Pending(c) => Live(c)
    /\ s.interest = IF cl.state = "READING" THEN "in"
                    ELSE IF cl.state = "WRITING" THEN "out" ELSE "none"
    /\ cl.response_sent <= cl.response_len
    /\ cl.state \in {"none", "READING"} =>
          cl.response_len = 0 /\ ~cl.file /\ s.sndq = 0
    /\ ~cl.file => cl.file_size = 0 /\ cl.file_sent = 0
    /\ cl.file_sent > 0 => cl.response_sent = cl.response_len
    /\ cl.state = "WRITING" /\ ResponseUnsent(c) = 0 => cl.file
    /\ cl.file /\ Live(c) => file[c].pos = cl.file_sent
    /\ ~MayShrink /\ cl.file /\ Live(c) => file[c].len >= cl.file_size
    /\ ~MayGrow /\ cl.file /\ Live(c) => file[c].len <= cl.file_size
    /\ ~MayGrow => cl.file_sent <= cl.file_size
    /\ why[c] = "done" => /\ cl.response_sent = cl.response_len
                          /\ cl.file_sent >= cl.file_size
    /\ \A i \in DOMAIN wire[c] : wire[c][i] = i
    /\ Len(wire[c]) = cl.response_sent + cl.file_sent
    /\ cl.state = "READING" /\ ~Pending(c) =>
          /\ s.inq > 0 => cl.request_len = ReqCap
          /\ s.fin \/ s.rst => cl.request_len > 0
    /\ cl.state = "WRITING" /\ ~Pending(c) =>
          \/ s.nospace /\ ~Writable(s)
          \/ MayShrink /\ cl.file /\ ResponseUnsent(c) = 0

\* A step that leaves connection d alone.
Same(d) ==
    /\ client'[d] = client[d] /\ sock'[d] = sock[d] /\ file'[d] = file[d]
    /\ why'[d] = why[d] /\ wire'[d] = wire[d]
    /\ d \in ready' <=> d \in ready
    /\ d \in batch' <=> d \in batch
    /\ (pc' = "file" /\ cur' = d) <=> (pc = "file" /\ cur = d)

GlobalInv == TypeOK /\ Locals /\ BacklogNotStranded

\* The invariant splits into what concerns the loops and one record of facts
\* per connection (ConnInv), so a handler is checked connection by connection.
LEMMA IInvByConnection ==
    /\ IInv => GlobalInv /\ \A c \in Conns : ConnInv(c)
    /\ GlobalInv /\ (\A c \in Conns : ConnInv(c)) => IInv
    /\ GlobalInv' /\ (\A c \in Conns : ConnInv(c)') => IInv'
  BY DEF IInv, GlobalInv, ConnInv, Lifecycle, NoEventOfFreedClient,
         InterestFollowsState, Progress, WireInOrder, InputNotStranded,
         OutputNotStranded

\* A connection that a step does not touch keeps its facts.
LEMMA Frame == ASSUME NEW d \in Conns, ConnInv(d), Same(d) PROVE ConnInv(d)'
  <1>1. /\ Live(d)' <=> Live(d)
        /\ Pending(d)' <=> Pending(d)
        /\ ResponseUnsent(d)' = ResponseUnsent(d)
    BY DEF Same, Live, Pending, ResponseUnsent
  <1> QED BY <1>1 DEF Same, ConnInv, Writable

\* main() enters its loop in a state that satisfies the invariant.
LEMMA InitIInv == Init => IInv
  <1> SUFFICES ASSUME Init PROVE IInv OBVIOUS
  <1>1. TypeOK
    <2>1. NoClient \in ClientRec BY DEF NoClient, ClientRec
    <2>2. sock \in [Conns -> SockRec] BY DEF Init, SockRec
    <2>3. wire \in [Conns -> Seq(Nat)] /\ why \in [Conns -> Reasons]
      BY DEF Init, Reasons
    <2>4. client \in [Conns -> ClientRec] BY <2>1 DEF Init
    <2>5. file \in [Conns -> [pos : Nat, len : Nat]] BY DEF Init
    <2>6. /\ keep_running \in BOOLEAN /\ accept_failed \in BOOLEAN
          /\ pc = "check" /\ batch = {} /\ cur = Listener
          /\ remaining = 0 /\ ready = {}
      BY DEF Init
    <2> QED BY <2>2, <2>3, <2>4, <2>5, <2>6 DEF TypeOK
  <1>2. Locals /\ BacklogNotStranded
    BY DEF Init, NoClient, Locals, BacklogNotStranded, Deliverable
  <1>3. ASSUME NEW c \in Conns PROVE ConnInv(c)
    BY DEF Init, NoClient, ConnInv, Live, Pending, ResponseUnsent
  <1> QED BY <1>1, <1>2, <1>3, IInvByConnection DEF GlobalInv

(***************************************************************************)
(* The steps of the main loop touch no connection.                         *)
(***************************************************************************)
LEMMA EpollWaitIInv == IInv /\ EpollWait => IInv'
  <1> SUFFICES ASSUME IInv, EpollWait PROVE IInv' OBVIOUS
  <1>1. GlobalInv /\ \A c \in Conns : ConnInv(c) BY IInvByConnection
  <1>2. PICK events : /\ events \subseteq ready /\ batch' = events
                      /\ ready' = ready \ events
    BY DEF EpollWait
  <1>3. batch = {} /\ pc = "wait" /\ pc' = "dispatch" BY <1>1 DEF EpollWait, Locals, GlobalInv
  <1>4. ASSUME NEW c \in Conns PROVE ConnInv(c)'
    <2>1. Pending(c)' <=> Pending(c) BY <1>2, <1>3 DEF Pending
    <2>2. Live(c)' <=> Live(c) BY DEF EpollWait, Live
    <2>3. ResponseUnsent(c)' = ResponseUnsent(c) BY DEF EpollWait, ResponseUnsent
    <2>4. UNCHANGED <<client, sock, file, why, wire>> BY DEF EpollWait
    <2>5. ConnInv(c) BY <1>1
    <2> QED BY <2>1, <2>2, <2>3, <2>4, <2>5 DEF ConnInv, Writable
  <1>5. GlobalInv'
    BY <1>1, <1>2, <1>3
    DEF EpollWait, GlobalInv, TypeOK, Locals, BacklogNotStranded, Deliverable
  <1> QED BY <1>4, <1>5, IInvByConnection

\* The steps of main()'s loop and of accept_connections that serve no
\* connection (the test, epoll_wait, the end of a batch or of an accept loop).
LEMMA MainLoopIInv ==
  IInv /\ (TestKeepRunning \/ EndOfBatch \/ Sigint \/ StartAccept
           \/ AcceptDrained \/ AcceptError) => IInv'
  <1> SUFFICES ASSUME IInv, TestKeepRunning \/ EndOfBatch \/ Sigint
                            \/ StartAccept \/ AcceptDrained \/ AcceptError
               PROVE IInv'
    OBVIOUS
  <1>1. GlobalInv /\ \A c \in Conns : ConnInv(c) BY IInvByConnection
  <1>2. UNCHANGED <<client, file, why, sock, ready, wire>>
    BY DEF TestKeepRunning, EndOfBatch, Sigint, StartAccept, AcceptDrained,
           AcceptError
  <1>3. batch' = batch \/ batch' = batch \ {Listener}
    BY DEF TestKeepRunning, EndOfBatch, Sigint, StartAccept, AcceptDrained,
           AcceptError, Take
  <1>4. /\ pc = "file" <=> pc' = "file"
        /\ pc = "file" => UNCHANGED <<cur, remaining>>
    BY DEF TestKeepRunning, EndOfBatch, Sigint, StartAccept, AcceptDrained,
           AcceptError, NextEvent, Take
  <1>5. ASSUME NEW c \in Conns PROVE ConnInv(c)'
    <2>1. Same(c) BY <1>2, <1>3, <1>4 DEF Same
    <2> QED BY <2>1, <1>1, Frame
  <1>6. TypeOK'
    <2>1. TypeOK BY <1>1 DEF GlobalInv
    <2>2. keep_running' \in BOOLEAN /\ accept_failed' \in BOOLEAN
      BY <2>1 DEF TestKeepRunning, EndOfBatch, Sigint, StartAccept,
                  AcceptDrained, AcceptError, TypeOK
    <2>3. /\ pc' \in {"check", "wait", "dispatch", "accept", "file", "done"}
          /\ cur' \in Conns \cup {Listener} /\ remaining' \in Int
      BY <2>1 DEF TestKeepRunning, EndOfBatch, Sigint, StartAccept,
                  AcceptDrained, AcceptError, NextEvent, TypeOK
    <2> QED BY <1>2, <1>3, <2>1, <2>2, <2>3 DEF TypeOK
  <1>7. Locals'
    BY <1>1, <1>2, <1>3, <1>4
    DEF TestKeepRunning, EndOfBatch, Sigint, StartAccept, AcceptDrained,
        AcceptError, NextEvent, Take, Locals, GlobalInv, ResponseUnsent,
        FileUnsent
  <1>8. BacklogNotStranded'
    <2>1. Deliverable(Listener)' <=> Deliverable(Listener)
      BY <1>2 DEF Deliverable
    <2>2. BacklogNotStranded BY <1>1 DEF GlobalInv
    <2>3. CASE StartAccept BY <2>3 DEF StartAccept, BacklogNotStranded
    <2>4. CASE AcceptDrained BY <2>1, <2>4 DEF AcceptDrained, BacklogNotStranded
    <2>5. CASE AcceptError BY <2>5 DEF AcceptError, BacklogNotStranded
    <2>6. CASE TestKeepRunning \/ EndOfBatch \/ Sigint
      BY <1>2, <2>1, <2>2, <2>6
      DEF TestKeepRunning, EndOfBatch, Sigint, BacklogNotStranded
    <2> QED BY <2>3, <2>4, <2>5, <2>6
  <1> QED BY <1>5, <1>6, <1>7, <1>8, IInvByConnection DEF GlobalInv

(***************************************************************************)
(* What the kernel helpers do to the state.                                *)
(***************************************************************************)
LEMMA FreeClient ==
  ASSUME TypeOK, NEW c \in Conns, NEW cl \in ClientRec, NEW reason \in Reasons,
         free_client(c, cl, reason)
  PROVE  /\ client' \in [Conns -> ClientRec] /\ sock' \in [Conns -> SockRec]
         /\ why' \in [Conns -> Reasons] /\ ready' \subseteq ready
         /\ Listener \in ready => Listener \in ready'
         /\ \A d \in Conns \ {c} :
               /\ client'[d] = client[d] /\ sock'[d] = sock[d]
               /\ why'[d] = why[d] /\ (d \in ready' <=> d \in ready)
         /\ client'[c] = [cl EXCEPT !.state = "freed"]
         /\ sock'[c].phase = "closed" /\ sock'[c].interest = "none"
         /\ why'[c] = reason /\ c \notin ready'
  <1>1. [cl EXCEPT !.state = "freed"] \in ClientRec BY DEF ClientRec
  <1>2. sock[c] \in SockRec BY DEF TypeOK
  <1>3. [sock[c] EXCEPT !.phase = "closed", !.interest = "none"] \in SockRec
    BY <1>2 DEF SockRec
  <1>4. sock' = [sock EXCEPT ![c] = [sock[c] EXCEPT !.phase = "closed",
                                                    !.interest = "none"]]
    BY DEF free_client, TypeOK
  <1>5. sock' \in [Conns -> SockRec] /\ \A d \in Conns \ {c} : sock'[d] = sock[d]
    BY <1>3, <1>4 DEF TypeOK
  <1>6. sock'[c].phase = "closed" /\ sock'[c].interest = "none"
    BY <1>2, <1>4 DEF TypeOK, SockRec
  <1>7. client' \in [Conns -> ClientRec] /\ why' \in [Conns -> Reasons]
    BY <1>1 DEF free_client, TypeOK
  <1> QED BY <1>5, <1>6, <1>7 DEF free_client, TypeOK

\* A released client satisfies what the invariant asks of it, if it was
\* consistent before and, for "done", complete.
LEMMA ReleasedConnInv ==
  ASSUME TypeOK, NEW c \in Conns, NEW cl \in ClientRec,
         NEW reason \in Reasons \ {"open"},
         free_client(c, cl, reason), c \notin batch', pc' = "dispatch",
         /\ cl.response_sent <= cl.response_len
         /\ ~cl.file => cl.file_size = 0 /\ cl.file_sent = 0
         /\ cl.file_sent > 0 => cl.response_sent = cl.response_len
         /\ ~MayGrow => cl.file_sent <= cl.file_size
         /\ reason = "done" => /\ cl.response_sent = cl.response_len
                               /\ cl.file_sent >= cl.file_size,
         \A i \in DOMAIN wire'[c] : wire'[c][i] = i,
         Len(wire'[c]) = cl.response_sent + cl.file_sent
  PROVE  ConnInv(c)'
  <1> DEFINE ncl == [cl EXCEPT !.state = "freed"]
  <1>1. /\ client'[c] = ncl /\ sock'[c].phase = "closed"
        /\ sock'[c].interest = "none" /\ why'[c] = reason /\ c \notin ready'
    BY FreeClient
  <1>2. /\ ncl.state = "freed" /\ ncl.response_sent = cl.response_sent
        /\ ncl.response_len = cl.response_len /\ ncl.file = cl.file
        /\ ncl.file_size = cl.file_size /\ ncl.file_sent = cl.file_sent
    BY DEF ClientRec
  <1> HIDE DEF ncl
  <1>3. ~Live(c)' /\ ~Pending(c)' BY <1>1, <1>2 DEF Live, Pending
  <1> QED BY <1>1, <1>2, <1>3 DEF ConnInv

\* The handlers keep the backlog and the listener's event.
LEMMA BacklogKept ==
  ASSUME TypeOK, BacklogNotStranded, TypeOK',
         \A d \in Conns : sock'[d].phase = "backlog" => sock[d].phase = "backlog",
         Listener \in ready \cup batch => Listener \in ready' \cup batch',
         accept_failed' = accept_failed,
         pc = "accept" => pc' = "accept"
  PROVE  BacklogNotStranded'
  <1>1. Deliverable(Listener)' => Deliverable(Listener) BY DEF Deliverable
  <1> QED BY <1>1 DEF BacklogNotStranded

(***************************************************************************)
(* accept_connections.                                                     *)
(***************************************************************************)
LEMMA AcceptRefusedIInv ==
  ASSUME NEW c \in Conns, IInv, AcceptRefused(c) PROVE IInv'
  <1>1. GlobalInv /\ \A d \in Conns : ConnInv(d) BY IInvByConnection
  <1>2. /\ UNCHANGED <<keep_running, pc, batch, cur, remaining, accept_failed,
                       client, file, ready, wire>>
        /\ pc = "accept" /\ sock[c].phase = "backlog"
        /\ sock' = [sock EXCEPT ![c].phase = "closed"]
        /\ why' = [why EXCEPT ![c] = "refused"]
    BY DEF AcceptRefused, loopVars
  <1>3. TypeOK BY <1>1 DEF GlobalInv
  <1>4. sock[c] \in SockRec BY <1>3 DEF TypeOK
  <1>5. /\ sock' = [sock EXCEPT ![c] = [sock[c] EXCEPT !.phase = "closed"]]
        /\ [sock[c] EXCEPT !.phase = "closed"] \in SockRec
    BY <1>2, <1>4 DEF SockRec, TypeOK
  <1>6. /\ sock'[c].phase = "closed" /\ sock'[c].interest = sock[c].interest
        /\ why'[c] = "refused"
    BY <1>2, <1>3, <1>4, <1>5 DEF TypeOK, SockRec
  <1>7. TypeOK'
    <2>1. sock' \in [Conns -> SockRec] BY <1>3, <1>5 DEF TypeOK
    <2>2. why' \in [Conns -> Reasons] BY <1>2, <1>3 DEF TypeOK, Reasons
    <2> QED BY <2>1, <2>2, <1>2, <1>3 DEF TypeOK
  <1>8. ASSUME NEW d \in Conns \ {c} PROVE ConnInv(d)'
    BY <1>1, <1>2, <1>3, <1>5, Frame DEF Same, TypeOK
  <1>9. ConnInv(c)'
    <2>1. ConnInv(c) /\ client[c].state = "none" /\ ~Live(c)
      BY <1>1, <1>2 DEF ConnInv, Live
    <2>2. (Live(c)' <=> Live(c)) /\ (Pending(c)' <=> Pending(c))
      BY <1>2 DEF Live, Pending
    <2> QED BY <1>2, <1>6, <2>1, <2>2 DEF ConnInv, Live
  <1>10. BacklogNotStranded'
    <2>1. \A d \in Conns : sock'[d].phase = "backlog" => sock[d].phase = "backlog"
      BY <1>3, <1>5, <1>6 DEF TypeOK
    <2> QED BY <1>1, <1>2, <1>7, <2>1, BacklogKept DEF GlobalInv
  <1>11. Locals' BY <1>1, <1>2 DEF Locals, GlobalInv, ResponseUnsent, FileUnsent
  <1> QED BY <1>7, <1>8, <1>9, <1>10, <1>11, IInvByConnection DEF GlobalInv

(***************************************************************************)
(* Every path on which a handler releases its client.                      *)
(***************************************************************************)
LEMMA ReleaseIInv ==
  ASSUME IInv, NEW c \in Conns, NEW cl \in ClientRec,
         NEW reason \in Reasons \ {"open"}, free_client(c, cl, reason),
         NextEvent, batch' = batch \ {c},
         pc = "dispatch" \/ (pc = "file" /\ cur = c),
         UNCHANGED <<keep_running, accept_failed>>,
         file' \in [Conns -> [pos : Nat, len : Nat]], wire' \in [Conns -> Seq(Nat)],
         \A d \in Conns \ {c} : file'[d] = file[d] /\ wire'[d] = wire[d],
         /\ cl.response_sent <= cl.response_len
         /\ ~cl.file => cl.file_size = 0 /\ cl.file_sent = 0
         /\ cl.file_sent > 0 => cl.response_sent = cl.response_len
         /\ ~MayGrow => cl.file_sent <= cl.file_size
         /\ reason = "done" => /\ cl.response_sent = cl.response_len
                               /\ cl.file_sent >= cl.file_size,
         \A i \in DOMAIN wire'[c] : wire'[c][i] = i,
         Len(wire'[c]) = cl.response_sent + cl.file_sent
  PROVE  IInv'
  <1>1. GlobalInv /\ \A d \in Conns : ConnInv(d) BY IInvByConnection
  <1>2. TypeOK BY <1>1 DEF GlobalInv
  <1>3. pc' = "dispatch" /\ cur' = Listener /\ remaining' = 0 BY DEF NextEvent
  <1>4. /\ client' \in [Conns -> ClientRec] /\ sock' \in [Conns -> SockRec]
        /\ why' \in [Conns -> Reasons] /\ ready' \subseteq ready
        /\ Listener \in ready => Listener \in ready'
        /\ \A d \in Conns \ {c} :
              /\ client'[d] = client[d] /\ sock'[d] = sock[d]
              /\ why'[d] = why[d] /\ (d \in ready' <=> d \in ready)
        /\ sock'[c].phase = "closed"
    BY <1>2, FreeClient
  <1>5. TypeOK' BY <1>2, <1>3, <1>4, SMTT(30) DEF TypeOK
  <1>6. ASSUME NEW d \in Conns \ {c} PROVE ConnInv(d)'
    <2>1. Same(d) BY <1>3, <1>4 DEF Same
    <2> QED BY <1>1, <2>1, Frame
  <1>7. ConnInv(c)' BY <1>2, <1>3, ReleasedConnInv
  <1>8. BacklogNotStranded'
    BY <1>1, <1>3, <1>4, <1>5, BacklogKept DEF GlobalInv
  <1>9. Locals' BY <1>3 DEF Locals
  <1> QED BY <1>5, <1>6, <1>7, <1>8, <1>9, IInvByConnection DEF GlobalInv

\* What the invariant gives a handler about its own client.
LEMMA HandlerFacts ==
  ASSUME IInv, NEW c \in Conns
  PROVE  /\ TypeOK /\ client[c] \in ClientRec /\ sock[c] \in SockRec
         /\ file[c] \in [pos : Nat, len : Nat] /\ wire[c] \in Seq(Nat)
         /\ ConnInv(c) /\ Locals
         /\ pc = "file" /\ cur = c => batch = batch \ {c}
  <1>1. GlobalInv /\ ConnInv(c) BY IInvByConnection
  <1>2. TypeOK /\ Locals BY <1>1 DEF GlobalInv
  <1> QED BY <1>1, <1>2 DEF TypeOK, Locals

\* Closing a connection whose request buffer is full.
LEMMA RequestFullIInv ==
  ASSUME NEW c \in Conns, IInv, RequestFull(c) PROVE IInv'
  <1>1. /\ free_client(c, client[c], "full") /\ NextEvent
        /\ pc = "dispatch" /\ batch' = batch \ {c}
        /\ UNCHANGED <<keep_running, accept_failed, file, wire>>
    BY DEF RequestFull, Reading, Take
  <1>2. /\ TypeOK /\ client[c] \in ClientRec /\ ConnInv(c) BY HandlerFacts
  <1> QED BY <1>1, <1>2, ReleaseIInv DEF ConnInv, TypeOK, Reasons

\* Closing a connection whose peer reset it while the header was written.
LEMMA WriteFailedIInv ==
  ASSUME NEW c \in Conns, IInv, WriteFailed(c) PROVE IInv'
  <1>1. /\ free_client(c, client[c], "reset") /\ NextEvent
        /\ pc = "dispatch" /\ batch' = batch \ {c}
        /\ UNCHANGED <<keep_running, accept_failed, file, wire>>
    BY DEF WriteFailed, Writing, Take
  <1>2. /\ TypeOK /\ client[c] \in ClientRec /\ ConnInv(c) BY HandlerFacts
  <1> QED BY <1>1, <1>2, ReleaseIInv DEF ConnInv, TypeOK, Reasons

\* Closing a connection whose file could not be read.
LEMMA FileReadFailedIInv ==
  ASSUME NEW c \in Conns, IInv, FileReadFailed(c) PROVE IInv'
  <1>1. /\ free_client(c, client[c], "ioerror") /\ NextEvent
        /\ pc = "file" /\ cur = c /\ batch' = batch
        /\ UNCHANGED <<keep_running, accept_failed, file, wire>>
    BY DEF FileReadFailed, InFileLoop
  <1>2. /\ TypeOK /\ client[c] \in ClientRec /\ ConnInv(c)
        /\ batch = batch \ {c}
    BY <1>1, HandlerFacts
  <1> QED BY <1>1, <1>2, ReleaseIInv DEF ConnInv, TypeOK, Reasons

(***************************************************************************)
(* Handlers that keep their client.                                        *)
(***************************************************************************)
LEMMA KeepIInv ==
  ASSUME IInv, NEW c \in Conns, TypeOK', ConnInv(c)', Locals',
         \A d \in Conns \ {c} : Same(d),
         \A d \in Conns : sock'[d].phase = "backlog" => sock[d].phase = "backlog",
         Listener \in ready \cup batch => Listener \in ready' \cup batch',
         accept_failed' = accept_failed,
         pc = "accept" => pc' = "accept"
  PROVE  IInv'
  <1>1. GlobalInv /\ \A d \in Conns : ConnInv(d) BY IInvByConnection
  <1>2. \A d \in Conns \ {c} : ConnInv(d)' BY <1>1, Frame
  <1>3. BacklogNotStranded' BY <1>1, BacklogKept DEF GlobalInv
  <1> QED BY <1>2, <1>3, IInvByConnection DEF GlobalInv

\* The end of the file loop: completion is reported only at the end, a file
\* that became shorter leaves the connection open.
LEMMA LeaveFileLoopIInv ==
  ASSUME NEW c \in Conns, IInv, LeaveFileLoop(c) PROVE IInv'
  <1>1. /\ NextEvent /\ pc = "file" /\ cur = c /\ batch' = batch
        /\ UNCHANGED <<keep_running, accept_failed, file, wire>>
        /\ remaining <= 0 \/ file[c].pos >= file[c].len
    BY DEF LeaveFileLoop, InFileLoop
  <1>2. /\ TypeOK /\ client[c] \in ClientRec /\ ConnInv(c) /\ Locals
        /\ batch = batch \ {c} /\ file[c] \in [pos : Nat, len : Nat]
    BY <1>1, HandlerFacts
  <1>3. /\ client[c].state = "WRITING" /\ client[c].file /\ Live(c)
        /\ ResponseUnsent(c) = 0 /\ remaining >= FileUnsent(c)
    BY <1>1, <1>2 DEF Locals, Live
  <1>4. CASE client[c].file_sent >= client[c].file_size
    <2>1. free_client(c, client[c], "done") BY <1>4 DEF LeaveFileLoop
    <2>2. client[c].response_sent = client[c].response_len
      BY <1>2, <1>3 DEF ResponseUnsent, ClientRec
    <2> QED BY <1>1, <1>2, <1>4, <2>1, <2>2, ReleaseIInv
            DEF ConnInv, TypeOK, Reasons
  <1>5. CASE ~(client[c].file_sent >= client[c].file_size)
    <2>1. UNCHANGED <<client, why, sock, ready>> BY <1>5 DEF LeaveFileLoop
    <2>2. MayShrink
      <3>1. client[c].file_sent \in Nat /\ client[c].file_size \in Nat
            /\ file[c].pos = client[c].file_sent /\ file[c].len \in Nat
        BY <1>2, <1>3 DEF ClientRec, ConnInv
      <3>2. ~(remaining <= 0)
        BY <1>2, <1>3, <1>5, <3>1 DEF FileUnsent, TypeOK
      <3>3. ~(file[c].len >= client[c].file_size) BY <1>1, <1>5, <3>1, <3>2
      <3> QED BY <1>2, <1>3, <3>3 DEF ConnInv
    <2>3. pc' = "dispatch" /\ cur' = Listener /\ remaining' = 0
      BY <1>1 DEF NextEvent
    <2>4. TypeOK' BY <1>1, <1>2, <2>1, <2>3 DEF TypeOK
    <2>5. /\ Live(c)' <=> Live(c)
          /\ Pending(c)' => Pending(c)
          /\ ResponseUnsent(c)' = ResponseUnsent(c)
      BY <1>1, <2>1, <2>3 DEF Live, Pending, ResponseUnsent
    <2>6. ConnInv(c)'
      BY <1>1, <1>2, <1>3, <2>1, <2>2, <2>5 DEF ConnInv
    <2>7. \A d \in Conns \ {c} : Same(d) BY <1>1, <2>1, <2>3 DEF Same
    <2>8. Locals' BY <2>3 DEF Locals
    <2> QED BY <1>1, <2>1, <2>3, <2>4, <2>6, <2>7, <2>8, KeepIInv
  <1> QED BY <1>4, <1>5

\* read() brought nothing: the hang-up closes, EAGAIN changes nothing.
LEMMA ReadNothingIInv ==
  ASSUME NEW c \in Conns, IInv, ReadNothing(c) PROVE IInv'
  <1>1. /\ NextEvent /\ pc = "dispatch" /\ c \in batch /\ batch' = batch \ {c}
        /\ client[c].state = "READING" /\ sock[c].inq = 0
        /\ UNCHANGED <<keep_running, accept_failed, file, wire>>
    BY DEF ReadNothing, Reading, Take
  <1>2. TypeOK /\ client[c] \in ClientRec /\ ConnInv(c) BY HandlerFacts
  <1>3. CASE sock[c].fin \/ sock[c].rst
    <2>1. free_client(c, client[c], "hangup") BY <1>3 DEF ReadNothing
    <2> QED BY <1>1, <1>2, <2>1, ReleaseIInv DEF ConnInv, TypeOK, Reasons
  <1>4. CASE ~(sock[c].fin \/ sock[c].rst)
    <2>1. UNCHANGED <<client, why, sock, ready>> BY <1>4 DEF ReadNothing
    <2>2. pc' = "dispatch" /\ cur' = Listener /\ remaining' = 0
      BY <1>1 DEF NextEvent
    <2>3. TypeOK' BY <1>1, <1>2, <2>1, <2>2 DEF TypeOK
    <2>4. /\ Live(c)' <=> Live(c)
          /\ Pending(c)' => Pending(c)
          /\ ResponseUnsent(c)' = ResponseUnsent(c)
      BY <1>1, <2>1, <2>2 DEF Live, Pending, ResponseUnsent
    <2>5. ConnInv(c)' BY <1>1, <1>2, <1>4, <2>1, <2>4 DEF ConnInv
    <2>6. \A d \in Conns \ {c} : Same(d) BY <1>1, <2>1, <2>2 DEF Same
    <2>7. Locals' BY <2>2 DEF Locals
    <2> QED BY <1>1, <2>1, <2>2, <2>3, <2>5, <2>6, <2>7, KeepIInv
  <1> QED BY <1>3, <1>4

\* EPOLL_CTL_ADD and EPOLL_CTL_MOD: the new registration, and an event for
\* whatever holds already, so the edge is not lost.
LEMMA RegisterFacts ==
  ASSUME TypeOK, NEW c \in Conns, NEW s \in SockRec,
         NEW interest \in {"in", "out"}, Register(c, s, interest)
  PROVE  /\ sock' \in [Conns -> SockRec] /\ ready' \subseteq Conns \cup {Listener}
         /\ Listener \in ready => Listener \in ready'
         /\ \A d \in Conns \ {c} : sock'[d] = sock[d] /\ (d \in ready' <=> d \in ready)
         /\ sock'[c] = [s EXCEPT !.interest = interest]
         /\ sock'[c].interest = interest /\ sock'[c].phase = s.phase
         /\ sock'[c].inq = s.inq /\ sock'[c].fin = s.fin /\ sock'[c].rst = s.rst
         /\ sock'[c].sndq = s.sndq /\ sock'[c].nospace = s.nospace
         /\ c \in ready' <=> Signalled(sock'[c])
  <1> DEFINE t == [s EXCEPT !.interest = interest]
  <1>1. t \in SockRec BY DEF SockRec
  <1>2. /\ sock' = [sock EXCEPT ![c] = t]
        /\ ready' = IF Signalled(t) THEN ready \cup {c} ELSE ready \ {c}
    BY DEF Register
  <1>3. /\ t.interest = interest /\ t.phase = s.phase /\ t.inq = s.inq
        /\ t.fin = s.fin /\ t.rst = s.rst
        /\ t.sndq = s.sndq /\ t.nospace = s.nospace
    BY DEF SockRec
  <1> HIDE DEF t
  <1>4. sock'[c] = t BY <1>2 DEF TypeOK
  <1>5. sock' \in [Conns -> SockRec] BY <1>1, <1>2 DEF TypeOK
  <1>6. sock'[c] = [s EXCEPT !.interest = interest] BY <1>4 DEF t
  <1> QED BY <1>2, <1>3, <1>4, <1>5, <1>6 DEF TypeOK

\* accept(), create_client and EPOLL_CTL_ADD of one connection.
LEMMA AcceptOneIInv ==
  ASSUME NEW c \in Conns, IInv, AcceptOne(c) PROVE IInv'
  <1> DEFINE s == [sock[c] EXCEPT !.phase = "open"]
  <1>1. /\ pc = "accept" /\ sock[c].phase = "backlog"
        /\ client' = [client EXCEPT ![c] = create_client]
        /\ Register(c, s, "in")
        /\ UNCHANGED <<keep_running, pc, batch, cur, remaining, accept_failed,
                       file, why, wire>>
    BY DEF AcceptOne, loopVars
  <1>2. TypeOK /\ sock[c] \in SockRec /\ ConnInv(c) /\ Locals BY HandlerFacts
  <1>3. /\ s \in SockRec /\ s.phase = "open" /\ s.inq = sock[c].inq
        /\ s.fin = sock[c].fin /\ s.rst = sock[c].rst /\ s.sndq = sock[c].sndq
    BY <1>2 DEF SockRec
  <1> HIDE DEF s
  <1>4. /\ sock' \in [Conns -> SockRec] /\ ready' \subseteq Conns \cup {Listener}
        /\ Listener \in ready => Listener \in ready'
        /\ \A d \in Conns \ {c} : sock'[d] = sock[d] /\ (d \in ready' <=> d \in ready)
        /\ sock'[c].interest = "in" /\ sock'[c].phase = "open"
        /\ sock'[c].sndq = sock[c].sndq
        /\ c \in ready' <=> Signalled(sock'[c])
    <2>1. TypeOK /\ s \in SockRec /\ Register(c, s, "in") BY <1>1, <1>2, <1>3
    <2>2. /\ sock' \in [Conns -> SockRec] /\ ready' \subseteq Conns \cup {Listener}
          /\ Listener \in ready => Listener \in ready'
          /\ \A d \in Conns \ {c} :
                sock'[d] = sock[d] /\ (d \in ready' <=> d \in ready)
          /\ sock'[c].interest = "in" /\ sock'[c].phase = s.phase
          /\ sock'[c].sndq = s.sndq
          /\ c \in ready' <=> Signalled(sock'[c])
      BY <2>1, RegisterFacts
    <2> QED BY <1>3, <2>2
  <1>5. /\ create_client \in ClientRec /\ create_client.state = "READING"
        /\ create_client.response_len = 0 /\ create_client.response_sent = 0
        /\ ~create_client.file /\ create_client.file_size = 0
        /\ create_client.file_sent = 0 /\ create_client.request_len = 0
    <2>1. NoClient \in ClientRec BY DEF NoClient, ClientRec
    <2> QED BY <2>1 DEF create_client, NoClient, ClientRec
  <1>6. /\ client'[c] = create_client /\ client' \in [Conns -> ClientRec]
        /\ \A d \in Conns \ {c} : client'[d] = client[d]
    BY <1>1, <1>2, <1>5 DEF TypeOK
  <1>7. TypeOK' BY <1>1, <1>2, <1>4, <1>6 DEF TypeOK
  <1>8. client[c].state = "none" /\ why[c] = "open" /\ wire'[c] = wire[c]
        /\ why'[c] = why[c] /\ client[c].file_sent = 0
        /\ client[c].response_sent = 0
    BY <1>1, <1>2, HandlerFacts DEF ConnInv, ClientRec
  <1>9. ~Pending(c)' => ~sock'[c].fin /\ ~sock'[c].rst /\ ~(sock'[c].inq > 0)
    BY <1>4 DEF Pending, Signalled, Readable
  <1>10. ConnInv(c)'
    <2>1. Live(c)' BY <1>5, <1>6 DEF Live
    <2>2. /\ client'[c].state = "READING" /\ client'[c].response_len = 0
          /\ client'[c].response_sent = 0 /\ ~client'[c].file
          /\ client'[c].file_size = 0 /\ client'[c].file_sent = 0
          /\ client'[c].request_len = 0
      BY <1>5, <1>6
    <2>3. /\ \A i \in DOMAIN wire'[c] : wire'[c][i] = i
          /\ Len(wire'[c]) = 0 /\ sock'[c].sndq = 0
      BY <1>2, <1>4, <1>8 DEF ConnInv
    <2>4. ~Pending(c)' => ~(sock'[c].fin \/ sock'[c].rst) /\ ~(sock'[c].inq > 0)
      BY <1>9
    <2>5. /\ sock'[c].phase = "open" /\ sock'[c].interest = "in"
          /\ why'[c] = "open"
      BY <1>4, <1>8
    <2> QED BY <2>1, <2>2, <2>3, <2>4, <2>5 DEF ConnInv
  <1>11. \A d \in Conns \ {c} : Same(d) BY <1>1, <1>4, <1>6 DEF Same
  <1>12. Locals' BY <1>1, <1>2 DEF Locals
  <1>13. \A d \in Conns : sock'[d].phase = "backlog" => sock[d].phase = "backlog"
    BY <1>4
  <1> QED BY <1>1, <1>4, <1>7, <1>10, <1>11, <1>12, <1>13, KeepIInv

\* read() of some bytes, with handle_request and the switch to EPOLLOUT when
\* the blank line has arrived.
LEMMA ReadSomeIInv ==
  ASSUME NEW c \in Conns, IInv, ReadSome(c) PROVE IInv'
  <1> DEFINE n  == Least(Room(c), sock[c].inq)
             cl == [client[c] EXCEPT !.request_len = @ + n]
             s  == [sock[c] EXCEPT !.inq = @ - n]
  <1>1. /\ NextEvent /\ pc = "dispatch" /\ c \in batch /\ batch' = batch \ {c}
        /\ client[c].state = "READING" /\ n > 0
        /\ UNCHANGED <<keep_running, accept_failed, wire>>
    BY DEF ReadSome, Reading, Take
  <1>2. /\ TypeOK /\ client[c] \in ClientRec /\ sock[c] \in SockRec
        /\ ConnInv(c)
    BY HandlerFacts
  <1>3. n \in Nat /\ n <= ReqCap - client[c].request_len /\ n <= sock[c].inq
        /\ (n = ReqCap - client[c].request_len \/ n = sock[c].inq)
    BY <1>1, <1>2 DEF Least, Room, ClientRec, SockRec
  <1>4. /\ cl \in ClientRec /\ cl.request_len = client[c].request_len + n
        /\ cl.state = client[c].state /\ cl.response_len = client[c].response_len
        /\ cl.response_sent = client[c].response_sent
        /\ cl.file = client[c].file /\ cl.file_size = client[c].file_size
        /\ cl.file_sent = client[c].file_sent
    BY <1>2, <1>3 DEF ClientRec
  <1>5. /\ s \in SockRec /\ s.inq = sock[c].inq - n
        /\ s.phase = sock[c].phase /\ s.interest = sock[c].interest
        /\ s.fin = sock[c].fin /\ s.rst = sock[c].rst
        /\ s.sndq = sock[c].sndq /\ s.nospace = sock[c].nospace
    BY <1>2, <1>3 DEF SockRec
  <1>6. pc' = "dispatch" /\ cur' = Listener /\ remaining' = 0
    BY <1>1 DEF NextEvent
  <1>7. Locals' BY <1>6 DEF Locals
  <1>8. /\ client[c].request_len \in Nat /\ sock[c].inq \in Nat /\ Live(c)
        /\ client[c].response_len = 0 /\ client[c].response_sent = 0
        /\ ~client[c].file /\ client[c].file_sent = 0 /\ client[c].file_size = 0
        /\ sock[c].phase = "open" /\ why[c] = "open" /\ wire'[c] = wire[c]
        /\ Len(wire[c]) = 0 /\ (\A i \in DOMAIN wire[c] : wire[c][i] = i)
        /\ sock[c].sndq = 0
    <2>1. /\ client[c].request_len \in Nat /\ sock[c].inq \in Nat
          /\ client[c].response_len \in Nat /\ client[c].response_sent \in Nat
      BY <1>2 DEF ClientRec, SockRec
    <2>2. Live(c) BY <1>1 DEF Live
    <2>3. /\ client[c].response_len = 0 /\ client[c].response_sent <= 0
          /\ ~client[c].file /\ client[c].file_sent = 0
          /\ client[c].file_size = 0 /\ sock[c].sndq = 0
      BY <1>1, <1>2 DEF ConnInv
    <2>4. sock[c].phase = "open" /\ why[c] = "open"
      BY <1>2, <2>2 DEF ConnInv
    <2>5. client[c].response_sent = 0 BY <2>1, <2>3
    <2>6. /\ Len(wire[c]) = 0 + 0 /\ (\A i \in DOMAIN wire[c] : wire[c][i] = i)
      BY <1>2, <2>3, <2>5 DEF ConnInv
    <2> QED BY <1>1, <2>1, <2>2, <2>3, <2>4, <2>5, <2>6
  <1>9. CASE /\ client' = [client EXCEPT ![c] = cl]
             /\ sock' = [sock EXCEPT ![c] = s]
             /\ UNCHANGED <<file, why, ready>>
    <2> HIDE DEF cl, s, n
    <2>1. client'[c] = cl /\ sock'[c] = s BY <1>2, <1>9 DEF TypeOK
    <2>2. TypeOK' BY <1>1, <1>2, <1>4, <1>5, <1>6, <1>9 DEF TypeOK
    <2>3. Live(c)' BY <1>1, <1>4, <2>1 DEF Live
    <2>4. s.inq > 0 => cl.request_len = ReqCap
      BY <1>3, <1>4, <1>5, <1>8
    <2>5. cl.request_len > 0 BY <1>1, <1>3, <1>4, <1>8
    <2>6. ConnInv(c)'
      BY <1>1, <1>2, <1>4, <1>5, <1>8, <1>9, <2>1, <2>3, <2>4, <2>5 DEF ConnInv
    <2>7. \A d \in Conns \ {c} : Same(d) BY <1>1, <1>2, <1>6, <1>9 DEF Same, TypeOK
    <2>8. \A d \in Conns : sock'[d].phase = "backlog" => sock[d].phase = "backlog"
      BY <1>2, <1>5, <1>9 DEF TypeOK
    <2> QED BY <1>1, <1>6, <1>7, <1>9, <2>2, <2>6, <2>7, <2>8, KeepIInv
  <1>10. ASSUME NEW o \in Outcomes,
                file' = [file EXCEPT ![c] = [pos |-> 0, len |-> o.file_size]],
                \/ /\ o.state = "WRITING"
                   /\ client' = [client EXCEPT ![c] = [cl EXCEPT
                        !.state = o.state, !.response_len = o.response_len,
                        !.file = o.file, !.file_size = o.file_size]]
                   /\ Register(c, s, "out")
                   /\ UNCHANGED why
                \/ /\ o.state = "CLOSING"
                   /\ free_client(c, [cl EXCEPT
                        !.state = o.state, !.response_len = o.response_len,
                        !.file = o.file, !.file_size = o.file_size], "closing")
         PROVE  IInv'
    <2> DEFINE done == [cl EXCEPT
                        !.state = o.state, !.response_len = o.response_len,
                        !.file = o.file, !.file_size = o.file_size]
    <2>1. o \in Outcome /\ (o.state = "WRITING" => o.response_len > 0)
          /\ (o.state = "CLOSING" => o.response_len = 0 /\ ~o.file)
          /\ (~o.file => o.file_size = 0)
      BY OutcomeAssumption DEF IsOutcome
    <2>2. /\ done \in ClientRec /\ done.state = o.state
          /\ done.response_len = o.response_len /\ done.response_sent = 0
          /\ done.file = o.file /\ done.file_size = o.file_size
          /\ done.file_sent = 0
      BY <1>4, <1>8, <2>1 DEF ClientRec, Outcome
    <2>3. /\ file' \in [Conns -> [pos : Nat, len : Nat]]
          /\ file'[c].pos = 0 /\ file'[c].len = o.file_size
          /\ \A d \in Conns \ {c} : file'[d] = file[d]
      BY <1>2, <1>10, <2>1 DEF TypeOK, Outcome
    <2>4. CASE o.state = "CLOSING"
      <3>1. free_client(c, done, "closing") BY <1>10, <2>4
      <3> HIDE DEF done, cl, s, n
      <3>2. /\ "closing" \in Reasons \ {"open"} /\ "closing" # "done"
            /\ wire' \in [Conns -> Seq(Nat)]
            /\ \A d \in Conns \ {c} : wire'[d] = wire[d]
        BY <1>1, <1>2 DEF Reasons, TypeOK
      <3>3. /\ done.response_sent <= done.response_len
            /\ ~done.file => done.file_size = 0 /\ done.file_sent = 0
            /\ done.file_sent > 0 => done.response_sent = done.response_len
            /\ done.file_sent <= done.file_size
            /\ Len(wire'[c]) = done.response_sent + done.file_sent
        BY <1>8, <2>1, <2>2, <2>4
      <3> QED BY <1>1, <1>8, <2>2, <2>3, <3>1, <3>2, <3>3, ReleaseIInv
    <2>5. CASE o.state = "WRITING"
      <3>1. /\ client' = [client EXCEPT ![c] = done]
            /\ Register(c, s, "out") /\ UNCHANGED why
        BY <1>10, <2>5
      <3> HIDE DEF done, cl, s, n
      <3>2. /\ sock' \in [Conns -> SockRec] /\ ready' \subseteq Conns \cup {Listener}
            /\ Listener \in ready => Listener \in ready'
            /\ \A d \in Conns \ {c} : sock'[d] = sock[d] /\ (d \in ready' <=> d \in ready)
            /\ sock'[c].interest = "out" /\ sock'[c].phase = "open"
            /\ sock'[c].sndq = 0
            /\ c \in ready' <=> Signalled(sock'[c])
        <4>1. s \in SockRec /\ s.phase = "open" /\ s.sndq = 0 BY <1>5, <1>8
        <4> QED BY <1>2, <3>1, <4>1, RegisterFacts
      <3>3. /\ client'[c] = done /\ client' \in [Conns -> ClientRec]
            /\ \A d \in Conns \ {c} : client'[d] = client[d]
        BY <1>2, <2>2, <3>1 DEF TypeOK
      <3>4. TypeOK' BY <1>1, <1>2, <1>6, <2>3, <3>1, <3>2, <3>3 DEF TypeOK
      <3>5. Live(c)' BY <2>2, <2>5, <3>3 DEF Live
      <3>6. ResponseUnsent(c)' > 0 BY <2>1, <2>2, <2>5, <3>3 DEF ResponseUnsent, Outcome
      <3>7. Pending(c)' BY <3>2 DEF Pending, Signalled, Writable
      <3>10. /\ done.response_len \in Nat /\ done.file_size \in Nat
        BY <2>1, <2>2 DEF Outcome
      <3>11. ConnInv(c)'
        BY <1>8, <2>1, <2>2, <2>3, <2>5, <3>1, <3>2, <3>3, <3>5, <3>6, <3>7,
           <3>10 DEF ConnInv
      <3>8. \A d \in Conns \ {c} : Same(d)
        BY <1>1, <1>6, <2>3, <3>1, <3>2, <3>3 DEF Same
      <3>9. \A d \in Conns : sock'[d].phase = "backlog" => sock[d].phase = "backlog"
        BY <3>2
      <3> QED BY <1>1, <1>6, <1>7, <3>2, <3>4, <3>11, <3>8, <3>9, KeepIInv
    <2> QED BY <2>1, <2>4, <2>5 DEF Outcome
  <1> HIDE DEF cl, s, n
  <1> QED BY <1>9, <1>10 DEF ReadSome, cl, s, n

(***************************************************************************)
(* write_to_client.                                                        *)
(***************************************************************************)
\* Units that continue the wire keep it in order.
LEMMA AppendInOrder ==
  ASSUME NEW w \in Seq(Nat), NEW p \in Nat, NEW k \in Nat, p = Len(w),
         \A i \in DOMAIN w : w[i] = i
  PROVE  LET v == w \o [i \in 1..k |-> p + i] IN
         /\ v \in Seq(Nat) /\ Len(v) = p + k
         /\ \A i \in DOMAIN v : v[i] = i
  <1> DEFINE t == [i \in 1..k |-> p + i]
  <1>1. t \in Seq(Nat) /\ Len(t) = k /\ \A i \in 1..k : t[i] = p + i
    OBVIOUS
  <1> HIDE DEF t
  <1>2. w \o t \in Seq(Nat) /\ Len(w \o t) = p + k
    BY <1>1, ConcatProperties
  <1>3. ASSUME NEW i \in DOMAIN (w \o t) PROVE (w \o t)[i] = i
    <2>1. i \in 1..p + k BY <1>2
    <2>2. CASE i <= p BY <1>1, <2>1, <2>2, SMTT(30)
    <2>3. CASE i > p
      <3>1. (w \o t)[i] = t[i - p] /\ i - p \in 1..k BY <1>1, <2>1, <2>3
      <3> QED BY <1>1, <2>1, <3>1
    <2> QED BY <2>1, <2>2, <2>3
  <1> QED BY <1>2, <1>3 DEF t

\* The kernel takes all it is given unless the send buffer is then full.
LEMMA AcceptedFacts ==
  ASSUME NEW s \in SockRec, NEW n \in Nat
  PROVE  /\ Accepted(s, n) \in 0..n /\ s.sndq + Accepted(s, n) \in 0..SndCap
         /\ Accepted(s, n) < n => s.sndq + Accepted(s, n) = SndCap
  BY DEF Accepted, Least, SockRec

\* A short write leaves the send buffer too full for EPOLLOUT: SOCK_NOSPACE
\* is set exactly when the connection has to wait for the client.
LEMMA SentFacts ==
  ASSUME NEW s \in SockRec, NEW n \in Nat, ~s.rst
  PROVE  LET k == Accepted(s, n)
             t == Sent(s, n, k)
         IN /\ t \in SockRec /\ t.phase = s.phase /\ t.interest = s.interest
            /\ k < n => t.nospace /\ ~Writable(t)
  <1> DEFINE k == Accepted(s, n)
             t == Sent(s, n, k)
  <1>1. /\ k \in 0..n /\ s.sndq + k \in 0..SndCap
        /\ k < n => s.sndq + k = SndCap
    BY AcceptedFacts
  <1> HIDE DEF k
  <1>2. /\ t \in SockRec /\ t.phase = s.phase /\ t.interest = s.interest
        /\ t.sndq = s.sndq + k /\ t.rst = s.rst
        /\ t.nospace = (s.nospace \/ k < n)
    BY <1>1 DEF Sent, SockRec
  <1> HIDE DEF t
  <1>3. k < n => t.nospace BY <1>2, Zenon
  <1>4. k < n => ~Writable(t)
    <2>1. SUFFICES ASSUME k < n PROVE ~(3 * SndCap <= 2 * SndCap)
      BY <1>1, <1>2 DEF Writable
    <2> QED OBVIOUS
  <1> QED BY <1>2, <1>3, <1>4 DEF t, k

\* A client whose response is under way.
LEMMA WritingFacts ==
  ASSUME NEW c \in Conns, IInv, client[c].state = "WRITING"
  PROVE  /\ TypeOK /\ client[c] \in ClientRec /\ sock[c] \in SockRec
         /\ file[c] \in [pos : Nat, len : Nat] /\ wire[c] \in Seq(Nat)
         /\ Live(c) /\ sock[c].phase = "open" /\ why[c] = "open"
         /\ sock[c].interest = "out"
         /\ ResponseUnsent(c) \in Nat /\ FileUnsent(c) \in Int
         /\ ~client[c].file => client[c].file_size = 0 /\ client[c].file_sent = 0
         /\ client[c].file_sent > 0 => ResponseUnsent(c) = 0
         /\ ResponseUnsent(c) = 0 => client[c].file
         /\ client[c].file => file[c].pos = client[c].file_sent
         /\ ~MayShrink /\ client[c].file => file[c].len >= client[c].file_size
         /\ ~MayGrow /\ client[c].file => file[c].len <= client[c].file_size
         /\ ~MayGrow => client[c].file_sent <= client[c].file_size
         /\ \A i \in DOMAIN wire[c] : wire[c][i] = i
         /\ Len(wire[c]) = client[c].response_sent + client[c].file_sent
  <1>1. /\ TypeOK /\ client[c] \in ClientRec /\ sock[c] \in SockRec
        /\ file[c] \in [pos : Nat, len : Nat] /\ wire[c] \in Seq(Nat)
        /\ ConnInv(c)
    BY HandlerFacts
  <1>2. Live(c) BY DEF Live
  <1>3. sock[c].phase = "open" /\ sock[c].interest = "out" /\ why[c] = "open"
    BY <1>1, <1>2 DEF ConnInv
  <1>4. /\ ResponseUnsent(c) \in Nat /\ FileUnsent(c) \in Int
        /\ client[c].file_sent > 0 => ResponseUnsent(c) = 0
    BY <1>1, SMTT(30) DEF ConnInv, ResponseUnsent, FileUnsent, ClientRec
  <1>5. /\ ~client[c].file => client[c].file_size = 0 /\ client[c].file_sent = 0
        /\ ResponseUnsent(c) = 0 => client[c].file
        /\ client[c].file => file[c].pos = client[c].file_sent
        /\ ~MayShrink /\ client[c].file => file[c].len >= client[c].file_size
        /\ ~MayGrow /\ client[c].file => file[c].len <= client[c].file_size
        /\ ~MayGrow => client[c].file_sent <= client[c].file_size
        /\ \A i \in DOMAIN wire[c] : wire[c][i] = i
        /\ Len(wire[c]) = client[c].response_sent + client[c].file_sent
    BY <1>1, <1>2 DEF ConnInv
  <1> QED BY <1>1, <1>2, <1>3, <1>4, <1>5

\* A writable event after the header was sent goes straight to the file.
LEMMA ResumeFileIInv ==
  ASSUME NEW c \in Conns, IInv, ResumeFile(c) PROVE IInv'
  <1>1. /\ pc = "dispatch" /\ c \in batch /\ batch' = batch \ {c}
        /\ client[c].state = "WRITING" /\ ResponseUnsent(c) = 0
        /\ UNCHANGED <<keep_running, accept_failed, file, client, why, sock,
                       ready, wire>>
    BY DEF ResumeFile, Writing, Take
  <1>2. TypeOK /\ client[c].file /\ FileUnsent(c) \in Int
    BY <1>1, WritingFacts
  <1>3. pc' = "file" /\ cur' = c /\ remaining' = FileUnsent(c)
    BY <1>2 DEF ResumeFile, EnterFileLoop
  <1>4. TypeOK' BY <1>1, <1>2, <1>3 DEF TypeOK
  <1>5. /\ Live(c)' <=> Live(c)
        /\ Pending(c)' /\ Pending(c)
        /\ ResponseUnsent(c)' = ResponseUnsent(c)
    BY <1>1, <1>3 DEF Live, Pending, ResponseUnsent
  <1>6. ConnInv(c) BY HandlerFacts
  <1>7. ConnInv(c)' BY <1>1, <1>5, <1>6 DEF ConnInv
  <1>8. \A d \in Conns \ {c} : Same(d) BY <1>1, <1>3 DEF Same
  <1>9. Locals'
    BY <1>1, <1>2, <1>3 DEF Locals, ResponseUnsent, FileUnsent
  <1> QED BY <1>1, <1>3, <1>4, <1>7, <1>8, <1>9, KeepIInv

\* write() of the rest of the response buffer, whole or short.
LEMMA WriteResponseIInv ==
  ASSUME NEW c \in Conns, IInv, WriteResponse(c) PROVE IInv'
  <1> DEFINE n  == ResponseUnsent(c)
             k  == Accepted(sock[c], n)
             cl == [client[c] EXCEPT !.response_sent = @ + k]
             v  == wire[c] \o [i \in 1..k |-> client[c].response_sent + i]
  <1>1. /\ pc = "dispatch" /\ c \in batch /\ batch' = batch \ {c}
        /\ client[c].state = "WRITING" /\ n > 0 /\ ~sock[c].rst
        /\ UNCHANGED <<keep_running, accept_failed, file>>
        /\ wire' = [wire EXCEPT ![c] = v]
    BY DEF WriteResponse, Writing, Take, Transmit
  <1>2. /\ TypeOK /\ client[c] \in ClientRec /\ sock[c] \in SockRec
        /\ wire[c] \in Seq(Nat) /\ n \in Nat
        /\ sock[c].phase = "open" /\ why[c] = "open" /\ sock[c].interest = "out"
        /\ client[c].file_sent \in Nat /\ ~(client[c].file_sent > 0)
        /\ ~client[c].file => client[c].file_size = 0
        /\ client[c].file => file[c].pos = 0
        /\ ~MayShrink /\ client[c].file => file[c].len >= client[c].file_size
        /\ ~MayGrow /\ client[c].file => file[c].len <= client[c].file_size
        /\ ~MayGrow => client[c].file_sent <= client[c].file_size
        /\ \A i \in DOMAIN wire[c] : wire[c][i] = i
        /\ Len(wire[c]) = client[c].response_sent
    BY <1>1, WritingFacts, SMTT(30) DEF ClientRec
  <1>3. k \in 0..n /\ k \in Nat BY <1>2, AcceptedFacts
  <1>4. /\ client[c].response_sent \in Nat /\ client[c].response_len \in Nat
        /\ n = client[c].response_len - client[c].response_sent
        /\ client[c].file_sent = 0 /\ client[c].file_size \in Nat
        /\ client[c].response_sent + k \in Nat
    BY <1>2, <1>3 DEF ClientRec, ResponseUnsent
  <1> HIDE DEF n, k
  <1>5. /\ cl \in ClientRec /\ cl.response_sent = client[c].response_sent + k
        /\ cl.state = "WRITING" /\ cl.response_len = client[c].response_len
        /\ cl.file = client[c].file /\ cl.file_size = client[c].file_size
        /\ cl.file_sent = 0
    BY <1>1, <1>2, <1>4 DEF ClientRec
  <1> HIDE DEF cl
  <1>6. /\ v \in Seq(Nat) /\ Len(v) = client[c].response_sent + k
        /\ \A i \in DOMAIN v : v[i] = i
    <2>1. /\ wire[c] \in Seq(Nat) /\ client[c].response_sent = Len(wire[c])
          /\ \A i \in DOMAIN wire[c] : wire[c][i] = i
      BY <1>2
    <2>2. client[c].response_sent \in Nat /\ k \in Nat BY <1>3, <1>4
    <2> QED BY <2>1, <2>2, AppendInOrder
  <1> HIDE DEF v
  <1>7. /\ wire' \in [Conns -> Seq(Nat)] /\ wire'[c] = v
        /\ \A d \in Conns \ {c} : wire'[d] = wire[d]
    BY <1>1, <1>2, <1>6 DEF TypeOK
  <1>8. CASE k = n /\ ~cl.file /\ free_client(c, cl, "done") /\ NextEvent
    <2>1. "done" \in Reasons \ {"open"} BY DEF Reasons
    <2>2. file' \in [Conns -> [pos : Nat, len : Nat]] /\ UNCHANGED file
      BY <1>1, <1>2 DEF TypeOK
    <2>3. /\ cl.response_sent = cl.response_len
          /\ cl.file_size = 0 /\ cl.file_sent = 0
      BY <1>2, <1>4, <1>5, <1>8
    <2>4. Len(wire'[c]) = cl.response_sent + cl.file_sent
      BY <1>4, <1>5, <1>6, <1>7, <2>3
    <2>5. cl.response_sent <= cl.response_len BY <1>4, <1>5, <2>3
    <2>6. \A d \in Conns \ {c} : file'[d] = file[d] /\ wire'[d] = wire[d]
      BY <1>7, <2>2
    <2>7. \A i \in DOMAIN wire'[c] : wire'[c][i] = i BY <1>6, <1>7
    <2>8. /\ ~cl.file => cl.file_size = 0 /\ cl.file_sent = 0
          /\ cl.file_sent > 0 => cl.response_sent = cl.response_len
          /\ cl.file_sent >= cl.file_size /\ cl.file_sent <= cl.file_size
      BY <2>3
    <2>9. /\ pc = "dispatch" /\ batch' = batch \ {c}
          /\ UNCHANGED <<keep_running, accept_failed>>
          /\ free_client(c, cl, "done") /\ NextEvent
      BY <1>1, <1>8
    <2> QED BY <1>5, <1>7, <2>1, <2>2, <2>3, <2>4, <2>5, <2>6, <2>7, <2>8, <2>9,
            ReleaseIInv
  <1>9. CASE /\ k < n \/ cl.file
             /\ client' = [client EXCEPT ![c] = cl]
             /\ sock' = [sock EXCEPT ![c] = Sent(@, n, k)]
             /\ IF k = n THEN EnterFileLoop(c) ELSE NextEvent
             /\ UNCHANGED <<ready, why>>
    <2> DEFINE t == Sent(sock[c], n, k)
    <2>1. /\ t \in SockRec /\ t.phase = "open" /\ t.interest = "out"
          /\ k < n => t.nospace /\ ~Writable(t)
      BY <1>1, <1>2, SentFacts DEF k
    <2> HIDE DEF t
    <2>2. sock' = [sock EXCEPT ![c] = t] BY <1>9 DEF t
    <2>3. /\ sock'[c] = t /\ sock' \in [Conns -> SockRec]
          /\ \A d \in Conns \ {c} : sock'[d] = sock[d]
      BY <1>2, <2>1, <2>2 DEF TypeOK
    <2>4. /\ client'[c] = cl /\ client' \in [Conns -> ClientRec]
          /\ \A d \in Conns \ {c} : client'[d] = client[d]
      BY <1>2, <1>5, <1>9 DEF TypeOK
    <2>5. /\ ResponseUnsent(c)' = n - k /\ Live(c)'
          /\ FileUnsent(c) = cl.file_size /\ FileUnsent(c)' = cl.file_size
      BY <1>3, <1>4, <1>5, <2>4 DEF ResponseUnsent, Live, FileUnsent
    <2>6. /\ k = n => /\ cl.file /\ pc' = "file" /\ cur' = c
                      /\ remaining' = cl.file_size
          /\ k # n => pc' = "dispatch" /\ cur' = Listener /\ remaining' = 0
      BY <1>3, <1>9, <2>5 DEF EnterFileLoop, NextEvent
    <2>7. cl.file_size \in Nat /\ cl.response_sent <= cl.response_len
      BY <1>3, <1>4, <1>5 DEF ClientRec
    <2>8. TypeOK'
      BY <1>1, <1>2, <1>7, <1>9, <2>3, <2>4, <2>6, <2>7, SMTT(30) DEF TypeOK
    <2>9. Locals'
      BY <1>1, <1>3, <1>5, <2>4, <2>5, <2>6, <2>7 DEF Locals
    <2>10. Pending(c)' \/ (k < n /\ t.nospace /\ ~Writable(t))
      <3>1. k = n \/ k < n BY <1>2, <1>3
      <3> QED BY <3>1, <2>1, <2>6 DEF Pending
    <2>11. ResponseUnsent(c)' = 0 => cl.file
      BY <1>3, <1>4, <1>9, <2>5
    <2>12. ConnInv(c)'
      <3>1. /\ client'[c] = cl /\ sock'[c] = t /\ wire'[c] = v
            /\ file'[c] = file[c] /\ why'[c] = "open" /\ Live(c)'
        BY <1>1, <1>2, <1>7, <1>9, <2>3, <2>4, <2>5
      <3>2. /\ ~cl.file => cl.file_size = 0 /\ cl.file_sent = 0
            /\ ~(cl.file_sent > 0)
            /\ cl.file => file[c].pos = cl.file_sent
            /\ ~MayShrink /\ cl.file => file[c].len >= cl.file_size
            /\ ~MayGrow /\ cl.file => file[c].len <= cl.file_size
            /\ ~MayGrow => cl.file_sent <= cl.file_size
        BY <1>2, <1>4, <1>5
      <3>3. Len(v) = cl.response_sent + cl.file_sent BY <1>4, <1>5, <1>6
      <3> QED BY <1>5, <1>6, <2>1, <2>7, <2>10, <2>11, <3>1, <3>2, <3>3 DEF ConnInv
    <2>13. \A d \in Conns \ {c} : Same(d)
      BY <1>1, <1>7, <1>9, <2>3, <2>4, <2>6 DEF Same
    <2> QED BY <1>1, <1>9, <2>1, <2>3, <2>8, <2>9, <2>12, <2>13, KeepIInv
  <1> QED BY <1>8, <1>9 DEF WriteResponse, n, k, cl

\* One turn of the file loop: read(), write(), and lseek() back by what the
\* kernel did not take.
LEMMA SendChunkIInv ==
  ASSUME NEW c \in Conns, IInv, SendChunk(c) PROVE IInv'
  <1> DEFINE left == file[c].len - file[c].pos
             n    == Least(Chunk, Least(remaining, left))
             k    == Accepted(sock[c], n)
             p    == client[c].response_len + file[c].pos
             v    == wire[c] \o [i \in 1..k |-> p + i]
  <1>1. /\ pc = "file" /\ cur = c /\ batch' = batch /\ n > 0
        /\ UNCHANGED <<keep_running, accept_failed>>
    BY DEF SendChunk, InFileLoop
  <1>2. /\ client[c].state = "WRITING" /\ client[c].file
        /\ ResponseUnsent(c) = 0 /\ remaining >= FileUnsent(c)
        /\ batch = batch \ {c} /\ c \notin batch
    BY <1>1, HandlerFacts DEF Locals
  <1>3. /\ TypeOK /\ client[c] \in ClientRec /\ sock[c] \in SockRec
        /\ file[c] \in [pos : Nat, len : Nat] /\ wire[c] \in Seq(Nat)
        /\ sock[c].phase = "open" /\ why[c] = "open" /\ sock[c].interest = "out"
        /\ file[c].pos = client[c].file_sent
        /\ ~MayShrink => file[c].len >= client[c].file_size
        /\ ~MayGrow => file[c].len <= client[c].file_size
        /\ ~MayGrow => client[c].file_sent <= client[c].file_size
        /\ \A i \in DOMAIN wire[c] : wire[c][i] = i
        /\ Len(wire[c]) = client[c].response_sent + client[c].file_sent
    BY <1>2, WritingFacts
  <1>4. /\ client[c].response_sent \in Nat /\ client[c].response_len \in Nat
        /\ client[c].response_sent = client[c].response_len
        /\ client[c].file_sent \in Nat /\ client[c].file_size \in Nat
        /\ remaining \in Int
    BY <1>2, <1>3 DEF ClientRec, ResponseUnsent, TypeOK
  <1>5. n \in Nat /\ file[c].pos + n <= file[c].len
    BY <1>1, <1>3, <1>4 DEF Least
  <1> HIDE DEF n
  <1>6. CASE /\ sock[c].rst /\ free_client(c, client[c], "reset")
             /\ NextEvent /\ UNCHANGED <<file, wire>>
    <2>1. /\ "reset" \in Reasons \ {"open"} /\ "reset" # "done"
          /\ file' \in [Conns -> [pos : Nat, len : Nat]]
          /\ wire' \in [Conns -> Seq(Nat)]
          /\ \A d \in Conns \ {c} : file'[d] = file[d] /\ wire'[d] = wire[d]
      BY <1>3, <1>6 DEF Reasons, TypeOK
    <2>2. batch' = batch \ {c} BY <1>1, <1>2
    <2>3. /\ client[c].response_sent <= client[c].response_len
          /\ Len(wire'[c]) = client[c].response_sent + client[c].file_sent
          /\ \A i \in DOMAIN wire'[c] : wire'[c][i] = i
      BY <1>3, <1>4, <1>6
    <2>4. free_client(c, client[c], "reset") /\ NextEvent BY <1>6
    <2> QED BY <1>1, <1>2, <1>3, <1>4, <2>1, <2>2, <2>3, <2>4, ReleaseIInv
  <1>7. CASE /\ ~sock[c].rst
             /\ client' = [client EXCEPT ![c].file_sent = @ + k]
             /\ file' = [file EXCEPT ![c].pos = SeekBack(@, n, k)]
             /\ sock' = [sock EXCEPT ![c] = Sent(@, n, k)]
             /\ Transmit(c, p, k)
             /\ IF k = n THEN UNCHANGED <<pc, cur, remaining>> ELSE NextEvent
             /\ UNCHANGED <<ready, why>>
    <2> DEFINE t  == Sent(sock[c], n, k)
               cl == [client[c] EXCEPT !.file_sent = @ + k]
               f  == [file[c] EXCEPT !.pos = SeekBack(@, n, k)]
    <2>1. k \in 0..n /\ k \in Nat
      <3>1. sock[c] \in SockRec BY <1>3
      <3>2. k \in 0..n BY <1>5, <3>1, AcceptedFacts
      <3> QED BY <1>5, <3>2
    <2>2. /\ t \in SockRec /\ t.phase = "open" /\ t.interest = "out"
          /\ k < n => t.nospace /\ ~Writable(t)
      BY <1>3, <1>5, <1>7, SentFacts
    <2>3. p \in Nat /\ p = Len(wire[c]) BY <1>3, <1>4
    <2> HIDE DEF n, k, t
    <2>4. client[c].file_sent + k \in Nat BY <1>4, <2>1
    <2>5. /\ cl \in ClientRec /\ cl.file_sent = client[c].file_sent + k
          /\ cl.state = "WRITING" /\ cl.file /\ cl.file_size = client[c].file_size
          /\ cl.response_len = client[c].response_len
          /\ cl.response_sent = client[c].response_sent
      BY <1>2, <1>3, <2>4 DEF ClientRec
    <2>6. SeekBack(file[c].pos, n, k) = client[c].file_sent + k
      BY <1>3, <1>4, <1>5, <2>1 DEF SeekBack
    <2>7. /\ f \in [pos : Nat, len : Nat] /\ f.pos = client[c].file_sent + k
          /\ f.len = file[c].len
      BY <1>3, <2>4, <2>6
    <2> HIDE DEF cl, f
    <2>8. /\ v \in Seq(Nat) /\ Len(v) = p + k
          /\ \A i \in DOMAIN v : v[i] = i
      BY <1>3, <2>1, <2>3, AppendInOrder
    <2> HIDE DEF v
    <2>9. /\ client' = [client EXCEPT ![c] = cl] /\ file' = [file EXCEPT ![c] = f]
          /\ sock' = [sock EXCEPT ![c] = t] /\ wire' = [wire EXCEPT ![c] = v]
      BY <1>3, <1>7 DEF cl, f, t, v, Transmit, TypeOK
    <2>10. /\ client'[c] = cl /\ file'[c] = f /\ sock'[c] = t /\ wire'[c] = v
           /\ why'[c] = "open"
           /\ \A d \in Conns \ {c} :
                 /\ client'[d] = client[d] /\ file'[d] = file[d]
                 /\ sock'[d] = sock[d] /\ wire'[d] = wire[d]
      BY <1>3, <1>7, <2>9 DEF TypeOK
    <2>11. /\ client' \in [Conns -> ClientRec]
           /\ file' \in [Conns -> [pos : Nat, len : Nat]]
           /\ sock' \in [Conns -> SockRec] /\ wire' \in [Conns -> Seq(Nat)]
      BY <1>3, <2>2, <2>5, <2>7, <2>8, <2>9 DEF TypeOK
    <2>12. /\ k = n => pc' = "file" /\ cur' = c /\ remaining' = remaining
           /\ k # n => pc' = "dispatch" /\ cur' = Listener /\ remaining' = 0
      BY <1>1, <1>7 DEF NextEvent
    <2>13. TypeOK' BY <1>1, <1>3, <1>4, <1>7, <2>11, <2>12, SMTT(30) DEF TypeOK
    <2>14. /\ ResponseUnsent(c)' = 0 /\ Live(c)'
           /\ FileUnsent(c)' = FileUnsent(c) - k /\ FileUnsent(c) \in Int
      BY <1>4, <2>1, <2>5, <2>10 DEF ResponseUnsent, Live, FileUnsent
    <2>15. Locals'
      BY <1>1, <1>2, <1>4, <2>1, <2>5, <2>10, <2>12, <2>14 DEF Locals
    <2>16. Pending(c)' \/ (t.nospace /\ ~Writable(t))
      <3>1. k = n \/ k < n BY <1>5, <2>1
      <3> QED BY <3>1, <2>2, <2>12 DEF Pending
    <2>17. ConnInv(c)'
      <3>1. Len(v) = cl.response_sent + cl.file_sent
        BY <1>3, <1>4, <2>1, <2>3, <2>5, <2>8
      <3>2. cl.response_sent = cl.response_len /\ cl.response_len \in Nat
        BY <1>4, <2>5
      <3>3. /\ ~MayShrink => f.len >= cl.file_size
            /\ ~MayGrow => f.len <= cl.file_size
        BY <1>3, <2>5, <2>7
      <3>4. ~MayGrow => cl.file_sent <= cl.file_size
        BY <1>3, <1>4, <1>5, <2>1, <2>5
      <3> QED BY <2>2, <2>5, <2>7, <2>8, <2>10, <2>14, <2>16, <3>1, <3>2, <3>3,
             <3>4 DEF ConnInv
    <2>18. \A d \in Conns \ {c} : Same(d)
      BY <1>1, <1>7, <2>10, <2>12 DEF Same
    <2>19. \A d \in Conns : sock'[d].phase = "backlog" => sock[d].phase = "backlog"
      BY <2>2, <2>10
    <2> QED BY <1>1, <1>7, <2>13, <2>15, <2>17, <2>18, <2>19, KeepIInv
  <1> QED BY <1>6, <1>7 DEF SendChunk, n

(***************************************************************************)
(* The environment.                                                        *)
(***************************************************************************)
\* A step of the environment leaves the server's own variables alone.
LEMMA EnvironmentKeeps ==
  ASSUME IInv, NEW c \in Conns,
         UNCHANGED <<keep_running, pc, batch, cur, remaining, accept_failed,
                     client, why, wire>>,
         sock' \in [Conns -> SockRec], file' \in [Conns -> [pos : Nat, len : Nat]],
         ready' = ready \/ ready' = ready \cup {c} \/ ready' = ready \cup {Listener},
         \A d \in Conns \ {c} : sock'[d] = sock[d] /\ file'[d] = file[d],
         ConnInv(c)', BacklogNotStranded'
  PROVE  IInv'
  <1>1. GlobalInv /\ \A d \in Conns : ConnInv(d) BY IInvByConnection
  <1>2. TypeOK' BY <1>1 DEF GlobalInv, TypeOK
  <1>3. ASSUME NEW d \in Conns \ {c} PROVE ConnInv(d)'
    <2>1. Same(d) BY DEF Same
    <2> QED BY <1>1, <2>1, Frame
  <1>4. Locals' BY <1>1 DEF Locals, GlobalInv, ResponseUnsent, FileUnsent
  <1> QED BY <1>2, <1>3, <1>4, IInvByConnection DEF GlobalInv

\* What the environment's steps have in common.
LEMMA OutsideFacts ==
  ASSUME NEW c \in Conns, IInv, Outside
  PROVE  /\ UNCHANGED <<keep_running, pc, batch, cur, remaining, accept_failed,
                        client, why, wire>>
         /\ TypeOK /\ client[c] \in ClientRec /\ sock[c] \in SockRec
         /\ file[c] \in [pos : Nat, len : Nat] /\ ConnInv(c)
         /\ BacklogNotStranded
         /\ Live(c)' <=> Live(c)
         /\ ResponseUnsent(c)' = ResponseUnsent(c)
  <1>1. UNCHANGED <<keep_running, pc, batch, cur, remaining, accept_failed,
                    client, why, wire>>
    BY DEF Outside, loopVars
  <1>2. /\ Live(c)' <=> Live(c)
        /\ ResponseUnsent(c)' = ResponseUnsent(c)
    BY <1>1 DEF Live, ResponseUnsent
  <1>3. BacklogNotStranded BY IInvByConnection DEF GlobalInv
  <1> QED BY <1>1, <1>2, <1>3, HandlerFacts

\* The socket of one connection changes to s.
LEMMA SockStep ==
  ASSUME NEW c \in Conns, TypeOK, NEW s \in SockRec,
         sock' = [sock EXCEPT ![c] = s]
  PROVE  /\ sock' \in [Conns -> SockRec] /\ sock'[c] = s
         /\ \A d \in Conns \ {c} : sock'[d] = sock[d]
  BY DEF TypeOK

\* No connection enters the backlog and no event of the listener is lost.
LEMMA BacklogQuiet ==
  ASSUME NEW c \in Conns, TypeOK, BacklogNotStranded,
         UNCHANGED <<pc, batch, accept_failed>>, ready \subseteq ready',
         sock'[c].phase = sock[c].phase,
         \A d \in Conns \ {c} : sock'[d] = sock[d]
  PROVE  BacklogNotStranded'
  <1>1. Deliverable(Listener)' => Deliverable(Listener) BY DEF Deliverable
  <1> QED BY <1>1 DEF BacklogNotStranded

\* A client connects.
LEMMA ConnectIInv == ASSUME NEW c \in Conns, IInv, Connect(c) PROVE IInv'
  <1>1. Outside /\ sock[c].phase = "idle" /\ ready' = ready \cup {Listener}
        /\ UNCHANGED file
    BY DEF Connect
  <1>2. PICK e \in ReqEnds :
           sock' = [sock EXCEPT ![c].phase = "backlog", ![c].reqEnd = e]
    BY DEF Connect
  <1> DEFINE s == [sock[c] EXCEPT !.phase = "backlog", !.reqEnd = e]
  <1>3. /\ TypeOK /\ sock[c] \in SockRec /\ ConnInv(c)
        /\ Live(c)' <=> Live(c)
        /\ ResponseUnsent(c)' = ResponseUnsent(c)
        /\ UNCHANGED <<keep_running, pc, batch, cur, remaining, accept_failed,
                       client, why, wire>>
    BY <1>1, OutsideFacts
  <1>4. /\ s \in SockRec /\ s.phase = "backlog"
        /\ s.interest = sock[c].interest /\ s.sndq = sock[c].sndq
    BY <1>3 DEF SockRec
  <1>5. sock' = [sock EXCEPT ![c] = s] BY <1>2, <1>3 DEF TypeOK
  <1> HIDE DEF s
  <1>6. /\ sock' \in [Conns -> SockRec] /\ sock'[c] = s
        /\ \A d \in Conns \ {c} : sock'[d] = sock[d]
    BY <1>3, <1>4, <1>5, SockStep
  <1>7. ~Live(c) /\ client[c].state = "none" /\ why[c] = "open"
    BY <1>1, <1>3 DEF ConnInv
  <1>8. Pending(c)' <=> Pending(c) BY <1>1, <1>3 DEF Pending
  <1>9. ConnInv(c)'
    BY <1>1, <1>3, <1>4, <1>6, <1>7, <1>8 DEF ConnInv
  <1>10. BacklogNotStranded' BY <1>1 DEF BacklogNotStranded
  <1> QED BY <1>1, <1>3, <1>6, <1>9, <1>10, EnvironmentKeeps DEF TypeOK

\* A client sends a byte.
LEMMA SendUnitIInv == ASSUME NEW c \in Conns, IInv, SendUnit(c) PROVE IInv'
  <1> DEFINE s == [sock[c] EXCEPT !.inq = @ + 1, !.sent = @ + 1]
  <1>1. /\ Outside /\ Wake(c, {"in"}) /\ UNCHANGED file
        /\ sock[c].sent < MaxSend
        /\ sock' = [sock EXCEPT ![c].inq = @ + 1, ![c].sent = @ + 1]
    BY DEF SendUnit
  <1>2. /\ TypeOK /\ sock[c] \in SockRec /\ ConnInv(c) /\ BacklogNotStranded
        /\ Live(c)' <=> Live(c)
        /\ ResponseUnsent(c)' = ResponseUnsent(c)
        /\ UNCHANGED <<keep_running, pc, batch, cur, remaining, accept_failed,
                       client, why, wire>>
    BY <1>1, OutsideFacts
  <1>3. sock[c].inq + 1 \in Nat /\ sock[c].sent + 1 \in 0..MaxSend
    BY <1>1, <1>2 DEF SockRec
  <1>4. /\ s \in SockRec /\ s.phase = sock[c].phase
        /\ s.interest = sock[c].interest /\ s.sndq = sock[c].sndq
        /\ s.fin = sock[c].fin /\ s.rst = sock[c].rst
        /\ s.nospace = sock[c].nospace
    BY <1>2, <1>3 DEF SockRec
  <1>5. sock' = [sock EXCEPT ![c] = s] BY <1>1, <1>2 DEF TypeOK
  <1> HIDE DEF s
  <1>6. /\ sock' \in [Conns -> SockRec] /\ sock'[c] = s
        /\ \A d \in Conns \ {c} : sock'[d] = sock[d]
    BY <1>2, <1>4, <1>5, SockStep
  <1>7. ready' = IF sock[c].interest = "in" THEN ready \cup {c} ELSE ready
    BY <1>1 DEF Wake
  <1>8. /\ Pending(c) => Pending(c)'
        /\ Pending(c)' => Pending(c) \/ sock[c].interest = "in"
        /\ sock[c].interest = "in" => Pending(c)'
    BY <1>2, <1>7 DEF Pending
  <1>9. sock[c].interest = "in" => client[c].state = "READING" /\ Live(c)
    BY <1>2 DEF ConnInv, Live
  <1>10. Writable(s) <=> Writable(sock[c]) BY <1>4 DEF Writable
  <1>11. ConnInv(c)'
    BY <1>1, <1>2, <1>4, <1>6, <1>8, <1>9, <1>10 DEF ConnInv
  <1>12. BacklogNotStranded' BY <1>2, <1>4, <1>6, <1>7, BacklogQuiet
  <1> QED BY <1>1, <1>2, <1>6, <1>7, <1>11, <1>12, EnvironmentKeeps DEF TypeOK

\* The kernel's edge puts on the ready list at most this connection, and only
\* if it is registered.
LEMMA WakeFacts ==
  ASSUME NEW c \in Conns, TypeOK, ConnInv(c), Wake(c, {"in", "out"}),
         UNCHANGED <<pc, batch, cur>>
  PROVE  /\ ready \subseteq ready'
         /\ ready' = ready \/ ready' = ready \cup {c}
         /\ Pending(c)' => Pending(c) \/ Live(c)
         /\ Live(c) => Pending(c)'
  <1>1. ready' = IF sock[c].interest \in {"in", "out"} THEN ready \cup {c} ELSE ready
    BY DEF Wake
  <1>2. sock[c].interest \in {"in", "out"} <=> client[c].state \in {"READING", "WRITING"}
    BY DEF ConnInv
  <1>3. Live(c) <=> client[c].state \in {"READING", "WRITING"}
    BY DEF ConnInv, Live, TypeOK, ClientRec
  <1> QED BY <1>1, <1>2, <1>3 DEF Pending

\* A client shuts down its side.
LEMMA HangupIInv == ASSUME NEW c \in Conns, IInv, Hangup(c) PROVE IInv'
  <1> DEFINE s == [sock[c] EXCEPT !.fin = TRUE]
  <1>1. /\ Outside /\ Wake(c, {"in", "out"}) /\ UNCHANGED file
        /\ sock' = [sock EXCEPT ![c].fin = TRUE]
    BY DEF Hangup
  <1>2. /\ TypeOK /\ sock[c] \in SockRec /\ ConnInv(c) /\ BacklogNotStranded
        /\ Live(c)' <=> Live(c)
        /\ ResponseUnsent(c)' = ResponseUnsent(c)
        /\ UNCHANGED <<keep_running, pc, batch, cur, remaining, accept_failed,
                       client, why, wire>>
    BY <1>1, OutsideFacts
  <1>3. /\ s \in SockRec /\ s.phase = sock[c].phase
        /\ s.interest = sock[c].interest /\ s.sndq = sock[c].sndq
    BY <1>2 DEF SockRec
  <1>4. sock' = [sock EXCEPT ![c] = s] BY <1>1, <1>2 DEF TypeOK
  <1> HIDE DEF s
  <1>5. /\ sock' \in [Conns -> SockRec] /\ sock'[c] = s
        /\ \A d \in Conns \ {c} : sock'[d] = sock[d]
    BY <1>2, <1>3, <1>4, SockStep
  <1>6. /\ ready \subseteq ready'
        /\ ready' = ready \/ ready' = ready \cup {c}
        /\ Pending(c)' => Pending(c) \/ Live(c)
        /\ Live(c) => Pending(c)'
    BY <1>1, <1>2, WakeFacts
  <1>7. client[c].state \in {"READING", "WRITING"} => Live(c) BY DEF Live
  <1>8. ConnInv(c)'
    BY <1>1, <1>2, <1>3, <1>5, <1>6, <1>7 DEF ConnInv
  <1>9. BacklogNotStranded' BY <1>2, <1>3, <1>5, <1>6, BacklogQuiet
  <1> QED BY <1>1, <1>2, <1>5, <1>6, <1>8, <1>9, EnvironmentKeeps DEF TypeOK

\* A client resets the connection.
LEMMA ResetIInv == ASSUME NEW c \in Conns, IInv, Reset(c) PROVE IInv'
  <1> DEFINE s == [sock[c] EXCEPT !.rst = TRUE, !.sndq = 0]
  <1>1. /\ Outside /\ Wake(c, {"in", "out"}) /\ UNCHANGED file
        /\ sock' = [sock EXCEPT ![c].rst = TRUE, ![c].sndq = 0]
    BY DEF Reset
  <1>2. /\ TypeOK /\ sock[c] \in SockRec /\ ConnInv(c) /\ BacklogNotStranded
        /\ Live(c)' <=> Live(c)
        /\ ResponseUnsent(c)' = ResponseUnsent(c)
        /\ UNCHANGED <<keep_running, pc, batch, cur, remaining, accept_failed,
                       client, why, wire>>
    BY <1>1, OutsideFacts
  <1>3. /\ s \in SockRec /\ s.phase = sock[c].phase
        /\ s.interest = sock[c].interest /\ s.sndq = 0
    <2>1. 0 \in 0..SndCap BY SizeAssumption
    <2>2. [sock[c] EXCEPT !.sndq = 0] \in SockRec BY <1>2, <2>1 DEF SockRec
    <2> QED BY <1>2, <2>2 DEF SockRec
  <1>4. sock' = [sock EXCEPT ![c] = s] BY <1>1, <1>2 DEF TypeOK
  <1> HIDE DEF s
  <1>5. /\ sock' \in [Conns -> SockRec] /\ sock'[c] = s
        /\ \A d \in Conns \ {c} : sock'[d] = sock[d]
    BY <1>2, <1>3, <1>4, SockStep
  <1>6. /\ ready \subseteq ready'
        /\ ready' = ready \/ ready' = ready \cup {c}
        /\ Pending(c)' => Pending(c) \/ Live(c)
        /\ Live(c) => Pending(c)'
    BY <1>1, <1>2, WakeFacts
  <1>7. client[c].state \in {"READING", "WRITING"} => Live(c) BY DEF Live
  <1>8. ConnInv(c)'
    BY <1>1, <1>2, <1>3, <1>5, <1>6, <1>7 DEF ConnInv
  <1>9. BacklogNotStranded' BY <1>2, <1>3, <1>5, <1>6, BacklogQuiet
  <1> QED BY <1>1, <1>2, <1>5, <1>6, <1>8, <1>9, EnvironmentKeeps DEF TypeOK

\* A client takes a unit from the send buffer; the edge comes with the room.
LEMMA DrainIInv == ASSUME NEW c \in Conns, IInv, Drain(c) PROVE IInv'
  <1> DEFINE r    == [sock[c] EXCEPT !.sndq = @ - 1]
             edge == r.nospace /\ Writable(r)
             s    == [r EXCEPT !.nospace = @ /\ ~edge]
  <1>1. /\ Outside /\ UNCHANGED file
        /\ sock[c].phase = "open" /\ sock[c].sndq > 0
        /\ sock' = [sock EXCEPT ![c] = s]
        /\ IF edge THEN Wake(c, {"out"}) ELSE UNCHANGED ready
    BY DEF Drain
  <1>2. /\ TypeOK /\ sock[c] \in SockRec /\ ConnInv(c) /\ BacklogNotStranded
        /\ Live(c)' <=> Live(c)
        /\ ResponseUnsent(c)' = ResponseUnsent(c)
        /\ UNCHANGED <<keep_running, pc, batch, cur, remaining, accept_failed,
                       client, why, wire>>
    BY <1>1, OutsideFacts
  <1>3. sock[c].sndq - 1 \in 0..SndCap BY <1>1, <1>2 DEF SockRec
  <1>4. /\ r \in SockRec /\ r.phase = "open" /\ r.interest = sock[c].interest
        /\ r.inq = sock[c].inq /\ r.fin = sock[c].fin /\ r.rst = sock[c].rst
        /\ r.nospace = sock[c].nospace
    BY <1>1, <1>2, <1>3 DEF SockRec
  <1>5. edge \in BOOLEAN OBVIOUS
  <1> HIDE DEF r, edge
  <1>6. /\ s \in SockRec /\ s.phase = "open" /\ s.interest = sock[c].interest
        /\ s.inq = sock[c].inq /\ s.fin = sock[c].fin /\ s.rst = sock[c].rst
        /\ s.sndq = r.sndq /\ s.nospace = (r.nospace /\ ~edge)
    BY <1>4, <1>5 DEF SockRec
  <1> HIDE DEF s
  <1>7. Writable(s) <=> Writable(r) BY <1>4, <1>6 DEF Writable
  <1>8. /\ sock' \in [Conns -> SockRec] /\ sock'[c] = s
        /\ \A d \in Conns \ {c} : sock'[d] = sock[d]
    BY <1>1, <1>2, <1>6, SockStep
  <1>9. /\ ready \subseteq ready'
        /\ ready' = ready \/ ready' = ready \cup {c}
        /\ ready' # ready => edge /\ sock[c].interest = "out"
        /\ edge /\ sock[c].interest = "out" => c \in ready'
    BY <1>1 DEF Wake
  <1>10. /\ Pending(c) => Pending(c)'
         /\ Pending(c)' => Pending(c) \/ sock[c].interest = "out"
         /\ edge /\ sock[c].interest = "out" => Pending(c)'
    BY <1>2, <1>9 DEF Pending
  <1>11. /\ sock[c].interest = "out" <=> client[c].state = "WRITING"
         /\ client[c].state = "WRITING" => Live(c)
         /\ client[c].state \notin {"none", "READING"}
    BY <1>1, <1>2 DEF ConnInv, Live, SockRec
  <1>12. ConnInv(c)'
    BY <1>1, <1>2, <1>4, <1>6, <1>7, <1>8, <1>10, <1>11 DEF ConnInv, edge
  <1>13. BacklogNotStranded' BY <1>1, <1>2, <1>6, <1>8, <1>9, BacklogQuiet
  <1> QED BY <1>1, <1>2, <1>8, <1>9, <1>12, <1>13, EnvironmentKeeps DEF TypeOK

\* Another process changes the length of a file that is being served.
LEMMA FileChangesIInv == ASSUME NEW c \in Conns, IInv, FileChanges(c) PROVE IInv'
  <1>1. Outside /\ UNCHANGED <<sock, ready>> BY DEF FileChanges
  <1>2. PICK l \in FileSizes :
           /\ (l < file[c].len /\ MayShrink) \/ (l > file[c].len /\ MayGrow)
           /\ file' = [file EXCEPT ![c].len = l]
    BY DEF FileChanges
  <1>3. /\ TypeOK /\ file[c] \in [pos : Nat, len : Nat] /\ ConnInv(c)
        /\ client[c] \in ClientRec
        /\ BacklogNotStranded
        /\ Live(c)' <=> Live(c)
        /\ ResponseUnsent(c)' = ResponseUnsent(c)
        /\ UNCHANGED <<keep_running, pc, batch, cur, remaining, accept_failed,
                       client, why, wire>>
    BY <1>1, OutsideFacts
  <1>4. /\ file' \in [Conns -> [pos : Nat, len : Nat]]
        /\ file'[c].pos = file[c].pos /\ file'[c].len = l
        /\ \A d \in Conns \ {c} : file'[d] = file[d]
    BY <1>2, <1>3 DEF TypeOK
  <1>5. /\ ~MayShrink => file'[c].len > file[c].len
        /\ ~MayGrow => file'[c].len < file[c].len
    BY <1>2, <1>4
  <1>6. Pending(c)' <=> Pending(c) BY <1>1, <1>3 DEF Pending
  <1>7. /\ ~MayShrink /\ client[c].file /\ Live(c) =>
              file'[c].len >= client[c].file_size
        /\ ~MayGrow /\ client[c].file /\ Live(c) =>
              file'[c].len <= client[c].file_size
    BY <1>3, <1>4, <1>5 DEF ConnInv, ClientRec
  <1>8. ConnInv(c)'
    BY <1>1, <1>3, <1>4, <1>6, <1>7 DEF ConnInv, Writable
  <1>9. BacklogNotStranded' BY <1>1, <1>3, BacklogQuiet
  <1> QED BY <1>1, <1>3, <1>4, <1>8, <1>9, EnvironmentKeeps DEF TypeOK

(***************************************************************************)
(* The inductive invariant and the theorems it gives.                      *)
(***************************************************************************)
\* Every step of the server, of the signal handler and of the environment
\* preserves the inductive invariant.
LEMMA NextIInv == IInv /\ [Next]_vars => IInv'
  <1> SUFFICES ASSUME IInv, [Next]_vars PROVE IInv' OBVIOUS
  <1>1. CASE MainLoop
    BY <1>1, MainLoopIInv, EpollWaitIInv DEF MainLoop
  <1>2. CASE Sigint BY <1>2, MainLoopIInv
  <1>3. ASSUME NEW c \in Conns, Handler(c) PROVE IInv'
    BY <1>3, AcceptOneIInv, AcceptRefusedIInv, RequestFullIInv, ReadNothingIInv,
       ReadSomeIInv, WriteFailedIInv, WriteResponseIInv, ResumeFileIInv,
       SendChunkIInv, LeaveFileLoopIInv, FileReadFailedIInv DEF Handler
  <1>4. ASSUME NEW c \in Conns, Environment(c) PROVE IInv'
    BY <1>4, ConnectIInv, SendUnitIInv, HangupIInv, ResetIInv, DrainIInv,
       FileChangesIInv DEF Environment
  <1>5. CASE UNCHANGED vars
    <2>1. GlobalInv /\ \A c \in Conns : ConnInv(c) BY IInvByConnection
    <2>2. ASSUME NEW c \in Conns PROVE ConnInv(c)'
      <3>1. Same(c) BY <1>5 DEF vars, Same
      <3> QED BY <2>1, <3>1, Frame
    <2>3. GlobalInv'
      BY <1>5, <2>1 DEF vars, GlobalInv, TypeOK, Locals, BacklogNotStranded,
                        Deliverable, ResponseUnsent, FileUnsent
    <2> QED BY <2>2, <2>3, IInvByConnection
  <1> QED BY <1>1, <1>2, <1>3, <1>4, <1>5 DEF Next, Server

\* The inductive invariant holds in every reachable state.
THEOREM Inductive == Spec => []IInv
  BY InitIInv, NextIInv, PTL DEF Spec

\* Every variable of the server, the sockets and the history keeps its type:
\* in particular request_len never exceeds the buffer of client_t and the
\* send queue never exceeds its capacity.
THEOREM TypeCorrect == Spec => []TypeOK
  <1>1. IInv => TypeOK BY DEF IInv
  <1> QED BY <1>1, Inductive, PTL

\* No event in the kernel's list or in events[] ever refers to a client_t that
\* free_client released, for any number of connections and batch size.
THEOREM NoUseAfterFree == Spec => []NoEventOfFreedClient
  <1>1. IInv => NoEventOfFreedClient BY DEF IInv
  <1> QED BY <1>1, Inductive, PTL

\* The epoll registration of a socket always follows its client's state.
THEOREM InterestCorrect == Spec => []InterestFollowsState
  <1>1. IInv => InterestFollowsState BY DEF IInv
  <1> QED BY <1>1, Inductive, PTL

\* Through any sequence of short writes, refusals and rewinds the client gets
\* the response in order, without a gap or a repeat, and as counted.
THEOREM WireOrdered == Spec => []WireInOrder
  <1>1. IInv => WireInOrder BY DEF IInv
  <1> QED BY <1>1, Inductive, PTL

\* A connection closed as finished was given its whole response and file.
THEOREM CompletionIsTrue == Spec => []DoneMeansWhole
  <1>1. IInv => DoneMeansWhole
    <2> SUFFICES ASSUME IInv, NEW c \in Conns, why[c] = "done"
                 PROVE  Len(wire[c]) >= client[c].response_len
                                        + client[c].file_size
      BY DEF DoneMeansWhole
    <2>1. client[c] \in ClientRec BY DEF IInv, TypeOK
    <2>2. /\ client[c].response_sent = client[c].response_len
          /\ client[c].file_sent >= client[c].file_size
          /\ Len(wire[c]) = client[c].response_sent + client[c].file_sent
      BY DEF IInv, Progress, WireInOrder
    <2> QED BY <2>1, <2>2 DEF ClientRec
  <1> QED BY <1>1, Inductive, PTL

\* Edge-triggered epoll loses no input except in the two ways the property
\* names: a full request buffer, and a hang-up that came with data.
THEOREM InputSafe == Spec => []InputNotStranded
  <1>1. IInv => InputNotStranded BY DEF IInv
  <1> QED BY <1>1, Inductive, PTL

\* A client that still has to be sent something waits for an edge that is due,
\* unless its file was truncated.
THEOREM OutputSafe == Spec => []OutputNotStranded
  <1>1. IInv => OutputNotStranded BY DEF IInv
  <1> QED BY <1>1, Inductive, PTL

\* Connections wait in the backlog without an event only after an error of
\* accept().
THEOREM BacklogSafe == Spec => []BacklogNotStranded
  <1>1. IInv => BacklogNotStranded BY DEF IInv
  <1> QED BY <1>1, Inductive, PTL

-----------------------------------------------------------------------------
(***************************************************************************)
(* The server implements HttpExchange: its initial state maps to the       *)
(* initial state there, and every step to a step of one connection or to a *)
(* stutter.                                                                *)
(***************************************************************************)

\* A step after which connection d looks the same to its client.
SameExchange(d) ==
    client'[d] = client[d] /\ why'[d] = why[d] /\ wire'[d] = wire[d]

\* The five ways a step may move one connection.
Moves(c) ==
    \/ SameExchange(c)
    \/ /\ client[c].state = "none" /\ why[c] = "open" /\ UNCHANGED <<why, wire>>
       /\ client'[c].state = "READING" /\ ExchangeTotal'[c] = ExchangeTotal[c]
    \/ /\ client[c].state = "READING" /\ UNCHANGED <<why, wire>>
       /\ client'[c].state \in {"READING", "WRITING"}
       /\ client'[c].state = "READING" => ExchangeTotal'[c] = ExchangeTotal[c]
    \/ /\ client[c].state = "WRITING"
       /\ Len(wire'[c]) >= Len(wire[c])
       /\ Len(wire'[c]) <= ExchangeTotal[c] \/ MayGrow
       /\ ExchangeTotal'[c] = ExchangeTotal[c]
       /\ \/ client'[c].state = "WRITING"
          \/ /\ client'[c].state = "freed" /\ why'[c] = "done"
             /\ Len(wire'[c]) >= ExchangeTotal[c]
    \/ /\ \/ client[c].state \in {"READING", "WRITING"}
          \/ client[c].state = "none" /\ why[c] = "open"
       /\ client'[c].state \in {"none", "freed"}
       /\ why'[c] \notin {"open", "done"}
       /\ ExchangeTotal'[c] = ExchangeTotal[c] /\ UNCHANGED wire

\* A connection that moves in one of these ways takes an abstract step.
LEMMA MoveIsStep ==
  ASSUME IInv, IInv', NEW c \in Conns, Moves(c),
         \A d \in Conns \ {c} : SameExchange(d)
  PROVE  [Exchange!Next]_Exchange!vars
  <1> DEFINE P == ExchangePhase
             T == ExchangeTotal
             W == wire
  <1>1. /\ W \in [Conns -> Seq(Nat)] /\ W' \in [Conns -> Seq(Nat)]
        /\ client[c] \in ClientRec /\ client'[c] \in ClientRec
    BY DEF IInv, TypeOK
  <1>2. /\ \A d \in Conns \ {c} : P'[d] = P[d] /\ T'[d] = T[d] /\ W'[d] = W[d]
    BY DEF SameExchange, ExchangePhase, ExchangeTotal
  <1>3. /\ P = [d \in Conns |-> P[d]] /\ P' = [d \in Conns |-> P'[d]]
        /\ T = [d \in Conns |-> T[d]] /\ T' = [d \in Conns |-> T'[d]]
    BY DEF ExchangePhase, ExchangeTotal
  <1>4. /\ P' = [P EXCEPT ![c] = P'[c]] /\ T' = [T EXCEPT ![c] = T'[c]]
        /\ W' = [W EXCEPT ![c] = W'[c]]
    BY <1>1, <1>2, <1>3
  <1>5. /\ P'[c] = P[c] => P' = P
        /\ T'[c] = T[c] => T' = T
        /\ W'[c] = W[c] => W' = W
    BY <1>1, <1>2, <1>3
  <1>6. /\ T[c] = client[c].response_len + client[c].file_size
        /\ T'[c] = client'[c].response_len + client'[c].file_size
    BY DEF ExchangeTotal
  <1>7. T[c] \in Nat /\ T'[c] \in Nat
    <2>1. /\ client[c].response_len \in Nat /\ client[c].file_size \in Nat
          /\ client'[c].response_len \in Nat /\ client'[c].file_size \in Nat
      BY <1>1 DEF ClientRec
    <2> QED BY <1>6, <2>1
  <1>8. /\ P[c] = IF client[c].state = "READING" THEN "open"
                  ELSE IF client[c].state = "WRITING" THEN "answering"
                  ELSE IF why[c] = "done" THEN "complete"
                  ELSE IF why[c] = "open" THEN "new" ELSE "given up"
        /\ P'[c] = IF client'[c].state = "READING" THEN "open"
                   ELSE IF client'[c].state = "WRITING" THEN "answering"
                   ELSE IF why'[c] = "done" THEN "complete"
                   ELSE IF why'[c] = "open" THEN "new" ELSE "given up"
    BY DEF ExchangePhase
  <1>9. /\ W'[c] = Exchange!UpTo(Len(W'[c])) /\ Len(W'[c]) \in Nat
    <2>1. wire'[c] \in Seq(Nat) BY <1>1
    <2>2. \A i \in DOMAIN wire'[c] : wire'[c][i] = i BY DEF IInv, WireInOrder
    <2>3. wire'[c] = [i \in 1..Len(wire'[c]) |-> wire'[c][i]] BY ONLY <2>1, SeqForm
    <2> QED BY <2>1, <2>2, <2>3 DEF Exchange!UpTo
  <1> HIDE DEF P, T, W
  <1>10. CASE SameExchange(c)
    <2>1. P'[c] = P[c] /\ T'[c] = T[c] /\ W'[c] = W[c]
      BY <1>6, <1>8, <1>10 DEF SameExchange, W
    <2> QED BY <1>5, <2>1 DEF Exchange!vars, P, T, W
  <1>11. ASSUME P[c] = "new", P'[c] = "open", T'[c] = T[c], W' = W
         PROVE  Exchange!Open(c)
    BY <1>4, <1>5, <1>11 DEF Exchange!Open, P, T, W
  <1>12. ASSUME P[c] = "open", P'[c] = "answering", W' = W
         PROVE  Exchange!Answer(c)
    BY <1>4, <1>7, <1>12 DEF Exchange!Answer, P, T, W
  <1>13. ASSUME P[c] = "answering", T'[c] = T[c], Len(W'[c]) >= Len(W[c]),
                Len(W'[c]) <= T[c] \/ MayGrow,
                \/ P'[c] = "answering"
                \/ P'[c] = "complete" /\ Len(W'[c]) >= T[c]
         PROVE  Exchange!Deliver(c)
    <2>1. W' = [W EXCEPT ![c] = Exchange!UpTo(Len(W'[c]))] BY <1>4, <1>9
    <2>2. T' = T BY <1>5, <1>13
    <2>3. \/ P' = P
          \/ Len(W'[c]) >= T[c] /\ P' = [P EXCEPT ![c] = "complete"]
      BY <1>4, <1>5, <1>13
    <2> QED BY <1>13, <2>1, <2>2, <2>3 DEF Exchange!Deliver, P, T, W
  <1>14. ASSUME P[c] \in {"new", "open", "answering"}, P'[c] = "given up",
                T'[c] = T[c], W' = W
         PROVE  Exchange!GiveUp(c)
    BY <1>4, <1>5, <1>14 DEF Exchange!GiveUp, P, T, W
  <1>15. (P'[c] = P[c] /\ T'[c] = T[c] /\ W' = W) => UNCHANGED Exchange!vars
    BY <1>5 DEF Exchange!vars, P, T, W
  <1>16. CASE /\ client[c].state = "none" /\ why[c] = "open"
              /\ UNCHANGED <<why, wire>> /\ client'[c].state = "READING"
              /\ ExchangeTotal'[c] = ExchangeTotal[c]
    <2>1. Exchange!Open(c) BY <1>8, <1>11, <1>16 DEF T, W
    <2> QED BY <2>1 DEF Exchange!Next
  <1>17. CASE /\ client[c].state = "READING" /\ UNCHANGED <<why, wire>>
              /\ client'[c].state \in {"READING", "WRITING"}
              /\ client'[c].state = "READING" =>
                    ExchangeTotal'[c] = ExchangeTotal[c]
    <2>1. Exchange!Answer(c) \/ UNCHANGED Exchange!vars
      BY <1>8, <1>12, <1>15, <1>17 DEF T, W
    <2> QED BY <2>1 DEF Exchange!Next
  <1>18. CASE /\ client[c].state = "WRITING"
              /\ Len(wire'[c]) >= Len(wire[c])
              /\ Len(wire'[c]) <= ExchangeTotal[c] \/ MayGrow
              /\ ExchangeTotal'[c] = ExchangeTotal[c]
              /\ \/ client'[c].state = "WRITING"
                 \/ /\ client'[c].state = "freed" /\ why'[c] = "done"
                    /\ Len(wire'[c]) >= ExchangeTotal[c]
    <2>1. Exchange!Deliver(c) BY <1>8, <1>13, <1>18 DEF T, W
    <2> QED BY <2>1 DEF Exchange!Next
  <1>19. CASE /\ \/ client[c].state \in {"READING", "WRITING"}
                 \/ client[c].state = "none" /\ why[c] = "open"
              /\ client'[c].state \in {"none", "freed"}
              /\ why'[c] \notin {"open", "done"}
              /\ ExchangeTotal'[c] = ExchangeTotal[c] /\ UNCHANGED wire
    <2>1. Exchange!GiveUp(c) BY <1>8, <1>14, <1>19 DEF T, W
    <2> QED BY <2>1 DEF Exchange!Next
  <1> QED BY <1>10, <1>16, <1>17, <1>18, <1>19 DEF Moves

\* The initial state is the abstract initial state.
LEMMA InitExchange == Init => Exchange!Init
  BY DEF Init, NoClient, Exchange!Init, ExchangePhase, ExchangeTotal

\* Releasing a client without completing its response gives the exchange up.
LEMMA GiveUpMoves ==
  ASSUME IInv, NEW c \in Conns, NEW reason \in {"full", "hangup", "reset", "ioerror"},
         client[c].state \in {"READING", "WRITING"},
         free_client(c, client[c], reason), wire' = wire
  PROVE  Moves(c) /\ \A d \in Conns \ {c} : SameExchange(d)
  <1>1. TypeOK /\ client[c] \in ClientRec BY HandlerFacts
  <1>2. reason \in Reasons BY DEF Reasons
  <1>3. /\ client'[c] = [client[c] EXCEPT !.state = "freed"] /\ why'[c] = reason
        /\ \A d \in Conns \ {c} : client'[d] = client[d] /\ why'[d] = why[d]
    BY <1>1, <1>2, FreeClient
  <1>4. /\ client'[c].state = "freed"
        /\ client'[c].response_len = client[c].response_len
        /\ client'[c].file_size = client[c].file_size
    BY <1>1, <1>3 DEF ClientRec
  <1>5. ExchangeTotal'[c] = ExchangeTotal[c] BY <1>4 DEF ExchangeTotal
  <1> QED BY <1>3, <1>4, <1>5 DEF Moves, SameExchange

\* accept() of a connection opens its exchange.
LEMMA AcceptOneMoves ==
  ASSUME IInv, NEW c \in Conns, AcceptOne(c)
  PROVE  Moves(c) /\ \A d \in Conns \ {c} : SameExchange(d)
  <1>1. /\ sock[c].phase = "backlog" /\ UNCHANGED <<why, wire>>
        /\ client' = [client EXCEPT ![c] = create_client]
    BY DEF AcceptOne
  <1>2. TypeOK /\ client[c] \in ClientRec /\ ConnInv(c) BY HandlerFacts
  <1>3. /\ client'[c] = create_client
        /\ \A d \in Conns \ {c} : client'[d] = client[d]
    BY <1>1, <1>2 DEF TypeOK
  <1>4. /\ client[c].state = "none" /\ why[c] = "open"
        /\ client[c].response_len = 0 /\ client[c].file_size = 0
    BY <1>1, <1>2 DEF ConnInv
  <1>5. /\ client'[c].state = "READING" /\ client'[c].response_len = 0
        /\ client'[c].file_size = 0
    BY <1>3 DEF create_client, NoClient
  <1>6. ExchangeTotal'[c] = ExchangeTotal[c] BY <1>4, <1>5 DEF ExchangeTotal
  <1> QED BY <1>1, <1>3, <1>4, <1>5, <1>6 DEF Moves, SameExchange

\* A connection closed before it got a client_t is given up.
LEMMA AcceptRefusedMoves ==
  ASSUME IInv, NEW c \in Conns, AcceptRefused(c)
  PROVE  Moves(c) /\ \A d \in Conns \ {c} : SameExchange(d)
  <1>1. /\ sock[c].phase = "backlog" /\ UNCHANGED <<client, wire>>
        /\ why' = [why EXCEPT ![c] = "refused"]
    BY DEF AcceptRefused
  <1>2. TypeOK /\ ConnInv(c) BY HandlerFacts
  <1>3. client[c].state = "none" /\ why[c] = "open" BY <1>1, <1>2 DEF ConnInv
  <1>4. /\ why'[c] = "refused" /\ \A d \in Conns \ {c} : why'[d] = why[d]
    BY <1>1, <1>2 DEF TypeOK
  <1>5. ExchangeTotal' = ExchangeTotal BY <1>1 DEF ExchangeTotal
  <1> QED BY <1>1, <1>3, <1>4, <1>5 DEF Moves, SameExchange

\* Reading is no step of the exchange until handle_request answers or closes.
LEMMA ReadSomeMoves ==
  ASSUME IInv, NEW c \in Conns, ReadSome(c)
  PROVE  Moves(c) /\ \A d \in Conns \ {c} : SameExchange(d)
  <1> DEFINE n  == Least(Room(c), sock[c].inq)
             cl == [client[c] EXCEPT !.request_len = @ + n]
             s  == [sock[c] EXCEPT !.inq = @ - n]
             done(o) == [cl EXCEPT
                          !.state = o.state, !.response_len = o.response_len,
                          !.file = o.file, !.file_size = o.file_size]
  <1>1. /\ client[c].state = "READING" /\ wire' = wire /\ n > 0
    BY DEF ReadSome, Reading
  <1>2. TypeOK /\ client[c] \in ClientRec /\ sock[c] \in SockRec /\ ConnInv(c)
    BY HandlerFacts
  <1>3. client[c].response_len = 0 /\ client[c].file_size = 0
    BY <1>1, <1>2 DEF ConnInv
  <1>4. n \in Nat /\ n <= ReqCap - client[c].request_len
    <2>1. client[c].request_len \in 0..ReqCap /\ sock[c].inq \in Nat
      BY <1>2 DEF ClientRec, SockRec
    <2> QED BY <1>1, <2>1 DEF Least, Room
  <1> HIDE DEF n
  <1>5. /\ cl \in ClientRec /\ cl.state = "READING"
        /\ cl.response_len = 0 /\ cl.file_size = 0
    <2>1. client[c].request_len + n \in 0..ReqCap
      BY <1>2, <1>4 DEF ClientRec
    <2> QED BY <1>1, <1>2, <1>3, <2>1 DEF ClientRec
  <1>6. \/ client' = [client EXCEPT ![c] = cl] /\ UNCHANGED why
        \/ \E o \in Outcomes :
              \/ /\ o.state = "WRITING" /\ UNCHANGED why
                 /\ client' = [client EXCEPT ![c] = done(o)]
              \/ o.state = "CLOSING" /\ free_client(c, done(o), "closing")
    BY DEF ReadSome, n
  <1>7. CASE client' = [client EXCEPT ![c] = cl] /\ UNCHANGED why
    <2> HIDE DEF cl
    <2>1. client'[c] = cl /\ \A d \in Conns \ {c} : client'[d] = client[d]
      BY <1>2, <1>7 DEF TypeOK
    <2>2. ExchangeTotal'[c] = ExchangeTotal[c]
      BY <1>3, <1>5, <2>1 DEF ExchangeTotal
    <2> QED BY <1>1, <1>5, <1>7, <2>1, <2>2 DEF Moves, SameExchange
  <1>8. ASSUME NEW o \in Outcomes, o.state = "WRITING", UNCHANGED why,
               client' = [client EXCEPT ![c] = done(o)]
        PROVE  Moves(c) /\ \A d \in Conns \ {c} : SameExchange(d)
    <2>1. done(o).state = "WRITING" BY <1>5, <1>8 DEF ClientRec
    <2> HIDE DEF cl, done
    <2>2. client'[c] = done(o) /\ \A d \in Conns \ {c} : client'[d] = client[d]
      BY <1>2, <1>8 DEF TypeOK
    <2> QED BY <1>1, <1>8, <2>1, <2>2 DEF Moves, SameExchange
  <1>9. ASSUME NEW o \in Outcomes, o.state = "CLOSING",
               free_client(c, done(o), "closing")
        PROVE  Moves(c) /\ \A d \in Conns \ {c} : SameExchange(d)
    <2>1. o \in Outcome /\ o.response_len = 0 /\ ~o.file /\ o.file_size = 0
      BY <1>9, OutcomeAssumption DEF IsOutcome
    <2>2. /\ done(o) \in ClientRec /\ done(o).response_len = 0
          /\ done(o).file_size = 0
      BY <1>5, <2>1 DEF ClientRec, Outcome
    <2>3. "closing" \in Reasons BY DEF Reasons
    <2> HIDE DEF cl, done
    <2>4. /\ client'[c] = [done(o) EXCEPT !.state = "freed"]
          /\ why'[c] = "closing"
          /\ \A d \in Conns \ {c} : client'[d] = client[d] /\ why'[d] = why[d]
      BY <1>2, <1>9, <2>2, <2>3, FreeClient
    <2>5. /\ client'[c].state = "freed" /\ client'[c].response_len = 0
          /\ client'[c].file_size = 0
      BY <2>2, <2>4 DEF ClientRec
    <2>6. ExchangeTotal'[c] = ExchangeTotal[c] BY <1>3, <2>5 DEF ExchangeTotal
    <2> QED BY <1>1, <2>4, <2>5, <2>6 DEF Moves, SameExchange
  <1> HIDE DEF cl, done
  <1> QED BY <1>6, <1>7, <1>8, <1>9

\* write() of the response buffer delivers a prefix, all of it when it ends
\* the exchange.
LEMMA WriteResponseMoves ==
  ASSUME IInv, NEW c \in Conns, WriteResponse(c)
  PROVE  Moves(c) /\ \A d \in Conns \ {c} : SameExchange(d)
  <1> DEFINE n  == ResponseUnsent(c)
             k  == Accepted(sock[c], n)
             cl == [client[c] EXCEPT !.response_sent = @ + k]
             v  == wire[c] \o [i \in 1..k |-> client[c].response_sent + i]
  <1>1. /\ client[c].state = "WRITING" /\ n > 0
        /\ wire' = [wire EXCEPT ![c] = v]
        /\ \/ k = n /\ ~cl.file /\ free_client(c, cl, "done")
           \/ client' = [client EXCEPT ![c] = cl] /\ UNCHANGED why
    BY DEF WriteResponse, Writing, Transmit
  <1>2. /\ TypeOK /\ client[c] \in ClientRec /\ sock[c] \in SockRec
        /\ wire[c] \in Seq(Nat) /\ n \in Nat
        /\ client[c].file_sent \in Nat /\ ~(client[c].file_sent > 0)
        /\ ~client[c].file => client[c].file_size = 0
        /\ \A i \in DOMAIN wire[c] : wire[c][i] = i
        /\ Len(wire[c]) = client[c].response_sent + client[c].file_sent
    BY <1>1, WritingFacts, SMTT(30) DEF ClientRec
  <1>3. k \in 0..n /\ k \in Nat BY <1>2, AcceptedFacts
  <1>4. /\ client[c].response_sent \in Nat /\ client[c].response_len \in Nat
        /\ n = client[c].response_len - client[c].response_sent
        /\ client[c].file_size \in Nat
        /\ Len(wire[c]) = client[c].response_sent
        /\ client[c].response_sent + k \in Nat
    BY <1>2, <1>3, SMTT(30) DEF ClientRec, ResponseUnsent
  <1> HIDE DEF n, k
  <1>5. /\ cl \in ClientRec /\ cl.state = "WRITING"
        /\ cl.response_len = client[c].response_len
        /\ cl.file = client[c].file /\ cl.file_size = client[c].file_size
    BY <1>1, <1>2, <1>4 DEF ClientRec
  <1> HIDE DEF cl
  <1>6. Len(v) = client[c].response_sent + k
    <2> DEFINE p == client[c].response_sent
               w == wire[c]
    <2>1. /\ w \in Seq(Nat) /\ p \in Nat /\ k \in Nat /\ p = Len(w)
          /\ \A i \in DOMAIN w : w[i] = i
      BY <1>2, <1>3, <1>4
    <2> HIDE DEF p, w
    <2>2. Len(w \o [i \in 1..k |-> p + i]) = p + k BY <2>1, AppendInOrder
    <2> QED BY <2>2 DEF p, w
  <1> HIDE DEF v
  <1>7. wire'[c] = v /\ \A d \in Conns \ {c} : wire'[d] = wire[d]
    BY <1>1, <1>2 DEF TypeOK
  <1>8. ExchangeTotal[c] = client[c].response_len + client[c].file_size
    BY DEF ExchangeTotal
  <1>9. /\ Len(wire'[c]) >= Len(wire[c])
        /\ Len(wire'[c]) <= ExchangeTotal[c]
    <2>1. k >= 0 /\ k <= client[c].response_len - client[c].response_sent
      BY <1>3, <1>4
    <2>2. Len(wire'[c]) = client[c].response_sent + k BY <1>6, <1>7
    <2>3. Len(wire'[c]) >= Len(wire[c]) BY <1>3, <1>4, <2>1, <2>2
    <2>4. Len(wire'[c]) <= client[c].response_len
      BY <1>3, <1>4, <2>1, <2>2
    <2>5. ExchangeTotal[c] \in Nat /\ client[c].response_len <= ExchangeTotal[c]
      BY <1>4, <1>8
    <2>6. Len(wire'[c]) \in Nat BY <1>4, <2>2
    <2> QED BY <1>4, <2>3, <2>4, <2>5, <2>6
  <1>10. CASE client' = [client EXCEPT ![c] = cl] /\ UNCHANGED why
    <2>1. client'[c] = cl /\ \A d \in Conns \ {c} : client'[d] = client[d]
      BY <1>2, <1>10 DEF TypeOK
    <2>2. ExchangeTotal'[c] = ExchangeTotal[c]
      BY <1>5, <1>8, <2>1 DEF ExchangeTotal
    <2> QED BY <1>1, <1>5, <1>7, <1>9, <1>10, <2>1, <2>2 DEF Moves, SameExchange
  <1>11. CASE k = n /\ ~cl.file /\ free_client(c, cl, "done")
    <2>1. "done" \in Reasons BY DEF Reasons
    <2>2. /\ client'[c] = [cl EXCEPT !.state = "freed"] /\ why'[c] = "done"
          /\ \A d \in Conns \ {c} : client'[d] = client[d] /\ why'[d] = why[d]
      BY <1>2, <1>5, <1>11, <2>1, FreeClient
    <2>3. /\ client'[c].state = "freed"
          /\ client'[c].response_len = client[c].response_len
          /\ client'[c].file_size = client[c].file_size
      BY <1>5, <2>2 DEF ClientRec
    <2>4. ExchangeTotal'[c] = ExchangeTotal[c]
      BY <1>8, <2>3 DEF ExchangeTotal
    <2>5. Len(wire'[c]) >= ExchangeTotal[c]
      <3>1. client[c].file_size = 0 BY <1>2, <1>5, <1>11
      <3>2. Len(wire'[c]) = client[c].response_sent + k BY <1>6, <1>7
      <3>3. k = client[c].response_len - client[c].response_sent
        BY <1>4, <1>11
      <3> QED BY <1>3, <1>4, <1>8, <3>1, <3>2, <3>3
    <2> QED BY <1>1, <1>7, <1>9, <2>2, <2>3, <2>4, <2>5 DEF Moves, SameExchange
  <1> QED BY <1>1, <1>10, <1>11

\* A chunk of the file extends the prefix that was delivered.
LEMMA SendChunkMoves ==
  ASSUME IInv, IInv', NEW c \in Conns, SendChunk(c)
  PROVE  Moves(c) /\ \A d \in Conns \ {c} : SameExchange(d)
  <1> DEFINE left == file[c].len - file[c].pos
             n    == Least(Chunk, Least(remaining, left))
             k    == Accepted(sock[c], n)
             p    == client[c].response_len + file[c].pos
             v    == wire[c] \o [i \in 1..k |-> p + i]
             cl   == [client[c] EXCEPT !.file_sent = @ + k]
  <1>1. /\ pc = "file" /\ cur = c /\ n > 0
        /\ \/ free_client(c, client[c], "reset") /\ wire' = wire
           \/ /\ client' = [client EXCEPT ![c] = cl]
              /\ wire' = [wire EXCEPT ![c] = v]
              /\ UNCHANGED why
    BY DEF SendChunk, InFileLoop, Transmit
  <1>2. client[c].state = "WRITING" /\ client[c].file /\ ResponseUnsent(c) = 0
    BY <1>1, HandlerFacts DEF Locals
  <1>3. /\ TypeOK /\ client[c] \in ClientRec /\ sock[c] \in SockRec
        /\ file[c] \in [pos : Nat, len : Nat] /\ wire[c] \in Seq(Nat)
        /\ file[c].pos = client[c].file_sent
        /\ \A i \in DOMAIN wire[c] : wire[c][i] = i
        /\ Len(wire[c]) = client[c].response_sent + client[c].file_sent
    BY <1>2, WritingFacts
  <1>4. /\ client[c].response_len \in Nat /\ client[c].file_sent \in Nat
        /\ client[c].response_sent = client[c].response_len
        /\ client[c].file_size \in Nat /\ remaining \in Int
    BY <1>2, <1>3 DEF ClientRec, ResponseUnsent, TypeOK
  <1>5. n \in Nat
    <2>1. file[c].len \in Nat /\ file[c].pos \in Nat BY <1>3
    <2>2. n \in Int BY <1>4, <2>1 DEF Least
    <2> QED BY <1>1, <2>2
  <1> HIDE DEF n
  <1>6. k \in 0..n /\ k \in Nat
    <2>1. sock[c] \in SockRec BY <1>3
    <2>2. k \in 0..n BY <1>5, <2>1, AcceptedFacts
    <2> QED BY <1>5, <2>2
  <1>7. p \in Nat /\ p = Len(wire[c]) BY <1>3, <1>4
  <1> HIDE DEF k
  <1>8. Len(v) = p + k BY <1>3, <1>6, <1>7, AppendInOrder
  <1> HIDE DEF v, p
  <1>9. CASE free_client(c, client[c], "reset") /\ wire' = wire
    BY <1>2, <1>9, GiveUpMoves
  <1>10. CASE /\ client' = [client EXCEPT ![c] = cl]
              /\ wire' = [wire EXCEPT ![c] = v]
              /\ UNCHANGED why
    <2>1. client[c].file_sent + k \in Nat BY <1>4, <1>6
    <2>2. /\ cl.state = "WRITING" /\ cl.response_len = client[c].response_len
          /\ cl.response_sent = client[c].response_sent
          /\ cl.file_size = client[c].file_size
          /\ cl.file_sent = client[c].file_sent + k
      BY <1>2, <1>3, <2>1 DEF ClientRec
    <2> HIDE DEF cl
    <2>3. /\ client'[c] = cl /\ wire'[c] = v
          /\ \A d \in Conns \ {c} : client'[d] = client[d] /\ wire'[d] = wire[d]
      BY <1>3, <1>10 DEF TypeOK
    <2>4. /\ ExchangeTotal[c] = client[c].response_len + client[c].file_size
          /\ ExchangeTotal'[c] = client[c].response_len + client[c].file_size
      BY <2>2, <2>3 DEF ExchangeTotal
    <2>5. ~MayGrow => cl.file_sent <= cl.file_size
      BY <2>3 DEF IInv, Progress
    <2>6. Len(v) = cl.response_sent + cl.file_sent
      BY <1>3, <1>4, <1>6, <1>7, <1>8, <2>2, SMTT(30)
    <2>7. Len(v) <= ExchangeTotal[c] \/ MayGrow
      BY <1>4, <2>2, <2>4, <2>5, <2>6, <2>1
    <2>8. Len(v) >= Len(wire[c]) BY <1>6, <1>7, <1>8
    <2> QED BY <1>2, <1>10, <2>2, <2>3, <2>4, <2>7, <2>8 DEF Moves, SameExchange
  <1> QED BY <1>1, <1>9, <1>10

\* The end of the file loop completes the exchange only when all was sent.
LEMMA LeaveFileLoopMoves ==
  ASSUME IInv, IInv', NEW c \in Conns, LeaveFileLoop(c)
  PROVE  Moves(c) /\ \A d \in Conns \ {c} : SameExchange(d)
  <1>1. /\ pc = "file" /\ cur = c /\ wire' = wire
        /\ IF client[c].file_sent >= client[c].file_size
           THEN free_client(c, client[c], "done")
           ELSE UNCHANGED <<client, why>>
    BY DEF LeaveFileLoop, InFileLoop
  <1>2. client[c].state = "WRITING" /\ ResponseUnsent(c) = 0
    BY <1>1, HandlerFacts DEF Locals
  <1>3. /\ TypeOK /\ client[c] \in ClientRec /\ wire[c] \in Seq(Nat)
        /\ Len(wire[c]) = client[c].response_sent + client[c].file_sent
        /\ ~MayGrow => client[c].file_sent <= client[c].file_size
    BY <1>2, WritingFacts
  <1>4. CASE client[c].file_sent >= client[c].file_size
    <2>1. "done" \in Reasons BY DEF Reasons
    <2>2. /\ client'[c] = [client[c] EXCEPT !.state = "freed"]
          /\ why'[c] = "done"
          /\ \A d \in Conns \ {c} : client'[d] = client[d] /\ why'[d] = why[d]
      <3>1. /\ TypeOK /\ client[c] \in ClientRec
            /\ free_client(c, client[c], "done")
        BY <1>1, <1>3, <1>4
      <3> QED BY <2>1, <3>1, FreeClient
    <2>3. /\ client'[c].state = "freed"
          /\ client'[c].response_len = client[c].response_len
          /\ client'[c].file_size = client[c].file_size
      BY <1>3, <2>2 DEF ClientRec
    <2>4. /\ ExchangeTotal'[c] = ExchangeTotal[c]
          /\ ExchangeTotal[c] = client[c].response_len + client[c].file_size
      BY <2>3 DEF ExchangeTotal
    <2>5. /\ client[c].response_len \in Nat /\ client[c].file_size \in Nat
          /\ client[c].response_sent = client[c].response_len
          /\ client[c].file_sent \in Nat
      BY <1>2, <1>3 DEF ClientRec, ResponseUnsent
    <2>6. /\ Len(wire'[c]) >= Len(wire[c])
          /\ Len(wire'[c]) <= ExchangeTotal[c] \/ MayGrow
          /\ Len(wire'[c]) >= ExchangeTotal[c]
      BY <1>1, <1>3, <1>4, <2>4, <2>5
    <2> QED BY <1>1, <1>2, <2>2, <2>3, <2>4, <2>6 DEF Moves, SameExchange
  <1>5. CASE ~(client[c].file_sent >= client[c].file_size)
    BY <1>1, <1>5 DEF Moves, SameExchange
  <1> QED BY <1>4, <1>5

\* Every step of the server maps to an abstract step or to a stutter.
LEMMA StepExchange ==
  IInv /\ IInv' /\ [Next]_vars => [Exchange!Next]_Exchange!vars
  <1> SUFFICES ASSUME IInv, IInv', [Next]_vars
               PROVE  [Exchange!Next]_Exchange!vars
    OBVIOUS
  <1>1. ASSUME UNCHANGED <<client, why, wire>> PROVE UNCHANGED Exchange!vars
    BY <1>1 DEF Exchange!vars, ExchangePhase, ExchangeTotal
  <1>2. CASE MainLoop \/ Sigint \/ UNCHANGED vars
    BY <1>1, <1>2 DEF MainLoop, TestKeepRunning, EpollWait, EndOfBatch, Sigint,
                      StartAccept, AcceptDrained, AcceptError, vars
  <1>3. ASSUME NEW c \in Conns, Environment(c)
        PROVE  [Exchange!Next]_Exchange!vars
    BY <1>1, <1>3 DEF Environment, Connect, SendUnit, Hangup, Reset, Drain,
                      FileChanges, Outside
  <1>4. ASSUME NEW c \in Conns, Handler(c)
        PROVE  [Exchange!Next]_Exchange!vars
    <2>1. CASE RequestFull(c) \/ WriteFailed(c) \/ FileReadFailed(c)
      <3>1. /\ client[c].state \in {"READING", "WRITING"} /\ wire' = wire
            /\ \E reason \in {"full", "hangup", "reset", "ioerror"} :
                  free_client(c, client[c], reason)
        BY <2>1, HandlerFacts
        DEF RequestFull, Reading, WriteFailed, Writing, FileReadFailed,
            InFileLoop, Locals
      <3> QED BY <3>1, GiveUpMoves, MoveIsStep
    <2>2. CASE ReadNothing(c)
      <3>1. /\ client[c].state = "READING" /\ wire' = wire
            /\ \/ free_client(c, client[c], "hangup")
               \/ UNCHANGED <<client, why>>
        BY <2>2 DEF ReadNothing, Reading
      <3> QED BY <1>1, <3>1, GiveUpMoves, MoveIsStep
    <2>3. CASE ResumeFile(c) BY <1>1, <2>3 DEF ResumeFile
    <2>4. CASE AcceptOne(c) BY <2>4, AcceptOneMoves, MoveIsStep
    <2>5. CASE AcceptRefused(c) BY <2>5, AcceptRefusedMoves, MoveIsStep
    <2>6. CASE ReadSome(c) BY <2>6, ReadSomeMoves, MoveIsStep
    <2>7. CASE WriteResponse(c) BY <2>7, WriteResponseMoves, MoveIsStep
    <2>8. CASE SendChunk(c) BY <2>8, SendChunkMoves, MoveIsStep
    <2>9. CASE LeaveFileLoop(c) BY <2>9, LeaveFileLoopMoves, MoveIsStep
    <2> QED BY <1>4, <2>1, <2>2, <2>3, <2>4, <2>5, <2>6, <2>7, <2>8, <2>9
            DEF Handler
  <1> QED BY <1>2, <1>3, <1>4 DEF Next, Server

\* The event loop, for any number of connections and any sizes of its buffers,
\* implements the exchange of HttpExchange on every connection.
THEOREM Refinement == Spec => ImplementsExchange
  <1> QED BY InitExchange, StepExchange, Inductive, PTL
          DEF Spec, ImplementsExchange, Exchange!Spec
=============================================================================
