----------------------------- MODULE HttpServer -----------------------------
(***************************************************************************)
(* The HTTP server of the C proxy, which answers GET /stats                *)
(* (net/net-http-server.c, and hts_stats_execute of mtproto-proxy.c).      *)
(* hts_parse_execute reads the header of a request from the blocks of the  *)
(* connection's input, in a machine that may stop at the end of any block; *)
(* a call that finds no whole header starts from the beginning of the      *)
(* input when more has come.                                               *)
(*                                                                         *)
(* A text is a sequence of units, a few of which make a word; sizes are in *)
(* units.  The client sends up to two requests, which Init puts together   *)
(* from lines; what they are worth is defined from the lines, in the last  *)
(* part, and not from the text.                                            *)
(***************************************************************************)
EXTENDS Integers, Sequences, FiniteSets

CONSTANTS MaxHeader,      \* MAX_HTTP_HEADER_SIZE
          MaxWord,        \* 4096
          MaxTenth,       \* 0x7fffffff / 10
          FirstLines, Lines, Eols, MaxLines,
          Sizes           \* of blocks

VARIABLES reqs,           \* the requests that are sent
          text,           \* and what they are as units
          base,           \* units taken out of c->in
          pos,            \* units taken out of the clone the parser reads
          D,              \* struct hts_data
          answers,        \* the answers written
          open,           \* c->status is conn_working
          env             \* the client is local, is not, or has too much in its buffers: chosen when
                          \* it is first looked at
vars == <<reqs, text, base, pos, D, answers, open, env>>

GET == <<"GE", "T">>
POST == <<"POST">>
Stats == <<"/", "stats">>
KeepAlive == <<"keep", "alive">>
ContentLength == <<"content", "length">>
Keeping == <<"connection", ":", " ">> \o KeepAlive
Control == {" ", "tab", "cr", "lf"}
Digit == {"0", "1"}
Value(d) == IF d = "1" THEN 1 ELSE 0

RECURSIVE Concat(_)
Concat(ss) == IF ss = <<>> THEN <<>> ELSE Head(ss) \o Concat(Tail(ss))
\* A request as it is sent.  HTTP/0.9 has one line only.
Short(r) == r.first[Len(r.first)] = "stats"
Sent(r) == r.first \o r.eol \o
           IF Short(r) THEN <<>> ELSE Concat([i \in DOMAIN r.lines |-> r.lines[i] \o r.eol]) \o r.eol
Written(rs) == Concat([i \in DOMAIN rs |-> Sent(rs[i])])

\* memset, data_size = -1: what htqp_start makes of hts_data.
Clean == [state |-> "readtospace", flags |-> {}, words |-> 0, hsize |-> 0, data |-> -1,
          uoff |-> 0, usize |-> 0, ver |-> 0, type |-> "none", word |-> <<>>]
\* htqp_start: what was left in hts_data is not read before the memset
Begin == [Clean EXCEPT !.state = "start"]
Init ==
  /\ \E n \in 0 .. MaxLines : \E f \in FirstLines : \E l \in [1 .. n -> Lines] : \E e \in Eols :
       \/ reqs = <<[first |-> f, lines |-> l, eol |-> e]>>
       \/ /\ n > 0 /\ l[n] = Keeping
          /\ reqs = <<[first |-> f, lines |-> l, eol |-> e],
                      [first |-> GET \o <<" ">> \o Stats, lines |-> <<>>, eol |-> e]>>
  /\ text = Written(reqs)
  /\ env = "unknown"
  /\ base = 0 /\ pos = 0 /\ D = Begin /\ answers = <<>> /\ open = TRUE

(***************************************************************************)
(* The machine.  A case of the switch takes hts_data, the block and the    *)
(* units of it that are done, and gives hts_data and the units done.       *)
(***************************************************************************)
R(d, p) == [d |-> d, p |-> p]
Go(d, s) == [d EXCEPT !.state = s]
Bad(d, s) == [d EXCEPT !.state = s, !.flags = @ \cup {"error"}]
\* the end of the run of units of S (or not of S) from p on
Least(S) == CHOOSE q \in S : \A r \in S : q <= r
Until(b, p, S) == Least({q \in p .. Len(b) : q = Len(b) \/ b[q + 1] \in S})
While(b, p, S) == Least({q \in p .. Len(b) : q = Len(b) \/ b[q + 1] \notin S})

Method(w) == CASE w = GET -> "get" [] w = POST -> "post" [] w \in {<<"HEAD">>, <<"OPTIONS">>} -> "other"
               [] OTHER -> "error"
Version(w) == CASE w = <<>> -> 9 [] w = <<"V10">> -> 10 [] w = <<"V11">> -> 11 [] OTHER -> 0
\* a word has ended; n is query_words
EndWord(d0) ==
  LET n == d0.words + 1
      w == d0.word
      d == [d0 EXCEPT !.words = n, !.hsize = @ + Len(w)]
  IN
  CASE n = 1 -> IF Method(w) = "error" THEN Bad([d EXCEPT !.type = "error"], "skiptoeoln")
                ELSE Go([d EXCEPT !.type = Method(w)], "skipspc")
    [] n = 2 -> LET u == [d EXCEPT !.uoff = d0.hsize, !.usize = Len(w)]
                IN  IF w = <<>> THEN Bad(u, "skiptoeoln") ELSE Go(u, "skipspc")
    [] n = 3 -> IF Version(w) = 0 THEN Bad(d, "skiptoeoln")
                ELSE Go([d EXCEPT !.ver = Version(w)], "skipspctoeoln")
    [] OTHER ->
         IF d.flags \cap {"host", "connection"} = {} THEN Go(d, "abort")
         ELSE Go([d EXCEPT !.flags = (@ \ {"host", "connection"}) \cup
                     IF w = KeepAlive /\ "host" \notin @ THEN {"keepalive"} ELSE {}], "skipspctoeoln")
ReadToSpace_Anew(d0, b, p) ==
  LET q == Until(b, p, Control)
      d == [d0 EXCEPT !.word = SubSeq(b, p + 1, q)]
  IN  IF Len(d.word) > MaxWord THEN R(Go(d, "fatal"), q)
      ELSE IF q = Len(b) THEN R(d, q) ELSE R(EndWord(d), q)
ReadToSpace(d0, b, p) ==
  LET q == Until(b, p, Control)
      d == [d0 EXCEPT !.word = @ \o SubSeq(b, p + 1, q)]
  IN  IF Len(d.word) > MaxWord THEN R(Go(d, "fatal"), q)
      ELSE IF q = Len(b) THEN R(d, q) ELSE R(EndWord(d), q)

\* spaces, at most up to the limit of the header
Room(d, p, q) == IF q - p > MaxHeader - d.hsize THEN MaxHeader - d.hsize ELSE q - p
SkipSpc(d0, b, p) ==
  LET k == Room(d0, p, While(b, p, {" "} \cup IF d0.words >= 8 THEN {"tab"} ELSE {}))
      d == [d0 EXCEPT !.hsize = @ + k]
  IN
  IF d.hsize >= MaxHeader THEN R(Go(d, "fatal"), p + k)
  ELSE IF p + k = Len(b) THEN R(d, p + k)
  ELSE IF d.state = "skipspctoeoln" THEN R(Go(d, "eoln"), p + k)
  ELSE IF d.words < 3 THEN R(Go([d EXCEPT !.word = <<>>], "readtospace"), p + k)
  ELSE IF d.words < 4 THEN R(Go(d, "abort"), p + k)
  ELSE IF "datasize" \in d.flags
  THEN IF d.data # -1 THEN R(Bad(d, "skiptoeoln"), p + k) ELSE R(Go([d EXCEPT !.data = 0], "readint"), p + k)
  ELSE IF d.flags \cap {"host", "connection"} # {}
  THEN R(Go([d EXCEPT !.word = <<>>], "readtospace"), p + k)
  ELSE R(Go(d, "skiptoeoln"), p + k)

Header(w, flags) ==
  CASE w = <<"host">>       -> flags \cup {"host"}
    [] w = <<"connection">> -> flags \cup {"connection"}
    [] w = ContentLength    -> flags \cup {"datasize"}
    [] OTHER                -> flags \ {"host", "connection", "datasize"}
ReadToColon(d0, b, p) ==
  LET q == Until(b, p, Control \cup {":"})
      d == [d0 EXCEPT !.word = @ \o SubSeq(b, p + 1, q)]
  IN
  IF Len(d.word) > MaxWord THEN R(Go(d, "fatal"), q)
  ELSE IF q = Len(b) THEN R(d, q)
  ELSE IF b[q + 1] # ":" THEN R(Bad([d EXCEPT !.hsize = @ + Len(d.word)], "skiptoeoln"), q)
  ELSE R(Go([d EXCEPT !.hsize = @ + Len(d.word) + 1, !.flags = Header(d.word, @)], "skipspc"), q + 1)

\* digits, until the number may become too large
RECURSIVE ReadInt(_, _, _)
ReadInt(d, b, p) ==
  IF p < Len(b) /\ b[p + 1] \in Digit
  THEN IF d.data >= MaxTenth THEN R(Bad(d, "skipspctoeoln"), p)
       ELSE ReadInt([d EXCEPT !.data = @ * 10 + Value(b[p + 1]), !.hsize = @ + 1,
                              !.flags = @ \ {"datasize"}], b, p + 1)
  ELSE IF p = Len(b) THEN R(d, p)
  ELSE IF "datasize" \in d.flags THEN R(Bad(d, "skiptoeoln"), p) ELSE R(Go(d, "skipspctoeoln"), p)

SkipToEoln(d0, b, p) ==
  LET k == Room(d0, p, Until(b, p, {"cr", "lf"}))
      d == [d0 EXCEPT !.hsize = @ + k]
  IN  IF d.hsize >= MaxHeader THEN R(Go(d, "fatal"), p + k)
      ELSE IF p + k = Len(b) THEN R(d, p + k) ELSE R(Go(d, "eoln"), p + k)
Eoln(d, b, p) ==
  IF b[p + 1] = "cr" THEN R(Go([d EXCEPT !.hsize = @ + 1], "wantlf"), p + 1) ELSE R(Go(d, "wantlf"), p)
WantLf(d0, b, p) ==
  LET first == d0.words + 1 < 8
      d == [d0 EXCEPT !.words = IF first THEN 8 ELSE @ + 1]
  IN  IF first /\ "error" \in d.flags THEN R(Go(d, "fatal"), p)
      ELSE IF d.ver <= 9 THEN R(Go(d, "wantlastlf"), p)
      ELSE IF b[p + 1] # "lf" THEN R(Bad(d, "skiptoeoln"), p)
      ELSE R(Go([d EXCEPT !.hsize = @ + 1], "linestart"), p + 1)
LineStart(d, b, p) ==
  CASE b[p + 1] = "cr"       -> R(Go([d EXCEPT !.hsize = @ + 1], "wantlastlf"), p + 1)
    [] b[p + 1] = "lf"       -> R(Go(d, "wantlastlf"), p)
    [] "error" \in d.flags   -> R(Go(d, "skiptoeoln"), p)
    [] OTHER                 -> R(Go([d EXCEPT !.word = <<>>], "readtocolon"), p)
WantLastLf(d, b, p) ==
  IF b[p + 1] # "lf" THEN R(Go(d, "fatal"), p) ELSE R(Go([d EXCEPT !.hsize = @ + 1], "done"), p + 1)

Case(d, b, p) ==
  CASE d.state = "start"       -> R(Clean, p)
    [] d.state = "readtospace" -> ReadToSpace(d, b, p)
    [] d.state \in {"skipspc", "skipspctoeoln"} -> SkipSpc(d, b, p)
    [] d.state = "readtocolon" -> ReadToColon(d, b, p)
    [] d.state = "readint"     -> ReadInt(d, b, p)
    [] d.state = "skiptoeoln"  -> SkipToEoln(d, b, p)
    [] d.state = "eoln"        -> Eoln(d, b, p)
    [] d.state = "wantlf"      -> WantLf(d, b, p)
    [] d.state = "linestart"   -> LineStart(d, b, p)
    [] d.state = "wantlastlf"  -> WantLastLf(d, b, p)
    [] OTHER                   -> R(Bad(d, "done"), p)
RECURSIVE Scan(_, _, _)
Scan(d, b, p) ==
  IF p = Len(b) \/ d.state \in {"done", "abort"} THEN R(d, p)
  ELSE LET r == Case(d, b, p) IN Scan(r.d, b, r.p)

(***************************************************************************)
(* The rest of hts_parse_execute.                                          *)
(***************************************************************************)
\* hts_stats_execute; a client whose buffers are too large fails (check_conn_buffers)
Uri(d) == SubSeq(text, base + d.uoff + 1, base + d.uoff + d.usize)
hts_stats_execute(d, who) ==
  CASE who = "flood" -> 429
    [] who # "flood" /\ (d.type # "get" \/ d.data # -1) -> 501
    [] OTHER -> IF who = "local" /\ Uri(d) = Stats THEN 200 ELSE 404
Result(d, who) ==
  CASE "error" \in d.flags \/ d.hsize >= MaxHeader -> 400
    [] OTHER -> IF d.type = "post" /\ d.data < 0 THEN 411
                ELSE IF d.type # "post" /\ d.data > 0 THEN 413 ELSE hts_stats_execute(d, who)
\* the header is taken out, an answer written, and the connection closed or the next header begun
Done(d) ==
  \E who \in IF env = "unknown" THEN {"local", "remote", "flood"} ELSE {env} :
  LET keep == "keepalive" \in d.flags /\ Result(d, who) \notin {400, 413, 429, 501} IN
  /\ answers' = Append(answers, Result(d, who)) /\ base' = base + d.hsize /\ open' = keep
  /\ pos' = base' /\ D' = Begin /\ env' = who

\* the next block, which ends anywhere
Block(n) ==
  LET r == Scan(D, SubSeq(text, pos + 1, IF pos + n < Len(text) THEN pos + n ELSE Len(text)), 0) IN
  /\ open /\ D.state # "abort" /\ pos < Len(text)
  /\ IF r.d.state = "done" THEN Done(r.d)
     ELSE D' = r.d /\ pos' = pos + r.p /\ UNCHANGED <<base, answers, open, env>>
  /\ UNCHANGED <<reqs, text>>
\* no more blocks: the next call starts at the beginning of the input
NeedMoreBytes ==
  /\ open /\ D.state \notin {"start", "abort"} /\ pos < Len(text)
  /\ D' = Begin /\ pos' = base
  /\ UNCHANGED <<reqs, text, base, answers, open, env>>
Next == NeedMoreBytes \/ \E n \in Sizes : Block(n)
Spec == Init /\ [][Next]_vars

(***************************************************************************)
(* Properties.                                                             *)
(***************************************************************************)
\* What a request is worth, from its lines.
Names(r, w) == {i \in DOMAIN r.lines : Len(r.lines[i]) > Len(w) /\ SubSeq(r.lines[i], 1, Len(w) + 1) = w \o <<":">>}
BadLine(l) == (\A i \in DOMAIN l : l[i] # ":") \/ \E i \in DOMAIN l : l[i] = "cr"
NoNumber(l) == l[Len(l)] \notin Digit
TooBig(l) == Len(l) >= 7
Has(r, l) == \E i \in DOMAIN r.lines : r.lines[i] = l
Malformed(r) ==
  \/ SubSeq(r.first, 1, 1) \notin {<<"GE">>, POST} \/ r.first[Len(r.first)] = "junk"
  \/ ~Short(r) /\ \/ \E i \in DOMAIN r.lines : BadLine(r.lines[i])
                  \/ \E i \in Names(r, ContentLength) : NoNumber(r.lines[i]) \/ TooBig(r.lines[i])
                  \/ Cardinality(Names(r, ContentLength)) > 1
                  \/ Len(Sent(r)) >= MaxHeader
Keeps(r) == ~Short(r) /\ Has(r, Keeping)
Sized(r) == ~Short(r) /\ Names(r, ContentLength) # {}
Post(r) == r.first[1] = "POST"
Asks(r) == env = "local" /\ SubSeq(r.first, Len(GET) + 2, Len(GET) + 3) = Stats
Worth(r) ==
  CASE Malformed(r) -> 400
    [] ~Malformed(r) /\ Post(r) /\ ~Sized(r) -> 411
    [] ~Malformed(r) /\ ~Post(r) /\ Sized(r) /\ Has(r, ContentLength \o <<":", "1">>) -> 413
    [] OTHER -> IF env = "flood" THEN 429 ELSE IF Post(r) \/ Sized(r) THEN 501
                ELSE IF Asks(r) THEN 200 ELSE 404

\* Every request gets the answer its lines are worth, in order, wherever the blocks end and however
\* often the parser starts over.
AnswersExact == \A i \in DOMAIN answers : answers[i] = Worth(reqs[i])

\* A connection that is kept open goes on exactly behind the request it answered, and only if that
\* asked for it and has no body the parser has not seen the end of.
Boundaries ==
  open /\ answers # <<>> =>
    /\ base = Len(Written(SubSeq(reqs, 1, Len(answers))))
    /\ \A i \in DOMAIN answers : Keeps(reqs[i]) /\ ~Sized(reqs[i])

\* None of the parser's assertions fails: a word of a header line belongs to a header that has one,
\* and the size of the header is never more than what was read.
AssertionsHold == D.state # "abort" /\ base <= Len(text) /\ (open => base + D.hsize <= Len(text))

(***************************************************************************)
(* The date of the answers (gen_http_date, gen_http_time, cur_http_date).  *)
(* A date is a record of the fields that are printed; dd, the lengths of   *)
(* the months, is one array that both conversions write.  The clock goes   *)
(* on in steps of Ticks.                                                   *)
(***************************************************************************)
CONSTANTS Days,           \* the days on which the server starts
          Seconds,        \* and the times of day
          Ticks, MaxTicks

VARIABLES now, ticks, dd1, now_date_utime, now_date_string, back
dateVars == <<now, ticks, dd1, now_date_utime, now_date_string, back>>

dd(feb) == <<31, feb, 31, 30, 31, 30, 31, 31, 30, 31, 30, 31>>
\* a day of a year as month and day of month
RECURSIVE Month(_, _, _)
Month(xd, feb, i) == IF i > 12 \/ xd < dd(feb)[i] THEN <<i, xd + 1>> ELSE Month(xd - dd(feb)[i], feb, i + 1)
\* years of 365, 365, 366 and 365 days
Year(xd) == CASE xd < 365 -> <<0, xd>> [] xd >= 365 /\ xd < 730 -> <<1, xd - 365>>
              [] xd >= 730 /\ xd < 1096 -> <<2, xd - 730>> [] OTHER -> <<3, xd - 1096>>
Leap(year) == IF year % 4 = 0 THEN 29 ELSE 28
gen_http_date(time) ==
  LET days == time \div 86400
      y == Year(days % 1461)
      year == (days \div 1461) * 4 + 1970 + y[1]
      m == Month(y[2], Leap(year), 1)
  IN  [dow |-> (days + 4) % 7, day |-> m[2], mon |-> m[1], year |-> year,
       hour |-> (time \div 3600) % 24, min |-> (time \div 60) % 60, sec |-> time % 60]

RECURSIVE Before(_, _)
Before(mon, feb) == IF mon = 1 THEN 0 ELSE dd(feb)[mon - 1] + Before(mon - 1, feb)
\* dd[1] is put back to 28, whatever gen_http_date left there
gen_http_time(d, feb) ==
  LET days == (d.year - 1970) * 365 + (d.year - 1969) \div 4 + (d.day - 1)
              + (IF d.year % 4 = 0 /\ d.mon > 2 THEN 1 ELSE 0) + Before(d.mon, 28)
  IN  ((days * 24 + d.hour) * 60 + d.min) * 60 + d.sec

DateInit ==
  /\ now \in {d * 86400 + s : d \in Days, s \in Seconds} /\ ticks = 0 /\ dd1 = 28
  /\ now_date_utime = 0 /\ now_date_string = gen_http_date(0) /\ back = -1
\* an answer: the date is made again when the second has changed
cur_http_date ==
  /\ back = -1 /\ back' = now /\ UNCHANGED <<now, ticks>>
  /\ IF now_date_utime # now
     THEN now_date_utime' = now /\ now_date_string' = gen_http_date(now) /\ dd1' = Leap(gen_http_date(now).year)
     ELSE UNCHANGED <<dd1, now_date_utime, now_date_string>>
Tick(n) ==
  /\ ticks < MaxTicks /\ ticks' = ticks + 1 /\ now' = now + n /\ back' = -1
  /\ UNCHANGED <<dd1, now_date_utime, now_date_string>>
DateNext == cur_http_date \/ \E n \in Ticks : Tick(n)
DateSpec == DateInit /\ [][DateNext]_dateVars

\* The day after a date, by the calendar.
LastDay(d) == CASE d.mon = 2 -> Leap(d.year) [] d.mon \in {4, 6, 9, 11} -> 30 [] OTHER -> 31
DayAfter(d) ==
  LET e == [d EXCEPT !.dow = (@ + 1) % 7] IN
  IF d.day < LastDay(d) THEN [e EXCEPT !.day = @ + 1]
  ELSE IF d.mon < 12 THEN [e EXCEPT !.day = 1, !.mon = @ + 1]
  ELSE [e EXCEPT !.day = 1, !.mon = 1, !.year = @ + 1]

\* The dates follow the calendar: the epoch is Thursday, 1 January 1970, and a day later is the day after.
FollowsCalendar ==
  /\ gen_http_date(0) = [dow |-> 4, day |-> 1, mon |-> 1, year |-> 1970, hour |-> 0, min |-> 0, sec |-> 0]
  /\ back # -1 => gen_http_date(now + 86400) = DayAfter(gen_http_date(now))

\* The date an answer bears is the time of the answer: reading it gives the second it was made in, also
\* after dd was written for a leap year.
DateIsNow == back # -1 => gen_http_time(now_date_string, dd1) = back

\* Requests are told apart and answered as they are worth.
AnswersRight == AnswersExact /\ Boundaries /\ AssertionsHold

\* Dates follow the calendar and are of the moment.
DatesExact == FollowsCalendar /\ DateIsNow
=============================================================================
