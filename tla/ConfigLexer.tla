---------------------------- MODULE ConfigLexer -----------------------------
(***************************************************************************)
(* The text of the C proxy's configuration (common/parse-config.c, and     *)
(* cfg_getlex_ext and cfg_parse_server_port of mtproto/mtproto-config.c).  *)
(* NativeConfig has what the directives mean; this is how they are read    *)
(* from a buffer that ends in a zero and that the parser itself writes to: *)
(* a host name is ended by a zero for the resolver.  The same buffer is    *)
(* parsed again by the next pass.  A keyword is one unit of the text, or   *)
(* two where one begins another.                                           *)
(***************************************************************************)
EXTENDS Integers, Sequences

CONSTANTS Written,        \* the directives in the file, with the blanks in them
          Blank,          \* what may stand before a directive
          MaxFile, MaxHost

VARIABLES written,        \* the file as a sequence of <<blanks, directive>>
          buff,           \* config_buff
          cfg_cur, cfg_lno,
          out,            \* the directives read
          pass, error
vars == <<written, buff, cfg_cur, cfg_lno, out, pass, error>>

Zero == "0x00"
RECURSIVE Flat(_)
Flat(w) == IF w = <<>> THEN <<Zero>> ELSE w[1][1] \o w[1][2].text \o Flat(Tail(w))
\* load_config and reset_config
Init ==
  /\ \E n \in 1 .. MaxFile : written \in [1 .. n -> Blank \X Written]
  /\ buff = Flat(written) /\ cfg_cur = 1 /\ cfg_lno = 0 /\ out = <<>> /\ pass = 1 /\ error = FALSE

Digit == {"1", "2"}
Value(d) == IF d = "1" THEN 1 ELSE 2
Letter == {"a", ".", "-"} \cup Digit
\* The position and the line number are c.
C(p, l) == [p |-> p, l |-> l]
RECURSIVE Comment(_, _)
Comment(b, p) == IF b[p] \in {Zero, "lf"} THEN p ELSE Comment(b, p + 1)
\* a comment goes up to its line feed, which is a blank of its own
AfterComment(b, p) == Comment(b, p)
\* blanks and comments; and blanks within a line
RECURSIVE cfg_skipspc(_, _)
cfg_skipspc(b, c) ==
  CASE b[c.p] = "#"           -> cfg_skipspc(b, C(AfterComment(b, c.p + 1), c.l))
    [] b[c.p] = "lf"          -> cfg_skipspc(b, C(c.p + 1, c.l + 1))
    [] b[c.p] \in {" ", "tab"} -> cfg_skipspc(b, C(c.p + 1, c.l))
    [] OTHER                  -> c
RECURSIVE cfg_skspc(_, _)
cfg_skspc(b, c) == IF b[c.p] \in {" ", "tab"} THEN cfg_skspc(b, C(c.p + 1, c.l)) ELSE c
\* a lexem and what follows it
Lex(x, c) == [lex |-> x, c |-> c]
Past(c, n) == C(c.p + n, c.l)
cfg_getlex_ext(b, c0) ==
  LET c == cfg_skipspc(b, c0) IN
  CASE b[c.p] \in {";", ":"}      -> Lex(b[c.p], Past(c, 1))
    [] b[c.p] = "max_connections" -> Lex("X", Past(c, 1))
    [] b[c.p] = "proxy"           -> IF b[c.p + 1] = "_for" THEN Lex("Y", Past(c, 2)) ELSE Lex("y", Past(c, 1))
    [] b[c.p] = "default"         -> Lex("D", Past(c, 1))
    [] b[c.p] = Zero              -> Lex("end", c)
    [] OTHER                      -> Lex("none", c)
\* the length of the word at s, and the number there with the place behind it
RECURSIVE Run(_, _, _)
Run(b, s, S) == IF b[s] \in S THEN Run(b, s + 1, S) ELSE s
cfg_getword(b, c) ==
  IF b[c.p] # "[" THEN Run(b, c.p, Letter) - c.p
  ELSE LET s == Run(b, c.p + 1, Letter \cup {":"}) IN (IF b[s] = "]" THEN s + 1 ELSE s) - c.p
RECURSIVE Number(_, _, _)
Number(b, s, x) == IF b[s] \in Digit THEN Number(b, s + 1, x * 10 + Value(b[s])) ELSE [x |-> x, p |-> s]
cfg_getint(b, c0) == LET c == cfg_skspc(b, c0) IN Number(b, c.p, 0)
\* without digits nothing is read, the sign included; the number then is not a data centre
NoNumber == 99999
cfg_getint_signed_zero(b, c0) ==
  LET c == cfg_skspc(b, c0)
      neg == b[c.p] = "-"
      n == Number(b, IF neg THEN c.p + 1 ELSE c.p, 0)
  IN  IF n.p = c.p + (IF neg THEN 1 ELSE 0) THEN [x |-> NoNumber, p |-> c.p]
      ELSE [x |-> IF neg THEN -n.x ELSE n.x, p |-> n.p]

(***************************************************************************)
(* One round of parse_config's loop.                                       *)
(***************************************************************************)
Fail == error' = TRUE /\ UNCHANGED <<written, cfg_cur, cfg_lno, out, pass>>
\* the directive d, if a semicolon follows
Semicolon(b, c, d) ==
  LET e == cfg_getlex_ext(b, c) IN
  IF e.lex # ";" THEN Fail
  ELSE cfg_cur' = e.c.p /\ cfg_lno' = e.c.l /\ out' = Append(out, d) /\ UNCHANGED <<written, pass, error>>
\* cfg_gethost_ex: the name goes to the resolver as a string of the buffer, whose end is put back
Restored(b, p, ch) == [b EXCEPT ![p] = ch]
cfg_parse_server_port(dc, c0) ==
  LET c == cfg_skspc(buff, c0)
      l == cfg_getword(buff, c)
      cut == [buff EXCEPT ![c.p + l] = Zero]
      name == SubSeq(cut, c.p, c.p + l - 1)
      b == IF l = 0 \/ l > MaxHost THEN buff ELSE Restored(cut, c.p + l, buff[c.p + l])
      colon == cfg_getlex_ext(b, C(c.p + l, c.l))
      port == cfg_getint(b, colon.c)
  IN
  /\ buff' = b
  /\ IF l = 0 \/ l > MaxHost \/ colon.lex # ":" \/ port.x = 0 THEN Fail
     ELSE Semicolon(b, C(port.p, colon.c.l), [op |-> "proxy", dc |-> dc, host |-> name, port |-> port.x])
Parse ==
  LET t == cfg_getlex_ext(buff, C(cfg_cur, cfg_lno))
      dc == cfg_getint_signed_zero(buff, t.c)
      n == cfg_getint(buff, t.c)
      behind == C(dc.p, t.c.l)
  IN
  /\ pass <= 2 /\ ~error /\ t.lex # "end"
  /\ CASE t.lex = "D" -> IF dc.x = NoNumber THEN Fail /\ UNCHANGED buff
                         ELSE Semicolon(buff, behind, [op |-> "default", dc |-> dc.x]) /\ UNCHANGED buff
       [] t.lex = "Y" -> IF dc.x = NoNumber \/ buff[dc.p] \notin {" ", "tab"} THEN Fail /\ UNCHANGED buff
                         ELSE cfg_parse_server_port(dc.x, behind)
       [] t.lex = "y" -> cfg_parse_server_port(0, t.c)
       [] t.lex = "X" -> Semicolon(buff, C(n.p, t.c.l), [op |-> "max", n |-> n.x]) /\ UNCHANGED buff
       [] OTHER -> Fail /\ UNCHANGED buff
\* the end of the text: the next pass resets the position and the line (reset_config)
End ==
  LET t == cfg_getlex_ext(buff, C(cfg_cur, cfg_lno)) IN
  /\ pass <= 2 /\ ~error /\ t.lex = "end"
  /\ pass' = pass + 1
  /\ IF pass = 1 THEN cfg_cur' = 1 /\ cfg_lno' = 0 /\ out' = <<>> ELSE UNCHANGED <<cfg_cur, cfg_lno, out>>
  /\ UNCHANGED <<written, buff, error>>
Next == Parse \/ End
Spec == Init /\ [][Next]_vars

(***************************************************************************)
(* Properties.                                                             *)
(***************************************************************************)
Wanted(w) == [i \in DOMAIN w |-> w[i][2].means]
\* The directives that are read are those written, in both passes, whatever blanks and comments stand
\* before and in them; the file is refused at the first that is not one, and only there.
ReadsWhatIsWritten ==
  LET want == Wanted(written) IN
  /\ \A i \in DOMAIN out : i \in DOMAIN want /\ out[i] = want[i]
  /\ error => Len(out) < Len(want) /\ want[Len(out) + 1].op = "bad"
  /\ pass = 3 => out = want

\* The line number of an error message is that of the text: the line feeds before the position.
LinesExact == cfg_lno = Len(SelectSeq(SubSeq(buff, 1, cfg_cur - 1), LAMBDA x : x = "lf"))

\* Directives are read as written, with their lines.
LexerExact == ReadsWhatIsWritten /\ LinesExact
=============================================================================
