------------------------------ MODULE TlsHello ------------------------------
(***************************************************************************)
(* The TLS messages the original program writes and reads by hand          *)
(* (net/net-tcp-rpc-ext-server.c): the ClientHello it probes a domain with *)
(* (create_request), the walk through a ClientHello to the domain in it    *)
(* (get_sni_domain_info), the check of a ServerHello (check_response) and  *)
(* the ServerHello it answers a client with; and the key share in a hello  *)
(* (generate_public_key), in the last part.                                *)
(*                                                                         *)
(* A message is a sequence of pieces <<bytes, value>>; a value is kept     *)
(* only for the numbers a reader looks at.  Positions and lengths are      *)
(* those of the code.  A behaviour is one call of one of the functions.      *)
(***************************************************************************)
EXTENDS Integers, Sequences

CONSTANTS DomainLen,      \* lengths of domains
          Numbers,        \* what a two-byte field of a received message may hold
          Lens            \* lengths of received messages

TLS_REQUEST_LENGTH == 517
Any == -1                 \* bytes nobody reads as a number

VARIABLES x,              \* the input of a call
          out             \* its result
vars == <<x, out>>

(***************************************************************************)
(* Messages.                                                               *)
(***************************************************************************)
Raw(n) == <<<<n, Any>>>>
Num(v) == <<<<2, v>>>>
\* add_length, and the two-byte numbers within add_string: one field, big endian.
add_length(v) == <<<<2, ((v \div 256) * 256) + (v % 256)>>>>
RECURSIVE Size(_)
Size(m) == IF m = <<>> THEN 0 ELSE Head(m)[1] + Size(Tail(m))
\* Piece number i starts where the pieces before it end.
Start(m, i) == Size(SubSeq(m, 1, i - 1))
\* read_length: the number at a position, if there is one.
read_length(m, pos) ==
  LET is == {i \in DOMAIN m : Start(m, i) = pos /\ m[i][1] = 2}
  IN  IF is = {} THEN Any ELSE m[CHOOSE i \in is : TRUE][2]

(***************************************************************************)
(* create_request.                                                         *)
(***************************************************************************)
Ext(id, n) == Num(id) \o Num(n)
Sni(d) == Num(0) \o add_length(d + 5) \o add_length(d + 3) \o Raw(1) \o add_length(d) \o Raw(d)
\* What follows the domain, up to the padding: extended master secret, renegotiation,
\* groups, point formats, session ticket, alpn, status request, signature algorithms,
\* certificate timestamp, key share, psk modes, versions, compression and grease.
Fixed ==
  Ext(23, 0) \o Ext(65281, 1) \o Raw(1) \o Ext(10, 10) \o Num(8) \o Raw(2) \o Raw(6)
  \o Ext(11, 2) \o Raw(2) \o Ext(35, 0) \o Ext(16, 14) \o Raw(14) \o Ext(5, 5) \o Raw(5)
  \o Ext(13, 20) \o Raw(20) \o Ext(18, 0)
  \o Ext(51, 43) \o Num(41) \o Raw(2) \o Raw(3) \o Num(29) \o Num(32) \o Raw(32)
  \o Ext(45, 2) \o Raw(2) \o Ext(43, 11) \o Raw(1) \o Raw(2) \o Raw(8)
  \o Ext(27, 3) \o Raw(3) \o <<<<2, 2570>>>> \o Num(1) \o Raw(1)
Unpadded(d) ==
  Raw(3) \o Num(512) \o Raw(2) \o Num(508) \o Raw(2)
  \o Raw(32) \o Raw(1) \o Raw(32)
  \o Num(34) \o Raw(2) \o Raw(32) \o Raw(2) \o Num(401)
  \o <<<<2, 2570>>>> \o Num(0) \o Sni(d) \o Fixed \o Num(21)
Padding(d) == TLS_REQUEST_LENGTH - 2 - Size(Unpadded(d))
\* The assertion padding_length >= 0 ends the program; all others follow from it.
create_request(d) ==
  IF Padding(d) < 0 THEN <<>> ELSE Unpadded(d) \o add_length(Padding(d)) \o Raw(Padding(d))

(***************************************************************************)
(* Reading a ClientHello.  h is the number at every position; hi is the    *)
(* end of what was read.                                                   *)
(***************************************************************************)
Found(at, n, hi) == [at |-> at, n |-> n, hi |-> hi]
NotFound(hi) == Found(0, 0, hi)
Larger(a, b) == IF a > b THEN a ELSE b
\* The server name extension: two lengths that must fit the extension's.
Name_Short(h, pos, n, len) ==
  IF pos + 2 > len THEN NotFound(pos)
  ELSE IF h[pos] # n - 2 THEN NotFound(pos + 2)
  ELSE IF h[pos + 3] # n - 5 THEN NotFound(pos + 5)
  ELSE Found(pos + 5, h[pos + 3], pos + 5 + h[pos + 3])
Name(h, pos, n, len) ==
  IF pos + 5 > len THEN NotFound(pos)
  ELSE IF h[pos] # n - 2 THEN NotFound(pos + 2)
  ELSE IF h[pos + 3] # n - 5 THEN NotFound(pos + 5)
  ELSE Found(pos + 5, h[pos + 3], pos + 5 + h[pos + 3])
RECURSIVE Walk(_, _, _, _)
Walk(h, pos, len, hi) ==
  IF pos + 4 > len THEN NotFound(hi)
  ELSE IF pos + 4 + h[pos + 2] > len THEN NotFound(pos + 4)
  ELSE IF h[pos] = 0 THEN Name(h, pos + 4, h[pos + 2], len)
  ELSE Walk(h, pos + 4 + h[pos + 2], len, pos + 4)
get_sni_domain_info(h, len) ==
  IF 76 + 2 > len THEN NotFound(0)
  ELSE IF 78 + h[76] + 4 > len THEN NotFound(78)
  ELSE Walk(h, 78 + h[76] + 4, len, 78)

\* The cipher suite the answer names: the first of n bytes of suites at 78 that is not
\* grease; g of them are.  Gives the end of what is read.
Suite(n, g, len) == IF 78 + n > len \/ n - 2 * g <= 1 THEN 0 ELSE 78 + 2 * g + 2

(***************************************************************************)
(* check_response.  r.hello is the length of the record, r.exts its list   *)
(* of extensions <<id, length>>, r.like how many of the three fixed parts  *)
(* are as expected (the start, the echoed session and the cipher, the      *)
(* ChangeCipherSpec), r.data the length of the encrypted data, r.len what  *)
(* was received of all that.                                               *)
(***************************************************************************)
Checked(ok, rev, hi) == [ok |-> ok, rev |-> rev, hi |-> hi]
Refuse(hi) == Checked(FALSE, FALSE, hi)
ExtLen(id) == IF id = 51 THEN 36 ELSE 2
\* The loop over the extensions from position pos; sum of the ids.
RECURSIVE Exts(_, _, _, _)
Exts(r, i, pos, sum) ==
  IF pos >= 5 + r.hello - 4 THEN [ok |-> pos = 5 + r.hello /\ sum = 51 + 43, pos |-> pos, hi |-> pos]
  ELSE LET id == IF i <= Len(r.exts) THEN r.exts[i][1] ELSE 0
           n == IF i <= Len(r.exts) THEN r.exts[i][2] ELSE 0 IN
       IF id \notin {51, 43} THEN [ok |-> FALSE, pos |-> pos, hi |-> pos + 2]
       ELSE IF pos + 4 + n > 5 + r.hello \/ n # ExtLen(id) THEN [ok |-> FALSE, pos |-> pos, hi |-> pos + 4]
       ELSE Exts(r, i + 1, pos + 4 + n, sum + id)
check_response(r) ==
  LET all == 5 + r.hello + 9 + 2 + r.data
      w == Exts(r, 1, 81, 0) IN
  IF r.len < 5 THEN Refuse(r.len)
  ELSE IF r.hello <= 39 \/ 5 + r.hello > r.len THEN Refuse(5)
  ELSE IF r.like = 0 \/ r.hello <= 75 THEN Refuse(44)
  ELSE IF r.like = 1 THEN Refuse(79)
  ELSE IF r.elen + 76 # r.hello THEN Refuse(81)
  ELSE IF ~w.ok THEN Refuse(w.hi)
  ELSE IF w.pos + 9 > r.len THEN Refuse(w.hi)
  ELSE IF r.like = 2 \/ w.pos + 11 > r.len THEN Refuse(w.pos + 9)
  ELSE IF r.data = 0 \/ r.len # all THEN Refuse(w.pos + 11)
  ELSE Checked(TRUE, r.exts[1][1] = 43, r.len)

\* The answer to a client: reversed as the domain's server does, with as much data.
Answer(rev, data) ==
  [len |-> 127 + 6 + 5 + data, hello |-> 122, elen |-> 46, like |-> 3, data |-> data,
   exts |-> IF rev THEN <<<<43, 2>>, <<51, 36>>>> ELSE <<<<51, 36>>, <<43, 2>>>>]

(***************************************************************************)
(* Inputs.                                                                 *)
(***************************************************************************)
Lists == {<<>>} \cup {<<a>> : a \in {51, 43, 7} \X {2, 36}}
         \cup {<<a, b>> : a, b \in {<<51, 36>>, <<43, 2>>, <<43, 36>>}}
Requests == [kind : {"request"}, d : DomainLen]
Hellos == [kind : {"hello"}, len : Lens, cs : Numbers, id : {0, 1}, n : Numbers,
           inner : Numbers, dl : Numbers, g : 0 .. 2]
Responses == [kind : {"response"}, len : {4, 5, 44, 45, 81, 127, 136, 137, 138, 139, 140},
              hello : {0, 39, 40, 75, 76, 80, 122}, elen : {0, 4, 46}, exts : Lists, like : 0 .. 3, data : 0 .. 2]
Answers == [kind : {"answer"}, rev : BOOLEAN, data : 1 .. 2]
\* The numbers of a hello received: the list of suites, one extension as given, and the
\* same again behind it.
At(p) ==
  LET p1 == 82 + x.cs  p2 == p1 + 4 + x.n IN
  IF p = 76 THEN x.cs
  ELSE IF p = p1 THEN x.id ELSE IF p = p1 + 2 THEN x.n
  ELSE IF p = p1 + 4 THEN x.inner ELSE IF p = p1 + 7 THEN x.dl
  ELSE IF p = p2 THEN 0 ELSE x.n
Received == [p \in 0 .. 1000 |-> At(p)]
Sent == [p \in 0 .. TLS_REQUEST_LENGTH |-> read_length(out[1], p)]

Init == x \in Requests \cup Hellos \cup Responses \cup Answers /\ out = <<>>
CreateRequest == x.kind = "request" /\ out' = <<create_request(x.d)>>
ReadHello == x.kind = "hello" /\ out' = <<get_sni_domain_info(Received, x.len), Suite(x.cs, x.g, x.len)>>
CheckResponse == x.kind = "response" /\ out' = <<check_response(x)>>
MakeAnswer == x.kind = "answer" /\ out' = <<Answer(x.rev, x.data)>>
Next == out = <<>> /\ UNCHANGED x /\ (CreateRequest \/ ReadHello \/ CheckResponse \/ MakeAnswer)
Spec == Init /\ [][Next]_vars

(***************************************************************************)
(* Properties.                                                             *)
(***************************************************************************)
\* The extensions from pos on, each as long as it says, end exactly at end.
RECURSIVE Exhausts(_, _, _)
Exhausts(h, pos, end) ==
  \/ pos = end
  \/ pos + 4 <= end /\ h[pos] # Any /\ h[pos + 2] # Any /\ Exhausts(h, pos + 4 + h[pos + 2], end)

\* Every length in the ClientHello of create_request delimits what it is said to: the
\* record, the handshake message and the list of extensions all end with the message, for
\* every domain that leaves room for the padding's own length.
RequestConsistent ==
  x.kind = "request" /\ out \notin {<<>>, <<<<>>>>} =>
    LET m == out[1]  h == Sent IN
    /\ Size(m) = TLS_REQUEST_LENGTH
    /\ 5 + h[3] = Size(m) /\ 9 + h[7] = Size(m)
    /\ 78 + h[76] + 2 = 114 /\ 116 + h[114] = Size(m)
    /\ Exhausts(h, 116, Size(m))

\* The walk that looks for the domain in a client's hello finds it in the hello the
\* program itself sends, whole.
SniFound ==
  x.kind = "request" /\ out \notin {<<>>, <<<<>>>>} =>
    LET f == get_sni_domain_info(Sent, TLS_REQUEST_LENGTH) IN
    f.at = 129 /\ f.n = x.d

\* No reader looks behind the bytes it was given, whatever the lengths in them say.
InBounds ==
  out # <<>> =>
    /\ x.kind = "hello" => out[1].hi <= x.len /\ (x.len >= 78 => out[2] <= x.len)
    /\ x.kind = "response" => out[1].hi <= x.len

\* check_response accepts a ServerHello with just the two extensions of TLS 1.3, in
\* either order, followed by just the data announced; and it accepts, with the order
\* they are in, the answers the program makes itself.
AcceptsExactly ==
  out # <<>> =>
  /\ x.kind = "response" =>
       (out[1].ok <=>
          /\ x.exts \in {<<<<51, 36>>, <<43, 2>>>>, <<<<43, 2>>, <<51, 36>>>>}
          /\ x.hello = 122 /\ x.elen = 46 /\ x.like = 3 /\ x.data > 0 /\ x.len = 138 + x.data)
  /\ x.kind = "answer" =>
       LET r == check_response(out[1]) IN r.ok /\ r.rev = x.rev

(***************************************************************************)
(* The key share a hello holds (generate_public_key).  It must look like a *)
(* Curve25519 public key, so a random point of the curve                   *)
(*     y^2 = x^3 + A x^2 + x   (mod P)                                     *)
(* is doubled three times, with x coordinates only.  The arithmetic is     *)
(* that of the code, over a small field; the reference is the chord and    *)
(* tangent rule with both coordinates.                                     *)
(***************************************************************************)
CONSTANTS P, A          \* the code's: 2^255 - 19 and 486662; P % 8 = 5, and A^2 - 4 is no square

VARIABLES key, coordinate, left  \* the bytes drawn; the coordinate; doublings to do, -1 before the check
keyVars == <<key, coordinate, left>>

F == 0 .. P - 1
\* BN_mod_add, BN_mod_sub, BN_mod_mul, BN_mod_exp, BN_mod_inverse.
Add(a, b) == (a + b) % P
Sub(a, b) == (a + P - b) % P
Mul(a, b) == (a * b) % P
RECURSIVE Power(_, _)
Power(b, n) == IF n = 0 THEN 1 ELSE Mul(b, Power(b, n - 1))
HasInverse(d) == \E i \in F : Mul(d, i) = 1
Inv(d) == CHOOSE i \in F : Mul(d, i) = 1

\* get_y2: Horner's rule.
get_y2(v) == Mul(Add(Mul(Add(v, A), v), 1), v)

\* get_double_x.  An inverse of zero is an assertion that fails (Abort).
Abort == -1
get_double_x(v) ==
  LET n == Sub(Mul(v, v), 1)  d == Mul(get_y2(v), 4)
  IN  IF HasInverse(d) THEN Mul(Mul(n, n), Inv(d)) ELSE Abort

Rounds == 3
KeyInit == key \in F /\ coordinate = Mul(key, key) /\ left = -1
\* The loop draws until Euler's criterion says the point exists; then the doublings.
Draw ==
  /\ left = -1
  /\ IF Power(get_y2(coordinate), (P - 1) \div 2) = 1
     THEN left' = Rounds /\ UNCHANGED <<key, coordinate>>
     ELSE key' \in F /\ coordinate' = Mul(key', key') /\ UNCHANGED left
Double ==
  /\ left > 0 /\ coordinate # Abort
  /\ coordinate' = get_double_x(coordinate) /\ left' = left - 1 /\ UNCHANGED key

KeyNext == Draw \/ Double
KeySpec == KeyInit /\ [][KeyNext]_keyVars

(***************************************************************************)
(* Reference: points <<x, y>>, and 0 for the point at infinity.            *)
(***************************************************************************)
Cubic(v) == (v * v * v + A * v * v + v) % P
Lift(v) == IF \E y \in F : Mul(y, y) = Cubic(v)
           THEN <<v, CHOOSE y \in F : Mul(y, y) = Cubic(v)>> ELSE <<>>
Tangent(q) ==
  IF q = <<>> \/ q[2] = 0 THEN <<>>
  ELSE LET l == Mul((3 * q[1] * q[1] + 2 * A * q[1] + 1) % P, Inv(Mul(2, q[2])))
           v == Sub(Sub(Mul(l, l), A), Mul(2, q[1]))
       IN  <<v, Sub(Mul(l, Sub(q[1], v)), q[2])>>
Eightfold(v) == Tangent(Tangent(Tangent(Lift(v))))

(***************************************************************************)
(* Properties.                                                             *)
(***************************************************************************)
\* The key is the x coordinate of eight times the point drawn, that is of a point of the
\* prime-order subgroup, as a key a TLS stack makes is; and the assertion on the inverse fails
\* only for a point of the eight-torsion, which has no such multiple.
KeyIsEightfold ==
  LET q == Eightfold(Mul(key, key)) IN
  /\ left = 0 /\ coordinate # Abort => q # <<>> /\ q[1] = coordinate
  /\ coordinate = Abort => q = <<>>

\* Hellos are written consistently and read within their bounds.
HelloExact == RequestConsistent /\ SniFound /\ InBounds /\ AcceptsExactly
=============================================================================
