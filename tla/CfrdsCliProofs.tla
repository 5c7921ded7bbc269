--------------------------- MODULE CfrdsCliProofs ---------------------------
(***************************************************************************)
(* Proofs about CfrdsCli: that a URI init_server_from_uri accepts is read  *)
(* as its parts mean it, and that success means the command was done.      *)
(*                                                                         *)
(* Every length is a number of its own (m, a, b, q, n below): the provers  *)
(* reason about those, not about Len of a concatenation.                   *)
(***************************************************************************)
EXTENDS CfrdsCli, WellFoundedInduction, TLAPS

-----------------------------------------------------------------------------
(* strchr                                                                  *)

Below == {ss \in Nat \X Nat : ss[1] < ss[2]}

LEMMA Least ==
  ASSUME NEW T \in SUBSET Nat, T # {}
  PROVE  \E x \in T : \A y \in T : x <= y
<1>0. IsWellFoundedOn(Below, Nat)
  BY NatLessThanWellFounded DEF OpToRel, Below
<1>1. PICK x \in T : \A y \in T : ~(<<y, x>> \in Below)
  BY <1>0, WFMin
<1>2. \A y \in T : <<y, x>> \in Below <=> y < x
  BY DEF Below
<1>3. \A y \in T : ~(y < x) /\ y \in Nat
  BY <1>1, <1>2
<1>4. \A y \in T : x <= y
  BY <1>3
<1> QED
  BY <1>4

LEMMA FirstFinds ==
  ASSUME NEW text \in Seq(Tokens), NEW c, NEW from \in Nat \ {0}
  PROVE  \/ First(text, c, from) = 0 /\ \A i \in from .. Len(text) : text[i] # c
         \/ /\ First(text, c, from) \in from .. Len(text)
            /\ text[First(text, c, from)] = c
            /\ \A i \in from .. Len(text) : text[i] = c => First(text, c, from) <= i
<1> DEFINE found == {i \in from .. Len(text) : text[i] = c}
<1>1. First(text, c, from) = IF found = {} THEN 0 ELSE Min(found)
  BY DEF First
<1>2. CASE found = {}
  BY <1>1, <1>2
<1>3. CASE found # {}
  <2>1. found \in SUBSET Nat
    OBVIOUS
  <2>2. PICK x \in found : \A y \in found : x <= y
    BY <1>3, <2>1, Least
  <2>3. Min(found) \in found /\ \A y \in found : Min(found) <= y
    BY <2>2 DEF Min
  <2> QED BY <1>1, <1>3, <2>3
<1> QED BY <1>2, <1>3

\* What strchr finds in a text whose first part does not hold the character.
LEMMA FirstPast ==
  ASSUME NEW text \in Seq(Tokens), NEW c, NEW from \in Nat \ {0}, NEW n \in Nat,
         \A i \in from .. n : text[i] # c
  PROVE  First(text, c, from) = 0 \/ First(text, c, from) > n
BY FirstFinds

\* ... and in one that does, at k.
LEMMA FirstAt ==
  ASSUME NEW text \in Seq(Tokens), NEW c, NEW from \in Nat \ {0},
         NEW k \in from .. Len(text), text[k] = c,
         \A i \in from .. k - 1 : text[i] # c
  PROVE  First(text, c, from) = k
<1>1. First(text, c, from) \in from .. k /\ text[First(text, c, from)] = c
  BY FirstFinds
<1>2. First(text, c, from) \notin from .. k - 1
  BY <1>1
<1> QED BY <1>1, <1>2

-----------------------------------------------------------------------------
(* The text of a URI                                                       *)

LEMMA OneToken ==
  ASSUME NEW text \in Seq(Tokens), NEW i \in 1 .. Len(text)
  PROVE  SubSeq(text, i, i) = <<text[i]>>
<1>1. SubSeq(text, i, i) \in Seq(Tokens) /\ Len(SubSeq(text, i, i)) = 1
      /\ SubSeq(text, i, i)[1] = text[i]
  OBVIOUS
<1>2. \A s \in Seq(Tokens) : Len(s) = 1 => s = <<s[1]>>
  OBVIOUS
<1> QED BY <1>1, <1>2

\* Tokens of a concatenation.
LEMMA Joined ==
  ASSUME NEW s \in Seq(Tokens), NEW t \in Seq(Tokens)
  PROVE  \E r \in Seq(Tokens) :
           /\ r = s \o t /\ Len(r) = Len(s) + Len(t)
           /\ \A i \in 1 .. Len(s) : r[i] = s[i]
           /\ \A i \in 1 .. Len(t) : r[Len(s) + i] = t[i]
<1>1. /\ s \o t \in Seq(Tokens) /\ Len(s \o t) = Len(s) + Len(t)
      /\ \A i \in 1 .. Len(s) : (s \o t)[i] = s[i]
      /\ \A i \in 1 .. Len(t) : (s \o t)[Len(s) + i] = t[i]
  OBVIOUS
<1> QED BY <1>1

LEMMA Single ==
  ASSUME NEW c \in Tokens
  PROVE  \E s \in Seq(Tokens) : s = <<c>> /\ Len(s) = 1 /\ s[1] = c
<1>1. <<c>> \in Seq(Tokens) /\ Len(<<c>>) = 1 /\ <<c>>[1] = c
  OBVIOUS
<1> QED BY <1>1, Zenon

\* A text made of a login, a host, a port and a path.
Joint(text, login, host, port, path) ==
  /\ text \in Seq(Tokens)
  /\ Len(text) = Len(login) + 1 + Len(port) + Len(path)
  /\ \A i \in 1 .. Len(login) : text[i] = login[i]
  /\ text[Len(login) + 1] = host
  /\ \A i \in 1 .. Len(port) : text[Len(login) + 1 + i] = port[i]
  /\ \A i \in 1 .. Len(path) : text[Len(login) + 1 + Len(port) + i] = path[i]

LEMMA Layout ==
  ASSUME NEW scheme \in Tokens, NEW login \in Seq(Tokens), NEW host \in Tokens,
         NEW port \in Seq(Tokens), NEW path \in Seq(Tokens), NEW text,
         text = Tail(<<scheme>> \o login \o <<host>> \o port \o path)
  PROVE  Joint(text, login, host, port, path)
<1>a. PICK s \in Seq(Tokens) : s = <<scheme>> /\ Len(s) = 1 /\ s[1] = scheme
  BY Single
<1>b. PICK h \in Seq(Tokens) : h = <<host>> /\ Len(h) = 1 /\ h[1] = host
  BY Single
<1>1. PICK a \in Seq(Tokens) :
        /\ a = s \o login /\ Len(a) = Len(s) + Len(login)
        /\ \A i \in 1 .. Len(s) : a[i] = s[i]
        /\ \A i \in 1 .. Len(login) : a[Len(s) + i] = login[i]
  BY Joined
<1>2. PICK b \in Seq(Tokens) :
        /\ b = a \o h /\ Len(b) = Len(a) + Len(h)
        /\ \A i \in 1 .. Len(a) : b[i] = a[i]
        /\ \A i \in 1 .. Len(h) : b[Len(a) + i] = h[i]
  BY Joined
<1>3. PICK c \in Seq(Tokens) :
        /\ c = b \o port /\ Len(c) = Len(b) + Len(port)
        /\ \A i \in 1 .. Len(b) : c[i] = b[i]
        /\ \A i \in 1 .. Len(port) : c[Len(b) + i] = port[i]
  BY Joined
<1>4. PICK d \in Seq(Tokens) :
        /\ d = c \o path /\ Len(d) = Len(c) + Len(path)
        /\ \A i \in 1 .. Len(c) : d[i] = c[i]
        /\ \A i \in 1 .. Len(path) : d[Len(c) + i] = path[i]
  BY Joined
<1>5. /\ Head(d) = d[1] /\ Tail(d) \in Seq(Tokens) /\ Len(Tail(d)) = Len(d) - 1
      /\ \A i \in 1 .. Len(d) - 1 : Tail(d)[i] = d[i + 1]
  BY <1>a, <1>b, <1>1, <1>2, <1>3, <1>4
<1>6. PICK e \in Seq(Tokens) :
        /\ e = Tail(d) /\ Len(e) = Len(d) - 1
        /\ \A i \in 1 .. Len(d) - 1 : e[i] = d[i + 1]
  BY <1>5
<1>7. d[1] = scheme /\ \A i \in 1 .. Len(login) : e[i] = login[i]
  BY <1>a, <1>b, <1>1, <1>2, <1>3, <1>4, <1>6
<1>8. e[Len(login) + 1] = host
  BY <1>a, <1>b, <1>1, <1>2, <1>3, <1>4, <1>6
<1>9. \A i \in 1 .. Len(port) : e[Len(login) + 1 + i] = port[i]
  BY <1>a, <1>b, <1>1, <1>2, <1>3, <1>4, <1>6
<1>10. \A i \in 1 .. Len(path) : e[Len(login) + 1 + Len(port) + i] = path[i]
  BY <1>a, <1>b, <1>1, <1>2, <1>3, <1>4, <1>6
<1>11. Len(e) = Len(login) + 1 + Len(port) + Len(path)
  BY <1>a, <1>b, <1>1, <1>2, <1>3, <1>4, <1>6
<1>12. e = text
  BY <1>a, <1>b, <1>1, <1>2, <1>3, <1>4, <1>6
<1> QED
  BY <1>7, <1>8, <1>9, <1>10, <1>11, <1>12 DEF Joint

\* What a URI's login and port look like in its text.
LoginText(login) ==
  CASE Len(login) = 0 -> <<>>
    [] Len(login) = 1 -> <<login[1], "@">>
    [] Len(login) = 2 -> <<login[1], ":", login[2], "@">>
PortText(port) == IF port = "default" THEN <<>> ELSE <<":", port>>

\* What is read of them.
UserIn(login, m) == IF m = 0 THEN <<>> ELSE <<login[1]>>
PasswordIn(login, m) == IF m < 2 THEN <<>> ELSE <<login[2]>>
PortIn(port) == IF port = "default" THEN 80 ELSE PortOf[port]
PathIn(path) == IF path = <<>> THEN <<"/">> ELSE path

LEMMA LoginTextIs ==
  ASSUME NEW login \in Seq(Words), NEW m \in 0 .. 2, Len(login) = m
  PROVE  /\ LoginText(login) \in Seq(Tokens) /\ Len(LoginText(login)) = 2 * m
         /\ m = 1 => /\ LoginText(login)[1] = login[1] /\ login[1] \in Words
                              /\ LoginText(login)[2] = "@"
         /\ m = 2 => /\ LoginText(login)[1] = login[1] /\ login[1] \in Words
                              /\ LoginText(login)[2] = ":"
                              /\ LoginText(login)[3] = login[2] /\ login[2] \in Words
                              /\ LoginText(login)[4] = "@"
<1>1. CASE Len(login) = 0
  BY <1>1 DEF LoginText
<1>2. CASE Len(login) = 1
  BY <1>2, UrisAssumption, SMTT(30) DEF LoginText, Words
<1>3. CASE Len(login) = 2
  BY <1>3, UrisAssumption DEF LoginText, Words
<1> QED BY <1>1, <1>2, <1>3

LEMMA PortTextIs ==
  ASSUME NEW port, port = "default" \/ port \in Words
  PROVE  /\ PortText(port) \in Seq(Tokens)
         /\ port = "default" => Len(PortText(port)) = 0
         /\ port # "default" => /\ Len(PortText(port)) = 2 /\ PortText(port)[1] = ":"
                                /\ PortText(port)[2] = port
BY UrisAssumption DEF PortText, Words

\* The path begins at the first "/".
LEMMA PathRead ==
  ASSUME NEW path \in Seq(Tokens), path # <<>> => path[1] = "/",
         NEW text \in Seq(Tokens), NEW n \in Nat, Len(text) = n + Len(path),
         \A i \in 1 .. n : text[i] # "/",
         \A i \in 1 .. Len(path) : text[n + i] = path[i]
  PROVE  /\ EndOf(text) = n + 1
         /\ PathOf(text) = PathIn(path)
<1>1. CASE path = <<>>
  <2>1. First(text, "/", 1) = 0
    BY <1>1, FirstFinds
  <2> QED BY <1>1, <2>1 DEF EndOf, PathOf, PathIn
<1>2. CASE path # <<>>
  <2>1. Len(path) > 0 /\ text[n + 1] = "/"
    BY <1>2
  <2>2. First(text, "/", 1) = n + 1
    BY <2>1, FirstAt
  <2>3. SubSeq(text, n + 1, Len(text)) = path
    OBVIOUS
  <2>4. n + 1 # 0
    OBVIOUS
  <2> QED BY <1>2, <2>2, <2>3, <2>4, Zenon DEF EndOf, PathOf, PathIn
<1> QED BY <1>1, <1>2

-----------------------------------------------------------------------------
(* Reading it                                                              *)

\* The text of a URI behind its scheme, its lengths as numbers.
Laid(text, login, m, host, port, path, a, b, q, n) ==
  /\ login \in Seq(Words) /\ m \in 0 .. 2 /\ Len(login) = m
  /\ host \in Words /\ (port = "default" \/ port \in DOMAIN PortOf)
  /\ path \in Seq(Tokens) /\ (path # <<>> => path[1] = "/")
  /\ text \in Seq(Tokens) /\ Len(text) = n + q
  /\ a \in Nat /\ a = 2 * m /\ b \in Nat /\ b = Len(PortText(port))
  /\ q \in Nat /\ q = Len(path) /\ n \in Nat /\ n = a + 1 + b
  /\ \A i \in 1 .. a : text[i] = LoginText(login)[i]
  /\ text[a + 1] = host
  /\ \A i \in 1 .. b : text[a + 1 + i] = PortText(port)[i]
  /\ \A i \in 1 .. q : text[n + i] = path[i]

\* The tokens of the login, of the port, and their numbers.
LEMMA LaidLogin ==
  ASSUME NEW text, NEW login, NEW m, NEW host, NEW port, NEW path,
         NEW a, NEW b, NEW q, NEW n,
         Laid(text, login, m, host, port, path, a, b, q, n)
  PROVE  /\ a \in Nat /\ b \in Nat /\ n = a + 1 + b /\ q \in Nat /\ n \in Nat
         /\ m = 0 => a = 0
         /\ m = 1 => a = 2 /\ text[1] = login[1] /\ login[1] \in Words /\ text[2] = "@"
         /\ m = 2 => /\ a = 4 /\ text[1] = login[1] /\ login[1] \in Words
                     /\ text[2] = ":" /\ text[3] = login[2] /\ login[2] \in Words
                     /\ text[4] = "@"
         /\ m \in {0, 1, 2}
<1>1. /\ login \in Seq(Words) /\ m \in 0 .. 2 /\ Len(login) = m
      /\ a \in Nat /\ a = 2 * m /\ b \in Nat /\ n = a + 1 + b /\ q \in Nat /\ n \in Nat
      /\ \A i \in 1 .. a : text[i] = LoginText(login)[i]
  BY Zenon DEF Laid
<1>2. CASE m = 0
  BY <1>1, <1>2
<1>3. CASE m = 1
  BY <1>1, <1>3, LoginTextIs
<1>4. CASE m = 2
  BY <1>1, <1>4, LoginTextIs
<1> QED BY <1>1, <1>2, <1>3, <1>4

LEMMA LaidHost ==
  ASSUME NEW text, NEW login, NEW m, NEW host, NEW port, NEW path,
         NEW a, NEW b, NEW q, NEW n,
         Laid(text, login, m, host, port, path, a, b, q, n)
  PROVE  /\ text[a + 1] = host /\ host \in Words
         /\ port = "default" => b = 0
         /\ port # "default" => /\ b = 2 /\ port \in Words /\ port \in DOMAIN PortOf
                                /\ text[a + 2] = ":" /\ text[a + 3] = port
<1>1. /\ text[a + 1] = host /\ host \in Words
      /\ (port = "default" \/ port \in DOMAIN PortOf)
      /\ a \in Nat /\ b \in Nat /\ b = Len(PortText(port))
      /\ \A i \in 1 .. b : text[a + 1 + i] = PortText(port)[i]
  BY Zenon DEF Laid
<1>2. port = "default" \/ port \in Words
  BY <1>1, UrisAssumption
<1>3. CASE port = "default"
  BY <1>1, <1>3, PortTextIs
<1>4. CASE port # "default"
  <2>1. b = 2 /\ PortText(port)[1] = ":" /\ PortText(port)[2] = port
    BY <1>1, <1>2, <1>4, PortTextIs
  <2>2. text[a + 1 + 1] = ":" /\ text[a + 1 + 2] = port
    BY <1>1, <2>1
  <2> QED BY <1>1, <1>2, <1>4, <2>1, <2>2
<1> QED BY <1>3, <1>4

\* Before the path there is no "/", and behind the login no "@".
LEMMA LaidSeparators ==
  ASSUME NEW text, NEW login, NEW m, NEW host, NEW port, NEW path,
         NEW a, NEW b, NEW q, NEW n,
         Laid(text, login, m, host, port, path, a, b, q, n)
  PROVE  /\ \A i \in 1 .. n : text[i] # "/"
         /\ \A i \in a + 1 .. n : text[i] # "@"
<1>1. a \in Nat /\ n = a + 1 + b /\ m \in {0, 1, 2}
  BY LaidLogin, Zenon
<1>2. text[a + 1] # "/" /\ text[a + 1] # "@"
  BY LaidHost DEF Words
<1>3. \/ n = a + 1
      \/ /\ n = a + 3 /\ text[a + 2] # "/" /\ text[a + 2] # "@"
         /\ text[a + 3] # "/" /\ text[a + 3] # "@"
  BY <1>1, LaidHost DEF Words
<1>4. \/ a = 0
      \/ a = 2 /\ text[1] # "/" /\ text[2] # "/"
      \/ a = 4 /\ text[1] # "/" /\ text[2] # "/" /\ text[3] # "/" /\ text[4] # "/"
  BY <1>1, LaidLogin DEF Words
<1>5. \A i \in 1 .. a : text[i] # "/"
  BY <1>4
<1>6. \A i \in a + 1 .. n : text[i] # "/" /\ text[i] # "@"
  BY <1>1, <1>2, <1>3
<1> QED BY <1>1, <1>5, <1>6

LEMMA LaidPath ==
  ASSUME NEW text, NEW login, NEW m, NEW host, NEW port, NEW path,
         NEW a, NEW b, NEW q, NEW n,
         Laid(text, login, m, host, port, path, a, b, q, n)
  PROVE  /\ EndOf(text) = n + 1
         /\ PathOf(text) = PathIn(path)
<1>1. /\ path \in Seq(Tokens) /\ (path # <<>> => path[1] = "/")
      /\ text \in Seq(Tokens) /\ Len(text) = n + q
      /\ q \in Nat /\ q = Len(path) /\ n \in Nat
      /\ \A i \in 1 .. q : text[n + i] = path[i]
  BY Zenon DEF Laid
<1>2. \A i \in 1 .. n : text[i] # "/"
  BY LaidSeparators, Zenon
<1> QED BY <1>1, <1>2, PathRead

\* The login is read as it was written, or read beyond the host.
LEMMA LoginRead ==
  ASSUME NEW text, NEW login, NEW m, NEW host, NEW port, NEW path,
         NEW a, NEW b, NEW q, NEW n,
         Laid(text, login, m, host, port, path, a, b, q, n)
  PROVE  \/ LoginOf(text) = [user |-> UserIn(login, m), password |-> PasswordIn(login, m),
                             end |-> a]
         \/ LoginOf(text).end \in Nat /\ LoginOf(text).end > n
<1>0. /\ text \in Seq(Tokens) /\ n \in Nat /\ n <= Len(text) /\ a \in Nat /\ a < n
      /\ m \in {0, 1, 2}
  <2>1. text \in Seq(Tokens) /\ Len(text) = n + q
    BY Zenon DEF Laid
  <2> QED BY <2>1, LaidLogin
<1>1. CASE m = 0
  <2>0. \A i \in 1 .. n : text[i] # "@"
    BY <1>1, LaidLogin, LaidSeparators
  <2>1. First(text, "@", 1) = 0 \/ First(text, "@", 1) > n
    BY <1>0, <2>0, FirstPast
  <2>2. First(text, "@", 1) \in Nat
    BY <1>0, FirstFinds
  <2>3. UserIn(login, m) = <<>> /\ PasswordIn(login, m) = <<>> /\ a = 0
    BY <1>1, LaidLogin DEF UserIn, PasswordIn
  <2>4. CASE First(text, "@", 1) = 0
    BY <2>3, <2>4, Zenon DEF LoginOf
  <2>5. CASE First(text, "@", 1) # 0
    <3>1. LoginOf(text).end = First(text, "@", 1)
      BY <2>5, Zenon DEF LoginOf
    <3> QED BY <2>1, <2>2, <2>5, <3>1
  <2> QED BY <2>4, <2>5
<1>2. CASE m = 1
  <2>1. a = 2 /\ text[1] = login[1] /\ text[2] = "@" /\ text[1] # "@" /\ text[1] # ":"
    BY <1>2, LaidLogin DEF Words
  <2>2. First(text, "@", 1) = 2
    BY <1>0, <2>1, FirstAt
  <2>3. First(text, ":", 1) = 0 \/ First(text, ":", 1) > 2
    BY <1>0, <2>1, FirstPast
  <2>4. SubSeq(text, 1, 1) = <<login[1]>>
    BY <1>0, <2>1, OneToken
  <2>5. 2 # 0 /\ ~(First(text, ":", 1) # 0 /\ First(text, ":", 1) < 2)
    BY <1>0, <2>3, FirstFinds
  <2>6. UserIn(login, m) = <<login[1]>> /\ PasswordIn(login, m) = <<>> /\ 2 - 1 = 1
    BY <1>2 DEF UserIn, PasswordIn
  <2>7. LoginOf(text) = [user |-> SubSeq(text, 1, 2 - 1), password |-> <<>>, end |-> 2]
    BY <2>2, <2>5, Zenon DEF LoginOf
  <2> QED BY <2>1, <2>4, <2>6, <2>7, Zenon
<1>3. CASE m = 2
  <2>1. /\ a = 4 /\ text[1] = login[1] /\ text[1] # "@" /\ text[1] # ":" /\ text[2] = ":"
        /\ text[3] = login[2] /\ text[3] # "@" /\ text[4] = "@"
    BY <1>3, LaidLogin DEF Words
  <2>2. First(text, "@", 1) = 4
    BY <1>0, <2>1, FirstAt
  <2>3. First(text, ":", 1) = 2
    BY <1>0, <2>1, FirstAt
  <2>4. SubSeq(text, 1, 1) = <<login[1]>> /\ SubSeq(text, 3, 3) = <<login[2]>>
    BY <1>0, <2>1, OneToken
  <2>5. 4 # 0 /\ 2 # 0 /\ 2 < 4 /\ 2 - 1 = 1 /\ 2 + 1 = 3 /\ 4 - 1 = 3
    OBVIOUS
  <2>6. UserIn(login, m) = <<login[1]>> /\ PasswordIn(login, m) = <<login[2]>>
    BY <1>3 DEF UserIn, PasswordIn
  <2>7. LoginOf(text) = [user |-> SubSeq(text, 1, 2 - 1),
                         password |-> SubSeq(text, 2 + 1, 4 - 1), end |-> 4]
    BY <2>2, <2>3, <2>5, Zenon DEF LoginOf
  <2> QED BY <2>1, <2>4, <2>5, <2>6, <2>7, Zenon
<1> QED BY <1>0, <1>1, <1>2, <1>3

\* Host and port are read as they were written, if the login was.
LEMMA PortRead ==
  ASSUME NEW text, NEW login, NEW m, NEW host, NEW port, NEW path,
         NEW a, NEW b, NEW q, NEW n,
         Laid(text, login, m, host, port, path, a, b, q, n),
         LoginOf(text).end = a, HostEnd(text) <= n + 1
  PROVE  /\ SubSeq(text, a + 1, HostEnd(text) - 1) = <<host>>
         /\ NumberOf(text) = PortIn(port)
<1>0. /\ text \in Seq(Tokens) /\ n \in Nat /\ a \in Nat /\ q \in Nat /\ Len(text) = n + q
      /\ n = a + 1 + b /\ a + 1 \in 1 .. Len(text) /\ a + 1 \in Nat \ {0}
  BY DEF Laid
<1>1. q # 0 => text[n + 1] = "/"
  <2>1. /\ path \in Seq(Tokens) /\ (path # <<>> => path[1] = "/") /\ q = Len(path)
        /\ \A i \in 1 .. q : text[n + i] = path[i]
    BY Zenon DEF Laid
  <2> SUFFICES ASSUME q # 0 PROVE text[n + 1] = "/"
    OBVIOUS
  <2>2. path # <<>> /\ 1 \in 1 .. q
    BY <1>0, <2>1
  <2> QED BY <2>1, <2>2, Zenon
<1>2. SubSeq(text, a + 1, a + 1) = <<host>>
  BY <1>0, LaidHost, OneToken
<1>3. text[a + 1] # ":"
  BY LaidHost DEF Words
<1>4. ColonOf(text) = First(text, ":", a + 1)
  BY Zenon DEF ColonOf
<1>5. EndOf(text) = n + 1
  BY LaidPath, Zenon
<1>6. CASE port = "default"
  <2>1. n = a + 1
    BY <1>0, <1>6, LaidHost
  <2>2. ColonOf(text) = 0
    <3>1. \/ ColonOf(text) = 0
          \/ /\ ColonOf(text) \in a + 1 .. Len(text) /\ text[ColonOf(text)] = ":"
             /\ ColonOf(text) = HostEnd(text)
      BY <1>0, <1>4, FirstFinds DEF HostEnd
    <3>2. /\ ColonOf(text) # a + 1
          /\ ~(ColonOf(text) = a + 2 /\ q # 0 /\ text[ColonOf(text)] = ":")
      BY <1>0, <1>1, <1>3, <2>1, <3>1
    <3> QED BY <1>0, <2>1, <3>1, <3>2
  <2>3. HostEnd(text) - 1 = a + 1
    BY <1>0, <1>5, <2>1, <2>2 DEF HostEnd
  <2>4. NumberOf(text) = 80
    BY <2>2, Zenon DEF NumberOf
  <2>5. PortIn(port) = 80
    BY <1>6, Zenon DEF PortIn
  <2> QED BY <1>2, <2>3, <2>4, <2>5, Zenon
<1>7. CASE port # "default"
  <2>1. /\ n = a + 3 /\ text[a + 2] = ":" /\ text[a + 3] = port
        /\ a + 2 \in a + 1 .. Len(text) /\ a + 3 \in 1 .. Len(text)
    BY <1>0, <1>7, LaidHost, SMTT(30)
  <2>2. ColonOf(text) = a + 2
    BY <1>0, <1>3, <1>4, <2>1, FirstAt
  <2>3. HostEnd(text) - 1 = a + 1 /\ ColonOf(text) # 0 /\ ColonOf(text) + 1 = a + 3
        /\ EndOf(text) - 1 = a + 3
    BY <1>0, <1>5, <2>1, <2>2 DEF HostEnd
  <2>4. SubSeq(text, a + 3, a + 3) = <<port>>
    BY <1>0, <2>1, OneToken
  <2>5. PortNumber(<<port>>) = PortOf[port]
    <3>1. <<port>> # <<>> /\ <<port>>[1] = port
      OBVIOUS
    <3>2. port \in DOMAIN PortOf
      BY <1>0, <1>7, LaidHost, SMTT(30)
    <3> QED BY <3>1, <3>2, Zenon DEF PortNumber
  <2>6. NumberOf(text) = PortNumber(SubSeq(text, a + 3, a + 3))
    BY <2>3, Zenon DEF NumberOf
  <2>7. PortIn(port) = PortOf[port]
    BY <1>7, Zenon DEF PortIn
  <2> QED BY <1>2, <2>3, <2>4, <2>5, <2>6, <2>7, Zenon
<1> QED BY <1>6, <1>7

\* What ParseUri returns when it accepts.
Answer(text) ==
  [ok |-> TRUE,
   host |-> SubSeq(text, LoginOf(text).end + 1, HostEnd(text) - 1),
   port |-> NumberOf(text),
   user |-> LoginOf(text).user, password |-> LoginOf(text).password,
   path |-> PathOf(text)]

Rejects(text) ==
  \/ HostEnd(text) < LoginOf(text).end + 1 \/ HostEnd(text) > EndOf(text)
  \/ NumberOf(text) > 65535

LEMMA Accepted ==
  ASSUME NEW text, ParseText(text).ok
  PROVE  /\ ~(HostEnd(text) < LoginOf(text).end + 1) /\ ~(HostEnd(text) > EndOf(text))
         /\ ParseText(text) = Answer(text)
<1>1. ~Nobody.ok
  BY DEF Nobody
<1>2. ParseText(text) = IF Rejects(text) THEN Nobody ELSE Answer(text)
  BY DEF ParseText, Rejects, Answer
<1>3. ~Rejects(text) /\ ParseText(text) = Answer(text)
  BY <1>1, <1>2, Zenon
<1> QED BY <1>3 DEF Rejects

\* A text that is accepted is read as its parts mean it.
LEMMA TextRead ==
  ASSUME NEW text, NEW login, NEW m, NEW host, NEW port, NEW path,
         NEW a, NEW b, NEW q, NEW n,
         Laid(text, login, m, host, port, path, a, b, q, n), ParseText(text).ok
  PROVE  ParseText(text) =
           [ok |-> TRUE, host |-> <<host>>,
            port |-> PortIn(port),
            user |-> UserIn(login, m),
            password |-> PasswordIn(login, m),
            path |-> PathIn(path)]
<1>2. /\ ~(HostEnd(text) < LoginOf(text).end + 1) /\ ~(HostEnd(text) > EndOf(text))
      /\ ParseText(text) = Answer(text)
  BY Accepted, Zenon
<1>3. n \in Nat /\ a \in Nat /\ a < n /\ text \in Seq(Tokens)
  BY DEF Laid
<1>4. EndOf(text) = n + 1 /\ PathOf(text) = PathIn(path)
  BY LaidPath, Zenon
<1>5. ~(LoginOf(text).end \in Nat /\ LoginOf(text).end > n)
  <2> SUFFICES ASSUME NEW end \in Nat, end = LoginOf(text).end, end > n PROVE FALSE
    BY Zenon
  <2>1. end + 1 \in Nat \ {0} /\ end + 1 > n + 1
    BY <1>3
  <2>2. ColonOf(text) = 0 \/ (ColonOf(text) \in Nat /\ ColonOf(text) >= end + 1)
    BY <1>3, <2>1, FirstFinds DEF ColonOf
  <2>3. ~(HostEnd(text) < end + 1) /\ ~(HostEnd(text) > n + 1)
    BY <1>2, <1>4, Zenon
  <2> QED BY <1>3, <1>4, <2>1, <2>2, <2>3 DEF HostEnd
<1>6. LoginOf(text) = [user |-> UserIn(login, m),
                       password |-> PasswordIn(login, m),
                       end |-> a]
  BY <1>5, LoginRead, Zenon
<1>7. /\ LoginOf(text).user = UserIn(login, m)
      /\ LoginOf(text).password = PasswordIn(login, m)
      /\ LoginOf(text).end = a
  BY <1>6
<1>8. HostEnd(text) <= n + 1
  <2>1. HostEnd(text) \in Nat
    <3>1. a + 1 \in Nat \ {0}
      BY <1>3
    <3>2. ColonOf(text) \in Nat
      BY <1>3, <1>7, <3>1, FirstFinds DEF ColonOf
    <3> QED BY <1>3, <1>4, <3>2 DEF HostEnd
  <2>2. ~(HostEnd(text) > n + 1)
    BY <1>2, <1>4, Zenon
  <2> QED BY <1>3, <2>1, <2>2
<1>9. /\ SubSeq(text, a + 1, HostEnd(text) - 1) = <<host>>
      /\ NumberOf(text) = PortIn(port)
  BY <1>7, <1>8, PortRead, Zenon
<1> QED BY <1>2, <1>4, <1>7, <1>9, Zenon DEF Answer

\* What is written is laid out like that.
LEMMA WrittenLaid ==
  ASSUME NEW scheme \in Tokens, NEW login \in Seq(Words), NEW m \in 0 .. 2, Len(login) = m,
         NEW host \in Words, NEW port, port = "default" \/ port \in DOMAIN PortOf,
         NEW path \in Seq(Tokens), path # <<>> => path[1] = "/", NEW whole,
         whole = <<scheme>> \o LoginText(login) \o <<host>> \o PortText(port) \o path
  PROVE  \E a, b, q, n : Laid(Tail(whole), login, m, host, port, path, a, b, q, n)
<1>1. port = "default" \/ port \in Words
  BY UrisAssumption
<1>2. host \in Tokens
  BY DEF Words
<1>3. PICK lt \in Seq(Tokens) : lt = LoginText(login)
  BY LoginTextIs
<1>4. PICK pt \in Seq(Tokens) : pt = PortText(port)
  BY <1>1, PortTextIs
<1>5. PICK text : text = Tail(whole)
  OBVIOUS
<1>6. text = Tail(<<scheme>> \o lt \o <<host>> \o pt \o path)
  BY <1>3, <1>4, <1>5
<1>7. Joint(text, lt, host, pt, path)
  BY <1>2, <1>6, Layout
<1>8. PICK a \in Nat : a = Len(lt)
  OBVIOUS
<1>9. PICK b \in Nat : b = Len(pt)
  OBVIOUS
<1>10. PICK q \in Nat : q = Len(path)
  OBVIOUS
<1>11. PICK n \in Nat : n = a + 1 + b
  OBVIOUS
<1>12. a = 2 * m
  BY <1>3, <1>8, LoginTextIs
<1>13. b = Len(PortText(port))
  BY <1>4, <1>9
<1>14. /\ Len(text) = n + q /\ \A i \in 1 .. a : text[i] = LoginText(login)[i]
       /\ text[a + 1] = host
       /\ \A i \in 1 .. b : text[a + 1 + i] = PortText(port)[i]
       /\ \A i \in 1 .. q : text[n + i] = path[i]
  BY <1>3, <1>4, <1>7, <1>8, <1>9, <1>10, <1>11 DEF Joint
<1>15. Laid(text, login, m, host, port, path, a, b, q, n)
  BY <1>7, <1>10, <1>11, <1>12, <1>13, <1>14, Zenon DEF Laid, Joint
<1> QED BY <1>5, <1>15, Zenon

\* A URI that is accepted is read as its parts mean it.
LEMMA ParseWritten ==
  ASSUME NEW u, WellMeant(u), ParseUri(Written(u)).ok
  PROVE  ParseUri(Written(u)) = Meant(u)
<1>1. PICK scheme, login, host, port, path :
        /\ scheme = u.scheme /\ login = u.login /\ host = u.host
        /\ port = u.port /\ path = u.path
  OBVIOUS
<1>2. /\ scheme \in Tokens /\ login \in Seq(Words) /\ Len(login) \in 0 .. 2
      /\ host \in Words /\ (port = "default" \/ port \in DOMAIN PortOf)
      /\ path \in Seq(Tokens) /\ (path # <<>> => path[1] = "/")
  BY <1>1, Zenon DEF WellMeant
<1>3. PICK m \in 0 .. 2 : Len(login) = m
  BY <1>2, Zenon
<1>4. PICK whole : whole = Written(u)
  OBVIOUS
<1>5. whole = <<scheme>> \o LoginText(login) \o <<host>> \o PortText(port) \o path
  BY <1>1, <1>4, Zenon DEF Written, LoginText, PortText
<1>6. PICK a, b, q, n : Laid(Tail(whole), login, m, host, port, path, a, b, q, n)
  <2> HIDE <1>1, <1>4
  <2> QED BY <1>2, <1>3, <1>5, WrittenLaid
<1>7. ParseText(Tail(whole)).ok /\ ParseUri(whole) = ParseText(Tail(whole))
  <2>1. ~Nobody.ok
    BY DEF Nobody
  <2> QED BY <1>4, <2>1, Zenon DEF ParseUri
<1>8. ParseText(Tail(whole)) =
        [ok |-> TRUE, host |-> <<host>>, port |-> PortIn(port),
         user |-> UserIn(login, m), password |-> PasswordIn(login, m),
         path |-> PathIn(path)]
  BY <1>6, <1>7, TextRead, Zenon
<1>9. login = <<>> <=> m = 0
  BY <1>2, <1>3
<1>10. Meant(u) =
        [ok |-> TRUE, host |-> <<host>>, port |-> PortIn(port),
         user |-> UserIn(login, m), password |-> PasswordIn(login, m),
         path |-> PathIn(path)]
  BY <1>1, <1>3, <1>9, Zenon DEF Meant, UserIn, PasswordIn, PortIn, PathIn
<1> QED
  BY <1>4, <1>7, <1>8, <1>10, Zenon

-----------------------------------------------------------------------------
(* The inductive invariant                                                 *)

S(p) == Script(cmd[p])

\* Every function has an entry for every process.
Doms ==
  /\ DOMAIN cmd = Procs /\ DOMAIN uri = Procs /\ DOMAIN args = Procs
  /\ DOMAIN stage = Procs /\ DOMAIN at = Procs /\ DOMAIN to = Procs
  /\ DOMAIN got = Procs /\ DOMAIN exit = Procs /\ DOMAIN local = Procs
  /\ DOMAIN job = Procs /\ DOMAIN session = Procs /\ DOMAIN armed = Procs
  /\ DOMAIN executed = Procs /\ DOMAIN received = Procs /\ DOMAIN sent = Procs

LeftNothing(p) == job[p] = "none" /\ ~session[p] /\ ~armed[p]

\* A process has asked for nothing before its first call.
Fresh(p) == at[p] = 1 /\ executed[p] = {} /\ LeftNothing(p)

\* It is busy with one command, on the server and the path it was given.
Busy(p) ==
  /\ to[p] = Meant(uri[p])
  /\ S(p) # <<>> \/ cmd[p] = "unknown"

\* Between two calls: those before have been executed, and only two commands
\* have something on the server that their last call takes away.
Underway(p) ==
  /\ at[p] \in 1 .. Len(S(p))
  /\ \A i \in 1 .. at[p] - 1 : S(p)[i] \in executed[p]
  /\ job[p] = "none" \/ cmd[p] = "security_analyzer"
  /\ (~session[p] /\ ~armed[p]) \/ cmd[p] = "test_debugger"
  /\ cmd[p] = "put" /\ SourceWasThere(p) => got[p] = local[p]

\* Behind the last call.
Done(p) ==
  /\ ToSet(S(p)) \subseteq executed[p]
  /\ cmd[p] = "get" => got[p] \in {sent[p], "null"}
  /\ cmd[p] = "put" /\ SourceWasThere(p) => received[p] = local[p]
  /\ LeftNothing(p)

Success(p) ==
  /\ to[p] = Meant(uri[p])
  /\ DidNothing(p) \/ ToSet(S(p)) \subseteq executed[p]
  /\ cmd[p] = "get" => local[p] = Downloaded(p)
  /\ cmd[p] = "put" /\ SourceWasThere(p) => received[p] = local[p]
  /\ LeftNothing(p)

ProcInv(p) ==
  /\ stage[p] \in {"begin", "command", "call", "sleep", "output", "exit"}
  /\ stage[p] # "exit" => exit[p] = "none"
  /\ stage[p] \in {"command", "call", "sleep", "output"} => Busy(p)
  /\ stage[p] \in {"begin", "command"} => Fresh(p)
  /\ stage[p] \in {"call", "sleep"} => Underway(p)
  /\ stage[p] = "output" => Done(p)
  /\ exit[p] = "success" => Success(p)

CliInv == Doms /\ \A p \in Procs : ProcInv(p)
-----------------------------------------------------------------------------
(* The scripts                                                             *)

LEMMA ScriptCalls ==
  ASSUME NEW c
  PROVE  /\ \A i \in 1 .. Len(Script(c)) :
              /\ Script(c)[i] = "scan" => c = "security_analyzer"
              /\ Script(c)[i] \in {"start", "set_breakpoint"} => c = "test_debugger"
         /\ c = "security_analyzer" => Len(Script(c)) = 4 /\ Script(c)[4] = "clean"
         /\ c = "test_debugger" => Len(Script(c)) = 14 /\ Script(c)[14] = "stop"
         /\ c = "put" => Len(Script(c)) = 1 /\ Script(c)[1] = "file_write"
         /\ c = "get" => Len(Script(c)) = 1 /\ Script(c)[1] = "file_read"
         /\ Len(Script(c)) \in Nat /\ (Script(c) # <<>> => Len(Script(c)) > 0)
         /\ DOMAIN Script(c) = 1 .. Len(Script(c))
<1>1. CASE c \in {"cat", "get"}
  <2>1. Script(c) = <<"file_read">>
    BY <1>1 DEF Script, OneCall, Sql, Steps, AdminApi
  <2> QED BY <1>1, <2>1
<1>2. CASE c = "put"
  <2>1. Script(c) = <<"file_write">>
    BY <1>2 DEF Script, OneCall, Sql, Steps, AdminApi
  <2> QED BY <1>2, <2>1
<1>3. CASE c = "test_debugger"
  <2>1. Script(c) = DebuggerScript
    BY <1>3 DEF Script, OneCall, Sql, Steps, AdminApi
  <2> QED BY <1>3, <2>1, SMTT(30) DEF DebuggerScript
<1>4. CASE c = "security_analyzer"
  <2>1. Script(c) = <<"scan", "status", "result", "clean">>
    BY <1>4 DEF Script, OneCall, Sql, Steps, AdminApi
  <2> QED BY <1>4, <2>1
<1>5. CASE c \in OneCall
  <2>1. Script(c) = <<c>>
    BY <1>5 DEF Script, OneCall, Sql, Steps, AdminApi
  <2>2. c \notin {"scan", "start", "set_breakpoint", "security_analyzer",
                  "test_debugger", "put", "get"}
    BY <1>5 DEF OneCall, Sql, Steps, AdminApi
  <2> QED BY <2>1, <2>2
<1>6. CASE c \notin OneCall \cup {"cat", "get", "put", "test_debugger", "security_analyzer"}
  <2>1. Script(c) = <<>>
    BY <1>6 DEF Script
  <2> QED BY <1>6, <2>1
<1> QED BY <1>1, <1>2, <1>3, <1>4, <1>5, <1>6

\* What a call changes on the server.
LEMMA EffectIs ==
  ASSUME Doms, NEW p \in Procs, NEW c, Effect(p, c)
  PROVE  /\ DOMAIN job' = Procs /\ DOMAIN session' = Procs /\ DOMAIN armed' = Procs
         /\ DOMAIN received' = Procs
         /\ \A q \in Procs \ {p} : /\ job'[q] = job[q] /\ session'[q] = session[q]
                                   /\ armed'[q] = armed[q] /\ received'[q] = received[q]
         /\ job'[p] = job[p] \/ c = "scan" \/ (c = "clean" /\ job'[p] = "none")
         /\ c = "clean" => job'[p] = "none"
         /\ c # "start" => (session'[p] => session[p])
         /\ c # "set_breakpoint" => (armed'[p] => armed[p])
         /\ c = "stop" => ~session'[p] /\ ~armed'[p]
         /\ c = "file_write" => received'[p] = got[p]
<1>1. CASE c = "file_write"
  BY <1>1 DEF Effect, Doms
<1>2. CASE c \in {"mv", "rm", "rmdir", "mkdir"}
  BY <1>2 DEF Effect, Doms
<1>3. CASE c \in {"scan", "clean"}
  BY <1>3 DEF Effect, Doms
<1>4. CASE c \in {"start", "stop"}
  BY <1>4 DEF Effect, Doms
<1>5. CASE c \in {"set_breakpoint", "clear_breakpoint", "clear_all_breakpoints"}
  BY <1>5 DEF Effect, Doms
<1>6. CASE c \notin {"file_write", "mv", "rm", "rmdir", "mkdir", "scan", "clean", "start",
                  "stop", "set_breakpoint", "clear_breakpoint", "clear_all_breakpoints"}
  BY <1>6 DEF Effect, Doms
<1> QED BY <1>1, <1>2, <1>3, <1>4, <1>5, <1>6

-----------------------------------------------------------------------------
(* The steps                                                               *)

\* A step of one process, or of the server for it, is none of another's.
Others(p) ==
  \A q \in Procs \ {p} :
    /\ cmd'[q] = cmd[q] /\ uri'[q] = uri[q] /\ stage'[q] = stage[q] /\ at'[q] = at[q]
    /\ to'[q] = to[q] /\ got'[q] = got[q] /\ exit'[q] = exit[q] /\ local'[q] = local[q]
    /\ job'[q] = job[q] /\ session'[q] = session[q] /\ armed'[q] = armed[q]
    /\ executed'[q] = executed[q] /\ received'[q] = received[q] /\ sent'[q] = sent[q]

LEMMA OthersKeep ==
  ASSUME NEW p \in Procs, NEW q \in Procs \ {p}, ProcInv(q), Others(p)
  PROVE  ProcInv(q)'
BY DEF Others, ProcInv, Busy, Fresh, Underway, Done, Success, LeftNothing, S,
       DidNothing, SourceWasThere, Silent, Downloaded

\* One process at a time.
StepsOf(p) == Doms' /\ Others(p) /\ ProcInv(p)'

LEMMA BeginStep ==
  ASSUME Doms, NEW p \in Procs, ProcInv(p), NEW i \in Invocations, Begin(p, i)
  PROVE  StepsOf(p)
<1>1. Parsed[i.uri] = ParseUri(Written(i.uri)) /\ Parsed[i.uri].ok
  BY Zenon DEF Begin, Parsed, Uris
<1>2. WellMeant(i.uri)
  BY UrisAssumption, Zenon
<1>3. Parsed[i.uri] = Meant(i.uri)
  BY <1>1, <1>2, ParseWritten, Zenon
<1>4. Script(i.cmd) # <<>> \/ i.cmd = "unknown"
  BY InvocationsAssumption
<1>5. Doms' /\ Others(p)
  BY DEF Begin, Goes, Doms, Others, server
<1>6. /\ stage[p] = "begin" /\ stage'[p] = "command" /\ exit' = exit
      /\ cmd'[p] = i.cmd /\ uri'[p] = i.uri /\ to'[p] = Parsed[i.uri]
      /\ at' = at /\ executed' = executed /\ job' = job /\ session' = session
      /\ armed' = armed
  BY DEF Begin, Goes, Doms, server
<1>7. ProcInv(p)'
  BY <1>3, <1>4, <1>6 DEF ProcInv, Busy, Fresh, LeftNothing, S
<1> QED BY <1>5, <1>7 DEF StepsOf

\* A step that ends the process without success.
LEMMA Fails ==
  ASSUME Doms, NEW p \in Procs, NEW code \in {"failure", "crashed"}, Exits(p, code)
  PROVE  ProcInv(p)' /\ DOMAIN stage' = Procs /\ DOMAIN exit' = Procs
         /\ \A q \in Procs \ {p} : stage'[q] = stage[q] /\ exit'[q] = exit[q]
BY DEF Exits, ProcInv, Doms

LEMMA BeginFailsStep ==
  ASSUME Doms, NEW p \in Procs, ProcInv(p), BeginFails(p)
  PROVE  StepsOf(p)
<1>1. Exits(p, "failure")
  BY DEF BeginFails
<1>2. Doms' /\ Others(p)
  BY <1>1, Fails DEF BeginFails, Doms, Others, inputs, server
<1> QED BY <1>1, <1>2, Fails DEF StepsOf

LEMMA CommandStep ==
  ASSUME Doms, NEW p \in Procs, ProcInv(p), Command(p)
  PROVE  StepsOf(p)
<1>1. UNCHANGED <<inputs, at, to, got, local, server>> /\ stage[p] = "command"
  BY DEF Command
<1>2. Busy(p) /\ Fresh(p)
  BY <1>1 DEF ProcInv
<1>3. Doms' /\ Others(p)
  BY DEF Command, Exits, Goes, Doms, Others, inputs, server
<1>4. CASE Exits(p, "failure")
  BY <1>3, <1>4, Fails DEF StepsOf
<1>5. CASE Exits(p, "success") /\ Silent(cmd[p])
  <2>1. stage'[p] = "exit" /\ exit'[p] = "success"
    BY <1>5 DEF Exits, Doms
  <2>2. Success(p)
    BY <1>2, <1>5 DEF Busy, Fresh, Success, DidNothing, Silent
  <2>3. Success(p)'
    BY <1>1, <2>2 DEF Success, DidNothing, Silent, LeftNothing, S, SourceWasThere,
                      Downloaded, inputs, server
  <2> QED BY <1>3, <2>1, <2>3 DEF StepsOf, ProcInv
<1>6. CASE Goes(p, "call") /\ cmd[p] # "unknown" /\ cmd[p] # "put"
  <2>1. stage'[p] = "call" /\ exit'[p] = "none"
    BY <1>1, <1>6 DEF Goes, Doms, ProcInv
  <2>2. Underway(p)
    BY <1>2, <1>6, ScriptCalls DEF Busy, Fresh, Underway, LeftNothing, S
  <2>3. (Busy(p) /\ Underway(p))'
    BY <1>1, <1>2, <2>2 DEF Busy, Underway, S, SourceWasThere, inputs, server
  <2> QED BY <1>3, <2>1, <2>3 DEF StepsOf, ProcInv
<1> QED BY <1>4, <1>5, <1>6 DEF Command

LEMMA MapFileStep ==
  ASSUME Doms, NEW p \in Procs, ProcInv(p), MapFile(p)
  PROVE  StepsOf(p)
<1>1. UNCHANGED <<inputs, at, to, local, server>> /\ stage[p] = "command" /\ cmd[p] = "put"
  BY DEF MapFile
<1>2. Busy(p) /\ Fresh(p)
  BY <1>1 DEF ProcInv
<1>3. Doms' /\ Others(p)
  BY DEF MapFile, Exits, Goes, Doms, Others, inputs, server
<1>4. CASE Exits(p, "failure")
  BY <1>3, <1>4, Fails DEF StepsOf
<1>5. CASE /\ Goes(p, "call")
           /\ got' = [got EXCEPT ![p] =
                        IF local[p] \in {"absent", "locked"} THEN "empty" ELSE local[p]]
  <2>1. stage'[p] = "call" /\ exit'[p] = "none"
    BY <1>1, <1>5 DEF Goes, Doms, ProcInv
  <2>2. SourceWasThere(p) => got'[p] = local[p]
    BY <1>5 DEF SourceWasThere, Doms
  <2>3. Len(S(p)) = 1
    BY <1>1, ScriptCalls DEF S
  <2>4. (Busy(p) /\ Underway(p))'
    BY <1>1, <1>2, <2>2, <2>3 DEF Busy, Fresh, Underway, LeftNothing, S, SourceWasThere,
                                  inputs, server
  <2> QED BY <1>3, <2>1, <2>4 DEF StepsOf, ProcInv
<1> QED BY <1>4, <1>5 DEF MapFile

\* What a call that is executed leaves behind.
LEMMA ExecutesIs ==
  ASSUME Doms, NEW p \in Procs, Underway(p), Executes(p)
  PROVE  /\ DOMAIN job' = Procs /\ DOMAIN session' = Procs /\ DOMAIN armed' = Procs
         /\ DOMAIN received' = Procs /\ DOMAIN executed' = Procs /\ DOMAIN sent' = Procs
         /\ \A q \in Procs \ {p} :
              /\ job'[q] = job[q] /\ session'[q] = session[q] /\ armed'[q] = armed[q]
              /\ received'[q] = received[q] /\ executed'[q] = executed[q]
              /\ sent'[q] = sent[q]
         /\ \A i \in 1 .. at[p] : S(p)[i] \in executed'[p]
         /\ job'[p] = "none" \/ cmd[p] = "security_analyzer"
         /\ (~session'[p] /\ ~armed'[p]) \/ cmd[p] = "test_debugger"
         /\ at[p] = Len(S(p)) => LeftNothing(p)'
         /\ cmd[p] = "put" /\ SourceWasThere(p) => received'[p] = local[p]
         /\ Call(p) = "file_read" => sent'[p] = file[Path(p)]
<1>1. /\ Effect(p, Call(p)) /\ executed' = [executed EXCEPT ![p] = @ \cup {Call(p)}]
      /\ sent' = [sent EXCEPT ![p] = IF Call(p) = "file_read" THEN file[Path(p)] ELSE @]
  BY DEF Executes
<1>2. Call(p) = S(p)[at[p]] /\ at[p] \in 1 .. Len(S(p))
  BY DEF Call, S, Underway
<1>3. DOMAIN executed' = Procs /\ executed'[p] = executed[p] \cup {Call(p)}
      /\ \A q \in Procs \ {p} : executed'[q] = executed[q]
  BY <1>1 DEF Doms
<1>4. \A i \in 1 .. at[p] : S(p)[i] \in executed'[p]
  BY <1>2, <1>3 DEF Underway
<1>5. /\ Call(p) = "scan" => cmd[p] = "security_analyzer"
      /\ Call(p) \in {"start", "set_breakpoint"} => cmd[p] = "test_debugger"
  BY <1>2, ScriptCalls DEF S
<1>6. /\ DOMAIN job' = Procs /\ DOMAIN session' = Procs /\ DOMAIN armed' = Procs
      /\ DOMAIN received' = Procs
      /\ \A q \in Procs \ {p} : /\ job'[q] = job[q] /\ session'[q] = session[q]
                                /\ armed'[q] = armed[q] /\ received'[q] = received[q]
  BY <1>1, EffectIs
<1>7. /\ job'[p] = "none" \/ cmd[p] = "security_analyzer"
      /\ (~session'[p] /\ ~armed'[p]) \/ cmd[p] = "test_debugger"
  BY <1>1, <1>5, EffectIs DEF Underway
<1>8. ASSUME at[p] = Len(S(p)) PROVE LeftNothing(p)'
  <2>1. CASE cmd[p] = "security_analyzer"
    <3>1. Call(p) = "clean"
      BY <1>2, <1>8, <2>1, ScriptCalls DEF S
    <3>2. job'[p] = "none"
      BY <1>1, <3>1, EffectIs
    <3> QED BY <1>7, <2>1, <3>2 DEF LeftNothing
  <2>2. CASE cmd[p] = "test_debugger"
    <3>1. Call(p) = "stop"
      BY <1>2, <1>8, <2>2, ScriptCalls DEF S
    <3>2. ~session'[p] /\ ~armed'[p]
      BY <1>1, <3>1, EffectIs
    <3> QED BY <1>7, <2>2, <3>2 DEF LeftNothing
  <2> QED BY <1>7, <2>1, <2>2 DEF LeftNothing
<1>9. ASSUME cmd[p] = "put", SourceWasThere(p) PROVE received'[p] = local[p]
  <2>1. Call(p) = "file_write"
    BY <1>2, <1>9, ScriptCalls DEF S
  <2>2. received'[p] = got[p]
    BY <1>1, <2>1, EffectIs
  <2> QED BY <1>9, <2>2 DEF Underway
<1>10. /\ DOMAIN sent' = Procs /\ \A q \in Procs \ {p} : sent'[q] = sent[q]
       /\ Call(p) = "file_read" => sent'[p] = file[Path(p)]
  BY <1>1 DEF Doms
<1> QED BY <1>3, <1>4, <1>6, <1>7, <1>8, <1>9, <1>10

\* What get has after its call is what the server sent, or nothing it can read.
LEMMA AnswerIs ==
  ASSUME Doms, NEW p \in Procs, Underway(p), Executes(p), cmd[p] = "get",
         NEW value \in Outputs(p, Call(p))
  PROVE  value \in {sent'[p], "null"}
<1>1. Call(p) = "file_read"
  BY ScriptCalls DEF Call, S, Underway
<1>2. value \in {file[Path(p)], "null"}
  BY <1>1 DEF Outputs
<1>3. sent'[p] = file[Path(p)]
  BY <1>1, ExecutesIs
<1> QED BY <1>2, <1>3

LEMMA CallReturnsStep ==
  ASSUME Doms, NEW p \in Procs, ProcInv(p), CallReturns(p)
  PROVE  StepsOf(p)
<1>1. /\ stage[p] = "call" /\ Executes(p) /\ UNCHANGED <<inputs, to, local>>
      /\ exit[p] = "none" /\ Busy(p) /\ Underway(p)
  BY DEF CallReturns, ProcInv
<1>2. PICK value \in Outputs(p, Call(p)) :
        got' = [got EXCEPT ![p] = value] /\ Answered(p, value)
  BY DEF CallReturns
<1>3. \/ Goes(p, "sleep") /\ UNCHANGED at /\ Call(p) = "status"
      \/ Exits(p, "crashed") /\ UNCHANGED at
      \/ Exits(p, "failure") /\ UNCHANGED at
      \/ Proceeds(p)
  BY <1>2 DEF Answered
<1>4. cmd' = cmd /\ uri' = uri /\ args' = args /\ to' = to /\ local' = local
  BY <1>1 DEF inputs
<1>5. DOMAIN got' = Procs /\ \A q \in Procs \ {p} : got'[q] = got[q]
  BY <1>2 DEF Doms
<1>6. /\ DOMAIN at' = Procs /\ DOMAIN stage' = Procs /\ DOMAIN exit' = Procs
      /\ \A q \in Procs \ {p} : at'[q] = at[q] /\ stage'[q] = stage[q] /\ exit'[q] = exit[q]
  BY <1>3 DEF Goes, Exits, Proceeds, Doms
<1>7. Doms'
  BY <1>1, <1>4, <1>5, <1>6, ExecutesIs DEF Doms
<1>8. Others(p)
  BY <1>1, <1>4, <1>5, <1>6, ExecutesIs DEF Others
<1>9. Busy(p)'
  BY <1>1, <1>4 DEF Busy, S
<1>10. cmd[p] = "put" => Len(S(p)) = 1
  BY ScriptCalls DEF S
<1>11. CASE Goes(p, "sleep") /\ UNCHANGED at /\ Call(p) = "status"
  <2>1. stage'[p] = "sleep" /\ exit'[p] = "none" /\ at'[p] = at[p]
    BY <1>1, <1>11 DEF Goes, Doms
  <2>2. cmd[p] # "put"
    BY <1>1, <1>10, <1>11, ScriptCalls DEF Call, S, Underway
  <2>3. Underway(p)'
    BY <1>1, <1>4, <2>1, <2>2, ExecutesIs DEF Underway, S
  <2> QED BY <1>7, <1>8, <1>9, <2>1, <2>3 DEF StepsOf, ProcInv
<1>12. CASE \E code \in {"crashed", "failure"} : Exits(p, code)
  BY <1>7, <1>8, <1>12, Fails DEF StepsOf
<1>13. CASE Proceeds(p) /\ at[p] < Len(S(p))
  <2>1. stage'[p] = "call" /\ exit'[p] = "none" /\ at'[p] = at[p] + 1
    BY <1>1, <1>13 DEF Goes, Doms, Proceeds, S
  <2>2. cmd[p] # "put"
    BY <1>1, <1>10, <1>13, ScriptCalls DEF Underway, S
  <2>3. Underway(p)'
    BY <1>1, <1>4, <1>13, <2>1, <2>2, ExecutesIs DEF Underway, S
  <2> QED BY <1>7, <1>8, <1>9, <2>1, <2>3 DEF StepsOf, ProcInv
<1>14. CASE Proceeds(p) /\ ~(at[p] < Len(S(p)))
  <2>1. stage'[p] = "output" /\ exit'[p] = "none"
    BY <1>1, <1>14 DEF Goes, Doms, Proceeds, S
  <2>2. at[p] = Len(S(p))
    BY <1>1, <1>14 DEF Underway
  <2>3. ToSet(S(p)) \subseteq executed'[p]
    <3>1. \A i \in 1 .. Len(S(p)) : S(p)[i] \in executed'[p]
      BY <1>1, <2>2, ExecutesIs
    <3>2. DOMAIN S(p) = 1 .. Len(S(p))
      BY ScriptCalls DEF S
    <3> QED BY <3>1, <3>2 DEF ToSet
  <2>4. cmd[p] = "get" => got'[p] \in {sent'[p], "null"}
    <3>1. got'[p] = value
      BY <1>2 DEF Doms
    <3> QED BY <1>1, <3>1, AnswerIs
  <2>5. Done(p)'
    BY <1>1, <1>4, <2>2, <2>3, <2>4, ExecutesIs DEF Done, S, SourceWasThere
  <2> QED BY <1>7, <1>8, <1>9, <2>1, <2>5 DEF StepsOf, ProcInv
<1> QED BY <1>3, <1>11, <1>12, <1>13, <1>14

LEMMA SleepStep ==
  ASSUME Doms, NEW p \in Procs, ProcInv(p), Sleep(p)
  PROVE  StepsOf(p)
<1>1. Doms' /\ Others(p)
  BY DEF Sleep, Goes, Doms, Others, inputs, server
<1>2. stage'[p] = "call" /\ exit'[p] = "none" /\ Busy(p) /\ Underway(p)
  BY DEF Sleep, Goes, Doms, ProcInv
<1>3. (Busy(p) /\ Underway(p))'
  BY <1>2 DEF Sleep, Busy, Underway, S, SourceWasThere, inputs, server
<1> QED BY <1>1, <1>2, <1>3 DEF StepsOf, ProcInv

LEMMA CallFailsStep ==
  ASSUME Doms, NEW p \in Procs, ProcInv(p), CallFails(p)
  PROVE  StepsOf(p)
<1>1. /\ Exits(p, "failure") /\ UNCHANGED <<inputs, at, to, got, local>>
      /\ UNCHANGED server \/ (Executes(p) /\ Underway(p))
  BY DEF CallFails, ProcInv
<1>2. cmd' = cmd /\ uri' = uri /\ args' = args /\ at' = at /\ to' = to /\ got' = got
      /\ local' = local
  BY <1>1 DEF inputs
<1>3. Doms'
  BY <1>1, <1>2, Fails, ExecutesIs DEF Doms, server
<1>4. Others(p)
  BY <1>1, <1>2, Fails, ExecutesIs DEF Others, server
<1> QED BY <1>1, <1>3, <1>4, Fails DEF StepsOf

\* What a command does with what it got.
LEMMA OutputStep ==
  ASSUME Doms, NEW p \in Procs, ProcInv(p), Download(p) \/ SaveGraph(p) \/ ShowResult(p)
  PROVE  StepsOf(p)
<1>1. stage[p] = "output" /\ Busy(p) /\ Done(p)
  BY DEF Download, SaveGraph, ShowResult, ProcInv
<1>2. UNCHANGED <<inputs, at, to, got, server>>
  BY DEF Download, SaveGraph, ShowResult
<1>3. DOMAIN local' = Procs /\ \A q \in Procs \ {p} : local'[q] = local[q]
  BY DEF Download, SaveGraph, ShowResult, Doms
<1>4. Exits(p, "failure") \/ Exits(p, "success")
  BY DEF Download, SaveGraph, ShowResult
<1>5. Doms' /\ Others(p)
  BY <1>2, <1>3, <1>4 DEF Exits, Doms, Others, inputs, server
<1>6. CASE Exits(p, "failure")
  BY <1>5, <1>6, Fails DEF StepsOf
<1>7. CASE Exits(p, "success")
  <2>1. stage'[p] = "exit" /\ exit'[p] = "success"
    BY <1>7 DEF Exits, Doms
  <2>2. cmd[p] = "get" => local'[p] = Content(p)
    BY <1>7, <2>1 DEF Download, SaveGraph, ShowResult, Exits, Doms
  <2>5. cmd[p] = "get" => local'[p] = Downloaded(p)
    BY <1>1, <2>2 DEF Done, Content, Downloaded
  <2>3. cmd[p] = "put" => local'[p] = local[p]
    BY DEF Download, SaveGraph, ShowResult
  <2>4. Success(p)'
    BY <1>1, <1>2, <2>3, <2>5 DEF Success, Busy, Done, LeftNothing, S, SourceWasThere,
                                  DidNothing, Downloaded, inputs, server
  <2> QED BY <1>5, <2>1, <2>4 DEF StepsOf, ProcInv
<1> QED BY <1>4, <1>6, <1>7

LEMMA ScanStep ==
  ASSUME Doms, NEW p \in Procs, ProcInv(p), ServerStep(p)
  PROVE  StepsOf(p)
<1>1. /\ job[p] = "scanning" /\ DOMAIN job' = Procs
      /\ \A q \in Procs \ {p} : job'[q] = job[q]
      /\ UNCHANGED <<inputs, client, local, session, armed, executed, received, sent>>
  BY DEF ServerStep, ScanFinishes, ScanStops, Doms
<1>2. Doms' /\ Others(p)
  BY <1>1 DEF Doms, Others, inputs, client
<1>3. stage[p] \in {"call", "sleep", "exit"} /\ exit[p] # "success"
  BY <1>1 DEF ProcInv, Fresh, Done, Success, LeftNothing
<1>4. Underway(p) => Underway(p)'
  BY <1>1 DEF Underway, S, SourceWasThere, inputs, client
<1>5. Busy(p) => Busy(p)'
  BY <1>1 DEF Busy, S, inputs, client
<1>6. stage' = stage /\ exit' = exit
  BY <1>1 DEF client
<1>7. ProcInv(p)'
  BY <1>3, <1>4, <1>5, <1>6 DEF ProcInv
<1> QED BY <1>2, <1>7 DEF StepsOf

LEMMA CliInit == Init => CliInv
BY DEF Init, CliInv, Doms, ProcInv, Fresh, LeftNothing

LEMMA CliNext == CliInv /\ [Next]_vars => CliInv'
<1> SUFFICES ASSUME CliInv, [Next]_vars PROVE CliInv'
  OBVIOUS
<1>1. CASE Next
  <2>1. PICK p \in Procs : Starts(p) \/ ProcessStep(p) \/ ServerStep(p)
    BY <1>1 DEF Next
  <2>2. Doms /\ ProcInv(p)
    BY DEF CliInv
  <2>3. ASSUME Starts(p) PROVE StepsOf(p)
    BY <2>2, <2>3, BeginStep, BeginFailsStep DEF Starts
  <2>4. ASSUME ProcessStep(p) PROVE StepsOf(p)
    BY <2>2, <2>4, CommandStep, MapFileStep, CallReturnsStep, SleepStep, CallFailsStep,
       OutputStep DEF ProcessStep
  <2>5. ASSUME ServerStep(p) PROVE StepsOf(p)
    BY <2>2, <2>5, ScanStep
  <2>6. StepsOf(p)
    BY <2>1, <2>3, <2>4, <2>5
  <2> QED BY <2>6, OthersKeep DEF StepsOf, CliInv
<1>2. CASE UNCHANGED vars
  BY <1>2 DEF vars, inputs, client, server, CliInv, Doms, ProcInv, Busy, Fresh, Underway,
              Done, Success, LeftNothing, S, DidNothing, SourceWasThere, Downloaded
<1> QED BY <1>1, <1>2

\* The inductive invariant holds in every state.
THEOREM CliInvariance == Spec => []CliInv
BY CliInit, CliNext, PTL DEF Spec

\* When cfrds exits with success, it reached the host, login and path the URI
\* means (main.c, init_server_from_uri), and the server executed every call of
\* the command, but for an SQL statement without a schema, which makes none;
\* get left on the disk what the server sent, or an empty file if it could not
\* read the answer; put stored the local file, if that could be opened; no
\* scan, session or breakpoint of the process is left on the server.
THEOREM SuccessIsDone == Spec => []SuccessMeansDone
<1>1. CliInv => SuccessMeansDone
  BY DEF CliInv, ProcInv, Success, SuccessMeansDone, LeftNothing, S
<1> QED BY <1>1, CliInvariance, PTL
=============================================================================
