-------------------------- MODULE TransportProofs ---------------------------
(***************************************************************************)
(* For every size of header, page and reply, every number of connections   *)
(* and of requests, and wherever TCP cuts the bytes: the variables of      *)
(* Transport keep their types, the server handles whole requests, in       *)
(* order, and a reply that no cut has touched answers the last request.    *)
(* Where TCP delivers each write whole, nothing is misread and the server  *)
(* lives.                                                                  *)
(*                                                                         *)
(* The first invariant says of each byte written by the client that its    *)
(* whole request is around it and that the next request follows, so that   *)
(* what the server reads is known from the last byte it has read before.   *)
(* ReplyOK says the same of the pipe back to the client, and UncutOK that  *)
(* without cuts both ends only stop between two messages.                  *)
(***************************************************************************)
EXTENDS Transport, TLAPS

SizeOf(kind) == IF kind = "0x51" THEN Header + Page ELSE Header

\* Byte k of b: its request, number n of m, starts after byte k - i.
Whole(b, m, k) ==
  LET kind == b[k][1]  n == b[k][2]  i == b[k][3]
  IN /\ n \in 1 .. Len(m) /\ kind = m[n]
     /\ i \in 1 .. SizeOf(kind) /\ i <= k /\ k - i + SizeOf(kind) <= Len(b)
     /\ \A j \in 1 .. SizeOf(kind) : b[k - i + j] = <<kind, n, j>>
     /\ i = SizeOf(kind) /\ k < Len(b) => b[k + 1][2] = n + 1 /\ b[k + 1][3] = 1

\* The requests m lie in b one behind the other, from the first to the last.
Written(b, m) ==
  /\ \A k \in 1 .. Len(b) : Whole(b, m, k)
  /\ b = <<>> => m = <<>>
  /\ b # <<>> => /\ b[1][2] = 1 /\ b[1][3] = 1
                 /\ b[Len(b)][2] = Len(m)
                 /\ b[Len(b)][3] = SizeOf(b[Len(b)][1])

\* The last request handled is the n-th of connection c, or there is none of c.
LastHandled(c, n) ==
  IF n = 0 THEN handled # <<>> => ConnOf(Len(handled)) < c
           ELSE /\ handled # <<>>
                /\ ConnOf(Len(handled)) = c /\ NumberOf(Len(handled)) = n

\* Where the server is in the bytes of its client.
Reading ==
  LET b == up[peer].bytes  r == up[peer].read
  IN /\ server = "header" =>
          IF r = 0 THEN LastHandled(peer, 0)
          ELSE b[r][3] = SizeOf(b[r][1]) /\ LastHandled(peer, b[r][2])
     /\ server = "payload" =>
          /\ r # 0 /\ b[r][1] = "0x51" /\ b[r][3] = Header
          /\ LastHandled(peer, b[r][2] - 1)

AllWritten == \A c \in Runs : Written(up[c].bytes, made[c])

\* Nothing is read or handled of the connections that wait.
Waiting ==
  /\ \A c \in Runs : c > peer => up[c].read = 0
  /\ handled # <<>> => ConnOf(Len(handled)) <= peer

IInv == TypeOK /\ AllWritten /\ Waiting /\ Reading /\ InOrder

-----------------------------------------------------------------------------
(* Sequences of bytes                                                      *)

LEMMA ConstantsInNat ==
  /\ Header \in Nat /\ Header >= 1
  /\ Page \in Nat /\ Page >= 1
  /\ Reply \in Nat /\ Reply >= 1
  /\ Connections \in Nat /\ Connections >= 1
  /\ \A kind : SizeOf(kind) \in Nat /\ SizeOf(kind) >= Header
BY TransportAssumption DEF TransportAssumption, SizeOf

LEMMA MessageIs ==
  ASSUME NEW kind \in {"0x51", "0x56", "reply"}, NEW n \in Nat, NEW size \in Nat
  PROVE  /\ Message(kind, n, size) \in Seq(Byte)
         /\ Len(Message(kind, n, size)) = size
         /\ \A i \in 1 .. size : Message(kind, n, size)[i] = <<kind, n, i>>
<1>1. \A i \in 1 .. size : <<kind, n, i>> \in Byte
  BY DEF Byte
<1> QED
  BY <1>1 DEF Message

LEMMA ConcatIs ==
  ASSUME NEW p \in Seq(Byte), NEW q \in Seq(Byte)
  PROVE  /\ p \o q \in Seq(Byte) /\ Len(p \o q) = Len(p) + Len(q)
         /\ \A k \in 1 .. Len(p) : (p \o q)[k] = p[k]
         /\ \A j \in 1 .. Len(q) : (p \o q)[Len(p) + j] = q[j]
OBVIOUS

LEMMA BytesEqual ==
  ASSUME NEW p \in Seq(Byte), NEW q \in Seq(Byte), Len(p) = Len(q),
         \A j \in 1 .. Len(q) : p[j] = q[j]
  PROVE  p = q
OBVIOUS

LEMMA SubSeqIs ==
  ASSUME NEW s \in Seq(Byte), NEW k \in Nat, NEW n \in Nat, k + n <= Len(s)
  PROVE  /\ SubSeq(s, k + 1, k + n) \in Seq(Byte) /\ Len(SubSeq(s, k + 1, k + n)) = n
         /\ \A j \in 1 .. n : SubSeq(s, k + 1, k + n)[j] = s[k + j]
<1>1. Len(s) \in Nat /\ \A i \in 1 .. Len(s) : s[i] \in Byte
  OBVIOUS
<1>2. \A j \in 1 .. n : k + j \in 1 .. Len(s)
  BY <1>1
<1>3. SubSeq(s, k + 1, k + n) = [j \in 1 .. n |-> s[k + j]]
  OBVIOUS
<1>4. \A j \in 1 .. n : s[k + j] \in Byte
  BY <1>1, <1>2
<1> QED
  BY <1>3, <1>4

\* A read returns the bytes that follow those read before.
LEMMA ReturnedIs ==
  ASSUME NEW p \in [bytes : Seq(Byte), arrived : Nat, read : Nat, closed : BOOLEAN],
         p.read <= p.arrived, p.arrived <= Len(p.bytes),
         NEW size \in Nat
  PROVE  /\ Returned(p, size) \in Seq(Byte)
         /\ Len(Returned(p, size)) <= size
         /\ p.read + Len(Returned(p, size)) <= p.arrived
         /\ \A j \in 1 .. Len(Returned(p, size)) : Returned(p, size)[j] = p.bytes[p.read + j]
<1> DEFINE n == IF p.arrived - p.read < size THEN p.arrived - p.read ELSE size
<1>1. n \in Nat /\ n <= size /\ p.read + n <= p.arrived
  OBVIOUS
<1>2. p.bytes \in Seq(Byte) /\ p.read + 1 \in Nat /\ p.read + n \in Nat /\ p.read + n <= Len(p.bytes)
  BY <1>1
<1> HIDE DEF n
<1>3. /\ SubSeq(p.bytes, p.read + 1, p.read + n) \in Seq(Byte)
      /\ Len(SubSeq(p.bytes, p.read + 1, p.read + n)) = n
      /\ \A j \in 1 .. n : SubSeq(p.bytes, p.read + 1, p.read + n)[j] = p.bytes[p.read + j]
  <2>1. p.bytes \in Seq(Byte) /\ p.read \in Nat /\ n \in Nat /\ p.read + n <= Len(p.bytes)
    BY <1>1, <1>2
  <2> QED
    BY <2>1, SubSeqIs
<1>4. Returned(p, size) = SubSeq(p.bytes, p.read + 1, p.read + n)
  BY DEF Returned, n
<1> QED
  BY <1>1, <1>3, <1>4

LEMMA AfterIs ==
  ASSUME NEW p \in [bytes : Seq(Byte), arrived : Nat, read : Nat, closed : BOOLEAN],
         NEW bytes \in Seq(Byte)
  PROVE  /\ After(p, bytes) \in [bytes : Seq(Byte), arrived : Nat, read : Nat, closed : BOOLEAN]
         /\ After(p, bytes).bytes = p.bytes /\ After(p, bytes).arrived = p.arrived
         /\ After(p, bytes).closed = p.closed
         /\ After(p, bytes).read = p.read + Len(bytes)
BY DEF After

LEMMA WriteIs ==
  ASSUME NEW p \in [bytes : Seq(Byte), arrived : Nat, read : Nat, closed : BOOLEAN],
         NEW bytes \in Seq(Byte)
  PROVE  /\ Write(p, bytes) \in [bytes : Seq(Byte), arrived : Nat, read : Nat, closed : BOOLEAN]
         /\ Write(p, bytes).bytes = p.bytes \o bytes /\ Write(p, bytes).arrived = p.arrived
         /\ Write(p, bytes).closed = p.closed
         /\ Write(p, bytes).read = p.read
         /\ Len(Write(p, bytes).bytes) = Len(p.bytes) + Len(bytes)
         /\ \A k \in 1 .. Len(p.bytes) : Write(p, bytes).bytes[k] = p.bytes[k]
         /\ \A j \in 1 .. Len(bytes) : Write(p, bytes).bytes[Len(p.bytes) + j] = bytes[j]
<1> DEFINE q == p.bytes \o bytes
<1>1. p.bytes \in Seq(Byte)
  OBVIOUS
<1>2. /\ q \in Seq(Byte) /\ Len(q) = Len(p.bytes) + Len(bytes)
      /\ \A k \in 1 .. Len(p.bytes) : q[k] = p.bytes[k]
      /\ \A j \in 1 .. Len(bytes) : q[Len(p.bytes) + j] = bytes[j]
  BY <1>1, ConcatIs
<1>3. Write(p, bytes) = [p EXCEPT !.bytes = q]
  BY DEF Write
<1> HIDE DEF q
<1>4. /\ Write(p, bytes) \in [bytes : Seq(Byte), arrived : Nat, read : Nat, closed : BOOLEAN]
      /\ Write(p, bytes).bytes = q /\ Write(p, bytes).arrived = p.arrived
      /\ Write(p, bytes).closed = p.closed /\ Write(p, bytes).read = p.read
  BY <1>2, <1>3
<1> QED
  BY <1>2, <1>4 DEF q

\* One more request, after those of m, leaves the requests one behind the other.
LEMMA WrittenMore ==
  ASSUME NEW b \in Seq(Byte), NEW m \in Seq({"0x51", "0x56"}), Written(b, m),
         NEW kind \in {"0x51", "0x56"}
  PROVE  Written(b \o Message(kind, Len(m) + 1, SizeOf(kind)), Append(m, kind))
<1> DEFINE n == Len(m) + 1
           size == SizeOf(kind)
           new == Message(kind, n, size)
           b2 == b \o new
           m2 == Append(m, kind)
<1>0. Len(b) \in Nat /\ Len(m) \in Nat /\ kind \in {"0x51", "0x56", "reply"}
  OBVIOUS
<1>1. n \in Nat /\ size \in Nat /\ size >= 1
  BY <1>0, ConstantsInNat
<1>4. /\ m2 \in Seq({"0x51", "0x56"}) /\ Len(m2) = n /\ m2[n] = kind
      /\ \A x \in 1 .. Len(m) : m2[x] = m[x]
  OBVIOUS
<1>5. Len(b) \in Nat /\ Len(m) \in Nat /\ n = Len(m) + 1
  BY <1>0
<1> HIDE DEF n, size
<1>2. /\ new \in Seq(Byte) /\ Len(new) = size
      /\ \A j \in 1 .. size : new[j] = <<kind, n, j>>
  BY <1>0, <1>1, MessageIs
<1> HIDE DEF new
<1>3. /\ b2 \in Seq(Byte) /\ Len(b2) = Len(b) + size
      /\ \A k \in 1 .. Len(b) : b2[k] = b[k]
      /\ \A j \in 1 .. size : b2[Len(b) + j] = <<kind, n, j>>
  <2>1. /\ b2 \in Seq(Byte) /\ Len(b2) = Len(b) + Len(new)
        /\ \A k \in 1 .. Len(b) : b2[k] = b[k]
        /\ \A j \in 1 .. Len(new) : b2[Len(b) + j] = new[j]
    BY <1>2, ConcatIs
  <2> HIDE DEF b2
  <2> QED
    BY <1>2, <2>1
<1> HIDE DEF b2, m2
<1>6. ASSUME NEW k \in 1 .. Len(b2) PROVE Whole(b2, m2, k)
  <2>1. CASE k <= Len(b)
    <3> DEFINE K == b[k][1]  x == b[k][2]  i == b[k][3]
    <3>0. Whole(b, m, k)
      BY <1>3, <1>1, <1>5, <2>1 DEF Written
    <3>1. /\ x \in 1 .. Len(m) /\ K = m[x]
          /\ i \in 1 .. SizeOf(K) /\ i <= k /\ k - i + SizeOf(K) <= Len(b)
          /\ \A j \in 1 .. SizeOf(K) : b[k - i + j] = <<K, x, j>>
          /\ i = SizeOf(K) /\ k < Len(b) => b[k + 1][2] = x + 1 /\ b[k + 1][3] = 1
      BY <3>0 DEF Whole
    <3>2. b2[k] = b[k]
      BY <1>3, <2>1
    <3>3. SizeOf(K) \in Nat /\ SizeOf(K) >= 1
      BY ConstantsInNat
    <3> HIDE DEF K, x, i
    <3>4. x \in 1 .. Len(m2) /\ K = m2[x] /\ k - i + SizeOf(K) <= Len(b2)
      BY <1>1, <1>3, <1>4, <1>5, <3>1, <3>3
    <3>5. ASSUME NEW j \in 1 .. SizeOf(K) PROVE b2[k - i + j] = <<K, x, j>>
      <4>0. k \in Nat /\ i \in Nat /\ j \in Nat /\ j >= 1 /\ j <= SizeOf(K) /\ i <= k
        BY <3>1, <3>3
      <4>1. k - i + j \in 1 .. Len(b)
        BY <4>0, <1>5, <3>1, <3>3, SMTT(30)
      <4> QED
        BY <4>1, <1>3, <3>1
    <3>6. ASSUME i = SizeOf(K), k < Len(b2) PROVE b2[k + 1][2] = x + 1 /\ b2[k + 1][3] = 1
      <4>1. CASE k < Len(b)
        <5>1. b[k + 1][2] = x + 1 /\ b[k + 1][3] = 1
          BY <4>1, <3>1, <3>6
        <5>2. k \in Nat /\ k + 1 \in 1 .. Len(b)
          BY <4>1, <1>5
        <5>3. b2[k + 1] = b[k + 1]
          BY <5>2, <1>3
        <5> QED
          BY <5>1, <5>3
      <4>2. CASE k = Len(b)
        <5>1. b # <<>>
          BY <4>2
        <5>2. x = Len(m)
          BY <4>2, <5>1 DEF Written, x
        <5>3. b2[k + 1] = <<kind, n, 1>>
          BY <4>2, <1>1, <1>3
        <5> QED
          BY <5>2, <5>3, <1>5
      <4> QED
        BY <4>1, <4>2, <2>1, <1>5
    <3> QED
      BY <3>1, <3>2, <3>4, <3>5, <3>6 DEF Whole, K, x, i
  <2>2. CASE k > Len(b)
    <3> DEFINE i == k - Len(b)
    <3>1. i \in 1 .. size /\ k = Len(b) + i
      BY <2>2, <1>1, <1>3, <1>5
    <3>2. b2[k] = <<kind, n, i>>
      BY <1>3, <3>1
    <3>3. k - i = Len(b)
      BY <1>5, <3>1
    <3>4. i <= k /\ Len(b) + size <= Len(b2) /\ ~(i = size /\ k < Len(b2))
      BY <1>1, <1>3, <1>5, <3>1
    <3>5. n \in 1 .. Len(m2) /\ kind = m2[n]
      BY <1>4, <1>5
    <3> HIDE DEF i
    <3>6. b2[k][1] = kind /\ b2[k][2] = n /\ b2[k][3] = i
      BY <3>2
    <3>7. SizeOf(b2[k][1]) = size
      BY <3>6 DEF size
    <3> QED
      BY <1>3, <3>1, <3>3, <3>4, <3>5, <3>6, <3>7 DEF Whole
  <2> QED
    BY <2>1, <2>2, <1>3, <1>5
<1>7. b2 # <<>>
  BY <1>1, <1>3, <1>5
<1>8. b2[1][2] = 1 /\ b2[1][3] = 1
  <2>1. CASE b = <<>>
    <3>1. m = <<>>
      BY <2>1 DEF Written
    <3>2. b2[1] = <<kind, n, 1>> /\ n = 1
      BY <2>1, <3>1, <1>1, <1>3, <1>5
    <3> QED
      BY <3>2
  <2>2. CASE b # <<>>
    <3>1. b[1][2] = 1 /\ b[1][3] = 1
      BY <2>2 DEF Written
    <3>2. b2[1] = b[1]
      BY <2>2, <1>3, <1>5
    <3> QED
      BY <3>1, <3>2
  <2> QED
    BY <2>1, <2>2
<1>9. b2[Len(b2)] = <<kind, n, size>>
  <2>1. size \in 1 .. size
    BY <1>1
  <2> QED
    BY <2>1, <1>3
<1>10. b2[Len(b2)][2] = Len(m2) /\ b2[Len(b2)][3] = SizeOf(b2[Len(b2)][1])
  BY <1>4, <1>9 DEF size
<1>11. Written(b2, m2)
  BY <1>6, <1>7, <1>8, <1>10 DEF Written
<1> QED
  BY <1>11 DEF b2, m2, new, n, size

\* Request n begins after byte r.
BeginsAfter(b, r, n) ==
  IF r = 0 THEN n = 1 ELSE b[r][3] = SizeOf(b[r][1]) /\ n = b[r][2] + 1

\* What a read returns where a request begins: a header, or a part of one.
LEMMA HeaderIs ==
  ASSUME NEW b \in Seq(Byte), NEW m \in Seq({"0x51", "0x56"}), Written(b, m),
         NEW r \in 0 .. Len(b), NEW n \in Nat, BeginsAfter(b, r, n),
         NEW bytes \in Seq(Byte), Len(bytes) = Header, r + Header <= Len(b),
         \A j \in 1 .. Header : bytes[j] = b[r + j]
  PROVE  /\ n \in 1 .. Len(m)
         /\ \A j \in 1 .. Header : bytes[j] = <<m[n], n, j>>
         /\ b[r + Header] = <<m[n], n, Header>>
         /\ bytes = Message(m[n], n, Header)
<1>1. Header \in Nat /\ Header >= 1 /\ Len(b) \in Nat
  BY ConstantsInNat
<1>2. b[r + 1][2] = n /\ b[r + 1][3] = 1
  <2>1. CASE r = 0
    BY <2>1, <1>1 DEF Written, BeginsAfter
  <2>2. CASE r # 0
    <3>1. r \in 1 .. Len(b) /\ r < Len(b)
      BY <2>2, <1>1
    <3>2. Whole(b, m, r)
      BY <3>1 DEF Written
    <3> QED
      BY <2>2, <3>1, <3>2 DEF Whole, BeginsAfter
  <2> QED
    BY <2>1, <2>2
<1>3. Whole(b, m, r + 1)
  <2>1. r + 1 \in 1 .. Len(b)
    BY <1>1
  <2> QED
    BY <2>1 DEF Written
<1>4. /\ n \in 1 .. Len(m)
      /\ \A j \in 1 .. SizeOf(m[n]) : b[r + 1 - 1 + j] = <<m[n], n, j>>
  BY <1>2, <1>3 DEF Whole
<1>5. SizeOf(m[n]) \in Nat /\ SizeOf(m[n]) >= Header
  BY ConstantsInNat
<1>6. ASSUME NEW j \in 1 .. Header PROVE b[r + j] = <<m[n], n, j>>
  <2>1. r + 1 - 1 + j = r + j /\ j \in 1 .. SizeOf(m[n])
    BY <1>1, <1>5
  <2> QED
    BY <2>1, <1>4
<1>7. bytes = Message(m[n], n, Header)
  <2>0. m[n] \in {"0x51", "0x56"} /\ n \in Nat
    BY <1>4
  <2>1. m[n] \in {"0x51", "0x56", "reply"} /\ n \in Nat
    BY <2>0
  <2> DEFINE msg == Message(m[n], n, Header)
  <2>2. /\ msg \in Seq(Byte) /\ Len(msg) = Header
        /\ \A j \in 1 .. Header : msg[j] = <<m[n], n, j>>
    BY <2>1, <1>1, MessageIs
  <2> HIDE DEF msg
  <2>3. msg \in Seq(Byte) /\ Len(msg) = Len(bytes) /\ \A j \in 1 .. Len(msg) : msg[j] = bytes[j]
    BY <2>2, <1>6
  <2>4. bytes = msg
    BY <2>3, BytesEqual
  <2> QED
    BY <2>4 DEF msg
<1>8. \A j \in 1 .. Header : bytes[j] = <<m[n], n, j>>
  BY <1>6
<1>9. Header \in 1 .. Header
  BY <1>1
<1>10. b[r + Header] = <<m[n], n, Header>>
  BY <1>6, <1>9
<1>11. n \in 1 .. Len(m)
  BY <1>4
<1> QED
  BY <1>7, <1>8, <1>10, <1>11

\* And after the header of a request 0x51: its page.
LEMMA PageIs ==
  ASSUME NEW b \in Seq(Byte), NEW m \in Seq({"0x51", "0x56"}), Written(b, m),
         NEW r \in 1 .. Len(b), b[r][1] = "0x51", b[r][3] = Header,
         NEW bytes \in Seq(Byte), Len(bytes) = Page, r + Page <= Len(b),
         \A j \in 1 .. Page : bytes[j] = b[r + j]
  PROVE  /\ b[r][2] \in 1 .. Len(m) /\ m[b[r][2]] = "0x51"
         /\ \A j \in 1 .. Page : bytes[j] = <<"0x51", b[r][2], Header + j>>
         /\ b[r + Page] = <<"0x51", b[r][2], Header + Page>>
         /\ bytes = SubSeq(Message("0x51", b[r][2], Header + Page), Header + 1, Header + Page)
<1> DEFINE n == b[r][2]
<1>1. Header \in Nat /\ Page \in Nat /\ Page >= 1 /\ Len(b) \in Nat
  BY ConstantsInNat
<1>2. SizeOf("0x51") = Header + Page
  BY DEF SizeOf
<1>3. Whole(b, m, r)
  BY DEF Written
<1>4. /\ n \in 1 .. Len(m) /\ m[n] = "0x51"
      /\ \A j \in 1 .. Header + Page : b[r - Header + j] = <<"0x51", n, j>>
  BY <1>2, <1>3 DEF Whole
<1> HIDE DEF n
<1>5. ASSUME NEW j \in 1 .. Page PROVE b[r + j] = <<"0x51", n, Header + j>>
  <2>1. r + j = r - Header + (Header + j) /\ Header + j \in 1 .. Header + Page
    BY <1>1
  <2> QED
    BY <2>1, <1>4
<1>6. bytes = SubSeq(Message("0x51", n, Header + Page), Header + 1, Header + Page)
  <2> DEFINE msg == Message("0x51", n, Header + Page)
             part == SubSeq(msg, Header + 1, Header + Page)
  <2>0. "0x51" \in {"0x51", "0x56", "reply"} /\ n \in Nat /\ Header + Page \in Nat
    BY <1>1, <1>4
  <2>1. /\ msg \in Seq(Byte) /\ Len(msg) = Header + Page
        /\ \A j \in 1 .. Header + Page : msg[j] = <<"0x51", n, j>>
    BY <2>0, MessageIs
  <2> HIDE DEF msg
  <2>2. /\ part \in Seq(Byte) /\ Len(part) = Page
        /\ \A j \in 1 .. Page : part[j] = msg[Header + j]
    BY <1>1, <2>1
  <2>3. ASSUME NEW j \in 1 .. Page PROVE part[j] = bytes[j]
    <3>1. Header + j \in 1 .. Header + Page
      BY <1>1
    <3> QED
      BY <3>1, <2>1, <2>2, <1>5
  <2> HIDE DEF part
  <2>4. bytes = part
    BY <2>2, <2>3
  <2> QED
    BY <2>4 DEF part, msg
<1>7. \A j \in 1 .. Page : bytes[j] = <<"0x51", n, Header + j>>
  BY <1>5
<1>8. Page \in 1 .. Page
  BY <1>1
<1>9. b[r + Page] = <<"0x51", n, Header + Page>>
  BY <1>5, <1>8
<1>10. n \in 1 .. Len(m) /\ m[n] = "0x51"
  BY <1>4
<1> QED
  BY <1>6, <1>7, <1>9, <1>10 DEF n

-----------------------------------------------------------------------------
(* The parts of the invariant                                              *)

Pipe == [bytes : Seq(Byte), arrived : Nat, read : Nat, closed : BOOLEAN]

LEMMA TypesGiven ==
  ASSUME TypeOK
  PROVE  /\ conn \in Runs /\ conn \in Nat /\ peer \in Nat /\ peer <= conn
         /\ server \in {"header", "payload"} => peer \in Runs
         /\ made \in [Runs -> Seq({"0x51", "0x56"})]
         /\ up \in [Runs -> Pipe] /\ down \in [Runs -> Pipe]
         /\ \A c \in Runs : /\ up[c] \in Pipe /\ up[c].bytes \in Seq(Byte)
                            /\ up[c].read \in Nat /\ up[c].arrived \in Nat
                            /\ up[c].read <= up[c].arrived /\ up[c].arrived <= Len(up[c].bytes)
                            /\ made[c] \in Seq({"0x51", "0x56"})
         /\ \A c \in Runs : /\ down[c] \in Pipe /\ down[c].bytes \in Seq(Byte)
                            /\ down[c].read \in Nat /\ down[c].arrived \in Nat
                            /\ down[c].read <= down[c].arrived
                            /\ down[c].arrived <= Len(down[c].bytes)
         /\ handled \in Seq(Runs \X Seq(Byte))
<1>1. /\ conn \in Runs /\ peer \in 0 .. conn
      /\ made \in [Runs -> Seq({"0x51", "0x56"})]
      /\ up \in [Runs -> Pipe] /\ down \in [Runs -> Pipe]
      /\ \A c \in Runs : up[c].read <= up[c].arrived /\ up[c].arrived <= Len(up[c].bytes)
      /\ \A c \in Runs : down[c].read <= down[c].arrived /\ down[c].arrived <= Len(down[c].bytes)
      /\ server \in {"header", "payload"} => peer # 0
      /\ handled \in Seq(Runs \X Seq(Byte))
  BY DEF TypeOK, PipesOK, Pipe
<1>2. /\ conn \in Nat /\ peer \in Nat /\ peer <= conn
      /\ server \in {"header", "payload"} => peer \in Runs
  BY <1>1, ConstantsInNat DEF Runs
<1>3. \A p \in Pipe : p.bytes \in Seq(Byte) /\ p.read \in Nat /\ p.arrived \in Nat
  BY DEF Pipe
<1>4. \A c \in Runs : up[c] \in Pipe /\ down[c] \in Pipe /\ made[c] \in Seq({"0x51", "0x56"})
  BY <1>1
<1> QED
  BY <1>1, <1>2, <1>3, <1>4

\* The pipes keep their type when one of them changes.
LEMMA PipeChanges ==
  ASSUME NEW pipes, PipesOK(pipes), NEW c \in Runs, NEW p \in Pipe,
         p.read <= p.arrived, p.arrived <= Len(p.bytes)
  PROVE  PipesOK([pipes EXCEPT ![c] = p])
<1> DEFINE q == [pipes EXCEPT ![c] = p]
<1>1. pipes \in [Runs -> Pipe]
  BY DEF PipesOK, Pipe
<1>2. q \in [Runs -> Pipe]
  BY <1>1
<1>3. \A d \in Runs : q[d] = IF d = c THEN p ELSE pipes[d]
  BY <1>1
<1>4. \A d \in Runs : pipes[d].read <= pipes[d].arrived /\ pipes[d].arrived <= Len(pipes[d].bytes)
  BY DEF PipesOK
<1> HIDE DEF q
<1>5. \A d \in Runs : q[d].read <= q[d].arrived /\ q[d].arrived <= Len(q[d].bytes)
  BY <1>3, <1>4
<1>6. PipesOK(q)
  BY <1>2, <1>5 DEF PipesOK, Pipe
<1> QED
  BY <1>6 DEF q

\* A step that neither writes nor reads a request.
LEMMA Quiet ==
  ASSUME IInv, TypeOK', UNCHANGED <<made, server, peer, handled>>,
         \A c \in Runs : up'[c].bytes = up[c].bytes /\ up'[c].read = up[c].read
  PROVE  IInv'
<1>1. AllWritten' /\ Waiting'
  BY DEF IInv, AllWritten, Waiting, ConnOf
<1>2. InOrder'
  BY DEF IInv, InOrder, ConnOf, NumberOf, Given
<1>3. Reading'
  <2>1. CASE server \in {"header", "payload"}
    <3>1. peer \in Runs
      BY <2>1, TypesGiven DEF IInv
    <3>2. up'[peer].bytes = up[peer].bytes /\ up'[peer].read = up[peer].read
      BY <3>1
    <3> QED
      BY <3>2 DEF IInv, Reading, LastHandled, ConnOf, NumberOf
  <2>2. CASE server \notin {"header", "payload"}
    BY <2>2 DEF Reading
  <2> QED
    BY <2>1, <2>2
<1> QED
  BY <1>1, <1>2, <1>3 DEF IInv

\* The client writes one more request.
LEMMA Requested ==
  ASSUME IInv, TypeOK', NEW kind \in {"0x51", "0x56"},
         made' = [made EXCEPT ![conn] = Append(@, kind)],
         up' = [up EXCEPT ![conn] = Write(@, Message(kind, Number, SizeOf(kind)))],
         UNCHANGED <<conn, server, peer, handled>>
  PROVE  IInv'
<1> DEFINE msg == Message(kind, Number, SizeOf(kind))
<1>1. /\ conn \in Runs /\ up \in [Runs -> Pipe] /\ made \in [Runs -> Seq({"0x51", "0x56"})]
      /\ \A c \in Runs : /\ up[c] \in Pipe /\ up[c].bytes \in Seq(Byte)
                         /\ up[c].read \in Nat /\ up[c].arrived \in Nat
                         /\ up[c].read <= up[c].arrived /\ up[c].arrived <= Len(up[c].bytes)
                         /\ made[c] \in Seq({"0x51", "0x56"})
      /\ server \in {"header", "payload"} => peer \in Runs
      /\ handled \in Seq(Runs \X Seq(Byte))
  BY TypesGiven DEF IInv
<1>2. made[conn] \in Seq({"0x51", "0x56"}) /\ Number = Len(made[conn]) + 1 /\ Number \in Nat
  BY <1>1 DEF Number
<1>3. msg \in Seq(Byte)
  <2>1. kind \in {"0x51", "0x56", "reply"} /\ SizeOf(kind) \in Nat
    BY ConstantsInNat
  <2> QED
    BY <2>1, <1>2, MessageIs
<1> HIDE DEF msg
<1>4. /\ made'[conn] = Append(made[conn], kind)
      /\ up'[conn] = Write(up[conn], msg)
      /\ \A c \in Runs : c # conn => up'[c] = up[c] /\ made'[c] = made[c]
  BY <1>1 DEF msg
<1>5. /\ up'[conn].bytes = up[conn].bytes \o msg /\ up'[conn].read = up[conn].read
      /\ \A k \in 1 .. Len(up[conn].bytes) : up'[conn].bytes[k] = up[conn].bytes[k]
  <2>1. up[conn] \in [bytes : Seq(Byte), arrived : Nat, read : Nat, closed : BOOLEAN]
    BY <1>1 DEF Pipe
  <2>2. /\ Write(up[conn], msg).bytes = up[conn].bytes \o msg
        /\ Write(up[conn], msg).read = up[conn].read
        /\ \A k \in 1 .. Len(up[conn].bytes) : Write(up[conn], msg).bytes[k] = up[conn].bytes[k]
    BY <2>1, <1>3, WriteIs
  <2> QED
    BY <2>2, <1>4
<1>6. AllWritten'
  <2>1. Written(up[conn].bytes \o msg, Append(made[conn], kind))
    <3>1. Written(up[conn].bytes, made[conn])
      BY <1>1 DEF IInv, AllWritten
    <3>2. up[conn].bytes \in Seq(Byte)
      BY <1>1
    <3> QED
      BY <3>1, <3>2, <1>2, WrittenMore DEF msg
  <2> QED
    BY <2>1, <1>4, <1>5 DEF IInv, AllWritten
<1>7. Waiting'
  BY <1>4, <1>5 DEF IInv, Waiting, ConnOf
<1>8. ASSUME server \in {"header", "payload"}
      PROVE  LET r == up[peer].read
             IN /\ up'[peer].read = r /\ r \in Nat
                /\ r # 0 => up'[peer].bytes[r] = up[peer].bytes[r]
  <2>1. peer \in Runs
    BY <1>1, <1>8
  <2>2. CASE peer = conn
    <3>1. up[conn].read \in Nat /\ up[conn].arrived \in Nat /\ Len(up[conn].bytes) \in Nat
      BY <1>1
    <3>2. up[conn].read <= Len(up[conn].bytes)
      BY <3>1, <1>1
    <3>3. up[conn].read # 0 => up[conn].read \in 1 .. Len(up[conn].bytes)
      BY <3>1, <3>2
    <3> QED
      BY <2>2, <3>1, <3>3, <1>5
  <2>3. CASE peer # conn
    BY <2>1, <2>3, <1>1, <1>4
  <2> QED
    BY <2>2, <2>3
<1>9. Reading'
  <2>1. CASE server \in {"header", "payload"}
    BY <2>1, <1>8 DEF IInv, Reading, LastHandled, ConnOf, NumberOf
  <2>2. CASE server \notin {"header", "payload"}
    BY <2>2 DEF Reading
  <2> QED
    BY <2>1, <2>2
<1>10. InOrder'
  <2>1. ASSUME NEW c \in Runs
        PROVE  /\ Len(made'[c]) \in Nat /\ Len(made[c]) \in Nat /\ Len(made[c]) <= Len(made'[c])
               /\ \A n \in 1 .. Len(made[c]) : made'[c][n] = made[c][n]
    <3>1. CASE c = conn
      BY <3>1, <1>2, <1>4
    <3>2. CASE c # conn
      BY <3>2, <1>1, <1>4
    <3> QED
      BY <3>1, <3>2
  <2>2. ASSUME NEW i \in 1 .. Len(handled)
        PROVE  /\ NumberOf(i) \in 1 .. Len(made'[ConnOf(i)])
               /\ handled[i][2] = Given(ConnOf(i), NumberOf(i))'
    <3>1. ConnOf(i) \in Runs
      BY <1>1 DEF ConnOf
    <3>2. NumberOf(i) \in 1 .. Len(made[ConnOf(i)]) /\ handled[i][2] = Given(ConnOf(i), NumberOf(i))
      BY DEF IInv, InOrder
    <3>3. made'[ConnOf(i)][NumberOf(i)] = made[ConnOf(i)][NumberOf(i)]
      BY <2>1, <3>1, <3>2
    <3>4. NumberOf(i) \in 1 .. Len(made'[ConnOf(i)])
      BY <2>1, <3>1, <3>2
    <3>5. NumberOf(i)' = NumberOf(i) /\ ConnOf(i)' = ConnOf(i)
      BY DEF NumberOf, ConnOf
    <3> QED
      BY <3>2, <3>3, <3>4, <3>5 DEF Given
  <2>3. /\ handled' = handled
        /\ \A i : NumberOf(i)' = NumberOf(i) /\ ConnOf(i)' = ConnOf(i)
    BY DEF NumberOf, ConnOf
  <2>4. \A i \in 1 .. Len(handled) :
          /\ i > 1 => ConnOf(i - 1) <= ConnOf(i)
          /\ NumberOf(i) = IF i > 1 /\ ConnOf(i - 1) = ConnOf(i) THEN NumberOf(i - 1) + 1 ELSE 1
    BY DEF IInv, InOrder
  <2> QED
    BY <2>2, <2>3, <2>4 DEF InOrder
<1> QED
  BY <1>6, <1>7, <1>9, <1>10 DEF IInv

\* The server reads at most size bytes.
LEMMA ReadBy ==
  ASSUME IInv, server \in {"header", "payload"}, NEW size \in Nat,
         up' = [up EXCEPT ![peer] = After(@, Returned(up[peer], size))],
         UNCHANGED <<made, peer>>
  PROVE  LET bytes == Returned(up[peer], size)  b == up[peer].bytes  r == up[peer].read
         IN /\ b \in Seq(Byte) /\ r \in 0 .. Len(b) /\ Written(b, made[peer])
            /\ made[peer] \in Seq({"0x51", "0x56"})
            /\ bytes \in Seq(Byte) /\ r + Len(bytes) <= Len(b)
            /\ \A j \in 1 .. Len(bytes) : bytes[j] = b[r + j]
            /\ up'[peer].bytes = b /\ up'[peer].read = r + Len(bytes)
            /\ PipesOK(up') /\ AllWritten'
            /\ \A c \in Runs : c > peer => up'[c].read = 0
<1> DEFINE bytes == Returned(up[peer], size)
           p == After(up[peer], bytes)
<1>1. /\ peer \in Runs /\ peer \in Nat /\ up \in [Runs -> Pipe] /\ up[peer] \in Pipe
      /\ up[peer].bytes \in Seq(Byte) /\ up[peer].read \in Nat /\ up[peer].arrived \in Nat
      /\ up[peer].read <= up[peer].arrived /\ up[peer].arrived <= Len(up[peer].bytes)
      /\ made[peer] \in Seq({"0x51", "0x56"})
  BY TypesGiven DEF IInv
<1>2. up[peer] \in [bytes : Seq(Byte), arrived : Nat, read : Nat, closed : BOOLEAN]
  BY <1>1 DEF Pipe
<1>3. /\ bytes \in Seq(Byte) /\ up[peer].read + Len(bytes) <= up[peer].arrived
      /\ \A j \in 1 .. Len(bytes) : bytes[j] = up[peer].bytes[up[peer].read + j]
  BY <1>1, <1>2, ReturnedIs
<1> HIDE DEF bytes
<1>4. /\ p \in Pipe /\ p.bytes = up[peer].bytes /\ p.arrived = up[peer].arrived
      /\ p.read = up[peer].read + Len(bytes)
  BY <1>2, <1>3, AfterIs DEF Pipe
<1>5. up' = [up EXCEPT ![peer] = p]
  BY DEF bytes
<1> HIDE DEF p
<1>6. up'[peer] = p /\ \A c \in Runs : c # peer => up'[c] = up[c]
  BY <1>1, <1>5
<1>7. PipesOK(up')
  <2>1. PipesOK(up)
    BY DEF IInv, TypeOK
  <2>2. p.read <= p.arrived /\ p.arrived <= Len(p.bytes)
    BY <1>1, <1>3, <1>4
  <2>3. PipesOK([up EXCEPT ![peer] = p])
    BY <2>1, <2>2, <1>1, <1>4, PipeChanges
  <2> QED
    BY <2>3, <1>5
<1>8. AllWritten'
  BY <1>4, <1>6 DEF IInv, AllWritten
<1>9. \A c \in Runs : c > peer => up'[c].read = 0
  BY <1>1, <1>6 DEF IInv, Waiting
<1>10. up[peer].read \in 0 .. Len(up[peer].bytes) /\ up[peer].read + Len(bytes) <= Len(up[peer].bytes)
  <2>1. Len(up[peer].bytes) \in Nat /\ Len(bytes) \in Nat
    BY <1>1, <1>3
  <2> QED
    BY <2>1, <1>1, <1>3
<1>11. Written(up[peer].bytes, made[peer])
  BY <1>1 DEF IInv, AllWritten
<1> QED
  BY <1>1, <1>3, <1>4, <1>6, <1>7, <1>8, <1>9, <1>10, <1>11 DEF bytes

\* The next request of the client is handled.
LEMMA HandledNext ==
  ASSUME IInv, server \in {"header", "payload"}, NEW bytes \in Seq(Byte),
         NEW n \in 1 .. Len(made[peer]), bytes = Given(peer, n), bytes[1][2] = n,
         LastHandled(peer, n - 1),
         handled' = Append(handled, <<peer, bytes>>), UNCHANGED <<made, peer>>
  PROVE  /\ handled' \in Seq(Runs \X Seq(Byte)) /\ handled' # <<>>
         /\ (ConnOf(Len(handled)))' = peer /\ LastHandled(peer, n)' /\ InOrder'
<1>1. /\ peer \in Runs /\ peer \in Nat /\ handled \in Seq(Runs \X Seq(Byte))
  BY TypesGiven DEF IInv
<1>0. PICK last \in Nat : last = Len(handled) + 1
  BY <1>1
<1>2. <<peer, bytes>> \in Runs \X Seq(Byte)
  BY <1>1
<1>3. /\ handled' \in Seq(Runs \X Seq(Byte)) /\ Len(handled') = last
      /\ handled'[last] = <<peer, bytes>>
      /\ \A i \in 1 .. Len(handled) : handled'[i] = handled[i]
      /\ Len(handled) \in Nat
  BY <1>0, <1>1, <1>2
<1>4. handled' # <<>>
  BY <1>3
<1>5. /\ ConnOf(last)' = peer /\ NumberOf(last)' = n
      /\ \A i \in 1 .. Len(handled) : ConnOf(i)' = ConnOf(i) /\ NumberOf(i)' = NumberOf(i)
  BY <1>3 DEF ConnOf, NumberOf
<1>6. (ConnOf(Len(handled)))' = peer /\ (NumberOf(Len(handled)))' = n
  BY <1>3 DEF ConnOf, NumberOf
<1>7. n \in Nat /\ n # 0
  OBVIOUS
<1>8. LastHandled(peer, n)'
  BY <1>4, <1>6, <1>7 DEF LastHandled
<1>9. \A i \in 1 .. Len(handled) :
        /\ NumberOf(i) \in 1 .. Len(made[ConnOf(i)])
        /\ handled[i][2] = Given(ConnOf(i), NumberOf(i))
        /\ i > 1 => ConnOf(i - 1) <= ConnOf(i)
        /\ NumberOf(i) = IF i > 1 /\ ConnOf(i - 1) = ConnOf(i) THEN NumberOf(i - 1) + 1 ELSE 1
  BY DEF IInv, InOrder
<1>10. ASSUME NEW i \in 1 .. Len(handled')
       PROVE  /\ NumberOf(i)' \in 1 .. Len(made'[ConnOf(i)'])
              /\ handled'[i][2] = Given(ConnOf(i), NumberOf(i))'
              /\ i > 1 => ConnOf(i - 1)' <= ConnOf(i)'
              /\ NumberOf(i)' = IF i > 1 /\ ConnOf(i - 1)' = ConnOf(i)'
                                  THEN NumberOf(i - 1)' + 1 ELSE 1
  <2>0. Given(ConnOf(i), NumberOf(i))' = Given(ConnOf(i)', NumberOf(i)') /\ made' = made
    BY DEF Given
  <2>1. CASE i \in 1 .. Len(handled)
    <3>1. ConnOf(i)' = ConnOf(i) /\ NumberOf(i)' = NumberOf(i) /\ handled'[i] = handled[i]
      BY <2>1, <1>3, <1>5
    <3>2. i > 1 => ConnOf(i - 1)' = ConnOf(i - 1) /\ NumberOf(i - 1)' = NumberOf(i - 1)
      <4>1. i > 1 => i - 1 \in 1 .. Len(handled)
        BY <2>1, <1>3
      <4> QED
        BY <4>1, <1>5
    <3> QED
      BY <2>0, <2>1, <3>1, <3>2, <1>9
  <2>2. CASE i = last
    <3>1. ConnOf(i)' = peer /\ NumberOf(i)' = n /\ handled'[i][2] = bytes
      BY <2>2, <1>3, <1>5, <1>0
    <3>2. i > 1 => /\ i - 1 = Len(handled) /\ handled # <<>>
                   /\ ConnOf(i - 1)' = ConnOf(i - 1) /\ NumberOf(i - 1)' = NumberOf(i - 1)
      <4>1. i > 1 => i - 1 = Len(handled) /\ i - 1 \in 1 .. Len(handled)
        BY <2>2, <1>3, <1>0
      <4>2. handled = <<>> => Len(handled) = 0
        OBVIOUS
      <4> QED
        BY <4>1, <4>2, <1>5
    <3>3. i > 1 => ConnOf(i - 1) <= peer
      BY <3>2 DEF IInv, Waiting
    <3>4. n = IF i > 1 /\ ConnOf(i - 1)' = peer THEN NumberOf(i - 1)' + 1 ELSE 1
      <4>1. CASE n = 1
        <5>1. handled # <<>> => ConnOf(Len(handled)) < peer
          BY <4>1 DEF LastHandled
        <5>2. handled # <<>> => ConnOf(Len(handled)) \in Nat
          <6>1. handled # <<>> => Len(handled) \in 1 .. Len(handled)
            BY <1>1
          <6>2. handled # <<>> => ConnOf(Len(handled)) \in Runs
            BY <6>1, <1>1 DEF ConnOf
          <6> QED
            BY <6>2 DEF Runs
        <5>3. i > 1 => ConnOf(i - 1)' < peer /\ ConnOf(i - 1)' \in Nat
          BY <5>1, <5>2, <3>2
        <5>4. ~(i > 1 /\ ConnOf(i - 1)' = peer)
          BY <5>3, <1>1
        <5> QED
          BY <4>1, <5>4
      <4>2. CASE n # 1
        <5>1. handled # <<>> /\ ConnOf(Len(handled)) = peer /\ NumberOf(Len(handled)) = n - 1
          BY <4>2, <1>7 DEF LastHandled
        <5>2. Len(handled) >= 1
          BY <5>1, <1>1
        <5>3. i > 1
          BY <2>2, <5>2, <1>3, <1>0
        <5> QED
          BY <5>1, <5>3, <3>2, <1>7
      <4> QED
        BY <4>1, <4>2
    <3> QED
      BY <2>0, <3>1, <3>2, <3>3, <3>4
  <2>3. i \in 1 .. Len(handled) \/ i = last
    BY <1>0, <1>3
  <2> QED
    BY <2>1, <2>2, <2>3
<1>11. InOrder'
  BY <1>10 DEF InOrder
<1> QED
  BY <1>3, <1>4, <1>6, <1>8, <1>11

-----------------------------------------------------------------------------
(* The initial states and the steps                                        *)

LEMMA InitIInv == Init => IInv
<1> SUFFICES ASSUME Init PROVE IInv
  OBVIOUS
<1>1. NoBytes \in Pipe /\ NoBytes.bytes = <<>> /\ NoBytes.read = 0 /\ NoBytes.arrived = 0
  BY DEF NoBytes, Pipe
<1>2. TypeOK
  <2>1. up \in [Runs -> Pipe] /\ down \in [Runs -> Pipe]
    BY <1>1 DEF Init
  <2>2. PipesOK(up) /\ PipesOK(down)
    <3>1. \A c \in Runs : up[c] = NoBytes /\ down[c] = NoBytes
      BY DEF Init
    <3> QED
      BY <2>1, <3>1, <1>1 DEF PipesOK, Pipe
  <2>3. conn \in Runs /\ peer \in 0 .. conn
    BY ConstantsInNat DEF Init, Runs
  <2>4. made \in [Runs -> Seq({"0x51", "0x56"})]
    BY DEF Init
  <2>5. got \in Seq(Byte) /\ handled \in Seq(Runs \X Seq(Byte))
    BY DEF Init
  <2>6. /\ cuts \in BOOLEAN /\ misread \in BOOLEAN
        /\ client \in {"idle", "asked", "closed"}
        /\ server \in {"accept", "header", "payload", "exit"}
        /\ server \in {"header", "payload"} => peer # 0
    BY DEF Init
  <2> QED
    BY <2>2, <2>3, <2>4, <2>5, <2>6 DEF TypeOK
<1>3. AllWritten
  <2>1. \A c \in Runs : up[c].bytes = <<>> /\ made[c] = <<>>
    BY <1>1 DEF Init
  <2>2. Written(<<>>, <<>>)
    BY DEF Written
  <2> QED
    BY <2>1, <2>2 DEF AllWritten
<1>4. Waiting
  BY <1>1 DEF Init, Waiting
<1>5. Reading /\ InOrder
  BY DEF Init, Reading, InOrder
<1> QED
  BY <1>2, <1>3, <1>4, <1>5 DEF IInv

\* The types of what a request changes.
LEMMA RequestTypes ==
  ASSUME TypeOK, NEW kind \in {"0x51", "0x56"},
         made' = [made EXCEPT ![conn] = Append(@, kind)],
         up' = [up EXCEPT ![conn] = Write(@, Message(kind, Number, SizeOf(kind)))]
  PROVE  made' \in [Runs -> Seq({"0x51", "0x56"})] /\ PipesOK(up')
<1> DEFINE msg == Message(kind, Number, SizeOf(kind))
           p == Write(up[conn], msg)
<1>1. /\ conn \in Runs /\ made \in [Runs -> Seq({"0x51", "0x56"})] /\ up[conn] \in Pipe
      /\ made[conn] \in Seq({"0x51", "0x56"}) /\ up[conn].bytes \in Seq(Byte)
      /\ up[conn].read \in Nat /\ up[conn].arrived \in Nat
      /\ up[conn].read <= up[conn].arrived /\ up[conn].arrived <= Len(up[conn].bytes)
  BY TypesGiven
<1>2. made' \in [Runs -> Seq({"0x51", "0x56"})]
  <2>1. Append(made[conn], kind) \in Seq({"0x51", "0x56"})
    BY <1>1
  <2> QED
    BY <1>1, <2>1
<1>3. msg \in Seq(Byte)
  <2>1. kind \in {"0x51", "0x56", "reply"} /\ SizeOf(kind) \in Nat /\ Number \in Nat
    BY <1>1, ConstantsInNat DEF Number
  <2> QED
    BY <2>1, MessageIs
<1> HIDE DEF msg
<1>4. up[conn] \in [bytes : Seq(Byte), arrived : Nat, read : Nat, closed : BOOLEAN]
  BY <1>1 DEF Pipe
<1>5. /\ p \in Pipe /\ p.read = up[conn].read /\ p.arrived = up[conn].arrived
      /\ Len(p.bytes) = Len(up[conn].bytes) + Len(msg)
  BY <1>3, <1>4, WriteIs DEF Pipe
<1>6. up' = [up EXCEPT ![conn] = p]
  BY DEF msg
<1> HIDE DEF p
<1>7. p.read <= p.arrived /\ p.arrived <= Len(p.bytes)
  <2>1. Len(msg) \in Nat /\ Len(up[conn].bytes) \in Nat
    BY <1>1, <1>3
  <2> QED
    BY <2>1, <1>1, <1>5
<1>8. PipesOK(up)
  BY DEF TypeOK
<1>9. PipesOK([up EXCEPT ![conn] = p])
  BY <1>1, <1>5, <1>7, <1>8, PipeChanges
<1> QED
  BY <1>2, <1>6, <1>9

\* The reply to request n of the server.
LEMMA ReplyTypes ==
  ASSUME TypeOK, peer \in Runs, NEW n \in Nat
  PROVE  PipesOK([down EXCEPT ![peer] = Write(@, Message("reply", n, Reply))])
<1> DEFINE msg == Message("reply", n, Reply)
           p == Write(down[peer], msg)
<1>1. /\ down[peer] \in Pipe /\ down[peer].bytes \in Seq(Byte)
      /\ down[peer].read \in Nat /\ down[peer].arrived \in Nat
      /\ down[peer].read <= down[peer].arrived /\ down[peer].arrived <= Len(down[peer].bytes)
  BY TypesGiven
<1>2. msg \in Seq(Byte)
  BY ConstantsInNat, MessageIs
<1> HIDE DEF msg
<1>3. down[peer] \in [bytes : Seq(Byte), arrived : Nat, read : Nat, closed : BOOLEAN]
  BY <1>1 DEF Pipe
<1>4. /\ p \in Pipe /\ p.read = down[peer].read /\ p.arrived = down[peer].arrived
      /\ Len(p.bytes) = Len(down[peer].bytes) + Len(msg)
  BY <1>2, <1>3, WriteIs DEF Pipe
<1> HIDE DEF p
<1>5. p.read <= p.arrived /\ p.arrived <= Len(p.bytes)
  <2>1. Len(msg) \in Nat /\ Len(down[peer].bytes) \in Nat
    BY <1>1, <1>2
  <2> QED
    BY <2>1, <1>1, <1>4
<1>6. PipesOK(down)
  BY DEF TypeOK
<1>7. PipesOK([down EXCEPT ![peer] = p])
  BY <1>4, <1>5, <1>6, PipeChanges
<1> QED
  BY <1>7 DEF p, msg

\* Closing does not change the type.
LEMMA CloseTypes ==
  ASSUME NEW pipes, PipesOK(pipes), NEW C \in SUBSET Runs
  PROVE  /\ PipesOK([c \in Runs |-> IF c \in C THEN [pipes[c] EXCEPT !.closed = TRUE] ELSE pipes[c]])
         /\ \A c \in Runs : /\ [pipes[c] EXCEPT !.closed = TRUE].bytes = pipes[c].bytes
                            /\ [pipes[c] EXCEPT !.closed = TRUE].read = pipes[c].read
<1>1. \A p \in Pipe : LET q == [p EXCEPT !.closed = TRUE]
                      IN /\ q \in Pipe /\ q.bytes = p.bytes
                         /\ q.read = p.read /\ q.arrived = p.arrived
  BY DEF Pipe
<1>2. \A c \in Runs : /\ pipes[c] \in Pipe
                      /\ pipes[c].read <= pipes[c].arrived /\ pipes[c].arrived <= Len(pipes[c].bytes)
  BY DEF PipesOK, Pipe
<1> DEFINE q == [c \in Runs |-> IF c \in C THEN [pipes[c] EXCEPT !.closed = TRUE] ELSE pipes[c]]
<1>3. \A c \in Runs : /\ q[c] \in Pipe /\ q[c].bytes = pipes[c].bytes
                      /\ q[c].read = pipes[c].read /\ q[c].arrived = pipes[c].arrived
  BY <1>1, <1>2
<1>4. q \in [Runs -> Pipe]
  <2>1. q = [c \in Runs |-> q[c]]
    OBVIOUS
  <2> HIDE DEF q
  <2> QED
    BY <1>3, <2>1
<1> HIDE DEF q
<1>5. PipesOK(q)
  BY <1>2, <1>3, <1>4 DEF PipesOK, Pipe
<1> QED
  BY <1>1, <1>2, <1>5 DEF q

LEMMA SendIInv == IInv /\ Send => IInv'
<1> SUFFICES ASSUME IInv, Send PROVE IInv'
  OBVIOUS
<1>1. "0x51" \in {"0x51", "0x56"} /\ SizeOf("0x51") = Header + Page
  BY DEF SizeOf
<1>2. /\ made' = [made EXCEPT ![conn] = Append(@, "0x51")]
      /\ up' = [up EXCEPT ![conn] = Write(@, Message("0x51", Number, SizeOf("0x51")))]
      /\ UNCHANGED <<cuts, conn, down, client, got, misread, server, peer, handled>>
  BY <1>1 DEF Send
<1>3. TypeOK
  BY DEF IInv
<1>4. made' \in [Runs -> Seq({"0x51", "0x56"})] /\ PipesOK(up')
  BY <1>1, <1>2, <1>3, RequestTypes
<1>5. TypeOK'
  BY <1>2, <1>3, <1>4 DEF TypeOK
<1> QED
  BY <1>1, <1>2, <1>5, Requested

LEMMA AskIInv == IInv /\ Ask => IInv'
<1> SUFFICES ASSUME IInv, Ask PROVE IInv'
  OBVIOUS
<1>1. "0x56" \in {"0x51", "0x56"} /\ SizeOf("0x56") = Header
  BY DEF SizeOf
<1>2. /\ made' = [made EXCEPT ![conn] = Append(@, "0x56")]
      /\ up' = [up EXCEPT ![conn] = Write(@, Message("0x56", Number, SizeOf("0x56")))]
      /\ client' = "asked"
      /\ UNCHANGED <<cuts, conn, down, got, misread, server, peer, handled>>
  BY <1>1 DEF Ask
<1>3. TypeOK
  BY DEF IInv
<1>4. made' \in [Runs -> Seq({"0x51", "0x56"})] /\ PipesOK(up')
  BY <1>1, <1>2, <1>3, RequestTypes
<1>5. TypeOK'
  BY <1>2, <1>3, <1>4 DEF TypeOK
<1> QED
  BY <1>1, <1>2, <1>5, Requested

LEMMA ReceiveIInv == IInv /\ Receive => IInv'
<1> SUFFICES ASSUME IInv, Receive PROVE IInv'
  OBVIOUS
<1> DEFINE p == After(down[conn], Returned(down[conn], Reply))
<1>1. /\ conn \in Runs /\ down[conn] \in Pipe /\ down[conn].bytes \in Seq(Byte)
      /\ down[conn].read \in Nat /\ down[conn].arrived \in Nat
      /\ down[conn].read <= down[conn].arrived /\ down[conn].arrived <= Len(down[conn].bytes)
  BY TypesGiven DEF IInv
<1>2. down[conn] \in [bytes : Seq(Byte), arrived : Nat, read : Nat, closed : BOOLEAN]
  BY <1>1 DEF Pipe
<1>3. /\ Returned(down[conn], Reply) \in Seq(Byte)
      /\ down[conn].read + Len(Returned(down[conn], Reply)) <= down[conn].arrived
  BY <1>1, <1>2, ConstantsInNat, ReturnedIs
<1>4. /\ p \in Pipe /\ p.bytes = down[conn].bytes /\ p.arrived = down[conn].arrived
      /\ p.read = down[conn].read + Len(Returned(down[conn], Reply))
  BY <1>2, <1>3, AfterIs DEF Pipe
<1>5. /\ got' = Returned(down[conn], Reply) /\ down' = [down EXCEPT ![conn] = p]
      /\ misread' \in BOOLEAN /\ client' = "idle"
      /\ UNCHANGED <<cuts, conn, made, up, server, peer, handled>>
  BY DEF Receive, IInv, TypeOK
<1> HIDE DEF p
<1>6. TypeOK
  BY DEF IInv
<1>7. PipesOK([down EXCEPT ![conn] = p])
  <2>1. p.read <= p.arrived /\ p.arrived <= Len(p.bytes) /\ PipesOK(down)
    BY <1>1, <1>3, <1>4, <1>6 DEF TypeOK
  <2> QED
    BY <2>1, <1>1, <1>4, PipeChanges
<1>8. TypeOK'
  BY <1>3, <1>5, <1>6, <1>7 DEF TypeOK
<1> QED
  BY <1>5, <1>8, Quiet

LEMMA CloseIInv == IInv /\ Close => IInv'
<1> SUFFICES ASSUME IInv, Close PROVE IInv'
  OBVIOUS
<1>1. conn \in Runs /\ up \in [Runs -> Pipe] /\ TypeOK /\ PipesOK(up)
  BY TypesGiven DEF IInv, TypeOK
<1>2. up' = [c \in Runs |-> IF c \in {conn} THEN [up[c] EXCEPT !.closed = TRUE] ELSE up[c]]
  BY <1>1 DEF Close
<1>3. /\ PipesOK(up')
      /\ \A c \in Runs : /\ [up[c] EXCEPT !.closed = TRUE].bytes = up[c].bytes
                         /\ [up[c] EXCEPT !.closed = TRUE].read = up[c].read
  <2>1. {conn} \in SUBSET Runs
    BY <1>1
  <2> QED
    BY <2>1, <1>1, <1>2, CloseTypes
<1>4. TypeOK'
  BY <1>1, <1>3 DEF TypeOK, Close
<1>5. \A c \in Runs : up'[c].bytes = up[c].bytes /\ up'[c].read = up[c].read
  BY <1>2, <1>3
<1> QED
  BY <1>4, <1>5, Quiet DEF Close

LEMMA OpenIInv == IInv /\ Open => IInv'
<1> SUFFICES ASSUME IInv, Open PROVE IInv'
  OBVIOUS
<1>1. TypeOK /\ conn \in Nat /\ peer \in Nat /\ peer <= conn
  BY TypesGiven DEF IInv
<1>2. conn' \in Runs /\ peer' \in 0 .. conn'
  BY <1>1, ConstantsInNat DEF Open, Runs
<1>3. got' \in Seq(Byte)
  BY DEF Open
<1>4. TypeOK'
  BY <1>1, <1>2, <1>3 DEF TypeOK, Open
<1> QED
  BY <1>4, Quiet DEF Open

\* More bytes of a pipe arrive.
LEMMA ArrivalTypes ==
  ASSUME NEW pipes, PipesOK(pipes), NEW c \in Runs, NEW n \in Arrivals(pipes[c])
  PROVE  /\ PipesOK([pipes EXCEPT ![c].arrived = n])
         /\ \A d \in Runs : /\ [pipes EXCEPT ![c].arrived = n][d].bytes = pipes[d].bytes
                            /\ [pipes EXCEPT ![c].arrived = n][d].read = pipes[d].read
<1> DEFINE p == [pipes[c] EXCEPT !.arrived = n]
           q == [pipes EXCEPT ![c] = p]
<1>1. /\ pipes \in [Runs -> Pipe] /\ pipes[c] \in Pipe /\ pipes[c].bytes \in Seq(Byte)
      /\ pipes[c].read \in Nat /\ pipes[c].arrived \in Nat
      /\ pipes[c].read <= pipes[c].arrived /\ pipes[c].arrived <= Len(pipes[c].bytes)
  <2>1. /\ pipes \in [Runs -> Pipe]
        /\ pipes[c].read <= pipes[c].arrived /\ pipes[c].arrived <= Len(pipes[c].bytes)
    BY DEF PipesOK, Pipe
  <2>2. pipes[c] \in Pipe
    BY <2>1
  <2> QED
    BY <2>1, <2>2 DEF Pipe
<1>2. n \in Nat /\ pipes[c].arrived <= n /\ n <= Len(pipes[c].bytes)
  <2>1. Len(pipes[c].bytes) \in Nat
    BY <1>1
  <2> QED
    BY <2>1, <1>1 DEF Arrivals
<1>3. p \in Pipe /\ p.bytes = pipes[c].bytes /\ p.arrived = n /\ p.read = pipes[c].read
  BY <1>1, <1>2 DEF Pipe
<1>4. [pipes EXCEPT ![c].arrived = n] = q
  OBVIOUS
<1> HIDE DEF p
<1>5. p.read <= p.arrived /\ p.arrived <= Len(p.bytes)
  BY <1>1, <1>2, <1>3
<1>6. PipesOK(q)
  BY <1>3, <1>5, PipeChanges
<1>7. \A d \in Runs : q[d].bytes = pipes[d].bytes /\ q[d].read = pipes[d].read
  BY <1>1, <1>3
<1> QED
  BY <1>4, <1>6, <1>7

LEMMA ArriveIInv == IInv /\ Arrive => IInv'
<1> SUFFICES ASSUME IInv, NEW c \in Runs, ArriveUp(c) \/ ArriveDown(c) PROVE IInv'
  BY DEF Arrive
<1>1. TypeOK /\ PipesOK(up) /\ PipesOK(down)
  BY DEF IInv, TypeOK
<1>2. CASE ArriveUp(c)
  <2>1. PICK n \in Arrivals(up[c]) : up' = [up EXCEPT ![c].arrived = n]
    BY <1>2 DEF ArriveUp
  <2>2. /\ PipesOK(up')
        /\ \A d \in Runs : up'[d].bytes = up[d].bytes /\ up'[d].read = up[d].read
    <3> DEFINE q == [up EXCEPT ![c].arrived = n]
    <3>1. PipesOK(q) /\ \A d \in Runs : q[d].bytes = up[d].bytes /\ q[d].read = up[d].read
      BY <1>1, ArrivalTypes
    <3> HIDE DEF q
    <3>2. up' = q
      BY <2>1 DEF q
    <3> QED
      BY <3>1, <3>2
  <2>3. TypeOK'
    BY <1>1, <1>2, <2>2 DEF TypeOK, ArriveUp
  <2> QED
    BY <1>2, <2>2, <2>3, Quiet DEF ArriveUp
<1>3. CASE ArriveDown(c)
  <2>1. PICK n \in Arrivals(down[c]) : down' = [down EXCEPT ![c].arrived = n]
    BY <1>3 DEF ArriveDown
  <2>2. PipesOK(down')
    <3>1. PipesOK([down EXCEPT ![c].arrived = n])
      BY <1>1, ArrivalTypes
    <3> QED
      BY <2>1, <3>1
  <2>3. TypeOK'
    BY <1>1, <1>3, <2>2 DEF TypeOK, ArriveDown
  <2> QED
    BY <1>3, <2>3, Quiet DEF ArriveDown
<1> QED
  BY <1>2, <1>3

LEMMA AcceptIInv == IInv /\ Accept => IInv'
<1> SUFFICES ASSUME IInv, Accept PROVE IInv'
  OBVIOUS
<1>1. TypeOK /\ conn \in Runs /\ conn \in Nat /\ peer \in Nat
  BY TypesGiven DEF IInv
<1>2. /\ peer < conn /\ peer' = peer + 1 /\ server' = "header"
      /\ UNCHANGED <<cuts, conn, made, client, got, misread, up, down, handled>>
  BY DEF Accept, clientVars
<1>3. peer' \in Runs /\ peer' \in 0 .. conn
  BY <1>1, <1>2, ConstantsInNat DEF Runs
<1>4. TypeOK'
  BY <1>1, <1>2, <1>3 DEF TypeOK
<1>5. handled # <<>> => ConnOf(Len(handled)) \in Nat /\ ConnOf(Len(handled)) <= peer
  <2>1. handled \in Seq(Runs \X Seq(Byte))
    BY TypesGiven DEF IInv
  <2>2. handled # <<>> => Len(handled) \in 1 .. Len(handled)
    BY <2>1
  <2>3. handled # <<>> => ConnOf(Len(handled)) \in Runs
    BY <2>1, <2>2 DEF ConnOf
  <2> QED
    BY <2>3 DEF Runs, IInv, Waiting
<1>6. AllWritten'
  BY <1>2 DEF IInv, AllWritten
<1>7. Waiting'
  <2>1. \A c \in Runs : c > peer' => up'[c].read = 0
    BY <1>1, <1>2 DEF IInv, Waiting, Runs
  <2> QED
    BY <2>1, <1>1, <1>2, <1>5 DEF Waiting, ConnOf
<1>8. Reading'
  <2>1. up'[peer'].read = 0
    <3>1. peer' > peer
      BY <1>1, <1>2
    <3> QED
      BY <3>1, <1>2, <1>3 DEF IInv, Waiting
  <2>2. LastHandled(peer, 0)'
    BY <1>1, <1>2, <1>5 DEF LastHandled, ConnOf
  <2> QED
    BY <2>1, <2>2, <1>2 DEF Reading
<1>9. InOrder'
  BY <1>2 DEF IInv, InOrder, ConnOf, NumberOf, Given
<1> QED
  BY <1>4, <1>6, <1>7, <1>8, <1>9 DEF IInv

\* What error() or the end of a connection leaves.
LEMMA Stopped ==
  ASSUME IInv, TypeOK', AllWritten', UNCHANGED <<made, peer, handled>>,
         server' \in {"accept", "exit"},
         \A c \in Runs : c > peer => up'[c].read = 0
  PROVE  IInv'
<1>1. Waiting'
  BY DEF IInv, Waiting, ConnOf
<1>2. Reading'
  BY DEF Reading
<1>3. InOrder'
  BY DEF IInv, InOrder, ConnOf, NumberOf, Given
<1> QED
  BY <1>1, <1>2, <1>3 DEF IInv

LEMMA DieTypes ==
  ASSUME PipesOK(down), down' = [c \in Runs |-> [down[c] EXCEPT !.closed = TRUE]]
  PROVE  PipesOK(down')
<1>1. down' = [c \in Runs |-> IF c \in Runs THEN [down[c] EXCEPT !.closed = TRUE] ELSE down[c]]
  OBVIOUS
<1>2. Runs \in SUBSET Runs
  OBVIOUS
<1>3. PipesOK([c \in Runs |-> IF c \in Runs THEN [down[c] EXCEPT !.closed = TRUE] ELSE down[c]])
  BY <1>2, CloseTypes
<1> QED
  BY <1>1, <1>3

LEMMA ReadPayloadIInv == IInv /\ ReadPayload => IInv'
<1> SUFFICES ASSUME IInv, ReadPayload PROVE IInv'
  OBVIOUS
<1> DEFINE bytes == Returned(up[peer], Page)
           b == up[peer].bytes
           r == up[peer].read
<1>0. /\ server = "payload" /\ up' = [up EXCEPT ![peer] = After(@, bytes)]
      /\ UNCHANGED <<cuts, conn, made, client, got, misread, peer>>
      /\ \/ /\ Len(bytes) = Page /\ server' = "header"
            /\ handled' = Append(handled, <<peer, bytes>>) /\ down' = down
         \/ Die /\ handled' = handled
  BY DEF ReadPayload, clientVars
<1>1. TypeOK /\ peer \in Runs /\ PipesOK(down) /\ Page \in Nat /\ Page >= 1
  BY <1>0, TypesGiven, ConstantsInNat DEF IInv, TypeOK
<1>2. /\ b \in Seq(Byte) /\ r \in 0 .. Len(b) /\ Written(b, made[peer])
      /\ made[peer] \in Seq({"0x51", "0x56"})
      /\ bytes \in Seq(Byte) /\ r + Len(bytes) <= Len(b)
      /\ \A j \in 1 .. Len(bytes) : bytes[j] = b[r + j]
      /\ up'[peer].bytes = b /\ up'[peer].read = r + Len(bytes)
      /\ PipesOK(up') /\ AllWritten'
      /\ \A c \in Runs : c > peer => up'[c].read = 0
  BY <1>0, <1>1, ReadBy
<1>3. r # 0 /\ b[r][1] = "0x51" /\ b[r][3] = Header /\ LastHandled(peer, b[r][2] - 1)
  BY <1>0 DEF IInv, Reading
<1> HIDE DEF bytes, b, r
<1>4. CASE /\ Len(bytes) = Page /\ server' = "header"
           /\ handled' = Append(handled, <<peer, bytes>>) /\ down' = down
  <2>0. PICK n : n = b[r][2]
    OBVIOUS
  <2>1. r \in 1 .. Len(b) /\ r \in Nat
    BY <1>2, <1>3
  <2>2. /\ n \in 1 .. Len(made[peer]) /\ made[peer][n] = "0x51"
        /\ \A j \in 1 .. Page : bytes[j] = <<"0x51", n, Header + j>>
        /\ b[r + Page] = <<"0x51", n, Header + Page>>
        /\ bytes = SubSeq(Message("0x51", n, Header + Page), Header + 1, Header + Page)
    <3>1. /\ Len(bytes) = Page /\ r + Page <= Len(b)
          /\ \A j \in 1 .. Page : bytes[j] = b[r + j]
      BY <1>2, <1>4
    <3>2. /\ b[r][2] \in 1 .. Len(made[peer]) /\ made[peer][b[r][2]] = "0x51"
          /\ \A j \in 1 .. Page : bytes[j] = <<"0x51", b[r][2], Header + j>>
          /\ b[r + Page] = <<"0x51", b[r][2], Header + Page>>
          /\ bytes = SubSeq(Message("0x51", b[r][2], Header + Page), Header + 1, Header + Page)
      BY <1>2, <1>3, <2>1, <3>1, PageIs
    <3> QED
      BY <2>0, <3>2
  <2>3. LastHandled(peer, n - 1)
    BY <1>3, <2>0
  <2>4. bytes = Given(peer, n) /\ bytes[1][2] = n
    <3>1. bytes = Given(peer, n)
      BY <2>2 DEF Given
    <3>2. bytes[1] = <<"0x51", n, Header + 1>>
      <4>1. 1 \in 1 .. Page
        BY <1>1
      <4> QED
        BY <4>1, <2>2
    <3> QED
      BY <3>1, <3>2
  <2>5. /\ handled' \in Seq(Runs \X Seq(Byte)) /\ handled' # <<>>
        /\ (ConnOf(Len(handled)))' = peer /\ LastHandled(peer, n)' /\ InOrder'
    <3>1. /\ server \in {"header", "payload"} /\ bytes \in Seq(Byte)
          /\ n \in 1 .. Len(made[peer]) /\ UNCHANGED <<made, peer>>
          /\ handled' = Append(handled, <<peer, bytes>>)
      BY <1>0, <1>2, <1>4, <2>2
    <3> QED
      BY <3>1, <2>3, <2>4, HandledNext
  <2>6. TypeOK'
    BY <1>0, <1>1, <1>2, <1>4, <2>5 DEF TypeOK
  <2>7. Waiting'
    <3>1. peer' = peer /\ peer <= peer
      BY <1>0, <1>1, TypesGiven
    <3> QED
      BY <3>1, <1>2, <2>5 DEF Waiting
  <2>8. Reading'
    <3>1. SizeOf("0x51") = Header + Page
      BY DEF SizeOf
    <3>2. /\ up'[peer].read = r + Page /\ r + Page # 0
          /\ up'[peer].bytes[r + Page] = <<"0x51", n, Header + Page>>
      BY <1>1, <1>2, <1>4, <2>1, <2>2
    <3>3. server' = "header" /\ peer' = peer
      BY <1>0, <1>4
    <3>4. LastHandled(peer, n)'
      BY <2>5
    <3> QED
      BY <3>1, <3>2, <3>3, <3>4 DEF Reading, LastHandled
  <2> QED
    BY <1>2, <2>5, <2>6, <2>7, <2>8 DEF IInv
<1>5. CASE Die /\ handled' = handled
  <2>1. /\ server' = "exit" /\ down' = [c \in Runs |-> [down[c] EXCEPT !.closed = TRUE]]
    BY <1>5 DEF Die
  <2>2. PipesOK(down')
    BY <1>1, <2>1, DieTypes
  <2>3. TypeOK'
    BY <1>0, <1>1, <1>2, <1>5, <2>1, <2>2 DEF TypeOK
  <2> QED
    BY <1>0, <1>2, <1>5, <2>1, <2>3, Stopped
<1> QED
  BY <1>0, <1>4, <1>5

LEMMA ReadHeaderIInv == IInv /\ ReadHeader => IInv'
<1> SUFFICES ASSUME IInv, ReadHeader PROVE IInv'
  OBVIOUS
<1> DEFINE bytes == Returned(up[peer], Header)
           b == up[peer].bytes
           r == up[peer].read
<1>0. /\ server = "header" /\ up' = [up EXCEPT ![peer] = After(@, bytes)]
      /\ UNCHANGED <<cuts, conn, made, client, got, misread, peer>>
      /\ \/ HangUp /\ down' = [down EXCEPT ![peer].closed = TRUE] /\ handled' = handled
         \/ /\ Len(bytes) = Header /\ bytes = Message("0x51", bytes[1][2], Header)
            /\ server' = "payload" /\ down' = down /\ handled' = handled
         \/ /\ Len(bytes) = Header /\ bytes = Message("0x56", bytes[1][2], Header)
            /\ Answer(bytes) /\ server' = server
         \/ Die /\ handled' = handled
  BY DEF ReadHeader, clientVars
<1>1. TypeOK /\ peer \in Runs /\ peer \in Nat /\ PipesOK(down) /\ Header \in Nat /\ Header >= 1
  BY <1>0, TypesGiven, ConstantsInNat DEF IInv, TypeOK
<1>2. /\ b \in Seq(Byte) /\ r \in 0 .. Len(b) /\ Written(b, made[peer])
      /\ made[peer] \in Seq({"0x51", "0x56"})
      /\ bytes \in Seq(Byte) /\ r + Len(bytes) <= Len(b)
      /\ \A j \in 1 .. Len(bytes) : bytes[j] = b[r + j]
      /\ up'[peer].bytes = b /\ up'[peer].read = r + Len(bytes)
      /\ PipesOK(up') /\ AllWritten'
      /\ \A c \in Runs : c > peer => up'[c].read = 0
  BY <1>0, <1>1, ReadBy
<1>3. IF r = 0 THEN LastHandled(peer, 0)
      ELSE b[r][3] = SizeOf(b[r][1]) /\ LastHandled(peer, b[r][2])
  BY <1>0 DEF IInv, Reading
<1> HIDE DEF bytes, b, r
<1>4. PICK n \in Nat : n = IF r = 0 THEN 1 ELSE b[r][2] + 1
  <2>1. ASSUME r # 0 PROVE b[r][2] \in Nat
    <3>1. r \in 1 .. Len(b)
      BY <2>1, <1>2
    <3>2. b[r] \in Byte
      BY <3>1, <1>2
    <3> QED
      BY <3>2 DEF Byte
  <2> QED
    BY <2>1
<1>5. ASSUME Len(bytes) = Header
      PROVE  /\ n \in 1 .. Len(made[peer]) /\ LastHandled(peer, n - 1)
             /\ b[r + Header] = <<made[peer][n], n, Header>>
             /\ bytes[1] = <<made[peer][n], n, 1>>
             /\ bytes = Message(made[peer][n], n, Header)
  <2>1. /\ r + Header <= Len(b) /\ \A j \in 1 .. Header : bytes[j] = b[r + j]
        /\ BeginsAfter(b, r, n)
    BY <1>2, <1>3, <1>4, <1>5 DEF BeginsAfter
  <2>2. /\ n \in 1 .. Len(made[peer])
        /\ \A j \in 1 .. Header : bytes[j] = <<made[peer][n], n, j>>
        /\ b[r + Header] = <<made[peer][n], n, Header>>
        /\ bytes = Message(made[peer][n], n, Header)
    <3> DEFINE asked == made[peer]
    <3>1. /\ b \in Seq(Byte) /\ asked \in Seq({"0x51", "0x56"}) /\ Written(b, asked)
          /\ r \in 0 .. Len(b) /\ bytes \in Seq(Byte) /\ Len(bytes) = Header
      BY <1>2, <1>5
    <3> HIDE DEF asked
    <3>2. /\ n \in 1 .. Len(asked)
          /\ \A j \in 1 .. Header : bytes[j] = <<asked[n], n, j>>
          /\ b[r + Header] = <<asked[n], n, Header>>
          /\ bytes = Message(asked[n], n, Header)
      BY <2>1, <3>1, HeaderIs
    <3> QED
      BY <3>2 DEF asked
  <2>4. 1 \in 1 .. Header
    BY <1>1
  <2>5. LastHandled(peer, n - 1)
    <3>1. CASE r = 0
      <4>1. n - 1 = 0
        BY <3>1, <1>4
      <4> QED
        BY <3>1, <4>1, <1>3
    <3>2. CASE r # 0
      <4>1. b[r][2] \in Nat
        <5>1. r \in 1 .. Len(b)
          BY <3>2, <1>2
        <5>2. b[r] \in Byte
          BY <5>1, <1>2
        <5> QED
          BY <5>2 DEF Byte
      <4>2. n - 1 = b[r][2]
        BY <3>2, <4>1, <1>4
      <4> QED
        BY <3>2, <4>2, <1>3
    <3> QED
      BY <3>1, <3>2
  <2> QED
    BY <2>2, <2>4, <2>5
<1>6. CASE HangUp /\ down' = [down EXCEPT ![peer].closed = TRUE] /\ handled' = handled
  <2>1. server' = "accept"
    BY <1>6 DEF HangUp
  <2>2. PipesOK(down')
    <3>1. down' = [c \in Runs |-> IF c \in {peer} THEN [down[c] EXCEPT !.closed = TRUE] ELSE down[c]]
      BY <1>1, <1>6 DEF PipesOK
    <3>2. {peer} \in SUBSET Runs
      BY <1>1
    <3>3. PipesOK([c \in Runs |-> IF c \in {peer} THEN [down[c] EXCEPT !.closed = TRUE] ELSE down[c]])
      BY <3>2, <1>1, CloseTypes
    <3> QED
      BY <3>1, <3>3
  <2>3. TypeOK'
    BY <1>0, <1>1, <1>2, <1>6, <2>1, <2>2 DEF TypeOK
  <2> QED
    BY <1>0, <1>2, <1>6, <2>1, <2>3, Stopped
<1>7. CASE /\ Len(bytes) = Header /\ bytes = Message("0x51", bytes[1][2], Header)
           /\ server' = "payload" /\ down' = down /\ handled' = handled
  <2>1. /\ n \in 1 .. Len(made[peer]) /\ LastHandled(peer, n - 1)
        /\ b[r + Header] = <<made[peer][n], n, Header>>
        /\ bytes[1] = <<made[peer][n], n, 1>>
    BY <1>5, <1>7
  <2>2. made[peer][n] = "0x51"
    <3>1. bytes[1] = <<"0x51", bytes[1][2], 1>>
      <4>1. 1 \in 1 .. Header /\ n \in Nat /\ bytes[1][2] = n
        BY <1>1, <2>1
      <4>2. bytes = [i \in 1 .. Header |-> <<"0x51", n, i>>]
        BY <1>7, <4>1 DEF Message
      <4> QED
        BY <4>1, <4>2
    <3> QED
      BY <2>1, <3>1
  <2>3. TypeOK'
    BY <1>0, <1>1, <1>2, <1>7 DEF TypeOK
  <2>4. Waiting'
    BY <1>0, <1>2, <1>7 DEF IInv, Waiting, ConnOf
  <2>5. Reading'
    <3>1. /\ up'[peer].read = r + Header /\ r + Header # 0
          /\ up'[peer].bytes[r + Header] = <<"0x51", n, Header>>
      BY <1>1, <1>2, <1>7, <2>1, <2>2
    <3>2. LastHandled(peer, n - 1)'
      BY <1>0, <1>7, <2>1 DEF LastHandled, ConnOf, NumberOf
    <3>3. server' = "payload" /\ peer' = peer
      BY <1>0, <1>7
    <3> QED
      BY <3>1, <3>2, <3>3 DEF Reading, LastHandled
  <2>6. InOrder'
    BY <1>0, <1>7 DEF IInv, InOrder, ConnOf, NumberOf, Given
  <2> QED
    BY <1>2, <2>3, <2>4, <2>5, <2>6 DEF IInv
<1>8. CASE /\ Len(bytes) = Header /\ bytes = Message("0x56", bytes[1][2], Header)
           /\ Answer(bytes) /\ server' = server
  <2>1. /\ n \in 1 .. Len(made[peer]) /\ LastHandled(peer, n - 1)
        /\ b[r + Header] = <<made[peer][n], n, Header>>
        /\ bytes[1] = <<made[peer][n], n, 1>>
        /\ bytes = Message(made[peer][n], n, Header)
    BY <1>5, <1>8
  <2>2. made[peer][n] = "0x56"
    <3>1. bytes[1] = <<"0x56", bytes[1][2], 1>>
      <4>1. 1 \in 1 .. Header /\ n \in Nat /\ bytes[1][2] = n
        BY <1>1, <2>1
      <4>2. bytes = [i \in 1 .. Header |-> <<"0x56", n, i>>]
        BY <1>8, <4>1 DEF Message
      <4> QED
        BY <4>1, <4>2
    <3> QED
      BY <2>1, <3>1
  <2>3. bytes = Given(peer, n) /\ bytes[1][2] = n
    BY <2>1, <2>2 DEF Given
  <2>4. /\ handled' = Append(handled, <<peer, bytes>>)
        /\ down' = [down EXCEPT ![peer] = Write(@, Message("reply", Len(handled) + 1, Reply))]
    BY <1>8 DEF Answer
  <2>5. /\ handled' \in Seq(Runs \X Seq(Byte)) /\ handled' # <<>>
        /\ (ConnOf(Len(handled)))' = peer /\ LastHandled(peer, n)' /\ InOrder'
    <3>1. /\ server \in {"header", "payload"} /\ bytes \in Seq(Byte)
          /\ n \in 1 .. Len(made[peer]) /\ UNCHANGED <<made, peer>>
      BY <1>0, <1>2, <2>1
    <3> QED
      BY <3>1, <2>1, <2>3, <2>4, HandledNext
  <2>6. PipesOK(down')
    <3>1. Len(handled) + 1 \in Nat
      BY <1>1, TypesGiven
    <3> QED
      BY <3>1, <2>4, <1>1, ReplyTypes
  <2>7. TypeOK'
    BY <1>0, <1>1, <1>2, <1>8, <2>5, <2>6 DEF TypeOK
  <2>8. Waiting'
    <3>1. peer' = peer /\ peer <= peer
      BY <1>0, <1>1
    <3> QED
      BY <3>1, <1>2, <2>5 DEF Waiting
  <2>9. Reading'
    <3>1. SizeOf("0x56") = Header
      BY DEF SizeOf
    <3>2. /\ up'[peer].read = r + Header /\ r + Header # 0
          /\ up'[peer].bytes[r + Header] = <<"0x56", n, Header>>
      BY <1>1, <1>2, <1>8, <2>1, <2>2
    <3>3. server' = "header" /\ peer' = peer
      BY <1>0, <1>8
    <3>4. LastHandled(peer, n)'
      BY <2>5
    <3> QED
      BY <3>1, <3>2, <3>3, <3>4 DEF Reading, LastHandled
  <2> QED
    BY <1>2, <2>5, <2>7, <2>8, <2>9 DEF IInv
<1>9. CASE Die /\ handled' = handled
  <2>1. /\ server' = "exit" /\ down' = [c \in Runs |-> [down[c] EXCEPT !.closed = TRUE]]
    BY <1>9 DEF Die
  <2>2. PipesOK(down')
    BY <1>1, <2>1, DieTypes
  <2>3. TypeOK'
    BY <1>0, <1>1, <1>2, <1>9, <2>1, <2>2 DEF TypeOK
  <2> QED
    BY <1>0, <1>2, <1>9, <2>1, <2>3, Stopped
<1> QED
  BY <1>0, <1>6, <1>7, <1>8, <1>9

LEMMA NextIInv == IInv /\ [Next]_vars => IInv'
<1> SUFFICES ASSUME IInv, [Next]_vars PROVE IInv'
  OBVIOUS
<1>1. CASE UNCHANGED vars
  <2>1. TypeOK'
    BY <1>1 DEF IInv, TypeOK, PipesOK, vars
  <2> QED
    BY <1>1, <2>1, Quiet DEF vars
<1>2. CASE Next
  BY <1>2, SendIInv, AskIInv, ReceiveIInv, CloseIInv, OpenIInv, ArriveIInv,
     AcceptIInv, ReadHeaderIInv, ReadPayloadIInv DEF Next, Serve
<1> QED
  BY <1>1, <1>2

-----------------------------------------------------------------------------
(* The theorems                                                            *)

LEMMA SpecIInv == Spec => []IInv
<1>1. Init => IInv
  BY InitIInv
<1>2. IInv /\ [Next]_vars => IInv'
  BY NextIInv
<1> QED
  BY <1>1, <1>2, PTL DEF Spec

\* Every variable of the two processes and of the pipes between them keeps its
\* type, and neither read() of usb-hook.c nor those of netserver.c return what has
\* not arrived.
THEOREM SpecTypeOK == Spec => []TypeOK
<1>1. IInv => TypeOK
  BY DEF IInv
<1> QED
  BY <1>1, SpecIInv, PTL

\* The loop of netserver.c handles whole requests, once each, in the order in which
\* they were made, those of one client before those of the next, for every size of
\* the messages and number of the requests, and however TCP cuts them.
THEOREM SpecInOrder == Spec => []InOrder
<1>1. IInv => InOrder
  BY DEF IInv
<1> QED
  BY <1>1, SpecIInv, PTL

-----------------------------------------------------------------------------
(* The replies                                                             *)

\* The client that runs now: its requests have been handled up to number k.
Made == Len(made[conn])
HandledTo(k) == handled # <<>> /\ ConnOf(Len(handled)) = conn /\ NumberOf(Len(handled)) >= k

\* As long as no reply was cut, every request 0x56 but the one that the client waits
\* for has had its reply, and the pipe holds the one that it waits for or nothing.
PastOK ==
  \A k \in 1 .. Made : made[conn][k] = "0x56" /\ (k < Made \/ client = "idle") => HandledTo(k)

PipeOK ==
  /\ client = "asked" => Made > 0 /\ made[conn][Made] = "0x56"
  /\ IF client = "asked" /\ HandledTo(Made)
       THEN /\ Len(down[conn].bytes) = down[conn].read + Reply
            /\ \A i \in 1 .. Reply : down[conn].bytes[down[conn].read + i] = <<"reply", Len(handled), i>>
       ELSE Len(down[conn].bytes) = down[conn].read

GotOK ==
  client = "idle" /\ Made > 0 /\ made[conn][Made] = "0x56" => got = Message("reply", Len(handled), Reply)

ReplyOK == client # "closed" /\ ~misread => PastOK /\ PipeOK /\ GotOK

\* Nothing has been said on the connections to come.
LaterOK == \A c \in Runs : c > conn => made[c] = <<>> /\ down[c].bytes = <<>>

\* Byte k ends a request, or nothing has come before it.
EndsAt(b, k) == k = 0 \/ b[k][3] = SizeOf(b[k][1])

\* What is not cut arrives request by request and reply by reply, and then the server
\* hangs up on a client that has closed only.
UncutOK ==
  ~cuts =>
    /\ ~misread /\ server # "exit"
    /\ \A c \in Runs : EndsAt(up[c].bytes, up[c].arrived)
    /\ \A c \in Runs : up[c].closed => c < conn \/ (c = conn /\ client = "closed")
    /\ \A c \in Runs : c > conn \/ (c = conn /\ client # "closed") => ~down[c].closed
    /\ client # "closed" => down[conn].arrived \in {down[conn].read, Len(down[conn].bytes)}

RInv == IInv /\ LaterOK /\ ReplyOK /\ UncutOK

LEMMA SaidGiven ==
  ASSUME IInv
  PROVE  /\ Len(handled) \in Nat /\ Made \in Nat
         /\ handled # <<>> => /\ Len(handled) >= 1 /\ ConnOf(Len(handled)) \in Runs
                              /\ NumberOf(Len(handled)) \in 1 .. Len(made[ConnOf(Len(handled))])
                              /\ ConnOf(Len(handled)) <= peer
         /\ \A c \in Runs : /\ Len(made[c]) \in Nat /\ Len(down[c].bytes) \in Nat
                            /\ down[c].read \in Nat
                            /\ down[c].read <= down[c].arrived /\ down[c].arrived <= Len(down[c].bytes)
<1>1. TypeOK /\ InOrder /\ Waiting
  BY DEF IInv
<1>2. handled \in Seq(Runs \X Seq(Byte)) /\ made \in [Runs -> Seq({"0x51", "0x56"})] /\ conn \in Runs
  BY <1>1, TypesGiven
<1>3. ASSUME handled # <<>>
      PROVE  /\ Len(handled) >= 1 /\ ConnOf(Len(handled)) \in Runs
             /\ NumberOf(Len(handled)) \in 1 .. Len(made[ConnOf(Len(handled))])
             /\ ConnOf(Len(handled)) <= peer
  BY <1>1, <1>2, <1>3 DEF InOrder, ConnOf, Waiting
<1> QED
  BY <1>1, <1>2, <1>3, TypesGiven DEF Made

\* The server handles request n of its client: a 0x51, or a 0x56 and its reply.
Answers(n) ==
  /\ Len(handled') = Len(handled) + 1 /\ handled' # <<>>
  /\ ConnOf(Len(handled))' = peer /\ NumberOf(Len(handled))' = n
  /\ LastHandled(peer, n - 1)
  /\ \A c \in Runs : c # peer => down'[c].bytes = down[c].bytes
  /\ \/ made[peer][n] = "0x51" /\ down'[peer].bytes = down[peer].bytes
     \/ /\ made[peer][n] = "0x56"
        /\ Len(down'[peer].bytes) = Len(down[peer].bytes) + Reply
        /\ \A i \in 1 .. Reply :
             down'[peer].bytes[Len(down[peer].bytes) + i] = <<"reply", Len(handled'), i>>

LEMMA HandledOne ==
  ASSUME IInv, IInv', server \in {"header", "payload"}, UNCHANGED <<made, peer>>,
         NEW bytes \in Seq(Byte), handled' = Append(handled, <<peer, bytes>>)
  PROVE  \E n \in 1 .. Len(made[peer]) :
           /\ Len(handled') = Len(handled) + 1 /\ handled' # <<>>
           /\ ConnOf(Len(handled))' = peer /\ NumberOf(Len(handled))' = n
           /\ LastHandled(peer, n - 1)
           /\ bytes = Given(peer, n)
<1>1. TypeOK /\ InOrder' /\ Waiting /\ peer \in Runs /\ peer \in Nat
  BY TypesGiven DEF IInv
<1>2. handled \in Seq(Runs \X Seq(Byte)) /\ Len(handled) \in Nat
  BY <1>1, TypesGiven
<1>3. /\ Len(handled') = Len(handled) + 1 /\ handled' # <<>>
      /\ handled'[Len(handled) + 1] = <<peer, bytes>>
      /\ \A i \in 1 .. Len(handled) : handled'[i] = handled[i]
  BY <1>2
<1> DEFINE n == NumberOf(Len(handled))'
<1>4. ConnOf(Len(handled))' = peer
  BY <1>3 DEF ConnOf
<1>5. /\ n \in 1 .. Len(made[peer]) /\ bytes = Given(peer, n)
      /\ n = IF Len(handled) >= 1 /\ ConnOf(Len(handled)) = peer THEN NumberOf(Len(handled)) + 1 ELSE 1
  <2> DEFINE i == Len(handled) + 1
  <2>1. i \in 1 .. Len(handled') /\ i = Len(handled') /\ i - 1 = Len(handled)
    BY <1>2, <1>3, SMTT(30)
  <2>2. /\ handled'[i][2][1][2] \in 1 .. Len(made[handled'[i][1]])
        /\ handled'[i][2] = Given(handled'[i][1], handled'[i][2][1][2])
        /\ handled'[i][2][1][2] = IF i > 1 /\ handled'[i - 1][1] = handled'[i][1]
                                   THEN handled'[i - 1][2][1][2] + 1 ELSE 1
    BY <1>1, <2>1 DEF InOrder, ConnOf, NumberOf, Given
  <2>3. n = handled'[i][2][1][2] /\ handled'[i][1] = peer /\ handled'[i][2] = bytes
    BY <1>3, <2>1 DEF NumberOf
  <2>4. Len(handled) >= 1 => handled'[Len(handled)] = handled[Len(handled)]
    BY <1>2, <1>3
  <2>5. i > 1 <=> Len(handled) >= 1
    BY <1>2
  <2> HIDE DEF i, n
  <2>6. n \in 1 .. Len(made[peer]) /\ bytes = Given(peer, n)
    <3>1. n \in 1 .. Len(made[peer])
      BY <2>2, <2>3
    <3>2. Given(handled'[i][1], handled'[i][2][1][2]) = Given(peer, n)
      BY <2>3
    <3> QED
      BY <2>2, <2>3, <3>1, <3>2
  <2>7. n = IF Len(handled) >= 1 /\ handled[Len(handled)][1] = peer
              THEN handled[Len(handled)][2][1][2] + 1 ELSE 1
    BY <2>1, <2>2, <2>3, <2>4, <2>5
  <2> QED
    BY <2>6, <2>7 DEF ConnOf, NumberOf
<1>6. LastHandled(peer, n - 1)
  <2> HIDE DEF n
  <2>1. CASE handled # <<>> /\ ConnOf(Len(handled)) = peer
    <3>1. Len(handled) >= 1 /\ NumberOf(Len(handled)) \in 1 .. Len(made[peer])
      BY <2>1, SaidGiven
    <3>2. n - 1 = NumberOf(Len(handled)) /\ n - 1 # 0
      BY <2>1, <3>1, <1>5, SaidGiven
    <3> QED
      BY <2>1, <3>2 DEF LastHandled
  <2>2. CASE handled = <<>> \/ ConnOf(Len(handled)) # peer
    <3>1. n = 1
      BY <1>2, <1>5, <2>2
    <3>2. handled # <<>> => ConnOf(Len(handled)) < peer
      BY <1>1, <2>2, SaidGiven DEF Runs
    <3> QED
      BY <3>1, <3>2 DEF LastHandled
  <2> QED
    BY <2>1, <2>2
<1> QED
  BY <1>3, <1>4, <1>5, <1>6

LEMMA GivenStarts ==
  ASSUME NEW c \in Runs, NEW n \in Nat
  PROVE  /\ made[c][n] = "0x56" => Given(c, n)[1][1] = "0x56" /\ Given(c, n)[1][3] = 1
         /\ made[c][n] # "0x56" => Given(c, n)[1][1] = "0x51" /\ Given(c, n)[1][3] = Header + 1
<1>1. CASE made[c][n] = "0x56"
  <2>1. Message("0x56", n, Header)[1] = <<"0x56", n, 1>>
    <3>1. 1 \in 1 .. Header
      BY ConstantsInNat
    <3> QED
      BY <3>1, MessageIs, ConstantsInNat
  <2> QED
    BY <1>1, <2>1 DEF Given
<1>2. CASE made[c][n] # "0x56"
  <2>1. /\ Message("0x51", n, Header + Page) \in Seq(Byte)
        /\ Len(Message("0x51", n, Header + Page)) = Header + Page
        /\ Message("0x51", n, Header + Page)[Header + 1] = <<"0x51", n, Header + 1>>
    <3>1. Header + Page \in Nat /\ Header + 1 \in 1 .. Header + Page
      BY ConstantsInNat
    <3> QED
      BY <3>1, MessageIs
  <2>2. SubSeq(Message("0x51", n, Header + Page), Header + 1, Header + Page)[1]
          = Message("0x51", n, Header + Page)[Header + 1]
    BY <2>1, ConstantsInNat, SubSeqIs
  <2>3. Given(c, n)[1] = <<"0x51", n, Header + 1>>
    BY <1>2, <2>1, <2>2 DEF Given
  <2> QED
    BY <1>2, <2>3
<1> QED
  BY <1>1, <1>2

LEMMA ClosingIs ==
  ASSUME TypeOK, NEW c \in Runs
  PROVE  /\ [down[c] EXCEPT !.closed = TRUE].bytes = down[c].bytes
         /\ [down[c] EXCEPT !.closed = TRUE].read = down[c].read
         /\ [down[c] EXCEPT !.closed = TRUE].arrived = down[c].arrived
         /\ \A d \in Runs : /\ [down EXCEPT ![d].closed = TRUE][c].bytes = down[c].bytes
                            /\ [down EXCEPT ![d].closed = TRUE][c].read = down[c].read
                            /\ [down EXCEPT ![d].closed = TRUE][c].arrived = down[c].arrived
                            /\ c # d => [down EXCEPT ![d].closed = TRUE][c].closed = down[c].closed
<1>1. down \in [Runs -> Pipe] /\ down[c] \in Pipe
  BY TypesGiven
<1> QED
  BY <1>1 DEF Pipe

LEMMA Serves ==
  ASSUME IInv, IInv', ReadHeader \/ ReadPayload
  PROVE  /\ server \in {"header", "payload"} /\ peer \in Runs
         /\ UNCHANGED <<cuts, conn, made, client, got, misread, peer>>
         /\ \A c \in Runs : down'[c].read = down[c].read
         /\ \/ handled' = handled /\ \A c \in Runs : down'[c].bytes = down[c].bytes
            \/ \E n \in 1 .. Len(made[peer]) : Answers(n)
<1>1. TypeOK /\ peer \in Runs /\ server \in {"header", "payload"} /\ down \in [Runs -> Pipe]
  <2>1. server \in {"header", "payload"}
    BY DEF ReadHeader, ReadPayload
  <2> QED
    BY <2>1, TypesGiven DEF IInv
<1>2. UNCHANGED <<cuts, conn, made, client, got, misread, peer>>
  BY DEF ReadHeader, ReadPayload, clientVars
<1>3. CASE ReadHeader
  <2> DEFINE bytes == Returned(up[peer], Header)
  <2>1. bytes \in Seq(Byte)
    BY <1>1, TypesGiven, ReturnedIs, ConstantsInNat DEF Pipe
  <2>2. \/ /\ down' = [down EXCEPT ![peer].closed = TRUE] \/ down' = down \/ Die
           /\ handled' = handled
        \/ /\ Len(bytes) = Header /\ bytes = Message("0x56", bytes[1][2], Header)
           /\ Answer(bytes)
    BY <1>3 DEF ReadHeader
  <2> HIDE DEF bytes
  <2>3. CASE /\ down' = [down EXCEPT ![peer].closed = TRUE] \/ down' = down \/ Die
             /\ handled' = handled
    <3>1. \A c \in Runs : down'[c].read = down[c].read /\ down'[c].bytes = down[c].bytes
      BY <2>3, <1>1, ClosingIs DEF Die
    <3> QED
      BY <1>1, <1>2, <2>3, <3>1
  <2>4. CASE /\ Len(bytes) = Header /\ bytes = Message("0x56", bytes[1][2], Header)
             /\ Answer(bytes)
    <3>1. /\ handled' = Append(handled, <<peer, bytes>>)
          /\ down' = [down EXCEPT ![peer] = Write(@, Message("reply", Len(handled) + 1, Reply))]
      BY <2>4 DEF Answer
    <3>2. PICK n \in 1 .. Len(made[peer]) :
            /\ Len(handled') = Len(handled) + 1 /\ handled' # <<>>
            /\ ConnOf(Len(handled))' = peer /\ NumberOf(Len(handled))' = n
            /\ LastHandled(peer, n - 1)
            /\ bytes = Given(peer, n)
      BY <1>1, <1>2, <2>1, <3>1, HandledOne
    <3>3. bytes[1][1] = "0x56"
      <4>1. 1 \in 1 .. Header
        BY ConstantsInNat
      <4>2. bytes = [i \in 1 .. Header |-> <<"0x56", bytes[1][2], i>>]
        BY <2>4 DEF Message
      <4>3. bytes[1] = <<"0x56", bytes[1][2], 1>>
        BY <4>1, <4>2
      <4> QED
        BY <4>3
    <3>4. made[peer][n] = "0x56"
      BY <1>1, <3>2, <3>3, GivenStarts
    <3>5. Len(handled) + 1 \in Nat
      BY SaidGiven
    <3>6. /\ Message("reply", Len(handled) + 1, Reply) \in Seq(Byte)
          /\ Len(Message("reply", Len(handled) + 1, Reply)) = Reply
          /\ \A i \in 1 .. Reply : Message("reply", Len(handled) + 1, Reply)[i] = <<"reply", Len(handled) + 1, i>>
      BY <3>5, MessageIs, ConstantsInNat
    <3>7. down[peer] \in Pipe
      BY <1>1
    <3> DEFINE sent == Message("reply", Len(handled) + 1, Reply)
               new == Write(down[peer], sent)
    <3> HIDE DEF sent
    <3>8. /\ new.read = down[peer].read /\ Len(new.bytes) = Len(down[peer].bytes) + Len(sent)
          /\ \A j \in 1 .. Len(sent) : new.bytes[Len(down[peer].bytes) + j] = sent[j]
      BY <3>6, <3>7, WriteIs DEF Pipe, sent
    <3>9. down' = [down EXCEPT ![peer] = new]
      BY <3>1 DEF sent
    <3> HIDE DEF new
    <3>10. down'[peer] = new /\ \A c \in Runs : c # peer => down'[c] = down[c]
      BY <3>9, <1>1
    <3>11. \A c \in Runs : down'[c].read = down[c].read
      BY <3>8, <3>10
    <3>12. Answers(n)
      BY <3>2, <3>4, <3>6, <3>8, <3>10 DEF Answers, sent
    <3> QED
      BY <1>1, <1>2, <3>11, <3>12
  <2> QED
    BY <2>2, <2>3, <2>4
<1>4. CASE ReadPayload
  <2> DEFINE bytes == Returned(up[peer], Page)
  <2>1. \/ Die /\ handled' = handled
        \/ Len(bytes) = Page /\ handled' = Append(handled, <<peer, bytes>>) /\ down' = down
    BY <1>4 DEF ReadPayload
  <2>2. /\ bytes \in Seq(Byte) /\ up[peer].read + Len(bytes) <= Len(up[peer].bytes)
        /\ \A j \in 1 .. Len(bytes) : bytes[j] = up[peer].bytes[up[peer].read + j]
    <3>1. /\ up[peer] \in Pipe /\ up[peer].read <= up[peer].arrived
          /\ up[peer].arrived <= Len(up[peer].bytes) /\ up[peer].read \in Nat
          /\ up[peer].arrived \in Nat /\ up[peer].bytes \in Seq(Byte)
      BY <1>1, TypesGiven
    <3>2. /\ bytes \in Seq(Byte) /\ up[peer].read + Len(bytes) <= up[peer].arrived
          /\ \A j \in 1 .. Len(bytes) : bytes[j] = up[peer].bytes[up[peer].read + j]
      BY <3>1, ReturnedIs, ConstantsInNat DEF Pipe
    <3> QED
      BY <3>1, <3>2
  <2> HIDE DEF bytes
  <2>3. CASE Die /\ handled' = handled
    <3>1. \A c \in Runs : down'[c].read = down[c].read /\ down'[c].bytes = down[c].bytes
      BY <2>3, <1>1, ClosingIs DEF Die
    <3> QED
      BY <1>1, <1>2, <2>3, <3>1
  <2>4. CASE Len(bytes) = Page /\ handled' = Append(handled, <<peer, bytes>>) /\ down' = down
    <3>1. PICK n \in 1 .. Len(made[peer]) :
            /\ Len(handled') = Len(handled) + 1 /\ handled' # <<>>
            /\ ConnOf(Len(handled))' = peer /\ NumberOf(Len(handled))' = n
            /\ LastHandled(peer, n - 1)
            /\ bytes = Given(peer, n)
      BY <1>1, <1>2, <2>2, <2>4, HandledOne
    <3>2. bytes[1][1] = "0x51"
      <4> DEFINE b == up[peer].bytes  r == up[peer].read
      <4>1. r # 0 /\ b[r][1] = "0x51" /\ b[r][3] = Header
        BY <1>4 DEF ReadPayload, IInv, Reading
      <4>2. b \in Seq(Byte) /\ r \in 1 .. Len(b) /\ Written(b, made[peer]) /\ made[peer] \in Seq({"0x51", "0x56"})
        <5>1. /\ b \in Seq(Byte) /\ r \in Nat /\ up[peer].arrived \in Nat /\ r <= up[peer].arrived
              /\ up[peer].arrived <= Len(b) /\ made[peer] \in Seq({"0x51", "0x56"})
          BY <1>1, TypesGiven
        <5>2. Written(b, made[peer])
          BY <1>1 DEF IInv, AllWritten
        <5> HIDE DEF b, r
        <5> QED
          BY <4>1, <5>1, <5>2
      <4>3. Len(bytes) = Page /\ r + Page <= Len(b) /\ \A j \in 1 .. Page : bytes[j] = b[r + j]
        BY <2>2, <2>4
      <4> HIDE DEF b, r
      <4>4. \A j \in 1 .. Page : bytes[j] = <<"0x51", b[r][2], Header + j>>
        BY <4>1, <4>2, <4>3, <2>2, PageIs, ZenonT(60)
      <4>5. 1 \in 1 .. Page
        BY ConstantsInNat
      <4>6. bytes[1] = <<"0x51", b[r][2], Header + 1>>
        BY <4>4, <4>5
      <4> QED
        BY <4>6
    <3>3. made[peer][n] = "0x51"
      <4>1. made[peer] \in Seq({"0x51", "0x56"})
        BY <1>1, TypesGiven
      <4>2. made[peer][n] \in {"0x51", "0x56"}
        BY <4>1
      <4> QED
        BY <1>1, <3>1, <3>2, <4>2, GivenStarts
    <3>4. Answers(n)
      BY <2>4, <3>1, <3>3 DEF Answers
    <3> QED
      BY <1>1, <1>2, <2>4, <3>4
  <2> QED
    BY <2>1, <2>3, <2>4
<1> QED
  BY <1>3, <1>4

LEMMA LaterKeepsServe ==
  ASSUME IInv, IInv', LaterOK, ReadHeader \/ ReadPayload
  PROVE  LaterOK'
<1>1. peer \in Nat /\ conn \in Nat /\ peer <= conn
  BY TypesGiven DEF IInv
<1>2. conn' = conn /\ made' = made
  BY Serves
<1>3. ASSUME NEW c \in Runs, c > conn PROVE down'[c].bytes = down[c].bytes
  <2>1. c # peer
    BY <1>1, <1>3 DEF Runs
  <2> QED
    BY <2>1, Serves DEF Answers
<1> QED
  BY <1>2, <1>3 DEF LaterOK

LEMMA ServeKeepsReply ==
  ASSUME IInv, IInv', ReplyOK, ReadHeader \/ ReadPayload
  PROVE  ReplyOK'
<1>1. /\ peer \in Runs /\ peer \in Nat /\ conn \in Nat /\ peer <= conn /\ conn \in Runs
      /\ UNCHANGED <<conn, made, client, got, misread, peer>>
      /\ \A c \in Runs : down'[c].read = down[c].read
      /\ Made' = Made
  BY Serves, TypesGiven DEF IInv, Made
<1>2. Made \in Nat /\ Len(handled) \in Nat /\ Len(down[conn].bytes) \in Nat /\ down[conn].read \in Nat
  BY <1>1, SaidGiven
<1> SUFFICES ASSUME client # "closed", ~misread
             PROVE  ReplyOK'
  BY <1>1 DEF ReplyOK, PastOK, PipeOK, GotOK
<1>3. CASE handled' = handled /\ \A c \in Runs : down'[c].bytes = down[c].bytes
  <2>1. \A k : HandledTo(k)' = HandledTo(k)
    BY <1>1, <1>3 DEF HandledTo, ConnOf, NumberOf
  <2> QED
    BY <1>1, <1>3, <2>1 DEF ReplyOK, PastOK, PipeOK, GotOK
<1>4. CASE \E n \in 1 .. Len(made[peer]) : Answers(n)
  <2>1. PICK n \in 1 .. Len(made[peer]) : Answers(n)
    BY <1>4
  <2>2. CASE peer # conn
    <3>1. \A k : ~HandledTo(k) /\ ~HandledTo(k)'
      <4>1. handled # <<>> => ConnOf(Len(handled)) \in Runs /\ ConnOf(Len(handled)) <= peer
        BY SaidGiven
      <4>2. handled # <<>> => ConnOf(Len(handled)) # conn
        BY <1>1, <2>2, <4>1 DEF Runs
      <4>3. ConnOf(Len(handled))' # conn'
        BY <1>1, <2>1, <2>2 DEF Answers
      <4> QED
        BY <4>2, <4>3 DEF HandledTo
    <3>2. down'[conn].bytes = down[conn].bytes /\ down'[conn].read = down[conn].read
      BY <1>1, <2>1, <2>2 DEF Answers
    <3>3. ~(client = "idle" /\ Made > 0 /\ made[conn][Made] = "0x56")
      BY <1>2, <3>1 DEF ReplyOK, PastOK, PipeOK, GotOK
    <3> QED
      BY <1>1, <3>1, <3>2, <3>3 DEF ReplyOK, PastOK, PipeOK, GotOK
  <2>3. CASE peer = conn
    <3>1. n \in 1 .. Made /\ n \in Nat
      BY <2>1, <2>3, <1>2 DEF Made
    <3>2. \A k \in Nat : HandledTo(k)' <=> k <= n
      BY <1>1, <2>1, <2>3, <3>1 DEF Answers, HandledTo
    <3>3. \A k \in Nat : HandledTo(k) => k <= n - 1
      <4>1. LastHandled(conn, n - 1)
        BY <2>1, <2>3 DEF Answers
      <4>2. handled # <<>> /\ ConnOf(Len(handled)) = conn => n - 1 # 0 /\ NumberOf(Len(handled)) = n - 1
        BY <4>1, <1>1 DEF LastHandled
      <4> QED
        BY <3>1, <4>2 DEF HandledTo
    <3>4. \A k \in Nat : HandledTo(k) => HandledTo(k)'
      BY <3>1, <3>2, <3>3
    <3>5. CASE made[peer][n] = "0x56"
      <4>1. client = "asked" /\ n = Made
        <5>1. ~HandledTo(n)
          BY <3>1, <3>3
        <5> QED
          <6>1. client \in {"idle", "asked"}
            BY DEF IInv, TypeOK
          <6>2. PastOK /\ made[conn][n] = "0x56" /\ n <= Made
            BY <1>2, <2>3, <3>1, <3>5 DEF ReplyOK
          <6>3. ~(n < Made \/ client = "idle")
            BY <3>1, <5>1, <6>2 DEF PastOK
          <6> QED
            BY <1>2, <3>1, <6>1, <6>2, <6>3
      <4>2. ~HandledTo(Made) /\ HandledTo(Made)'
        <5>1. HandledTo(n)' /\ ~HandledTo(n)
          BY <3>1, <3>2, <3>3
        <5> QED
          BY <1>1, <4>1, <5>1 DEF HandledTo, ConnOf, NumberOf
      <4>3. Len(down[conn].bytes) = down[conn].read
        BY <4>1, <4>2 DEF ReplyOK, PastOK, PipeOK, GotOK
      <4>4. /\ Len(down'[conn].bytes) = Len(down[conn].bytes) + Reply
            /\ \A i \in 1 .. Reply :
                 down'[conn].bytes[Len(down[conn].bytes) + i] = <<"reply", Len(handled'), i>>
        BY <2>1, <2>3, <3>5 DEF Answers
      <4>5. \A k \in 1 .. Made : HandledTo(k)'
        BY <1>2, <3>2, <4>1
      <4> QED
        BY <1>1, <1>2, <4>1, <4>2, <4>3, <4>4, <4>5 DEF ReplyOK, PastOK, PipeOK, GotOK
    <3>6. CASE made[peer][n] = "0x51"
      <4>1. \A c \in Runs : down'[c].bytes = down[c].bytes
        BY <2>1, <3>6 DEF Answers
      <4>2. \A k \in 1 .. Made : made[conn][k] = "0x56" /\ (k < Made \/ client = "idle") => HandledTo(k)'
        BY <1>2, <3>4 DEF ReplyOK, PastOK, PipeOK, GotOK
      <4>3. client = "asked" => made[conn][Made] = "0x56" /\ n # Made /\ ~HandledTo(Made) /\ ~HandledTo(Made)'
        <5> SUFFICES ASSUME client = "asked"
                     PROVE  made[conn][Made] = "0x56" /\ n # Made /\ ~HandledTo(Made) /\ ~HandledTo(Made)'
          OBVIOUS
        <5>1. made[conn][Made] = "0x56"
          BY DEF ReplyOK, PipeOK
        <5>2. n # Made
          BY <2>3, <3>6, <5>1
        <5>3. n < Made
          BY <1>2, <3>1, <5>2
        <5>4. ~HandledTo(Made)
          BY <1>2, <3>1, <3>3, <5>3
        <5>5. ~HandledTo(Made)'
          BY <1>1, <1>2, <2>1, <2>3, <3>1, <5>3 DEF HandledTo, Answers
        <5> QED
          BY <5>1, <5>2, <5>4, <5>5
      <4>4. ~(client = "idle" /\ Made > 0 /\ made[conn][Made] = "0x56")
        BY <1>2, <3>1, <3>3 DEF ReplyOK, PastOK, PipeOK, GotOK
      <4> QED
        BY <1>1, <4>1, <4>2, <4>3, <4>4 DEF ReplyOK, PastOK, PipeOK, GotOK
    <3> QED
      BY <2>1, <3>5, <3>6 DEF Answers
  <2> QED
    BY <2>2, <2>3
<1> QED
  BY <1>3, <1>4, Serves

\* What the client does.
LEMMA SendKeepsReply ==
  ASSUME IInv, IInv', LaterOK, ReplyOK, NEW kind \in {"0x51", "0x56"}, CanCall,
         made' = [made EXCEPT ![conn] = Append(@, kind)],
         client' = IF kind = "0x56" THEN "asked" ELSE "idle",
         UNCHANGED <<conn, down, got, misread, handled>>
  PROVE  LaterOK' /\ ReplyOK'
<1>0. (client' = "asked" <=> kind = "0x56") /\ (client' = "idle" <=> kind # "0x56")
  OBVIOUS
<1>1. /\ made \in [Runs -> Seq({"0x51", "0x56"})] /\ conn \in Runs /\ conn \in Nat
      /\ Made \in Nat /\ made[conn] \in Seq({"0x51", "0x56"}) /\ client = "idle"
  BY TypesGiven, SaidGiven DEF IInv, CanCall
<1>2. /\ made'[conn] = Append(made[conn], kind) /\ \A c \in Runs : c # conn => made'[c] = made[c]
  BY <1>1
<1>3. /\ Made' = Made + 1 /\ made'[conn][Made + 1] = kind
      /\ \A k \in 1 .. Made : made'[conn][k] = made[conn][k]
  BY <1>1, <1>2 DEF Made
<1>4. LaterOK'
  BY <1>1, <1>2 DEF LaterOK
<1>5. \A k : HandledTo(k)' = HandledTo(k)
  BY DEF HandledTo, ConnOf, NumberOf
<1>6. ~HandledTo(Made + 1)
  BY <1>1, SaidGiven DEF HandledTo, Made
<1>7. ReplyOK'
  <2> SUFFICES ASSUME ~misread
               PROVE  ReplyOK'
    BY DEF ReplyOK, PastOK, PipeOK, GotOK
  <2>1. \A k \in 1 .. Made' : made'[conn][k] = "0x56" /\ (k < Made' \/ client' = "idle") => HandledTo(k)'
    <3>1. \A k \in 1 .. Made : made[conn][k] = "0x56" => HandledTo(k)
      BY <1>1 DEF ReplyOK, PastOK, PipeOK, GotOK
    <3> QED
      <4> SUFFICES ASSUME NEW k \in 1 .. Made', made'[conn][k] = "0x56", k < Made' \/ client' = "idle"
                   PROVE  HandledTo(k)
        BY <1>5
      <4>1. k \in 1 .. Made
        <5>1. k = Made + 1 => kind = "0x56" /\ client' = "asked" /\ ~(k < Made')
          <6>1. k = Made + 1 => kind = "0x56"
            BY <1>3
          <6>2. k = Made + 1 => ~(k < Made')
            BY <1>1, <1>3
          <6> QED
            BY <1>0, <6>1, <6>2
        <5> QED
          BY <1>1, <1>3, <5>1
      <4> QED
        BY <1>3, <3>1, <4>1
  <2>2. Len(down[conn].bytes) = down[conn].read
    BY <1>1 DEF ReplyOK, PastOK, PipeOK, GotOK
  <2> QED
    <3>1. PastOK'
      BY <2>1 DEF PastOK
    <3>2. client' = "asked" => Made' > 0 /\ made'[conn][Made'] = "0x56"
      <4>1. Made' > 0
        BY <1>1, <1>3
      <4> QED
        BY <1>0, <1>3, <4>1
    <3>3. ~HandledTo(Made)'
      BY <1>3, <1>5, <1>6 DEF HandledTo, ConnOf, NumberOf
    <3>4. PipeOK'
      BY <2>2, <3>2, <3>3 DEF PipeOK
    <3>5. GotOK'
      BY <1>1, <1>3 DEF GotOK
    <3> QED
      BY <3>1, <3>4, <3>5 DEF ReplyOK
<1> QED
  BY <1>4, <1>7

LEMMA ReceiveKeepsReply ==
  ASSUME IInv, IInv', LaterOK, ReplyOK, Receive
  PROVE  LaterOK' /\ ReplyOK'
<1>1. /\ client = "asked" /\ client' = "idle"
      /\ got' = Returned(down[conn], Reply)
      /\ down' = [down EXCEPT ![conn] = After(@, got')]
      /\ misread' = (misread \/ Len(got') < Reply)
      /\ UNCHANGED <<conn, made, handled>>
  BY DEF Receive
<1>2. /\ conn \in Runs /\ conn \in Nat /\ down \in [Runs -> Pipe] /\ down[conn] \in Pipe
      /\ down[conn].read <= down[conn].arrived /\ down[conn].arrived <= Len(down[conn].bytes)
      /\ down[conn].read \in Nat /\ down[conn].arrived \in Nat /\ down[conn].bytes \in Seq(Byte)
      /\ Len(down[conn].bytes) \in Nat /\ Made \in Nat /\ Len(handled) \in Nat
  BY TypesGiven, SaidGiven DEF IInv
<1>3. /\ got' \in Seq(Byte) /\ Len(got') <= Reply /\ down[conn].read + Len(got') <= down[conn].arrived
      /\ \A j \in 1 .. Len(got') : got'[j] = down[conn].bytes[down[conn].read + j]
  BY <1>1, <1>2, ReturnedIs, ConstantsInNat DEF Pipe
<1>4. /\ \A c \in Runs : down'[c].bytes = down[c].bytes
      /\ down'[conn].read = down[conn].read + Len(got')
  <2>1. /\ After(down[conn], got').bytes = down[conn].bytes
        /\ After(down[conn], got').read = down[conn].read + Len(got')
    BY <1>2, <1>3, AfterIs DEF Pipe
  <2>2. down'[conn] = After(down[conn], got') /\ \A c \in Runs : c # conn => down'[c] = down[c]
    BY <1>1, <1>2
  <2> QED
    BY <2>1, <2>2
<1>5. LaterOK'
  BY <1>1, <1>4 DEF LaterOK
<1>6. ReplyOK'
  <2> SUFFICES ASSUME ~misread, Len(got') = Reply
               PROVE  ReplyOK'
    <3>1. Len(got') \in Nat
      BY <1>3
    <3>2. Len(got') < Reply \/ Len(got') = Reply
      BY <1>3, <3>1, ConstantsInNat
    <3>3. ~misread' => ~misread /\ Len(got') = Reply
      BY <1>1, <3>2
    <3> QED
      BY <3>3 DEF ReplyOK
  <2>1. Made' = Made /\ \A k : HandledTo(k)' = HandledTo(k)
    BY <1>1 DEF HandledTo, ConnOf, NumberOf, Made
  <2>2. Made > 0 /\ made[conn][Made] = "0x56" /\ HandledTo(Made)
    <3>1. Len(down[conn].bytes) # down[conn].read
      BY <1>2, <1>3, ConstantsInNat
    <3> QED
      BY <1>1, <3>1 DEF ReplyOK, PastOK, PipeOK, GotOK
  <2>3. /\ Len(down[conn].bytes) = down[conn].read + Reply
        /\ \A i \in 1 .. Reply : down[conn].bytes[down[conn].read + i] = <<"reply", Len(handled), i>>
    BY <1>1, <2>2 DEF ReplyOK, PastOK, PipeOK, GotOK
  <2>4. got' = Message("reply", Len(handled), Reply)
    <3>1. /\ Message("reply", Len(handled), Reply) \in Seq(Byte)
          /\ Len(Message("reply", Len(handled), Reply)) = Reply
          /\ \A i \in 1 .. Reply : Message("reply", Len(handled), Reply)[i] = <<"reply", Len(handled), i>>
      BY <1>2, MessageIs, ConstantsInNat
    <3> QED
      BY <1>3, <2>3, <3>1, BytesEqual, ZenonT(60)
  <2>5. \A k \in 1 .. Made : made[conn][k] = "0x56" => HandledTo(k)
    BY <1>1, <1>2, <2>2 DEF ReplyOK, PastOK, PipeOK, GotOK
  <2> QED
    <3>1. PastOK'
      BY <1>1, <2>1, <2>5 DEF PastOK
    <3>2. PipeOK'
      BY <1>1, <1>2, <1>4, <2>3 DEF PipeOK
    <3>3. GotOK'
      BY <1>1, <2>4 DEF GotOK
    <3> QED
      BY <3>1, <3>2, <3>3 DEF ReplyOK
<1> QED
  BY <1>5, <1>6

LEMMA OpenKeepsReply ==
  ASSUME IInv, LaterOK, Open
  PROVE  LaterOK' /\ ReplyOK'
<1>1. /\ conn' = conn + 1 /\ conn' \in Runs /\ conn \in Nat /\ client' = "idle"
      /\ UNCHANGED <<made, down, handled>>
  BY TypesGiven, ConstantsInNat DEF IInv, Open, Runs
<1>2. made[conn'] = <<>> /\ down[conn'].bytes = <<>>
  BY <1>1 DEF LaterOK
<1>3. down[conn'].read = 0
  <2>1. /\ down[conn'].read \in Nat /\ down[conn'].read <= down[conn'].arrived /\ down[conn'].arrived \in Nat
        /\ down[conn'].arrived <= Len(down[conn'].bytes)
    BY <1>1, TypesGiven DEF IInv
  <2> QED
    BY <1>2, <2>1
<1>4. Made' = 0 /\ Len(down'[conn'].bytes) = 0
  BY <1>1, <1>2 DEF Made
<1>5. LaterOK'
  BY <1>1 DEF LaterOK, Runs
<1> QED
  BY <1>1, <1>3, <1>4, <1>5 DEF ReplyOK, PastOK, PipeOK, GotOK

LEMMA NothingSaid ==
  ASSUME LaterOK, ReplyOK, UNCHANGED <<conn, made, handled, got, misread>>,
         client' \in {client, "closed"},
         \A c \in Runs : down'[c].bytes = down[c].bytes /\ down'[c].read = down[c].read,
         conn \in Runs
  PROVE  LaterOK' /\ ReplyOK'
<1>1. Made' = Made /\ \A k : HandledTo(k)' = HandledTo(k)
  BY DEF HandledTo, ConnOf, NumberOf, Made
<1> QED
  BY <1>1 DEF LaterOK, ReplyOK, PastOK, PipeOK, GotOK

LEMMA NextKeepsReply ==
  ASSUME IInv, IInv', LaterOK, ReplyOK, [Next]_vars
  PROVE  LaterOK' /\ ReplyOK'
<1>1. conn \in Runs /\ TypeOK
  BY TypesGiven DEF IInv
<1>2. CASE Send
  BY <1>2, SendKeepsReply DEF Send, CanCall
<1>3. CASE Ask
  BY <1>3, SendKeepsReply DEF Ask
<1>4. CASE Close \/ Accept \/ UNCHANGED vars
  BY <1>1, <1>4, NothingSaid DEF Close, Accept, clientVars, vars
<1>5. CASE Arrive
  <2>1. PICK c \in Runs : ArriveUp(c) \/ ArriveDown(c)
    BY <1>5 DEF Arrive
  <2>2. \A d \in Runs : down'[d].bytes = down[d].bytes /\ down'[d].read = down[d].read
    <3>1. CASE ArriveUp(c)
      BY <3>1 DEF ArriveUp
    <3>2. CASE ArriveDown(c)
      <4>1. PICK n \in Arrivals(down[c]) : down' = [down EXCEPT ![c].arrived = n]
        BY <3>2 DEF ArriveDown
      <4>2. PipesOK(down)
        BY <1>1 DEF TypeOK
      <4> QED
        BY <4>1, <4>2, ArrivalTypes
    <3> QED
      BY <2>1, <3>1, <3>2
  <2> QED
    BY <1>1, <2>1, <2>2, NothingSaid DEF ArriveUp, ArriveDown
<1> QED
  BY <1>2, <1>3, <1>4, <1>5, ReceiveKeepsReply, OpenKeepsReply, LaterKeepsServe, ServeKeepsReply
     DEF Next, Serve

-----------------------------------------------------------------------------
(* A network that does not cut                                             *)

\* A header arrives whole,
LEMMA HeaderArrives ==
  ASSUME NEW b \in Seq(Byte), NEW m \in Seq({"0x51", "0x56"}), Written(b, m),
         NEW r \in 0 .. Len(b), NEW a \in 1 .. Len(b), r < a, EndsAt(b, r), EndsAt(b, a)
  PROVE  a - r >= Header
<1>1. /\ Len(b) \in Nat /\ r + 1 \in 1 .. Len(b) /\ r \in Nat /\ a \in Nat /\ a # 0
      /\ Header \in Nat /\ Header >= 1
      /\ \A kind : SizeOf(kind) \in Nat /\ SizeOf(kind) >= Header
  BY ConstantsInNat
<1>2. b[r + 1][3] = 1
  <2>1. CASE r = 0
    BY <2>1, <1>1 DEF Written
  <2>2. CASE r # 0
    <3>1. r \in 1 .. Len(b) /\ r < Len(b)
      BY <2>2, <1>1
    <3>2. Whole(b, m, r)
      BY <3>1 DEF Written
    <3> QED
      BY <2>2, <3>1, <3>2 DEF Whole, EndsAt
  <2> QED
    BY <2>1, <2>2
<1>3. PICK kind, n : \A j \in 1 .. SizeOf(kind) : b[r + j] = <<kind, n, j>>
  <2>1. Whole(b, m, r + 1)
    BY <1>1 DEF Written
  <2>2. \A j \in 1 .. SizeOf(b[r + 1][1]) : b[r + 1 - 1 + j] = <<b[r + 1][1], b[r + 1][2], j>>
    BY <2>1, <1>2 DEF Whole
  <2>3. \A j \in 1 .. SizeOf(b[r + 1][1]) : b[r + j] = <<b[r + 1][1], b[r + 1][2], j>>
    BY <2>2, <1>1
  <2> QED
    BY <2>3
<1>4. CASE a - r >= SizeOf(kind)
  BY <1>1, <1>4
<1>5. CASE a - r < SizeOf(kind)
  <2>1. a - r \in 1 .. SizeOf(kind) /\ r + (a - r) = a
    BY <1>1, <1>5
  <2>2. b[a] = <<kind, n, a - r>>
    BY <1>3, <2>1
  <2>3. a - r = SizeOf(kind)
    BY <1>1, <2>2 DEF EndsAt
  <2> QED
    BY <1>1, <1>5, <2>3
<1> QED
  BY <1>1, <1>4, <1>5

\* and a page behind its header.
LEMMA PageArrives ==
  ASSUME NEW b \in Seq(Byte), NEW m \in Seq({"0x51", "0x56"}), Written(b, m),
         NEW r \in 1 .. Len(b), b[r][1] = "0x51", b[r][3] = Header
  PROVE  /\ r < Len(b)
         /\ \A a \in 1 .. Len(b) : r < a /\ EndsAt(b, a) => a - r >= Page
<1>1. /\ Len(b) \in Nat /\ r \in Nat /\ Header \in Nat /\ Header >= 1 /\ Page \in Nat /\ Page >= 1
      /\ SizeOf("0x51") = Header + Page
  BY ConstantsInNat DEF SizeOf
<1>2. Whole(b, m, r)
  BY DEF Written
<1>3. r - Header + (Header + Page) <= Len(b)
  BY <1>1, <1>2 DEF Whole
<1>4. \A j \in 1 .. Header + Page : b[r - Header + j] = <<"0x51", b[r][2], j>>
  BY <1>1, <1>2 DEF Whole
<1>5. ASSUME NEW a \in 1 .. Len(b), r < a, EndsAt(b, a), a - r < Page
      PROVE  FALSE
  <2>1. Header + (a - r) \in 1 .. Header + Page /\ r - Header + (Header + (a - r)) = a
    BY <1>1, <1>5
  <2>2. b[a] = <<"0x51", b[r][2], Header + (a - r)>>
    BY <1>4, <2>1
  <2>3. Header + (a - r) = Header + Page
    BY <1>1, <1>5, <2>2 DEF EndsAt
  <2> QED
    BY <1>1, <1>5, <2>3
<1>6. r < Len(b)
  BY <1>1, <1>3
<1>7. \A a \in 1 .. Len(b) : a - r >= Page \/ a - r < Page
  BY <1>1
<1> QED
  BY <1>5, <1>6, <1>7

LEMMA ReturnedAll ==
  ASSUME NEW p \in [bytes : Seq(Byte), arrived : Nat, read : Nat, closed : BOOLEAN],
         p.read <= p.arrived, p.arrived <= Len(p.bytes),
         NEW size \in Nat, p.arrived - p.read >= size
  PROVE  Len(Returned(p, size)) = size
<1>1. p.bytes \in Seq(Byte) /\ p.read \in Nat /\ p.arrived \in Nat /\ Len(p.bytes) \in Nat
  OBVIOUS
<1>2. Returned(p, size) = SubSeq(p.bytes, p.read + 1, p.read + size)
  BY <1>1, SMTT(30) DEF Returned
<1>3. p.read + size <= Len(p.bytes)
  BY <1>1
<1> QED
  <2> DEFINE s == p.bytes  k == p.read
  <2>1. s \in Seq(Byte) /\ k \in Nat /\ k + size <= Len(s)
    BY <1>1, <1>3
  <2> HIDE DEF s, k
  <2>2. Len(SubSeq(s, k + 1, k + size)) = size
    BY <2>1, SubSeqIs
  <2> QED
    BY <1>2, <2>2 DEF s, k

\* The server reads all that it expects, or the end of a client that has closed.
LEMMA ReadsWhole ==
  ASSUME IInv, UncutOK, ~cuts, CanRead(up[peer])
  PROVE  /\ server = "header" /\ Len(Returned(up[peer], Header)) # Header =>
              peer < conn \/ client = "closed"
         /\ server = "payload" => Len(Returned(up[peer], Page)) = Page
<1> DEFINE b == up[peer].bytes  r == up[peer].read  a == up[peer].arrived
<1> SUFFICES ASSUME server \in {"header", "payload"}
             PROVE  /\ server = "header" /\ Len(Returned(up[peer], Header)) # Header =>
                         peer < conn \/ client = "closed"
                    /\ server = "payload" => Len(Returned(up[peer], Page)) = Page
  OBVIOUS
<1>1. /\ peer \in Runs /\ up[peer] \in Pipe /\ b \in Seq(Byte) /\ r \in Nat /\ a \in Nat /\ r <= a
      /\ a <= Len(b) /\ Len(b) \in Nat /\ made[peer] \in Seq({"0x51", "0x56"})
  BY TypesGiven DEF IInv
<1>2. Written(b, made[peer]) /\ EndsAt(b, a)
  BY <1>1 DEF IInv, AllWritten, UncutOK
<1>3. a > r \/ (up[peer].closed /\ r = Len(b))
  BY DEF CanRead
<1>4. up[peer].closed => peer < conn \/ client = "closed"
  BY <1>1 DEF UncutOK
<1>5. ASSUME server = "header", a > r
      PROVE  Len(Returned(up[peer], Header)) = Header
  <2>1. EndsAt(b, r)
    BY <1>5 DEF IInv, Reading, EndsAt
  <2>2. a - r >= Header
    <3> HIDE DEF b, r, a
    <3>1. r \in 0 .. Len(b) /\ a \in 1 .. Len(b)
      BY <1>1, <1>5
    <3> QED
      BY <1>1, <1>2, <1>5, <2>1, <3>1, HeaderArrives
  <2> QED
    BY <1>1, <2>2, ReturnedAll, ConstantsInNat DEF Pipe
<1>6. ASSUME server = "payload"
      PROVE  Len(Returned(up[peer], Page)) = Page
  <2>1. r # 0 /\ b[r][1] = "0x51" /\ b[r][3] = Header
    BY <1>6 DEF IInv, Reading
  <2>2. a - r >= Page
    <3> HIDE DEF b, r, a
    <3>1. r \in 1 .. Len(b)
      BY <1>1, <2>1
    <3>2. r < Len(b) /\ \A k \in 1 .. Len(b) : r < k /\ EndsAt(b, k) => k - r >= Page
      BY <1>1, <1>2, <2>1, <3>1, PageArrives
    <3>3. a > r
      BY <1>1, <1>3, <3>2
    <3>4. a \in 1 .. Len(b)
      BY <1>1, <3>1, <3>3
    <3> QED
      BY <1>2, <3>2, <3>3, <3>4
  <2> QED
    BY <1>1, <2>2, ReturnedAll, ConstantsInNat DEF Pipe
<1> QED
  BY <1>3, <1>4, <1>5, <1>6

\* A header is one of the two.
LEMMA HeaderKnown ==
  ASSUME IInv, server = "header", Len(Returned(up[peer], Header)) = Header
  PROVE  \E k \in {"0x51", "0x56"} :
           Returned(up[peer], Header) = Message(k, Returned(up[peer], Header)[1][2], Header)
<1> DEFINE b == up[peer].bytes  r == up[peer].read  bytes == Returned(up[peer], Header)
<1>1. /\ peer \in Runs /\ up[peer] \in Pipe /\ b \in Seq(Byte) /\ r \in Nat /\ up[peer].arrived \in Nat
      /\ r <= up[peer].arrived /\ up[peer].arrived <= Len(b) /\ Len(b) \in Nat
      /\ made[peer] \in Seq({"0x51", "0x56"})
  BY TypesGiven DEF IInv
<1>2. Written(b, made[peer])
  BY <1>1 DEF IInv, AllWritten
<1>3. /\ bytes \in Seq(Byte) /\ r + Len(bytes) <= up[peer].arrived
      /\ \A j \in 1 .. Len(bytes) : bytes[j] = b[r + j]
  BY <1>1, ReturnedIs, ConstantsInNat DEF Pipe
<1>4. Len(bytes) = Header
  OBVIOUS
<1>5. r = 0 \/ b[r][3] = SizeOf(b[r][1])
  BY DEF IInv, Reading
<1> DEFINE n == IF r = 0 THEN 1 ELSE b[r][2] + 1
<1> HIDE DEF b, r, bytes
<1>6. n \in Nat /\ BeginsAfter(b, r, n)
  <2>1. ASSUME r # 0 PROVE b[r][2] \in Nat
    <3>1. r \in 1 .. Len(b)
      BY <2>1, <1>1, <1>3
    <3>2. b[r] \in Byte
      BY <3>1, <1>1
    <3> QED
      BY <3>2 DEF Byte
  <2> QED
    BY <2>1, <1>5 DEF BeginsAfter
<1> HIDE DEF n
<1>7. r \in 0 .. Len(b) /\ r + Header <= Len(b)
  BY <1>1, <1>3, <1>4, ConstantsInNat
<1>8. /\ n \in 1 .. Len(made[peer])
      /\ \A j \in 1 .. Header : bytes[j] = <<made[peer][n], n, j>>
      /\ bytes = Message(made[peer][n], n, Header)
  <2> DEFINE asked == made[peer]
  <2>1. asked \in Seq({"0x51", "0x56"}) /\ Written(b, asked)
    BY <1>1, <1>2
  <2>2. /\ b \in Seq(Byte) /\ bytes \in Seq(Byte) /\ \A j \in 1 .. Header : bytes[j] = b[r + j]
    BY <1>1, <1>3, <1>4
  <2> HIDE DEF asked
  <2>3. /\ n \in 1 .. Len(asked)
        /\ \A j \in 1 .. Header : bytes[j] = <<asked[n], n, j>>
        /\ bytes = Message(asked[n], n, Header)
    BY <1>4, <1>6, <1>7, <2>1, <2>2, HeaderIs, ZenonT(60)
  <2> QED
    BY <2>3 DEF asked
<1>9. bytes[1] = <<made[peer][n], n, 1>>
  <2>1. 1 \in 1 .. Header
    BY ConstantsInNat
  <2> QED
    BY <1>8, <2>1
<1>10. made[peer][n] \in {"0x51", "0x56"}
  BY <1>1, <1>8
<1> QED
  BY <1>8, <1>9, <1>10 DEF bytes

LEMMA RequestUncut ==
  ASSUME IInv, UncutOK, ~cuts, NEW kind \in {"0x51", "0x56"}, CanCall,
         up' = [up EXCEPT ![conn] = Write(@, Message(kind, Number, SizeOf(kind)))],
         client' \in {"idle", "asked"},
         UNCHANGED <<cuts, conn, down, misread, server>>
  PROVE  UncutOK'
<1>1. conn \in Runs /\ up \in [Runs -> Pipe] /\ client = "idle" /\ Number \in Nat
  BY TypesGiven, SaidGiven DEF IInv, CanCall, Number
<1>2. ASSUME NEW c \in Runs
      PROVE  /\ up'[c].arrived = up[c].arrived /\ up'[c].closed = up[c].closed
             /\ \A k \in 1 .. Len(up[c].bytes) : up'[c].bytes[k] = up[c].bytes[k]
  <2> DEFINE sent == Message(kind, Number, SizeOf(kind))
  <2>1. sent \in Seq(Byte)
    BY <1>1, MessageIs, ConstantsInNat
  <2> HIDE DEF sent
  <2>2. /\ Write(up[conn], sent).arrived = up[conn].arrived
        /\ Write(up[conn], sent).closed = up[conn].closed
        /\ \A k \in 1 .. Len(up[conn].bytes) : Write(up[conn], sent).bytes[k] = up[conn].bytes[k]
    BY <1>1, <2>1, WriteIs DEF Pipe
  <2>3. up' = [up EXCEPT ![conn] = Write(up[conn], sent)]
    BY DEF sent
  <2>4. CASE c = conn
    <3>1. up'[c] = Write(up[conn], sent)
      BY <1>1, <2>3, <2>4
    <3> QED
      BY <2>2, <2>4, <3>1
  <2>5. CASE c # conn
    <3>1. up'[c] = up[c]
      BY <1>1, <2>3, <2>5
    <3> QED
      BY <3>1
  <2> QED
    BY <2>4, <2>5
<1>3. ASSUME NEW c \in Runs PROVE EndsAt(up'[c].bytes, up'[c].arrived)
  <2>1. up[c].arrived \in Nat /\ up[c].arrived <= Len(up[c].bytes)
    BY TypesGiven DEF IInv
  <2>2. EndsAt(up[c].bytes, up[c].arrived)
    BY DEF UncutOK
  <2>3. up[c].arrived # 0 => up'[c].bytes[up[c].arrived] = up[c].bytes[up[c].arrived]
    BY <1>2, <2>1
  <2> QED
    BY <1>2, <2>2, <2>3 DEF EndsAt
<1> QED
  BY <1>1, <1>2, <1>3 DEF UncutOK

LEMMA ReceiveUncut ==
  ASSUME IInv, IInv', ReplyOK, UncutOK, ~cuts, Receive
  PROVE  UncutOK'
<1>1. /\ client = "asked" /\ client' = "idle" /\ CanRead(down[conn])
      /\ got' = Returned(down[conn], Reply)
      /\ down' = [down EXCEPT ![conn] = After(@, got')]
      /\ misread' = (misread \/ Len(got') < Reply)
      /\ UNCHANGED <<cuts, conn, up, server>>
  BY DEF Receive
<1>2. /\ conn \in Runs /\ down \in [Runs -> Pipe] /\ down[conn] \in Pipe
      /\ down[conn].read <= down[conn].arrived /\ down[conn].arrived <= Len(down[conn].bytes)
      /\ down[conn].read \in Nat /\ down[conn].arrived \in Nat /\ Len(down[conn].bytes) \in Nat
  BY TypesGiven, SaidGiven DEF IInv
<1>3. /\ down[conn].arrived = Len(down[conn].bytes)
      /\ Len(down[conn].bytes) = down[conn].read + Reply
  <2>1. ~down[conn].closed /\ ~misread /\ down[conn].arrived \in {down[conn].read, Len(down[conn].bytes)}
    BY <1>1, <1>2 DEF UncutOK
  <2>2. down[conn].arrived > down[conn].read
    BY <1>1, <2>1 DEF CanRead
  <2>3. down[conn].arrived = Len(down[conn].bytes) /\ Len(down[conn].bytes) # down[conn].read
    BY <1>2, <2>1, <2>2
  <2> QED
    BY <1>1, <2>1, <2>3 DEF ReplyOK, PipeOK
<1>4. Len(got') = Reply
  BY <1>1, <1>2, <1>3, ReturnedAll, ConstantsInNat DEF Pipe
<1>5. got' \in Seq(Byte)
  BY DEF IInv, TypeOK
<1>6. /\ down'[conn].bytes = down[conn].bytes /\ down'[conn].arrived = down[conn].arrived
      /\ down'[conn].closed = down[conn].closed
  <2>1. /\ After(down[conn], got').bytes = down[conn].bytes
        /\ After(down[conn], got').arrived = down[conn].arrived
        /\ After(down[conn], got').closed = down[conn].closed
    BY <1>2, <1>5, AfterIs DEF Pipe
  <2>2. down'[conn] = After(down[conn], got')
    BY <1>1, <1>2
  <2> QED
    BY <2>1, <2>2
<1>7. \A c \in Runs : down'[c].closed = down[c].closed
  BY <1>1, <1>2, <1>6
<1>8. ~misread'
  <2>1. ~(Len(got') < Reply)
    BY <1>4, ConstantsInNat
  <2>2. ~misread
    BY DEF UncutOK
  <2> QED
    BY <1>1, <2>1, <2>2
<1> QED
  BY <1>1, <1>2, <1>3, <1>6, <1>7, <1>8 DEF UncutOK

LEMMA CloseUncut == ASSUME IInv, UncutOK, ~cuts, Close PROVE UncutOK'
<1>1. conn \in Runs /\ up \in [Runs -> Pipe]
  BY TypesGiven DEF IInv
<1>2. ASSUME NEW c \in Runs
      PROVE  /\ up'[c].bytes = up[c].bytes /\ up'[c].arrived = up[c].arrived
             /\ c # conn => up'[c].closed = up[c].closed
  BY <1>1 DEF Close, Pipe
<1> QED
  BY <1>1, <1>2 DEF Close, UncutOK

LEMMA OpenUncut == ASSUME IInv, IInv', LaterOK, UncutOK, ~cuts, Open PROVE UncutOK'
<1>1. /\ conn' = conn + 1 /\ conn' \in Runs /\ conn \in Nat /\ client = "closed" /\ client' = "idle"
      /\ ~misread' /\ UNCHANGED <<cuts, up, down, server>>
  BY TypesGiven, ConstantsInNat DEF IInv, Open, Runs
<1>2. down[conn'].arrived = Len(down[conn'].bytes)
  <2>1. down[conn'].bytes = <<>>
    BY <1>1 DEF LaterOK
  <2>2. down[conn'].arrived \in Nat /\ down[conn'].arrived <= Len(down[conn'].bytes)
    BY <1>1, TypesGiven DEF IInv
  <2> QED
    BY <2>1, <2>2
<1>3. \A c \in Runs : /\ up[c].closed => c < conn'
                      /\ c >= conn' => ~down[c].closed
  BY <1>1 DEF UncutOK, Runs
<1> QED
  BY <1>1, <1>2, <1>3 DEF UncutOK, Runs

LEMMA ArriveUncut == ASSUME IInv, IInv', UncutOK, ~cuts, Arrive PROVE UncutOK'
<1>1. PICK c \in Runs : ArriveUp(c) \/ ArriveDown(c)
  BY DEF Arrive
<1>2. conn \in Runs /\ up \in [Runs -> Pipe] /\ down \in [Runs -> Pipe]
  BY TypesGiven DEF IInv
<1>3. CASE ArriveUp(c)
  <2>1. /\ up' = [up EXCEPT ![c].arrived = Len(up[c].bytes)]
        /\ UNCHANGED <<cuts, conn, down, client, misread, server>>
    BY <1>3 DEF ArriveUp, Arrivals
  <2>2. ASSUME NEW d \in Runs
        PROVE  /\ up'[d].bytes = up[d].bytes /\ up'[d].closed = up[d].closed
               /\ up'[d].arrived = IF d = c THEN Len(up[c].bytes) ELSE up[d].arrived
    BY <1>2, <2>1 DEF Pipe
  <2>3. EndsAt(up[c].bytes, Len(up[c].bytes))
    <3>1. Written(up[c].bytes, made[c]) /\ up[c].bytes \in Seq(Byte)
      BY TypesGiven DEF IInv, AllWritten
    <3> QED
      BY <3>1 DEF Written, EndsAt
  <2> QED
    BY <2>1, <2>2, <2>3 DEF UncutOK
<1>4. CASE ArriveDown(c)
  <2>1. /\ down' = [down EXCEPT ![c].arrived = Len(down[c].bytes)]
        /\ UNCHANGED <<cuts, conn, up, client, misread, server>>
    BY <1>4 DEF ArriveDown, Arrivals
  <2>2. ASSUME NEW d \in Runs
        PROVE  /\ down'[d].bytes = down[d].bytes /\ down'[d].closed = down[d].closed
               /\ down'[d].read = down[d].read
               /\ down'[d].arrived = IF d = c THEN Len(down[c].bytes) ELSE down[d].arrived
    BY <1>2, <2>1 DEF Pipe
  <2> QED
    BY <1>2, <2>1, <2>2 DEF UncutOK
<1> QED
  BY <1>1, <1>3, <1>4

LEMMA StillUncut == ASSUME IInv, UncutOK, ~cuts, Accept \/ UNCHANGED vars PROVE UncutOK'
<1>1. /\ UNCHANGED <<cuts, conn, up, down, client, misread>> /\ server' # "exit"
  BY DEF Accept, UncutOK, vars, clientVars
<1> QED
  BY <1>1 DEF UncutOK

\* What the server changes of a pipe that it has read from.
LEMMA ReadUncut ==
  ASSUME IInv, UncutOK, ~cuts, server \in {"header", "payload"},
         NEW size \in Nat, up' = [up EXCEPT ![peer] = After(@, Returned(up[peer], size))]
  PROVE  \A c \in Runs : /\ up'[c].bytes = up[c].bytes /\ up'[c].arrived = up[c].arrived
                         /\ up'[c].closed = up[c].closed
<1>1. /\ peer \in Runs /\ up \in [Runs -> Pipe] /\ up[peer] \in Pipe
      /\ up[peer].read <= up[peer].arrived /\ up[peer].arrived <= Len(up[peer].bytes)
  BY TypesGiven DEF IInv
<1>2. Returned(up[peer], size) \in Seq(Byte)
  BY <1>1, ReturnedIs DEF Pipe
<1>3. /\ After(up[peer], Returned(up[peer], size)).bytes = up[peer].bytes
      /\ After(up[peer], Returned(up[peer], size)).arrived = up[peer].arrived
      /\ After(up[peer], Returned(up[peer], size)).closed = up[peer].closed
  BY <1>1, <1>2, AfterIs DEF Pipe
<1> QED
  BY <1>1, <1>3

LEMMA ServeUncut ==
  ASSUME IInv, IInv', ReplyOK', UncutOK, ~cuts, ReadHeader \/ ReadPayload
  PROVE  UncutOK'
<1>1. /\ peer \in Runs /\ conn \in Runs /\ server \in {"header", "payload"}
      /\ UNCHANGED <<cuts, conn, made, client, got, misread, peer>>
      /\ down \in [Runs -> Pipe] /\ TypeOK /\ TypeOK'
  BY Serves, TypesGiven DEF IInv
<1>2. \A c \in Runs : /\ up'[c].bytes = up[c].bytes /\ up'[c].arrived = up[c].arrived
                      /\ up'[c].closed = up[c].closed
  BY <1>1, ReadUncut, ConstantsInNat DEF ReadHeader, ReadPayload
<1>3. /\ server' # "exit"
      /\ \A c \in Runs : c > conn \/ (c = conn /\ client # "closed") => ~down'[c].closed
      /\ \A c \in Runs : down'[c].arrived = down[c].arrived
  <2>1. CASE ReadPayload
    <3>1. Len(Returned(up[peer], Page)) = Page
      BY <2>1, ReadsWhole DEF ReadPayload
    <3>2. server' = "header" /\ down' = down
      BY <2>1, <3>1 DEF ReadPayload
    <3> QED
      BY <3>2 DEF UncutOK
  <2>2. CASE ReadHeader
    <3> DEFINE bytes == Returned(up[peer], Header)
    <3>1. CanRead(up[peer]) /\ server = "header"
      BY <2>2 DEF ReadHeader
    <3>2. \/ Len(bytes) # Header /\ HangUp /\ down' = [down EXCEPT ![peer].closed = TRUE]
          \/ server' \in {"payload", "header"} /\ (down' = down \/ Answer(bytes))
          \/ /\ Len(bytes) = Header
             /\ \A k \in {"0x51", "0x56"} : bytes # Message(k, bytes[1][2], Header)
      BY <2>2, <3>1 DEF ReadHeader
    <3>3. ~(/\ Len(bytes) = Header
            /\ \A k \in {"0x51", "0x56"} : bytes # Message(k, bytes[1][2], Header))
      BY <3>1, HeaderKnown
    <3>4. Len(bytes) # Header => peer < conn \/ client = "closed"
      BY <3>1, ReadsWhole
    <3> HIDE DEF bytes
    <3>5. CASE Len(bytes) # Header /\ HangUp /\ down' = [down EXCEPT ![peer].closed = TRUE]
      <4>1. server' = "accept"
        BY <3>5 DEF HangUp
      <4>2. \A c \in Runs : /\ down'[c].arrived = down[c].arrived
                            /\ c # peer => down'[c].closed = down[c].closed
        BY <1>1, <3>5, ClosingIs
      <4>3. \A c \in Runs : c > conn \/ (c = conn /\ client # "closed") => c # peer
        BY <1>1, <3>4, <3>5, TypesGiven DEF Runs
      <4> QED
        BY <4>1, <4>2, <4>3 DEF UncutOK
    <3>6. CASE server' \in {"payload", "header"} /\ down' = down
      BY <3>6 DEF UncutOK
    <3>7. CASE server' \in {"payload", "header"} /\ Answer(bytes)
      <4>1. down' = [down EXCEPT ![peer] = Write(@, Message("reply", Len(handled) + 1, Reply))]
        BY <3>7 DEF Answer
      <4>2. Message("reply", Len(handled) + 1, Reply) \in Seq(Byte)
        <5>1. Len(handled) + 1 \in Nat
          BY SaidGiven
        <5> QED
          BY <5>1, MessageIs, ConstantsInNat
      <4> DEFINE sent == Message("reply", Len(handled) + 1, Reply)
      <4> HIDE DEF sent
      <4>3. /\ Write(down[peer], sent).arrived = down[peer].arrived
            /\ Write(down[peer], sent).closed = down[peer].closed
        BY <1>1, <4>2, WriteIs DEF Pipe, sent
      <4>4. \A c \in Runs : down'[c].arrived = down[c].arrived /\ down'[c].closed = down[c].closed
        BY <1>1, <4>1, <4>3 DEF sent
      <4> QED
        BY <3>7, <4>4 DEF UncutOK
    <3> QED
      BY <3>2, <3>3, <3>5, <3>6, <3>7
  <2> QED
    BY <2>1, <2>2
<1>4. client # "closed" => down'[conn].arrived \in {down'[conn].read, Len(down'[conn].bytes)}
  <2> SUFFICES ASSUME client # "closed"
               PROVE  down'[conn].arrived \in {down'[conn].read, Len(down'[conn].bytes)}
    OBVIOUS
  <2>1. down[conn].arrived \in {down[conn].read, Len(down[conn].bytes)} /\ ~misread
    BY DEF UncutOK
  <2>2. down'[conn].read = down[conn].read /\ down'[conn].arrived = down[conn].arrived
    BY <1>1, <1>3, Serves
  <2>3. CASE down'[conn].bytes = down[conn].bytes
    BY <2>1, <2>2, <2>3
  <2>4. CASE Len(down'[conn].bytes) = Len(down[conn].bytes) + Reply
    <3>1. /\ down[conn].read \in Nat /\ Len(down[conn].bytes) \in Nat
          /\ down[conn].read <= down[conn].arrived /\ down[conn].arrived <= Len(down[conn].bytes)
          /\ down[conn].arrived \in Nat
      BY <1>1, TypesGiven, SaidGiven
    <3>2. Len(down'[conn].bytes) \in {down'[conn].read, down'[conn].read + Reply}
      BY <1>1, <2>1 DEF ReplyOK, PipeOK
    <3>3. Len(down[conn].bytes) = down[conn].read
      BY <2>2, <2>4, <3>1, <3>2, ConstantsInNat
    <3> QED
      BY <2>2, <3>1, <3>3
  <2> QED
    BY <1>1, <2>3, <2>4, Serves DEF Answers
<1> QED
  BY <1>1, <1>2, <1>3, <1>4 DEF UncutOK

LEMMA NextUncut ==
  ASSUME IInv, IInv', LaterOK, ReplyOK, ReplyOK', UncutOK, [Next]_vars
  PROVE  UncutOK'
<1>1. cuts' = cuts
  BY DEF Next, Serve, Arrive, Send, Ask, Receive, Close, Open, ArriveUp, ArriveDown, Accept,
         ReadHeader, ReadPayload, clientVars, vars
<1>2. CASE cuts
  BY <1>1, <1>2 DEF UncutOK
<1>3. CASE ~cuts
  <2>1. CASE Send
    <3>1. /\ up' = [up EXCEPT ![conn] = Write(@, Message("0x51", Number, SizeOf("0x51")))]
          /\ client' \in {"idle", "asked"} /\ CanCall
          /\ UNCHANGED <<cuts, conn, down, misread, server>>
      BY <2>1 DEF Send, CanCall, SizeOf
    <3> QED
      BY <1>3, <3>1, RequestUncut
  <2>2. CASE Ask
    <3>1. /\ up' = [up EXCEPT ![conn] = Write(@, Message("0x56", Number, SizeOf("0x56")))]
          /\ client' \in {"idle", "asked"} /\ CanCall
          /\ UNCHANGED <<cuts, conn, down, misread, server>>
      BY <2>2 DEF Ask, SizeOf
    <3> QED
      BY <1>3, <3>1, RequestUncut
  <2> QED
    BY <1>3, <2>1, <2>2, ReceiveUncut, CloseUncut, OpenUncut, ArriveUncut, StillUncut, ServeUncut
       DEF Next, Serve
<1> QED
  BY <1>2, <1>3

LEMMA InitReplies == Init => LaterOK /\ ReplyOK /\ UncutOK
<1> SUFFICES ASSUME Init PROVE LaterOK /\ ReplyOK /\ UncutOK
  OBVIOUS
<1>1. /\ conn = 1 /\ 1 \in Runs /\ client = "idle" /\ ~misread /\ server = "accept"
      /\ \A c \in Runs : made[c] = <<>> /\ up[c] = NoBytes /\ down[c] = NoBytes
  BY ConstantsInNat DEF Init, Runs
<1>2. Made = 0 /\ Len(<<>>) = 0
  BY <1>1 DEF Made
<1> QED
  BY <1>1, <1>2 DEF LaterOK, ReplyOK, PastOK, PipeOK, GotOK, UncutOK, NoBytes, EndsAt

LEMMA SpecRInv == Spec => []RInv
<1>1. Init => RInv
  BY InitIInv, InitReplies DEF RInv
<1>2. RInv /\ [Next]_vars => RInv'
  BY NextIInv, NextKeepsReply, NextUncut DEF RInv
<1> QED
  BY <1>1, <1>2, PTL DEF Spec

\* A reply of the webcam that no cut has touched is the one to the last request 0x56, and
\* tells what all the requests made so far have done, for every size of the messages, and
\* whatever the client has asked for before.
THEOREM SpecRightReply == Spec => []RightReply
<1>1. RInv => RightReply
  <2> SUFFICES ASSUME RInv, client = "idle", ~misread, made[conn] # <<>>,
                      made[conn][Len(made[conn])] = "0x56"
               PROVE  /\ got = Message("reply", got[1][2], Reply)
                      /\ got[1][2] \in 1 .. Len(handled)
                      /\ handled[got[1][2]] = <<conn, Given(conn, Len(made[conn]))>>
    BY DEF RightReply
  <2>1. /\ Made \in Nat /\ Made > 0 /\ conn \in Runs /\ handled \in Seq(Runs \X Seq(Byte))
        /\ Len(handled) \in Nat /\ InOrder
    <3>1. conn \in Runs /\ made[conn] \in Seq({"0x51", "0x56"}) /\ handled \in Seq(Runs \X Seq(Byte))
      BY TypesGiven DEF RInv, IInv
    <3> QED
      BY <3>1 DEF Made, RInv, IInv
  <2>2. got = Message("reply", Len(handled), Reply) /\ HandledTo(Made)
    BY <2>1 DEF RInv, ReplyOK, PastOK, GotOK, Made
  <2>3. got[1] = <<"reply", Len(handled), 1>>
    <3>1. 1 \in 1 .. Reply
      BY ConstantsInNat
    <3> QED
      BY <2>1, <2>2, <3>1, MessageIs, ConstantsInNat
  <2>4. /\ Len(handled) \in 1 .. Len(handled) /\ ConnOf(Len(handled)) = conn
        /\ NumberOf(Len(handled)) = Made
    BY <2>1, <2>2, SaidGiven DEF HandledTo, Made, RInv
  <2>5. handled[Len(handled)][2] = Given(conn, Made)
    BY <2>1, <2>4 DEF InOrder
  <2>6. handled[Len(handled)] = <<conn, Given(conn, Made)>>
    <3>1. handled[Len(handled)] \in Runs \X Seq(Byte)
      BY <2>1, <2>4
    <3> QED
      BY <2>4, <2>5, <3>1 DEF ConnOf
  <2> QED
    BY <2>2, <2>3, <2>4, <2>6 DEF Made
<1> QED
  BY <1>1, SpecRInv, PTL

\* When TCP delivers each write as a whole no reply is misread and netserver survives all its
\* clients, although both sides call read() once for each message, and wherever a client stops.
THEOREM SpecUndisturbed == Spec => []Undisturbed
<1>1. RInv => Undisturbed
  BY DEF RInv, UncutOK, Undisturbed
<1> QED
  BY <1>1, SpecRInv, PTL
=============================================================================
