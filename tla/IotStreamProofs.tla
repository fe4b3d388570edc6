--------------------------- MODULE IotStreamProofs ---------------------------
(***************************************************************************)
(* Theorems about IotStream, for any number of workers and requests and      *)
(* connections of any size.  Each piece on its way is labelled with the      *)
(* request it belongs to and its place in the message.  Framed says that,     *)
(* until a sendmsg is split or a Peek torn, the labels can be chosen so that  *)
(* both streams are made of whole messages, no two of one request; every      *)
(* action preserves it.                                                      *)
(***************************************************************************)
EXTENDS IotStream, SequenceTheorems, TLAPS

----------------------------------------------------------------------------
(* The invariant.                                                            *)

TypeInv == TypeOK /\ \A u \in tasks \cup active \cup answered : type[u] # "NONE"

(* Piece l[2] of the message of request l[1], and how many pieces it has:     *)
(* d is the type whose messages have data in this direction.                 *)
Piece(l) == IF l[2] = 1 THEN l[1][1] ELSE IF l[2] = 2 THEN l[1][2]
            ELSE IF l[2] = 3 THEN type[l[1]] ELSE "data"
MsgLen(u, d) == IF type[u] = d THEN 4 ELSE 3
Msg(u, d)    == Message(u, type[u], type[u] = d)

(* The n labels L of a stream are those of whole messages, none of them twice. *)
Row(L, n, d) ==
  /\ n \in Nat /\ L \in [1 .. n -> Uids \X (1 .. 4)]
  /\ \A k \in 1 .. n : L[k][2] <= MsgLen(L[k][1], d)
  /\ n > 0 => L[1][2] = 1 /\ L[n][2] = MsgLen(L[n][1], d)
  /\ \A k \in 1 .. n - 1 : IF L[k][2] = MsgLen(L[k][1], d) THEN L[k + 1][2] = 1
                           ELSE L[k + 1] = <<L[k][1], L[k][2] + 1>>
  /\ \A j, k \in 1 .. n : L[j] = L[k] => j = k

(* The pieces q are those with the labels from k + 1 on.                     *)
Labelled(q, L, k) == \A j \in 1 .. Len(q) : q[j] = Piece(L[k + j])

(* C labels the stream to the node: what it has read of a command, the        *)
(* connection, and x, what the worker in the middle of its message has still  *)
(* to send.                                                                  *)
ToNode(C, x) ==
  /\ \/ midway = {} /\ x = <<>>
     \/ \E w \in midway : midway = {w} /\ x = out[w]
  /\ Row(C, Len(command) + Len(toIot) + Len(x), "WRITE")
  /\ Labelled(command, C, 0) /\ Labelled(toIot, C, Len(command))
  /\ Labelled(x, C, Len(command) + Len(toIot))
  /\ command # <<>> => reply = <<>> /\ Len(command) <= MsgLen(C[1][1], "WRITE")

(* R labels the stream from it: what ReadReply has received, the connection,  *)
(* and what the node has still to send.                                      *)
FromNode(R) ==
  /\ Row(R, Len(got) + Len(toSrv) + Len(reply), "READ")
  /\ Labelled(got, R, 0) /\ Labelled(toSrv, R, Len(got)) /\ Labelled(reply, R, Len(got) + Len(toSrv))
  /\ host = NoUid => got = <<>>
  /\ host # NoUid => /\ Len(got) + Len(toSrv) + Len(reply) > 0 /\ R[1][1] = host
                     /\ Len(got) <= MsgLen(host, "READ")

(* P says where the message of a request is; it is registered if somewhere.   *)
Task      == <<"task", "">>
Sender(w) == <<"worker", w>>
Command   == <<"command", "">>
Reply     == <<"reply", "">>
Nowhere   == <<"nowhere", "">>

Placed(C, R, P) ==
  /\ \A u \in tasks : P[u] = Task
  /\ \A w \in Workers \ midway :
       out[w] # <<>> => \E u \in Uids : P[u] = Sender(w) /\ out[w] = Msg(u, "WRITE")
  /\ \A k \in DOMAIN C : P[C[k][1]] = Command
  /\ \A k \in DOMAIN R : P[R[k][1]] = Reply
  /\ \A u \in Uids : P[u] # Nowhere => u \in active

At(C, x, R, P) == ToNode(C, x) /\ FromNode(R) /\ Placed(C, R, P)

Framed == ~crashed /\ \E C, x, R, P : At(C, x, R, P) /\ P = [u \in Uids |-> P[u]]

IInv == TypeInv /\ (~split /\ ~torn => Framed)

----------------------------------------------------------------------------
(* Messages and rows of them.                                                *)

LEMMA FourPieces ==
  ASSUME NEW a, NEW b, NEW c, NEW e
  PROVE  <<a, b, c>> \o <<e>> = <<a, b, c, e>>
<1> DEFINE S == {a, b, c, e}
           s == <<a, b, c>>
           t == <<e>>
           r == <<a, b, c, e>>
<1>1. /\ s \in Seq(S) /\ Len(s) = 3 /\ s[1] = a /\ s[2] = b /\ s[3] = c
      /\ t \in Seq(S) /\ Len(t) = 1 /\ t[1] = e
  OBVIOUS
<1>2. r \in Seq(S) /\ Len(r) = 4 /\ r[1] = a /\ r[2] = b /\ r[3] = c /\ r[4] = e
  OBVIOUS
<1> HIDE DEF S, s, t, r
<1>3. /\ s \o t \in Seq(S) /\ Len(s \o t) = 4
      /\ \A i \in 1 .. 4 : (s \o t)[i] = IF i <= 3 THEN s[i] ELSE t[i - 3]
  <2>1. /\ s \o t \in Seq(S) /\ Len(s \o t) = Len(s) + Len(t)
        /\ \A i \in 1 .. Len(s) + Len(t) : (s \o t)[i] = IF i <= Len(s) THEN s[i] ELSE t[i - Len(s)]
    BY <1>1, ConcatProperties
  <2>2. Len(s) + Len(t) = 4
    BY <1>1
  <2> QED
    BY <1>1, <2>1, <2>2
<1>4. \A i \in 1 .. 4 : (s \o t)[i] = r[i]
  <2>1. \A i \in 1 .. 4 : i = 1 \/ i = 2 \/ i = 3 \/ i = 4
    OBVIOUS
  <2> QED
    BY <1>1, <1>2, <1>3, <2>1
<1>5. s \o t = r
  BY <1>2, <1>3, <1>4, SeqEqual
<1> QED
  BY <1>5 DEF s, t, r

LEMMA MessageIs ==
  ASSUME NEW u \in Uids, NEW d
  PROVE  /\ Len(Msg(u, d)) = MsgLen(u, d) /\ MsgLen(u, d) \in {3, 4}
         /\ \A i \in 1 .. MsgLen(u, d) : Msg(u, d)[i] = Piece(<<u, i>>)
<1>1. CASE type[u] = d
  <2>1. Msg(u, d) = <<u[1], u[2], type[u], "data">>
    <3>1. Msg(u, d) = <<u[1], u[2], type[u]>> \o <<"data">>
      BY <1>1 DEF Msg, Message
    <3> QED
      BY <3>1, FourPieces
  <2> QED
    BY <1>1, <2>1 DEF Msg, Message, MsgLen, Piece
<1>2. CASE type[u] # d
  <2>1. Msg(u, d) = <<u[1], u[2], type[u]>>
    BY <1>2 DEF Msg, Message
  <2> QED
    BY <1>2, <2>1 DEF Msg, Message, MsgLen, Piece
<1> QED
  BY <1>1, <1>2

LEMMA RowFirst ==
  ASSUME NEW d, NEW L, NEW n, Row(L, n, d), n > 0, NEW u, u = L[1][1], NEW m, m = MsgLen(u, d)
  PROVE  /\ u \in Uids /\ m \in {3, 4} /\ m <= n
         /\ \A i \in 1 .. m : L[i] = <<u, i>>
         /\ \A k \in m + 1 .. n : L[k][1] # u
         /\ n > m => L[m + 1][2] = 1
<1>1. /\ u \in Uids /\ m \in {3, 4} /\ n \in Nat
      /\ \A k \in 1 .. n : L[k] \in Uids \X (1 .. 4)
  BY DEF Row, MsgLen
<1>2. L[1] = <<u, 1>>
  BY <1>1 DEF Row
<1>3. ASSUME NEW i \in 1 .. 3, i < m, i <= n, L[i] = <<u, i>>
      PROVE  i + 1 <= n /\ L[i + 1] = <<u, i + 1>>
  <2>1. i \in 1 .. n /\ L[i][1] = u /\ L[i][2] = i /\ MsgLen(L[i][1], d) = m /\ i # m
    BY <1>1, <1>3
  <2>2. n # i
    BY <2>1 DEF Row
  <2>3. i \in 1 .. n - 1 /\ i + 1 <= n
    BY <1>1, <2>1, <2>2
  <2> QED
    BY <2>1, <2>3 DEF Row
<1>4. L[2] = <<u, 2>> /\ 2 <= n
  <2>1. 1 \in 1 .. 3 /\ 1 < m /\ 1 <= n /\ 1 + 1 = 2
    BY <1>1
  <2> QED
    BY <1>2, <1>3, <2>1
<1>5. L[3] = <<u, 3>> /\ 3 <= n
  <2>1. 2 \in 1 .. 3 /\ 2 < m /\ 2 + 1 = 3
    BY <1>1
  <2> QED
    BY <1>3, <1>4, <2>1
<1>50. m = 4 => 4 <= n /\ L[4] = <<u, 4>>
  <2>1. 3 \in 1 .. 3 /\ 3 + 1 = 4
    OBVIOUS
  <2> QED
    BY <1>3, <1>5, <2>1
<1>6. m <= n /\ \A i \in 1 .. m : L[i] = <<u, i>>
  <2>1. m = 3 => \A i \in 1 .. m : i = 1 \/ i = 2 \/ i = 3
    OBVIOUS
  <2>2. m = 4 => \A i \in 1 .. m : i = 1 \/ i = 2 \/ i = 3 \/ i = 4
    OBVIOUS
  <2> QED
    BY <1>1, <1>2, <1>4, <1>5, <1>50, <2>1, <2>2
<1>7. n > m => L[m + 1][2] = 1
  BY <1>1, <1>6 DEF Row
<1>8. ASSUME NEW k \in m + 1 .. n, L[k][1] = u PROVE FALSE
  <2>1. L[k] = <<u, L[k][2]>> /\ L[k][2] \in 1 .. m
    BY <1>1, <1>8 DEF Row
  <2>2. PICK i \in 1 .. m : L[k] = <<u, i>>
    BY <2>1
  <2>3. i \in 1 .. n /\ k \in 1 .. n /\ L[i] = L[k] /\ i # k
    BY <1>1, <1>6, <2>2
  <2> QED
    BY <2>3 DEF Row
<1> QED
  BY <1>1, <1>6, <1>7, <1>8

LEMMA RowDrop ==
  ASSUME NEW d, NEW L, NEW n, Row(L, n, d), n > 0, NEW m, m = MsgLen(L[1][1], d)
  PROVE  Row([k \in 1 .. n - m |-> L[k + m]], n - m, d)
<1> DEFINE K == [k \in 1 .. n - m |-> L[k + m]]
<1>1. m \in Nat /\ n - m \in Nat /\ n \in Nat /\ (n > m => L[m + 1][2] = 1)
  <2>1. n \in Nat
    BY DEF Row
  <2>2. m \in {3, 4} /\ m <= n /\ (n > m => L[m + 1][2] = 1)
    BY RowFirst
  <2> QED
    BY <2>1, <2>2
<1>2. \A k \in 1 .. n - m : k + m \in 1 .. n /\ K[k] = L[k + m]
  BY <1>1
<1>3. K \in [1 .. n - m -> Uids \X (1 .. 4)]
  BY <1>2 DEF Row
<1> HIDE DEF K
<1>4. \A k \in 1 .. n - m : K[k][2] <= MsgLen(K[k][1], d)
  BY <1>2 DEF Row
<1>5. n - m > 0 => K[1][2] = 1 /\ K[n - m][2] = MsgLen(K[n - m][1], d)
  BY <1>1, <1>2 DEF Row
<1>6. ASSUME NEW k \in 1 .. (n - m) - 1
      PROVE  IF K[k][2] = MsgLen(K[k][1], d) THEN K[k + 1][2] = 1
             ELSE K[k + 1] = <<K[k][1], K[k][2] + 1>>
  <2>1. /\ k \in 1 .. n - m /\ k + 1 \in 1 .. n - m
        /\ k + m \in 1 .. n - 1 /\ (k + 1) + m = (k + m) + 1
    BY <1>1
  <2>2. K[k] = L[k + m] /\ K[k + 1] = L[(k + m) + 1]
    BY <1>2, <2>1
  <2> QED
    BY <2>1, <2>2 DEF Row
<1>7. \A j, k \in 1 .. n - m : K[j] = K[k] => j = k
  <2> SUFFICES ASSUME NEW j \in 1 .. n - m, NEW k \in 1 .. n - m, K[j] = K[k] PROVE j = k
    OBVIOUS
  <2>1. j + m = k + m
    BY <1>2 DEF Row
  <2> QED
    BY <1>1, <2>1
<1>8. Row(K, n - m, d)
  BY <1>1, <1>3, <1>4, <1>5, <1>6, <1>7 DEF Row
<1> QED
  BY <1>8 DEF K

LEMMA RowAdd ==
  ASSUME NEW d, NEW L, NEW n, Row(L, n, d), NEW u \in Uids, NEW m, m = MsgLen(u, d),
         \A k \in 1 .. n : L[k][1] # u
  PROVE  Row([k \in 1 .. n + m |-> IF k <= n THEN L[k] ELSE <<u, k - n>>], n + m, d)
<1> DEFINE K == [k \in 1 .. n + m |-> IF k <= n THEN L[k] ELSE <<u, k - n>>]
<1>1. m \in {3, 4} /\ n \in Nat
  BY DEF Row, MsgLen
<1>2. /\ \A k \in 1 .. n : k \in 1 .. n + m /\ K[k] = L[k]
      /\ \A i \in 1 .. m : n + i \in 1 .. n + m /\ K[n + i] = <<u, i>>
  BY <1>1
<1>3. ASSUME NEW k \in 1 .. n + m PROVE k \in 1 .. n \/ \E i \in 1 .. m : k = n + i
  <2>1. k > n => k - n \in 1 .. m /\ k = n + (k - n)
    BY <1>1
  <2> QED
    BY <1>1, <2>1
<1>4. K \in [1 .. n + m -> Uids \X (1 .. 4)]
  <2>1. \A k \in 1 .. n + m : K[k] \in Uids \X (1 .. 4)
    BY <1>1, <1>2, <1>3 DEF Row
  <2> QED
    BY <2>1
<1> HIDE DEF K
<1>5. \A k \in 1 .. n + m : K[k][2] <= MsgLen(K[k][1], d)
  <2> SUFFICES ASSUME NEW k \in 1 .. n + m PROVE K[k][2] <= MsgLen(K[k][1], d)
    OBVIOUS
  <2>1. CASE k \in 1 .. n
    BY <1>2, <2>1 DEF Row
  <2>2. ASSUME NEW i \in 1 .. m, k = n + i PROVE K[k][2] <= MsgLen(K[k][1], d)
    BY <1>1, <1>2, <2>2
  <2> QED
    BY <1>3, <2>1, <2>2
<1>6. K[1][2] = 1 /\ K[n + m][2] = MsgLen(K[n + m][1], d)
  <2>1. K[n + m] = <<u, m>> /\ K[n + 1] = <<u, 1>>
    BY <1>1, <1>2
  <2>2. n > 0 => K[1] = L[1] /\ L[1][2] = 1
    BY <1>1, <1>2 DEF Row
  <2>3. n = 0 => n + 1 = 1
    OBVIOUS
  <2> QED
    BY <1>1, <2>1, <2>2, <2>3
<1>7. ASSUME NEW k \in 1 .. (n + m) - 1
      PROVE  IF K[k][2] = MsgLen(K[k][1], d) THEN K[k + 1][2] = 1
             ELSE K[k + 1] = <<K[k][1], K[k][2] + 1>>
  <2>1. CASE k \in 1 .. n - 1
    <3>1. K[k] = L[k] /\ K[k + 1] = L[k + 1]
      BY <1>1, <1>2, <2>1
    <3> QED
      BY <2>1, <3>1 DEF Row
  <2>2. CASE k = n
    <3>1. k \in 1 .. n
      BY <2>2
    <3>2. K[k] = L[n] /\ L[n][2] = MsgLen(L[n][1], d)
      BY <1>1, <1>2, <2>2, <3>1 DEF Row
    <3>3. K[k + 1] = <<u, 1>>
      BY <1>1, <1>2, <2>2
    <3> QED
      BY <3>2, <3>3
  <2>3. CASE k > n
    <3>1. PICK i \in 1 .. m - 1 : k = n + i
      <4>1. k - n \in 1 .. m - 1 /\ k = n + (k - n)
        BY <1>1, <2>3
      <4> QED
        BY <4>1
    <3>2. K[k] = <<u, i>> /\ K[k + 1] = <<u, i + 1>>
      <4>1. i \in 1 .. m /\ i + 1 \in 1 .. m /\ k + 1 = n + (i + 1)
        BY <1>1, <3>1
      <4> QED
        BY <1>2, <3>1, <4>1
    <3>3. i # m
      BY <1>1
    <3> QED
      BY <3>2, <3>3
  <2> QED
    BY <1>1, <2>1, <2>2, <2>3
<1>8. ASSUME NEW j \in 1 .. n + m, NEW k \in 1 .. n + m, K[j] = K[k] PROVE j = k
  <2>1. CASE j \in 1 .. n /\ k \in 1 .. n
    BY <1>2, <1>8, <2>1 DEF Row
  <2>2. CASE j \in 1 .. n /\ k \notin 1 .. n
    <3>1. PICK i \in 1 .. m : k = n + i
      BY <1>3, <2>2
    <3>2. K[k] = <<u, i>> /\ K[j] = L[j] /\ L[j][1] # u
      BY <1>2, <2>2, <3>1
    <3>3. <<u, i>>[1] = u
      OBVIOUS
    <3> QED
      BY <1>8, <3>2, <3>3
  <2>3. CASE j \notin 1 .. n /\ k \in 1 .. n
    <3>1. PICK i \in 1 .. m : j = n + i
      BY <1>3, <2>3
    <3>2. K[j] = <<u, i>> /\ K[k] = L[k] /\ L[k][1] # u
      BY <1>2, <2>3, <3>1
    <3>3. <<u, i>>[1] = u
      OBVIOUS
    <3> QED
      BY <1>8, <3>2, <3>3
  <2>4. CASE j \notin 1 .. n /\ k \notin 1 .. n
    <3>1. PICK i \in 1 .. m : j = n + i
      BY <1>3, <2>4
    <3>2. PICK h \in 1 .. m : k = n + h
      BY <1>3, <2>4
    <3>3. K[j] = <<u, i>> /\ K[k] = <<u, h>>
      BY <1>2, <3>1, <3>2
    <3>4. <<u, i>> = <<u, h>>
      BY <1>8, <3>3
    <3>5. i = h
      BY <3>4
    <3> QED
      BY <3>1, <3>2, <3>5
  <2> QED
    BY <2>1, <2>2, <2>3, <2>4
<1>9. Row(K, n + m, d)
  BY <1>1, <1>4, <1>5, <1>6, <1>7, <1>8 DEF Row
<1> QED
  BY <1>9 DEF K
----------------------------------------------------------------------------
(* Types.                                                                    *)

LEMMA MessageTyped ==
  ASSUME NEW u, u[1] \in Pieces, u[2] \in Pieces, NEW t \in Types, NEW data \in BOOLEAN
  PROVE  Message(u, t, data) \in Seq(Pieces) /\ Message(u, t, data) # <<>>
<1>1. PICK a \in Pieces : a = u[1]
  OBVIOUS
<1>2. PICK b \in Pieces : b = u[2]
  OBVIOUS
<1>3. t \in Pieces /\ "data" \in Pieces
  BY DEF Pieces
<1>4. <<a, b, t>> \in Seq(Pieces) /\ Len(<<a, b, t>>) = 3
  BY <1>3
<1>5. \A q \in Seq(Pieces) : <<a, b, t>> \o q \in Seq(Pieces) /\ <<a, b, t>> \o q # <<>>
  <2> SUFFICES ASSUME NEW q \in Seq(Pieces)
               PROVE  <<a, b, t>> \o q \in Seq(Pieces) /\ <<a, b, t>> \o q # <<>>
    OBVIOUS
  <2>1. <<a, b, t>> \o q \in Seq(Pieces) /\ Len(<<a, b, t>> \o q) = Len(<<a, b, t>>) + Len(q)
    BY <1>4, ConcatProperties
  <2>2. Len(q) \in Nat
    OBVIOUS
  <2> QED
    BY <1>4, <2>1, <2>2
<1>6. (IF data THEN <<"data">> ELSE <<>>) \in Seq(Pieces)
  BY <1>3
<1> QED
  BY <1>1, <1>2, <1>5, <1>6 DEF Message

LEMMA UidPieces ==
  ASSUME NEW u \in Uids PROVE u[1] \in Pieces /\ u[2] \in Pieces /\ u # NoUid /\ u = <<u[1], u[2]>>
BY StreamAssumption DEF Pieces

LEMMA NbdRequestsHandleType ==
  ASSUME TypeInv, NEW u \in Uids, NbdRequestsHandle(u) PROVE TypeInv'
<1>1. PICK t \in Types : type' = [type EXCEPT ![u] = t]
  BY DEF NbdRequestsHandle
<1>2. u \notin answered /\ t # "NONE"
  BY <1>1 DEF NbdRequestsHandle, TypeInv, Types
<1>3. /\ active' = active \cup {u} /\ tasks' = tasks \cup {u} /\ host = NoUid
      /\ UNCHANGED <<out, midway, toIot, split, toSrv, command, reply, host, got, answered, torn, crashed>>
  BY DEF NbdRequestsHandle, nodeVars
<1>4. type' \in [Uids -> Types \cup {"NONE"}]
  BY <1>1 DEF TypeInv, TypeOK
<1>5. \A v \in tasks' \cup active' \cup answered' : type'[v] # "NONE"
  BY <1>1, <1>2, <1>3 DEF TypeInv, TypeOK
<1> QED
  BY <1>2, <1>3, <1>4, <1>5 DEF TypeInv, TypeOK

LEMMA SendMsgWrapperType ==
  ASSUME TypeInv, NEW w \in Workers, SendMsgWrapper(w) PROVE TypeInv'
<1>1. PICK u \in tasks : /\ tasks' = tasks \ {u}
                         /\ out' = [out EXCEPT ![w] = Message(u, type[u], type[u] = "WRITE")]
  BY DEF SendMsgWrapper
<1>2. /\ out[w] = <<>> /\ u \in Uids
      /\ UNCHANGED <<type, midway, toIot, split, toSrv, command, reply, active, host, got, answered, torn, crashed>>
  BY DEF SendMsgWrapper, nodeVars, hostVars, TypeInv, TypeOK
<1>3. Message(u, type[u], type[u] = "WRITE") \in Seq(Pieces)
  <2>1. type[u] \in Types
    BY <1>2 DEF TypeInv, TypeOK
  <2> QED
    BY <1>2, <2>1, UidPieces, MessageTyped
<1>4. out' \in [Workers -> Seq(Pieces)]
  BY <1>1, <1>3 DEF TypeInv, TypeOK
<1>5. midway' \subseteq {v \in Workers : out'[v] # <<>>}
  BY <1>1, <1>2 DEF TypeInv, TypeOK
<1> QED
  BY <1>1, <1>2, <1>4, <1>5 DEF TypeInv, TypeOK
(* What sendmsg sends at once.                                               *)
Room    == OutCap - Len(toIot)
Sent(w) == IF Room < Len(out[w]) THEN Room ELSE Len(out[w])

(* What is left of a sequence after its first k elements. *)
LEMMA RestIs ==
  ASSUME NEW S, NEW s \in Seq(S), NEW k \in 1 .. Len(s)
  PROVE  /\ SubSeq(s, k + 1, Len(s)) \in Seq(S) /\ Len(SubSeq(s, k + 1, Len(s))) = Len(s) - k
         /\ \A i \in 1 .. Len(s) - k : SubSeq(s, k + 1, Len(s))[i] = s[k + i]
<1>1. PICK m, n : m = k + 1 /\ n = Len(s)
  OBVIOUS
<1>2. m \in Int /\ n \in Int /\ k \in Int
  BY <1>1
<1>3. \A i \in m .. n : s[i] \in S
  BY <1>1
<1>4. /\ SubSeq(s, m, n) \in Seq(S)
      /\ Len(SubSeq(s, m, n)) = IF m <= n THEN n - m + 1 ELSE 0
      /\ \A i \in 1 .. n - m + 1 : SubSeq(s, m, n)[i] = s[m + i - 1]
  BY <1>2, <1>3, SubSeqProperties
<1>5. /\ (IF m <= n THEN n - m + 1 ELSE 0) = n - k /\ n - m + 1 = n - k
      /\ \A i \in 1 .. n - k : m + i - 1 = k + i
  BY <1>1, <1>2
<1>6. \A i \in 1 .. n - k : SubSeq(s, m, n)[i] = s[k + i]
  BY <1>4, <1>5
<1> QED
  BY <1>1, <1>4, <1>5, <1>6

LEMMA SendRequestIs ==
  ASSUME TypeOK, NEW w \in Workers, SendRequest(w), NEW k, k = Sent(w)
  PROVE  /\ k \in 1 .. Len(out[w]) /\ k + Len(toIot) <= OutCap
         /\ out[w] \in Seq(Pieces) /\ toIot \in Seq(Pieces)
         /\ toIot' \in Seq(Pieces) /\ Len(toIot') = Len(toIot) + k
         /\ \A i \in 1 .. Len(toIot) : toIot'[i] = toIot[i]
         /\ \A i \in 1 .. k : toIot'[Len(toIot) + i] = out[w][i]
         /\ out' = [out EXCEPT ![w] = SubSeq(@, k + 1, Len(@))]
         /\ out'[w] \in Seq(Pieces) /\ Len(out'[w]) = Len(out[w]) - k
         /\ \A i \in 1 .. Len(out[w]) - k : out'[w][i] = out[w][k + i]
         /\ midway' = IF k = Len(out[w]) THEN midway \ {w} ELSE midway \cup {w}
         /\ split' = (split \/ midway \ {w} # {})
         /\ UNCHANGED <<type, tasks, toSrv, command, reply, active, host, got, answered, torn, crashed>>
<1>1. /\ toIot \in Seq(Pieces) /\ out[w] \in Seq(Pieces) /\ Len(toIot) <= OutCap /\ OutCap \in Nat
      /\ Len(out[w]) \in Nat \ {0} /\ Len(toIot) \in Nat
  BY StreamAssumption DEF TypeOK, SendRequest
<1>2. k \in 1 .. Len(out[w]) /\ k + Len(toIot) <= OutCap /\ k \in Nat
  BY <1>1 DEF SendRequest, Sent, Room
<1>3. PICK q : q = SubSeq(out[w], 1, k)
  OBVIOUS
<1>4. q \in Seq(Pieces) /\ Len(q) = k /\ \A i \in 1 .. k : q[i] = out[w][i]
  BY <1>1, <1>2, <1>3
<1>5. toIot' = toIot \o q
  BY <1>3 DEF SendRequest, Sent, Room
<1>6. /\ toIot' \in Seq(Pieces) /\ Len(toIot') = Len(toIot) + k
      /\ \A i \in 1 .. Len(toIot) + k : toIot'[i] = IF i <= Len(toIot) THEN toIot[i] ELSE q[i - Len(toIot)]
  <2>1. /\ toIot \o q \in Seq(Pieces) /\ Len(toIot \o q) = Len(toIot) + Len(q)
        /\ \A i \in 1 .. Len(toIot) + Len(q) :
             (toIot \o q)[i] = IF i <= Len(toIot) THEN toIot[i] ELSE q[i - Len(toIot)]
    BY <1>1, <1>4, ConcatProperties
  <2>2. Len(q) = k
    BY <1>4
  <2> QED
    BY <1>5, <2>1, <2>2
<1>7. \A i \in 1 .. Len(toIot) : toIot'[i] = toIot[i]
  BY <1>1, <1>2, <1>6
<1>8. \A i \in 1 .. k : toIot'[Len(toIot) + i] = out[w][i]
  <2> SUFFICES ASSUME NEW i \in 1 .. k PROVE toIot'[Len(toIot) + i] = out[w][i]
    OBVIOUS
  <2>1. /\ Len(toIot) + i \in 1 .. Len(toIot) + k /\ ~(Len(toIot) + i <= Len(toIot))
        /\ (Len(toIot) + i) - Len(toIot) = i
    BY <1>1, <1>2
  <2>2. toIot'[Len(toIot) + i] = q[i]
    BY <1>6, <2>1
  <2> QED
    BY <1>4, <2>2
<1>9. out' = [out EXCEPT ![w] = SubSeq(@, k + 1, Len(@))]
  BY DEF SendRequest, Sent, Room
<1>10. out'[w] = SubSeq(out[w], k + 1, Len(out[w]))
  BY <1>9 DEF TypeOK
<1>11. /\ out'[w] \in Seq(Pieces) /\ Len(out'[w]) = Len(out[w]) - k
       /\ \A i \in 1 .. Len(out[w]) - k : out'[w][i] = out[w][k + i]
  <2>1. PICK t : t = out[w]
    OBVIOUS
  <2>2. t \in Seq(Pieces) /\ k \in 1 .. Len(t) /\ out'[w] = SubSeq(t, k + 1, Len(t))
    BY <1>1, <1>2, <1>10, <2>1
  <2>3. /\ SubSeq(t, k + 1, Len(t)) \in Seq(Pieces) /\ Len(SubSeq(t, k + 1, Len(t))) = Len(t) - k
        /\ \A i \in 1 .. Len(t) - k : SubSeq(t, k + 1, Len(t))[i] = t[k + i]
    BY <2>2, RestIs
  <2> QED
    BY <2>1, <2>2, <2>3
<1>12. /\ midway' = IF k = Len(out[w]) THEN midway \ {w} ELSE midway \cup {w}
       /\ split' = (split \/ midway \ {w} # {})
       /\ UNCHANGED <<type, tasks, toSrv, command, reply, active, host, got, answered, torn, crashed>>
  BY DEF SendRequest, Sent, Room, nodeVars, hostVars
<1> QED
  BY <1>1, <1>2, <1>6, <1>7, <1>8, <1>9, <1>11, <1>12

LEMMA SendRequestType ==
  ASSUME TypeInv, NEW w \in Workers, SendRequest(w) PROVE TypeInv'
<1>1. PICK k : k = Sent(w)
  OBVIOUS
<1>2. /\ k \in 1 .. Len(out[w]) /\ k + Len(toIot) <= OutCap
      /\ toIot' \in Seq(Pieces) /\ Len(toIot') = Len(toIot) + k
      /\ out' = [out EXCEPT ![w] = SubSeq(@, k + 1, Len(@))]
      /\ out'[w] \in Seq(Pieces) /\ Len(out'[w]) = Len(out[w]) - k
      /\ midway' = IF k = Len(out[w]) THEN midway \ {w} ELSE midway \cup {w}
      /\ split' = (split \/ midway \ {w} # {})
      /\ UNCHANGED <<type, tasks, toSrv, command, reply, active, host, got, answered, torn, crashed>>
  BY <1>1, SendRequestIs DEF TypeInv
<1>3. out' \in [Workers -> Seq(Pieces)] /\ \A v \in Workers : v # w => out'[v] = out[v]
  BY <1>2 DEF TypeInv, TypeOK
<1>4. Len(toIot') <= OutCap
  BY <1>2
<1>5. k # Len(out[w]) => out'[w] # <<>>
  <2>1. out[w] \in Seq(Pieces) /\ Len(out[w]) \in Nat
    BY DEF TypeInv, TypeOK
  <2>2. out'[w] = <<>> => Len(out'[w]) = 0
    OBVIOUS
  <2> QED
    BY <1>2, <2>1, <2>2
<1>6. midway' \subseteq {v \in Workers : out'[v] # <<>>}
  BY <1>2, <1>3, <1>5 DEF TypeInv, TypeOK
<1>7. split' \in BOOLEAN
  BY <1>2
<1> QED
  BY <1>2, <1>3, <1>4, <1>6, <1>7 DEF TypeInv, TypeOK

LEMMA IotType ==
  ASSUME TypeInv, Iot PROVE TypeInv'
<1>1. CASE IotReads
  <2>1. /\ command' \in Seq(Pieces) /\ toIot' \in Seq(Pieces) /\ Len(toIot') <= OutCap
    BY <1>1, StreamAssumption DEF IotReads, TypeInv, TypeOK
  <2> QED
    BY <1>1, <2>1 DEF IotReads, TypeInv, TypeOK, hostVars
<1>2. CASE IotReplies
  <2>1. command \in Seq(Pieces) /\ Len(command) >= 3 /\ command[3] \in Types
    BY <1>2 DEF IotReplies, Expected, TypeInv, TypeOK
  <2>2. command[1] \in Pieces /\ command[2] \in Pieces
    BY <2>1
  <2>3. reply' \in Seq(Pieces) /\ command' = <<>>
    BY <1>2, <2>1, <2>2, MessageTyped DEF IotReplies
  <2> QED
    BY <1>2, <2>3 DEF IotReplies, TypeInv, TypeOK, hostVars, workerVars
<1>3. CASE ReplyArrives
  <2>1. /\ toSrv' \in Seq(Pieces) /\ reply' \in Seq(Pieces) /\ Len(toSrv') <= InCap
    BY <1>3, StreamAssumption DEF ReplyArrives, TypeInv, TypeOK
  <2> QED
    BY <1>3, <2>1 DEF ReplyArrives, TypeInv, TypeOK, hostVars, workerVars
<1> QED
  BY <1>1, <1>2, <1>3 DEF Iot

LEMMA ReactorType ==
  ASSUME TypeInv, Reactor PROVE TypeInv'
<1>1. CASE IotHandle
  <2>1. host' \in active \cup {NoUid} /\ torn' \in BOOLEAN /\ crashed' \in BOOLEAN
    BY <1>1 DEF IotHandle, TypeInv, TypeOK
  <2> QED
    BY <1>1, <2>1 DEF IotHandle, TypeInv, TypeOK, nodeVars, workerVars
<1>2. CASE RecvAll
  <2>1. got' \in Seq(Pieces) /\ toSrv' \in Seq(Pieces) /\ Len(toSrv') <= InCap
    BY <1>2, StreamAssumption DEF RecvAll, TypeInv, TypeOK
  <2> QED
    BY <1>2, <2>1 DEF RecvAll, TypeInv, TypeOK, nodeVars, workerVars
<1>3. CASE ReadReply
  <2>1. /\ active' \subseteq active /\ answered' \subseteq answered \cup {host} /\ host \in active
        /\ (active' = active /\ answered' = answered) \/ host \notin active'
    BY <1>3 DEF ReadReply, Finished, TypeInv, TypeOK
  <2>2. /\ host' = NoUid /\ got' = <<>>
        /\ UNCHANGED <<type, tasks, out, midway, toIot, split, toSrv, command, reply, torn, crashed>>
    BY <1>3 DEF ReadReply, nodeVars, workerVars
  <2>3. active' \subseteq Uids /\ answered' \subseteq Uids \ active'
    BY <2>1 DEF TypeInv, TypeOK
  <2>4. \A v \in tasks' \cup active' \cup answered' : type'[v] # "NONE"
    BY <2>1, <2>2 DEF TypeInv
  <2> QED
    BY <2>2, <2>3, <2>4 DEF TypeInv, TypeOK
<1> QED
  BY <1>1, <1>2, <1>3 DEF Reactor

LEMMA NextType == TypeInv /\ [Next]_vars => TypeInv'
<1> SUFFICES ASSUME TypeInv, [Next]_vars PROVE TypeInv'
  OBVIOUS
<1>1. CASE UNCHANGED vars
  BY <1>1 DEF vars, workerVars, nodeVars, hostVars, TypeInv, TypeOK
<1>2. CASE Next
  BY <1>2, NbdRequestsHandleType, SendMsgWrapperType, SendRequestType, IotType, ReactorType DEF Next
<1> QED
  BY <1>1, <1>2

LEMMA InitType == Init => TypeInv
<1> SUFFICES ASSUME Init PROVE TypeInv
  OBVIOUS
<1>1. <<>> \in Seq(Pieces) /\ Len(<<>>) = 0
  OBVIOUS
<1>2. out \in [Workers -> Seq(Pieces)] /\ type \in [Uids -> Types \cup {"NONE"}]
  BY <1>1 DEF Init
<1>3. /\ toIot \in Seq(Pieces) /\ toSrv \in Seq(Pieces) /\ command \in Seq(Pieces)
      /\ reply \in Seq(Pieces) /\ got \in Seq(Pieces)
  BY <1>1 DEF Init
<1>4. Len(toIot) <= OutCap /\ Len(toSrv) <= InCap
  BY StreamAssumption DEF Init
<1>5. {split, torn, crashed} \subseteq BOOLEAN
  BY DEF Init
<1> QED
  BY <1>2, <1>3, <1>4, <1>5 DEF Init, TypeInv, TypeOK

(* What the variables range over; a request is registered until its answer.   *)
THEOREM TypeCorrect == Spec => []TypeOK
<1>1. TypeInv => TypeOK
  BY DEF TypeInv
<1> QED
  BY <1>1, InitType, NextType, PTL DEF Spec
----------------------------------------------------------------------------
(* What the labels say after a step that changes no type of theirs.           *)

LEMMA RowNext ==
  ASSUME NEW L, NEW n, NEW d, Row(L, n, d), \A k \in 1 .. n : type'[L[k][1]] = type[L[k][1]]
  PROVE  Row(L, n, d)'
<1>1. \A k \in 1 .. n : MsgLen(L[k][1], d)' = MsgLen(L[k][1], d)
  BY DEF MsgLen
<1>2. n \in Nat /\ n > 0 => 1 \in 1 .. n /\ n \in 1 .. n
  OBVIOUS
<1>3. n \in Nat => \A k \in 1 .. n - 1 : k \in 1 .. n
  OBVIOUS
<1> QED
  BY <1>1, <1>2, <1>3 DEF Row

LEMMA LabelNext ==
  ASSUME NEW l, type'[l[1]] = type[l[1]]
  PROVE  Piece(l)' = Piece(l) /\ \A d : MsgLen(l[1], d)' = MsgLen(l[1], d)
BY DEF Piece, MsgLen

LEMMA MsgNext ==
  ASSUME NEW u, NEW d, type'[u] = type[u]
  PROVE  Msg(u, d)' = Msg(u, d) /\ MsgLen(u, d)' = MsgLen(u, d)
BY DEF Msg, MsgLen, Message

(* The first piece of b moves to the end of a.                               *)
LEMMA Moves ==
  ASSUME NEW S, NEW a \in Seq(S), NEW b \in Seq(S), b # <<>>, NEW L, NEW k \in Nat,
         Labelled(a, L, k), Labelled(b, L, k + Len(a))
  PROVE  /\ Labelled(Append(a, Head(b)), L, k) /\ Labelled(Tail(b), L, k + Len(a) + 1)
         /\ Len(Append(a, Head(b))) = Len(a) + 1 /\ Len(Tail(b)) = Len(b) - 1
         /\ Len(a) \in Nat /\ Len(b) \in Nat \ {0}
<1>1. /\ Len(a) \in Nat /\ Len(b) \in Nat \ {0} /\ Head(b) = b[1]
      /\ Len(Append(a, Head(b))) = Len(a) + 1
      /\ \A j \in 1 .. Len(a) : Append(a, Head(b))[j] = a[j]
      /\ Append(a, Head(b))[Len(a) + 1] = b[1]
      /\ Len(Tail(b)) = Len(b) - 1
  OBVIOUS
<1>2. \A j \in 1 .. Len(Tail(b)) : Tail(b)[j] = b[j + 1]
  OBVIOUS
<1>3. ASSUME NEW j \in 1 .. Len(a) + 1 PROVE Append(a, Head(b))[j] = Piece(L[k + j])
  <2>1. CASE j = Len(a) + 1
    <3>1. b[1] = Piece(L[k + Len(a) + 1]) /\ k + Len(a) + 1 = k + j
      BY <1>1, <2>1 DEF Labelled
    <3> QED
      BY <1>1, <2>1, <3>1
  <2>2. CASE j \in 1 .. Len(a)
    BY <1>1, <2>2 DEF Labelled
  <2> QED
    BY <1>1, <2>1, <2>2
<1>4. ASSUME NEW j \in 1 .. Len(Tail(b)) PROVE Tail(b)[j] = Piece(L[k + Len(a) + 1 + j])
  <2>1. j + 1 \in 1 .. Len(b) /\ k + Len(a) + (j + 1) = k + Len(a) + 1 + j
    BY <1>1
  <2>2. b[j + 1] = Piece(L[k + Len(a) + (j + 1)])
    BY <2>1 DEF Labelled
  <2> QED
    BY <1>2, <2>1, <2>2
<1> QED
  BY <1>1, <1>3, <1>4 DEF Labelled
----------------------------------------------------------------------------
(* The streams stay framed: one lemma per action.                            *)

LEMMA Lens ==
  ASSUME TypeInv
  PROVE  /\ command \in Seq(Pieces) /\ toIot \in Seq(Pieces) /\ reply \in Seq(Pieces)
         /\ got \in Seq(Pieces) /\ toSrv \in Seq(Pieces) /\ \A w \in Workers : out[w] \in Seq(Pieces)
         /\ Len(command) \in Nat /\ Len(toIot) \in Nat /\ Len(reply) \in Nat
         /\ Len(got) \in Nat /\ Len(toSrv) \in Nat /\ \A w \in Workers : Len(out[w]) \in Nat
         /\ Len(<<>>) = 0
BY DEF TypeInv, TypeOK

LEMMA PlacesDiffer ==
  /\ Task # Command /\ Task # Reply /\ Task # Nowhere
  /\ Command # Reply /\ Command # Nowhere /\ Reply # Nowhere
  /\ \A w : Sender(w) # Task /\ Sender(w) # Command /\ Sender(w) # Reply /\ Sender(w) # Nowhere
  /\ \A v, w : Sender(v) = Sender(w) => v = w
<1>1. /\ Task[1] = "task" /\ Command[1] = "command" /\ Reply[1] = "reply" /\ Nowhere[1] = "nowhere"
      /\ \A w : Sender(w)[1] = "worker" /\ Sender(w)[2] = w
  BY DEF Task, Command, Reply, Nowhere, Sender
<1>2. \A v, w : Sender(v) = Sender(w) => v = w
  BY <1>1
<1> QED
  BY <1>1, <1>2

(* An issued request's labels are untouched.                                 *)
LEMMA NbdRequestsHandleFramed ==
  ASSUME TypeInv, NEW v \in Uids, NbdRequestsHandle(v), Framed PROVE Framed'
<1>1. PICK C, x, R, P : At(C, x, R, P) /\ P = [u \in Uids |-> P[u]]
  BY DEF Framed
<1>2. /\ ~crashed /\ host = NoUid /\ type[v] = "NONE"
      /\ \A u \in Uids : u # v => type'[u] = type[u]
      /\ active' = active \cup {v} /\ tasks' = tasks \cup {v}
      /\ UNCHANGED <<out, midway, toIot, split, toSrv, command, reply, host, got, answered, torn, crashed>>
  BY DEF NbdRequestsHandle, nodeVars, TypeInv, TypeOK
<1>3. P[v] = Nowhere
  BY <1>1, <1>2 DEF At, Placed, TypeInv
<1>4. PICK n : n = Len(command) + Len(toIot) + Len(x)
  OBVIOUS
<1>5. PICK m : m = Len(got) + Len(toSrv) + Len(reply)
  OBVIOUS
<1>6. Row(C, n, "WRITE") /\ Row(R, m, "READ")
  BY <1>1, <1>4, <1>5 DEF At, ToNode, FromNode
<1>7. /\ n \in Nat /\ m \in Nat /\ DOMAIN C = 1 .. n /\ DOMAIN R = 1 .. m
      /\ \A k \in 1 .. n : C[k][1] \in Uids
      /\ \A k \in 1 .. m : R[k][1] \in Uids
  BY <1>6 DEF Row
<1>8. /\ \A k \in 1 .. n : C[k][1] # v /\ type'[C[k][1]] = type[C[k][1]]
      /\ \A k \in 1 .. m : R[k][1] # v /\ type'[R[k][1]] = type[R[k][1]]
  <2>1. \A k \in 1 .. n : P[C[k][1]] # P[v]
    BY <1>1, <1>3, <1>7, PlacesDiffer DEF At, Placed
  <2>2. \A k \in 1 .. m : P[R[k][1]] # P[v]
    BY <1>1, <1>3, <1>7, PlacesDiffer DEF At, Placed
  <2>3. (\A k \in 1 .. n : C[k][1] # v) /\ (\A k \in 1 .. m : R[k][1] # v)
    BY <2>1, <2>2
  <2> QED
    BY <1>2, <1>7, <2>3
<1>9. Row(C, n, "WRITE")' /\ Row(R, m, "READ")'
  BY <1>6, <1>8, RowNext
<1>10. /\ \A k \in 1 .. n : Piece(C[k])' = Piece(C[k]) /\ MsgLen(C[k][1], "WRITE")' = MsgLen(C[k][1], "WRITE")
       /\ \A k \in 1 .. m : Piece(R[k])' = Piece(R[k])
  BY <1>8, LabelNext
<1>11. PICK a, b, c, e, f, g : a = Len(command) /\ b = Len(toIot) /\ c = Len(x)
                               /\ e = Len(got) /\ f = Len(toSrv) /\ g = Len(reply)
  OBVIOUS
<1>12. a \in Nat /\ b \in Nat /\ c \in Nat /\ e \in Nat /\ f \in Nat /\ g \in Nat
  BY <1>1, <1>11, Lens DEF At, ToNode, TypeInv, TypeOK
<1>13. /\ \A j \in 1 .. a : 0 + j \in 1 .. n
       /\ \A j \in 1 .. b : a + j \in 1 .. n
       /\ \A j \in 1 .. c : a + b + j \in 1 .. n
       /\ \A j \in 1 .. e : 0 + j \in 1 .. m
       /\ \A j \in 1 .. f : e + j \in 1 .. m
       /\ \A j \in 1 .. g : e + f + j \in 1 .. m
  <2>1. /\ \A j \in 1 .. a : 0 + j \in 1 .. n
        /\ \A j \in 1 .. b : a + j \in 1 .. n
        /\ \A j \in 1 .. c : a + b + j \in 1 .. n
    BY <1>4, <1>11, <1>12
  <2>2. /\ \A j \in 1 .. e : 0 + j \in 1 .. m
        /\ \A j \in 1 .. f : e + j \in 1 .. m
        /\ \A j \in 1 .. g : e + f + j \in 1 .. m
    BY <1>5, <1>11, <1>12
  <2> QED
    BY <2>1, <2>2
<1>14. /\ (Labelled(command, C, 0) /\ Labelled(toIot, C, Len(command))
          /\ Labelled(x, C, Len(command) + Len(toIot)))'
       /\ (Labelled(got, R, 0) /\ Labelled(toSrv, R, Len(got))
          /\ Labelled(reply, R, Len(got) + Len(toSrv)))'
  BY <1>1, <1>2, <1>10, <1>11, <1>13 DEF At, ToNode, FromNode, Labelled
<1>15. ToNode(C, x)'
  <2>1. command # <<>> => 1 \in 1 .. n
    <3>1. command # <<>> => Len(command) # 0
      BY Lens, EmptySeq
    <3> QED
      BY <1>4, <1>11, <1>12, <3>1
  <2>2. (command # <<>> => reply = <<>> /\ Len(command) <= MsgLen(C[1][1], "WRITE"))'
    BY <1>1, <1>2, <1>10, <2>1 DEF At, ToNode
  <2>3. (Len(command) + Len(toIot) + Len(x))' = n
    BY <1>2, <1>4
  <2>4. ((midway = {} /\ x = <<>>) \/ \E w \in midway : midway = {w} /\ x = out[w])'
    BY <1>1, <1>2 DEF At, ToNode
  <2> QED
    BY <1>9, <1>14, <2>2, <2>3, <2>4 DEF ToNode
<1>16. FromNode(R)'
  <2>1. (Len(got) + Len(toSrv) + Len(reply))' = m
    BY <1>2, <1>5
  <2> QED
    BY <1>1, <1>2, <1>9, <1>14, <2>1 DEF At, FromNode
<1>17. \A w \in Workers \ midway : out[w] # <<>> =>
         \E u \in Uids : P[u] = Sender(w) /\ out[w] = Msg(u, "WRITE") /\ out[w] = Msg(u, "WRITE")'
  <2> SUFFICES ASSUME NEW w \in Workers \ midway, out[w] # <<>>
               PROVE  \E u \in Uids : P[u] = Sender(w) /\ out[w] = Msg(u, "WRITE") /\ out[w] = Msg(u, "WRITE")'
    OBVIOUS
  <2>1. PICK u \in Uids : P[u] = Sender(w) /\ out[w] = Msg(u, "WRITE")
    BY <1>1 DEF At, Placed
  <2>2. u # v
    BY <1>3, <2>1, PlacesDiffer
  <2> QED
    BY <1>2, <2>1, <2>2, MsgNext
<1>18. PICK Q : Q = [u \in Uids |-> IF u = v THEN Task ELSE P[u]]
  OBVIOUS
<1>19. Placed(C, R, Q)'
  <2>1. (\A u \in tasks : Q[u] = Task)'
    BY <1>1, <1>2, <1>18 DEF At, Placed, TypeInv, TypeOK
  <2>2. (\A w \in Workers \ midway :
           out[w] # <<>> => \E u \in Uids : Q[u] = Sender(w) /\ out[w] = Msg(u, "WRITE"))'
    <3>1. \A w \in Workers : Sender(w) # Nowhere
      BY PlacesDiffer
    <3>2. \A w \in Workers : \A u \in Uids : P[u] = Sender(w) => Q[u] = Sender(w)
      BY <1>3, <1>18, <3>1
    <3> QED
      BY <1>2, <1>17, <3>2
  <2>3. (\A k \in DOMAIN C : Q[C[k][1]] = Command) /\ (\A k \in DOMAIN R : Q[R[k][1]] = Reply)
    BY <1>1, <1>7, <1>8, <1>18 DEF At, Placed
  <2>4. (\A u \in Uids : Q[u] # Nowhere => u \in active)'
    BY <1>1, <1>2, <1>18 DEF At, Placed
  <2> QED
    BY <2>1, <2>2, <2>3, <2>4 DEF Placed
<1>20. At(C, x, R, Q)' /\ Q = [u \in Uids |-> Q[u]]
  BY <1>15, <1>16, <1>18, <1>19 DEF At
<1> QED
  BY <1>2, <1>20 DEF Framed

LEMMA RowSame ==
  ASSUME type' = type, NEW L, NEW n, NEW d, Row(L, n, d)
  PROVE  Row(L, n, d)'
<1>1. \A k \in 1 .. n : type'[L[k][1]] = type[L[k][1]]
  OBVIOUS
<1> QED
  BY <1>1, RowNext

LEMMA LabelsSame ==
  ASSUME type' = type
  PROVE  /\ \A l : Piece(l)' = Piece(l)
         /\ \A u, d : MsgLen(u, d)' = MsgLen(u, d) /\ Msg(u, d)' = Msg(u, d)
         /\ \A q, L, k : Labelled(q, L, k) => Labelled(q, L, k)'
<1>1. \A l : Piece(l)' = Piece(l)
  BY DEF Piece
<1>2. \A u, d : MsgLen(u, d)' = MsgLen(u, d) /\ Msg(u, d)' = Msg(u, d)
  BY DEF Msg, MsgLen, Message
<1>3. \A q, L, k : Labelled(q, L, k) => Labelled(q, L, k)'
  BY <1>1 DEF Labelled
<1> QED
  BY <1>1, <1>2, <1>3

LEMMA ToNodeSame ==
  ASSUME NEW C, NEW x, ToNode(C, x), UNCHANGED <<type, command, toIot, midway>>,
         \A w \in midway : out'[w] = out[w], command # <<>> => reply' = <<>>
  PROVE  ToNode(C, x)'
<1>1. PICK n : n = Len(command) + Len(toIot) + Len(x)
  OBVIOUS
<1>2. Row(C, n, "WRITE") /\ Row(C, n, "WRITE")'
  BY <1>1, RowSame DEF ToNode
<1>3. (Labelled(command, C, 0) /\ Labelled(toIot, C, Len(command))
       /\ Labelled(x, C, Len(command) + Len(toIot)))'
  BY LabelsSame DEF ToNode, Labelled
<1>4. (command # <<>> => reply = <<>> /\ Len(command) <= MsgLen(C[1][1], "WRITE"))'
  BY LabelsSame DEF ToNode
<1>5. (Len(command) + Len(toIot) + Len(x))' = n
  BY <1>1
<1>6. ((midway = {} /\ x = <<>>) \/ \E w \in midway : midway = {w} /\ x = out[w])'
  BY DEF ToNode
<1> QED
  BY <1>2, <1>3, <1>4, <1>5, <1>6 DEF ToNode

LEMMA FromNodeSame ==
  ASSUME NEW R, FromNode(R), UNCHANGED <<type, got, toSrv, reply, host>>
  PROVE  FromNode(R)'
<1>1. PICK n : n = Len(got) + Len(toSrv) + Len(reply)
  OBVIOUS
<1>2. Row(R, n, "READ") /\ Row(R, n, "READ")'
  BY <1>1, RowSame DEF FromNode
<1>3. (Labelled(got, R, 0) /\ Labelled(toSrv, R, Len(got))
       /\ Labelled(reply, R, Len(got) + Len(toSrv)))'
  BY LabelsSame DEF FromNode, Labelled
<1>4. (Len(got) + Len(toSrv) + Len(reply))' = n
  BY <1>1
<1>5. (host # NoUid => Len(got) <= MsgLen(host, "READ"))'
  BY DEF FromNode, MsgLen
<1> QED
  BY <1>2, <1>3, <1>4, <1>5 DEF FromNode

LEMMA PlacedSame ==
  ASSUME NEW C, NEW R, NEW P, Placed(C, R, P), UNCHANGED <<type, tasks, out, midway, active>>
  PROVE  Placed(C, R, P)'
<1>1. \A w \in Workers \ midway :
        out[w] # <<>> => \E u \in Uids : P[u] = Sender(w) /\ out[w] = Msg(u, "WRITE")'
  BY LabelsSame DEF Placed
<1>2. (\A w \in Workers \ midway :
         out[w] # <<>> => \E u \in Uids : P[u] = Sender(w) /\ out[w] = Msg(u, "WRITE"))'
  BY <1>1
<1>3. /\ \A u \in tasks' : P[u] = Task
      /\ (\A k \in DOMAIN C : P[C[k][1]] = Command) /\ (\A k \in DOMAIN R : P[R[k][1]] = Reply)
      /\ \A u \in Uids : P[u] # Nowhere => u \in active'
  BY DEF Placed
<1> QED
  BY <1>2, <1>3 DEF Placed

(* A label's request is a request, and none of its pieces is elsewhere.       *)
LEMMA Labels ==
  ASSUME TypeInv, NEW C, NEW x, NEW R, NEW P, At(C, x, R, P)
  PROVE  /\ x \in Seq(Pieces) /\ Len(x) \in Nat
         /\ DOMAIN C = 1 .. Len(command) + Len(toIot) + Len(x)
         /\ DOMAIN R = 1 .. Len(got) + Len(toSrv) + Len(reply)
         /\ \A k \in DOMAIN C : C[k][1] \in Uids
         /\ \A k \in DOMAIN R : R[k][1] \in Uids
<1>1. x \in Seq(Pieces)
  BY DEF At, ToNode, TypeInv, TypeOK
<1>2. PICK n : n = Len(command) + Len(toIot) + Len(x)
  OBVIOUS
<1>3. PICK m : m = Len(got) + Len(toSrv) + Len(reply)
  OBVIOUS
<1>4. Row(C, n, "WRITE") /\ Row(R, m, "READ")
  BY <1>2, <1>3 DEF At, ToNode, FromNode
<1>5. /\ DOMAIN C = 1 .. n /\ DOMAIN R = 1 .. m
      /\ \A k \in 1 .. n : C[k][1] \in Uids
      /\ \A k \in 1 .. m : R[k][1] \in Uids
  BY <1>4 DEF Row
<1> QED
  BY <1>1, <1>2, <1>3, <1>5

(* A worker takes up a task.                                                 *)
LEMMA SendMsgWrapperFramed ==
  ASSUME TypeInv, NEW w \in Workers, SendMsgWrapper(w), Framed PROVE Framed'
<1>1. PICK C, x, R, P : At(C, x, R, P) /\ P = [u \in Uids |-> P[u]]
  BY DEF Framed
<1>2. PICK v \in tasks : /\ tasks' = tasks \ {v}
                         /\ out' = [out EXCEPT ![w] = Message(v, type[v], type[v] = "WRITE")]
  BY DEF SendMsgWrapper
<1>3. /\ ~crashed /\ out[w] = <<>> /\ v \in Uids /\ w \notin midway /\ midway \subseteq Workers
      /\ UNCHANGED <<type, midway, toIot, split, toSrv, command, reply, active, host, got, answered, torn, crashed>>
  BY DEF SendMsgWrapper, nodeVars, hostVars, TypeInv, TypeOK
<1>4. out'[w] = Msg(v, "WRITE") /\ \A z \in Workers : z # w => out'[z] = out[z]
  BY <1>2 DEF Msg, TypeInv, TypeOK
<1>5. P[v] = Task
  BY <1>1, <1>2 DEF At, Placed
<1>6. PICK Q : Q = [u \in Uids |-> IF u = v THEN Sender(w) ELSE P[u]]
  OBVIOUS
<1>7. ToNode(C, x)'
  <2>1. ToNode(C, x) /\ (command # <<>> => reply' = <<>>) /\ \A z \in midway : out'[z] = out[z]
    BY <1>1, <1>3, <1>4 DEF At, ToNode
  <2> QED
    BY <1>3, <2>1, ToNodeSame
<1>8. FromNode(R)'
  BY <1>1, <1>3, FromNodeSame DEF At
<1>9. Placed(C, R, Q)'
  <2>1. \A u \in tasks' : Q[u] = Task
    BY <1>1, <1>2, <1>6 DEF At, Placed, TypeInv, TypeOK
  <2>2. \A z \in Workers \ midway' : out'[z] # <<>> =>
          \E u \in Uids : Q[u] = Sender(z) /\ out'[z] = Msg(u, "WRITE")
    <3> SUFFICES ASSUME NEW z \in Workers \ midway', out'[z] # <<>>
                 PROVE  \E u \in Uids : Q[u] = Sender(z) /\ out'[z] = Msg(u, "WRITE")
      OBVIOUS
    <3>1. CASE z = w
      BY <1>3, <1>4, <1>6, <3>1
    <3>2. CASE z # w
      <4>1. PICK u \in Uids : P[u] = Sender(z) /\ out[z] = Msg(u, "WRITE")
        BY <1>1, <1>3, <1>4, <3>2 DEF At, Placed
      <4>2. u # v
        BY <1>5, <4>1, PlacesDiffer
      <4> QED
        BY <1>4, <1>6, <3>2, <4>1, <4>2
    <3> QED
      BY <3>1, <3>2
  <2>3. (\A z \in Workers \ midway : out[z] # <<>> =>
          \E u \in Uids : Q[u] = Sender(z) /\ out[z] = Msg(u, "WRITE"))'
    BY <1>3, <2>2, LabelsSame
  <2>4. (\A k \in DOMAIN C : Q[C[k][1]] = Command) /\ (\A k \in DOMAIN R : Q[R[k][1]] = Reply)
    BY <1>1, <1>5, <1>6, Labels, PlacesDiffer DEF At, Placed
  <2>5. \A u \in Uids : Q[u] # Nowhere => u \in active'
    BY <1>1, <1>3, <1>5, <1>6, PlacesDiffer DEF At, Placed
  <2> QED
    BY <2>1, <2>3, <2>4, <2>5 DEF Placed
<1>10. At(C, x, R, Q)' /\ Q = [u \in Uids |-> Q[u]]
  BY <1>6, <1>7, <1>8, <1>9 DEF At
<1> QED
  BY <1>3, <1>10 DEF Framed

(* What a worker has to send: the rest of its message, or a new one that then  *)
(* follows everything sent before.                                           *)
Rest(w, C, P) ==
  /\ Row(C, Len(command) + Len(toIot) + Len(out[w]), "WRITE")
  /\ Labelled(command, C, 0) /\ Labelled(toIot, C, Len(command))
  /\ Labelled(out[w], C, Len(command) + Len(toIot))
  /\ command # <<>> => reply = <<>> /\ Len(command) <= MsgLen(C[1][1], "WRITE")
  /\ \A k \in DOMAIN C : P[C[k][1]] = Command
  /\ P = [u \in Uids |-> P[u]]

LEMMA NewMessage ==
  ASSUME TypeInv, NEW w \in Workers, w \notin midway, midway = {}, out[w] # <<>>,
         NEW C, NEW x, NEW R, NEW P, At(C, x, R, P), P = [u \in Uids |-> P[u]]
  PROVE  \E v \in Uids : \E K, Q :
           P[v] = Sender(w) /\ Rest(w, K, Q) /\ Q = [u \in Uids |-> IF u = v THEN Command ELSE P[u]]
<1>1. PICK v \in Uids : P[v] = Sender(w) /\ out[w] = Msg(v, "WRITE")
  BY DEF At, Placed
<1>2. x = <<>> /\ Len(x) = 0
  BY DEF At, ToNode
<1>3. PICK n : n = Len(command) + Len(toIot)
  OBVIOUS
<1>4. PICK m : m = MsgLen(v, "WRITE")
  OBVIOUS
<1>5. /\ Len(out[w]) = m /\ m \in {3, 4} /\ n \in Nat /\ Len(command) \in Nat /\ Len(toIot) \in Nat
      /\ \A i \in 1 .. m : out[w][i] = Piece(<<v, i>>)
  <2>1. /\ Len(Msg(v, "WRITE")) = m /\ m \in {3, 4}
        /\ \A i \in 1 .. m : Msg(v, "WRITE")[i] = Piece(<<v, i>>)
    <3>1. /\ Len(Msg(v, "WRITE")) = MsgLen(v, "WRITE") /\ MsgLen(v, "WRITE") \in {3, 4}
          /\ \A i \in 1 .. MsgLen(v, "WRITE") : Msg(v, "WRITE")[i] = Piece(<<v, i>>)
      BY MessageIs
    <3> QED
      BY <1>4, <3>1
  <2>2. n \in Nat /\ Len(command) \in Nat /\ Len(toIot) \in Nat
    BY <1>3, Lens
  <2> QED
    BY <1>1, <2>1, <2>2
<1>6. n = Len(command) + Len(toIot) + Len(x)
  BY <1>2, <1>3, <1>5
<1>7. Row(C, n, "WRITE") /\ DOMAIN C = 1 .. n /\ \A k \in 1 .. n : C[k][1] \in Uids
  BY <1>6, Labels DEF At, ToNode
<1>8. \A k \in 1 .. n : C[k][1] # v /\ P[C[k][1]] = Command
  BY <1>1, <1>7, PlacesDiffer DEF At, Placed
<1>9. PICK K : K = [k \in 1 .. n + m |-> IF k <= n THEN C[k] ELSE <<v, k - n>>]
  OBVIOUS
<1>10. Row(K, n + m, "WRITE")
  <2>1. \A k \in 1 .. n : C[k][1] # v
    BY <1>8
  <2> QED
    BY <1>4, <1>7, <1>9, <2>1, RowAdd
<1>11. PICK Q : Q = [u \in Uids |-> IF u = v THEN Command ELSE P[u]]
  OBVIOUS
<1>12. /\ \A k \in 1 .. n : k \in 1 .. n + m /\ K[k] = C[k]
       /\ \A i \in 1 .. m : n + i \in 1 .. n + m /\ K[n + i] = <<v, i>>
       /\ DOMAIN K = 1 .. n + m
  BY <1>5, <1>9
<1>13. Labelled(command, K, 0) /\ Labelled(toIot, K, Len(command)) /\ Labelled(out[w], K, n)
  <2>1. /\ \A j \in 1 .. Len(command) : 0 + j \in 1 .. n
        /\ \A j \in 1 .. Len(toIot) : Len(command) + j \in 1 .. n
    BY <1>3, <1>5
  <2>2. Labelled(command, C, 0) /\ Labelled(toIot, C, Len(command))
    BY DEF At, ToNode
  <2>3. Labelled(command, K, 0) /\ Labelled(toIot, K, Len(command))
    BY <1>12, <2>1, <2>2 DEF Labelled
  <2>4. Labelled(out[w], K, n)
    BY <1>5, <1>12 DEF Labelled
  <2> QED
    BY <2>3, <2>4
<1>14. command # <<>> => reply = <<>> /\ Len(command) <= MsgLen(K[1][1], "WRITE")
  <2>1. command # <<>> => 1 \in 1 .. n
    <3>1. command # <<>> => Len(command) # 0
      BY Lens, EmptySeq
    <3> QED
      BY <1>3, <1>5, <3>1
  <2> QED
    BY <1>12, <2>1 DEF At, ToNode
<1>15. \A k \in DOMAIN K : Q[K[k][1]] = Command
  <2> SUFFICES ASSUME NEW k \in 1 .. n + m PROVE Q[K[k][1]] = Command
    BY <1>12
  <2>1. CASE k \in 1 .. n
    BY <1>7, <1>8, <1>11, <1>12, <2>1
  <2>2. CASE k \notin 1 .. n
    <3>1. k - n \in 1 .. m /\ n + (k - n) = k
      BY <1>5, <2>2
    <3>2. K[k] = <<v, k - n>> /\ <<v, k - n>>[1] = v
      BY <1>12, <3>1
    <3> QED
      BY <1>11, <3>2
  <2> QED
    BY <2>1, <2>2
<1>16. Rest(w, K, Q)
  BY <1>3, <1>5, <1>10, <1>11, <1>13, <1>14, <1>15 DEF Rest
<1> QED
  BY <1>1, <1>11, <1>16

LEMMA SendsRest ==
  ASSUME TypeInv, NEW w \in Workers, SendRequest(w), midway \ {w} = {}, NEW C, NEW P, Rest(w, C, P),
         NEW x, x = IF w \in midway' THEN out'[w] ELSE <<>>
  PROVE  ToNode(C, x)'
<1>1. PICK k : k = Sent(w)
  OBVIOUS
<1>2. PICK y : y = out'[w]
  OBVIOUS
<1>3. /\ k \in 1 .. Len(out[w]) /\ Len(toIot') = Len(toIot) + k
      /\ \A i \in 1 .. Len(toIot) : toIot'[i] = toIot[i]
      /\ \A i \in 1 .. k : toIot'[Len(toIot) + i] = out[w][i]
      /\ y \in Seq(Pieces) /\ Len(y) = Len(out[w]) - k
      /\ \A i \in 1 .. Len(out[w]) - k : y[i] = out[w][k + i]
      /\ midway' = IF k = Len(out[w]) THEN midway \ {w} ELSE midway \cup {w}
      /\ UNCHANGED <<type, command, reply>>
  <2>1. /\ k \in 1 .. Len(out[w]) /\ Len(toIot') = Len(toIot) + k
        /\ \A i \in 1 .. Len(toIot) : toIot'[i] = toIot[i]
        /\ \A i \in 1 .. k : toIot'[Len(toIot) + i] = out[w][i]
        /\ out'[w] \in Seq(Pieces) /\ Len(out'[w]) = Len(out[w]) - k
        /\ \A i \in 1 .. Len(out[w]) - k : out'[w][i] = out[w][k + i]
        /\ midway' = IF k = Len(out[w]) THEN midway \ {w} ELSE midway \cup {w}
        /\ UNCHANGED <<type, tasks, toSrv, command, reply, active, host, got, answered, torn, crashed>>
    <3>1. TypeOK
      BY DEF TypeInv
    <3>2. k \in 1 .. Len(out[w]) /\ Len(toIot') = Len(toIot) + k
      BY <1>1, <3>1, SendRequestIs
    <3>3. \A i \in 1 .. Len(toIot) : toIot'[i] = toIot[i]
      BY <1>1, <3>1, SendRequestIs
    <3>4. \A i \in 1 .. k : toIot'[Len(toIot) + i] = out[w][i]
      BY <1>1, <3>1, SendRequestIs
    <3>5. out'[w] \in Seq(Pieces) /\ Len(out'[w]) = Len(out[w]) - k
      BY <1>1, <3>1, SendRequestIs
    <3>6. \A i \in 1 .. Len(out[w]) - k : out'[w][i] = out[w][k + i]
      BY <1>1, <3>1, SendRequestIs
    <3>7. /\ midway' = IF k = Len(out[w]) THEN midway \ {w} ELSE midway \cup {w}
          /\ UNCHANGED <<type, tasks, toSrv, command, reply, active, host, got, answered, torn, crashed>>
      BY <1>1 DEF SendRequest, Sent, Room, nodeVars, hostVars
    <3> QED
      BY <3>2, <3>3, <3>4, <3>5, <3>6, <3>7
  <2> QED
    BY <1>2, <2>1
<1>4. Len(out[w]) \in Nat /\ Len(toIot) \in Nat /\ Len(command) \in Nat
  BY Lens
<1>5. w \notin midway' => y = <<>>
  <2>1. w \notin midway' => Len(y) = 0
    BY <1>3, <1>4
  <2> QED
    BY <1>3, <2>1, EmptySeq
<1>7. x = y
  BY <1>2, <1>5
<1>8. ((midway = {} /\ x = <<>>) \/ \E z \in midway : midway = {z} /\ x = out[z])'
  <2>1. CASE w \in midway'
    <3>1. midway' = {w} /\ x = out'[w]
      BY <1>3, <2>1
    <3> QED
      BY <3>1
  <2>2. CASE w \notin midway'
    <3>1. midway' = {} /\ x = <<>>
      BY <1>3, <2>2
    <3> QED
      BY <3>1
  <2> QED
    BY <2>1, <2>2
<1>9. PICK n : n = Len(command) + Len(toIot) + Len(out[w])
  OBVIOUS
<1>10. (Len(command) + Len(toIot) + Len(x))' = n
  <2>1. Len(command') + Len(toIot') + Len(x) = n
    <3>6. k \in Nat
      BY <1>3, <1>4
    <3>7. Len(x) = Len(out[w]) - k
      BY <1>3, <1>7
    <3>1. command' = command /\ Len(toIot') = Len(toIot) + k /\ Len(x) = Len(out[w]) - k /\ k \in Nat
      BY <1>3, <3>6, <3>7
    <3>2. PICK a, b, c : a = Len(command) /\ b = Len(toIot) /\ c = Len(out[w])
      OBVIOUS
    <3>3. Len(command') = a /\ Len(toIot') = b + k /\ Len(x) = c - k /\ n = a + b + c
      BY <1>9, <3>1, <3>2
    <3>4. a \in Nat /\ b \in Nat /\ c \in Nat
      BY <1>4, <3>2
    <3>5. a + (b + k) + (c - k) = a + b + c
      BY <3>1, <3>4
    <3> QED
      BY <3>3, <3>5
  <2> QED
    BY <2>1
<1>11. Row(C, n, "WRITE")'
  BY <1>3, <1>9, RowSame DEF Rest
<1>12. Labelled(command, C, 0)'
  BY <1>3, LabelsSame DEF Rest, Labelled
<1>13. Labelled(toIot, C, Len(command))'
  <2>1. \A j \in 1 .. Len(toIot) + k : toIot'[j] = Piece(C[Len(command) + j])
    <3> SUFFICES ASSUME NEW j \in 1 .. Len(toIot) + k PROVE toIot'[j] = Piece(C[Len(command) + j])
      OBVIOUS
    <3>1. CASE j \in 1 .. Len(toIot)
      BY <1>3, <3>1 DEF Rest, Labelled
    <3>2. CASE j \notin 1 .. Len(toIot)
      <4>1. PICK i \in 1 .. k : j = Len(toIot) + i
        <5>1. j - Len(toIot) \in 1 .. k /\ j = Len(toIot) + (j - Len(toIot))
          BY <1>3, <1>4, <3>2
        <5> QED
          BY <5>1
      <4>2. i \in 1 .. Len(out[w])
        BY <1>3, <1>4
      <4>3. out[w][i] = Piece(C[Len(command) + Len(toIot) + i])
        BY <4>2 DEF Rest, Labelled
      <4>4. Len(command) + Len(toIot) + i = Len(command) + j
        BY <1>4, <4>1
      <4> QED
        BY <1>3, <4>1, <4>3, <4>4
    <3> QED
      BY <3>1, <3>2
  <2> QED
    BY <1>3, <2>1, LabelsSame DEF Labelled
<1>14. Labelled(x, C, Len(command) + Len(toIot))'
  <2>1. \A j \in 1 .. Len(x) : x[j] = Piece(C[Len(command) + Len(toIot') + j])
    <3> SUFFICES ASSUME NEW j \in 1 .. Len(x) PROVE x[j] = Piece(C[Len(command) + Len(toIot') + j])
      OBVIOUS
    <3>1. /\ j \in 1 .. Len(out[w]) - k /\ k + j \in 1 .. Len(out[w])
          /\ Len(command) + Len(toIot) + (k + j) = Len(command) + Len(toIot') + j
      BY <1>3, <1>4, <1>7
    <3>2. out[w][k + j] = Piece(C[Len(command) + Len(toIot) + (k + j)])
      BY <3>1 DEF Rest, Labelled
    <3> QED
      BY <1>3, <1>7, <3>1, <3>2
  <2> QED
    BY <1>3, <2>1, LabelsSame DEF Labelled
<1>15. (command # <<>> => reply = <<>> /\ Len(command) <= MsgLen(C[1][1], "WRITE"))'
  BY <1>3, LabelsSame DEF Rest
<1> QED
  BY <1>8, <1>10, <1>11, <1>12, <1>13, <1>14, <1>15 DEF ToNode

(* A worker sends what there is room for.                                    *)
LEMMA SendRequestFramed ==
  ASSUME TypeInv, NEW w \in Workers, SendRequest(w), ~split', Framed PROVE Framed'
<1>1. PICK C, x, R, P : At(C, x, R, P) /\ P = [u \in Uids |-> P[u]]
  BY DEF Framed
<1>2. /\ ~crashed /\ midway \ {w} = {} /\ out[w] # <<>>
      /\ midway' \ {w} = {} /\ (w \notin midway' => out'[w] = <<>>)
      /\ \A z \in Workers : z # w => out'[z] = out[z]
      /\ UNCHANGED <<type, tasks, toSrv, command, reply, active, host, got, answered, torn, crashed>>
  <2>1. PICK k : k = Sent(w)
    OBVIOUS
  <2>2. /\ out' = [out EXCEPT ![w] = SubSeq(@, k + 1, Len(@))]
        /\ out'[w] \in Seq(Pieces) /\ Len(out'[w]) = Len(out[w]) - k
        /\ midway' = IF k = Len(out[w]) THEN midway \ {w} ELSE midway \cup {w}
        /\ split' = (split \/ midway \ {w} # {})
        /\ UNCHANGED <<type, tasks, toSrv, command, reply, active, host, got, answered, torn, crashed>>
    BY <2>1, SendRequestIs DEF TypeInv
  <2>3. w \notin midway' => Len(out'[w]) = 0
    BY <2>2, Lens
  <2>4. w \notin midway' => out'[w] = <<>>
    BY <2>2, <2>3, EmptySeq
  <2>5. ~crashed /\ out[w] # <<>>
    BY DEF SendRequest
  <2>6. \A z \in Workers : z # w => out'[z] = out[z]
    BY <2>2 DEF TypeInv, TypeOK
  <2> QED
    BY <2>2, <2>4, <2>5, <2>6
<1>3. PICK K, Q : /\ Rest(w, K, Q) /\ \A u \in Uids : P[u] # Sender(w) => Q[u] = P[u]
                  /\ \A u \in Uids : Q[u] # Nowhere => P[u] # Nowhere
  <2>1. CASE w \in midway
    <3>1. x = out[w]
      BY <1>1, <1>2, <2>1 DEF At, ToNode
    <3>2. Rest(w, C, P)
      BY <1>1, <3>1 DEF At, ToNode, Placed, Rest
    <3> QED
      BY <3>2
  <2>2. CASE w \notin midway
    <3>1. midway = {}
      BY <1>2, <2>2
    <3>2. PICK v \in Uids : \E K, Q :
            P[v] = Sender(w) /\ Rest(w, K, Q) /\ Q = [u \in Uids |-> IF u = v THEN Command ELSE P[u]]
      BY <1>1, <1>2, <2>2, <3>1, NewMessage
    <3>3. PICK K, Q :
            P[v] = Sender(w) /\ Rest(w, K, Q) /\ Q = [u \in Uids |-> IF u = v THEN Command ELSE P[u]]
      BY <3>2
    <3>4. /\ \A u \in Uids : P[u] # Sender(w) => Q[u] = P[u]
          /\ \A u \in Uids : Q[u] # Nowhere => P[u] # Nowhere
      BY <3>3, PlacesDiffer
    <3> QED
      BY <3>3, <3>4
  <2> QED
    BY <2>1, <2>2
<1>4. PICK y : y = IF w \in midway' THEN out'[w] ELSE <<>>
  OBVIOUS
<1>5. ToNode(K, y)'
  BY <1>2, <1>3, <1>4, SendsRest
<1>6. FromNode(R)'
  BY <1>1, <1>2, FromNodeSame DEF At
<1>7. Placed(K, R, Q)'
  <2>1. \A u \in tasks' : Q[u] = Task
    BY <1>1, <1>2, <1>3, PlacesDiffer DEF At, Placed, TypeInv, TypeOK
  <2>2. \A z \in Workers \ midway' : out'[z] # <<>> =>
          \E u \in Uids : Q[u] = Sender(z) /\ out'[z] = Msg(u, "WRITE")
    <3> SUFFICES ASSUME NEW z \in Workers \ midway', out'[z] # <<>>
                 PROVE  \E u \in Uids : Q[u] = Sender(z) /\ out'[z] = Msg(u, "WRITE")
      OBVIOUS
    <3>1. z # w /\ z \notin midway /\ out'[z] = out[z]
      BY <1>2
    <3>2. PICK u \in Uids : P[u] = Sender(z) /\ out[z] = Msg(u, "WRITE")
      BY <1>1, <3>1 DEF At, Placed
    <3> QED
      BY <1>3, <3>1, <3>2, PlacesDiffer
  <2>3. (\A z \in Workers \ midway : out[z] # <<>> =>
          \E u \in Uids : Q[u] = Sender(z) /\ out[z] = Msg(u, "WRITE"))'
    BY <1>2, <2>2, LabelsSame
  <2>4. \A k \in DOMAIN R : Q[R[k][1]] = Reply
    BY <1>1, <1>3, Labels, PlacesDiffer DEF At, Placed
  <2>5. \A u \in Uids : Q[u] # Nowhere => u \in active'
    BY <1>1, <1>2, <1>3 DEF At, Placed
  <2> QED
    BY <1>3, <2>1, <2>3, <2>4, <2>5 DEF Placed, Rest
<1>8. At(K, y, R, Q)' /\ Q = [u \in Uids |-> Q[u]]
  BY <1>3, <1>5, <1>6, <1>7 DEF At, Rest
<1> QED
  BY <1>2, <1>8 DEF Framed

(* What a node has read of a command.                                        *)
LEMMA CommandIs ==
  ASSUME TypeInv, NEW C, NEW x, ToNode(C, x), command # <<>>, NEW u, u = C[1][1]
  PROVE  /\ u \in Uids /\ Len(command) \in 1 .. MsgLen(u, "WRITE") /\ MsgLen(u, "WRITE") \in {3, 4}
         /\ \A i \in 1 .. Len(command) : command[i] = Piece(<<u, i>>)
         /\ Len(command) >= 3 => Expected = MsgLen(u, "WRITE")
<1>1. Len(command) \in Nat \ {0} /\ command \in Seq(Pieces)
  BY Lens, EmptySeq
<1>2. PICK n : n = Len(command) + Len(toIot) + Len(x)
  OBVIOUS
<1>3. n \in Nat /\ n > 0
  <2>1. x \in Seq(Pieces)
    BY DEF ToNode, TypeInv, TypeOK
  <2>2. Len(x) \in Nat /\ Len(toIot) \in Nat
    BY <2>1, Lens
  <2> QED
    BY <1>1, <1>2, <2>2
<1>4. PICK m : m = MsgLen(u, "WRITE")
  OBVIOUS
<1>5. Row(C, n, "WRITE")
  BY <1>2 DEF ToNode
<1>6. u \in Uids /\ m \in {3, 4} /\ \A i \in 1 .. m : C[i] = <<u, i>>
  BY <1>3, <1>4, <1>5, RowFirst
<1>7. Len(command) \in 1 .. m
  BY <1>1, <1>4, <1>6 DEF ToNode
<1>8. \A i \in 1 .. Len(command) : command[i] = Piece(<<u, i>>)
  <2> SUFFICES ASSUME NEW i \in 1 .. Len(command) PROVE command[i] = Piece(<<u, i>>)
    OBVIOUS
  <2>1. command[i] = Piece(C[0 + i])
    BY DEF ToNode, Labelled
  <2>2. C[0 + i] = <<u, i>>
    BY <1>6, <1>7
  <2> QED
    BY <2>1, <2>2
<1>9. ASSUME Len(command) >= 3 PROVE Expected = MsgLen(u, "WRITE")
  <2>1. command[3] = Piece(<<u, 3>>)
    BY <1>1, <1>8, <1>9
  <2>2. Piece(<<u, 3>>) = type[u]
    BY DEF Piece
  <2> QED
    BY <1>1, <1>9, <2>1, <2>2 DEF Expected, MsgLen
<1> QED
  BY <1>4, <1>6, <1>7, <1>8, <1>9

(* The node reads a piece of a command.                                      *)
LEMMA IotReadsFramed ==
  ASSUME TypeInv, IotReads, Framed PROVE Framed'
<1>1. PICK C, x, R, P : At(C, x, R, P) /\ P = [u \in Uids |-> P[u]]
  BY DEF Framed
<1>2. /\ ~crashed /\ toIot # <<>> /\ reply = <<>> /\ (command = <<>> \/ Len(command) < Expected)
      /\ command' = Append(command, Head(toIot)) /\ toIot' = Tail(toIot)
      /\ UNCHANGED <<type, tasks, out, midway, split, toSrv, reply, active, host, got, answered, torn, crashed>>
  BY DEF IotReads, hostVars
<1>3. PICK a, b, c : a = Len(command) /\ b = Len(toIot) /\ c = Len(x)
  OBVIOUS
<1>4. /\ Labelled(command', C, 0) /\ Labelled(toIot', C, a + 1)
      /\ Len(command') = a + 1 /\ Len(toIot') = b - 1 /\ a \in Nat /\ b \in Nat \ {0}
  <2>1. Labelled(command, C, 0) /\ Labelled(toIot, C, Len(command)) /\ 0 + Len(command) = Len(command)
    BY <1>1, Lens DEF At, ToNode
  <2>2. /\ Labelled(Append(command, Head(toIot)), C, 0) /\ Labelled(Tail(toIot), C, 0 + Len(command) + 1)
        /\ Len(Append(command, Head(toIot))) = Len(command) + 1 /\ Len(Tail(toIot)) = Len(toIot) - 1
        /\ Len(command) \in Nat /\ Len(toIot) \in Nat \ {0}
    BY <1>2, <2>1, Lens, Moves
  <2>3. 0 + Len(command) + 1 = a + 1
    BY <1>3, <2>2
  <2> QED
    BY <1>2, <1>3, <2>2, <2>3
<1>5. c \in Nat
  BY <1>1, <1>3, Labels
<1>6. a + 1 <= MsgLen(C[1][1], "WRITE")
  <2>1. PICK u : u = C[1][1]
    OBVIOUS
  <2>2. CASE command = <<>>
    BY <1>3, <2>2, Lens DEF MsgLen
  <2>3. CASE command # <<>>
    <3>1. /\ MsgLen(u, "WRITE") \in {3, 4} /\ Len(command) <= MsgLen(u, "WRITE")
          /\ Len(command) >= 3 => Expected = MsgLen(u, "WRITE")
      BY <1>1, <2>1, <2>3, CommandIs DEF At
    <3>2. CASE a >= 3
      BY <1>2, <1>3, <1>4, <2>1, <2>3, <3>1, <3>2
    <3>3. CASE ~(a >= 3)
      BY <1>4, <2>1, <3>1, <3>3
    <3> QED
      BY <3>2, <3>3
  <2> QED
    BY <2>2, <2>3
<1>7. ToNode(C, x)'
  <2>1. Row(C, a + b + c, "WRITE")'
    BY <1>1, <1>2, <1>3, RowSame DEF At, ToNode
  <2>2. (Len(command) + Len(toIot) + Len(x))' = a + b + c
    <3>1. Len(command') + Len(toIot') + Len(x) = a + b + c
      BY <1>3, <1>4, <1>5
    <3> QED
      BY <3>1
  <2>3. (Labelled(command, C, 0) /\ Labelled(toIot, C, Len(command)))'
    BY <1>2, <1>4, LabelsSame DEF Labelled
  <2>4. Labelled(x, C, Len(command) + Len(toIot))'
    <3>1. Len(command') + Len(toIot') = Len(command) + Len(toIot)
      BY <1>3, <1>4
    <3>2. Labelled(x, C, Len(command) + Len(toIot))
      BY <1>1 DEF At, ToNode
    <3> QED
      BY <1>2, <3>1, <3>2, LabelsSame DEF Labelled
  <2>5. (command # <<>> => reply = <<>> /\ Len(command) <= MsgLen(C[1][1], "WRITE"))'
    BY <1>2, <1>4, <1>6, LabelsSame
  <2>6. ((midway = {} /\ x = <<>>) \/ \E z \in midway : midway = {z} /\ x = out[z])'
    BY <1>1, <1>2 DEF At, ToNode
  <2> QED
    BY <2>1, <2>2, <2>3, <2>4, <2>5, <2>6 DEF ToNode
<1>8. FromNode(R)' /\ Placed(C, R, P)'
  BY <1>1, <1>2, FromNodeSame, PlacedSame DEF At
<1> QED
  BY <1>1, <1>2, <1>7, <1>8 DEF At, Framed

(* The node has read a command and sends its reply.                          *)
LEMMA IotRepliesFramed ==
  ASSUME TypeInv, IotReplies, Framed PROVE Framed'
<1>1. PICK C, x, R, P : At(C, x, R, P) /\ P = [u \in Uids |-> P[u]]
  BY DEF Framed
<1>2. /\ ~crashed /\ Len(command) = Expected /\ command' = <<>>
      /\ reply' = Message(command, command[3], command[3] = "READ")
      /\ UNCHANGED <<type, tasks, out, midway, toIot, split, toSrv, active, host, got, answered, torn, crashed>>
  BY DEF IotReplies, workerVars, hostVars
<1>3. PICK v : v = C[1][1]
  OBVIOUS
<1>4. PICK a, b, c, e, f : a = Len(command) /\ b = Len(toIot) /\ c = Len(x) /\ e = Len(got) /\ f = Len(toSrv)
  OBVIOUS
<1>5. /\ a \in Nat /\ b \in Nat /\ c \in Nat /\ e \in Nat /\ f \in Nat
      /\ DOMAIN C = 1 .. a + b + c /\ \A k \in 1 .. a + b + c : C[k][1] \in Uids
      /\ DOMAIN R = 1 .. e + f + Len(reply) /\ \A k \in 1 .. e + f + Len(reply) : R[k][1] \in Uids
  BY <1>1, <1>4, Labels, Lens
<1>6. a >= 3 /\ command # <<>>
  <2>1. a >= 3
    BY <1>2, <1>4, <1>5 DEF Expected
  <2>2. command = <<>> => Len(command) = 0
    BY Lens
  <2> QED
    BY <1>4, <2>1, <2>2
<1>7. /\ v \in Uids /\ a = MsgLen(v, "WRITE") /\ a \in {3, 4}
      /\ \A i \in 1 .. a : command[i] = Piece(<<v, i>>)
  <2>1. ToNode(C, x)
    BY <1>1 DEF At
  <2> QED
    BY <1>2, <1>3, <1>4, <1>6, <2>1, CommandIs
<1>8. reply = <<>> /\ Len(reply) = 0
  BY <1>1, <1>6, Lens DEF At, ToNode
<1>9. reply' = Msg(v, "READ")
  <2>1. command[1] = v[1] /\ command[2] = v[2] /\ command[3] = type[v]
    <3>1. 1 \in 1 .. a /\ 2 \in 1 .. a /\ 3 \in 1 .. a
      BY <1>7
    <3>2. command[1] = Piece(<<v, 1>>) /\ command[2] = Piece(<<v, 2>>) /\ command[3] = Piece(<<v, 3>>)
      BY <1>7, <3>1
    <3>3. Piece(<<v, 1>>) = v[1] /\ Piece(<<v, 2>>) = v[2] /\ Piece(<<v, 3>>) = type[v]
      BY DEF Piece
    <3> QED
      BY <3>2, <3>3
  <2> QED
    BY <1>2, <2>1 DEF Msg, Message
<1>10. PICK r : r = MsgLen(v, "READ")
  OBVIOUS
<1>11. Len(reply') = r /\ r \in {3, 4} /\ \A i \in 1 .. r : reply'[i] = Piece(<<v, i>>)
  <2>1. /\ Len(Msg(v, "READ")) = MsgLen(v, "READ") /\ MsgLen(v, "READ") \in {3, 4}
        /\ \A i \in 1 .. MsgLen(v, "READ") : Msg(v, "READ")[i] = Piece(<<v, i>>)
    BY <1>7, MessageIs
  <2> QED
    BY <1>9, <1>10, <2>1
<1>12. P[v] = Command
  <2>1. 1 \in DOMAIN C
    BY <1>5, <1>6
  <2> QED
    BY <1>1, <1>3, <2>1 DEF At, Placed
(* The command's labels go, the reply's come.                                *)
<1>13. PICK D : D = [k \in 1 .. b + c |-> C[k + a]]
  OBVIOUS
<1>14. PICK S : S = [k \in 1 .. e + f + r |-> IF k <= e + f THEN R[k] ELSE <<v, k - (e + f)>>]
  OBVIOUS
<1>15. PICK n : n = a + b + c
  OBVIOUS
<1>16. Row(C, n, "WRITE") /\ n > 0 /\ n \in Nat /\ n - a = b + c
  BY <1>1, <1>4, <1>5, <1>6, <1>15 DEF At, ToNode
<1>17. Row(D, b + c, "WRITE") /\ \A k \in a + 1 .. n : C[k][1] # v
  <2>1. Row([k \in 1 .. n - a |-> C[k + a]], n - a, "WRITE")
    BY <1>3, <1>7, <1>16, RowDrop
  <2>2. \A k \in a + 1 .. n : C[k][1] # v
    BY <1>3, <1>7, <1>16, RowFirst
  <2> QED
    BY <1>13, <1>16, <2>1, <2>2
<1>18. Row(S, e + f + r, "READ")
  <2>1. PICK m : m = e + f
    OBVIOUS
  <2>2. Row(R, m, "READ")
    <3>1. Row(R, e + f + Len(reply), "READ") /\ e + f + Len(reply) = e + f
      BY <1>1, <1>4, <1>5, <1>8 DEF At, FromNode
    <3> QED
      BY <2>1, <3>1
  <2>3. \A k \in 1 .. m : R[k][1] # v
    <3>1. \A k \in 1 .. m : P[R[k][1]] = Reply
      BY <1>1, <1>5, <1>8, <2>1 DEF At, Placed
    <3> QED
      BY <1>12, <3>1, PlacesDiffer
  <2>4. Row([k \in 1 .. m + r |-> IF k <= m THEN R[k] ELSE <<v, k - m>>], m + r, "READ")
    BY <1>7, <1>10, <2>2, <2>3, RowAdd
  <2> QED
    BY <1>14, <2>1, <2>4
<1>19. /\ \A k \in 1 .. b + c : k \in DOMAIN D /\ D[k] = C[k + a] /\ k + a \in a + 1 .. n /\ k + a \in DOMAIN C
       /\ DOMAIN D = 1 .. b + c
  BY <1>5, <1>13, <1>15
<1>20. /\ \A k \in 1 .. e + f : k \in 1 .. e + f + r /\ S[k] = R[k] /\ k \in DOMAIN R
       /\ \A i \in 1 .. r : e + f + i \in 1 .. e + f + r /\ S[e + f + i] = <<v, i>>
       /\ DOMAIN S = 1 .. e + f + r
  BY <1>5, <1>8, <1>11, <1>14
<1>21. ToNode(D, x)'
  <2>1. Labelled(toIot, D, 0) /\ Labelled(x, D, b)
    <3>1. Labelled(toIot, C, a) /\ Labelled(x, C, a + b)
      BY <1>1, <1>4 DEF At, ToNode
    <3>2. \A j \in 1 .. b : toIot[j] = Piece(D[0 + j])
      <4>1. \A j \in 1 .. b : 0 + j \in 1 .. b + c /\ (0 + j) + a = a + j
        BY <1>5
      <4> QED
        BY <1>4, <1>19, <3>1, <4>1 DEF Labelled
    <3>3. \A j \in 1 .. c : x[j] = Piece(D[b + j])
      <4>1. \A j \in 1 .. c : b + j \in 1 .. b + c /\ (b + j) + a = a + b + j
        BY <1>5
      <4> QED
        BY <1>4, <1>19, <3>1, <4>1 DEF Labelled
    <3> QED
      BY <1>4, <3>2, <3>3 DEF Labelled
  <2>2. Row(D, b + c, "WRITE")'
    BY <1>2, <1>17, RowSame
  <2>3. Len(command') = 0
    BY <1>2, Lens
  <2>4. (Len(command) + Len(toIot) + Len(x))' = b + c
    <3>1. Len(command') + Len(toIot') + Len(x) = b + c
      BY <1>2, <1>4, <1>5, <2>3
    <3> QED
      BY <3>1
  <2>5. Labelled(command, D, 0)'
    <3>1. \A j \in 1 .. Len(command') : FALSE
      BY <2>3
    <3> QED
      BY <3>1 DEF Labelled
  <2>6. Labelled(toIot, D, Len(command))' /\ Labelled(x, D, Len(command) + Len(toIot))'
    <3>1. Len(command') + Len(toIot') = b
      BY <1>2, <1>4, <1>5, <2>3
    <3>2. \A j \in 1 .. Len(toIot') : toIot'[j] = Piece(D[Len(command') + j])
      BY <1>2, <2>1, <2>3 DEF Labelled
    <3>3. \A j \in 1 .. Len(x) : x[j] = Piece(D[Len(command') + Len(toIot') + j])
      BY <2>1, <3>1 DEF Labelled
    <3>4. Labelled(toIot, D, Len(command))'
      BY <1>2, <3>2, LabelsSame DEF Labelled
    <3>5. Labelled(x, D, Len(command) + Len(toIot))'
      BY <1>2, <3>3, LabelsSame DEF Labelled
    <3> QED
      BY <3>4, <3>5
  <2>7. (command # <<>> => reply = <<>> /\ Len(command) <= MsgLen(D[1][1], "WRITE"))'
    BY <1>2
  <2>8. ((midway = {} /\ x = <<>>) \/ \E z \in midway : midway = {z} /\ x = out[z])'
    BY <1>1, <1>2 DEF At, ToNode
  <2> QED
    BY <2>2, <2>4, <2>5, <2>6, <2>7, <2>8 DEF ToNode
<1>22. FromNode(S)'
  <2>1. Row(S, e + f + r, "READ")'
    BY <1>2, <1>18, RowSame
  <2>2. (Len(got) + Len(toSrv) + Len(reply))' = e + f + r
    <3>1. Len(got') + Len(toSrv') + Len(reply') = e + f + r
      BY <1>2, <1>4, <1>11
    <3> QED
      BY <3>1
  <2>3. Labelled(got, S, 0) /\ Labelled(toSrv, S, e)
    <3>1. /\ \A j \in 1 .. e : 0 + j \in 1 .. e + f
          /\ \A j \in 1 .. f : e + j \in 1 .. e + f
      BY <1>5
    <3>2. Labelled(got, R, 0) /\ Labelled(toSrv, R, e)
      BY <1>1, <1>4 DEF At, FromNode
    <3> QED
      BY <1>4, <1>20, <3>1, <3>2 DEF Labelled
  <2>4. (Labelled(got, S, 0) /\ Labelled(toSrv, S, Len(got)))'
    BY <1>2, <1>4, <2>3, LabelsSame DEF Labelled
  <2>5. Labelled(reply, S, Len(got) + Len(toSrv))'
    <3>1. Len(got') + Len(toSrv') = e + f
      BY <1>2, <1>4
    <3>2. \A j \in 1 .. Len(reply') : reply'[j] = Piece(S[Len(got') + Len(toSrv') + j])
      BY <1>11, <1>20, <3>1
    <3> QED
      BY <1>2, <3>2, LabelsSame DEF Labelled
  <2>6. (host = NoUid => got = <<>>)'
    BY <1>1, <1>2 DEF At, FromNode
  <2>7. (host # NoUid => /\ Len(got) + Len(toSrv) + Len(reply) > 0 /\ S[1][1] = host
                         /\ Len(got) <= MsgLen(host, "READ"))'
    <3>1. host # NoUid => e + f > 0 /\ R[1][1] = host /\ Len(got) <= MsgLen(host, "READ")
      BY <1>1, <1>4, <1>5, <1>8 DEF At, FromNode
    <3>2. host # NoUid => S[1][1] = host /\ e + f + r > 0
      BY <1>5, <1>11, <1>20, <3>1
    <3> QED
      BY <1>2, <2>2, <3>1, <3>2, LabelsSame
  <2> QED
    BY <2>1, <2>2, <2>4, <2>5, <2>6, <2>7 DEF FromNode
<1>23. PICK Q : Q = [u \in Uids |-> IF u = v THEN Reply ELSE P[u]]
  OBVIOUS
<1>24. Placed(D, S, Q)'
  <2>1. \A u \in tasks' : Q[u] = Task
    BY <1>1, <1>2, <1>12, <1>23, PlacesDiffer DEF At, Placed, TypeInv, TypeOK
  <2>2. \A z \in Workers \ midway' : out'[z] # <<>> =>
          \E u \in Uids : Q[u] = Sender(z) /\ out'[z] = Msg(u, "WRITE")
    BY <1>1, <1>2, <1>12, <1>23, PlacesDiffer DEF At, Placed
  <2>3. (\A z \in Workers \ midway : out[z] # <<>> =>
          \E u \in Uids : Q[u] = Sender(z) /\ out[z] = Msg(u, "WRITE"))'
    BY <1>2, <2>2, LabelsSame
  <2>4. \A k \in DOMAIN D : Q[D[k][1]] = Command
    <3>1. \A k \in DOMAIN D : P[D[k][1]] = Command /\ D[k][1] # v /\ D[k][1] \in Uids
      BY <1>1, <1>5, <1>15, <1>17, <1>19 DEF At, Placed
    <3> QED
      BY <1>23, <3>1
  <2>5. \A k \in DOMAIN S : Q[S[k][1]] = Reply
    <3> SUFFICES ASSUME NEW k \in 1 .. e + f + r PROVE Q[S[k][1]] = Reply
      BY <1>20
    <3>1. CASE k \in 1 .. e + f
      <4>1. S[k] = R[k] /\ P[R[k][1]] = Reply /\ R[k][1] \in Uids
        BY <1>1, <1>5, <1>20, <3>1 DEF At, Placed
      <4> QED
        BY <1>23, <4>1
    <3>2. CASE k \notin 1 .. e + f
      <4>1. k - (e + f) \in 1 .. r /\ e + f + (k - (e + f)) = k
        BY <1>5, <1>11, <3>2
      <4>2. S[k] = <<v, k - (e + f)>> /\ <<v, k - (e + f)>>[1] = v
        BY <1>20, <4>1
      <4> QED
        BY <1>7, <1>23, <4>2
    <3> QED
      BY <3>1, <3>2
  <2>6. \A u \in Uids : Q[u] # Nowhere => u \in active'
    BY <1>1, <1>2, <1>12, <1>23, PlacesDiffer DEF At, Placed
  <2> QED
    BY <2>1, <2>3, <2>4, <2>5, <2>6 DEF Placed
<1>25. At(D, x, S, Q)' /\ Q = [u \in Uids |-> Q[u]]
  BY <1>21, <1>22, <1>23, <1>24 DEF At
<1> QED
  BY <1>2, <1>25 DEF Framed

(* A piece of a reply arrives.                                               *)
LEMMA ReplyArrivesFramed ==
  ASSUME TypeInv, ReplyArrives, Framed PROVE Framed'
<1>1. PICK C, x, R, P : At(C, x, R, P) /\ P = [u \in Uids |-> P[u]]
  BY DEF Framed
<1>2. /\ ~crashed /\ reply # <<>> /\ toSrv' = Append(toSrv, Head(reply)) /\ reply' = Tail(reply)
      /\ UNCHANGED <<type, tasks, out, midway, toIot, split, command, active, host, got, answered, torn, crashed>>
  BY DEF ReplyArrives, workerVars, hostVars
<1>3. PICK e, f, g : e = Len(got) /\ f = Len(toSrv) /\ g = Len(reply)
  OBVIOUS
<1>4. /\ Labelled(toSrv', R, e) /\ Labelled(reply', R, e + f + 1) /\ e \in Nat
      /\ Len(toSrv') = f + 1 /\ Len(reply') = g - 1 /\ f \in Nat /\ g \in Nat \ {0}
  <2>1. Labelled(toSrv, R, e) /\ Labelled(reply, R, e + f) /\ e \in Nat
    BY <1>1, <1>3, Lens DEF At, FromNode
  <2>2. /\ Labelled(Append(toSrv, Head(reply)), R, e) /\ Labelled(Tail(reply), R, e + Len(toSrv) + 1)
        /\ Len(Append(toSrv, Head(reply))) = Len(toSrv) + 1 /\ Len(Tail(reply)) = Len(reply) - 1
        /\ Len(toSrv) \in Nat /\ Len(reply) \in Nat \ {0}
    BY <1>2, <1>3, <2>1, Lens, Moves
  <2>3. e + Len(toSrv) + 1 = e + f + 1
    BY <1>3
  <2>4. Labelled(toSrv', R, e) /\ Labelled(reply', R, e + f + 1)
    BY <1>2, <2>2, <2>3
  <2>5. Len(toSrv') = f + 1 /\ Len(reply') = g - 1 /\ f \in Nat /\ g \in Nat \ {0}
    BY <1>2, <1>3, <2>2
  <2> QED
    BY <2>1, <2>4, <2>5
<1>5. ToNode(C, x)'
  <2>1. ToNode(C, x) /\ (command # <<>> => reply' = <<>>) /\ \A z \in midway : out'[z] = out[z]
    BY <1>1, <1>2 DEF At, ToNode
  <2> QED
    BY <1>2, <2>1, ToNodeSame
<1>6. FromNode(R)'
  <2>1. Row(R, e + f + g, "READ")'
    BY <1>1, <1>2, <1>3, RowSame DEF At, FromNode
  <2>2. (Len(got) + Len(toSrv) + Len(reply))' = e + f + g
    <3>1. Len(got') + Len(toSrv') + Len(reply') = e + f + g
      BY <1>2, <1>3, <1>4
    <3> QED
      BY <3>1
  <2>3. Labelled(got, R, 0)'
    BY <1>1, <1>2, LabelsSame DEF At, FromNode, Labelled
  <2>4. Labelled(toSrv, R, Len(got))'
    BY <1>2, <1>3, <1>4, LabelsSame DEF Labelled
  <2>5. Labelled(reply, R, Len(got) + Len(toSrv))'
    <3>1. Len(got') + Len(toSrv') = e + f + 1
      BY <1>2, <1>3, <1>4
    <3> QED
      BY <1>2, <1>4, <3>1, LabelsSame DEF Labelled
  <2>6. (host = NoUid => got = <<>>)'
    BY <1>1, <1>2 DEF At, FromNode
  <2>7. (host # NoUid => /\ Len(got) + Len(toSrv) + Len(reply) > 0 /\ R[1][1] = host
                         /\ Len(got) <= MsgLen(host, "READ"))'
    <3>1. host # NoUid => R[1][1] = host /\ Len(got) <= MsgLen(host, "READ")
      BY <1>1 DEF At, FromNode
    <3>2. e + f + g > 0
      BY <1>4
    <3> QED
      BY <1>2, <2>2, <3>1, <3>2, LabelsSame
  <2> QED
    BY <2>1, <2>2, <2>3, <2>4, <2>5, <2>6, <2>7 DEF FromNode
<1>7. Placed(C, R, P)'
  BY <1>1, <1>2, PlacedSame DEF At
<1> QED
  BY <1>1, <1>2, <1>5, <1>6, <1>7 DEF At, Framed

(* The request whose reply comes next is registered.                         *)
LEMMA IotHandleFramed ==
  ASSUME TypeInv, IotHandle, ~torn', Framed PROVE Framed'
<1>1. PICK C, x, R, P : At(C, x, R, P) /\ P = [u \in Uids |-> P[u]]
  BY DEF Framed
<1>2. /\ ~crashed /\ host = NoUid /\ Len(toSrv) # 1
      /\ UNCHANGED <<type, tasks, out, midway, toIot, split, toSrv, command, reply, active, got, answered>>
      /\ Peek \in active => host' = Peek /\ crashed' = crashed
  BY DEF IotHandle, workerVars, nodeVars
<1>3. PICK m : m = Len(got) + Len(toSrv) + Len(reply)
  OBVIOUS
<1>4. PICK v : v = R[1][1]
  OBVIOUS
<1>5. Len(got) = 0 /\ Len(toSrv) \in Nat /\ Len(toSrv) >= 2 /\ m \in Nat /\ m > 0
  <2>1. Len(got) = 0 /\ Len(toSrv) \in Nat /\ Len(reply) \in Nat
    BY <1>1, <1>2, Lens DEF At, FromNode
  <2>2. Len(toSrv) # 0
    BY Lens, EmptySeq DEF IotHandle
  <2>3. PICK f, g : f = Len(toSrv) /\ g = Len(reply)
    OBVIOUS
  <2>4. f \in Nat /\ g \in Nat /\ f >= 2
    BY <1>2, <2>1, <2>2, <2>3
  <2>5. m = f + g
    BY <1>3, <2>1, <2>3, <2>4
  <2> QED
    BY <2>1, <2>3, <2>4, <2>5
<1>6. Row(R, m, "READ") /\ DOMAIN R = 1 .. m
  BY <1>1, <1>3 DEF At, FromNode, Row
<1>7. v \in Uids /\ R[1] = <<v, 1>> /\ R[2] = <<v, 2>>
  <2>1. PICK r : r = MsgLen(v, "READ")
    OBVIOUS
  <2>2. v \in Uids /\ r \in {3, 4} /\ \A i \in 1 .. r : R[i] = <<v, i>>
    BY <1>4, <1>5, <1>6, <2>1, RowFirst
  <2>3. 1 \in 1 .. r /\ 2 \in 1 .. r
    BY <2>2
  <2> QED
    BY <2>2, <2>3
<1>8. toSrv[1] = v[1] /\ toSrv[2] = v[2]
  <2>1. Labelled(toSrv, R, 0)
    BY <1>1, <1>5 DEF At, FromNode
  <2>2. 1 \in 1 .. Len(toSrv) /\ 2 \in 1 .. Len(toSrv) /\ 0 + 1 = 1 /\ 0 + 2 = 2
    BY <1>5
  <2>3. toSrv[1] = Piece(<<v, 1>>) /\ toSrv[2] = Piece(<<v, 2>>)
    BY <1>7, <2>1, <2>2 DEF Labelled
  <2>4. Piece(<<v, 1>>) = v[1] /\ Piece(<<v, 2>>) = v[2]
    BY DEF Piece
  <2> QED
    BY <2>3, <2>4
<1>9. Peek = v
  <2>1. Peek = <<v[1], v[2]>>
    BY <1>2, <1>8 DEF Peek
  <2> QED
    BY <1>7, <2>1, UidPieces
<1>10. v \in active
  <2>1. 1 \in DOMAIN R
    BY <1>5, <1>6
  <2>2. P[v] = Reply
    BY <1>1, <1>4, <2>1 DEF At, Placed
  <2> QED
    BY <1>1, <1>7, <2>2, PlacesDiffer DEF At, Placed
<1>11. host' = v /\ ~crashed'
  BY <1>2, <1>9, <1>10
<1>12. FromNode(R)'
  <2>1. Row(R, m, "READ")'
    BY <1>2, <1>6, RowSame
  <2>2. (Len(got) + Len(toSrv) + Len(reply))' = m
    BY <1>2, <1>3
  <2>3. (Labelled(got, R, 0) /\ Labelled(toSrv, R, Len(got)) /\ Labelled(reply, R, Len(got) + Len(toSrv)))'
    BY <1>1, <1>2, LabelsSame DEF At, FromNode, Labelled
  <2>4. v # NoUid /\ Len(got) <= MsgLen(v, "READ")
    BY <1>5, <1>7, UidPieces DEF MsgLen
  <2>5. (host = NoUid => got = <<>>)'
    BY <1>11, <2>4
  <2>6. (host # NoUid => /\ Len(got) + Len(toSrv) + Len(reply) > 0 /\ R[1][1] = host
                         /\ Len(got) <= MsgLen(host, "READ"))'
    <3>1. MsgLen(v, "READ")' = MsgLen(v, "READ")
      BY <1>2, LabelsSame
    <3>2. MsgLen(host, "READ")' = MsgLen(v, "READ")
      BY <1>11, <3>1 DEF MsgLen
    <3> QED
      BY <1>2, <1>4, <1>5, <1>11, <2>2, <2>4, <3>2
  <2> QED
    BY <2>1, <2>2, <2>3, <2>5, <2>6 DEF FromNode
<1>13. ToNode(C, x)'
  <2>1. ToNode(C, x) /\ (command # <<>> => reply' = <<>>) /\ \A z \in midway : out'[z] = out[z]
    BY <1>1, <1>2 DEF At, ToNode
  <2> QED
    BY <1>2, <2>1, ToNodeSame
<1>14. Placed(C, R, P)'
  BY <1>1, <1>2, PlacedSame DEF At
<1> QED
  BY <1>1, <1>11, <1>12, <1>13, <1>14 DEF At, Framed

(* ReadReply receives the next piece of its reply.                           *)
LEMMA RecvAllFramed ==
  ASSUME TypeInv, RecvAll, Framed PROVE Framed'
<1>1. PICK C, x, R, P : At(C, x, R, P) /\ P = [u \in Uids |-> P[u]]
  BY DEF Framed
<1>2. /\ ~crashed /\ host # NoUid /\ Len(got) < MsgLen(host, "READ") /\ toSrv # <<>>
      /\ got' = Append(got, Head(toSrv)) /\ toSrv' = Tail(toSrv)
      /\ UNCHANGED <<type, tasks, out, midway, toIot, split, command, reply, active, host, answered, torn, crashed>>
  BY DEF RecvAll, workerVars, nodeVars, ReplyLength, MsgLen
<1>3. PICK e, f, g : e = Len(got) /\ f = Len(toSrv) /\ g = Len(reply)
  OBVIOUS
<1>4. /\ Labelled(got', R, 0) /\ Labelled(toSrv', R, e + 1) /\ e \in Nat
      /\ Len(got') = e + 1 /\ Len(toSrv') = f - 1 /\ f \in Nat \ {0} /\ g \in Nat
  <2>1. Labelled(got, R, 0) /\ Labelled(toSrv, R, 0 + Len(got)) /\ e \in Nat /\ g \in Nat
    BY <1>1, <1>3, Lens DEF At, FromNode
  <2>2. /\ Labelled(Append(got, Head(toSrv)), R, 0) /\ Labelled(Tail(toSrv), R, 0 + Len(got) + 1)
        /\ Len(Append(got, Head(toSrv))) = Len(got) + 1 /\ Len(Tail(toSrv)) = Len(toSrv) - 1
        /\ Len(got) \in Nat /\ Len(toSrv) \in Nat \ {0}
    BY <1>2, <2>1, Lens, Moves
  <2>3. 0 + Len(got) + 1 = e + 1
    BY <1>3, <2>2
  <2> QED
    BY <1>2, <1>3, <2>1, <2>2, <2>3
<1>5. ToNode(C, x)'
  <2>1. ToNode(C, x) /\ (command # <<>> => reply' = <<>>) /\ \A z \in midway : out'[z] = out[z]
    BY <1>1, <1>2 DEF At, ToNode
  <2> QED
    BY <1>2, <2>1, ToNodeSame
<1>6. FromNode(R)'
  <2>1. Row(R, e + f + g, "READ")'
    BY <1>1, <1>2, <1>3, RowSame DEF At, FromNode
  <2>2. (Len(got) + Len(toSrv) + Len(reply))' = e + f + g
    <3>1. Len(got') + Len(toSrv') + Len(reply') = e + f + g
      BY <1>2, <1>3, <1>4
    <3> QED
      BY <3>1
  <2>3. Labelled(got, R, 0)'
    BY <1>2, <1>4, LabelsSame DEF Labelled
  <2>4. Labelled(toSrv, R, Len(got))'
    BY <1>2, <1>4, LabelsSame DEF Labelled
  <2>5. Labelled(reply, R, Len(got) + Len(toSrv))'
    <3>1. Len(got') + Len(toSrv') = Len(got) + Len(toSrv)
      BY <1>3, <1>4
    <3>2. Labelled(reply, R, Len(got) + Len(toSrv))
      BY <1>1 DEF At, FromNode
    <3> QED
      BY <1>2, <3>1, <3>2, LabelsSame DEF Labelled
  <2>6. host' # NoUid
    BY <1>2
  <2>7. (/\ Len(got) + Len(toSrv) + Len(reply) > 0 /\ R[1][1] = host
         /\ Len(got) <= MsgLen(host, "READ"))'
    <3>1. R[1][1] = host /\ e + 1 <= MsgLen(host, "READ")
      <4>1. MsgLen(host, "READ") \in Nat
        BY DEF MsgLen
      <4> QED
        BY <1>1, <1>2, <1>3, <1>4, <4>1 DEF At, FromNode
    <3>2. e + f + g > 0
      BY <1>4
    <3> QED
      BY <1>2, <1>4, <2>2, <3>1, <3>2, LabelsSame
  <2> QED
    BY <2>1, <2>2, <2>3, <2>4, <2>5, <2>6, <2>7 DEF FromNode
<1>7. Placed(C, R, P)'
  BY <1>1, <1>2, PlacedSame DEF At
<1> QED
  BY <1>1, <1>2, <1>5, <1>6, <1>7 DEF At, Framed

(* The reply is complete, and the request gone.                              *)
LEMMA GotReply ==
  ASSUME TypeInv, NEW R, FromNode(R), host # NoUid
  PROVE  /\ host \in Uids /\ type[host] \in Types /\ R[1][1] = host
         /\ Len(got) \in 0 .. MsgLen(host, "READ") /\ MsgLen(host, "READ") \in {3, 4}
         /\ \A i \in 1 .. Len(got) : got[i] = Piece(<<host, i>>)
<1>1. host \in Uids /\ type[host] \in Types /\ Len(got) \in Nat
  BY Lens DEF TypeInv, TypeOK
<1>2. PICK m : m = Len(got) + Len(toSrv) + Len(reply)
  OBVIOUS
<1>3. PICK r : r = MsgLen(host, "READ")
  OBVIOUS
<1>4. Row(R, m, "READ") /\ m > 0 /\ R[1][1] = host /\ Len(got) <= r
  BY <1>2, <1>3 DEF FromNode
<1>5. r \in {3, 4} /\ \A i \in 1 .. r : R[i] = <<host, i>>
  <2>1. PICK u : u = R[1][1]
    OBVIOUS
  <2> QED
    BY <1>3, <1>4, <2>1, RowFirst
<1>6. \A i \in 1 .. Len(got) : got[i] = Piece(<<host, i>>)
  <2> SUFFICES ASSUME NEW i \in 1 .. Len(got) PROVE got[i] = Piece(<<host, i>>)
    OBVIOUS
  <2>1. got[i] = Piece(R[0 + i])
    BY DEF FromNode, Labelled
  <2>2. R[0 + i] = <<host, i>>
    BY <1>1, <1>4, <1>5
  <2> QED
    BY <2>1, <2>2
<1> QED
  BY <1>1, <1>3, <1>4, <1>5, <1>6

LEMMA ReadReplyFramed ==
  ASSUME TypeInv, ReadReply, Framed PROVE Framed'
<1>1. PICK C, x, R, P : At(C, x, R, P) /\ P = [u \in Uids |-> P[u]]
  BY DEF Framed
<1>2. FromNode(R) /\ host # NoUid
  BY <1>1 DEF At, ReadReply
<1>3. PICK v : v = host
  OBVIOUS
<1>4. PICK e, f, g : e = Len(got) /\ f = Len(toSrv) /\ g = Len(reply)
  OBVIOUS
<1>5. /\ v \in Uids /\ type[v] \in Types /\ R[1][1] = v
      /\ e = MsgLen(v, "READ") /\ e \in {3, 4}
      /\ \A i \in 1 .. e : got[i] = Piece(<<v, i>>)
  <2>1. e = MsgLen(v, "READ")
    BY <1>3, <1>4 DEF ReadReply, ReplyLength, MsgLen
  <2> QED
    BY <1>2, <1>3, <1>4, <2>1, GotReply
<1>6. got[3] \in Types
  <2>1. 3 \in 1 .. e
    BY <1>5
  <2>2. got[3] = Piece(<<v, 3>>)
    BY <1>5, <2>1
  <2>3. Piece(<<v, 3>>) = type[v]
    BY DEF Piece
  <2> QED
    BY <1>5, <2>2, <2>3
<1>7. /\ ~crashed /\ active' = active \ {v} /\ host' = NoUid /\ got' = <<>>
      /\ UNCHANGED <<type, tasks, out, midway, toIot, split, toSrv, command, reply, torn, crashed>>
  BY <1>3, <1>6 DEF ReadReply, Finished, workerVars, nodeVars
<1>8. PICK m : m = e + f + g
  OBVIOUS
<1>9. /\ m \in Nat /\ f \in Nat /\ g \in Nat /\ m > 0 /\ m - e = f + g
      /\ Row(R, m, "READ") /\ DOMAIN R = 1 .. m /\ \A k \in 1 .. m : R[k][1] \in Uids
  <2>1. f \in Nat /\ g \in Nat
    BY <1>4, Lens
  <2>2. Row(R, m, "READ")
    BY <1>2, <1>4, <1>8 DEF FromNode
  <2>3. DOMAIN R = 1 .. m /\ \A k \in 1 .. m : R[k][1] \in Uids
    BY <2>2 DEF Row
  <2> QED
    BY <1>5, <1>8, <2>1, <2>2, <2>3
<1>10. PICK S : S = [k \in 1 .. f + g |-> R[k + e]]
  OBVIOUS
<1>11. Row(S, f + g, "READ") /\ \A k \in e + 1 .. m : R[k][1] # v
  <2>1. Row([k \in 1 .. m - e |-> R[k + e]], m - e, "READ")
    BY <1>5, <1>9, RowDrop
  <2>2. \A k \in e + 1 .. m : R[k][1] # v
    BY <1>5, <1>9, RowFirst
  <2> QED
    BY <1>9, <1>10, <2>1, <2>2
<1>12. /\ \A k \in 1 .. f + g : S[k] = R[k + e] /\ k + e \in e + 1 .. m /\ k + e \in DOMAIN R
       /\ DOMAIN S = 1 .. f + g
  <2>1. \A k \in 1 .. f + g : k + e \in e + 1 .. m /\ k + e \in 1 .. m
    <3>1. e \in Nat /\ f \in Nat /\ g \in Nat
      BY <1>5, <1>9
    <3> QED
      BY <1>8, <3>1
  <2> QED
    BY <1>9, <1>10, <2>1
<1>13. P[v] = Reply
  <2>1. 1 \in DOMAIN R
    BY <1>9
  <2> QED
    BY <1>1, <1>5, <2>1 DEF At, Placed
<1>14. FromNode(S)'
  <2>1. Row(S, f + g, "READ")'
    BY <1>7, <1>11, RowSame
  <2>2. Len(got') = 0
    BY <1>7, Lens
  <2>3. (Len(got) + Len(toSrv) + Len(reply))' = f + g
    <3>1. Len(got') + Len(toSrv') + Len(reply') = f + g
      BY <1>4, <1>7, <1>9, <2>2
    <3> QED
      BY <3>1
  <2>4. Labelled(got, S, 0)'
    <3>1. \A j \in 1 .. Len(got') : FALSE
      BY <2>2
    <3> QED
      BY <3>1 DEF Labelled
  <2>5. Labelled(toSrv, R, e) /\ Labelled(reply, R, e + f)
    BY <1>2, <1>4 DEF FromNode
  <2>6. \A j \in 1 .. f : toSrv[j] = Piece(S[0 + j])
    <3>1. \A j \in 1 .. f : 0 + j \in 1 .. f + g /\ (0 + j) + e = e + j
      BY <1>5, <1>9
    <3> QED
      BY <1>4, <1>12, <2>5, <3>1 DEF Labelled
  <2>7. \A j \in 1 .. g : reply[j] = Piece(S[f + j])
    <3>1. \A j \in 1 .. g : f + j \in 1 .. f + g /\ (f + j) + e = e + f + j
      BY <1>5, <1>9
    <3> QED
      BY <1>4, <1>12, <2>5, <3>1 DEF Labelled
  <2>8. Labelled(toSrv, S, Len(got))'
    <3>1. \A j \in 1 .. Len(toSrv') : toSrv'[j] = Piece(S[Len(got') + j])
      BY <1>4, <1>7, <2>2, <2>6
    <3> QED
      BY <1>7, <3>1, LabelsSame DEF Labelled
  <2>9. Labelled(reply, S, Len(got) + Len(toSrv))'
    <3>1. Len(got') + Len(toSrv') = f
      BY <1>4, <1>7, <1>9, <2>2
    <3>2. \A j \in 1 .. Len(reply') : reply'[j] = Piece(S[Len(got') + Len(toSrv') + j])
      BY <1>4, <1>7, <2>7, <3>1
    <3> QED
      BY <1>7, <3>2, LabelsSame DEF Labelled
  <2> QED
    BY <1>7, <2>1, <2>3, <2>4, <2>8, <2>9 DEF FromNode
<1>15. ToNode(C, x)'
  <2>1. ToNode(C, x) /\ (command # <<>> => reply' = <<>>) /\ \A z \in midway : out'[z] = out[z]
    BY <1>1, <1>7 DEF At, ToNode
  <2> QED
    BY <1>7, <2>1, ToNodeSame
<1>16. PICK Q : Q = [u \in Uids |-> IF u = v THEN Nowhere ELSE P[u]]
  OBVIOUS
<1>17. Placed(C, S, Q)'
  <2>1. \A u \in tasks' : Q[u] = Task
    BY <1>1, <1>7, <1>13, <1>16, PlacesDiffer DEF At, Placed, TypeInv, TypeOK
  <2>2. \A z \in Workers \ midway' : out'[z] # <<>> =>
          \E u \in Uids : Q[u] = Sender(z) /\ out'[z] = Msg(u, "WRITE")
    BY <1>1, <1>7, <1>13, <1>16, PlacesDiffer DEF At, Placed
  <2>3. (\A z \in Workers \ midway : out[z] # <<>> =>
          \E u \in Uids : Q[u] = Sender(z) /\ out[z] = Msg(u, "WRITE"))'
    BY <1>7, <2>2, LabelsSame
  <2>4. \A k \in DOMAIN C : Q[C[k][1]] = Command
    BY <1>1, <1>13, <1>16, Labels, PlacesDiffer DEF At, Placed
  <2>5. \A k \in DOMAIN S : Q[S[k][1]] = Reply
    <3>1. \A k \in DOMAIN S : P[S[k][1]] = Reply /\ S[k][1] # v /\ S[k][1] \in Uids
      BY <1>1, <1>9, <1>11, <1>12 DEF At, Placed
    <3> QED
      BY <1>16, <3>1
  <2>6. \A u \in Uids : Q[u] # Nowhere => u \in active'
    BY <1>1, <1>7, <1>16 DEF At, Placed
  <2> QED
    BY <2>1, <2>3, <2>4, <2>5, <2>6 DEF Placed
<1>18. At(C, x, S, Q)' /\ Q = [u \in Uids |-> Q[u]]
  BY <1>14, <1>15, <1>16, <1>17 DEF At
<1> QED
  BY <1>7, <1>18 DEF Framed
----------------------------------------------------------------------------
LEMMA NextFramed == TypeInv /\ Framed /\ [Next]_vars /\ ~split' /\ ~torn' => Framed'
<1> SUFFICES ASSUME TypeInv, Framed, [Next]_vars, ~split', ~torn' PROVE Framed'
  OBVIOUS
<1>1. CASE UNCHANGED vars
  <2>1. PICK C, x, R, P : At(C, x, R, P) /\ P = [u \in Uids |-> P[u]]
    BY DEF Framed
  <2>2. UNCHANGED <<type, tasks, out, midway, toIot, toSrv, command, reply, active, host, got, crashed>>
    BY <1>1 DEF vars, workerVars, nodeVars, hostVars
  <2>3. ToNode(C, x)'
    <3>1. ToNode(C, x) /\ (command # <<>> => reply' = <<>>) /\ \A z \in midway : out'[z] = out[z]
      BY <2>1, <2>2 DEF At, ToNode
    <3> QED
      BY <2>2, <3>1, ToNodeSame
  <2>4. FromNode(R)' /\ Placed(C, R, P)'
    BY <2>1, <2>2, FromNodeSame, PlacedSame DEF At
  <2> QED
    BY <2>1, <2>2, <2>3, <2>4 DEF At, Framed
<1>2. CASE Next
  BY <1>2, NbdRequestsHandleFramed, SendMsgWrapperFramed, SendRequestFramed, IotReadsFramed,
     IotRepliesFramed, ReplyArrivesFramed, IotHandleFramed, RecvAllFramed, ReadReplyFramed
     DEF Next, Iot, Reactor
<1> QED
  BY <1>1, <1>2

(* Once split, or torn, the history stays so.                                *)
LEMMA HistoryStays == TypeInv /\ [Next]_vars /\ ~split' /\ ~torn' => ~split /\ ~torn
<1> SUFFICES ASSUME TypeInv, [Next]_vars, ~split', ~torn' PROVE ~split /\ ~torn
  OBVIOUS
<1>1. CASE UNCHANGED vars
  BY <1>1 DEF vars, workerVars, hostVars
<1>2. ASSUME NEW u \in Uids, NbdRequestsHandle(u) PROVE ~split /\ ~torn
  BY <1>2 DEF NbdRequestsHandle
<1>3. ASSUME NEW w \in Workers, SendMsgWrapper(w) \/ SendRequest(w) PROVE ~split /\ ~torn
  <2>1. CASE SendMsgWrapper(w)
    BY <2>1 DEF SendMsgWrapper, hostVars
  <2>2. CASE SendRequest(w)
    <3>1. split' = (split \/ midway \ {w} # {}) /\ torn' = torn
      BY <2>2 DEF SendRequest, hostVars
    <3>2. split' # TRUE /\ split \in BOOLEAN /\ torn \in BOOLEAN
      BY DEF TypeInv, TypeOK
    <3> QED
      BY <3>1, <3>2
  <2> QED
    BY <1>3, <2>1, <2>2
<1>4. CASE Iot
  BY <1>4 DEF Iot, IotReads, IotReplies, ReplyArrives, workerVars, hostVars
<1>5. CASE Reactor
  <2>1. CASE IotHandle
    <3>1. torn' = (torn \/ Len(toSrv) = 1) /\ split' = split
      BY <2>1 DEF IotHandle, workerVars
    <3> QED
      BY <3>1
  <2>2. CASE RecvAll \/ ReadReply
    BY <2>2 DEF RecvAll, ReadReply, workerVars
  <2> QED
    BY <1>5, <2>1, <2>2 DEF Reactor
<1> QED
  BY <1>1, <1>2, <1>3, <1>4, <1>5 DEF Next

LEMMA InitFramed == Init => Framed
<1> SUFFICES ASSUME Init PROVE Framed
  OBVIOUS
<1>1. PICK L : L = [k \in 1 .. 0 |-> <<NoUid, 1>>]
  OBVIOUS
<1>2. PICK P : P = [u \in Uids |-> Nowhere]
  OBVIOUS
<1>3. \A d : Row(L, 0, d)
  BY <1>1 DEF Row
<1>4. Len(<<>>) = 0 /\ \A k : Labelled(<<>>, L, k)
  BY DEF Labelled
<1>5. ToNode(L, <<>>) /\ FromNode(L)
  <2>1. 0 + 0 + 0 = 0
    OBVIOUS
  <2> QED
    BY <1>3, <1>4, <2>1 DEF Init, ToNode, FromNode
<1>6. Placed(L, L, P)
  BY <1>1, <1>2 DEF Init, Placed
<1>7. ~crashed /\ P = [u \in Uids |-> P[u]]
  BY <1>2 DEF Init
<1> QED
  BY <1>5, <1>6, <1>7 DEF At, Framed

(* A received reply is the beginning of the one to its request.              *)
LEMMA InvMeets == IInv => RepliesMeetTheirRequest
<1> SUFFICES ASSUME IInv, ~split, ~torn, host # NoUid
             PROVE  got = SubSeq(Message(host, type[host], type[host] = "READ"), 1, Len(got))
  BY DEF IInv, Framed, RepliesMeetTheirRequest
<1>1. PICK C, x, R, P : At(C, x, R, P)
  BY DEF IInv, Framed
<1>2. PICK M : M = Msg(host, "READ")
  OBVIOUS
<1>3. /\ host \in Uids /\ type[host] \in Types /\ Len(got) \in 0 .. MsgLen(host, "READ")
      /\ \A i \in 1 .. Len(got) : got[i] = Piece(<<host, i>>)
  BY <1>1, GotReply DEF At, IInv
<1>4. /\ Len(M) = MsgLen(host, "READ") /\ MsgLen(host, "READ") \in {3, 4}
      /\ \A i \in 1 .. MsgLen(host, "READ") : M[i] = Piece(<<host, i>>)
  BY <1>2, <1>3, MessageIs
<1>5. M \in Seq(Pieces)
  BY <1>2, <1>3, UidPieces, MessageTyped DEF Msg
<1>6. \A i \in 1 .. Len(got) : got[i] = M[i]
  <2>1. \A i \in 1 .. Len(got) : i \in 1 .. MsgLen(host, "READ")
    BY <1>3, <1>4
  <2> QED
    BY <1>3, <1>4, <2>1
<1>7. PICK k : k = Len(got)
  OBVIOUS
<1>8. /\ SubSeq(M, 1, k) \in Seq(Pieces) /\ Len(SubSeq(M, 1, k)) = k
      /\ \A i \in 1 .. k : SubSeq(M, 1, k)[i] = M[i]
  <2>1. k \in 0 .. Len(M)
    BY <1>3, <1>4, <1>7
  <2> QED
    BY <1>5, <2>1
<1>9. got \in Seq(Pieces)
  BY Lens DEF IInv
<1>10. got = SubSeq(M, 1, k)
  BY <1>6, <1>7, <1>8, <1>9, SeqEqual
<1> QED
  BY <1>2, <1>7, <1>10 DEF Msg

(* Until a sendmsg is split or a Peek torn, a reply is received by the request *)
(* it is for, to its end, and none finds no request: IotHandle and ReadReply  *)
(* meet a well-framed stream, in whatever pieces it comes.                   *)
THEOREM RepliesMeet == Spec => []RepliesMeetTheirRequest
<1>1. Init => IInv
  BY InitType, InitFramed DEF IInv
<1>2. IInv /\ [Next]_vars => IInv'
  <2> SUFFICES ASSUME IInv, [Next]_vars PROVE IInv'
    OBVIOUS
  <2>1. TypeInv /\ TypeInv'
    BY NextType DEF IInv
  <2>2. ~split' /\ ~torn' => Framed'
    BY <2>1, HistoryStays, NextFramed DEF IInv
  <2> QED
    BY <2>1, <2>2 DEF IInv
<1> QED
  BY <1>1, <1>2, InvMeets, PTL DEF Spec
=============================================================================
