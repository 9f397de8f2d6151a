---------------------------- MODULE TransferProofs ----------------------------
(***************************************************************************)
(* Proofs about Transfer: its invariant is inductive, and from it follow   *)
(* the properties of the parts that travel, for files and texts of every   *)
(* size and fifos of every length.                                         *)
(***************************************************************************)
EXTENDS TransferInv, RecursionProofs

-------------------------------------------------------------------------------
(* Sums of parts *)

LEMMA Remainder ==
  ASSUME NEW a \in Nat, a % ReadSize = 0
  PROVE  /\ (a + ReadSize) % ReadSize = 0
         /\ \A s \in 1 .. ReadSize - 1 : (a + s) % ReadSize # 0
BY DEF ReadSize, MSG_SIZE

\* What a request can hold is something.
LEMMA RequestSize ==
  ASSUME NEW s \in 1 .. ReadSize
  PROVE  s \in Nat /\ s > 0 /\ s <= ReadSize
BY DEF ReadSize, MSG_SIZE

LEMMA BytesToIs ==
  ASSUME NEW p \in Seq(Bytes)
  PROVE  /\ BytesTo(p)[0] = 0
         /\ \A n \in 1 .. Len(p) : BytesTo(p)[n] = BytesTo(p)[n - 1] + p[n].size
         /\ \A n \in 0 .. Len(p) : BytesTo(p)[n] \in Nat
         /\ Total(p) \in Nat
<1> DEFINE s == [i \in 1 .. Len(p) |-> p[i].size]
<1>1. s \in Seq(Nat) /\ Len(s) = Len(p) /\ \A i \in 1 .. Len(p) : s[i] = p[i].size
  <2>1. \A i \in 1 .. Len(p) : p[i].size \in Nat
    <3>1. \A i \in 1 .. Len(p) : p[i] \in Bytes
      OBVIOUS
    <3> QED BY <3>1 DEF Bytes
  <2> QED BY <2>1
<1>2. BytesTo(p) = SumTo(s)
  BY DEF BytesTo
<1> HIDE DEF s
<1>3. /\ SumTo(s)[0] = 0
      /\ \A n \in 1 .. Len(s) : SumTo(s)[n] = SumTo(s)[n - 1] + s[n]
      /\ \A n \in 0 .. Len(s) : SumTo(s)[n] \in Nat
  BY <1>1, SumToIs, SumToType
<1> QED BY <1>1, <1>2, <1>3 DEF Total

\* A part that is put behind the others.
LEMMA BytesAppend ==
  ASSUME NEW p \in Seq(Bytes), NEW x \in Bytes
  PROVE  /\ Append(p, x) \in Seq(Bytes)
         /\ \A n \in 0 .. Len(p) : BytesTo(Append(p, x))[n] = BytesTo(p)[n]
         /\ Total(Append(p, x)) = Total(p) + x.size
<1> DEFINE q == Append(p, x)
           s == [i \in 1 .. Len(p) |-> p[i].size]
           t == [i \in 1 .. Len(q) |-> q[i].size]
<1>1. /\ q \in Seq(Bytes) /\ Len(q) = Len(p) + 1 /\ q[Len(p) + 1] = x
      /\ \A i \in 1 .. Len(p) : q[i] = p[i]
  OBVIOUS
<1> HIDE DEF q
<1>2. BytesTo(p) = SumTo(s) /\ BytesTo(q) = SumTo(t)
  BY DEF BytesTo
<1>3. Len(s) = Len(p) /\ Len(t) = Len(q)
  OBVIOUS
<1>4. \A i \in 1 .. Len(p) : s[i] = t[i]
  BY <1>1
<1> HIDE DEF s, t
<1>5. \A n \in 0 .. Len(p) : SumTo(s)[n] = SumTo(t)[n]
  <2>1. /\ Len(p) \in Nat /\ Len(s) \in Nat /\ Len(t) \in Nat
        /\ Len(p) <= Len(s) /\ Len(p) <= Len(t)
    BY <1>1, <1>3
  <2> QED BY <1>4, <2>1, SumToSame
<1>6. \A n \in 0 .. Len(p) : BytesTo(q)[n] = BytesTo(p)[n]
  BY <1>2, <1>5
<1>7. BytesTo(q)[Len(p) + 1] = BytesTo(q)[Len(p)] + x.size
  BY <1>1, BytesToIs
<1>8. Total(q) = Total(p) + x.size
  BY <1>1, <1>6, <1>7 DEF Total
<1> QED BY <1>1, <1>6, <1>8 DEF q

\* A single part.
LEMMA BytesOne ==
  ASSUME NEW x \in Bytes
  PROVE  /\ <<x>> \in Seq(Bytes) /\ Total(<<x>>) = x.size
         /\ \A i \in 1 .. Len(<<x>>) : <<x>>[i].from = x.from /\ BytesTo(<<x>>)[i - 1] = 0
<1>1. <<>> \in Seq(Bytes) /\ <<x>> = Append(<<>>, x) /\ Len(<<x>>) = 1 /\ <<x>>[1] = x
  OBVIOUS
<1>2. BytesTo(<<>>)[0] = 0 /\ Total(<<>>) = 0
  BY <1>1, BytesToIs DEF Total
<1>3. /\ BytesTo(Append(<<>>, x))[0] = 0 /\ Total(Append(<<>>, x)) = x.size
      /\ Append(<<>>, x) \in Seq(Bytes)
  <2>1. x.size \in Nat
    BY DEF Bytes
  <2>2. /\ Append(<<>>, x) \in Seq(Bytes)
        /\ \A n \in 0 .. Len(<<>>) : BytesTo(Append(<<>>, x))[n] = BytesTo(<<>>)[n]
        /\ Total(Append(<<>>, x)) = Total(<<>>) + x.size
    BY <1>1, BytesAppend
  <2>3. 0 \in 0 .. Len(<<>>)
    OBVIOUS
  <2> QED BY <1>2, <2>1, <2>2, <2>3
<1> QED BY <1>1, <1>3

\* The records of a reply, each of which takes some bytes.
LEMMA RecordsIs ==
  ASSUME NEW f \in Seq(Message)
  PROVE  /\ RecordsTo(f)[0] = 0 /\ FilesSize(f) \in Nat
         /\ \A n \in 0 .. Len(f) : RecordsTo(f)[n] \in Nat
         /\ \A n \in 1 .. Len(f) : RecordsTo(f)[n] = RecordsTo(f)[n - 1] + RecordSize(f[n])
         /\ \A n \in 0 .. Len(f) : \A i \in 0 .. n : i < n => RecordsTo(f)[i] < RecordsTo(f)[n]
<1> DEFINE s == [i \in 1 .. Len(f) |-> RecordSize(f[i])]
<1>1. \A i \in 1 .. Len(f) : RecordSize(f[i]) \in Nat /\ RecordSize(f[i]) > 0
  <2> TAKE i \in 1 .. Len(f)
  <2>1. f[i] \in Message
    OBVIOUS
  <2>2. f[i].total \in Nat
    BY <2>1 DEF Message
  <2> QED BY <2>2 DEF RecordSize, SizeInfo
<1>2. /\ s \in Seq(Nat) /\ Len(s) = Len(f) /\ \A i \in 1 .. Len(s) : s[i] > 0
      /\ \A i \in 1 .. Len(f) : s[i] = RecordSize(f[i])
  BY <1>1
<1>3. RecordsTo(f) = SumTo(s)
  BY DEF RecordsTo
<1> HIDE DEF s
<1>4. /\ SumTo(s)[0] = 0
      /\ \A n \in 1 .. Len(s) : SumTo(s)[n] = SumTo(s)[n - 1] + s[n]
      /\ \A n \in 0 .. Len(s) : SumTo(s)[n] \in Nat
  BY <1>2, SumToIs, SumToType
<1>5. \A n \in 0 .. Len(s) : \A i \in 0 .. n : i < n => SumTo(s)[i] < SumTo(s)[n]
  BY <1>2, SumToOrder
<1> QED BY <1>2, <1>3, <1>4, <1>5 DEF FilesSize

-------------------------------------------------------------------------------
(* Requests and the store *)

LEMMA SizesAre ==
  /\ MSG_SIZE = 512 /\ ReadSize = 384 /\ PartSize = 448 /\ SizeInfo = 10
  /\ NameHeader \in 11 .. 73 /\ MaxFiles \in Nat /\ MaxAsks \in Nat
  /\ FileSizes \subseteq Nat /\ TextLens \subseteq Nat
BY TransferAssumption DEF MSG_SIZE, ReadSize, PartSize, SizeInfo, NameHeader

PostInv == SendingInv /\ RequestsInv /\ StoreInv

\* The request that send writes next.
Cut ==
  [mid |-> mid, name |-> sending.name, total |-> sending.total,
   from |-> sending.pos, size |-> NRead + (IF sending.pos = 0 THEN NameHeader ELSE 0),
   full |-> IF LastPart THEN "y" ELSE "n"]

\* It holds the next bytes of the file, as many as fit.
LEMMA CutIs ==
  ASSUME TypeInv, SendingInv, sending # None
  PROVE  /\ NRead > 0 =>
              /\ Cut \in Request /\ WellCut(Cut)
              /\ Cut.from + Cut.size <= sending.total
              /\ Cut.from + Cut.size = sending.total \/ (Cut.from + Cut.size) % ReadSize = 0
         /\ NRead = 0 => sending.pos = sending.total \/ sending.pos = 0
<1> DEFINE t == sending.total
           q == sending.pos
           s == NRead + (IF q = 0 THEN NameHeader ELSE 0)
<1>1. /\ t \in Nat /\ q \in Nat /\ t >= NameHeader /\ sending.name \in Names
      /\ mid \in 0 .. MaxFiles - 1
      /\ q = t \/ (q % ReadSize = 0 /\ q < t)
  BY SizesAre DEF TypeInv, TransferTypeOK, SendingInv
<1>2. NRead = IF q = 0 THEN IF t - NameHeader < ReadSize - NameHeader THEN t - NameHeader
                            ELSE ReadSize - NameHeader
              ELSE IF t - q < ReadSize THEN t - q ELSE ReadSize
  BY <1>1, SizesAre DEF NRead, Unread, Size2Read
<1>3. LastPart <=> NRead < IF q = 0 THEN ReadSize - NameHeader ELSE ReadSize
  BY <1>1, SizesAre DEF LastPart, Size2Read
<1> HIDE DEF t, q
<1>4. NRead = 0 => q = t \/ q = 0
  BY <1>1, <1>2, SizesAre
<1>5. ASSUME NRead > 0
      PROVE  /\ q < t /\ q % ReadSize = 0
             /\ s = IF t - q < ReadSize THEN t - q ELSE ReadSize
             /\ s \in 1 .. ReadSize /\ (LastPart <=> s < ReadSize) /\ q + s <= t
  BY <1>1, <1>2, <1>3, <1>5, SizesAre
<1>6. ASSUME NRead > 0
      PROVE  q + s = t \/ (q + s) % ReadSize = 0
  BY <1>1, <1>5, <1>6, SizesAre, Remainder
<1>7. /\ Cut.mid = mid /\ Cut.total = t /\ Cut.from = q /\ Cut.size = s
      /\ Cut.full = IF LastPart THEN "y" ELSE "n"
  BY DEF Cut, t, q
<1> HIDE DEF s
<1>8. ASSUME NRead > 0 PROVE Cut \in Request
  <2>1. s \in 1 .. ReadSize
    BY <1>5, <1>8
  <2> QED BY <1>1, <2>1 DEF Cut, Request, Flags, t, q, s
<1>9. ASSUME NRead > 0 PROVE WellCut(Cut)
  BY <1>5, <1>7, <1>9 DEF WellCut
<1> QED BY <1>1, <1>4, <1>5, <1>6, <1>7, <1>8, <1>9 DEF t, q

\* What Follows says of a place depends on its message and its byte only.
LEMMA FollowsSame ==
  ASSUME NEW w, NEW p, NEW q, p.mid = q.mid, p.total = q.total, p.from = q.from
  PROVE  Follows(w, p) <=> Follows(w, q)
BY DEF Follows

LEMMA SendInv ==
  ASSUME TypeInv, PostInv, NEW n \in Names, NEW size \in FileSizes, Send(n, size)
  PROVE  TypeInv' /\ PostInv'
<1>1. /\ sending = None /\ mid < MaxFiles
      /\ sending' = [name |-> n, total |-> NameHeader + size, pos |-> 0]
      /\ UNCHANGED <<mid, requests, store>>
      /\ UNCHANGED <<server, out, ended, pipe, clientVars, answer>>
  BY DEF Send, serverVars
<1>2. size \in Nat /\ NameHeader \in 11 .. 73 /\ NameHeader + size \in Nat
  BY SizesAre
<1>3. TypeInv'
  BY <1>1, <1>2 DEF TypeInv, TransferTypeOK, clientVars
<1>4. SendingInv'
  <2>1. 0 % ReadSize = 0
    BY SizesAre
  <2> QED BY <1>1, <1>2, <2>1 DEF SendingInv
<1>5. mid \in Nat /\ mid' = mid
  BY <1>1, SizesAre DEF TypeInv, TransferTypeOK
<1>6. sending' # None
  BY <1>1, <1>2, TransferAssumption
<1>7. /\ WriterPlace = [mid |-> mid, total |-> 0, from |-> 0]
      /\ WriterPlace' = [mid |-> mid, total |-> NameHeader + size, from |-> 0]
  BY <1>1, <1>6 DEF WriterPlace
<1>8. RequestsInv'
  <2> SUFFICES ASSUME NEW j \in 1 .. Len(requests)
               PROVE  /\ WellCut(requests[j])
                      /\ Follows(requests[j], IF j = Len(requests) THEN WriterPlace'
                                              ELSE requests[j + 1])
    BY <1>1 DEF RequestsInv
  <2>1. /\ WellCut(requests[j])
        /\ Follows(requests[j], IF j = Len(requests) THEN WriterPlace ELSE requests[j + 1])
    BY DEF PostInv, RequestsInv
  <2>2. requests[j] \in Request
    BY DEF TypeInv
  <2>3. requests[j].from + requests[j].size # 0
    <3>1. requests[j].from \in Nat /\ requests[j].size \in 1 .. ReadSize
      BY <2>2 DEF Request
    <3>2. requests[j].size > 0
      BY <3>1, RequestSize
    <3> QED BY ONLY <3>1, <3>2
  <2>4. CASE j = Len(requests)
    BY <1>7, <2>1, <2>3, <2>4 DEF Follows
  <2> QED BY <2>1, <2>4
<1>9. Due(NextPlace)'
  <2>1. CASE requests = <<>>
    <3>1. NextPlace = WriterPlace /\ NextPlace' = WriterPlace'
      BY <1>1, <2>1 DEF NextPlace
    <3>2. \A i \in 1 .. Len(store) :
            /\ store[i].mid < mid /\ Total(store[i].body) = store[i].total
            \/ /\ store[i].mid = mid /\ Total(store[i].body) = 0
      BY <1>7, <3>1 DEF PostInv, StoreInv, Due
    <3>3. \A i \in 1 .. Len(store) : Total(store[i].body) # 0
      <4>1. \A i \in 1 .. Len(store) : Total(store[i].body) > 0
        BY DEF PostInv, StoreInv, Stored
      <4> QED BY <4>1
    <3> QED BY <1>1, <1>7, <3>1, <3>2, <3>3 DEF Due
  <2>2. CASE requests # <<>>
    <3>1. NextPlace' = NextPlace
      BY <1>1, <2>2 DEF NextPlace
    <3> QED BY <1>1, <3>1 DEF PostInv, StoreInv, Due
  <2> QED BY <2>1, <2>2
<1>10. StoreInv'
  BY <1>1, <1>9 DEF PostInv, StoreInv
<1> QED BY <1>3, <1>4, <1>8, <1>10 DEF PostInv

LEMMA SendPartInv ==
  ASSUME TypeInv, PostInv, SendPart
  PROVE  TypeInv' /\ PostInv'
<1>1. /\ sending # None /\ NRead > 0 /\ Len(requests) < PipeParts
      /\ requests' = Append(requests, Cut)
      /\ sending' = [sending EXCEPT !.pos = @ + Cut.size]
      /\ UNCHANGED <<mid, store>>
      /\ UNCHANGED <<server, out, ended, pipe, clientVars, answer>>
  BY DEF SendPart, Cut, serverVars
<1>2. /\ Cut \in Request /\ WellCut(Cut)
      /\ Cut.from + Cut.size <= sending.total
      /\ Cut.from + Cut.size = sending.total \/ (Cut.from + Cut.size) % ReadSize = 0
  BY <1>1, CutIs DEF PostInv
<1>3. /\ sending \in [name : Names, total : Nat, pos : Nat] /\ requests \in Seq(Request)
      /\ PipeParts \in Nat /\ mid \in 0 .. MaxFiles
  BY <1>1, TransferAssumption DEF TypeInv, TransferTypeOK
<1>4. /\ Cut.mid = mid /\ Cut.total = sending.total /\ Cut.from = sending.pos
      /\ Cut.size \in 1 .. ReadSize /\ Cut.full \in Flags /\ Cut.from \in Nat
  <2>1. Cut.mid = mid /\ Cut.total = sending.total /\ Cut.from = sending.pos
    BY DEF Cut
  <2>2. Cut.size \in 1 .. ReadSize /\ Cut.full \in Flags /\ Cut.from \in Nat
    BY <1>2 DEF Request
  <2> QED BY <2>1, <2>2
<1>5. Cut.size \in Nat /\ Cut.size > 0
  BY <1>4, SizesAre
<1> DEFINE w == Cut
           s == sending'
           r == requests'
<1> HIDE DEF w
<1>6. /\ s \in [name : Names, total : Nat, pos : Nat]
      /\ s.total = sending.total /\ s.pos = w.from + w.size /\ s.name = sending.name
  BY <1>1, <1>3, <1>4, <1>5 DEF w
<1>7. /\ r \in Seq(Request) /\ Len(r) = Len(requests) + 1 /\ r[Len(requests) + 1] = w
      /\ \A j \in 1 .. Len(requests) : r[j] = requests[j]
  BY <1>1, <1>2, <1>3 DEF w
<1> HIDE DEF s, r
<1>8. TypeInv'
  <2>1. sending' = None \/ (sending'.name \in Names /\ sending'.total \in Nat
                             /\ sending'.pos \in 0 .. sending'.total)
    BY <1>2, <1>6 DEF s, w
  <2>2. \A i \in 1 .. Len(requests') :
          requests'[i].size \in 1 .. ReadSize /\ requests'[i].full \in Flags
    <3>1. \A i \in 1 .. Len(r) : r[i] \in Request
      BY <1>7
    <3> QED BY <3>1 DEF Request, r
  <2>3. Len(requests') <= PipeParts
    BY <1>1, <1>3, <1>7 DEF r
  <2> QED BY <1>1, <1>6, <1>7, <2>1, <2>2, <2>3
          DEF TypeInv, TransferTypeOK, clientVars, s, r
<1>9. SendingInv'
  <2>1. s.pos = s.total \/ (s.pos % ReadSize = 0 /\ s.pos < s.total)
    BY <1>2, <1>3, <1>4, <1>6, SizesAre DEF w
  <2>2. mid < MaxFiles /\ s.total >= NameHeader
    BY <1>1, <1>6 DEF PostInv, SendingInv
  <2> QED BY <1>1, <2>1, <2>2 DEF SendingInv, s
<1>10. /\ WriterPlace.mid = w.mid /\ WriterPlace.total = w.total /\ WriterPlace.from = w.from
  BY <1>1, <1>4 DEF WriterPlace, w
<1>11. RequestsInv'
  <2>1. Follows(w, WriterPlace')
    <3>1. sending' # None
      BY <1>6, TransferAssumption DEF s
    <3>2. WriterPlace' = [mid |-> mid, total |-> sending.total, from |-> w.from + w.size]
      BY <1>1, <1>6, <3>1 DEF WriterPlace, s
    <3> QED BY <1>4, <3>2 DEF Follows, w
  <2>2. ASSUME NEW j \in 1 .. Len(r)
        PROVE  WellCut(r[j]) /\ Follows(r[j], IF j = Len(r) THEN WriterPlace' ELSE r[j + 1])
    <3>1. CASE j = Len(r)
      BY <1>2, <1>3, <1>7, <2>1, <3>1 DEF w
    <3>2. CASE j < Len(requests)
      <4>1. /\ WellCut(requests[j]) /\ Follows(requests[j], requests[j + 1])
        BY <1>3, <3>2 DEF PostInv, RequestsInv
      <4> QED BY <1>3, <1>7, <3>2, <4>1
    <3>3. CASE j = Len(requests)
      <4>1. WellCut(requests[j]) /\ Follows(requests[j], WriterPlace)
        BY <1>3, <3>3 DEF PostInv, RequestsInv
      <4>2. Follows(requests[j], w)
        BY <1>10, <4>1, FollowsSame
      <4> QED BY <1>3, <1>7, <3>3, <4>1, <4>2
    <3> QED BY <1>3, <1>7, <3>1, <3>2, <3>3
  <2> QED BY <2>2 DEF RequestsInv, r
<1>12. StoreInv'
  <2>1. NextPlace' = NextPlace
    <3>1. CASE requests = <<>>
      <4>1. NextPlace' = [mid |-> w.mid, total |-> w.total, from |-> w.from]
        BY <1>7, <3>1 DEF NextPlace, r
      <4>2. NextPlace = [mid |-> mid, total |-> sending.total, from |-> sending.pos]
        BY <1>1, <3>1 DEF NextPlace, WriterPlace
      <4> QED BY <1>4, <4>1, <4>2 DEF w
    <3>2. CASE requests # <<>>
      <4>1. r # <<>> /\ r[1] = requests[1]
        BY <1>3, <1>7, <3>2
      <4> QED BY <3>2, <4>1 DEF NextPlace, r
    <3> QED BY <3>1, <3>2
  <2> QED BY <1>1, <2>1 DEF PostInv, StoreInv, Due
<1> QED BY <1>8, <1>9, <1>11, <1>12 DEF PostInv

LEMMA SendEndInv ==
  ASSUME TypeInv, PostInv, SendEnd
  PROVE  TypeInv' /\ PostInv'
<1>1. /\ sending # None /\ NRead = 0
      /\ sending' = None /\ mid' = mid + 1
      /\ UNCHANGED <<requests, store>>
      /\ UNCHANGED <<server, out, ended, pipe, clientVars, answer>>
  BY DEF SendEnd, serverVars
<1>2. sending.pos = sending.total \/ sending.pos = 0
  BY <1>1, CutIs DEF PostInv
<1>3. mid \in Nat /\ mid < MaxFiles /\ MaxFiles \in Nat
  BY <1>1, SizesAre DEF TypeInv, TransferTypeOK, PostInv, SendingInv
<1>4. TypeInv'
  <2>1. mid' \in 0 .. MaxFiles
    BY <1>1, <1>3
  <2> QED BY <1>1, <2>1 DEF TypeInv, TransferTypeOK, clientVars
<1>5. SendingInv'
  BY <1>1 DEF SendingInv
<1>6. /\ WriterPlace = [mid |-> mid, total |-> sending.total, from |-> sending.pos]
      /\ WriterPlace' = [mid |-> mid + 1, total |-> 0, from |-> 0]
  BY <1>1 DEF WriterPlace
<1>7. RequestsInv'
  <2> SUFFICES ASSUME NEW j \in 1 .. Len(requests)
               PROVE  /\ WellCut(requests[j])
                      /\ Follows(requests[j], IF j = Len(requests) THEN WriterPlace'
                                              ELSE requests[j + 1])
    BY <1>1 DEF RequestsInv
  <2>1. /\ WellCut(requests[j])
        /\ Follows(requests[j], IF j = Len(requests) THEN WriterPlace ELSE requests[j + 1])
    BY DEF PostInv, RequestsInv
  <2>2. /\ requests[j].from \in Nat /\ requests[j].size \in 1 .. ReadSize
        /\ requests[j].mid \in Nat
    <3>1. requests[j] \in Request
      BY DEF TypeInv
    <3> QED BY <3>1, SizesAre DEF Request
  <2>3. requests[j].from + requests[j].size # 0
    <3>1. requests[j].size > 0
      BY <2>2, RequestSize
    <3> QED BY ONLY <2>2, <3>1
  <2>4. CASE j = Len(requests)
    <3>1. \/ /\ requests[j].mid = mid /\ requests[j].total = sending.total
             /\ requests[j].from + requests[j].size = sending.pos
          \/ /\ requests[j].from + requests[j].size = requests[j].total
             /\ requests[j].mid < mid
      BY <1>6, <2>1, <2>4 DEF Follows
    <3>2. requests[j].from + requests[j].size = requests[j].total
      BY <1>2, <2>3, <3>1
    <3>3. requests[j].mid < mid + 1
      BY <1>3, <2>2, <3>1
    <3>4. Follows(requests[j], WriterPlace')
      BY <1>6, <3>2, <3>3 DEF Follows
    <3> QED BY <2>1, <2>4, <3>4
  <2> QED BY <2>1, <2>4
<1>8. Due(NextPlace)'
  <2>1. CASE requests = <<>>
    <3>1. NextPlace = WriterPlace /\ NextPlace' = WriterPlace'
      BY <1>1, <2>1 DEF NextPlace
    <3>2. \A i \in 1 .. Len(store) :
            \/ store[i].mid < mid /\ Total(store[i].body) = store[i].total
            \/ /\ store[i].mid = mid /\ store[i].total = sending.total
               /\ Total(store[i].body) = sending.pos
      BY <1>6, <3>1 DEF PostInv, StoreInv, Due
    <3>3. \A i \in 1 .. Len(store) :
            store[i].mid < mid + 1 /\ Total(store[i].body) = store[i].total
      <4> TAKE i \in 1 .. Len(store)
      <4>1. Total(store[i].body) > 0
        BY DEF PostInv, StoreInv, Stored
      <4>2. store[i].mid \in Nat
        <5>1. store[i] \in Message
          BY DEF TypeInv
        <5> QED BY <5>1 DEF Message
      <4>3. Total(store[i].body) = store[i].total
        BY <1>2, <3>2, <4>1
      <4> QED BY <1>3, <3>2, <4>2, <4>3
    <3> QED BY <1>1, <1>6, <3>1, <3>3 DEF Due
  <2>2. CASE requests # <<>>
    <3>1. NextPlace' = NextPlace
      BY <1>1, <2>2 DEF NextPlace
    <3> QED BY <1>1, <3>1 DEF PostInv, StoreInv, Due
  <2> QED BY <2>1, <2>2
<1>9. StoreInv'
  BY <1>1, <1>8 DEF PostInv, StoreInv
<1> QED BY <1>4, <1>5, <1>7, <1>9 DEF PostInv

\* A message that a request adds to.
LEMMA StoredExtended ==
  ASSUME NEW m \in Message, Stored(m), NEW w \in Request, WellCut(w),
         m.total = w.total, Total(m.body) = w.from
  PROVE  /\ Extended(m, w) \in Message /\ Stored(Extended(m, w))
         /\ Extended(m, w).mid = m.mid /\ Extended(m, w).total = m.total
         /\ Total(Extended(m, w).body) = w.from + w.size
<1> DEFINE b == m.body
           x == Piece(w)
           e == Extended(m, w)
           c == Append(b, x)
<1>1. /\ b \in Seq(Bytes) /\ w.from \in Nat /\ w.size \in 1 .. ReadSize /\ w.full \in Flags
      /\ w.total \in Nat /\ m.full \in Flags
  BY DEF Message, Request
<1>2. x \in Bytes /\ x.from = w.from /\ x.size = w.size
  <2>1. w.size \in Nat
    BY <1>1, RequestSize
  <2> QED BY <1>1, <2>1 DEF Piece, Bytes
<1>3. /\ e.body = c /\ e.full = w.full /\ e.mid = m.mid /\ e.total = m.total /\ e.name = m.name
  BY DEF Extended, Message
<1>4. /\ c \in Seq(Bytes) /\ \A n \in 0 .. Len(b) : BytesTo(c)[n] = BytesTo(b)[n]
      /\ Total(c) = w.from + w.size
  <2>1. /\ c \in Seq(Bytes) /\ \A n \in 0 .. Len(b) : BytesTo(c)[n] = BytesTo(b)[n]
        /\ Total(c) = Total(b) + x.size
    <3> HIDE DEF b, x
    <3> QED BY <1>1, <1>2, BytesAppend
  <2> QED BY <1>2, <2>1
<1>5. e \in Message
  <2>1. e = [m EXCEPT !.body = c, !.full = w.full]
    BY DEF Extended
  <2> HIDE DEF c
  <2> QED BY <1>1, <1>4, <2>1 DEF Message
<1>6. \A i \in 1 .. Len(c) : c[i].from = BytesTo(c)[i - 1]
  <2> TAKE i \in 1 .. Len(c)
  <2>1. /\ Len(c) = Len(b) + 1 /\ c[Len(b) + 1] = x /\ Len(b) \in Nat
        /\ \A n \in 1 .. Len(b) : c[n] = b[n]
    BY <1>1
  <2>2. \A n \in 1 .. Len(b) : b[n].from = BytesTo(b)[n - 1]
    BY DEF Stored
  <2> HIDE DEF b, c, x
  <2>3. CASE i = Len(b) + 1
    <3>1. BytesTo(c)[Len(b)] = BytesTo(b)[Len(b)]
      BY <1>4, <2>1
    <3>2. BytesTo(b)[Len(b)] = w.from
      BY DEF Total, b
    <3> QED BY <1>2, <2>1, <2>3, <3>1, <3>2
  <2>4. CASE i \in 1 .. Len(b)
    BY <1>4, <2>1, <2>2, <2>4
  <2> QED BY <2>1, <2>3, <2>4
<1> HIDE DEF e, c
<1>7. /\ Total(e.body) > 0 /\ Total(e.body) <= e.total
      /\ Total(e.body) % ReadSize # 0 => Total(e.body) = e.total
      /\ e.full = "y" <=> Total(e.body) % ReadSize # 0
  <2>1. /\ w.from % ReadSize = 0 /\ w.from < w.total
        /\ w.size = IF w.total - w.from < ReadSize THEN w.total - w.from ELSE ReadSize
        /\ w.full = "y" <=> w.size < ReadSize
    BY DEF WellCut
  <2>2. /\ (w.from + ReadSize) % ReadSize = 0
        /\ \A s \in 1 .. ReadSize - 1 : (w.from + s) % ReadSize # 0
    BY <1>1, <2>1, Remainder
  <2>3. ReadSize = 384
    BY SizesAre
  <2>4. (w.from + w.size) % ReadSize # 0 <=> w.size < ReadSize
    <3>1. w.size = ReadSize \/ w.size \in 1 .. ReadSize - 1
      BY <1>1, <2>3
    <3>2. CASE w.size = ReadSize
      BY <2>2, <2>3, <3>2
    <3>3. CASE w.size \in 1 .. ReadSize - 1
      BY <2>2, <2>3, <3>3
    <3> QED BY <3>1, <3>2, <3>3
  <2>5. w.from + w.size > 0 /\ w.from + w.size <= w.total
        /\ (w.size < ReadSize => w.from + w.size = w.total)
    BY <1>1, <2>1, <2>3
  <2> QED BY <1>3, <1>4, <2>1, <2>4, <2>5
<1>8. Stored(e)
  BY <1>3, <1>6, <1>7 DEF Stored
<1> QED BY <1>3, <1>4, <1>5, <1>8 DEF e

\* A message that begins with a request.
LEMMA StoredNew ==
  ASSUME NEW w \in Request, WellCut(w), w.from = 0
  PROVE  /\ NewMessage(w) \in Message /\ Stored(NewMessage(w))
         /\ NewMessage(w).mid = w.mid /\ NewMessage(w).total = w.total
         /\ Total(NewMessage(w).body) = w.size
<1> DEFINE x == Piece(w)
           e == NewMessage(w)
<1>1. /\ w.size \in 1 .. ReadSize /\ w.full \in Flags /\ w.total \in Nat
      /\ w.mid \in 0 .. MaxFiles - 1 /\ w.name \in Names
  BY DEF Request
<1>2. x \in Bytes /\ x.from = 0 /\ x.size = w.size
  <2>1. w.size \in Nat
    BY <1>1, RequestSize
  <2> QED BY <2>1 DEF Piece, Bytes
<1>3. /\ e.body = <<x>> /\ e.full = w.full /\ e.mid = w.mid /\ e.total = w.total
      /\ e = [mid |-> w.mid, name |-> w.name, total |-> w.total, full |-> w.full, body |-> <<x>>]
  BY DEF NewMessage
<1> HIDE DEF x, e
<1>4. /\ <<x>> \in Seq(Bytes) /\ Total(<<x>>) = w.size
      /\ \A i \in 1 .. Len(<<x>>) : <<x>>[i].from = BytesTo(<<x>>)[i - 1]
  BY <1>2, BytesOne
<1>5. e \in Message
  BY <1>1, <1>3, <1>4 DEF Message
<1>6. /\ Total(e.body) > 0 /\ Total(e.body) <= e.total
      /\ Total(e.body) % ReadSize # 0 => Total(e.body) = e.total
      /\ e.full = "y" <=> Total(e.body) % ReadSize # 0
  <2>1. /\ w.size = IF w.total < ReadSize THEN w.total ELSE ReadSize
        /\ w.full = "y" <=> w.size < ReadSize
    BY <1>1 DEF WellCut
  <2>2. ReadSize = 384
    BY SizesAre
  <2> QED BY <1>1, <1>3, <1>4, <2>1, <2>2
<1> QED BY <1>3, <1>4, <1>5, <1>6 DEF Stored, e

\* The store to which a request is added.
Added(w) ==
  IF \E i \in 1 .. Len(store) : SameMessage(store[i], w)
  THEN [i \in 1 .. Len(store) |->
          IF SameMessage(store[i], w) THEN Extended(store[i], w) ELSE store[i]]
  ELSE Insert(NewMessage(w))

\* Where the message of the request w ends in the store s once w is added.
Reached(s, w) ==
  /\ \A i \in 1 .. Len(s) :
       \/ s[i].mid < w.mid /\ Total(s[i].body) = s[i].total
       \/ s[i].mid = w.mid /\ s[i].total = w.total /\ Total(s[i].body) = w.from + w.size
  /\ \E i \in 1 .. Len(s) : s[i].mid = w.mid

LEMMA AddedIs ==
  ASSUME store \in Seq(Message), \A i \in 1 .. Len(store) : Stored(store[i]),
         Descending(store), NEW w \in Request, WellCut(w),
         Due([mid |-> w.mid, total |-> w.total, from |-> w.from])
  PROVE  /\ Added(w) \in Seq(Message)
         /\ \A i \in 1 .. Len(Added(w)) : Stored(Added(w)[i])
         /\ Descending(Added(w)) /\ Reached(Added(w), w)
<1> DEFINE t == Added(w)
<1>1. w.mid \in Nat /\ w.from \in Nat /\ w.total \in Nat /\ w.from < w.total
  BY SizesAre DEF Request, WellCut
<1>2. /\ Len(store) \in Nat
      /\ \A i \in 1 .. Len(store) : store[i] \in Message /\ store[i].mid \in Nat
  <2>1. \A i \in 1 .. Len(store) : store[i] \in Message
    OBVIOUS
  <2> QED BY <2>1, SizesAre DEF Message
<1>3. /\ \A i \in 1 .. Len(store) :
           \/ store[i].mid < w.mid /\ Total(store[i].body) = store[i].total
           \/ /\ store[i].mid = w.mid /\ store[i].total = w.total
              /\ Total(store[i].body) = w.from
      /\ 0 < w.from => \E i \in 1 .. Len(store) : store[i].mid = w.mid
  BY <1>1 DEF Due
<1>4. \A i \in 1 .. Len(store) : SameMessage(store[i], w) <=> store[i].mid = w.mid
  BY <1>1, <1>2, <1>3 DEF SameMessage
<1>5. CASE \E i \in 1 .. Len(store) : SameMessage(store[i], w)
  <2>1. t = [i \in 1 .. Len(store) |->
               IF SameMessage(store[i], w) THEN Extended(store[i], w) ELSE store[i]]
    BY <1>5 DEF Added
  <2> HIDE DEF t
  <2>2. Len(t) = Len(store) /\ DOMAIN t = 1 .. Len(store)
    BY <1>2, <2>1
  <2>3. ASSUME NEW i \in 1 .. Len(store)
        PROVE  /\ t[i] \in Message /\ Stored(t[i]) /\ t[i].mid = store[i].mid
               /\ \/ t[i].mid < w.mid /\ Total(t[i].body) = t[i].total
                  \/ /\ t[i].mid = w.mid /\ t[i].total = w.total
                     /\ Total(t[i].body) = w.from + w.size
    <3>1. CASE SameMessage(store[i], w)
      <4>1. t[i] = Extended(store[i], w)
        BY <2>1, <3>1
      <4>2. /\ store[i] \in Message /\ Stored(store[i]) /\ store[i].mid = w.mid
            /\ store[i].total = w.total /\ Total(store[i].body) = w.from
        BY <1>1, <1>2, <1>3, <3>1 DEF SameMessage
      <4>3. /\ t[i] \in Message /\ Stored(t[i]) /\ t[i].mid = store[i].mid
            /\ t[i].total = store[i].total /\ Total(t[i].body) = w.from + w.size
        BY <4>1, <4>2, StoredExtended
      <4> QED BY <4>2, <4>3
    <3>2. CASE ~ SameMessage(store[i], w)
      <4>1. t[i] = store[i]
        BY <2>1, <3>2
      <4> QED BY <1>2, <1>3, <1>4, <3>2, <4>1
    <3> QED BY <3>1, <3>2
  <2>4. t \in Seq(Message)
    <3>1. t = [i \in 1 .. Len(store) |-> t[i]]
      BY <2>1
    <3> QED BY <1>2, <2>3, <3>1
  <2>5. Descending(t)
    <3> SUFFICES ASSUME NEW i \in 1 .. Len(t), NEW j \in 1 .. Len(t), i < j
                 PROVE  t[i].mid > t[j].mid
      BY DEF Descending
    <3>1. store[i].mid > store[j].mid
      BY <2>2 DEF Descending
    <3> QED BY <2>2, <2>3, <3>1
  <2>6. Reached(t, w)
    <3>1. PICK i \in 1 .. Len(store) : SameMessage(store[i], w)
      BY <1>5
    <3>2. t[i].mid = w.mid
      BY <2>3, <3>1 DEF SameMessage
    <3> QED BY <2>2, <2>3, <3>2 DEF Reached
  <2> QED BY <2>2, <2>3, <2>4, <2>5, <2>6 DEF t
<1>6. CASE ~ \E i \in 1 .. Len(store) : SameMessage(store[i], w)
  <2> DEFINE e == NewMessage(w)
  <2>1. w.from = 0
    BY <1>1, <1>3, <1>4, <1>6
  <2>2. /\ e \in Message /\ Stored(e) /\ e.mid = w.mid /\ e.total = w.total
        /\ Total(e.body) = w.from + w.size
    <3>1. /\ e \in Message /\ Stored(e) /\ e.mid = w.mid /\ e.total = w.total
          /\ Total(e.body) = w.size
      BY <2>1, StoredNew
    <3>2. w.size \in Nat
      <4>1. w.size \in 1 .. ReadSize
        BY DEF Request
      <4> QED BY <4>1, RequestSize
    <3> QED BY <2>1, <3>1, <3>2
  <2>3. t = <<e>> \o store
    BY <1>6 DEF Added, Insert
  <2> HIDE DEF e, t
  <2>4. /\ t \in Seq(Message) /\ Len(t) = Len(store) + 1 /\ t[1] = e
        /\ \A i \in 2 .. Len(t) : i - 1 \in 1 .. Len(store) /\ t[i] = store[i - 1]
    BY <2>2, <2>3
  <2>5. \A i \in 1 .. Len(store) :
          store[i].mid < w.mid /\ Total(store[i].body) = store[i].total
    BY <1>3, <1>4, <1>6
  <2>6. \A i \in 1 .. Len(t) : i = 1 \/ i \in 2 .. Len(t)
    BY <1>2, <2>4
  <2>7. \A i \in 1 .. Len(t) : Stored(t[i])
    BY <2>2, <2>4, <2>6
  <2>8. Descending(t)
    <3> SUFFICES ASSUME NEW i \in 1 .. Len(t), NEW j \in 1 .. Len(t), i < j
                 PROVE  t[i].mid > t[j].mid
      BY DEF Descending
    <3>1. j - 1 \in 1 .. Len(store) /\ t[j] = store[j - 1] /\ j \in 2 .. Len(t)
      BY <1>2, <2>4
    <3>2. CASE i = 1
      BY <1>1, <1>2, <2>2, <2>4, <2>5, <3>1, <3>2
    <3>3. CASE i \in 2 .. Len(t)
      <4>1. i - 1 \in 1 .. Len(store) /\ t[i] = store[i - 1] /\ i - 1 < j - 1
        BY <2>4, <3>3
      <4>2. store[i - 1].mid > store[j - 1].mid
        BY <3>1, <4>1 DEF Descending
      <4> QED BY <3>1, <4>1, <4>2
    <3> QED BY <2>6, <3>2, <3>3
  <2>9. Reached(t, w)
    <3>1. 1 \in 1 .. Len(t)
      BY <1>2, <2>4
    <3>2. \A i \in 1 .. Len(t) :
            \/ t[i].mid < w.mid /\ Total(t[i].body) = t[i].total
            \/ t[i].mid = w.mid /\ t[i].total = w.total /\ Total(t[i].body) = w.from + w.size
      BY <2>2, <2>4, <2>5, <2>6
    <3>3. t[1].mid = w.mid
      BY <2>2, <2>4
    <3> QED BY <3>1, <3>2, <3>3 DEF Reached
  <2> QED BY <2>4, <2>7, <2>8, <2>9 DEF t
<1> QED BY <1>5, <1>6

LEMMA HandleWRInv ==
  ASSUME TypeInv, PostInv, HandleWR
  PROVE  TypeInv' /\ PostInv'
<1> DEFINE w == requests[1]
           r == requests'
<1>1. /\ requests # <<>> /\ requests' = Tail(requests) /\ store' = Added(Head(requests))
      /\ UNCHANGED <<sending, mid>>
      /\ UNCHANGED <<server, out, ended, pipe, clientVars, answer>>
  BY DEF HandleWR, Added, postVars
<1>2. requests \in Seq(Request) /\ Len(requests) \in Nat /\ Len(requests) > 0
  BY <1>1 DEF TypeInv
<1>3. /\ w \in Request /\ Head(requests) = w /\ r \in Seq(Request)
      /\ Len(r) = Len(requests) - 1
      /\ \A j \in 1 .. Len(r) : r[j] = requests[j + 1]
  BY <1>1, <1>2
<1>4. WellCut(w) /\ Follows(w, IF 1 = Len(requests) THEN WriterPlace ELSE requests[2])
  <2>1. 1 \in 1 .. Len(requests) /\ 1 + 1 = 2
    BY <1>2
  <2>2. /\ WellCut(requests[1])
        /\ Follows(requests[1], IF 1 = Len(requests) THEN WriterPlace ELSE requests[1 + 1])
    BY <2>1 DEF PostInv, RequestsInv
  <2> QED BY <2>1, <2>2
<1>5. NextPlace = [mid |-> w.mid, total |-> w.total, from |-> w.from]
  BY <1>1 DEF NextPlace
<1> HIDE DEF r, w
<1>6. /\ store' = Added(w) /\ store' \in Seq(Message)
      /\ \A i \in 1 .. Len(store') : Stored(store'[i])
      /\ Descending(store') /\ Reached(store', w)
  <2>1. /\ store \in Seq(Message) /\ \A i \in 1 .. Len(store) : Stored(store[i])
        /\ Descending(store) /\ Due([mid |-> w.mid, total |-> w.total, from |-> w.from])
    BY <1>5 DEF TypeInv, PostInv, StoreInv
  <2>2. store' = Added(w)
    BY <1>1, <1>3
  <2> QED BY <1>3, <1>4, <2>1, <2>2, AddedIs
<1>7. TypeInv'
  <2>1. \A i \in 1 .. Len(requests') :
          requests'[i].size \in 1 .. ReadSize /\ requests'[i].full \in Flags
    <3>1. \A i \in 1 .. Len(r) : r[i] \in Request
      BY <1>3
    <3> QED BY <3>1 DEF Request, r
  <2>2. \A i \in 1 .. Len(store') :
          store'[i].mid \in 0 .. MaxFiles - 1 /\ store'[i].full \in Flags
    <3>1. \A i \in 1 .. Len(store') : store'[i] \in Message
      BY <1>6
    <3> QED BY <3>1 DEF Message
  <2>3. Len(requests') <= PipeParts
    <3>1. Len(requests) <= PipeParts /\ PipeParts \in Nat
      BY TransferAssumption DEF TypeInv, TransferTypeOK
    <3> QED BY <1>2, <1>3, <3>1 DEF r
  <2> QED BY <1>1, <1>3, <1>6, <2>1, <2>2, <2>3
          DEF TypeInv, TransferTypeOK, clientVars, r
<1>8. SendingInv'
  BY <1>1 DEF PostInv, SendingInv
<1>9. WriterPlace' = WriterPlace
  BY <1>1 DEF WriterPlace
<1>10. RequestsInv'
  <2> SUFFICES ASSUME NEW j \in 1 .. Len(r)
               PROVE  WellCut(r[j]) /\ Follows(r[j], IF j = Len(r) THEN WriterPlace ELSE r[j + 1])
    BY <1>9 DEF RequestsInv, r
  <2>1. j + 1 \in 1 .. Len(requests) /\ r[j] = requests[j + 1]
    BY <1>2, <1>3
  <2>2. /\ WellCut(requests[j + 1])
        /\ Follows(requests[j + 1],
                   IF j + 1 = Len(requests) THEN WriterPlace ELSE requests[j + 2])
    BY <2>1 DEF PostInv, RequestsInv
  <2>3. CASE j = Len(r)
    <3>1. j + 1 = Len(requests)
      BY <1>2, <1>3, <2>3
    <3> QED BY <2>1, <2>2, <2>3, <3>1
  <2>4. CASE j # Len(r)
    <3>1. j + 1 # Len(requests) /\ r[j + 1] = requests[j + 2]
      BY <1>2, <1>3, <2>4
    <3> QED BY <2>1, <2>2, <2>4, <3>1
  <2> QED BY <2>3, <2>4
<1> DEFINE p == NextPlace'
<1>11. Follows(w, p)
  <2>1. CASE 1 = Len(requests)
    <3>1. r = <<>>
      <4>1. Len(r) = Len(requests) - 1
        BY <1>3
      <4>2. Len(r) = 0
        BY ONLY <2>1, <4>1
      <4>3. r \in Seq(Request)
        BY <1>3
      <4> QED BY <4>2, <4>3
    <3>2. p = WriterPlace
      BY <1>9, <3>1 DEF NextPlace, r
    <3> QED BY <1>4, <2>1, <3>2
  <2>2. CASE 1 # Len(requests)
    <3>1. r # <<>> /\ r[1] = requests[2]
      BY <1>2, <1>3, <2>2
    <3>2. p = [mid |-> r[1].mid, total |-> r[1].total, from |-> r[1].from]
      BY <3>1 DEF NextPlace, r
    <3>3. Follows(w, r[1])
      BY <1>4, <2>2, <3>1
    <3>4. r[1].mid = p.mid /\ r[1].total = p.total /\ r[1].from = p.from
      BY <3>2
    <3> HIDE DEF p
    <3> QED BY <3>3, <3>4, FollowsSame
  <2> QED BY <2>1, <2>2
<1>12. p.mid \in Nat
  <2>1. mid \in Nat
    BY SizesAre DEF TypeInv, TransferTypeOK
  <2>2. CASE r = <<>>
    BY <1>1, <2>1, <2>2 DEF NextPlace, WriterPlace, r
  <2>3. CASE r # <<>>
    <3>1. r[1] \in Request
      BY <1>3, <2>3
    <3>2. r[1].mid \in Nat
      BY <3>1, SizesAre DEF Request
    <3>3. p.mid = r[1].mid
      BY <2>3 DEF NextPlace, r
    <3> QED BY <3>2, <3>3
  <2> QED BY <2>2, <2>3
<1> HIDE DEF p
<1>13. /\ \A i \in 1 .. Len(store') :
            \/ store'[i].mid < p.mid /\ Total(store'[i].body) = store'[i].total
            \/ /\ store'[i].mid = p.mid /\ store'[i].total = p.total
               /\ Total(store'[i].body) = p.from
       /\ 0 < p.from => \E i \in 1 .. Len(store') : store'[i].mid = p.mid
  <2>1. w.mid \in Nat
    BY <1>3, SizesAre DEF Request
  <2>2. \A i \in 1 .. Len(store') : store'[i].mid \in Nat
    <3>1. \A i \in 1 .. Len(store') : store'[i] \in Message
      BY <1>6
    <3> QED BY <3>1, SizesAre DEF Message
  <2>3. CASE w.mid = p.mid /\ w.total = p.total /\ w.from + w.size = p.from
    BY <1>6, <2>3 DEF Reached
  <2>4. CASE w.from + w.size = w.total /\ w.mid < p.mid /\ p.from = 0
    BY <1>6, <1>12, <2>1, <2>2, <2>4 DEF Reached
  <2> QED BY <1>11, <2>3, <2>4 DEF Follows
<1>14. Due(NextPlace)'
  BY <1>13 DEF Due, p
<1>15. StoreInv'
  BY <1>6, <1>14 DEF StoreInv, Descending, Stored, Total, BytesTo
<1> QED BY <1>7, <1>8, <1>10, <1>15 DEF PostInv

-------------------------------------------------------------------------------
(* What the two sides leave alone *)

ReplyInv ==
  PipeInv /\ PartsInv /\ ServerInv /\ ListInv /\ SaveInv /\ ReplyWhole /\ FirstSentInFront

LEMMA PostSame ==
  ASSUME PostInv, UNCHANGED <<sending, mid, requests, store>>
  PROVE  PostInv'
<1>1. SendingInv'
  BY DEF PostInv, SendingInv
<1>2. WriterPlace' = WriterPlace
  BY DEF WriterPlace
<1>3. RequestsInv'
  BY <1>2 DEF PostInv, RequestsInv
<1>4. NextPlace' = NextPlace
  BY <1>2 DEF NextPlace
<1>5. StoreInv'
  BY <1>4 DEF PostInv, StoreInv, Due
<1> QED BY <1>1, <1>3, <1>5 DEF PostInv

LEMMA ReplySame ==
  ASSUME ReplyInv, UNCHANGED <<server, out, ended, pipe, clientVars, answer>>
  PROVE  ReplyInv'
<1> USE DEF clientVars
<1>1. PipeInv'
  <2>1. Expected' = Expected /\ ServerPlace' = ServerPlace
    BY DEF Expected, ServerPlace
  <2> QED BY <2>1 DEF ReplyInv, PipeInv, After
<1>2. PartsInv'
  BY DEF ReplyInv, PartsInv, Length
<1>3. ServerInv'
  BY DEF ReplyInv, ServerInv, Length, FitsOneWrite
<1>4. ListInv' /\ SaveInv'
  BY DEF ReplyInv, ListInv, SaveInv, InFront
<1>5. ReplyWhole' /\ FirstSentInFront'
  BY DEF ReplyInv, ReplyWhole, FirstSentInFront, FirstSent, InFront
<1> QED BY <1>1, <1>2, <1>3, <1>4, <1>5 DEF ReplyInv

-------------------------------------------------------------------------------
(* The files that are collected *)

\* What is picked from the store is a part of it, in its order.
LEMMA PickIs ==
  ASSUME store \in Seq(Message), Descending(store), NEW I
  PROVE  /\ Pick(store, I) \in Seq(Message) /\ Descending(Pick(store, I))
         /\ \A i \in 1 .. Len(Pick(store, I)) :
              \E m \in 1 .. Len(store) : m \in I /\ Pick(store, I)[i] = store[m]
         /\ \A m \in 1 .. Len(store) :
              m \in I => \E i \in 1 .. Len(Pick(store, I)) : Pick(store, I)[i] = store[m]
<1> DEFINE q == Pick(store, I)
           n == Len(store)
<1>1. n \in Nat /\ n \in 0 .. n /\ q = Picked(store, I)[n]
  BY DEF Pick
<1>2. q \in Seq(Message)
  BY <1>1, PickedType
<1>3. \A i \in 1 .. Len(q) : \E m \in 1 .. n : m \in I /\ q[i] = store[m]
  BY <1>1, PickedFrom
<1>4. \A m \in 1 .. n : m \in I => \E i \in 1 .. Len(q) : q[i] = store[m]
  BY <1>1, PickedAll
<1>5. \A i, j \in 1 .. Len(q) :
        i < j => \E k, m \in 1 .. n : k < m /\ q[i] = store[k] /\ q[j] = store[m]
  <2>1. \A i, j \in 1 .. Len(Picked(store, I)[n]) :
          i < j => \E k, m \in 1 .. n : /\ k < m
                                        /\ Picked(store, I)[n][i] = store[k]
                                        /\ Picked(store, I)[n][j] = store[m]
    <3> HIDE DEF q
    <3> QED BY <1>1, PickedOrder
  <2> HIDE DEF q, n
  <2> QED BY <1>1, <2>1
<1> HIDE DEF q
<1>6. Descending(q)
  <2> SUFFICES ASSUME NEW i \in 1 .. Len(q), NEW j \in 1 .. Len(q), i < j
               PROVE  q[i].mid > q[j].mid
    BY DEF Descending
  <2>1. PICK k \in 1 .. n, m \in 1 .. n : k < m /\ q[i] = store[k] /\ q[j] = store[m]
    BY <1>5
  <2>2. store[k].mid > store[m].mid
    BY <2>1 DEF Descending
  <2> QED BY <2>1, <2>2
<1> QED BY <1>2, <1>3, <1>4, <1>6 DEF q

LEMMA ReadyIs ==
  ASSUME TypeInv, StoreInv
  PROVE  Ready \in Seq(Message) /\ Descending(Ready)
BY PickIs DEF TypeInv, StoreInv, Ready

\* The message that is still coming in is not among those that are collected.
LEMMA NotReadyInv ==
  ASSUME TypeInv, PostInv, store' = NotReady, UNCHANGED <<sending, mid, requests>>
  PROVE  store' \in Seq(Message) /\ PostInv'
<1> DEFINE I == {i \in DOMAIN store : store[i].full # "y"}
           q == store'
           p == NextPlace
<1>1. store \in Seq(Message) /\ Descending(store) /\ DOMAIN store = 1 .. Len(store)
  BY DEF TypeInv, PostInv, StoreInv
<1>2. q = Pick(store, I)
  BY DEF NotReady
<1>3. /\ q \in Seq(Message) /\ Descending(q)
      /\ \A i \in 1 .. Len(q) : \E m \in 1 .. Len(store) : m \in I /\ q[i] = store[m]
      /\ \A m \in 1 .. Len(store) : m \in I => \E i \in 1 .. Len(q) : q[i] = store[m]
  <2> DEFINE k == Pick(store, I)
  <2> HIDE DEF I
  <2>1. /\ k \in Seq(Message) /\ Descending(k)
        /\ \A i \in 1 .. Len(k) : \E m \in 1 .. Len(store) : m \in I /\ k[i] = store[m]
        /\ \A m \in 1 .. Len(store) : m \in I => \E i \in 1 .. Len(k) : k[i] = store[m]
    BY <1>1, PickIs
  <2>2. q = k
    BY <1>2
  <2> HIDE DEF k, q
  <2> QED BY <2>1, <2>2
<1>4. SendingInv'
  BY DEF PostInv, SendingInv
<1>5. WriterPlace' = WriterPlace
  BY DEF WriterPlace
<1>6. RequestsInv'
  BY <1>5 DEF PostInv, RequestsInv
<1>7. NextPlace' = p
  BY <1>5 DEF NextPlace
<1>8. p.from < p.total => p.from % ReadSize = 0
  <2>1. CASE requests = <<>>
    <3>1. CASE sending = None
      <4>1. p.from = 0
        BY <2>1, <3>1 DEF NextPlace, WriterPlace
      <4> QED BY <4>1, SizesAre
    <3>2. CASE sending # None
      <4>1. p.from = sending.pos /\ p.total = sending.total
        BY <2>1, <3>2 DEF NextPlace, WriterPlace
      <4>2. sending.total \in Nat
        BY <3>2 DEF TypeInv, TransferTypeOK
      <4> QED BY <3>2, <4>1, <4>2 DEF PostInv, SendingInv
    <3> QED BY <3>1, <3>2
  <2>2. CASE requests # <<>>
    <3>1. p.from = requests[1].from
      BY <2>2 DEF NextPlace
    <3>2. 1 \in 1 .. Len(requests)
      BY <2>2 DEF TypeInv
    <3> QED BY <3>1, <3>2 DEF PostInv, RequestsInv, WellCut
  <2> QED BY <2>1, <2>2
<1>9. p.mid \in Nat /\ \A i \in 1 .. Len(store) : store[i].mid \in Nat
  <2>1. \A i \in 1 .. Len(store) : store[i] \in Message
    BY <1>1
  <2>2. p.mid = mid \/ (requests # <<>> /\ p.mid = requests[1].mid)
    BY DEF NextPlace, WriterPlace
  <2>3. requests # <<>> => requests[1] \in Request
    BY DEF TypeInv
  <2>4. mid \in Nat /\ \A n \in 0 .. MaxFiles - 1 : n \in Nat
    BY SizesAre DEF TypeInv, TransferTypeOK
  <2>5. requests # <<>> => requests[1].mid \in Nat
    BY <2>3, <2>4 DEF Request
  <2>6. \A i \in 1 .. Len(store) : store[i].mid \in Nat
    BY <2>1, <2>4 DEF Message
  <2> HIDE DEF p
  <2> QED BY <2>2, <2>4, <2>5, <2>6
<1> HIDE DEF p, q
<1>10. /\ \A i \in 1 .. Len(q) :
            \/ q[i].mid < p.mid /\ Total(q[i].body) = q[i].total
            \/ q[i].mid = p.mid /\ q[i].total = p.total /\ Total(q[i].body) = p.from
       /\ 0 < p.from /\ p.from < p.total => \E i \in 1 .. Len(q) : q[i].mid = p.mid
  <2>1. /\ \A i \in 1 .. Len(store) :
             \/ store[i].mid < p.mid /\ Total(store[i].body) = store[i].total
             \/ /\ store[i].mid = p.mid /\ store[i].total = p.total
                /\ Total(store[i].body) = p.from
        /\ 0 < p.from /\ p.from < p.total => \E i \in 1 .. Len(store) : store[i].mid = p.mid
    BY DEF PostInv, StoreInv, Due, p
  <2>2. ASSUME 0 < p.from, p.from < p.total
        PROVE  \E i \in 1 .. Len(q) : q[i].mid = p.mid
    <3>1. PICK m \in 1 .. Len(store) : store[m].mid = p.mid
      BY <2>1, <2>2
    <3>2. Total(store[m].body) = p.from
      BY <1>9, <2>1, <3>1
    <3>3. store[m].full # "y"
      <4>1. store[m].full = "y" <=> Total(store[m].body) % ReadSize # 0
        BY DEF PostInv, StoreInv, Stored
      <4>2. p.from % ReadSize = 0
        BY <1>8, <2>2
      <4> QED BY <3>2, <4>1, <4>2
    <3>4. m \in I
      BY <1>1, <3>3
    <3> QED BY <1>3, <3>1, <3>4
  <2>3. ASSUME NEW i \in 1 .. Len(q)
        PROVE  \/ q[i].mid < p.mid /\ Total(q[i].body) = q[i].total
               \/ q[i].mid = p.mid /\ q[i].total = p.total /\ Total(q[i].body) = p.from
    <3>1. PICK m \in 1 .. Len(store) : q[i] = store[m]
      BY <1>3
    <3> QED BY <2>1, <3>1
  <2> QED BY <2>2, <2>3
<1>11. \A i \in 1 .. Len(q) : Stored(q[i])
  <2> HIDE DEF I
  <2> QED BY <1>3 DEF PostInv, StoreInv
<1>12. Due(NextPlace)'
  BY <1>7, <1>10 DEF Due, q
<1>13. StoreInv'
  BY <1>3, <1>11, <1>12 DEF StoreInv, Descending, Stored, q
<1> QED BY <1>3, <1>4, <1>6, <1>13 DEF PostInv, q

-------------------------------------------------------------------------------
(* The server replies *)

\* When the client expects nothing, nothing is on its way.
LEMMA PipeEmpty ==
  ASSUME TypeInv, PipeInv, Expected = Nowhere
  PROVE  pipe = <<>> /\ server = "idle"
<1>1. pipe = <<>>
  <2> SUFFICES ASSUME pipe # <<>> PROVE FALSE
    OBVIOUS
  <2>1. pipe \in Seq(Part) /\ 1 \in 1 .. Len(pipe) /\ pipe[1] \in Part
    BY DEF TypeInv
  <2>2. [of |-> pipe[1].of, from |-> pipe[1].from] = [of |-> "none", from |-> 0]
    BY <2>1 DEF PipeInv, Nowhere
  <2>3. pipe[1].of = "none"
    BY <2>2
  <2> QED BY <2>1, <2>3 DEF Part
<1>2. server = "idle"
  <2>1. ServerPlace = [of |-> "none", from |-> 0]
    BY <1>1 DEF PipeInv, Nowhere
  <2>2. CASE server # "idle"
    <3>1. [of |-> server, from |-> out.offset] = [of |-> "none", from |-> 0]
      BY <2>1, <2>2 DEF ServerPlace
    <3>2. server = "none"
      BY <3>1
    <3> QED BY <3>2 DEF TypeInv, TransferTypeOK
  <2> QED BY <2>2
<1> QED BY <1>1, <1>2

LEMMA HandleAskInv ==
  ASSUME TextsFit, TypeInv, PostInv, ReplyInv, NEW text \in TextLens, HandleAsk(text)
  PROVE  TypeInv' /\ PostInv' /\ ReplyInv'
<1>1. /\ server = "idle" /\ client = "asked" /\ client' = "text" /\ server' = "text"
      /\ out' = [total |-> text, offset |-> 0] /\ answer' = [text |-> text, files |-> <<>>]
      /\ UNCHANGED <<sending, mid, requests, store>>
      /\ UNCHANGED <<ended, pipe, command, list, offset, disk, asks>>
  BY DEF HandleAsk, postVars
<1>2. text \in Nat \ {MSG_SIZE - 15}
  BY TransferAssumption DEF TextsFit
<1>3. <<>> \in Seq(Message)
  OBVIOUS
<1>4. TypeInv'
  BY <1>1, <1>2, <1>3 DEF TypeInv, TransferTypeOK
<1>5. PostInv'
  BY <1>1, PostSame
<1>6. pipe = <<>>
  <2>1. Expected = Nowhere
    BY <1>1 DEF Expected
  <2> QED BY <2>1, PipeEmpty DEF ReplyInv
<1>7. PipeInv' /\ PartsInv'
  BY <1>1, <1>6 DEF PipeInv, PartsInv, ServerPlace, Expected
<1>8. ServerInv'
  BY <1>1 DEF ServerInv, Length
<1>9. ListInv'
  BY <1>1 DEF ReplyInv, ListInv
<1>10. SaveInv'
  BY <1>1 DEF ReplyInv, SaveInv, Descending
<1>11. ReplyWhole' /\ FirstSentInFront'
  BY <1>1 DEF ReplyWhole, FirstSentInFront
<1> QED BY <1>4, <1>5, <1>7, <1>8, <1>9, <1>10, <1>11 DEF ReplyInv

\* A part that is put behind the others keeps the order.
LEMMA ReplyPipe ==
  ASSUME TypeInv, PipeInv, server # "idle", NEW p \in Part, p.of = server, p.from = out.offset,
         pipe' = Append(pipe, p), UNCHANGED <<client, command, list>>,
         ServerPlace' = After(p), server' = "text" => server = "text"
  PROVE  PipeInv'
<1> DEFINE q == pipe'
           d == ServerPlace'
<1>1. pipe \in Seq(Part) /\ Len(pipe) \in Nat
  BY DEF TypeInv
<1>2. /\ Len(q) = Len(pipe) + 1 /\ q[Len(pipe) + 1] = p /\ q \in Seq(Part) /\ q # <<>>
      /\ \A j \in 1 .. Len(pipe) : q[j] = pipe[j]
  BY <1>1
<1>3. Expected' = Expected
  BY DEF Expected
<1>4. [of |-> p.of, from |-> p.from] = ServerPlace
  BY DEF ServerPlace
<1>5. d = After(p)
  OBVIOUS
<1> HIDE DEF q, d
<1>6. ASSUME NEW j \in 1 .. Len(q)
      PROVE  [of |-> q[j].of, from |-> q[j].from] = IF j = 1 THEN Expected ELSE After(q[j - 1])
  <2>1. CASE j \in 1 .. Len(pipe)
    <3>1. [of |-> pipe[j].of, from |-> pipe[j].from]
            = IF j = 1 THEN Expected ELSE After(pipe[j - 1])
      BY <2>1 DEF PipeInv
    <3>2. j # 1 => q[j - 1] = pipe[j - 1]
      BY <1>1, <1>2, <2>1
    <3> QED BY <1>2, <2>1, <3>1, <3>2
  <2>2. CASE j = Len(pipe) + 1
    <3>1. q[j] = p
      BY <1>2, <2>2
    <3>2. CASE pipe = <<>>
      <4>1. j = 1
        BY <2>2, <3>2
      <4>2. ServerPlace = Expected
        BY <3>2 DEF PipeInv
      <4> QED BY <1>4, <3>1, <4>1, <4>2
    <3>3. CASE pipe # <<>>
      <4>1. j # 1 /\ q[j - 1] = pipe[Len(pipe)]
        BY <1>1, <1>2, <2>2, <3>3
      <4>2. ServerPlace = After(pipe[Len(pipe)])
        BY <3>3 DEF PipeInv
      <4> QED BY <1>4, <3>1, <4>1, <4>2
    <3> QED BY <3>2, <3>3
  <2> QED BY <1>1, <1>2, <2>1, <2>2
<1>7. d = After(q[Len(q)])
  BY <1>2, <1>5
<1>8. server' = "text" =>
        client \in {"text", "text2"} /\ \A j \in 1 .. Len(q) : q[j].of = "text"
  <2> SUFFICES ASSUME server' = "text"
               PROVE  client \in {"text", "text2"} /\ \A j \in 1 .. Len(q) : q[j].of = "text"
    OBVIOUS
  <2>1. /\ client \in {"text", "text2"} /\ p.of = "text"
        /\ \A j \in 1 .. Len(pipe) : pipe[j].of = "text"
    BY DEF PipeInv
  <2>2. \A j \in 1 .. Len(q) : j \in 1 .. Len(pipe) \/ j = Len(pipe) + 1
    BY <1>1, <1>2
  <2> QED BY <1>2, <2>1, <2>2
<1> QED BY <1>2, <1>3, <1>6, <1>7, <1>8 DEF PipeInv, After, q, d

\* It has to lie in its reply and to fit its buffer.
PartFits(p) ==
  /\ p.size <= MSG_SIZE - 15
  /\ p.of = "text" => p.size # MSG_SIZE - 15
  /\ p.full = "y" => p.from + p.size = Length(p.of)
  /\ p.full = "n" => p.size = PartSize /\ p.from + p.size <= Length(p.of)

LEMMA ReplyParts ==
  ASSUME TypeInv, PipeInv, PartsInv, NEW p \in Part, p.of = server, PartFits(p),
         pipe' = Append(pipe, p),
         answer'.text = answer.text, answer' = answer \/ server = "text"
  PROVE  PartsInv'
<1>1. pipe \in Seq(Part) /\ Len(pipe) \in Nat
  BY DEF TypeInv
<1> DEFINE q == pipe'
<1>2. /\ Len(q) = Len(pipe) + 1 /\ q[Len(pipe) + 1] = p
      /\ \A j \in 1 .. Len(pipe) : q[j] = pipe[j]
  BY <1>1
<1> HIDE DEF q
<1>3. \A j \in 1 .. Len(q) : PartFits(q[j])
  <2>1. \A j \in 1 .. Len(pipe) : PartFits(pipe[j])
    BY DEF PartsInv, PartFits
  <2>2. \A j \in 1 .. Len(q) : j \in 1 .. Len(pipe) \/ j = Len(pipe) + 1
    BY <1>1, <1>2
  <2> QED BY <1>2, <2>1, <2>2
<1>4. \A j \in 1 .. Len(q) :
        Length(q[j].of) = IF q[j].of = "text" THEN answer'.text ELSE FilesSize(answer'.files)
  <2>1. CASE answer' = answer
    BY <2>1 DEF Length
  <2>2. CASE server = "text"
    <3>1. \A j \in 1 .. Len(pipe) : pipe[j].of = "text"
      BY <2>2 DEF PipeInv
    <3>2. \A j \in 1 .. Len(q) : j \in 1 .. Len(pipe) \/ j = Len(pipe) + 1
      BY <1>1, <1>2
    <3>3. \A j \in 1 .. Len(q) : q[j].of = "text"
      BY <1>2, <2>2, <3>1, <3>2
    <3> QED BY <3>3 DEF Length
  <2> QED BY <2>1, <2>2
<1> QED BY <1>3, <1>4 DEF PartsInv, PartFits, Length, q

\* Whatever part the server writes, if it fits and the server goes on where it ends.
LEMMA ReplyStep ==
  ASSUME TypeInv, ReplyInv, server # "idle", Len(pipe) < PipeParts,
         NEW p \in Part, p.of = server, p.from = out.offset, PartFits(p),
         pipe' = Append(pipe, p), UNCHANGED clientVars,
         ServerPlace' = After(p), server' = "text" => server = "text", ServerInv',
         answer'.text = answer.text, Descending(answer'.files),
         answer' = answer \/ server = "text"
  PROVE  ReplyInv' /\ pipe' \in Seq(Part) /\ Len(pipe') <= PipeParts
<1>1. UNCHANGED <<client, command, list, offset, disk, asks>>
  BY DEF clientVars
<1>2. PipeInv' /\ PartsInv'
  BY <1>1, ReplyPipe, ReplyParts DEF ReplyInv
<1>3. server = "text" => client \in {"text", "text2"}
  BY DEF ReplyInv, PipeInv
<1>4. ListInv'
  BY <1>1, <1>3 DEF ReplyInv, ListInv
<1>5. SaveInv' /\ FirstSentInFront'
  <2>1. CASE answer' = answer
    BY <1>1, <2>1 DEF ReplyInv, SaveInv, FirstSentInFront, FirstSent, InFront
  <2>2. CASE client \in {"text", "text2"}
    BY <1>1, <2>2 DEF ReplyInv, SaveInv, FirstSentInFront
  <2> QED BY <1>3, <2>1, <2>2
<1>6. ReplyWhole'
  BY <1>1, <1>3 DEF ReplyInv, ReplyWhole
<1>7. pipe' \in Seq(Part) /\ Len(pipe') <= PipeParts
  BY TransferAssumption DEF TypeInv
<1> QED BY <1>2, <1>4, <1>5, <1>6, <1>7 DEF ReplyInv

\* The sizes of a reply.
LEMMA OutIs ==
  ASSUME TypeInv, ReplyInv, server # "idle"
  PROVE  /\ out.total \in Nat /\ out.offset \in Nat /\ out.offset <= out.total
         /\ out.total = Length(server)
         /\ out.offset > 0 => out.total > 497
         /\ server = "text" => out.total # 497
         /\ FitsOneWrite <=> out.total <= 497
         /\ Unsent = out.total - out.offset
<1>1. out.total \in Nat /\ out.offset \in Nat /\ out.offset \in 0 .. out.total
  BY DEF TypeInv, TransferTypeOK
<1>2. out.total = Length(server) /\ (out.offset > 0 => ~ FitsOneWrite)
  BY DEF ReplyInv, ServerInv
<1>3. FitsOneWrite <=> out.total <= 497
  BY <1>1, SizesAre DEF FitsOneWrite
<1>4. server = "text" => out.total # 497
  <2>1. answer.text \in Nat /\ answer.text # MSG_SIZE - 15
    BY DEF TypeInv
  <2> QED BY <1>2, <2>1, SizesAre DEF Length
<1> QED BY <1>1, <1>2, <1>3, <1>4 DEF Unsent

\* The last part of a text: after that of a getmessages the files are collected.
LEMMA TextSentInv ==
  ASSUME TypeInv, PostInv, ReplyInv, server = "text", Len(pipe) < PipeParts,
         NEW p \in Part, p.of = "text", p.from = out.offset, p.full = "y", PartFits(p),
         pipe' = Append(pipe, p), TextSent, ended' \in BOOLEAN,
         UNCHANGED <<postVars, requests, clientVars>>
  PROVE  TypeInv' /\ PostInv' /\ ReplyInv'
<1> USE DEF postVars
<1>1. CASE command = "GM"
  <2>1. /\ server' = "files" /\ out' = [total |-> FilesSize(Ready), offset |-> 0]
        /\ answer' = [answer EXCEPT !.files = Ready] /\ store' = NotReady
    BY <1>1 DEF TextSent
  <2>2. Ready \in Seq(Message) /\ Descending(Ready) /\ FilesSize(Ready) \in Nat
    BY ReadyIs, RecordsIs DEF PostInv
  <2>3. store' \in Seq(Message) /\ PostInv'
    BY <2>1, NotReadyInv
  <2>4. /\ answer.text \in Nat \ {MSG_SIZE - 15}
        /\ answer' = [text |-> answer.text, files |-> Ready]
    BY <2>1 DEF TypeInv
  <2>5. ServerInv'
    BY <2>1, <2>4 DEF ServerInv, Length
  <2>6. ServerPlace' = After(p)
    BY <1>1, <2>1 DEF ServerPlace, After
  <2>7. ReplyInv' /\ pipe' \in Seq(Part) /\ Len(pipe') <= PipeParts
    BY <2>1, <2>2, <2>4, <2>5, <2>6, ReplyStep
  <2>8. \A i \in 1 .. Len(store') :
          store'[i].mid \in 0 .. MaxFiles - 1 /\ store'[i].full \in Flags
    <3>1. \A i \in 1 .. Len(store') : store'[i] \in Message
      BY <2>3
    <3> QED BY <3>1 DEF Message
  <2>9. out' \in [total : Nat, offset : Nat] /\ out'.offset \in 0 .. out'.total
    BY <2>1, <2>2
  <2>10. answer' \in [text : Nat \ {MSG_SIZE - 15}, files : Seq(Message)]
    BY <2>2, <2>4
  <2>11. TypeInv'
    BY <2>1, <2>3, <2>7, <2>8, <2>9, <2>10 DEF TypeInv, TransferTypeOK, clientVars
  <2> QED BY <2>3, <2>7, <2>11
<1>2. CASE command # "GM"
  <2>1. server' = "idle" /\ UNCHANGED <<out, answer, store>>
    BY <1>2 DEF TextSent
  <2>2. ServerInv'
    BY <2>1 DEF ServerInv
  <2>3. ServerPlace' = After(p)
    BY <1>2, <2>1 DEF ServerPlace, After
  <2>4. Descending(answer.files)
    BY DEF ReplyInv, SaveInv
  <2>5. ReplyInv' /\ pipe' \in Seq(Part) /\ Len(pipe') <= PipeParts
    BY <2>1, <2>2, <2>3, <2>4, ReplyStep
  <2>6. PostInv'
    BY <2>1, PostSame
  <2>7. TypeInv'
    BY <2>1, <2>5 DEF TypeInv, TransferTypeOK, clientVars
  <2> QED BY <2>5, <2>6, <2>7
<1> QED BY <1>1, <1>2

LEMMA TextWholeInv ==
  ASSUME TypeInv, PostInv, ReplyInv, TextWhole
  PROVE  TypeInv' /\ PostInv' /\ ReplyInv'
<1> DEFINE p == [of |-> "text", from |-> out.offset, size |-> out.total, full |-> "y",
                 total |-> out.total]
<1>1. /\ server = "text" /\ FitsOneWrite /\ Len(pipe) < PipeParts /\ pipe' = Append(pipe, p)
      /\ TextSent /\ UNCHANGED <<postVars, requests, ended, clientVars>>
  BY DEF TextWhole, Reply
<1>2. /\ out.total \in Nat /\ out.offset = 0 /\ out.total < 497
      /\ out.total = Length("text")
  BY <1>1, OutIs
<1>3. p \in Part
  BY <1>2 DEF Part, Flags
<1>4. PartFits(p)
  BY <1>2, SizesAre DEF PartFits
<1>5. ended' \in BOOLEAN
  BY <1>1 DEF TypeInv, TransferTypeOK
<1> HIDE DEF p
<1>6. p.of = "text" /\ p.from = out.offset /\ p.full = "y"
  BY DEF p
<1> QED BY <1>1, <1>3, <1>4, <1>5, <1>6, TextSentInv

\* A part that is not the last one: the server stands behind it.
LEMMA PartSentInv ==
  ASSUME TypeInv, PostInv, ReplyInv, server # "idle", Len(pipe) < PipeParts,
         NEW p \in Part, p.of = server, p.from = out.offset, p.full = "n", p.size = PartSize,
         out.total > 497, PartSize <= Unsent, pipe' = Append(pipe, p),
         out' = [out EXCEPT !.offset = @ + PartSize], ended' \in BOOLEAN,
         server = "text" => ended', UNCHANGED <<postVars, requests, store, server, answer>>,
         UNCHANGED clientVars
  PROVE  TypeInv' /\ PostInv' /\ ReplyInv'
<1>1. /\ out.total \in Nat /\ out.offset \in Nat /\ out.total = Length(server)
      /\ out.offset + PartSize <= out.total
  BY OutIs, SizesAre
<1>2. /\ out' \in [total : Nat, offset : Nat] /\ out'.total = out.total
      /\ out'.offset = out.offset + PartSize
  <2>1. out \in [total : Nat, offset : Nat]
    BY DEF TypeInv
  <2>2. out.offset + PartSize \in Nat
    BY <1>1, SizesAre
  <2> QED BY <2>1, <2>2
<1>3. PartFits(p)
  BY <1>1, SizesAre DEF PartFits
<1>4. ServerInv'
  <2>1. ~ FitsOneWrite'
    BY <1>1, <1>2, SizesAre DEF FitsOneWrite
  <2>2. Length(server)' = Length(server)
    BY DEF Length
  <2> QED BY <1>1, <1>2, <2>1, <2>2 DEF ServerInv
<1>5. ServerPlace' = After(p)
  BY <1>2 DEF ServerPlace, After
<1>6. Descending(answer.files)
  BY DEF ReplyInv, SaveInv
<1>7. ReplyInv' /\ pipe' \in Seq(Part) /\ Len(pipe') <= PipeParts
  BY <1>3, <1>4, <1>5, <1>6, ReplyStep
<1>8. PostInv'
  BY PostSame DEF postVars
<1>9. TypeInv'
  <2>1. out'.offset \in 0 .. out'.total
    BY <1>1, <1>2, SizesAre
  <2> QED BY <1>2, <1>7, <2>1 DEF TypeInv, TransferTypeOK, clientVars, postVars
<1> QED BY <1>7, <1>8, <1>9

LEMMA TextPartInv ==
  ASSUME TypeInv, PostInv, ReplyInv, TextPart
  PROVE  TypeInv' /\ PostInv' /\ ReplyInv'
<1>1. /\ server = "text" /\ ~ FitsOneWrite /\ ended' = Ended
      /\ UNCHANGED <<postVars, requests, clientVars>>
  BY DEF TextPart
<1>2. PICK size \in PartLengths :
        /\ Reply(size, IF size < PartSize THEN "y" ELSE "n")
        /\ \/ size < PartSize /\ TextSent
           \/ /\ size >= PartSize
              /\ out' = [out EXCEPT !.offset = @ + PartSize]
              /\ UNCHANGED <<server, answer, store>>
  BY DEF TextPart
<1>3. /\ out.total \in Nat /\ out.offset \in Nat /\ out.offset <= out.total
      /\ out.total = Length("text") /\ out.total > 497 /\ Unsent = out.total - out.offset
  BY <1>1, OutIs
<1>4. PartSize <= Unsent => Ended
  <2> SUFFICES ASSUME PartSize <= Unsent, ~ Ended PROVE FALSE
    OBVIOUS
  <2>1. Unsent = PartSize /\ ~ ended
    BY <1>3, SizesAre DEF Ended
  <2>2. out.offset > 0
    BY <1>3, <2>1, SizesAre
  <2> QED BY <1>1, <2>1, <2>2 DEF ReplyInv, ServerInv
<1>5. size \in Nat /\ size = IF Unsent < PartSize THEN Unsent ELSE PartSize
  BY <1>2, <1>3, <1>4, SizesAre DEF PartLengths
<1> DEFINE full == IF size < PartSize THEN "y" ELSE "n"
           p == [of |-> "text", from |-> out.offset, size |-> size, full |-> full,
                 total |-> out.total]
<1>6. Len(pipe) < PipeParts /\ pipe' = Append(pipe, p)
  BY <1>1, <1>2 DEF Reply
<1>7. p \in Part
  BY <1>3, <1>5 DEF Part, Flags
<1>8. ended' \in BOOLEAN
  BY <1>1 DEF Ended, TypeInv, TransferTypeOK
<1>9. p.of = "text" /\ p.from = out.offset /\ p.size = size /\ p.full = full
  OBVIOUS
<1> HIDE DEF p
<1>10. CASE size < PartSize
  <2>1. TextSent /\ p.full = "y"
    BY <1>2, <1>5, <1>9, <1>10, SizesAre
  <2>2. PartFits(p)
    BY <1>3, <1>5, <1>9, <1>10, <2>1, SizesAre DEF PartFits
  <2> QED BY <1>1, <1>6, <1>7, <1>8, <1>9, <2>1, <2>2, TextSentInv
<1>11. CASE ~ (size < PartSize)
  <2>1. /\ p.full = "n" /\ p.size = PartSize /\ PartSize <= Unsent
        /\ out' = [out EXCEPT !.offset = @ + PartSize] /\ UNCHANGED <<server, answer, store>>
    BY <1>2, <1>3, <1>5, <1>9, <1>11, SizesAre
  <2>2. server = "text" => ended'
    BY <1>1, <1>4, <2>1
  <2> QED BY <1>1, <1>3, <1>6, <1>7, <1>8, <1>9, <2>1, <2>2, PartSentInv
<1> QED BY <1>10, <1>11

\* The last part of the files.
LEMMA FilesSentInv ==
  ASSUME TypeInv, PostInv, ReplyInv, server = "files", Len(pipe) < PipeParts,
         NEW p \in Part, p.of = "files", p.from = out.offset, p.full = "y", PartFits(p),
         pipe' = Append(pipe, p), server' = "idle",
         out' \in [total : Nat, offset : Nat], out'.offset <= out'.total,
         UNCHANGED <<postVars, requests, store, ended, clientVars, answer>>
  PROVE  TypeInv' /\ PostInv' /\ ReplyInv'
<1>1. ServerInv' /\ ServerPlace' = After(p)
  BY DEF ServerInv, ServerPlace, After
<1>2. Descending(answer.files)
  BY DEF ReplyInv, SaveInv
<1>3. ReplyInv' /\ pipe' \in Seq(Part) /\ Len(pipe') <= PipeParts
  BY <1>1, <1>2, ReplyStep
<1>4. PostInv'
  BY PostSame DEF postVars
<1>5. TypeInv'
  BY <1>3 DEF TypeInv, TransferTypeOK, clientVars, postVars
<1> QED BY <1>3, <1>4, <1>5

LEMMA FilesWholeInv ==
  ASSUME TypeInv, PostInv, ReplyInv, FilesWhole
  PROVE  TypeInv' /\ PostInv' /\ ReplyInv'
<1> DEFINE p == [of |-> "files", from |-> out.offset, size |-> out.total, full |-> "y",
                 total |-> out.total]
<1>1. /\ server = "files" /\ FitsOneWrite /\ Len(pipe) < PipeParts /\ pipe' = Append(pipe, p)
      /\ server' = "idle"
      /\ UNCHANGED <<postVars, requests, store, out, ended, clientVars, answer>>
  BY DEF FilesWhole, Reply
<1>2. /\ out.total \in Nat /\ out.offset = 0 /\ out.total <= 497
      /\ out.total = Length("files")
  BY <1>1, OutIs
<1>3. p \in Part
  BY <1>2 DEF Part, Flags
<1>4. PartFits(p)
  BY <1>2, SizesAre DEF PartFits
<1>5. out \in [total : Nat, offset : Nat] /\ out.offset <= out.total
  BY <1>2 DEF TypeInv
<1> HIDE DEF p
<1>6. p.of = "files" /\ p.from = out.offset /\ p.full = "y"
  BY DEF p
<1> QED BY <1>1, <1>3, <1>4, <1>5, <1>6, FilesSentInv

LEMMA FilesPartInv ==
  ASSUME TypeInv, PostInv, ReplyInv, FilesPart
  PROVE  TypeInv' /\ PostInv' /\ ReplyInv'
<1> DEFINE rd == IF Unsent < PartSize THEN Unsent ELSE PartSize
           full == IF LastOfFiles THEN "y" ELSE "n"
           p == [of |-> "files", from |-> out.offset, size |-> rd, full |-> full,
                 total |-> out.total]
<1>1. /\ server = "files" /\ ~ FitsOneWrite /\ Len(pipe) < PipeParts /\ pipe' = Append(pipe, p)
      /\ server' = IF LastOfFiles THEN "idle" ELSE "files"
      /\ out' = [out EXCEPT !.offset = @ + rd]
      /\ UNCHANGED <<postVars, requests, store, ended, clientVars, answer>>
  BY DEF FilesPart, Reply
<1>2. /\ out.total \in Nat /\ out.offset \in Nat /\ out.offset <= out.total
      /\ out.total = Length("files") /\ out.total > 497 /\ Unsent = out.total - out.offset
  BY <1>1, OutIs
<1>3. LastOfFiles <=> Unsent < PartSize
  BY DEF LastOfFiles
<1>4. rd \in Nat
  BY <1>2, SizesAre
<1>5. p \in Part
  BY <1>2, <1>4 DEF Part, Flags
<1>6. p.of = "files" /\ p.from = out.offset /\ p.size = rd /\ p.full = full
  OBVIOUS
<1> HIDE DEF p
<1>7. CASE LastOfFiles
  <2>1. rd = Unsent /\ p.full = "y" /\ out.offset + rd = out.total
    BY <1>2, <1>3, <1>6, <1>7
  <2>2. PartFits(p)
    BY <1>2, <1>3, <1>6, <1>7, <2>1, SizesAre DEF PartFits
  <2>3. out' \in [total : Nat, offset : Nat] /\ out'.offset <= out'.total
    <3>1. out' = [out EXCEPT !.offset = out.total] /\ out \in [total : Nat, offset : Nat]
      BY <1>1, <2>1 DEF TypeInv
    <3> QED BY <1>2, <3>1
  <2>4. server' = "idle"
    BY <1>1, <1>7
  <2> QED BY <1>1, <1>5, <1>6, <2>1, <2>2, <2>3, <2>4, FilesSentInv
<1>8. CASE ~ LastOfFiles
  <2>1. rd = PartSize /\ PartSize <= Unsent /\ p.full = "n" /\ p.size = PartSize
    BY <1>2, <1>3, <1>6, <1>8, SizesAre
  <2>2. server' = server /\ out' = [out EXCEPT !.offset = @ + PartSize]
    BY <1>1, <1>8, <2>1
  <2>3. ended' \in BOOLEAN
    BY <1>1 DEF TypeInv, TransferTypeOK
  <2> QED BY <1>1, <1>2, <1>5, <1>6, <2>1, <2>2, <2>3, PartSentInv
<1> QED BY <1>7, <1>8

-------------------------------------------------------------------------------
(* The client reads *)

LEMMA AskInv ==
  ASSUME TypeInv, PostInv, ReplyInv, NEW c \in {"GM", "LI"}, Ask(c)
  PROVE  TypeInv' /\ PostInv' /\ ReplyInv'
<1>1. /\ client = "prompt" /\ asks < MaxAsks /\ client' = "asked" /\ command' = c
      /\ list' = <<>> /\ offset' = 0 /\ asks' = asks + 1
      /\ UNCHANGED <<sending, mid, requests, store>>
      /\ UNCHANGED <<server, out, ended, pipe, disk, answer>>
  BY DEF Ask, postVars, serverVars
<1>2. pipe = <<>> /\ server = "idle"
  <2>1. Expected = Nowhere
    BY <1>1 DEF Expected
  <2> QED BY <2>1, PipeEmpty DEF ReplyInv
<1>3. <<>> \in Seq(Bytes) /\ Len(<<>>) = 0
  OBVIOUS
<1>4. asks' \in 0 .. MaxAsks
  BY <1>1, SizesAre DEF TypeInv, TransferTypeOK
<1>5. TypeInv'
  BY <1>1, <1>3, <1>4 DEF TypeInv, TransferTypeOK
<1>6. PostInv'
  BY <1>1, PostSame
<1>7. PipeInv' /\ PartsInv' /\ ServerInv'
  BY <1>1, <1>2 DEF PipeInv, PartsInv, ServerInv, ServerPlace, Expected
<1>8. ListInv'
  BY <1>1, <1>3 DEF ListInv
<1>9. SaveInv'
  BY <1>1 DEF ReplyInv, SaveInv
<1>10. ReplyWhole' /\ FirstSentInFront'
  BY <1>1 DEF ReplyWhole, FirstSentInFront
<1> QED BY <1>5, <1>6, <1>7, <1>8, <1>9, <1>10 DEF ReplyInv

\* What is known of the part that is read and of what was put together with it.
LEMMA ReadPartIs ==
  ASSUME TypeInv, ReplyInv, pipe # <<>>, client \in {"text", "text2", "files", "files2"},
         list' = (IF client \in {"text", "files"} THEN <<>> ELSE list) \o <<Piece(pipe[1])>>
  PROVE  /\ pipe[1] \in Part /\ PartFits(pipe[1])
         /\ pipe[1].of = IF client \in {"text", "text2"} THEN "text" ELSE "files"
         /\ list' \in Seq(Bytes) /\ Total(list') = pipe[1].from + pipe[1].size
         /\ Total(list') \in Nat
         /\ \A i \in 1 .. Len(list') : list'[i].from = BytesTo(list')[i - 1]
<1> DEFINE p == pipe[1]
           b == IF client \in {"text", "files"} THEN <<>> ELSE list
           x == Piece(p)
           c == Append(b, x)
<1>1. 1 \in 1 .. Len(pipe) /\ p \in Part
  BY DEF TypeInv
<1>2. PartFits(p) /\ [of |-> p.of, from |-> p.from] = Expected
  BY <1>1 DEF ReplyInv, PartsInv, PartFits, PipeInv
<1>3. /\ p.of = IF client \in {"text", "text2"} THEN "text" ELSE "files"
      /\ p.from = IF client \in {"text", "files"} THEN 0 ELSE Total(list)
  <2>1. CASE client = "text"
    BY <1>2, <2>1 DEF Expected
  <2>2. CASE client = "text2"
    BY <1>2, <2>2 DEF Expected
  <2>3. CASE client = "files"
    BY <1>2, <2>3 DEF Expected
  <2>4. CASE client = "files2"
    BY <1>2, <2>4 DEF Expected
  <2> QED BY <2>1, <2>2, <2>3, <2>4
<1>4. <<>> \in Seq(Bytes) /\ Len(<<>>) = 0
  OBVIOUS
<1>5. Total(<<>>) = 0
  BY <1>4, BytesToIs DEF Total
<1>6. /\ b \in Seq(Bytes) /\ Total(b) = p.from
      /\ \A i \in 1 .. Len(b) : b[i].from = BytesTo(b)[i - 1]
  <2>1. CASE client \in {"text", "files"}
    BY <1>3, <1>4, <1>5, <2>1
  <2>2. CASE client \notin {"text", "files"}
    BY <1>3, <2>2 DEF TypeInv, ReplyInv, ListInv
  <2> QED BY <2>1, <2>2
<1>7. x \in Bytes /\ x.from = p.from /\ x.size = p.size
  BY <1>1 DEF Part, Piece, Bytes
<1> HIDE DEF b, x
<1>8. list' = c /\ Len(b) \in Nat
  BY <1>6, <1>7 DEF b, x
<1>9. /\ c \in Seq(Bytes) /\ \A n \in 0 .. Len(b) : BytesTo(c)[n] = BytesTo(b)[n]
      /\ Total(c) = Total(b) + x.size
  BY <1>6, <1>7, BytesAppend
<1>10. Total(c) \in Nat
  BY <1>9, BytesToIs
<1>11. /\ Len(c) = Len(b) + 1 /\ c[Len(b) + 1] = x
       /\ \A i \in 1 .. Len(b) : c[i] = b[i]
  BY <1>6, <1>7
<1> HIDE DEF c
<1>12. \A i \in 1 .. Len(c) : c[i].from = BytesTo(c)[i - 1]
  <2> TAKE i \in 1 .. Len(c)
  <2>1. CASE i = Len(b) + 1
    <3>1. BytesTo(c)[Len(b)] = Total(b)
      BY <1>8, <1>9 DEF Total
    <3> QED BY <1>6, <1>7, <1>8, <1>11, <2>1, <3>1
  <2>2. CASE i \in 1 .. Len(b)
    BY <1>6, <1>8, <1>9, <1>11, <2>2
  <2> QED BY <1>8, <1>11, <2>1, <2>2
<1> QED BY <1>1, <1>2, <1>3, <1>6, <1>7, <1>8, <1>9, <1>10, <1>12

\* A part that is taken from the front.
LEMMA ReadPipe ==
  ASSUME TypeInv, PipeInv, PartsInv, pipe # <<>>, pipe' = Tail(pipe),
         UNCHANGED <<server, out, command, answer>>, Expected' = After(pipe[1])
  PROVE  PipeInv' /\ PartsInv' /\ pipe' \in Seq(Part) /\ Len(pipe') <= PipeParts
<1> DEFINE q == pipe'
           e == Expected'
<1>1. pipe \in Seq(Part) /\ Len(pipe) \in Nat /\ Len(pipe) > 0 /\ Len(pipe) <= PipeParts
  BY DEF TypeInv, TransferTypeOK
<1>2. /\ q \in Seq(Part) /\ Len(q) = Len(pipe) - 1
      /\ \A j \in 1 .. Len(q) : q[j] = pipe[j + 1] /\ j + 1 \in 1 .. Len(pipe)
  BY <1>1
<1>3. ServerPlace' = ServerPlace
  BY DEF ServerPlace
<1>4. e = After(pipe[1])
  OBVIOUS
<1>5. Len(q) <= PipeParts
  BY <1>1, <1>2, TransferAssumption
<1>6. /\ e.of = "text" => client' \in {"text", "text2"}
  BY DEF Expected, Nowhere
<1> HIDE DEF q, e
<1>7. ASSUME NEW j \in 1 .. Len(q)
      PROVE  [of |-> q[j].of, from |-> q[j].from] = IF j = 1 THEN e ELSE After(q[j - 1])
  <2>1. [of |-> pipe[j + 1].of, from |-> pipe[j + 1].from] = After(pipe[j])
    <3>1. j + 1 \in 1 .. Len(pipe) /\ j + 1 # 1 /\ (j + 1) - 1 = j
      BY <1>1, <1>2
    <3>2. [of |-> pipe[j + 1].of, from |-> pipe[j + 1].from]
            = IF j + 1 = 1 THEN Expected ELSE After(pipe[(j + 1) - 1])
      BY <3>1 DEF PipeInv
    <3> QED BY <3>1, <3>2
  <2>2. CASE j = 1
    BY <1>2, <1>4, <2>1, <2>2
  <2>3. CASE j # 1
    <3>1. j - 1 \in 1 .. Len(q) /\ (j - 1) + 1 = j
      BY <1>1, <1>2, <2>3
    <3>2. q[j - 1] = pipe[j]
      BY <1>2, <3>1
    <3> QED BY <1>2, <2>1, <2>3, <3>2
  <2> QED BY <2>2, <2>3
<1>8. ServerPlace = IF q = <<>> THEN e ELSE After(q[Len(q)])
  <2>1. ServerPlace = After(pipe[Len(pipe)])
    BY DEF PipeInv
  <2>2. CASE q = <<>>
    <3>1. Len(pipe) = 1
      BY <1>1, <1>2, <2>2
    <3> QED BY <1>4, <2>1, <2>2, <3>1
  <2>3. CASE q # <<>>
    <3>1. Len(q) \in 1 .. Len(q) /\ Len(q) + 1 = Len(pipe)
      BY <1>1, <1>2, <2>3
    <3>2. q[Len(q)] = pipe[Len(pipe)]
      BY <1>2, <3>1
    <3> QED BY <2>1, <2>3, <3>2
  <2> QED BY <2>2, <2>3
<1>9. server = "text" => client' \in {"text", "text2"} /\ \A j \in 1 .. Len(q) : q[j].of = "text"
  <2> SUFFICES ASSUME server = "text"
               PROVE  client' \in {"text", "text2"} /\ \A j \in 1 .. Len(q) : q[j].of = "text"
    OBVIOUS
  <2>1. \A j \in 1 .. Len(q) : q[j].of = "text"
    BY <1>2 DEF PipeInv
  <2>2. e.of = "text"
    <3>1. CASE q = <<>>
      <4>1. e = [of |-> "text", from |-> out.offset]
        BY <1>8, <3>1 DEF ServerPlace
      <4> QED BY <4>1
    <3>2. CASE q # <<>>
      <4>1. 1 \in 1 .. Len(q)
        BY <1>1, <1>2, <3>2
      <4>2. [of |-> q[1].of, from |-> q[1].from] = e
        BY <1>7, <4>1
      <4>3. e.of = q[1].of
        BY <4>2
      <4> QED BY <2>1, <4>1, <4>3
    <3> QED BY <3>1, <3>2
  <2> QED BY <1>6, <2>1, <2>2
<1>10. PipeInv'
  BY <1>3, <1>7, <1>8, <1>9 DEF PipeInv, After, q, e
<1>11. PartsInv'
  BY <1>2 DEF PartsInv, Length, q
<1> QED BY <1>2, <1>5, <1>10, <1>11 DEF q

LEMMA ReadTextInv ==
  ASSUME TypeInv, PostInv, ReplyInv, ReadText
  PROVE  TypeInv' /\ PostInv' /\ ReplyInv'
<1> DEFINE p == pipe[1]
<1>1. /\ client \in {"text", "text2"} /\ pipe # <<>> /\ pipe' = Tail(pipe)
      /\ list' = (IF client = "text" THEN <<>> ELSE list) \o <<Piece(p)>>
      /\ client' = IF p.full = "y" THEN AfterText ELSE "text2"
      /\ UNCHANGED <<sending, mid, requests, store, server, out, ended>>
      /\ UNCHANGED <<command, offset, disk, asks, answer>>
  <2>1. pipe # <<>>
    BY DEF ReadText, ReadPart
  <2>2. Head(pipe) = p
    BY <2>1 DEF TypeInv
  <2> HIDE DEF p
  <2> QED BY <2>2 DEF ReadText, ReadPart, postVars, serverVars
<1>2. /\ p \in Part /\ PartFits(p) /\ p.of = "text"
      /\ list' \in Seq(Bytes) /\ Total(list') = p.from + p.size /\ Total(list') \in Nat
      /\ \A i \in 1 .. Len(list') : list'[i].from = BytesTo(list')[i - 1]
  BY <1>1, ReadPartIs
<1> HIDE DEF p
<1>3. p.full \in {"y", "n"}
  BY <1>2 DEF Part, Flags
<1>4. Expected' = After(p)
  <2>1. CASE p.full = "n"
    <3>1. client' = "text2"
      BY <1>1, <2>1
    <3>2. Expected' = [of |-> "text", from |-> Total(list')]
      BY <3>1 DEF Expected
    <3> QED BY <1>2, <2>1, <3>2 DEF After
  <2>2. CASE p.full = "y" /\ command = "GM"
    <3>1. client' = "files"
      BY <1>1, <2>2 DEF AfterText
    <3> QED BY <1>2, <2>2, <3>1 DEF After, Expected
  <2>3. CASE p.full = "y" /\ command # "GM"
    <3>1. client' = "prompt"
      BY <1>1, <2>3 DEF AfterText
    <3> QED BY <1>2, <2>3, <3>1 DEF After, Expected
  <2> QED BY <1>3, <2>1, <2>2, <2>3
<1>5. PipeInv' /\ PartsInv' /\ pipe' \in Seq(Part) /\ Len(pipe') <= PipeParts
  BY <1>1, <1>4, ReadPipe DEF ReplyInv, p
<1>6. \/ client' = "text2" /\ p.full = "n"
      \/ client' = "files" /\ p.full = "y" /\ command = "GM"
      \/ client' = "prompt" /\ p.full = "y" /\ command # "GM"
  BY <1>1, <1>3 DEF AfterText
<1>7. TypeInv'
  BY <1>1, <1>2, <1>5, <1>6 DEF TypeInv, TransferTypeOK
<1>8. PostInv'
  BY <1>1, PostSame
<1>9. ServerInv'
  BY <1>1 DEF ReplyInv, ServerInv, Length, FitsOneWrite
<1>10. /\ p.full = "y" => Total(list') = answer.text
       /\ p.full = "n" => Total(list') <= answer.text
  BY <1>2 DEF PartFits, Length
<1>11. ListInv'
  BY <1>1, <1>2, <1>6, <1>10 DEF ListInv
<1>12. SaveInv'
  BY <1>1, <1>6 DEF ReplyInv, SaveInv
<1>13. ReplyWhole' /\ FirstSentInFront'
  BY <1>1, <1>2, <1>6, <1>10 DEF ReplyWhole, Whole, FirstSentInFront
<1> QED BY <1>5, <1>7, <1>8, <1>9, <1>11, <1>12, <1>13 DEF ReplyInv

LEMMA ReadFilesInv ==
  ASSUME TypeInv, PostInv, ReplyInv, ReadFiles
  PROVE  TypeInv' /\ PostInv' /\ ReplyInv'
<1> DEFINE p == pipe[1]
<1>1. /\ client \in {"files", "files2"} /\ pipe # <<>> /\ pipe' = Tail(pipe)
      /\ list' = (IF client = "files" THEN <<>> ELSE list) \o <<Piece(p)>>
      /\ client' = IF p.full = "y" THEN "save" ELSE "files2"
      /\ UNCHANGED <<sending, mid, requests, store, server, out, ended>>
      /\ UNCHANGED <<command, offset, disk, asks, answer>>
  <2>1. pipe # <<>>
    BY DEF ReadFiles, ReadPart
  <2>2. Head(pipe) = p
    BY <2>1 DEF TypeInv
  <2> HIDE DEF p
  <2> QED BY <2>2 DEF ReadFiles, ReadPart, postVars, serverVars
<1>2. /\ p \in Part /\ PartFits(p) /\ p.of = "files"
      /\ list' \in Seq(Bytes) /\ Total(list') = p.from + p.size /\ Total(list') \in Nat
      /\ \A i \in 1 .. Len(list') : list'[i].from = BytesTo(list')[i - 1]
  BY <1>1, ReadPartIs
<1> HIDE DEF p
<1>3. p.full \in {"y", "n"}
  BY <1>2 DEF Part, Flags
<1>4. Expected' = After(p)
  <2>1. CASE p.full = "n"
    <3>1. client' = "files2"
      BY <1>1, <2>1
    <3>2. Expected' = [of |-> "files", from |-> Total(list')]
      BY <3>1 DEF Expected
    <3> QED BY <1>2, <2>1, <3>2 DEF After
  <2>2. CASE p.full = "y"
    <3>1. client' = "save"
      BY <1>1, <2>2
    <3> QED BY <1>2, <2>2, <3>1 DEF After, Expected
  <2> QED BY <1>3, <2>1, <2>2
<1>5. PipeInv' /\ PartsInv' /\ pipe' \in Seq(Part) /\ Len(pipe') <= PipeParts
  BY <1>1, <1>4, ReadPipe DEF ReplyInv, p
<1>6. (client' = "files2" /\ p.full = "n") \/ (client' = "save" /\ p.full = "y")
  BY <1>1, <1>3
<1>7. TypeInv'
  BY <1>1, <1>2, <1>5, <1>6 DEF TypeInv, TransferTypeOK
<1>8. PostInv'
  BY <1>1, PostSame
<1>9. ServerInv'
  BY <1>1 DEF ReplyInv, ServerInv, Length, FitsOneWrite
<1>10. /\ p.full = "y" => Total(list') = FilesSize(answer.files)
       /\ p.full = "n" => Total(list') <= FilesSize(answer.files)
  BY <1>2 DEF PartFits, Length
<1>11. ListInv'
  BY <1>1, <1>2, <1>6, <1>10 DEF ReplyInv, ListInv
<1>12. SaveInv'
  <2>1. offset = 0 /\ Descending(answer.files)
    BY <1>1 DEF ReplyInv, SaveInv
  <2>2. answer.files \in Seq(Message)
    BY DEF TypeInv
  <2>3. 1 \in 1 .. Len(answer.files) + 1 /\ RecordsTo(answer.files)[1 - 1] = 0
    BY <2>2, RecordsIs
  <2>4. 1 .. 1 - 1 = {}
    OBVIOUS
  <2> QED BY <1>1, <1>6, <2>1, <2>3, <2>4 DEF SaveInv
<1>13. ReplyWhole' /\ FirstSentInFront'
  BY <1>1, <1>2, <1>6, <1>10 DEF ReplyWhole, Whole, FirstSentInFront
<1> QED BY <1>5, <1>7, <1>8, <1>9, <1>11, <1>12, <1>13 DEF ReplyInv

-------------------------------------------------------------------------------
(* The client saves *)

\* Each record starts at a byte of its own.
LEMMA StartsDiffer ==
  ASSUME NEW f \in Seq(Message), NEW m \in 0 .. Len(f), NEW n \in 0 .. Len(f),
         RecordsTo(f)[m] = RecordsTo(f)[n]
  PROVE  m = n
<1>1. m < n \/ n < m \/ m = n
  OBVIOUS
<1>2. RecordsTo(f)[m] \in Nat
  BY RecordsIs
<1>3. CASE m < n
  <2>1. RecordsTo(f)[m] < RecordsTo(f)[n]
    BY <1>3, RecordsIs
  <2> QED BY <1>2, <2>1
<1>4. CASE n < m
  <2>1. RecordsTo(f)[n] < RecordsTo(f)[m]
    BY <1>4, RecordsIs
  <2> QED BY <1>2, <2>1
<1> QED BY <1>1, <1>3, <1>4

\* What is written for a message, if all its bytes are in front.
Written(writes, w) == w \in writes /\ \A v \in writes : v = w \/ v.size > w.size

LEMMA SavedIs ==
  ASSUME NEW f \in Seq(Message), NEW i \in 1 .. Len(f)
  PROVE  /\ f[i].name \in Names /\ f[i].mid \in 0 .. MaxFiles - 1 /\ f[i].mid \in Nat
         /\ Saved(f[i]) \in [mid : 0 .. MaxFiles - 1, size : Int]
<1>1. f[i] \in Message
  OBVIOUS
<1>2. \A n \in 0 .. MaxFiles - 1 : n \in Nat
  BY SizesAre
<1>3. f[i].total - NameHeader \in Int
  BY <1>1, SizesAre DEF Message
<1> QED BY <1>1, <1>2, <1>3 DEF Message, Saved

LEMMA SaveFileInv ==
  ASSUME TypeInv, PostInv, ReplyInv, SaveFile
  PROVE  TypeInv' /\ PostInv' /\ ReplyInv'
<1> DEFINE f == answer.files
<1>1. /\ client = "save"
      /\ UNCHANGED <<sending, mid, requests, store, server, out, ended>>
      /\ UNCHANGED <<pipe, client, command, list, asks, answer>>
  BY DEF SaveFile, postVars, serverVars
<1>2. PICK k \in 1 .. Len(f) :
        /\ RecordsTo(f)[k - 1] = offset
        /\ disk' = [disk EXCEPT ![f[k].name] = Overwritten(@, Saved(f[k]))]
        /\ offset' = offset + RecordSize(f[k])
  BY DEF SaveFile, Start, NextRecord
<1>3. /\ f \in Seq(Message) /\ Len(f) \in Nat /\ DOMAIN disk = Names
      /\ \A n \in Names : disk[n] \subseteq [mid : 0 .. MaxFiles - 1, size : Int]
  BY DEF TypeInv, TransferTypeOK
<1> HIDE DEF f
<1>4. \A i \in 1 .. Len(f) :
        f[i].name \in Names /\ Saved(f[i]) \in [mid : 0 .. MaxFiles - 1, size : Int]
  BY <1>3, SavedIs
<1>5. /\ RecordsTo(f)[k] = RecordsTo(f)[k - 1] + RecordSize(f[k]) /\ RecordsTo(f)[k] \in Nat
      /\ k \in 1 .. Len(f) /\ k \in 0 .. Len(f) /\ k - 1 \in 0 .. Len(f)
  BY <1>2, <1>3, RecordsIs
<1>6. offset' = RecordsTo(f)[k] /\ offset' \in Nat
  BY <1>2, <1>5
<1>7. /\ DOMAIN disk' = Names
      /\ \A n \in Names :
           disk'[n] = IF n = f[k].name THEN Overwritten(disk[n], Saved(f[k])) ELSE disk[n]
  BY <1>2, <1>3
<1>8. TypeInv'
  <2>1. \A n \in Names : disk'[n] \subseteq [mid : 0 .. MaxFiles - 1, size : Int]
    BY <1>3, <1>4, <1>7 DEF Overwritten
  <2> QED BY <1>1, <1>6, <1>7, <2>1 DEF TypeInv, TransferTypeOK
<1>9. PostInv'
  BY <1>1, PostSame
<1>10. PipeInv'
  <2>1. Expected' = Expected /\ ServerPlace' = ServerPlace
    BY <1>1 DEF Expected, ServerPlace
  <2> QED BY <1>1, <2>1 DEF ReplyInv, PipeInv, After
<1>11. PartsInv' /\ ServerInv'
  BY <1>1 DEF ReplyInv, PartsInv, ServerInv, Length, FitsOneWrite
<1>12. ListInv' /\ ReplyWhole' /\ FirstSentInFront'
  BY <1>1 DEF ReplyInv, ListInv, ReplyWhole, FirstSentInFront
<1>13. SaveInv'
  <2>1. Descending(f)
    BY DEF ReplyInv, SaveInv, f
  <2>2. PICK j \in 1 .. Len(f) + 1 :
          /\ offset = RecordsTo(f)[j - 1]
          /\ \A i \in 1 .. j - 1 :
               (\A h \in i + 1 .. j - 1 : f[h].name # f[i].name) => InFront(f[i])
    BY <1>1 DEF ReplyInv, SaveInv, f
  <2>3. j = k
    <3>1. j - 1 \in 0 .. Len(f)
      BY <1>3
    <3>2. j - 1 = k - 1
      BY <1>2, <1>3, <1>5, <2>2, <3>1, StartsDiffer
    <3> QED BY <3>2
  <2>4. ASSUME NEW i \in 1 .. k, \A h \in i + 1 .. k : f[h].name # f[i].name
        PROVE  Written(disk'[f[i].name], Saved(f[i]))
    <3>1. i \in 1 .. Len(f) /\ (i = k \/ (i \in 1 .. j - 1 /\ k \in i + 1 .. k))
      BY <1>3, <2>3
    <3>2. CASE i = k
      <4>1. disk'[f[i].name] = Overwritten(disk[f[i].name], Saved(f[i]))
        BY <1>4, <1>7, <3>1, <3>2
      <4> QED BY <4>1 DEF Overwritten, Written
    <3>3. CASE i \in 1 .. j - 1 /\ k \in i + 1 .. k
      <4>1. disk'[f[i].name] = disk[f[i].name]
        BY <1>4, <1>7, <2>4, <3>1, <3>3
      <4>2. \A h \in i + 1 .. j - 1 : h \in i + 1 .. k
        BY <2>3, <3>3
      <4>3. InFront(f[i])
        BY <2>2, <2>4, <3>3, <4>2
      <4> QED BY <4>1, <4>3 DEF InFront, Written
    <3> QED BY <3>1, <3>2, <3>3
  <2>5. k + 1 \in 1 .. Len(f) + 1 /\ (k + 1) - 1 = k
    BY <1>3, <1>5
  <2>6. \E m \in 1 .. Len(f) + 1 :
          /\ offset' = RecordsTo(f)[m - 1]
          /\ \A i \in 1 .. m - 1 :
               (\A h \in i + 1 .. m - 1 : f[h].name # f[i].name)
                 => Written(disk'[f[i].name], Saved(f[i]))
    <3> WITNESS k + 1 \in 1 .. Len(f) + 1
    <3> QED BY <1>6, <2>4, <2>5
  <2> QED BY <1>1, <2>1, <2>6 DEF SaveInv, InFront, Written, f
<1> QED BY <1>8, <1>9, <1>10, <1>11, <1>12, <1>13 DEF ReplyInv

LEMMA SaveEndInv ==
  ASSUME TypeInv, PostInv, ReplyInv, SaveEnd
  PROVE  TypeInv' /\ PostInv' /\ ReplyInv'
<1> DEFINE f == answer.files
<1>1. /\ client = "save" /\ offset = Total(list) /\ client' = "prompt"
      /\ UNCHANGED <<sending, mid, requests, store, server, out, ended>>
      /\ UNCHANGED <<pipe, command, list, offset, disk, asks, answer>>
  BY DEF SaveEnd, postVars, serverVars
<1>2. TypeInv'
  BY <1>1 DEF TypeInv, TransferTypeOK
<1>3. PostInv'
  BY <1>1, PostSame
<1>4. command = "GM"
  BY <1>1 DEF ReplyInv, ListInv
<1>5. PipeInv'
  <2>1. Expected' = Expected /\ ServerPlace' = ServerPlace
    BY <1>1 DEF Expected, ServerPlace
  <2>2. server # "text"
    BY <1>1 DEF ReplyInv, PipeInv
  <2> QED BY <1>1, <2>1, <2>2 DEF ReplyInv, PipeInv, After
<1>6. PartsInv' /\ ServerInv'
  BY <1>1 DEF ReplyInv, PartsInv, ServerInv, Length, FitsOneWrite
<1>7. ListInv' /\ SaveInv' /\ ReplyWhole'
  BY <1>1, <1>4 DEF ReplyInv, ListInv, SaveInv, ReplyWhole
<1>8. f \in Seq(Message) /\ Len(f) \in Nat
  BY DEF TypeInv
<1>9. PICK j \in 1 .. Len(f) + 1 :
        /\ offset = RecordsTo(f)[j - 1]
        /\ \A i \in 1 .. j - 1 :
             (\A k \in i + 1 .. j - 1 : f[k].name # f[i].name) => InFront(f[i])
  BY <1>1 DEF ReplyInv, SaveInv
<1>10. offset = RecordsTo(f)[Len(f)] /\ Descending(f)
  BY <1>1 DEF ReplyInv, SaveInv, ReplyWhole, Whole, FilesSize
<1>11. j - 1 = Len(f)
  <2> HIDE DEF f
  <2>1. j - 1 \in 0 .. Len(f) /\ Len(f) \in 0 .. Len(f)
    BY <1>8
  <2> QED BY <1>8, <1>9, <1>10, <2>1, StartsDiffer
<1>12. FirstSentInFront'
  <2>1. ASSUME NEW i \in 1 .. Len(f), FirstSent(f[i])
        PROVE  InFront(f[i])
    <3>1. ASSUME NEW k \in i + 1 .. j - 1, f[k].name = f[i].name PROVE FALSE
      <4>1. k \in 1 .. Len(f) /\ i < k
        BY <1>8, <1>11
      <4>2. f[k].mid >= f[i].mid
        BY <2>1, <3>1, <4>1 DEF FirstSent
      <4>3. f[i].mid > f[k].mid
        BY <1>10, <4>1 DEF Descending
      <4>4. f[i].mid \in Nat /\ f[k].mid \in Nat
        BY <1>8, <4>1, SavedIs
      <4> QED BY <4>2, <4>3, <4>4
    <3> QED BY <1>9, <1>11, <3>1
  <2> QED BY <1>1, <2>1 DEF FirstSentInFront, FirstSent, InFront
<1> QED BY <1>2, <1>3, <1>5, <1>6, <1>7, <1>12 DEF ReplyInv

-------------------------------------------------------------------------------
(* The invariant *)

LEMMA InitInv ==
  ASSUME Init
  PROVE  TInv
<1>1. /\ sending = None /\ mid = 0 /\ requests = <<>> /\ store = <<>> /\ server = "idle"
      /\ out = [total |-> 0, offset |-> 0] /\ ended \in BOOLEAN /\ pipe = <<>>
      /\ client = "prompt" /\ command = None /\ list = <<>> /\ offset = 0
      /\ disk = [n \in Names |-> {}] /\ answer = [text |-> 0, files |-> <<>>] /\ asks = 0
  BY DEF Init
<1>2. 0 \in 0 .. MaxFiles /\ 0 \in 0 .. MaxAsks /\ 0 <= PipeParts
  BY TransferAssumption
<1>3. /\ <<>> \in Seq(Request) /\ <<>> \in Seq(Message) /\ <<>> \in Seq(Part)
      /\ <<>> \in Seq(Bytes) /\ Len(<<>>) = 0
  OBVIOUS
<1>4. answer \in [text : Nat \ {MSG_SIZE - 15}, files : Seq(Message)]
  BY <1>1, <1>3, SizesAre
<1>5. TypeInv
  BY <1>1, <1>2, <1>3, <1>4 DEF TypeInv, TransferTypeOK
<1>6. SendingInv /\ RequestsInv
  BY <1>1 DEF SendingInv, RequestsInv
<1>7. StoreInv
  <2>1. NextPlace = [mid |-> 0, total |-> 0, from |-> 0]
    BY <1>1 DEF NextPlace, WriterPlace
  <2> QED BY <1>1, <2>1 DEF StoreInv, Descending, Due
<1>8. PipeInv /\ PartsInv /\ ServerInv
  BY <1>1 DEF PipeInv, PartsInv, ServerInv, ServerPlace, Expected
<1>9. ListInv
  BY <1>1 DEF ListInv
<1>10. SaveInv
  BY <1>1 DEF SaveInv, Descending
<1>11. Total(<<>>) = 0
  BY <1>3, BytesToIs DEF Total
<1>12. ReplyWhole /\ FirstSentInFront
  BY <1>1, <1>11 DEF ReplyWhole, Whole, FirstSentInFront
<1> QED BY <1>5, <1>6, <1>7, <1>8, <1>9, <1>10, <1>12 DEF TInv

LEMMA NextInv ==
  ASSUME TextsFit, TInv, [Next]_vars
  PROVE  TInv'
<1>1. TypeInv /\ PostInv /\ ReplyInv
  BY DEF TInv, PostInv, ReplyInv
<1>2. ASSUME TypeInv' /\ PostInv' /\ ReplyInv' PROVE TInv'
  BY <1>2 DEF TInv, PostInv, ReplyInv
<1>3. ASSUME NEW n \in Names, NEW size \in FileSizes, Send(n, size) PROVE TInv'
  <2>1. ReplyInv'
    BY <1>1, <1>3, ReplySame DEF Send, serverVars
  <2> QED BY <1>1, <1>2, <1>3, <2>1, SendInv
<1>4. CASE SendPart
  <2>1. ReplyInv'
    BY <1>1, <1>4, ReplySame DEF SendPart, serverVars
  <2> QED BY <1>1, <1>2, <1>4, <2>1, SendPartInv
<1>5. CASE SendEnd
  <2>1. ReplyInv'
    BY <1>1, <1>5, ReplySame DEF SendEnd, serverVars
  <2> QED BY <1>1, <1>2, <1>5, <2>1, SendEndInv
<1>6. CASE HandleWR
  <2>1. ReplyInv'
    BY <1>1, <1>6, ReplySame DEF HandleWR
  <2> QED BY <1>1, <1>2, <1>6, <2>1, HandleWRInv
<1>7. ASSUME NEW t \in TextLens, HandleAsk(t) PROVE TInv'
  BY <1>1, <1>2, <1>7, HandleAskInv
<1>8. CASE TextWhole
  BY <1>1, <1>2, <1>8, TextWholeInv
<1>9. CASE TextPart
  BY <1>1, <1>2, <1>9, TextPartInv
<1>10. CASE FilesWhole
  BY <1>1, <1>2, <1>10, FilesWholeInv
<1>11. CASE FilesPart
  BY <1>1, <1>2, <1>11, FilesPartInv
<1>12. ASSUME NEW c \in {"GM", "LI"}, Ask(c) PROVE TInv'
  BY <1>1, <1>2, <1>12, AskInv
<1>13. CASE ReadText
  BY <1>1, <1>2, <1>13, ReadTextInv
<1>14. CASE ReadFiles
  BY <1>1, <1>2, <1>14, ReadFilesInv
<1>15. CASE SaveFile
  BY <1>1, <1>2, <1>15, SaveFileInv
<1>16. CASE SaveEnd
  BY <1>1, <1>2, <1>16, SaveEndInv
<1>17. CASE UNCHANGED vars
  <2>1. /\ UNCHANGED <<sending, mid, requests, store, server, out, ended, pipe>>
        /\ UNCHANGED <<clientVars, answer>>
    BY <1>17 DEF vars, postVars, serverVars
  <2>2. TypeInv'
    BY <1>1, <2>1 DEF TypeInv, TransferTypeOK, clientVars
  <2> QED BY <1>1, <1>2, <2>1, <2>2, PostSame, ReplySame
<1> QED BY <1>3, <1>4, <1>5, <1>6, <1>7, <1>8, <1>9, <1>10, <1>11, <1>12, <1>13, <1>14, <1>15,
           <1>16, <1>17 DEF Next, PostStep, ServerStep, ClientStep

\* In every state each fifo holds a chain of parts between its reader and its writer, what
\* is stored, put together and saved is a beginning of what was sent.
THEOREM TransferInvariant ==
  ASSUME TextsFit
  PROVE  Spec => []TInv
<1>1. Init => TInv
  BY InitInv
<1>2. TInv /\ [Next]_vars => TInv'
  BY NextInv
<1> QED BY <1>1, <1>2, PTL DEF Spec

\* Every variable holds what the programs can put there.
THEOREM TransferTypes ==
  ASSUME TextsFit
  PROVE  Spec => []TransferTypeOK
<1>1. TInv => TransferTypeOK
  BY DEF TInv, TypeInv
<1> QED BY <1>1, TransferInvariant, PTL

\* However long the reply and the fifo, the parts that board or boardpost puts together are
\* the bytes that were replied, each once and in order.  board_server.c:253-349,
\* board.c:190-330
THEOREM RepliesWhole ==
  ASSUME TextsFit
  PROVE  Spec => []ReplyWhole
<1>1. TInv => ReplyWhole
  BY DEF TInv
<1> QED BY <1>1, TransferInvariant, PTL

\* A message no request of which is left holds the bytes of its file, and it is offered to
\* the owner if its size is not a multiple of what a request holds.  boardpost.c:281-316,
\* board_server.c:241-260
THEOREM OffersWhole ==
  ASSUME TextsFit
  PROVE  Spec => []OfferedWhole
<1>1. ASSUME TInv, NEW i \in 1 .. Len(store),
             ~ (sending # None /\ mid = store[i].mid),
             ~ \E j \in 1 .. Len(requests) : SameMessage(store[i], requests[j])
      PROVE  /\ Whole(store[i].body, store[i].total)
             /\ store[i].full = "y" <=> store[i].total % ReadSize # 0
  <2> DEFINE m == store[i]
             p == NextPlace
  <2>1. Stored(m) /\ Due(p)
    BY <1>1 DEF TInv, StoreInv
  <2>2. ~ (m.mid = p.mid /\ m.total = p.total /\ Total(m.body) = p.from)
    <3> SUFFICES ASSUME m.mid = p.mid, m.total = p.total, Total(m.body) = p.from PROVE FALSE
      OBVIOUS
    <3>1. CASE requests # <<>>
      <4>1. p.mid = requests[1].mid /\ p.total = requests[1].total
        BY <3>1 DEF NextPlace
      <4>2. 1 \in 1 .. Len(requests)
        BY <1>1, <3>1 DEF TInv, TypeInv
      <4> QED BY <1>1, <4>1, <4>2 DEF SameMessage
    <3>2. CASE requests = <<>>
      <4>1. CASE sending = None
        <5>1. p.from = 0
          BY <3>2, <4>1 DEF NextPlace, WriterPlace
        <5>2. Total(m.body) > 0
          BY <2>1 DEF Stored
        <5> QED BY <5>1, <5>2
      <4>2. CASE sending # None
        <5>1. p.mid = mid
          BY <3>2, <4>2 DEF NextPlace, WriterPlace
        <5> QED BY <1>1, <4>2, <5>1
      <4> QED BY <4>1, <4>2
    <3> QED BY <3>1, <3>2
  <2>3. Total(m.body) = m.total
    BY <2>1, <2>2 DEF Due
  <2> QED BY <2>1, <2>3 DEF Stored, Whole
<1>2. TInv => OfferedWhole
  BY <1>1 DEF OfferedWhole
<1> QED BY <1>2, TransferInvariant, PTL

\* Whatever the sizes of files and texts, no request, part, list or record is written beyond
\* the end of its buffer.  board_server.c:254-349, board.c:214-324, boardb.c:231-238
THEOREM BuffersHold ==
  ASSUME TextsFit
  PROVE  Spec => []NoOverrun
<1>1. ASSUME TInv, NEW i \in 1 .. Len(pipe)
      PROVE  /\ SizeInfo + HeaderLen(pipe[i]) + pipe[i].size <= MSG_SIZE
             /\ pipe[i].of = "text" => SizeInfo + HeaderLen(pipe[i]) + pipe[i].size + 1 <= MSG_SIZE
  <2> DEFINE p == pipe[i]
  <2>1. p \in Part /\ PartFits(p)
    BY <1>1 DEF TInv, TypeInv, PartsInv, PartFits
  <2> HIDE DEF p
  <2>2. p.size \in Nat /\ p.total \in Nat /\ p.full \in {"y", "n"} /\ p.of \in {"text", "files"}
    BY <2>1 DEF Part, Flags
  <2>3. /\ p.size <= 497 /\ (p.of = "text" => p.size # 497)
        /\ p.full = "n" => p.size = 448
    BY <2>1, SizesAre DEF PartFits
  <2>4. /\ Digits(p.size) = 3 /\ Digits(p.total) \in {3, 10}
    BY <2>2, <2>3 DEF Digits
  <2>5. CASE p.full = "y"
    <3>1. HeaderLen(p) = 5
      BY <2>4, <2>5 DEF HeaderLen
    <3>2. p.of = "text" => p.size <= 496
      BY ONLY <2>2, <2>3
    <3>3. 10 + 5 + p.size <= 512 /\ (p.of = "text" => 10 + 5 + p.size + 1 <= 512)
      BY ONLY <2>2, <2>3, <3>2
    <3> QED BY <3>1, <3>3, SizesAre DEF p
  <2>6. CASE p.full = "n"
    <3>1. HeaderLen(p) \in {9, 16}
      BY <2>4, <2>6 DEF HeaderLen
    <3>2. 10 + HeaderLen(p) + 448 + 1 <= 512 /\ 10 + HeaderLen(p) + 448 <= 512
      BY ONLY <3>1
    <3> QED BY <2>3, <2>6, <3>2, SizesAre DEF p
  <2> QED BY <2>2, <2>5, <2>6
<1>2. ASSUME TInv, NEW i \in 1 .. Len(requests)
      PROVE  requests[i].size <= ReadSize
  <2>1. requests[i].size \in 1 .. ReadSize
    BY <1>2 DEF TInv, TypeInv, TransferTypeOK
  <2> QED BY <2>1, RequestSize
<1>3. ASSUME TInv, client \in {"text2", "files2"}
      PROVE  Total(list) <= (IF client = "text2" THEN answer.text ELSE FilesSize(answer.files))
  BY <1>3 DEF TInv, ListInv
<1>4. ASSUME TInv, NEW i \in 1 .. Len(store)
      PROVE  Total(store[i].body) <= store[i].total
  BY <1>4 DEF TInv, StoreInv, Stored
<1>5. TInv => NoOverrun
  BY <1>1, <1>2, <1>3, <1>4 DEF NoOverrun, TextFits
<1> QED BY <1>5, TransferInvariant, PTL

\* Of several files of one name in an answer the one that was sent first is on the disk when
\* getmessages has ended.  boardb.c:247-251, board.c:268-295
THEOREM FirstSentLiesInFront ==
  ASSUME TextsFit
  PROVE  Spec => []FirstSentInFront
<1>1. TInv => FirstSentInFront
  BY DEF TInv
<1> QED BY <1>1, TransferInvariant, PTL

===============================================================================
