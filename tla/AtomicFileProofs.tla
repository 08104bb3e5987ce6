-------------------------- MODULE AtomicFileProofs --------------------------
(***************************************************************************)
(* Proofs about AtomicFile, for every number of names, files, FILEs and    *)
(* sessions.  The inductive invariant is                                   *)
(*                                                                         *)
(*    TypeOK /\ Shape /\ Fresh /\ Appending /\ (freedByError \/ Sound)     *)
(*                                                                         *)
(* Sound says that find_by_fp finds a client's own record and that what is *)
(* renamed is the whole of what was written and is synced; it is lost when *)
(* fclose frees a FILE and reports an error.  Appending, which does not    *)
(* need it, is what an appending session owes its file.                    *)
(***************************************************************************)
EXTENDS AtomicFile, SequenceTheorems, WellFoundedInduction, TLAPS

-----------------------------------------------------------------------------
(* The inductive invariant *)

Records == {atomicList[i] : i \in 1..Len(atomicList)}
InCall == call.op \in {"flush", "sync", "close", "rename", "abort"}
Version == [text : Text, safe : Nat]
CallType == [op : {"idle", "copying", "flush", "sync", "close", "rename", "abort",
                   "abortAll"}, mine : Session \cup {0}, rec : Session \cup {0}]

(* What TypeOK leaves open, and the call under way: it has a client and the *)
(* record that find_by_fp has found, which is still in the list.            *)
Shape ==
  /\ data \in [Session -> Nat] /\ synced \in [Session -> Nat]
  /\ replaced \in [File -> SUBSET Version]
  /\ call \in CallType
  /\ InCall => call.mine \in 1..opens /\ call.rec \in Records
  /\ call.op \in {"sync", "close"} => Stream # Closed

(* Sessions still to come have left no trace.                               *)
Fresh ==
  \A s \in Session : s > opens =>
    /\ result[s] = "none" /\ s \notin committed /\ s \notin appends
    /\ s \notin Records /\ synced[s] = 0 /\ \A f \in FP : stream[f] # s

(* What a session appends to is the beginning of its work file, unless it   *)
(* could not be read or another session has replaced it since.              *)
Faithful == (appends \ (unread \cup overtaken)) \cap Records
Appending ==
  \A s \in Faithful :
    LET t == real[FileOf[name[s]]].text
    IN  Len(t) <= data[s] /\ SubSeq(buf[s], 1, Len(t)) = t

(* Every record has its FILE, which writes to its session, but for the one  *)
(* being renamed, and a call acts on the record of its own client.          *)
OwnRecord ==
  /\ \A r \in Records : \/ stream[file[r]] = r
                        \/ call.op = "rename" /\ call.rec = r
  /\ InCall => call.mine = call.rec /\ result[call.mine] = "open"

(* The work file is whole when it is renamed, and stays so in a crash.      *)
Flushed ==
  /\ call.op \in {"sync", "close", "rename"} => data[call.rec] = Len(buf[call.rec])
  /\ call.op \in {"close", "rename"} => synced[call.rec] = data[call.rec]

(* What a client knows of its session.                                      *)
Results ==
  \A s \in Session :
    /\ result[s] = "open" => s \in Records
    /\ s \in Records => result[s] \in {"open", "failed"}
    /\ result[s] = "ok" => s \in committed
    /\ result[s] \in {"open", "failed", "aborted"} => s \notin committed

(* Every content a file has or a crash may bring back is whole.             *)
Whole(f, text) ==
  text = <<>> \/ \E s \in committed : FileOf[name[s]] = f /\ text = buf[s]
Versions ==
  \A f \in File : \A v \in replaced[f] \cup {real[f]} :
    v.safe = Len(v.text) /\ Whole(f, v.text)

Sound == OwnRecord /\ Flushed /\ Results /\ Versions

IInv == TypeOK /\ Shape /\ Fresh /\ Appending /\ (freedByError \/ Sound)

-----------------------------------------------------------------------------
(* Constants, sequences and the list of records *)

LEMMA Constants ==
  /\ FileOf \in [Name -> File] /\ Name # {} /\ FP # {} /\ MaxOpens \in Nat
  /\ Session \subseteq Nat \ {0} /\ Closed \notin Session
  BY NameAssumption, BoundAssumption DEF Session

LEMMA LeastNatural ==
  \A S \in SUBSET Nat : S # {} => \E m \in S : \A n \in S : m <= n
<1> SUFFICES ASSUME NEW S \in SUBSET Nat, S # {}
             PROVE  \E m \in S : \A n \in S : m <= n
  OBVIOUS
<1>1. PICK m \in S : \A n \in S : <<n, m>> \notin OpToRel(<, Nat)
  BY NatLessThanWellFounded, WFMin, Zenon
<1>2. \A n \in S : ~(n < m)
  BY <1>1 DEF OpToRel
<1>. QED
  BY <1>2

(* The beginning of a sequence, and the beginning of that.                  *)
LEMMA Prefix ==
  ASSUME NEW S, NEW s \in Seq(S), NEW d \in 0..Len(s)
  PROVE  /\ SubSeq(s, 1, d) \in Seq(S) /\ Len(SubSeq(s, 1, d)) = d
         /\ \A i \in 1..d : SubSeq(s, 1, d)[i] = s[i]
<1>1. Len(s) \in Nat /\ d \in Nat /\ d <= Len(s)
  BY LenProperties
<1>2. \A i \in 1..d : s[i] \in S
  BY <1>1, ElementOfSeq
<1>3. /\ SubSeq(s, 1, d) \in Seq(S)
      /\ Len(SubSeq(s, 1, d)) = IF 1 <= d THEN d - 1 + 1 ELSE 0
      /\ \A i \in 1..(d - 1 + 1) : SubSeq(s, 1, d)[i] = s[1 + i - 1]
  <2>1. 1 \in Int /\ d \in Int
    BY <1>1
  <2>. QED
    BY <1>2, <2>1, SubSeqProperties
<1>4. Len(SubSeq(s, 1, d)) = d
  BY <1>1, <1>3
<1>5. \A i \in 1..d : SubSeq(s, 1, d)[i] = s[i]
  <2> SUFFICES ASSUME NEW i \in 1..d PROVE SubSeq(s, 1, d)[i] = s[i]
    OBVIOUS
  <2>1. i \in 1..(d - 1 + 1) /\ 1 + i - 1 = i
    BY <1>1
  <2>. QED
    BY <1>3, <2>1
<1>. QED
  BY <1>3, <1>4, <1>5

LEMMA SamePrefix ==
  ASSUME NEW S, NEW s \in Seq(S), NEW t \in Seq(S),
         NEW k \in Nat, k <= Len(s), k <= Len(t), \A i \in 1..k : s[i] = t[i]
  PROVE  SubSeq(s, 1, k) = SubSeq(t, 1, k)
<1>1. k \in 0..Len(s) /\ k \in 0..Len(t)
  BY LenProperties
<1>2. /\ SubSeq(s, 1, k) \in Seq(S) /\ Len(SubSeq(s, 1, k)) = k
      /\ \A i \in 1..k : SubSeq(s, 1, k)[i] = s[i]
  BY <1>1, Prefix
<1>3. /\ SubSeq(t, 1, k) \in Seq(S) /\ Len(SubSeq(t, 1, k)) = k
      /\ \A i \in 1..k : SubSeq(t, 1, k)[i] = t[i]
  BY <1>1, Prefix
<1>. QED
  BY <1>2, <1>3, SeqEqual

LEMMA AppendKeepsPrefix ==
  ASSUME NEW S, NEW s \in Seq(S), NEW x \in S, NEW k \in Nat, k <= Len(s)
  PROVE  SubSeq(Append(s, x), 1, k) = SubSeq(s, 1, k)
<1>1. /\ Append(s, x) \in Seq(S) /\ Len(Append(s, x)) = Len(s) + 1 /\ Len(s) \in Nat
      /\ \A i \in 1..Len(s) : Append(s, x)[i] = s[i]
  BY AppendProperties, LenProperties
<1>2. k <= Len(Append(s, x)) /\ \A i \in 1..k : i \in 1..Len(s)
  BY <1>1
<1>. QED
  BY <1>1, <1>2, SamePrefix

LEMMA PrefixOfPrefix ==
  ASSUME NEW S, NEW s \in Seq(S), NEW d \in 0..Len(s), NEW k \in Nat, k <= d
  PROVE  SubSeq(SubSeq(s, 1, d), 1, k) = SubSeq(s, 1, k)
<1>1. /\ SubSeq(s, 1, d) \in Seq(S) /\ Len(SubSeq(s, 1, d)) = d
      /\ \A i \in 1..d : SubSeq(s, 1, d)[i] = s[i]
  BY Prefix
<1>2. k <= Len(s) /\ \A i \in 1..k : i \in 1..d
  BY LenProperties
<1>. QED
  BY <1>1, <1>2, SamePrefix

LEMMA RemoveAtProperties ==
  ASSUME NEW S, NEW s \in Seq(S), NEW k \in 1..Len(s)
  PROVE  /\ RemoveAt(s, k) \in Seq(S)
         /\ Len(s) \in Nat /\ Len(RemoveAt(s, k)) = Len(s) - 1
         /\ \A i \in 1..(Len(s) - 1) :
              RemoveAt(s, k)[i] = s[IF i < k THEN i ELSE i + 1]
<1> DEFINE m == Len(s)
<1> DEFINE front == SubSeq(s, 1, k - 1)
<1> DEFINE back == SubSeq(s, k + 1, m)
<1>1. m \in Nat /\ k \in Int /\ 1 <= k /\ k <= m
  BY LenProperties
<1>2. \A i \in 1..m : s[i] \in S
  BY ElementOfSeq
<1> HIDE DEF m
<1>3. front \in Seq(S) /\ Len(front) = k - 1
      /\ \A i \in 1..(k - 1) : front[i] = s[i]
  <2>1. \A i \in 1..(k - 1) : s[i] \in S
    BY <1>1, <1>2
  <2>2. k - 1 \in Int
    BY <1>1
  <2>3. /\ front \in Seq(S)
        /\ Len(front) = IF 1 <= k - 1 THEN (k - 1) - 1 + 1 ELSE 0
        /\ \A i \in 1..((k - 1) - 1 + 1) : front[i] = s[1 + i - 1]
    BY <2>1, <2>2, SubSeqProperties
  <2> HIDE DEF front
  <2>. QED
    BY <1>1, <2>3
<1>4. /\ back \in Seq(S) /\ Len(back) = m - k
      /\ \A i \in 1..(m - k) : back[i] = s[k + i]
  <2>1. \A i \in (k + 1)..m : s[i] \in S
    BY <1>1, <1>2
  <2>2. k + 1 \in Int
    BY <1>1
  <2>3. /\ back \in Seq(S)
        /\ Len(back) = IF k + 1 <= m THEN m - (k + 1) + 1 ELSE 0
        /\ \A i \in 1..(m - (k + 1) + 1) : back[i] = s[(k + 1) + i - 1]
    BY <1>1, <2>1, <2>2, SubSeqProperties
  <2> HIDE DEF back
  <2>4. m - (k + 1) + 1 = m - k
    BY <1>1
  <2>5. \A i \in 1..(m - k) : back[i] = s[k + i]
    <3>1. \A i \in 1..(m - k) : (k + 1) + i - 1 = k + i
      BY <1>1
    <3>. QED
      BY <2>3, <2>4, <3>1
  <2>6. Len(back) = m - k
    BY <1>1, <2>3
  <2>. QED
    BY <2>3, <2>5, <2>6
<1> DEFINE r == RemoveAt(s, k)
<1>5. r = front \o back
  BY DEF RemoveAt, m
<1> HIDE DEF front, back, r
<1>6. /\ r \in Seq(S) /\ Len(r) = Len(front) + Len(back)
      /\ \A i \in 1..(Len(front) + Len(back)) :
           r[i] = IF i <= Len(front) THEN front[i] ELSE back[i - Len(front)]
  BY <1>3, <1>4, <1>5, ConcatProperties
<1>7. Len(front) + Len(back) = m - 1
  BY <1>1, <1>3, <1>4
<1>8. \A i \in 1..(m - 1) : r[i] = s[IF i < k THEN i ELSE i + 1]
  <2> SUFFICES ASSUME NEW i \in 1..(m - 1)
               PROVE  r[i] = s[IF i < k THEN i ELSE i + 1]
    OBVIOUS
  <2>1. CASE i < k
    <3>1. r[i] = front[i]
      BY <1>1, <1>3, <1>6, <1>7, <2>1
    <3>2. i \in 1..(k - 1)
      BY <1>1, <2>1
    <3>. QED
      BY <1>3, <2>1, <3>1, <3>2
  <2>2. CASE ~(i < k)
    <3>1. r[i] = back[i - (k - 1)]
      BY <1>1, <1>3, <1>6, <1>7, <2>2
    <3>2. i - (k - 1) \in 1..(m - k) /\ k + (i - (k - 1)) = i + 1
      BY <1>1, <2>2
    <3>. QED
      BY <1>4, <2>2, <3>1, <3>2
  <2>. QED
    BY <2>1, <2>2
<1>. QED
  BY <1>1, <1>6, <1>7, <1>8 DEF m, r

NamesDiffer == \A i, j \in 1..Len(atomicList) :
                 name[atomicList[i]] = name[atomicList[j]] => i = j

LEMMA ListFacts ==
  ASSUME TypeOK
  PROVE  /\ Len(atomicList) \in Nat /\ NamesDiffer
         /\ Records \subseteq Session /\ ToSet(atomicList) = Records
         /\ \A r, q \in Records : name[r] = name[q] => r = q
         /\ \A i, j \in 1..Len(atomicList) : atomicList[i] = atomicList[j] => i = j
<1>1. atomicList \in Seq(Session) /\ NamesDiffer
  BY DEF TypeOK, NamesDiffer
<1>2. Len(atomicList) \in Nat /\ DOMAIN atomicList = 1..Len(atomicList)
  BY <1>1, LenProperties
<1>3. \A i \in 1..Len(atomicList) : atomicList[i] \in Session
  BY <1>1, ElementOfSeq
<1>4. ToSet(atomicList) = Records
  BY <1>2 DEF ToSet, Records
<1>. QED
  BY <1>1, <1>2, <1>3, <1>4 DEF Records, NamesDiffer

(* A list that has lost the entry at k.                                     *)
LEMMA EntryLost ==
  ASSUME TypeOK, UNCHANGED name, NEW k \in 1..Len(atomicList), NEW list, list \in Seq(Session),
         Len(list) = Len(atomicList) - 1,
         \A i \in 1..(Len(atomicList) - 1) : list[i] = atomicList[IF i < k THEN i ELSE i + 1],
         atomicList' = list
  PROVE  /\ atomicList' \in Seq(Session) /\ Records' = Records \ {atomicList[k]}
         /\ NamesDiffer'
<1> DEFINE n == Len(atomicList)
<1>1. /\ n \in Nat /\ NamesDiffer
      /\ \A i, j \in 1..n : atomicList[i] = atomicList[j] => i = j
  BY ListFacts
<1>2. Len(list) = n - 1 /\ \A i \in 1..(n - 1) : list[i] = atomicList[IF i < k THEN i ELSE i + 1]
  OBVIOUS
<1>3. k \in 1..n
  OBVIOUS
<1> DEFINE at(i) == IF i < k THEN i ELSE i + 1
<1>4. \A i \in 1..(n - 1) : at(i) \in 1..n /\ at(i) # k /\ list[i] = atomicList[at(i)]
  <2> HIDE DEF n
  <2>. QED
    BY <1>1, <1>2, <1>3
<1>5. \A j \in 1..n : j # k => \E i \in 1..(n - 1) : at(i) = j
  <2> HIDE DEF n
  <2> SUFFICES ASSUME NEW j \in 1..n, j # k PROVE \E i \in 1..(n - 1) : at(i) = j
    OBVIOUS
  <2>1. CASE j < k
    <3>1. j \in 1..(n - 1) /\ at(j) = j
      BY <1>1, <1>3, <2>1
    <3>. QED
      BY <3>1
  <2>2. CASE j > k
    <3>1. j - 1 \in 1..(n - 1) /\ at(j - 1) = j
      BY <1>1, <1>3, <2>2
    <3>. QED
      BY <3>1
  <2>. QED
    BY <1>1, <1>3, <2>1, <2>2
<1>6. \A i, j \in 1..(n - 1) : at(i) = at(j) => i = j
  <2> HIDE DEF n
  <2>. QED
    BY <1>1, <1>3
<1> HIDE DEF at
<1>7. Records' = {list[i] : i \in 1..(n - 1)}
  BY <1>2 DEF Records
<1>8. Records = {atomicList[j] : j \in 1..n}
  BY DEF Records
<1>9. Len(list) = n - 1 /\ atomicList' = list /\ name' = name
  BY <1>2
<1> HIDE DEF n
<1>10. Records' = Records \ {atomicList[k]}
  <2>1. ASSUME NEW r, r \in Records' PROVE r \in Records \ {atomicList[k]}
    <3>1. PICK i \in 1..(n - 1) : r = list[i]
      BY <1>7, <2>1
    <3>2. at(i) \in 1..n /\ at(i) # k /\ r = atomicList[at(i)]
      BY <1>4, <3>1
    <3>. QED
      BY <1>1, <1>3, <1>8, <3>2
  <2>2. ASSUME NEW r, r \in Records \ {atomicList[k]} PROVE r \in Records'
    <3>1. PICK j \in 1..n : r = atomicList[j] /\ j # k
      BY <1>8, <2>2
    <3>2. PICK i \in 1..(n - 1) : at(i) = j
      BY <1>5, <3>1
    <3>. QED
      BY <1>4, <1>7, <3>1, <3>2
  <2>. QED
    BY <2>1, <2>2
<1>11. NamesDiffer'
  <2> SUFFICES ASSUME NEW i \in 1..(n - 1), NEW j \in 1..(n - 1), name[list[i]] = name[list[j]]
               PROVE  i = j
    BY <1>9 DEF NamesDiffer
  <2>1. name[atomicList[at(i)]] = name[atomicList[at(j)]] /\ at(i) \in 1..n /\ at(j) \in 1..n
    BY <1>4
  <2>2. at(i) = at(j)
    BY <1>1, <2>1 DEF NamesDiffer, n
  <2>. QED
    BY <1>6, <2>2
<1>. QED
  BY <1>9, <1>10, <1>11

LEMMA Forgotten ==
  ASSUME TypeOK, NEW r \in Records, Forget(r), UNCHANGED name
  PROVE  atomicList' \in Seq(Session) /\ Records' = Records \ {r} /\ NamesDiffer'
<1> DEFINE k == CHOOSE i \in 1..Len(atomicList) : atomicList[i] = r
<1>1. k \in 1..Len(atomicList) /\ atomicList[k] = r
  BY DEF Records
<1> HIDE DEF k
<1>2. atomicList \in Seq(Session)
  BY DEF TypeOK
<1>3. /\ RemoveAt(atomicList, k) \in Seq(Session)
      /\ Len(RemoveAt(atomicList, k)) = Len(atomicList) - 1
      /\ \A i \in 1..(Len(atomicList) - 1) :
           RemoveAt(atomicList, k)[i] = atomicList[IF i < k THEN i ELSE i + 1]
  BY <1>1, <1>2, RemoveAtProperties
<1>4. atomicList' = RemoveAt(atomicList, k)
  BY DEF Forget, k
<1>. QED
  BY <1>1, <1>3, <1>4, EntryLost

LEMMA HeadForgotten ==
  ASSUME TypeOK, atomicList # <<>>, atomicList' = Tail(atomicList), UNCHANGED name
  PROVE  /\ atomicList' \in Seq(Session) /\ Records' = Records \ {Head(atomicList)}
         /\ NamesDiffer'
<1>1. /\ atomicList \in Seq(Session) /\ Len(atomicList) \in Nat \ {0}
  BY EmptySeq DEF TypeOK
<1>2. /\ Tail(atomicList) \in Seq(Session) /\ Len(Tail(atomicList)) = Len(atomicList) - 1
      /\ \A i \in 1..Len(Tail(atomicList)) : Tail(atomicList)[i] = atomicList[i + 1]
  BY <1>1, HeadTailProperties
<1>3. 1 \in 1..Len(atomicList) /\ Head(atomicList) = atomicList[1]
  BY <1>1
<1>4. \A i \in 1..(Len(atomicList) - 1) :
        Tail(atomicList)[i] = atomicList[IF i < 1 THEN i ELSE i + 1]
  BY <1>1, <1>2
<1>. QED
  BY <1>2, <1>3, <1>4, EntryLost

LEMMA HeadRecord ==
  ASSUME TypeOK, atomicList # <<>>
  PROVE  Head(atomicList) \in Records
<1>1. atomicList \in Seq(Session) /\ Len(atomicList) \in Nat \ {0}
  BY EmptySeq DEF TypeOK
<1>2. 1 \in 1..Len(atomicList) /\ Head(atomicList) = atomicList[1]
  BY <1>1
<1>. QED
  BY <1>2 DEF Records

LEMMA Opened ==
  ASSUME TypeOK, NEW n \in Name, ~NameIsOpen(n), NEW s \in Session, s \notin Records,
         atomicList' = Append(atomicList, s), name' = [name EXCEPT ![s] = n]
  PROVE  atomicList' \in Seq(Session) /\ Records' = Records \cup {s} /\ NamesDiffer'
<1> DEFINE m == Len(atomicList)
<1>1. /\ m \in Nat /\ NamesDiffer /\ Records \subseteq Session
      /\ ToSet(atomicList) = Records
  BY ListFacts
<1>2. /\ atomicList' \in Seq(Session) /\ Len(atomicList') = m + 1
      /\ \A i \in 1..m : atomicList'[i] = atomicList[i]
      /\ atomicList'[m + 1] = s
  BY AppendProperties DEF TypeOK
<1>3. /\ name'[s] = n /\ \A r \in Records : name'[r] = name[r] /\ name[r] # n
  BY <1>1 DEF TypeOK, NameIsOpen
<1>4. \A i \in 1..m : atomicList[i] \in Records
  BY DEF Records
<1>5. Records' = {atomicList'[i] : i \in 1..(m + 1)} /\ Records = {atomicList[i] : i \in 1..m}
  BY <1>2 DEF Records
<1>6. NamesDiffer <=> \A i, j \in 1..m : name[atomicList[i]] = name[atomicList[j]] => i = j
  BY DEF NamesDiffer
<1>7. NamesDiffer' <=>
        \A i, j \in 1..(m + 1) : name'[atomicList'[i]] = name'[atomicList'[j]] => i = j
  BY <1>2 DEF NamesDiffer
<1> HIDE DEF m
<1>8. \A i \in 1..(m + 1) : i \in 1..m \/ i = m + 1
  BY <1>1
<1>9. 1..m \subseteq 1..(m + 1) /\ m + 1 \in 1..(m + 1)
  BY <1>1
<1>10. Records' = Records \cup {s}
  BY <1>2, <1>5, <1>8, <1>9
<1>11. NamesDiffer'
  BY <1>1, <1>2, <1>3, <1>4, <1>6, <1>7, <1>8
<1>. QED
  BY <1>2, <1>10, <1>11

(* find_by_fp *)
LEMMA FoundRecord ==
  ASSUME TypeOK, NEW fp, PlacesOf(fp) # {}
  PROVE  RecordOf(fp) \in Records /\ file[RecordOf(fp)] = fp
<1> DEFINE P == PlacesOf(fp)
<1>1. P \in SUBSET Nat
  BY ListFacts DEF PlacesOf
<1>2. \E m \in P : \A n \in P : m <= n
  BY <1>1, LeastNatural
<1>3. Min(P) \in P
  BY <1>2 DEF Min
<1>. QED
  BY <1>3 DEF RecordOf, PlacesOf, Records

-----------------------------------------------------------------------------
(* Steps *)

(* A step of a call goes on to op, or returns.                              *)
LEMMA CallSteps ==
  ASSUME TypeOK, Shape
  PROVE  /\ Idle \in CallType /\ Idle.op = "idle"
         /\ \A op \in {"copying", "abortAll"} :
              [Idle EXCEPT !.op = op] \in CallType /\ [Idle EXCEPT !.op = op].op = op
         /\ \A op \in {"sync", "close", "rename"} :
              /\ [call EXCEPT !.op = op] \in CallType /\ [call EXCEPT !.op = op].op = op
              /\ [call EXCEPT !.op = op].mine = call.mine
              /\ [call EXCEPT !.op = op].rec = call.rec
<1>1. Idle \in CallType /\ Idle.op = "idle"
  BY DEF Idle, CallType
<1>2. \A op \in {"copying", "abortAll"} :
        [Idle EXCEPT !.op = op] \in CallType /\ [Idle EXCEPT !.op = op].op = op
  BY DEF Idle, CallType
<1>3. ASSUME NEW op \in {"sync", "close", "rename"}
      PROVE  /\ [call EXCEPT !.op = op] \in CallType /\ [call EXCEPT !.op = op].op = op
             /\ [call EXCEPT !.op = op].mine = call.mine
             /\ [call EXCEPT !.op = op].rec = call.rec
  BY DEF Shape, CallType
<1>. QED
  BY <1>1, <1>2, <1>3

LEMMA ReturnType ==
  ASSUME TypeOK, Shape, InCall, NEW res \in {"ok", "failed", "aborted"}, Return(res)
  PROVE  /\ call' = Idle /\ call' \in CallType /\ call'.op = "idle" /\ ~InCall'
         /\ result' \in [Session -> {"none", "open", "ok", "failed", "aborted", "gone"}]
         /\ call.mine \in Session /\ result'[call.mine] = res
         /\ \A s \in Session \ {call.mine} : result'[s] = result[s]
<1>1. call.mine \in Session
  BY Constants DEF Shape, TypeOK, Session
<1>. QED
  BY <1>1, CallSteps DEF Return, InCall, TypeOK

LEMMA GotoType ==
  ASSUME TypeOK, Shape, InCall, NEW op \in {"sync", "close", "rename"}, Goto(op)
  PROVE  /\ call' \in CallType /\ call'.op = op /\ call'.mine = call.mine
         /\ call'.rec = call.rec /\ result' = result
  BY CallSteps DEF Goto

(* The FILE of the call under way and the session behind it.                *)
LEMMA StreamType ==
  ASSUME TypeOK, Shape, InCall
  PROVE  /\ call.mine \in Session /\ call.rec \in Session /\ file[call.mine] \in FP
         /\ Stream \in Session \cup {Closed} /\ Stream = stream[file[call.mine]]
<1>1. call.mine \in Session /\ call.rec \in Session
  <2>1. call.mine \in 1..opens /\ call.rec \in Records
    BY DEF Shape
  <2>2. 1..opens \subseteq Session
    BY Constants DEF TypeOK, Session
  <2>. QED
    BY <2>1, <2>2, ListFacts
<1>. QED
  BY <1>1 DEF Stream, TypeOK

LEMMA OpenType ==
  ASSUME TypeOK, Shape, Fresh, NEW n \in Name, NEW append \in BOOLEAN, fopenAtomic(n, append)
  PROVE  \E start \in Text :
             /\ opens' = opens + 1 /\ opens' \in Session /\ opens \in Nat
             /\ Len(start) \in Nat
             /\ append => start = real[FileOf[n]].text \/ opens' \in unread'
             /\ unread \subseteq unread' /\ unread' \subseteq unread \cup {opens'}
             /\ \E fp \in FP : /\ stream[fp] = Closed
                               /\ stream' = [stream EXCEPT ![fp] = opens']
                               /\ file' = [file EXCEPT ![opens'] = fp]
             /\ name' = [name EXCEPT ![opens'] = n]
             /\ appends' = IF append THEN appends \cup {opens'} ELSE appends
             /\ buf' = [buf EXCEPT ![opens'] = start]
             /\ data' = [data EXCEPT ![opens'] = Len(start)]
             /\ result' = [result EXCEPT ![opens'] = "open"]
             /\ synced[opens'] = 0 /\ opens' \notin Records /\ ~NameIsOpen(n)
             /\ atomicList' \in Seq(Session) /\ Records' = Records \cup {opens'}
             /\ NamesDiffer'
             /\ call = Idle
             /\ UNCHANGED <<synced, real, replaced, committed, overtaken, call,
                            freedByError>>
<1>0. <<>> \in Text /\ real[FileOf[n]].text \in Text
  BY Constants, EmptySeq DEF TypeOK, Text
<1>1. PICK start \in Text :
        /\ OpenWith(n, append, start) /\ ~NameIsOpen(n)
        /\ append => start = real[FileOf[n]].text \/ opens' \in unread'
        /\ unread \subseteq unread' /\ unread' \subseteq unread \cup {opens'}
  <2>1. CASE CopyAndOpen(n, append)
    BY <1>0, <2>1 DEF fopenAtomic, CopyAndOpen
  <2>2. CASE append /\ OpenUnread(n)
    BY <1>0, <2>2 DEF fopenAtomic, OpenUnread
  <2>. QED
    BY <2>1, <2>2 DEF fopenAtomic
<1>2. opens' = opens + 1 /\ opens' \in Session /\ opens \in Nat /\ opens' > opens
  BY <1>1, Constants DEF OpenWith, TypeOK, Session
<1>4. Len(start) \in Nat
  BY LenProperties DEF Text
<1>5. opens' \notin Records /\ synced[opens'] = 0
  BY <1>2 DEF Fresh
<1>6. atomicList' = Append(atomicList, opens') /\ name' = [name EXCEPT ![opens'] = n]
  BY <1>1 DEF OpenWith
<1>7. atomicList' \in Seq(Session) /\ Records' = Records \cup {opens'} /\ NamesDiffer'
  <2> DEFINE s == opens'
  <2>1. s \in Session /\ s \notin Records /\ atomicList' = Append(atomicList, s)
        /\ name' = [name EXCEPT ![s] = n]
    BY <1>2, <1>5, <1>6
  <2> HIDE DEF s
  <2>2. atomicList' \in Seq(Session) /\ Records' = Records \cup {s} /\ NamesDiffer'
    BY <1>1, <2>1, Opened
  <2>. QED
    BY <2>2 DEF s
<1>8. \E fp \in FP : /\ stream[fp] = Closed
                     /\ stream' = [stream EXCEPT ![fp] = opens']
                     /\ file' = [file EXCEPT ![opens'] = fp]
  BY <1>1 DEF OpenWith
<1>9. /\ appends' = IF append THEN appends \cup {opens'} ELSE appends
      /\ buf' = [buf EXCEPT ![opens'] = start]
      /\ data' = [data EXCEPT ![opens'] = Len(start)]
      /\ result' = [result EXCEPT ![opens'] = "open"]
      /\ call = Idle
      /\ UNCHANGED <<synced, real, replaced, committed, overtaken, call, freedByError>>
  BY <1>1 DEF OpenWith, diskVars
<1>. QED
  BY <1>1, <1>2, <1>4, <1>5, <1>6, <1>7, <1>8, <1>9

LEMMA TypeStep == TypeOK /\ Shape /\ Fresh /\ [Next]_vars => TypeOK' /\ Shape'
<1> SUFFICES ASSUME TypeOK, Shape, Fresh, [Next]_vars
             PROVE  TypeOK' /\ Shape'
  OBVIOUS
<1> DEFINE Lengths == \A s \in Session : synced[s] <= data[s] /\ data[s] <= Len(buf[s])
<1>1. /\ \A s \in Session : /\ data[s] \in Nat /\ synced[s] \in Nat
                            /\ buf[s] \in Text /\ Len(buf[s]) \in Nat
      /\ Lengths /\ opens \in Nat
  <2>1. \A s \in Session : buf[s] \in Seq(Session)
    BY DEF TypeOK, Text
  <2>2. \A s \in Session : Len(buf[s]) \in Nat
    BY <2>1, LenProperties
  <2>. QED
    BY <2>1, <2>2, Constants DEF TypeOK, Shape, Text
<1>2. ASSUME NEW n \in Name, NEW append \in BOOLEAN, fopenAtomic(n, append)
      PROVE  TypeOK' /\ Shape'
  <2> DEFINE new == opens'
  <2>1. PICK start \in Text :
        /\ new = opens + 1 /\ new \in Session /\ Len(start) \in Nat
        /\ unread' \subseteq unread \cup {new}
        /\ name' = [name EXCEPT ![new] = n]
        /\ appends' = IF append THEN appends \cup {new} ELSE appends
        /\ buf' = [buf EXCEPT ![new] = start]
        /\ data' = [data EXCEPT ![new] = Len(start)]
        /\ result' = [result EXCEPT ![new] = "open"] /\ synced[new] = 0
        /\ atomicList' \in Seq(Session) /\ Records' = Records \cup {new} /\ NamesDiffer'
        /\ call = Idle
        /\ UNCHANGED <<synced, real, replaced, committed, overtaken, call, freedByError>>
    BY <1>2, OpenType
  <2>2. PICK fp \in FP : /\ stream' = [stream EXCEPT ![fp] = new]
                         /\ file' = [file EXCEPT ![new] = fp]
    BY <1>2, OpenType
  <2>3. opens' \in 0..MaxOpens /\ new = opens'
    BY <2>1, Constants DEF Session
  <2> HIDE DEF new
  <2>4. Lengths'
    <3>1. data'[new] = Len(start) /\ buf'[new] = start
      BY <2>1 DEF TypeOK, Shape
    <3>2. \A s \in Session \ {new} : data'[s] = data[s] /\ buf'[s] = buf[s]
      BY <2>1 DEF TypeOK, Shape
    <3>. QED
      BY <1>1, <2>1, <3>1, <3>2
  <2>5. /\ name' \in [Session -> Name] /\ file' \in [Session -> FP] /\ appends' \subseteq Session
        /\ unread' \subseteq Session
        /\ stream' \in [FP -> Session \cup {Closed}] /\ buf' \in [Session -> Text]
        /\ result' \in [Session -> {"none", "open", "ok", "failed", "aborted", "gone"}]
        /\ data' \in [Session -> Nat] /\ synced' \in [Session -> Nat]
    BY <2>1, <2>2 DEF TypeOK, Shape
  <2>6. TypeOK'
    BY <2>1, <2>3, <2>4, <2>5 DEF TypeOK, NamesDiffer
  <2>7. Shape'
    BY <2>1, <2>5 DEF Shape, InCall, Idle
  <2>. QED
    BY <2>6, <2>7
<1>3. ASSUME NEW n \in Name, CopyReadFails(n)
      PROVE  TypeOK' /\ Shape'
  <2>1. call' \in CallType /\ call'.op = "copying"
    BY <1>3, CallSteps DEF CopyReadFails
  <2>. QED
    BY <1>3, <2>1 DEF CopyReadFails, sessionVars, diskVars, TypeOK, Shape, InCall, Records
<1>4. ASSUME NEW s \in Session, fwrite(s)
      PROVE  TypeOK' /\ Shape'
  <2>1. PICK b \in {buf[s], Append(buf[s], s)} :
          /\ buf' = [buf EXCEPT ![s] = b]
          /\ \E n \in {data[s], Len(b)} : data' = [data EXCEPT ![s] = n]
    BY <1>4 DEF fwrite
  <2>2. b \in Text /\ Len(b) \in Nat /\ Len(b) >= Len(buf[s])
    <3>1. Append(buf[s], s) \in Text /\ Len(Append(buf[s], s)) = Len(buf[s]) + 1
      BY <1>1, AppendProperties DEF Text
    <3>2. /\ Len(buf[s]) \in Nat /\ Len(buf[s]) >= Len(buf[s])
          /\ Len(buf[s]) + 1 \in Nat /\ Len(buf[s]) + 1 >= Len(buf[s])
      BY <1>1
    <3>. QED
      BY <1>1, <3>1, <3>2, Zenon
  <2>3. PICK n \in Nat : /\ data' = [data EXCEPT ![s] = n]
                         /\ n >= data[s] /\ n <= Len(b)
    <3>1. /\ data[s] \in Nat /\ data[s] >= data[s] /\ data[s] <= Len(b)
          /\ Len(b) >= data[s] /\ Len(b) <= Len(b)
      BY <1>1, <2>2
    <3>. QED
      BY <2>1, <2>2, <3>1, Zenon
  <2>4. /\ buf' = [buf EXCEPT ![s] = b]
        /\ UNCHANGED <<atomicList, sessionVars, stream, synced, diskVars, call,
                       result, freedByError>>
    BY <1>4, <2>1 DEF fwrite
  <2>5. /\ buf' \in [Session -> Text] /\ data' \in [Session -> Nat]
        /\ buf'[s] = b /\ data'[s] = n
        /\ \A t \in Session \ {s} : buf'[t] = buf[t] /\ data'[t] = data[t]
    BY <2>1, <2>2, <2>3, <2>4 DEF TypeOK, Shape
  <2>6. Lengths'
    <3>1. synced' = synced
      BY <2>4
    <3>2. synced[s] <= n /\ n <= Len(buf'[s])
      BY <1>1, <2>3, <2>5
    <3>. QED
      BY <1>1, <2>5, <3>1, <3>2
  <2>7. TypeOK'
    BY <2>4, <2>5, <2>6 DEF sessionVars, diskVars, TypeOK
  <2>8. synced' \in [Session -> Nat] /\ Records' = Records /\ Stream' = Stream
    BY <2>4 DEF Shape, Records, Stream, sessionVars
  <2>. QED
    BY <2>4, <2>5, <2>7, <2>8 DEF sessionVars, diskVars, Shape, InCall
<1>5. ASSUME NEW s \in Session, NEW op \in {"flush", "abort"}, Begin(s, op)
      PROVE  TypeOK' /\ Shape'
  <2>1. /\ call' = [op |-> op, mine |-> s, rec |-> RecordOf(file[s])]
        /\ result[s] = "open" /\ PlacesOf(file[s]) # {}
        /\ UNCHANGED <<atomicList, sessionVars, stream, buf, data, synced, diskVars,
                       result, freedByError>>
    BY <1>5 DEF Begin
  <2>2. RecordOf(file[s]) \in Records /\ RecordOf(file[s]) \in Session
    BY <2>1, FoundRecord, ListFacts
  <2>3. s \in 1..opens
    BY <1>1, <2>1, Constants DEF Fresh
  <2>4. call' \in CallType /\ call'.op = op /\ call'.mine = s /\ call'.rec = RecordOf(file[s])
    BY <2>1, <2>2 DEF CallType
  <2>. QED
    BY <2>1, <2>2, <2>3, <2>4 DEF sessionVars, diskVars, TypeOK, Shape, InCall, Records
<1>6. CASE UseFreedFile
  <2>1. InCall /\ Return("failed")
    BY <1>6 DEF UseFreedFile, InCall
  <2>. QED
    BY <1>6, <2>1, ReturnType
       DEF UseFreedFile, sessionVars, diskVars, TypeOK, Shape, InCall, Records
<1>7. CASE Flush
  <2>1. InCall /\ Stream # Closed
    BY <1>7 DEF Flush, InCall
  <2>2. PICK n \in data[Stream]..Len(buf[Stream]) :
          /\ data' = [data EXCEPT ![Stream] = n]
          /\ Goto("sync") \/ Return("failed")
    BY <1>7 DEF Flush
  <2> DEFINE t == Stream
  <2>3. t \in Session /\ t # Closed
    BY <2>1, StreamType
  <2>4. n \in Nat /\ n >= data[t] /\ n <= Len(buf[t]) /\ data' = [data EXCEPT ![t] = n]
    BY <1>1, <2>2, <2>3
  <2>5. UNCHANGED <<atomicList, sessionVars, stream, buf, synced, diskVars, freedByError>>
    BY <1>7 DEF Flush
  <2>6. data' \in [Session -> Nat] /\ Lengths'
    <3> HIDE DEF t
    <3>1. /\ data' \in [Session -> Nat] /\ data'[t] = n
          /\ \A u \in Session \ {t} : data'[u] = data[u]
      BY <2>3, <2>4 DEF Shape
    <3>2. buf' = buf /\ synced' = synced
      BY <2>5
    <3>. QED
      BY <1>1, <2>4, <3>1, <3>2
  <2>7. CASE Goto("sync")
    <3>1. /\ call' \in CallType /\ call'.op = "sync" /\ call'.mine = call.mine
          /\ call'.rec = call.rec /\ result' = result
      BY <2>1, <2>7, GotoType
    <3>2. Stream' = Stream
      BY <2>5, <3>1 DEF Stream, sessionVars
    <3>. QED
      BY <2>1, <2>5, <2>6, <3>1, <3>2
         DEF sessionVars, diskVars, TypeOK, Shape, InCall, Records
  <2>8. CASE Return("failed")
    BY <2>1, <2>5, <2>6, <2>8, ReturnType
       DEF sessionVars, diskVars, TypeOK, Shape, InCall, Records
  <2>. QED
    BY <2>2, <2>7, <2>8
<1>8. CASE Sync
  <2>1. InCall /\ Stream # Closed
    BY <1>8 DEF Sync, InCall, Shape
  <2>2. UNCHANGED <<atomicList, sessionVars, stream, buf, data, diskVars, freedByError>>
    BY <1>8 DEF Sync
  <2>3. CASE synced' = [synced EXCEPT ![Stream] = data[Stream]] /\ Goto("close")
    <3>1. /\ call' \in CallType /\ call'.op = "close" /\ call'.mine = call.mine
          /\ call'.rec = call.rec /\ result' = result
      BY <2>1, <2>3, GotoType
    <3>2. Stream' = Stream
      BY <2>2, <3>1 DEF Stream, sessionVars
    <3>3. synced' \in [Session -> Nat] /\ Lengths'
      <4> DEFINE t == Stream
      <4>1. t \in Session /\ synced' = [synced EXCEPT ![t] = data[t]]
        BY <2>1, <2>3, StreamType
      <4> HIDE DEF t
      <4>2. /\ synced' \in [Session -> Nat] /\ synced'[t] = data[t]
            /\ \A u \in Session \ {t} : synced'[u] = synced[u]
        BY <1>1, <4>1 DEF Shape
      <4>3. buf' = buf /\ data' = data
        BY <2>2
      <4>. QED
        BY <1>1, <4>2, <4>3
    <3>. QED
      BY <2>1, <2>2, <3>1, <3>2, <3>3
         DEF sessionVars, diskVars, TypeOK, Shape, InCall, Records
  <2>4. CASE Return("failed") /\ UNCHANGED synced
    BY <2>1, <2>2, <2>4, ReturnType
       DEF sessionVars, diskVars, TypeOK, Shape, InCall, Records
  <2>. QED
    BY <1>8, <2>3, <2>4 DEF Sync
<1>9. CASE CloseStream
  <2>1. InCall
    BY <1>9 DEF CloseStream, InCall
  <2>2. /\ stream' = [stream EXCEPT ![file[call.mine]] = Closed]
        /\ UNCHANGED <<atomicList, sessionVars, buf, data, synced, diskVars>>
        /\ freedByError' \in BOOLEAN
    BY <1>9 DEF CloseStream, TypeOK
  <2>3. stream' \in [FP -> Session \cup {Closed}]
    BY <2>2 DEF TypeOK
  <2>4. CASE Goto("rename")
    <3>1. /\ call' \in CallType /\ call'.op = "rename" /\ call'.mine = call.mine
          /\ call'.rec = call.rec /\ result' = result
      BY <2>1, <2>4, GotoType
    <3>2. TypeOK'
      BY <2>2, <2>3, <3>1 DEF sessionVars, diskVars, TypeOK, CallType
    <3>3. Records' = Records
      BY <2>2 DEF Records
    <3>. QED
      BY <2>1, <2>2, <3>1, <3>2, <3>3 DEF sessionVars, diskVars, Shape, InCall
  <2>5. CASE Return("failed")
    BY <2>1, <2>2, <2>3, <2>5, ReturnType
       DEF sessionVars, diskVars, TypeOK, Shape, InCall, Records
  <2>. QED
    BY <1>9, <2>4, <2>5 DEF CloseStream
<1>10. CASE Rename
  <2>1. InCall /\ call.rec \in Records /\ call.rec \in Session
    BY <1>10, ListFacts DEF Rename, InCall, Shape
  <2>2. /\ Forget(call.rec) /\ (Return("ok") \/ Return("failed"))
        /\ UNCHANGED <<sessionVars, stream, buf, data, synced, freedByError>>
    BY <1>10 DEF Rename
  <2>3. atomicList' \in Seq(Session) /\ NamesDiffer'
    BY <2>1, <2>2, Forgotten DEF sessionVars
  <2>4. /\ call' \in CallType /\ ~InCall' /\ call'.op = "idle"
        /\ result' \in [Session -> {"none", "open", "ok", "failed", "aborted", "gone"}]
    BY <2>1, <2>2, ReturnType
  <2>5. /\ real' \in [File -> Version] /\ replaced' \in [File -> SUBSET Version]
        /\ committed' \subseteq Session /\ overtaken' \subseteq Session
    <3>1. CASE RenameTo(FileOf[name[call.rec]])
      <4> DEFINE r == call.rec  f == FileOf[name[r]]
                 v == [text |-> SubSeq(buf[r], 1, data[r]), safe |-> synced[r]]
      <4>1. /\ real' = [real EXCEPT ![f] = v]
            /\ replaced' = [replaced EXCEPT ![f] = @ \cup {real[f]}]
            /\ committed' = committed \cup {r}
            /\ overtaken' \subseteq overtaken \cup Records
        BY <3>1, ListFacts DEF RenameTo
      <4>2. f \in File /\ r \in Session /\ buf[r] \in Seq(Session) /\ data[r] \in 0..Len(buf[r])
        <5>1. r \in Session /\ f \in File
          BY <2>1, Constants DEF TypeOK
        <5>2. data[r] \in 0..Len(buf[r])
          BY <1>1, <5>1
        <5>. QED
          BY <5>1, <5>2 DEF TypeOK, Text
      <4>3. SubSeq(buf[r], 1, data[r]) \in Text
        BY <4>2, Prefix DEF Text
      <4>4. v \in Version
        BY <1>1, <4>2, <4>3 DEF Version
      <4>5. real \in [File -> Version] /\ replaced \in [File -> SUBSET Version]
        BY DEF TypeOK, Version, Shape
      <4> HIDE DEF v, f, r
      <4>6. replaced[f] \cup {real[f]} \in SUBSET Version
        BY <4>2, <4>5
      <4>7. replaced' \in [File -> SUBSET Version]
        BY <4>1, <4>2, <4>5, <4>6
      <4>. QED
        BY <4>1, <4>2, <4>4, <4>5, <4>7, ListFacts DEF TypeOK
    <3>2. CASE UNCHANGED diskVars
      BY <3>2 DEF diskVars, TypeOK, Shape, Version
    <3>. QED
      BY <1>10, <3>1, <3>2 DEF Rename
  <2>. QED
    BY <2>2, <2>3, <2>4, <2>5 DEF sessionVars, TypeOK, Shape, NamesDiffer, Version
<1>11. CASE AbortGuts
  <2>1. InCall /\ call.rec \in Records
    BY <1>11 DEF AbortGuts, InCall, Shape
  <2>2. /\ stream' = [stream EXCEPT ![file[call.mine]] = Closed]
        /\ Return("aborted") \/ Return("failed")
        /\ freedByError' \in BOOLEAN
        /\ UNCHANGED <<sessionVars, buf, data, synced, diskVars>>
    BY <1>11 DEF AbortGuts, TypeOK
  <2>3. atomicList' \in Seq(Session) /\ NamesDiffer'
    <3>1. CASE Forget(call.rec)
      BY <2>1, <2>2, <3>1, Forgotten DEF sessionVars
    <3>2. CASE UNCHANGED atomicList
      BY <2>2, <3>2 DEF sessionVars, TypeOK, NamesDiffer
    <3>. QED
      BY <1>11, <3>1, <3>2 DEF AbortGuts
  <2>4. /\ call' \in CallType /\ ~InCall' /\ call'.op = "idle"
        /\ result' \in [Session -> {"none", "open", "ok", "failed", "aborted", "gone"}]
    BY <2>1, <2>2, ReturnType
  <2>. QED
    BY <2>2, <2>3, <2>4 DEF sessionVars, diskVars, TypeOK, Shape, NamesDiffer
<1>12. CASE fabortAllAtomic
  <2>1. CASE atomicList = <<>>
    <3>1. /\ call' = Idle
          /\ UNCHANGED <<atomicList, stream, result, freedByError, sessionVars, buf, data,
                         synced, diskVars>>
      BY <1>12, <2>1 DEF fabortAllAtomic
    <3>. QED
      BY <3>1, CallSteps DEF sessionVars, diskVars, TypeOK, Shape, InCall
  <2>2. CASE atomicList # <<>>
    <3> DEFINE r == Head(atomicList)
    <3>1. /\ result' = [result EXCEPT ![r] = "aborted"]
          /\ stream' = [stream EXCEPT ![file[r]] = Closed]
          /\ \/ atomicList' = Tail(atomicList) /\ call' = [Idle EXCEPT !.op = "abortAll"]
             \/ atomicList' = atomicList /\ call' = Idle
          /\ freedByError' \in BOOLEAN
          /\ UNCHANGED <<sessionVars, buf, data, synced, diskVars>>
      BY <1>12, <2>2 DEF fabortAllAtomic, TypeOK
    <3>2. call' \in CallType /\ call'.op \in {"idle", "abortAll"}
      BY <3>1, CallSteps
    <3>3. atomicList' \in Seq(Session) /\ NamesDiffer'
      <4>1. CASE atomicList' = Tail(atomicList)
        BY <2>2, <3>1, <4>1, HeadForgotten DEF sessionVars
      <4>2. CASE atomicList' = atomicList
        BY <3>1, <4>2 DEF sessionVars, TypeOK, NamesDiffer
      <4>. QED
        BY <3>1, <4>1, <4>2
    <3>4. /\ result' \in [Session -> {"none", "open", "ok", "failed", "aborted", "gone"}]
          /\ stream' \in [FP -> Session \cup {Closed}]
      BY <3>1 DEF TypeOK
    <3>. QED
      BY <3>1, <3>2, <3>3, <3>4 DEF sessionVars, diskVars, TypeOK, Shape, InCall, NamesDiffer
  <2>. QED
    BY <2>1, <2>2
<1>13. CASE Crash
  <2>1. PICK t \in [File -> UNION {Survivors(f) : f \in File}] :
          /\ \A f \in File : t[f] \in Survivors(f)
          /\ real' = [f \in File |-> [text |-> t[f], safe |-> Len(t[f])]]
    BY <1>13 DEF Crash
  <2>2. ASSUME NEW f \in File
        PROVE  t[f] \in Text /\ Len(t[f]) \in Nat
    <3>1. PICK v \in replaced[f] \cup {real[f]} :
            \E n \in v.safe..Len(v.text) : t[f] = SubSeq(v.text, 1, n)
      BY <2>1 DEF Survivors
    <3>2. v \in Version
      BY DEF TypeOK, Shape, Version
    <3>3. v.text \in Seq(Session) /\ v.safe \in Nat /\ Len(v.text) \in Nat
      BY <3>2, LenProperties DEF Version, Text
    <3>4. PICK n \in 0..Len(v.text) : t[f] = SubSeq(v.text, 1, n)
      BY <3>1, <3>3
    <3>5. SubSeq(v.text, 1, n) \in Seq(Session) /\ Len(SubSeq(v.text, 1, n)) = n
      BY <3>3, <3>4, Prefix
    <3>. QED
      BY <3>3, <3>4, <3>5 DEF Text
  <2>3. real' \in [File -> Version] /\ replaced' \in [File -> SUBSET Version]
    BY <1>13, <2>1, <2>2 DEF Crash, Version
  <2>4. /\ atomicList' = <<>> /\ stream' = [f \in FP |-> Closed] /\ call' = Idle
        /\ result' = [s \in Session |-> IF s <= opens THEN "gone" ELSE "none"]
        /\ UNCHANGED <<sessionVars, buf, data, synced, committed, overtaken, freedByError>>
    BY <1>13 DEF Crash
  <2>5. atomicList' \in Seq(Session) /\ Len(atomicList') = 0
    BY <2>4, EmptySeq
  <2>6. NamesDiffer'
    BY <2>5 DEF NamesDiffer
  <2>. QED
    BY <2>3, <2>4, <2>5, <2>6, CallSteps
       DEF sessionVars, TypeOK, Shape, InCall, NamesDiffer, Version
<1>14. CASE UNCHANGED vars
  BY <1>14 DEF vars, TypeOK, Shape, InCall, Records, Stream
<1>. QED
  BY <1>2, <1>3, <1>4, <1>5, <1>6, <1>7, <1>8, <1>9, <1>10, <1>11, <1>12, <1>13, <1>14
     DEF Next, fcloseAtomic, fabortAtomic

LEMMA FreshStep == TypeOK /\ Shape /\ Fresh /\ [Next]_vars => Fresh'
<1> SUFFICES ASSUME TypeOK, Shape, Fresh, [Next]_vars
             PROVE  Fresh'
  OBVIOUS
<1>1. /\ Records \subseteq Session /\ \A r \in Records : ~(r > opens)
      /\ InCall => ~(call.mine > opens) /\ ~(call.rec > opens) /\ call.mine \in Session
  <2>1. Records \subseteq Session /\ \A r \in Records : ~(r > opens)
    BY ListFacts DEF Fresh
  <2>2. ASSUME InCall PROVE ~(call.mine > opens)
    <3>1. call.mine \in 1..opens /\ opens \in Nat
      BY <2>2, Constants DEF Shape, TypeOK
    <3>. QED
      BY <3>1
  <2>. QED
    BY <2>1, <2>2, StreamType DEF Shape
<1>2. ASSUME NEW n \in Name, NEW append \in BOOLEAN, fopenAtomic(n, append)
      PROVE  Fresh'
  <2>1. /\ opens' = opens + 1 /\ opens' \in Session /\ opens \in Nat
        /\ appends' \subseteq appends \cup {opens'}
        /\ result' = [result EXCEPT ![opens'] = "open"]
        /\ Records' = Records \cup {opens'}
        /\ UNCHANGED <<synced, committed>>
    BY <1>2, OpenType
  <2>2. PICK fp \in FP : stream' = [stream EXCEPT ![fp] = opens']
    BY <1>2, OpenType
  <2>3. ASSUME NEW s \in Session, s > opens'
        PROVE  s > opens /\ s # opens'
    BY <2>1, <2>3, Constants
  <2>. QED
    BY <2>1, <2>2, <2>3 DEF Fresh, TypeOK
<1>3. ASSUME NEW n \in Name, CopyReadFails(n)
      PROVE  Fresh'
  BY <1>3 DEF CopyReadFails, sessionVars, diskVars, Fresh, Records
<1>4. ASSUME NEW s \in Session, fwrite(s)
      PROVE  Fresh'
  BY <1>4 DEF fwrite, sessionVars, diskVars, Fresh, Records
<1>5. ASSUME NEW s \in Session, NEW op \in {"flush", "abort"}, Begin(s, op)
      PROVE  Fresh'
  BY <1>5 DEF Begin, sessionVars, diskVars, Fresh, Records
<1>6. ASSUME InCall, UNCHANGED <<sessionVars, diskVars>>, Records' \subseteq Records,
             NEW res \in {"ok", "failed", "aborted"}, Return(res) \/ UNCHANGED result,
             NEW x, UNCHANGED stream \/ stream' = [stream EXCEPT ![x] = Closed],
             synced' \in {synced, [synced EXCEPT ![Stream] = data[Stream]]},
             synced' # synced => Stream # Closed
      PROVE  Fresh'
  <2> SUFFICES ASSUME NEW s \in Session, s > opens
               PROVE  /\ result'[s] = "none" /\ s \notin committed /\ s \notin appends
                      /\ s \notin Records' /\ synced'[s] = 0 /\ \A f \in FP : stream'[f] # s
    BY <1>6 DEF Fresh, sessionVars, diskVars
  <2>1. /\ result[s] = "none" /\ s \notin committed /\ s \notin appends
        /\ s \notin Records /\ synced[s] = 0 /\ \A f \in FP : stream[f] # s
    BY DEF Fresh
  <2>2. result'[s] = "none"
    BY <1>1, <1>6, <2>1, ReturnType
  <2>3. synced'[s] = 0
    <3>1. Stream # s
      BY <1>6, <2>1, StreamType
    <3>2. CASE synced' = [synced EXCEPT ![Stream] = data[Stream]]
      <4>1. synced'[s] = synced[s]
        BY <3>1, <3>2 DEF Shape
      <4>. QED
        BY <2>1, <4>1
    <3>. QED
      BY <1>6, <2>1, <3>2
  <2>4. \A f \in FP : stream'[f] # s
    BY <1>6, <2>1, Constants DEF TypeOK
  <2>. QED
    BY <1>6, <2>1, <2>2, <2>3, <2>4
<1>7. CASE UseFreedFile
  BY <1>6, <1>7 DEF UseFreedFile, InCall, Records
<1>8. CASE Flush
  BY <1>6, <1>8 DEF Flush, InCall, Records, Goto
<1>9. CASE Sync
  <2>1. Stream # Closed
    BY <1>9 DEF Sync, Shape
  <2>. QED
    BY <1>6, <1>9, <2>1 DEF Sync, InCall, Records, Goto
<1>10. CASE CloseStream
  BY <1>6, <1>10 DEF CloseStream, InCall, Records, Goto
<1>11. CASE Rename
  <2>1. InCall /\ call.rec \in Records
    BY <1>11 DEF Rename, InCall, Shape
  <2>2. /\ Forget(call.rec) /\ (Return("ok") \/ Return("failed"))
        /\ UNCHANGED <<sessionVars, stream, synced>>
        /\ committed' \subseteq committed \cup {call.rec}
    BY <1>11 DEF Rename, RenameTo, diskVars
  <2>3. Records' \subseteq Records
    BY <2>1, <2>2, Forgotten DEF sessionVars
  <2>4. \A s \in Session \ {call.mine} : result'[s] = result[s]
    BY <2>1, <2>2, ReturnType
  <2>. QED
    BY <1>1, <2>1, <2>2, <2>3, <2>4 DEF Fresh, sessionVars
<1>12. CASE AbortGuts
  <2>1. InCall /\ call.rec \in Records
    BY <1>12 DEF AbortGuts, InCall, Shape
  <2>2. Records' \subseteq Records
    BY <1>12, <2>1, Forgotten DEF AbortGuts, sessionVars, Records
  <2>. QED
    BY <1>6, <1>12, <2>1, <2>2 DEF AbortGuts
<1>13. CASE fabortAllAtomic
  <2>1. CASE atomicList = <<>>
    BY <1>13, <2>1 DEF fabortAllAtomic, sessionVars, diskVars, Fresh, Records
  <2>2. CASE atomicList # <<>>
    <3> DEFINE r == Head(atomicList)
    <3>1. r \in Records
      BY <2>2, HeadRecord
    <3>2. /\ result' = [result EXCEPT ![r] = "aborted"]
          /\ stream' = [stream EXCEPT ![file[r]] = Closed]
          /\ UNCHANGED <<sessionVars, synced, diskVars>>
          /\ atomicList' = Tail(atomicList) \/ atomicList' = atomicList
      BY <1>13, <2>2 DEF fabortAllAtomic
    <3>3. Records' \subseteq Records
      BY <2>2, <3>2, HeadForgotten DEF sessionVars, Records
    <3> HIDE DEF r
    <3>4. \A s \in Session : s > opens => result'[s] = result[s]
      BY <1>1, <3>1, <3>2 DEF TypeOK
    <3>5. \A f \in FP : stream'[f] \in {stream[f], Closed}
      BY <3>2 DEF TypeOK
    <3>6. ASSUME NEW s \in Session, s > opens
          PROVE  /\ result'[s] = "none" /\ s \notin committed /\ s \notin appends
                 /\ s \notin Records' /\ synced[s] = 0 /\ \A f \in FP : stream'[f] # s
      BY <3>3, <3>4, <3>5, <3>6, Constants DEF Fresh
    <3>. QED
      BY <3>2, <3>6 DEF sessionVars, diskVars, Fresh
  <2>. QED
    BY <2>1, <2>2
<1>14. CASE Crash
  <2>1. Records' = {}
    <3>1. Len(atomicList') = 0
      BY <1>14, EmptySeq DEF Crash
    <3>. QED
      BY <3>1 DEF Records
  <2>2. /\ stream' = [f \in FP |-> Closed]
        /\ result' = [s \in Session |-> IF s <= opens THEN "gone" ELSE "none"]
        /\ UNCHANGED <<sessionVars, synced, committed>>
    BY <1>14 DEF Crash
  <2>3. \A s \in Session : s > opens => ~(s <= opens)
    BY Constants DEF TypeOK
  <2>. QED
    BY <2>1, <2>2, <2>3, Constants DEF sessionVars, Fresh
<1>15. CASE UNCHANGED vars
  BY <1>15 DEF vars, Fresh, Records
<1>. QED
  BY <1>2, <1>3, <1>4, <1>5, <1>7, <1>8, <1>9, <1>10, <1>11, <1>12, <1>13, <1>14, <1>15
     DEF Next, fcloseAtomic, fabortAtomic

(* An appending session keeps its beginning as long as no commit and no     *)
(* crash changes the file, and both take it from the list.                  *)
LEMMA AppendingKept ==
  ASSUME TypeOK, Shape, Appending, UNCHANGED <<name, appends, unread, overtaken, real>>,
         Records' \subseteq Records, \A s \in Session : data'[s] >= data[s],
         data' \in [Session -> Nat],
         \A s \in Session : \A k \in Nat :
           k <= data[s] => SubSeq(buf'[s], 1, k) = SubSeq(buf[s], 1, k)
  PROVE  Appending'
<1> SUFFICES ASSUME NEW s \in Faithful
             PROVE  LET t == real[FileOf[name[s]]].text
                    IN  Len(t) <= data'[s] /\ SubSeq(buf'[s], 1, Len(t)) = t
  BY DEF Appending, Faithful
<1> DEFINE t == real[FileOf[name[s]]].text
<1>1. s \in Session /\ Len(t) \in Nat
  <2>1. s \in Session /\ t \in Seq(Session)
    BY Constants DEF TypeOK, Text, Faithful
  <2>. QED
    BY <2>1, LenProperties
<1>2. Len(t) <= data[s] /\ SubSeq(buf[s], 1, Len(t)) = t
  BY DEF Appending
<1>3. data[s] \in Nat /\ data'[s] \in Nat /\ data'[s] >= data[s]
  BY <1>1 DEF Shape
<1> HIDE DEF t
<1>4. Len(t) <= data'[s] /\ SubSeq(buf'[s], 1, Len(t)) = t
  BY <1>1, <1>2, <1>3
<1>. QED
  BY <1>4 DEF t

LEMMA AppendStep == TypeOK /\ Shape /\ Fresh /\ Appending /\ [Next]_vars => Appending'
<1> SUFFICES ASSUME TypeOK, Shape, Fresh, Appending, [Next]_vars
             PROVE  Appending'
  OBVIOUS
<1>1. /\ \A s \in Session : /\ data[s] \in Nat /\ data[s] <= Len(buf[s])
                            /\ buf[s] \in Seq(Session) /\ Len(buf[s]) \in Nat
      /\ TypeOK' /\ Shape' /\ data' \in [Session -> Nat]
  <2>1. \A s \in Session : buf[s] \in Seq(Session)
    BY DEF TypeOK, Text
  <2>. QED
    BY <2>1, LenProperties, TypeStep DEF TypeOK, Shape
<1>2. ASSUME NEW n \in Name, NEW append \in BOOLEAN, fopenAtomic(n, append)
      PROVE  Appending'
  <2> DEFINE new == opens'
  <2>1. PICK start \in Text :
        /\ new \in Session /\ Len(start) \in Nat
        /\ append => start = real[FileOf[n]].text \/ new \in unread'
        /\ unread \subseteq unread' /\ overtaken' = overtaken
        /\ name' = [name EXCEPT ![new] = n]
        /\ appends' = IF append THEN appends \cup {new} ELSE appends
        /\ buf' = [buf EXCEPT ![new] = start]
        /\ data' = [data EXCEPT ![new] = Len(start)]
        /\ new \notin Records /\ Records' = Records \cup {new} /\ real' = real
    BY <1>2, OpenType
  <2>2. new \notin appends
    <3>1. new > opens
      BY <1>2, OpenType
    <3>. QED
      BY <2>1, <3>1 DEF Fresh
  <2> HIDE DEF new
  <2>4. /\ name'[new] = n /\ buf'[new] = start /\ data'[new] = Len(start)
        /\ \A s \in Session \ {new} : /\ name'[s] = name[s] /\ buf'[s] = buf[s]
                                      /\ data'[s] = data[s]
    BY <2>1 DEF TypeOK, Shape
  <2>5. SubSeq(start, 1, Len(start)) = start
    BY <2>1, SubSeqFull DEF Text
  <2> SUFFICES ASSUME NEW s \in Faithful'
               PROVE  LET t == real[FileOf[name'[s]]].text
                      IN  Len(t) <= data'[s] /\ SubSeq(buf'[s], 1, Len(t)) = t
    BY <2>1 DEF Appending
  <2>6. CASE s = new
    <3>1. append /\ new \notin unread'
      BY <2>1, <2>2, <2>6 DEF Faithful
    <3>2. start = real[FileOf[n]].text
      BY <2>1, <3>1
    <3>3. Len(start) <= Len(start)
      BY <2>1
    <3>. QED
      BY <2>4, <2>5, <2>6, <3>2, <3>3
  <2>7. CASE s # new
    <3>1. s \in Faithful /\ s \in Session
      BY <2>1, <2>7, ListFacts DEF Faithful
    <3>. QED
      BY <2>4, <2>7, <3>1 DEF Appending
  <2>. QED
    BY <2>6, <2>7
<1>3. ASSUME UNCHANGED <<name, appends, unread, overtaken, real, buf, data>>,
             Records' \subseteq Records
      PROVE  Appending'
  <2>1. \A s \in Session : data'[s] >= data[s]
    BY <1>1, <1>3
  <2>. QED
    BY <1>1, <1>3, <2>1, AppendingKept
<1>4. ASSUME NEW n \in Name, CopyReadFails(n)
      PROVE  Appending'
  BY <1>3, <1>4 DEF CopyReadFails, sessionVars, diskVars, Records
<1>5. ASSUME NEW s \in Session, fwrite(s)
      PROVE  Appending'
  <2>0. UNCHANGED <<atomicList, name, appends, unread, overtaken, real>>
    BY <1>5 DEF fwrite, sessionVars, diskVars
  <2>1. PICK b \in {buf[s], Append(buf[s], s)} :
          /\ buf' = [buf EXCEPT ![s] = b]
          /\ \E n \in {data[s], Len(b)} : data' = [data EXCEPT ![s] = n]
    BY <1>5 DEF fwrite
  <2>2. PICK n \in {data[s], Len(b)} : data' = [data EXCEPT ![s] = n]
    BY <2>1
  <2>3. n >= data[s]
    <3>1. Len(Append(buf[s], s)) = Len(buf[s]) + 1
      BY <1>1, AppendProperties
    <3>. QED
      BY <1>1, <3>1
  <2>4. \A t \in Session : data'[t] >= data[t]
    BY <1>1, <2>2, <2>3 DEF Shape
  <2>5. ASSUME NEW t \in Session, NEW k \in Nat, k <= data[t]
        PROVE  SubSeq(buf'[t], 1, k) = SubSeq(buf[t], 1, k)
    <3>1. buf'[t] \in {buf[t], Append(buf[t], s)}
      BY <2>1 DEF TypeOK
    <3>2. k <= Len(buf[t])
      BY <1>1, <2>5
    <3>3. SubSeq(Append(buf[t], s), 1, k) = SubSeq(buf[t], 1, k)
      BY <1>1, <3>2, AppendKeepsPrefix
    <3>. QED
      BY <3>1, <3>3
  <2>6. Records' \subseteq Records
    BY <2>0 DEF Records
  <2>. QED
    BY <1>1, <2>0, <2>4, <2>5, <2>6, AppendingKept
<1>6. ASSUME NEW s \in Session, NEW op \in {"flush", "abort"}, Begin(s, op)
      PROVE  Appending'
  BY <1>3, <1>6 DEF Begin, sessionVars, diskVars, Records
<1>7. CASE UseFreedFile
  BY <1>3, <1>7 DEF UseFreedFile, sessionVars, diskVars, Records
<1>8. CASE Flush
  <2>1. InCall /\ Stream # Closed
    BY <1>8 DEF Flush, InCall
  <2> DEFINE t == Stream
  <2>2. PICK n \in data[t]..Len(buf[t]) : data' = [data EXCEPT ![t] = n]
    BY <1>8 DEF Flush
  <2>3. t \in Session
    BY <2>1, StreamType
  <2>4. UNCHANGED <<atomicList, name, appends, unread, overtaken, real, buf>>
    BY <1>8 DEF Flush, sessionVars, diskVars
  <2> HIDE DEF t
  <2>5. n >= data[t]
    BY <1>1, <2>2, <2>3
  <2>6. \A s \in Session : data'[s] >= data[s]
    BY <1>1, <2>2, <2>3, <2>5 DEF Shape
  <2>7. Records' \subseteq Records
    BY <2>4 DEF Records
  <2>. QED
    BY <1>1, <2>4, <2>6, <2>7, AppendingKept
<1>9. CASE Sync
  BY <1>3, <1>9 DEF Sync, sessionVars, diskVars, Records
<1>10. CASE CloseStream
  BY <1>3, <1>10 DEF CloseStream, sessionVars, diskVars, Records
<1>11. CASE Rename
  <2>1. call.rec \in Records
    BY <1>11 DEF Rename, InCall, Shape
  <2>2. Forget(call.rec) /\ UNCHANGED <<name, appends, unread, buf, data>>
    BY <1>11 DEF Rename, sessionVars
  <2>3. Records' = Records \ {call.rec}
    BY <2>1, <2>2, Forgotten
  <2>4. CASE UNCHANGED diskVars
    BY <1>3, <2>2, <2>3, <2>4 DEF diskVars
  <2>5. CASE RenameTo(FileOf[name[call.rec]])
    <3> SUFFICES ASSUME NEW s \in Faithful', NEW x, x = FileOf[name[s]]
                 PROVE  LET t == real'[x].text
                        IN  Len(t) <= data[s] /\ SubSeq(buf[s], 1, Len(t)) = t
      BY <2>2 DEF Appending
    <3>1. s \in Records /\ s # call.rec /\ s \in Session /\ call.rec \in Session
      BY <2>1, <2>3, ListFacts DEF Faithful
    <3>2. FileOf[name[call.rec]] # x
      BY <2>5, <3>1, ListFacts DEF RenameTo, Faithful
    <3>3. s \in Faithful
      BY <2>2, <2>5, <3>1 DEF RenameTo, Faithful
    <3>4. real'[x] = real[x]
      BY <2>5, <3>2, Constants, <3>1 DEF RenameTo, TypeOK
    <3>. QED
      BY <3>3, <3>4 DEF Appending
  <2>. QED
    BY <1>11, <2>4, <2>5 DEF Rename
<1>12. CASE AbortGuts
  <2>1. call.rec \in Records
    BY <1>12 DEF AbortGuts, InCall, Shape
  <2>2. Records' \subseteq Records
    BY <1>12, <2>1, Forgotten DEF AbortGuts, sessionVars, Records
  <2>. QED
    BY <1>3, <1>12, <2>2 DEF AbortGuts, sessionVars, diskVars
<1>13. CASE fabortAllAtomic
  <2>1. atomicList' = atomicList \/ (atomicList # <<>> /\ atomicList' = Tail(atomicList))
    BY <1>13 DEF fabortAllAtomic
  <2>2. UNCHANGED <<name, appends, unread, overtaken, real, buf, data>>
    BY <1>13 DEF fabortAllAtomic, sessionVars, diskVars
  <2>3. Records' \subseteq Records
    BY <2>1, <2>2, HeadForgotten DEF Records
  <2>. QED
    BY <1>3, <2>2, <2>3
<1>14. CASE Crash
  <2>1. Len(atomicList') = 0
    BY <1>14, EmptySeq DEF Crash
  <2>2. Records' = {}
    BY <2>1 DEF Records
  <2>. QED
    BY <2>2 DEF Appending, Faithful
<1>15. CASE UNCHANGED vars
  BY <1>3, <1>15 DEF vars, Records
<1>. QED
  BY <1>2, <1>4, <1>5, <1>6, <1>7, <1>8, <1>9, <1>10, <1>11, <1>12, <1>13, <1>14, <1>15
     DEF Next, fcloseAtomic, fabortAtomic

(* Without an error of fclose, what the client of a call closes is what its *)
(* record names, and nothing else of Sound changes but by that.             *)
LEMMA SoundStep ==
  TypeOK /\ Shape /\ Fresh /\ (freedByError \/ Sound) /\ [Next]_vars
    => freedByError' \/ Sound'
<1> SUFFICES ASSUME TypeOK, Shape, Fresh, Sound, ~freedByError', [Next]_vars
             PROVE  Sound'
  BY DEF Next, fopenAtomic, CopyAndOpen, OpenUnread, OpenWith, CopyReadFails, fwrite, Begin, fcloseAtomic, fabortAtomic,
         UseFreedFile, Flush, Sync, CloseStream, Rename, AbortGuts, fabortAllAtomic, Crash, vars
<1>1. /\ Records \subseteq Session /\ ToSet(atomicList) = Records
      /\ OwnRecord /\ Flushed /\ Results /\ Versions
  BY ListFacts DEF Sound
<1>2. \A s \in Session : s \in committed => result[s] \in {"none", "ok", "gone"}
  BY <1>1 DEF Results, TypeOK
<1>3. ASSUME InCall
      PROVE  /\ call.mine \in Session /\ call.rec = call.mine /\ result[call.mine] = "open"
             /\ call.mine \in Records /\ file[call.mine] \in FP
             /\ call.op # "rename" => Stream = call.mine /\ Stream # Closed
  <2>1. /\ call.mine \in Session /\ call.rec = call.mine /\ result[call.mine] = "open"
        /\ call.mine \in Records /\ file[call.mine] \in FP
    BY <1>1, <1>3, StreamType DEF OwnRecord, Shape
  <2>2. call.op # "rename" => Stream = call.mine
    BY <1>1, <2>1 DEF OwnRecord, Stream
  <2>. QED
    BY <2>1, <2>2, Constants
<1>4. ASSUME NEW n \in Name, NEW append \in BOOLEAN, fopenAtomic(n, append)
      PROVE  Sound'
  <2> DEFINE new == opens'
  <2>1. /\ new \in Session /\ new > opens
        /\ name' = [name EXCEPT ![new] = n]
        /\ \E start \in Text : buf' = [buf EXCEPT ![new] = start]
        /\ result' = [result EXCEPT ![new] = "open"]
        /\ new \notin Records /\ Records' = Records \cup {new} /\ call = Idle
        /\ UNCHANGED <<real, replaced, committed, call>>
    BY <1>4, OpenType
  <2>2. PICK fp \in FP : /\ stream[fp] = Closed
                         /\ stream' = [stream EXCEPT ![fp] = new]
                         /\ file' = [file EXCEPT ![new] = fp]
    BY <1>4, OpenType
  <2>3. new \notin committed
    BY <2>1 DEF Fresh
  <2> HIDE DEF new
  <2>4. OwnRecord'
    <3>1. call'.op = "idle"
      BY <2>1 DEF Idle
    <3>2. stream'[file'[new]] = new
      BY <2>1, <2>2 DEF TypeOK
    <3>3. ASSUME NEW r \in Records
          PROVE  stream'[file'[r]] = r
      <4>1. r # new /\ r \in Session /\ stream[file[r]] = r
        BY <1>1, <2>1 DEF OwnRecord, Idle
      <4>2. file'[r] = file[r] /\ file[r] \in FP /\ file[r] # fp
        BY <2>1, <2>2, <4>1, Constants DEF TypeOK
      <4>. QED
        BY <2>2, <4>1, <4>2 DEF TypeOK
    <3>. QED
      BY <2>1, <3>1, <3>2, <3>3 DEF OwnRecord, InCall
  <2>5. Flushed'
    BY <2>1 DEF Flushed, Idle
  <2>6. Results'
    BY <1>1, <2>1, <2>3 DEF Results, TypeOK
  <2>7. Versions'
    <3>1. \A s \in committed : s \in Session /\ buf'[s] = buf[s] /\ name'[s] = name[s]
      BY <2>1, <2>3 DEF TypeOK
    <3>. QED
      BY <1>1, <2>1, <3>1 DEF Versions, Whole
  <2>. QED
    BY <2>4, <2>5, <2>6, <2>7 DEF Sound
<1>5. ASSUME NEW n \in Name, CopyReadFails(n)
      PROVE  Sound'
  <2>1. /\ call = Idle /\ call'.op = "copying"
        /\ UNCHANGED <<atomicList, name, file, stream, buf, data, synced, real, replaced,
                       committed, result>>
    BY <1>5, CallSteps DEF CopyReadFails, sessionVars, diskVars
  <2>. QED
    BY <1>1, <2>1 DEF Sound, OwnRecord, Flushed, Results, Versions, Whole, Records, InCall, Idle
<1>6. ASSUME NEW s \in Session, fwrite(s)
      PROVE  Sound'
  <2>1. /\ call = Idle /\ result[s] = "open" /\ call.op = "idle"
        /\ \E b \in {buf[s], Append(buf[s], s)} : buf' = [buf EXCEPT ![s] = b]
        /\ UNCHANGED <<atomicList, name, file, stream, real, replaced, committed, result, call>>
    BY <1>6, CallSteps DEF fwrite, sessionVars, diskVars
  <2>2. \A t \in committed : t \in Session /\ buf'[t] = buf[t]
    BY <1>2, <2>1 DEF TypeOK
  <2>3. Versions'
    BY <1>1, <2>1, <2>2 DEF Versions, Whole
  <2>. QED
    BY <1>1, <2>1, <2>3 DEF Sound, OwnRecord, Flushed, Results, Records, InCall
<1>7. ASSUME NEW s \in Session, NEW op \in {"flush", "abort"}, Begin(s, op)
      PROVE  Sound'
  <2>1. /\ call.op = "idle" /\ result[s] = "open" /\ PlacesOf(file[s]) # {}
        /\ call' = [op |-> op, mine |-> s, rec |-> RecordOf(file[s])]
        /\ UNCHANGED <<atomicList, name, file, stream, buf, data, synced, real, replaced,
                       committed, result>>
    BY <1>7, CallSteps DEF Begin, sessionVars, diskVars
  <2>2. RecordOf(file[s]) = s
    <3>1. RecordOf(file[s]) \in Records /\ file[RecordOf(file[s])] = file[s] /\ s \in Records
      BY <1>1, <2>1, FoundRecord DEF Results
    <3>. QED
      BY <1>1, <2>1, <3>1 DEF OwnRecord
  <2>. QED
    BY <1>1, <2>1, <2>2 DEF Sound, OwnRecord, Flushed, Results, Versions, Whole, Records, InCall
<1>8. ASSUME InCall, call.op # "rename", Return("failed"),
             UNCHANGED <<atomicList, name, file, stream, buf, diskVars>>
      PROVE  Sound'
  <2>1. /\ call'.op = "idle" /\ ~InCall' /\ result'[call.mine] = "failed"
        /\ \A s \in Session \ {call.mine} : result'[s] = result[s]
    BY <1>8, ReturnType
  <2>2. Records' = Records
    BY <1>8 DEF Records
  <2>3. Results'
    BY <1>1, <1>3, <1>8, <2>1, <2>2 DEF Results, diskVars
  <2>. QED
    BY <1>1, <1>8, <2>1, <2>2, <2>3
       DEF Sound, OwnRecord, Flushed, Versions, Whole, diskVars
<1>9. CASE UseFreedFile
  BY <1>3, <1>9 DEF UseFreedFile, InCall
<1>10. CASE Flush
  <2>1. InCall /\ call.op = "flush" /\ Stream = call.mine /\ call.rec = call.mine
    BY <1>3, <1>10 DEF Flush, InCall
  <2>2. UNCHANGED <<atomicList, name, file, stream, buf, diskVars>>
    BY <1>10 DEF Flush, sessionVars
  <2>3. CASE Return("failed")
    BY <1>8, <2>1, <2>2, <2>3
  <2>4. CASE ~Return("failed")
    <3>1. /\ data' = [data EXCEPT ![call.mine] = Len(buf[call.mine])]
          /\ Goto("sync")
      BY <1>10, <2>1, <2>4 DEF Flush
    <3>2. /\ call'.op = "sync" /\ call'.mine = call.mine /\ call'.rec = call.rec
          /\ result' = result
      BY <2>1, <3>1, GotoType
    <3>3. Flushed'
      <4>1. data'[call.rec] = Len(buf[call.rec])
        BY <1>3, <2>1, <3>1 DEF Shape
      <4>. QED
        BY <2>2, <3>2, <4>1 DEF Flushed
    <3>. QED
      BY <1>1, <1>3, <2>1, <2>2, <3>2, <3>3
         DEF Sound, OwnRecord, Results, Versions, Whole, Records, InCall, diskVars
  <2>. QED
    BY <2>3, <2>4
<1>11. CASE Sync
  <2>1. InCall /\ call.op = "sync" /\ Stream = call.mine /\ call.rec = call.mine
    BY <1>3, <1>11 DEF Sync, InCall
  <2>2. UNCHANGED <<atomicList, name, file, stream, buf, data, diskVars>>
    BY <1>11 DEF Sync, sessionVars
  <2>3. CASE Return("failed")
    BY <1>8, <2>1, <2>2, <2>3
  <2>4. CASE ~Return("failed")
    <3>1. /\ synced' = [synced EXCEPT ![call.mine] = data[call.mine]]
          /\ Goto("close")
      BY <1>11, <2>1, <2>4 DEF Sync
    <3>2. /\ call'.op = "close" /\ call'.mine = call.mine /\ call'.rec = call.rec
          /\ result' = result
      BY <2>1, <3>1, GotoType
    <3>3. Flushed'
      <4>1. synced'[call.rec] = data[call.rec] /\ data[call.rec] = Len(buf[call.rec])
        BY <1>1, <1>3, <2>1, <3>1 DEF Shape, Flushed
      <4>. QED
        BY <2>2, <3>2, <4>1 DEF Flushed
    <3>. QED
      BY <1>1, <1>3, <2>1, <2>2, <3>2, <3>3
         DEF Sound, OwnRecord, Results, Versions, Whole, Records, InCall, diskVars
  <2>. QED
    BY <2>3, <2>4
<1>12. ASSUME NEW r \in Records, call.op # "rename",
              UNCHANGED <<file, name, buf, diskVars>>,
              stream' = [stream EXCEPT ![file[r]] = Closed]
       PROVE  \A q \in Records \ {r} : stream'[file[q]] = q
  <2> SUFFICES ASSUME NEW q \in Records \ {r} PROVE stream'[file[q]] = q
    OBVIOUS
  <2>1. stream[file[q]] = q /\ stream[file[r]] = r
    BY <1>1, <1>12 DEF OwnRecord
  <2>2. file[q] # file[r] /\ file[q] \in FP
    BY <1>1, <2>1 DEF TypeOK
  <2>. QED
    BY <1>12, <2>1, <2>2 DEF TypeOK
<1>13. CASE CloseStream
  <2>1. InCall /\ call.op = "close"
    BY <1>13 DEF CloseStream, InCall
  <2>2. /\ stream' = [stream EXCEPT ![file[call.mine]] = Closed] /\ Goto("rename")
        /\ UNCHANGED <<atomicList, name, file, buf, data, synced, diskVars>>
    BY <1>13 DEF CloseStream, sessionVars
  <2>3. /\ call'.op = "rename" /\ call'.mine = call.mine /\ call'.rec = call.rec
        /\ result' = result
    BY <2>1, <2>2, GotoType
  <2>4. \A q \in Records \ {call.mine} : stream'[file[q]] = q
    BY <1>3, <1>12, <2>1, <2>2
  <2>5. OwnRecord'
    BY <1>3, <2>1, <2>2, <2>3, <2>4 DEF OwnRecord, Records, InCall
  <2>. QED
    BY <1>1, <2>1, <2>2, <2>3, <2>5
       DEF Sound, Flushed, Results, Versions, Whole, Records, diskVars
<1>14. CASE Rename
  <2> DEFINE r == call.rec  f == FileOf[name[r]]
  <2>1. /\ InCall /\ call.op = "rename" /\ r \in Records /\ r \in Session /\ call.mine = r
        /\ result[r] = "open"
    BY <1>3, <1>14 DEF Rename, InCall
  <2>2. /\ Forget(r) /\ UNCHANGED <<name, file, stream, buf, data, synced>>
        /\ \/ RenameTo(f) /\ Return("ok")
           \/ UNCHANGED diskVars /\ Return("failed")
    BY <1>14 DEF Rename, sessionVars
  <2>3. Records' = Records \ {r}
    BY <2>1, <2>2, Forgotten
  <2>4. call'.op = "idle" /\ ~InCall' /\ \A s \in Session \ {r} : result'[s] = result[s]
    BY <2>1, <2>2, ReturnType
  <2>5. r \notin committed
    BY <1>2, <2>1
  <2>6. OwnRecord' /\ Flushed'
    BY <1>1, <2>1, <2>2, <2>3, <2>4 DEF OwnRecord, Flushed
  <2>7. CASE RenameTo(f) /\ Return("ok")
    <3>1. result'[r] = "ok"
      BY <2>1, <2>7, ReturnType
    <3>2. committed' = committed \cup {r}
      BY <2>7 DEF RenameTo
    <3>3. Results'
      BY <1>1, <2>1, <2>3, <2>4, <3>1, <3>2 DEF Results
    <3>4. Versions'
      <4>1. /\ f \in File /\ buf[r] \in Seq(Session) /\ data[r] = Len(buf[r])
            /\ synced[r] = data[r]
        BY <1>1, <2>1, Constants DEF Flushed, TypeOK, Text
      <4>2. SubSeq(buf[r], 1, data[r]) = buf[r]
        BY <4>1, SubSeqFull
      <4>3. /\ real' = [real EXCEPT ![f] = [text |-> buf[r], safe |-> Len(buf[r])]]
            /\ replaced' = [replaced EXCEPT ![f] = @ \cup {real[f]}]
        BY <2>7, <4>1, <4>2 DEF RenameTo
      <4>4. name' = name /\ buf' = buf
        BY <2>2
      <4> HIDE DEF r
      <4> SUFFICES ASSUME NEW g \in File, NEW v \in replaced'[g] \cup {real'[g]}
                   PROVE  v.safe = Len(v.text) /\ Whole(g, v.text)'
        BY DEF Versions, Whole
      <4>5. CASE v \in replaced[g] \cup {real[g]}
        BY <1>1, <3>2, <4>4, <4>5 DEF Versions, Whole
      <4>6. CASE v \notin replaced[g] \cup {real[g]}
        <5>1. g = f /\ v = [text |-> buf[r], safe |-> Len(buf[r])]
          <6> HIDE DEF f
          <6>. QED
            BY <4>1, <4>3, <4>6 DEF TypeOK, Shape
        <5>2. r \in committed' /\ FileOf[name'[r]] = g /\ v.text = buf'[r]
          BY <3>2, <4>4, <5>1
        <5>. QED
          BY <5>1, <5>2 DEF Whole
      <4>. QED
        BY <4>5, <4>6
    <3>. QED
      BY <2>6, <3>3, <3>4 DEF Sound
  <2>8. CASE UNCHANGED diskVars /\ Return("failed")
    <3>1. result'[r] = "failed"
      BY <2>1, <2>8, ReturnType
    <3>2. Results'
      BY <1>1, <2>1, <2>3, <2>4, <2>5, <2>8, <3>1 DEF Results, diskVars
    <3>3. Versions'
      BY <1>1, <2>2, <2>8 DEF Versions, Whole, diskVars
    <3>. QED
      BY <2>6, <3>2, <3>3 DEF Sound
  <2>. QED
    BY <2>2, <2>7, <2>8
<1>15. CASE AbortGuts
  <2> DEFINE r == call.mine
  <2>1. /\ InCall /\ call.op = "abort" /\ r \in Records /\ r \in Session /\ call.rec = r
        /\ result[r] = "open"
    BY <1>3, <1>15 DEF AbortGuts, InCall
  <2>2. /\ stream' = [stream EXCEPT ![file[r]] = Closed]
        /\ Forget(call.rec) /\ Return("aborted")
        /\ UNCHANGED <<name, file, buf, data, synced, diskVars>>
    BY <1>15 DEF AbortGuts, sessionVars
  <2>3. Records' = Records \ {r}
    BY <2>1, <2>2, Forgotten
  <2>4. /\ call'.op = "idle" /\ ~InCall' /\ result'[r] = "aborted"
        /\ \A s \in Session \ {r} : result'[s] = result[s]
    BY <2>1, <2>2, ReturnType
  <2>5. \A q \in Records \ {r} : stream'[file[q]] = q
    BY <1>12, <2>1, <2>2
  <2>6. r \notin committed
    BY <1>2, <2>1
  <2> HIDE DEF r
  <2>7. OwnRecord' /\ Flushed'
    BY <2>2, <2>3, <2>4, <2>5 DEF OwnRecord, Flushed
  <2>8. Results'
    BY <1>1, <2>2, <2>3, <2>4, <2>6 DEF Results, diskVars
  <2>9. Versions'
    BY <1>1, <2>2 DEF Versions, Whole, diskVars
  <2>. QED
    BY <2>7, <2>8, <2>9 DEF Sound
<1>16. CASE fabortAllAtomic
  <2>1. CASE atomicList = <<>>
    <3>1. /\ call' = Idle
          /\ UNCHANGED <<atomicList, stream, result, sessionVars, buf, data, synced, diskVars>>
          /\ call.op = "abortAll"
      BY <1>16, <2>1 DEF fabortAllAtomic
    <3>. QED
      BY <1>1, <3>1, CallSteps DEF Sound, OwnRecord, Flushed, Results, Versions, Whole, Records,
         InCall, sessionVars, diskVars
  <2>2. CASE atomicList # <<>>
    <3> DEFINE r == Head(atomicList)
    <3>1. r \in Records /\ r \in Session
      BY <1>1, <2>2, HeadRecord
    <3>2. /\ call.op # "rename"
          /\ result' = [result EXCEPT ![r] = "aborted"]
          /\ stream' = [stream EXCEPT ![file[r]] = Closed]
          /\ atomicList' = Tail(atomicList) /\ call' = [Idle EXCEPT !.op = "abortAll"]
          /\ UNCHANGED <<name, file, buf, data, synced, diskVars>>
      BY <1>16, <2>2 DEF fabortAllAtomic, sessionVars
    <3>3. Records' = Records \ {r}
      BY <2>2, <3>2, HeadForgotten
    <3>4. call'.op = "abortAll"
      BY <3>2, CallSteps
    <3>5. \A q \in Records \ {r} : stream'[file[q]] = q
      BY <1>12, <3>1, <3>2
    <3>6. r \notin committed
      BY <1>1, <3>1 DEF Results
    <3> HIDE DEF r
    <3>7. OwnRecord' /\ Flushed'
      BY <3>2, <3>3, <3>4, <3>5 DEF OwnRecord, Flushed, InCall
    <3>8. Results'
      BY <1>1, <3>1, <3>2, <3>3, <3>6 DEF Results, diskVars, TypeOK
    <3>9. Versions'
      BY <1>1, <3>2 DEF Versions, Whole, diskVars
    <3>. QED
      BY <3>7, <3>8, <3>9 DEF Sound
  <2>. QED
    BY <2>1, <2>2
<1>17. CASE Crash
  <2>1. PICK t \in [File -> UNION {Survivors(f) : f \in File}] :
          /\ \A f \in File : t[f] \in Survivors(f)
          /\ real' = [f \in File |-> [text |-> t[f], safe |-> Len(t[f])]]
    BY <1>17 DEF Crash
  <2>2. /\ call' = Idle /\ replaced' = [f \in File |-> {}]
        /\ result' = [s \in Session |-> IF s <= opens THEN "gone" ELSE "none"]
        /\ UNCHANGED <<name, file, buf, committed>>
    BY <1>17 DEF Crash, sessionVars
  <2>3. Records' = {}
    <3>1. Len(atomicList') = 0
      BY <1>17, EmptySeq DEF Crash
    <3>. QED
      BY <3>1 DEF Records
  <2>4. ASSUME NEW f \in File
        PROVE  Whole(f, t[f])
    <3>1. PICK v \in replaced[f] \cup {real[f]} :
            \E n \in v.safe..Len(v.text) : t[f] = SubSeq(v.text, 1, n)
      BY <2>1 DEF Survivors
    <3>2. v \in Version /\ v.safe = Len(v.text) /\ Whole(f, v.text)
      BY <1>1 DEF TypeOK, Shape, Version, Versions
    <3>3. v.text \in Seq(Session) /\ Len(v.text) \in Nat
      BY <3>2, LenProperties DEF Version, Text
    <3>4. t[f] = SubSeq(v.text, 1, Len(v.text))
      BY <3>1, <3>2, <3>3
    <3>. QED
      BY <3>2, <3>3, <3>4, SubSeqFull
  <2>5. Versions'
    BY <2>1, <2>2, <2>4 DEF Versions, Whole
  <2>6. OwnRecord' /\ Flushed' /\ Results'
    BY <2>2, <2>3, CallSteps DEF OwnRecord, Flushed, Results, InCall
  <2>. QED
    BY <2>5, <2>6 DEF Sound
<1>18. CASE UNCHANGED vars
  BY <1>1, <1>18 DEF vars, Sound, OwnRecord, Flushed, Results, Versions, Whole, Records, InCall
<1>. QED
  BY <1>4, <1>5, <1>6, <1>7, <1>9, <1>10, <1>11, <1>13, <1>14, <1>15, <1>16, <1>17, <1>18
     DEF Next, fcloseAtomic, fabortAtomic

-----------------------------------------------------------------------------
(* The theorems *)

LEMMA InitInv == Init => IInv
<1> SUFFICES ASSUME Init PROVE IInv
  OBVIOUS
<1>1. (CHOOSE n \in Name : TRUE) \in Name /\ (CHOOSE f \in FP : TRUE) \in FP
  BY Constants
<1>2. <<>> \in Seq(Session) /\ Len(<<>>) = 0 /\ 0 \in 0..MaxOpens
  BY Constants, EmptySeq
<1>3. Records = {} /\ Idle.op = "idle" /\ Idle \in CallType
  BY <1>2 DEF Init, Records, Idle, CallType
<1>4. TypeOK
  <2>1. /\ atomicList \in Seq(Session) /\ name \in [Session -> Name] /\ file \in [Session -> FP]
        /\ appends \subseteq Session /\ stream \in [FP -> Session \cup {Closed}]
        /\ unread \subseteq Session /\ overtaken \subseteq Session
        /\ committed \subseteq Session /\ freedByError \in BOOLEAN
    BY <1>1, <1>2 DEF Init
  <2>2. /\ buf \in [Session -> Text] /\ opens \in 0..MaxOpens /\ call.op = "idle"
        /\ result \in [Session -> {"none", "open", "ok", "failed", "aborted", "gone"}]
    BY <1>2, <1>3 DEF Init, Text
  <2>3. real \in [File -> [text : Text, safe : Nat]]
    BY <1>2 DEF Init, Text
  <2>4. \A s \in Session : synced[s] <= data[s] /\ data[s] <= Len(buf[s])
    BY <1>2 DEF Init
  <2>5. \A i, j \in 1..Len(atomicList) : name[atomicList[i]] = name[atomicList[j]] => i = j
    BY <1>2 DEF Init
  <2>. QED
    BY <2>1, <2>2, <2>3, <2>4, <2>5 DEF TypeOK
<1>5. Shape
  BY <1>3 DEF Init, Shape, InCall, Idle
<1>6. Fresh
  BY <1>3, Constants DEF Init, Fresh
<1>7. Appending
  BY <1>3 DEF Appending, Faithful
<1>8. Sound
  BY <1>2, <1>3 DEF Init, Sound, OwnRecord, Flushed, Results, Versions, Whole, InCall
<1>. QED
  BY <1>4, <1>5, <1>6, <1>7, <1>8 DEF IInv

LEMMA Inductive == IInv /\ [Next]_vars => IInv'
<1> SUFFICES ASSUME IInv, [Next]_vars PROVE IInv'
  OBVIOUS
<1>1. TypeOK /\ Shape /\ Fresh /\ Appending /\ (freedByError \/ Sound)
  BY DEF IInv
<1>2. TypeOK' /\ Shape'
  BY <1>1, TypeStep
<1>3. Fresh'
  BY <1>1, FreshStep
<1>4. Appending'
  BY <1>1, AppendStep
<1>5. freedByError' \/ Sound'
  BY <1>1, SoundStep
<1>. QED
  BY <1>2, <1>3, <1>4, <1>5 DEF IInv

LEMMA Invariant == Spec => []IInv
  BY InitInv, Inductive, PTL DEF Spec

(* The variables keep their types, no two records have one real name, and   *)
(* no more is synced than stdio has written.                                *)
THEOREM AtomicTypeCorrect == Spec => []TypeOK
<1>1. IInv => TypeOK
  BY DEF IInv
<1>. QED
  BY <1>1, Invariant, PTL

(* A file is completely changed or completely unchanged, and the client is  *)
(* told which, whatever call of fcloseAtomic fails and whenever the machine *)
(* crashes, until fclose frees a FILE and reports an error.                 *)
THEOREM FilesChangeAsTold == Spec => []ChangedAsTold
<1>1. IInv => ChangedAsTold
  <2> SUFFICES ASSUME IInv, ~freedByError PROVE ChangedAsTold
    BY DEF ChangedAsTold
  <2>1. TypeOK /\ Results /\ Versions
    BY DEF IInv, Sound
  <2>2. AllOrNothing
    <3> SUFFICES ASSUME NEW f \in File
                 PROVE  \/ real[f].text = <<>>
                        \/ \E s \in committed : FileOf[name[s]] = f /\ real[f].text = buf[s]
      BY DEF AllOrNothing
    <3>1. Whole(f, real[f].text)
      BY <2>1 DEF Versions
    <3>. QED
      BY <3>1 DEF Whole
  <2>. QED
    BY <2>1, <2>2 DEF ChangedAsTold, Results
<1>. QED
  BY <1>1, Invariant, PTL

(* A session that appends keeps all that is in the file when it commits,    *)
(* unless the file could not be opened when it began or a session under     *)
(* another name of the file was committed since.                            *)
THEOREM AppendsKeepContent == Spec => AppendKeepsContent
<1>1. ASSUME IInv, [Next]_vars, NEW s \in appends, NEW f,
             call.op = "rename", call.rec = s, FileOf[name[s]] = f,
             s \notin unread \cup overtaken, result'[call.mine] = "ok"
      PROVE  IsPrefix(real[f].text, real'[f].text)
  <2>1. TypeOK /\ Shape /\ Appending
    BY <1>1 DEF IInv
  <2>2. /\ InCall /\ s \in Session /\ s \in Records /\ call.mine \in Session
        /\ f \in File /\ real[f].text \in Seq(Session) /\ buf[s] \in Seq(Session)
        /\ data[s] \in Nat /\ data[s] <= Len(buf[s])
    <3>1. InCall /\ s \in Records /\ s \in Session
      BY <1>1, <2>1 DEF InCall, Shape, TypeOK
    <3>2. call.mine \in Session
      BY <2>1, <3>1, StreamType
    <3>3. f \in File
      BY <1>1, <2>1, <3>1, Constants DEF TypeOK
    <3>. QED
      BY <2>1, <3>1, <3>2, <3>3 DEF TypeOK, Shape, Text
  <2> DEFINE old == real[f].text
             new == SubSeq(buf[s], 1, data[s])
  <2>3. Len(old) <= data[s] /\ SubSeq(buf[s], 1, Len(old)) = old
    BY <1>1, <2>1, <2>2 DEF Appending, Faithful
  <2>4. IsPrefix(old, new)
    <3>1. Len(old) \in Nat /\ Len(buf[s]) \in Nat
      BY <2>2, LenProperties
    <3>2. data[s] \in 0..Len(buf[s])
      BY <2>2, <3>1
    <3>3. SubSeq(new, 1, Len(old)) = SubSeq(buf[s], 1, Len(old))
      BY <2>2, <2>3, <3>1, <3>2, PrefixOfPrefix
    <3>4. Len(new) = data[s]
      BY <2>2, <3>2, Prefix
    <3>5. SubSeq(old, 1, Len(old)) = old
      BY <2>2, SubSeqFull
    <3>. QED
      BY <2>3, <3>3, <3>4, <3>5 DEF IsPrefix
  <2>5. CASE real' = real
    <3>1. Len(old) \in Nat
      BY <2>2, LenProperties
    <3>. QED
      BY <2>5, <3>1 DEF IsPrefix
  <2>6. CASE Rename
    <3>1. Return("failed") => result'[call.mine] = "failed"
      BY <2>2, ReturnType, <2>1
    <3>2. RenameTo(f)
      BY <1>1, <2>6, <3>1 DEF Rename
    <3>3. real'[f].text = new
      BY <1>1, <2>1, <2>2, <3>2 DEF RenameTo, TypeOK
    <3>. QED
      BY <2>4, <3>3
  <2>7. ~Crash
    BY <1>1, <2>2 DEF Crash
  <2>. QED
    BY <1>1, <2>5, <2>6, <2>7
       DEF Next, fopenAtomic, CopyAndOpen, OpenUnread, OpenWith, CopyReadFails, fwrite, Begin,
           fcloseAtomic, fabortAtomic, UseFreedFile, Flush, Sync, CloseStream, AbortGuts, fabortAllAtomic, diskVars, vars
<1>2. IInv /\ [Next]_vars =>
        \A f \in File, s \in appends :
          /\ call.op = "rename" /\ call.rec = s /\ FileOf[name[s]] = f
          /\ result'[call.mine] = "ok"
          => \/ IsPrefix(real[f].text, real'[f].text)
             \/ s \in unread \cup overtaken
  BY <1>1
<1>. QED
  BY <1>2, Invariant, PTL DEF Spec, AppendKeepsContent
=============================================================================
